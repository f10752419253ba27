---------------------------- MODULE CommandGate -----------------------------
(***************************************************************************)
(* Who may give a command in a chat, and how often: the moderators of      *)
(* chat_moderators behind the cache of the process, the administrators of  *)
(* Telegram behind the list in Redis, and the cooldown of /stats and       *)
(* /summary.                                                               *)
(*                                                                         *)
(* The updates of a chat are handled one after the other: one worker.  A   *)
(* check is a list of calls, and while a call is under way time passes,    *)
(* moderators and administrators come and go, and the process or Redis may *)
(* restart.  The message gate fills the same list of administrators.       *)
(*                                                                         *)
(* Time is counted in ticks.  The age of a fact is the number of ticks     *)
(* since it last changed, and Old stands for everything older.             *)
(***************************************************************************)
EXTENDS Naturals, FiniteSetsExt

CONSTANTS
  Users,
  Changing,  \* bound: the users whose roles change
  Commands,  \* the commands given
  ModTtl,    \* MODERATOR_CACHE_TTL
  AdminTtl,  \* ADMINS_CACHE_TTL_SECS
  Cooldown,  \* COMMAND_COOLDOWN_SECS
  CallTime,  \* bound: ticks the calls of one check take together
  NoList,
  Faults     \* what may go wrong, a subset of FaultKinds

FaultKinds == {"crash",      \* the process dies and is restarted
               "redis",      \* a Redis command fails
               "redisLoss",  \* Redis restarts empty
               "database",   \* a query fails
               "telegram"}   \* get_chat_administrators fails

Limited == {"stats", "summary"}

ASSUME GateConstantsOK ==
  /\ Users # {} /\ \A S \in SUBSET Users : NoList # S
  /\ Commands \subseteq {"verify", "ban", "unban", "report"} \cup Limited
  /\ {ModTtl, AdminTtl, Cooldown} \subseteq Nat \ {0}
  /\ CallTime \in Nat
  /\ Changing \subseteq Users
  /\ Faults \subseteq FaultKinds

\* Ages from here on tell nothing apart.
Old == Max({ModTtl, AdminTtl, Cooldown}) + 2 * CallTime + 1
Ages == 0 .. Old
Older(age) == IF age = Old THEN Old ELSE age + 1

VARIABLES
  moderators, moderators_age,  \* chat_moderators, and how long each user has
                               \* been, or not been, in it
  admins, admins_age,          \* the same for Telegram's administrators
  moka, moka_age,              \* moderator_cache: the answer it holds for a user
  list, list_age,              \* cap:admins:{chat}
  cooldown,                    \* cmd:{cmd}:{chat}: ticks the key has left, 0 for no key
  passed,                      \* history: ticks since a command last got through
                               \* and Redis kept its data
  worker                       \* the step to do next, and what it remembers

roles == <<moderators, moderators_age, admins, admins_age>>
caches == <<moka, moka_age, list, list_age>>
limits == <<cooldown, passed>>
vars == <<roles, caches, limits, worker>>

Answers == {"none", "yes", "no"}
Steps == {"idle", "moka", "select", "insert", "redis", "telegram", "set_admins",
          "granted", "refused", "cooldown", "cooling", "run"}

TypeOK ==
  /\ moderators \subseteq Users /\ moderators_age \in [Users -> Ages]
  /\ admins \subseteq Users /\ admins_age \in [Users -> Ages]
  /\ moka \in [Users -> Answers] /\ moka_age \in [Users -> 0 .. ModTtl - 1]
  /\ list \in {NoList} \cup SUBSET Users /\ list_age \in 0 .. AdminTtl - 1
  /\ cooldown \in [Limited \cap Commands -> 0 .. Cooldown]
  /\ passed \in [Limited \cap Commands -> Ages]
  /\ worker \in [step : Steps, user : Users, command : Commands \cup {"gate"},
                 read : SUBSET Users, failed : BOOLEAN, waited : 0 .. CallTime]

AnyUser == CHOOSE u \in Users : TRUE
Idle == [step |-> "idle", user |-> AnyUser, command |-> "gate", read |-> {},
         failed |-> FALSE, waited |-> 0]

\* The roles have been as they are for long; the process begins with nothing.
Init ==
  /\ moderators \in SUBSET Users /\ admins \in SUBSET Users
  /\ moderators_age = [u \in Users |-> Old] /\ admins_age = [u \in Users |-> Old]
  /\ moka = [u \in Users |-> "none"] /\ moka_age = [u \in Users |-> 0]
  /\ list = NoList /\ list_age = 0
  /\ cooldown = [c \in Limited \cap Commands |-> 0]
  /\ passed = [c \in Limited \cap Commands |-> Old]
  /\ worker = Idle

me == worker.user
At(step) == worker.step = step
Go(step) == worker' = [worker EXCEPT !.step = step]
GoFailed(step) == worker' = [worker EXCEPT !.step = step, !.failed = TRUE]

\* What a check concludes; the message gate only wants to know.
Conclude(granted) ==
  IF worker.command = "gate" THEN worker' = Idle
  ELSE Go(IF granted THEN "granted" ELSE "refused")
-----------------------------------------------------------------------------
(***************************************************************************)
(* is_moderator_or_admin                                                   *)
(***************************************************************************)
\* A command of u arrives.
command(u, c) ==
  /\ At("idle")
  /\ worker' = [Idle EXCEPT !.step = "moka", !.user = u, !.command = c]
  /\ UNCHANGED <<roles, caches, limits>>

\* is_chat_admin, for a message of u.
is_chat_admin(u) ==
  /\ At("idle")
  /\ worker' = [Idle EXCEPT !.step = "redis", !.user = u]
  /\ UNCHANGED <<roles, caches, limits>>

\* Mutant: time_to_idle for time_to_live.
moderator_cache_get_Idle ==
  /\ At("moka")
  /\ CASE moka[me] = "yes"  -> Go("granted")
       [] moka[me] = "no"   -> Go("redis")
       [] moka[me] = "none" -> Go("select")
  /\ moka_age' = [moka_age EXCEPT ![me] = 0]
  /\ UNCHANGED <<roles, moka, list, list_age, limits>>

moderator_cache_get ==
  /\ At("moka")
  /\ CASE moka[me] = "yes"  -> Go("granted")
       [] moka[me] = "no"   -> Go("redis")
       [] moka[me] = "none" -> Go("select")
  /\ UNCHANGED <<roles, caches, limits>>

\* Mutant: a failed query counts as an answer.
select_moderator_Defaults ==
  /\ At("select")
  /\ \/ worker' = [worker EXCEPT !.step = "insert", !.read = moderators \cap {me}]
     \/ "database" \in Faults /\ GoFailed("insert")
  /\ UNCHANGED <<roles, caches, limits>>

\* An error is not cached, and leaves the decision to the administrators.
select_moderator ==
  /\ At("select")
  /\ \/ worker' = [worker EXCEPT !.step = "insert", !.read = moderators \cap {me}]
     \/ "database" \in Faults /\ GoFailed("redis")
  /\ UNCHANGED <<roles, caches, limits>>

moderator_cache_insert ==
  /\ At("insert")
  /\ moka' = [moka EXCEPT ![me] = IF me \in worker.read THEN "yes" ELSE "no"]
  /\ moka_age' = [moka_age EXCEPT ![me] = 0]
  /\ Go(IF me \in worker.read THEN "granted" ELSE "redis")
  /\ UNCHANGED <<roles, list, list_age, limits>>

\* An empty list is an answer too; only a miss or an error asks Telegram.
get_admins ==
  /\ At("redis")
  /\ \/ list # NoList /\ Conclude(me \in list)
     \/ list = NoList /\ Go("telegram")
     \/ "redis" \in Faults /\ Go("telegram")
  /\ UNCHANGED <<roles, caches, limits>>

\* Who has left or was banned is filtered out of the answer.
get_chat_administrators ==
  /\ At("telegram")
  /\ \/ worker' = [worker EXCEPT !.step = "set_admins", !.read = admins]
     \/ /\ "telegram" \in Faults
        /\ worker' = IF worker.command = "gate" THEN Idle
                     ELSE [worker EXCEPT !.step = "refused", !.failed = TRUE]
  /\ UNCHANGED <<roles, caches, limits>>

set_admins ==
  /\ At("set_admins")
  /\ \/ list' = worker.read /\ list_age' = 0
     \/ "redis" \in Faults /\ UNCHANGED <<list, list_age>>
  /\ Conclude(me \in worker.read)
  /\ UNCHANGED <<roles, moka, moka_age, limits>>
-----------------------------------------------------------------------------
(***************************************************************************)
(* After the check                                                         *)
(***************************************************************************)
refuse ==
  /\ At("refused") /\ worker' = Idle
  /\ UNCHANGED <<roles, caches, limits>>

proceed ==
  /\ At("granted")
  /\ Go(IF worker.command \in Limited THEN "cooldown" ELSE "run")
  /\ UNCHANGED <<roles, caches, limits>>

\* Mutant: SET EX GET, which starts the time anew whatever was there.
check_cooldown_Renews ==
  /\ At("cooldown")
  /\ LET c == worker.command IN
     /\ cooldown' = [cooldown EXCEPT ![c] = Cooldown]
     /\ \/ cooldown[c] = 0 /\ passed' = [passed EXCEPT ![c] = 0] /\ Go("run")
        \/ cooldown[c] # 0 /\ Go("cooling") /\ UNCHANGED passed
  /\ UNCHANGED <<roles, caches>>

\* SET NX EX; the key stays if the command fails after it.
check_cooldown ==
  /\ At("cooldown")
  /\ LET c == worker.command IN
     \/ /\ cooldown[c] = 0
        /\ cooldown' = [cooldown EXCEPT ![c] = Cooldown]
        /\ passed' = [passed EXCEPT ![c] = 0]
        /\ Go("run")
     \/ /\ cooldown[c] # 0 /\ Go("cooling")
        /\ UNCHANGED limits
     \/ /\ "redis" \in Faults /\ worker' = Idle
        /\ UNCHANGED limits
  /\ UNCHANGED <<roles, caches>>

\* "wait another so many seconds"
reply_remaining ==
  /\ At("cooling") /\ worker' = Idle
  /\ UNCHANGED <<roles, caches, limits>>

\* The command itself: Moderation, Reports and CaptchaBot have them.
run ==
  /\ At("run") /\ worker' = Idle
  /\ UNCHANGED <<roles, caches, limits>>
-----------------------------------------------------------------------------
(***************************************************************************)
(* The world                                                               *)
(***************************************************************************)
\* A row of chat_moderators is written or removed by hand: nothing in the code
\* does, and so nothing calls invalidate_moderator.
change_moderator(u) ==
  /\ moderators' = (IF u \in moderators THEN moderators \ {u} ELSE moderators \cup {u})
  /\ moderators_age' = [moderators_age EXCEPT ![u] = 0]
  /\ UNCHANGED <<admins, admins_age, caches, limits, worker>>

change_admin(u) ==
  /\ admins' = (IF u \in admins THEN admins \ {u} ELSE admins \cup {u})
  /\ admins_age' = [admins_age EXCEPT ![u] = 0]
  /\ UNCHANGED <<moderators, moderators_age, caches, limits, worker>>

MokaKeeps_Longer(u) == moka[u] # "none" /\ moka_age[u] < ModTtl   \* mutant
MokaKeeps(u) == moka[u] # "none" /\ moka_age[u] + 1 < ModTtl
ListKeeps == list # NoList /\ list_age + 1 < AdminTtl

tick ==
  /\ ~At("idle") => worker.waited < CallTime
  /\ moderators_age' = [u \in Users |-> Older(moderators_age[u])]
  /\ admins_age' = [u \in Users |-> Older(admins_age[u])]
  /\ moka' = [u \in Users |-> IF MokaKeeps(u) THEN moka[u] ELSE "none"]
  /\ moka_age' = [u \in Users |-> IF MokaKeeps(u) THEN moka_age[u] + 1 ELSE 0]
  /\ list' = (IF ListKeeps THEN list ELSE NoList)
  /\ list_age' = (IF ListKeeps THEN list_age + 1 ELSE 0)
  /\ cooldown' = [c \in DOMAIN cooldown |-> IF cooldown[c] = 0 THEN 0 ELSE cooldown[c] - 1]
  /\ passed' = [c \in DOMAIN passed |-> Older(passed[c])]
  /\ worker' = (IF At("idle") THEN worker ELSE [worker EXCEPT !.waited = @ + 1])
  /\ UNCHANGED <<moderators, admins>>

crash ==
  /\ "crash" \in Faults
  /\ worker' = Idle
  /\ moka' = [u \in Users |-> "none"] /\ moka_age' = [u \in Users |-> 0]
  /\ UNCHANGED <<roles, list, list_age, limits>>

redis_restarts ==
  /\ "redisLoss" \in Faults
  /\ list' = NoList /\ list_age' = 0
  /\ cooldown' = [c \in DOMAIN cooldown |-> 0]
  /\ passed' = [c \in DOMAIN passed |-> Old]
  /\ UNCHANGED <<roles, moka, moka_age, worker>>
-----------------------------------------------------------------------------
Next ==
  \/ \E u \in Users : is_chat_admin(u) \/ (\E c \in Commands : command(u, c))
  \/ moderator_cache_get \/ select_moderator \/ moderator_cache_insert
  \/ get_admins \/ get_chat_administrators \/ set_admins
  \/ refuse \/ proceed \/ check_cooldown \/ reply_remaining \/ run
  \/ \E u \in Changing : change_moderator(u) \/ change_admin(u)
  \/ tick \/ crash \/ redis_restarts

Spec == Init /\ [][Next]_vars
-----------------------------------------------------------------------------
(***************************************************************************)
(* Properties                                                              *)
(***************************************************************************)
\* u was in S within the last n ticks, or has been for long.
RecentlyIn(u, S, age, n) == u \in S \/ age[u] <= n

\* Power that was taken away is gone in time.  Nothing invalidates a cache, so
\* what grants a command may be as old as the cache lets it be, and as old as a
\* call that filled it took; but no older, whatever was asked in between.
PowerIsRecent ==
  At("granted") =>
    \/ RecentlyIn(me, moderators, moderators_age, ModTtl + CallTime + worker.waited)
    \/ RecentlyIn(me, admins, admins_age, AdminTtl + CallTime + worker.waited)

\* Power that was given is seen in time, and a fault is forgotten with the call
\* it hit: who has been moderator, or administrator, for longer than the cache
\* holds an answer is refused only when a call of this very check failed.
NewPowerIsSeen ==
  At("refused") /\ ~worker.failed =>
    /\ me \in moderators => moderators_age[me] <= ModTtl + CallTime + worker.waited
    /\ me \in admins => admins_age[me] <= AdminTtl + CallTime + worker.waited

\* The cooldown is exact, though anyone may ask while it lasts: a command gets
\* through only when the last one is at least Cooldown ago or Redis lost the key,
\* and being turned away does not make the wait longer.
CooldownHolds ==
  [][check_cooldown =>
       LET c == worker.command IN
         /\ At("run")' => passed[c] >= Cooldown
         /\ At("cooling")' => passed[c] < Cooldown]_vars
=============================================================================
