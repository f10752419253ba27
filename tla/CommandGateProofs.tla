------------------------- MODULE CommandGateProofs --------------------------
(***************************************************************************)
(* CommandGate keeps its types, grants nothing on old power, sees new      *)
(* power in time and keeps its cooldown exact, for every lifetime of the   *)
(* caches, every number of users and whatever fails.                       *)
(***************************************************************************)
EXTENDS CommandGate, TLAPS

-----------------------------------------------------------------------------
(* The inductive invariant *)

\* What was answered of u has been so within the last n ticks.
ModeratorWas(answer, u, n) == (u \in moderators <=> answer) \/ moderators_age[u] <= n
AdminWas(answer, u, n) == (u \in admins <=> answer) \/ admins_age[u] <= n

\* A cached answer is as old as the cache says, and as old as the call that
\* filled it took.
MokaWasSo ==
  \A u \in Users :
    moka[u] # "none" => ModeratorWas(moka[u] = "yes", u, moka_age[u] + CallTime)

ListWasSo ==
  list # NoList => \A u \in Users : AdminWas(u \in list, u, list_age + CallTime)

\* What a call of this check answered is as old as the check.
ReadWasSo ==
  /\ At("insert") => ModeratorWas(me \in worker.read, me, worker.waited)
  /\ At("set_admins") => \A u \in Users : AdminWas(u \in worker.read, u, worker.waited)

GrantWasDue ==
  At("granted") =>
    \/ ModeratorWas(TRUE, me, ModTtl + CallTime + worker.waited)
    \/ AdminWas(TRUE, me, AdminTtl + CallTime + worker.waited)

\* The steps of a command after nobody was found in chat_moderators.
PastModerators == {"redis", "telegram", "set_admins", "refused"}

RefusalWasDue ==
  /\ worker.step \in PastModerators /\ worker.command # "gate" /\ ~worker.failed =>
       ModeratorWas(FALSE, me, ModTtl + CallTime + worker.waited)
  /\ At("refused") /\ ~worker.failed =>
       AdminWas(FALSE, me, AdminTtl + CallTime + worker.waited)

CommandsOnly ==
  /\ At("refused") => worker.command # "gate"
  /\ At("cooldown") => worker.command \in Limited

\* The key of a cooldown and the time since a command got through count in step.
CooldownInStep ==
  \A c \in Limited \cap Commands :
    IF cooldown[c] = 0 THEN passed[c] >= Cooldown ELSE passed[c] = Cooldown - cooldown[c]

IInv ==
  /\ TypeOK /\ MokaWasSo /\ ListWasSo /\ ReadWasSo
  /\ GrantWasDue /\ RefusalWasDue /\ CommandsOnly /\ CooldownInStep

-----------------------------------------------------------------------------
(* Helpers *)

WorkerStates == [step : Steps, user : Users, command : Commands \cup {"gate"},
                 read : SUBSET Users, failed : BOOLEAN, waited : 0 .. CallTime]

\* Old is older than each lifetime.
LEMMA OldIsOld == Old \in Nat /\ Cooldown <= Old
<1> DEFINE S == {ModTtl, AdminTtl, Cooldown}
<1>1. S \subseteq Nat /\ CallTime \in Nat
  BY GateConstantsOK
<1>2. \E m \in S : \A n \in S : m >= n
  <2>1. ModTtl \in Nat /\ AdminTtl \in Nat /\ Cooldown \in Nat
    BY <1>1
  <2>2. CASE ModTtl >= AdminTtl /\ ModTtl >= Cooldown
    BY <2>1, <2>2
  <2>3. CASE AdminTtl >= ModTtl /\ AdminTtl >= Cooldown
    BY <2>1, <2>3
  <2>4. CASE Cooldown >= ModTtl /\ Cooldown >= AdminTtl
    BY <2>1, <2>4
  <2> QED
    BY <2>1, <2>2, <2>3, <2>4
<1>3. Max(S) \in S /\ \A n \in S : Max(S) >= n
  BY <1>2 DEF Max
<1> HIDE DEF S
<1>4. Max(S) \in Nat /\ Max(S) >= Cooldown /\ Cooldown \in Nat
  BY <1>1, <1>3 DEF S
<1>5. Old = Max(S) + 2 * CallTime + 1
  BY DEF Old, S
<1> QED
  BY <1>1, <1>4, <1>5

\* Time makes no age younger, nor older than Old.
LEMMA OlderAge ==
  ASSUME NEW age \in Ages
  PROVE  Older(age) \in Ages /\ Older(age) <= age + 1 /\ Older(age) >= age
         /\ (age < Cooldown => Older(age) = age + 1)
BY OldIsOld, GateConstantsOK DEF Older, Ages

\* The constants are numbers.
LEMMA Numbers ==
  /\ ModTtl \in Nat \ {0} /\ AdminTtl \in Nat \ {0} /\ Cooldown \in Nat \ {0}
  /\ CallTime \in Nat
BY GateConstantsOK

LEMMA IdleIsWorker == Idle \in WorkerStates /\ Idle.step = "idle" /\ Idle.waited = 0
<1>1. AnyUser \in Users
  BY GateConstantsOK DEF AnyUser
<1> QED
  BY <1>1, Numbers DEF Idle, WorkerStates, Steps

\* Where the worker of a check can go, and what it remembers.
LEMMA WorkerGoes ==
  ASSUME TypeOK, NEW step \in Steps
  PROVE  /\ Go(step) => /\ worker' \in WorkerStates
                        /\ worker'.step = step /\ worker'.user = worker.user
                        /\ worker'.command = worker.command /\ worker'.read = worker.read
                        /\ worker'.failed = worker.failed /\ worker'.waited = worker.waited
         /\ GoFailed(step) => /\ worker' \in WorkerStates
                              /\ worker'.step = step /\ worker'.user = worker.user
                              /\ worker'.command = worker.command
                              /\ worker'.failed = TRUE
<1>1. worker \in WorkerStates
  BY DEF TypeOK, WorkerStates
<1>2. Go(step) => worker' \in WorkerStates
  BY <1>1 DEF Go, WorkerStates
<1>3. GoFailed(step) => worker' \in WorkerStates
  BY <1>1 DEF GoFailed, WorkerStates
<1> QED
  BY <1>1, <1>2, <1>3 DEF Go, GoFailed, WorkerStates

\* A step of the worker alone keeps what is said of roles, caches and cooldowns.
LEMMA OnlyWorker ==
  ASSUME IInv, UNCHANGED <<roles, caches, limits>>, worker' \in WorkerStates
  PROVE  TypeOK' /\ MokaWasSo' /\ ListWasSo' /\ CooldownInStep'
BY DEF IInv, roles, caches, limits, TypeOK, WorkerStates, MokaWasSo, ListWasSo,
   CooldownInStep, ModeratorWas, AdminWas

\* To be idle asks nothing of what the worker remembers.
LEMMA IdleIsFine ==
  ASSUME worker'.step \in {"idle", "run", "cooling"}
  PROVE  ReadWasSo' /\ GrantWasDue' /\ RefusalWasDue' /\ CommandsOnly'
BY DEF ReadWasSo, GrantWasDue, RefusalWasDue, CommandsOnly, At, PastModerators

-----------------------------------------------------------------------------
(* The steps of a check *)

LEMMA InvBegin ==
  ASSUME IInv, NEW u \in Users,
         is_chat_admin(u) \/ \E c \in Commands : command(u, c)
  PROVE  IInv'
<1>1. UNCHANGED <<roles, caches, limits>>
  BY DEF is_chat_admin, command
<1>2. CASE is_chat_admin(u)
  <2>1. worker' \in WorkerStates /\ worker'.step = "redis" /\ worker'.command = "gate"
    BY <1>2, IdleIsWorker DEF is_chat_admin, WorkerStates, Steps, Idle
  <2>2. ReadWasSo' /\ GrantWasDue' /\ RefusalWasDue' /\ CommandsOnly'
    BY <2>1 DEF ReadWasSo, GrantWasDue, RefusalWasDue, CommandsOnly, At
  <2> QED
    BY <1>1, <2>1, <2>2, OnlyWorker DEF IInv
<1>3. ASSUME NEW c \in Commands, command(u, c)
      PROVE  IInv'
  <2>1. worker' \in WorkerStates /\ worker'.step = "moka"
    BY <1>3, IdleIsWorker DEF command, WorkerStates, Steps, Idle
  <2>2. ReadWasSo' /\ GrantWasDue' /\ RefusalWasDue' /\ CommandsOnly'
    BY <2>1 DEF ReadWasSo, GrantWasDue, RefusalWasDue, CommandsOnly, At, PastModerators
  <2> QED
    BY <1>1, <2>1, <2>2, OnlyWorker DEF IInv
<1> QED
  BY <1>2, <1>3

\* The worker of TypeOK, part by part.
LEMMA WorkerParts ==
  ASSUME TypeOK
  PROVE  /\ worker \in WorkerStates /\ me \in Users
         /\ worker.waited \in Nat /\ worker.waited <= CallTime
         /\ moka_age[me] \in Nat /\ moka_age[me] + 1 <= ModTtl
         /\ list_age \in Nat /\ list_age + 1 <= AdminTtl
         /\ \A u \in Users : moderators_age[u] \in Nat /\ admins_age[u] \in Nat
<1>1. worker \in WorkerStates
  BY DEF TypeOK, WorkerStates
<1>2. me \in Users /\ worker.waited \in Nat /\ worker.waited <= CallTime
  BY <1>1, Numbers DEF WorkerStates, me
<1> QED
  BY <1>1, <1>2, Numbers, OldIsOld DEF TypeOK, Ages

\* The cached answer decides, or the next source is asked.
LEMMA InvMokaGet ==
  ASSUME IInv, moderator_cache_get
  PROVE  IInv'
<1> USE DEF IInv
<1>1. UNCHANGED <<roles, caches, limits>>
  BY DEF moderator_cache_get
<1>2. PICK step \in {"granted", "redis", "select"} :
        /\ Go(step)
        /\ step = "granted" => moka[me] = "yes"
        /\ step = "redis" => moka[me] = "no"
  <2>1. moka[me] \in {"none", "yes", "no"}
    BY WorkerParts DEF TypeOK, Answers
  <2> QED
    BY <2>1 DEF moderator_cache_get
<1>3. step \in Steps
  BY DEF Steps
<1>4. /\ worker' \in WorkerStates /\ worker'.step = step /\ me' = me
      /\ worker'.waited = worker.waited
  BY <1>2, <1>3, WorkerGoes DEF me
<1>5. moka[me] # "none" =>
        ModeratorWas(moka[me] = "yes", me, ModTtl + CallTime + worker.waited)
  <2> SUFFICES ASSUME moka[me] # "none"
               PROVE  ModeratorWas(moka[me] = "yes", me, ModTtl + CallTime + worker.waited)
    OBVIOUS
  <2>1. ModeratorWas(moka[me] = "yes", me, moka_age[me] + CallTime)
    BY WorkerParts DEF MokaWasSo
  <2> QED
    BY <2>1, WorkerParts, Numbers DEF ModeratorWas
<1>6. UNCHANGED <<moderators, moderators_age, admins, admins_age>>
  BY <1>1 DEF roles
<1>7. GrantWasDue' /\ RefusalWasDue' /\ ReadWasSo' /\ CommandsOnly'
  BY <1>2, <1>4, <1>5, <1>6 DEF GrantWasDue, RefusalWasDue, ReadWasSo, CommandsOnly, At,
     ModeratorWas, PastModerators
<1> QED
  BY <1>1, <1>4, <1>7, OnlyWorker

\* What the query answers is so now; an error is remembered as one.
LEMMA InvSelect ==
  ASSUME IInv, select_moderator
  PROVE  IInv'
<1> USE DEF IInv
<1>1. UNCHANGED <<roles, caches, limits>>
  BY DEF select_moderator
<1>2. CASE worker' = [worker EXCEPT !.step = "insert", !.read = moderators \cap {me}]
  <2>1. /\ worker' \in WorkerStates /\ worker'.step = "insert"
        /\ worker'.read = moderators \cap {me} /\ me' = me
    BY <1>2, WorkerParts DEF WorkerStates, Steps, me
  <2>2. ReadWasSo' /\ GrantWasDue' /\ RefusalWasDue' /\ CommandsOnly'
    BY <1>1, <2>1 DEF roles, ReadWasSo, GrantWasDue, RefusalWasDue, CommandsOnly, At,
       ModeratorWas, PastModerators
  <2> QED
    BY <1>1, <2>1, <2>2, OnlyWorker
<1>3. CASE GoFailed("redis")
  <2>1. worker' \in WorkerStates /\ worker'.step = "redis" /\ worker'.failed = TRUE
    BY <1>3, WorkerGoes DEF Steps
  <2>2. ReadWasSo' /\ GrantWasDue' /\ RefusalWasDue' /\ CommandsOnly'
    BY <2>1 DEF ReadWasSo, GrantWasDue, RefusalWasDue, CommandsOnly, At
  <2> QED
    BY <1>1, <2>1, <2>2, OnlyWorker
<1> QED
  BY <1>2, <1>3 DEF select_moderator

\* The answer of the query goes into the cache with the age it has by now.
LEMMA InvInsert ==
  ASSUME IInv, moderator_cache_insert
  PROVE  IInv'
<1> USE DEF IInv
<1> DEFINE yes == me \in worker.read
<1>1. /\ moka' = [moka EXCEPT ![me] = IF yes THEN "yes" ELSE "no"]
      /\ moka_age' = [moka_age EXCEPT ![me] = 0]
      /\ Go(IF yes THEN "granted" ELSE "redis")
      /\ UNCHANGED <<moderators, moderators_age, admins, admins_age, list, list_age,
                     cooldown, passed>>
  BY DEF moderator_cache_insert, roles, limits
<1>2. ModeratorWas(yes, me, worker.waited)
  BY DEF moderator_cache_insert, ReadWasSo
<1>3. /\ worker' \in WorkerStates /\ me' = me /\ worker'.waited = worker.waited
      /\ worker'.step = IF yes THEN "granted" ELSE "redis"
  BY <1>1, WorkerGoes DEF Steps, me
<1> HIDE DEF yes
<1>4. TypeOK'
  BY <1>1, <1>3, WorkerParts, Numbers DEF TypeOK, WorkerStates, Answers
<1>5. MokaWasSo'
  <2> SUFFICES ASSUME NEW u \in Users, moka'[u] # "none"
               PROVE  ModeratorWas(moka'[u] = "yes", u, moka_age'[u] + CallTime)
    BY <1>1 DEF MokaWasSo, ModeratorWas
  <2>1. CASE u = me
    <3>1. moka_age'[u] = 0 /\ (moka'[u] = "yes" <=> yes)
      BY <1>1, <2>1, WorkerParts DEF TypeOK
    <3> QED
      BY <1>2, <2>1, <3>1, WorkerParts, Numbers DEF ModeratorWas
  <2>2. CASE u # me
    BY <1>1, <2>2 DEF MokaWasSo, TypeOK
  <2> QED
    BY <2>1, <2>2
<1>6. ListWasSo' /\ CooldownInStep'
  BY <1>1 DEF ListWasSo, CooldownInStep, AdminWas
<1>7. ModeratorWas(yes, me, ModTtl + CallTime + worker.waited)
  BY <1>2, WorkerParts, Numbers DEF ModeratorWas
<1>8. ReadWasSo' /\ GrantWasDue' /\ RefusalWasDue' /\ CommandsOnly'
  <2>1. CASE yes
    <3>1. worker'.step = "granted" /\ ModeratorWas(TRUE, me, ModTtl + CallTime + worker.waited)'
      BY <1>1, <1>3, <1>7, <2>1 DEF ModeratorWas
    <3> QED
      BY <1>3, <3>1 DEF ReadWasSo, GrantWasDue, RefusalWasDue, CommandsOnly, At, PastModerators
  <2>2. CASE ~yes
    <3>1. worker'.step = "redis" /\ ModeratorWas(FALSE, me, ModTtl + CallTime + worker.waited)'
      BY <1>1, <1>3, <1>7, <2>2 DEF ModeratorWas
    <3> QED
      BY <1>3, <3>1 DEF ReadWasSo, GrantWasDue, RefusalWasDue, CommandsOnly, At
  <2> QED
    BY <2>1, <2>2
<1> QED
  BY <1>4, <1>5, <1>6, <1>8

\* What a check concludes from an answer about the administrators that is n old.
LEMMA InvConclude ==
  ASSUME IInv, worker.step \in {"redis", "set_admins"},
         NEW granted, Conclude(granted),
         AdminWas(granted, me, AdminTtl + CallTime + worker.waited),
         UNCHANGED roles
  PROVE  /\ worker' \in WorkerStates
         /\ ReadWasSo' /\ GrantWasDue' /\ RefusalWasDue' /\ CommandsOnly'
<1> USE DEF IInv
<1>1. CASE worker.command = "gate"
  <2>1. worker' = Idle
    BY <1>1 DEF Conclude
  <2> QED
    BY <2>1, IdleIsWorker, IdleIsFine
<1>2. CASE worker.command # "gate" /\ granted
  <2>1. Go("granted")
    BY <1>2 DEF Conclude
  <2>2. /\ worker' \in WorkerStates /\ worker'.step = "granted" /\ me' = me
        /\ worker'.waited = worker.waited
    BY <2>1, WorkerGoes DEF Steps, me
  <2>3. AdminWas(TRUE, me, AdminTtl + CallTime + worker.waited)'
    BY <1>2, <2>2 DEF AdminWas, roles
  <2> QED
    BY <2>2, <2>3 DEF ReadWasSo, GrantWasDue, RefusalWasDue, CommandsOnly, At, PastModerators
<1>3. CASE worker.command # "gate" /\ ~granted
  <2>1. Go("refused")
    BY <1>3 DEF Conclude
  <2>2. /\ worker' \in WorkerStates /\ worker'.step = "refused" /\ me' = me
        /\ worker'.waited = worker.waited /\ worker'.failed = worker.failed
        /\ worker'.command = worker.command
    BY <2>1, WorkerGoes DEF Steps, me
  <2>3. AdminWas(FALSE, me, AdminTtl + CallTime + worker.waited)'
    BY <1>3, <2>2 DEF AdminWas, roles
  <2>4. ~worker.failed => ModeratorWas(FALSE, me, ModTtl + CallTime + worker.waited)'
    BY <1>3, <2>2 DEF ModeratorWas, roles, RefusalWasDue, PastModerators
  <2> QED
    BY <1>3, <2>2, <2>3, <2>4 DEF ReadWasSo, GrantWasDue, RefusalWasDue, CommandsOnly, At
<1> QED
  BY <1>1, <1>2, <1>3

\* To go on to Telegram, or to store what it said, keeps what is known so far.
LEMMA InvGoesOn ==
  ASSUME IInv, worker.step \in PastModerators, worker' \in WorkerStates,
         worker'.step \in {"telegram", "set_admins"}, me' = me,
         worker'.command = worker.command, worker'.failed = worker.failed,
         worker'.waited = worker.waited, UNCHANGED roles
  PROVE  GrantWasDue' /\ RefusalWasDue' /\ CommandsOnly'
BY DEF IInv, GrantWasDue, RefusalWasDue, CommandsOnly, At, ModeratorWas, roles, PastModerators

LEMMA InvGetAdmins ==
  ASSUME IInv, get_admins
  PROVE  IInv'
<1> USE DEF IInv
<1>1. UNCHANGED <<roles, caches, limits>> /\ worker.step = "redis"
  BY DEF get_admins, At
<1>2. CASE list # NoList /\ Conclude(me \in list)
  <2>1. AdminWas(me \in list, me, list_age + CallTime)
    BY <1>2, WorkerParts DEF ListWasSo
  <2>2. AdminWas(me \in list, me, AdminTtl + CallTime + worker.waited)
    BY <2>1, WorkerParts, Numbers DEF AdminWas
  <2> QED
    BY <1>1, <1>2, <2>2, InvConclude, OnlyWorker
<1>3. CASE Go("telegram")
  <2>1. /\ worker' \in WorkerStates /\ worker'.step = "telegram" /\ me' = me
        /\ worker'.command = worker.command /\ worker'.failed = worker.failed
        /\ worker'.waited = worker.waited
    BY <1>3, WorkerGoes DEF Steps, me
  <2>2. GrantWasDue' /\ RefusalWasDue' /\ CommandsOnly'
    BY <1>1, <2>1, InvGoesOn DEF PastModerators
  <2>3. ReadWasSo'
    BY <2>1 DEF ReadWasSo, At
  <2> QED
    BY <1>1, <2>1, <2>2, <2>3, OnlyWorker
<1> QED
  BY <1>2, <1>3 DEF get_admins

LEMMA InvTelegram ==
  ASSUME IInv, get_chat_administrators
  PROVE  IInv'
<1> USE DEF IInv
<1>1. UNCHANGED <<roles, caches, limits>> /\ worker.step = "telegram"
  BY DEF get_chat_administrators, At
<1>2. worker \in WorkerStates /\ admins \subseteq Users
  BY WorkerParts DEF TypeOK
<1>3. CASE worker' = [worker EXCEPT !.step = "set_admins", !.read = admins]
  <2>1. /\ worker' \in WorkerStates /\ worker'.step = "set_admins" /\ me' = me
        /\ worker'.command = worker.command /\ worker'.failed = worker.failed
        /\ worker'.waited = worker.waited /\ worker'.read = admins
    BY <1>2, <1>3 DEF WorkerStates, Steps, me
  <2>2. GrantWasDue' /\ RefusalWasDue' /\ CommandsOnly'
    BY <1>1, <2>1, InvGoesOn DEF PastModerators
  <2>3. ReadWasSo'
    BY <1>1, <2>1 DEF ReadWasSo, At, AdminWas, roles
  <2> QED
    BY <1>1, <2>1, <2>2, <2>3, OnlyWorker
<1>4. CASE worker' = Idle
  BY <1>1, <1>4, IdleIsWorker, IdleIsFine, OnlyWorker
<1>5. CASE /\ worker.command # "gate"
           /\ worker' = [worker EXCEPT !.step = "refused", !.failed = TRUE]
  <2>1. /\ worker' \in WorkerStates /\ worker'.step = "refused" /\ worker'.failed = TRUE
        /\ worker'.command = worker.command
    BY <1>2, <1>5 DEF WorkerStates, Steps
  <2>2. ReadWasSo' /\ GrantWasDue' /\ RefusalWasDue' /\ CommandsOnly'
    BY <1>5, <2>1 DEF ReadWasSo, GrantWasDue, RefusalWasDue, CommandsOnly, At
  <2> QED
    BY <1>1, <2>1, <2>2, OnlyWorker
<1> QED
  BY <1>3, <1>4, <1>5 DEF get_chat_administrators

LEMMA InvSetAdmins ==
  ASSUME IInv, set_admins
  PROVE  IInv'
<1> USE DEF IInv
<1>1. /\ UNCHANGED <<roles, moka, moka_age, limits>> /\ worker.step = "set_admins"
      /\ Conclude(me \in worker.read)
  BY DEF set_admins, At
<1>2. \A u \in Users : AdminWas(u \in worker.read, u, worker.waited)
  BY <1>1 DEF ReadWasSo, At
<1>3. AdminWas(me \in worker.read, me, AdminTtl + CallTime + worker.waited)
  <2>1. AdminWas(me \in worker.read, me, worker.waited)
    BY <1>2, WorkerParts
  <2> QED
    BY <2>1, WorkerParts, Numbers DEF AdminWas
<1>4. worker' \in WorkerStates /\ ReadWasSo' /\ GrantWasDue' /\ RefusalWasDue' /\ CommandsOnly'
  BY <1>1, <1>3, InvConclude
<1>5. CASE UNCHANGED <<list, list_age>>
  BY <1>1, <1>4, <1>5, OnlyWorker DEF caches
<1>6. CASE list' = worker.read /\ list_age' = 0
  <2>1. worker.read \subseteq Users
    BY WorkerParts DEF WorkerStates
  <2>2. TypeOK'
    BY <1>1, <1>4, <1>6, <2>1, Numbers DEF TypeOK, WorkerStates, roles, limits
  <2>3. MokaWasSo' /\ CooldownInStep'
    BY <1>1 DEF MokaWasSo, CooldownInStep, ModeratorWas, roles, limits
  <2>4. ListWasSo'
    <3>1. ASSUME NEW u \in Users
          PROVE  (u \in admins <=> u \in worker.read) \/ admins_age[u] <= CallTime
      <4>1. AdminWas(u \in worker.read, u, worker.waited)
        BY <1>2
      <4> QED
        BY <4>1, WorkerParts, Numbers DEF AdminWas
    <3>2. list' = worker.read /\ list_age' + CallTime = CallTime
          /\ UNCHANGED <<admins, admins_age>>
      BY <1>1, <1>6, Numbers DEF roles
    <3> QED
      BY <3>1, <3>2 DEF ListWasSo, AdminWas
  <2> QED
    BY <1>4, <2>2, <2>3, <2>4
<1> QED
  BY <1>5, <1>6 DEF set_admins

-----------------------------------------------------------------------------
(* After the check *)

LEMMA InvAfter ==
  ASSUME IInv, refuse \/ proceed \/ reply_remaining \/ run
  PROVE  IInv'
<1> USE DEF IInv
<1>1. UNCHANGED <<roles, caches, limits>>
  BY DEF refuse, proceed, reply_remaining, run
<1>2. CASE proceed
  <2>1. PICK step \in {"cooldown", "run"} :
          Go(step) /\ (step = "cooldown" => worker.command \in Limited)
    BY <1>2 DEF proceed
  <2>2. worker' \in WorkerStates /\ worker'.step = step /\ worker'.command = worker.command
    BY <2>1, WorkerGoes DEF Steps
  <2>3. ReadWasSo' /\ GrantWasDue' /\ RefusalWasDue' /\ CommandsOnly'
    BY <2>1, <2>2 DEF ReadWasSo, GrantWasDue, RefusalWasDue, CommandsOnly, At, PastModerators
  <2> QED
    BY <1>1, <2>2, <2>3, OnlyWorker
<1>3. CASE worker' = Idle
  BY <1>1, <1>3, IdleIsWorker, IdleIsFine, OnlyWorker
<1> QED
  BY <1>2, <1>3 DEF refuse, reply_remaining, run

\* The command whose key is asked for has one.
LEMMA CooldownCommand ==
  ASSUME IInv, check_cooldown
  PROVE  worker.command \in Limited \cap Commands
<1>1. worker.command \in Limited /\ worker.command \in Commands \cup {"gate"}
  BY WorkerParts DEF IInv, CommandsOnly, check_cooldown, WorkerStates
<1> QED
  BY <1>1 DEF Limited

LEMMA InvCooldown ==
  ASSUME IInv, check_cooldown
  PROVE  IInv'
<1> USE DEF IInv
<1> DEFINE c == worker.command
<1>1. c \in Limited \cap Commands
  BY CooldownCommand
<1>2. UNCHANGED <<roles, caches>>
  BY DEF check_cooldown
<1>3. CASE UNCHANGED limits
  <2>1. worker' \in WorkerStates /\ worker'.step \in {"idle", "run", "cooling"}
    BY <1>3, IdleIsWorker, WorkerGoes DEF check_cooldown, Steps
  <2> QED
    BY <1>2, <1>3, <2>1, IdleIsFine, OnlyWorker
<1>4. CASE /\ cooldown' = [cooldown EXCEPT ![c] = Cooldown]
           /\ passed' = [passed EXCEPT ![c] = 0]
           /\ Go("run")
  <2>1. worker' \in WorkerStates /\ worker'.step = "run"
    BY <1>4, WorkerGoes DEF Steps
  <2>2. ReadWasSo' /\ GrantWasDue' /\ RefusalWasDue' /\ CommandsOnly'
    BY <2>1, IdleIsFine
  <2> HIDE DEF c
  <2>3. /\ cooldown' \in [Limited \cap Commands -> 0 .. Cooldown]
        /\ passed' \in [Limited \cap Commands -> Ages]
    BY <1>1, <1>4, Numbers, OldIsOld DEF TypeOK, Ages
  <2>4. TypeOK'
    BY <1>2, <2>1, <2>3 DEF TypeOK, WorkerStates, roles, caches
  <2>5. MokaWasSo' /\ ListWasSo'
    BY <1>2 DEF MokaWasSo, ListWasSo, ModeratorWas, AdminWas, roles, caches
  <2>6. CooldownInStep'
    BY <1>1, <1>4, Numbers DEF CooldownInStep, TypeOK
  <2> QED
    BY <2>2, <2>4, <2>5, <2>6
<1> QED
  BY <1>3, <1>4 DEF check_cooldown

-----------------------------------------------------------------------------
(* The world *)

\* Roles change: what was answered before has been so just now.
LEMMA InvRoles ==
  ASSUME IInv, NEW u \in Users, change_moderator(u) \/ change_admin(u)
  PROVE  IInv'
<1> USE DEF IInv
<1>1. UNCHANGED <<caches, limits, worker>>
  BY DEF change_moderator, change_admin
<1>2. TypeOK'
  BY <1>1, OldIsOld DEF change_moderator, change_admin, TypeOK, caches, limits, Ages
<1>3. ASSUME NEW v \in Users, NEW n \in Nat, NEW answer \in BOOLEAN
      PROVE  /\ ModeratorWas(answer, v, n) =>
                  (v \in moderators' <=> answer) \/ moderators_age'[v] <= n
             /\ AdminWas(answer, v, n) => (v \in admins' <=> answer) \/ admins_age'[v] <= n
  BY WorkerParts DEF change_moderator, change_admin, ModeratorWas, AdminWas, TypeOK
<1>4. /\ worker.waited \in Nat /\ me \in Users /\ list_age \in Nat
      /\ \A v \in Users : moka_age[v] \in Nat
  BY WorkerParts, Numbers DEF TypeOK
<1>5. MokaWasSo'
  <2> SUFFICES ASSUME NEW v \in Users, moka[v] # "none"
               PROVE  (v \in moderators' <=> moka[v] = "yes")
                      \/ moderators_age'[v] <= moka_age[v] + CallTime
    BY <1>1 DEF MokaWasSo, ModeratorWas, caches
  <2>1. ModeratorWas(moka[v] = "yes", v, moka_age[v] + CallTime)
    BY DEF MokaWasSo
  <2>2. moka_age[v] + CallTime \in Nat
    BY <1>4, Numbers
  <2> QED
    BY <1>3, <2>1, <2>2
<1>6. ListWasSo'
  <2> SUFFICES ASSUME list # NoList, NEW v \in Users
               PROVE  (v \in admins' <=> v \in list) \/ admins_age'[v] <= list_age + CallTime
    BY <1>1 DEF ListWasSo, AdminWas, caches
  <2>1. AdminWas(v \in list, v, list_age + CallTime)
    BY DEF ListWasSo
  <2>2. list_age + CallTime \in Nat /\ (v \in list) \in BOOLEAN
    BY <1>4, Numbers
  <2> QED
    BY <1>3, <2>1, <2>2, Zenon
<1>7. ModTtl + CallTime + worker.waited \in Nat /\ AdminTtl + CallTime + worker.waited \in Nat
  BY <1>4, Numbers
<1>8. ReadWasSo'
  BY <1>1, <1>3, <1>4 DEF ReadWasSo, At, me, ModeratorWas, AdminWas
<1>9. GrantWasDue'
  BY <1>1, <1>3, <1>4, <1>7 DEF GrantWasDue, At, me, ModeratorWas, AdminWas
<1>10. RefusalWasDue'
  BY <1>1, <1>3, <1>4, <1>7 DEF RefusalWasDue, At, me, ModeratorWas, AdminWas
<1>11. CommandsOnly' /\ CooldownInStep'
  BY <1>1 DEF CommandsOnly, CooldownInStep, At, limits
<1> QED
  BY <1>2, <1>5, <1>6, <1>8, <1>9, <1>10, <1>11

\* A tick: answers, the caches that hold them and the check grow older together.
LEMMA InvTick ==
  ASSUME IInv, tick
  PROVE  IInv'
<1> USE DEF IInv
<1>1. /\ UNCHANGED <<moderators, admins>>
      /\ moderators_age' = [u \in Users |-> Older(moderators_age[u])]
      /\ admins_age' = [u \in Users |-> Older(admins_age[u])]
      /\ moka' = [u \in Users |-> IF MokaKeeps(u) THEN moka[u] ELSE "none"]
      /\ moka_age' = [u \in Users |-> IF MokaKeeps(u) THEN moka_age[u] + 1 ELSE 0]
      /\ list' = (IF ListKeeps THEN list ELSE NoList)
      /\ list_age' = (IF ListKeeps THEN list_age + 1 ELSE 0)
  BY DEF tick
<1>2. DOMAIN cooldown = Limited \cap Commands /\ DOMAIN passed = Limited \cap Commands
  BY DEF TypeOK
<1>3. /\ cooldown' = [c \in Limited \cap Commands |->
                        IF cooldown[c] = 0 THEN 0 ELSE cooldown[c] - 1]
      /\ passed' = [c \in Limited \cap Commands |-> Older(passed[c])]
  BY <1>2 DEF tick
<1>4. worker \in WorkerStates /\ me \in Users /\ worker.waited \in Nat
      /\ worker.waited <= CallTime
  BY WorkerParts
<1>5. /\ worker' \in WorkerStates /\ worker'.step = worker.step /\ me' = me
      /\ worker'.command = worker.command /\ worker'.read = worker.read
      /\ worker'.failed = worker.failed
      /\ ~At("idle") => worker'.waited = worker.waited + 1
  BY <1>4, Numbers DEF tick, WorkerStates, me
<1>6. \A u \in Users : /\ moderators_age[u] \in Ages /\ admins_age[u] \in Ages
                       /\ moderators_age[u] \in Nat /\ admins_age[u] \in Nat
  BY WorkerParts DEF TypeOK
<1>7. \A u \in Users :
        /\ moderators_age'[u] \in Ages /\ moderators_age'[u] <= moderators_age[u] + 1
        /\ admins_age'[u] \in Ages /\ admins_age'[u] <= admins_age[u] + 1
        /\ moderators_age'[u] \in Nat /\ admins_age'[u] \in Nat
  BY <1>1, <1>6, OlderAge, OldIsOld DEF Ages
<1>8. TypeOK'
  <2>1. /\ moderators_age' \in [Users -> Ages] /\ admins_age' \in [Users -> Ages]
    BY <1>1, <1>7
  <2>2. /\ moka' \in [Users -> Answers] /\ moka_age' \in [Users -> 0 .. ModTtl - 1]
    BY <1>1, Numbers DEF MokaKeeps, TypeOK, Answers
  <2>3. /\ list' \in {NoList} \cup SUBSET Users /\ list_age' \in 0 .. AdminTtl - 1
    BY <1>1, Numbers DEF ListKeeps, TypeOK
  <2>4. cooldown' \in [Limited \cap Commands -> 0 .. Cooldown]
    BY <1>3, Numbers DEF TypeOK
  <2>5. passed' \in [Limited \cap Commands -> Ages]
    BY <1>3, OlderAge DEF TypeOK
  <2> QED
    BY <1>1, <1>5, <2>1, <2>2, <2>3, <2>4, <2>5 DEF TypeOK, WorkerStates
\* What was so within n ticks was so within n + 1 of them now.
<1>9. ASSUME NEW u \in Users, NEW n \in Nat, NEW answer \in BOOLEAN
      PROVE  /\ ModeratorWas(answer, u, n) =>
                  (u \in moderators <=> answer) \/ moderators_age'[u] <= n + 1
             /\ AdminWas(answer, u, n) => (u \in admins <=> answer) \/ admins_age'[u] <= n + 1
  BY <1>6, <1>7 DEF ModeratorWas, AdminWas
<1>10. MokaWasSo'
  <2> SUFFICES ASSUME NEW u \in Users, moka'[u] # "none"
               PROVE  (u \in moderators <=> moka[u] = "yes")
                      \/ moderators_age'[u] <= (moka_age[u] + CallTime) + 1
    <3>1. \A u \in Users : moka'[u] # "none" =>
            moka'[u] = moka[u] /\ moka_age'[u] = moka_age[u] + 1
      BY <1>1
    <3>2. \A u \in Users : moka_age[u] \in Nat
      BY Numbers DEF TypeOK
    <3>3. \A u \in Users : moka'[u] # "none" =>
            moka_age'[u] + CallTime = (moka_age[u] + CallTime) + 1
      BY <3>1, <3>2, Numbers
    <3> QED
      BY <1>1, <3>1, <3>3 DEF MokaWasSo, ModeratorWas
  <2>1. moka[u] # "none"
    BY <1>1
  <2>2. ModeratorWas(moka[u] = "yes", u, moka_age[u] + CallTime)
    BY <2>1 DEF MokaWasSo
  <2>3. moka_age[u] + CallTime \in Nat
    BY Numbers DEF TypeOK
  <2> QED
    BY <1>9, <2>2, <2>3
<1>11. ListWasSo'
  <2> SUFFICES ASSUME list' # NoList, NEW u \in Users
               PROVE  (u \in admins <=> u \in list)
                      \/ admins_age'[u] <= (list_age + CallTime) + 1
    <3>1. list' # NoList => list' = list /\ list_age' = list_age + 1
      BY <1>1
    <3>2. list_age + 1 + CallTime = (list_age + CallTime) + 1
      BY WorkerParts, Numbers
    <3> QED
      BY <1>1, <3>1, <3>2 DEF ListWasSo, AdminWas
  <2>1. list # NoList
    BY <1>1
  <2>2. AdminWas(u \in list, u, list_age + CallTime)
    BY <2>1 DEF ListWasSo
  <2>3. list_age + CallTime \in Nat /\ (u \in list) \in BOOLEAN
    BY WorkerParts, Numbers
  <2> QED
    BY <1>9, <2>2, <2>3, Zenon
<1>12. ReadWasSo'
  <2>1. CASE At("insert")
    <3>1. worker'.waited = worker.waited + 1 /\ ~At("set_admins")
      BY <1>5, <2>1 DEF At
    <3>2. ModeratorWas(me \in worker.read, me, worker.waited)
      BY <2>1 DEF ReadWasSo
    <3>3. (me \in moderators <=> me \in worker.read)
          \/ moderators_age'[me] <= worker.waited + 1
      <4>1. (me \in worker.read) \in BOOLEAN
        OBVIOUS
      <4> QED
        BY <1>4, <1>9, <3>2, <4>1, Zenon
    <3> QED
      BY <1>1, <1>5, <3>1, <3>3 DEF ReadWasSo, At, ModeratorWas
  <2>2. CASE At("set_admins")
    <3>1. worker'.waited = worker.waited + 1 /\ ~At("insert")
      BY <1>5, <2>2 DEF At
    <3>2. ASSUME NEW u \in Users
          PROVE  (u \in admins <=> u \in worker.read) \/ admins_age'[u] <= worker.waited + 1
      <4>1. AdminWas(u \in worker.read, u, worker.waited)
        BY <2>2 DEF ReadWasSo
      <4>2. (u \in worker.read) \in BOOLEAN
        OBVIOUS
      <4> QED
        BY <1>4, <1>9, <4>1, <4>2, Zenon
    <3> QED
      BY <1>1, <1>5, <3>1, <3>2 DEF ReadWasSo, At, AdminWas
  <2>3. CASE ~At("insert") /\ ~At("set_admins")
    BY <1>5, <2>3 DEF ReadWasSo, At
  <2> QED
    BY <2>1, <2>2, <2>3
<1>13. ~At("idle") =>
         /\ ModTtl + CallTime + worker.waited \in Nat
         /\ AdminTtl + CallTime + worker.waited \in Nat
         /\ ModTtl + CallTime + worker'.waited = (ModTtl + CallTime + worker.waited) + 1
         /\ AdminTtl + CallTime + worker'.waited = (AdminTtl + CallTime + worker.waited) + 1
  BY <1>4, <1>5, Numbers
<1>14. GrantWasDue'
  <2> SUFFICES ASSUME At("granted")
               PROVE  GrantWasDue'
    BY <1>5 DEF GrantWasDue, At
  <2>1. ~At("idle")
    BY DEF At
  <2>2. \/ (me \in moderators <=> TRUE)
           \/ moderators_age'[me] <= (ModTtl + CallTime + worker.waited) + 1
        \/ (me \in admins <=> TRUE)
           \/ admins_age'[me] <= (AdminTtl + CallTime + worker.waited) + 1
    BY <1>4, <1>9, <1>13, <2>1 DEF GrantWasDue
  <2> QED
    BY <1>1, <1>5, <1>13, <2>1, <2>2 DEF GrantWasDue, ModeratorWas, AdminWas
<1>15. RefusalWasDue'
  <2>1. CASE worker.step \in PastModerators
    <3>1. ~At("idle")
      BY <2>1 DEF At, PastModerators
    <3>2. worker.command # "gate" /\ ~worker.failed =>
            \/ me \notin moderators
            \/ moderators_age'[me] <= (ModTtl + CallTime + worker.waited) + 1
      BY <1>4, <1>9, <1>13, <2>1, <3>1 DEF RefusalWasDue
    <3>3. At("refused") /\ ~worker.failed =>
            \/ me \notin admins
            \/ admins_age'[me] <= (AdminTtl + CallTime + worker.waited) + 1
      BY <1>4, <1>9, <1>13, <3>1 DEF RefusalWasDue
    <3> QED
      BY <1>1, <1>5, <1>13, <3>1, <3>2, <3>3 DEF RefusalWasDue, ModeratorWas, AdminWas, At
  <2>2. CASE worker.step \notin PastModerators
    BY <1>5, <2>2 DEF RefusalWasDue, PastModerators, At
  <2> QED
    BY <2>1, <2>2
<1>16. CommandsOnly'
  BY <1>5 DEF CommandsOnly, At
<1>17. CooldownInStep'
  <2> SUFFICES ASSUME NEW c \in Limited \cap Commands
               PROVE  IF cooldown'[c] = 0 THEN passed'[c] >= Cooldown
                      ELSE passed'[c] = Cooldown - cooldown'[c]
    BY <1>3 DEF CooldownInStep
  <2>1. cooldown[c] \in 0 .. Cooldown /\ passed[c] \in Ages /\ passed[c] \in Nat
    BY OldIsOld DEF TypeOK, Ages
  <2>2. /\ cooldown'[c] = IF cooldown[c] = 0 THEN 0 ELSE cooldown[c] - 1
        /\ passed'[c] = Older(passed[c])
    BY <1>3
  <2>3. IF cooldown[c] = 0 THEN passed[c] >= Cooldown ELSE passed[c] = Cooldown - cooldown[c]
    BY DEF CooldownInStep
  <2>4. /\ passed'[c] >= passed[c] /\ passed'[c] \in Nat
        /\ passed[c] < Cooldown => passed'[c] = passed[c] + 1
    BY <2>1, <2>2, OlderAge, OldIsOld DEF Ages
  <2> QED
    BY <2>1, <2>2, <2>3, <2>4, Numbers
<1> QED
  BY <1>8, <1>10, <1>11, <1>12, <1>14, <1>15, <1>16, <1>17

\* A restart forgets the check and the cache of the process.
LEMMA InvCrash ==
  ASSUME IInv, crash
  PROVE  IInv'
<1> USE DEF IInv
<1>1. /\ worker' = Idle
      /\ moka' = [u \in Users |-> "none"] /\ moka_age' = [u \in Users |-> 0]
      /\ UNCHANGED <<moderators, moderators_age, admins, admins_age, list, list_age,
                     cooldown, passed>>
  BY DEF crash, roles, limits
<1>2. TypeOK'
  BY <1>1, IdleIsWorker, Numbers DEF TypeOK, WorkerStates, Answers
<1>3. MokaWasSo' /\ ListWasSo' /\ CooldownInStep'
  BY <1>1 DEF MokaWasSo, ListWasSo, CooldownInStep, AdminWas
<1>4. ReadWasSo' /\ GrantWasDue' /\ RefusalWasDue' /\ CommandsOnly'
  BY <1>1, IdleIsWorker, IdleIsFine
<1> QED
  BY <1>2, <1>3, <1>4

\* Redis without its data has no list and no cooldown.
LEMMA InvRedisRestarts ==
  ASSUME IInv, redis_restarts
  PROVE  IInv'
<1> USE DEF IInv
<1>1. /\ list' = NoList /\ list_age' = 0
      /\ cooldown' = [c \in Limited \cap Commands |-> 0]
      /\ passed' = [c \in Limited \cap Commands |-> Old]
      /\ UNCHANGED <<moderators, moderators_age, admins, admins_age, moka, moka_age, worker>>
  BY DEF redis_restarts, roles, TypeOK
<1>2. TypeOK'
  BY <1>1, OldIsOld, Numbers DEF TypeOK, Ages
<1>3. MokaWasSo' /\ ListWasSo'
  BY <1>1 DEF MokaWasSo, ListWasSo, ModeratorWas
<1>4. CooldownInStep'
  BY <1>1, OldIsOld, Numbers DEF CooldownInStep
<1>5. ReadWasSo' /\ GrantWasDue' /\ RefusalWasDue' /\ CommandsOnly'
  BY <1>1 DEF ReadWasSo, GrantWasDue, RefusalWasDue, CommandsOnly, At, ModeratorWas, AdminWas, me,
     PastModerators
<1> QED
  BY <1>2, <1>3, <1>4, <1>5

-----------------------------------------------------------------------------
(* The theorems *)

\* In the beginning nothing is cached and nothing is under way.
LEMMA InvInit ==
  ASSUME Init
  PROVE  IInv
<1>1. TypeOK
  BY IdleIsWorker, OldIsOld, Numbers DEF Init, TypeOK, WorkerStates, Answers, Ages
<1>2. MokaWasSo /\ ListWasSo /\ CooldownInStep
  BY OldIsOld, Numbers DEF Init, MokaWasSo, ListWasSo, CooldownInStep
<1>3. ReadWasSo /\ GrantWasDue /\ RefusalWasDue /\ CommandsOnly
  BY IdleIsWorker DEF Init, ReadWasSo, GrantWasDue, RefusalWasDue, CommandsOnly, At,
     PastModerators
<1> QED
  BY <1>1, <1>2, <1>3 DEF IInv

\* Every step keeps the invariant.
LEMMA InvStep ==
  ASSUME IInv, [Next]_vars
  PROVE  IInv'
<1>1. CASE UNCHANGED vars
  BY <1>1 DEF IInv, vars, roles, caches, limits, TypeOK, MokaWasSo, ListWasSo, ReadWasSo,
     GrantWasDue, RefusalWasDue, CommandsOnly, CooldownInStep, ModeratorWas, AdminWas, At, me
<1>2. ASSUME NEW u \in Users, is_chat_admin(u) \/ \E c \in Commands : command(u, c)
      PROVE  IInv'
  BY <1>2, InvBegin
<1>3. ASSUME NEW u \in Changing, change_moderator(u) \/ change_admin(u)
      PROVE  IInv'
  <2>1. u \in Users
    BY <1>3, GateConstantsOK
  <2> QED
    BY <1>3, <2>1, InvRoles
<1> QED
  BY <1>1, <1>2, <1>3, InvMokaGet, InvSelect, InvInsert, InvGetAdmins, InvTelegram,
     InvSetAdmins, InvAfter, InvCooldown, InvTick, InvCrash, InvRedisRestarts DEF Next

LEMMA Invariance == Spec => []IInv
<1>1. Init => IInv
  BY InvInit
<1>2. IInv /\ [Next]_vars => IInv'
  BY InvStep
<1> QED
  BY <1>1, <1>2, PTL DEF Spec

\* Type correctness: no cached answer outlives its time, no cooldown is longer
\* than it may be, and the worker is always at a step of the code.
THEOREM TypeCorrect == Spec => []TypeOK
<1>1. IInv => TypeOK
  BY DEF IInv
<1> QED
  BY <1>1, Invariance, PTL

\* Power that was taken away is gone in time (is_moderator_or_admin): what
\* grants a command is no older than the cache it came from may be and the
\* calls took.
THEOREM OldPowerIsGone == Spec => []PowerIsRecent
<1>1. IInv => PowerIsRecent
  BY DEF IInv, GrantWasDue, PowerIsRecent, RecentlyIn, ModeratorWas, AdminWas
<1> QED
  BY <1>1, Invariance, PTL

\* Power that was given is seen in time (is_moderator_or_admin): a refusal that
\* no failed call caused is no older than the caches let it be.
THEOREM NewPowerCounts == Spec => []NewPowerIsSeen
<1>1. IInv => NewPowerIsSeen
  BY DEF IInv, RefusalWasDue, CommandsOnly, PastModerators, NewPowerIsSeen, ModeratorWas,
     AdminWas, At
<1> QED
  BY <1>1, Invariance, PTL

\* The cooldown is exact (check_cooldown): a limited command gets through only
\* when the last one is a Cooldown ago or Redis lost the key, and is turned away
\* only before that.
THEOREM CooldownIsExact == Spec => CooldownHolds
<1>1. ASSUME IInv, check_cooldown
      PROVE  LET c == worker.command IN
               /\ At("run")' => passed[c] >= Cooldown
               /\ At("cooling")' => passed[c] < Cooldown
  <2> DEFINE c == worker.command
  <2>1. c \in Limited \cap Commands
    BY <1>1, CooldownCommand
  <2>2. IF cooldown[c] = 0 THEN passed[c] >= Cooldown ELSE passed[c] = Cooldown - cooldown[c]
    BY <1>1, <2>1 DEF IInv, CooldownInStep
  <2>3. cooldown[c] \in 0 .. Cooldown
    BY <1>1, <2>1 DEF IInv, TypeOK
  <2>4. /\ At("run")' => cooldown[c] = 0
        /\ At("cooling")' => cooldown[c] # 0
    <3>1. worker \in WorkerStates
      BY <1>1, WorkerParts DEF IInv
    <3> QED
      BY <1>1, <3>1, IdleIsWorker DEF check_cooldown, At, Go, WorkerStates
  <2> HIDE DEF c
  <2>5. /\ At("run")' => passed[c] >= Cooldown
        /\ At("cooling")' => passed[c] < Cooldown
    BY <2>2, <2>3, <2>4, Numbers
  <2> QED
    BY <2>5 DEF c
<1>2. IInv /\ [Next]_vars =>
        [check_cooldown =>
           LET c == worker.command IN
             /\ At("run")' => passed[c] >= Cooldown
             /\ At("cooling")' => passed[c] < Cooldown]_vars
  BY <1>1
<1> QED
  BY <1>2, Invariance, PTL DEF Spec, CooldownHolds
=============================================================================
