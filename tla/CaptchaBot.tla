----------------------------- MODULE CaptchaBot -----------------------------
(***************************************************************************)
(* The captcha of one watched chat, end to end: the handlers for joins,    *)
(* messages, keyboard presses and /verify, the captcha_expiry job, the     *)
(* PostgreSQL side (CaptchaService), the Redis side (CaptchaState) and the *)
(* photos standing in the chat.                                            *)
(*                                                                         *)
(* The dispatcher handles the updates of one chat one after the other, so  *)
(* there is one worker.  A handler is a list of steps, one for each call   *)
(* it awaits, and between two steps the job runs, time passes, or the      *)
(* process dies.  An update may arrive late or twice: every press of a     *)
(* button that was ever displayed can be handled at any time, and so can   *)
(* a join, a message or a command.                                         *)
(*                                                                         *)
(* Users are the members is_chat_admin answers false for.  Captions,       *)
(* toasts and replies are left out: a caption edit re-attaches the         *)
(* keyboard the press came from.                                           *)
(***************************************************************************)
EXTENDS Naturals, Sequences, FiniteSets

CONSTANTS
  Users,         \* members who have to pass the captcha
  Bystanders,    \* other members, who may press anyone's buttons
  NoMessage, NoRow, NoMeta, NoUser,
  Digits,        \* the digit buttons
  SolutionLen,   \* digits of a solution
  solution_for,  \* challenge id -> solution
  short_id,      \* challenge id -> the prefix its buttons carry
  Attempts, Lifetime, BatchSize,
  MaxIssues,     \* bound: challenges issued in one behaviour
  Faults         \* what may go wrong, a subset of FaultKinds

FaultKinds == {"crash",      \* the process dies and is restarted
               "shutdown",   \* it is asked to stop while it sweeps
               "redis",      \* a Redis command fails
               "redisLoss",  \* Redis restarts empty
               "database",   \* a query fails
               "render",     \* rendering the image fails
               "send",       \* send_photo fails
               "edit",       \* edit_message_media fails
               "delete"}     \* delete_message fails

ChallengeIds == 1 .. MaxIssues
Messages == 1 .. MaxIssues            \* a photo is sent at most once per issue
Solutions == [1 .. SolutionLen -> Digits]

VARIABLES
  challenge, verified, ledger, stats, issued, rendering, batch,
  meta,           \* cap:meta:{chat}:{message}
  input,          \* cap:input:{chat}:{user}
  verifiedCache,  \* cap:verified:{chat}:{user}: the users it holds
  photo,          \* the challenge each photo displays, 0 if it does not stand
  shown,          \* history: the challenges each photo ever displayed
  sent,           \* photos sent so far
  task            \* the handler that runs and the steps it still has to do

Db == INSTANCE CaptchaService

\* What set_meta stores: the owner, and the prefix the buttons carry.
MetaRow == [owner : Users, short : {short_id[i] : i \in ChallengeIds},
            ttl : 1 .. Lifetime]

ASSUME BotConstantsOK ==
  /\ IsFiniteSet(Users) /\ Users \cap Bystanders = {}
  /\ {Attempts, Lifetime, BatchSize, SolutionLen} \subseteq Nat \ {0}
  /\ MaxIssues \in Nat
  /\ solution_for \in [ChallengeIds -> Solutions]
  /\ DOMAIN short_id = ChallengeIds
  /\ Faults \subseteq FaultKinds

ASSUME BotSentinelsOK ==
  NoMessage \notin Messages /\ NoRow \notin Db!Row /\ NoMeta \notin MetaRow

tables == <<challenge, verified, ledger, stats, issued, rendering, batch>>
redis == <<meta, input, verifiedCache>>
chat == <<photo, shown, sent>>
vars == <<tables, redis, chat, task>>

HasRow(u) == Db!HasRow(u)
Live(u) == Db!Live(u)

\* A press of a digit button.  Redis keeps the digit alone; who pressed it is
\* history.
Press == [digit : Digits, by : Users \cup Bystanders]

NoInput == [presses |-> <<>>, ttl |-> 0]

Steps == {"render", "send_photo", "record_message_id", "set_meta", "solve",
          "clear_input", "clear_meta", "mark_verified", "delete_photo",
          "reissue", "edit_media"}

NoTask == [user |-> NoUser, message |-> NoMessage, id |-> 0, attempt |-> <<>>,
           todo |-> <<>>]

UpTo(S, n) == UNION {[1 .. k -> S] : k \in 0 .. n}

TypeOK ==
  /\ Db!TypeOK
  /\ meta \in [Messages -> {NoMeta} \cup MetaRow]
  /\ input \in [Users -> [presses : UpTo(Press, SolutionLen - 1),
                          ttl : 0 .. Lifetime]]
  /\ verifiedCache \subseteq Users
  /\ photo \in [Messages -> 0 .. issued]
  /\ shown \subseteq Messages \X ChallengeIds
  /\ sent \in 0 .. issued
  /\ task.user \in Users \cup {NoUser}
  /\ task.message \in Messages \cup {NoMessage}
  /\ task.id \in 0 .. issued
  /\ task.attempt \in UpTo(Press, SolutionLen)
  /\ \A i \in DOMAIN task.todo : task.todo[i] \in Steps

Init ==
  /\ Db!Init
  /\ meta = [m \in Messages |-> NoMeta]
  /\ input = [u \in Users |-> NoInput]
  /\ verifiedCache = {}
  /\ photo = [m \in Messages |-> 0]
  /\ shown = {}
  /\ sent = 0
  /\ task = NoTask

-----------------------------------------------------------------------------
(* The worker and its steps *)

Idle == task.todo = <<>>

At(step) == ~Idle /\ Head(task.todo) = step

Begin(u, m, id, attempt, steps) ==
  task' = [user |-> u, message |-> m, id |-> id, attempt |-> attempt,
           todo |-> steps]

\* The step is done: on to the next one; a handler without one is over.
Proceed(t) ==
  task' = IF Len(t.todo) = 1 THEN NoTask ELSE [t EXCEPT !.todo = Tail(@)]

Abandon == task' = NoTask

\* A Redis command has its effect, or fails and is only warned about.
RedisOutcome(old, new) == {new} \cup IF "redis" \in Faults THEN {old} ELSE {}

\* So does a call of the Bot API that can fail in the given way.
BotOutcome(kind, old, new) == {new} \cup IF kind \in Faults THEN {old} ELSE {}

\* Mutant: the meta row is forgotten.
Posting_NoMeta == <<"render", "send_photo", "record_message_id">>

\* What issue_and_post and the join handler do after the upsert.
Posting == <<"render", "send_photo", "record_message_id", "set_meta">>

finish_issue ==
  /\ At("render")
  /\ Db!finish_issue(task.id)
  /\ Proceed(task)
  /\ UNCHANGED <<redis, chat>>

\* issue_challenge returns the render error, every caller logs and returns.
render_fails ==
  /\ At("render") /\ "render" \in Faults
  /\ Db!fail_issue(task.id)
  /\ Abandon
  /\ UNCHANGED <<redis, chat>>

send_photo ==
  /\ At("send_photo")
  /\ sent' = sent + 1
  /\ photo' = [photo EXCEPT ![sent + 1] = task.id]
  /\ shown' = shown \cup {<<sent + 1, task.id>>}
  /\ Proceed([task EXCEPT !.message = sent + 1])
  /\ UNCHANGED <<tables, redis>>

send_fails ==
  /\ At("send_photo") /\ "send" \in Faults
  /\ Abandon
  /\ UNCHANGED <<tables, redis, chat>>

record_message_id ==
  /\ At("record_message_id")
  /\ \/ Db!record_message_id(task.user, task.message)
     \/ "database" \in Faults /\ UNCHANGED tables
  /\ Proceed(task)
  /\ UNCHANGED <<redis, chat>>

set_meta ==
  /\ At("set_meta")
  /\ meta' \in RedisOutcome(meta, [meta EXCEPT ![task.message] =
       [owner |-> task.user, short |-> short_id[task.id], ttl |-> Lifetime]])
  /\ Proceed(task)
  /\ UNCHANGED <<tables, input, verifiedCache, chat>>

clear_input ==
  /\ At("clear_input")
  /\ input' \in RedisOutcome(input, [input EXCEPT ![task.user] = NoInput])
  /\ Proceed(task)
  /\ UNCHANGED <<tables, meta, verifiedCache, chat>>

clear_meta ==
  /\ At("clear_meta")
  /\ meta' \in RedisOutcome(meta, [meta EXCEPT ![task.message] = NoMeta])
  /\ Proceed(task)
  /\ UNCHANGED <<tables, input, verifiedCache, chat>>

mark_verified ==
  /\ At("mark_verified")
  /\ verifiedCache' \in
       RedisOutcome(verifiedCache, verifiedCache \cup {task.user})
  /\ Proceed(task)
  /\ UNCHANGED <<tables, meta, input, chat>>

delete_photo ==
  /\ At("delete_photo")
  /\ photo' \in BotOutcome("delete", photo, [photo EXCEPT ![task.message] = 0])
  /\ Proceed(task)
  /\ UNCHANGED <<tables, redis, shown, sent>>

reissue ==
  /\ At("reissue")
  /\ Db!issue_challenge(task.user)
  /\ Proceed([task EXCEPT !.id = issued'])
  /\ UNCHANGED <<redis, chat>>

\* The photo gets the new image and keyboard, unless it is gone already.
edit_media ==
  /\ At("edit_media")
  /\ \/ /\ photo[task.message] # 0
        /\ photo' = [photo EXCEPT ![task.message] = task.id]
        /\ shown' = shown \cup {<<task.message, task.id>>}
     \/ /\ photo[task.message] = 0 \/ "edit" \in Faults
        /\ UNCHANGED <<photo, shown>>
  /\ Proceed(task)
  /\ UNCHANGED <<tables, redis, sent>>

\* Mutant: every answer marks the user verified in the cache.
AfterSolve_AlwaysMarks(outcome) ==
  <<"clear_input", "clear_meta", "mark_verified", "delete_photo">>

\* What the digit handler still has to do once solve has answered.
AfterSolve(outcome) ==
  CASE outcome \in {"Solved", "AlreadyVerified"} ->
         <<"clear_input", "clear_meta", "mark_verified", "delete_photo">>
    [] outcome = "WrongLeft" -> <<"clear_input">>
    [] outcome \in {"WrongFinal", "Expired", "NotFound"} ->
         <<"clear_input", "clear_meta", "delete_photo">>

Typed(presses) == [i \in 1 .. Len(presses) |-> presses[i].digit]

solve ==
  /\ At("solve")
  /\ LET attempt == Typed(task.attempt) IN
       /\ Db!solve(task.user, attempt)
       /\ task' = [task EXCEPT !.attempt = <<>>,
                     !.todo = AfterSolve(Db!Outcome(task.user, attempt))]
  /\ UNCHANGED <<redis, chat>>

\* The query fails: the error leaves the handler, or it logs and returns.
query_fails ==
  /\ At("solve") \/ At("reissue")
  /\ "database" \in Faults
  /\ Abandon
  /\ UNCHANGED <<tables, redis, chat>>

Worker ==
  \/ finish_issue \/ render_fails \/ send_photo \/ send_fails
  \/ record_message_id \/ set_meta \/ clear_input \/ clear_meta
  \/ mark_verified \/ delete_photo \/ reissue \/ edit_media
  \/ solve \/ query_fails

-----------------------------------------------------------------------------
(* Updates the dispatcher hands to the worker *)

\* is_verified_cached: a Redis error is a miss.
CacheMiss(u) == u \notin verifiedCache \/ "redis" \in Faults

Unverified(u) == u \notin verified \cup verifiedCache

\* A join, or a message, of a user PG knows to be verified: the cache is
\* filled.  (On a cache hit neither handler touches the captcha.)
recognise(u) ==
  /\ Idle
  /\ u \in verified \ verifiedCache
  /\ verifiedCache' = verifiedCache \cup {u}
  /\ UNCHANGED <<tables, meta, input, chat, task>>

\* issue_challenge and what follows it; a failing upsert ends the handler.
Issue(u) ==
  /\ Idle
  /\ Db!issue_challenge(u)
  /\ Begin(u, NoMessage, issued', <<>>, Posting)
  /\ UNCHANGED <<redis, chat>>

\* member_update: a fresh joiner gets a challenge, whatever row is left of an
\* earlier stay.
join(u) == CacheMiss(u) /\ u \notin verified /\ Issue(u)

\* message_gate: a message of an unverified user is deleted, and only a user
\* without a live challenge gets one.  A failing query counts as "unverified"
\* in the one check and as "no live challenge" in the other.
gate(u) ==
  /\ CacheMiss(u)
  /\ u \notin verified \/ "database" \in Faults
  /\ ~Live(u) \/ "database" \in Faults
  /\ Issue(u)

\* Mutant: anybody may press.
Accepted_Anybody(p, m, id) ==
  /\ <<m, id>> \in shown
  /\ meta[m] # NoMeta
  /\ meta[m].short = short_id[id]

\* The checks of the callback handler: p presses a button that carries the
\* short of challenge id under message m, and owns that message's captcha.
Accepted(p, m, id) ==
  /\ <<m, id>> \in shown
  /\ meta[m] # NoMeta
  /\ meta[m].owner = p
  /\ meta[m].short = short_id[id]

\* The typed digits as get_input reports them: nothing if Redis fails.
Buffer(u) == RedisOutcome(<<>>, input[u].presses)

Buffered(u, presses) ==
  input' \in RedisOutcome(input, [input EXCEPT ![u] =
    IF presses = <<>> THEN NoInput ELSE [presses |-> presses, ttl |-> Lifetime]])

\* A digit that does not complete the solution is kept, and the buffer's
\* lifetime starts again.
digit_pressed(p, m, id, d) ==
  /\ Idle /\ Accepted(p, m, id)
  /\ \E presses \in Buffer(meta[m].owner) :
       LET typed == Append(presses, [digit |-> d, by |-> p]) IN
       \/ /\ Len(typed) < SolutionLen
          /\ Buffered(meta[m].owner, typed)
          /\ UNCHANGED task
       \/ /\ Len(typed) = SolutionLen
          /\ Begin(meta[m].owner, m, 0, typed, <<"solve">>)
          /\ UNCHANGED input
  /\ UNCHANGED <<tables, meta, verifiedCache, chat>>

backspace(p, m, id) ==
  /\ Idle /\ Accepted(p, m, id)
  /\ \E presses \in Buffer(meta[m].owner) :
       Buffered(meta[m].owner,
         IF presses = <<>> THEN <<>> ELSE SubSeq(presses, 1, Len(presses) - 1))
  /\ UNCHANGED <<tables, meta, verifiedCache, chat, task>>

\* Mutant: the meta row of the old keyboard stays until it is overwritten.
Refreshing_KeepsMeta ==
  <<"clear_input", "reissue", "render", "edit_media", "record_message_id",
    "set_meta">>

\* What refresh does, in its order.
Refreshing ==
  <<"clear_input", "clear_meta", "reissue", "render", "edit_media",
    "record_message_id", "set_meta">>

refresh(p, m, id) ==
  /\ Idle /\ Accepted(p, m, id)
  /\ issued < MaxIssues
  /\ Begin(meta[m].owner, m, 0, <<>>, Refreshing)
  /\ UNCHANGED <<tables, redis, chat>>

\* Mutant: the handler writes verified_users itself, and nothing else.
verify_BesideService(u) ==
  /\ Idle
  /\ verified' = verified \cup {u}
  /\ Begin(u, NoMessage, 0, <<>>, <<"mark_verified">>)
  /\ UNCHANGED <<challenge, ledger, stats, issued, rendering, batch, redis, chat>>

\* /verify by a moderator: the row goes, the photo and its meta stay.
verify(u) ==
  /\ Idle
  /\ Db!verify_manual(u)
  /\ Begin(u, NoMessage, 0, <<>>, <<"mark_verified">>)
  /\ UNCHANGED <<redis, chat>>

-----------------------------------------------------------------------------
(* The captcha_expiry job *)

sweep_expired_batch ==
  /\ Db!sweep_expired_batch
  /\ UNCHANGED <<redis, chat, task>>

\* Mutant: a user with a new row keeps the old photo.
delete_swept_photo_UnlessNewRow(row) ==
  /\ Db!photo_done(row)
  /\ photo' \in IF row.message = NoMessage \/ HasRow(row.user)
                THEN {photo}
                ELSE BotOutcome("delete", photo,
                                [photo EXCEPT ![row.message] = 0])
  /\ UNCHANGED <<redis, shown, sent, task>>

delete_swept_photo(row) ==
  /\ Db!photo_done(row)
  /\ photo' \in IF row.message = NoMessage
                THEN {photo}
                ELSE BotOutcome("delete", photo,
                                [photo EXCEPT ![row.message] = 0])
  /\ UNCHANGED <<redis, shown, sent, task>>

ledger_expired(row) ==
  /\ \/ Db!ledger_expired(row)
     \/ Db!count_expired(row)
     \/ "database" \in Faults /\ Db!fail_expired(row)
  /\ UNCHANGED <<redis, chat, task>>

Sweeper ==
  \/ sweep_expired_batch
  \/ \E row \in batch : delete_swept_photo(row) \/ ledger_expired(row)

-----------------------------------------------------------------------------
(* The environment *)

\* SETEX keys and challenge rows age together.
Tick ==
  /\ Db!Tick
  /\ meta' = [m \in Messages |->
       IF meta[m] = NoMeta \/ meta[m].ttl = 1
       THEN NoMeta ELSE [meta[m] EXCEPT !.ttl = @ - 1]]
  /\ input' = [u \in Users |->
       IF input[u].ttl <= 1 THEN NoInput ELSE [input[u] EXCEPT !.ttl = @ - 1]]
  /\ UNCHANGED <<verifiedCache, chat, task>>

\* The 7 days of a cached verification are over.
verified_cache_expires(u) ==
  /\ u \in verifiedCache
  /\ verifiedCache' = verifiedCache \ {u}
  /\ UNCHANGED <<tables, meta, input, chat, task>>

Crash ==
  /\ "crash" \in Faults
  /\ Db!Crash
  /\ task' = NoTask
  /\ UNCHANGED <<redis, chat>>

Shutdown ==
  /\ "shutdown" \in Faults
  /\ Db!shutdown_mid_batch
  /\ UNCHANGED <<redis, chat, task>>

RedisLoss ==
  /\ "redisLoss" \in Faults
  /\ meta' = [m \in Messages |-> NoMeta]
  /\ input' = [u \in Users |-> NoInput]
  /\ verifiedCache' = {}
  /\ UNCHANGED <<tables, chat, task>>

-----------------------------------------------------------------------------
Dispatch ==
  \/ \E u \in Users : recognise(u) \/ join(u) \/ gate(u) \/ verify(u)
  \/ \E p \in Users \cup Bystanders, s \in shown :
       \/ \E d \in Digits : digit_pressed(p, s[1], s[2], d)
       \/ backspace(p, s[1], s[2])
       \/ refresh(p, s[1], s[2])

Next ==
  \/ Worker
  \/ Dispatch
  \/ Sweeper
  \/ Tick
  \/ \E u \in Users : verified_cache_expires(u)
  \/ Crash
  \/ Shutdown
  \/ RedisLoss

Spec == Init /\ [][Next]_vars

\* A handler that started goes on, the job sweeps every 60 s, time passes.
\* Nobody has to join, to write, or to press anything.
Fairness == WF_vars(Worker) /\ WF_vars(Sweeper) /\ WF_vars(Tick)

FairSpec == Spec /\ Fairness

-----------------------------------------------------------------------------
(***************************************************************************)
(* Properties                                                              *)
(***************************************************************************)

\* The cache never opens the gate for someone PostgreSQL does not hold to be
\* verified: the gate and the join handler ask it first and trust a hit.
CacheSound == verifiedCache \subseteq verified

\* An attempt that reaches solve was typed by the challenge's owner, digit by
\* digit, although every member sees the keyboard and may press it.
AnswersAreOwn ==
  At("solve") => \A i \in DOMAIN task.attempt : task.attempt[i].by = task.user

\* A photo that stands and that a row names shows that row's challenge, across
\* refreshes, rejoins, sweeps and crashes: the sweep deletes the photo of the
\* challenge that ended.
RecordedPhotoIsCurrent ==
  \A u \in Users :
    (HasRow(u) /\ challenge[u].message # NoMessage
               /\ photo[challenge[u].message] # 0)
    => photo[challenge[u].message] = challenge[u].id

\* The buttons under a standing photo and the meta row that checks them agree,
\* so the owner of a captcha is never told apart from its keyboard.
MetaMatchesKeyboard ==
  \A m \in Messages :
    (meta[m] # NoMeta /\ photo[m] # 0) => meta[m].short = short_id[photo[m]]

\* "At worst the user has to press refresh": as long as nothing fails, refresh
\* is accepted under a photo that shows its owner's live challenge, however
\* joins, messages, refreshes, sweeps and expiring keys are interleaved.
RefreshIsAccepted ==
  Idle => \A u \in Users, m \in Messages :
    Live(u) /\ photo[m] = challenge[u].id => Accepted(u, m, challenge[u].id)

\* What the handlers and the job do to the tables is what the service allows,
\* hence its properties hold of the whole bot.
ServiceSpec == Db!Spec

\* A challenge does not outlive its time, whatever the members press.
EveryChallengeEnds == Db!EveryChallengeEnds

\* Whatever the owner presses meanwhile, the photo of a swept row goes.
SweptPhotoGoes ==
  \A m \in Messages : (\E row \in batch : row.message = m) ~> photo[m] = 0

-----------------------------------------------------------------------------
(* A statement of the repository the code does not keep *)

\* "re-issuing a captcha to a verified user is a bug": /verify leaves photo and
\* meta standing, and its refresh button does it.
NoCaptchaForVerified ==
  [][\A u \in Users : u \in verified /\ HasRow(u)'
       => HasRow(u) /\ challenge'[u].id = challenge[u].id]_vars
=============================================================================
