-------------------------- MODULE CaptchaBotProofs --------------------------
(***************************************************************************)
(* The captcha of a chat, for every set of members and every bound: the    *)
(* handlers and the job keep their types and only do to the tables what    *)
(* CaptchaService allows; the cache of verified users is sound, and an     *)
(* attempt is its owner's.  As long as the steps a property depends on do  *)
(* not fail, a recorded photo shows the row's challenge, a keyboard and    *)
(* its meta row agree, and refresh is accepted.                            *)
(***************************************************************************)
EXTENDS CaptchaBot, SequenceTheorems, FiniteSetTheorems, TLAPS

\* What is proved about the tables alone.
Service == INSTANCE CaptchaServiceProofs

-----------------------------------------------------------------------------
(* The inductive invariant *)

\* What a handler may still have to do.  A new challenge waits for its photo,
ToSend ==
  {<<"render", "send_photo", "record_message_id", "set_meta">>,
   <<"send_photo", "record_message_id", "set_meta">>}

\* or for the photo of the old one,
ToEdit ==
  {<<"render", "edit_media", "record_message_id", "set_meta">>,
   <<"edit_media", "record_message_id", "set_meta">>}

\* or only for the photo to be written down,
ToRecord == {<<"record_message_id", "set_meta">>, <<"set_meta">>}

\* a refresh that has drawn no challenge yet,
ToReissue ==
  {Refreshing,
   <<"clear_meta", "reissue", "render", "edit_media", "record_message_id",
     "set_meta">>,
   <<"reissue", "render", "edit_media", "record_message_id", "set_meta">>}

\* one whose old keyboard is out of use,
ToRedraw ==
  {<<"reissue", "render", "edit_media", "record_message_id", "set_meta">>}

\* an attempt that is complete, a wrong one, one that ended the challenge,
ToSolve == {<<"solve">>}
ToClear == {<<"clear_input">>}
ToClose ==
  {<<"clear_input", "clear_meta", "delete_photo">>,
   <<"clear_meta", "delete_photo">>, <<"delete_photo">>}

\* and one that passed.
ToPass ==
  {<<"clear_input", "clear_meta", "mark_verified", "delete_photo">>,
   <<"clear_meta", "mark_verified", "delete_photo">>,
   <<"mark_verified", "delete_photo">>}

\* /verify has the cache to fill.
ToMark == {<<"mark_verified">>}

\* The task with other steps to do.
With(todo) ==
  [user |-> task.user, message |-> task.message, id |-> task.id,
   attempt |-> task.attempt, todo |-> todo]

\* What a handler remembers at each of its steps.  A photo is still to be sent
\* only if a challenge was drawn for it.
TaskShape ==
  \/ task = NoTask
  \/ /\ task = With(task.todo) /\ task.user \in Users
     /\ \/ /\ task.todo \in ToSend
           /\ task.message = NoMessage /\ task.id \in 1 .. issued
           /\ task.attempt = <<>> /\ sent < issued
        \/ /\ task.todo \in ToEdit \cup ToRecord
           /\ task.message \in 1 .. sent /\ task.id \in 1 .. issued
           /\ task.attempt = <<>>
        \/ /\ task.todo \in ToReissue \cup ToClear \cup ToClose \cup ToPass
           /\ task.message \in 1 .. sent /\ task.id = 0
           /\ task.attempt = <<>>
        \/ /\ task.todo \in ToSolve
           /\ task.message \in 1 .. sent /\ task.id = 0
           /\ task.attempt \in [1 .. SolutionLen -> Press]
        \/ /\ task.todo \in ToMark
           /\ task.message = NoMessage /\ task.id = 0 /\ task.attempt = <<>>

\* What was sent is all that a row or a meta row can name.
NothingUnsent ==
  \A m \in Messages : m > sent =>
    /\ meta[m] = NoMeta /\ photo[m] = 0
    /\ \A u \in Users : HasRow(u) => challenge[u].message # m
    /\ \A id \in ChallengeIds : <<m, id>> \notin shown

\* Only the verified are about to be marked.
MarkedAreVerified == task.todo \in ToPass \cup ToMark => task.user \in verified

\* The digits Redis keeps for a user are the user's own.
DigitsAreOwn ==
  \A u \in Users : \A i \in DOMAIN input[u].presses : input[u].presses[i].by = u

BotInv ==
  /\ TypeOK /\ TaskShape /\ NothingUnsent
  /\ CacheSound /\ MarkedAreVerified
  /\ DigitsAreOwn /\ AnswersAreOwn

\* The messages that belong to a user's captcha: the row names it, its meta row
\* names the user, the handler works on it, or the row's challenge is on it.
Claims(u, m) ==
  \/ HasRow(u) /\ challenge[u].message = m
  \/ meta[m] # NoMeta /\ meta[m].owner = u
  \/ task.user = u /\ task.message = m
  \/ HasRow(u) /\ photo[m] = challenge[u].id

OneOwner ==
  \A u, v \in Users, m \in Messages : Claims(u, m) /\ Claims(v, m) => u = v

\* No two rows hold the same challenge, and no row one that was never drawn.
IdsDiffer ==
  \A u \in Users : HasRow(u) =>
    /\ challenge[u].id <= issued
    /\ \A v \in Users : HasRow(v) /\ challenge[u].id = challenge[v].id => u = v

\* The challenge a handler works on is its user's, if the row still stands, and
\* nobody else's; and it is on no photo yet.
TaskIsCurrent ==
  task.todo \in ToSend \cup ToEdit \cup ToRecord =>
    \A u \in Users : HasRow(u) => (u = task.user <=> challenge[u].id = task.id)

TaskIsNew ==
  task.todo \in ToSend \cup ToEdit =>
    /\ \A m \in Messages : photo[m] # task.id
    /\ HasRow(task.user) => challenge[task.user].message = NoMessage

\* What ended a challenge left no row.
EndedIsGone == task.todo \in ToClose \cup ToPass => ~HasRow(task.user)

ChatInv == OneOwner /\ IdsDiffer /\ TaskIsCurrent /\ TaskIsNew /\ EndedIsGone

\* The photo a handler is about to write down shows its challenge, unless it is
\* gone.
TaskIsShown ==
  task.todo \in ToRecord => photo[task.message] \in {0, task.id}

PhotoInv == RecordedPhotoIsCurrent /\ TaskIsShown

\* While a handler changes a keyboard nothing checks it.
MetaIsAway ==
  task.todo \in ToRedraw \cup ToEdit \cup ToRecord => meta[task.message] = NoMeta

KeyboardInv == MetaMatchesKeyboard /\ TaskIsShown /\ MetaIsAway

\* The keyboard of a live challenge can be used for as long as the challenge
\* lives, but for the moments a handler changes it.
Usable(u, m) ==
  /\ meta[m] # NoMeta
  /\ meta[m].owner = u
  /\ meta[m].short = short_id[challenge[u].id]
  /\ challenge[u].ttl <= meta[m].ttl

Changing(u, m) ==
  task.user = u /\ task.message = m /\ task.todo \in ToReissue \cup ToRecord

LiveIsUsable ==
  \A u \in Users, m \in Messages :
    Live(u) /\ photo[m] = challenge[u].id =>
      <<m, challenge[u].id>> \in shown /\ (Usable(u, m) \/ Changing(u, m))

-----------------------------------------------------------------------------
(* The tables *)

\* The assumptions of the service are among those of the bot.
LEMMA ServiceConstants ==
  /\ Service!IsFiniteSet(Users)
  /\ Attempts \in Nat \ {0}
  /\ Lifetime \in Nat \ {0}
  /\ BatchSize \in Nat \ {0}
  /\ MaxIssues \in Nat
  /\ solution_for \in [Service!ChallengeIds -> Solutions]
  /\ NoMessage \notin Messages /\ NoRow \notin Service!Row
BY BotConstantsOK, BotSentinelsOK
DEF Service!ChallengeIds, Db!ChallengeIds, ChallengeIds, Service!Row, Db!Row,
    Service!IsFiniteSet, IsFiniteSet

\* Db and Service are the same module, with and without its theorems.
LEMMA SameTypes == Db!TypeOK <=> Service!TypeOK
BY DEF Db!TypeOK, Service!TypeOK, Db!Row, Service!Row, Db!ChallengeIds,
       Service!ChallengeIds, Db!Metrics, Service!Metrics, Db!LedgerKey,
       Service!LedgerKey, Db!SweptRow, Service!SweptRow, Db!Actions,
       Service!Actions

LEMMA SameInit == Db!Init <=> Service!Init
BY DEF Db!Init, Service!Init, Db!LedgerKey, Service!LedgerKey, Db!Actions,
       Service!Actions, Db!Metrics, Service!Metrics

LEMMA SameNext == [Db!Next]_Db!vars <=> [Service!Next]_Service!vars
BY DEF Db!vars, Service!vars, Db!Next, Service!Next,
       Db!issue_challenge, Service!issue_challenge,
       Db!FreshRow, Service!FreshRow, Db!finish_issue, Service!finish_issue,
       Db!fail_issue, Service!fail_issue,
       Db!record_message_id, Service!record_message_id,
       Db!verify_manual, Service!verify_manual, Db!solve, Service!solve,
       Db!Outcome, Service!Outcome, Db!HasRow, Service!HasRow,
       Db!Live, Service!Live, Db!DeleteRow, Service!DeleteRow,
       Db!SpendAttempt, Service!SpendAttempt,
       Db!LedgerInsert, Service!LedgerInsert, Db!Bumped, Service!Bumped,
       Db!Metrics, Service!Metrics, Db!Sweeper, Service!Sweeper,
       Db!sweep_expired_batch, Service!sweep_expired_batch,
       Db!Swept, Service!Swept, Db!Expired, Service!Expired,
       Db!Cardinality, Service!Cardinality,
       Db!process_expired, Service!process_expired,
       Db!photo_done, Service!photo_done, Db!IsNext, Service!IsNext,
       Db!ledger_expired, Service!ledger_expired,
       Db!count_expired, Service!count_expired,
       Db!fail_expired, Service!fail_expired,
       Db!shutdown_mid_batch, Service!shutdown_mid_batch,
       Db!Crash, Service!Crash, Db!Tick, Service!Tick

\* A step of the service leaves the tables well typed.
LEMMA TablesTyped == Db!TypeOK /\ [Db!Next]_Db!vars => Db!TypeOK'
<1>1. Service!TypeOK /\ [Service!Next]_Service!vars => Service!TypeOK'
  BY ServiceConstants, Service!TypeStep
<1>2. Db!TypeOK' <=> Service!TypeOK'
  BY SameTypes, PTL
<1> QED
  BY <1>1, <1>2, SameTypes, SameNext

-----------------------------------------------------------------------------
(* The handlers *)

Lists == ToSend \cup ToEdit \cup ToRecord \cup ToReissue \cup ToClear \cup ToClose
           \cup ToPass \cup ToSolve \cup ToMark

\* The kinds of work are apart.
LEMMA Apart ==
  /\ \A t \in ToSend : t \notin ToEdit \cup ToRecord
  /\ \A t \in ToEdit : t \notin ToRecord
  /\ \A t \in ToSend \cup ToEdit \cup ToRecord :
       t \notin ToReissue \cup ToClear \cup ToClose \cup ToPass \cup ToSolve \cup ToMark
  /\ \A t \in ToReissue \cup ToClear :
       t \notin ToClose \cup ToPass \cup ToSolve \cup ToMark
  /\ \A t \in ToReissue : t \notin ToClear
  /\ \A t \in ToClose : t \notin ToPass \cup ToSolve \cup ToMark
  /\ \A t \in ToPass : t \notin ToSolve \cup ToMark
  /\ \A t \in ToSolve : t \notin ToMark
  /\ <<>> \notin Lists
<1>1. \A t \in ToSend : t \notin ToEdit \cup ToRecord
  BY DEF ToSend, ToEdit, ToRecord
<1>2. \A t \in ToEdit : t \notin ToRecord
  BY DEF ToEdit, ToRecord
<1>3. \A t \in ToSend \cup ToEdit \cup ToRecord :
        t \notin ToReissue \cup ToClear \cup ToClose \cup ToPass \cup ToSolve \cup ToMark
  BY DEF ToSend, ToEdit, ToRecord, ToReissue, ToClear, ToClose, ToPass, ToSolve,
         ToMark, Refreshing
<1>4. \A t \in ToReissue \cup ToClear :
        t \notin ToClose \cup ToPass \cup ToSolve \cup ToMark
  BY DEF ToReissue, ToClear, ToClose, ToPass, ToSolve, ToMark, Refreshing
<1>5. \A t \in ToReissue : t \notin ToClear
  BY DEF ToReissue, ToClear, Refreshing
<1>6. \A t \in ToClose : t \notin ToPass \cup ToSolve \cup ToMark
  BY DEF ToClose, ToPass, ToSolve, ToMark
<1>7. \A t \in ToPass : t \notin ToSolve \cup ToMark
  BY DEF ToPass, ToSolve, ToMark
<1>8. \A t \in ToSolve : t \notin ToMark
  BY DEF ToSolve, ToMark
<1>9. <<>> \notin Lists
  BY DEF Lists, ToSend, ToEdit, ToRecord, ToReissue, ToClear, ToClose, ToPass,
         ToSolve, ToMark, Refreshing
<1> QED
  BY <1>1, <1>2, <1>3, <1>4, <1>5, <1>6, <1>7, <1>8, <1>9

\* A handler that has something to do has one of the known lists of steps.
LEMMA BusyTask ==
  ASSUME TaskShape
  PROVE  /\ Idle <=> task = NoTask
         /\ ~Idle => task = With(task.todo) /\ task.user \in Users
                     /\ task.todo \in Lists
<1>1. NoTask.todo = <<>>
  BY DEF NoTask
<1>2. <<>> \notin Lists
  BY DEF Lists, ToSend, ToEdit, ToRecord, ToReissue, ToClear, ToClose, ToPass,
         ToSolve, ToMark, Refreshing
<1>3. task # NoTask => task = With(task.todo) /\ task.user \in Users
                       /\ task.todo \in Lists
  BY DEF TaskShape, Lists
<1> QED
  BY <1>1, <1>2, <1>3 DEF Idle

\* The lists that begin with a given step.
LEMMA ListsByStep ==
  ASSUME NEW todo \in Lists
  PROVE  /\ Head(todo) = "render" => todo \in
              {<<"render", "send_photo", "record_message_id", "set_meta">>,
               <<"render", "edit_media", "record_message_id", "set_meta">>}
         /\ Head(todo) = "send_photo" => todo =
              <<"send_photo", "record_message_id", "set_meta">>
         /\ Head(todo) = "record_message_id" => todo =
              <<"record_message_id", "set_meta">>
         /\ Head(todo) = "set_meta" => todo = <<"set_meta">>
         /\ Head(todo) = "reissue" => todo =
              <<"reissue", "render", "edit_media", "record_message_id", "set_meta">>
         /\ Head(todo) = "edit_media" => todo =
              <<"edit_media", "record_message_id", "set_meta">>
         /\ Head(todo) = "solve" => todo = <<"solve">>
         /\ Head(todo) = "clear_input" => todo \in
              {Refreshing, <<"clear_input">>,
               <<"clear_input", "clear_meta", "delete_photo">>,
               <<"clear_input", "clear_meta", "mark_verified", "delete_photo">>}
         /\ Head(todo) = "clear_meta" => todo \in
              {<<"clear_meta", "reissue", "render", "edit_media",
                 "record_message_id", "set_meta">>,
               <<"clear_meta", "delete_photo">>,
               <<"clear_meta", "mark_verified", "delete_photo">>}
         /\ Head(todo) = "mark_verified" => todo \in
              {<<"mark_verified", "delete_photo">>, <<"mark_verified">>}
         /\ Head(todo) = "delete_photo" => todo = <<"delete_photo">>
         /\ todo # <<>> /\ Head(todo) \in Steps
BY DEF Lists, ToSend, ToEdit, ToRecord, ToReissue, ToClear, ToClose, ToPass,
       ToSolve, ToMark, Refreshing, Steps

\* What is left of each of them after that step.
LEMMA Tails ==
  /\ Tail(<<"render", "send_photo", "record_message_id", "set_meta">>)
       = <<"send_photo", "record_message_id", "set_meta">>
  /\ Tail(<<"render", "edit_media", "record_message_id", "set_meta">>)
       = <<"edit_media", "record_message_id", "set_meta">>
  /\ Tail(<<"send_photo", "record_message_id", "set_meta">>)
       = <<"record_message_id", "set_meta">>
  /\ Tail(<<"edit_media", "record_message_id", "set_meta">>)
       = <<"record_message_id", "set_meta">>
  /\ Tail(<<"record_message_id", "set_meta">>) = <<"set_meta">>
  /\ Tail(Refreshing)
       = <<"clear_meta", "reissue", "render", "edit_media",
           "record_message_id", "set_meta">>
  /\ Tail(<<"clear_meta", "reissue", "render", "edit_media",
            "record_message_id", "set_meta">>)
       = <<"reissue", "render", "edit_media", "record_message_id", "set_meta">>
  /\ Tail(<<"reissue", "render", "edit_media", "record_message_id", "set_meta">>)
       = <<"render", "edit_media", "record_message_id", "set_meta">>
  /\ Tail(<<"clear_input", "clear_meta", "delete_photo">>)
       = <<"clear_meta", "delete_photo">>
  /\ Tail(<<"clear_meta", "delete_photo">>) = <<"delete_photo">>
  /\ Tail(<<"clear_input", "clear_meta", "mark_verified", "delete_photo">>)
       = <<"clear_meta", "mark_verified", "delete_photo">>
  /\ Tail(<<"clear_meta", "mark_verified", "delete_photo">>)
       = <<"mark_verified", "delete_photo">>
  /\ Tail(<<"mark_verified", "delete_photo">>) = <<"delete_photo">>
BY DEF Refreshing

\* A step done, the handler goes on with the rest of its list, or is over.
LEMMA Shortened ==
  ASSUME TaskShape, ~Idle, NEW rest, Tail(task.todo) = rest, Len(task.todo) # 1,
         Proceed(task)
  PROVE  task' = With(rest)
BY BusyTask DEF Proceed, With

LEMMA Finished ==
  ASSUME Len(task.todo) = 1, Proceed(task)
  PROVE  task' = NoTask
BY DEF Proceed

\* What each step that keeps the rest of the task leads to.
LEMMA Advance ==
  ASSUME TaskShape, Proceed(task)
  PROVE
  /\ At("render") =>
       \/ /\ task.todo = <<"render", "send_photo", "record_message_id", "set_meta">>
          /\ task' = With(<<"send_photo", "record_message_id", "set_meta">>)
       \/ /\ task.todo = <<"render", "edit_media", "record_message_id", "set_meta">>
          /\ task' = With(<<"edit_media", "record_message_id", "set_meta">>)
  /\ At("record_message_id") =>
       \/ /\ task.todo = <<"record_message_id", "set_meta">>
          /\ task' = With(<<"set_meta">>)
  /\ At("set_meta") =>
       \/ /\ task.todo = <<"set_meta">>
          /\ task' = NoTask
  /\ At("edit_media") =>
       \/ /\ task.todo = <<"edit_media", "record_message_id", "set_meta">>
          /\ task' = With(<<"record_message_id", "set_meta">>)
  /\ At("clear_input") =>
       \/ /\ task.todo = Refreshing
          /\ task' = With(<<"clear_meta", "reissue", "render", "edit_media",
                 "record_message_id", "set_meta">>)
       \/ /\ task.todo = <<"clear_input">>
          /\ task' = NoTask
       \/ /\ task.todo = <<"clear_input", "clear_meta", "delete_photo">>
          /\ task' = With(<<"clear_meta", "delete_photo">>)
       \/ /\ task.todo = <<"clear_input", "clear_meta", "mark_verified", "delete_photo">>
          /\ task' = With(<<"clear_meta", "mark_verified", "delete_photo">>)
  /\ At("clear_meta") =>
       \/ /\ task.todo = <<"clear_meta", "reissue", "render", "edit_media",
                 "record_message_id", "set_meta">>
          /\ task' = With(<<"reissue", "render", "edit_media", "record_message_id", "set_meta">>)
       \/ /\ task.todo = <<"clear_meta", "delete_photo">>
          /\ task' = With(<<"delete_photo">>)
       \/ /\ task.todo = <<"clear_meta", "mark_verified", "delete_photo">>
          /\ task' = With(<<"mark_verified", "delete_photo">>)
  /\ At("mark_verified") =>
       \/ /\ task.todo = <<"mark_verified", "delete_photo">>
          /\ task' = With(<<"delete_photo">>)
       \/ /\ task.todo = <<"mark_verified">>
          /\ task' = NoTask
  /\ At("delete_photo") =>
       \/ /\ task.todo = <<"delete_photo">>
          /\ task' = NoTask
<1>1. ASSUME At("render")
      PROVE  \/ /\ task.todo = <<"render", "send_photo", "record_message_id", "set_meta">>
                /\ task' = With(<<"send_photo", "record_message_id", "set_meta">>)
             \/ /\ task.todo = <<"render", "edit_media", "record_message_id", "set_meta">>
                /\ task' = With(<<"edit_media", "record_message_id", "set_meta">>)
  <2>1. ~Idle /\ task.todo \in {<<"render", "send_photo", "record_message_id", "set_meta">>,
        <<"render", "edit_media", "record_message_id", "set_meta">>}
    BY <1>1, BusyTask, ListsByStep DEF At
  <2>2. CASE task.todo = <<"render", "send_photo", "record_message_id", "set_meta">>
    <3>1. Tail(task.todo) = <<"send_photo", "record_message_id", "set_meta">>
      BY <2>2, Tails
    <3>2. Len(task.todo) # 1
      BY <2>2 DEF Refreshing
    <3> QED
      BY <2>1, <2>2, <3>1, <3>2, Shortened
  <2>3. CASE task.todo = <<"render", "edit_media", "record_message_id", "set_meta">>
    <3>1. Tail(task.todo) = <<"edit_media", "record_message_id", "set_meta">>
      BY <2>3, Tails
    <3>2. Len(task.todo) # 1
      BY <2>3 DEF Refreshing
    <3> QED
      BY <2>1, <2>3, <3>1, <3>2, Shortened
  <2> QED
    BY <2>1, <2>2, <2>3
<1>2. ASSUME At("record_message_id")
      PROVE  \/ /\ task.todo = <<"record_message_id", "set_meta">>
                /\ task' = With(<<"set_meta">>)
  <2>1. ~Idle /\ task.todo \in {<<"record_message_id", "set_meta">>}
    BY <1>2, BusyTask, ListsByStep DEF At
  <2>2. CASE task.todo = <<"record_message_id", "set_meta">>
    <3>1. Tail(task.todo) = <<"set_meta">>
      BY <2>2, Tails
    <3>2. Len(task.todo) # 1
      BY <2>2 DEF Refreshing
    <3> QED
      BY <2>1, <2>2, <3>1, <3>2, Shortened
  <2> QED
    BY <2>1, <2>2
<1>3. ASSUME At("set_meta")
      PROVE  \/ /\ task.todo = <<"set_meta">>
                /\ task' = NoTask
  <2>1. ~Idle /\ task.todo \in {<<"set_meta">>}
    BY <1>3, BusyTask, ListsByStep DEF At
  <2>2. CASE task.todo = <<"set_meta">>
    BY <1>3, <2>1, <2>2, Finished
  <2> QED
    BY <2>1, <2>2
<1>4. ASSUME At("edit_media")
      PROVE  \/ /\ task.todo = <<"edit_media", "record_message_id", "set_meta">>
                /\ task' = With(<<"record_message_id", "set_meta">>)
  <2>1. ~Idle /\ task.todo \in {<<"edit_media", "record_message_id", "set_meta">>}
    BY <1>4, BusyTask, ListsByStep DEF At
  <2>2. CASE task.todo = <<"edit_media", "record_message_id", "set_meta">>
    <3>1. Tail(task.todo) = <<"record_message_id", "set_meta">>
      BY <2>2, Tails
    <3>2. Len(task.todo) # 1
      BY <2>2 DEF Refreshing
    <3> QED
      BY <2>1, <2>2, <3>1, <3>2, Shortened
  <2> QED
    BY <2>1, <2>2
<1>5. ASSUME At("clear_input")
      PROVE  \/ /\ task.todo = Refreshing
                /\ task' = With(<<"clear_meta", "reissue", "render", "edit_media",
                    "record_message_id", "set_meta">>)
             \/ /\ task.todo = <<"clear_input">>
                /\ task' = NoTask
             \/ /\ task.todo = <<"clear_input", "clear_meta", "delete_photo">>
                /\ task' = With(<<"clear_meta", "delete_photo">>)
             \/ /\ task.todo = <<"clear_input", "clear_meta", "mark_verified", "delete_photo">>
                /\ task' = With(<<"clear_meta", "mark_verified", "delete_photo">>)
  <2>1. ~Idle /\ task.todo \in {Refreshing,
        <<"clear_input">>,
        <<"clear_input", "clear_meta", "delete_photo">>,
        <<"clear_input", "clear_meta", "mark_verified", "delete_photo">>}
    BY <1>5, BusyTask, ListsByStep DEF At
  <2>2. CASE task.todo = Refreshing
    <3>1. Tail(task.todo) = <<"clear_meta", "reissue", "render", "edit_media",
                 "record_message_id", "set_meta">>
      BY <2>2, Tails
    <3>2. Len(task.todo) # 1
      BY <2>2 DEF Refreshing
    <3> QED
      BY <2>1, <2>2, <3>1, <3>2, Shortened
  <2>3. CASE task.todo = <<"clear_input">>
    BY <1>5, <2>1, <2>3, Finished
  <2>4. CASE task.todo = <<"clear_input", "clear_meta", "delete_photo">>
    <3>1. Tail(task.todo) = <<"clear_meta", "delete_photo">>
      BY <2>4, Tails
    <3>2. Len(task.todo) # 1
      BY <2>4 DEF Refreshing
    <3> QED
      BY <2>1, <2>4, <3>1, <3>2, Shortened
  <2>5. CASE task.todo = <<"clear_input", "clear_meta", "mark_verified", "delete_photo">>
    <3>1. Tail(task.todo) = <<"clear_meta", "mark_verified", "delete_photo">>
      BY <2>5, Tails
    <3>2. Len(task.todo) # 1
      BY <2>5 DEF Refreshing
    <3> QED
      BY <2>1, <2>5, <3>1, <3>2, Shortened
  <2> QED
    BY <2>1, <2>2, <2>3, <2>4, <2>5
<1>6. ASSUME At("clear_meta")
      PROVE  \/ /\ task.todo = <<"clear_meta", "reissue", "render", "edit_media",
                    "record_message_id", "set_meta">>
                /\ task' = With(<<"reissue", "render", "edit_media", "record_message_id",
                    "set_meta">>)
             \/ /\ task.todo = <<"clear_meta", "delete_photo">>
                /\ task' = With(<<"delete_photo">>)
             \/ /\ task.todo = <<"clear_meta", "mark_verified", "delete_photo">>
                /\ task' = With(<<"mark_verified", "delete_photo">>)
  <2>1. ~Idle /\ task.todo \in {<<"clear_meta", "reissue", "render", "edit_media",
                 "record_message_id", "set_meta">>,
        <<"clear_meta", "delete_photo">>,
        <<"clear_meta", "mark_verified", "delete_photo">>}
    BY <1>6, BusyTask, ListsByStep DEF At
  <2>2. CASE task.todo = <<"clear_meta", "reissue", "render", "edit_media",
                 "record_message_id", "set_meta">>
    <3>1. Tail(task.todo) = <<"reissue", "render", "edit_media", "record_message_id", "set_meta">>
      BY <2>2, Tails
    <3>2. Len(task.todo) # 1
      BY <2>2 DEF Refreshing
    <3> QED
      BY <2>1, <2>2, <3>1, <3>2, Shortened
  <2>3. CASE task.todo = <<"clear_meta", "delete_photo">>
    <3>1. Tail(task.todo) = <<"delete_photo">>
      BY <2>3, Tails
    <3>2. Len(task.todo) # 1
      BY <2>3 DEF Refreshing
    <3> QED
      BY <2>1, <2>3, <3>1, <3>2, Shortened
  <2>4. CASE task.todo = <<"clear_meta", "mark_verified", "delete_photo">>
    <3>1. Tail(task.todo) = <<"mark_verified", "delete_photo">>
      BY <2>4, Tails
    <3>2. Len(task.todo) # 1
      BY <2>4 DEF Refreshing
    <3> QED
      BY <2>1, <2>4, <3>1, <3>2, Shortened
  <2> QED
    BY <2>1, <2>2, <2>3, <2>4
<1>7. ASSUME At("mark_verified")
      PROVE  \/ /\ task.todo = <<"mark_verified", "delete_photo">>
                /\ task' = With(<<"delete_photo">>)
             \/ /\ task.todo = <<"mark_verified">>
                /\ task' = NoTask
  <2>1. ~Idle /\ task.todo \in {<<"mark_verified", "delete_photo">>,
        <<"mark_verified">>}
    BY <1>7, BusyTask, ListsByStep DEF At
  <2>2. CASE task.todo = <<"mark_verified", "delete_photo">>
    <3>1. Tail(task.todo) = <<"delete_photo">>
      BY <2>2, Tails
    <3>2. Len(task.todo) # 1
      BY <2>2 DEF Refreshing
    <3> QED
      BY <2>1, <2>2, <3>1, <3>2, Shortened
  <2>3. CASE task.todo = <<"mark_verified">>
    BY <1>7, <2>1, <2>3, Finished
  <2> QED
    BY <2>1, <2>2, <2>3
<1>8. ASSUME At("delete_photo")
      PROVE  \/ /\ task.todo = <<"delete_photo">>
                /\ task' = NoTask
  <2>1. ~Idle /\ task.todo \in {<<"delete_photo">>}
    BY <1>8, BusyTask, ListsByStep DEF At
  <2>2. CASE task.todo = <<"delete_photo">>
    BY <1>8, <2>1, <2>2, Finished
  <2> QED
    BY <2>1, <2>2
<1> QED
  BY <1>1, <1>2, <1>3, <1>4, <1>5, <1>6, <1>7, <1>8

-----------------------------------------------------------------------------
(* What a step does to the rows *)

\* The row of a user who has one.
LEMMA RowOfUser ==
  ASSUME Db!TypeOK, NEW u \in Users, HasRow(u)
  PROVE  /\ challenge[u] \in Db!Row
         /\ challenge[u].id \in ChallengeIds
         /\ challenge[u].ttl \in 0 .. Lifetime
         /\ challenge[u].ttl \in Nat
         /\ challenge[u].message \in Messages \cup {NoMessage}
<1>1. challenge[u] \in Db!Row
  BY DEF Db!TypeOK, HasRow, Db!HasRow
<1> QED
  BY <1>1, BotConstantsOK DEF Db!Row, Db!ChallengeIds, ChallengeIds

\* No challenge is drawn; rows go, or stay with their challenge and their photo.
RowsOnlyGo ==
  /\ issued' = issued /\ verified \subseteq verified'
  /\ \A u \in Users : HasRow(u)' =>
       /\ HasRow(u)
       /\ challenge'[u].id = challenge[u].id
       /\ challenge'[u].message = challenge[u].message
       /\ challenge'[u].ttl <= challenge[u].ttl

LEMMA SameRows ==
  ASSUME Db!TypeOK, UNCHANGED <<challenge, issued, verified>>
  PROVE  RowsOnlyGo
<1>1. \A u \in Users : HasRow(u) => challenge[u].ttl <= challenge[u].ttl
  BY RowOfUser
<1> QED
  BY <1>1 DEF RowsOnlyGo, HasRow, Db!HasRow

\* A row is deleted, whatever else is written.
LEMMA RowDeleted ==
  ASSUME Db!TypeOK, NEW u \in Users, Db!DeleteRow(u),
         issued' = issued, verified \subseteq verified'
  PROVE  RowsOnlyGo
<1>1. \A v \in Users : HasRow(v) => challenge[v].ttl <= challenge[v].ttl
  BY RowOfUser
<1>2. \A v \in Users : HasRow(v)' => challenge'[v] = challenge[v] /\ HasRow(v)
  BY DEF Db!DeleteRow, Db!TypeOK, HasRow, Db!HasRow
<1> QED
  BY <1>1, <1>2 DEF RowsOnlyGo

LEMMA RowsAfterSolve ==
  ASSUME Db!TypeOK, NEW u \in Users, NEW attempt, Db!solve(u, attempt)
  PROVE  RowsOnlyGo
<1>1. issued' = issued
  BY DEF Db!solve
<1>2. CASE Db!Outcome(u, attempt) \in {"AlreadyVerified", "NotFound"}
  BY <1>1, <1>2, SameRows DEF Db!solve
<1>3. CASE Db!Outcome(u, attempt) \in {"Expired", "Solved", "WrongFinal"}
  <2>1. Db!DeleteRow(u) /\ verified \subseteq verified'
    BY <1>3 DEF Db!solve
  <2> QED
    BY <1>1, <2>1, RowDeleted
<1>4. CASE Db!Outcome(u, attempt) = "WrongLeft"
  <2>1. Db!SpendAttempt(u) /\ verified' = verified
    BY <1>4 DEF Db!solve
  <2>2. HasRow(u)
    BY <1>4 DEF Db!Outcome, Db!Live, HasRow
  <2>3. \A v \in Users : HasRow(v) => challenge[v].ttl <= challenge[v].ttl
    BY RowOfUser
  <2>4. challenge[u] \in Db!Row
    BY <2>2, RowOfUser
  <2>5. /\ challenge'[u] = [challenge[u] EXCEPT !.attempts = @ - 1]
        /\ \A v \in Users : v # u => challenge'[v] = challenge[v]
    BY <2>1 DEF Db!SpendAttempt, Db!TypeOK
  <2>6. /\ challenge'[u].id = challenge[u].id
        /\ challenge'[u].message = challenge[u].message
        /\ challenge'[u].ttl = challenge[u].ttl
    BY <2>4, <2>5 DEF Db!Row
  <2> QED
    BY <1>1, <2>1, <2>2, <2>3, <2>5, <2>6 DEF RowsOnlyGo, HasRow, Db!HasRow
<1> QED
  BY <1>2, <1>3, <1>4 DEF Db!solve

LEMMA RowsAfterVerify ==
  ASSUME Db!TypeOK, NEW u \in Users, Db!verify_manual(u)
  PROVE  RowsOnlyGo /\ u \in verified'
<1>1. CASE u \in verified
  BY <1>1, SameRows DEF Db!verify_manual
<1>2. CASE u \notin verified
  <2>1. /\ Db!DeleteRow(u) /\ verified' = verified \cup {u}
        /\ issued' = issued
    BY <1>2 DEF Db!verify_manual
  <2> QED
    BY <2>1, RowDeleted
<1> QED
  BY <1>1, <1>2

LEMMA RowsAfterSweep ==
  ASSUME Db!TypeOK, Db!sweep_expired_batch
  PROVE  RowsOnlyGo
<1>1. PICK S \in Db!Swept :
        challenge' = [u \in Users |-> IF u \in S THEN NoRow ELSE challenge[u]]
  BY DEF Db!sweep_expired_batch
<1>2. \A v \in Users : HasRow(v) => challenge[v].ttl <= challenge[v].ttl
  BY RowOfUser
<1>3. \A v \in Users : HasRow(v)' => challenge'[v] = challenge[v] /\ HasRow(v)
  BY <1>1 DEF HasRow, Db!HasRow
<1> QED
  BY <1>2, <1>3 DEF RowsOnlyGo, Db!sweep_expired_batch

\* A live row loses one unit of its time.
LEMMA RowsAfterTick ==
  ASSUME Db!TypeOK, Db!Tick
  PROVE  /\ RowsOnlyGo
         /\ \A u \in Users : Live(u)' =>
              Live(u) /\ challenge'[u].ttl = challenge[u].ttl - 1
<1>1. ASSUME NEW u \in Users, HasRow(u)'
      PROVE  /\ HasRow(u)
             /\ challenge'[u] = IF Live(u) THEN [challenge[u] EXCEPT !.ttl = @ - 1]
                                ELSE challenge[u]
  BY <1>1 DEF Db!Tick, HasRow, Db!HasRow, Live, Db!Live
<1>2. ASSUME NEW u \in Users, HasRow(u)'
      PROVE  /\ challenge'[u].id = challenge[u].id
             /\ challenge'[u].message = challenge[u].message
             /\ challenge'[u].ttl = IF Live(u) THEN challenge[u].ttl - 1
                                    ELSE challenge[u].ttl
  BY <1>1, <1>2, RowOfUser DEF Db!Row
<1>3. \A u \in Users : HasRow(u)' =>
        HasRow(u) /\ challenge[u].ttl \in Nat
        /\ challenge'[u].ttl <= challenge[u].ttl
  <2> SUFFICES ASSUME NEW u \in Users, HasRow(u)'
               PROVE  /\ HasRow(u) /\ challenge[u].ttl \in Nat
                      /\ challenge'[u].ttl <= challenge[u].ttl
    OBVIOUS
  <2>1. HasRow(u)
    BY <1>1
  <2>2. challenge[u].ttl \in Nat
    BY <2>1, RowOfUser
  <2>3. challenge'[u].ttl = challenge[u].ttl - 1 \/ challenge'[u].ttl = challenge[u].ttl
    BY <1>2
  <2> QED
    BY <2>1, <2>2, <2>3
<1>4. RowsOnlyGo
  BY <1>2, <1>3 DEF RowsOnlyGo, Db!Tick
<1>5. \A u \in Users : Live(u)' =>
        Live(u) /\ challenge'[u].ttl = challenge[u].ttl - 1
  BY <1>2, <1>3 DEF Live, Db!Live, HasRow, Db!HasRow
<1> QED
  BY <1>4, <1>5

\* A new challenge is in its owner's row, and in no other, without a photo.
LEMMA RowsAfterIssue ==
  ASSUME Db!TypeOK, NEW u \in Users, Db!issue_challenge(u)
  PROVE  /\ issued' = issued + 1 /\ issued \in Nat /\ issued' \in 1 .. MaxIssues
         /\ verified' = verified
         /\ HasRow(u)' /\ challenge'[u].id = issued + 1
         /\ challenge'[u].message = NoMessage
         /\ \A v \in Users : v # u => challenge'[v] = challenge[v]
<1>1. /\ issued' = issued + 1 /\ issued \in Nat /\ issued' \in 1 .. MaxIssues
      /\ verified' = verified
  BY BotConstantsOK DEF Db!issue_challenge, Db!TypeOK
<1>2. /\ challenge'[u] = Db!FreshRow(u)
      /\ \A v \in Users : v # u => challenge'[v] = challenge[v]
  BY DEF Db!issue_challenge, Db!TypeOK
<1>3. Db!FreshRow(u) \in Db!Row
  BY <1>1, BotConstantsOK DEF Db!FreshRow, Db!Row, Db!ChallengeIds
<1> QED
  BY <1>1, <1>2, <1>3, BotSentinelsOK DEF Db!FreshRow, HasRow, Db!HasRow

\* A photo is written into the row, if there is one.
LEMMA RowsAfterRecord ==
  ASSUME Db!TypeOK, NEW u \in Users, NEW m \in Messages, Db!record_message_id(u, m)
  PROVE  /\ issued' = issued /\ verified' = verified
         /\ \A v \in Users : v # u => challenge'[v] = challenge[v]
         /\ ~HasRow(u) => challenge' = challenge
         /\ HasRow(u) => /\ HasRow(u)' /\ challenge'[u].message = m
                         /\ challenge'[u].id = challenge[u].id
                         /\ challenge'[u].ttl = challenge[u].ttl
<1>1. CASE ~HasRow(u)
  BY <1>1 DEF Db!record_message_id, HasRow
<1>2. CASE HasRow(u)
  <2>1. /\ challenge'[u] = [challenge[u] EXCEPT !.message = m]
        /\ \A v \in Users : v # u => challenge'[v] = challenge[v]
        /\ issued' = issued /\ verified' = verified
    BY <1>2 DEF Db!record_message_id, HasRow, Db!TypeOK
  <2>2. challenge[u] \in Db!Row
    BY <1>2, RowOfUser
  <2>3. challenge'[u] \in Db!Row
    BY <2>1, <2>2 DEF Db!Row
  <2> QED
    BY <1>2, <2>1, <2>2, <2>3, BotSentinelsOK DEF Db!Row, HasRow, Db!HasRow
<1> QED
  BY <1>1, <1>2

-----------------------------------------------------------------------------
(* What a handler remembers *)

LEMMA Shapes ==
  ASSUME TaskShape
  PROVE  /\ task.todo \in ToSend =>
              /\ task.message = NoMessage /\ task.id \in 1 .. issued
              /\ task.attempt = <<>> /\ sent < issued
         /\ task.todo \in ToEdit \cup ToRecord =>
              /\ task.message \in 1 .. sent /\ task.id \in 1 .. issued
              /\ task.attempt = <<>>
         /\ task.todo \in ToReissue \cup ToClear \cup ToClose \cup ToPass =>
              /\ task.message \in 1 .. sent /\ task.id = 0
              /\ task.attempt = <<>>
         /\ task.todo \in ToSolve =>
              /\ task.message \in 1 .. sent /\ task.id = 0
              /\ task.attempt \in [1 .. SolutionLen -> Press]
         /\ task.todo \in ToMark =>
              task.message = NoMessage /\ task.id = 0 /\ task.attempt = <<>>
<1> DEFINE AfterPress == task.todo \in ToReissue \cup ToClear \cup ToClose \cup ToPass
<1>1. task.todo \in ToSend =>
        /\ task.todo \notin ToEdit \cup ToRecord /\ ~AfterPress
        /\ task.todo \notin ToSolve \cup ToMark /\ ~Idle
  BY DEF ToSend, ToEdit, ToRecord, ToReissue, ToClear, ToClose, ToPass, ToSolve,
         ToMark, Refreshing, Idle
<1>2. task.todo \in ToEdit \cup ToRecord =>
        ~AfterPress /\ task.todo \notin ToSolve \cup ToMark /\ ~Idle
  BY DEF ToEdit, ToRecord, ToReissue, ToClear, ToClose, ToPass, ToSolve,
         ToMark, Refreshing, Idle
<1>3. AfterPress => task.todo \notin ToSolve \cup ToMark /\ ~Idle
  BY DEF ToReissue, ToClear, ToClose, ToPass, ToSolve, ToMark, Refreshing, Idle
<1>4. /\ task.todo \in ToSolve => task.todo \notin ToMark /\ ~Idle
      /\ task.todo \in ToMark => ~Idle
  BY DEF ToSolve, ToMark, Idle
<1>5. Idle \/ task # NoTask
  BY DEF Idle, NoTask
<1> QED
  BY <1>1, <1>2, <1>3, <1>4, <1>5, BusyTask DEF TaskShape

\* The list a step belongs to says what the step can rely on.
LEMMA Relies ==
  ASSUME TypeOK, TaskShape
  PROVE  /\ At("send_photo") =>
              /\ task.todo = <<"send_photo", "record_message_id", "set_meta">>
              /\ task.user \in Users /\ task.id \in 1 .. issued
              /\ task.attempt = <<>> /\ sent + 1 <= issued
         /\ At("record_message_id") \/ At("set_meta") \/ At("edit_media") =>
              /\ task.user \in Users /\ task.message \in 1 .. sent
              /\ task.id \in 1 .. issued /\ task.attempt = <<>>
         /\ At("render") => task.user \in Users /\ task.id \in 1 .. issued
         /\ At("reissue") =>
              /\ task.todo =
                   <<"reissue", "render", "edit_media", "record_message_id", "set_meta">>
              /\ task.user \in Users /\ task.message \in 1 .. sent
              /\ task.attempt = <<>>
         /\ At("solve") =>
              /\ task.todo = <<"solve">>
              /\ task.user \in Users /\ task.message \in 1 .. sent
              /\ task.attempt \in [1 .. SolutionLen -> Press]
         /\ At("clear_input") \/ At("clear_meta") \/ At("delete_photo") =>
              task.user \in Users /\ task.message \in 1 .. sent
         /\ At("mark_verified") =>
              task.user \in Users /\ task.todo \in ToPass \cup ToMark
<1>1. /\ sent \in Nat /\ issued \in Nat
  BY BotConstantsOK DEF TypeOK, Db!TypeOK
<1>2. ~Idle => /\ task.user \in Users /\ task.todo \in Lists
  BY BusyTask
<1>3. ASSUME At("send_photo")
      PROVE  /\ task.todo = <<"send_photo", "record_message_id", "set_meta">>
             /\ task.user \in Users /\ task.id \in 1 .. issued
             /\ task.attempt = <<>> /\ sent + 1 <= issued
  <2>1. task.todo = <<"send_photo", "record_message_id", "set_meta">>
    BY <1>2, <1>3, ListsByStep DEF At
  <2>2. task.todo \in ToSend
    BY <2>1 DEF ToSend
  <2> QED
    BY <1>1, <1>2, <1>3, <2>1, <2>2, Shapes DEF At
<1>4. ASSUME At("record_message_id") \/ At("set_meta") \/ At("edit_media")
      PROVE  /\ task.user \in Users /\ task.message \in 1 .. sent
             /\ task.id \in 1 .. issued /\ task.attempt = <<>>
  <2>1. task.todo \in ToEdit \cup ToRecord
    BY <1>2, <1>4, ListsByStep DEF At, ToEdit, ToRecord
  <2> QED
    BY <1>2, <1>4, <2>1, Shapes DEF At
<1>5. ASSUME At("render")
      PROVE  task.user \in Users /\ task.id \in 1 .. issued
  <2>1. task.todo \in ToEdit \cup ToSend
    BY <1>2, <1>5, ListsByStep DEF At, ToEdit, ToSend
  <2> QED
    BY <1>2, <1>5, <2>1, Shapes DEF At
<1>6. ASSUME At("reissue")
      PROVE  /\ task.todo =
                  <<"reissue", "render", "edit_media", "record_message_id", "set_meta">>
             /\ task.user \in Users /\ task.message \in 1 .. sent
             /\ task.attempt = <<>>
  <2>1. task.todo =
          <<"reissue", "render", "edit_media", "record_message_id", "set_meta">>
    BY <1>2, <1>6, ListsByStep DEF At
  <2>2. task.todo \in ToReissue
    BY <2>1 DEF ToReissue
  <2> QED
    BY <1>2, <1>6, <2>1, <2>2, Shapes DEF At
<1>7. ASSUME At("solve")
      PROVE  /\ task.todo = <<"solve">>
             /\ task.user \in Users /\ task.message \in 1 .. sent
             /\ task.attempt \in [1 .. SolutionLen -> Press]
  <2>1. task.todo = <<"solve">>
    BY <1>2, <1>7, ListsByStep DEF At
  <2>2. task.todo \in ToSolve
    BY <2>1 DEF ToSolve
  <2> QED
    BY <1>2, <1>7, <2>1, <2>2, Shapes DEF At
<1>8. ASSUME At("clear_input") \/ At("clear_meta") \/ At("delete_photo")
      PROVE  task.user \in Users /\ task.message \in 1 .. sent
  <2>1. task.todo \in ToReissue \cup ToClear \cup ToClose \cup ToPass
    BY <1>2, <1>8, ListsByStep DEF At, ToReissue, ToClear, ToClose, ToPass
  <2> QED
    BY <1>2, <1>8, <2>1, Shapes DEF At
<1>9. ASSUME At("mark_verified")
      PROVE  task.user \in Users /\ task.todo \in ToPass \cup ToMark
  BY <1>2, <1>9, ListsByStep DEF At, ToPass, ToMark
<1> QED
  BY <1>3, <1>4, <1>5, <1>6, <1>7, <1>8, <1>9

\* The digits of a complete attempt are one the service can be asked about.
LEMMA TypedSolution ==
  ASSUME TypeOK, TaskShape, At("solve")
  PROVE  Typed(task.attempt) \in Solutions
<1>1. task.attempt \in [1 .. SolutionLen -> Press]
  BY Relies
<1>2. SolutionLen \in Nat
  BY BotConstantsOK
<1>3. task.attempt \in Seq(Press) /\ Len(task.attempt) = SolutionLen
  BY <1>1, <1>2, SeqDef, LenProperties
<1> QED
  BY <1>1, <1>2, <1>3 DEF Typed, Solutions, Press

-----------------------------------------------------------------------------
(* The service is only asked for what it allows *)

LEMMA ServiceStep ==
  ASSUME TypeOK, TaskShape, [Next]_vars
  PROVE  [Db!Next]_Db!vars
<1>1. ASSUME finish_issue PROVE Db!Next
  BY <1>1 DEF finish_issue, Db!Next, Db!finish_issue
<1>2. ASSUME render_fails PROVE Db!Next
  BY <1>2 DEF render_fails, Db!Next, Db!fail_issue
<1>3. ASSUME record_message_id PROVE Db!Next \/ UNCHANGED tables
  <2>1. task.user \in Users /\ task.message \in 1 .. sent
    BY <1>3, Relies DEF record_message_id
  <2>2. task.message \in Messages
    BY <2>1, BotConstantsOK DEF TypeOK, Db!TypeOK, Messages
  <2> QED
    BY <1>3, <2>1, <2>2 DEF record_message_id, Db!Next
<1>4. ASSUME reissue PROVE Db!Next
  BY <1>4, Relies DEF reissue, Db!Next
<1>5. ASSUME solve PROVE Db!Next
  BY <1>5, Relies, TypedSolution DEF solve, Db!Next
<1>6. ASSUME NEW u \in Users, join(u) \/ gate(u) PROVE Db!Next
  BY <1>6 DEF join, gate, Issue, Db!Next
<1>7. ASSUME NEW u \in Users, verify(u) PROVE Db!Next
  BY <1>7 DEF verify, Db!Next
<1>8. ASSUME Sweeper PROVE Db!Next
  BY <1>8 DEF Sweeper, sweep_expired_batch, delete_swept_photo, ledger_expired,
       Db!Next, Db!Sweeper, Db!process_expired
<1>9. ASSUME Tick \/ Crash \/ Shutdown PROVE Db!Next
  BY <1>9 DEF Tick, Crash, Shutdown, Db!Next
<1>10. ASSUME \/ send_photo \/ send_fails \/ set_meta \/ clear_input \/ clear_meta
              \/ mark_verified \/ delete_photo \/ edit_media \/ query_fails
              \/ \E u \in Users : recognise(u) \/ verified_cache_expires(u)
              \/ RedisLoss \/ UNCHANGED vars
       PROVE  UNCHANGED tables
  BY <1>10 DEF send_photo, send_fails, set_meta, clear_input, clear_meta,
       mark_verified, delete_photo, edit_media, query_fails, recognise,
       verified_cache_expires, RedisLoss, vars, tables
<1>11. ASSUME NEW p, NEW m, NEW id, NEW d,
              digit_pressed(p, m, id, d) \/ backspace(p, m, id) \/ refresh(p, m, id)
       PROVE  UNCHANGED tables
  BY <1>11 DEF digit_pressed, backspace, refresh, tables
<1>12. UNCHANGED tables => UNCHANGED Db!vars
  BY DEF tables, Db!vars
<1> QED
  BY <1>1, <1>2, <1>3, <1>4, <1>5, <1>6, <1>7, <1>8, <1>9, <1>10, <1>11, <1>12
  DEF Next, Worker, Dispatch

\* A step draws a challenge, writes a photo down, or lets rows only go.
LEMMA TablesMove ==
  ASSUME TypeOK, TaskShape, [Next]_vars
  PROVE  \/ \E u \in Users :
              /\ Db!issue_challenge(u) /\ UNCHANGED <<redis, chat>>
              /\ \/ reissue /\ u = task.user
                 \/ Idle /\ Begin(u, NoMessage, issued', <<>>, Posting)
         \/ /\ At("record_message_id") /\ Proceed(task)
            /\ Db!record_message_id(task.user, task.message)
            /\ UNCHANGED <<redis, chat>>
         \/ RowsOnlyGo
<1> USE DEF TypeOK
<1>1. ASSUME UNCHANGED tables
      PROVE  RowsOnlyGo
  BY <1>1, SameRows DEF tables
<1>2. ASSUME finish_issue \/ render_fails \/ Crash \/ Shutdown PROVE RowsOnlyGo
  BY <1>2, SameRows DEF finish_issue, render_fails, Crash, Shutdown, Db!finish_issue,
       Db!fail_issue, Db!Crash, Db!shutdown_mid_batch
<1>3. ASSUME record_message_id
      PROVE  \/ /\ At("record_message_id") /\ Proceed(task)
                /\ Db!record_message_id(task.user, task.message)
                /\ UNCHANGED <<redis, chat>>
             \/ RowsOnlyGo
  BY <1>1, <1>3 DEF record_message_id
<1>4. ASSUME reissue \/ \E u \in Users : join(u) \/ gate(u)
      PROVE  \E u \in Users :
               /\ Db!issue_challenge(u) /\ UNCHANGED <<redis, chat>>
               /\ \/ reissue /\ u = task.user
                  \/ Idle /\ Begin(u, NoMessage, issued', <<>>, Posting)
  <2>1. CASE reissue
    BY <2>1, Relies DEF reissue
  <2>2. CASE \E u \in Users : join(u) \/ gate(u)
    BY <2>2 DEF join, gate, Issue
  <2> QED
    BY <1>4, <2>1, <2>2
<1>5. ASSUME solve PROVE RowsOnlyGo
  BY <1>5, Relies, RowsAfterSolve DEF solve
<1>6. ASSUME NEW u \in Users, verify(u) PROVE RowsOnlyGo
  BY <1>6, RowsAfterVerify DEF verify
<1>7. ASSUME sweep_expired_batch PROVE RowsOnlyGo
  BY <1>7, RowsAfterSweep DEF sweep_expired_batch
<1>8. ASSUME NEW row \in batch, delete_swept_photo(row) \/ ledger_expired(row)
      PROVE  RowsOnlyGo
  BY <1>8, SameRows DEF delete_swept_photo, ledger_expired, Db!photo_done,
       Db!ledger_expired, Db!count_expired, Db!fail_expired
<1>9. ASSUME Tick PROVE RowsOnlyGo
  BY <1>9, RowsAfterTick DEF Tick
<1>10. ASSUME \/ send_photo \/ send_fails \/ set_meta \/ clear_input \/ clear_meta
              \/ mark_verified \/ delete_photo \/ edit_media \/ query_fails
              \/ \E u \in Users : recognise(u) \/ verified_cache_expires(u)
              \/ RedisLoss \/ UNCHANGED vars
       PROVE  UNCHANGED tables
  BY <1>10 DEF send_photo, send_fails, set_meta, clear_input, clear_meta,
       mark_verified, delete_photo, edit_media, query_fails, recognise,
       verified_cache_expires, RedisLoss, vars, tables
<1>11. ASSUME NEW p, NEW m, NEW id, NEW d,
              digit_pressed(p, m, id, d) \/ backspace(p, m, id) \/ refresh(p, m, id)
       PROVE  UNCHANGED tables
  BY <1>11 DEF digit_pressed, backspace, refresh, tables
<1> QED
  BY <1>1, <1>2, <1>3, <1>4, <1>5, <1>6, <1>7, <1>8, <1>9, <1>10, <1>11
  DEF Next, Worker, Dispatch, Sweeper

\* The steps that only shorten the list leave the handler with the same kind of
\* work.
LEMMA SameWork ==
  ASSUME TaskShape, Proceed(task),
         \/ At("render") \/ At("record_message_id") \/ At("set_meta")
         \/ At("edit_media") \/ At("clear_input") \/ At("clear_meta")
         \/ At("mark_verified") \/ At("delete_photo")
  PROVE  \/ task' = NoTask
         \/ /\ task' = With(task'.todo)
            /\ \/ task.todo \in ToSend /\ task'.todo \in ToSend
               \/ task.todo \in ToEdit /\ task'.todo \in ToEdit \cup ToRecord
               \/ task.todo \in ToRecord /\ task'.todo \in ToRecord
               \/ task.todo \in ToReissue /\ task'.todo \in ToReissue
               \/ task.todo \in ToClose /\ task'.todo \in ToClose
               \/ task.todo \in ToPass /\ task'.todo \in ToPass \cup ToClose
<1>1. \A todo : With(todo).todo = todo
  BY DEF With
<1>2. CASE At("render")
  BY <1>1, <1>2, Advance DEF ToSend, ToEdit
<1>3. CASE At("record_message_id")
  BY <1>1, <1>3, Advance DEF ToRecord
<1>4. CASE At("set_meta")
  BY <1>4, Advance
<1>5. CASE At("edit_media")
  BY <1>1, <1>5, Advance DEF ToEdit, ToRecord
<1>6. CASE At("clear_input")
  BY <1>1, <1>6, Advance DEF ToReissue, ToClose, ToPass
<1>7. CASE At("clear_meta")
  BY <1>1, <1>7, Advance DEF ToReissue, ToClose, ToPass
<1>8. CASE At("mark_verified")
  BY <1>1, <1>8, Advance DEF ToClose, ToPass
<1>9. CASE At("delete_photo")
  BY <1>9, Advance
<1> QED
  BY <1>2, <1>3, <1>4, <1>5, <1>6, <1>7, <1>8, <1>9

\* A handler keeps its shape when it goes on with the same kind of work.
LEMMA ShapeKept ==
  ASSUME TypeOK, TaskShape, issued' \in Nat, issued <= issued', sent' = sent,
         \/ task' = task
         \/ task' = NoTask
         \/ /\ task' = With(task'.todo)
            /\ \/ task.todo \in ToSend /\ task'.todo \in ToSend
               \/ task.todo \in ToEdit /\ task'.todo \in ToEdit \cup ToRecord
               \/ task.todo \in ToRecord /\ task'.todo \in ToRecord
               \/ task.todo \in ToReissue /\ task'.todo \in ToReissue
               \/ task.todo \in ToClose /\ task'.todo \in ToClose
               \/ task.todo \in ToPass /\ task'.todo \in ToPass \cup ToClose
  PROVE  TaskShape'
<1>1. /\ issued \in Nat /\ sent \in Nat
      /\ \A n \in 1 .. issued : n \in 1 .. issued'
      /\ sent < issued => sent' < issued'
  BY BotConstantsOK DEF TypeOK, Db!TypeOK
<1>2. CASE task' = task
  BY <1>1, <1>2 DEF TaskShape, With
<1>3. CASE task' = NoTask
  BY <1>3 DEF TaskShape
<1>4. CASE /\ task' = With(task'.todo) /\ ~Idle
           /\ \/ task.todo \in ToSend /\ task'.todo \in ToSend
              \/ task.todo \in ToEdit /\ task'.todo \in ToEdit \cup ToRecord
              \/ task.todo \in ToRecord /\ task'.todo \in ToRecord
              \/ task.todo \in ToReissue /\ task'.todo \in ToReissue
              \/ task.todo \in ToClose /\ task'.todo \in ToClose
              \/ task.todo \in ToPass /\ task'.todo \in ToPass \cup ToClose
  <2>1. /\ task'.user = task.user /\ task'.message = task.message
        /\ task'.id = task.id /\ task'.attempt = task.attempt
        /\ task' = With(task.todo)'
    BY <1>4 DEF With
  <2>2. task.user \in Users
    BY <1>4, BusyTask
  <2>3. CASE task.todo \in ToSend /\ task'.todo \in ToSend
    BY <1>1, <2>1, <2>2, <2>3, Shapes DEF TaskShape
  <2>4. CASE task.todo \in ToEdit \cup ToRecord /\ task'.todo \in ToEdit \cup ToRecord
    BY <1>1, <2>1, <2>2, <2>4, Shapes DEF TaskShape
  <2>5. CASE /\ task.todo \in ToReissue \cup ToClose \cup ToPass
             /\ task'.todo \in ToReissue \cup ToClose \cup ToPass
    BY <1>1, <2>1, <2>2, <2>5, Shapes DEF TaskShape
  <2> QED
    BY <1>4, <2>3, <2>4, <2>5
<1>5. /\ task.todo \in ToSend \cup ToEdit \cup ToRecord \cup ToReissue \cup ToClose
             \cup ToPass => ~Idle
  BY Apart DEF Idle, Lists
<1> QED
  BY <1>2, <1>3, <1>4, <1>5

\* A press or a command begins a handler of one of three kinds, an update of an
\* unverified user one that draws a challenge.
LEMMA Begins ==
  ASSUME NEW u, NEW m, NEW id, NEW attempt, NEW todo, Begin(u, m, id, attempt, todo)
  PROVE  /\ task' = With(task.todo)' /\ task'.todo = todo
         /\ task'.user = u /\ task'.message = m /\ task'.id = id
         /\ task'.attempt = attempt
BY DEF Begin, With

LEMMA GoesOn ==
  ASSUME NEW t, NEW rest, Len(t.todo) # 1, Tail(t.todo) = rest, Proceed(t)
  PROVE  task' = [t EXCEPT !.todo = rest]
BY DEF Proceed

\* What send_photo, reissue and solve leave.
LEMMA AfterSend ==
  ASSUME TypeOK, TaskShape, send_photo
  PROVE  /\ task' = With(task.todo)'
         /\ task'.todo = <<"record_message_id", "set_meta">>
         /\ task'.user = task.user /\ task'.message = sent + 1
         /\ task'.id = task.id /\ task'.attempt = <<>>
<1>1. /\ task.todo = <<"send_photo", "record_message_id", "set_meta">>
      /\ task.attempt = <<>> /\ task = With(task.todo)
  BY Relies, BusyTask DEF send_photo, At
<1>2. Len(task.todo) = 3 /\ Tail(task.todo) = <<"record_message_id", "set_meta">>
  BY <1>1, Tails
<1>3. [task EXCEPT !.message = sent + 1].todo = task.todo
  BY <1>1 DEF With
<1>4. task' = [[task EXCEPT !.message = sent + 1] EXCEPT
                 !.todo = <<"record_message_id", "set_meta">>]
  <2>1. Len([task EXCEPT !.message = sent + 1].todo) # 1
    BY <1>2, <1>3
  <2>2. Proceed([task EXCEPT !.message = sent + 1])
    BY DEF send_photo
  <2> QED
    BY <1>2, <1>3, <2>1, <2>2, GoesOn
<1> QED
  BY <1>1, <1>4 DEF With

LEMMA AfterReissue ==
  ASSUME TypeOK, TaskShape, reissue
  PROVE  /\ task' = With(task.todo)'
         /\ task'.todo = <<"render", "edit_media", "record_message_id", "set_meta">>
         /\ task'.user = task.user /\ task'.message = task.message
         /\ task'.id = issued' /\ task'.attempt = <<>>
<1>1. /\ task.todo =
           <<"reissue", "render", "edit_media", "record_message_id", "set_meta">>
      /\ task.attempt = <<>> /\ task = With(task.todo)
  BY Relies, BusyTask DEF reissue, At
<1>2. /\ Len(task.todo) = 5
      /\ Tail(task.todo) = <<"render", "edit_media", "record_message_id", "set_meta">>
  BY <1>1, Tails
<1>3. [task EXCEPT !.id = issued'].todo = task.todo
  BY <1>1 DEF With
<1>4. task' = [[task EXCEPT !.id = issued'] EXCEPT
                 !.todo = <<"render", "edit_media", "record_message_id", "set_meta">>]
  <2>1. Len([task EXCEPT !.id = issued'].todo) # 1
    BY <1>2, <1>3
  <2>2. Proceed([task EXCEPT !.id = issued'])
    BY DEF reissue
  <2> QED
    BY <1>2, <1>3, <2>1, <2>2, GoesOn
<1> QED
  BY <1>1, <1>4 DEF With

\* solve answers for the row it locked: only a right answer, or an answer to
\* somebody verified before, is followed by mark_verified, and when the answer
\* ended the challenge no row is left.
LEMMA AfterAttempt ==
  ASSUME TypeOK, TaskShape, solve
  PROVE  /\ task' = With(task.todo)'
         /\ task'.user = task.user /\ task'.message = task.message
         /\ task'.id = 0 /\ task'.attempt = <<>>
         /\ \/ task'.todo \in ToClear
            \/ task'.todo \in ToClose /\ ~HasRow(task.user)'
            \/ task'.todo \in ToPass /\ ~HasRow(task.user)' /\ task.user \in verified'
<1> DEFINE u == task.user
           attempt == Typed(task.attempt)
           outcome == Db!Outcome(u, attempt)
<1>1. /\ task.todo = <<"solve">> /\ task = With(task.todo) /\ u \in Users
      /\ task.id = 0
  <2>1. task.todo = <<"solve">> /\ task = With(task.todo) /\ u \in Users
    BY Relies, BusyTask DEF solve, At
  <2> QED
    BY <2>1, Shapes DEF ToSolve
<1>2. /\ Db!solve(u, attempt)
      /\ task' = [task EXCEPT !.attempt = <<>>, !.todo = AfterSolve(outcome)]
  BY DEF solve
<1>3. /\ task' = With(task.todo)' /\ task'.todo = AfterSolve(outcome)
      /\ task'.user = task.user /\ task'.message = task.message
      /\ task'.id = 0 /\ task'.attempt = <<>>
  BY <1>1, <1>2 DEF With
<1>4. outcome \in {"Solved", "AlreadyVerified", "WrongLeft", "WrongFinal",
                   "Expired", "NotFound"}
  BY DEF Db!Outcome, Db!Live
<1>5. Db!DeleteRow(u) => challenge'[u] = NoRow
  BY <1>1 DEF Db!DeleteRow, TypeOK, Db!TypeOK
<1>10. challenge'[u] = NoRow => ~HasRow(task.user)'
  BY <1>3 DEF HasRow, Db!HasRow
<1>6. CASE outcome = "WrongLeft"
  BY <1>3, <1>6 DEF AfterSolve, ToClear
<1>7. CASE outcome \in {"WrongFinal", "Expired"}
  <2>1. Db!DeleteRow(u)
    BY <1>2, <1>7 DEF Db!solve
  <2> QED
    BY <1>3, <1>5, <1>7, <1>10, <2>1 DEF AfterSolve, ToClose
<1>8. CASE outcome = "Solved"
  <2>1. Db!DeleteRow(u) /\ verified' = verified \cup {u}
    BY <1>2, <1>8 DEF Db!solve
  <2> QED
    BY <1>1, <1>3, <1>5, <1>8, <1>10, <2>1 DEF AfterSolve, ToPass
<1>9. CASE outcome \in {"NotFound", "AlreadyVerified"}
  <2>1. /\ ~HasRow(u)
        /\ outcome = "AlreadyVerified" => u \in verified
    BY <1>9 DEF Db!Outcome, Db!Live, HasRow
  <2>2. challenge' = challenge /\ verified' = verified
    BY <1>2, <1>9 DEF Db!solve
  <2>3. challenge'[u] = NoRow
    BY <2>1, <2>2 DEF HasRow, Db!HasRow
  <2>4. \/ task'.todo \in ToClose
        \/ task'.todo \in ToPass /\ task.user \in verified'
    BY <1>3, <1>9, <2>1, <2>2 DEF AfterSolve, ToClose, ToPass
  <2> QED
    BY <1>3, <1>10, <2>3, <2>4
<1> QED
  BY <1>3, <1>4, <1>6, <1>7, <1>8, <1>9

-----------------------------------------------------------------------------
(* Presses *)

LEMMA UpToSeq ==
  ASSUME NEW S, NEW n \in Nat
  PROVE  \A q : q \in UpTo(S, n) <=> q \in Seq(S) /\ Len(q) <= n
<1>1. ASSUME NEW q \in UpTo(S, n)
      PROVE  q \in Seq(S) /\ Len(q) <= n
  <2>1. PICK k \in 0 .. n : q \in [1 .. k -> S]
    BY DEF UpTo
  <2>2. k \in Nat
    OBVIOUS
  <2>3. q \in Seq(S)
    BY <2>1, <2>2, SeqDef
  <2>4. Len(q) = k
    BY <2>1, <2>2, <2>3, LenProperties
  <2> QED
    BY <2>2, <2>3, <2>4
<1>2. ASSUME NEW q \in Seq(S), Len(q) <= n
      PROVE  q \in UpTo(S, n)
  <2>1. Len(q) \in 0 .. n /\ q \in [1 .. Len(q) -> S]
    BY <1>2, LenProperties
  <2> QED
    BY <2>1 DEF UpTo
<1> QED
  BY <1>1, <1>2

\* The digits a handler finds in Redis leave room for one more.
LEMMA Buffers ==
  ASSUME TypeOK, NEW u \in Users, NEW presses \in Buffer(u)
  PROVE  /\ presses \in Seq(Press) /\ Len(presses) \in Nat
         /\ Len(presses) <= SolutionLen - 1
         /\ DigitsAreOwn => \A i \in 1 .. Len(presses) : presses[i].by = u
<1>1. presses = input[u].presses \/ presses = <<>>
  BY DEF Buffer, RedisOutcome
<1>2. SolutionLen - 1 \in Nat
  BY BotConstantsOK
<1>3. /\ input[u].presses \in Seq(Press)
      /\ Len(input[u].presses) <= SolutionLen - 1
  BY <1>2, UpToSeq DEF TypeOK
<1>4. presses \in Seq(Press) /\ Len(presses) <= SolutionLen - 1
  <2>1. CASE presses = input[u].presses
    BY <1>3, <2>1
  <2>2. CASE presses = <<>>
    <3>1. presses \in Seq(Press) /\ Len(presses) = 0
      BY <2>2, EmptySeq
    <3> QED
      BY <1>2, <3>1
  <2> QED
    BY <1>1, <2>1, <2>2
<1>5. Len(presses) \in Nat /\ DOMAIN presses = 1 .. Len(presses)
  BY <1>4, LenProperties
<1>6. DigitsAreOwn => \A i \in 1 .. Len(presses) : presses[i].by = u
  <2>1. CASE presses = input[u].presses
    BY <1>5, <2>1 DEF DigitsAreOwn
  <2>2. CASE presses = <<>>
    BY <1>5, <2>2, EmptySeq
  <2> QED
    BY <1>1, <2>1, <2>2
<1> QED
  BY <1>4, <1>5, <1>6

\* A press that is accepted names a photo that was sent, and its owner's.
LEMMA AcceptedPress ==
  ASSUME TypeOK, NothingUnsent, NEW p, NEW s \in shown, Accepted(p, s[1], s[2])
  PROVE  /\ s[1] \in Messages /\ s[1] \in 1 .. sent
         /\ p \in Users /\ meta[s[1]].owner = p /\ meta[s[1]] # NoMeta
<1>1. s[1] \in Messages
  BY DEF TypeOK
<1>2. meta[s[1]] \in MetaRow /\ meta[s[1]].owner = p /\ meta[s[1]] # NoMeta
  BY <1>1 DEF Accepted, TypeOK
<1>3. ~(s[1] > sent)
  BY <1>1, <1>2 DEF NothingUnsent
<1>4. sent \in Nat /\ s[1] \in Nat /\ s[1] >= 1
  BY <1>1, BotConstantsOK DEF TypeOK, Db!TypeOK, Messages
<1> QED
  BY <1>1, <1>2, <1>3, <1>4 DEF MetaRow

\* The digits after one more press of p.
LEMMA TypedDigit ==
  ASSUME TypeOK, DigitsAreOwn, NEW p \in Users, NEW d \in Digits,
         NEW presses \in Buffer(p)
  PROVE  LET typed == Append(presses, [digit |-> d, by |-> p]) IN
         /\ typed \in Seq(Press) /\ Len(typed) \in Nat /\ Len(typed) >= 1
         /\ Len(typed) <= SolutionLen
         /\ \A i \in 1 .. Len(typed) : typed[i].by = p
<1> DEFINE press == [digit |-> d, by |-> p]
           typed == Append(presses, press)
<1>1. /\ presses \in Seq(Press) /\ Len(presses) \in Nat
      /\ Len(presses) <= SolutionLen - 1
      /\ \A i \in 1 .. Len(presses) : presses[i].by = p
  BY Buffers
<1>2. press \in Press /\ press.by = p
  BY DEF Press
<1> HIDE DEF press
<1>3. /\ typed \in Seq(Press) /\ Len(typed) = Len(presses) + 1
      /\ \A i \in 1 .. Len(presses) : typed[i] = presses[i]
      /\ typed[Len(presses) + 1] = press
  BY <1>1, <1>2, AppendProperties
<1>4. SolutionLen \in Nat
  BY BotConstantsOK
<1>5. ASSUME NEW i \in 1 .. Len(typed)
      PROVE  typed[i].by = p
  <2>1. CASE i \in 1 .. Len(presses)
    BY <1>1, <1>3, <2>1
  <2>2. CASE i = Len(presses) + 1
    BY <1>2, <1>3, <2>2
  <2>3. i \in 1 .. Len(presses) \/ i = Len(presses) + 1
    BY <1>1, <1>3, <1>5
  <2> QED
    BY <2>1, <2>2, <2>3
<1> HIDE DEF typed
<1>6. /\ typed \in Seq(Press) /\ Len(typed) \in Nat /\ Len(typed) >= 1
      /\ Len(typed) <= SolutionLen
  BY <1>1, <1>3, <1>4
<1> QED
  BY <1>5, <1>6 DEF typed, press

\* What is left of the digits after the last one was taken back.
LEMMA TakenBack ==
  ASSUME TypeOK, DigitsAreOwn, NEW p \in Users, NEW presses \in Buffer(p)
  PROVE  LET rest == IF presses = <<>> THEN <<>>
                     ELSE SubSeq(presses, 1, Len(presses) - 1) IN
         /\ rest \in Seq(Press) /\ Len(rest) <= SolutionLen - 1
         /\ \A i \in 1 .. Len(rest) : rest[i].by = p
<1> DEFINE rest == IF presses = <<>> THEN <<>>
                   ELSE SubSeq(presses, 1, Len(presses) - 1)
<1>1. /\ presses \in Seq(Press) /\ Len(presses) \in Nat
      /\ Len(presses) <= SolutionLen - 1
      /\ \A i \in 1 .. Len(presses) : presses[i].by = p
  BY Buffers
<1>2. SolutionLen - 1 \in Nat
  BY BotConstantsOK
<1>3. CASE presses = <<>>
  BY <1>2, <1>3, EmptySeq
<1>4. CASE presses # <<>>
  <2>1. Len(presses) - 1 \in Nat
    BY <1>1, <1>4, EmptySeq
  <2>2. \A i \in 1 .. Len(presses) - 1 : presses[i] \in Press
    BY <1>1, <2>1, ElementOfSeq
  <2>3. /\ SubSeq(presses, 1, Len(presses) - 1) \in Seq(Press)
        /\ Len(SubSeq(presses, 1, Len(presses) - 1)) = Len(presses) - 1
        /\ \A i \in 1 .. Len(presses) - 1 :
             SubSeq(presses, 1, Len(presses) - 1)[i] = presses[i]
    <3> DEFINE n == Len(presses) - 1
    <3>1. n \in Nat /\ \A i \in 1 .. n : presses[i] \in Press
      BY <2>1, <2>2
    <3> HIDE DEF n
    <3>2. /\ SubSeq(presses, 1, n) \in Seq(Press)
          /\ Len(SubSeq(presses, 1, n)) = IF 1 <= n THEN n - 1 + 1 ELSE 0
          /\ \A i \in 1 .. n - 1 + 1 :
               SubSeq(presses, 1, n)[i] = presses[1 + i - 1]
      BY <3>1, SubSeqProperties
    <3>3. n - 1 + 1 = n /\ (~(1 <= n) => n = 0)
      BY <3>1
    <3>4. Len(SubSeq(presses, 1, n)) = n
      BY <3>2, <3>3
    <3>5. ASSUME NEW i \in 1 .. n
          PROVE  SubSeq(presses, 1, n)[i] = presses[i]
      <4>1. i \in Int /\ 1 + i - 1 = i
        BY <3>1
      <4> QED
        BY <3>2, <3>3, <4>1
    <3> QED
      BY <3>2, <3>4, <3>5 DEF n
  <2>4. Len(presses) - 1 <= SolutionLen - 1
    BY <1>1, <1>2
  <2> QED
    BY <1>1, <1>4, <2>1, <2>3, <2>4
<1> QED
  BY <1>3, <1>4

-----------------------------------------------------------------------------
(* The handlers keep their shape *)

LEMMA Grows ==
  ASSUME TypeOK, TaskShape, [Next]_vars
  PROVE  /\ issued \in Nat /\ sent \in Nat /\ sent <= issued /\ issued <= MaxIssues
         /\ issued' \in Nat /\ issued <= issued' /\ verified \subseteq verified'
<1>1. issued \in Nat /\ sent \in Nat /\ sent <= issued /\ issued <= MaxIssues
  BY BotConstantsOK DEF TypeOK, Db!TypeOK
<1>2. Db!TypeOK
  BY DEF TypeOK
<1>3. ASSUME NEW u \in Users, Db!issue_challenge(u)
      PROVE  issued' \in Nat /\ issued <= issued' /\ verified \subseteq verified'
  BY <1>1, <1>2, <1>3, RowsAfterIssue
<1>4. ASSUME At("record_message_id"), Db!record_message_id(task.user, task.message)
      PROVE  issued' \in Nat /\ issued <= issued' /\ verified \subseteq verified'
  BY <1>1, <1>4 DEF Db!record_message_id
<1>5. ASSUME RowsOnlyGo
      PROVE  issued' \in Nat /\ issued <= issued' /\ verified \subseteq verified'
  BY <1>1, <1>5 DEF RowsOnlyGo
<1> QED
  BY <1>1, <1>3, <1>4, <1>5, TablesMove

LEMMA ShapeStep ==
  ASSUME TypeOK, TaskShape, NothingUnsent, DigitsAreOwn, [Next]_vars
  PROVE  TaskShape'
<1>1. /\ issued \in Nat /\ sent \in Nat /\ sent <= issued
      /\ issued' \in Nat /\ issued <= issued'
  BY Grows
<1>2. ASSUME \/ finish_issue \/ record_message_id \/ set_meta \/ clear_input
             \/ clear_meta \/ mark_verified \/ delete_photo \/ edit_media
      PROVE  TaskShape'
  <2>1. /\ Proceed(task) /\ sent' = sent
        /\ \/ At("render") \/ At("record_message_id") \/ At("set_meta")
           \/ At("edit_media") \/ At("clear_input") \/ At("clear_meta")
           \/ At("mark_verified") \/ At("delete_photo")
    BY <1>2 DEF finish_issue, record_message_id, set_meta, clear_input, clear_meta,
         mark_verified, delete_photo, edit_media, chat
  <2> QED
    BY <1>1, <2>1, SameWork, ShapeKept
<1>3. ASSUME render_fails \/ send_fails \/ query_fails \/ Crash
      PROVE  TaskShape'
  BY <1>3 DEF render_fails, send_fails, query_fails, Crash, Abandon, TaskShape
<1>4. ASSUME \/ Sweeper \/ Tick \/ Shutdown \/ RedisLoss \/ UNCHANGED vars
             \/ \E u \in Users : recognise(u) \/ verified_cache_expires(u)
             \/ \E p, m, id : backspace(p, m, id)
      PROVE  TaskShape'
  <2>1. task' = task /\ sent' = sent
    BY <1>4 DEF Sweeper, sweep_expired_batch, delete_swept_photo, ledger_expired,
         Tick, Shutdown, RedisLoss, recognise, verified_cache_expires, backspace,
         chat, vars
  <2> QED
    BY <1>1, <2>1, ShapeKept
<1>5. ASSUME send_photo
      PROVE  TaskShape'
  <2>1. /\ task.user \in Users /\ task.id \in 1 .. issued
        /\ issued' = issued /\ sent' = sent + 1
    BY <1>5, Relies DEF send_photo, tables
  <2>2. sent + 1 \in 1 .. sent'
    BY <1>1, <2>1
  <2>3. task'.todo \in ToEdit \cup ToRecord
    BY <1>5, AfterSend DEF ToRecord
  <2> QED
    BY <1>5, <2>1, <2>2, <2>3, AfterSend DEF TaskShape
<1>6. ASSUME reissue
      PROVE  TaskShape'
  <2>1. /\ task.user \in Users /\ task.message \in 1 .. sent /\ sent' = sent
        /\ issued' = issued + 1
    BY <1>6, Relies DEF reissue, chat, Db!issue_challenge
  <2>2. task'.id \in 1 .. issued'
    BY <1>1, <1>6, <2>1, AfterReissue
  <2>3. task'.todo \in ToEdit \cup ToRecord
    BY <1>6, AfterReissue DEF ToEdit
  <2> QED
    BY <1>6, <2>1, <2>2, <2>3, AfterReissue DEF TaskShape
<1>7. ASSUME solve
      PROVE  TaskShape'
  <2>1. task.user \in Users /\ task.message \in 1 .. sent /\ sent' = sent
    BY <1>7, Relies DEF solve, chat
  <2> QED
    BY <1>7, <2>1, AfterAttempt DEF TaskShape
<1>8. ASSUME NEW u \in Users, join(u) \/ gate(u)
      PROVE  TaskShape'
  <2>1. /\ Begin(u, NoMessage, issued', <<>>, Posting)
        /\ issued' = issued + 1 /\ sent' = sent
    BY <1>8 DEF join, gate, Issue, chat, Db!issue_challenge
  <2>2. sent' < issued' /\ issued' \in 1 .. issued' /\ Posting \in ToSend
    BY <1>1, <2>1 DEF Posting, ToSend
  <2> QED
    BY <2>1, <2>2, Begins DEF TaskShape
<1>9. ASSUME NEW u \in Users, verify(u)
      PROVE  TaskShape'
  <2>1. Begin(u, NoMessage, 0, <<>>, <<"mark_verified">>)
    BY <1>9 DEF verify
  <2>2. <<"mark_verified">> \in ToMark
    BY DEF ToMark
  <2> QED
    BY <2>1, <2>2, Begins DEF TaskShape
<1>10. ASSUME NEW p, NEW s \in shown, NEW d \in Digits, digit_pressed(p, s[1], s[2], d)
       PROVE  TaskShape'
  <2>1. PICK presses \in Buffer(meta[s[1]].owner) :
          LET typed == Append(presses, [digit |-> d, by |-> p]) IN
            \/ UNCHANGED task
            \/ /\ Len(typed) = SolutionLen
               /\ Begin(meta[s[1]].owner, s[1], 0, typed, <<"solve">>)
    BY <1>10 DEF digit_pressed
  <2>2. /\ s[1] \in 1 .. sent /\ p \in Users /\ meta[s[1]].owner = p /\ sent' = sent
    BY <1>10, AcceptedPress DEF digit_pressed, chat
  <2>3. CASE UNCHANGED task
    BY <1>1, <2>2, <2>3, ShapeKept
  <2>4. CASE ~UNCHANGED task
    <3> DEFINE typed == Append(presses, [digit |-> d, by |-> p])
    <3>1. typed \in Seq(Press)
      BY <2>2, TypedDigit
    <3>2. Len(typed) = SolutionLen /\ Begin(p, s[1], 0, typed, <<"solve">>)
      BY <2>1, <2>2, <2>4
    <3> HIDE DEF typed
    <3>3. typed \in [1 .. SolutionLen -> Press]
      BY <3>1, <3>2, LenProperties
    <3>4. <<"solve">> \in ToSolve
      BY DEF ToSolve
    <3>5. /\ task' = With(task.todo)' /\ task'.todo = <<"solve">>
          /\ task'.user = p /\ task'.message = s[1] /\ task'.id = 0
          /\ task'.attempt = typed
      BY <3>2, Begins
    <3> QED
      BY <2>2, <3>3, <3>4, <3>5 DEF TaskShape
  <2> QED
    BY <2>3, <2>4
<1>11. ASSUME NEW p, NEW s \in shown, refresh(p, s[1], s[2])
       PROVE  TaskShape'
  <2>1. /\ Begin(p, s[1], 0, <<>>, Refreshing) /\ sent' = sent
        /\ s[1] \in 1 .. sent /\ p \in Users
    BY <1>11, AcceptedPress DEF refresh, chat
  <2>2. Refreshing \in ToReissue
    BY DEF ToReissue
  <2> QED
    BY <2>1, <2>2, Begins DEF TaskShape
<1> QED
  BY <1>2, <1>3, <1>4, <1>5, <1>6, <1>7, <1>8, <1>9, <1>10, <1>11
  DEF Next, Worker, Dispatch

\* A handler of that shape has the types TypeOK asks for.
LEMMA TaskTyped ==
  ASSUME TaskShape, issued \in Nat, issued <= MaxIssues, sent \in Nat, sent <= issued
  PROVE  /\ task.user \in Users \cup {NoUser}
         /\ task.message \in Messages \cup {NoMessage}
         /\ task.id \in 0 .. issued
         /\ task.attempt \in UpTo(Press, SolutionLen)
         /\ \A i \in DOMAIN task.todo : task.todo[i] \in Steps
<1>1. <<>> \in UpTo(Press, SolutionLen)
  <2>1. <<>> \in Seq(Press) /\ Len(<<>>) = 0 /\ SolutionLen \in Nat /\ 0 <= SolutionLen
    BY EmptySeq, BotConstantsOK
  <2> QED
    BY <2>1, UpToSeq
<1>2. [1 .. SolutionLen -> Press] \subseteq UpTo(Press, SolutionLen)
  BY BotConstantsOK DEF UpTo
<1>3. \A m \in 1 .. sent : m \in Messages
  BY BotConstantsOK DEF Messages
<1>4. \A id \in 1 .. issued : id \in 0 .. issued
  OBVIOUS
<1>5. 0 \in 0 .. issued
  OBVIOUS
<1>6. CASE task = NoTask
  <2>1. /\ task.user = NoUser /\ task.message = NoMessage /\ task.id = 0
        /\ task.attempt = <<>> /\ task.todo = <<>>
    BY <1>6 DEF NoTask
  <2>2. DOMAIN task.todo = {}
    BY <2>1
  <2> QED
    BY <1>1, <1>5, <2>1, <2>2
<1>7. CASE task # NoTask
  <2>1. task.user \in Users /\ task.todo \in Lists
    BY <1>7, BusyTask
  <2>2. \A i \in DOMAIN task.todo : task.todo[i] \in Steps
    BY <2>1 DEF Lists, ToSend, ToEdit, ToRecord, ToReissue, ToClear, ToClose, ToPass,
         ToSolve, ToMark, Refreshing, Steps
  <2>3. /\ task.message \in Messages \cup {NoMessage} /\ task.id \in 0 .. issued
        /\ task.attempt \in UpTo(Press, SolutionLen)
    BY <1>1, <1>2, <1>3, <1>4, <1>5, <2>1, Shapes DEF Lists
  <2> QED
    BY <2>1, <2>2, <2>3
<1> QED
  BY <1>6, <1>7

-----------------------------------------------------------------------------
(* What a step does to Redis and to the chat *)

\* The steps that can change the meta rows.
LEMMA MetaFrame ==
  ASSUME [Next]_vars
  PROVE  set_meta \/ clear_meta \/ Tick \/ RedisLoss \/ meta' = meta
<1>1. ASSUME \/ finish_issue \/ render_fails \/ send_photo \/ send_fails
             \/ record_message_id \/ clear_input \/ mark_verified
             \/ delete_photo \/ reissue \/ edit_media \/ solve \/ query_fails
             \/ Sweeper \/ Crash \/ Shutdown \/ UNCHANGED vars
      PROVE  meta' = meta
  BY <1>1 DEF finish_issue, render_fails, send_photo, send_fails,
       record_message_id, clear_input, mark_verified, delete_photo, reissue,
       edit_media, solve, query_fails, Sweeper, sweep_expired_batch,
       delete_swept_photo, ledger_expired, Crash, Shutdown, vars, redis
<1>2. ASSUME NEW u, \/ recognise(u) \/ join(u) \/ gate(u) \/ verify(u)
                    \/ verified_cache_expires(u)
      PROVE  meta' = meta
  BY <1>2 DEF recognise, join, gate, Issue, verify, verified_cache_expires, redis
<1>3. ASSUME NEW p, NEW m, NEW id, NEW d,
             digit_pressed(p, m, id, d) \/ backspace(p, m, id) \/ refresh(p, m, id)
      PROVE  meta' = meta
  BY <1>3 DEF digit_pressed, backspace, refresh, redis
<1> QED
  BY <1>1, <1>2, <1>3 DEF Next, Worker, Dispatch

\* The steps that can change the buffers.
LEMMA InputFrame ==
  ASSUME [Next]_vars
  PROVE  \/ clear_input \/ Tick \/ RedisLoss \/ input' = input
         \/ \E p \in Users \cup Bystanders, s \in shown :
              \/ \E d \in Digits : digit_pressed(p, s[1], s[2], d)
              \/ backspace(p, s[1], s[2])
<1>1. ASSUME \/ finish_issue \/ render_fails \/ send_photo \/ send_fails
             \/ record_message_id \/ set_meta \/ clear_meta \/ mark_verified
             \/ delete_photo \/ reissue \/ edit_media \/ solve \/ query_fails
             \/ Sweeper \/ Crash \/ Shutdown \/ UNCHANGED vars
      PROVE  input' = input
  BY <1>1 DEF finish_issue, render_fails, send_photo, send_fails,
       record_message_id, set_meta, clear_meta, mark_verified, delete_photo,
       reissue, edit_media, solve, query_fails, Sweeper, sweep_expired_batch,
       delete_swept_photo, ledger_expired, Crash, Shutdown, vars, redis
<1>2. ASSUME NEW u, \/ recognise(u) \/ join(u) \/ gate(u) \/ verify(u)
                    \/ verified_cache_expires(u)
      PROVE  input' = input
  BY <1>2 DEF recognise, join, gate, Issue, verify, verified_cache_expires, redis
<1>3. ASSUME NEW p, NEW m, NEW id, refresh(p, m, id)
      PROVE  input' = input
  BY <1>3 DEF refresh, redis
<1> QED
  BY <1>1, <1>2, <1>3 DEF Next, Worker, Dispatch

\* The steps that can change the cache of verified users.
LEMMA CacheFrame ==
  ASSUME [Next]_vars
  PROVE  \/ mark_verified \/ RedisLoss \/ verifiedCache' = verifiedCache
         \/ \E u \in Users : recognise(u) \/ verified_cache_expires(u)
<1>1. ASSUME \/ finish_issue \/ render_fails \/ send_photo \/ send_fails
             \/ record_message_id \/ set_meta \/ clear_meta \/ clear_input
             \/ delete_photo \/ reissue \/ edit_media \/ solve \/ query_fails
             \/ Sweeper \/ Tick \/ Crash \/ Shutdown \/ UNCHANGED vars
      PROVE  verifiedCache' = verifiedCache
  BY <1>1 DEF finish_issue, render_fails, send_photo, send_fails,
       record_message_id, set_meta, clear_meta, clear_input, delete_photo,
       reissue, edit_media, solve, query_fails, Sweeper, sweep_expired_batch,
       delete_swept_photo, ledger_expired, Tick, Crash, Shutdown, vars, redis
<1>2. ASSUME NEW u, join(u) \/ gate(u) \/ verify(u)
      PROVE  verifiedCache' = verifiedCache
  BY <1>2 DEF join, gate, Issue, verify, redis
<1>3. ASSUME NEW p, NEW m, NEW id, NEW d,
             digit_pressed(p, m, id, d) \/ backspace(p, m, id) \/ refresh(p, m, id)
      PROVE  verifiedCache' = verifiedCache
  BY <1>3 DEF digit_pressed, backspace, refresh, redis
<1> QED
  BY <1>1, <1>2, <1>3 DEF Next, Worker, Dispatch

\* The steps that can change what stands in the chat.
LEMMA ChatFrame ==
  ASSUME [Next]_vars
  PROVE  \/ send_photo \/ delete_photo \/ edit_media \/ UNCHANGED chat
         \/ \E row \in batch : delete_swept_photo(row)
<1>1. ASSUME \/ finish_issue \/ render_fails \/ send_fails
             \/ record_message_id \/ set_meta \/ clear_meta \/ clear_input
             \/ mark_verified \/ reissue \/ solve \/ query_fails
             \/ sweep_expired_batch \/ Tick \/ Crash \/ Shutdown \/ RedisLoss
             \/ \E row \in batch : ledger_expired(row)
             \/ UNCHANGED vars
      PROVE  UNCHANGED chat
  BY <1>1 DEF finish_issue, render_fails, send_fails,
       record_message_id, set_meta, clear_meta, clear_input, mark_verified,
       reissue, solve, query_fails, sweep_expired_batch, ledger_expired, Tick,
       Crash, Shutdown, RedisLoss, vars
<1>2. ASSUME NEW u, \/ recognise(u) \/ join(u) \/ gate(u) \/ verify(u)
                    \/ verified_cache_expires(u)
      PROVE  UNCHANGED chat
  BY <1>2 DEF recognise, join, gate, Issue, verify, verified_cache_expires
<1>3. ASSUME NEW p, NEW m, NEW id, NEW d,
             digit_pressed(p, m, id, d) \/ backspace(p, m, id) \/ refresh(p, m, id)
      PROVE  UNCHANGED chat
  BY <1>3 DEF digit_pressed, backspace, refresh
<1> QED
  BY <1>1, <1>2, <1>3 DEF Next, Worker, Dispatch, Sweeper

\* A meta row is written by set_meta only; otherwise it goes, or stays the same
\* with no more time than before.
LEMMA MetaMoves ==
  ASSUME TypeOK, TaskShape, [Next]_vars
  PROVE  /\ meta' \in [Messages -> {NoMeta} \cup MetaRow]
         /\ \/ /\ At("set_meta") /\ Proceed(task)
               /\ UNCHANGED <<tables, input, verifiedCache, chat>>
               /\ task.message \in Messages
               /\ meta' = [meta EXCEPT ![task.message] =
                    [owner |-> task.user, short |-> short_id[task.id],
                     ttl |-> Lifetime]]
            \/ \A m \in Messages : meta'[m] # NoMeta =>
                 /\ meta[m] # NoMeta
                 /\ meta'[m].owner = meta[m].owner
                 /\ meta'[m].short = meta[m].short
                 /\ meta'[m].ttl = meta[m].ttl \/ Tick
<1> USE DEF TypeOK
<1>1. /\ meta \in [Messages -> {NoMeta} \cup MetaRow]
      /\ \A m \in 1 .. sent : m \in Messages
      /\ \A id \in 1 .. issued : id \in ChallengeIds
  BY BotConstantsOK DEF Db!TypeOK, Messages, ChallengeIds
<1>2. CASE meta' = meta
  BY <1>1, <1>2
<1>3. CASE set_meta
  <2> DEFINE row == [owner |-> task.user, short |-> short_id[task.id],
                     ttl |-> Lifetime]
  <2>1. /\ task.user \in Users /\ task.message \in Messages
        /\ task.id \in ChallengeIds
    BY <1>1, <1>3, Relies DEF set_meta
  <2>2. row \in MetaRow
    <3>1. Lifetime \in 1 .. Lifetime
      BY BotConstantsOK
    <3> QED
      BY <2>1, <3>1 DEF MetaRow
  <2>3. meta' = meta \/ meta' = [meta EXCEPT ![task.message] = row]
    BY <1>3 DEF set_meta, RedisOutcome
  <2>4. CASE meta' = [meta EXCEPT ![task.message] = row]
    BY <1>1, <1>3, <2>1, <2>2, <2>4 DEF set_meta
  <2> QED
    BY <1>2, <2>3, <2>4
<1>4. CASE clear_meta
  <2>1. task.message \in Messages
    BY <1>1, <1>4, Relies DEF clear_meta
  <2>2. meta' = meta \/ meta' = [meta EXCEPT ![task.message] = NoMeta]
    BY <1>4 DEF clear_meta, RedisOutcome
  <2> QED
    BY <1>1, <2>1, <2>2
<1>5. CASE Tick
  <2>1. ASSUME NEW m \in Messages
        PROVE  /\ meta'[m] \in {NoMeta} \cup MetaRow
               /\ meta'[m] # NoMeta =>
                    /\ meta[m] # NoMeta
                    /\ meta'[m].owner = meta[m].owner
                    /\ meta'[m].short = meta[m].short
    <3>1. meta'[m] = IF meta[m] = NoMeta \/ meta[m].ttl = 1
                     THEN NoMeta ELSE [meta[m] EXCEPT !.ttl = @ - 1]
      BY <1>5 DEF Tick
    <3>2. CASE meta[m] # NoMeta /\ meta[m].ttl # 1
      <4>1. meta[m] \in MetaRow /\ meta[m].ttl \in 1 .. Lifetime
        BY <1>1, <3>2 DEF MetaRow
      <4>2. meta[m].ttl - 1 \in 1 .. Lifetime
        BY <3>2, <4>1, BotConstantsOK
      <4> QED
        BY <3>1, <3>2, <4>1, <4>2 DEF MetaRow
    <3> QED
      BY <3>1, <3>2
  <2>2. DOMAIN meta' = Messages /\ meta' = [m \in Messages |-> meta'[m]]
    BY <1>5 DEF Tick
  <2> QED
    BY <1>5, <2>1, <2>2
<1>6. CASE RedisLoss
  BY <1>6 DEF RedisLoss
<1> QED
  BY <1>2, <1>3, <1>4, <1>5, <1>6, MetaFrame

\* A photo is sent under a new id, or changed by its handler, or deleted.
LEMMA PhotosMove ==
  ASSUME TypeOK, TaskShape, [Next]_vars
  PROVE  /\ photo' \in [Messages -> 0 .. issued']
         /\ shown' \subseteq Messages \X ChallengeIds
         /\ sent' \in 0 .. issued' /\ shown \subseteq shown'
         /\ \/ /\ send_photo /\ sent' = sent + 1 /\ sent + 1 \in Messages
               /\ photo' = [photo EXCEPT ![sent + 1] = task.id]
               /\ shown' = shown \cup {<<sent + 1, task.id>>}
            \/ /\ edit_media /\ sent' = sent /\ task.message \in Messages
               /\ photo' = [photo EXCEPT ![task.message] = task.id]
               /\ shown' = shown \cup {<<task.message, task.id>>}
            \/ /\ sent' = sent /\ shown' = shown
               /\ \A m \in Messages : photo'[m] = 0 \/ photo'[m] = photo[m]
<1>1. /\ photo \in [Messages -> 0 .. issued]
      /\ shown \subseteq Messages \X ChallengeIds
      /\ \A m \in 1 .. sent : m \in Messages
      /\ \A id \in 1 .. issued : id \in ChallengeIds
      /\ issued \in Nat /\ sent \in Nat /\ sent <= issued
      /\ issued <= MaxIssues /\ MaxIssues \in Nat
  BY BotConstantsOK DEF TypeOK, Db!TypeOK, Messages, ChallengeIds
<1>2. issued' \in Nat /\ issued <= issued'
  BY Grows
<1>3. /\ photo \in [Messages -> 0 .. issued']
      /\ sent \in 0 .. issued'
  BY <1>1, <1>2
<1>4. CASE UNCHANGED chat
  BY <1>1, <1>3, <1>4 DEF chat
<1>5. CASE send_photo
  <2>1. task.id \in 1 .. issued /\ sent + 1 <= issued
    BY <1>5, Relies DEF send_photo
  <2>2. /\ sent + 1 \in Messages /\ task.id \in ChallengeIds
        /\ task.id \in 0 .. issued' /\ sent + 1 \in 0 .. issued'
    BY <1>1, <1>2, <2>1 DEF Messages
  <2> QED
    BY <1>1, <1>3, <1>5, <2>2 DEF send_photo
<1>6. CASE delete_photo
  <2>1. /\ photo' \in {photo, [photo EXCEPT ![task.message] = 0]}
        /\ sent' = sent /\ shown' = shown
    BY <1>6 DEF delete_photo, BotOutcome
  <2> QED
    BY <1>1, <1>2, <1>3, <2>1
<1>7. CASE edit_media
  <2>1. task.message \in Messages /\ task.id \in 1 .. issued
    BY <1>1, <1>7, Relies DEF edit_media
  <2>2. task.id \in ChallengeIds /\ task.id \in 0 .. issued'
    BY <1>1, <1>2, <2>1
  <2>3. /\ sent' = sent
        /\ \/ /\ photo' = [photo EXCEPT ![task.message] = task.id]
              /\ shown' = shown \cup {<<task.message, task.id>>}
           \/ photo' = photo /\ shown' = shown
    BY <1>7 DEF edit_media
  <2> QED
    BY <1>1, <1>3, <1>7, <2>1, <2>2, <2>3
<1>8. CASE \E row \in batch : delete_swept_photo(row)
  <2>1. PICK row \in batch : delete_swept_photo(row)
    BY <1>8
  <2>2. /\ photo' \in {photo, [photo EXCEPT ![row.message] = 0]}
        /\ sent' = sent /\ shown' = shown
    BY <2>1 DEF delete_swept_photo, BotOutcome
  <2> QED
    BY <1>1, <1>2, <1>3, <2>2
<1> QED
  BY <1>4, <1>5, <1>6, <1>7, <1>8, ChatFrame

-----------------------------------------------------------------------------
(* Digits and attempts are their owner's *)

InputRows == [presses : UpTo(Press, SolutionLen - 1), ttl : 0 .. Lifetime]

\* A buffer that fits and is its owner's.
OwnBuffer(u, row) ==
  row \in InputRows /\ \A i \in DOMAIN row.presses : row.presses[i].by = u

LEMMA OwnBuffers ==
  ASSUME TypeOK, DigitsAreOwn
  PROVE  \A u \in Users : OwnBuffer(u, input[u])
BY DEF TypeOK, DigitsAreOwn, OwnBuffer, InputRows

LEMMA EmptyBuffer == \A u : OwnBuffer(u, NoInput)
<1>1. SolutionLen - 1 \in Nat /\ 0 \in 0 .. Lifetime
  BY BotConstantsOK
<1>2. <<>> \in UpTo(Press, SolutionLen - 1)
  <2>1. <<>> \in Seq(Press) /\ Len(<<>>) = 0 /\ 0 <= SolutionLen - 1
    BY <1>1, EmptySeq
  <2> QED
    BY <1>1, <2>1, UpToSeq
<1>3. NoInput.presses = <<>> /\ DOMAIN <<>> = {}
  BY DEF NoInput
<1> QED
  BY <1>1, <1>2, <1>3 DEF OwnBuffer, NoInput, InputRows

LEMMA BufferKept ==
  ASSUME TypeOK, DigitsAreOwn, NEW p \in Users, NEW digits \in Seq(Press),
         Len(digits) <= SolutionLen - 1,
         \A i \in 1 .. Len(digits) : digits[i].by = p,
         Buffered(p, digits)
  PROVE  input' \in [Users -> InputRows] /\ DigitsAreOwn'
<1> DEFINE row == IF digits = <<>> THEN NoInput
                  ELSE [presses |-> digits, ttl |-> Lifetime]
<1>1. input' = input \/ input' = [input EXCEPT ![p] = row]
  BY DEF Buffered, RedisOutcome
<1>2. OwnBuffer(p, row)
  <2>1. DOMAIN digits = 1 .. Len(digits) /\ SolutionLen - 1 \in Nat
        /\ Lifetime \in 0 .. Lifetime
    BY LenProperties, BotConstantsOK
  <2>2. digits \in UpTo(Press, SolutionLen - 1)
    BY <2>1, UpToSeq
  <2>3. CASE digits = <<>>
    BY <2>3, EmptyBuffer
  <2>4. CASE digits # <<>>
    BY <2>1, <2>2, <2>4 DEF OwnBuffer, InputRows
  <2> QED
    BY <2>3, <2>4
<1> HIDE DEF row
<1>3. input \in [Users -> InputRows]
  BY DEF TypeOK, InputRows
<1>4. \A u \in Users : OwnBuffer(u, input'[u])
  BY <1>1, <1>2, <1>3, OwnBuffers
<1> QED
  BY <1>1, <1>3, <1>4 DEF OwnBuffer, DigitsAreOwn

LEMMA DigitsStep ==
  ASSUME TypeOK, TaskShape, NothingUnsent, DigitsAreOwn, [Next]_vars
  PROVE  input' \in [Users -> InputRows] /\ DigitsAreOwn'
<1>1. input \in [Users -> InputRows] /\ \A u \in Users : OwnBuffer(u, input[u])
  BY OwnBuffers DEF TypeOK, InputRows
<1>2. ASSUME input' \in [Users -> InputRows],
             \A u \in Users : OwnBuffer(u, input'[u])
      PROVE  input' \in [Users -> InputRows] /\ DigitsAreOwn'
  BY <1>2 DEF OwnBuffer, DigitsAreOwn
<1>3. CASE input' = input
  BY <1>1, <1>2, <1>3
<1>4. CASE clear_input
  <2>1. input' = input \/ input' = [input EXCEPT ![task.user] = NoInput]
    BY <1>4 DEF clear_input, RedisOutcome
  <2>2. NoInput \in InputRows
    BY EmptyBuffer DEF OwnBuffer
  <2> QED
    BY <1>1, <1>2, <2>1, <2>2, EmptyBuffer
<1>5. CASE Tick
  <2>1. ASSUME NEW u \in Users
        PROVE  OwnBuffer(u, IF input[u].ttl <= 1 THEN NoInput
                            ELSE [input[u] EXCEPT !.ttl = @ - 1])
    <3>1. CASE input[u].ttl <= 1
      BY <3>1, EmptyBuffer
    <3>2. CASE ~(input[u].ttl <= 1)
      <4>1. input[u] \in InputRows /\ input[u].ttl \in 0 .. Lifetime
        BY <1>1 DEF InputRows
      <4>2. input[u].ttl - 1 \in 0 .. Lifetime
        BY <3>2, <4>1, BotConstantsOK
      <4>3. /\ [input[u] EXCEPT !.ttl = @ - 1] \in InputRows
            /\ [input[u] EXCEPT !.ttl = @ - 1].presses = input[u].presses
        BY <4>1, <4>2 DEF InputRows
      <4> QED
        BY <1>1, <3>2, <4>3 DEF OwnBuffer
    <3> QED
      BY <3>1, <3>2
  <2>2. input' = [u \in Users |->
          IF input[u].ttl <= 1 THEN NoInput ELSE [input[u] EXCEPT !.ttl = @ - 1]]
    BY <1>5 DEF Tick
  <2>3. \A u \in Users : OwnBuffer(u, input'[u])
    BY <2>1, <2>2
  <2>4. input' \in [Users -> InputRows]
    BY <2>1, <2>2 DEF OwnBuffer
  <2> QED
    BY <1>2, <2>3, <2>4
<1>6. CASE RedisLoss
  <2>1. input' = [u \in Users |-> NoInput]
    BY <1>6 DEF RedisLoss
  <2>2. NoInput \in InputRows
    BY EmptyBuffer DEF OwnBuffer
  <2> QED
    BY <1>2, <2>1, <2>2, EmptyBuffer
<1>7. ASSUME NEW p, NEW s \in shown, NEW d \in Digits, digit_pressed(p, s[1], s[2], d)
      PROVE  input' \in [Users -> InputRows] /\ DigitsAreOwn'
  <2>1. p \in Users /\ meta[s[1]].owner = p
    BY <1>7, AcceptedPress DEF digit_pressed
  <2>2. PICK presses \in Buffer(p) :
          LET typed == Append(presses, [digit |-> d, by |-> p]) IN
            \/ Len(typed) < SolutionLen /\ Buffered(p, typed)
            \/ UNCHANGED input
    BY <1>7, <2>1 DEF digit_pressed
  <2> DEFINE typed == Append(presses, [digit |-> d, by |-> p])
  <2>3. /\ typed \in Seq(Press) /\ Len(typed) \in Nat
        /\ \A i \in 1 .. Len(typed) : typed[i].by = p
    BY <2>1, TypedDigit
  <2>4. \/ Len(typed) < SolutionLen /\ Buffered(p, typed)
        \/ UNCHANGED input
    BY <2>2
  <2> HIDE DEF typed
  <2>5. CASE Len(typed) < SolutionLen /\ Buffered(p, typed)
    <3>1. Len(typed) <= SolutionLen - 1
      BY <2>3, <2>5, BotConstantsOK
    <3> QED
      BY <2>1, <2>3, <2>5, <3>1, BufferKept
  <2> QED
    BY <1>3, <2>4, <2>5
<1>8. ASSUME NEW p, NEW s \in shown, backspace(p, s[1], s[2])
      PROVE  input' \in [Users -> InputRows] /\ DigitsAreOwn'
  <2>1. p \in Users /\ meta[s[1]].owner = p
    BY <1>8, AcceptedPress DEF backspace
  <2>2. PICK presses \in Buffer(p) :
          Buffered(p, IF presses = <<>> THEN <<>>
                      ELSE SubSeq(presses, 1, Len(presses) - 1))
    BY <1>8, <2>1 DEF backspace
  <2> DEFINE rest == IF presses = <<>> THEN <<>>
                     ELSE SubSeq(presses, 1, Len(presses) - 1)
  <2>3. /\ rest \in Seq(Press) /\ Len(rest) <= SolutionLen - 1
        /\ \A i \in 1 .. Len(rest) : rest[i].by = p
    BY <2>1, TakenBack
  <2>4. Buffered(p, rest)
    BY <2>2
  <2> HIDE DEF rest
  <2> QED
    BY <2>1, <2>3, <2>4, BufferKept
<1> QED
  BY <1>3, <1>4, <1>5, <1>6, <1>7, <1>8, InputFrame

\* Only a press of the owner fills an attempt.
LEMMA AnswersStep ==
  ASSUME TypeOK, TaskShape, NothingUnsent, DigitsAreOwn, AnswersAreOwn, [Next]_vars
  PROVE  AnswersAreOwn'
<1>1. CASE task' = task
  BY <1>1 DEF AnswersAreOwn, At, Idle
<1>2. ASSUME task'.attempt = <<>>
      PROVE  AnswersAreOwn'
  BY <1>2 DEF AnswersAreOwn
<1>3. NoTask.attempt = <<>>
  BY DEF NoTask
<1>4. ASSUME \/ finish_issue \/ record_message_id \/ set_meta \/ clear_input
             \/ clear_meta \/ mark_verified \/ delete_photo \/ edit_media
      PROVE  AnswersAreOwn'
  <2>1. /\ Proceed(task)
        /\ \/ At("render") \/ At("record_message_id") \/ At("set_meta")
           \/ At("edit_media") \/ At("clear_input") \/ At("clear_meta")
           \/ At("mark_verified") \/ At("delete_photo")
    BY <1>4 DEF finish_issue, record_message_id, set_meta, clear_input, clear_meta,
         mark_verified, delete_photo, edit_media
  <2>2. \/ task' = NoTask
        \/ /\ task' = With(task'.todo)
           /\ task.todo \in ToSend \cup ToEdit \cup ToRecord \cup ToReissue
                \cup ToClose \cup ToPass
    BY <2>1, SameWork
  <2>3. task' = NoTask \/ task'.attempt = <<>>
    BY <2>2, Shapes DEF With
  <2> QED
    BY <1>2, <1>3, <2>3
<1>5. ASSUME render_fails \/ send_fails \/ query_fails \/ Crash
      PROVE  AnswersAreOwn'
  BY <1>2, <1>3, <1>5 DEF render_fails, send_fails, query_fails, Crash, Abandon
<1>6. ASSUME send_photo \/ reissue \/ solve
      PROVE  AnswersAreOwn'
  BY <1>2, <1>6, AfterSend, AfterReissue, AfterAttempt
<1>7. ASSUME NEW u \in Users, join(u) \/ gate(u) \/ verify(u)
      PROVE  AnswersAreOwn'
  BY <1>2, <1>7, Begins DEF join, gate, Issue, verify
<1>8. ASSUME NEW p, NEW s \in shown, NEW d \in Digits, digit_pressed(p, s[1], s[2], d)
      PROVE  AnswersAreOwn'
  <2>1. p \in Users /\ meta[s[1]].owner = p
    BY <1>8, AcceptedPress DEF digit_pressed
  <2>2. PICK presses \in Buffer(p) :
          LET typed == Append(presses, [digit |-> d, by |-> p]) IN
            UNCHANGED task \/ Begin(p, s[1], 0, typed, <<"solve">>)
    BY <1>8, <2>1 DEF digit_pressed
  <2> DEFINE typed == Append(presses, [digit |-> d, by |-> p])
  <2>3. /\ typed \in Seq(Press) /\ \A i \in 1 .. Len(typed) : typed[i].by = p
    BY <2>1, TypedDigit
  <2>4. UNCHANGED task \/ Begin(p, s[1], 0, typed, <<"solve">>)
    BY <2>2
  <2> HIDE DEF typed
  <2>5. CASE Begin(p, s[1], 0, typed, <<"solve">>)
    <3>1. DOMAIN typed = 1 .. Len(typed)
      BY <2>3, LenProperties
    <3>2. task'.user = p /\ task'.attempt = typed
      BY <2>5, Begins
    <3> QED
      BY <2>3, <3>1, <3>2 DEF AnswersAreOwn
  <2> QED
    BY <1>1, <2>4, <2>5
<1>9. ASSUME NEW p, NEW m, NEW id, refresh(p, m, id)
      PROVE  AnswersAreOwn'
  BY <1>2, <1>9, Begins DEF refresh
<1>10. ASSUME \/ Sweeper \/ Tick \/ Shutdown \/ RedisLoss \/ UNCHANGED vars
              \/ \E u \in Users : recognise(u) \/ verified_cache_expires(u)
              \/ \E p, m, id : backspace(p, m, id)
       PROVE  task' = task
  BY <1>10 DEF Sweeper, sweep_expired_batch, delete_swept_photo, ledger_expired,
       Tick, Shutdown, RedisLoss, recognise, verified_cache_expires, backspace, vars
<1> QED
  BY <1>1, <1>4, <1>5, <1>6, <1>7, <1>8, <1>9, <1>10 DEF Next, Worker, Dispatch

-----------------------------------------------------------------------------
(* The cache, and what was never sent *)

\* What a step makes of the handler: the same, nothing, the same work with a
\* step less, or one of the beginnings and turns.
LEMMA TaskMoves ==
  ASSUME TypeOK, TaskShape, NothingUnsent, DigitsAreOwn, [Next]_vars
  PROVE  \/ task' = task
         \/ task' = NoTask
         \/ /\ Proceed(task) /\ task' = With(task'.todo)
            /\ \/ finish_issue \/ record_message_id \/ set_meta \/ clear_input
               \/ clear_meta \/ mark_verified \/ delete_photo \/ edit_media
            /\ \/ task.todo \in ToSend /\ task'.todo \in ToSend
               \/ task.todo \in ToEdit /\ task'.todo \in ToEdit \cup ToRecord
               \/ task.todo \in ToRecord /\ task'.todo \in ToRecord
               \/ task.todo \in ToReissue /\ task'.todo \in ToReissue
               \/ task.todo \in ToClose /\ task'.todo \in ToClose
               \/ task.todo \in ToPass /\ task'.todo \in ToPass \cup ToClose
         \/ send_photo
         \/ reissue
         \/ solve
         \/ \E u \in Users :
              /\ Idle /\ Db!issue_challenge(u)
              /\ UNCHANGED <<redis, chat>>
              /\ task'.user = u /\ task'.message = NoMessage /\ task'.id = issued'
              /\ task'.todo = Posting
         \/ \E u \in Users : /\ Idle /\ Db!verify_manual(u)
                             /\ UNCHANGED <<redis, chat>>
                             /\ task'.user = u /\ task'.message = NoMessage
                             /\ task'.todo = <<"mark_verified">>
         \/ \E m \in Messages :
              /\ Idle
              /\ meta[m] # NoMeta /\ task'.user = meta[m].owner /\ task'.message = m
              /\ task'.todo \in {<<"solve">>, Refreshing}
              /\ UNCHANGED <<tables, meta, verifiedCache, chat>>
<1>1. ASSUME \/ finish_issue \/ record_message_id \/ set_meta \/ clear_input
             \/ clear_meta \/ mark_verified \/ delete_photo \/ edit_media
      PROVE  \/ task' = NoTask
             \/ /\ Proceed(task) /\ task' = With(task'.todo)
                /\ \/ task.todo \in ToSend /\ task'.todo \in ToSend
                   \/ task.todo \in ToEdit /\ task'.todo \in ToEdit \cup ToRecord
                   \/ task.todo \in ToRecord /\ task'.todo \in ToRecord
                   \/ task.todo \in ToReissue /\ task'.todo \in ToReissue
                   \/ task.todo \in ToClose /\ task'.todo \in ToClose
                   \/ task.todo \in ToPass /\ task'.todo \in ToPass \cup ToClose
  <2>1. /\ Proceed(task)
        /\ \/ At("render") \/ At("record_message_id") \/ At("set_meta")
           \/ At("edit_media") \/ At("clear_input") \/ At("clear_meta")
           \/ At("mark_verified") \/ At("delete_photo")
    BY <1>1 DEF finish_issue, record_message_id, set_meta, clear_input, clear_meta,
         mark_verified, delete_photo, edit_media
  <2> QED
    BY <2>1, SameWork
<1>2. ASSUME render_fails \/ send_fails \/ query_fails \/ Crash
      PROVE  task' = NoTask
  BY <1>2 DEF render_fails, send_fails, query_fails, Crash, Abandon
<1>3. ASSUME NEW u \in Users, join(u) \/ gate(u)
      PROVE  /\ Idle /\ Db!issue_challenge(u)
             /\ UNCHANGED <<redis, chat>>
             /\ task'.user = u /\ task'.message = NoMessage /\ task'.id = issued'
             /\ task'.todo = Posting
  BY <1>3, Begins DEF join, gate, Issue
<1>4. ASSUME NEW u \in Users, verify(u)
      PROVE  /\ Idle /\ Db!verify_manual(u)
             /\ UNCHANGED <<redis, chat>>
             /\ task'.user = u /\ task'.message = NoMessage
             /\ task'.todo = <<"mark_verified">>
  BY <1>4, Begins DEF verify
<1>5. ASSUME NEW p, NEW s \in shown, NEW d \in Digits, digit_pressed(p, s[1], s[2], d)
      PROVE  \/ task' = task
             \/ /\ Idle /\ s[1] \in Messages /\ meta[s[1]] # NoMeta
                /\ task'.user = meta[s[1]].owner /\ task'.message = s[1]
                /\ task'.todo = <<"solve">>
                /\ UNCHANGED <<tables, meta, verifiedCache, chat>>
  <2>1. Idle /\ s[1] \in Messages /\ meta[s[1]] # NoMeta
    BY <1>5, AcceptedPress DEF digit_pressed
  <2>2. PICK presses \in Buffer(meta[s[1]].owner) :
          LET typed == Append(presses, [digit |-> d, by |-> p]) IN
            \/ UNCHANGED task
            \/ Begin(meta[s[1]].owner, s[1], 0, typed, <<"solve">>)
    BY <1>5 DEF digit_pressed
  <2>3. UNCHANGED <<tables, meta, verifiedCache, chat>>
    BY <1>5 DEF digit_pressed
  <2> QED
    BY <2>1, <2>2, <2>3, Begins
<1>6. ASSUME NEW p, NEW s \in shown, refresh(p, s[1], s[2])
      PROVE  /\ Idle /\ s[1] \in Messages /\ meta[s[1]] # NoMeta
             /\ task'.user = meta[s[1]].owner /\ task'.message = s[1]
             /\ task'.todo = Refreshing
             /\ UNCHANGED <<tables, meta, verifiedCache, chat>>
  <2>1. Idle /\ s[1] \in Messages /\ meta[s[1]] # NoMeta
    BY <1>6, AcceptedPress DEF refresh
  <2>2. Begin(meta[s[1]].owner, s[1], 0, <<>>, Refreshing)
    BY <1>6 DEF refresh
  <2>3. UNCHANGED <<tables, meta, verifiedCache, chat>>
    BY <1>6 DEF refresh, redis
  <2> QED
    BY <2>1, <2>2, <2>3, Begins
<1>7. ASSUME \/ Sweeper \/ Tick \/ Shutdown \/ RedisLoss \/ UNCHANGED vars
             \/ \E u \in Users : recognise(u) \/ verified_cache_expires(u)
             \/ \E p, m, id : backspace(p, m, id)
      PROVE  task' = task
  BY <1>7 DEF Sweeper, sweep_expired_batch, delete_swept_photo, ledger_expired,
       Tick, Shutdown, RedisLoss, recognise, verified_cache_expires, backspace, vars
<1>8. CASE Worker
  BY <1>1, <1>2, <1>8 DEF Worker
<1>9. CASE Dispatch
  <2>1. CASE \E u \in Users : recognise(u) \/ join(u) \/ gate(u) \/ verify(u)
    BY <1>3, <1>4, <1>7, <2>1
  <2>2. CASE \E p \in Users \cup Bystanders, s \in shown :
               \/ \E d \in Digits : digit_pressed(p, s[1], s[2], d)
               \/ backspace(p, s[1], s[2])
               \/ refresh(p, s[1], s[2])
    BY <1>5, <1>6, <1>7, <2>2
  <2> QED
    BY <1>9, <2>1, <2>2 DEF Dispatch
<1> QED
  BY <1>2, <1>7, <1>8, <1>9 DEF Next

\* Whoever is about to be marked is verified, and stays so.
LEMMA MarkedStep ==
  ASSUME TypeOK, TaskShape, NothingUnsent, DigitsAreOwn, MarkedAreVerified,
         [Next]_vars
  PROVE  MarkedAreVerified'
<1>1. verified \subseteq verified'
  BY Grows
<1>2. ASSUME task'.todo \notin ToPass \cup ToMark
      PROVE  MarkedAreVerified'
  BY <1>2 DEF MarkedAreVerified
<1>3. CASE task' = task
  BY <1>1, <1>3 DEF MarkedAreVerified
<1>4. CASE task' = NoTask
  <2>1. task'.todo = <<>>
    BY <1>4 DEF NoTask
  <2> QED
    BY <1>2, <2>1, Apart DEF Lists
<1>5. CASE /\ task' = With(task'.todo)
           /\ \/ task.todo \in ToSend /\ task'.todo \in ToSend
              \/ task.todo \in ToEdit /\ task'.todo \in ToEdit \cup ToRecord
              \/ task.todo \in ToRecord /\ task'.todo \in ToRecord
              \/ task.todo \in ToReissue /\ task'.todo \in ToReissue
              \/ task.todo \in ToClose /\ task'.todo \in ToClose
              \/ task.todo \in ToPass /\ task'.todo \in ToPass \cup ToClose
  <2>1. task'.user = task.user
    BY <1>5 DEF With
  <2>2. CASE task.todo \in ToPass
    BY <1>1, <2>1, <2>2 DEF MarkedAreVerified
  <2>3. CASE task.todo \notin ToPass
    BY <1>2, <1>5, <2>3, Apart
  <2> QED
    BY <2>2, <2>3
<1>6. CASE send_photo
  BY <1>2, <1>6, AfterSend, Apart DEF ToRecord
<1>7. CASE reissue
  BY <1>2, <1>7, AfterReissue, Apart DEF ToEdit
<1>8. CASE solve
  <2>1. CASE task'.todo \in ToPass
    <3>1. task.user \in verified' /\ task'.user = task.user
      BY <1>8, <2>1, AfterAttempt, Apart
    <3> QED
      BY <3>1 DEF MarkedAreVerified
  <2>2. CASE task'.todo \notin ToPass
    BY <1>2, <1>8, <2>2, AfterAttempt, Apart
  <2> QED
    BY <2>1, <2>2
<1>9. CASE task'.todo \in {Posting, <<"solve">>, Refreshing}
  BY <1>2, <1>9, Apart DEF Posting, ToSend, ToSolve, ToReissue
<1>10. CASE \E u \in Users : Db!verify_manual(u) /\ task'.user = u
  <2>1. PICK u \in Users : Db!verify_manual(u) /\ task'.user = u
    BY <1>10
  <2>2. u \in verified'
    BY <2>1, RowsAfterVerify DEF TypeOK
  <2> QED
    BY <2>1, <2>2 DEF MarkedAreVerified
<1> QED
  BY <1>3, <1>4, <1>5, <1>6, <1>7, <1>8, <1>9, <1>10, TaskMoves

\* Only the verified are cached: they are marked after they were verified, or
\* recognised because PostgreSQL holds them verified.
LEMMA CacheStep ==
  ASSUME TypeOK, TaskShape, CacheSound, MarkedAreVerified, [Next]_vars
  PROVE  CacheSound' /\ verifiedCache' \subseteq Users
<1>1. /\ verified \subseteq verified' /\ verifiedCache \subseteq Users
      /\ verifiedCache \subseteq verified /\ verified \subseteq Users
  BY Grows DEF TypeOK, Db!TypeOK, CacheSound
<1>2. CASE mark_verified
  <2>1. task.user \in Users /\ task.user \in verified
    BY <1>2, Relies DEF mark_verified, MarkedAreVerified
  <2>2. verifiedCache' \in {verifiedCache, verifiedCache \cup {task.user}}
    BY <1>2 DEF mark_verified, RedisOutcome
  <2> QED
    BY <1>1, <2>1, <2>2 DEF CacheSound
<1>3. CASE RedisLoss \/ verifiedCache' = verifiedCache
  BY <1>1, <1>3 DEF RedisLoss, CacheSound
<1>4. ASSUME NEW u \in Users, recognise(u) \/ verified_cache_expires(u)
      PROVE  CacheSound' /\ verifiedCache' \subseteq Users
  BY <1>1, <1>4 DEF recognise, verified_cache_expires, CacheSound
<1> QED
  BY <1>2, <1>3, <1>4, CacheFrame

\* Nothing names a message before it is sent.
LEMMA UnsentStep ==
  ASSUME TypeOK, TaskShape, NothingUnsent, [Next]_vars
  PROVE  NothingUnsent'
<1>1. sent \in Nat /\ (sent' = sent \/ sent' = sent + 1)
  BY Grows, PhotosMove
<1>2. SUFFICES ASSUME NEW m \in Messages, m > sent'
               PROVE  /\ meta'[m] = NoMeta /\ photo'[m] = 0
                      /\ \A u \in Users : HasRow(u)' => challenge'[u].message # m
                      /\ \A id \in ChallengeIds : <<m, id>> \notin shown'
  BY DEF NothingUnsent, HasRow, Db!HasRow
<1>3. m \in Nat /\ m > sent
  BY <1>1, <1>2, BotConstantsOK DEF Messages
<1>4. /\ meta[m] = NoMeta /\ photo[m] = 0
      /\ \A u \in Users : HasRow(u) => challenge[u].message # m
      /\ \A id \in ChallengeIds : <<m, id>> \notin shown
  BY <1>3 DEF NothingUnsent
<1>5. \A n \in 1 .. sent : n # m
  BY <1>1, <1>3
<1>6. meta'[m] = NoMeta
  <2>1. At("set_meta") => task.message # m
    BY <1>5, Relies
  <2> QED
    BY <1>4, <2>1, MetaMoves DEF TypeOK
<1>7. photo'[m] = 0 /\ \A id \in ChallengeIds : <<m, id>> \notin shown'
  <2>1. CASE send_photo
    <3>1. m # sent + 1
      BY <1>1, <1>2, <1>3, <2>1 DEF send_photo
    <3>2. /\ photo' = [photo EXCEPT ![sent + 1] = task.id]
          /\ shown' = shown \cup {<<sent + 1, task.id>>}
      BY <2>1 DEF send_photo
    <3> QED
      BY <1>4, <3>1, <3>2 DEF TypeOK
  <2>2. CASE edit_media
    <3>1. task.message # m
      BY <1>5, <2>2, Relies DEF edit_media
    <3>2. /\ photo' = [photo EXCEPT ![task.message] = task.id] \/ photo' = photo
          /\ \/ shown' = shown \cup {<<task.message, task.id>>}
             \/ shown' = shown
      BY <2>2 DEF edit_media
    <3> QED
      BY <1>4, <3>1, <3>2 DEF TypeOK
  <2>3. CASE ~send_photo /\ ~edit_media
    BY <1>4, <2>3, PhotosMove
  <2> QED
    BY <2>1, <2>2, <2>3
<1>8. ASSUME NEW u \in Users, HasRow(u)'
      PROVE  challenge'[u].message # m
  <2>0. Db!TypeOK
    BY DEF TypeOK
  <2>1. ASSUME NEW v \in Users, Db!issue_challenge(v)
        PROVE  challenge'[u].message # m
    <3>1. CASE u = v
      BY <2>0, <2>1, <3>1, RowsAfterIssue, BotSentinelsOK
    <3>2. CASE u # v
      BY <1>4, <1>8, <2>0, <2>1, <3>2, RowsAfterIssue DEF HasRow, Db!HasRow
    <3> QED
      BY <3>1, <3>2
  <2>2. ASSUME At("record_message_id"),
               Db!record_message_id(task.user, task.message)
        PROVE  challenge'[u].message # m
    <3>1. task.user \in Users /\ task.message \in Messages /\ task.message # m
      <4>1. task.user \in Users /\ task.message \in 1 .. sent
        BY <2>2, Relies
      <4>2. task.message \in Messages
        BY <4>1, BotConstantsOK DEF Messages, TypeOK, Db!TypeOK
      <4> QED
        BY <1>5, <4>1, <4>2
    <3>2. CASE u = task.user /\ HasRow(u)
      BY <2>0, <2>2, <3>1, <3>2, RowsAfterRecord
    <3>3. CASE ~(u = task.user /\ HasRow(u))
      <4>1. challenge'[u] = challenge[u]
        BY <2>0, <2>2, <3>1, <3>3, RowsAfterRecord
      <4> QED
        BY <1>4, <1>8, <4>1 DEF HasRow, Db!HasRow
    <3> QED
      BY <3>2, <3>3
  <2>3. CASE RowsOnlyGo
    BY <1>4, <1>8, <2>3 DEF RowsOnlyGo
  <2> QED
    BY <2>1, <2>2, <2>3, TablesMove
<1> QED
  BY <1>6, <1>7, <1>8

-----------------------------------------------------------------------------
(* What holds whatever fails *)

LEMMA BotInit == Init => BotInv
<1> SUFFICES ASSUME Init
             PROVE  BotInv
  OBVIOUS
<1>1. Db!TypeOK
  <2>1. Service!Init
    BY SameInit DEF Init
  <2>2. Service!TypeOK
    BY <2>1, ServiceConstants, Service!TypeInit
  <2> QED
    BY <2>2, SameTypes
<1>2. issued = 0 /\ sent = 0 /\ task = NoTask /\ 0 \in Nat
  BY DEF Init, Db!Init
<1>3. TaskShape
  BY <1>2 DEF TaskShape
<1>4. input \in [Users -> InputRows] /\ DigitsAreOwn
  <2>1. input = [u \in Users |-> NoInput] /\ NoInput \in InputRows
    BY EmptyBuffer DEF Init, OwnBuffer
  <2> QED
    BY <2>1, EmptyBuffer DEF OwnBuffer, DigitsAreOwn
<1>5. TypeOK
  <2>1. /\ task.user \in Users \cup {NoUser}
        /\ task.message \in Messages \cup {NoMessage}
        /\ task.id \in 0 .. issued
        /\ task.attempt \in UpTo(Press, SolutionLen)
        /\ \A i \in DOMAIN task.todo : task.todo[i] \in Steps
    BY <1>2, <1>3, TaskTyped, BotConstantsOK
  <2>2. /\ meta \in [Messages -> {NoMeta} \cup MetaRow]
        /\ verifiedCache \subseteq Users
        /\ photo \in [Messages -> 0 .. issued]
        /\ shown \subseteq Messages \X ChallengeIds
        /\ sent \in 0 .. issued
    BY <1>2 DEF Init
  <2> QED
    BY <1>1, <1>4, <2>1, <2>2 DEF TypeOK, InputRows
<1>6. NothingUnsent
  <2>1. /\ meta = [m \in Messages |-> NoMeta] /\ photo = [m \in Messages |-> 0]
        /\ shown = {} /\ challenge = [u \in Users |-> NoRow]
    BY DEF Init, Db!Init
  <2> QED
    BY <2>1 DEF NothingUnsent, HasRow, Db!HasRow
<1>7. CacheSound /\ MarkedAreVerified /\ AnswersAreOwn
  <2>1. verifiedCache = {} /\ task.todo = <<>>
    BY <1>2 DEF Init, NoTask
  <2>2. task.todo \notin ToPass \cup ToMark /\ Idle
    BY <2>1, Apart DEF Lists, Idle
  <2> QED
    BY <2>1, <2>2 DEF CacheSound, MarkedAreVerified, AnswersAreOwn, At
<1> QED
  BY <1>3, <1>4, <1>5, <1>6, <1>7 DEF BotInv

Bounded == issued \in Nat /\ issued <= MaxIssues /\ sent \in Nat /\ sent <= issued

TaskType ==
  /\ task.user \in Users \cup {NoUser}
  /\ task.message \in Messages \cup {NoMessage}
  /\ task.id \in 0 .. issued
  /\ task.attempt \in UpTo(Press, SolutionLen)
  /\ \A i \in DOMAIN task.todo : task.todo[i] \in Steps

LEMMA TaskTypes == TaskShape /\ Bounded => TaskType
BY TaskTyped DEF Bounded, TaskType

LEMMA BotStep == BotInv /\ [Next]_vars => BotInv'
<1> SUFFICES ASSUME BotInv, [Next]_vars
             PROVE  BotInv'
  OBVIOUS
<1>1. /\ TypeOK /\ TaskShape /\ NothingUnsent /\ CacheSound /\ MarkedAreVerified
      /\ DigitsAreOwn /\ AnswersAreOwn
  BY DEF BotInv
<1>2. TaskShape'
  BY <1>1, ShapeStep
<1>3. Db!TypeOK'
  BY <1>1, ServiceStep, TablesTyped DEF TypeOK
<1>4. /\ meta' \in [Messages -> {NoMeta} \cup MetaRow]
      /\ input' \in [Users -> InputRows]
      /\ verifiedCache' \subseteq Users
      /\ photo' \in [Messages -> 0 .. issued']
      /\ shown' \subseteq Messages \X ChallengeIds
      /\ sent' \in 0 .. issued'
  BY <1>1, MetaMoves, DigitsStep, CacheStep, PhotosMove
<1>5. TypeOK'
  <2>1. issued' \in Nat /\ issued' <= MaxIssues
    BY <1>3, BotConstantsOK DEF Db!TypeOK
  <2>2. sent' \in Nat /\ sent' <= issued'
    BY <1>4, <2>1
  <2>3. TaskShape' /\ Bounded' => TaskType'
    BY TaskTypes, PTL
  <2> QED
    BY <1>2, <1>3, <1>4, <2>1, <2>2, <2>3 DEF TypeOK, InputRows, Bounded, TaskType
<1> QED
  BY <1>1, <1>2, <1>5, UnsentStep, CacheStep, MarkedStep, DigitsStep, AnswersStep
  DEF BotInv

LEMMA BotInvariance == Spec => []BotInv
BY BotInit, BotStep, PTL DEF Spec

\* Every variable of the captcha keeps its type, whatever fails.
THEOREM TypeCorrect == Spec => []TypeOK
<1>1. BotInv => TypeOK
  BY DEF BotInv
<1> QED
  BY <1>1, BotInvariance, PTL

\* A hit in the cache of verified users is never wrong (message_gate and
\* member_update trust it), even when Redis fails or starts empty.
THEOREM CacheIsSound == Spec => []CacheSound
<1>1. BotInv => CacheSound
  BY DEF BotInv
<1> QED
  BY <1>1, BotInvariance, PTL

\* Nobody else's press is in an attempt that reaches solve.
THEOREM AttemptsAreOwn == Spec => []AnswersAreOwn
<1>1. BotInv => AnswersAreOwn
  BY DEF BotInv
<1> QED
  BY <1>1, BotInvariance, PTL

\* The handlers and the job use the service as CaptchaService says: every step
\* of the bot is one of its steps or leaves the tables alone.
THEOREM BotImplementsService == Spec => ServiceSpec
<1>1. Init => Db!Init
  BY DEF Init
<1>2. BotInv /\ [Next]_vars => [Db!Next]_Db!vars
  BY ServiceStep DEF BotInv
<1> QED
  BY <1>1, <1>2, BotInvariance, PTL DEF Spec, ServiceSpec, Db!Spec

\* Hence what was proved of the tables holds of the bot: verified users are
\* audited, outcomes are counted once, and the abstract gate is implemented.
THEOREM ServiceHolds ==
  Spec => []Db!VerifiedAreAudited /\ []Db!OutcomesAccounted /\ Db!GateSpec
<1>1. Db!Spec => Service!Spec
  BY SameInit, SameNext, PTL DEF Db!Spec, Service!Spec
<1>2. Service!VerifiedAreAudited <=> Db!VerifiedAreAudited
  BY DEF Service!VerifiedAreAudited, Db!VerifiedAreAudited
<1>3. Service!OutcomesAccounted <=> Db!OutcomesAccounted
  BY DEF Service!OutcomesAccounted, Db!OutcomesAccounted, Service!HasRow, Db!HasRow,
         Service!Cardinality, Db!Cardinality
<1>4. Service!Spec => []Service!VerifiedAreAudited
  BY ServiceConstants, Service!VerifiedStayAudited
<1>5. Service!Spec => []Service!OutcomesAccounted
  BY ServiceConstants, Service!OutcomesStayAccounted
<1>6. Service!Spec => Service!GateSpec
  BY ServiceConstants, Service!ServiceImplementsGate
<1>7. Service!Gate!Init <=> Db!Gate!Init
  BY DEF Service!Gate!Init, Db!Gate!Init, Service!Live, Db!Live,
         Service!HasRow, Db!HasRow
<1>8. [Service!Gate!Next]_(Service!Gate!vars) <=> [Db!Gate!Next]_(Db!Gate!vars)
  BY DEF Service!Gate!Next, Db!Gate!Next, Service!Gate!vars, Db!Gate!vars,
         Service!Gate!Challenge, Db!Gate!Challenge, Service!Gate!Miss, Db!Gate!Miss,
         Service!Gate!Lapse, Db!Gate!Lapse, Service!Gate!Pass, Db!Gate!Pass,
         Service!Gate!Vouch, Db!Gate!Vouch,
         Service!Live, Db!Live, Service!HasRow, Db!HasRow
<1>9. Service!GateSpec <=> Db!GateSpec
  BY <1>7, <1>8, PTL DEF Service!GateSpec, Db!GateSpec, Service!Gate!Spec, Db!Gate!Spec
<1> QED
  BY <1>1, <1>2, <1>3, <1>4, <1>5, <1>6, <1>9, BotImplementsService, PTL DEF ServiceSpec

-----------------------------------------------------------------------------
(* What a step does to rows, meta rows, photos and the handler together *)

\* Meta rows and photos go, or stay what they are.
MetaOnlyGoes ==
  \A m \in Messages : meta'[m] # NoMeta =>
    /\ meta[m] # NoMeta
    /\ meta'[m].owner = meta[m].owner
    /\ meta'[m].short = meta[m].short

PhotosOnlyGo ==
  /\ sent' = sent /\ shown' = shown
  /\ \A m \in Messages : photo'[m] = 0 \/ photo'[m] = photo[m]

\* The handler goes on with the user, the message and the challenge it has.
GoesOnWith(t) ==
  /\ task'.user = task.user /\ task'.message = task.message /\ task'.id = task.id
  /\ \/ task.todo \in ToSend /\ t \in ToSend
     \/ task.todo \in ToEdit /\ t \in ToEdit
     \/ task.todo \in ToEdit /\ t \in ToRecord /\ edit_media
     \/ task.todo \in ToRecord /\ t \in ToRecord
     \/ task.todo \in ToReissue /\ t \in ToReissue \ ToRedraw
     \/ task.todo \in ToReissue /\ t \in ToRedraw /\ clear_meta
     \/ task.todo \in ToClose /\ t \in ToClose
     \/ task.todo \in ToPass /\ t \in ToPass \cup ToClose
     \/ task.todo \in ToSolve /\ t \in ToClear
     \/ task.todo \in ToSolve /\ t \in ToClose \cup ToPass /\ ~HasRow(task.user)'

\* Nothing is named that was not named before.
Quiet ==
  /\ RowsOnlyGo /\ MetaOnlyGoes /\ PhotosOnlyGo
  /\ task' = NoTask \/ task' = task \/ GoesOnWith(task'.todo)

\* A challenge is drawn for a new photo, or for the one its handler works on.
Draws(u) ==
  /\ Db!issue_challenge(u) /\ UNCHANGED <<redis, chat>>
  /\ task'.user = u /\ task'.id = issued'
  /\ \/ /\ task'.todo \in ToSend /\ task'.message = NoMessage /\ Idle
     \/ /\ task'.todo \in ToEdit /\ task'.message = task.message /\ u = task.user
        /\ task.todo \in ToRedraw

\* A press or a command begins a handler.
Starts ==
  /\ RowsOnlyGo /\ UNCHANGED <<meta, chat>> /\ Idle
  /\ task'.todo \in ToMark \cup ToSolve \cup (ToReissue \ ToRedraw)
  /\ \/ task'.message = NoMessage
     \/ \E m \in Messages : /\ task'.message = m /\ meta[m] # NoMeta
                            /\ task'.user = meta[m].owner

\* A photo is written down,
Records ==
  /\ Db!record_message_id(task.user, task.message) /\ UNCHANGED <<redis, chat>>
  /\ task.user \in Users /\ task.message \in Messages
  /\ task.todo \in ToRecord /\ task' = With(task'.todo) /\ task'.todo \in ToRecord

\* sent,
Sends ==
  /\ UNCHANGED <<tables, redis>> /\ sent' = sent + 1 /\ sent + 1 \in Messages
  /\ photo' = [photo EXCEPT ![sent + 1] = task.id]
  /\ shown' = shown \cup {<<sent + 1, task.id>>}
  /\ task.todo \in ToSend /\ task.message = NoMessage
  /\ task'.user = task.user /\ task'.message = sent + 1 /\ task'.id = task.id
  /\ task'.todo \in ToRecord

\* or changed,
Shows ==
  /\ UNCHANGED <<tables, redis, sent>> /\ task.message \in Messages
  /\ photo' = [photo EXCEPT ![task.message] = task.id]
  /\ shown' = shown \cup {<<task.message, task.id>>}
  /\ task.todo \in ToEdit /\ task' = With(task'.todo) /\ task'.todo \in ToRecord

\* and its keyboard gets a meta row.
Enables ==
  /\ UNCHANGED <<tables, chat>> /\ task.message \in Messages
  /\ meta' = [meta EXCEPT ![task.message] =
       [owner |-> task.user, short |-> short_id[task.id], ttl |-> Lifetime]]
  /\ task.todo \in ToRecord /\ task' = NoTask

\* To draw a challenge for a photo that stands is part of a refresh.
LEMMA RedrawRefreshes == \A t \in ToRedraw : t \in ToReissue
BY DEF ToRedraw, ToReissue

\* The last step before a challenge is drawn clears the meta row.
LEMMA Redrawing ==
  ASSUME TaskShape, Proceed(task), task'.todo \in ToRedraw, task' # task,
         \/ finish_issue \/ record_message_id \/ set_meta \/ clear_input
         \/ clear_meta \/ mark_verified \/ delete_photo \/ edit_media
  PROVE  clear_meta
<1> USE DEF With, NoTask, ToRedraw
<1>1. CASE finish_issue
  BY <1>1, Advance DEF finish_issue
<1>2. CASE record_message_id
  BY <1>2, Advance DEF record_message_id
<1>3. CASE set_meta
  BY <1>3, Advance DEF set_meta
<1>4. CASE clear_input
  BY <1>4, Advance DEF clear_input
<1>5. CASE mark_verified
  BY <1>5, Advance DEF mark_verified
<1>6. CASE delete_photo
  BY <1>6, Advance DEF delete_photo
<1>7. CASE edit_media
  BY <1>7, Advance DEF edit_media
<1> QED
  BY <1>1, <1>2, <1>3, <1>4, <1>5, <1>6, <1>7

\* The last step before a changed photo is written down changes it.
LEMMA Editing ==
  ASSUME TaskShape, Proceed(task), task.todo \in ToEdit, task'.todo \in ToRecord,
         \/ finish_issue \/ record_message_id \/ set_meta \/ clear_input
         \/ clear_meta \/ mark_verified \/ delete_photo \/ edit_media
  PROVE  edit_media
<1> USE DEF With, NoTask, ToEdit, ToRecord, Refreshing
<1>1. CASE finish_issue
  BY <1>1, Advance DEF finish_issue
<1>2. CASE record_message_id
  BY <1>2, Advance DEF record_message_id
<1>3. CASE set_meta
  BY <1>3, Advance DEF set_meta
<1>4. CASE clear_input
  BY <1>4, Advance DEF clear_input
<1>5. CASE clear_meta
  BY <1>5, Advance DEF clear_meta
<1>6. CASE mark_verified
  BY <1>6, Advance DEF mark_verified
<1>7. CASE delete_photo
  BY <1>7, Advance DEF delete_photo
<1> QED
  BY <1>1, <1>2, <1>3, <1>4, <1>5, <1>6, <1>7

\* A handler that goes on with its list, and one that got its answer.
LEMMA SameHandler ==
  ASSUME TypeOK, TaskShape, Proceed(task), task' = With(task'.todo), task' # task,
         \/ finish_issue \/ record_message_id \/ set_meta \/ clear_input
         \/ clear_meta \/ mark_verified \/ delete_photo \/ edit_media,
         \/ task.todo \in ToSend /\ task'.todo \in ToSend
         \/ task.todo \in ToEdit /\ task'.todo \in ToEdit \cup ToRecord
         \/ task.todo \in ToRecord /\ task'.todo \in ToRecord
         \/ task.todo \in ToReissue /\ task'.todo \in ToReissue
         \/ task.todo \in ToClose /\ task'.todo \in ToClose
         \/ task.todo \in ToPass /\ task'.todo \in ToPass \cup ToClose
  PROVE  GoesOnWith(task'.todo)
<1>1. task'.user = task.user /\ task'.message = task.message /\ task'.id = task.id
  BY DEF With
<1>2. CASE task.todo \in ToReissue /\ task'.todo \in ToReissue
  BY <1>1, <1>2, Redrawing DEF GoesOnWith
<1>3. CASE task.todo \in ToEdit /\ task'.todo \in ToEdit \cup ToRecord
  BY <1>1, <1>3, Editing DEF GoesOnWith
<1> QED
  BY <1>1, <1>2, <1>3 DEF GoesOnWith

LEMMA AnsweredHandler ==
  ASSUME TypeOK, TaskShape, solve
  PROVE  GoesOnWith(task'.todo)
<1>1. task.todo \in ToSolve
  BY Relies DEF solve, ToSolve
<1>2. task.id = 0
  BY <1>1, Shapes
<1> QED
  BY <1>1, <1>2, AfterAttempt DEF GoesOnWith

\* A step that draws a challenge.
LEMMA Drawing ==
  ASSUME TypeOK, TaskShape, NEW u \in Users,
         Db!issue_challenge(u), UNCHANGED <<redis, chat>>,
         \/ reissue /\ u = task.user
         \/ Idle /\ Begin(u, NoMessage, issued', <<>>, Posting)
  PROVE  Draws(u)
<1>1. CASE reissue /\ u = task.user
  BY <1>1, AfterReissue, Relies DEF Draws, ToEdit, ToRedraw, reissue
<1>2. CASE Idle /\ Begin(u, NoMessage, issued', <<>>, Posting)
  BY <1>2, Begins DEF Draws, ToSend, Posting
<1> QED
  BY <1>1, <1>2

LEMMA Recording ==
  ASSUME TypeOK, TaskShape, At("record_message_id"), Proceed(task),
         Db!record_message_id(task.user, task.message), UNCHANGED <<redis, chat>>
  PROVE  Records
<1>1. task.user \in Users /\ task.message \in 1 .. sent
  BY Relies
<1>2. task.message \in Messages
  BY <1>1, BotConstantsOK DEF Messages, TypeOK, Db!TypeOK
<1>3. /\ task.todo = <<"record_message_id", "set_meta">>
      /\ task' = With(<<"set_meta">>)
  BY Advance
<1> QED
  BY <1>1, <1>2, <1>3 DEF Records, With, ToRecord

LEMMA Sending ==
  ASSUME TypeOK, TaskShape, send_photo, sent + 1 \in Messages
  PROVE  Sends
<1>1. /\ task.todo = <<"send_photo", "record_message_id", "set_meta">>
  BY Relies DEF send_photo
<1>2. task.todo \in ToSend
  BY <1>1 DEF ToSend
<1> QED
  BY <1>2, Shapes, AfterSend DEF Sends, send_photo, ToRecord

LEMMA Showing ==
  ASSUME TypeOK, TaskShape, edit_media, task.message \in Messages,
         photo' = [photo EXCEPT ![task.message] = task.id],
         shown' = shown \cup {<<task.message, task.id>>}
  PROVE  Shows
<1>1. /\ task.todo = <<"edit_media", "record_message_id", "set_meta">>
      /\ task' = With(<<"record_message_id", "set_meta">>)
  BY Advance DEF edit_media
<1> QED
  BY <1>1 DEF Shows, edit_media, With, ToEdit, ToRecord

LEMMA Enabling ==
  ASSUME TypeOK, TaskShape, At("set_meta"), Proceed(task), task.message \in Messages,
         UNCHANGED <<tables, chat>>,
         meta' = [meta EXCEPT ![task.message] =
           [owner |-> task.user, short |-> short_id[task.id], ttl |-> Lifetime]]
  PROVE  Enables
<1>1. task.todo = <<"set_meta">> /\ task' = NoTask
  BY Advance
<1> QED
  BY <1>1 DEF Enables, ToRecord

\* A step is quiet, or one of the others.
LEMMA Moves ==
  ASSUME TypeOK, TaskShape, NothingUnsent, DigitsAreOwn, [Next]_vars
  PROVE  \/ Quiet \/ Starts \/ Records \/ Sends \/ Shows \/ Enables
         \/ \E u \in Users : Draws(u)
<1>1. CASE \/ \E u \in Users :
                /\ Db!issue_challenge(u) /\ UNCHANGED <<redis, chat>>
                /\ \/ reissue /\ u = task.user
                   \/ Idle /\ Begin(u, NoMessage, issued', <<>>, Posting)
           \/ /\ At("record_message_id") /\ Proceed(task)
              /\ Db!record_message_id(task.user, task.message)
              /\ UNCHANGED <<redis, chat>>
  BY <1>1, Drawing, Recording
<1>2. CASE RowsOnlyGo
  <2>1. CASE send_photo
    <3>1. sent + 1 \in Messages
      BY <2>1, Relies, Grows, BotConstantsOK DEF send_photo, Messages
    <3> QED
      BY <2>1, <3>1, Sending
  <2>2. CASE /\ edit_media /\ task.message \in Messages
             /\ photo' = [photo EXCEPT ![task.message] = task.id]
             /\ shown' = shown \cup {<<task.message, task.id>>}
    BY <2>2, Showing
  <2>3. CASE PhotosOnlyGo
    <3>1. CASE /\ At("set_meta") /\ Proceed(task)
               /\ UNCHANGED <<tables, input, verifiedCache, chat>>
               /\ task.message \in Messages
               /\ meta' = [meta EXCEPT ![task.message] =
                    [owner |-> task.user, short |-> short_id[task.id],
                     ttl |-> Lifetime]]
      BY <3>1, Enabling
    <3>2. CASE MetaOnlyGoes
      <4>1. CASE task' = NoTask \/ task' = task \/ GoesOnWith(task'.todo)
        BY <1>2, <2>3, <3>2, <4>1 DEF Quiet
      <4>2. CASE \/ reissue
                 \/ \E u \in Users :
                      /\ Idle /\ Db!issue_challenge(u)
                      /\ UNCHANGED <<redis, chat>>
                      /\ task'.user = u /\ task'.message = NoMessage
                      /\ task'.id = issued' /\ task'.todo = Posting
        BY <4>2, Drawing, Relies DEF Draws, ToSend, Posting, reissue
      <4>3. CASE \E u \in Users :
                   /\ Idle /\ Db!verify_manual(u) /\ UNCHANGED <<redis, chat>>
                   /\ task'.user = u /\ task'.message = NoMessage
                   /\ task'.todo = <<"mark_verified">>
        BY <1>2, <4>3 DEF Starts, ToMark, redis
      <4>4. CASE \E m \in Messages :
                   /\ Idle
                   /\ meta[m] # NoMeta /\ task'.user = meta[m].owner
                   /\ task'.message = m
                   /\ task'.todo \in {<<"solve">>, Refreshing}
                   /\ UNCHANGED <<tables, meta, verifiedCache, chat>>
        <5>1. task'.todo \in ToSolve \cup (ToReissue \ ToRedraw)
          BY <4>4 DEF ToSolve, ToReissue, ToRedraw, Refreshing
        <5> QED
          BY <1>2, <4>4, <5>1 DEF Starts
      <4> QED
        BY <2>1, <4>1, <4>2, <4>3, <4>4, TaskMoves, SameHandler, AnsweredHandler
    <3> QED
      BY <3>1, <3>2, MetaMoves DEF MetaOnlyGoes
  <2> QED
    BY <2>1, <2>2, <2>3, PhotosMove DEF PhotosOnlyGo
<1> QED
  BY <1>1, <1>2, TablesMove

-----------------------------------------------------------------------------
(* A message belongs to one user, a challenge to one row *)

LEMMA ChatFacts ==
  ASSUME TypeOK
  PROVE  /\ Db!TypeOK /\ issued \in Nat /\ sent \in Nat /\ 0 \notin ChallengeIds
         /\ NoMessage \notin Messages
         /\ \A m \in Messages : m \in Nat /\ photo[m] \in 0 .. issued
         /\ \A u \in Users : HasRow(u) => challenge[u].id \in ChallengeIds
         /\ \A id \in ChallengeIds : id # 0
<1>1. Db!TypeOK /\ issued \in Nat /\ sent \in Nat
  BY BotConstantsOK DEF TypeOK, Db!TypeOK
<1>2. \A m \in Messages : m \in Nat /\ photo[m] \in 0 .. issued
  BY BotConstantsOK DEF TypeOK, Messages
<1>3. \A u \in Users : HasRow(u) => challenge[u].id \in ChallengeIds
  BY <1>1, RowOfUser
<1>4. 0 \notin ChallengeIds
  BY BotConstantsOK DEF ChallengeIds
<1> QED
  BY <1>1, <1>2, <1>3, <1>4, BotSentinelsOK

\* The rows when a challenge is drawn, and when a photo is written down.
LEMMA DrawnRows ==
  ASSUME TypeOK, NEW u \in Users, Draws(u)
  PROVE  /\ issued' = issued + 1 /\ issued \in Nat
         /\ HasRow(u)' /\ challenge'[u].id = issued + 1
         /\ challenge'[u].message = NoMessage
         /\ \A v \in Users : v # u => /\ HasRow(v)' <=> HasRow(v)
                                      /\ challenge'[v] = challenge[v]
<1>1. Db!issue_challenge(u) /\ Db!TypeOK
  BY DEF Draws, TypeOK
<1> QED
  BY <1>1, RowsAfterIssue DEF HasRow, Db!HasRow

LEMMA RecordedRows ==
  ASSUME TypeOK, Records
  PROVE  /\ issued' = issued
         /\ \A v \in Users : /\ HasRow(v)' <=> HasRow(v)
                             /\ HasRow(v) => challenge'[v].id = challenge[v].id
                             /\ HasRow(v) => challenge'[v].ttl = challenge[v].ttl
                             /\ v # task.user => challenge'[v] = challenge[v]
         /\ HasRow(task.user) => challenge'[task.user].message = task.message
<1>1. /\ Db!record_message_id(task.user, task.message) /\ Db!TypeOK
      /\ task.user \in Users /\ task.message \in Messages
  BY DEF Records, TypeOK
<1> QED
  BY <1>1, RowsAfterRecord DEF HasRow, Db!HasRow

\* When a step leaves the tables alone, it leaves the rows alone.
LEMMA SameTables ==
  ASSUME UNCHANGED tables
  PROVE  /\ challenge' = challenge /\ issued' = issued
         /\ \A v \in Users : HasRow(v)' <=> HasRow(v)
BY DEF tables, HasRow, Db!HasRow

\* A message comes to belong to a user only when it is sent to that user.
LEMMA ClaimsCome ==
  ASSUME TypeOK, TaskShape, NothingUnsent, DigitsAreOwn, ChatInv, [Next]_vars,
         NEW u \in Users, NEW m \in Messages, Claims(u, m)'
  PROVE  Claims(u, m) \/ (task.todo \in ToSend /\ u = task.user /\ m = sent + 1)
<1> USE DEF Claims
<1>0. /\ \/ HasRow(u)' /\ challenge'[u].message = m
         \/ meta'[m] # NoMeta /\ meta'[m].owner = u
         \/ task'.user = u /\ task'.message = m
         \/ HasRow(u)' /\ photo'[m] = challenge'[u].id
      /\ NoMessage \notin Messages /\ NoTask.message = NoMessage
      /\ photo[m] \in 0 .. issued /\ issued \in Nat /\ photo \in [Messages -> 0 .. issued]
      /\ HasRow(u) => challenge[u].id # 0
      /\ meta \in [Messages -> {NoMeta} \cup MetaRow]
  BY ChatFacts DEF NoTask, TypeOK
<1>1. CASE \E v \in Users : Draws(v)
  <2>1. PICK v \in Users : Draws(v)
    BY <1>1
  <2>2. meta' = meta /\ photo' = photo
    BY <2>1 DEF Draws, redis, chat
  <2>3. task'.message = m => task'.user = task.user /\ task'.message = task.message
    BY <1>0, <2>1 DEF Draws
  <2>4. photo[m] # issued + 1
    BY <1>0
  <2>5. /\ HasRow(v)' /\ challenge'[v].id = issued + 1
        /\ challenge'[v].message = NoMessage
        /\ \A w \in Users : w # v => /\ HasRow(w)' <=> HasRow(w)
                                     /\ challenge'[w] = challenge[w]
    BY <2>1, DrawnRows
  <2>6. CASE u = v
    BY <1>0, <2>2, <2>3, <2>4, <2>5, <2>6
  <2>7. CASE u # v
    BY <1>0, <2>2, <2>3, <2>5, <2>7
  <2> QED
    BY <2>6, <2>7
<1>2. CASE Records
  <2>1. /\ meta' = meta /\ photo' = photo
        /\ task'.user = task.user /\ task'.message = task.message
    BY <1>2 DEF Records, redis, chat, With
  <2> QED
    BY <1>0, <1>2, <2>1, RecordedRows
<1>3. CASE Sends
  <2>1. /\ meta' = meta /\ photo' = [photo EXCEPT ![sent + 1] = task.id]
        /\ task'.user = task.user /\ task'.message = sent + 1
        /\ task.todo \in ToSend /\ UNCHANGED tables
    BY <1>3 DEF Sends, redis
  <2>2. HasRow(u) => (u = task.user <=> challenge[u].id = task.id)
    BY <2>1 DEF ChatInv, TaskIsCurrent
  <2> QED
    BY <1>0, <2>1, <2>2, SameTables
<1>4. CASE Shows
  <2>1. /\ meta' = meta /\ photo' = [photo EXCEPT ![task.message] = task.id]
        /\ task'.user = task.user /\ task'.message = task.message
        /\ task.todo \in ToEdit /\ UNCHANGED tables
    BY <1>4 DEF Shows, redis, With
  <2>2. HasRow(u) => (u = task.user <=> challenge[u].id = task.id)
    BY <2>1 DEF ChatInv, TaskIsCurrent
  <2> QED
    BY <1>0, <2>1, <2>2, SameTables
<1>5. CASE Enables
  <2>1. /\ photo' = photo /\ task' = NoTask /\ UNCHANGED tables
        /\ meta' = [meta EXCEPT ![task.message] =
             [owner |-> task.user, short |-> short_id[task.id], ttl |-> Lifetime]]
    BY <1>5 DEF Enables, chat
  <2> QED
    BY <1>0, <2>1, SameTables
<1>6. CASE Starts
  <2>1. /\ meta' = meta /\ photo' = photo
        /\ task'.message = m => meta[m] # NoMeta /\ task'.user = meta[m].owner
    BY <1>0, <1>6 DEF Starts, chat
  <2>2. HasRow(u)' => /\ HasRow(u) /\ challenge'[u].id = challenge[u].id
                      /\ challenge'[u].message = challenge[u].message
    BY <1>6 DEF Starts, RowsOnlyGo
  <2> QED
    BY <1>0, <2>1, <2>2
<1>7. CASE Quiet
  <2>1. /\ meta'[m] # NoMeta => meta[m] # NoMeta /\ meta'[m].owner = meta[m].owner
        /\ photo'[m] = 0 \/ photo'[m] = photo[m]
        /\ task'.message = m => task'.message = task.message /\ task'.user = task.user
    BY <1>0, <1>7 DEF Quiet, MetaOnlyGoes, PhotosOnlyGo, GoesOnWith
  <2>2. HasRow(u)' => /\ HasRow(u) /\ challenge'[u].id = challenge[u].id
                      /\ challenge'[u].message = challenge[u].message
    BY <1>7 DEF Quiet, RowsOnlyGo
  <2> QED
    BY <1>0, <2>1, <2>2
<1> QED
  BY <1>1, <1>2, <1>3, <1>4, <1>5, <1>6, <1>7, Moves

LEMMA OwnerStep ==
  ASSUME TypeOK, TaskShape, NothingUnsent, DigitsAreOwn, ChatInv, [Next]_vars
  PROVE  OneOwner'
<1>1. ASSUME NEW u \in Users, NEW v \in Users, NEW m \in Messages,
             Claims(u, m)', Claims(v, m)'
      PROVE  u = v
  <2>1. CASE Claims(u, m) /\ Claims(v, m)
    BY <2>1 DEF ChatInv, OneOwner
  <2>2. ASSUME NEW w \in Users, Claims(w, m), task.todo \in ToSend, m = sent + 1
        PROVE  FALSE
    <3>1. m > sent
      BY <2>2, ChatFacts
    <3>2. /\ meta[m] = NoMeta /\ photo[m] = 0
          /\ HasRow(w) => challenge[w].message # m
      BY <3>1 DEF NothingUnsent
    <3>3. task.message # m
      BY <2>2, Shapes, ChatFacts
    <3>4. HasRow(w) => challenge[w].id # 0
      BY ChatFacts
    <3> QED
      BY <2>2, <3>2, <3>3, <3>4 DEF Claims
  <2> QED
    BY <1>1, <2>1, <2>2, ClaimsCome
<1> QED
  BY <1>1 DEF OneOwner

LEMMA IdsStep ==
  ASSUME TypeOK, TaskShape, NothingUnsent, DigitsAreOwn, ChatInv, [Next]_vars
  PROVE  IdsDiffer'
<1>1. \A v \in Users : HasRow(v) =>
        /\ challenge[v].id <= issued /\ challenge[v].id \in Nat
        /\ \A w \in Users : HasRow(w) /\ challenge[v].id = challenge[w].id => v = w
  BY ChatFacts, BotConstantsOK DEF ChatInv, IdsDiffer, ChallengeIds
<1>2. SUFFICES ASSUME NEW u \in Users, HasRow(u)'
               PROVE  /\ challenge'[u].id <= issued'
                      /\ \A v \in Users :
                           HasRow(v)' /\ challenge'[u].id = challenge'[v].id => u = v
  BY DEF IdsDiffer
<1>3. ASSUME issued' = issued,
             \A v \in Users : HasRow(v)' =>
               HasRow(v) /\ challenge'[v].id = challenge[v].id
      PROVE  /\ challenge'[u].id <= issued'
             /\ \A v \in Users :
                  HasRow(v)' /\ challenge'[u].id = challenge'[v].id => u = v
  BY <1>1, <1>2, <1>3
<1>4. ASSUME NEW w \in Users, Draws(w)
      PROVE  /\ challenge'[u].id <= issued'
             /\ \A v \in Users :
                  HasRow(v)' /\ challenge'[u].id = challenge'[v].id => u = v
  <2>1. /\ issued' = issued + 1 /\ issued \in Nat
        /\ challenge'[w].id = issued + 1
        /\ \A v \in Users : v # w => /\ HasRow(v)' <=> HasRow(v)
                                     /\ challenge'[v] = challenge[v]
    BY <1>4, DrawnRows
  <2>2. \A v \in Users : HasRow(v) => challenge[v].id # issued + 1
    BY <1>1, <2>1
  <2>3. CASE u = w
    BY <1>2, <2>1, <2>2, <2>3
  <2>4. CASE u # w
    <3>1. HasRow(u) /\ challenge'[u] = challenge[u]
      BY <1>2, <2>1, <2>4
    <3>2. challenge[u].id <= issued /\ challenge[u].id \in Nat
      BY <1>1, <3>1
    <3>3. challenge'[u].id <= issued' /\ challenge'[u].id # issued + 1
      BY <2>1, <2>2, <3>1, <3>2
    <3>4. \A v \in Users : HasRow(v)' /\ challenge'[u].id = challenge'[v].id => u = v
      BY <1>1, <2>1, <3>1, <3>3
    <3> QED
      BY <3>3, <3>4
  <2> QED
    BY <2>3, <2>4
<1>5. CASE Records
  BY <1>3, <1>5, RecordedRows
<1>6. CASE Sends \/ Shows \/ Enables
  <2>1. UNCHANGED tables
    BY <1>6 DEF Sends, Shows, Enables
  <2> QED
    BY <1>3, <2>1, SameTables
<1>7. CASE Starts \/ Quiet
  <2>1. RowsOnlyGo
    BY <1>7 DEF Starts, Quiet
  <2> QED
    BY <1>3, <2>1 DEF RowsOnlyGo
<1> QED
  BY <1>4, <1>5, <1>6, <1>7, Moves

\* A handler that knows its challenge knows it since it was drawn.
LEMMA CurrentStep ==
  ASSUME TypeOK, TaskShape, NothingUnsent, DigitsAreOwn, ChatInv, [Next]_vars
  PROVE  TaskIsCurrent'
<1> DEFINE Knows(t) == t \in ToSend \cup ToEdit \cup ToRecord
<1>1. SUFFICES ASSUME Knows(task'.todo), NEW u \in Users, HasRow(u)'
               PROVE  u = task'.user <=> challenge'[u].id = task'.id
  BY DEF TaskIsCurrent
<1>2. Knows(task.todo) /\ HasRow(u) => (u = task.user <=> challenge[u].id = task.id)
  BY DEF ChatInv, TaskIsCurrent
<1>3. /\ ~Knows(<<>>)
      /\ \A t \in ToMark \cup ToSolve \cup ToReissue \cup ToRedraw \cup ToClear
                    \cup ToClose \cup ToPass : ~Knows(t)
  BY Apart, RedrawRefreshes DEF Lists
<1>4. CASE \E w \in Users : Draws(w)
  <2>1. PICK w \in Users : Draws(w)
    BY <1>4
  <2>2. /\ issued' = issued + 1 /\ issued \in Nat /\ challenge'[w].id = issued + 1
        /\ \A v \in Users : v # w => /\ HasRow(v)' <=> HasRow(v)
                                     /\ challenge'[v] = challenge[v]
    BY <2>1, DrawnRows
  <2>3. task'.user = w /\ task'.id = issued + 1
    BY <2>1, <2>2 DEF Draws
  <2>4. u # w => challenge'[u].id # issued + 1
    <3>1. HasRow(u) => challenge[u].id <= issued /\ challenge[u].id \in Nat
      BY ChatFacts, BotConstantsOK DEF ChatInv, IdsDiffer, ChallengeIds
    <3> QED
      BY <1>1, <2>2, <3>1
  <2> QED
    BY <2>2, <2>3, <2>4
<1>5. CASE Records
  <2>1. Knows(task.todo) /\ task'.user = task.user /\ task'.id = task.id
    BY <1>5 DEF Records, With
  <2> QED
    BY <1>1, <1>2, <1>5, <2>1, RecordedRows
<1>6. CASE Sends \/ Shows
  <2>1. Knows(task.todo) /\ task'.user = task.user /\ task'.id = task.id
    BY <1>6 DEF Sends, Shows, With
  <2>2. UNCHANGED tables
    BY <1>6 DEF Sends, Shows
  <2> QED
    BY <1>1, <1>2, <2>1, <2>2, SameTables
<1>7. CASE Enables
  BY <1>1, <1>3, <1>7 DEF Enables, NoTask
<1>8. CASE Starts
  BY <1>1, <1>3, <1>8 DEF Starts
<1>9. CASE Quiet
  <2>1. HasRow(u) /\ challenge'[u].id = challenge[u].id
    BY <1>1, <1>9 DEF Quiet, RowsOnlyGo
  <2>2. CASE task' = NoTask
    BY <1>1, <1>3, <2>2 DEF NoTask
  <2>3. CASE task' = task
    BY <1>1, <1>2, <2>1, <2>3
  <2>4. CASE GoesOnWith(task'.todo)
    <3>1. task'.user = task.user /\ task'.id = task.id /\ Knows(task.todo)
      BY <1>1, <1>3, <2>4 DEF GoesOnWith
    <3> QED
      BY <1>2, <2>1, <3>1
  <2> QED
    BY <1>9, <2>2, <2>3, <2>4 DEF Quiet
<1> QED
  BY <1>4, <1>5, <1>6, <1>7, <1>8, <1>9, Moves

\* A challenge that is not yet shown is on no photo, and its row names none.
LEMMA NewStep ==
  ASSUME TypeOK, TaskShape, NothingUnsent, DigitsAreOwn, ChatInv, [Next]_vars
  PROVE  TaskIsNew'
<1> DEFINE New(t) == t \in ToSend \cup ToEdit
<1>1. SUFFICES ASSUME New(task'.todo)
               PROVE  /\ \A m \in Messages : photo'[m] # task'.id
                      /\ \A u \in Users : u = task'.user /\ HasRow(u)'
                           => challenge'[u].message = NoMessage
  <2>1. New(task'.todo) => task'.user \in Users
    <3>1. TaskShape'
      BY ShapeStep
    <3>2. New(task'.todo) => task' # NoTask
      BY Apart DEF NoTask, Lists
    <3> QED
      BY <3>1, <3>2 DEF TaskShape
  <2> QED
    BY <2>1 DEF TaskIsNew, HasRow, Db!HasRow
<1>2. New(task.todo) =>
        /\ \A m \in Messages : photo[m] # task.id
        /\ \A u \in Users : u = task.user /\ HasRow(u)
             => challenge[u].message = NoMessage
        /\ task.id # 0
  BY Shapes, ChatFacts DEF ChatInv, TaskIsNew
<1>3. /\ ~New(<<>>)
      /\ \A t \in ToMark \cup ToSolve \cup ToReissue \cup ToRedraw \cup ToClear
                    \cup ToClose \cup ToPass \cup ToRecord : ~New(t)
  BY Apart, RedrawRefreshes DEF Lists
<1>4. CASE \E w \in Users : Draws(w)
  <2>1. PICK w \in Users : Draws(w)
    BY <1>4
  <2>2. /\ issued' = issued + 1 /\ issued \in Nat
        /\ challenge'[w].message = NoMessage
    BY <2>1, DrawnRows
  <2>3. task'.user = w /\ task'.id = issued + 1 /\ photo' = photo
    BY <2>1, <2>2 DEF Draws, chat
  <2>4. \A m \in Messages : photo[m] # issued + 1
    BY ChatFacts
  <2> QED
    BY <2>2, <2>3, <2>4
<1>5. CASE Records \/ Sends \/ Shows
  BY <1>1, <1>3, <1>5 DEF Records, Sends, Shows
<1>7. CASE Enables
  BY <1>1, <1>3, <1>7 DEF Enables, NoTask
<1>8. CASE Starts
  BY <1>1, <1>3, <1>8 DEF Starts
<1>9. CASE Quiet
  <2>1. \A u \in Users : HasRow(u)' =>
          HasRow(u) /\ challenge'[u].message = challenge[u].message
    BY <1>9 DEF Quiet, RowsOnlyGo
  <2>2. CASE task' = NoTask
    BY <1>1, <1>3, <2>2 DEF NoTask
  <2>3. CASE task' = task \/ GoesOnWith(task'.todo)
    <3>1. task'.user = task.user /\ task'.id = task.id /\ New(task.todo)
      <4>1. CASE task' = task
        BY <1>1, <4>1
      <4>2. CASE GoesOnWith(task'.todo)
        BY <1>1, <1>3, <4>2 DEF GoesOnWith
      <4> QED
        BY <2>3, <4>1, <4>2
    <3>2. \A m \in Messages : photo'[m] = 0 \/ photo'[m] = photo[m]
      BY <1>9 DEF Quiet, PhotosOnlyGo
    <3> QED
      BY <1>2, <2>1, <3>1, <3>2
  <2> QED
    BY <1>9, <2>2, <2>3 DEF Quiet
<1> QED
  BY <1>4, <1>5, <1>7, <1>8, <1>9, Moves

\* A handler that closes a captcha was told that the row is gone.
LEMMA EndedStep ==
  ASSUME TypeOK, TaskShape, NothingUnsent, DigitsAreOwn, ChatInv, [Next]_vars
  PROVE  EndedIsGone'
<1> DEFINE Ends(t) == t \in ToClose \cup ToPass
<1>1. SUFFICES ASSUME Ends(task'.todo)
               PROVE  ~HasRow(task.user)' /\ task'.user = task.user
  BY DEF EndedIsGone, HasRow, Db!HasRow
<1>2. Ends(task.todo) => ~HasRow(task.user) /\ task.user \in Users
  <2>1. Ends(task.todo) => ~Idle
    BY Apart DEF Lists, Idle
  <2> QED
    BY <2>1, BusyTask DEF ChatInv, EndedIsGone
<1>3. /\ ~Ends(<<>>)
      /\ \A t \in ToMark \cup ToSolve \cup ToReissue \cup ToRedraw \cup ToClear \cup ToSend
                    \cup ToEdit \cup ToRecord : ~Ends(t)
  BY Apart, RedrawRefreshes DEF Lists
<1>4. CASE \E w \in Users : Draws(w)
  BY <1>1, <1>3, <1>4 DEF Draws
<1>5. CASE Records \/ Sends \/ Shows
  BY <1>1, <1>3, <1>5 DEF Records, Sends, Shows
<1>7. CASE Enables
  BY <1>1, <1>3, <1>7 DEF Enables, NoTask
<1>8. CASE Starts
  BY <1>1, <1>3, <1>8 DEF Starts
<1>9. CASE Quiet
  <2>1. \A u \in Users : HasRow(u)' => HasRow(u)
    BY <1>9 DEF Quiet, RowsOnlyGo
  <2>2. CASE task' = NoTask
    BY <1>1, <1>3, <2>2 DEF NoTask
  <2>3. CASE task' = task
    BY <1>1, <1>2, <2>1, <2>3 DEF HasRow, Db!HasRow
  <2>4. CASE GoesOnWith(task'.todo)
    <3>1. /\ task'.user = task.user
          /\ Ends(task.todo) \/ ~HasRow(task.user)'
      BY <1>1, <1>3, <2>4 DEF GoesOnWith
    <3> QED
      BY <1>2, <2>1, <3>1 DEF HasRow, Db!HasRow
  <2> QED
    BY <1>9, <2>2, <2>3, <2>4 DEF Quiet
<1> QED
  BY <1>4, <1>5, <1>7, <1>8, <1>9, Moves

LEMMA ChatInit == Init => ChatInv
<1> SUFFICES ASSUME Init
             PROVE  ChatInv
  OBVIOUS
<1>1. /\ \A u \in Users : ~HasRow(u)
      /\ meta = [m \in Messages |-> NoMeta]
      /\ task.message = NoMessage /\ task.todo = <<>>
  BY DEF Init, Db!Init, HasRow, Db!HasRow, NoTask
<1>2. \A u \in Users, m \in Messages : ~Claims(u, m)
  BY <1>1, BotSentinelsOK DEF Claims
<1>3. <<>> \notin ToSend \cup ToEdit \cup ToRecord \cup ToClose \cup ToPass
  BY Apart DEF Lists
<1> QED
  BY <1>1, <1>2, <1>3
  DEF ChatInv, OneOwner, IdsDiffer, TaskIsCurrent, TaskIsNew, EndedIsGone

LEMMA ChatStep == BotInv /\ ChatInv /\ [Next]_vars => ChatInv'
<1> SUFFICES ASSUME BotInv, ChatInv, [Next]_vars
             PROVE  ChatInv'
  OBVIOUS
<1>1. TypeOK /\ TaskShape /\ NothingUnsent /\ DigitsAreOwn
  BY DEF BotInv
<1>2. OneOwner' /\ IdsDiffer' /\ TaskIsCurrent' /\ TaskIsNew' /\ EndedIsGone'
  BY <1>1, OwnerStep, IdsStep, CurrentStep, NewStep, EndedStep
<1> QED
  BY <1>2 DEF ChatInv

LEMMA ChatInvariance == Spec => [](BotInv /\ ChatInv)
BY BotInit, BotStep, ChatInit, ChatStep, PTL DEF Spec

\* A message belongs to one user's captcha, a challenge to one row, and a
\* handler works on its user's challenge, across rejoins, refreshes, sweeps,
\* crashes and every failure.
THEOREM CaptchasStayApart == Spec => []ChatInv
BY ChatInvariance, PTL

-----------------------------------------------------------------------------
(* A recorded photo shows the row's challenge *)

\* The handler that waits to write a photo down has just sent or changed it.
LEMMA ShownStep ==
  ASSUME "edit" \notin Faults, TypeOK, TaskShape, NothingUnsent, DigitsAreOwn,
         TaskIsShown, [Next]_vars
  PROVE  TaskIsShown'
<1>1. SUFFICES ASSUME task'.todo \in ToRecord
               PROVE  photo'[task'.message] \in {0, task'.id}
  BY DEF TaskIsShown
<1>2. /\ <<>> \notin ToRecord
      /\ \A t \in ToMark \cup ToSolve \cup ToReissue \cup ToRedraw \cup ToClear
                    \cup ToClose \cup ToPass \cup ToSend \cup ToEdit : t \notin ToRecord
  BY Apart, RedrawRefreshes DEF Lists
<1>3. /\ task.todo \in ToRecord => photo[task.message] \in {0, task.id}
      /\ photo \in [Messages -> 0 .. issued]
      /\ task.todo \in ToRecord \cup ToEdit => task.message \in Messages
  <2>1. \A m \in 1 .. sent : m \in Messages
    BY BotConstantsOK DEF TypeOK, Db!TypeOK, Messages
  <2> QED
    BY <2>1, Shapes DEF TaskIsShown, TypeOK
<1>4. CASE \E w \in Users : Draws(w)
  BY <1>1, <1>2, <1>4 DEF Draws
<1>5. CASE Records
  <2>1. /\ task.todo \in ToRecord /\ photo' = photo
        /\ task'.message = task.message /\ task'.id = task.id
    BY <1>5 DEF Records, chat, With
  <2> QED
    BY <1>3, <2>1
<1>6. CASE Sends
  BY <1>3, <1>6 DEF Sends
<1>7. CASE Shows
  BY <1>3, <1>7 DEF Shows, With
<1>8. CASE Enables
  BY <1>1, <1>2, <1>8 DEF Enables, NoTask
<1>9. CASE Starts
  BY <1>1, <1>2, <1>9 DEF Starts
<1>10. CASE Quiet
  <2>1. \A m \in Messages : photo'[m] = 0 \/ photo'[m] = photo[m]
    BY <1>10 DEF Quiet, PhotosOnlyGo
  <2>2. CASE task' = NoTask
    BY <1>1, <1>2, <2>2 DEF NoTask
  <2>3. CASE task' = task
    BY <1>1, <1>3, <2>1, <2>3
  <2>4. CASE GoesOnWith(task'.todo)
    <3>1. /\ task'.message = task.message /\ task'.id = task.id
          /\ task.todo \in ToRecord \/ (task.todo \in ToEdit /\ edit_media)
      BY <1>1, <1>2, <2>4 DEF GoesOnWith
    <3>2. CASE task.todo \in ToRecord
      BY <1>3, <2>1, <3>1, <3>2
    <3>3. CASE task.todo \in ToEdit /\ edit_media
      BY <1>3, <3>1, <3>3 DEF edit_media
    <3> QED
      BY <3>1, <3>2, <3>3
  <2> QED
    BY <1>10, <2>2, <2>3, <2>4 DEF Quiet
<1> QED
  BY <1>4, <1>5, <1>6, <1>7, <1>8, <1>9, <1>10, Moves

\* What a row names, and the time it has left.
RowsTyped ==
  \A u \in Users : HasRow(u) =>
    /\ challenge[u].message \in Messages \cup {NoMessage}
    /\ challenge[u].id \in ChallengeIds
    /\ challenge[u].ttl \in Nat /\ challenge[u].ttl <= Lifetime

LEMMA RowTypes == Db!TypeOK => RowsTyped
BY RowOfUser, BotConstantsOK DEF RowsTyped

LEMMA PhotoStep ==
  ASSUME TypeOK, TaskShape, NothingUnsent, DigitsAreOwn, ChatInv, TaskIsShown,
         RecordedPhotoIsCurrent, [Next]_vars
  PROVE  RecordedPhotoIsCurrent'
<1> DEFINE Agrees(u, m) == photo[m] \in {0, challenge[u].id}
<1>1. SUFFICES ASSUME NEW u \in Users, NEW m \in Messages,
                      HasRow(u)', challenge'[u].message = m
               PROVE  photo'[m] \in {0, challenge'[u].id}
  <2>1. ASSUME NEW u \in Users, HasRow(u)', challenge'[u].message # NoMessage
        PROVE  challenge'[u].message \in Messages
    <3>1. Db!TypeOK'
      BY ServiceStep, TablesTyped DEF TypeOK
    <3>2. Db!TypeOK' => RowsTyped'
      BY RowTypes, PTL
    <3> QED
      BY <2>1, <3>1, <3>2 DEF RowsTyped, HasRow, Db!HasRow
  <2> QED
    BY <2>1 DEF RecordedPhotoIsCurrent, HasRow, Db!HasRow
<1>2. HasRow(u) /\ challenge[u].message = m => photo[m] \in {0, challenge[u].id}
  BY ChatFacts DEF RecordedPhotoIsCurrent
<1>3. NoMessage \notin Messages /\ photo \in [Messages -> 0 .. issued]
  BY ChatFacts DEF TypeOK
<1>4. CASE \E w \in Users : Draws(w)
  <2>1. PICK w \in Users : Draws(w)
    BY <1>4
  <2>2. /\ photo' = photo /\ challenge'[w].message = NoMessage
        /\ \A v \in Users : v # w => /\ HasRow(v)' <=> HasRow(v)
                                     /\ challenge'[v] = challenge[v]
    BY <2>1, DrawnRows DEF Draws, chat
  <2> QED
    BY <1>1, <1>2, <1>3, <2>2
<1>5. CASE Records
  <2>1. /\ task.todo \in ToRecord /\ photo' = photo
    BY <1>5 DEF Records, chat
  <2>2. HasRow(u) /\ challenge'[u].id = challenge[u].id
    BY <1>1, <1>5, RecordedRows
  <2>3. CASE u = task.user
    <3>1. m = task.message /\ challenge[u].id = task.id
      BY <1>1, <1>5, <2>1, <2>2, <2>3, RecordedRows DEF ChatInv, TaskIsCurrent
    <3> QED
      BY <2>1, <2>2, <3>1 DEF TaskIsShown
  <2>4. CASE u # task.user
    <3>1. challenge'[u] = challenge[u]
      BY <1>5, <2>4, RecordedRows
    <3> QED
      BY <1>1, <1>2, <2>1, <2>2, <3>1
  <2> QED
    BY <2>3, <2>4
<1>6. CASE Sends
  <2>1. /\ HasRow(u) /\ challenge' = challenge
        /\ photo' = [photo EXCEPT ![sent + 1] = task.id]
    BY <1>1, <1>6, SameTables DEF Sends
  <2>2. m # sent + 1
    <3>1. sent + 1 > sent
      BY ChatFacts
    <3> QED
      BY <1>1, <2>1, <3>1 DEF NothingUnsent
  <2> QED
    BY <1>1, <1>2, <1>3, <2>1, <2>2
<1>7. CASE Shows
  <2>1. /\ HasRow(u) /\ challenge' = challenge /\ challenge[u].message = m
        /\ photo' = [photo EXCEPT ![task.message] = task.id]
        /\ task.todo \in ToEdit
    BY <1>1, <1>7, SameTables DEF Shows
  <2>2. m # task.message
    <3>1. SUFFICES ASSUME m = task.message PROVE FALSE
      OBVIOUS
    <3>2. task.user \in Users
      <4>1. ~Idle
        BY <2>1, Apart DEF Lists, Idle
      <4> QED
        BY <4>1, BusyTask
    <3>3. Claims(u, m) /\ Claims(task.user, m)
      BY <2>1, <3>1 DEF Claims
    <3>4. u = task.user
      BY <3>2, <3>3 DEF ChatInv, OneOwner
    <3> QED
      BY <1>3, <2>1, <3>4 DEF ChatInv, TaskIsNew
  <2> QED
    BY <1>2, <1>3, <2>1, <2>2
<1>8. CASE Enables
  <2>1. HasRow(u) /\ challenge' = challenge /\ photo' = photo
    BY <1>1, <1>8, SameTables DEF Enables, chat
  <2> QED
    BY <1>1, <1>2, <2>1
<1>9. CASE Starts \/ Quiet
  <2>1. /\ HasRow(u) /\ challenge'[u].id = challenge[u].id
        /\ challenge'[u].message = challenge[u].message
    BY <1>1, <1>9 DEF Starts, Quiet, RowsOnlyGo
  <2>2. photo'[m] = 0 \/ photo'[m] = photo[m]
    BY <1>9 DEF Starts, Quiet, PhotosOnlyGo, chat
  <2> QED
    BY <1>1, <1>2, <2>1, <2>2
<1> QED
  BY <1>4, <1>5, <1>6, <1>7, <1>8, <1>9, Moves

LEMMA PhotoInit == Init => PhotoInv
<1> SUFFICES ASSUME Init
             PROVE  PhotoInv
  OBVIOUS
<1>1. /\ \A u \in Users : ~HasRow(u)
      /\ task.todo \notin ToRecord
  BY Apart DEF Init, Db!Init, HasRow, Db!HasRow, NoTask, Lists
<1> QED
  BY <1>1 DEF PhotoInv, RecordedPhotoIsCurrent, TaskIsShown

\* As long as Telegram applies the edits of a refresh, whatever else fails, a
\* photo that stands and that a row names shows that row's challenge: the sweep
\* deletes the photo of the challenge that ended (handlers/captcha.rs,
\* jobs/captcha_expiry.rs).
THEOREM RecordedPhotoStaysCurrent ==
  ASSUME "edit" \notin Faults
  PROVE  Spec => []RecordedPhotoIsCurrent
<1>1. BotInv /\ ChatInv /\ PhotoInv /\ [Next]_vars => PhotoInv'
  BY ShownStep, PhotoStep DEF BotInv, PhotoInv
<1>2. PhotoInv => RecordedPhotoIsCurrent
  BY DEF PhotoInv
<1> QED
  BY <1>1, <1>2, PhotoInit, ChatInvariance, PTL DEF Spec

-----------------------------------------------------------------------------
(* A keyboard and its meta row *)

\* While a keyboard is changed no meta row checks it.
LEMMA AwayStep ==
  ASSUME Faults \cap {"redis", "edit"} = {}, TypeOK, TaskShape, NothingUnsent,
         DigitsAreOwn, MetaIsAway, [Next]_vars
  PROVE  MetaIsAway'
<1> DEFINE Changes(t) == t \in ToRedraw \cup ToEdit \cup ToRecord
<1>1. SUFFICES ASSUME Changes(task'.todo)
               PROVE  meta'[task'.message] = NoMeta
  BY DEF MetaIsAway
<1>2. /\ ~Changes(<<>>)
      /\ \A t \in ToMark \cup ToSolve \cup (ToReissue \ ToRedraw) \cup ToClear
                    \cup ToClose \cup ToPass \cup ToSend : ~Changes(t)
  BY Apart, RedrawRefreshes DEF Lists
<1>3. /\ Changes(task.todo) => meta[task.message] = NoMeta
      /\ task.todo \in ToReissue \cup ToEdit \cup ToRecord => task.message \in Messages
  <2>1. \A m \in 1 .. sent : m \in Messages
    BY BotConstantsOK DEF TypeOK, Db!TypeOK, Messages
  <2> QED
    BY <2>1, Shapes DEF MetaIsAway
<1>4. CASE \E w \in Users : Draws(w)
  <2>1. PICK w \in Users : Draws(w)
    BY <1>4
  <2>2. /\ meta' = meta /\ task'.message = task.message /\ task.todo \in ToRedraw
    BY <1>1, <1>2, <2>1 DEF Draws, redis
  <2> QED
    BY <1>3, <2>2
<1>5. CASE Records \/ Shows
  <2>1. /\ meta' = meta /\ task'.message = task.message /\ Changes(task.todo)
    BY <1>5 DEF Records, Shows, redis, With
  <2> QED
    BY <1>3, <2>1
<1>6. CASE Sends
  <2>1. meta' = meta /\ sent + 1 \in Messages /\ task'.message = sent + 1
        /\ sent + 1 > sent
    BY <1>6, ChatFacts DEF Sends, redis
  <2> QED
    BY <2>1 DEF NothingUnsent
<1>8. CASE Enables
  BY <1>1, <1>2, <1>8 DEF Enables, NoTask
<1>9. CASE Starts
  BY <1>1, <1>2, <1>9 DEF Starts
<1>10. CASE Quiet
  <2>1. \A m \in Messages : meta[m] = NoMeta => meta'[m] = NoMeta
    BY <1>10 DEF Quiet, MetaOnlyGoes
  <2>2. CASE task' = NoTask
    BY <1>1, <1>2, <2>2 DEF NoTask
  <2>3. CASE task' = task
    BY <1>1, <1>3, <2>1, <2>3, RedrawRefreshes
  <2>4. CASE GoesOnWith(task'.todo)
    <3>1. /\ task'.message = task.message
          /\ \/ task.todo \in ToEdit \cup ToRecord
             \/ task.todo \in ToReissue /\ clear_meta
      BY <1>1, <1>2, <2>4 DEF GoesOnWith
    <3>2. CASE task.todo \in ToEdit \cup ToRecord
      BY <1>3, <2>1, <3>1, <3>2
    <3>3. CASE task.todo \in ToReissue /\ clear_meta
      <4>1. meta' = [meta EXCEPT ![task.message] = NoMeta]
        BY <3>3 DEF clear_meta, RedisOutcome
      <4> QED
        BY <1>3, <3>1, <3>3, <4>1 DEF TypeOK
    <3> QED
      BY <3>1, <3>2, <3>3
  <2> QED
    BY <1>10, <2>2, <2>3, <2>4 DEF Quiet
<1> QED
  BY <1>4, <1>5, <1>6, <1>8, <1>9, <1>10, Moves

LEMMA KeyboardStep ==
  ASSUME TypeOK, TaskShape, NothingUnsent, DigitsAreOwn, KeyboardInv, [Next]_vars
  PROVE  MetaMatchesKeyboard'
<1>1. SUFFICES ASSUME NEW m \in Messages, meta'[m] # NoMeta, photo'[m] # 0
               PROVE  meta'[m].short = short_id[photo'[m]]
  BY DEF MetaMatchesKeyboard
<1>2. /\ meta[m] # NoMeta /\ photo[m] # 0 => meta[m].short = short_id[photo[m]]
      /\ photo \in [Messages -> 0 .. issued]
      /\ meta \in [Messages -> {NoMeta} \cup MetaRow]
  BY DEF KeyboardInv, MetaMatchesKeyboard, TypeOK
<1>3. CASE Records \/ Starts \/ \E w \in Users : Draws(w)
  <2>1. meta' = meta /\ photo' = photo
    BY <1>3 DEF Records, Starts, Draws, redis, chat
  <2> QED
    BY <1>1, <1>2, <2>1
<1>4. CASE Sends
  <2>1. /\ meta' = meta /\ photo' = [photo EXCEPT ![sent + 1] = task.id]
        /\ sent + 1 > sent
    BY <1>4, ChatFacts DEF Sends, redis
  <2>2. m # sent + 1
    BY <1>1, <2>1 DEF NothingUnsent
  <2> QED
    BY <1>1, <1>2, <2>1, <2>2
<1>5. CASE Shows
  <2>1. /\ meta' = meta /\ photo' = [photo EXCEPT ![task.message] = task.id]
        /\ task.todo \in ToEdit
    BY <1>5 DEF Shows, redis
  <2>2. m # task.message
    BY <1>1, <2>1 DEF KeyboardInv, MetaIsAway
  <2> QED
    BY <1>1, <1>2, <2>1, <2>2
<1>6. CASE Enables
  <2>1. /\ photo' = photo /\ task.todo \in ToRecord
        /\ meta' = [meta EXCEPT ![task.message] =
             [owner |-> task.user, short |-> short_id[task.id], ttl |-> Lifetime]]
    BY <1>6 DEF Enables, chat
  <2>2. CASE m = task.message
    <3>1. photo[m] = task.id
      BY <1>1, <2>1, <2>2 DEF KeyboardInv, TaskIsShown
    <3> QED
      BY <1>2, <2>1, <2>2, <3>1
  <2>3. CASE m # task.message
    BY <1>1, <1>2, <2>1, <2>3
  <2> QED
    BY <2>2, <2>3
<1>7. CASE Quiet
  BY <1>1, <1>2, <1>7 DEF Quiet, MetaOnlyGoes, PhotosOnlyGo
<1> QED
  BY <1>3, <1>4, <1>5, <1>6, <1>7, Moves

LEMMA KeyboardInit == Init => KeyboardInv
<1> SUFFICES ASSUME Init
             PROVE  KeyboardInv
  OBVIOUS
<1>1. task.todo \notin ToRedraw \cup ToEdit \cup ToRecord
  BY Apart, RedrawRefreshes DEF Init, NoTask, Lists
<1>2. meta = [m \in Messages |-> NoMeta]
  BY DEF Init
<1> QED
  BY <1>1, <1>2 DEF KeyboardInv, MetaMatchesKeyboard, TaskIsShown, MetaIsAway

\* As long as Redis and the edits of a refresh do not fail, the buttons under a
\* standing photo and the meta row that checks them agree, even if the process
\* crashes in the middle of a refresh (handlers/captcha.rs, captcha/state.rs).
THEOREM KeyboardsMatch ==
  ASSUME Faults \cap {"redis", "edit"} = {}
  PROVE  Spec => []MetaMatchesKeyboard
<1>1. BotInv /\ KeyboardInv /\ [Next]_vars => KeyboardInv'
  <2>1. "edit" \notin Faults
    OBVIOUS
  <2> QED
    BY <2>1, ShownStep, AwayStep, KeyboardStep DEF BotInv, KeyboardInv
<1>2. KeyboardInv => MetaMatchesKeyboard
  BY DEF KeyboardInv
<1> QED
  BY <1>1, <1>2, KeyboardInit, BotInvariance, PTL DEF Spec

-----------------------------------------------------------------------------
(* A keyboard can be used *)

\* Without a crash and without failing queries, a handler that changes a keyboard
\* is over only when the new one has its meta row.
LEMMA ChangeEnds ==
  ASSUME {"crash", "database"} \cap Faults = {}, TypeOK, TaskShape, [Next]_vars,
         task.todo \in ToReissue \cup ToRecord, task' = NoTask
  PROVE  set_meta
<1>1. /\ ~Idle /\ task.todo \in Lists
      /\ task.todo \notin ToSend \cup ToEdit \cup ToClear \cup ToClose \cup ToPass
                           \cup ToSolve \cup ToMark
  <2>1. /\ task.todo \in Lists
        /\ task.todo \notin ToSend \cup ToEdit \cup ToClear \cup ToClose \cup ToPass
                             \cup ToSolve \cup ToMark
    BY Apart DEF Lists
  <2> QED
    BY <2>1, Apart DEF Idle
<1>2. \A todo : With(todo) = NoTask => todo = <<>>
  BY DEF With, NoTask
<1>3. ~At("render") /\ ~At("send_photo") /\ ~At("edit_media")
  BY <1>1, ListsByStep DEF At, ToSend, ToEdit
<1>4. ~At("solve") /\ ~At("mark_verified") /\ ~At("delete_photo")
  BY <1>1, ListsByStep DEF At, ToSolve, ToMark, ToPass, ToClose
<1>5. ~record_message_id /\ ~clear_meta
  BY <1>2, Advance DEF record_message_id, clear_meta
<1>6. ~clear_input
  BY <1>1, <1>2, Advance DEF clear_input, ToClear
<1>7. ~reissue
  BY AfterReissue DEF NoTask
<1>8. task' # task
  BY <1>1 DEF Idle, NoTask
<1>9. Worker => set_meta
  BY <1>3, <1>4, <1>5, <1>6, <1>7
  DEF Worker, finish_issue, render_fails, send_photo, send_fails, mark_verified,
      delete_photo, edit_media, solve, query_fails
<1>10. ~Dispatch
  BY <1>1 DEF Dispatch, recognise, join, gate, Issue, verify, digit_pressed,
     backspace, refresh
<1>11. /\ ~Sweeper /\ ~Tick /\ ~Crash /\ ~Shutdown /\ ~RedisLoss /\ ~UNCHANGED vars
       /\ \A u \in Users : ~verified_cache_expires(u)
  BY <1>8 DEF Sweeper, sweep_expired_batch, delete_swept_photo, ledger_expired,
       Tick, Crash, Shutdown, RedisLoss, verified_cache_expires, vars
<1> QED
  BY <1>9, <1>10, <1>11 DEF Next

\* Without Redis failing, set_meta writes the row, and a meta row only goes when
\* it is cleared or when its time is over.
LEMMA SetMetaEnables ==
  ASSUME "redis" \notin Faults, TypeOK, TaskShape, [Next]_vars, set_meta
  PROVE  Enables
<1>1. task.message \in Messages
  BY Relies, Grows, BotConstantsOK DEF set_meta, Messages
<1>2. meta' = [meta EXCEPT ![task.message] =
        [owner |-> task.user, short |-> short_id[task.id], ttl |-> Lifetime]]
  BY DEF set_meta, RedisOutcome
<1> QED
  BY <1>1, <1>2, Enabling DEF set_meta

LEMMA MetaStays ==
  ASSUME {"redis", "redisLoss"} \cap Faults = {}, TypeOK, TaskShape, [Next]_vars,
         NEW m \in Messages
  PROVE  \/ Enables
         \/ meta'[m] = meta[m]
         \/ clear_meta /\ task.message = m
         \/ Tick
<1>1. CASE set_meta
  BY <1>1, SetMetaEnables
<1>2. CASE clear_meta
  BY <1>2 DEF clear_meta, RedisOutcome, TypeOK
<1> QED
  BY <1>1, <1>2, MetaFrame DEF RedisLoss

LEMMA UsableStep ==
  ASSUME Faults \subseteq {"shutdown", "render", "send", "edit", "delete"},
         BotInv, ChatInv, LiveIsUsable, [Next]_vars
  PROVE  LiveIsUsable'
<1>0. /\ TypeOK /\ TaskShape /\ NothingUnsent /\ DigitsAreOwn
      /\ OneOwner /\ TaskIsCurrent /\ EndedIsGone
  BY DEF BotInv, ChatInv
<1>1. SUFFICES ASSUME NEW u \in Users, NEW m \in Messages,
                      Live(u)', photo'[m] = challenge'[u].id
               PROVE  /\ <<m, challenge'[u].id>> \in shown'
                      /\ Usable(u, m)' \/ Changing(u, m)'
  BY DEF LiveIsUsable, Live, Db!Live, HasRow, Db!HasRow
<1>2. Live(u) /\ photo[m] = challenge[u].id =>
        /\ <<m, challenge[u].id>> \in shown
        /\ Usable(u, m) \/ Changing(u, m)
  BY DEF LiveIsUsable
<1>3. /\ HasRow(u)' /\ challenge'[u].id \in ChallengeIds /\ challenge'[u].id # 0
      /\ challenge'[u].ttl \in Nat /\ challenge'[u].ttl > 0
      /\ HasRow(u) => challenge[u].ttl \in Nat /\ challenge[u].ttl <= Lifetime
  <2>1. Db!TypeOK' /\ Db!TypeOK
    BY <1>0, ServiceStep, TablesTyped DEF TypeOK
  <2>2. RowsTyped /\ RowsTyped'
    <3>1. Db!TypeOK' => RowsTyped'
      BY RowTypes, PTL
    <3> QED
      BY <2>1, <3>1, RowTypes
  <2>3. HasRow(u)' /\ challenge'[u].ttl > 0
    BY <1>1 DEF Live, Db!Live, HasRow, Db!HasRow
  <2> QED
    BY <1>0, <2>2, <2>3, ChatFacts DEF RowsTyped, HasRow, Db!HasRow
<1>4. /\ HasRow(u) => (Live(u) <=> challenge[u].ttl > 0)
      /\ photo \in [Messages -> 0 .. issued] /\ issued \in Nat
      /\ meta \in [Messages -> {NoMeta} \cup MetaRow]
      /\ <<>> \notin ToReissue \cup ToRecord
      /\ \A t \in ToMark \cup ToSolve \cup ToClear \cup ToSend \cup ToEdit
                    \cup ToClose \cup ToPass : t \notin ToReissue \cup ToRecord
      /\ Idle => task.todo = <<>>
  <2>1. <<>> \notin ToReissue \cup ToRecord
    BY Apart DEF Lists
  <2>2. \A t \in ToMark \cup ToSolve \cup ToClear \cup ToSend \cup ToEdit
                  \cup ToClose \cup ToPass : t \notin ToReissue \cup ToRecord
    BY Apart
  <2> QED
    BY <1>0, <2>1, <2>2, ChatFacts DEF TypeOK, Live, Db!Live, HasRow, Db!HasRow, Idle
\* While the row keeps its challenge and the meta row stays, the keyboard stays usable.
<1>5. ASSUME meta'[m] = meta[m], Usable(u, m), HasRow(u),
             challenge'[u].id = challenge[u].id,
             challenge'[u].ttl <= challenge[u].ttl
      PROVE  Usable(u, m)'
  <2>1. meta[m].ttl \in Nat
    BY <1>4, <1>5, BotConstantsOK DEF Usable, MetaRow
  <2> QED
    BY <1>3, <1>5, <2>1 DEF Usable
<1>6. CASE \E w \in Users : Draws(w)
  <2>1. PICK w \in Users : Draws(w)
    BY <1>6
  <2>2. /\ meta' = meta /\ photo' = photo /\ shown' = shown
    BY <2>1 DEF Draws, redis, chat
  <2>3. /\ issued' = issued + 1 /\ challenge'[w].id = issued + 1
        /\ \A v \in Users : v # w => /\ HasRow(v)' <=> HasRow(v)
                                     /\ challenge'[v] = challenge[v]
    BY <1>0, <2>1, DrawnRows
  <2>4. u # w
    BY <1>1, <1>4, <2>2, <2>3
  <2>5. HasRow(u) /\ challenge'[u] = challenge[u] /\ Live(u)
    BY <1>3, <1>4, <2>3, <2>4
  <2>6. ~Changing(u, m)
    BY <1>4, <2>1, <2>4 DEF Draws, Changing
  <2> QED
    BY <1>1, <1>2, <1>3, <1>5, <2>2, <2>5, <2>6
<1>7. CASE Records
  <2>1. /\ meta' = meta /\ photo' = photo /\ shown' = shown
        /\ task'.user = task.user /\ task'.message = task.message
        /\ task'.todo \in ToRecord
    BY <1>7 DEF Records, redis, chat, With
  <2>2. /\ HasRow(u) /\ challenge'[u].id = challenge[u].id
        /\ challenge'[u].ttl = challenge[u].ttl
    BY <1>0, <1>3, <1>7, RecordedRows
  <2>3. Live(u)
    BY <1>3, <1>4, <2>2
  <2>4. Changing(u, m) => Changing(u, m)'
    BY <2>1 DEF Changing
  <2> QED
    BY <1>1, <1>2, <1>3, <1>5, <2>1, <2>2, <2>3, <2>4
<1>8. CASE Sends \/ Shows
  <2> DEFINE n == task'.message
  <2>1. /\ meta' = meta /\ n \in Messages
        /\ photo' = [photo EXCEPT ![n] = task.id]
        /\ shown' = shown \cup {<<n, task.id>>}
        /\ task'.user = task.user /\ task'.todo \in ToRecord
        /\ task.todo \in ToSend \cup ToEdit
        /\ UNCHANGED tables
    BY <1>8 DEF Sends, Shows, redis, With
  <2>2. HasRow(u) /\ challenge' = challenge /\ Live(u)
    BY <1>3, <1>4, <2>1, SameTables
  <2>3. CASE m = n
    <3>1. challenge[u].id = task.id
      BY <1>1, <1>4, <2>1, <2>2, <2>3
    <3>2. u = task.user
      BY <1>0, <2>1, <2>2, <3>1 DEF TaskIsCurrent
    <3> QED
      BY <2>1, <2>2, <2>3, <3>1, <3>2 DEF Changing
  <2>4. CASE m # n
    <3>1. photo[m] = challenge[u].id
      BY <1>1, <1>4, <2>1, <2>2, <2>4
    <3>2. ~Changing(u, m)
      BY <1>4, <2>1 DEF Changing
    <3> QED
      BY <1>2, <1>3, <1>5, <2>1, <2>2, <3>1, <3>2
  <2> QED
    BY <2>3, <2>4
<1>9. CASE Enables
  <2>1. /\ photo' = photo /\ shown' = shown /\ task.message \in Messages
        /\ meta' = [meta EXCEPT ![task.message] =
             [owner |-> task.user, short |-> short_id[task.id], ttl |-> Lifetime]]
        /\ task.todo \in ToRecord /\ UNCHANGED tables
    BY <1>9 DEF Enables, chat
  <2>2. HasRow(u) /\ challenge' = challenge /\ Live(u) /\ photo[m] = challenge[u].id
    BY <1>1, <1>3, <1>4, <2>1, SameTables
  <2>3. CASE m = task.message
    <3>1. task.user \in Users
      BY <1>0, <1>4, <2>1, BusyTask, Apart DEF Idle
    <3>2. Claims(u, m) /\ Claims(task.user, m)
      BY <2>2, <2>3 DEF Claims
    <3>3. u = task.user
      BY <1>0, <3>1, <3>2 DEF OneOwner
    <3>4. challenge[u].id = task.id
      BY <1>0, <2>1, <2>2, <3>3 DEF TaskIsCurrent
    <3>5. meta'[m] = [owner |-> u, short |-> short_id[challenge[u].id], ttl |-> Lifetime]
      BY <1>4, <2>1, <2>3, <3>3, <3>4
    <3>6. meta'[m] # NoMeta
      <4>1. task.id \in ChallengeIds /\ Lifetime \in 1 .. Lifetime
        BY <1>3, <2>2, <3>4, BotConstantsOK
      <4>2. meta'[m] \in MetaRow
        BY <3>4, <3>5, <4>1 DEF MetaRow
      <4> QED
        BY <4>2, BotSentinelsOK
    <3> QED
      BY <1>2, <1>3, <2>1, <2>2, <3>5, <3>6 DEF Usable
  <2>4. CASE m # task.message
    BY <1>2, <1>3, <1>5, <2>1, <2>2, <2>4 DEF Changing
  <2> QED
    BY <2>3, <2>4
<1>10. CASE Starts
  <2>1. /\ meta' = meta /\ photo' = photo /\ shown' = shown /\ Idle
        /\ HasRow(u) /\ challenge'[u].id = challenge[u].id
        /\ challenge'[u].ttl <= challenge[u].ttl
    BY <1>3, <1>10 DEF Starts, RowsOnlyGo, chat
  <2>2. Live(u)
    BY <1>3, <1>4, <2>1
  <2>3. ~Changing(u, m)
    BY <1>4, <2>1 DEF Changing
  <2> QED
    BY <1>1, <1>2, <1>5, <2>1, <2>2, <2>3
<1>11. CASE Quiet /\ ~Enables
  <2>1. /\ photo[m] = challenge[u].id /\ shown' = shown
        /\ HasRow(u) /\ challenge'[u].id = challenge[u].id
        /\ challenge'[u].ttl <= challenge[u].ttl
    BY <1>1, <1>3, <1>11 DEF Quiet, RowsOnlyGo, PhotosOnlyGo
  <2>2. Live(u)
    BY <1>3, <1>4, <2>1
  <2>3. CASE Changing(u, m)
    <3>1. task' # NoTask
      <4>1. ~set_meta
        BY <1>0, <1>11, SetMetaEnables
      <4> QED
        BY <1>0, <2>3, <4>1, ChangeEnds DEF Changing
    <3>2. Changing(u, m)'
      BY <1>4, <1>11, <2>3, <3>1, RedrawRefreshes DEF Quiet, GoesOnWith, Changing
    <3> QED
      BY <1>2, <2>1, <2>2, <3>2
  <2>4. CASE Usable(u, m)
    <3>1. CASE meta'[m] = meta[m]
      BY <1>2, <1>5, <2>1, <2>2, <2>4, <3>1
    <3>2. CASE Tick
      <4>1. challenge'[u].ttl = challenge[u].ttl - 1
        BY <1>0, <1>1, <3>2, RowsAfterTick DEF Tick, TypeOK, Live, Db!Live, HasRow, Db!HasRow
      <4>2. meta[m] \in MetaRow /\ meta[m].ttl \in Nat /\ meta[m].ttl > 1
        <5>1. meta[m] \in MetaRow /\ meta[m].ttl \in Nat
              /\ challenge[u].ttl <= meta[m].ttl
          BY <1>4, <2>4, BotConstantsOK DEF Usable, MetaRow
        <5> QED
          BY <1>3, <2>1, <4>1, <5>1
      <4>3. meta'[m] = [meta[m] EXCEPT !.ttl = @ - 1]
        BY <2>4, <3>2, <4>2 DEF Tick, Usable
      <4>4. /\ meta'[m].owner = meta[m].owner /\ meta'[m].short = meta[m].short
            /\ meta'[m].ttl = meta[m].ttl - 1
        BY <4>2, <4>3 DEF MetaRow
      <4>5. meta'[m] # NoMeta
        <5>1. meta'[m] \in MetaRow
          <6>1. meta[m].ttl - 1 \in 1 .. Lifetime
            BY <4>2, BotConstantsOK DEF MetaRow
          <6> QED
            BY <4>2, <4>3, <6>1 DEF MetaRow
        <5> QED
          BY <5>1, BotSentinelsOK
      <4>6. challenge'[u].ttl <= meta'[m].ttl
        BY <1>3, <2>1, <2>4, <4>1, <4>2, <4>4 DEF Usable
      <4> QED
        BY <1>2, <2>1, <2>2, <2>4, <4>4, <4>5, <4>6 DEF Usable
    <3>3. CASE clear_meta /\ task.message = m
      <4>1. task.user \in Users /\ ~Idle /\ Proceed(task) /\ At("clear_meta")
        BY <1>0, <3>3, Relies DEF clear_meta, At
      <4>2. Claims(u, m) /\ Claims(task.user, m)
        BY <2>1, <3>3 DEF Claims
      <4>3. u = task.user
        BY <1>0, <4>1, <4>2 DEF OneOwner
      <4>4. task.todo \notin ToClose \cup ToPass
        BY <1>0, <2>1, <4>3 DEF EndedIsGone
      <4>5. task.todo \in ToReissue /\ task' = With(task'.todo) /\ task'.todo \in ToReissue
        BY <1>0, <4>1, <4>4, Advance DEF With, ToClose, ToPass, ToReissue
      <4>6. Changing(u, m)'
        BY <3>3, <4>3, <4>5 DEF With, Changing
      <4> QED
        BY <1>2, <2>1, <2>2, <4>6
    <3> QED
      BY <1>0, <1>11, <3>1, <3>2, <3>3, MetaStays
  <2> QED
    BY <1>2, <2>1, <2>2, <2>3, <2>4
<1> QED
  BY <1>0, <1>6, <1>7, <1>8, <1>9, <1>10, <1>11, Moves

LEMMA UsableInit == Init => LiveIsUsable
BY DEF Init, Db!Init, LiveIsUsable, Live, Db!Live, HasRow, Db!HasRow

\* "At worst the user has to press refresh": as long as neither the process nor
\* PostgreSQL nor Redis fails, refresh is accepted under a photo that shows its
\* owner's live challenge, whatever Telegram refuses and however joins,
\* messages, refreshes, sweeps and expiring keys are interleaved
\* (handlers/captcha.rs).
THEOREM RefreshStaysAccepted ==
  ASSUME Faults \subseteq {"shutdown", "render", "send", "edit", "delete"}
  PROVE  Spec => []RefreshIsAccepted
<1>1. BotInv /\ ChatInv /\ LiveIsUsable /\ [Next]_vars => LiveIsUsable'
  BY UsableStep
<1>2. LiveIsUsable => RefreshIsAccepted
  <2>1. Idle => task.todo \notin ToReissue \cup ToRecord
    BY Apart DEF Idle, Lists
  <2> QED
    BY <2>1 DEF LiveIsUsable, RefreshIsAccepted, Accepted, Usable, Changing
<1> QED
  BY <1>1, <1>2, UsableInit, ChatInvariance, PTL DEF Spec
=============================================================================
