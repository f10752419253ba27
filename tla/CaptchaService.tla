--------------------------- MODULE CaptchaService ---------------------------
(***************************************************************************)
(* The durable side of the captcha in one watched chat: the PostgreSQL     *)
(* tables captcha_challenges, verified_users, moderation_actions and       *)
(* daily_stats, and every statement that CaptchaService and the            *)
(* captcha_expiry job run on them.                                         *)
(*                                                                         *)
(* Every key of these tables starts with chat_id, so one chat is modelled. *)
(* Each operation of the service is one transaction, hence one action;     *)
(* issue_challenge commits its row, renders, and bumps a counter, hence    *)
(* two.  Callers may call any operation at any time: CaptchaBot says who   *)
(* does, and when.                                                         *)
(*                                                                         *)
(* Time is relative: ttl is the time left until expires_at, and a row is   *)
(* expired (expires_at < NOW()) when nothing is left.                      *)
(***************************************************************************)
EXTENDS Naturals, FiniteSets

CONSTANTS
  Users,         \* members of the chat
  Messages,      \* ids of the messages that can carry a captcha photo
  NoMessage,     \* SQL NULL in a message-id column
  NoRow,         \* no captcha_challenges row
  Solutions,     \* what a keyboard can type
  solution_for,  \* challenge id -> the solution derived from it
  Attempts,      \* chat_config.captcha_attempts
  Lifetime,      \* chat_config.captcha_lifetime_secs, in ticks
  BatchSize,     \* LIMIT of one sweep statement
  MaxIssues      \* bound: challenges issued in one behaviour

ChallengeIds == 1 .. MaxIssues

Row == [id : ChallengeIds, attempts : 1 .. Attempts, ttl : 0 .. Lifetime,
        message : Messages \cup {NoMessage}]

ASSUME ConstantsOK ==
  /\ IsFiniteSet(Users)
  /\ Attempts \in Nat \ {0}
  /\ Lifetime \in Nat \ {0}
  /\ BatchSize \in Nat \ {0}
  /\ MaxIssues \in Nat
  /\ solution_for \in [ChallengeIds -> Solutions]

ASSUME SentinelsOK == NoMessage \notin Messages /\ NoRow \notin Row

VARIABLES
  challenge,  \* captcha_challenges, UNIQUE (chat_id, user_id)
  verified,   \* verified_users
  ledger,     \* moderation_actions: how many rows each key has
  stats,      \* daily_stats: the counters of the captcha
  issued,     \* how many challenge ids (UUIDs, never reused) were drawn
  rendering,  \* challenges committed whose issue_challenge call still runs
  batch       \* rows a sweep deleted that the job still has to process

vars == <<challenge, verified, ledger, stats, issued, rendering, batch>>

Actions == {"verify", "captcha_expired", "captcha_failed"}

LedgerKey == [user : Users, action : Actions,
              message : Messages \cup {NoMessage}]

Metrics == {"captcha_issued", "captcha_solved", "captcha_expired",
            "users_verified"}

\* A swept row and what process_expired does next with it.
SweptRow == [user : Users, message : Messages \cup {NoMessage},
             step : {"photo", "ledger", "stat"}]

HasRow(u) == challenge[u] # NoRow

\* A live row: expires_at >= NOW().
Live(u) == HasRow(u) /\ challenge[u].ttl > 0

TypeOK ==
  /\ challenge \in [Users -> Row \cup {NoRow}]
  /\ verified \in SUBSET Users
  /\ ledger \in [LedgerKey -> Nat]
  /\ stats \in [Metrics -> Nat]
  /\ issued \in 0 .. MaxIssues
  /\ rendering \in SUBSET (1 .. issued)
  /\ batch \in SUBSET SweptRow

Init ==
  /\ challenge = [u \in Users |-> NoRow]
  /\ verified = {}
  /\ ledger = [k \in LedgerKey |-> 0]
  /\ stats = [m \in Metrics |-> 0]
  /\ issued = 0
  /\ rendering = {}
  /\ batch = {}

-----------------------------------------------------------------------------
\* Mutant: the unique key leaves the action out.
LedgerInsert_KeyWithoutAction(u, action, m) ==
  LET key == [user |-> u, action |-> action, message |-> m] IN
  ledger' = IF m # NoMessage
               /\ \E a \in Actions : ledger[[key EXCEPT !.action = a]] > 0
            THEN ledger
            ELSE [ledger EXCEPT ![key] = @ + 1]

\* INSERT INTO moderation_actions ... ON CONFLICT DO NOTHING.  The key is
\* UNIQUE, but SQL holds two NULL message ids to be different.
LedgerInsert(u, action, m) ==
  LET key == [user |-> u, action |-> action, message |-> m] IN
  ledger' = IF m # NoMessage /\ ledger[key] > 0
            THEN ledger
            ELSE [ledger EXCEPT ![key] = @ + 1]

\* The value of daily_stats after one more of each of the given metrics.
Bumped(metrics) ==
  [m \in Metrics |-> IF m \in metrics THEN stats[m] + 1 ELSE stats[m]]

\* Mutant: the row is made to expire and left to the sweep.
DeleteRow_LeftToSweep(u) ==
  challenge' = IF HasRow(u) THEN [challenge EXCEPT ![u].ttl = 0] ELSE challenge

DeleteRow(u) == challenge' = [challenge EXCEPT ![u] = NoRow]

\* Mutant: a wrong answer extends the challenge.
SpendAttempt_Extends(u) ==
  challenge' = [challenge EXCEPT ![u].attempts = @ - 1, ![u].ttl = Lifetime]

SpendAttempt(u) == challenge' = [challenge EXCEPT ![u].attempts = @ - 1]

-----------------------------------------------------------------------------
\* Mutant: ON CONFLICT leaves the message id of the replaced row.
FreshRow_KeepsMessage(u) ==
  [id |-> issued + 1, attempts |-> Attempts, ttl |-> Lifetime,
   message |-> IF HasRow(u) THEN challenge[u].message ELSE NoMessage]

\* What the upsert writes for u: whatever row it replaces is forgotten, its
\* photo too.
FreshRow(u) ==
  [id |-> issued + 1, attempts |-> Attempts, ttl |-> Lifetime,
   message |-> NoMessage]

\* The upsert of issue_challenge, also the whole of reissue.  It replaces a
\* row in place, whether or not that row is still live.
issue_challenge(u) ==
  /\ issued < MaxIssues
  /\ issued' = issued + 1
  /\ challenge' = [challenge EXCEPT ![u] = FreshRow(u)]
  /\ rendering' = rendering \cup {issued + 1}
  /\ UNCHANGED <<verified, ledger, stats, batch>>

\* The rest of issue_challenge: the image is rendered and the counter bumped.
finish_issue(id) ==
  /\ id \in rendering
  /\ rendering' = rendering \ {id}
  /\ stats' = Bumped({"captcha_issued"})
  /\ UNCHANGED <<challenge, verified, ledger, issued, batch>>

\* Rendering failed: issue_challenge returns an error, its row stays.
fail_issue(id) ==
  /\ id \in rendering
  /\ rendering' = rendering \ {id}
  /\ UNCHANGED <<challenge, verified, ledger, stats, issued, batch>>

\* The UPDATE names the chat and the user, not the challenge; it finds no row
\* when the row was solved or swept meanwhile.
record_message_id(u, m) ==
  /\ challenge' = IF HasRow(u)
                  THEN [challenge EXCEPT ![u].message = m]
                  ELSE challenge
  /\ UNCHANGED <<verified, ledger, stats, issued, rendering, batch>>

-----------------------------------------------------------------------------
\* Mutant: an attempt too many is granted.
Outcome_OneTooMany(u, attempt) ==
  CASE ~HasRow(u) /\ u \in verified    -> "AlreadyVerified"
    [] ~HasRow(u) /\ u \notin verified -> "NotFound"
    [] HasRow(u) /\ ~Live(u)           -> "Expired"
    [] Live(u) /\ attempt = solution_for[challenge[u].id] -> "Solved"
    [] Live(u) /\ attempt # solution_for[challenge[u].id] ->
         IF challenge[u].attempts > 0 THEN "WrongLeft" ELSE "WrongFinal"

\* Mutant: the answer is looked at before the time.
Outcome_LateAnswer(u, attempt) ==
  CASE ~HasRow(u) /\ u \in verified    -> "AlreadyVerified"
    [] ~HasRow(u) /\ u \notin verified -> "NotFound"
    [] HasRow(u) /\ attempt = solution_for[challenge[u].id] -> "Solved"
    [] HasRow(u) /\ attempt # solution_for[challenge[u].id] ->
         IF ~Live(u) THEN "Expired"
         ELSE IF challenge[u].attempts > 1 THEN "WrongLeft" ELSE "WrongFinal"

\* What solve answers, from the row it locked.
Outcome(u, attempt) ==
  CASE ~HasRow(u) /\ u \in verified    -> "AlreadyVerified"
    [] ~HasRow(u) /\ u \notin verified -> "NotFound"
    [] HasRow(u) /\ ~Live(u)           -> "Expired"
    [] Live(u) /\ attempt = solution_for[challenge[u].id] -> "Solved"
    [] Live(u) /\ attempt # solution_for[challenge[u].id] ->
         IF challenge[u].attempts > 1 THEN "WrongLeft" ELSE "WrongFinal"

\* The transaction of solve, one alternative per outcome.
solve(u, attempt) ==
  /\ \/ /\ Outcome(u, attempt) \in {"AlreadyVerified", "NotFound"}
        /\ UNCHANGED <<challenge, verified, ledger, stats>>
     \/ /\ Outcome(u, attempt) = "Expired"
        /\ DeleteRow(u)
        /\ LedgerInsert(u, "captcha_expired", challenge[u].message)
        /\ stats' = Bumped({"captcha_expired"})
        /\ UNCHANGED verified
     \/ /\ Outcome(u, attempt) = "Solved"
        /\ DeleteRow(u)
        /\ verified' = verified \cup {u}
        /\ LedgerInsert(u, "verify", challenge[u].message)
        /\ stats' = Bumped({"captcha_solved", "users_verified"})
     \/ /\ Outcome(u, attempt) = "WrongFinal"
        /\ DeleteRow(u)
        /\ LedgerInsert(u, "captcha_failed", challenge[u].message)
        /\ UNCHANGED <<verified, stats>>
     \/ /\ Outcome(u, attempt) = "WrongLeft"
        /\ SpendAttempt(u)
        /\ UNCHANGED <<verified, ledger, stats>>
  /\ UNCHANGED <<issued, rendering, batch>>

\* The transaction of /verify.  A verified target is left as it is, and so is
\* a challenge it may hold.
verify_manual(u) ==
  /\ IF u \in verified
     THEN UNCHANGED <<challenge, verified, ledger, stats>>
     ELSE /\ DeleteRow(u)
          /\ verified' = verified \cup {u}
          /\ LedgerInsert(u, "verify",
               IF HasRow(u) THEN challenge[u].message ELSE NoMessage)
          /\ stats' = Bumped({"users_verified"})
  /\ UNCHANGED <<issued, rendering, batch>>

-----------------------------------------------------------------------------
\* Mutant: a row without a photo is not swept.
Expired_WithPhoto ==
  {u \in Users : HasRow(u) /\ ~Live(u) /\ challenge[u].message # NoMessage}

Expired == {u \in Users : HasRow(u) /\ ~Live(u)}

\* The rows one sweep may hit: all expired ones, or as many as its LIMIT.
Swept ==
  {S \in SUBSET Expired : /\ S # {}
                          /\ \/ S = Expired /\ Cardinality(S) <= BatchSize
                             \/ Cardinality(S) = BatchSize}

\* One DELETE ... LIMIT ... RETURNING of the captcha_expiry job.  The next one
\* runs when every row of the last one has been processed.
sweep_expired_batch ==
  /\ batch = {}
  /\ \E S \in Swept :
       /\ batch' = {[user |-> u, message |-> challenge[u].message,
                     step |-> "photo"] : u \in S}
       /\ challenge' = [u \in Users |-> IF u \in S THEN NoRow ELSE challenge[u]]
  /\ UNCHANGED <<verified, ledger, stats, issued, rendering>>

\* Rows of a batch are processed one after the other.
IsNext(row) ==
  /\ row \in batch
  /\ row.step # "photo" \/ \A other \in batch : other.step = "photo"

\* process_expired asked the bot to delete the photo; what comes of it is not
\* looked at.
photo_done(row) ==
  /\ IsNext(row) /\ row.step = "photo"
  /\ batch' = (batch \ {row}) \cup {[row EXCEPT !.step = "ledger"]}
  /\ UNCHANGED <<challenge, verified, ledger, stats, issued, rendering>>

\* ledger_expired, its first statement.
ledger_expired(row) ==
  /\ IsNext(row) /\ row.step = "ledger"
  /\ LedgerInsert(row.user, "captcha_expired", row.message)
  /\ batch' = (batch \ {row}) \cup {[row EXCEPT !.step = "stat"]}
  /\ UNCHANGED <<challenge, verified, stats, issued, rendering>>

\* ledger_expired, its second statement; the row is done.
count_expired(row) ==
  /\ IsNext(row) /\ row.step = "stat"
  /\ stats' = Bumped({"captcha_expired"})
  /\ batch' = batch \ {row}
  /\ UNCHANGED <<challenge, verified, ledger, issued, rendering>>

\* One of its statements failed: the row is not looked at again.
fail_expired(row) ==
  /\ IsNext(row) /\ row.step # "photo"
  /\ batch' = batch \ {row}
  /\ UNCHANGED <<challenge, verified, ledger, stats, issued, rendering>>

process_expired(row) ==
  \/ photo_done(row)
  \/ ledger_expired(row)
  \/ count_expired(row)
  \/ fail_expired(row)

\* Shutdown is noticed between two rows: the rest of the batch is dropped.
shutdown_mid_batch ==
  /\ batch # {} /\ \A row \in batch : row.step = "photo"
  /\ batch' = {}
  /\ UNCHANGED <<challenge, verified, ledger, stats, issued, rendering>>

\* The process dies: what it held in memory is gone, the tables are not.
Crash ==
  /\ rendering' = {} /\ batch' = {}
  /\ UNCHANGED <<challenge, verified, ledger, stats, issued>>

\* One unit of time passes.
Tick ==
  /\ challenge' = [u \in Users |->
       IF Live(u) THEN [challenge[u] EXCEPT !.ttl = @ - 1] ELSE challenge[u]]
  /\ UNCHANGED <<verified, ledger, stats, issued, rendering, batch>>

-----------------------------------------------------------------------------
Sweeper == sweep_expired_batch \/ \E row \in batch : process_expired(row)

Next ==
  \/ \E u \in Users : issue_challenge(u) \/ verify_manual(u)
  \/ \E id \in rendering : finish_issue(id) \/ fail_issue(id)
  \/ \E u \in Users, m \in Messages : record_message_id(u, m)
  \/ \E u \in Users, attempt \in Solutions : solve(u, attempt)
  \/ Sweeper
  \/ shutdown_mid_batch
  \/ Crash
  \/ Tick

Spec == Init /\ [][Next]_vars

\* The job's loop never stops sweeping and time never stops; callers may stop.
Fairness == WF_vars(Sweeper) /\ WF_vars(Tick)

FairSpec == Spec /\ Fairness
-----------------------------------------------------------------------------
(***************************************************************************)
(* Properties                                                              *)
(***************************************************************************)

\* Nobody is verified without an audit row saying so, although the insert of
\* that row may do nothing (ON CONFLICT DO NOTHING in solve and verify_manual).
VerifiedAreAudited ==
  \A u \in verified : \E m \in Messages \cup {NoMessage} :
    ledger[[user |-> u, action |-> "verify", message |-> m]] > 0

\* A challenge is counted as solved or as expired at most once, and never
\* while it can still be answered or swept: solve and the sweep, which both
\* count an expired row, never share one.
OutcomesAccounted ==
  stats["captcha_solved"] + stats["captcha_expired"]
    + Cardinality({u \in Users : HasRow(u)}) + Cardinality(batch) <= issued

\* However often a challenge is answered wrongly, its time and its attempts
\* only run down ("Lifetime is fixed at issuance and intentionally NOT
\* extended on wrong attempts"): more of either takes a new challenge.
ChallengeOnlyRunsDown ==
  [][\A u \in Users :
       HasRow(u) /\ HasRow(u)' /\ challenge[u].id = challenge'[u].id
       => /\ challenge'[u].ttl <= challenge[u].ttl
          /\ challenge'[u].attempts <= challenge[u].attempts]_vars

\* Every step of the service is a step of the abstract gate: an expired
\* challenge is worth no chance, so only a live one can be solved, and no
\* order of solving, sweeping and verifying takes a verification back.
Gate == INSTANCE VerificationGate WITH
          chances <- [u \in Users |-> IF Live(u) THEN challenge[u].attempts ELSE 0],
          passed <- stats["captcha_solved"]

GateSpec == Gate!Spec

\* Whatever the callers do, and however often the process dies, a challenge
\* does not stay in the table: it is answered, replaced or swept.
EveryChallengeEnds ==
  \A u \in Users, id \in ChallengeIds :
    (HasRow(u) /\ challenge[u].id = id) ~> ~(HasRow(u) /\ challenge[u].id = id)
=============================================================================
