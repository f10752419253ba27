------------------------ MODULE CaptchaServiceProofs ------------------------
(***************************************************************************)
(* CaptchaService keeps its types, its audit trail and its accounts, only  *)
(* runs challenges down, and implements VerificationGate, for every set of *)
(* members, every solution and every number of attempts.                   *)
(***************************************************************************)
EXTENDS CaptchaService, FiniteSetTheorems, TLAPS

-----------------------------------------------------------------------------
(* What the helpers do *)

MessageIds == Messages \cup {NoMessage}

\* The insert into the ledger removes nothing, and the row is there afterwards,
\* whether it was inserted or conflicted.
LEMMA LedgerInsertKeeps ==
  ASSUME TypeOK, NEW u \in Users, NEW action \in Actions, NEW m \in MessageIds,
         LedgerInsert(u, action, m)
  PROVE  /\ ledger' \in [LedgerKey -> Nat]
         /\ \A k \in LedgerKey : ledger'[k] >= ledger[k]
         /\ ledger'[[user |-> u, action |-> action, message |-> m]] > 0
<1> DEFINE key == [user |-> u, action |-> action, message |-> m]
<1>1. key \in LedgerKey
  BY DEF LedgerKey, MessageIds
<1>2. ledger \in [LedgerKey -> Nat]
  BY DEF TypeOK
<1>3. CASE m # NoMessage /\ ledger[key] > 0
  <2>1. ledger' = ledger
    BY <1>3 DEF LedgerInsert
  <2> QED
    BY <2>1, <1>1, <1>2, <1>3
<1>4. CASE ~(m # NoMessage /\ ledger[key] > 0)
  <2>1. ledger' = [ledger EXCEPT ![key] = ledger[key] + 1]
    BY <1>4 DEF LedgerInsert
  <2> QED
    BY <2>1, <1>1, <1>2
<1> QED
  BY <1>3, <1>4

\* A counter goes up by one or stays.
LEMMA BumpedCounts ==
  ASSUME TypeOK, NEW metrics
  PROVE  /\ Bumped(metrics) \in [Metrics -> Nat]
         /\ \A m \in Metrics : Bumped(metrics)[m] =
              IF m \in metrics THEN stats[m] + 1 ELSE stats[m]
BY DEF TypeOK, Bumped

\* The row of a user who has one.
LEMMA RowOfUser ==
  ASSUME TypeOK, NEW u \in Users, HasRow(u)
  PROVE  /\ challenge[u] \in Row
         /\ challenge[u].id \in ChallengeIds
         /\ challenge[u].attempts \in 1 .. Attempts
         /\ challenge[u].ttl \in 0 .. Lifetime
         /\ challenge[u].message \in MessageIds
<1>1. challenge[u] \in Row
  BY DEF TypeOK, HasRow
<1> QED
  BY <1>1 DEF Row, MessageIds

-----------------------------------------------------------------------------
(* Types *)

LEMMA TypeInit == Init => TypeOK
BY ConstantsOK DEF Init, TypeOK, Metrics

LEMMA TypeIssue ==
  ASSUME TypeOK, NEW u \in Users, issue_challenge(u)
  PROVE  TypeOK'
<1>1. FreshRow(u) \in Row
  BY ConstantsOK DEF FreshRow, Row, TypeOK, issue_challenge, ChallengeIds
<1>2. challenge' \in [Users -> Row \cup {NoRow}]
  BY <1>1 DEF issue_challenge, TypeOK
<1>3. issued' \in 0 .. MaxIssues /\ rendering' \in SUBSET (1 .. issued')
  BY ConstantsOK DEF issue_challenge, TypeOK
<1> QED
  BY <1>2, <1>3 DEF issue_challenge, TypeOK

LEMMA TypeSolve ==
  ASSUME TypeOK, NEW u \in Users, NEW attempt \in Solutions, solve(u, attempt)
  PROVE  TypeOK'
<1>1. CASE Outcome(u, attempt) \in {"AlreadyVerified", "NotFound"}
  BY <1>1 DEF solve, TypeOK
<1>2. CASE Outcome(u, attempt) = "Expired"
  <2>1. HasRow(u)
    BY <1>2 DEF Outcome, Live
  <2>2. /\ DeleteRow(u)
        /\ LedgerInsert(u, "captcha_expired", challenge[u].message)
        /\ stats' = Bumped({"captcha_expired"})
        /\ UNCHANGED <<verified, issued, rendering, batch>>
    BY <1>2 DEF solve
  <2>3. ledger' \in [LedgerKey -> Nat]
    BY <2>1, <2>2, RowOfUser, LedgerInsertKeeps DEF Actions
  <2> QED
    BY <2>2, <2>3, BumpedCounts DEF TypeOK, DeleteRow
<1>3. CASE Outcome(u, attempt) = "Solved"
  <2>1. HasRow(u)
    BY <1>3 DEF Outcome, Live
  <2>2. /\ DeleteRow(u)
        /\ verified' = verified \cup {u}
        /\ LedgerInsert(u, "verify", challenge[u].message)
        /\ stats' = Bumped({"captcha_solved", "users_verified"})
        /\ UNCHANGED <<issued, rendering, batch>>
    BY <1>3 DEF solve
  <2>3. ledger' \in [LedgerKey -> Nat]
    BY <2>1, <2>2, RowOfUser, LedgerInsertKeeps DEF Actions
  <2> QED
    BY <2>2, <2>3, BumpedCounts DEF TypeOK, DeleteRow
<1>4. CASE Outcome(u, attempt) = "WrongFinal"
  <2>1. HasRow(u)
    BY <1>4 DEF Outcome, Live
  <2>2. /\ DeleteRow(u)
        /\ LedgerInsert(u, "captcha_failed", challenge[u].message)
        /\ UNCHANGED <<verified, stats, issued, rendering, batch>>
    BY <1>4 DEF solve
  <2>3. ledger' \in [LedgerKey -> Nat]
    BY <2>1, <2>2, RowOfUser, LedgerInsertKeeps DEF Actions
  <2> QED
    BY <2>2, <2>3 DEF TypeOK, DeleteRow
<1>5. CASE Outcome(u, attempt) = "WrongLeft"
  <2>1. HasRow(u) /\ challenge[u].attempts > 1
    BY <1>5 DEF Outcome, Live
  <2>2. SpendAttempt(u) /\ UNCHANGED <<verified, ledger, stats, issued, rendering, batch>>
    BY <1>5 DEF solve
  <2>3. [challenge[u] EXCEPT !.attempts = @ - 1] \in Row
    BY <2>1, RowOfUser, ConstantsOK DEF Row
  <2>4. challenge' \in [Users -> Row \cup {NoRow}]
    BY <2>2, <2>3 DEF SpendAttempt, TypeOK
  <2> QED
    BY <2>2, <2>4 DEF TypeOK
<1> QED
  BY <1>1, <1>2, <1>3, <1>4, <1>5 DEF solve

LEMMA TypeVerify ==
  ASSUME TypeOK, NEW u \in Users, verify_manual(u)
  PROVE  TypeOK'
<1>1. CASE u \in verified
  BY <1>1 DEF verify_manual, TypeOK
<1>2. CASE u \notin verified
  <2> DEFINE m == IF HasRow(u) THEN challenge[u].message ELSE NoMessage
  <2>1. m \in MessageIds
    BY RowOfUser DEF MessageIds
  <2>2. /\ DeleteRow(u)
        /\ verified' = verified \cup {u}
        /\ LedgerInsert(u, "verify", m)
        /\ stats' = Bumped({"users_verified"})
        /\ UNCHANGED <<issued, rendering, batch>>
    BY <1>2 DEF verify_manual
  <2>3. ledger' \in [LedgerKey -> Nat]
    BY <2>1, <2>2, LedgerInsertKeeps DEF Actions
  <2> QED
    BY <2>2, <2>3, BumpedCounts DEF TypeOK, DeleteRow
<1> QED
  BY <1>1, <1>2

LEMMA TypeSweep ==
  ASSUME TypeOK, sweep_expired_batch
  PROVE  TypeOK'
<1>1. PICK S \in Swept :
        /\ batch' = {[user |-> u, message |-> challenge[u].message,
                      step |-> "photo"] : u \in S}
        /\ challenge' = [u \in Users |-> IF u \in S THEN NoRow ELSE challenge[u]]
  BY DEF sweep_expired_batch
<1>2. S \subseteq Users /\ \A u \in S : HasRow(u)
  BY DEF Swept, Expired
<1>3. \A u \in S : [user |-> u, message |-> challenge[u].message,
                    step |-> "photo"] \in SweptRow
  BY <1>2, RowOfUser DEF SweptRow, MessageIds
<1> QED
  BY <1>1, <1>2, <1>3 DEF TypeOK, sweep_expired_batch

LEMMA TypeProcess ==
  ASSUME TypeOK, NEW row \in batch, process_expired(row)
  PROVE  TypeOK'
<1>1. row \in SweptRow
  BY DEF TypeOK
<1>2. CASE photo_done(row)
  <2>1. [row EXCEPT !.step = "ledger"] \in SweptRow
    BY <1>1 DEF SweptRow
  <2> QED
    BY <1>2, <2>1 DEF photo_done, TypeOK
<1>3. CASE ledger_expired(row)
  <2>1. [row EXCEPT !.step = "stat"] \in SweptRow
    BY <1>1 DEF SweptRow
  <2>2. row.user \in Users /\ row.message \in MessageIds
    BY <1>1 DEF SweptRow, MessageIds
  <2>3. ledger' \in [LedgerKey -> Nat]
    BY <1>3, <2>2, LedgerInsertKeeps DEF ledger_expired, Actions
  <2> QED
    BY <1>3, <2>1, <2>3 DEF ledger_expired, TypeOK
<1>4. CASE count_expired(row)
  BY <1>4, BumpedCounts DEF count_expired, TypeOK
<1>5. CASE fail_expired(row)
  BY <1>5 DEF fail_expired, TypeOK
<1> QED
  BY <1>2, <1>3, <1>4, <1>5 DEF process_expired

LEMMA TypeTick ==
  ASSUME TypeOK, Tick
  PROVE  TypeOK'
<1>1. \A u \in Users : Live(u) => [challenge[u] EXCEPT !.ttl = @ - 1] \in Row
  <2> SUFFICES ASSUME NEW u \in Users, Live(u)
               PROVE  [challenge[u] EXCEPT !.ttl = @ - 1] \in Row
    OBVIOUS
  <2> QED
    BY RowOfUser, ConstantsOK DEF Live, Row
<1>2. challenge' \in [Users -> Row \cup {NoRow}]
  BY <1>1 DEF Tick, TypeOK
<1> QED
  BY <1>2 DEF Tick, TypeOK

LEMMA TypeStep == TypeOK /\ [Next]_vars => TypeOK'
<1> SUFFICES ASSUME TypeOK, [Next]_vars
             PROVE  TypeOK'
  OBVIOUS
<1>1. ASSUME NEW u \in Users, issue_challenge(u) \/ verify_manual(u)
      PROVE  TypeOK'
  BY <1>1, TypeIssue, TypeVerify
<1>2. ASSUME NEW id \in rendering, finish_issue(id) \/ fail_issue(id)
      PROVE  TypeOK'
  <2>1. stats' \in [Metrics -> Nat]
    BY <1>2, BumpedCounts DEF finish_issue, fail_issue, TypeOK
  <2>2. rendering' \subseteq rendering /\ issued' = issued
    BY <1>2 DEF finish_issue, fail_issue
  <2>3. UNCHANGED <<challenge, verified, ledger, batch>>
    BY <1>2 DEF finish_issue, fail_issue
  <2> QED
    BY <2>1, <2>2, <2>3 DEF TypeOK
<1>3. ASSUME NEW u \in Users, NEW m \in Messages, record_message_id(u, m)
      PROVE  TypeOK'
  <2>1. HasRow(u) => [challenge[u] EXCEPT !.message = m] \in Row
    BY RowOfUser DEF Row
  <2>2. challenge' \in [Users -> Row \cup {NoRow}]
    BY <1>3, <2>1 DEF record_message_id, TypeOK
  <2> QED
    BY <1>3, <2>2 DEF record_message_id, TypeOK
<1>4. ASSUME NEW u \in Users, NEW attempt \in Solutions, solve(u, attempt)
      PROVE  TypeOK'
  BY <1>4, TypeSolve
<1>5. CASE Sweeper
  BY <1>5, TypeSweep, TypeProcess DEF Sweeper
<1>6. CASE shutdown_mid_batch
  BY <1>6 DEF shutdown_mid_batch, TypeOK
<1>7. CASE Crash
  BY <1>7 DEF Crash, TypeOK
<1>8. CASE Tick
  BY <1>8, TypeTick
<1>9. CASE UNCHANGED vars
  BY <1>9 DEF vars, TypeOK
<1> QED
  BY <1>1, <1>2, <1>3, <1>4, <1>5, <1>6, <1>7, <1>8, <1>9 DEF Next

\* The tables hold what their columns allow, whoever calls the service.
THEOREM TypeCorrect == Spec => []TypeOK
BY TypeInit, TypeStep, PTL DEF Spec

-----------------------------------------------------------------------------
(* The audit trail *)

\* No step removes a row of the ledger.
LEMMA LedgerGrows ==
  ASSUME TypeOK, [Next]_vars
  PROVE  \A k \in LedgerKey : ledger'[k] >= ledger[k]
<1> DEFINE Grows == \A k \in LedgerKey : ledger'[k] >= ledger[k]
<1>1. ledger' = ledger => Grows
  BY DEF TypeOK
<1>2. ASSUME NEW u \in Users, NEW attempt \in Solutions, solve(u, attempt)
      PROVE  Grows
  <2>1. CASE ~HasRow(u)
    <3>1. Outcome(u, attempt) \in {"AlreadyVerified", "NotFound"}
      BY <2>1 DEF Outcome, Live
    <3> QED
      BY <3>1, <1>2, <1>1 DEF solve
  <2>2. CASE HasRow(u)
    <3>1. \/ ledger' = ledger
          \/ \E action \in Actions : LedgerInsert(u, action, challenge[u].message)
      BY <1>2 DEF solve, Actions
    <3> QED
      BY <3>1, <2>2, <1>1, RowOfUser, LedgerInsertKeeps
  <2> QED
    BY <2>1, <2>2
<1>3. ASSUME NEW u \in Users, verify_manual(u)
      PROVE  Grows
  <2> DEFINE m == IF HasRow(u) THEN challenge[u].message ELSE NoMessage
  <2>1. m \in MessageIds
    BY RowOfUser DEF MessageIds
  <2>2. ledger' = ledger \/ LedgerInsert(u, "verify", m)
    BY <1>3 DEF verify_manual
  <2> QED
    BY <2>1, <2>2, <1>1, LedgerInsertKeeps DEF Actions
<1>4. ASSUME NEW row \in batch, process_expired(row)
      PROVE  Grows
  <2>1. row.user \in Users /\ row.message \in MessageIds
    BY DEF TypeOK, SweptRow, MessageIds
  <2>2. \/ ledger' = ledger
        \/ LedgerInsert(row.user, "captcha_expired", row.message)
    BY <1>4 DEF process_expired, photo_done, ledger_expired, count_expired,
                fail_expired
  <2> QED
    BY <2>1, <2>2, <1>1, LedgerInsertKeeps DEF Actions
<1>5. \/ ledger' = ledger
      \/ \E u \in Users, attempt \in Solutions : solve(u, attempt)
      \/ \E u \in Users : verify_manual(u)
      \/ \E row \in batch : process_expired(row)
  BY DEF Next, Sweeper, issue_challenge, finish_issue, fail_issue,
         record_message_id, sweep_expired_batch, shutdown_mid_batch, Crash,
         Tick, vars
<1> QED
  BY <1>1, <1>2, <1>3, <1>4, <1>5

\* Who is verified by a step is audited by the same step.
LEMMA NewlyVerifiedAreAudited ==
  ASSUME TypeOK, [Next]_vars, NEW v \in verified', v \notin verified
  PROVE  \E m \in MessageIds :
           ledger'[[user |-> v, action |-> "verify", message |-> m]] > 0
<1>1. \/ \E u \in Users, attempt \in Solutions : solve(u, attempt)
      \/ \E u \in Users : verify_manual(u)
  BY DEF Next, Sweeper, process_expired, issue_challenge, finish_issue,
         fail_issue, record_message_id, sweep_expired_batch, photo_done,
         ledger_expired, count_expired, fail_expired, shutdown_mid_batch,
         Crash, Tick, vars
<1>2. ASSUME NEW u \in Users, NEW attempt \in Solutions, solve(u, attempt)
      PROVE  /\ v = u /\ HasRow(u)
             /\ LedgerInsert(u, "verify", challenge[u].message)
  <2>1. Outcome(u, attempt) = "Solved"
    BY <1>2 DEF solve
  <2> QED
    BY <1>2, <2>1 DEF solve, Outcome, Live
<1>3. ASSUME NEW u \in Users, verify_manual(u)
      PROVE  v = u /\ \E m \in MessageIds : LedgerInsert(u, "verify", m)
  <2> DEFINE m == IF HasRow(u) THEN challenge[u].message ELSE NoMessage
  <2>1. m \in MessageIds
    BY RowOfUser DEF MessageIds
  <2>2. v = u /\ LedgerInsert(u, "verify", m)
    BY <1>3 DEF verify_manual
  <2> QED
    BY <2>1, <2>2
<1> QED
  BY <1>1, <1>2, <1>3, RowOfUser, LedgerInsertKeeps DEF Actions

\* Nobody is verified without an audit row saying so, although each insert of
\* that row is allowed to conflict with one that is there.
THEOREM VerifiedStayAudited == Spec => []VerifiedAreAudited
<1>1. Init => VerifiedAreAudited
  BY DEF Init, VerifiedAreAudited
<1>2. TypeOK /\ VerifiedAreAudited /\ [Next]_vars => VerifiedAreAudited'
  <2> SUFFICES ASSUME TypeOK, VerifiedAreAudited, [Next]_vars,
                      NEW v \in verified'
               PROVE  \E m \in MessageIds :
                 ledger'[[user |-> v, action |-> "verify", message |-> m]] > 0
    BY DEF VerifiedAreAudited, MessageIds
  <2>1. CASE v \in verified
    <3>1. PICK m \in MessageIds :
            ledger[[user |-> v, action |-> "verify", message |-> m]] > 0
      BY <2>1 DEF VerifiedAreAudited, MessageIds
    <3> DEFINE key == [user |-> v, action |-> "verify", message |-> m]
    <3>2. key \in LedgerKey
      BY <2>1 DEF LedgerKey, TypeOK, MessageIds, Actions
    <3>3. ledger[key] \in Nat /\ ledger'[key] \in Nat
      BY <3>2, TypeStep DEF TypeOK
    <3>4. ledger'[key] >= ledger[key]
      BY <3>2, LedgerGrows
    <3> QED
      BY <3>1, <3>3, <3>4
  <2>2. CASE v \notin verified
    BY <2>2, NewlyVerifiedAreAudited
  <2> QED
    BY <2>1, <2>2
<1> QED
  BY <1>1, <1>2, TypeCorrect, PTL DEF Spec

-----------------------------------------------------------------------------
(* Challenges only run down *)

\* The id of a row was drawn: the next one drawn is another.
IdsIssued == \A u \in Users : HasRow(u) => challenge[u].id <= issued

LEMMA IdsStayIssued == Spec => []IdsIssued
<1>1. Init => IdsIssued
  BY DEF Init, IdsIssued, HasRow
<1>2. TypeOK /\ IdsIssued /\ [Next]_vars => IdsIssued'
  <2> SUFFICES ASSUME TypeOK, IdsIssued, [Next]_vars
               PROVE  IdsIssued'
    OBVIOUS
  <2> USE DEF IdsIssued, HasRow
  <2>1. ASSUME NEW u \in Users, issue_challenge(u)
        PROVE  IdsIssued'
    BY <2>1, ConstantsOK DEF issue_challenge, FreshRow, TypeOK, Row, ChallengeIds
  <2>2. ASSUME issued' = issued,
               \A u \in Users : HasRow(u)' =>
                 HasRow(u) /\ challenge'[u].id = challenge[u].id
        PROVE  IdsIssued'
    BY <2>2
  <2>3. ASSUME NEW u \in Users, verify_manual(u)
        PROVE  IdsIssued'
    BY <2>3, <2>2 DEF verify_manual, DeleteRow, TypeOK
  <2>4. ASSUME NEW id \in rendering, finish_issue(id) \/ fail_issue(id)
        PROVE  IdsIssued'
    BY <2>4, <2>2 DEF finish_issue, fail_issue
  <2>5. ASSUME NEW u \in Users, NEW m \in Messages, record_message_id(u, m)
        PROVE  IdsIssued'
    BY <2>5, <2>2 DEF record_message_id, TypeOK, Row
  <2>6. ASSUME NEW u \in Users, NEW attempt \in Solutions, solve(u, attempt)
        PROVE  IdsIssued'
    <3>1. issued' = issued
      BY <2>6 DEF solve
    <3>2. CASE UNCHANGED challenge
      BY <3>1, <3>2
    <3>3. CASE DeleteRow(u)
      BY <3>1, <3>3, <2>2 DEF DeleteRow, TypeOK
    <3>4. CASE HasRow(u) /\ SpendAttempt(u)
      BY <3>1, <3>4, <2>2 DEF SpendAttempt, TypeOK, Row
    <3>5. Outcome(u, attempt) = "WrongLeft" => HasRow(u)
      BY DEF Outcome, Live
    <3> QED
      BY <2>6, <3>2, <3>3, <3>4, <3>5 DEF solve
  <2>7. CASE Sweeper
    <3>1. CASE sweep_expired_batch
      BY <3>1, <2>2 DEF sweep_expired_batch
    <3>2. ASSUME NEW row \in batch, process_expired(row)
          PROVE  UNCHANGED <<challenge, issued>>
      BY <3>2 DEF process_expired, photo_done, ledger_expired, count_expired,
                  fail_expired
    <3> QED
      BY <2>7, <3>1, <3>2, <2>2 DEF Sweeper
  <2>8. CASE Tick
    <3>1. \A u \in Users : HasRow(u)' =>
            HasRow(u) /\ challenge'[u].id = challenge[u].id
      BY <2>8 DEF Tick, Live, TypeOK, Row
    <3> QED
      BY <2>8, <3>1, <2>2 DEF Tick
  <2>9. CASE shutdown_mid_batch \/ Crash \/ UNCHANGED vars
    BY <2>9, <2>2 DEF shutdown_mid_batch, Crash, vars
  <2> QED
    BY <2>1, <2>3, <2>4, <2>5, <2>6, <2>7, <2>8, <2>9 DEF Next
<1> QED
  BY <1>1, <1>2, TypeCorrect, PTL DEF Spec

\* What a step may do to one row, said once for all actions.
RunsDown(u) ==
  HasRow(u) /\ HasRow(u)' /\ challenge[u].id = challenge'[u].id
    => /\ challenge'[u].ttl <= challenge[u].ttl
       /\ challenge'[u].attempts <= challenge[u].attempts

LEMMA RowRunsDown ==
  ASSUME TypeOK, IdsIssued, [Next]_vars, NEW v \in Users
  PROVE  RunsDown(v)
<1> SUFFICES ASSUME HasRow(v), HasRow(v)', challenge[v].id = challenge'[v].id
             PROVE  /\ challenge'[v].ttl <= challenge[v].ttl
                    /\ challenge'[v].attempts <= challenge[v].attempts
  BY DEF RunsDown
<1> DEFINE Down == /\ challenge'[v].ttl <= challenge[v].ttl
                   /\ challenge'[v].attempts <= challenge[v].attempts
<1>1. /\ challenge[v].ttl \in Nat /\ challenge[v].attempts \in Nat
      /\ challenge[v].id \in Nat /\ challenge[v] \in Row
  BY RowOfUser, ConstantsOK DEF ChallengeIds
<1>2. challenge'[v] = challenge[v] => Down
  BY <1>1
<1>3. ASSUME NEW u \in Users, issue_challenge(u)
      PROVE  Down
  <2>1. CASE u = v
    <3>1. challenge'[v].id = issued + 1
      BY <1>3, <2>1 DEF issue_challenge, FreshRow, TypeOK
    <3>2. challenge[v].id <= issued /\ issued \in Nat
      BY ConstantsOK DEF IdsIssued, TypeOK
    <3> QED
      BY <3>1, <3>2, <1>1
  <2>2. CASE u # v
    BY <1>2, <1>3, <2>2 DEF issue_challenge, TypeOK
  <2> QED
    BY <2>1, <2>2
<1>4. ASSUME NEW u \in Users, verify_manual(u)
      PROVE  Down
  BY <1>2, <1>4 DEF verify_manual, DeleteRow, TypeOK, HasRow
<1>5. ASSUME NEW u \in Users, NEW m \in Messages, record_message_id(u, m)
      PROVE  Down
  BY <1>1, <1>2, <1>5 DEF record_message_id, TypeOK, Row
<1>6. ASSUME NEW u \in Users, NEW attempt \in Solutions, solve(u, attempt)
      PROVE  Down
  <2>1. CASE UNCHANGED challenge
    BY <2>1, <1>2
  <2>2. CASE DeleteRow(u)
    BY <2>2, <1>2 DEF DeleteRow, TypeOK, HasRow
  <2>3. CASE SpendAttempt(u)
    <3>1. u # v => challenge'[v] = challenge[v]
      BY <2>3 DEF SpendAttempt, TypeOK
    <3>2. u = v => /\ challenge'[v].ttl = challenge[v].ttl
                   /\ challenge'[v].attempts = challenge[v].attempts - 1
      BY <2>3, <1>1 DEF SpendAttempt, TypeOK, Row
    <3> QED
      BY <3>1, <3>2, <1>1, <1>2
  <2> QED
    BY <1>6, <2>1, <2>2, <2>3 DEF solve
<1>7. CASE Sweeper
  <2>1. CASE sweep_expired_batch
    BY <2>1, <1>2 DEF sweep_expired_batch, HasRow
  <2>2. ASSUME NEW row \in batch, process_expired(row)
        PROVE  UNCHANGED challenge
    BY <2>2 DEF process_expired, photo_done, ledger_expired, count_expired,
                fail_expired
  <2> QED
    BY <1>2, <1>7, <2>1, <2>2 DEF Sweeper
<1>8. CASE Tick
  <2>1. CASE Live(v)
    <3>1. challenge'[v] = [challenge[v] EXCEPT !.ttl = @ - 1]
      BY <1>8, <2>1 DEF Tick
    <3> QED
      BY <3>1, <1>1 DEF Row
  <2>2. CASE ~Live(v)
    BY <1>2, <1>8, <2>2 DEF Tick
  <2> QED
    BY <2>1, <2>2
<1>9. UNCHANGED challenge => Down
  BY <1>2
<1> QED
  BY <1>3, <1>4, <1>5, <1>6, <1>7, <1>8, <1>9
     DEF Next, finish_issue, fail_issue, shutdown_mid_batch, Crash, vars

\* Time and attempts of a challenge only run down, whatever is answered.
THEOREM ChallengesRunDown == Spec => ChallengeOnlyRunsDown
<1>1. TypeOK /\ IdsIssued /\ [Next]_vars =>
        [\A u \in Users :
           HasRow(u) /\ HasRow(u)' /\ challenge[u].id = challenge'[u].id
           => /\ challenge'[u].ttl <= challenge[u].ttl
              /\ challenge'[u].attempts <= challenge[u].attempts]_vars
  BY RowRunsDown DEF RunsDown
<1> QED
  BY <1>1, TypeCorrect, IdsStayIssued, PTL DEF Spec, ChallengeOnlyRunsDown

-----------------------------------------------------------------------------
(* Accounts *)

Rows == {u \in Users : HasRow(u)}

\* OutcomesAccounted speaks of the size of batch, so it is kept finite.
AccountInv == OutcomesAccounted /\ IsFiniteSet(batch)

\* The numbers OutcomesAccounted adds up.
LEMMA AccountTypes ==
  ASSUME TypeOK, IsFiniteSet(batch)
  PROVE  /\ stats["captcha_solved"] \in Nat /\ stats["captcha_expired"] \in Nat
         /\ issued \in Nat
         /\ IsFiniteSet(Rows) /\ Cardinality(Rows) \in Nat
         /\ Cardinality(batch) \in Nat
<1>1. IsFiniteSet(Rows)
  BY ConstantsOK, FS_Subset DEF Rows
<1> QED
  BY <1>1, ConstantsOK, FS_CardinalityType DEF TypeOK, Metrics

\* Deleting the row of a user who has one leaves one row less.
LEMMA RowsAfterDelete ==
  ASSUME TypeOK, IsFiniteSet(Rows), NEW u \in Users, DeleteRow(u)
  PROVE  /\ HasRow(u) => Cardinality(Rows') = Cardinality(Rows) - 1
         /\ ~HasRow(u) => Rows' = Rows
<1>1. Rows' = Rows \ {u}
  BY DEF Rows, HasRow, DeleteRow, TypeOK
<1>2. u \in Rows <=> HasRow(u)
  BY DEF Rows
<1> QED
  BY <1>1, <1>2, FS_RemoveElement

\* A sweep moves rows into the batch: together they do not become more.
LEMMA SweepMovesRows ==
  ASSUME TypeOK, IsFiniteSet(Rows), sweep_expired_batch
  PROVE  /\ IsFiniteSet(batch')
         /\ Cardinality(Rows') + Cardinality(batch') <= Cardinality(Rows)
<1>1. PICK S \in Swept :
        /\ batch' = {[user |-> u, message |-> challenge[u].message,
                      step |-> "photo"] : u \in S}
        /\ challenge' = [u \in Users |-> IF u \in S THEN NoRow ELSE challenge[u]]
  BY DEF sweep_expired_batch
<1>2. S \subseteq Rows
  BY DEF Swept, Expired, Rows
<1>3. Rows' = Rows \ S
  BY <1>1 DEF Rows, HasRow
<1>4. IsFiniteSet(S) /\ IsFiniteSet(Rows \ S)
  BY <1>2, FS_Subset
<1>5. Cardinality(Rows) = Cardinality(Rows \ S) + Cardinality(S)
  <2>1. Rows = (Rows \ S) \cup S /\ (Rows \ S) \cap S = {}
    BY <1>2
  <2>2. Cardinality((Rows \ S) \cup S) =
          Cardinality(Rows \ S) + Cardinality(S) - Cardinality((Rows \ S) \cap S)
    BY <1>4, FS_Union
  <2>3. Cardinality((Rows \ S) \cap S) = 0
    BY <2>1, FS_EmptySet
  <2>4. Cardinality(Rows \ S) \in Nat /\ Cardinality(S) \in Nat
    BY <1>4, FS_CardinalityType
  <2> QED
    BY <2>1, <2>2, <2>3, <2>4
<1>6. IsFiniteSet(batch') /\ Cardinality(batch') <= Cardinality(S)
  <2> DEFINE f == [u \in S |-> [user |-> u, message |-> challenge[u].message,
                                step |-> "photo"]]
  <2>1. f \in Surjection(S, batch')
    BY <1>1 DEF Surjection
  <2> QED
    BY <2>1, <1>4, FS_Surjection
<1> QED
  BY <1>3, <1>4, <1>5, <1>6, FS_CardinalityType

\* Processing a row of the batch never makes it larger, and counting takes the
\* row that is counted out of it.
LEMMA ProcessTakesRow ==
  ASSUME IsFiniteSet(batch), NEW row \in batch
  PROVE  /\ IsFiniteSet(batch \ {row})
         /\ Cardinality(batch \ {row}) = Cardinality(batch) - 1
         /\ \A next : /\ IsFiniteSet((batch \ {row}) \cup {next})
                      /\ Cardinality((batch \ {row}) \cup {next}) <= Cardinality(batch)
<1>1. IsFiniteSet(batch \ {row}) /\ Cardinality(batch \ {row}) = Cardinality(batch) - 1
  BY FS_RemoveElement
<1>2. Cardinality(batch) \in Nat
  BY FS_CardinalityType
<1> QED
  BY <1>1, <1>2, FS_AddElement

LEMMA AccountSolve ==
  ASSUME TypeOK, AccountInv, NEW u \in Users, NEW attempt \in Solutions,
         solve(u, attempt)
  PROVE  AccountInv'
<1> USE DEF AccountInv, OutcomesAccounted
<1>1. UNCHANGED <<issued, batch>>
  BY DEF solve
<1>2. CASE UNCHANGED <<challenge, stats>>
  BY <1>1, <1>2 DEF HasRow
<1>3. ASSUME HasRow(u), DeleteRow(u),
             \/ stats' = stats
             \/ stats' = Bumped({"captcha_expired"})
             \/ stats' = Bumped({"captcha_solved", "users_verified"})
      PROVE  AccountInv'
  <2>1. Cardinality(Rows') = Cardinality(Rows) - 1
    BY <1>3, AccountTypes, RowsAfterDelete
  <2>2. stats'["captcha_solved"] + stats'["captcha_expired"]
          <= stats["captcha_solved"] + stats["captcha_expired"] + 1
    BY <1>3, AccountTypes, BumpedCounts DEF Metrics
  <2>3. /\ stats'["captcha_solved"] \in Nat
        /\ stats'["captcha_expired"] \in Nat
    BY <1>3, AccountTypes, BumpedCounts DEF Metrics
  <2> QED
    BY <1>1, <2>1, <2>2, <2>3, AccountTypes DEF Rows
<1>4. Outcome(u, attempt) = "WrongLeft" => HasRow(u)
  BY DEF Outcome, Live
<1>5. Outcome(u, attempt) \in {"Expired", "Solved", "WrongFinal"} => HasRow(u)
  BY DEF Outcome, Live
<1>6. CASE HasRow(u) /\ SpendAttempt(u) /\ stats' = stats
  <2>1. Rows' \subseteq Rows
    BY <1>6 DEF Rows, HasRow, SpendAttempt, TypeOK
  <2>2. Cardinality(Rows') <= Cardinality(Rows) /\ Cardinality(Rows') \in Nat
    BY <2>1, AccountTypes, FS_Subset, FS_CardinalityType
  <2> QED
    BY <1>1, <1>6, <2>2, AccountTypes DEF Rows
<1> QED
  BY <1>2, <1>3, <1>4, <1>5, <1>6 DEF solve

LEMMA AccountStep == TypeOK /\ AccountInv /\ [Next]_vars => AccountInv'
<1> SUFFICES ASSUME TypeOK, AccountInv, [Next]_vars
             PROVE  AccountInv'
  OBVIOUS
<1> USE DEF AccountInv, OutcomesAccounted
\* Most steps count nothing and make neither rows nor batch larger.
<1>1. ASSUME UNCHANGED <<stats, issued>>, Rows' \subseteq Rows,
             IsFiniteSet(batch'), Cardinality(batch') <= Cardinality(batch)
      PROVE  AccountInv'
  <2>1. Cardinality(Rows') <= Cardinality(Rows) /\ Cardinality(Rows') \in Nat
    BY <1>1, AccountTypes, FS_Subset, FS_CardinalityType
  <2>2. Cardinality(batch') \in Nat
    BY <1>1, FS_CardinalityType
  <2> QED
    BY <1>1, <2>1, <2>2, AccountTypes DEF Rows
<1>2. ASSUME NEW u \in Users, issue_challenge(u)
      PROVE  AccountInv'
  <2>1. Rows' \subseteq Rows \cup {u}
    BY <1>2 DEF issue_challenge, Rows, HasRow, TypeOK
  <2>2. IsFiniteSet(Rows \cup {u}) /\ Cardinality(Rows \cup {u}) <= Cardinality(Rows) + 1
    <3>1. IsFiniteSet(Rows) /\ Cardinality(Rows) \in Nat
      BY AccountTypes
    <3>2. /\ IsFiniteSet(Rows \cup {u})
          /\ Cardinality(Rows \cup {u}) =
               IF u \in Rows THEN Cardinality(Rows) ELSE Cardinality(Rows) + 1
      BY <3>1, FS_AddElement
    <3> QED
      BY <3>1, <3>2
  <2>3. Cardinality(Rows') <= Cardinality(Rows) + 1 /\ Cardinality(Rows') \in Nat
    BY <2>1, <2>2, AccountTypes, FS_Subset, FS_CardinalityType
  <2>4. issued' = issued + 1 /\ UNCHANGED <<stats, batch>>
    BY <1>2 DEF issue_challenge
  <2> QED
    BY <2>3, <2>4, AccountTypes DEF Rows
<1>3. ASSUME NEW u \in Users, verify_manual(u)
      PROVE  AccountInv'
  <2>1. UNCHANGED <<issued, batch>>
    BY <1>3 DEF verify_manual
  <2>2. Rows' \subseteq Rows
    BY <1>3 DEF verify_manual, DeleteRow, Rows, HasRow, TypeOK
  <2>3. Cardinality(Rows') <= Cardinality(Rows) /\ Cardinality(Rows') \in Nat
    BY <2>2, AccountTypes, FS_Subset, FS_CardinalityType
  <2>4. /\ stats'["captcha_solved"] = stats["captcha_solved"]
        /\ stats'["captcha_expired"] = stats["captcha_expired"]
    BY <1>3, BumpedCounts DEF verify_manual, Metrics
  <2> QED
    BY <2>1, <2>3, <2>4, AccountTypes DEF Rows
<1>4. ASSUME NEW id \in rendering, finish_issue(id) \/ fail_issue(id)
      PROVE  AccountInv'
  <2>1. /\ stats'["captcha_solved"] = stats["captcha_solved"]
        /\ stats'["captcha_expired"] = stats["captcha_expired"]
    BY <1>4, BumpedCounts DEF finish_issue, fail_issue, Metrics
  <2>2. UNCHANGED <<challenge, issued, batch>>
    BY <1>4 DEF finish_issue, fail_issue
  <2> QED
    BY <2>1, <2>2 DEF HasRow
<1>5. ASSUME NEW u \in Users, NEW m \in Messages, record_message_id(u, m)
      PROVE  AccountInv'
  <2>1. Rows' \subseteq Rows
    BY <1>5 DEF record_message_id, Rows, HasRow, TypeOK
  <2> QED
    BY <1>1, <1>5, <2>1, AccountTypes DEF record_message_id
<1>6. ASSUME NEW u \in Users, NEW attempt \in Solutions, solve(u, attempt)
      PROVE  AccountInv'
  BY <1>6, AccountSolve
<1>7. CASE sweep_expired_batch
  <2>1. /\ IsFiniteSet(batch')
        /\ Cardinality(Rows') + Cardinality(batch') <= Cardinality(Rows)
    BY <1>7, AccountTypes, SweepMovesRows
  <2>2. UNCHANGED <<stats, issued>> /\ batch = {}
    BY <1>7 DEF sweep_expired_batch
  <2>3. Cardinality(Rows') \in Nat /\ Cardinality(batch') \in Nat
    <3>1. Rows' \subseteq Users
      BY DEF Rows
    <3> QED
      BY <2>1, <3>1, ConstantsOK, FS_Subset, FS_CardinalityType
  <2> QED
    BY <2>1, <2>2, <2>3, AccountTypes, FS_EmptySet DEF Rows
<1>8. ASSUME NEW row \in batch, process_expired(row)
      PROVE  AccountInv'
  <2>1. CASE photo_done(row) \/ ledger_expired(row) \/ fail_expired(row)
    <3>1. UNCHANGED <<challenge, stats, issued>>
      BY <2>1 DEF photo_done, ledger_expired, fail_expired
    <3>2. Rows' = Rows
      BY <3>1 DEF Rows, HasRow
    <3>3. IsFiniteSet(batch') /\ Cardinality(batch') <= Cardinality(batch)
      <4>1. Cardinality(batch) \in Nat
        BY AccountTypes
      <4>2. \/ batch' = batch \ {row}
            \/ \E next : batch' = (batch \ {row}) \cup {next}
        BY <2>1 DEF photo_done, ledger_expired, fail_expired
      <4>3. /\ IsFiniteSet(batch \ {row})
            /\ Cardinality(batch \ {row}) = Cardinality(batch) - 1
        BY ProcessTakesRow
      <4>4. \A next : /\ IsFiniteSet((batch \ {row}) \cup {next})
                     /\ Cardinality((batch \ {row}) \cup {next}) <= Cardinality(batch)
        BY ProcessTakesRow
      <4>5. CASE batch' = batch \ {row}
        BY <4>1, <4>3, <4>5
      <4>6. ASSUME NEW next, batch' = (batch \ {row}) \cup {next}
            PROVE  IsFiniteSet(batch') /\ Cardinality(batch') <= Cardinality(batch)
        BY <4>4, <4>6, Zenon
      <4> QED
        BY <4>2, <4>5, <4>6
    <3> QED
      BY <3>1, <3>2, <3>3, <1>1
  <2>2. CASE count_expired(row)
    <3>1. IsFiniteSet(batch') /\ Cardinality(batch') = Cardinality(batch) - 1
      BY <2>2, ProcessTakesRow DEF count_expired
    <3>2. /\ stats'["captcha_solved"] = stats["captcha_solved"]
          /\ stats'["captcha_expired"] = stats["captcha_expired"] + 1
      BY <2>2, BumpedCounts DEF count_expired, Metrics
    <3>3. UNCHANGED <<challenge, issued>>
      BY <2>2 DEF count_expired
    <3>4. Rows' = Rows
      BY <3>3 DEF Rows, HasRow
    <3>5. /\ stats["captcha_solved"] \in Nat /\ stats["captcha_expired"] \in Nat
          /\ issued \in Nat
          /\ Cardinality(Rows) \in Nat /\ Cardinality(batch) \in Nat
      BY AccountTypes
    <3>6. stats["captcha_solved"] + stats["captcha_expired"]
            + Cardinality(Rows) + Cardinality(batch) <= issued
      BY DEF Rows
    <3>7. stats'["captcha_solved"] + stats'["captcha_expired"]
            + Cardinality(Rows') + Cardinality(batch') <= issued'
      BY <3>1, <3>2, <3>3, <3>4, <3>5, <3>6
    <3> QED
      BY <3>1, <3>7 DEF Rows
  <2> QED
    BY <1>8, <2>1, <2>2 DEF process_expired
<1>9. CASE shutdown_mid_batch \/ Crash
  <2>1. UNCHANGED <<challenge, stats, issued>> /\ batch' = {}
    BY <1>9 DEF shutdown_mid_batch, Crash
  <2>2. Rows' = Rows
    BY <2>1 DEF Rows, HasRow
  <2> QED
    BY <2>1, <2>2, <1>1, AccountTypes, FS_EmptySet
<1>10. CASE Tick
  <2>1. Rows' \subseteq Rows
    BY <1>10 DEF Tick, Live, Rows, HasRow
  <2> QED
    BY <1>1, <1>10, <2>1, AccountTypes DEF Tick
<1>11. CASE UNCHANGED vars
  BY <1>11 DEF vars, HasRow
<1> QED
  BY <1>2, <1>3, <1>4, <1>5, <1>6, <1>7, <1>8, <1>9, <1>10, <1>11 DEF Next, Sweeper

\* A challenge is counted as solved or as expired at most once, however solve
\* and the sweep meet.
THEOREM OutcomesStayAccounted == Spec => []OutcomesAccounted
<1>1. Init => AccountInv
  <2> SUFFICES ASSUME Init
               PROVE  AccountInv
    OBVIOUS
  <2>1. {u \in Users : HasRow(u)} = {} /\ batch = {}
    BY DEF Init, HasRow
  <2>2. stats["captcha_solved"] = 0 /\ stats["captcha_expired"] = 0 /\ issued = 0
    BY DEF Init, Metrics
  <2> QED
    BY <2>1, <2>2, FS_EmptySet DEF AccountInv, OutcomesAccounted
<1>2. AccountInv => OutcomesAccounted
  BY DEF AccountInv
<1> QED
  BY <1>1, <1>2, AccountStep, TypeCorrect, PTL DEF Spec

-----------------------------------------------------------------------------
(* The service implements the gate *)

\* The refinement mapping of Gate.
Chances == [u \in Users |-> IF Live(u) THEN challenge[u].attempts ELSE 0]

Passed == stats["captcha_solved"]

\* A step that verifies nobody, counts no solution and changes nobody's chances
\* is a stutter.
LEMMA GateStutters ==
  ASSUME verified' = verified, Chances' = Chances, Passed' = Passed
  PROVE  UNCHANGED Gate!vars
BY DEF Chances, Passed, Gate!vars

\* Of the counters only captcha_solved is seen by the gate.
LEMMA PassedAfterBump ==
  ASSUME TypeOK, NEW metrics, stats' = Bumped(metrics)
  PROVE  Passed' = IF "captcha_solved" \in metrics THEN Passed + 1 ELSE Passed
BY DEF TypeOK, Bumped, Metrics, Passed

\* The chances of a row that keeps its attempts and its time are kept.
LEMMA ChancesKept ==
  ASSUME \A u \in Users : \/ challenge'[u] = challenge[u]
                          \/ ~Live(u) /\ ~Live(u)'
  PROVE  Chances' = Chances
BY DEF Chances, Live, HasRow

\* The row of one user is gone, and with it its chances.
LEMMA ChancesAfterDelete ==
  ASSUME TypeOK, NEW u \in Users, DeleteRow(u)
  PROVE  Chances' = [Chances EXCEPT ![u] = 0]
BY DEF TypeOK, DeleteRow, Chances, Live, HasRow

LEMMA GateSolve ==
  ASSUME TypeOK, NEW u \in Users, NEW attempt \in Solutions, solve(u, attempt)
  PROVE  [Gate!Next]_Gate!vars
<1>1. CASE Outcome(u, attempt) \in {"AlreadyVerified", "NotFound"}
  <2>1. UNCHANGED <<challenge, verified, stats>>
    BY <1>1 DEF solve
  <2> QED
    BY <2>1, ChancesKept, GateStutters DEF Passed
<1>2. CASE Outcome(u, attempt) = "Expired"
  <2>1. ~Live(u)
    BY <1>2 DEF Outcome, Live
  <2>2. DeleteRow(u) /\ verified' = verified /\ stats' = Bumped({"captcha_expired"})
    BY <1>2 DEF solve
  <2>3. Chances' = Chances
    BY <2>1, <2>2, ChancesAfterDelete DEF Chances
  <2>4. Passed' = Passed
    BY <2>2, PassedAfterBump
  <2> QED
    BY <2>2, <2>3, <2>4, GateStutters
<1>3. CASE Outcome(u, attempt) = "Solved"
  <2>1. Live(u) /\ challenge[u].attempts > 0
    BY <1>3, RowOfUser, ConstantsOK DEF Outcome, Live
  <2>2. /\ DeleteRow(u) /\ verified' = verified \cup {u}
        /\ stats' = Bumped({"captcha_solved", "users_verified"})
    BY <1>3 DEF solve
  <2>3. Chances[u] > 0 /\ Chances' = [Chances EXCEPT ![u] = 0]
    BY <2>1, <2>2, ChancesAfterDelete DEF Chances
  <2>4. Passed' = Passed + 1
    BY <2>2, PassedAfterBump
  <2>5. Gate!Pass(u)
    BY <2>2, <2>3, <2>4 DEF Gate!Pass, Chances, Passed
  <2> QED
    BY <2>5 DEF Gate!Next
<1>4. CASE Outcome(u, attempt) = "WrongFinal"
  <2>1. Live(u) /\ challenge[u].attempts = 1
    BY <1>4, RowOfUser, ConstantsOK DEF Outcome, Live
  <2>2. DeleteRow(u) /\ UNCHANGED <<verified, stats>>
    BY <1>4 DEF solve
  <2>3. Chances[u] = 1 /\ Chances' = [Chances EXCEPT ![u] = 0]
    BY <2>1, <2>2, ChancesAfterDelete DEF Chances
  <2>4. Chances' = [Chances EXCEPT ![u] = Chances[u] - 1]
    BY <2>3
  <2>5. Gate!Miss(u)
    BY <2>2, <2>3, <2>4 DEF Gate!Miss, Chances, Passed
  <2> QED
    BY <2>5 DEF Gate!Next
<1>5. CASE Outcome(u, attempt) = "WrongLeft"
  <2>1. Live(u) /\ challenge[u].attempts > 1 /\ HasRow(u)
    BY <1>5 DEF Outcome, Live
  <2>2. SpendAttempt(u) /\ UNCHANGED <<verified, stats>>
    BY <1>5 DEF solve
  <2>3. challenge[u] \in Row /\ challenge[u].attempts \in Nat
    BY <2>1, RowOfUser, ConstantsOK
  <2>4. challenge'[u] = [challenge[u] EXCEPT !.attempts = @ - 1]
    BY <2>2 DEF SpendAttempt, TypeOK
  <2>5. challenge'[u] \in Row
    BY <2>1, <2>3, <2>4, ConstantsOK DEF Row
  <2>6. Live(u)' /\ challenge'[u].attempts = challenge[u].attempts - 1
    BY <2>1, <2>3, <2>4, <2>5, SentinelsOK DEF Live, HasRow, Row
  <2>7. \A v \in Users \ {u} : challenge'[v] = challenge[v]
    BY <2>2 DEF SpendAttempt, TypeOK
  <2>8. Chances[u] > 0 /\ Chances' = [Chances EXCEPT ![u] = Chances[u] - 1]
    <3>1. Chances[u] = challenge[u].attempts
      BY <2>1 DEF Chances
    <3>2. Chances'[u] = challenge'[u].attempts
      BY <2>6 DEF Chances
    <3>3. \A v \in Users \ {u} : Chances'[v] = Chances[v]
      BY <2>7 DEF Chances, Live, HasRow
    <3>4. Chances[u] > 0 /\ Chances'[u] = Chances[u] - 1
      BY <2>1, <2>3, <2>6, <3>1, <3>2
    <3>5. /\ Chances = [v \in Users |-> Chances[v]]
          /\ Chances' = [v \in Users |-> Chances'[v]]
      BY DEF Chances
    <3> QED
      BY <3>3, <3>4, <3>5
  <2>9. Gate!Miss(u)
    BY <2>2, <2>8 DEF Gate!Miss, Chances, Passed
  <2> QED
    BY <2>9 DEF Gate!Next
<1> QED
  BY <1>1, <1>2, <1>3, <1>4, <1>5 DEF solve

LEMMA GateStep == TypeOK /\ [Next]_vars => [Gate!Next]_Gate!vars
<1> SUFFICES ASSUME TypeOK, [Next]_vars
             PROVE  [Gate!Next]_Gate!vars
  OBVIOUS
<1>1. ASSUME NEW u \in Users, issue_challenge(u)
      PROVE  [Gate!Next]_Gate!vars
  <2>1. FreshRow(u) # NoRow
    <3>1. FreshRow(u) \in Row
      BY <1>1, ConstantsOK DEF FreshRow, Row, TypeOK, issue_challenge, ChallengeIds
    <3> QED
      BY <3>1, SentinelsOK
  <2>2. Chances' = [Chances EXCEPT ![u] = Attempts]
    <3>1. challenge'[u] = FreshRow(u)
      BY <1>1 DEF issue_challenge, TypeOK
    <3>2. Live(u)' /\ challenge'[u].attempts = Attempts
      BY <2>1, <3>1, ConstantsOK DEF FreshRow, Live, HasRow
    <3>3. Chances'[u] = Attempts
      BY <3>2 DEF Chances
    <3>4. \A v \in Users \ {u} : challenge'[v] = challenge[v]
      BY <1>1 DEF issue_challenge, TypeOK
    <3>5. \A v \in Users \ {u} : Chances'[v] = Chances[v]
      BY <3>4 DEF Chances, Live, HasRow
    <3> QED
      BY <3>3, <3>5 DEF Chances
  <2>3. Gate!Challenge(u)
    BY <1>1, <2>2 DEF issue_challenge, Gate!Challenge, Chances, Passed
  <2> QED
    BY <2>3 DEF Gate!Next
<1>2. ASSUME NEW u \in Users, verify_manual(u)
      PROVE  [Gate!Next]_Gate!vars
  <2>1. CASE u \in verified
    <3>1. UNCHANGED <<challenge, verified, stats>>
      BY <1>2, <2>1 DEF verify_manual
    <3> QED
      BY <3>1, ChancesKept, GateStutters DEF Passed
  <2>2. CASE u \notin verified
    <3>1. /\ DeleteRow(u) /\ verified' = verified \cup {u}
          /\ stats' = Bumped({"users_verified"})
      BY <1>2, <2>2 DEF verify_manual
    <3>2. Passed' = Passed
      BY <3>1, PassedAfterBump
    <3>3. Gate!Vouch(u)
      BY <2>2, <3>1, <3>2, ChancesAfterDelete DEF Gate!Vouch, Chances, Passed
    <3> QED
      BY <3>3 DEF Gate!Next
  <2> QED
    BY <2>1, <2>2
<1>3. ASSUME NEW id \in rendering, finish_issue(id) \/ fail_issue(id)
      PROVE  [Gate!Next]_Gate!vars
  <2>1. UNCHANGED <<challenge, verified>>
    BY <1>3 DEF finish_issue, fail_issue
  <2>2. Passed' = Passed
    BY <1>3, PassedAfterBump DEF finish_issue, fail_issue, Passed
  <2> QED
    BY <2>1, <2>2, ChancesKept, GateStutters
<1>4. ASSUME NEW u \in Users, NEW m \in Messages, record_message_id(u, m)
      PROVE  [Gate!Next]_Gate!vars
  <2>1. CASE HasRow(u)
    <3>1. challenge'[u] = [challenge[u] EXCEPT !.message = m]
      BY <1>4, <2>1 DEF record_message_id, TypeOK
    <3>2. challenge[u] \in Row /\ challenge'[u] \in Row
      BY <2>1, <3>1, RowOfUser DEF Row
    <3>3. /\ challenge'[u].ttl = challenge[u].ttl
          /\ challenge'[u].attempts = challenge[u].attempts
          /\ HasRow(u)'
      BY <3>1, <3>2, SentinelsOK DEF Row, HasRow
    <3>4. \A v \in Users \ {u} : challenge'[v] = challenge[v]
      BY <1>4, <2>1 DEF record_message_id, TypeOK
    <3>5. Chances' = Chances
      BY <2>1, <3>3, <3>4 DEF Chances, Live, HasRow
    <3> QED
      BY <1>4, <3>5, GateStutters DEF record_message_id, Passed
  <2>2. CASE ~HasRow(u)
    BY <1>4, <2>2, ChancesKept, GateStutters DEF record_message_id, Passed
  <2> QED
    BY <2>1, <2>2
<1>5. ASSUME NEW u \in Users, NEW attempt \in Solutions, solve(u, attempt)
      PROVE  [Gate!Next]_Gate!vars
  BY <1>5, GateSolve
<1>6. CASE sweep_expired_batch
  <2>1. \A u \in Users : \/ challenge'[u] = challenge[u]
                         \/ ~Live(u) /\ ~Live(u)'
    BY <1>6 DEF sweep_expired_batch, Swept, Expired, Live, HasRow
  <2> QED
    BY <1>6, <2>1, ChancesKept, GateStutters DEF sweep_expired_batch, Passed
<1>7. ASSUME NEW row \in batch, process_expired(row)
      PROVE  [Gate!Next]_Gate!vars
  <2>1. UNCHANGED <<challenge, verified>>
    BY <1>7 DEF process_expired, photo_done, ledger_expired, count_expired,
                fail_expired
  <2>2. Passed' = Passed
    BY <1>7, PassedAfterBump DEF process_expired, photo_done, ledger_expired,
                                 count_expired, fail_expired, Passed
  <2> QED
    BY <2>1, <2>2, ChancesKept, GateStutters
<1>8. CASE Tick
  \* The challenges that lapse are those whose last unit of time passes.
  <2> DEFINE lapsed == {u \in Users : Chances'[u] # Chances[u]}
  <2>1. ASSUME NEW u \in Users
        PROVE  Chances'[u] = Chances[u] \/ Chances'[u] = 0
    <3>1. CASE Live(u)
      <4>1. challenge[u] \in Row /\ challenge'[u] = [challenge[u] EXCEPT !.ttl = @ - 1]
        BY <1>8, <3>1, RowOfUser DEF Live, Tick
      <4>2. challenge'[u].attempts = challenge[u].attempts
        BY <4>1 DEF Row
      <4> QED
        BY <3>1, <4>2 DEF Chances
    <3>2. CASE ~Live(u)
      BY <1>8, <3>2 DEF Tick, Chances, Live, HasRow
    <3> QED
      BY <3>1, <3>2
  <2>2. PICK S \in SUBSET Users :
          Chances' = [u \in Users |-> IF u \in S THEN 0 ELSE Chances[u]]
    <3>1. Chances' = [u \in Users |-> IF u \in lapsed THEN 0 ELSE Chances[u]]
      BY <2>1 DEF Chances
    <3> QED
      BY <3>1
  <2>3. Gate!Lapse(S)
    BY <1>8, <2>2 DEF Tick, Gate!Lapse, Chances, Passed
  <2> QED
    BY <2>3 DEF Gate!Next
<1>9. CASE shutdown_mid_batch \/ Crash \/ UNCHANGED vars
  <2>1. UNCHANGED <<challenge, verified, stats>>
    BY <1>9 DEF shutdown_mid_batch, Crash, vars
  <2> QED
    BY <2>1, ChancesKept, GateStutters DEF Passed
<1> QED
  BY <1>1, <1>2, <1>3, <1>4, <1>5, <1>6, <1>7, <1>8, <1>9 DEF Next, Sweeper

\* Every behaviour of the service is one of the gate: nobody is verified but by
\* answering a live challenge or by a moderator, and nobody loses it again.
THEOREM ServiceImplementsGate == Spec => GateSpec
<1>1. Init => Gate!Init
  BY DEF Init, Gate!Init, Live, HasRow, Metrics
<1> QED
  BY <1>1, GateStep, TypeCorrect, PTL DEF Spec, GateSpec, Gate!Spec
=============================================================================
