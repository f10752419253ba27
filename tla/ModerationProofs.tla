--------------------------- MODULE ModerationProofs ----------------------------
(***************************************************************************)
(* Moderation keeps its types, records nothing Telegram has not answered,  *)
(* asks Telegram one thing at a time, counts only what is recorded and     *)
(* says "already applied" only of what is, for any number of callers,      *)
(* targets and messages and whatever fails.                                *)
(***************************************************************************)
EXTENDS Moderation, FiniteSetTheorems, TLAPS

-----------------------------------------------------------------------------
(* The inductive invariant *)

Active(c) == call[c].pc # "idle"

\* TypeOK says what the record of a caller holds, and this that it is one.
IdleCalls == [pc : {"idle"}, answer : Answers, at : {0}]
ActiveCalls == [pc : Places \ {"idle"}, answer : {"none"}, at : 1 .. MaxCalls,
                request : Request]
CallShape == call \in [Callers -> IdleCalls \cup ActiveCalls]

Clock ==
  /\ clock \in 0 .. MaxCalls
  /\ answered \subseteq 1 .. clock
  /\ ledger \subseteq LedgerRow
  /\ \A row \in ledger : row.at <= clock
  /\ \A c \in Callers : Active(c) => call[c].at <= clock

World ==
  /\ banned \in [Targets -> {"no", "until", "forever"}]
  /\ standing \subseteq Messages

\* A transaction has one caller and at most one row, which is there once it is
\* committed and not before.
OneRowEach ==
  /\ \A c, d \in Callers : Active(c) /\ Active(d) /\ call[c].at = call[d].at => c = d
  /\ \A r, s \in ledger : r.at = s.at => r = s
  /\ \A c \in Callers, row \in ledger :
       Active(c) /\ row.at = call[c].at => call[c].pc = "bump"

Answered ==
  /\ RowsWereAnswered
  /\ \A c \in Callers : call[c].pc \in {"commit", "bump"} => call[c].at \in answered

\* The row lock on the chat has one holder, and who skips it needs none.
OneHolder ==
  /\ \A c \in Callers : call[c].pc \in {"lock", "check"} => NeedsLock(call[c].request)
  /\ \A c, d \in Callers : HoldsLock(c) /\ HoldsLock(d) => c = d

\* The unique key holds among the rows of the ledger and those still open.
OneOfAKey ==
  \A c \in Callers : HoldsRow(c) =>
    /\ \A row \in ledger : ~SameKey(row, call[c].request)
    /\ \A d \in Callers \ {c} : HoldsRow(d) => ~SameKey(RowOf(d), call[c].request)

\* The callers who are about to count a row in k.
Counting(k) == {c \in Callers : call[c].pc = "bump" /\ k \in Bumped(call[c].request)}

Counted ==
  /\ stats \in [Counters -> Nat]
  /\ \A k \in Counters :
       /\ IsFiniteSet(Counting(k)) /\ IsFiniteSet(RowsOf(k))
       /\ stats[k] + Cardinality(Counting(k)) <= Cardinality(RowsOf(k))

IInv ==
  /\ CallShape /\ Clock /\ World /\ OneRowEach /\ Answered /\ OneHolder /\ OneOfAKey
  /\ Counted

-----------------------------------------------------------------------------
(* Helpers *)

\* The record of a caller who is not idle.
LEMMA ActiveCall ==
  ASSUME CallShape, NEW c \in Callers, Active(c)
  PROVE  /\ call[c] \in ActiveCalls
         /\ call[c].at \in 1 .. MaxCalls /\ call[c].request \in Request
         /\ call[c].answer = "none"
BY DEF CallShape, Active, IdleCalls, ActiveCalls

\* A caller goes on to the next place, and nobody else does.
LEMMA GoesOn ==
  ASSUME CallShape, NEW c \in Callers, Active(c), NEW pc \in Places \ {"idle"}, Goto(c, pc)
  PROVE  /\ CallShape'
         /\ call'[c].pc = pc /\ call'[c].request = call[c].request
         /\ call'[c].at = call[c].at /\ call'[c].answer = "none"
         /\ \A d \in Callers \ {c} : call'[d] = call[d]
<1>1. call' = [call EXCEPT ![c] = [call[c] EXCEPT !.pc = pc]]
  BY DEF Goto
<1>2. [call[c] EXCEPT !.pc = pc] \in ActiveCalls
  BY ActiveCall DEF ActiveCalls
<1>3. CallShape'
  BY <1>1, <1>2 DEF CallShape
<1>4. call'[c] = [call[c] EXCEPT !.pc = pc]
  BY <1>1 DEF CallShape
<1>5. \A d \in Callers \ {c} : call'[d] = call[d]
  BY <1>1 DEF CallShape
<1> QED
  BY <1>3, <1>4, <1>5, ActiveCall DEF ActiveCalls

\* A caller has its answer and is idle.
LEMMA Returns ==
  ASSUME CallShape, NEW c \in Callers, NEW answer \in Answers, Return(c, answer)
  PROVE  /\ CallShape'
         /\ call'[c].pc = "idle" /\ call'[c].answer = answer
         /\ \A d \in Callers \ {c} : call'[d] = call[d]
<1>1. [NoCall EXCEPT !.answer = answer] \in IdleCalls
  BY DEF NoCall, IdleCalls
<1>2. CallShape'
  BY <1>1 DEF Return, CallShape
<1>3. call'[c] = [NoCall EXCEPT !.answer = answer]
  BY DEF Return, CallShape
<1>4. \A d \in Callers \ {c} : call'[d] = call[d]
  BY DEF Return, CallShape
<1> QED
  BY <1>1, <1>2, <1>3, <1>4 DEF NoCall, IdleCalls

\* A request that names no message is of a kind that takes the lock.
LEMMA IdModeLocks ==
  ASSUME NEW r \in Request, r.message = NoMessage
  PROVE  NeedsLock(r)
BY ModerationConstantsOK DEF Request, NeedsLock

\* The row of a caller is a row of the ledger, and counts like its request.
LEMMA RowOfCall ==
  ASSUME CallShape, NEW c \in Callers, Active(c)
  PROVE  /\ RowOf(c) \in LedgerRow /\ RowOf(c).at = call[c].at
         /\ Bumped(RowOf(c)) = Bumped(call[c].request)
         /\ \A r : SameKey(RowOf(c), r) <=>
                     /\ r.message # NoMessage /\ call[c].request.kind = r.kind
                     /\ call[c].request.target = r.target
                     /\ call[c].request.message = r.message
<1>1. call[c].at \in 1 .. MaxCalls /\ call[c].request \in Request
  BY ActiveCall
<1>2. RowOf(c) \in LedgerRow
  BY <1>1, ModerationConstantsOK DEF RowOf, LedgerRow, Request
<1> QED
  BY <1>2 DEF RowOf, Bumped, SameKey

\* A step that keeps ledger and counters and does not touch who is counting.
LEMMA SameCounts ==
  ASSUME Counted, UNCHANGED <<ledger, stats>>, \A k \in Counters : Counting(k)' = Counting(k)
  PROVE  Counted'
BY DEF Counted, RowsOf

-----------------------------------------------------------------------------
(* The steps of apply *)

\* A caller goes on inside its transaction: what lock and key ask must be so.
LEMMA InvGoesOn ==
  ASSUME IInv, NEW c \in Callers, Active(c), call[c].pc # "bump",
         NEW pc \in {"check", "insert", "key_share", "dispatch", "commit"}, Goto(c, pc),
         UNCHANGED <<ledger, stats, clock>>, World',
         answered \subseteq answered', answered' \subseteq answered \cup {call[c].at},
         pc = "commit" => call[c].at \in answered',
         pc = "check" => NeedsLock(call[c].request),
         NeedsLock(call[c].request) =>
           HoldsLock(c) \/ \A d \in Callers \ {c} : ~HoldsLock(d),
         pc \in {"key_share", "dispatch", "commit"} =>
           \/ HoldsRow(c)
           \/ /\ \A row \in ledger : ~SameKey(row, call[c].request)
              /\ \A d \in Callers \ {c} : HoldsRow(d) => ~SameKey(RowOf(d), call[c].request)
  PROVE  IInv'
<1> USE DEF IInv
<1>1. pc \in Places \ {"idle"} /\ pc # "bump" /\ pc # "lock" /\ pc # "idle"
  BY DEF Places
<1>2. /\ CallShape'
      /\ call'[c].pc = pc /\ call'[c].request = call[c].request
      /\ call'[c].at = call[c].at
      /\ \A d \in Callers \ {c} : call'[d] = call[d]
  BY <1>1, GoesOn
<1>3. call[c].at \in 1 .. MaxCalls /\ call[c].at <= clock /\ clock \in Nat
  BY ActiveCall, ModerationConstantsOK DEF Clock
<1>4. Clock'
  <2>1. answered' \subseteq 1 .. clock
    BY <1>3 DEF Clock
  <2>2. \A d \in Callers : Active(d)' => call'[d].at <= clock
    BY <1>2, <1>3 DEF Clock, Active
  <2> QED
    BY <2>1, <2>2 DEF Clock
<1>5. OneRowEach'
  <2>1. \A d \in Callers : Active(d)' => Active(d) /\ call'[d].at = call[d].at
    BY <1>2 DEF Active
  <2>2. \A d \in Callers : call[d].pc = "bump" => call'[d].pc = "bump"
    BY <1>2
  <2> QED
    BY <2>1, <2>2 DEF OneRowEach
<1>6. Answered'
  BY <1>1, <1>2 DEF Answered, RowsWereAnswered
<1>7. OneHolder'
  <2>1. \A d \in Callers : d # c => HoldsLock(d)' = HoldsLock(d)
    BY <1>2 DEF HoldsLock
  <2>2. HoldsLock(c)' => NeedsLock(call[c].request)
    BY <1>2 DEF HoldsLock
  <2>3. \A d, e \in Callers : HoldsLock(d)' /\ HoldsLock(e)' => d = e
    BY <2>1, <2>2 DEF OneHolder
  <2> QED
    BY <1>1, <1>2, <2>3 DEF OneHolder
<1>8. OneOfAKey'
  <2>1. \A d \in Callers \ {c} : HoldsRow(d)' = HoldsRow(d) /\ RowOf(d)' = RowOf(d)
    BY <1>2 DEF HoldsRow, RowOf
  <2>2. RowOf(c)' = RowOf(c)
    BY <1>2 DEF RowOf
  <2>3. HoldsRow(c)' =>
          /\ \A row \in ledger : ~SameKey(row, call[c].request)
          /\ \A d \in Callers \ {c} : HoldsRow(d) => ~SameKey(RowOf(d), call[c].request)
    BY <1>2 DEF OneOfAKey, HoldsRow
  <2>4. ASSUME HoldsRow(c)', NEW d \in Callers \ {c}, HoldsRow(d)
        PROVE  ~SameKey(RowOf(c), call[d].request)
    <3>1. Active(d)
      BY <2>4 DEF Active, HoldsRow
    <3>2. ~SameKey(RowOf(d), call[c].request)
      BY <2>3, <2>4
    <3> QED
      BY <3>1, <3>2, RowOfCall, ActiveCall
  <2>5. ASSUME NEW d \in Callers \ {c}, HoldsRow(d)
        PROVE  /\ call'[d].request = call[d].request
               /\ \A row \in ledger : ~SameKey(row, call[d].request)
               /\ \A e \in Callers \ {d} : HoldsRow(e) => ~SameKey(RowOf(e), call[d].request)
    BY <1>2, <2>5 DEF OneOfAKey
  <2>6. ASSUME NEW d \in Callers, HoldsRow(d)'
        PROVE  /\ \A row \in ledger : ~SameKey(row, call'[d].request)
               /\ \A e \in Callers \ {d} : HoldsRow(e)' => ~SameKey(RowOf(e)', call'[d].request)
    <3>1. CASE d = c
      BY <1>2, <2>1, <2>3, <2>6, <3>1
    <3>2. CASE d # c
      BY <2>1, <2>2, <2>4, <2>5, <2>6, <3>2
    <3> QED
      BY <3>1, <3>2
  <2> QED
    BY <2>6 DEF OneOfAKey, SameKey
<1>9. Counted'
  <2>1. ASSUME NEW k \in Counters PROVE Counting(k)' = Counting(k)
    BY <1>1, <1>2 DEF Counting
  <2> QED
    BY <2>1, SameCounts
<1> QED
  BY <1>2, <1>4, <1>5, <1>6, <1>7, <1>8, <1>9

\* A caller ends without a row: what it held is free.
LEMMA InvReturns ==
  ASSUME IInv, NEW c \in Callers, Active(c), call[c].pc # "bump",
         NEW answer \in Answers, Return(c, answer),
         UNCHANGED <<ledger, stats, clock>>, World',
         answered \subseteq answered', answered' \subseteq answered \cup {call[c].at}
  PROVE  IInv'
<1> USE DEF IInv
<1>1. /\ CallShape' /\ call'[c].pc = "idle"
      /\ \A d \in Callers \ {c} : call'[d] = call[d]
  BY Returns
<1>2. call[c].at \in 1 .. MaxCalls /\ call[c].at <= clock /\ clock \in Nat
  BY ActiveCall, ModerationConstantsOK DEF Clock
<1>3. \A d \in Callers : Active(d)' => d # c /\ Active(d)
  BY <1>1 DEF Active
<1>4. Clock'
  <2>1. answered' \subseteq 1 .. clock
    BY <1>2 DEF Clock
  <2> QED
    BY <1>1, <1>3, <2>1 DEF Clock
<1>5. OneRowEach'
  BY <1>1, <1>3 DEF OneRowEach
<1>6. Answered'
  BY <1>1 DEF Answered, RowsWereAnswered
<1>7. OneHolder'
  BY <1>1 DEF OneHolder, HoldsLock
<1>8. OneOfAKey'
  BY <1>1 DEF OneOfAKey, HoldsRow, RowOf, SameKey
<1>9. Counted'
  <2>1. ASSUME NEW k \in Counters PROVE Counting(k)' = Counting(k)
    BY <1>1 DEF Counting
  <2> QED
    BY <2>1, SameCounts
<1> QED
  BY <1>1, <1>4, <1>5, <1>6, <1>7, <1>8, <1>9

\* The row of c is in the ledger, and c goes on to count it or is gone.
LEMMA LedgerGrows ==
  ASSUME IInv, NEW c \in Callers, call[c].pc = "commit",
         ledger' = ledger \cup {RowOf(c)}, UNCHANGED <<stats, clock, telegram>>,
         CallShape', call'[c].pc \in {"idle", "bump"},
         call'[c].pc = "bump" =>
           call'[c].request = call[c].request /\ call'[c].at = call[c].at,
         \A d \in Callers \ {c} : call'[d] = call[d]
  PROVE  IInv'
<1> USE DEF IInv
<1>1. Active(c) /\ HoldsRow(c)
  BY DEF Active, HoldsRow
<1>2. /\ call[c].at \in 1 .. MaxCalls /\ call[c].at <= clock /\ clock \in Nat
      /\ call[c].at \in answered
  BY <1>1, ActiveCall, ModerationConstantsOK DEF Clock, Answered
<1>3. RowOf(c) \in LedgerRow /\ RowOf(c).at = call[c].at
  BY <1>1, RowOfCall
<1>4. \A row \in ledger : row.at # call[c].at
  BY <1>1 DEF OneRowEach
<1>5. \A d \in Callers : Active(d)' => /\ Active(d) /\ call'[d].at = call[d].at
                                      /\ call'[d].request = call[d].request
  BY <1>1 DEF Active
<1>6. Clock'
  BY <1>2, <1>3, <1>5 DEF Clock, telegram
<1>7. World' /\ answered' = answered
  BY DEF World, telegram
<1>8. OneRowEach'
  <2>1. \A d, e \in Callers : Active(d)' /\ Active(e)' /\ call'[d].at = call'[e].at => d = e
    BY <1>5 DEF OneRowEach
  <2>2. \A r, s \in ledger' : r.at = s.at => r = s
    BY <1>3, <1>4 DEF OneRowEach
  <2>3. ASSUME NEW d \in Callers, NEW row \in ledger', Active(d)', row.at = call'[d].at
        PROVE  call'[d].pc = "bump"
    <3>1. CASE d = c
      BY <2>3, <3>1 DEF Active
    <3>2. CASE d # c
      <4>1. row.at = call[d].at /\ call[d].at # call[c].at /\ Active(d)
        BY <1>1, <1>5, <2>3, <3>2 DEF OneRowEach
      <4>2. row \in ledger
        BY <1>3, <2>3, <4>1
      <4> QED
        BY <3>2, <4>1, <4>2 DEF OneRowEach
    <3> QED
      BY <3>1, <3>2
  <2> QED
    BY <2>1, <2>2, <2>3 DEF OneRowEach
<1>9. Answered'
  <2>1. \A row \in ledger' : row.at \in answered
    BY <1>2, <1>3 DEF Answered, RowsWereAnswered
  <2>2. \A d \in Callers : call'[d].pc \in {"commit", "bump"} => call'[d].at \in answered
    BY <1>2 DEF Answered
  <2> QED
    BY <1>7, <2>1, <2>2 DEF Answered, RowsWereAnswered
<1>10. OneHolder'
  BY DEF OneHolder, HoldsLock
<1>11. OneOfAKey'
  <2>1. \A d \in Callers : HoldsRow(d)' => /\ d # c /\ HoldsRow(d) /\ RowOf(d)' = RowOf(d)
                                          /\ call'[d].request = call[d].request
    BY DEF HoldsRow, RowOf
  <2>2. ASSUME NEW d \in Callers \ {c}, HoldsRow(d)
        PROVE  ~SameKey(RowOf(c), call[d].request)
    BY <1>1, <2>2 DEF OneOfAKey
  <2>3. ASSUME NEW d \in Callers, HoldsRow(d)'
        PROVE  /\ \A row \in ledger' : ~SameKey(row, call'[d].request)
               /\ \A e \in Callers \ {d} : HoldsRow(e)' => ~SameKey(RowOf(e)', call'[d].request)
    BY <2>1, <2>2, <2>3 DEF OneOfAKey
  <2> QED
    BY <2>3 DEF OneOfAKey, SameKey
<1>12. Counted'
  <2> SUFFICES ASSUME NEW k \in Counters
               PROVE  /\ IsFiniteSet(Counting(k)') /\ IsFiniteSet(RowsOf(k)')
                      /\ stats[k] + Cardinality(Counting(k)') <= Cardinality(RowsOf(k)')
    BY DEF Counted
  <2>1. /\ IsFiniteSet(Counting(k)) /\ IsFiniteSet(RowsOf(k)) /\ stats[k] \in Nat
        /\ stats[k] + Cardinality(Counting(k)) <= Cardinality(RowsOf(k))
    BY DEF Counted
  <2>2. Cardinality(Counting(k)) \in Nat /\ Cardinality(RowsOf(k)) \in Nat
    BY <2>1, FS_CardinalityType
  <2>3. c \notin Counting(k) /\ RowOf(c) \notin RowsOf(k)
    BY <1>3, <1>4 DEF Counting, RowsOf
  <2>4. CASE k \in Bumped(call[c].request)
    <3>1. RowsOf(k)' = RowsOf(k) \cup {RowOf(c)}
      BY <1>1, <2>4, RowOfCall DEF RowsOf, Bumped
    <3>2. IsFiniteSet(RowsOf(k)') /\ Cardinality(RowsOf(k)') = Cardinality(RowsOf(k)) + 1
      BY <2>1, <2>3, <3>1, FS_AddElement
    <3>3. Counting(k)' = Counting(k) \/ Counting(k)' = Counting(k) \cup {c}
      <4>1. CASE call'[c].pc = "bump"
        <5>1. Counting(k)' = Counting(k) \cup {c}
          BY <2>4, <4>1 DEF Counting, Bumped
        <5> QED
          BY <5>1
      <4>2. CASE call'[c].pc = "idle"
        <5>1. Counting(k)' = Counting(k)
          BY <4>2 DEF Counting, Bumped
        <5> QED
          BY <5>1
      <4> QED
        BY <4>1, <4>2
    <3>4. /\ IsFiniteSet(Counting(k)')
          /\ Cardinality(Counting(k)') <= Cardinality(Counting(k)) + 1
          /\ Cardinality(Counting(k)') \in Nat
      <4>1. IsFiniteSet(Counting(k) \cup {c})
            /\ Cardinality(Counting(k) \cup {c}) = Cardinality(Counting(k)) + 1
        BY <2>1, <2>3, FS_AddElement
      <4>2. CASE Counting(k)' = Counting(k)
        BY <2>1, <2>2, <4>2
      <4>3. CASE Counting(k)' = Counting(k) \cup {c}
        BY <2>2, <4>1, <4>3
      <4> QED
        BY <3>3, <4>2, <4>3
    <3> QED
      BY <2>1, <2>2, <3>2, <3>4
  <2>5. CASE k \notin Bumped(call[c].request)
    <3>1. RowsOf(k)' = RowsOf(k)
      BY <1>1, <2>5, RowOfCall DEF RowsOf, Bumped
    <3>2. Counting(k)' = Counting(k)
      BY <2>5 DEF Counting, Bumped
    <3> QED
      BY <2>1, <3>1, <3>2
  <2> QED
    BY <2>4, <2>5
<1> QED
  BY <1>6, <1>7, <1>8, <1>9, <1>10, <1>11, <1>12

\* BEGIN: the new transaction is later than every other.
LEMMA InvBegin ==
  ASSUME IInv, NEW c \in Callers, NEW r \in Request, begin(c, r)
  PROVE  IInv'
<1> USE DEF IInv
<1> DEFINE pc == IF NeedsLock(r) THEN "lock" ELSE "insert"
<1> DEFINE new == [pc |-> pc, answer |-> "none", at |-> clock + 1, request |-> r]
<1>1. /\ ~Active(c) /\ clock < MaxCalls /\ clock' = clock + 1
      /\ call' = [call EXCEPT ![c] = new]
      /\ UNCHANGED <<ledger, stats, banned, standing, answered>>
  BY DEF begin, Active, telegram
<1>2. clock \in Nat /\ MaxCalls \in Nat /\ clock + 1 \in 1 .. MaxCalls
  BY <1>1, ModerationConstantsOK DEF Clock
<1>3. new \in ActiveCalls
  BY <1>2 DEF ActiveCalls, Places
<1>4. CallShape'
  BY <1>1, <1>3 DEF CallShape
<1>5. /\ call'[c] = new /\ call'[c].pc = pc /\ call'[c].request = r
      /\ call'[c].at = clock + 1
      /\ \A d \in Callers \ {c} : call'[d] = call[d]
  BY <1>1 DEF CallShape
<1>6. pc \in {"lock", "insert"} /\ (pc = "lock" => NeedsLock(r)) /\ (NeedsLock(r) => pc = "lock")
  OBVIOUS
<1> HIDE DEF pc, new
<1>7. \A d \in Callers : Active(d) => call[d].at \in Nat
  BY ActiveCall, ModerationConstantsOK
<1>8. Clock' /\ World'
  <2>1. \A row \in ledger : row.at \in Nat
    BY ModerationConstantsOK DEF Clock, LedgerRow
  <2>2. \A d \in Callers : Active(d)' => call'[d].at <= clock + 1
    BY <1>2, <1>5, <1>7 DEF Clock, Active
  <2> QED
    BY <1>1, <1>2, <2>1, <2>2 DEF Clock, World
<1>9. OneRowEach'
  <2>1. \A d \in Callers \ {c} : Active(d) => call[d].at # clock + 1
    BY <1>2, <1>7 DEF Clock
  <2>2. \A row \in ledger : row.at # clock + 1
    BY <1>2, ModerationConstantsOK DEF Clock, LedgerRow
  <2>3. \A d, e \in Callers : Active(d)' /\ Active(e)' /\ call'[d].at = call'[e].at => d = e
    BY <1>5, <2>1 DEF OneRowEach, Active
  <2>4. \A d \in Callers, row \in ledger :
          Active(d)' /\ row.at = call'[d].at => call'[d].pc = "bump"
    BY <1>5, <2>2 DEF OneRowEach, Active
  <2> QED
    BY <1>1, <2>3, <2>4 DEF OneRowEach
<1>10. Answered'
  BY <1>1, <1>5, <1>6 DEF Answered, RowsWereAnswered
<1>11. OneHolder'
  BY <1>5, <1>6 DEF OneHolder, HoldsLock
<1>12. OneOfAKey'
  <2>1. \A d \in Callers : HoldsRow(d)' => /\ d # c /\ HoldsRow(d) /\ RowOf(d)' = RowOf(d)
                                          /\ call'[d].request = call[d].request
    BY <1>5, <1>6 DEF HoldsRow, RowOf
  <2> QED
    BY <1>1, <2>1 DEF OneOfAKey, SameKey
<1>13. Counted'
  <2>1. ASSUME NEW k \in Counters PROVE Counting(k)' = Counting(k)
    BY <1>1, <1>5, <1>6 DEF Counting, Active
  <2> QED
    BY <1>1, <2>1, SameCounts
<1> QED
  BY <1>4, <1>8, <1>9, <1>10, <1>11, <1>12, <1>13

\* The counters follow what the caller has recorded, or are left behind.
LEMMA InvBump ==
  ASSUME IInv, NEW c \in Callers, bump(c)
  PROVE  IInv'
<1> USE DEF IInv
<1>1. /\ call[c].pc = "bump" /\ Active(c) /\ Return(c, "Applied")
      /\ UNCHANGED <<ledger, clock, banned, standing, answered>>
  BY DEF bump, Active, telegram
<1>2. /\ CallShape' /\ call'[c].pc = "idle"
      /\ \A d \in Callers \ {c} : call'[d] = call[d]
  BY <1>1, Returns DEF Answers
<1>3. \A d \in Callers : Active(d)' => d # c /\ Active(d)
  BY <1>2 DEF Active
<1>4. Clock' /\ World'
  BY <1>1, <1>2, <1>3 DEF Clock, World
<1>5. OneRowEach' /\ Answered'
  BY <1>1, <1>2, <1>3 DEF OneRowEach, Answered, RowsWereAnswered
<1>6. OneHolder' /\ OneOfAKey'
  BY <1>1, <1>2 DEF OneHolder, HoldsLock, OneOfAKey, HoldsRow, RowOf, SameKey
<1>7. Counted'
  <2>1. ASSUME NEW k \in Counters
        PROVE  /\ stats'[k] \in Nat
               /\ stats'[k] <= stats[k] + (IF k \in Bumped(call[c].request) THEN 1 ELSE 0)
    BY DEF bump, Counted
  <2>2. stats' \in [Counters -> Nat]
    BY DEF bump, Counted
  <2>3. ASSUME NEW k \in Counters
        PROVE  /\ IsFiniteSet(Counting(k)') /\ IsFiniteSet(RowsOf(k)')
               /\ stats'[k] + Cardinality(Counting(k)') <= Cardinality(RowsOf(k)')
    <3>1. /\ IsFiniteSet(Counting(k)) /\ IsFiniteSet(RowsOf(k)) /\ stats[k] \in Nat
          /\ stats[k] + Cardinality(Counting(k)) <= Cardinality(RowsOf(k))
      BY DEF Counted
    <3>2. Cardinality(Counting(k)) \in Nat /\ Cardinality(RowsOf(k)) \in Nat
      BY <3>1, FS_CardinalityType
    <3>3. Counting(k)' = Counting(k) \ {c} /\ RowsOf(k)' = RowsOf(k)
      BY <1>1, <1>2 DEF Counting, RowsOf
    <3>4. c \in Counting(k) <=> k \in Bumped(call[c].request)
      BY <1>1 DEF Counting
    <3>5. /\ IsFiniteSet(Counting(k) \ {c})
          /\ Cardinality(Counting(k) \ {c}) =
               IF c \in Counting(k) THEN Cardinality(Counting(k)) - 1
               ELSE Cardinality(Counting(k))
      BY <3>1, FS_RemoveElement
    <3>6. stats'[k] + Cardinality(Counting(k) \ {c}) <= Cardinality(RowsOf(k))
      BY <2>1, <3>1, <3>2, <3>4, <3>5
    <3> QED
      BY <3>1, <3>3, <3>5, <3>6
  <2> QED
    BY <2>2, <2>3 DEF Counted
<1> QED
  BY <1>2, <1>4, <1>5, <1>6, <1>7

\* What Telegram does leaves a target banned or not, and messages standing.
LEMMA EffectTypes ==
  ASSUME World, CallShape, NEW c \in Callers, Active(c), Effect(call[c].request)
  PROVE  World'
<1>1. call[c].request \in Request
  BY ActiveCall
<1> QED
  BY <1>1 DEF World, Effect, Request

\* The call of the Bot API: done or refused it is answered, failed it leaves no row.
LEMMA InvDispatch ==
  ASSUME IInv, NEW c \in Callers, dispatch(c)
  PROVE  IInv'
<1> USE DEF IInv
<1>1. Active(c) /\ call[c].pc = "dispatch" /\ HoldsRow(c)
      /\ UNCHANGED <<ledger, stats, clock>>
  BY DEF dispatch, Active, HoldsRow
<1>2. NeedsLock(call[c].request) => HoldsLock(c)
  BY <1>1 DEF HoldsLock
<1>3. CASE Goto(c, "commit") /\ (Does(c) \/ Refuses(c))
  <2>1. World' /\ answered' = answered \cup {call[c].at}
    BY <1>1, <1>3, EffectTypes DEF Does, Refuses, World
  <2> QED
    BY <1>1, <1>2, <1>3, <2>1, InvGoesOn
<1>4. CASE Return(c, "Err") /\ (Does(c) \/ UNCHANGED telegram)
  <2>1. World' /\ answered \subseteq answered' /\ answered' \subseteq answered \cup {call[c].at}
    BY <1>1, <1>4, EffectTypes DEF Does, World, telegram
  <2> QED
    BY <1>1, <1>4, <2>1, InvReturns DEF Answers
<1> QED
  BY <1>3, <1>4 DEF dispatch

\* The other statements of the transaction.
LEMMA InvStatement ==
  ASSUME IInv, NEW c \in Callers, lock(c) \/ check(c) \/ insert(c) \/ key_share(c)
  PROVE  IInv'
<1> USE DEF IInv
<1>1. /\ Active(c) /\ call[c].pc # "bump"
      /\ UNCHANGED <<ledger, stats, clock, banned, standing, answered>>
  BY DEF lock, check, insert, key_share, Active, telegram
<1>2. World'
  BY <1>1 DEF World
<1>3. CASE lock(c)
  <2>1. Goto(c, "check") /\ NeedsLock(call[c].request)
    BY <1>3 DEF lock, OneHolder
  <2>2. \A d \in Callers \ {c} : ~HoldsLock(d)
    BY <1>3 DEF lock
  <2> QED
    BY <1>1, <1>2, <2>1, <2>2, InvGoesOn
<1>4. CASE check(c)
  <2>1. CASE Return(c, "AlreadyApplied")
    BY <1>1, <1>2, <2>1, InvReturns DEF Answers
  <2>2. CASE Goto(c, "insert")
    <3>1. NeedsLock(call[c].request) => HoldsLock(c)
      BY <1>4 DEF check, HoldsLock
    <3> QED
      BY <1>1, <1>2, <2>2, <3>1, InvGoesOn
  <2> QED
    BY <1>4, <2>1, <2>2 DEF check
<1>5. CASE insert(c)
  <2>1. CASE Return(c, "AlreadyApplied")
    BY <1>1, <1>2, <2>1, InvReturns DEF Answers
  <2>2. CASE Goto(c, "key_share") /\ ~\E row \in ledger : SameKey(row, call[c].request)
    <3>1. NeedsLock(call[c].request) => HoldsLock(c)
      BY <1>5 DEF insert, HoldsLock
    <3>2. \A d \in Callers \ {c} : HoldsRow(d) => ~SameKey(RowOf(d), call[c].request)
      BY <1>5 DEF insert
    <3>3. \A row \in ledger : ~SameKey(row, call[c].request)
      BY <2>2
    <3> QED
      BY <1>1, <1>2, <2>2, <3>1, <3>2, <3>3, InvGoesOn
  <2> QED
    BY <1>5, <2>1, <2>2 DEF insert
<1>6. CASE key_share(c)
  <2>1. Goto(c, "dispatch") /\ HoldsRow(c) /\ (NeedsLock(call[c].request) => HoldsLock(c))
    BY <1>6 DEF key_share, HoldsRow, HoldsLock
  <2> QED
    BY <1>1, <1>2, <2>1, InvGoesOn
<1> QED
  BY <1>3, <1>4, <1>5, <1>6

\* The commit, and a failure before, at or after it.
LEMMA InvEnd ==
  ASSUME IInv, NEW c \in Callers, commit(c) \/ database_fails(c)
  PROVE  IInv'
<1> USE DEF IInv
<1>1. /\ Active(c) /\ call[c].pc # "bump"
      /\ UNCHANGED <<stats, clock, telegram>>
  BY DEF commit, database_fails, Active
<1>2. CASE commit(c)
  <2>1. /\ call[c].pc = "commit" /\ Goto(c, "bump") /\ ledger' = ledger \cup {RowOf(c)}
    BY <1>2 DEF commit
  <2>2. /\ CallShape' /\ call'[c].pc = "bump" /\ call'[c].request = call[c].request
        /\ call'[c].at = call[c].at /\ \A d \in Callers \ {c} : call'[d] = call[d]
    BY <1>1, <2>1, GoesOn DEF Places
  <2> QED
    BY <1>1, <2>1, <2>2, LedgerGrows
<1>3. CASE Return(c, "Err") /\ UNCHANGED ledger
  BY <1>1, <1>3, InvReturns DEF Answers, World, telegram
<1>4. CASE Return(c, "Err") /\ call[c].pc = "commit" /\ ledger' = ledger \cup {RowOf(c)}
  <2>1. /\ CallShape' /\ call'[c].pc = "idle" /\ \A d \in Callers \ {c} : call'[d] = call[d]
    BY <1>4, Returns DEF Answers
  <2> QED
    BY <1>1, <1>4, <2>1, LedgerGrows
<1> QED
  BY <1>2, <1>3, <1>4 DEF database_fails

-----------------------------------------------------------------------------
(* The environment *)

\* A crash takes every call that is under way, and nothing else.
LEMMA InvCrash ==
  ASSUME IInv, Crash
  PROVE  IInv'
<1> USE DEF IInv
<1>1. /\ call' = [c \in Callers |-> NoCall]
      /\ UNCHANGED <<ledger, stats, clock, banned, standing, answered>>
  BY DEF Crash, telegram
<1>2. NoCall \in IdleCalls /\ NoCall.pc = "idle"
  BY DEF NoCall, IdleCalls, Answers
<1>3. CallShape' /\ \A c \in Callers : call'[c].pc = "idle"
  BY <1>1, <1>2 DEF CallShape
<1>4. Clock' /\ World' /\ OneRowEach' /\ Answered'
  BY <1>1, <1>3 DEF Clock, World, OneRowEach, Answered, RowsWereAnswered, Active
<1>5. OneHolder' /\ OneOfAKey'
  BY <1>3 DEF OneHolder, HoldsLock, OneOfAKey, HoldsRow
<1>6. Counted'
  <2>1. ASSUME NEW k \in Counters
        PROVE  /\ IsFiniteSet(Counting(k)') /\ IsFiniteSet(RowsOf(k))
               /\ stats[k] + Cardinality(Counting(k)') <= Cardinality(RowsOf(k))
    <3>1. Counting(k)' = {}
      BY <1>3 DEF Counting
    <3>2. /\ IsFiniteSet(Counting(k)) /\ IsFiniteSet(RowsOf(k)) /\ stats[k] \in Nat
          /\ stats[k] + Cardinality(Counting(k)) <= Cardinality(RowsOf(k))
      BY DEF Counted
    <3>3. Cardinality(Counting(k)) \in Nat /\ Cardinality(RowsOf(k)) \in Nat
      BY <3>2, FS_CardinalityType
    <3> QED
      BY <3>1, <3>2, <3>3, FS_EmptySet
  <2> QED
    BY <1>1, <2>1 DEF Counted, RowsOf
<1> QED
  BY <1>3, <1>4, <1>5, <1>6

\* A temporary ban that lapses concerns no caller.
LEMMA InvLapse ==
  ASSUME IInv, NEW t \in Targets, ban_lapses(t)
  PROVE  IInv'
<1> USE DEF IInv
<1>1. World' /\ UNCHANGED <<ledger, standing, answered, stats, clock, call>>
  BY DEF ban_lapses, World
<1>2. \A k \in Counters : Counting(k)' = Counting(k)
  BY <1>1 DEF Counting
<1> QED
  BY <1>1, <1>2, SameCounts DEF CallShape, Clock, OneRowEach, Answered, RowsWereAnswered,
     OneHolder, OneOfAKey, Active, HoldsLock, HoldsRow, RowOf, SameKey

-----------------------------------------------------------------------------
(* Invariance *)

\* In the beginning nobody has asked for anything.
LEMMA InvInit ==
  ASSUME Init
  PROVE  IInv
<1>1. NoCall \in IdleCalls /\ NoCall.pc = "idle"
  BY DEF NoCall, IdleCalls, Answers
<1>2. CallShape /\ \A c \in Callers : call[c].pc = "idle"
  BY <1>1 DEF Init, CallShape
<1>3. Clock /\ World /\ OneRowEach /\ Answered /\ OneHolder /\ OneOfAKey
  BY <1>2, ModerationConstantsOK DEF Init, Clock, World, OneRowEach, Answered,
     RowsWereAnswered, OneHolder, OneOfAKey, Active, HoldsLock, HoldsRow
<1>4. Counted
  <2>1. \A k \in Counters : Counting(k) = {} /\ RowsOf(k) = {} /\ stats[k] = 0
    BY <1>2 DEF Init, Counting, RowsOf
  <2> QED
    BY <2>1, FS_EmptySet DEF Init, Counted
<1> QED
  BY <1>2, <1>3, <1>4 DEF IInv

\* Every step keeps the invariant.
LEMMA InvStep ==
  ASSUME IInv, [Next]_vars
  PROVE  IInv'
<1>1. CASE UNCHANGED vars
  <2>1. UNCHANGED <<ledger, banned, standing, stats, answered, clock, call>>
    BY <1>1 DEF vars
  <2>2. \A k \in Counters : Counting(k)' = Counting(k)
    BY <2>1 DEF Counting
  <2> QED
    BY <2>1, <2>2, SameCounts DEF IInv, CallShape, Clock, World, OneRowEach, Answered,
       RowsWereAnswered, OneHolder, OneOfAKey, Active, HoldsLock, HoldsRow, RowOf, SameKey
<1>2. ASSUME NEW c \in Callers, apply(c)
      PROVE  IInv'
  BY <1>2, InvStatement, InvDispatch, InvEnd, InvBump DEF apply
<1> QED
  BY <1>1, <1>2, InvBegin, InvLapse, InvCrash DEF Next

LEMMA Invariance == Spec => []IInv
<1>1. Init => IInv
  BY InvInit
<1>2. IInv /\ [Next]_vars => IInv'
  BY InvStep
<1> QED
  BY <1>1, <1>2, PTL DEF Spec

-----------------------------------------------------------------------------
(* The theorems *)

\* No more rows than transactions: each has one at most.
LEMMA RowsAreFew ==
  ASSUME IInv, NEW k \in Counters
  PROVE  Cardinality(RowsOf(k)) <= MaxCalls
<1> DEFINE R == RowsOf(k)
<1> DEFINE f == [row \in R |-> row.at]
<1>1. R \subseteq ledger /\ clock \in 0 .. MaxCalls /\ MaxCalls \in Nat
  BY ModerationConstantsOK DEF IInv, Clock, RowsOf
<1>2. \A row \in R : row.at \in 1 .. MaxCalls
  BY <1>1 DEF IInv, Clock, LedgerRow
<1>3. \A r, s \in R : r.at = s.at => r = s
  BY <1>1 DEF IInv, OneRowEach
<1>4. f \in Injection(R, 1 .. MaxCalls)
  BY <1>2, <1>3 DEF Injection, IsInjective
<1>5. IsFiniteSet(1 .. MaxCalls) /\ Cardinality(1 .. MaxCalls) = MaxCalls
  BY <1>1, FS_Interval
<1> HIDE DEF f
<1>6. Cardinality(R) <= Cardinality(1 .. MaxCalls)
  BY <1>4, <1>5, FS_Injection
<1> QED
  BY <1>5, <1>6

\* Type correctness: every caller is at a place of apply with a request the
\* code makes, and no counter exceeds the number of transactions.
THEOREM TypeCorrect == Spec => []TypeOK
<1>1. ASSUME IInv PROVE TypeOK
  <2> USE <1>1 DEF IInv
  <2>1. \A c \in Callers :
          /\ call[c].pc \in Places /\ call[c].answer \in Answers
          /\ call[c].pc # "idle" => /\ call[c].request \in Request
                                    /\ call[c].at \in 1 .. MaxCalls
                                    /\ call[c].answer = "none"
    BY DEF CallShape, IdleCalls, ActiveCalls, Places, Answers
  <2>2. clock \in Nat /\ MaxCalls \in Nat
    BY ModerationConstantsOK DEF Clock
  <2>3. \A c \in Callers : call[c].pc # "idle" => call[c].at \in 1 .. clock
    BY <2>1, <2>2 DEF Clock, Active
  <2>4. ASSUME NEW k \in Counters PROVE stats[k] \in 0 .. MaxCalls
    <3>1. /\ IsFiniteSet(Counting(k)) /\ IsFiniteSet(RowsOf(k)) /\ stats[k] \in Nat
          /\ stats[k] + Cardinality(Counting(k)) <= Cardinality(RowsOf(k))
      BY DEF Counted
    <3>2. Cardinality(Counting(k)) \in Nat /\ Cardinality(RowsOf(k)) \in Nat
      BY <3>1, FS_CardinalityType
    <3>3. Cardinality(RowsOf(k)) <= MaxCalls
      BY RowsAreFew
    <3> QED
      BY <2>2, <3>1, <3>2, <3>3
  <2>5. stats \in [Counters -> 0 .. MaxCalls]
    BY <2>4 DEF Counted
  <2> QED
    BY <2>1, <2>3, <2>5 DEF TypeOK, Clock, World
<1> QED
  BY <1>1, Invariance, PTL

\* No row without an answer of Telegram (apply dispatches before it commits): a
\* call that failed leaves nothing a retry could be mistaken for a repetition of.
THEOREM NoRowUnanswered == Spec => []RowsWereAnswered
<1>1. IInv => RowsWereAnswered
  BY DEF IInv, Answered
<1> QED
  BY <1>1, Invariance, PTL

\* Nothing is asked of Telegram twice at a time, and nothing message-scoped
\* again once it is in the ledger (the FOR UPDATE of apply, and the unique key).
THEOREM OneCallAtATime == Spec => []CallsAreSerial
<1>1. ASSUME IInv PROVE CallsAreSerial
  <2> USE <1>1 DEF IInv
  <2> SUFFICES ASSUME NEW c \in Callers, call[c].pc \in {"dispatch", "commit"}
               PROVE  /\ ~\E row \in ledger : SameKey(row, call[c].request)
                      /\ \A other \in Callers \ {c} :
                           call[other].pc \in {"dispatch", "commit"} =>
                             /\ ~SameKey(RowOf(other), call[c].request)
                             /\ ~(call[c].request.message = NoMessage
                                  /\ call[other].request.message = NoMessage)
    BY DEF CallsAreSerial
  <2>1. HoldsRow(c)
    BY DEF HoldsRow
  <2>2. ASSUME NEW d \in Callers, call[d].pc \in {"dispatch", "commit"},
               call[d].request.message = NoMessage
        PROVE  HoldsLock(d)
    BY <2>2, ActiveCall, IdModeLocks DEF HoldsLock, Active
  <2>3. ASSUME NEW d \in Callers \ {c}, call[d].pc \in {"dispatch", "commit"}
        PROVE  /\ ~SameKey(RowOf(d), call[c].request)
               /\ ~(call[c].request.message = NoMessage /\ call[d].request.message = NoMessage)
    BY <2>1, <2>2, <2>3 DEF OneOfAKey, OneHolder, HoldsRow
  <2> QED
    BY <2>1, <2>3 DEF OneOfAKey
<1> QED
  BY <1>1, Invariance, PTL

\* What is counted was recorded, and once (bump_daily_stats after the commit):
\* the counters never run ahead of the ledger.
THEOREM StatsAreBacked == Spec => []StatsFollowLedger
<1>1. IInv => StatsFollowLedger
  BY DEF IInv, Counted, Counting, StatsFollowLedger
<1> QED
  BY <1>1, Invariance, PTL

\* "Already applied" is only said of what is in the ledger for good (apply).
THEOREM AlreadyAppliedIsTrue == Spec => AlreadyAppliedIsBacked
<1> DEFINE Backed(c) ==
      LET r == call[c].request IN
      \/ \E row \in ledger :
           /\ row.kind = r.kind /\ row.target = r.target
           /\ r.message # NoMessage => row.message = r.message
      \/ r.kind = "unban" /\ Terminal(r.target) = {}
<1>1. ASSUME IInv, Next, NEW c \in Callers, Active(c), call'[c].answer = "AlreadyApplied"
      PROVE  Backed(c)
  <2> USE <1>1 DEF IInv
  <2>1. call[c].answer = "none" /\ call'[c] # call[c]
    BY ActiveCall
  <2>2. ASSUME NEW pc \in Places \ {"idle"}, Goto(c, pc) PROVE FALSE
    BY <2>2, GoesOn
  <2>3. ASSUME NEW answer \in Answers, Return(c, answer) PROVE answer = "AlreadyApplied"
    BY <2>3, Returns
  <2>4. ASSUME NEW d \in Callers, \/ \E pc \in Places \ {"idle"} : Goto(d, pc)
                                 \/ \E answer \in Answers : Return(d, answer)
        PROVE  d = c
    BY <2>1, <2>4 DEF Goto, Return, CallShape
  <2>5. CASE check(c)
    <3>1. NeedsLock(call[c].request)
      BY <2>5 DEF check, OneHolder
    <3>2. InEffect(call[c].request)
      BY <2>2, <2>5 DEF check, Places
    <3> QED
      BY <3>1, <3>2 DEF InEffect, Terminal, NeedsLock
  <2>6. CASE insert(c)
    <3>1. \E row \in ledger : SameKey(row, call[c].request)
      BY <2>2, <2>6 DEF insert, Places
    <3> QED
      BY <3>1 DEF SameKey
  <2>7. \A d \in Callers : apply(d) =>
          \/ \E pc \in Places \ {"idle"} : Goto(d, pc)
          \/ \E answer \in Answers : Return(d, answer)
    BY DEF apply, lock, check, insert, key_share, dispatch, commit, bump, database_fails,
       Places, Answers
  <2>8. CASE apply(c)
    <3>1. ~lock(c) /\ ~key_share(c) /\ ~commit(c)
      BY <2>2 DEF lock, key_share, commit, Places
    <3>2. ~dispatch(c) /\ ~bump(c) /\ ~database_fails(c)
      BY <2>2, <2>3 DEF dispatch, bump, database_fails, Places, Answers
    <3> QED
      BY <2>5, <2>6, <2>8, <3>1, <3>2 DEF apply
  <2>9. ASSUME NEW d \in Callers, NEW r \in Request, begin(d, r) PROVE FALSE
    <3>1. d # c
      BY <2>9 DEF begin, Active
    <3> QED
      BY <2>1, <2>9, <3>1 DEF begin, CallShape
  <2>10. ~Crash
    BY DEF Crash, NoCall, CallShape
  <2>11. \A t \in Targets : ~ban_lapses(t)
    BY <2>1 DEF ban_lapses
  <2> QED
    BY <2>4, <2>7, <2>8, <2>9, <2>10, <2>11 DEF Next
<1>2. IInv /\ [Next]_vars =>
        [\A c \in Callers :
           call[c].pc # "idle" /\ call'[c].answer = "AlreadyApplied" => Backed(c)]_vars
  BY <1>1 DEF Active
<1> QED
  BY <1>2, Invariance, PTL DEF Spec, AlreadyAppliedIsBacked
=============================================================================
