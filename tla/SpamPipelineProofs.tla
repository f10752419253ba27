------------------------- MODULE SpamPipelineProofs -------------------------
(***************************************************************************)
(* SpamPipeline keeps its types, caches nothing that CAS did not say, bans *)
(* nobody without grounds, keeps its two counters of a fingerprint         *)
(* together and sees through disguised texts of any length, for every set  *)
(* of chats, messages and phrases, whatever fails.                         *)
(***************************************************************************)
EXTENDS SpamPipeline, FoldLemmas, SequenceTheorems

-----------------------------------------------------------------------------
(* The inductive invariant *)

\* The steps of a message that has not counted as a hit, and may yet.
Uncounted == {"lookup", "bump", "bump_chat", "moka", "redis", "http",
              "write_redis", "score", "record"}

CasSteps == {"moka", "redis", "http", "write_redis"}

WorkerStates == [step : Steps, message : Messages \cup {NoMessage},
                 verdict : {"Allow", "Clean", "Flagged", "ban", "delete"}]

\* w is a state the worker of c can be in: if it is not idle it has a message of
\* its chat; it asks CAS only in a chat that wants it; it has a verdict where the
\* next step uses one; and what it is about to record or to apply has grounds.
Sensible(c, w) ==
  /\ w \in WorkerStates
  /\ w.step # "idle" => w.message \in Messages /\ chat_of[w.message] = c
  /\ w.step \in CasSteps => c \in CasChats
  /\ w.step = "write_redis" => /\ w.verdict \in CasVerdicts
                               /\ w.verdict \in answers[writer[w.message]]
  /\ w.step \in {"record", "apply"} => /\ w.verdict \in {"ban", "delete"}
                                       /\ Grounds(hash_of[w.message])

WorkersAreSensible == \A c \in Chats : Sensible(c, worker[c])

\* Every fingerprint has grounds.
FingerprintsHaveGrounds == \A h \in Hashes : spam[h] # NoRow => Grounds(h)

Weight(c) == IF worker[c].step \in Uncounted THEN 1 ELSE 0

\* How many messages under way have yet to count.
Pending == SumFunction([c \in Chats |-> Weight(c)])

\* A message counts once for its fingerprint, and once in its chat.
HitsAreHandled ==
  \A h \in Hashes :
    /\ spam[h] # NoRow => spam[h].hits + Pending <= handled
    /\ \A c \in Chats : perChat[<<c, h>>] + Pending <= handled

IInv ==
  /\ TypeOK /\ WorkersAreSensible /\ CachesAreAnswers
  /\ FingerprintsHaveGrounds /\ BansHaveGrounds
  /\ HitsAreHandled /\ AggregateIsExplained

-----------------------------------------------------------------------------
(* Helpers *)

\* CAS cannot take back what it said.
AnswersGrow == \A u \in Users : answers[u] \subseteq answers'[u]

\* Grounds are never lost.
LEMMA GroundsPersist ==
  ASSUME AnswersGrow, NEW h, Grounds(h)
  PROVE  Grounds(h)'
BY PipelineConstantsOK DEF AnswersGrow, Grounds

\* The fingerprint of a message is one.
LEMMA HashOfMessage == ASSUME NEW m \in Messages PROVE hash_of[m] \in Hashes
BY DEF Hashes

\* The worker of c goes to the state w.
Moves(c, w) == worker' = [worker EXCEPT ![c] = w]

\* What Goto, Decide and Finish do.
LEMMA WorkerMoves ==
  ASSUME TypeOK, NEW c \in Chats, NEW step, NEW verdict
  PROVE  /\ Goto(c, step) =>
              Moves(c, [step |-> step, message |-> MessageOf(c), verdict |-> worker[c].verdict])
         /\ Decide(c, step, verdict) =>
              Moves(c, [step |-> step, message |-> MessageOf(c), verdict |-> verdict])
         /\ Finish(c) => Moves(c, IdleWorker)
<1>1. worker \in [Chats -> WorkerStates]
  BY DEF TypeOK, WorkerStates
<1>2. worker[c] \in WorkerStates
  BY <1>1
<1>3. Goto(c, step) =>
        Moves(c, [step |-> step, message |-> MessageOf(c), verdict |-> worker[c].verdict])
  BY <1>1, <1>2 DEF Goto, Moves, MessageOf, WorkerStates
<1>4. Decide(c, step, verdict) =>
        Moves(c, [step |-> step, message |-> MessageOf(c), verdict |-> verdict])
  BY <1>1, <1>2 DEF Decide, Moves, MessageOf, WorkerStates
<1>5. Finish(c) => Moves(c, IdleWorker)
  BY DEF Finish, Moves
<1> QED
  BY <1>3, <1>4, <1>5

\* What is pending is a number.
LEMMA PendingType == TypeOK => Pending \in Nat /\ \A c \in Chats : Weight(c) <= Pending
<1> SUFFICES ASSUME TypeOK
             PROVE  Pending \in Nat /\ \A c \in Chats : Weight(c) <= Pending
  OBVIOUS
<1> DEFINE f == [c \in Chats |-> Weight(c)]
<1>1. f \in [Chats -> Nat] /\ \A c \in Chats : f[c] = Weight(c)
  BY DEF Weight
<1>2. Pending = SumFunction(f)
  BY DEF Pending
<1> HIDE DEF f
<1> QED
  BY <1>1, <1>2, SumOfNaturals, PipelineConstantsOK

\* When one worker moves, what is pending changes by what is pending there.
LEMMA PendingMoves ==
  ASSUME TypeOK, NEW c \in Chats, NEW w \in WorkerStates, Moves(c, w)
  PROVE  Pending' = Pending - Weight(c) + (IF w.step \in Uncounted THEN 1 ELSE 0)
<1> DEFINE f == [d \in Chats |-> Weight(d)]
           h == [d \in Chats |-> Weight(d)']
           k == (IF w.step \in Uncounted THEN 1 ELSE 0) - Weight(c)
<1>1. worker'[c] = w /\ \A d \in Chats \ {c} : worker'[d] = worker[d]
  BY DEF Moves, TypeOK
<1>2. f \in [Chats -> Int] /\ h \in [Chats -> Int] /\ k \in Int
  BY DEF Weight
<1>3. h[c] = f[c] + k /\ \A d \in Chats \ {c} : h[d] = f[d]
  BY <1>1 DEF Weight
<1>4. Pending = SumFunction(f) /\ Pending' = SumFunction(h)
  BY DEF Pending
<1> HIDE DEF f, h, k
<1>5. SumFunction(h) = SumFunction(f) + k
  <2>1. IsFiniteSet(Chats)
    BY PipelineConstantsOK
  <2> QED
    BY <1>2, <1>3, <2>1, SumChanges
<1>6. Pending \in Int /\ Weight(c) \in Int
  BY PendingType DEF Weight
<1> QED
  BY <1>4, <1>5, <1>6 DEF k

\* The hits of a fingerprint in all chats.
InChats(h) == SumFunction([c \in Chats |-> perChat[<<c, h>>]])

\* One hit more in one chat.
LEMMA HitCounts ==
  ASSUME TypeOK, NEW c \in Chats, NEW x \in Hashes, perChat' = HitIn(c, x)
  PROVE  /\ \A h \in Hashes \ {x} : InChats(h)' = InChats(h)
         /\ InChats(x)' = InChats(x) + 1
         /\ InChats(x) \in Nat
<1>1. perChat \in [Chats \X Hashes -> Nat]
  BY DEF TypeOK
<1>2. perChat' = [perChat EXCEPT ![<<c, x>>] = @ + 1]
  BY DEF HitIn
<1>3. ASSUME NEW h \in Hashes \ {x}
      PROVE  InChats(h)' = InChats(h)
  <2>1. \A d \in Chats : perChat'[<<d, h>>] = perChat[<<d, h>>]
    BY <1>1, <1>2
  <2>2. [d \in Chats |-> perChat'[<<d, h>>]] = [d \in Chats |-> perChat[<<d, h>>]]
    BY <2>1
  <2> QED
    BY <2>2 DEF InChats
<1> DEFINE f == [d \in Chats |-> perChat[<<d, x>>]]
           g == [d \in Chats |-> perChat'[<<d, x>>]]
<1>4. InChats(x) = SumFunction(f) /\ InChats(x)' = SumFunction(g)
  BY DEF InChats
<1>5. f \in [Chats -> Nat] /\ f \in [Chats -> Int] /\ g \in [Chats -> Int]
  BY <1>1, <1>2
<1>6. g[c] = f[c] + 1 /\ \A d \in Chats \ {c} : g[d] = f[d]
  BY <1>1, <1>2
<1> HIDE DEF f, g
<1>7. SumFunction(g) = SumFunction(f) + 1 /\ SumFunction(f) \in Nat
  <2>1. IsFiniteSet(Chats)
    BY PipelineConstantsOK
  <2>2. SumFunction(f) \in Nat
    BY <1>5, <2>1, SumOfNaturals
  <2>3. SumFunction(g) = SumFunction(f) + 1
    BY <1>5, <1>6, <2>1, SumChanges
  <2> QED
    BY <2>2, <2>3
<1> QED
  BY <1>3, <1>4, <1>7

-----------------------------------------------------------------------------
(* Steps of a worker *)

\* The state w is one the worker of c may go to.
Fits(c, w) ==
  /\ w \in WorkerStates
  /\ w.step # "idle" => w.message \in Messages /\ chat_of[w.message] = c
  /\ w.step \in CasSteps => c \in CasChats
  /\ w.step = "write_redis" => /\ w.verdict \in CasVerdicts
                               /\ w.verdict \in answers'[writer[w.message]]
  /\ w.step \in {"record", "apply"} => /\ w.verdict \in {"ban", "delete"}
                                       /\ Grounds(hash_of[w.message])

\* A worker that has a message, and its parts.
LEMMA MessageUnderWay ==
  ASSUME TypeOK, WorkersAreSensible, NEW c \in Chats, ~At(c, "idle")
  PROVE  /\ MessageOf(c) \in Messages /\ chat_of[MessageOf(c)] = c
         /\ Hash(c) \in Hashes /\ User(c) \in Users
         /\ worker[c] \in WorkerStates
<1>1. MessageOf(c) \in Messages /\ chat_of[MessageOf(c)] = c /\ worker[c] \in WorkerStates
  BY DEF WorkersAreSensible, Sensible, At, MessageOf
<1> QED
  BY <1>1, HashOfMessage, PipelineConstantsOK DEF Hash, User

\* Idleness always fits.
LEMMA IdleFits ==
  ASSUME NEW c \in Chats
  PROVE  Fits(c, IdleWorker) /\ IdleWorker.step = "idle"
BY DEF Fits, IdleWorker, WorkerStates, Steps, CasSteps

\* Whoever goes to a state that fits stays sensible, and so do the others.
LEMMA WorkerStep ==
  ASSUME TypeOK, WorkersAreSensible, AnswersGrow,
         NEW c \in Chats, NEW w, Moves(c, w), Fits(c, w)
  PROVE  worker' \in [Chats -> WorkerStates] /\ WorkersAreSensible'
<1>1. worker \in [Chats -> WorkerStates]
  BY DEF TypeOK, WorkerStates
<1>2. worker' \in [Chats -> WorkerStates]
  BY <1>1 DEF Moves, Fits
<1>3. worker'[c] = w /\ \A d \in Chats \ {c} : worker'[d] = worker[d]
  BY <1>1 DEF Moves
<1>4. ASSUME NEW d \in Chats
      PROVE  Sensible(d, worker[d])'
  <2>1. CASE d = c
    <3>1. w.step \in {"record", "apply"} => Grounds(hash_of[w.message])'
      BY GroundsPersist DEF Fits
    <3> QED
      BY <1>3, <2>1, <3>1 DEF Sensible, Fits
  <2>2. CASE d # c
    <3>1. Sensible(d, worker[d]) /\ worker'[d] = worker[d]
      BY <1>3, <2>2 DEF WorkersAreSensible
    <3>2. worker[d].step \in {"record", "apply"} => Grounds(hash_of[worker[d].message])'
      BY <3>1, GroundsPersist DEF Sensible
    <3>3. worker[d].step = "write_redis" =>
            worker[d].verdict \in answers'[writer[worker[d].message]]
      BY <3>1, PipelineConstantsOK DEF Sensible, AnswersGrow
    <3> QED
      BY <3>1, <3>2, <3>3 DEF Sensible
  <2> QED
    BY <2>1, <2>2
<1> QED
  BY <1>2, <1>4 DEF WorkersAreSensible

\* A step that hits no fingerprint keeps the counts, whether the message stays,
\* goes, or is a new one.
LEMMA CountsKept ==
  ASSUME IInv, AnswersGrow, NEW c \in Chats, NEW w \in WorkerStates, Moves(c, w),
         UNCHANGED <<spam, perChat>>,
         \/ handled' = handled /\ (w.step \in Uncounted => worker[c].step \in Uncounted)
         \/ handled' = handled + 1
  PROVE  FingerprintsHaveGrounds' /\ HitsAreHandled' /\ AggregateIsExplained'
<1> USE DEF IInv
<1>1. FingerprintsHaveGrounds'
  BY GroundsPersist DEF FingerprintsHaveGrounds
<1>2. AggregateIsExplained'
  BY DEF AggregateIsExplained
<1>3. Pending \in Nat /\ Pending' \in Nat /\ handled \in Nat /\ handled' \in Nat
      /\ Pending' - handled' <= Pending - handled
  BY PendingType, PendingMoves DEF Weight, TypeOK
<1>4. ASSUME NEW h \in Hashes
      PROVE  /\ spam'[h] # NoRow => spam'[h].hits + Pending' <= handled'
             /\ \A d \in Chats : perChat'[<<d, h>>] + Pending' <= handled'
  <2>1. spam[h] # NoRow => spam[h].hits \in Nat /\ spam[h].hits + Pending <= handled
    BY DEF TypeOK, HitsAreHandled
  <2>2. \A d \in Chats : perChat[<<d, h>>] \in Nat /\ perChat[<<d, h>>] + Pending <= handled
    BY DEF TypeOK, HitsAreHandled
  <2> QED
    BY <1>3, <2>1, <2>2
<1> QED
  BY <1>1, <1>2, <1>4 DEF HitsAreHandled

\* A message under way is one of those handled, and no counter has got that far
\* without it.
LEMMA RoomForHit ==
  ASSUME TypeOK, HitsAreHandled, NEW c \in Chats, worker[c].step \in Uncounted,
         NEW h \in Hashes
  PROVE  /\ MaxHandled \in Nat /\ handled \in 0 .. MaxHandled
         /\ Pending \in Nat /\ 1 <= Pending
         /\ spam[h] # NoRow => /\ spam[h] \in [hits : 1 .. MaxHandled, age : 0 .. Retention + 1]
                               /\ spam[h].hits + Pending <= handled
         /\ \A d \in Chats : /\ perChat[<<d, h>>] \in 0 .. MaxHandled
                             /\ perChat[<<d, h>>] + Pending <= handled
<1>1. Pending \in Nat /\ 1 <= Pending
  BY PendingType DEF Weight
<1> QED
  BY <1>1, PipelineConstantsOK DEF TypeOK, HitsAreHandled

\* What one hit does to the fingerprint x: it is bumped, it is left alone where
\* only the chat's own statement finds its row, or it is new.
HitsFingerprint(x) ==
  \/ spam[x] # NoRow /\ spam' = Hit(x)
  \/ spam[x] # NoRow /\ spam' = spam
  \/ spam[x] = NoRow /\ spam' = [spam EXCEPT ![x] = [hits |-> 1, age |-> 0]]

\* A message that counts, and is done counting, keeps the counters right.
LEMMA HitKept ==
  ASSUME IInv, NEW c \in Chats, worker[c].step \in Uncounted,
         NEW w \in WorkerStates, w.step \notin Uncounted, Moves(c, w),
         HitsFingerprint(Hash(c)), perChat' = HitIn(c, Hash(c)),
         Grounds(Hash(c)), UNCHANGED <<caches, handled>>
  PROVE  /\ spam' \in [Hashes -> {NoRow} \cup
                           [hits : 1 .. MaxHandled, age : 0 .. Retention + 1]]
         /\ perChat' \in [Chats \X Hashes -> 0 .. MaxHandled]
         /\ FingerprintsHaveGrounds' /\ HitsAreHandled' /\ AggregateIsExplained'
<1> USE DEF IInv
<1> DEFINE x == Hash(c)
<1>1. x \in Hashes
  BY MessageUnderWay DEF At, Uncounted
<1>2. Pending' = Pending - 1
  BY PendingMoves, PendingType DEF Weight
<1>3. Pending \in Nat /\ 1 <= Pending /\ handled \in Nat /\ handled <= MaxHandled
      /\ MaxHandled \in Nat
  BY <1>1, RoomForHit
<1> HIDE DEF x
<1>4. /\ perChat' = HitIn(c, x) /\ HitsFingerprint(x) /\ Grounds(x)
  BY DEF x
<1>5. ASSUME NEW h \in Hashes
      PROVE  /\ spam'[h] \in {NoRow} \cup [hits : 1 .. MaxHandled, age : 0 .. Retention + 1]
             /\ spam'[h] # NoRow => spam'[h].hits + Pending' <= handled
             /\ spam'[h] # NoRow => spam[h] # NoRow \/ h = x
  <2>1. spam \in [Hashes -> {NoRow} \cup [hits : 1 .. MaxHandled, age : 0 .. Retention + 1]]
    BY DEF TypeOK
  <2>2. spam[h] # NoRow => /\ spam[h] \in [hits : 1 .. MaxHandled, age : 0 .. Retention + 1]
                          /\ spam[h].hits + Pending <= handled
    BY RoomForHit
  <2>3. CASE spam'[h] = spam[h]
    BY <1>2, <1>3, <2>1, <2>2, <2>3
  <2>4. CASE h = x /\ spam[x] # NoRow /\ spam' = Hit(x)
    <3>1. spam'[h] = [hits |-> spam[h].hits + 1, age |-> 0]
      BY <2>1, <2>4 DEF Hit
    <3>2. spam[h].hits + 1 \in 1 .. MaxHandled
      BY <1>3, <2>2, <2>4
    <3>3. 0 \in 0 .. Retention + 1
      BY PipelineConstantsOK
    <3> QED
      BY <1>2, <1>3, <2>2, <2>4, <3>1, <3>2, <3>3
  <2>5. CASE h = x /\ spam[x] = NoRow /\ spam' = [spam EXCEPT ![x] = [hits |-> 1, age |-> 0]]
    <3>1. spam'[h] = [hits |-> 1, age |-> 0]
      BY <2>1, <2>5
    <3>2. 1 + (Pending - 1) <= handled /\ 1 <= MaxHandled
      <4>1. perChat[<<c, x>>] \in Nat /\ perChat[<<c, x>>] + Pending <= handled
        BY <1>1, RoomForHit
      <4> QED
        BY <1>3, <4>1
    <3>3. 0 \in 0 .. Retention + 1 /\ 1 \in 1 .. MaxHandled
      BY <1>3, <3>2, PipelineConstantsOK
    <3> QED
      BY <1>2, <2>5, <3>1, <3>2, <3>3
  <2>6. spam'[h] = spam[h] \/ (h = x /\ spam' # spam)
    BY <1>4, <2>1 DEF HitsFingerprint, Hit
  <2> QED
    BY <1>4, <2>3, <2>4, <2>5, <2>6 DEF HitsFingerprint
<1>6. spam' \in [Hashes -> {NoRow} \cup [hits : 1 .. MaxHandled, age : 0 .. Retention + 1]]
  <2>1. DOMAIN spam' = Hashes /\ spam' = [h \in Hashes |-> spam'[h]]
    BY <1>4 DEF TypeOK, HitsFingerprint, Hit
  <2> QED
    BY <1>5, <2>1
<1>7. perChat \in [Chats \X Hashes -> 0 .. MaxHandled]
  BY DEF TypeOK
<1>8. ASSUME NEW d \in Chats, NEW h \in Hashes
      PROVE  perChat'[<<d, h>>] \in 0 .. MaxHandled /\ perChat'[<<d, h>>] + Pending' <= handled
  <2>1. perChat'[<<d, h>>] = IF d = c /\ h = x THEN perChat[<<d, h>>] + 1 ELSE perChat[<<d, h>>]
    BY <1>1, <1>4, <1>7 DEF HitIn
  <2>2. perChat[<<d, h>>] \in 0 .. MaxHandled /\ perChat[<<d, h>>] + Pending <= handled
    BY RoomForHit
  <2> QED
    BY <1>2, <1>3, <2>1, <2>2
<1>9. perChat' \in [Chats \X Hashes -> 0 .. MaxHandled]
  <2>1. \A ch \in Chats \X Hashes : perChat'[ch] \in 0 .. MaxHandled
    BY <1>8
  <2> QED
    BY <1>4, <1>7, <2>1 DEF HitIn
<1>10. FingerprintsHaveGrounds'
  <2>1. \A h : Grounds(h) => Grounds(h)'
    BY DEF Grounds, caches
  <2> QED
    BY <1>4, <1>5, <2>1 DEF FingerprintsHaveGrounds
<1>11. HitsAreHandled'
  BY <1>5, <1>8 DEF HitsAreHandled
<1>12. AggregateIsExplained'
  <2> SUFFICES ASSUME NEW h \in Hashes
               PROVE  IF spam'[h] = NoRow THEN InChats(h)' = 0 ELSE spam'[h].hits <= InChats(h)'
    BY DEF AggregateIsExplained, InChats
  <2>1. IF spam[h] = NoRow THEN InChats(h) = 0 ELSE spam[h].hits <= InChats(h)
    BY DEF AggregateIsExplained, InChats
  <2>2. /\ h # x => InChats(h)' = InChats(h)
        /\ h = x => InChats(h)' = InChats(h) + 1 /\ InChats(h) \in Nat
    BY <1>1, <1>4, HitCounts
  <2>3. spam \in [Hashes -> {NoRow} \cup [hits : 1 .. MaxHandled, age : 0 .. Retention + 1]]
    BY DEF TypeOK
  <2>4. CASE h # x
    <3>1. spam'[h] = spam[h]
      BY <1>4, <2>3, <2>4 DEF HitsFingerprint, Hit
    <3> QED
      BY <2>1, <2>2, <2>4, <3>1
  <2>5. CASE h = x /\ spam[h] # NoRow
    <3>1. spam[h].hits \in Nat
      BY <2>3, <2>5
    <3>2. spam'[h] = spam[h] \/ spam'[h] = [hits |-> spam[h].hits + 1, age |-> 0]
      BY <1>4, <2>3, <2>5 DEF HitsFingerprint, Hit
    <3>3. spam'[h] # NoRow
      BY <2>5, <3>1, <3>2, PipelineConstantsOK
    <3>4. spam'[h].hits <= spam[h].hits + 1
      BY <3>1, <3>2
    <3>5. spam'[h].hits \in Nat
      BY <3>1, <3>2
    <3> QED
      BY <2>1, <2>2, <2>5, <3>1, <3>3, <3>4, <3>5
  <2>6. CASE h = x /\ spam[h] = NoRow
    <3>1. spam'[h] = [hits |-> 1, age |-> 0]
      BY <1>4, <2>3, <2>6 DEF HitsFingerprint
    <3>2. spam'[h] # NoRow
      BY <3>1, PipelineConstantsOK
    <3> QED
      BY <2>1, <2>2, <2>6, <3>1, <3>2
  <2> QED
    BY <2>4, <2>5, <2>6
<1> QED
  BY <1>6, <1>9, <1>10, <1>11, <1>12

-----------------------------------------------------------------------------
(* The actions of a worker *)

\* What is left of the invariant for a step that changes neither the ledger nor
\* the caches but for the better.
LEMMA RestKept ==
  ASSUME TypeOK, CachesAreAnswers, BansHaveGrounds, AnswersGrow,
         answers' \in [Users -> SUBSET CasVerdicts],
         ledger' \subseteq {"ban", "delete"} \X Messages,
         \A m \in Messages : <<"ban", m>> \in ledger' =>
                             <<"ban", m>> \in ledger \/ Grounds(hash_of[m]),
         moka' \in [Users -> {"none"} \cup CasVerdicts],
         redis' \in [Users -> {"none"} \cup CasVerdicts],
         \A u \in Users : /\ moka'[u] \in {"none", moka[u]} \cup answers'[u]
                          /\ redis'[u] \in {"none", redis[u]} \cup answers'[u]
  PROVE  CachesAreAnswers' /\ BansHaveGrounds'
<1>1. CachesAreAnswers'
  BY DEF CachesAreAnswers, AnswersGrow
<1>2. BansHaveGrounds'
  BY GroundsPersist DEF BansHaveGrounds
<1> QED
  BY <1>1, <1>2

\* A new message.
LEMMA InvReceive ==
  ASSUME IInv, NEW c \in Chats, NEW m \in Messages, receive(c, m)
  PROVE  IInv'
<1> USE DEF IInv
<1>1. PICK step \in {"lookup", "log"} :
        worker' = [worker EXCEPT ![c] = [IdleWorker EXCEPT !.step = step, !.message = m]]
  BY DEF receive
<1> DEFINE w == [IdleWorker EXCEPT !.step = step, !.message = m]
<1>2. w \in WorkerStates /\ w.step = step /\ w.message = m
  BY DEF IdleWorker, WorkerStates, Steps
<1>3. Moves(c, w) /\ Fits(c, w) /\ w \in WorkerStates
  BY <1>1, <1>2 DEF Moves, Fits, WorkerStates, Steps, CasSteps, receive
<1> HIDE DEF w
<1>4. UNCHANGED <<spam, perChat, ledger, logged, moka, redis, answers>>
      /\ seen' = seen \cup {m} /\ handled' = handled + 1 /\ handled < MaxHandled
  BY DEF receive, tables, caches
<1>5. AnswersGrow
  BY <1>4 DEF AnswersGrow
<1>6. FingerprintsHaveGrounds' /\ HitsAreHandled' /\ AggregateIsExplained'
  BY <1>3, <1>4, <1>5, CountsKept
<1>7. worker' \in [Chats -> WorkerStates] /\ WorkersAreSensible'
  BY <1>3, <1>5, WorkerStep
<1>8. TypeOK'
  BY <1>4, <1>7, PipelineConstantsOK DEF TypeOK, WorkerStates
<1>9. CachesAreAnswers' /\ BansHaveGrounds'
  BY <1>4 DEF CachesAreAnswers, BansHaveGrounds, Grounds
<1> QED
  BY <1>6, <1>7, <1>8, <1>9

\* A step that touches none of the tables of the fingerprints, nor the ledger.
LEMMA InvQuietStep ==
  ASSUME IInv, NEW c \in Chats, NEW w, Moves(c, w), Fits(c, w), AnswersGrow,
         w.step \in Uncounted => worker[c].step \in Uncounted,
         UNCHANGED <<spam, perChat, ledger, seen, handled>>,
         logged' \subseteq Messages,
         answers' \in [Users -> SUBSET CasVerdicts],
         moka' \in [Users -> {"none"} \cup CasVerdicts],
         redis' \in [Users -> {"none"} \cup CasVerdicts],
         \A u \in Users : /\ moka'[u] \in {"none", moka[u]} \cup answers'[u]
                          /\ redis'[u] \in {"none", redis[u]} \cup answers'[u]
  PROVE  IInv'
<1> USE DEF IInv
<1>1. w \in WorkerStates
  BY DEF Fits
<1>2. FingerprintsHaveGrounds' /\ HitsAreHandled' /\ AggregateIsExplained'
  BY <1>1, CountsKept
<1>3. worker' \in [Chats -> WorkerStates] /\ WorkersAreSensible'
  BY WorkerStep
<1>4. ledger \subseteq {"ban", "delete"} \X Messages
  BY DEF TypeOK
<1>5. CachesAreAnswers' /\ BansHaveGrounds'
  BY <1>4, RestKept
<1>6. TypeOK'
  BY <1>3 DEF TypeOK, WorkerStates
<1> QED
  BY <1>2, <1>3, <1>5, <1>6

\* The worker's own state, gone on to another step.
Went(c, step) == [step |-> step, message |-> MessageOf(c), verdict |-> worker[c].verdict]
Decided(c, step, verdict) == [step |-> step, message |-> MessageOf(c), verdict |-> verdict]

\* A message under way may go on to any step that needs no verdict, in a chat that
\* asks CAS also to the tiers, and to record or apply what has grounds.
LEMMA GoingFits ==
  ASSUME TypeOK, WorkersAreSensible, NEW c \in Chats, ~At(c, "idle")
  PROVE  /\ \A step \in {"lookup", "bump", "bump_chat", "score", "log"} :
              Fits(c, Went(c, step)) /\ Fits(c, Decided(c, step, "Allow"))
         /\ c \in CasChats =>
              \A step \in {"moka", "redis", "http"} : Fits(c, Went(c, step))
         /\ Grounds(Hash(c)) =>
              \A step \in {"record", "apply"}, verdict \in {"ban", "delete"} :
                Fits(c, Decided(c, step, verdict))
         /\ c \in CasChats =>
              \A verdict \in CasVerdicts : verdict \in answers'[User(c)] =>
                Fits(c, Decided(c, "write_redis", verdict))
<1>1. MessageOf(c) \in Messages /\ chat_of[MessageOf(c)] = c /\ worker[c] \in WorkerStates
  BY MessageUnderWay
<1>2. worker[c].verdict \in {"Allow", "Clean", "Flagged", "ban", "delete"}
  BY <1>1 DEF WorkerStates
<1>3. \A step \in Steps, verdict \in {"Allow", "Clean", "Flagged", "ban", "delete"} :
        Decided(c, step, verdict) \in WorkerStates
  BY <1>1 DEF Decided, WorkerStates
<1>4. \A step : Went(c, step) = Decided(c, step, worker[c].verdict)
  BY DEF Went, Decided
<1>5. \A step, verdict : /\ Decided(c, step, verdict).step = step
                         /\ Decided(c, step, verdict).message = MessageOf(c)
                         /\ Decided(c, step, verdict).verdict = verdict
  BY DEF Decided
<1>6. \A step \in {"lookup", "bump", "bump_chat", "score", "log"} :
        Fits(c, Went(c, step)) /\ Fits(c, Decided(c, step, "Allow"))
  BY <1>1, <1>2, <1>3, <1>4, <1>5 DEF Fits, Steps, CasSteps
<1>7. c \in CasChats => \A step \in {"moka", "redis", "http"} : Fits(c, Went(c, step))
  BY <1>1, <1>2, <1>3, <1>4, <1>5 DEF Fits, Steps, CasSteps
<1>8. Grounds(Hash(c)) =>
        \A step \in {"record", "apply"}, verdict \in {"ban", "delete"} :
          Fits(c, Decided(c, step, verdict))
  BY <1>1, <1>3, <1>5 DEF Fits, Steps, CasSteps, Hash
<1>9. c \in CasChats =>
        \A verdict \in CasVerdicts : verdict \in answers'[User(c)] =>
          Fits(c, Decided(c, "write_redis", verdict))
  BY <1>1, <1>3, <1>5 DEF Fits, Steps, CasSteps, CasVerdicts, User
<1> QED
  BY <1>6, <1>7, <1>8, <1>9

\* CAS flags the writer in a chat that asks it: that is a ground.
LEMMA FlaggedIsGround ==
  ASSUME TypeOK, WorkersAreSensible, NEW c \in Chats, ~At(c, "idle"),
         c \in CasChats, "Flagged" \in answers[User(c)]
  PROVE  Grounds(Hash(c))
BY MessageUnderWay DEF Grounds, Hash, User

\* The step after a verdict of CAS that it gave.
LEMMA JudgedFits ==
  ASSUME TypeOK, WorkersAreSensible, NEW c \in Chats, worker[c].step \in CasSteps,
         NEW verdict \in CasVerdicts,
         verdict = "Clean" \/ verdict \in answers[User(c)],
         Judged(c, verdict)
  PROVE  \E w : Moves(c, w) /\ Fits(c, w)
<1>1. c \in CasChats /\ ~At(c, "idle")
  BY DEF WorkersAreSensible, Sensible, At, CasSteps
<1>2. CASE verdict = "Flagged"
  <2>1. Moves(c, Decided(c, "record", "ban"))
    BY <1>2, WorkerMoves DEF Judged, Decided
  <2>2. Fits(c, Decided(c, "record", "ban"))
    BY <1>1, <1>2, FlaggedIsGround, GoingFits
  <2> QED
    BY <2>1, <2>2
<1>3. CASE verdict # "Flagged"
  <2>1. Moves(c, Went(c, "score"))
    BY <1>3, WorkerMoves DEF Judged, Went
  <2>2. Fits(c, Went(c, "score"))
    BY <1>1, GoingFits
  <2> QED
    BY <2>1, <2>2
<1> QED
  BY <1>2, <1>3

\* A worker that moves within what CAS has said: nothing else changes but the
\* caches, which hold what it said.
LEMMA InvCasStep ==
  ASSUME IInv, NEW c \in Chats, worker[c].step \in CasSteps,
         NEW w, Moves(c, w), Fits(c, w), AnswersGrow,
         UNCHANGED <<tables, seen, handled>>,
         answers' \in [Users -> SUBSET CasVerdicts],
         moka' \in [Users -> {"none"} \cup CasVerdicts],
         redis' \in [Users -> {"none"} \cup CasVerdicts],
         \A u \in Users : /\ moka'[u] \in {"none", moka[u]} \cup answers'[u]
                          /\ redis'[u] \in {"none", redis[u]} \cup answers'[u]
  PROVE  IInv'
<1>1. worker[c].step \in Uncounted
  BY DEF CasSteps, Uncounted
<1>2. UNCHANGED <<spam, perChat, ledger, logged>>
  BY DEF tables
<1>3. logged \subseteq Messages
  BY DEF IInv, TypeOK
<1> QED
  BY <1>1, <1>2, <1>3, InvQuietStep

\* The three reads and the write of CasClient::lookup.
LEMMA InvCas ==
  ASSUME IInv, NEW c \in Chats,
         moka_get(c) \/ redis_get(c) \/ http_check(c) \/ write_redis(c)
  PROVE  IInv'
<1> USE DEF IInv
<1> DEFINE u == User(c)
<1>1. worker[c].step \in CasSteps /\ ~At(c, "idle")
  BY DEF moka_get, redis_get, http_check, write_redis, At, CasSteps
<1>2. u \in Users /\ c \in CasChats
  BY <1>1, MessageUnderWay DEF WorkersAreSensible, Sensible
<1>3. /\ moka \in [Users -> {"none"} \cup CasVerdicts]
      /\ redis \in [Users -> {"none"} \cup CasVerdicts]
      /\ answers \in [Users -> SUBSET CasVerdicts]
  BY DEF TypeOK
<1>4. {moka[u], redis[u]} \ {"none"} \subseteq answers[u]
  BY <1>2 DEF CachesAreAnswers
<1>5. CASE moka_get(c)
  <2>1. UNCHANGED <<tables, moka, redis, answers, seen, handled>>
    BY <1>5 DEF moka_get, caches
  <2>2. \E w : Moves(c, w) /\ Fits(c, w)
    <3>1. CASE moka[u] # "none"
      <4>1. Judged(c, moka[u]) /\ moka[u] \in CasVerdicts
        BY <1>2, <1>3, <1>5, <3>1 DEF moka_get
      <4> HIDE DEF u
      <4>2. moka[u] \in answers[u]
        BY <1>4, <3>1
      <4> QED
        BY <1>1, <4>1, <4>2, JudgedFits DEF u
    <3>2. CASE moka[u] = "none"
      <4>1. Moves(c, Went(c, "redis"))
        BY <1>5, <3>2, WorkerMoves DEF moka_get, Went
      <4> QED
        BY <1>1, <1>2, <4>1, GoingFits
    <3> QED
      BY <3>1, <3>2
  <2> QED
    BY <1>1, <1>3, <2>1, <2>2, InvCasStep DEF AnswersGrow
<1>6. CASE redis_get(c)
  <2>1. UNCHANGED <<tables, redis, answers, seen, handled>>
    BY <1>6 DEF redis_get
  <2>2. CASE redis[u] # "none" /\ moka' = [moka EXCEPT ![u] = redis[u]] /\ Judged(c, redis[u])
    <3>1. redis[u] \in CasVerdicts /\ redis[u] \in answers[u]
      BY <1>2, <1>3, <1>4, <2>2
    <3>2. PICK w : Moves(c, w) /\ Fits(c, w)
      BY <1>1, <2>2, <3>1, JudgedFits
    <3> HIDE DEF u
    <3>3. /\ moka' \in [Users -> {"none"} \cup CasVerdicts]
          /\ \A v \in Users : moka'[v] \in {"none", moka[v]} \cup answers[v]
      BY <1>2, <1>3, <2>2, <3>1
    <3> QED
      BY <1>1, <1>3, <2>1, <3>2, <3>3, InvCasStep DEF AnswersGrow
  <2>3. CASE Goto(c, "http") /\ UNCHANGED moka
    <3>1. Moves(c, Went(c, "http")) /\ Fits(c, Went(c, "http"))
      BY <1>1, <1>2, <2>3, WorkerMoves, GoingFits DEF Went
    <3> QED
      BY <1>1, <1>3, <2>1, <2>3, <3>1, InvCasStep DEF AnswersGrow
  <2> QED
    BY <1>6, <2>2, <2>3 DEF redis_get
<1>7. CASE http_check(c)
  <2>1. UNCHANGED <<tables, redis, seen, handled>>
    BY <1>7 DEF http_check
  <2>2. ASSUME NEW verdict \in CasVerdicts,
               answers' = [answers EXCEPT ![u] = @ \cup {verdict}],
               moka' = [moka EXCEPT ![u] = verdict],
               Decide(c, "write_redis", verdict)
        PROVE  IInv'
    <3> HIDE DEF u
    <3>1. AnswersGrow /\ verdict \in answers'[u]
          /\ answers' \in [Users -> SUBSET CasVerdicts]
      BY <1>2, <1>3, <2>2 DEF AnswersGrow
    <3>2. /\ moka' \in [Users -> {"none"} \cup CasVerdicts]
          /\ \A v \in Users : moka'[v] \in {"none", moka[v]} \cup answers'[v]
      BY <1>2, <1>3, <2>2, <3>1
    <3>3. Moves(c, Decided(c, "write_redis", verdict))
      BY <2>2, WorkerMoves DEF Decided
    <3>4. Fits(c, Decided(c, "write_redis", verdict))
      BY <1>1, <1>2, <3>1, GoingFits DEF u
    <3> QED
      BY <1>1, <1>3, <2>1, <3>1, <3>2, <3>3, <3>4, InvCasStep
  <2>3. CASE Judged(c, "Clean") /\ UNCHANGED <<moka, answers>>
    <3>1. "Clean" \in CasVerdicts
      BY DEF CasVerdicts
    <3>2. PICK w : Moves(c, w) /\ Fits(c, w)
      BY <1>1, <2>3, <3>1, JudgedFits
    <3> QED
      BY <1>1, <1>3, <2>1, <2>3, <3>2, InvCasStep DEF AnswersGrow
  <2> QED
    BY <1>7, <2>2, <2>3 DEF http_check
<1>8. CASE write_redis(c)
  <2> DEFINE v == worker[c].verdict
  <2>1. UNCHANGED <<tables, moka, answers, seen, handled>> /\ Judged(c, v)
    BY <1>8 DEF write_redis
  <2>2. v \in CasVerdicts /\ v \in answers[u]
    BY <1>8 DEF write_redis, At, WorkersAreSensible, Sensible, User, MessageOf
  <2>3. PICK w : Moves(c, w) /\ Fits(c, w)
    BY <1>1, <2>1, <2>2, JudgedFits
  <2>4. redis' = [redis EXCEPT ![u] = v] \/ redis' = redis
    BY <1>8 DEF write_redis
  <2> HIDE DEF u, v
  <2>5. /\ redis' \in [Users -> {"none"} \cup CasVerdicts]
        /\ \A x \in Users : redis'[x] \in {"none", redis[x]} \cup answers[x]
    BY <1>2, <1>3, <2>2, <2>4
  <2> QED
    BY <1>1, <1>3, <2>1, <2>3, <2>5, InvCasStep DEF AnswersGrow
<1> QED
  BY <1>5, <1>6, <1>7, <1>8

\* The steps of inspect that leave tables and caches as they are, those that fail,
\* and the log of what is allowed.
LEMMA InvOther ==
  ASSUME IInv, NEW c \in Chats,
         lookup(c) \/ score(c) \/ inspect_fails(c) \/ log_allowed_message(c)
  PROVE  IInv'
<1> USE DEF IInv
<1>1. ~At(c, "idle")
  BY DEF lookup, score, inspect_fails, log_allowed_message, At
<1>2. MessageOf(c) \in Messages /\ Hash(c) \in Hashes
  BY <1>1, MessageUnderWay
<1>3. UNCHANGED <<spam, perChat, ledger, moka, redis, answers, seen, handled>>
      /\ logged' \subseteq Messages
  BY <1>2 DEF lookup, score, inspect_fails, log_allowed_message, tables, caches, TypeOK
<1>4. \E w : /\ Moves(c, w) /\ Fits(c, w)
             /\ w.step \in Uncounted => worker[c].step \in Uncounted
  <2>1. CASE lookup(c)
    <3>1. worker[c].step \in Uncounted
      BY <2>1 DEF lookup, At, Uncounted
    <3>2. PICK step \in {"bump", "moka", "score"} :
            Goto(c, step) /\ (step = "moka" => c \in CasChats)
      BY <2>1 DEF lookup
    <3>3. Moves(c, Went(c, step))
      BY <3>2, WorkerMoves DEF Went
    <3>4. Fits(c, Went(c, step))
      BY <1>1, <3>2, GoingFits
    <3> QED
      BY <3>1, <3>3, <3>4
  <2>2. CASE score(c)
    <3>1. worker[c].step \in Uncounted
      BY <2>2 DEF score, At, Uncounted
    <3>2. CASE <<c, Hash(c)>> \in spammy
      <4>1. Grounds(Hash(c))
        BY <3>2 DEF Grounds
      <4>2. Moves(c, Decided(c, "record", "delete"))
        BY <2>2, <3>2, WorkerMoves DEF score, Decided
      <4>3. Fits(c, Decided(c, "record", "delete"))
        BY <1>1, <4>1, GoingFits
      <4> QED
        BY <3>1, <4>2, <4>3
    <3>3. CASE <<c, Hash(c)>> \notin spammy
      <4>1. Moves(c, Decided(c, "log", "Allow"))
        BY <2>2, <3>3, WorkerMoves DEF score, Decided
      <4>2. Fits(c, Decided(c, "log", "Allow"))
        BY <1>1, GoingFits
      <4> QED
        BY <3>1, <4>1, <4>2
    <3> QED
      BY <3>2, <3>3
  <2>3. CASE inspect_fails(c) \/ log_allowed_message(c)
    <3>1. Moves(c, IdleWorker)
      BY <2>3, WorkerMoves DEF inspect_fails, log_allowed_message
    <3>2. IdleWorker.step \notin Uncounted
      BY DEF IdleWorker, Uncounted
    <3> QED
      BY <3>1, <3>2, IdleFits
  <2> QED
    BY <2>1, <2>2, <2>3
<1>5. AnswersGrow
  BY <1>3 DEF AnswersGrow
<1>6. /\ answers \in [Users -> SUBSET CasVerdicts]
      /\ moka \in [Users -> {"none"} \cup CasVerdicts]
      /\ redis \in [Users -> {"none"} \cup CasVerdicts]
  BY DEF TypeOK
<1> QED
  BY <1>3, <1>4, <1>5, <1>6, InvQuietStep

\* The verdict is applied.
LEMMA InvApply ==
  ASSUME IInv, NEW c \in Chats, apply(c)
  PROVE  IInv'
<1> USE DEF IInv
<1> DEFINE m == MessageOf(c)
           v == worker[c].verdict
<1>1. ~At(c, "idle") /\ worker[c].step = "apply"
  BY DEF apply, At
<1>2. m \in Messages /\ v \in {"ban", "delete"} /\ Grounds(hash_of[m])
  BY <1>1, MessageUnderWay DEF WorkersAreSensible, Sensible, MessageOf
<1>3. UNCHANGED <<spam, perChat, logged, moka, redis, answers, seen, handled>>
  BY DEF apply, caches
<1>4. ledger' = ledger \cup {<<v, m>>} \/ ledger' = ledger
  BY DEF apply
<1>5. Moves(c, IdleWorker) /\ Fits(c, IdleWorker) /\ IdleWorker \in WorkerStates
      /\ IdleWorker.step \notin Uncounted
  BY WorkerMoves, IdleFits DEF apply, Fits, Uncounted
<1>6. AnswersGrow
  BY <1>3 DEF AnswersGrow
<1>7. FingerprintsHaveGrounds' /\ HitsAreHandled' /\ AggregateIsExplained'
  BY <1>3, <1>5, <1>6, CountsKept
<1>8. worker' \in [Chats -> WorkerStates] /\ WorkersAreSensible'
  BY <1>5, <1>6, WorkerStep
<1> HIDE DEF m, v
<1>9. ledger' \subseteq {"ban", "delete"} \X Messages
  BY <1>2, <1>4 DEF TypeOK
<1>10. TypeOK'
  BY <1>3, <1>8, <1>9 DEF TypeOK, WorkerStates
<1>11. CachesAreAnswers'
  BY <1>3 DEF CachesAreAnswers
<1>12. BansHaveGrounds'
  <2>1. \A n \in Messages : <<"ban", n>> \in ledger' =>
                              <<"ban", n>> \in ledger \/ Grounds(hash_of[n])
    BY <1>2, <1>4
  <2> QED
    BY <1>6, <2>1, GroundsPersist DEF BansHaveGrounds
<1> QED
  BY <1>7, <1>8, <1>10, <1>11, <1>12

\* A hit: the bump, the chat's statement alone, or the record of a new text.
LEMMA InvHit ==
  ASSUME IInv, NEW c \in Chats, bump(c) \/ bump_chat(c) \/ record(c)
  PROVE  IInv'
<1> USE DEF IInv
<1> DEFINE x == Hash(c)
<1>1. ~At(c, "idle") /\ worker[c].step \in Uncounted
  BY DEF bump, bump_chat, record, At, Uncounted
<1>2. UNCHANGED <<ledger, logged, moka, redis, answers, seen, handled>>
  BY DEF bump, bump_chat, record, caches
<1>3. x \in Hashes
  BY <1>1, MessageUnderWay
<1>4. AnswersGrow
  BY <1>2 DEF AnswersGrow
<1>5. /\ answers \in [Users -> SUBSET CasVerdicts]
      /\ moka \in [Users -> {"none"} \cup CasVerdicts]
      /\ redis \in [Users -> {"none"} \cup CasVerdicts]
      /\ logged \subseteq Messages
  BY DEF TypeOK
<1>6. CASE UNCHANGED <<spam, perChat>>
  <2>1. CASE Goto(c, "bump_chat")
    <3>1. Moves(c, Went(c, "bump_chat")) /\ Fits(c, Went(c, "bump_chat"))
      BY <1>1, <2>1, WorkerMoves, GoingFits DEF Went
    <3> QED
      BY <1>1, <1>2, <1>4, <1>5, <1>6, <3>1, InvQuietStep
  <2>2. CASE Finish(c)
    <3>1. Moves(c, IdleWorker) /\ Fits(c, IdleWorker)
      BY <2>2, WorkerMoves, IdleFits
    <3> QED
      BY <1>1, <1>2, <1>4, <1>5, <1>6, <3>1, InvQuietStep
  <2>3. perChat \in [Chats \X Hashes -> Nat]
    BY DEF TypeOK
  <2>4. perChat' # HitIn(c, x)
    BY <1>3, <1>6, <2>3 DEF HitIn
  <2> QED
    BY <1>6, <2>1, <2>2, <2>4 DEF bump, bump_chat, record
<1>7. CASE ~UNCHANGED <<spam, perChat>>
  <2>1. /\ perChat' = HitIn(c, x) /\ HitsFingerprint(x)
        /\ \/ Decide(c, "apply", "ban") /\ spam[x] # NoRow
           \/ Goto(c, "apply") /\ worker[c].step = "record"
    BY <1>7 DEF bump, bump_chat, record, HitsFingerprint, At
  <2>2. Grounds(x)
    BY <1>3, <2>1 DEF FingerprintsHaveGrounds, WorkersAreSensible, Sensible, Hash, MessageOf
  <2>3. PICK v \in {"ban", "delete"} : Moves(c, Decided(c, "apply", v))
    <3>1. CASE Decide(c, "apply", "ban")
      BY <3>1, WorkerMoves DEF Decided
    <3>2. CASE Goto(c, "apply") /\ worker[c].step = "record"
      <4>1. worker[c].verdict \in {"ban", "delete"}
        BY <3>2 DEF WorkersAreSensible, Sensible
      <4> QED
        BY <3>2, <4>1, WorkerMoves DEF Decided
    <3> QED
      BY <2>1, <3>1, <3>2
  <2> DEFINE w == Decided(c, "apply", v)
  <2>4. Fits(c, w) /\ w \in WorkerStates /\ w.step \notin Uncounted
    BY <1>1, <2>2, GoingFits DEF Fits, Decided, Uncounted
  <2> HIDE DEF w
  <2>5. Moves(c, w)
    BY <2>3 DEF w
  <2>6. UNCHANGED <<caches, handled>>
    BY <1>2 DEF caches
  <2>7. /\ spam' \in [Hashes -> {NoRow} \cup
                           [hits : 1 .. MaxHandled, age : 0 .. Retention + 1]]
        /\ perChat' \in [Chats \X Hashes -> 0 .. MaxHandled]
        /\ FingerprintsHaveGrounds' /\ HitsAreHandled' /\ AggregateIsExplained'
    BY <1>1, <2>1, <2>2, <2>4, <2>5, <2>6, HitKept
  <2>8. worker' \in [Chats -> WorkerStates] /\ WorkersAreSensible'
    BY <1>4, <2>4, <2>5, WorkerStep
  <2>9. TypeOK'
    BY <1>2, <2>7, <2>8 DEF TypeOK, WorkerStates
  <2>10. CachesAreAnswers' /\ BansHaveGrounds'
    BY <1>2 DEF CachesAreAnswers, BansHaveGrounds, Grounds
  <2> QED
    BY <2>7, <2>8, <2>9, <2>10
<1> QED
  BY <1>6, <1>7

-----------------------------------------------------------------------------
(* The job and the environment *)

\* prune_expired takes the rows of the chats along with the fingerprint.
LEMMA InvPrune ==
  ASSUME IInv, prune_expired
  PROVE  IInv'
<1> USE DEF IInv
<1>1. /\ spam' = [h \in Hashes |-> IF Stale(h) THEN NoRow ELSE spam[h]]
      /\ perChat' = [ch \in Chats \X Hashes |-> IF Stale(ch[2]) THEN 0 ELSE perChat[ch]]
      /\ UNCHANGED <<ledger, logged, moka, redis, answers, seen, handled, worker>>
  BY DEF prune_expired, caches
<1>2. /\ spam \in [Hashes -> {NoRow} \cup [hits : 1 .. MaxHandled, age : 0 .. Retention + 1]]
      /\ perChat \in [Chats \X Hashes -> 0 .. MaxHandled]
      /\ handled \in 0 .. MaxHandled /\ MaxHandled \in Nat
  BY PipelineConstantsOK DEF TypeOK
<1>3. /\ spam' \in [Hashes -> {NoRow} \cup [hits : 1 .. MaxHandled, age : 0 .. Retention + 1]]
      /\ perChat' \in [Chats \X Hashes -> 0 .. MaxHandled]
  BY <1>1, <1>2
<1>4. TypeOK'
  BY <1>1, <1>3 DEF TypeOK
<1>5. \A h : Grounds(h)' <=> Grounds(h)
  BY <1>1 DEF Grounds
<1>6. WorkersAreSensible'
  BY <1>1, <1>5 DEF WorkersAreSensible, Sensible
<1>7. CachesAreAnswers' /\ BansHaveGrounds' /\ FingerprintsHaveGrounds'
  BY <1>1, <1>5 DEF CachesAreAnswers, BansHaveGrounds, FingerprintsHaveGrounds
<1>8. Pending' = Pending /\ Pending \in Nat
  BY <1>1, PendingType DEF Pending, Weight
<1>9. HitsAreHandled'
  <2> SUFFICES ASSUME NEW h \in Hashes
               PROVE  /\ spam'[h] # NoRow => spam'[h].hits + Pending' <= handled'
                      /\ \A c \in Chats : perChat'[<<c, h>>] + Pending' <= handled'
    BY DEF HitsAreHandled
  <2>1. /\ spam[h] # NoRow => spam[h].hits + Pending <= handled
        /\ \A c \in Chats : perChat[<<c, h>>] + Pending <= handled
    BY DEF HitsAreHandled
  <2>2. spam'[h] # NoRow => spam'[h] = spam[h]
    BY <1>1
  <2>3. \A c \in Chats : perChat'[<<c, h>>] \in 0 .. perChat[<<c, h>>]
    BY <1>1, <1>2
  <2>4. \A c \in Chats : perChat[<<c, h>>] \in Nat
    BY <1>2
  <2>5. ASSUME NEW c \in Chats
        PROVE  perChat'[<<c, h>>] + Pending' <= handled'
    BY <1>1, <1>2, <1>8, <2>1, <2>3, <2>4
  <2> QED
    BY <1>1, <1>8, <2>1, <2>2, <2>5
<1>10. AggregateIsExplained'
  <2> SUFFICES ASSUME NEW h \in Hashes
               PROVE  IF spam'[h] = NoRow THEN InChats(h)' = 0 ELSE spam'[h].hits <= InChats(h)'
    BY DEF AggregateIsExplained, InChats
  <2>1. IF spam[h] = NoRow THEN InChats(h) = 0 ELSE spam[h].hits <= InChats(h)
    BY DEF AggregateIsExplained, InChats
  <2>2. CASE Stale(h)
    <3> DEFINE f == [c \in Chats |-> perChat'[<<c, h>>]]
    <3>1. f \in [Chats -> Int] /\ \A c \in Chats : f[c] = 0
      BY <1>1, <2>2
    <3>2. InChats(h)' = SumFunction(f)
      BY DEF InChats
    <3> HIDE DEF f
    <3>3. SumFunction(f) = 0
      BY <3>1, SumOfZeros, PipelineConstantsOK
    <3>4. spam'[h] = NoRow
      BY <1>1, <2>2
    <3> QED
      BY <3>2, <3>3, <3>4
  <2>3. CASE ~Stale(h)
    <3>1. \A c \in Chats : perChat'[<<c, h>>] = perChat[<<c, h>>]
      BY <1>1, <1>2, <2>3
    <3>2. [c \in Chats |-> perChat'[<<c, h>>]] = [c \in Chats |-> perChat[<<c, h>>]]
      BY <3>1
    <3>3. InChats(h)' = InChats(h)
      BY <3>2 DEF InChats
    <3>4. spam'[h] = spam[h]
      BY <1>1, <2>3
    <3> QED
      BY <2>1, <3>3, <3>4
  <2> QED
    BY <2>2, <2>3
<1> QED
  BY <1>4, <1>6, <1>7, <1>9, <1>10

\* Fingerprints grow older.
LEMMA InvTick ==
  ASSUME IInv, Tick
  PROVE  IInv'
<1> USE DEF IInv
<1>1. /\ spam' = [h \in Hashes |-> IF spam[h] = NoRow \/ Stale(h)
                                  THEN spam[h] ELSE [spam[h] EXCEPT !.age = @ + 1]]
      /\ UNCHANGED <<perChat, ledger, logged, moka, redis, answers, seen, handled, worker>>
  BY DEF Tick, caches
<1>2. spam \in [Hashes -> {NoRow} \cup [hits : 1 .. MaxHandled, age : 0 .. Retention + 1]]
  BY DEF TypeOK
<1>3. ASSUME NEW h \in Hashes
      PROVE  /\ spam'[h] \in {NoRow} \cup [hits : 1 .. MaxHandled, age : 0 .. Retention + 1]
             /\ spam'[h] # NoRow <=> spam[h] # NoRow
             /\ spam[h] # NoRow => spam'[h].hits = spam[h].hits
  <2>1. CASE spam[h] = NoRow \/ Stale(h)
    BY <1>1, <1>2, <2>1
  <2>2. CASE ~(spam[h] = NoRow \/ Stale(h))
    <3>1. spam'[h] = [spam[h] EXCEPT !.age = @ + 1]
      BY <1>1, <2>2
    <3>2. spam[h] \in [hits : 1 .. MaxHandled, age : 0 .. Retention + 1]
      BY <1>2, <2>2
    <3>3. spam[h].age \in 0 .. Retention
      BY <2>2, <3>2, PipelineConstantsOK DEF Stale
    <3>4. spam'[h] \in [hits : 1 .. MaxHandled, age : 0 .. Retention + 1]
          /\ spam'[h].hits = spam[h].hits
      BY <3>1, <3>2, <3>3, PipelineConstantsOK
    <3>5. spam'[h] # NoRow
      BY <3>4, PipelineConstantsOK
    <3> QED
      BY <2>2, <3>4, <3>5
  <2> QED
    BY <2>1, <2>2
<1>4. spam' \in [Hashes -> {NoRow} \cup [hits : 1 .. MaxHandled, age : 0 .. Retention + 1]]
  BY <1>1, <1>3
<1>5. TypeOK'
  BY <1>1, <1>4 DEF TypeOK
<1>6. \A h : Grounds(h)' <=> Grounds(h)
  BY <1>1 DEF Grounds
<1>7. WorkersAreSensible'
  BY <1>1, <1>6 DEF WorkersAreSensible, Sensible
<1>8. CachesAreAnswers' /\ BansHaveGrounds' /\ FingerprintsHaveGrounds'
  BY <1>1, <1>3, <1>6 DEF CachesAreAnswers, BansHaveGrounds, FingerprintsHaveGrounds
<1>9. Pending' = Pending
  BY <1>1 DEF Pending, Weight
<1>10. HitsAreHandled' /\ AggregateIsExplained'
  BY <1>1, <1>3, <1>9 DEF HitsAreHandled, AggregateIsExplained
<1> QED
  BY <1>5, <1>7, <1>8, <1>10

\* The process dies: what was under way will not count.
LEMMA InvCrash ==
  ASSUME IInv, Crash
  PROVE  IInv'
<1> USE DEF IInv
<1>1. /\ moka' = [u \in Users |-> "none"] /\ worker' = [c \in Chats |-> IdleWorker]
      /\ UNCHANGED <<spam, perChat, ledger, logged, redis, answers, seen, handled>>
  BY DEF Crash, tables
<1>2. worker' \in [Chats -> WorkerStates]
  BY <1>1 DEF WorkerStates, IdleWorker, Steps
<1>3. TypeOK'
  BY <1>1, <1>2 DEF TypeOK, WorkerStates
<1>4. WorkersAreSensible'
  BY <1>1 DEF WorkersAreSensible, Sensible, WorkerStates, IdleWorker, Steps, CasSteps
<1>5. CachesAreAnswers' /\ BansHaveGrounds' /\ FingerprintsHaveGrounds'
  BY <1>1 DEF CachesAreAnswers, BansHaveGrounds, FingerprintsHaveGrounds, Grounds
<1>6. Pending' = 0
  <2> DEFINE f == [c \in Chats |-> Weight(c)']
  <2>1. f \in [Chats -> Int] /\ \A c \in Chats : f[c] = 0
    BY <1>1 DEF Weight, IdleWorker, Uncounted
  <2>2. Pending' = SumFunction(f)
    BY DEF Pending
  <2> HIDE DEF f
  <2> QED
    BY <2>1, <2>2, SumOfZeros, PipelineConstantsOK
<1>7. HitsAreHandled'
  <2> SUFFICES ASSUME NEW h \in Hashes
               PROVE  /\ spam[h] # NoRow => spam[h].hits + 0 <= handled
                      /\ \A c \in Chats : perChat[<<c, h>>] + 0 <= handled
    BY <1>1, <1>6 DEF HitsAreHandled
  <2>1. Pending \in Nat /\ handled \in Nat
    BY PendingType DEF TypeOK
  <2>2. spam[h] # NoRow => spam[h].hits \in Nat /\ spam[h].hits + Pending <= handled
    BY DEF TypeOK, HitsAreHandled
  <2>3. \A c \in Chats : perChat[<<c, h>>] \in Nat /\ perChat[<<c, h>>] + Pending <= handled
    BY DEF TypeOK, HitsAreHandled
  <2> QED
    BY <2>1, <2>2, <2>3
<1>8. AggregateIsExplained'
  BY <1>1 DEF AggregateIsExplained
<1> QED
  BY <1>3, <1>4, <1>5, <1>7, <1>8

\* A cached verdict is forgotten, or nothing happens at all.
LEMMA InvForgotten ==
  ASSUME IInv, (\E u \in Users : cache_expires(u)) \/ UNCHANGED vars
  PROVE  IInv'
<1> USE DEF IInv
<1>1. /\ UNCHANGED <<spam, perChat, ledger, logged, answers, seen, handled, worker>>
      /\ \/ UNCHANGED <<moka, redis>>
         \/ \E u \in Users : moka' = [moka EXCEPT ![u] = "none"] /\ redis' = redis
         \/ \E u \in Users : redis' = [redis EXCEPT ![u] = "none"] /\ moka' = moka
  BY DEF cache_expires, vars, tables, caches
<1>2. /\ moka \in [Users -> {"none"} \cup CasVerdicts]
      /\ redis \in [Users -> {"none"} \cup CasVerdicts]
  BY DEF TypeOK
<1>3. /\ moka' \in [Users -> {"none"} \cup CasVerdicts]
      /\ redis' \in [Users -> {"none"} \cup CasVerdicts]
      /\ \A u \in Users : moka'[u] \in {"none", moka[u]} /\ redis'[u] \in {"none", redis[u]}
  BY <1>1, <1>2
<1>4. TypeOK'
  BY <1>1, <1>3 DEF TypeOK
<1>5. CachesAreAnswers'
  BY <1>1, <1>3 DEF CachesAreAnswers
<1>6. BansHaveGrounds' /\ FingerprintsHaveGrounds'
  BY <1>1 DEF BansHaveGrounds, FingerprintsHaveGrounds, Grounds
<1>7. WorkersAreSensible'
  BY <1>1 DEF WorkersAreSensible, Sensible, Grounds
<1>8. HitsAreHandled' /\ AggregateIsExplained'
  BY <1>1 DEF HitsAreHandled, AggregateIsExplained, Pending, Weight
<1> QED
  BY <1>4, <1>5, <1>6, <1>7, <1>8

LEMMA InvInit == Init => IInv
<1> SUFFICES ASSUME Init
             PROVE  IInv
  OBVIOUS
<1>1. worker \in [Chats -> WorkerStates]
  BY DEF Init, WorkerStates, IdleWorker, Steps
<1>2. TypeOK
  BY <1>1, PipelineConstantsOK DEF Init, TypeOK, WorkerStates
<1>3. WorkersAreSensible
  BY DEF Init, WorkersAreSensible, Sensible, WorkerStates, IdleWorker, Steps, CasSteps
<1>4. CachesAreAnswers /\ FingerprintsHaveGrounds /\ BansHaveGrounds
  BY DEF Init, CachesAreAnswers, FingerprintsHaveGrounds, BansHaveGrounds
<1> DEFINE f == [c \in Chats |-> Weight(c)]
           g(h) == [c \in Chats |-> perChat[<<c, h>>]]
<1>5. f \in [Chats -> Int] /\ \A c \in Chats : f[c] = 0
  BY DEF Init, Weight, IdleWorker, Uncounted
<1>6. \A h \in Hashes : g(h) \in [Chats -> Int] /\ \A c \in Chats : g(h)[c] = 0
  BY DEF Init
<1>7. Pending = SumFunction(f)
  BY DEF Pending
<1>8. \A h \in Hashes : InChats(h) = SumFunction(g(h))
  BY DEF InChats
<1> HIDE DEF f, g
<1>9. Pending = 0 /\ \A h \in Hashes : InChats(h) = 0
  BY <1>5, <1>6, <1>7, <1>8, SumOfZeros, PipelineConstantsOK
<1>10. HitsAreHandled
  BY <1>9 DEF Init, HitsAreHandled
<1>11. AggregateIsExplained
  BY <1>9 DEF Init, AggregateIsExplained, InChats
<1> QED
  BY <1>2, <1>3, <1>4, <1>10, <1>11 DEF IInv

LEMMA InvStep == IInv /\ [Next]_vars => IInv'
<1> SUFFICES ASSUME IInv, [Next]_vars
             PROVE  IInv'
  OBVIOUS
<1>1. ASSUME NEW c \in Chats, inspect(c)
      PROVE  IInv'
  BY <1>1, InvCas, InvOther, InvApply, InvHit DEF inspect
<1>2. ASSUME NEW c \in Chats, NEW m \in Messages, receive(c, m)
      PROVE  IInv'
  BY <1>2, InvReceive
<1> QED
  BY <1>1, <1>2, InvPrune, InvTick, InvCrash, InvForgotten DEF Next

LEMMA Invariance == Spec => []IInv
<1>1. Init => IInv
  BY InvInit
<1>2. IInv /\ [Next]_vars => IInv'
  BY InvStep
<1> QED
  BY <1>1, <1>2, PTL DEF Spec

-----------------------------------------------------------------------------
(* The passes of normalize, a character at a time *)

Text == Seq(Characters)

\* The character that a mark after t would go to: the last that is no mark.
Base(t) == SelectLastInSeq(t, LAMBDA b : b \notin Marks)

\* Everything after it is a mark.
LEMMA BaseType ==
  ASSUME NEW t \in Text
  PROVE  /\ Base(t) \in 0 .. Len(t)
         /\ Base(t) # 0 => t[Base(t)] \notin Marks /\ t[Base(t)] \in Characters
         /\ \A i \in 1 .. Len(t) : i > Base(t) => t[i] \in Marks
<1> DEFINE I == {i \in 1 .. Len(t) : t[i] \notin Marks}
<1>1. Base(t) = IF I # {} THEN Max(I) ELSE 0
  BY DEF Base, SelectLastInSeq
<1>2. Len(t) \in Nat /\ I \in SUBSET (1 .. Len(t))
  BY DEF Text
<1>3. CASE I = {}
  BY <1>1, <1>2, <1>3
<1>4. CASE I # {}
  <2>1. Max(I) \in I /\ \A i \in I : Max(I) >= i
    <3> HIDE DEF I
    <3> QED
      BY <1>2, <1>4, MaxIn
  <2>2. Base(t) = Max(I)
    BY <1>1, <1>4
  <2>3. Base(t) \in 1 .. Len(t) /\ t[Base(t)] \notin Marks
    BY <2>1, <2>2
  <2>4. \A i \in 1 .. Len(t) : t[i] \notin Marks => i <= Base(t)
    BY <2>1, <2>2
  <2> QED
    BY <1>2, <2>3, <2>4 DEF Text
<1> QED
  BY <1>3, <1>4

LEMMA BaseIs ==
  ASSUME NEW t \in Text, NEW b \in 1 .. Len(t), t[b] \notin Marks,
         \A i \in 1 .. Len(t) : i > b => t[i] \in Marks
  PROVE  Base(t) = b
<1>1. Base(t) \in 0 .. Len(t) /\ Len(t) \in Nat
  BY BaseType DEF Text
<1>2. ~(b > Base(t))
  BY BaseType
<1>3. Base(t) # 0
  BY <1>1, <1>2
<1>4. ~(Base(t) > b)
  BY <1>1, <1>3, BaseType
<1> QED
  BY <1>1, <1>2, <1>4

LEMMA BaseOfEmpty == Base(<<>>) = 0
<1>1. <<>> \in Text /\ Len(<<>>) = 0
  BY DEF Text
<1> QED
  BY <1>1, BaseType

LEMMA BaseAppend ==
  ASSUME NEW t \in Text, NEW c \in Characters
  PROVE  Base(Append(t, c)) = IF c \in Marks THEN Base(t) ELSE Len(t) + 1
<1> DEFINE u == Append(t, c)
<1>1. /\ u \in Text /\ Len(u) = Len(t) + 1 /\ u[Len(u)] = c /\ Len(t) \in Nat
      /\ \A i \in 1 .. Len(t) : u[i] = t[i]
  BY DEF Text
<1> HIDE DEF u
<1>2. CASE c \notin Marks
  <2>1. Len(u) \in 1 .. Len(u)
    BY <1>1
  <2>2. Base(u) = Len(u)
    BY <1>1, <1>2, <2>1, BaseIs
  <2> QED
    BY <1>1, <1>2, <2>2 DEF u
<1>3. CASE c \in Marks /\ Base(t) # 0
  <2>1. Base(t) \in 1 .. Len(t)
    BY <1>3, BaseType
  <2>2. Base(t) \in 1 .. Len(u) /\ u[Base(t)] = t[Base(t)]
    BY <1>1, <2>1
  <2>3. \A i \in 1 .. Len(u) : i > Base(t) => u[i] \in Marks
    <3> SUFFICES ASSUME NEW i \in 1 .. Len(u), i > Base(t)
                 PROVE  u[i] \in Marks
      OBVIOUS
    <3>1. i \in 1 .. Len(t) \/ i = Len(u)
      BY <1>1
    <3> QED
      BY <1>1, <1>3, <3>1, BaseType
  <2>4. Base(u) = Base(t)
    BY <1>1, <1>3, <2>2, <2>3, BaseIs, BaseType
  <2> QED
    BY <1>3, <2>4 DEF u
<1>4. CASE c \in Marks /\ Base(t) = 0
  <2>1. ASSUME NEW i \in 1 .. Len(u)
        PROVE  u[i] \in Marks
    <3>1. i \in 1 .. Len(t) \/ i = Len(u)
      BY <1>1
    <3> QED
      BY <1>1, <1>4, <3>1, BaseType
  <2>2. Base(u) \in 0 .. Len(u) /\ (Base(u) # 0 => u[Base(u)] \notin Marks)
    BY <1>1, BaseType
  <2>3. Base(u) = 0
    BY <1>1, <2>1, <2>2
  <2> QED
    BY <1>4, <2>3 DEF u
<1> QED
  BY <1>2, <1>3, <1>4

LEMMA CharacterFacts ==
  /\ \A c \in Characters : Plain(c) \in Characters /\ LowerCase(c) \in Text
  /\ \A b, m : Composed(b, m) \in Characters \ Marks
<1>1. ASSUME NEW c \in Characters
      PROVE  Plain(c) \in Characters /\ LowerCase(c) \in Text
  <2>1. Plain(c) \in Characters
    BY DEF Plain, Characters, Letters
  <2>2. {"q", "i", "i_acute", "dot"} \subseteq Characters
    BY DEF Characters, Letters, Marks
  <2>3. /\ <<"q">> \in Text /\ <<"i">> \in Text /\ <<"i_acute">> \in Text
        /\ <<"i", "dot">> \in Text /\ <<c>> \in Text
    BY <2>2 DEF Text
  <2>4. LowerCase(c) \in Text
    BY <2>3 DEF LowerCase
  <2> QED
    BY <2>1, <2>4
<1>2. \A b, m : Composed(b, m) \in Characters \ Marks
  BY DEF Composed, Characters, Letters, Marks
<1> QED
  BY <1>1, <1>2

LEMMA ComposesIs ==
  ASSUME NEW b, NEW m
  PROVE  /\ Composes(b, m) <=> \/ b \in {"i", "I"} /\ m = "acute"
                               \/ b = "I" /\ m = "dot"
         /\ "acute" \in Above /\ "dot" \in Above /\ Above \subseteq Marks
<1>1. Composes(b, m) <=> \/ b \in {"i", "I"} /\ m = "acute"
                         \/ b = "I" /\ m = "dot"
  BY DEF Composes
<1> QED
  BY <1>1 DEF Above, Marks

\* A mark above would go to the base, which may take it in.
Bare(t) == \A n \in Base(t) + 1 .. Len(t) : t[n] \notin Above
Open(t) == Base(t) # 0 /\ t[Base(t)] \in {"i", "I"} /\ Bare(t)
Taken(t, m) == [t EXCEPT ![Base(t)] = Composed(@, m)]

LEMMA ComposeIs ==
  ASSUME NEW t, NEW c
  PROVE  Compose(t, c) =
           IF Open(t) /\ Composes(t[Base(t)], c) THEN Taken(t, c) ELSE Append(t, c)
<1>1. Composes(t[Base(t)], c) => t[Base(t)] \in {"i", "I"}
  BY ComposesIs
<1> QED
  BY <1>1 DEF Compose, Base, Bare, Open, Taken

LEMMA TakenType ==
  ASSUME NEW t \in Text, Open(t), NEW m
  PROVE  Taken(t, m) \in Text
<1>1. Base(t) \in 1 .. Len(t) /\ Composed(t[Base(t)], m) \in Characters
  BY BaseType, CharacterFacts DEF Open
<1> QED
  BY <1>1 DEF Taken, Text

LEMMA ComposeType ==
  ASSUME NEW t \in Text, NEW c \in Characters
  PROVE  Compose(t, c) \in Text
<1>1. Append(t, c) \in Text
  BY DEF Text
<1> QED
  BY <1>1, ComposeIs, TakenType

\* What each pass makes of a text and one more character.
LEMMA NfkcAppend ==
  /\ nfkc(<<>>) = <<>>
  /\ \A s \in Text, c \in Characters :
       nfkc(s) \in Text /\ nfkc(Append(s, c)) = Compose(nfkc(s), Plain(c))
<1> DEFINE op == [t \in Text |-> [c \in Characters |-> Compose(t, Plain(c))]]
           Iter(s, g) == [S \in SUBSET DOMAIN s |-> IF S = {} THEN <<>> ELSE
                            Compose(g[S \ {Max(S)}], Plain(s[Max(S)]))]
<1>1. Folds(Text, Characters, op, <<>>)
  <2>1. <<>> \in Text
    BY DEF Text
  <2>2. \A t \in Text, c \in Characters : Compose(t, Plain(c)) \in Text
    BY CharacterFacts, ComposeType
  <2> QED
    BY <2>1, <2>2 DEF Folds
<1>2. ASSUME NEW s \in Text
      PROVE  nfkc(s) = FoldOf(Text, op, <<>>, s)
  <2> DEFINE iter == CHOOSE g : g = Iter(s, g)
  <2>1. nfkc(s) = iter[DOMAIN s]
    BY DEF nfkc, FoldLeft, MapThenFoldSet
  <2>2. \A S \in SUBSET DOMAIN s : S # {} => s[Max(S)] \in Characters
    <3>1. Len(s) \in Nat /\ DOMAIN s = 1 .. Len(s)
      BY DEF Text
    <3> SUFFICES ASSUME NEW S \in SUBSET (1 .. Len(s)), S # {}
                 PROVE  s[Max(S)] \in Characters
      BY <3>1
    <3>2. Max(S) \in 1 .. Len(s)
      BY <3>1, MaxIn
    <3> QED
      BY <3>2 DEF Text
  <2>3. PICK g : FoldsLeft(Text, op, <<>>, s, g)
    BY <1>1, FoldLeftExists DEF Text
  <2>4. g = Iter(s, g)
    <3>1. \A S \in SUBSET DOMAIN s : g[S] = Iter(s, g)[S]
      <4> SUFFICES ASSUME NEW S \in SUBSET DOMAIN s
                   PROVE  g[S] = Iter(s, g)[S]
        OBVIOUS
      <4>1. CASE S = {}
        BY <2>3, <4>1 DEF FoldsLeft
      <4>2. CASE S # {}
        BY <2>2, <2>3, <4>2 DEF FoldsLeft
      <4> QED
        BY <4>1, <4>2
    <3>2. g \in [SUBSET DOMAIN s -> Text]
      BY <2>3 DEF FoldsLeft
    <3> QED
      BY <3>1, <3>2
  <2>5. iter = Iter(s, iter)
    BY <2>4
  <2> HIDE DEF iter
  <2>6. FoldsParts(Text, op, <<>>, s, iter)
    BY <2>2, <2>5 DEF FoldsParts
  <2> HIDE DEF op
  <2> QED
    BY <1>1, <2>1, <2>6, FoldIs DEF Text
<1>3. \A t \in Text, c \in Characters : op[t][c] = Compose(t, Plain(c))
  OBVIOUS
<1> HIDE DEF op, Iter
<1>4. nfkc(<<>>) = <<>>
  <2>1. <<>> \in Text
    BY DEF Text
  <2> QED
    BY <1>1, <1>2, <2>1, FoldOfEmpty
<1>5. ASSUME NEW s \in Text, NEW c \in Characters
      PROVE  nfkc(s) \in Text /\ nfkc(Append(s, c)) = Compose(nfkc(s), Plain(c))
  <2>1. Append(s, c) \in Text
    BY DEF Text
  <2>2. /\ FoldOf(Text, op, <<>>, s) \in Text
        /\ FoldOf(Text, op, <<>>, Append(s, c)) = op[FoldOf(Text, op, <<>>, s)][c]
    BY <1>1, FoldOfAppend DEF Text
  <2> QED
    BY <1>2, <1>3, <2>1, <2>2
<1> QED
  BY <1>4, <1>5

\* Without, 
LEMMA WithoutAppend ==
  ASSUME NEW S
  PROVE  /\ Without(<<>>, S) = <<>>
         /\ \A s \in Text, c \in Characters :
              /\ Without(s, S) \in Text
              /\ Without(Append(s, c), S) =
                   (IF c \in S THEN Without(s, S) ELSE Append(Without(s, S), c))
<1> DEFINE op == [t \in Text |-> [c \in Characters |-> (IF c \in S THEN t ELSE Append(t, c))]]
           Iter(s, g) == [P \in SUBSET DOMAIN s |-> IF P = {} THEN <<>> ELSE
                            (IF s[Max(P)] \in S THEN g[P \ {Max(P)}] ELSE Append(g[P \ {Max(P)}], s[Max(P)]))]
<1>1. Folds(Text, Characters, op, <<>>)
  <2>1. <<>> \in Text
    BY DEF Text
  <2>2. \A t \in Text, c \in Characters : (IF c \in S THEN t ELSE Append(t, c)) \in Text
    BY DEF Text
  <2> QED
    BY <2>1, <2>2 DEF Folds
<1>2. ASSUME NEW s \in Text
      PROVE  Without(s, S) = FoldOf(Text, op, <<>>, s)
  <2> DEFINE iter == CHOOSE g : g = Iter(s, g)
  <2>1. Without(s, S) = iter[DOMAIN s]
    BY DEF Without, FoldLeft, MapThenFoldSet
  <2>2. \A P \in SUBSET DOMAIN s : P # {} => s[Max(P)] \in Characters
    <3>1. Len(s) \in Nat /\ DOMAIN s = 1 .. Len(s)
      BY DEF Text
    <3> SUFFICES ASSUME NEW P \in SUBSET (1 .. Len(s)), P # {}
                 PROVE  s[Max(P)] \in Characters
      BY <3>1
    <3>2. Max(P) \in 1 .. Len(s)
      BY <3>1, MaxIn
    <3> QED
      BY <3>2 DEF Text
  <2>3. PICK g : FoldsLeft(Text, op, <<>>, s, g)
    BY <1>1, FoldLeftExists DEF Text
  <2>4. g = Iter(s, g)
    <3>1. \A P \in SUBSET DOMAIN s : g[P] = Iter(s, g)[P]
      <4> SUFFICES ASSUME NEW P \in SUBSET DOMAIN s
                   PROVE  g[P] = Iter(s, g)[P]
        OBVIOUS
      <4>1. CASE P = {}
        BY <2>3, <4>1 DEF FoldsLeft
      <4>2. CASE P # {}
        BY <2>2, <2>3, <4>2 DEF FoldsLeft
      <4> QED
        BY <4>1, <4>2
    <3>2. g \in [SUBSET DOMAIN s -> Text]
      BY <2>3 DEF FoldsLeft
    <3> QED
      BY <3>1, <3>2
  <2>5. iter = Iter(s, iter)
    BY <2>4
  <2> HIDE DEF iter
  <2>6. FoldsParts(Text, op, <<>>, s, iter)
    BY <2>2, <2>5 DEF FoldsParts
  <2> HIDE DEF op
  <2> QED
    BY <1>1, <2>1, <2>6, FoldIs DEF Text
<1>3. \A t \in Text, c \in Characters : op[t][c] = (IF c \in S THEN t ELSE Append(t, c))
  OBVIOUS
<1> HIDE DEF op, Iter
<1>4. Without(<<>>, S) = <<>>
  <2>1. <<>> \in Text
    BY DEF Text
  <2> QED
    BY <1>1, <1>2, <2>1, FoldOfEmpty
<1>5. ASSUME NEW s \in Text, NEW c \in Characters
      PROVE  Without(s, S) \in Text /\ Without(Append(s, c), S) = (IF c \in S THEN Without(s, S) ELSE Append(Without(s, S), c))
  <2>1. Append(s, c) \in Text
    BY DEF Text
  <2>2. /\ FoldOf(Text, op, <<>>, s) \in Text
        /\ FoldOf(Text, op, <<>>, Append(s, c)) = op[FoldOf(Text, op, <<>>, s)][c]
    BY <1>1, FoldOfAppend DEF Text
  <2> QED
    BY <1>2, <1>3, <2>1, <2>2
<1> QED
  BY <1>4, <1>5

\* to_lowercase
LEMMA LowerAppend ==
  /\ to_lowercase(<<>>) = <<>>
  /\ \A s \in Text, c \in Characters :
       /\ to_lowercase(s) \in Text
       /\ to_lowercase(Append(s, c)) = to_lowercase(s) \o LowerCase(c)
<1> DEFINE op == [t \in Text |-> [c \in Characters |-> t \o LowerCase(c)]]
           Iter(s, g) == [P \in SUBSET DOMAIN s |-> IF P = {} THEN <<>> ELSE
                            g[P \ {Max(P)}] \o LowerCase(s[Max(P)])]
<1>1. Folds(Text, Characters, op, <<>>)
  <2>1. <<>> \in Text
    BY DEF Text
  <2>2. \A t \in Text, c \in Characters : t \o LowerCase(c) \in Text
    <3> SUFFICES ASSUME NEW t \in Text, NEW c \in Characters
                 PROVE  t \o LowerCase(c) \in Text
      OBVIOUS
    <3>1. LowerCase(c) \in Text
      BY CharacterFacts
    <3> QED
      BY <3>1 DEF Text
  <2> QED
    BY <2>1, <2>2 DEF Folds
<1>2. ASSUME NEW s \in Text
      PROVE  to_lowercase(s) = FoldOf(Text, op, <<>>, s)
  <2> DEFINE iter == CHOOSE g : g = Iter(s, g)
  <2>1. to_lowercase(s) = iter[DOMAIN s]
    BY DEF to_lowercase, FoldLeft, MapThenFoldSet
  <2>2. \A P \in SUBSET DOMAIN s : P # {} => s[Max(P)] \in Characters
    <3>1. Len(s) \in Nat /\ DOMAIN s = 1 .. Len(s)
      BY DEF Text
    <3> SUFFICES ASSUME NEW P \in SUBSET (1 .. Len(s)), P # {}
                 PROVE  s[Max(P)] \in Characters
      BY <3>1
    <3>2. Max(P) \in 1 .. Len(s)
      BY <3>1, MaxIn
    <3> QED
      BY <3>2 DEF Text
  <2>3. PICK g : FoldsLeft(Text, op, <<>>, s, g)
    BY <1>1, FoldLeftExists DEF Text
  <2>4. g = Iter(s, g)
    <3>1. \A P \in SUBSET DOMAIN s : g[P] = Iter(s, g)[P]
      <4> SUFFICES ASSUME NEW P \in SUBSET DOMAIN s
                   PROVE  g[P] = Iter(s, g)[P]
        OBVIOUS
      <4>1. CASE P = {}
        BY <2>3, <4>1 DEF FoldsLeft
      <4>2. CASE P # {}
        BY <2>2, <2>3, <4>2 DEF FoldsLeft
      <4> QED
        BY <4>1, <4>2
    <3>2. g \in [SUBSET DOMAIN s -> Text]
      BY <2>3 DEF FoldsLeft
    <3> QED
      BY <3>1, <3>2
  <2>5. iter = Iter(s, iter)
    BY <2>4
  <2> HIDE DEF iter
  <2>6. FoldsParts(Text, op, <<>>, s, iter)
    BY <2>2, <2>5 DEF FoldsParts
  <2> HIDE DEF op
  <2> QED
    BY <1>1, <2>1, <2>6, FoldIs DEF Text
<1>3. \A t \in Text, c \in Characters : op[t][c] = t \o LowerCase(c)
  OBVIOUS
<1> HIDE DEF op, Iter
<1>4. to_lowercase(<<>>) = <<>>
  <2>1. <<>> \in Text
    BY DEF Text
  <2> QED
    BY <1>1, <1>2, <2>1, FoldOfEmpty
<1>5. ASSUME NEW s \in Text, NEW c \in Characters
      PROVE  to_lowercase(s) \in Text /\ to_lowercase(Append(s, c)) = to_lowercase(s) \o LowerCase(c)
  <2>1. Append(s, c) \in Text
    BY DEF Text
  <2>2. /\ FoldOf(Text, op, <<>>, s) \in Text
        /\ FoldOf(Text, op, <<>>, Append(s, c)) = op[FoldOf(Text, op, <<>>, s)][c]
    BY <1>1, FoldOfAppend DEF Text
  <2> QED
    BY <1>2, <1>3, <2>1, <2>2
<1> QED
  BY <1>4, <1>5

\* and the pass over white space.
Blanks(s) == FoldLeft(Collapse, <<>>, s)


LEMMA BlanksAppend ==
  /\ Blanks(<<>>) = <<>>
  /\ \A s \in Text, c \in Characters :
       Blanks(s) \in Text /\ Blanks(Append(s, c)) = Collapse(Blanks(s), c)
<1> DEFINE op == [t \in Text |-> [c \in Characters |-> Collapse(t, c)]]
           Iter(s, g) == [P \in SUBSET DOMAIN s |-> IF P = {} THEN <<>> ELSE
                            Collapse(g[P \ {Max(P)}], s[Max(P)])]
<1>1. Folds(Text, Characters, op, <<>>)
  <2>1. <<>> \in Text
    BY DEF Text
  <2>2. \A t \in Text, c \in Characters : Collapse(t, c) \in Text
    <3>1. "blank" \in Characters
      BY DEF Characters, Whitespace
    <3> QED
      BY <3>1 DEF Collapse, Text
  <2> QED
    BY <2>1, <2>2 DEF Folds
<1>2. ASSUME NEW s \in Text
      PROVE  Blanks(s) = FoldOf(Text, op, <<>>, s)
  <2> DEFINE iter == CHOOSE g : g = Iter(s, g)
  <2>1. Blanks(s) = iter[DOMAIN s]
    BY DEF Blanks, FoldLeft, MapThenFoldSet
  <2>2. \A P \in SUBSET DOMAIN s : P # {} => s[Max(P)] \in Characters
    <3>1. Len(s) \in Nat /\ DOMAIN s = 1 .. Len(s)
      BY DEF Text
    <3> SUFFICES ASSUME NEW P \in SUBSET (1 .. Len(s)), P # {}
                 PROVE  s[Max(P)] \in Characters
      BY <3>1
    <3>2. Max(P) \in 1 .. Len(s)
      BY <3>1, MaxIn
    <3> QED
      BY <3>2 DEF Text
  <2>3. PICK g : FoldsLeft(Text, op, <<>>, s, g)
    BY <1>1, FoldLeftExists DEF Text
  <2>4. g = Iter(s, g)
    <3>1. \A P \in SUBSET DOMAIN s : g[P] = Iter(s, g)[P]
      <4> SUFFICES ASSUME NEW P \in SUBSET DOMAIN s
                   PROVE  g[P] = Iter(s, g)[P]
        OBVIOUS
      <4>1. CASE P = {}
        BY <2>3, <4>1 DEF FoldsLeft
      <4>2. CASE P # {}
        BY <2>2, <2>3, <4>2 DEF FoldsLeft
      <4> QED
        BY <4>1, <4>2
    <3>2. g \in [SUBSET DOMAIN s -> Text]
      BY <2>3 DEF FoldsLeft
    <3> QED
      BY <3>1, <3>2
  <2>5. iter = Iter(s, iter)
    BY <2>4
  <2> HIDE DEF iter
  <2>6. FoldsParts(Text, op, <<>>, s, iter)
    BY <2>2, <2>5 DEF FoldsParts
  <2> HIDE DEF op
  <2> QED
    BY <1>1, <2>1, <2>6, FoldIs DEF Text
<1>3. \A t \in Text, c \in Characters : op[t][c] = Collapse(t, c)
  OBVIOUS
<1> HIDE DEF op, Iter
<1>4. Blanks(<<>>) = <<>>
  <2>1. <<>> \in Text
    BY DEF Text
  <2> QED
    BY <1>1, <1>2, <2>1, FoldOfEmpty
<1>5. ASSUME NEW s \in Text, NEW c \in Characters
      PROVE  Blanks(s) \in Text /\ Blanks(Append(s, c)) = Collapse(Blanks(s), c)
  <2>1. Append(s, c) \in Text
    BY DEF Text
  <2>2. /\ FoldOf(Text, op, <<>>, s) \in Text
        /\ FoldOf(Text, op, <<>>, Append(s, c)) = op[FoldOf(Text, op, <<>>, s)][c]
    BY <1>1, FoldOfAppend DEF Text
  <2> QED
    BY <1>2, <1>3, <2>1, <2>2
<1> QED
  BY <1>4, <1>5

-----------------------------------------------------------------------------
(* What normalize reads in a composed text *)

Invisible == ZERO_WIDTH \cup Marks

Read(t) == Blanks(Without(to_lowercase(Without(t, Invisible)), Marks))

\* What is left of the small form of c.
Small(c) ==
  IF c = "Q" THEN "q" ELSE IF c \in {"I", "I_dot"} THEN "i"
  ELSE IF c = "I_acute" THEN "i_acute" ELSE c

LEMMA SmallIs ==
  ASSUME NEW c \in Characters, c \notin Invisible
  PROVE  /\ Small(c) \in Characters \ Invisible
         /\ \/ LowerCase(c) = <<Small(c)>>
            \/ LowerCase(c) = <<Small(c), "dot">>
<1>1. Small(c) \in Characters \ Invisible
  BY DEF Small, Characters, Letters, Invisible, ZERO_WIDTH, Marks, Whitespace
<1>2. LowerCase(c) = <<Small(c)>> \/ LowerCase(c) = <<Small(c), "dot">>
  BY DEF Small, LowerCase
<1> QED
  BY <1>1, <1>2

LEMMA ReadAppend ==
  /\ Read(<<>>) = <<>>
  /\ \A t \in Text, c \in Characters :
       /\ Read(t) \in Text
       /\ Read(Append(t, c)) =
            IF c \in Invisible THEN Read(t) ELSE Collapse(Read(t), Small(c))
<1>1. Read(<<>>) = <<>>
  BY WithoutAppend, LowerAppend, BlanksAppend DEF Read
<1> SUFFICES ASSUME NEW t \in Text, NEW c \in Characters
             PROVE  /\ Read(t) \in Text
                    /\ Read(Append(t, c)) =
                         IF c \in Invisible THEN Read(t) ELSE Collapse(Read(t), Small(c))
  BY <1>1
<1> DEFINE v == Without(t, Invisible)
           l == to_lowercase(v)
           w == Without(l, Marks)
<1>2. v \in Text
  BY WithoutAppend
<1>3. l \in Text
  BY <1>2, LowerAppend
<1>4. w \in Text
  BY <1>3, WithoutAppend
<1>5. Read(t) = Blanks(w) /\ Read(t) \in Text
  BY <1>4, BlanksAppend DEF Read
<1>6. CASE c \in Invisible
  <2>1. Without(Append(t, c), Invisible) = v
    BY <1>6, WithoutAppend
  <2> QED
    BY <1>5, <1>6, <2>1 DEF Read
<1>7. CASE c \notin Invisible
  <2>1. Without(Append(t, c), Invisible) = Append(v, c)
    BY <1>7, WithoutAppend
  <2>2. to_lowercase(Append(v, c)) = l \o LowerCase(c)
    BY <1>2, LowerAppend
  <2>3. /\ Small(c) \in Characters /\ Small(c) \notin Marks /\ "dot" \in Characters
        /\ "dot" \in Marks
    BY <1>7, SmallIs DEF Invisible, Characters, Marks
  <2> HIDE DEF v, l
  <2>4. Append(l, Small(c)) \in Text
    BY <1>3, <2>3 DEF Text
  <2>5. Without(Append(l, Small(c)), Marks) = Append(w, Small(c))
    <3>1. \A s \in Text, d \in Characters :
            d \notin Marks => Without(Append(s, d), Marks) = Append(Without(s, Marks), d)
      BY WithoutAppend
    <3> QED
      BY <1>3, <2>3, <3>1
  <2>6. Without(Append(Append(l, Small(c)), "dot"), Marks) = Append(w, Small(c))
    BY <2>3, <2>4, <2>5, WithoutAppend
  <2>7. \/ l \o LowerCase(c) = Append(l, Small(c))
        \/ l \o LowerCase(c) = Append(Append(l, Small(c)), "dot")
    <3>1. l \o <<Small(c)>> = Append(l, Small(c))
      BY <1>3, <2>3 DEF Text
    <3>2. l \o <<Small(c), "dot">> = Append(Append(l, Small(c)), "dot")
      BY <1>3, <2>3 DEF Text
    <3> QED
      BY <1>7, <3>1, <3>2, SmallIs
  <2>8. Without(to_lowercase(Without(Append(t, c), Invisible)), Marks) = Append(w, Small(c))
    BY <2>1, <2>2, <2>5, <2>6, <2>7
  <2> HIDE DEF w
  <2>9. Blanks(Append(w, Small(c))) = Collapse(Blanks(w), Small(c))
    BY <1>4, <2>3, BlanksAppend
  <2> QED
    BY <1>5, <1>7, <2>8, <2>9 DEF Read
<1> QED
  BY <1>5, <1>6, <1>7

\* q with an accent on its last letter.
WithAccent(q) == [q EXCEPT ![Len(q)] = "i_acute"]

\* If the last letter of t is open to a mark, it is the "i" that is read last, and
\* with the mark it is read as such: an acute stays, a dot goes.
TakenIsRead(t) ==
  Open(t) => /\ Read(t) # <<>> /\ Last(Read(t)) = "i"
             /\ \A m \in Marks :
                  Composes(t[Base(t)], m) =>
                    /\ ~Open(Taken(t, m))
                    /\ Read(Taken(t, m)) =
                         IF m = "acute" THEN WithAccent(Read(t)) ELSE Read(t)

LEMMA OpenAppend ==
  /\ ~Open(<<>>)
  /\ \A t \in Text, c \in Characters :
       Open(Append(t, c)) = IF c \in Above THEN FALSE
                            ELSE IF c \in Marks THEN Open(t) ELSE c \in {"i", "I"}
<1>1. ~Open(<<>>)
  BY BaseOfEmpty DEF Open
<1>2. ASSUME NEW t \in Text, NEW c \in Characters
      PROVE  Open(Append(t, c)) = IF c \in Above THEN FALSE
                                  ELSE IF c \in Marks THEN Open(t) ELSE c \in {"i", "I"}
  <2> DEFINE u == Append(t, c)
  <2>1. /\ Len(t) \in Nat /\ Len(u) = Len(t) + 1 /\ u[Len(t) + 1] = c
        /\ \A i \in 1 .. Len(t) : u[i] = t[i]
    BY DEF Text
  <2>2. Base(t) \in 0 .. Len(t) /\ (Base(u) = IF c \in Marks THEN Base(t) ELSE Len(t) + 1)
    BY BaseType, BaseAppend
  <2>3. Above \subseteq Marks
    BY DEF Above, Marks
  <2> HIDE DEF u
  <2>4. CASE c \in Above
    <3>1. Len(t) + 1 \in Base(u) + 1 .. Len(u)
      BY <2>1, <2>2, <2>3, <2>4
    <3>2. ~Open(u)
      BY <2>1, <2>4, <3>1 DEF Open, Bare
    <3> QED
      BY <2>4, <3>2 DEF Open, u
  <2>5. CASE c \in Marks \ Above
    <3>1. Base(u) = Base(t) /\ (Base(t) # 0 => u[Base(t)] = t[Base(t)])
      BY <2>1, <2>2, <2>5
    <3>2. Bare(u) <=> Bare(t)
      <4>1. ASSUME Bare(u), NEW n \in Base(t) + 1 .. Len(t)
            PROVE  t[n] \notin Above
        <5>1. n \in Base(u) + 1 .. Len(u) /\ n \in 1 .. Len(t)
          BY <2>1, <2>2, <3>1
        <5> QED
          BY <2>1, <4>1, <5>1 DEF Bare
      <4>2. ASSUME Bare(t), NEW n \in Base(u) + 1 .. Len(u)
            PROVE  u[n] \notin Above
        <5>1. n = Len(t) + 1 \/ (n \in Base(t) + 1 .. Len(t) /\ n \in 1 .. Len(t))
          BY <2>1, <2>2, <3>1
        <5> QED
          BY <2>1, <2>5, <4>2, <5>1 DEF Bare
      <4> QED
        BY <4>1, <4>2 DEF Bare
    <3> QED
      BY <2>5, <3>1, <3>2 DEF Open, u
  <2>6. CASE c \notin Marks
    <3>1. Base(u) = Len(t) + 1 /\ Base(u) # 0 /\ u[Base(u)] = c
      BY <2>1, <2>2, <2>6
    <3>2. Bare(u)
      BY <2>1, <3>1 DEF Bare
    <3>3. Open(u) <=> c \in {"i", "I"}
      BY <3>1, <3>2 DEF Open
    <3>4. Open(u) = (c \in {"i", "I"})
      BY <3>3 DEF Open
    <3> QED
      BY <2>3, <2>6, <3>4 DEF u
  <2> QED
    BY <2>3, <2>4, <2>5, <2>6
<1> QED
  BY <1>1, <1>2

\* A character changed before the one appended, and the one appended changed.
LEMMA ExceptAppend ==
  ASSUME NEW t \in Text, NEW c \in Characters, NEW d \in Characters
  PROVE  /\ [Append(t, c) EXCEPT ![Len(t) + 1] = d] = Append(t, d)
         /\ \A i \in 1 .. Len(t) :
              [Append(t, c) EXCEPT ![i] = d] = Append([t EXCEPT ![i] = d], c)
<1> DEFINE n == Len(t) + 1
           u == Append(t, c)
<1>1. /\ Len(t) \in Nat /\ u \in Seq(Characters) /\ Len(u) = n /\ u[n] = c
      /\ \A j \in 1 .. Len(t) : u[j] = t[j]
  BY DEF Text
<1>2. [u EXCEPT ![n] = d] = Append(t, d)
  <2> DEFINE v == [u EXCEPT ![n] = d]
  <2>1. /\ v \in Seq(Characters) /\ Len(v) = n
        /\ \A j \in 1 .. n : v[j] = IF j = n THEN d ELSE u[j]
    <3> HIDE DEF u
    <3> QED
      BY <1>1, ExceptSeq
  <2>2. /\ Append(t, d) \in Seq(Characters) /\ Len(Append(t, d)) = n
        /\ \A j \in 1 .. n : Append(t, d)[j] = IF j = n THEN d ELSE t[j]
    BY DEF Text
  <2>3. \A j \in 1 .. n : v[j] = Append(t, d)[j]
    <3> HIDE DEF u, v
    <3> QED
      BY <1>1, <2>1, <2>2
  <2> HIDE DEF u, v, n
  <2>4. v = Append(t, d)
    BY <2>1, <2>2, <2>3, SeqEqual
  <2> QED
    BY <2>4 DEF v
<1>3. ASSUME NEW i \in 1 .. Len(t)
      PROVE  [u EXCEPT ![i] = d] = Append([t EXCEPT ![i] = d], c)
  <2> DEFINE v == [u EXCEPT ![i] = d]
             r == [t EXCEPT ![i] = d]
  <2>1. /\ v \in Seq(Characters) /\ Len(v) = n
        /\ \A j \in 1 .. n : v[j] = IF j = i THEN d ELSE u[j]
    <3> HIDE DEF u
    <3>1. i \in 1 .. n
      BY <1>1
    <3> QED
      BY <1>1, <3>1, ExceptSeq
  <2>2. /\ r \in Seq(Characters) /\ Len(r) = Len(t)
        /\ \A j \in 1 .. Len(t) : r[j] = IF j = i THEN d ELSE t[j]
    BY ExceptSeq DEF Text
  <2> HIDE DEF r
  <2>3. /\ Append(r, c) \in Seq(Characters) /\ Len(Append(r, c)) = n
        /\ Append(r, c)[n] = c /\ \A j \in 1 .. Len(t) : Append(r, c)[j] = r[j]
    BY <2>2
  <2>4. \A j \in 1 .. n : v[j] = Append(r, c)[j]
    <3> HIDE DEF u, v
    <3> QED
      BY <1>1, <2>1, <2>2, <2>3
  <2> HIDE DEF u, v, n
  <2>5. v = Append(r, c)
    BY <2>1, <2>3, <2>4, SeqEqual
  <2> QED
    BY <2>5 DEF v, r
<1> QED
  BY <1>2, <1>3

LEMMA TakenOfAppend ==
  ASSUME NEW t \in Text, NEW c \in Characters, Open(Append(t, c)), NEW m
  PROVE  /\ Append(t, c)[Base(Append(t, c))] = IF c \in Marks THEN t[Base(t)] ELSE c
         /\ Taken(Append(t, c), m) =
              IF c \in Marks THEN Append(Taken(t, m), c) ELSE Append(t, Composed(c, m))
<1>1. Len(t) \in Nat /\ Base(t) \in 0 .. Len(t)
  BY BaseType DEF Text
<1>2. CASE c \in Marks
  <2>1. Base(Append(t, c)) = Base(t) /\ Base(t) \in 1 .. Len(t)
    BY <1>1, <1>2, BaseAppend DEF Open
  <2>2. Append(t, c)[Base(t)] = t[Base(t)] /\ t[Base(t)] \in Characters
    BY <2>1 DEF Text
  <2>3. Composed(t[Base(t)], m) \in Characters
    BY CharacterFacts
  <2> QED
    BY <1>2, <2>1, <2>2, <2>3, ExceptAppend DEF Taken
<1>3. CASE c \notin Marks
  <2>1. Base(Append(t, c)) = Len(t) + 1
    BY <1>3, BaseAppend
  <2>2. Append(t, c)[Len(t) + 1] = c
    BY <1>1 DEF Text
  <2>3. Composed(c, m) \in Characters
    BY CharacterFacts
  <2> QED
    BY <1>3, <2>1, <2>2, <2>3, ExceptAppend DEF Taken
<1> QED
  BY <1>2, <1>3

LEMMA ReadTaken == \A t \in Text : TakenIsRead(t)
<1> DEFINE T == {t \in Text : TakenIsRead(t)}
<1>1. <<>> \in T
  BY OpenAppend DEF TakenIsRead, Text
<1>2. ASSUME NEW t \in Text, NEW c \in Characters, t \in T
      PROVE  Append(t, c) \in T
  <2> DEFINE u == Append(t, c)
  <2>1. u \in Text
    BY DEF Text
  <2> SUFFICES ASSUME Open(u)
               PROVE  /\ Read(u) # <<>> /\ Last(Read(u)) = "i"
                      /\ \A m \in Marks :
                           Composes(u[Base(u)], m) =>
                             /\ ~Open(Taken(u, m))
                             /\ Read(Taken(u, m)) =
                                  IF m = "acute" THEN WithAccent(Read(u)) ELSE Read(u)
    BY <2>1 DEF TakenIsRead
  <2>2. CASE c \in Marks
    <3>1. Open(t) /\ c \notin Above /\ c \in Invisible
      BY <2>2, OpenAppend DEF Invisible
    <3>2. TakenIsRead(t)
      BY <1>2
    <3>3. Read(u) = Read(t)
      BY <3>1, ReadAppend
    <3>4. ASSUME NEW m \in Marks, Composes(u[Base(u)], m)
          PROVE  /\ ~Open(Taken(u, m))
                 /\ Read(Taken(u, m)) = IF m = "acute" THEN WithAccent(Read(u)) ELSE Read(u)
      <4>1. u[Base(u)] = t[Base(t)] /\ Taken(u, m) = Append(Taken(t, m), c)
        BY <2>2, TakenOfAppend
      <4>2. /\ Taken(t, m) \in Text /\ ~Open(Taken(t, m))
            /\ Read(Taken(t, m)) = IF m = "acute" THEN WithAccent(Read(t)) ELSE Read(t)
        BY <3>1, <3>2, <3>4, <4>1, TakenType DEF TakenIsRead
      <4>3. Read(Append(Taken(t, m), c)) = Read(Taken(t, m)) /\ ~Open(Append(Taken(t, m), c))
        BY <2>2, <3>1, <4>2, ReadAppend, OpenAppend
      <4> QED
        BY <3>3, <4>1, <4>2, <4>3
    <3> QED
      BY <3>1, <3>2, <3>3, <3>4 DEF TakenIsRead
  <2>3. CASE c \notin Marks
    <3>1. c \in {"i", "I"}
      <4>1. c \notin Above
        BY <2>3 DEF Above, Marks
      <4> QED
        BY <2>3, <4>1, OpenAppend
    <3>2. Small(c) = "i" /\ c \notin Invisible
      BY <3>1 DEF Small, Invisible, ZERO_WIDTH, Marks
    <3>3. Read(t) \in Text /\ Read(u) = Append(Read(t), "i")
      <4>1. Read(u) = Collapse(Read(t), "i") /\ Read(t) \in Text
        BY <3>2, ReadAppend
      <4> QED
        BY <4>1 DEF Collapse, Whitespace
    <3> DEFINE r == Read(t)
    <3>4. /\ Append(r, "i") # <<>> /\ Last(Append(r, "i")) = "i"
          /\ Append(r, "i_acute") = WithAccent(Append(r, "i"))
      <4>1. /\ Append(r, "i") # <<>> /\ Len(r) \in Nat /\ Len(Append(r, "i")) = Len(r) + 1
            /\ Append(r, "i")[Len(r) + 1] = "i"
        BY <3>3 DEF Text
      <4>2. "i" \in Characters /\ "i_acute" \in Characters
        BY DEF Characters, Letters
      <4>3. [Append(r, "i") EXCEPT ![Len(r) + 1] = "i_acute"] = Append(r, "i_acute")
        BY <3>3, <4>2, ExceptAppend
      <4> QED
        BY <4>1, <4>3 DEF Last, WithAccent
    <3>5. ASSUME NEW m \in Marks, Composes(u[Base(u)], m)
          PROVE  /\ ~Open(Taken(u, m))
                 /\ Read(Taken(u, m)) = IF m = "acute" THEN WithAccent(Read(u)) ELSE Read(u)
      <4> DEFINE d == Composed(c, m)
      <4>1. Taken(u, m) = Append(t, d)
        BY <2>3, TakenOfAppend
      <4>2. m = "acute" \/ m = "dot"
        BY <3>5, ComposesIs
      <4>3. /\ d \in Characters /\ d \notin Invisible /\ d \notin {"i", "I"}
            /\ Small(d) = IF m = "acute" THEN "i_acute" ELSE "i"
        BY <3>1, <4>2 DEF Composed, Small, Characters, Letters, Invisible, ZERO_WIDTH, Marks
      <4> HIDE DEF d
      <4>4. Read(Append(t, d)) = Append(r, Small(d))
        <5>1. Read(Append(t, d)) = Collapse(r, Small(d))
          BY <4>3, ReadAppend
        <5> QED
          BY <4>3, <5>1 DEF Collapse, Whitespace
      <4>5. ~Open(Append(t, d))
        <5>1. d \notin Marks /\ d \notin Above
          BY <4>3 DEF Invisible, Above, Marks
        <5> QED
          BY <4>3, <5>1, OpenAppend
      <4>6. Read(Append(t, d)) = IF m = "acute" THEN WithAccent(Read(u)) ELSE Read(u)
        BY <3>3, <3>4, <4>2, <4>3, <4>4
      <4> QED
        BY <4>1, <4>5, <4>6
    <3> QED
      BY <3>3, <3>4, <3>5
  <2> QED
    BY <2>2, <2>3
<1> HIDE DEF T
<1>3. \A t \in Seq(Characters) : t \in T
  BY <1>1, <1>2, Texts DEF Text
<1> QED
  BY <1>3 DEF T, Text

-----------------------------------------------------------------------------
(* normalize reads a text from left to right *)

\* What is read of s, and whether a mark above would go to what was read last.
State(s) == [text |-> Read(nfkc(s)), open |-> Open(nfkc(s))]

\* The state after c.
After(q, c) ==
  IF c \in Marks
  THEN IF c \in Above /\ q.open
       THEN [text |-> IF c = "acute" THEN WithAccent(q.text) ELSE q.text, open |-> FALSE]
       ELSE q
  ELSE IF c \in ZERO_WIDTH THEN [text |-> q.text, open |-> FALSE]
  ELSE [text |-> Collapse(q.text, Small(Plain(c))), open |-> Plain(c) \in {"i", "I"}]

LEMMA StateAppend ==
  /\ State(<<>>) = [text |-> <<>>, open |-> FALSE]
  /\ \A s \in Text, c \in Characters : State(Append(s, c)) = After(State(s), c)
<1>1. State(<<>>) = [text |-> <<>>, open |-> FALSE]
  <2>1. Open(<<>>) = FALSE
    BY OpenAppend DEF Open
  <2> QED
    BY <2>1, NfkcAppend, ReadAppend DEF State
<1>2. ASSUME NEW s \in Text, NEW c \in Characters
      PROVE  State(Append(s, c)) = After(State(s), c)
  <2> DEFINE n == nfkc(s)
             p == Plain(c)
  <2>1. n \in Text /\ p \in Characters
    BY NfkcAppend, CharacterFacts
  <2>2. State(Append(s, c)) = [text |-> Read(Compose(n, p)), open |-> Open(Compose(n, p))]
    BY NfkcAppend DEF State
  <2>3. State(s).text = Read(n) /\ State(s).open = Open(n)
    BY DEF State
  <2>4. /\ p \in Marks <=> c \in Marks
        /\ p \in ZERO_WIDTH <=> c \in ZERO_WIDTH
        /\ c \in Marks \/ c \in ZERO_WIDTH => p = c
        /\ p \in ZERO_WIDTH => p \notin Marks /\ p \notin {"i", "I"}
    BY DEF Plain, Marks, ZERO_WIDTH
  <2>5. /\ Above \subseteq Marks /\ (c \in Above => c = "acute" \/ c = "dot")
        /\ Composes(n[Base(n)], p) => p \in Above
        /\ Open(n) => Composes(n[Base(n)], "acute")
    BY ComposesIs DEF Open, Above, Marks
  <2> HIDE DEF n, p
  <2>6. CASE Open(n) /\ Composes(n[Base(n)], p)
    <3>1. Compose(n, p) = Taken(n, p)
      BY <2>6, ComposeIs
    <3>2. p = c /\ c \in Above /\ c \in Marks
      BY <2>4, <2>5, <2>6
    <3>3. /\ Read(Taken(n, p)) = IF c = "acute" THEN WithAccent(Read(n)) ELSE Read(n)
          /\ Open(Taken(n, p)) = FALSE
      <4>1. TakenIsRead(n)
        BY <2>1, ReadTaken
      <4> QED
        BY <2>6, <3>2, <4>1 DEF TakenIsRead, Open
    <3>4. State(Append(s, c)) = [text |-> IF c = "acute" THEN WithAccent(State(s).text)
                                          ELSE State(s).text,
                                 open |-> FALSE]
      BY <2>2, <2>3, <3>1, <3>3
    <3>5. State(s).open
      BY <2>3, <2>6
    <3> QED
      BY <3>2, <3>4, <3>5 DEF After
  <2>7. CASE ~(Open(n) /\ Composes(n[Base(n)], p))
    <3>1. Compose(n, p) = Append(n, p)
      BY <2>7, ComposeIs
    <3>2. State(Append(s, c)) = [text |-> Read(Append(n, p)), open |-> Open(Append(n, p))]
      BY <2>2, <3>1
    <3>3. Read(Append(n, p)) = IF p \in Invisible THEN Read(n) ELSE Collapse(Read(n), Small(p))
      BY <2>1, ReadAppend
    <3>4. Open(Append(n, p)) = IF p \in Above THEN FALSE
                               ELSE IF p \in Marks THEN Open(n) ELSE p \in {"i", "I"}
      BY <2>1, OpenAppend
    <3>5. CASE c \in Above
      <4>1. /\ p = c /\ c \in Marks
            /\ State(Append(s, c)) = [text |-> State(s).text, open |-> FALSE]
        BY <2>3, <2>4, <2>5, <3>2, <3>3, <3>4, <3>5 DEF Invisible
      <4>2. CASE Open(n)
        <5>1. c # "acute" /\ State(s).open
          BY <2>3, <2>5, <2>7, <4>1, <4>2
        <5> QED
          BY <3>5, <4>1, <5>1 DEF After
      <4>3. CASE ~Open(n)
        <5>1. State(s) = [text |-> State(s).text, open |-> FALSE] /\ ~State(s).open
          BY <4>3 DEF State, n, Open
        <5> QED
          BY <3>5, <4>1, <5>1 DEF After
      <4> QED
        BY <4>2, <4>3
    <3>6. CASE c \in Marks /\ c \notin Above
      <4>1. State(Append(s, c)) = State(s)
        BY <2>4, <3>2, <3>3, <3>4, <3>6 DEF State, Invisible, n
      <4> QED
        BY <3>6, <4>1 DEF After
    <3>7. CASE c \notin Marks /\ c \in ZERO_WIDTH
      <4>1. p \notin Marks /\ p \notin Above /\ p \notin {"i", "I"} /\ p \in Invisible
        BY <2>4, <2>5, <3>7 DEF Invisible
      <4>2. Open(Append(n, p)) = FALSE
        BY <3>4, <4>1 DEF Open
      <4> QED
        BY <2>3, <3>2, <3>3, <3>7, <4>1, <4>2 DEF After
    <3>8. CASE c \notin Marks /\ c \notin ZERO_WIDTH
      <4>1. p \notin Marks /\ p \notin Above /\ p \notin Invisible
        BY <2>4, <2>5, <3>8 DEF Invisible
      <4> QED
        BY <2>3, <3>2, <3>3, <3>4, <3>8, <4>1 DEF After, p
    <3> QED
      BY <2>5, <3>5, <3>6, <3>7, <3>8
  <2> QED
    BY <2>6, <2>7
<1> QED
  BY <1>1, <1>2

\* What is read of a text depends on what came before it only by the state.
LEMMA SameRest ==
  ASSUME NEW s \in Text, NEW t \in Text, State(s) = State(t)
  PROVE  \A r \in Text : State(s \o r) = State(t \o r)
<1> DEFINE T == {r \in Text : State(s \o r) = State(t \o r)}
<1>1. <<>> \in T
  <2>1. <<>> \in Text /\ s \o <<>> = s /\ t \o <<>> = t
    BY DEF Text
  <2> QED
    BY <2>1
<1>2. ASSUME NEW r \in Text, NEW c \in Characters, r \in T
      PROVE  Append(r, c) \in T
  <2>1. /\ s \o r \in Text /\ t \o r \in Text /\ Append(r, c) \in Text
        /\ s \o Append(r, c) = Append(s \o r, c) /\ t \o Append(r, c) = Append(t \o r, c)
    BY DEF Text
  <2>2. State(s \o r) = State(t \o r)
    BY <1>2
  <2>3. State(Append(s \o r, c)) = State(Append(t \o r, c))
    BY <2>1, <2>2, StateAppend
  <2> QED
    BY <2>1, <2>3
<1> HIDE DEF T
<1>3. \A r \in Seq(Characters) : r \in T
  BY <1>1, <1>2, Texts DEF Text
<1> QED
  BY <1>3 DEF T, Text

\* The characters of normal forms.
Shown == {"q", "i", "i_acute", "blank"}

\* White space is a single blank between words, or at the end.
Tidy(q) ==
  /\ q \in Seq(Shown)
  /\ q # <<>> => q[1] # "blank"
  /\ \A i \in 1 .. Len(q) - 1 : q[i] # "blank" \/ q[i + 1] # "blank"

LEMMA ShownFacts ==
  /\ \A c \in Characters \ Invisible :
       Small(Plain(c)) \in Shown \cup {"tab"} /\ Plain(c) \in Characters \ Invisible
  /\ \A c \in Shown :
       /\ c \in Characters \ Invisible /\ Small(Plain(c)) = c
       /\ c \in Whitespace <=> c = "blank"
  /\ "blank" \in Whitespace /\ "tab" \in Whitespace
  /\ \A c \in Characters : c \in Invisible <=> c \in Marks \/ c \in ZERO_WIDTH
BY DEF Small, Plain, Shown, Characters, Letters, Invisible, ZERO_WIDTH, Marks, Whitespace

LEMMA TidyAppend ==
  ASSUME NEW r \in Seq(Shown), NEW c \in Shown
  PROVE  Tidy(Append(r, c)) <=>
           /\ Tidy(r)
           /\ c = "blank" => r # <<>> /\ Last(r) # "blank"
<1> DEFINE u == Append(r, c)
<1>1. /\ u \in Seq(Shown) /\ u # <<>> /\ Len(u) = Len(r) + 1 /\ Len(r) \in Nat
      /\ \A i \in 1 .. Len(r) : u[i] = r[i]
      /\ u[Len(r) + 1] = c
      /\ r # <<>> <=> Len(r) # 0
  BY AppendProperties, EmptySeq, LenProperties
<1> HIDE DEF u
<1>2. CASE r = <<>>
  <2>1. Len(r) = 0 /\ u[1] = c /\ Len(u) = 1
    BY <1>1, <1>2
  <2>2. Tidy(r)
    BY <1>2, <2>1 DEF Tidy
  <2>3. Tidy(u) <=> c # "blank"
    BY <1>1, <2>1 DEF Tidy
  <2> QED
    BY <1>2, <2>2, <2>3 DEF u
<1>3. CASE r # <<>>
  <2>1. Len(r) \in 1 .. Len(r) /\ 1 \in 1 .. Len(r) /\ u[1] = r[1] /\ u[Len(r)] = Last(r)
    BY <1>1, <1>3 DEF Last
  <2>2. ASSUME Tidy(u)
        PROVE  Tidy(r) /\ (c = "blank" => Last(r) # "blank")
    <3>1. \A i \in 1 .. Len(r) - 1 : r[i] # "blank" \/ r[i + 1] # "blank"
      <4> SUFFICES ASSUME NEW i \in 1 .. Len(r) - 1
                   PROVE  r[i] # "blank" \/ r[i + 1] # "blank"
        OBVIOUS
      <4>1. i \in 1 .. Len(r) /\ i + 1 \in 1 .. Len(r) /\ i \in 1 .. Len(u) - 1
        BY <1>1
      <4> QED
        BY <1>1, <2>2, <4>1 DEF Tidy
    <3>2. c = "blank" => Last(r) # "blank"
      <4>1. Len(r) \in 1 .. Len(u) - 1
        BY <1>1, <2>1
      <4> QED
        BY <1>1, <2>1, <2>2, <4>1 DEF Tidy
    <3> QED
      BY <1>1, <2>1, <2>2, <3>1, <3>2 DEF Tidy
  <2>3. ASSUME Tidy(r), c = "blank" => Last(r) # "blank"
        PROVE  Tidy(u)
    <3>1. \A i \in 1 .. Len(u) - 1 : u[i] # "blank" \/ u[i + 1] # "blank"
      <4> SUFFICES ASSUME NEW i \in 1 .. Len(u) - 1
                   PROVE  u[i] # "blank" \/ u[i + 1] # "blank"
        OBVIOUS
      <4>1. CASE i = Len(r)
        BY <1>1, <2>1, <2>3, <4>1
      <4>2. CASE i # Len(r)
        <5>1. i \in 1 .. Len(r) - 1 /\ i \in 1 .. Len(r) /\ i + 1 \in 1 .. Len(r)
          BY <1>1, <4>2
        <5> QED
          BY <1>1, <2>3, <5>1 DEF Tidy
      <4> QED
        BY <4>1, <4>2
    <3> QED
      BY <1>1, <2>1, <2>3, <3>1 DEF Tidy
  <2> QED
    BY <1>3, <2>2, <2>3 DEF u
<1> QED
  BY <1>2, <1>3

\* What is read is tidy, and a mark above would go to an "i".
Sound(q) ==
  /\ Tidy(q.text) /\ q.open \in BOOLEAN
  /\ q.open => q.text # <<>> /\ Last(q.text) = "i"

LEMMA SoundIs ==
  ASSUME NEW t, Tidy(t), NEW o \in BOOLEAN, o => t # <<>> /\ Last(t) = "i"
  PROVE  Sound([text |-> t, open |-> o])
BY DEF Sound

LEMMA CollapseTidy ==
  ASSUME NEW q, Tidy(q), NEW c \in Shown \cup {"tab"}
  PROVE  Tidy(Collapse(q, c))
<1>1. q \in Seq(Shown) /\ "blank" \in Shown
  BY DEF Tidy, Shown
<1>2. CASE c \notin Whitespace
  <2>1. c \in Shown /\ c # "blank" /\ Collapse(q, c) = Append(q, c)
    BY <1>2 DEF Collapse, Whitespace
  <2> QED
    BY <1>1, <2>1, TidyAppend
<1>3. CASE c \in Whitespace
  <2>1. CASE q = <<>> \/ Last(q) = "blank"
    BY <1>3, <2>1 DEF Collapse
  <2>2. CASE ~(q = <<>> \/ Last(q) = "blank")
    <3>1. Collapse(q, c) = Append(q, "blank")
      BY <1>3, <2>2 DEF Collapse
    <3> QED
      BY <1>1, <2>2, <3>1, TidyAppend
  <2> QED
    BY <2>1, <2>2
<1> QED
  BY <1>2, <1>3

LEMMA WithAccentTidy ==
  ASSUME NEW q, Tidy(q), q # <<>>
  PROVE  Tidy(WithAccent(q))
<1> DEFINE u == WithAccent(q)
<1>1. q \in Seq(Shown) /\ Len(q) \in Nat /\ Len(q) # 0 /\ Len(q) \in 1 .. Len(q)
  BY EmptySeq DEF Tidy
<1>2. "i_acute" \in Shown
  BY DEF Shown
<1>3. /\ u \in Seq(Shown) /\ Len(u) = Len(q)
      /\ \A i \in 1 .. Len(q) : u[i] = IF i = Len(q) THEN "i_acute" ELSE q[i]
  BY <1>1, <1>2, ExceptSeq DEF WithAccent
<1> HIDE DEF u
<1>4. u # <<>> => u[1] # "blank"
  <2>1. 1 \in 1 .. Len(q) /\ q[1] # "blank"
    BY <1>1 DEF Tidy
  <2> QED
    BY <1>3, <2>1
<1>5. ASSUME NEW i \in 1 .. Len(u) - 1
      PROVE  u[i] # "blank" \/ u[i + 1] # "blank"
  <2>1. i \in 1 .. Len(q) /\ i + 1 \in 1 .. Len(q) /\ i \in 1 .. Len(q) - 1
    BY <1>1, <1>3
  <2>2. q[i] # "blank" \/ q[i + 1] # "blank"
    BY <2>1 DEF Tidy
  <2> QED
    BY <1>3, <2>1, <2>2
<1> QED
  BY <1>3, <1>4, <1>5 DEF Tidy, u

LEMMA AfterSound ==
  ASSUME NEW q, Sound(q), NEW c \in Characters
  PROVE  Sound(After(q, c))
<1>1. CASE c \in Marks
  <2>1. CASE c \in Above /\ q.open
    <3>1. /\ Tidy(q.text) /\ Tidy(WithAccent(q.text))
      BY <2>1, WithAccentTidy DEF Sound
    <3>2. After(q, c) = [text |-> IF c = "acute" THEN WithAccent(q.text) ELSE q.text,
                         open |-> FALSE]
      BY <1>1, <2>1 DEF After
    <3> QED
      BY <3>1, <3>2, SoundIs
  <2>2. CASE ~(c \in Above /\ q.open)
    BY <1>1, <2>2 DEF After
  <2> QED
    BY <2>1, <2>2
<1>2. CASE c \notin Marks /\ c \in ZERO_WIDTH
  BY <1>2 DEF After, Sound
<1>3. CASE c \notin Marks /\ c \notin ZERO_WIDTH
  <2> DEFINE d == Small(Plain(c))
  <2>1. d \in Shown \cup {"tab"}
    BY <1>3, ShownFacts
  <2>2. Plain(c) \in {"i", "I"} => d = "i"
    BY DEF Small
  <2> HIDE DEF d
  <2>3. Tidy(Collapse(q.text, d))
    BY <2>1, CollapseTidy DEF Sound
  <2>4. ASSUME d = "i"
        PROVE  Collapse(q.text, d) # <<>> /\ Last(Collapse(q.text, d)) = "i"
    <3>1. Collapse(q.text, d) = Append(q.text, "i")
      BY <2>4 DEF Collapse, Whitespace
    <3>2. q.text \in Seq(Shown) /\ "i" \in Shown
      BY DEF Sound, Tidy, Shown
    <3> QED
      BY <3>1, <3>2, AppendProperties DEF Last
  <2>5. After(q, c) = [text |-> Collapse(q.text, d), open |-> Plain(c) \in {"i", "I"}]
    BY <1>3 DEF After, d
  <2>6. Sound([text |-> Collapse(q.text, d), open |-> Plain(c) \in {"i", "I"}])
    <3> DEFINE o == Plain(c) \in {"i", "I"}
    <3>1. o \in BOOLEAN
      OBVIOUS
    <3>2. o => Collapse(q.text, d) # <<>> /\ Last(Collapse(q.text, d)) = "i"
      BY <2>2, <2>4
    <3> HIDE DEF o
    <3>3. Sound([text |-> Collapse(q.text, d), open |-> o])
      BY <2>3, <3>1, <3>2, SoundIs
    <3> QED
      BY <3>3 DEF o
  <2> QED
    BY <2>5, <2>6
<1> QED
  BY <1>1, <1>2, <1>3

LEMMA StateSound == \A s \in Text : Sound(State(s))
<1> DEFINE T == {s \in Text : Sound(State(s))}
<1>1. <<>> \in T
  <2>1. <<>> \in Text /\ <<>> \in Seq(Shown) /\ Len(<<>>) = 0
    BY DEF Text
  <2>2. Tidy(<<>>)
    BY <2>1 DEF Tidy
  <2> QED
    BY <2>1, <2>2, StateAppend, SoundIs
<1>2. ASSUME NEW s \in Text, NEW c \in Characters, s \in T
      PROVE  Append(s, c) \in T
  <2>1. Append(s, c) \in Text
    BY DEF Text
  <2>2. Sound(State(s))
    BY <1>2
  <2>3. Sound(After(State(s), c))
    BY <2>2, AfterSound
  <2> QED
    BY <2>1, <2>3, StateAppend
<1> HIDE DEF T
<1>3. \A s \in Seq(Characters) : s \in T
  BY <1>1, <1>2, Texts DEF Text
<1> QED
  BY <1>3 DEF T, Text

\* A tidy text is read as it is.
LEMMA TidyIsRead == \A q \in Text : Tidy(q) => State(q).text = q
<1> DEFINE T == {q \in Text : Tidy(q) => State(q).text = q}
<1>1. <<>> \in T
  BY StateAppend DEF Text
<1>2. ASSUME NEW r \in Text, NEW c \in Characters, r \in T
      PROVE  Append(r, c) \in T
  <2>1. Append(r, c) \in Text
    BY DEF Text
  <2> SUFFICES ASSUME Tidy(Append(r, c))
               PROVE  State(Append(r, c)).text = Append(r, c)
    BY <2>1
  <2>2. c \in Shown /\ r \in Seq(Shown)
    <3> DEFINE u == Append(r, c)
    <3>1. /\ Len(r) \in Nat /\ Len(u) = Len(r) + 1 /\ u[Len(r) + 1] = c
          /\ r \in [1 .. Len(r) -> Characters] /\ \A i \in 1 .. Len(r) : u[i] = r[i]
      BY LenProperties, AppendProperties DEF Text
    <3>2. u \in Seq(Shown)
      BY DEF Tidy
    <3> HIDE DEF u
    <3>3. \A i \in 1 .. Len(r) + 1 : u[i] \in Shown
      BY <3>1, <3>2, ElementOfSeq
    <3>4. r \in [1 .. Len(r) -> Shown]
      BY <3>1, <3>3
    <3> QED
      BY <3>1, <3>3, <3>4
  <2>3. Tidy(r) /\ (c = "blank" => r # <<>> /\ Last(r) # "blank")
    BY <2>2, TidyAppend
  <2>4. State(r).text = r
    BY <1>2, <2>3
  <2>5. /\ c \notin Marks /\ c \notin ZERO_WIDTH /\ Small(Plain(c)) = c
        /\ c \in Whitespace => c = "blank"
    BY <2>2, ShownFacts
  <2>6. State(Append(r, c)).text = Collapse(State(r).text, Small(Plain(c)))
    <3>1. State(Append(r, c)) = After(State(r), c)
      BY StateAppend
    <3> QED
      BY <2>5, <3>1 DEF After
  <2>7. Collapse(r, c) = Append(r, c)
    BY <2>3, <2>5 DEF Collapse
  <2> QED
    BY <2>4, <2>5, <2>6, <2>7
<1> HIDE DEF T
<1>3. \A q \in Seq(Characters) : q \in T
  BY <1>1, <1>2, Texts DEF Text
<1> QED
  BY <1>3 DEF T, Text

-----------------------------------------------------------------------------
(* Disguises *)

Trim(q) == IF q # <<>> /\ Last(q) = "blank" THEN Front(q) ELSE q

LEMMA NormalizeIs == \A s : normalize(s) = Trim(State(s).text)
BY DEF normalize, pass_one, Trim, State, Read, Blanks, Invisible

LEMMA TrimTidy ==
  ASSUME NEW q, Tidy(q)
  PROVE  Tidy(Trim(q)) /\ Trim(Trim(q)) = Trim(q)
<1>1. CASE q = <<>> \/ Last(q) # "blank"
  BY <1>1 DEF Trim
<1>2. CASE q # <<>> /\ Last(q) = "blank"
  <2>1. q \in Seq(Shown) /\ "blank" \in Shown
    BY DEF Tidy, Shown
  <2>2. /\ Front(q) \in Seq(Shown) /\ q = Append(Front(q), "blank")
    <3>1. Len(q) \in Nat /\ Len(q) # 0
      BY <1>2, <2>1, EmptySeq
    <3>2. q[Len(q)] = "blank"
      BY <1>2 DEF Last
    <3> QED
      BY <2>1, <3>1, <3>2 DEF Front
  <2>3. Tidy(Front(q)) /\ Front(q) # <<>> /\ Last(Front(q)) # "blank"
    BY <2>1, <2>2, TidyAppend
  <2> QED
    BY <1>2, <2>3 DEF Trim
<1> QED
  BY <1>1, <1>2

\* A normal form is its own.
LEMMA NormalForm == \A s \in Text : normalize(normalize(s)) = normalize(s)
<1> SUFFICES ASSUME NEW s \in Text
             PROVE  normalize(normalize(s)) = normalize(s)
  OBVIOUS
<1> DEFINE q == Trim(State(s).text)
<1>1. Tidy(q) /\ Trim(q) = q
  BY StateSound, TrimTidy DEF Sound
<1>2. q \in Text
  <2> HIDE DEF q
  <2>1. q \in Seq(Shown) /\ Shown \subseteq Characters
    BY <1>1, ShownFacts DEF Tidy
  <2> QED
    BY <2>1, SeqMonotonic DEF Text
<1> HIDE DEF q
<1>3. Trim(State(q).text) = q
  BY <1>1, <1>2, TidyIsRead
<1> QED
  BY <1>3, NormalizeIs DEF q

\* s before and after its n-th character, which is replaced, or has c put before it.
LEMMA Parts ==
  ASSUME NEW s \in Text, NEW n \in 1 .. Len(s), NEW c \in Characters
  PROVE  LET h == SubSeq(s, 1, n - 1)
             r == SubSeq(s, n + 1, Len(s))
         IN  /\ h \in Text /\ r \in Text /\ s[n] \in Characters
             /\ s = Append(h, s[n]) \o r
             /\ ReplaceAt(s, n, c) = Append(h, c) \o r
             /\ InsertAt(s, n, c) = Append(Append(h, c), s[n]) \o r
<1> DEFINE h == SubSeq(s, 1, n - 1)
           r == SubSeq(s, n + 1, Len(s))
<1>1. Len(s) \in Nat /\ n \in Nat /\ n >= 1 /\ n <= Len(s) /\ \A i \in 1 .. Len(s) : s[i] \in Characters
  BY DEF Text
<1>2. /\ h \in Seq(Characters) /\ Len(h) = n - 1
      /\ \A i \in 1 .. n - 1 : h[i] = s[i]
  BY <1>1, SubSeqProperties
<1>3. /\ r \in Seq(Characters) /\ Len(r) = Len(s) - n
      /\ \A i \in 1 .. Len(s) - n : r[i] = s[n + i]
  BY <1>1, SubSeqProperties
<1>4. SubSeq(s, n, Len(s)) = <<s[n]>> \o r
  BY <1>1, SubSeqRecursiveFirst DEF Text
<1>5. SubSeq(s, 1, n) = Append(h, s[n])
  BY <1>1, SubSeqRecursiveSecond, AppendIsConcat DEF Text
<1>6. s = Append(h, s[n]) \o r
  <2>1. SubSeq(s, 1, n) \o SubSeq(s, n + 1, Len(s)) = SubSeq(s, 1, Len(s))
    BY <1>1, ConcatAdjacentSubSeq DEF Text
  <2>2. SubSeq(s, 1, Len(s)) = s
    BY SubSeqFull DEF Text
  <2> QED
    BY <1>5, <2>1, <2>2
<1>7. InsertAt(s, n, c) = Append(Append(h, c), s[n]) \o r
  <2>1. InsertAt(s, n, c) = (h \o <<c>>) \o (<<s[n]>> \o r)
    BY <1>4 DEF InsertAt
  <2> HIDE DEF h, r
  <2>2. h \o <<c>> = Append(h, c) /\ Append(h, c) \in Seq(Characters)
    BY <1>2, AppendIsConcat, AppendProperties
  <2>3. <<s[n]>> \in Seq(Characters)
    BY <1>1
  <2>4. Append(Append(h, c), s[n]) = Append(h, c) \o <<s[n]>>
    BY <1>1, <2>2, AppendIsConcat
  <2>5. (Append(h, c) \o <<s[n]>>) \o r = Append(h, c) \o (<<s[n]>> \o r)
    <3> DEFINE v == Append(h, c)
               z == <<s[n]>>
    <3>1. v \in Seq(Characters) /\ z \in Seq(Characters)
      BY <2>2, <2>3
    <3> HIDE DEF v, z
    <3>2. (v \o z) \o r = v \o (z \o r)
      BY <1>3, <3>1, ConcatAssociative
    <3> QED
      BY <3>2 DEF v, z
  <2> QED
    BY <2>1, <2>2, <2>4, <2>5
<1>8. ReplaceAt(s, n, c) = Append(h, c) \o r
  <2> DEFINE u == ReplaceAt(s, n, c)
             w == Append(h, c) \o r
  <2>1. /\ u \in Seq(Characters) /\ Len(u) = Len(s)
        /\ \A i \in 1 .. Len(s) : u[i] = IF i = n THEN c ELSE s[i]
    BY ExceptSeq DEF ReplaceAt, Text
  <2> HIDE DEF h, r, u
  <2>2. /\ Append(h, c) \in Seq(Characters) /\ Len(Append(h, c)) = n
        /\ Append(h, c)[n] = c /\ \A i \in 1 .. n - 1 : Append(h, c)[i] = s[i]
    BY <1>1, <1>2, AppendProperties
  <2>3. /\ w \in Seq(Characters) /\ Len(w) = Len(s)
        /\ \A i \in 1 .. Len(s) :
             w[i] = IF i <= n THEN Append(h, c)[i] ELSE r[i - n]
    <3> DEFINE v == Append(h, c)
    <3> HIDE DEF v
    <3>1. v \in Seq(Characters) /\ Len(v) = n /\ w = v \o r
      BY <2>2 DEF v
    <3>2. /\ v \o r \in Seq(Characters) /\ Len(v \o r) = Len(v) + Len(r)
          /\ \A i \in 1 .. Len(v) + Len(r) :
               (v \o r)[i] = IF i <= Len(v) THEN v[i] ELSE r[i - Len(v)]
      BY <1>3, <3>1, ConcatProperties
    <3>3. Len(v) + Len(r) = Len(s)
      BY <1>1, <1>3, <3>1
    <3> HIDE DEF w
    <3> QED
      BY <3>1, <3>2, <3>3 DEF v
  <2> HIDE DEF w
  <2>4. \A i \in 1 .. Len(s) : u[i] = w[i]
    <3> SUFFICES ASSUME NEW i \in 1 .. Len(s)
                 PROVE  u[i] = w[i]
      OBVIOUS
    <3>1. CASE i < n
      BY <1>1, <2>1, <2>2, <2>3, <3>1
    <3>2. CASE i = n
      BY <1>1, <2>1, <2>2, <2>3, <3>2
    <3>3. CASE i > n
      <4>1. i - n \in 1 .. Len(s) - n /\ n + (i - n) = i
        BY <1>1, <3>3
      <4> QED
        BY <1>1, <1>3, <2>1, <2>3, <3>3, <4>1
    <3> QED
      BY <1>1, <3>1, <3>2, <3>3
  <2>5. u = w
    BY <2>1, <2>3, <2>4, SeqEqual
  <2> QED
    BY <2>5 DEF u, w
<1> QED
  BY <1>1, <1>2, <1>3, <1>6, <1>7, <1>8 DEF Text

\* What is put at the end.
LEMMA AtTheEnd ==
  ASSUME NEW s \in Text, NEW c \in Characters
  PROVE  InsertAt(s, Len(s) + 1, c) = Append(s, c)
<1>1. Len(s) \in Nat
  BY DEF Text
<1>2. SubSeq(s, 1, (Len(s) + 1) - 1) = s
  BY <1>1, SubSeqFull DEF Text
<1>3. SubSeq(s, Len(s) + 1, Len(s)) = <<>>
  BY <1>1, SubSeqEmpty
<1>4. s \o <<c>> = Append(s, c) /\ Append(s, c) \in Seq(Characters)
  BY AppendIsConcat, AppendProperties DEF Text
<1> QED
  BY <1>2, <1>3, <1>4, ConcatEmptySeq DEF InsertAt

\* If the next character leads to the same state, so does the whole text.
LEMMA InsertedBefore ==
  ASSUME NEW s \in Text, NEW n \in 1 .. Len(s), NEW c \in Characters,
         LET q == State(SubSeq(s, 1, n - 1)) IN After(After(q, c), s[n]) = After(q, s[n])
  PROVE  State(InsertAt(s, n, c)) = State(s)
<1> DEFINE h == SubSeq(s, 1, n - 1)
           r == SubSeq(s, n + 1, Len(s))
<1>1. /\ h \in Text /\ r \in Text /\ s[n] \in Characters
      /\ s = Append(h, s[n]) \o r
      /\ InsertAt(s, n, c) = Append(Append(h, c), s[n]) \o r
  BY Parts
<1>2. After(After(State(h), c), s[n]) = After(State(h), s[n])
  OBVIOUS
<1> HIDE DEF h, r
<1>3. Append(h, c) \in Text /\ Append(h, s[n]) \in Text /\ Append(Append(h, c), s[n]) \in Text
  BY <1>1, AppendProperties DEF Text
<1>4. State(Append(Append(h, c), s[n])) = State(Append(h, s[n]))
  BY <1>1, <1>2, <1>3, StateAppend
<1>5. State(Append(Append(h, c), s[n]) \o r) = State(Append(h, s[n]) \o r)
  BY <1>1, <1>3, <1>4, SameRest
<1> QED
  BY <1>1, <1>5

LEMMA Replaced ==
  ASSUME NEW s \in Text, NEW n \in 1 .. Len(s), NEW c \in Characters,
         \A q : After(q, c) = After(q, s[n])
  PROVE  State(ReplaceAt(s, n, c)) = State(s)
<1> DEFINE h == SubSeq(s, 1, n - 1)
           r == SubSeq(s, n + 1, Len(s))
<1>1. /\ h \in Text /\ r \in Text /\ s[n] \in Characters
      /\ s = Append(h, s[n]) \o r
      /\ ReplaceAt(s, n, c) = Append(h, c) \o r
  BY Parts
<1> HIDE DEF h, r
<1>2. Append(h, c) \in Text /\ Append(h, s[n]) \in Text
  BY <1>1, AppendProperties DEF Text
<1>3. State(Append(h, c)) = State(Append(h, s[n]))
  BY <1>1, StateAppend
<1>4. State(Append(h, c) \o r) = State(Append(h, s[n]) \o r)
  BY <1>1, <1>2, <1>3, SameRest
<1> QED
  BY <1>1, <1>4

\* One step leads where the other does.
LEMMA AlikeAfter ==
  ASSUME NEW A \in Alike, NEW c \in A, NEW d \in A
  PROVE  \A q : After(q, c) = After(q, d)
<1>1. c \in {"q", "Q", "i", "I", "wide_I", "i_acute", "I_acute", "blank", "tab"}
  BY DEF Alike, Whitespace
<1>2. d \in {"q", "Q", "i", "I", "wide_I", "i_acute", "I_acute", "blank", "tab"}
  BY DEF Alike, Whitespace
<1>3. c \notin Marks /\ d \notin Marks /\ c \notin ZERO_WIDTH /\ d \notin ZERO_WIDTH
  BY <1>1, <1>2 DEF Marks, ZERO_WIDTH
<1>4. (Plain(c) \in {"i", "I"}) = (Plain(d) \in {"i", "I"})
  BY DEF Alike, Plain, Whitespace
<1>5. \A t : Collapse(t, Small(Plain(c))) = Collapse(t, Small(Plain(d)))
  <2>1. CASE c \in Whitespace
    <3>1. d \in Whitespace
      BY <2>1 DEF Alike, Whitespace
    <3>2. Small(Plain(c)) \in Whitespace /\ Small(Plain(d)) \in Whitespace
      BY <2>1, <3>1 DEF Small, Plain, Whitespace
    <3> QED
      BY <3>2 DEF Collapse
  <2>2. CASE c \notin Whitespace
    <3>1. Small(Plain(c)) = Small(Plain(d))
      BY <2>2 DEF Alike, Small, Plain, Whitespace
    <3> QED
      BY <3>1
  <2> QED
    BY <2>1, <2>2
<1> QED
  BY <1>3, <1>4, <1>5 DEF After

\* What may be inserted: where a state is that of a text, the next character c of
\* s after the inserted one leads where c alone does.
LEMMA MacronAfter == \A q : After(q, "macron_below") = q
BY DEF After, Above, Marks

LEMMA ZeroWidthAfter ==
  \A x \in Characters \ Marks : \A q : After(After(q, "zero_width"), x) = After(q, x)
BY DEF After, Marks, ZERO_WIDTH

LEMMA WhitespaceAfter ==
  ASSUME NEW q, q.text \in Text, NEW w \in Whitespace
  PROVE  /\ \A x \in Whitespace : After(After(q, w), x) = After(q, x)
         /\ Trim(After(q, w).text) = Trim(q.text)
<1>1. \A x \in Whitespace :
         /\ x \notin Marks /\ x \notin ZERO_WIDTH /\ Small(Plain(x)) = x
         /\ Plain(x) \notin {"i", "I"}
  BY DEF Whitespace, Marks, ZERO_WIDTH, Small, Plain
<1>2. ASSUME NEW x \in Whitespace, NEW p
      PROVE  After(p, x) = [text |-> Collapse(p.text, x), open |-> FALSE]
  <2>1. After(p, x) = [text |-> Collapse(p.text, Small(Plain(x))), open |-> Plain(x) \in {"i", "I"}]
    BY <1>1 DEF After
  <2>2. (Plain(x) \in {"i", "I"}) = FALSE
    BY <1>1
  <2> QED
    BY <1>1, <2>1, <2>2
<1> DEFINE t == q.text
           u == IF t = <<>> \/ Last(t) = "blank" THEN t ELSE Append(t, "blank")
<1>3. \A x \in Whitespace : Collapse(t, x) = u
  BY DEF Collapse
<1>4. "blank" \in Characters
  BY DEF Characters, Whitespace
<1>5. /\ Append(t, "blank") # <<>> /\ Last(Append(t, "blank")) = "blank"
      /\ Front(Append(t, "blank")) = t
  <2> HIDE DEF t
  <2>1. t \in Seq(Characters)
    BY DEF t, Text
  <2> DEFINE v == Append(t, "blank")
  <2>2. /\ v # <<>> /\ Len(v) = Len(t) + 1 /\ v[Len(t) + 1] = "blank" /\ Len(t) \in Nat
        /\ v \in Seq(Characters)
    BY <1>4, <2>1, AppendProperties, LenProperties
  <2>3. SubSeq(v, 1, Len(v) - 1) = t
    BY <1>4, <2>1
  <2> QED
    BY <2>2, <2>3 DEF Last, Front
<1>6. \A x \in Whitespace : Collapse(u, x) = u
  BY <1>5 DEF Collapse
<1>7. Trim(u) = Trim(t)
  BY <1>5 DEF Trim
<1> HIDE DEF t, u
<1>8. After(q, w) = [text |-> u, open |-> FALSE]
  BY <1>2, <1>3 DEF t
<1>9. ASSUME NEW x \in Whitespace
      PROVE  After(After(q, w), x) = After(q, x)
  <2>1. After(q, x) = [text |-> u, open |-> FALSE]
    BY <1>2, <1>3 DEF t
  <2>2. After([text |-> u, open |-> FALSE], x) = [text |-> u, open |-> FALSE]
    <3> DEFINE p == [text |-> u, open |-> FALSE]
    <3>1. p.text = u
      OBVIOUS
    <3> HIDE DEF p
    <3>2. After(p, x) = [text |-> u, open |-> FALSE]
      BY <1>2, <1>6, <3>1
    <3> QED
      BY <3>2 DEF p
  <2> QED
    BY <1>8, <2>1, <2>2
<1>10. After(q, w).text = u
  BY <1>8
<1> QED
  BY <1>7, <1>9, <1>10 DEF t

\* I_dot and i are read alike, and unless a mark comes next, so is the rest.
LEMMA DotAfter ==
  ASSUME NEW c \in {"i", "I_dot"}, NEW d \in {"i", "I_dot"}, NEW q
  PROVE  /\ After(q, c).text = After(q, d).text
         /\ \A x \in Characters \ Marks : After(After(q, c), x) = After(After(q, d), x)
<1>1. \A b \in {"i", "I_dot"} : After(q, b).text = Collapse(q.text, "i")
  BY DEF After, Marks, ZERO_WIDTH, Small, Plain
<1>2. \A x \in Characters \ Marks : \A p, r :
        p.text = r.text => After(p, x) = After(r, x)
  BY DEF After
<1> QED
  BY <1>1, <1>2

LEMMA DotReplaced ==
  ASSUME NEW s \in Text, NEW n \in 1 .. Len(s), n \notin Marked(s),
         NEW c \in {"i", "I_dot"}, s[n] \in {"i", "I_dot"}
  PROVE  ReplaceAt(s, n, c) \in Text /\ State(ReplaceAt(s, n, c)).text = State(s).text
<1> DEFINE h == SubSeq(s, 1, n - 1)
           r == SubSeq(s, n + 1, Len(s))
<1>1. /\ h \in Text /\ r \in Text /\ c \in Characters /\ s[n] \in Characters
      /\ s = Append(h, s[n]) \o r
      /\ ReplaceAt(s, n, c) = Append(h, c) \o r
  <2>1. c \in Characters
    BY DEF Characters, Letters
  <2> QED
    BY <2>1, Parts
<1>2. r # <<>> => r[1] \in Characters \ Marks
  <2>1. Len(s) \in Nat /\ DOMAIN s = 1 .. Len(s) /\ \A i \in 1 .. Len(s) : s[i] \in Characters
    BY DEF Text
  <2>2. CASE n + 1 \in 1 .. Len(s)
    <3>1. Len(r) = Len(s) - n /\ r[1] = s[n + 1]
      BY <2>1, <2>2, SubSeqProperties DEF Text
    <3> QED
      BY <2>1, <2>2, <3>1 DEF Marked
  <2>3. CASE n + 1 \notin 1 .. Len(s)
    <3>1. r = <<>>
      BY <2>1, <2>3, SubSeqEmpty
    <3> QED
      BY <3>1
  <2> QED
    BY <2>2, <2>3
<1>3. \A b \in {c, s[n]} : Append(h, b) \in Text /\ State(Append(h, b)) = After(State(h), b)
  <2> HIDE DEF h
  <2> QED
    BY <1>1, AppendProperties, StateAppend DEF Text
<1>4. /\ ReplaceAt(s, n, c) \in Text
  BY <1>1, ExceptSeq DEF ReplaceAt, Text
<1> HIDE DEF h, r
<1>5. CASE r = <<>>
  <2>1. Append(h, c) \o r = Append(h, c) /\ Append(h, s[n]) \o r = Append(h, s[n])
    BY <1>3, <1>5, ConcatEmptySeq DEF Text
  <2>2. After(State(h), c).text = After(State(h), s[n]).text
    BY DotAfter
  <2> QED
    BY <1>1, <1>3, <1>4, <2>1, <2>2
<1>6. CASE r # <<>>
  <2> DEFINE x == r[1]
             u == Tail(r)
  <2>1. u \in Text /\ x \in Characters \ Marks /\ r = <<x>> \o u
    BY <1>1, <1>2, <1>6 DEF Text
  <2> HIDE DEF x, u
  <2>2. ASSUME NEW b \in {c, s[n]}
        PROVE  /\ Append(h, b) \o r = Append(Append(h, b), x) \o u
               /\ Append(Append(h, b), x) \in Text
               /\ State(Append(Append(h, b), x)) = After(After(State(h), b), x)
    <3> DEFINE v == Append(h, b)
    <3>1. v \in Text /\ State(v) = After(State(h), b)
      BY <1>3
    <3> HIDE DEF v
    <3>2. <<x>> \in Seq(Characters) /\ v \o <<x>> = Append(v, x) /\ Append(v, x) \in Text
      BY <2>1, <3>1, AppendIsConcat, AppendProperties DEF Text
    <3>3. v \o (<<x>> \o u) = (v \o <<x>>) \o u
      <4> DEFINE z == <<x>>
      <4>1. v \in Seq(Characters) /\ z \in Seq(Characters) /\ u \in Seq(Characters)
        BY <2>1, <3>1, <3>2 DEF Text
      <4> HIDE DEF z
      <4>2. (v \o z) \o u = v \o (z \o u)
        BY <4>1, ConcatAssociative
      <4> QED
        BY <4>2 DEF z
    <3>4. State(Append(v, x)) = After(State(v), x)
      BY <2>1, <3>1, StateAppend
    <3> QED
      BY <2>1, <3>1, <3>2, <3>3, <3>4 DEF v
  <2>3. State(Append(Append(h, c), x)) = State(Append(Append(h, s[n]), x))
    BY <2>1, <2>2, DotAfter
  <2>4. State(Append(Append(h, c), x) \o u) = State(Append(Append(h, s[n]), x) \o u)
    BY <2>1, <2>2, <2>3, SameRest
  <2> QED
    BY <1>1, <1>4, <2>2, <2>4
<1> QED
  BY <1>5, <1>6

\* The disguises of a text are texts with its normal form.
LEMMA DisguiseNormal ==
  ASSUME NEW s \in Text, NEW d \in Disguises(s)
  PROVE  d \in Text /\ normalize(d) = normalize(s)
<1>1. Len(s) \in Nat /\ DOMAIN s = 1 .. Len(s) /\ \A i \in 1 .. Len(s) : s[i] \in Characters
  BY DEF Text
<1>2. \A t \in Text : State(t).text \in Text
  <2>1. \A t \in Text : nfkc(t) \in Text
    BY NfkcAppend, "i" \in Characters DEF Characters, Letters
  <2>2. \A t \in Text : Read(t) \in Text
    BY ReadAppend, "i" \in Characters DEF Characters, Letters
  <2> QED
    BY <2>1, <2>2 DEF State
<1>3. /\ "macron_below" \in Characters /\ "zero_width" \in Characters
      /\ Whitespace \subseteq Characters /\ \A A \in Alike : A \subseteq Characters
  BY DEF Alike, Characters, Letters, Marks, ZERO_WIDTH, Whitespace
<1>4. ASSUME NEW n \in 1 .. Len(s) + 1, NEW c \in Characters
      PROVE  InsertAt(s, n, c) \in Text
  <2>1. CASE n = Len(s) + 1
    <3>1. Append(s, c) \in Text
      BY AppendProperties DEF Text
    <3> QED
      BY <2>1, <3>1, AtTheEnd
  <2>2. CASE n # Len(s) + 1
    <3>1. n \in 1 .. Len(s)
      BY <1>1, <2>2
    <3> DEFINE h == SubSeq(s, 1, n - 1)
               r == SubSeq(s, n + 1, Len(s))
    <3>2. /\ h \in Text /\ r \in Text /\ s[n] \in Characters
          /\ InsertAt(s, n, c) = Append(Append(h, c), s[n]) \o r
      BY <3>1, Parts
    <3> HIDE DEF h, r
    <3>3. Append(Append(h, c), s[n]) \in Seq(Characters)
      BY <3>2, AppendProperties DEF Text
    <3> QED
      BY <3>2, <3>3, ConcatProperties DEF Text
  <2> QED
    BY <2>1, <2>2
<1>5. CASE \E n \in DOMAIN s : \E c \in UNION {A \in Alike : s[n] \in A} : d = ReplaceAt(s, n, c)
  <2>1. PICK n \in 1 .. Len(s), A \in Alike :
          \E c \in A : s[n] \in A /\ d = ReplaceAt(s, n, c)
    BY <1>1, <1>5
  <2> PICK c \in A : s[n] \in A /\ d = ReplaceAt(s, n, c)
    BY <2>1
  <2>2. c \in Characters /\ \A q : After(q, c) = After(q, s[n])
    BY <1>3, <2>1, AlikeAfter
  <2>3. State(d) = State(s)
    BY <2>1, <2>2, Replaced
  <2>4. d \in Text
    BY <2>1, <2>2, ExceptSeq DEF ReplaceAt, Text
  <2> QED
    BY <2>3, <2>4, NormalizeIs
<1>6. CASE \E n \in 1 .. Len(s) + 1 : d = InsertAt(s, n, "macron_below")
  <2>1. PICK n \in 1 .. Len(s) + 1 : d = InsertAt(s, n, "macron_below")
    BY <1>6
  <2>2. CASE n = Len(s) + 1
    <3>1. State(d) = State(s)
      BY <1>3, <2>1, <2>2, AtTheEnd, StateAppend, MacronAfter
    <3> QED
      BY <1>3, <1>4, <2>1, <3>1, NormalizeIs
  <2>3. CASE n # Len(s) + 1
    <3>1. n \in 1 .. Len(s)
      BY <1>1, <2>3
    <3>2. State(d) = State(s)
      BY <1>3, <2>1, <3>1, MacronAfter, InsertedBefore
    <3> QED
      BY <1>3, <1>4, <2>1, <3>2, NormalizeIs
  <2> QED
    BY <2>2, <2>3
<1>7. CASE \E n \in (1 .. Len(s) + 1) \ {n \in DOMAIN s : s[n] \in Marks} :
             d = InsertAt(s, n, "zero_width")
  <2>1. PICK n \in 1 .. Len(s) + 1 :
          /\ ~(n \in DOMAIN s /\ s[n] \in Marks)
          /\ d = InsertAt(s, n, "zero_width")
    BY <1>7
  <2>2. CASE n = Len(s) + 1
    <3>1. State(d) = After(State(s), "zero_width")
      BY <1>3, <2>1, <2>2, AtTheEnd, StateAppend
    <3>2. State(d).text = State(s).text
      BY <3>1 DEF After, Marks, ZERO_WIDTH
    <3> QED
      BY <1>3, <1>4, <2>1, <3>2, NormalizeIs
  <2>3. CASE n # Len(s) + 1
    <3>1. n \in 1 .. Len(s) /\ s[n] \in Characters \ Marks
      BY <1>1, <2>1, <2>3
    <3>2. State(d) = State(s)
      BY <1>3, <2>1, <3>1, ZeroWidthAfter, InsertedBefore
    <3> QED
      BY <1>3, <1>4, <2>1, <3>2, NormalizeIs
  <2> QED
    BY <2>2, <2>3
<1>8. CASE \E c \in Whitespace,
              n \in {1, Len(s) + 1} \cup {n \in DOMAIN s : s[n] \in Whitespace} :
             d = InsertAt(s, n, c)
  <2>1. PICK c \in Whitespace, n \in 1 .. Len(s) + 1 :
          /\ n = 1 \/ n = Len(s) + 1 \/ (n \in 1 .. Len(s) /\ s[n] \in Whitespace)
          /\ d = InsertAt(s, n, c)
    BY <1>1, <1>8
  <2>2. c \in Characters /\ d \in Text
    BY <1>3, <1>4, <2>1
  <2>3. CASE n = Len(s) + 1
    <3>1. State(d) = After(State(s), c)
      BY <2>1, <2>2, <2>3, AtTheEnd, StateAppend
    <3>2. Trim(State(d).text) = Trim(State(s).text)
      BY <1>2, <3>1, WhitespaceAfter
    <3> QED
      BY <2>2, <3>2, NormalizeIs
  <2>4. CASE n # Len(s) + 1
    <3>1. n \in 1 .. Len(s)
      BY <1>1, <2>4
    <3> DEFINE h == SubSeq(s, 1, n - 1)
    <3>2. h \in Text /\ State(h).text \in Text
      BY <1>2, <2>2, <3>1, Parts
    <3>3. CASE s[n] \in Whitespace
      <4>1. After(After(State(h), c), s[n]) = After(State(h), s[n])
        <5> HIDE DEF h
        <5> QED
          BY <3>2, <3>3, WhitespaceAfter
      <4>2. State(d) = State(s)
        BY <2>1, <2>2, <3>1, <4>1, InsertedBefore
      <4> QED
        BY <2>2, <4>2, NormalizeIs
    <3>4. CASE n = 1
      <4>1. h = <<>>
        BY <3>4, SubSeqEmpty
      <4>2. After(State(<<>>), c) = State(<<>>)
        <5>1. State(<<>>) = [text |-> <<>>, open |-> FALSE]
          BY StateAppend
        <5>2. After(State(<<>>), c) = [text |-> <<>>, open |-> FALSE]
          <6>1. c = "blank" \/ c = "tab"
            BY DEF Whitespace
          <6>2. c \notin Marks /\ c \notin ZERO_WIDTH /\ Small(Plain(c)) = c
            BY <6>1 DEF Marks, ZERO_WIDTH, Small, Plain
          <6>3. (Plain(c) \in {"i", "I"}) = FALSE
            BY <6>1 DEF Plain
          <6>4. Collapse(<<>>, c) = <<>>
            BY DEF Collapse
          <6>5. After(State(<<>>), c) = [text |-> Collapse(State(<<>>).text, Small(Plain(c))),
                                         open |-> Plain(c) \in {"i", "I"}]
            BY <6>2 DEF After
          <6>6. State(<<>>).text = <<>>
            BY <5>1
          <6> QED
            BY <6>2, <6>3, <6>4, <6>5, <6>6
        <5> QED
          BY <5>1, <5>2
      <4>3. After(After(State(h), c), s[n]) = After(State(h), s[n])
        BY <4>1, <4>2
      <4>4. State(d) = State(s)
        BY <2>1, <2>2, <3>1, <4>3, InsertedBefore
      <4> QED
        BY <2>2, <4>4, NormalizeIs
    <3> QED
      BY <2>1, <2>4, <3>3, <3>4
  <2> QED
    BY <2>3, <2>4
<1>9. CASE \E c \in {"i", "I_dot"},
              n \in {n \in DOMAIN s : s[n] \in {"i", "I_dot"}} \ Marked(s) :
             d = ReplaceAt(s, n, c)
  <2>1. PICK c \in {"i", "I_dot"}, n \in 1 .. Len(s) :
          s[n] \in {"i", "I_dot"} /\ n \notin Marked(s) /\ d = ReplaceAt(s, n, c)
    BY <1>1, <1>9
  <2>2. d \in Text /\ State(d).text = State(s).text
    BY <2>1, DotReplaced
  <2> QED
    BY <2>2, NormalizeIs
<1> QED
  BY <1>5, <1>6, <1>7, <1>8, <1>9 DEF Disguises

-----------------------------------------------------------------------------
(* The theorems *)

\* Type correctness: no counter outruns the messages handled, and the worker of a
\* chat and its tables hold what the code puts there.
THEOREM TypeCorrect == Spec => []TypeOK
<1>1. IInv => TypeOK
  BY DEF IInv
<1> QED
  BY <1>1, Invariance, PTL

\* CasClient::lookup caches nothing but what CAS said, in either tier.
THEOREM OnlyAnswersAreCached == Spec => []CachesAreAnswers
<1>1. IInv => CachesAreAnswers
  BY DEF IInv
<1> QED
  BY <1>1, Invariance, PTL

\* The pipeline bans nobody without grounds, whatever fails, expires or is pruned
\* between the steps of inspect, and in however many chats at once.
THEOREM NoBanWithoutGrounds == Spec => []BansHaveGrounds
<1>1. IInv => BansHaveGrounds
  BY DEF IInv
<1> QED
  BY <1>1, Invariance, PTL

\* The hits of a fingerprint (spam_messages) are explained by those of its chats
\* (spam_messages_per_chat), under bumps, records and prunes at the same time.
THEOREM AggregateExplained == Spec => []AggregateIsExplained
<1>1. IInv => AggregateIsExplained
  BY DEF IInv
<1> QED
  BY <1>1, Invariance, PTL

\* normalize sees through any number of the steps of Disguises, on a text of any length
\* over the characters of SpamText, and a normal form is its own.  An accent that
\* composes with its letter is part of the key, and so I_dot stands for an i only where
\* no mark follows.
THEOREM DisguisesDoNotHelp ==
  ASSUME NEW n \in Nat, NEW d, d[0] \in Seq(Characters),
         \A i \in 0 .. n - 1 : d[i + 1] \in Disguises(d[i])
  PROVE  /\ normalize(d[n]) = normalize(d[0])
         /\ normalize(normalize(d[n])) = normalize(d[0])
<1> DEFINE I == {i \in 0 .. n : d[i] \in Text /\ normalize(d[i]) = normalize(d[0])}
<1>1. 0 \in I
  BY DEF Text
<1>2. \A i \in 0 .. n - 1 : i \in I => i + 1 \in I
  <2> SUFFICES ASSUME NEW i \in 0 .. n - 1, i \in I
               PROVE  i + 1 \in I
    OBVIOUS
  <2>1. d[i] \in Text /\ d[i + 1] \in Disguises(d[i]) /\ i + 1 \in 0 .. n
    OBVIOUS
  <2>2. d[i + 1] \in Text /\ normalize(d[i + 1]) = normalize(d[i])
    BY <2>1, DisguiseNormal
  <2> QED
    BY <2>1, <2>2
<1>3. \A i \in 0 .. n : i \in I
  <2> HIDE DEF I
  <2> QED
    BY <1>1, <1>2, UpTo
<1>4. d[n] \in Text /\ normalize(d[n]) = normalize(d[0])
  BY <1>3
<1> QED
  BY <1>4, NormalForm

\* So the pipeline recognises every copy, two steps of Disguises away, of a message it
\* has handled, and the key it keeps is a normal form.
THEOREM CopiesRecognised == Spec => []CopiesAreRecognised
<1>1. TypeOK => CopiesAreRecognised
  <2> SUFFICES ASSUME NEW m \in Messages
               PROVE  Recognised[m]
    BY DEF TypeOK, CopiesAreRecognised
  <2>1. body[m] \in Text /\ hash_of[m] = normalize(body[m])
    BY PipelineConstantsOK DEF hash_of, Text
  <2>2. \A d \in Copies(body[m]) : normalize(d) = hash_of[m]
    BY <2>1, DisguiseNormal DEF Copies
  <2>3. normalize(hash_of[m]) = hash_of[m]
    BY <2>1, NormalForm
  <2> QED
    BY <2>2, <2>3 DEF Recognised
<1> QED
  BY <1>1, TypeCorrect, PTL
=============================================================================
