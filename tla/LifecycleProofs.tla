--------------------------- MODULE LifecycleProofs --------------------------
(***************************************************************************)
(* Lifecycle keeps its types, and only the timeout of the join cuts work   *)
(* off, for every set of jobs, every length of their passes and whichever  *)
(* part fails.                                                             *)
(***************************************************************************)
EXTENDS Lifecycle, TLAPS

-----------------------------------------------------------------------------
(* The inductive invariant *)

\* Nobody asks a server that is not there, or one that has ended: it ends only
\* when the request under way is answered.
QuietServer == http \in {"none", "done"} => request = "none"

\* A dispatcher that has not begun has been given nothing, and one that has
\* returned has seen everything handled.
QuietDispatcher ==
  dispatcher \in {"none", "idle", "done"} => inbox = 0 /\ handler = "idle"

\* Nothing of what the loop of main will wait for has been spawned.
NothingSpawned ==
  /\ http = "none" /\ dispatcher = "none"
  /\ \A j \in Jobs : job[j].at = "none"

\* A piece under way is one of those left, so that counting it off never goes
\* below zero.
PiecesCounted ==
  \A j \in Jobs : job[j].at = "holding" => Unlimited(j) \/ job[j].left > 0

\* All of it has ended.
AllEnded ==
  /\ http = "done" /\ dispatcher = "done"
  /\ \A j \in Jobs : job[j].at = "done"

\* main spawns the server first and everything else later, at once.
SpawnedInOrder ==
  /\ main \in {"postgres", "redis", "seed", "http"} => http = "none"
  /\ main \in {"postgres", "redis", "seed", "http", "commands"} =>
       dispatcher = "none" /\ \A j \in Jobs : job[j].at = "none"

\* main closes the pool after every task has ended, unless it gave up waiting;
\* it leaves by `?` only while nothing is spawned.
EndsInOrder ==
  main \in {"close", "exited"} /\ ~timed_out /\ listener # "killed" =>
    AllEnded \/ NothingSpawned

IInv ==
  /\ TypeOK /\ PiecesCounted
  /\ QuietServer /\ QuietDispatcher /\ SpawnedInOrder /\ EndsInOrder

-----------------------------------------------------------------------------
(* Types *)

LEMMA TypeInit == Init => TypeOK
<1> SUFFICES ASSUME Init
             PROVE  TypeOK
  OBVIOUS
<1>1. job \in [Jobs -> [at : JobStates, left : Nat]]
  BY DEF Init, JobStates
<1>2. inbox \in 0 .. MaxWaiting
  BY LifecycleConstantsOK DEF Init
<1> QED
  BY <1>1, <1>2 DEF Init, TypeOK, MainSteps

LEMMA TypeMain ==
  ASSUME TypeOK, Main \/ startup_fails \/ join_times_out
  PROVE  TypeOK'
<1>1. CASE spawn_all
  BY <1>1 DEF spawn_all, TypeOK, MainSteps, JobStates, signals, server, stopper, polling
<1>2. CASE ~spawn_all
  BY <1>2 DEF Main, connect_postgres, connect_redis, seed_and_subscribe, spawn_http,
     startup_fails, main_is_cancelled, join, join_times_out, close, TypeOK, MainSteps,
     signals, server, stopper, polling
<1> QED
  BY <1>1, <1>2

LEMMA TypeSignals ==
  ASSUME TypeOK, install \/ sigterm \/ sigint \/ cancel
  PROVE  TypeOK'
<1>1. CASE install \/ sigterm
  BY <1>1 DEF install, sigterm, TypeOK, MainSteps, signals, server, stopper, polling
<1>2. CASE sigint
  <2>1. interrupted' \in BOOLEAN
    BY <1>2 DEF sigint, TypeOK
  <2> QED
    BY <1>2, <2>1 DEF sigint, TypeOK, MainSteps, server, polling
<1>3. CASE cancel
  BY <1>3 DEF cancel, TypeOK, server, stopper, polling
<1> QED
  BY <1>1, <1>2, <1>3

LEMMA TypeServer ==
  ASSUME TypeOK, accept \/ respond \/ http_stops \/ http_ends
  PROVE  TypeOK'
BY DEF accept, respond, http_stops, http_ends, Advance, TypeOK, signals, stopper, polling

LEMMA TypePolling ==
  ASSUME TypeOK,
         \/ dispatch \/ shutdown \/ ctrlc \/ get_updates \/ stream_ends
         \/ handle \/ handler_step \/ dispatch_ends
  PROVE  TypeOK'
<1>1. CASE dispatch \/ shutdown \/ ctrlc \/ stream_ends \/ dispatch_ends
  BY <1>1 DEF dispatch, shutdown, ctrlc, stream_ends, dispatch_ends, Asked, TypeOK,
     signals, server, stopper
<1>2. CASE get_updates \/ handle
  <2>1. inbox' \in 0 .. MaxWaiting
    BY <1>2, LifecycleConstantsOK DEF get_updates, handle, TypeOK
  <2> QED
    BY <1>2, <2>1 DEF get_updates, handle, TypeOK, signals, server, stopper
<1>3. CASE handler_step
  BY <1>3 DEF handler_step, Advance, TypeOK, signals, server, stopper
<1> QED
  BY <1>1, <1>2, <1>3

\* A job goes from one of its places to another.
LEMMA TypeJobGoes ==
  ASSUME TypeOK, NEW j \in Jobs, NEW to \in JobStates, NEW left \in Nat,
         JobGoes(j, to, left)
  PROVE  TypeOK'
<1>1. job' \in [Jobs -> [at : JobStates, left : Nat]]
  BY DEF JobGoes, TypeOK
<1> QED
  BY <1>1 DEF JobGoes, TypeOK, signals, server, stopper, polling

\* What a step of a job does: it moves on from a place where it was at work, and
\* begins a piece only if there is one.
LEMMA JobMoves ==
  ASSUME TypeOK, PiecesCounted, NEW j \in Jobs, tick(j) \/ Job(j) \/ job_panics(j)
  PROVE  /\ job[j].at \in {"select", "pass", "holding"}
         /\ \E to \in JobStates \ {"none"}, left \in Nat :
              /\ JobGoes(j, to, left)
              /\ to = "holding" => Unlimited(j) \/ left > 0
<1>1. job[j].left \in Nat /\ Units[j] \in Nat
  BY LifecycleConstantsOK DEF TypeOK
<1>2. CASE piece_ends(j)
  <2>1. CASE Unlimited(j)
    BY <1>2, <2>1 DEF piece_ends, JobStates
  <2>2. CASE ~Unlimited(j)
    <3>1. job[j].left - 1 \in Nat
      BY <1>1, <1>2, <2>2 DEF piece_ends, PiecesCounted
    <3> QED
      BY <1>2, <2>2, <3>1 DEF piece_ends, JobStates
  <2> QED
    BY <2>1, <2>2
<1>3. CASE ~piece_ends(j)
  BY <1>1, <1>3 DEF tick, Job, job_ends, piece_begins, pass_ends, job_panics, JobStates
<1> QED
  BY <1>2, <1>3

LEMMA TypeStep == TypeOK /\ PiecesCounted /\ [Next]_vars => TypeOK'
<1> SUFFICES ASSUME TypeOK, PiecesCounted, [Next]_vars
             PROVE  TypeOK'
  OBVIOUS
<1>1. ASSUME NEW j \in Jobs, tick(j) \/ Job(j) \/ job_panics(j)
      PROVE  TypeOK'
  <2>1. PICK to \in JobStates \ {"none"}, left \in Nat : JobGoes(j, to, left)
    BY <1>1, JobMoves
  <2> QED
    BY <2>1, TypeJobGoes
<1>2. CASE subscribe \/ subscription_ends
  BY <1>2 DEF subscribe, subscription_ends, TypeOK, signals, server, stopper, polling
<1>3. CASE UNCHANGED vars
  BY <1>3 DEF vars, TypeOK, signals, server, stopper, polling
<1> QED
  BY <1>1, <1>2, <1>3, TypeMain, TypeSignals, TypeServer, TypePolling DEF Next

-----------------------------------------------------------------------------
(* The rest of the invariant *)

LEMMA InvInit == Init => IInv
<1> SUFFICES ASSUME Init
             PROVE  IInv
  OBVIOUS
<1>1. \A j \in Jobs : job[j].at = "none"
  BY DEF Init
<1> QED
  BY <1>1, TypeInit DEF IInv, Init, PiecesCounted, QuietServer, QuietDispatcher,
     SpawnedInOrder, EndsInOrder

\* A step of main: it spawns in order, and goes on from "drain" only when all is
\* over or it has given up.
LEMMA InvMain ==
  ASSUME IInv, TypeOK', Main \/ startup_fails \/ join_times_out
  PROVE  IInv'
<1> USE DEF IInv
<1>1. CASE spawn_all
  <2>1. \A j \in Jobs : job'[j].at = "select"
    BY <1>1 DEF spawn_all
  <2>2. main' = "wait" /\ UNCHANGED <<http, request, inbox, handler>> /\ dispatcher' = "idle"
    BY <1>1 DEF spawn_all, server
  <2>3. inbox = 0 /\ handler = "idle"
    BY <1>1 DEF spawn_all, SpawnedInOrder, QuietDispatcher
  <2> QED
    BY <2>1, <2>2, <2>3 DEF PiecesCounted, QuietServer, QuietDispatcher,
       SpawnedInOrder, EndsInOrder
<1>2. CASE spawn_http
  <2>1. http = "none" /\ main' = "commands" /\ http' = "serving"
        /\ UNCHANGED <<request, dispatcher, inbox, handler, job>>
    BY <1>2 DEF spawn_http, SpawnedInOrder, polling
  <2>2. main = "http"
    BY <1>2 DEF spawn_http
  <2> QED
    BY <2>1, <2>2 DEF PiecesCounted, QuietServer, QuietDispatcher, SpawnedInOrder,
       EndsInOrder
<1>3. CASE ~spawn_all /\ ~spawn_http
  <2>1. UNCHANGED <<listener, http, request, dispatcher, inbox, handler, job>>
    BY <1>3 DEF Main, connect_postgres, connect_redis, seed_and_subscribe, startup_fails,
       main_is_cancelled, join, join_times_out, close, signals, server, polling
  <2>2. PiecesCounted' /\ QuietServer' /\ QuietDispatcher'
    BY <2>1 DEF PiecesCounted, QuietServer, QuietDispatcher, Unlimited
  <2>3. SpawnedInOrder'
    BY <1>3, <2>1 DEF SpawnedInOrder, Main, connect_postgres, connect_redis,
       seed_and_subscribe, startup_fails, main_is_cancelled, join, join_times_out, close
  <2>4. AllEnded \/ NothingSpawned => (AllEnded \/ NothingSpawned)'
    BY <2>1 DEF AllEnded, NothingSpawned
  <2>5. EndsInOrder'
    BY <1>3, <2>1, <2>4 DEF EndsInOrder, SpawnedInOrder, NothingSpawned, AllEnded, Joined, Main,
       connect_postgres, connect_redis, seed_and_subscribe, startup_fails,
       main_is_cancelled, join, join_times_out, close
  <2> QED
    BY <2>2, <2>3, <2>5
<1> QED
  BY <1>1, <1>2, <1>3

LEMMA InvSignals ==
  ASSUME IInv, TypeOK', install \/ sigterm \/ sigint \/ cancel
  PROVE  IInv'
<1> USE DEF IInv
<1>1. UNCHANGED <<timed_out, http, request, dispatcher, inbox, handler, job>>
  BY DEF install, sigterm, sigint, cancel, server, polling
<1>2. PiecesCounted' /\ QuietServer' /\ QuietDispatcher'
  BY <1>1 DEF PiecesCounted, QuietServer, QuietDispatcher, Unlimited
<1>3. main' = main \/ (main' = "exited" /\ listener' = "killed")
  BY DEF install, sigterm, sigint, cancel
<1>4. SpawnedInOrder'
  BY <1>1, <1>3 DEF SpawnedInOrder
<1>5. listener = "killed" => listener' = "killed"
  BY DEF install, sigterm, sigint, cancel
<1>6. AllEnded \/ NothingSpawned => (AllEnded \/ NothingSpawned)'
  BY <1>1 DEF AllEnded, NothingSpawned
<1>7. EndsInOrder'
  BY <1>1, <1>3, <1>5, <1>6 DEF EndsInOrder
<1> QED
  BY <1>2, <1>4, <1>7

\* A step of a part that is at work leaves the others alone, and what has ended
\* has no more steps.
LEMMA InvServer ==
  ASSUME IInv, TypeOK', accept \/ respond \/ http_stops \/ http_ends
  PROVE  IInv'
<1> USE DEF IInv
<1>1. UNCHANGED <<main, listener, timed_out, dispatcher, inbox, handler, job, pubsub>>
  BY DEF accept, respond, http_stops, http_ends, signals, polling
<1>2. PiecesCounted' /\ QuietDispatcher'
  BY <1>1 DEF PiecesCounted, QuietDispatcher, Unlimited
<1>3. QuietServer'
  BY DEF QuietServer, accept, respond, http_stops, http_ends
<1>4. (http = "none" <=> http' = "none") /\ (http = "done" => http' = "done")
  BY DEF QuietServer, accept, respond, http_stops, http_ends
<1>5. SpawnedInOrder'
  BY <1>1, <1>4 DEF SpawnedInOrder
<1>6. AllEnded \/ NothingSpawned => (AllEnded \/ NothingSpawned)'
  BY <1>1, <1>4 DEF AllEnded, NothingSpawned
<1>7. EndsInOrder'
  BY <1>1, <1>6 DEF EndsInOrder
<1> QED
  BY <1>2, <1>3, <1>5, <1>7

LEMMA InvPolling ==
  ASSUME IInv, TypeOK',
         \/ dispatch \/ shutdown \/ ctrlc \/ get_updates \/ stream_ends
         \/ handle \/ handler_step \/ dispatch_ends
  PROVE  IInv'
<1> USE DEF IInv
<1>1. UNCHANGED <<main, listener, timed_out, http, request, job, pubsub>>
  BY DEF dispatch, shutdown, ctrlc, get_updates, stream_ends, handle, handler_step,
     dispatch_ends, signals, server
<1>2. PiecesCounted' /\ QuietServer'
  BY <1>1 DEF PiecesCounted, QuietServer, Unlimited
<1>3. QuietDispatcher'
  <2>1. CASE get_updates \/ handle \/ handler_step
    BY <2>1 DEF QuietDispatcher, get_updates, handle, handler_step, TypeOK
  <2>2. CASE dispatch \/ shutdown \/ ctrlc \/ stream_ends \/ dispatch_ends
    BY <2>2 DEF QuietDispatcher, dispatch, shutdown, ctrlc, stream_ends, dispatch_ends, Asked
  <2> QED
    BY <2>1, <2>2
<1>4. (dispatcher = "none" <=> dispatcher' = "none")
      /\ (dispatcher = "done" => dispatcher' = "done")
  BY DEF dispatch, shutdown, ctrlc, get_updates, stream_ends, handle, handler_step,
     dispatch_ends, Asked
<1>5. SpawnedInOrder'
  BY <1>1, <1>4 DEF SpawnedInOrder
<1>6. AllEnded \/ NothingSpawned => (AllEnded \/ NothingSpawned)'
  BY <1>1, <1>4 DEF AllEnded, NothingSpawned
<1>7. EndsInOrder'
  BY <1>1, <1>6 DEF EndsInOrder
<1> QED
  BY <1>2, <1>3, <1>5, <1>7

LEMMA InvJob ==
  ASSUME IInv, TypeOK', NEW j \in Jobs, tick(j) \/ Job(j) \/ job_panics(j)
  PROVE  IInv'
<1> USE DEF IInv
<1>1. PICK to \in JobStates \ {"none"}, left \in Nat :
        JobGoes(j, to, left) /\ (to = "holding" => Unlimited(j) \/ left > 0)
  BY JobMoves
<1>2. job[j].at \in {"select", "pass", "holding"}
  BY JobMoves
<1>3. /\ UNCHANGED <<main, listener, timed_out, http, request, dispatcher, inbox, handler>>
      /\ job' = [job EXCEPT ![j] = [at |-> to, left |-> left]]
  BY <1>1 DEF JobGoes, signals, server, polling
<1>4. /\ \A k \in Jobs \ {j} : job'[k] = job[k]
      /\ job'[j] = [at |-> to, left |-> left]
  BY <1>3 DEF TypeOK
<1>5. PiecesCounted'
  BY <1>1, <1>4 DEF PiecesCounted, Unlimited
<1>6. QuietServer' /\ QuietDispatcher'
  BY <1>3 DEF QuietServer, QuietDispatcher
<1>7. ~AllEnded /\ ~NothingSpawned
  BY <1>2 DEF AllEnded, NothingSpawned
<1>8. SpawnedInOrder' /\ EndsInOrder'
  BY <1>2, <1>3, <1>7 DEF SpawnedInOrder, EndsInOrder
<1> QED
  BY <1>5, <1>6, <1>8

LEMMA InvStep == IInv /\ [Next]_vars => IInv'
<1> SUFFICES ASSUME IInv, [Next]_vars
             PROVE  IInv'
  OBVIOUS
<1>1. TypeOK'
  BY TypeStep DEF IInv
<1>2. CASE subscribe \/ subscription_ends \/ UNCHANGED vars
  <2>1. UNCHANGED <<main, listener, timed_out, http, request, dispatcher, inbox, handler, job>>
    BY <1>2 DEF subscribe, subscription_ends, vars, signals, server, polling
  <2> QED
    BY <1>1, <2>1 DEF IInv, PiecesCounted, Unlimited, QuietServer, QuietDispatcher,
       SpawnedInOrder, EndsInOrder, AllEnded, NothingSpawned
<1> QED
  BY <1>1, <1>2, InvMain, InvSignals, InvServer, InvPolling, InvJob DEF Next

LEMMA Invariance == Spec => []IInv
<1>1. Init => IInv
  BY InvInit
<1>2. IInv /\ [Next]_vars => IInv'
  BY InvStep
<1> QED
  BY <1>1, <1>2, PTL DEF Spec

-----------------------------------------------------------------------------
(* The theorems *)

\* Type correctness: every part is where the code can be, the updates waiting
\* stay within their bound and no job counts below zero.
THEOREM TypeCorrect == Spec => []TypeOK
<1>1. IInv => TypeOK
  BY DEF IInv
<1> QED
  BY <1>1, Invariance, PTL

\* Only the timeout of the join cuts work off (main.rs: shutdown_tasks): a pool
\* that is closed without it finds every update handled, every request answered
\* and no job in the middle of a pass.
THEOREM OnlyTimeoutCuts == Spec => []OnlyTimeoutCutsOff
<1>1. IInv => OnlyTimeoutCutsOff
  BY DEF IInv, EndsInOrder, OnlyTimeoutCutsOff, AllEnded, NothingSpawned, QuietServer,
     QuietDispatcher
<1> QED
  BY <1>1, Invariance, PTL
=============================================================================
