----------------------------- MODULE Lifecycle ------------------------------
(***************************************************************************)
(* The process: main starts the parts one after the other, waits for the   *)
(* token to be cancelled, joins every task with one timeout, and closes    *)
(* the pool.  The token is cancelled by the signal listener; the bridge    *)
(* passes it on to the dispatcher of teloxide, which also has a handler of *)
(* its own for SIGINT.                                                     *)
(*                                                                         *)
(* What the parts do is modelled elsewhere; here a piece of work is        *)
(* computing or talking to Telegram ("busy") and then may hold a           *)
(* connection of the pool ("holding").  The dispatcher, its workers and    *)
(* axum are libraries, modelled from how the code uses them.               *)
(***************************************************************************)
EXTENDS Naturals

CONSTANTS
  Units,       \* job -> pieces of one pass, 0 when there is no limit to them
  MaxWaiting,  \* bound: updates waiting for the worker
  Faults       \* what may go wrong, a subset of FaultKinds

FaultKinds == {"startup",   \* a step of main fails with `?`
               "telegram",  \* the dispatcher cannot begin
               "pubsub",    \* the subscription fails or its stream ends
               "panic"}     \* a job panics

Jobs == DOMAIN Units

ASSUME LifecycleConstantsOK ==
  /\ Jobs \subseteq {"captcha_expiry", "daily_report", "spam_cleanup"}
  /\ Units \in [Jobs -> Nat]
  /\ MaxWaiting \in Nat
  /\ Faults \subseteq FaultKinds

VARIABLES
  main,         \* where main is
  listener,     \* the signal listener
  cancelled,    \* the CancellationToken
  early,        \* history: it was cancelled before the dispatcher had begun
  timed_out,    \* history: main gave up waiting for the tasks
  http, request,
  bridge, interrupted,  \* the bridge, and a SIGINT teloxide has yet to act on
  dispatcher, inbox, handler,
  job,          \* each job: where it is, the pieces left of its pass
  pubsub

signals == <<listener, cancelled, early>>
server == <<http, request>>
stopper == <<bridge, interrupted>>
polling == <<dispatcher, inbox, handler>>
vars == <<main, signals, timed_out, server, stopper, polling, job, pubsub>>

MainSteps == {"postgres", "redis", "seed", "http", "commands",
              "wait", "drain", "close", "exited"}
JobStates == {"none", "select", "pass", "holding", "done"}

TypeOK ==
  /\ main \in MainSteps
  /\ listener \in {"spawned", "waiting", "signalled", "ended", "killed"}
  /\ cancelled \in BOOLEAN /\ early \in BOOLEAN /\ timed_out \in BOOLEAN
  /\ http \in {"none", "serving", "draining", "done"}
  /\ request \in {"none", "busy", "holding"}
  /\ bridge \in {"none", "waiting", "done"} /\ interrupted \in BOOLEAN
  /\ dispatcher \in {"none", "idle", "running", "stopping", "draining", "done"}
  /\ inbox \in 0 .. MaxWaiting
  /\ handler \in {"idle", "busy", "holding"}
  /\ job \in [Jobs -> [at : JobStates, left : Nat]]
  /\ pubsub \in {"none", "connecting", "reading", "done"}

Init ==
  /\ main = "postgres" /\ listener = "spawned"
  /\ cancelled = FALSE /\ early = FALSE /\ timed_out = FALSE
  /\ http = "none" /\ request = "none"
  /\ bridge = "none" /\ interrupted = FALSE
  /\ dispatcher = "none" /\ inbox = 0 /\ handler = "idle"
  /\ job = [j \in Jobs |-> [at |-> "none", left |-> 0]]
  /\ pubsub = "none"

Alive == main # "exited"

\* db.close has begun: nobody gets a connection any more.
Closing == main = "close"
-----------------------------------------------------------------------------
(***************************************************************************)
(* main                                                                    *)
(***************************************************************************)
connect_postgres ==
  /\ main = "postgres" /\ main' = "redis"
  /\ UNCHANGED <<signals, timed_out, server, stopper, polling, job, pubsub>>

connect_redis ==
  /\ main = "redis" /\ main' = "seed"
  /\ UNCHANGED <<signals, timed_out, server, stopper, polling, job, pubsub>>

\* ensure_watched_chats, and with no await in between, subscribe.
seed_and_subscribe ==
  /\ main = "seed" /\ main' = "http"
  /\ pubsub' = "connecting"
  /\ UNCHANGED <<signals, timed_out, server, stopper, polling, job>>

spawn_http ==
  /\ main = "http" /\ main' = "commands"
  /\ http' = "serving"
  /\ UNCHANGED <<signals, timed_out, request, stopper, polling, job, pubsub>>

startup_fails ==
  /\ "startup" \in Faults
  /\ main \in {"postgres", "redis", "seed", "http"} /\ main' = "exited"
  /\ UNCHANGED <<signals, timed_out, server, stopper, polling, job, pubsub>>

\* set_my_commands, whatever comes of it; then everything is spawned at once.
\* The bridge does not wait for dispatch to begin.
spawn_all ==
  /\ main = "commands" /\ main' = "wait"
  /\ dispatcher' = "idle" /\ bridge' = "waiting"
  /\ job' = [j \in Jobs |-> [at |-> "select", left |-> 0]]
  /\ UNCHANGED <<signals, timed_out, server, interrupted, inbox,
                 handler, pubsub>>

main_is_cancelled ==
  /\ main = "wait" /\ cancelled /\ main' = "drain"
  /\ UNCHANGED <<signals, timed_out, server, stopper, polling, job, pubsub>>

\* Mutant: the handles of the jobs are dropped.
Joined_NoJobs == http = "done" /\ dispatcher = "done" /\ pubsub = "done"

Joined ==
  /\ http = "done" /\ dispatcher = "done" /\ pubsub = "done"
  /\ \A j \in Jobs : job[j].at = "done"

join ==
  /\ main = "drain" /\ Joined /\ main' = "close"
  /\ UNCHANGED <<signals, timed_out, server, stopper, polling, job, pubsub>>

\* Mutant: only the first of the handles is awaited under the timeout.
join_times_out_HttpOnly ==
  /\ main = "drain" /\ http # "done"
  /\ main' = "close" /\ timed_out' = TRUE
  /\ UNCHANGED <<signals, server, stopper, polling, job, pubsub>>

\* SHUTDOWN_TIMEOUT: main gives up, and the tasks it leaves behind go on.
join_times_out ==
  /\ main = "drain" /\ ~Joined
  /\ main' = "close" /\ timed_out' = TRUE
  /\ UNCHANGED <<signals, server, stopper, polling, job, pubsub>>

Held == request = "holding" \/ handler = "holding" \/ \E j \in Jobs : job[j].at = "holding"

\* The pool waits for the connections somebody holds, without a timeout.
close ==
  /\ main = "close" /\ ~Held /\ main' = "exited"
  /\ UNCHANGED <<signals, timed_out, server, stopper, polling, job, pubsub>>
-----------------------------------------------------------------------------
(***************************************************************************)
(* Signals                                                                 *)
(***************************************************************************)
install ==
  /\ Alive /\ listener = "spawned" /\ listener' = "waiting"
  /\ UNCHANGED <<main, cancelled, early, timed_out, server, stopper, polling, job, pubsub>>

\* SIGTERM before the handler is installed kills the process; after the first
\* signal nobody listens for it any more.
sigterm ==
  /\ Alive
  /\ \/ /\ listener = "spawned" /\ listener' = "killed" /\ main' = "exited"
     \/ /\ listener = "waiting" /\ listener' = "signalled" /\ UNCHANGED main
  /\ UNCHANGED <<cancelled, early, timed_out, server, stopper, polling, job, pubsub>>

\* SIGINT is for the listener and, once build_dispatcher has run, for teloxide,
\* whose task may not be listening at that moment.
sigint ==
  /\ Alive
  /\ \/ /\ listener = "spawned" /\ dispatcher = "none"
        /\ listener' = "killed" /\ main' = "exited" /\ UNCHANGED interrupted
     \/ /\ listener # "spawned" \/ dispatcher # "none"
        /\ listener' = IF listener = "waiting" THEN "signalled" ELSE listener
        /\ interrupted' \in {interrupted, dispatcher # "none"}
        /\ UNCHANGED main
  /\ UNCHANGED <<cancelled, early, timed_out, server, bridge, polling, job, pubsub>>

cancel ==
  /\ Alive /\ listener = "signalled" /\ listener' = "ended"
  /\ cancelled' = TRUE
  /\ early' = (dispatcher \in {"none", "idle"})
  /\ UNCHANGED <<main, timed_out, server, stopper, polling, job, pubsub>>
-----------------------------------------------------------------------------
(***************************************************************************)
(* HTTP                                                                    *)
(***************************************************************************)
accept ==
  /\ Alive /\ http = "serving" /\ request = "none" /\ request' = "busy"
  /\ UNCHANGED <<main, signals, timed_out, http, stopper, polling, job, pubsub>>

\* One step of a piece of work: it takes a connection, fails to get one, or ends.
Advance(work) ==
  IF work = "busy" /\ ~Closing THEN {"holding", "idle"} ELSE {"idle"}

\* health_check acquires a connection.
respond ==
  /\ Alive /\ request # "none"
  /\ \E w \in Advance(request) : request' = IF w = "idle" THEN "none" ELSE w
  /\ UNCHANGED <<main, signals, timed_out, http, stopper, polling, job, pubsub>>

\* Graceful shutdown: no new requests, and the ones under way are answered.
http_stops ==
  /\ Alive /\ http = "serving" /\ cancelled /\ http' = "draining"
  /\ UNCHANGED <<main, signals, timed_out, request, stopper, polling, job, pubsub>>

http_ends ==
  /\ Alive /\ http = "draining" /\ request = "none" /\ http' = "done"
  /\ UNCHANGED <<main, signals, timed_out, request, stopper, polling, job, pubsub>>
-----------------------------------------------------------------------------
(***************************************************************************)
(* The dispatcher                                                          *)
(***************************************************************************)
\* dispatch() asks Telegram who the bot is before it is running.
dispatch ==
  /\ Alive /\ dispatcher = "idle"
  /\ \/ dispatcher' = "running"
     \/ "telegram" \in Faults /\ dispatcher' = "done"
  /\ UNCHANGED <<main, signals, timed_out, server, stopper, inbox,
                 handler, job, pubsub>>

\* ShutdownToken::shutdown: a dispatcher that is not running refuses.
Asked == IF dispatcher = "running" THEN "stopping" ELSE dispatcher

\* The bridge asks once; a refusal is only logged.
shutdown ==
  /\ Alive /\ bridge = "waiting" /\ cancelled /\ bridge' = "done"
  /\ dispatcher' = Asked
  /\ UNCHANGED <<main, signals, timed_out, server, interrupted, inbox,
                 handler, job, pubsub>>

\* enable_ctrlc_handler: the same request, for every SIGINT.
ctrlc ==
  /\ Alive /\ interrupted /\ interrupted' = FALSE
  /\ dispatcher' = Asked
  /\ UNCHANGED <<main, signals, timed_out, server, bridge, inbox,
                 handler, job, pubsub>>

\* The getUpdates under way when the dispatcher is asked to stop still counts.
get_updates ==
  /\ Alive /\ dispatcher \in {"running", "stopping"} /\ inbox < MaxWaiting
  /\ inbox' = inbox + 1
  /\ UNCHANGED <<main, signals, timed_out, server, stopper, dispatcher, handler,
                 job, pubsub>>

stream_ends ==
  /\ Alive /\ dispatcher = "stopping" /\ dispatcher' = "draining"
  /\ UNCHANGED <<main, signals, timed_out, server, stopper, inbox,
                 handler, job, pubsub>>

handle ==
  /\ Alive /\ handler = "idle" /\ inbox > 0
  /\ handler' = "busy" /\ inbox' = inbox - 1
  /\ UNCHANGED <<main, signals, timed_out, server, stopper, dispatcher,
                 job, pubsub>>

handler_step ==
  /\ Alive /\ handler # "idle"
  /\ handler' \in Advance(handler)
  /\ UNCHANGED <<main, signals, timed_out, server, stopper, dispatcher, inbox,
                 job, pubsub>>

\* The workers handle what they have been given before dispatch() returns.
dispatch_ends ==
  /\ Alive /\ dispatcher = "draining" /\ inbox = 0 /\ handler = "idle"
  /\ dispatcher' = "done"
  /\ UNCHANGED <<main, signals, timed_out, server, stopper, inbox,
                 handler, job, pubsub>>
-----------------------------------------------------------------------------
(***************************************************************************)
(* Jobs                                                                    *)
(***************************************************************************)
JobGoes(j, to, left) ==
  /\ job' = [job EXCEPT ![j] = [at |-> to, left |-> left]]
  /\ UNCHANGED <<main, signals, timed_out, server, stopper, polling, pubsub>>

\* The biased select of run: the token comes before the tick.
tick(j) ==
  /\ Alive /\ job[j].at = "select" /\ ~cancelled
  /\ JobGoes(j, "pass", Units[j])

job_ends(j) ==
  /\ Alive /\ job[j].at = "select" /\ cancelled
  /\ JobGoes(j, "done", 0)

\* Only captcha_expiry looks at the token between two pieces of a pass, and
\* only it may find work for ever.
Unlimited(j) == Units[j] = 0
StopsMidPass_Never(j) == FALSE   \* mutant: is_cancelled is not asked
StopsMidPass(j) == j = "captcha_expiry" /\ cancelled

\* Mutant: one piece too many.
piece_begins_OneMore(j) ==
  /\ Alive /\ job[j].at = "pass" /\ ~StopsMidPass(j)
  /\ ~Closing /\ JobGoes(j, "holding", job[j].left)

\* Is there a next piece?  Then it begins, or fails for want of a connection.
piece_begins(j) ==
  /\ Alive /\ job[j].at = "pass" /\ ~StopsMidPass(j)
  /\ Unlimited(j) \/ job[j].left > 0
  /\ ~Closing /\ JobGoes(j, "holding", job[j].left)

pass_ends(j) ==
  /\ Alive /\ job[j].at = "pass"
  /\ StopsMidPass(j) \/ Unlimited(j) \/ job[j].left = 0 \/ Closing
  /\ JobGoes(j, "select", 0)

piece_ends(j) ==
  /\ Alive /\ job[j].at = "holding"
  /\ JobGoes(j, "pass", IF Unlimited(j) THEN 0 ELSE job[j].left - 1)

\* A panic unwinds the task; main learns of it when it joins.
job_panics(j) ==
  /\ Alive /\ "panic" \in Faults /\ job[j].at \in {"pass", "holding"}
  /\ JobGoes(j, "done", 0)

Job(j) == job_ends(j) \/ piece_begins(j) \/ pass_ends(j) \/ piece_ends(j)
-----------------------------------------------------------------------------
(***************************************************************************)
(* The chat_config subscription                                            *)
(***************************************************************************)
\* The token is looked at only once the subscription stands.
subscribe ==
  /\ Alive /\ pubsub = "connecting"
  /\ \/ pubsub' = "reading"
     \/ "pubsub" \in Faults /\ pubsub' = "done"
  /\ UNCHANGED <<main, signals, timed_out, server, stopper, polling, job>>

subscription_ends ==
  /\ Alive /\ pubsub = "reading"
  /\ cancelled \/ "pubsub" \in Faults
  /\ pubsub' = "done"
  /\ UNCHANGED <<main, signals, timed_out, server, stopper, polling, job>>
-----------------------------------------------------------------------------
Main == connect_postgres \/ connect_redis \/ seed_and_subscribe \/ spawn_http
        \/ spawn_all \/ main_is_cancelled \/ join \/ close

Next ==
  \/ Main \/ startup_fails \/ join_times_out
  \/ install \/ sigterm \/ sigint \/ cancel
  \/ accept \/ respond \/ http_stops \/ http_ends
  \/ dispatch \/ shutdown \/ ctrlc \/ get_updates \/ stream_ends
  \/ handle \/ handler_step \/ dispatch_ends
  \/ \E j \in Jobs : tick(j) \/ Job(j) \/ job_panics(j)
  \/ subscribe \/ subscription_ends

\* Every task that can take a step is scheduled in the end, and every call it
\* makes comes back: teloxide and reqwest bound theirs, PostgreSQL bounds a
\* statement.  Signals, requests, updates, ticks, faults and the timeout of the
\* join are not promised.
Fairness ==
  /\ WF_vars(Main) /\ WF_vars(cancel)
  /\ WF_vars(respond) /\ WF_vars(http_stops) /\ WF_vars(http_ends)
  /\ WF_vars(dispatch) /\ WF_vars(shutdown) /\ WF_vars(stream_ends)
  /\ WF_vars(handle) /\ WF_vars(handler_step) /\ WF_vars(dispatch_ends)
  /\ \A j \in Jobs : WF_vars(Job(j))
  /\ WF_vars(subscribe) /\ WF_vars(cancelled /\ subscription_ends)

Spec == Init /\ [][Next]_vars
FairSpec == Spec /\ Fairness
-----------------------------------------------------------------------------
(***************************************************************************)
(* Properties                                                              *)
(***************************************************************************)

\* Only the timeout cuts work off: when main closes the pool without having
\* given up, no update that was taken from Telegram is unhandled, no request is
\* unanswered and no job is in the middle of a pass.
OnlyTimeoutCutsOff ==
  main \in {"close", "exited"} /\ ~timed_out /\ listener # "killed" =>
    /\ inbox = 0 /\ handler = "idle" /\ request = "none"
    /\ \A j \in Jobs : job[j].at \notin {"pass", "holding"}

\* A process asked to stop once it polls comes to its end without the help of
\* the timeout, however many updates, requests and expired challenges there are.
Drains == (cancelled /\ ~early) ~> ~Alive

\* With the timeout it comes to its end whenever it was asked: closing the pool
\* never waits for ever for a task that was left behind.
ShutdownEnds == WF_vars(join_times_out) => (cancelled ~> ~Alive)
=============================================================================
