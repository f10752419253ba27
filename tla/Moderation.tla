----------------------------- MODULE Moderation -----------------------------
(***************************************************************************)
(* ModerationService::apply in one chat: the ledger row, the call of the   *)
(* Bot API and the commit of one transaction, for any number of concurrent *)
(* callers.                                                                *)
(*                                                                         *)
(* The dispatcher of one process handles the updates of a chat one after   *)
(* the other.  apply promises more ("serialise concurrent id-mode actions  *)
(* on the same chat") and is modelled for what it promises.                *)
(*                                                                         *)
(* A caller is one run of apply, a chain of statements between which every *)
(* other caller may move.  What a caller wrote is seen by the others when  *)
(* it commits; what makes them wait before that is modelled as the code    *)
(* gets it from PostgreSQL: the row lock on the chat (id-mode), the unique *)
(* key of the ledger, and the key-share lock on the chat that the foreign  *)
(* key of an inserted ledger row takes.                                    *)
(***************************************************************************)
EXTENDS Naturals, FiniteSets

CONSTANTS
  Callers,    \* runs of apply that may overlap
  Targets,    \* users who may be banned
  Messages,   \* messages that may be deleted, or be the reason of a ban
  NoMessage,  \* message_id: None
  author,     \* message -> the target who wrote it
  Kinds,      \* what callers ask for: {"ban", "unban", "delete"} or fewer
  MaxCalls,   \* bound: runs of apply in one behaviour
  Faults      \* what may go wrong, a subset of FaultKinds

FaultKinds == {"crash",     \* the process dies
               "database",  \* a statement or a commit fails
               "refused",   \* the Bot API refuses: the intent is recorded
               "failed",    \* the Bot API call fails and did nothing
               "unheard"}   \* the Bot API call was heard, its answer is lost

ASSUME ModerationConstantsOK ==
  /\ author \in [Messages -> Targets]
  /\ NoMessage \notin Messages
  /\ Kinds \subseteq {"ban", "unban", "delete"}
  /\ MaxCalls \in Nat
  /\ Faults \subseteq FaultKinds

\* What the callers in the repository ask for: bans by id or for a message,
\* unbans by id, deletions of a message.  Only a ban for a message may be
\* temporary (a dedup hit of the spam pipeline).
Request ==
  {r \in [kind : Kinds, target : Targets, message : Messages \cup {NoMessage},
          temporary : BOOLEAN] :
     /\ r.message # NoMessage => r.target = author[r.message]
     /\ r.kind = "unban" => r.message = NoMessage
     /\ r.kind = "delete" => r.message # NoMessage
     /\ r.temporary => r.kind = "ban" /\ r.message # NoMessage}

Answers == {"none", "Applied", "AlreadyApplied", "Err"}

Counters == {"users_banned", "messages_deleted"}

VARIABLES
  ledger,    \* the committed rows of moderation_actions
  banned,    \* Telegram: "no", "until" or "forever" for each target
  standing,  \* Telegram: the messages that are not deleted
  stats,     \* daily_stats
  answered,  \* Telegram: the transactions whose call it did or refused
  clock,     \* transactions begun so far: the time of the last one
  call       \* each caller: where it is, its request and when it began

vars == <<ledger, banned, standing, stats, answered, clock, call>>

telegram == <<banned, standing, answered>>

Places == {"idle", "lock", "check", "insert", "key_share", "dispatch",
           "commit", "bump"}

\* created_at is NOW(), the start of the transaction.
LedgerRow == [kind : {"ban", "unban", "delete"}, target : Targets,
              message : Messages \cup {NoMessage}, at : 1 .. MaxCalls]

NoCall == [pc |-> "idle", answer |-> "none", at |-> 0]

TypeOK ==
  /\ ledger \subseteq LedgerRow
  /\ banned \in [Targets -> {"no", "until", "forever"}]
  /\ standing \subseteq Messages
  /\ stats \in [Counters -> 0 .. MaxCalls]
  /\ clock \in 0 .. MaxCalls
  /\ answered \subseteq 1 .. clock
  /\ \A c \in Callers :
       /\ call[c].pc \in Places /\ call[c].answer \in Answers
       /\ call[c].pc # "idle" => /\ call[c].request \in Request
                                 /\ call[c].at \in 1 .. clock
                                 /\ call[c].answer = "none"

Init ==
  /\ ledger = {}
  /\ banned = [t \in Targets |-> "no"]
  /\ standing = Messages
  /\ stats = [k \in Counters |-> 0]
  /\ answered = {}
  /\ clock = 0
  /\ call = [c \in Callers |-> NoCall]

-----------------------------------------------------------------------------
(* What PostgreSQL keeps apart *)

\* Mutant: only bans take the lock.
NeedsLock_BansOnly(r) == r.message = NoMessage /\ r.kind = "ban"

NeedsLock(r) == r.message = NoMessage /\ r.kind \in {"ban", "unban"}

\* The row c has inserted and not committed yet.
RowOf(c) == [kind |-> call[c].request.kind, target |-> call[c].request.target,
             message |-> call[c].request.message, at |-> call[c].at]

HoldsRow(c) == call[c].pc \in {"key_share", "dispatch", "commit"}

\* Mutant: the counters are bumped before the transaction ends.
HoldsLock_UntilBump(c) ==
  /\ call[c].pc \in {"check", "insert", "key_share", "dispatch", "commit", "bump"}
  /\ NeedsLock(call[c].request)

\* FOR UPDATE on the chat: from the lock to the end of the transaction.
HoldsLock(c) ==
  /\ call[c].pc \in {"check", "insert", "key_share", "dispatch", "commit"}
  /\ NeedsLock(call[c].request)

\* FOR KEY SHARE on the chat, for the foreign key of the inserted row.
HoldsKeyShare(c) == call[c].pc \in {"dispatch", "commit"}

\* UNIQUE (chat_id, target_user_id, action, message_id): NULLs differ.
SameKey(row, r) ==
  /\ r.message # NoMessage
  /\ row.kind = r.kind /\ row.target = r.target /\ row.message = r.message

Terminal(t) == {row \in ledger : row.target = t /\ row.kind \in {"ban", "unban"}}

\* ORDER BY created_at DESC LIMIT 1
IsLast(row) == \A other \in Terminal(row.target) : other.at <= row.at

\* The behaviour check.
InEffect(r) ==
  \/ Terminal(r.target) = {} /\ r.kind = "unban"
  \/ \E row \in Terminal(r.target) : IsLast(row) /\ row.kind = r.kind

-----------------------------------------------------------------------------
(* The steps of apply *)

Goto(c, pc) == call' = [call EXCEPT ![c].pc = pc]

\* The caller has its answer.  A transaction that is still open ends with it:
\* its locks are released, and its row is gone unless commit kept it.
Return(c, answer) == call' = [call EXCEPT ![c] = [NoCall EXCEPT !.answer = answer]]

\* Mutant: the time is taken from the transaction before.
begin_ClockBehind(c, r) ==
  /\ call[c].pc = "idle" /\ clock < MaxCalls
  /\ clock' = clock + 1
  /\ call' = [call EXCEPT ![c] =
       [pc |-> IF NeedsLock(r) THEN "lock" ELSE "insert", answer |-> "none",
        at |-> clock, request |-> r]]
  /\ UNCHANGED <<ledger, stats, telegram>>

\* BEGIN.
begin(c, r) ==
  /\ call[c].pc = "idle" /\ clock < MaxCalls
  /\ clock' = clock + 1
  /\ call' = [call EXCEPT ![c] =
       [pc |-> IF NeedsLock(r) THEN "lock" ELSE "insert", answer |-> "none",
        at |-> clock + 1, request |-> r]]
  /\ UNCHANGED <<ledger, stats, telegram>>

lock(c) ==
  /\ call[c].pc = "lock"
  /\ \A other \in Callers \ {c} : ~HoldsLock(other) /\ ~HoldsKeyShare(other)
  /\ Goto(c, "check")
  /\ UNCHANGED <<ledger, stats, clock, telegram>>

check(c) ==
  /\ call[c].pc = "check"
  /\ IF InEffect(call[c].request) THEN Return(c, "AlreadyApplied")
                                  ELSE Goto(c, "insert")
  /\ UNCHANGED <<ledger, stats, clock, telegram>>

\* Mutant: the insert does not wait for an equal row to be committed.
insert_DoesNotWait(c) ==
  /\ call[c].pc = "insert"
  /\ IF \E other \in Callers \ {c} :
          HoldsRow(other) /\ SameKey(RowOf(other), call[c].request)
     THEN Return(c, "AlreadyApplied")
     ELSE Goto(c, "key_share")
  /\ UNCHANGED <<ledger, stats, clock, telegram>>

\* Mutant: the counters are bumped for an equal row as well.
insert_CountsAgain(c) ==
  /\ call[c].pc = "insert"
  /\ \A other \in Callers \ {c} :
       ~(HoldsRow(other) /\ SameKey(RowOf(other), call[c].request))
  /\ IF \E row \in ledger : SameKey(row, call[c].request)
     THEN Goto(c, "bump")
     ELSE Goto(c, "key_share")
  /\ UNCHANGED <<ledger, stats, clock, telegram>>

\* ON CONFLICT DO NOTHING: an equal row that is not committed yet is waited for.
insert(c) ==
  /\ call[c].pc = "insert"
  /\ \A other \in Callers \ {c} :
       ~(HoldsRow(other) /\ SameKey(RowOf(other), call[c].request))
  /\ IF \E row \in ledger : SameKey(row, call[c].request)
     THEN Return(c, "AlreadyApplied")
     ELSE Goto(c, "key_share")
  /\ UNCHANGED <<ledger, stats, clock, telegram>>

\* The foreign key of the row just inserted is checked.
key_share(c) ==
  /\ call[c].pc = "key_share"
  /\ \A other \in Callers \ {c} : ~HoldsLock(other)
  /\ Goto(c, "dispatch")
  /\ UNCHANGED <<ledger, stats, clock, telegram>>

\* What Telegram does when it is asked.
Effect(r) ==
  \/ /\ r.kind = "ban"
     /\ banned' = [banned EXCEPT ![r.target] =
          IF r.temporary THEN "until" ELSE "forever"]
     /\ UNCHANGED standing
  \/ /\ r.kind = "unban"
     /\ banned' = [banned EXCEPT ![r.target] = "no"]
     /\ UNCHANGED standing
  \/ /\ r.kind = "delete"
     /\ standing' = standing \ {r.message}
     /\ UNCHANGED banned

Does(c) == Effect(call[c].request) /\ answered' = answered \cup {call[c].at}

Refuses(c) == answered' = answered \cup {call[c].at} /\ UNCHANGED <<banned, standing>>

\* Mutant: a failed call keeps the row, as a refused one does.
dispatch_KeepsRow(c) ==
  /\ call[c].pc = "dispatch"
  /\ Goto(c, "commit")
  /\ Does(c) \/ Refuses(c) \/ ("failed" \in Faults /\ UNCHANGED telegram)
  /\ UNCHANGED <<ledger, stats, clock>>

\* The call of the Bot API, with the transaction open.
dispatch(c) ==
  /\ call[c].pc = "dispatch"
  /\ \/ Does(c) /\ Goto(c, "commit")
     \/ "refused" \in Faults /\ Refuses(c) /\ Goto(c, "commit")
     \/ "failed" \in Faults /\ UNCHANGED telegram /\ Return(c, "Err")
     \/ "unheard" \in Faults /\ Does(c) /\ Return(c, "Err")
  /\ UNCHANGED <<ledger, stats, clock>>

commit(c) ==
  /\ call[c].pc = "commit"
  /\ ledger' = ledger \cup {RowOf(c)}
  /\ Goto(c, "bump")
  /\ UNCHANGED <<stats, clock, telegram>>

Bumped(r) ==
  CASE r.kind = "ban" -> {"users_banned"}
    [] r.kind = "delete" -> {"messages_deleted"}
    [] r.kind = "unban" -> {}

\* bump_daily_stats, in a transaction of its own: a failure is only logged.
\* The first row of a metric has a foreign key to check, too.
bump(c) ==
  /\ call[c].pc = "bump"
  /\ (\E k \in Bumped(call[c].request) : stats[k] = 0)
       => \A other \in Callers : ~HoldsLock(other)
  /\ \/ stats' = [k \in Counters |->
          IF k \in Bumped(call[c].request) THEN stats[k] + 1 ELSE stats[k]]
     \/ "database" \in Faults /\ UNCHANGED stats
  /\ Return(c, "Applied")
  /\ UNCHANGED <<ledger, clock, telegram>>

\* A statement or the commit fails: the transaction is rolled back, unless only
\* the answer to the commit was lost.
database_fails(c) ==
  /\ "database" \in Faults
  /\ \/ /\ call[c].pc \in {"lock", "check", "insert", "key_share", "commit"}
        /\ UNCHANGED ledger
     \/ /\ call[c].pc = "commit"
        /\ ledger' = ledger \cup {RowOf(c)}
  /\ Return(c, "Err")
  /\ UNCHANGED <<stats, clock, telegram>>

apply(c) ==
  \/ lock(c) \/ check(c) \/ insert(c) \/ key_share(c) \/ dispatch(c)
  \/ commit(c) \/ bump(c) \/ database_fails(c)

-----------------------------------------------------------------------------
(* The environment *)

\* Telegram lifts a temporary ban by itself.
ban_lapses(t) ==
  /\ banned[t] = "until"
  /\ banned' = [banned EXCEPT ![t] = "no"]
  /\ UNCHANGED <<ledger, standing, answered, stats, clock, call>>

Crash ==
  /\ "crash" \in Faults
  /\ call' = [c \in Callers |-> NoCall]
  /\ UNCHANGED <<ledger, stats, clock, telegram>>

Next ==
  \/ \E c \in Callers, r \in Request : begin(c, r)
  \/ \E c \in Callers : apply(c)
  \/ \E t \in Targets : ban_lapses(t)
  \/ Crash

Spec == Init /\ [][Next]_vars

\* A run of apply goes on: statements end, and so do calls of the Bot API.
Fairness == \A c \in Callers : WF_vars(apply(c))

FairSpec == Spec /\ Fairness

-----------------------------------------------------------------------------
(***************************************************************************)
(* Properties                                                              *)
(***************************************************************************)

\* "Already applied" is only said of what is in the ledger for good: nobody is
\* told so because of a row whose transaction is still open and may be rolled
\* back ("cannot get a misleading AlreadyApplied").
AlreadyAppliedIsBacked ==
  [][\A c \in Callers :
       call[c].pc # "idle" /\ call'[c].answer = "AlreadyApplied" =>
         LET r == call[c].request IN
         \/ \E row \in ledger :
              /\ row.kind = r.kind /\ row.target = r.target
              /\ r.message # NoMessage => row.message = r.message
         \/ r.kind = "unban" /\ Terminal(r.target) = {}]_vars

\* No row without an answer of Telegram: a call that failed takes its row with
\* it, so that a retry is not mistaken for a repetition.
RowsWereAnswered == \A row \in ledger : row.at \in answered

\* Nothing is asked of Telegram twice at a time, and nothing message-scoped
\* again once it is in the ledger: the lock does it for id-mode, where NULLs
\* defeat the unique key, and the key for the rest.
CallsAreSerial ==
  \A c \in Callers : call[c].pc \in {"dispatch", "commit"} =>
    /\ ~\E row \in ledger : SameKey(row, call[c].request)
    /\ \A other \in Callers \ {c} :
         call[other].pc \in {"dispatch", "commit"} =>
           /\ ~SameKey(RowOf(other), call[c].request)
           /\ ~(call[c].request.message = NoMessage
                /\ call[other].request.message = NoMessage)

RowsOf(k) == {row \in ledger : k \in Bumped(row)}

\* The counters of the daily report never run ahead of the ledger, retries and
\* failures included: what is counted was recorded, and once.
StatsFollowLedger ==
  \A k \in Counters :
    stats[k] + Cardinality({c \in Callers : /\ call[c].pc = "bump"
                                            /\ k \in Bumped(call[c].request)})
      <= Cardinality(RowsOf(k))

\* Row lock, unique key and foreign key never make callers wait in a circle:
\* a run of apply comes to its end.
EveryCallEnds == \A c \in Callers : call[c].pc # "idle" ~> call[c].pc = "idle"
=============================================================================
