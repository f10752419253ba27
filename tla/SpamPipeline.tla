---------------------------- MODULE SpamPipeline ----------------------------
(***************************************************************************)
(* The spam pipeline of several watched chats: SpamService::inspect with   *)
(* its fingerprints (spam_messages, spam_messages_per_chat) and its CAS    *)
(* client, the verdict applied through the moderation ledger, and the      *)
(* spam_cleanup job.                                                       *)
(*                                                                         *)
(* Each chat has one worker, as its updates are handled one after the      *)
(* other; fingerprints and CAS verdicts are shared by all chats.  A worker *)
(* moves from one awaited call to the next.  A message may be handled      *)
(* again: Telegram repeats an update the bot did not confirm.              *)
(*                                                                         *)
(* Messages are texts of members who passed the captcha; two messages are  *)
(* copies when they have the same normal form, for which its hash stands.  *)
(***************************************************************************)
EXTENDS Integers, FiniteSets, FiniteSetsExt, SpamText

CONSTANTS
  Chats, Users, Messages,
  chat_of, writer, body,  \* where, by whom and what was written
  NoMessage, NoRow,
  PHRASES,
  spam_weights, spam_threshold,  \* of each chat
  MIN_NORMALIZED_LEN,
  CasChats,    \* the chats with cas_enabled
  Retention,   \* units of time a fingerprint is kept unseen
  MaxHandled,  \* bound: messages handled in one behaviour, repeated ones too
  Faults       \* what may go wrong, a subset of FaultKinds

FaultKinds == {"crash",     \* the process dies
               "database",  \* a statement fails
               "redis",     \* a Redis command fails
               "cas",       \* CAS does not answer, or not as expected
               "bot",       \* ModerationService::apply fails
               "repeat"}    \* a message is delivered again

ASSUME PipelineConstantsOK ==
  /\ IsFiniteSet(Chats)
  /\ chat_of \in [Messages -> Chats]
  /\ writer \in [Messages -> Users]
  /\ body \in [Messages -> Seq(Characters)]
  /\ NoMessage \notin Messages /\ NoRow \notin [hits : Nat, age : Nat]
  /\ PHRASES \subseteq Seq(Characters)
  /\ DOMAIN spam_weights = Chats /\ spam_threshold \in [Chats -> Int]
  /\ CasChats \subseteq Chats /\ MIN_NORMALIZED_LEN \in Nat
  /\ Retention \in Nat /\ MaxHandled \in Nat
  /\ Faults \subseteq FaultKinds

hash_of == [m \in Messages |-> normalize(body[m])]
Hashes == {hash_of[m] : m \in Messages}

\* The phrases of the text reach the threshold of the chat.
IsSpam(c, h) ==
  /\ matches(h, PHRASES) # {}
  /\ score_of(h, PHRASES, spam_weights[c]) >= spam_threshold[c]

spammy == {ch \in Chats \X Hashes : IsSpam(ch[1], ch[2])}

VARIABLES
  spam,     \* spam_messages: hits and age of each fingerprint, or NoRow
  perChat,  \* spam_messages_per_chat: hits, 0 for no row
  ledger,   \* the verdicts applied to a message
  logged,   \* allowed_messages
  moka,     \* the CAS verdicts held in memory
  redis,    \* the CAS verdicts held in Redis
  answers,  \* history: what CAS ever said of each user
  seen,     \* history: the messages handled so far
  handled,  \* how often a message was handled
  worker    \* each chat: the message handled, and the step to do next

tables == <<spam, perChat, ledger, logged>>
caches == <<moka, redis, answers>>
vars == <<tables, caches, seen, handled, worker>>

CasVerdicts == {"Clean", "Flagged"}

Steps == {"idle", "lookup", "bump", "bump_chat", "moka", "redis", "http",
          "write_redis", "score", "record", "apply", "log"}

IdleWorker == [step |-> "idle", message |-> NoMessage, verdict |-> "Allow"]

TypeOK ==
  /\ spam \in [Hashes -> {NoRow} \cup
                 [hits : 1 .. MaxHandled, age : 0 .. Retention + 1]]
  /\ perChat \in [Chats \X Hashes -> 0 .. MaxHandled]
  /\ ledger \subseteq {"ban", "delete"} \X Messages
  /\ logged \subseteq Messages
  /\ moka \in [Users -> {"none"} \cup CasVerdicts]
  /\ redis \in [Users -> {"none"} \cup CasVerdicts]
  /\ answers \in [Users -> SUBSET CasVerdicts]
  /\ seen \subseteq Messages
  /\ handled \in 0 .. MaxHandled
  /\ worker \in [Chats -> [step : Steps, message : Messages \cup {NoMessage},
                           verdict : {"Allow", "Clean", "Flagged", "ban", "delete"}]]

Init ==
  /\ spam = [h \in Hashes |-> NoRow]
  /\ perChat = [ch \in Chats \X Hashes |-> 0]
  /\ ledger = {}
  /\ logged = {}
  /\ moka = [u \in Users |-> "none"]
  /\ redis = [u \in Users |-> "none"]
  /\ answers = [u \in Users |-> {}]
  /\ seen = {}
  /\ handled = 0
  /\ worker = [c \in Chats |-> IdleWorker]

-----------------------------------------------------------------------------
(* The worker of a chat *)

At(c, step) == worker[c].step = step
MessageOf(c) == worker[c].message
Hash(c) == hash_of[MessageOf(c)]
User(c) == writer[MessageOf(c)]

Goto(c, step) == worker' = [worker EXCEPT ![c].step = step]

Decide(c, step, verdict) ==
  worker' = [worker EXCEPT ![c].step = step, ![c].verdict = verdict]

Finish(c) == worker' = [worker EXCEPT ![c] = IdleWorker]

\* A message arrives.  inspect allows a short one, and all of a chat that has
\* spam_enabled off, without a look.
receive(c, m) ==
  /\ At(c, "idle") /\ chat_of[m] = c
  /\ handled < MaxHandled
  /\ m \in seen => "repeat" \in Faults
  /\ seen' = seen \cup {m} /\ handled' = handled + 1
  /\ \E step \in {"lookup", "log"} :
       /\ step = "lookup" => Len(hash_of[m]) >= MIN_NORMALIZED_LEN
       /\ worker' = [worker EXCEPT ![c] = [IdleWorker EXCEPT !.step = step, !.message = m]]
  /\ UNCHANGED <<tables, caches>>

lookup(c) ==
  /\ At(c, "lookup")
  /\ IF spam[Hash(c)] # NoRow
     THEN Goto(c, "bump")
     ELSE Goto(c, IF c \in CasChats THEN "moka" ELSE "score")
  /\ UNCHANGED <<tables, caches, seen, handled>>

\* One more hit of a fingerprint that is there; it was seen just now.
Hit(h) == [spam EXCEPT ![h] = [hits |-> @.hits + 1, age |-> 0]]

HitIn(c, h) == [perChat EXCEPT ![<<c, h>>] = @ + 1]

\* Mutant: the bump does not touch the row of its chat.
bump_GlobalOnly(c) ==
  /\ At(c, "bump")
  /\ IF spam[Hash(c)] # NoRow
     THEN spam' = Hit(Hash(c)) /\ Decide(c, "apply", "ban") /\ UNCHANGED perChat
     ELSE Goto(c, "bump_chat") /\ UNCHANGED <<spam, perChat>>
  /\ UNCHANGED <<ledger, logged, caches, seen, handled>>

\* UPDATE spam_messages.  When it finds the row it holds it until the commit,
\* so that the second statement is part of the same step.  When the row was
\* pruned meanwhile it changes nothing and holds nothing.
bump(c) ==
  /\ At(c, "bump")
  /\ IF spam[Hash(c)] # NoRow
     THEN /\ spam' = Hit(Hash(c)) /\ perChat' = HitIn(c, Hash(c))
          /\ Decide(c, "apply", "ban")
     ELSE Goto(c, "bump_chat") /\ UNCHANGED <<spam, perChat>>
  /\ UNCHANGED <<ledger, logged, caches, seen, handled>>

\* The second statement after an UPDATE that found nothing: its foreign key
\* fails, unless another chat has recorded the fingerprint anew.
bump_chat(c) ==
  /\ At(c, "bump_chat")
  /\ IF spam[Hash(c)] # NoRow
     THEN perChat' = HitIn(c, Hash(c)) /\ Decide(c, "apply", "ban")
     ELSE Finish(c) /\ UNCHANGED perChat
  /\ UNCHANGED <<spam, ledger, logged, caches, seen, handled>>

-----------------------------------------------------------------------------
(* CasClient::lookup *)

\* Mutant: the verdict of CAS is passed on as the action.
Judged_PassedOn(c, verdict) ==
  IF verdict = "Flagged" THEN Decide(c, "record", verdict) ELSE Goto(c, "score")

\* The step that follows a CAS verdict.
Judged(c, verdict) ==
  IF verdict = "Flagged" THEN Decide(c, "record", "ban") ELSE Goto(c, "score")

moka_get(c) ==
  /\ At(c, "moka")
  /\ IF moka[User(c)] # "none" THEN Judged(c, moka[User(c)]) ELSE Goto(c, "redis")
  /\ UNCHANGED <<tables, caches, seen, handled>>

redis_get(c) ==
  /\ At(c, "redis")
  /\ \/ /\ redis[User(c)] # "none"
        /\ moka' = [moka EXCEPT ![User(c)] = redis[User(c)]]
        /\ Judged(c, redis[User(c)])
     \/ /\ redis[User(c)] = "none" \/ "redis" \in Faults
        /\ Goto(c, "http") /\ UNCHANGED moka
  /\ UNCHANGED <<tables, redis, answers, seen, handled>>

\* Mutant: the answer given when CAS fails is cached as well.
http_check_CachesFailOpen(c) ==
  /\ At(c, "http")
  /\ \/ \E verdict \in CasVerdicts :
          /\ answers' = [answers EXCEPT ![User(c)] = @ \cup {verdict}]
          /\ moka' = [moka EXCEPT ![User(c)] = verdict]
          /\ Decide(c, "write_redis", verdict)
     \/ /\ "cas" \in Faults
        /\ moka' = [moka EXCEPT ![User(c)] = "Clean"]
        /\ Decide(c, "write_redis", "Clean") /\ UNCHANGED answers
  /\ UNCHANGED <<tables, redis, seen, handled>>

\* Mutant: a user CAS does not answer for is held to be flagged.
http_check_FailsClosed(c) ==
  /\ At(c, "http")
  /\ \/ \E verdict \in CasVerdicts :
          /\ answers' = [answers EXCEPT ![User(c)] = @ \cup {verdict}]
          /\ moka' = [moka EXCEPT ![User(c)] = verdict]
          /\ Decide(c, "write_redis", verdict)
     \/ "cas" \in Faults /\ Judged(c, "Flagged") /\ UNCHANGED <<moka, answers>>
  /\ UNCHANGED <<tables, redis, seen, handled>>

\* What CAS says today may differ from what it said before.  Without an answer
\* the user is clean for this message, and nothing is cached.
http_check(c) ==
  /\ At(c, "http")
  /\ \/ \E verdict \in CasVerdicts :
          /\ answers' = [answers EXCEPT ![User(c)] = @ \cup {verdict}]
          /\ moka' = [moka EXCEPT ![User(c)] = verdict]
          /\ Decide(c, "write_redis", verdict)
     \/ "cas" \in Faults /\ Judged(c, "Clean") /\ UNCHANGED <<moka, answers>>
  /\ UNCHANGED <<tables, redis, seen, handled>>

write_redis(c) ==
  /\ At(c, "write_redis")
  /\ \/ redis' = [redis EXCEPT ![User(c)] = worker[c].verdict]
     \/ "redis" \in Faults /\ UNCHANGED redis
  /\ Judged(c, worker[c].verdict)
  /\ UNCHANGED <<tables, moka, answers, seen, handled>>

-----------------------------------------------------------------------------
score(c) ==
  /\ At(c, "score")
  /\ IF <<c, Hash(c)>> \in spammy
     THEN Decide(c, "record", "delete")
     ELSE Decide(c, "log", "Allow")
  /\ UNCHANGED <<tables, caches, seen, handled>>

\* A fingerprint that another message recorded meanwhile is hit once more.
record(c) ==
  /\ At(c, "record")
  /\ spam' = IF spam[Hash(c)] # NoRow
             THEN Hit(Hash(c))
             ELSE [spam EXCEPT ![Hash(c)] = [hits |-> 1, age |-> 0]]
  /\ perChat' = HitIn(c, Hash(c))
  /\ Goto(c, "apply")
  /\ UNCHANGED <<ledger, logged, caches, seen, handled>>

\* ModerationService::apply: one row for each message and action.
apply(c) ==
  /\ At(c, "apply")
  /\ \/ ledger' = ledger \cup {<<worker[c].verdict, MessageOf(c)>>}
     \/ "bot" \in Faults /\ UNCHANGED ledger
  /\ Finish(c)
  /\ UNCHANGED <<spam, perChat, logged, caches, seen, handled>>

\* log_allowed_messages may be off, or the insert may fail.
log_allowed_message(c) ==
  /\ At(c, "log")
  /\ logged' \in {logged, logged \cup {MessageOf(c)}}
  /\ Finish(c)
  /\ UNCHANGED <<spam, perChat, ledger, caches, seen, handled>>

\* A statement of inspect fails: the message stays, without a verdict.
inspect_fails(c) ==
  /\ "database" \in Faults
  /\ worker[c].step \in {"lookup", "bump", "bump_chat", "record"}
  /\ Finish(c)
  /\ UNCHANGED <<tables, caches, seen, handled>>

inspect(c) ==
  \/ lookup(c) \/ bump(c) \/ bump_chat(c)
  \/ moka_get(c) \/ redis_get(c) \/ http_check(c) \/ write_redis(c)
  \/ score(c) \/ record(c) \/ apply(c) \/ log_allowed_message(c)
  \/ inspect_fails(c)

-----------------------------------------------------------------------------
(* The job and the environment *)

Stale(h) == spam[h] # NoRow /\ spam[h].age > Retention

\* One DELETE of the spam_cleanup job; it cascades to the per-chat rows.
prune_expired ==
  /\ \E h \in Hashes : Stale(h)
  /\ spam' = [h \in Hashes |-> IF Stale(h) THEN NoRow ELSE spam[h]]
  /\ perChat' = [ch \in Chats \X Hashes |-> IF Stale(ch[2]) THEN 0 ELSE perChat[ch]]
  /\ UNCHANGED <<ledger, logged, caches, seen, handled, worker>>

\* A unit of time passes.
Tick ==
  /\ \E h \in Hashes : spam[h] # NoRow /\ ~Stale(h)
  /\ spam' = [h \in Hashes |-> IF spam[h] = NoRow \/ Stale(h)
                               THEN spam[h] ELSE [spam[h] EXCEPT !.age = @ + 1]]
  /\ UNCHANGED <<perChat, ledger, logged, caches, seen, handled, worker>>

\* A cached verdict reaches its time to live.
cache_expires(u) ==
  /\ \/ moka[u] # "none" /\ moka' = [moka EXCEPT ![u] = "none"] /\ UNCHANGED redis
     \/ redis[u] # "none" /\ redis' = [redis EXCEPT ![u] = "none"] /\ UNCHANGED moka
  /\ UNCHANGED <<tables, answers, seen, handled, worker>>

Crash ==
  /\ "crash" \in Faults
  /\ moka' = [u \in Users |-> "none"]
  /\ worker' = [c \in Chats |-> IdleWorker]
  /\ UNCHANGED <<tables, redis, answers, seen, handled>>

Next ==
  \/ \E c \in Chats, m \in Messages : receive(c, m)
  \/ \E c \in Chats : inspect(c)
  \/ prune_expired
  \/ Tick
  \/ \E u \in Users : cache_expires(u)
  \/ Crash

Spec == Init /\ [][Next]_vars
-----------------------------------------------------------------------------
(***************************************************************************)
(* Properties                                                              *)
(***************************************************************************)

\* What CAS was not asked about, or did not answer, is never cached, whatever
\* fails and whichever tier is lost ("does not cache the fail-open value").
CachesAreAnswers ==
  \A u \in Users : {moka[u], redis[u]} \ {"none"} \subseteq answers[u]

\* Whoever writes text of this hash in a way that makes it a fingerprint.
Grounds(h) ==
  \/ \E c \in Chats : <<c, h>> \in spammy
  \/ \E m \in Messages : /\ hash_of[m] = h /\ chat_of[m] \in CasChats
                         /\ "Flagged" \in answers[writer[m]]

\* Nobody is banned without grounds: a ban needs a writer CAS has flagged, or a
\* copy of a text that was found to be spam, through all failures of the tiers
\* in between ("falsely flagging a real user is worse than missing a spammer").
BansHaveGrounds ==
  \A m \in Messages : <<"ban", m>> \in ledger => Grounds(hash_of[m])

\* The corpus-wide counter is explained by the counters of the chats: it never
\* runs ahead of their sum, and without the fingerprint they are gone.  (They
\* may run ahead of it, see bump_chat.)
AggregateIsExplained ==
  \A h \in Hashes :
    LET inChats == SumFunction([c \in Chats |-> perChat[<<c, h>>]]) IN
    IF spam[h] = NoRow THEN inChats = 0 ELSE spam[h].hits <= inChats

\* What reads like a text, within two steps of it.
Copies(s) == UNION {Disguises(d) : d \in Disguises(s)}

Recognised ==
  [m \in Messages |-> \A d \in Copies(body[m]) \cup {hash_of[m]} :
                        normalize(d) = hash_of[m]]

\* A text cannot be disguised from its fingerprint: letters in another case or
\* width, invisible characters and marks that compose with nothing, and white space
\* leave the key of the dedup as it is, and a normal form is its own.  (An accent
\* that composes is part of the key; for what I_dot may stand, see Disguises.)
CopiesAreRecognised == \A m \in seen : Recognised[m]
=============================================================================
