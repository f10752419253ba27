------------------------------- MODULE Reports -------------------------------
(***************************************************************************)
(* The daily report of one chat: the daily_report job and the commands     *)
(* /report and /summary, the rows of report_messages, the messages that    *)
(* stand in the chat, and the token budget of the OpenAI summaries.        *)
(*                                                                         *)
(* There are two runners: the job, and the worker that handles the updates *)
(* of the chat one after the other.  Both run deliver, statement by        *)
(* statement, and nothing keeps them apart.                                *)
(*                                                                         *)
(* Reports belong to days of the chat's time zone, tokens to dates of the  *)
(* database (CURRENT_DATE); the two begin at different moments.            *)
(***************************************************************************)
EXTENDS Integers, FiniteSets, FiniteSetsExt, Functions

CONSTANTS
  Budget,      \* summary_token_budget
  Reserve,     \* MAX_OUTPUT_TOKENS: what a summary is charged in advance
  Uses,        \* total_tokens an answer of OpenAI may name
  MaxRetries,  \* attempts of one call of OpenAI
  MaxDays,     \* bound: days in one behaviour
  MaxRuns,     \* bound: deliveries and summaries begun in one behaviour
  Commands,    \* bound: the commands given, a subset of {"report", "summary"}
  Faults       \* what may go wrong, a subset of FaultKinds

FaultKinds == {"crash",     \* the process dies and is restarted
               "database",  \* a statement fails
               "delete",    \* delete_message fails
               "send",      \* send_message or send_photo fails
               "chart",     \* rendering the chart fails
               "openai",    \* OpenAI refuses
               "quiet",     \* the chat is below report_min_activity
               "policy"}    \* nothing to summarise, or not wanted

ASSUME ReportsConstantsOK ==
  /\ Reserve \in Nat \ {0} /\ Budget \in Nat \ {0}
  /\ Uses \subseteq Nat /\ Uses # {} /\ IsFiniteSet(Uses)
  /\ MaxRetries \in Nat \ {0} /\ MaxDays \in Nat \ {0} /\ MaxRuns \in Nat
  /\ Commands \subseteq {"report", "summary"}
  /\ Faults \subseteq FaultKinds

Runners == {"job", "worker"}
Kinds == {"daily_text", "daily_photo"}
Days == 1 .. MaxDays
Dates == 0 .. MaxDays + 1
MessageIds == 1 .. 2 * MaxRuns

VARIABLES
  day,       \* today, in the chat
  slot,      \* how late it is: 2 is the first five minutes of report_hour
  ticked,    \* whether the job has had its tick in this slot
  date,      \* today, in the database
  rows,      \* report_messages: the message id of a day and kind, 0 for none
  standing,  \* the report messages in the chat
  sent,      \* report messages sent so far
  tokens,    \* daily_stats, openai_tokens_used
  spent,     \* history: the total_tokens of the answers to the calls
             \* reserved on a date
  runs,      \* deliveries and summaries begun so far
  cut,       \* history: a runner was stopped between two of its steps
  runner     \* each runner: the step to do next, and what it remembers

time == <<day, slot, ticked, date>>
posts == <<rows, standing, sent>>
budget == <<tokens, spent>>
vars == <<time, posts, budget, runs, cut, runner>>

Steps == {"idle", "prior", "delete", "drop", "text", "record_text", "chart",
          "preflight", "reserve", "openai", "reconcile", "photo", "record_photo"}

Post == [id : MessageIds, day : Days, kind : Kinds]

IdleRunner == [step |-> "idle", day |-> 1, prior |-> {}, id |-> 0,
               caption |-> FALSE, date |-> 0, attempt |-> 0, used |-> 0]

TypeOK ==
  /\ day \in Days /\ slot \in 1 .. 3 /\ ticked \in BOOLEAN
  /\ date \in Dates
  /\ rows \in [Days \X Kinds -> {0} \cup MessageIds]
  /\ standing \subseteq Post
  /\ sent \in 0 .. 2 * MaxRuns
  /\ tokens \in [Dates -> Int] /\ spent \in [Dates -> Nat]
  /\ runs \in 0 .. MaxRuns
  /\ cut \in BOOLEAN
  /\ runner \in [Runners ->
       [step : Steps, day : Days, prior : SUBSET MessageIds,
        id : {0} \cup MessageIds, caption : BOOLEAN, date : Dates,
        attempt : 0 .. MaxRetries - 1, used : {0} \cup Uses]]

Init ==
  /\ day = 1 /\ slot = 1 /\ ticked = FALSE /\ date = 1
  /\ rows = [dk \in Days \X Kinds |-> 0]
  /\ standing = {}
  /\ sent = 0
  /\ tokens = [d \in Dates |-> 0] /\ spent = [d \in Dates |-> 0]
  /\ runs = 0
  /\ cut = FALSE
  /\ runner = [r \in Runners |-> IdleRunner]

-----------------------------------------------------------------------------
(* The beginning of a delivery *)

At(r, step) == runner[r].step = step

Goto(r, step) == runner' = [runner EXCEPT ![r].step = step]

Finish(r) == runner' = [runner EXCEPT ![r] = IdleRunner]

Begin(r, first) ==
  /\ runs < MaxRuns /\ runs' = runs + 1
  /\ runner' = [runner EXCEPT ![r] = first]

Delivery(d) == [IdleRunner EXCEPT !.step = "prior", !.day = d]

\* already_posted_today: both rows are there.
AlreadyPosted(d) == \A kind \in Kinds : rows[<<d, kind>>] # 0

\* A tick of the job.  It delivers in its window only, and only what is missing.
tick ==
  /\ At("job", "idle") /\ ~ticked
  /\ ticked' = TRUE
  /\ \/ /\ slot = 2 /\ ~AlreadyPosted(day)
        /\ Begin("job", Delivery(day))
     \/ /\ slot # 2 \/ AlreadyPosted(day) \/ "quiet" \in Faults
        /\ UNCHANGED <<runs, runner>>
  /\ UNCHANGED <<day, slot, date, posts, budget, cut>>

\* /report delivers whatever has been posted already.
report ==
  /\ "report" \in Commands /\ At("worker", "idle")
  /\ Begin("worker", Delivery(day))
  /\ UNCHANGED <<time, posts, budget, cut>>

\* /summary, after its cooldown, answers with the summary alone.
summary ==
  /\ "summary" \in Commands /\ At("worker", "idle")
  /\ Begin("worker", [IdleRunner EXCEPT !.step = "preflight"])
  /\ UNCHANGED <<time, posts, budget, cut>>

-----------------------------------------------------------------------------
(* deliver *)

prior_today(r) ==
  /\ At(r, "prior")
  /\ LET prior == {rows[<<runner[r].day, kind>>] : kind \in Kinds} \ {0} IN
     runner' = [runner EXCEPT ![r].prior = prior,
                              ![r].step = IF prior = {} THEN "text" ELSE "delete"]
  /\ UNCHANGED <<time, posts, budget, runs, cut>>

\* One message of the pair before: what comes of the deletion is only logged.
delete_message(r) ==
  /\ At(r, "delete")
  /\ \E id \in runner[r].prior :
       /\ \/ standing' = {post \in standing : post.id # id}
          \/ "delete" \in Faults /\ UNCHANGED standing
       /\ runner' = [runner EXCEPT ![r].prior = @ \ {id},
            ![r].step = IF runner[r].prior = {id} THEN "drop" ELSE "delete"]
  /\ UNCHANGED <<time, rows, sent, budget, runs, cut>>

\* Mutant: the text's row is dropped alone, as record will replace the other.
delete_for_day_TextOnly(r) ==
  /\ At(r, "drop")
  /\ rows' = [rows EXCEPT ![<<runner[r].day, "daily_text">>] = 0]
  /\ Goto(r, "text")
  /\ UNCHANGED <<time, standing, sent, budget, runs, cut>>

delete_for_day(r) ==
  /\ At(r, "drop")
  /\ rows' = [dk \in Days \X Kinds |-> IF dk[1] = runner[r].day THEN 0 ELSE rows[dk]]
  /\ Goto(r, "text")
  /\ UNCHANGED <<time, standing, sent, budget, runs, cut>>

\* The bot sends the text or the photo; without it the delivery is over.
send(r, kind, next) ==
  /\ \/ /\ sent' = sent + 1
        /\ standing' = standing \cup
             {[id |-> sent + 1, day |-> runner[r].day, kind |-> kind]}
        /\ runner' = [runner EXCEPT ![r].step = next, ![r].id = sent + 1]
     \/ "send" \in Faults /\ Finish(r) /\ UNCHANGED <<standing, sent>>
  /\ UNCHANGED <<time, rows, budget, runs, cut>>

send_message(r) == At(r, "text") /\ send(r, "daily_text", "record_text")

send_photo(r) == At(r, "photo") /\ send(r, "daily_photo", "record_photo")

record(r, kind) ==
  /\ rows' = [rows EXCEPT ![<<runner[r].day, kind>>] = runner[r].id]
  /\ UNCHANGED <<time, standing, sent, budget, runs, cut>>

record_text(r) == At(r, "record_text") /\ record(r, "daily_text") /\ Goto(r, "chart")

record_photo(r) == At(r, "record_photo") /\ record(r, "daily_photo") /\ Finish(r)

\* The chart is rendered; a summary is made when summary_enabled says so.
render_chart(r) ==
  /\ At(r, "chart")
  /\ \/ Goto(r, "photo")
     \/ runner' = [runner EXCEPT ![r].step = "preflight", ![r].caption = TRUE]
     \/ "chart" \in Faults /\ Finish(r)
  /\ UNCHANGED <<time, posts, budget, runs, cut>>

-----------------------------------------------------------------------------
(* SummaryService::summarize *)

\* The summary is done, or skipped: /report and the job go on with the photo.
Summarised(r) == IF runner[r].caption THEN Goto(r, "photo") ELSE Finish(r)

\* The configuration, the cheap look at the budget, the messages.
preflight(r) ==
  /\ At(r, "preflight")
  /\ \/ tokens[date] < Budget /\ Goto(r, "reserve")
     \/ tokens[date] >= Budget /\ Summarised(r)
     \/ "policy" \in Faults /\ Summarised(r)
  /\ UNCHANGED <<time, posts, budget, runs, cut>>

\* Mutant: the upsert of try_reserve has no WHERE.
try_reserve_Ungated(r) ==
  /\ At(r, "reserve")
  /\ tokens' = [tokens EXCEPT ![date] = @ + Reserve]
  /\ runner' = [runner EXCEPT ![r].step = "openai", ![r].date = date]
  /\ UNCHANGED <<time, posts, spent, runs, cut>>

Affordable == Reserve <= Budget /\ tokens[date] + Reserve <= Budget

\* One statement checks the budget and charges the summary in advance.
try_reserve(r) ==
  /\ At(r, "reserve")
  /\ \/ /\ Affordable
        /\ tokens' = [tokens EXCEPT ![date] = @ + Reserve]
        /\ runner' = [runner EXCEPT ![r].step = "openai", ![r].date = date]
     \/ ~Affordable /\ Summarised(r) /\ UNCHANGED tokens
  /\ UNCHANGED <<time, posts, spent, runs, cut>>

\* Mutant: the number of attempts is checked a turn late.
chat_OnceMore(r) ==
  /\ At(r, "openai")
  /\ \/ \E used \in Uses :
          /\ spent' = [spent EXCEPT ![runner[r].date] = @ + used]
          /\ runner' = [runner EXCEPT ![r].step = "reconcile", ![r].used = used]
     \/ /\ "openai" \in Faults /\ UNCHANGED spent
        /\ \/ /\ runner[r].attempt < MaxRetries
              /\ runner' = [runner EXCEPT ![r].attempt = @ + 1]
           \/ Finish(r)
  /\ UNCHANGED <<time, posts, tokens, runs, cut>>

\* OpenAiClient::chat, one attempt.  When it gives up summarize fails, and with
\* it the delivery; what was reserved stays charged.
chat(r) ==
  /\ At(r, "openai")
  /\ \/ \E used \in Uses :
          /\ spent' = [spent EXCEPT ![runner[r].date] = @ + used]
          /\ runner' = [runner EXCEPT ![r].step = "reconcile", ![r].used = used]
     \/ /\ "openai" \in Faults /\ UNCHANGED spent
        /\ \/ /\ runner[r].attempt + 1 < MaxRetries
              /\ runner' = [runner EXCEPT ![r].attempt = @ + 1]
           \/ Finish(r)
  /\ UNCHANGED <<time, posts, tokens, runs, cut>>

\* Mutant: only a refund is booked.
reconcile_RefundsOnly(r) ==
  /\ At(r, "reconcile")
  /\ tokens' = [tokens EXCEPT ![date] =
       IF runner[r].used < Reserve THEN @ + runner[r].used - Reserve ELSE @]
  /\ Summarised(r)
  /\ UNCHANGED <<time, posts, spent, runs, cut>>

\* The difference is booked on the date it is by now.
reconcile(r) ==
  /\ At(r, "reconcile")
  /\ tokens' = [tokens EXCEPT ![date] = @ + runner[r].used - Reserve]
  /\ Summarised(r)
  /\ UNCHANGED <<time, posts, spent, runs, cut>>

\* A statement fails.  A reconciliation that fails is only logged, any other
\* failure ends the run.
database_fails(r) ==
  /\ "database" \in Faults
  /\ \/ /\ At(r, "reconcile") /\ Summarised(r)
     \/ /\ runner[r].step \in {"prior", "drop", "record_text", "preflight",
                               "reserve", "record_photo"}
        /\ Finish(r)
  /\ cut' = TRUE
  /\ UNCHANGED <<time, posts, budget, runs>>

Run(r) ==
  \/ prior_today(r) \/ delete_message(r) \/ delete_for_day(r)
  \/ send_message(r) \/ record_text(r) \/ render_chart(r)
  \/ preflight(r) \/ try_reserve(r) \/ chat(r) \/ reconcile(r)
  \/ send_photo(r) \/ record_photo(r)
  \/ database_fails(r)

-----------------------------------------------------------------------------
(* The environment *)

\* Time passes in the chat.
next_slot ==
  /\ \/ slot < 3 /\ slot' = slot + 1 /\ UNCHANGED day
     \/ slot = 3 /\ day < MaxDays /\ day <= date /\ slot' = 1 /\ day' = day + 1
  /\ ticked' = FALSE
  /\ UNCHANGED <<date, posts, budget, runs, cut, runner>>

\* Midnight of the database, at most a day before or after the chat's.
next_date ==
  /\ date <= day /\ date' = date + 1
  /\ UNCHANGED <<day, slot, ticked, posts, budget, runs, cut, runner>>

\* The process is killed and started again; the first tick is immediate.
Crash ==
  /\ "crash" \in Faults
  /\ runner' = [r \in Runners |-> IdleRunner]
  /\ cut' = (cut \/ \E r \in Runners : ~At(r, "idle"))
  /\ ticked' = FALSE
  /\ UNCHANGED <<day, slot, date, posts, budget, runs>>

Next ==
  \/ tick \/ report \/ summary
  \/ \E r \in Runners : Run(r)
  \/ next_slot \/ next_date \/ Crash

Spec == Init /\ [][Next]_vars
-----------------------------------------------------------------------------
(***************************************************************************)
(* Properties                                                              *)
(***************************************************************************)

\* What r has yet to book: the difference between the answer and its reservation.
Unbooked(r) == IF At(r, "reconcile") THEN runner[r].used - Reserve ELSE 0

Replacing(r, d) == runner[r].step \in {"delete", "drop"} /\ runner[r].day = d

\* What the job takes for posted does stand in the chat, though the job and
\* /report replace each other's messages: a row outlives its message only
\* while somebody is replacing it, or when somebody was cut off doing so.
RowsStand ==
  ~cut => \A d \in Days, kind \in Kinds :
    rows[<<d, kind>>] # 0 /\ (\A r \in Runners : ~Replacing(r, d)) =>
      [id |-> rows[<<d, kind>>], day |-> d, kind |-> kind] \in standing

\* Every token an answer of OpenAI names is charged to some date, whatever
\* fails at OpenAI and whenever midnight comes: a reservation may be charged for
\* nothing, but no use goes without a charge.
UseIsCharged ==
  ~cut => SumFunction(spent) <=
            SumFunction(tokens) + Unbooked("job") + Unbooked("worker")

\* How far what is reserved and what answers name can lie apart, and how far an
\* answer can go beyond its reservation.
Spread == Max(Uses \cup {Reserve}) - Min(Uses \cup {Reserve})
Overshoot == Max(Uses \cup {Reserve}) - Reserve

\* The counter of a date passes the budget by no more than what the answers to
\* both runners go beyond their reservations: two reservations never both take the
\* same rest of the budget, whoever is cut off.  So the summaries of one date use
\* no more than the budget and the spread for each runner: midnight moves a refund
\* at most once for each.
BudgetHolds ==
  \A d \in Dates :
    /\ tokens[d] <= Budget + Cardinality(Runners) * Overshoot
    /\ ~cut => spent[d] <= Budget + Cardinality(Runners) * Spread
=============================================================================
