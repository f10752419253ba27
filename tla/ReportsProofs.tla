---------------------------- MODULE ReportsProofs ------------------------------
(***************************************************************************)
(* Reports keeps its types, believes no report posted that does not stand  *)
(* in the chat, charges every token that is used and keeps the summaries   *)
(* of a date within the budget and a margin, for every budget, number of   *)
(* days, size of answer and whatever fails.  ReportWindow counts on its    *)
(* local day what happens, in every zone that is less than a day off and   *)
(* changes its clocks by an hour.                                          *)
(***************************************************************************)
EXTENDS Reports, ReportWindow, FoldLemmas

-----------------------------------------------------------------------------
(* The inductive invariant *)

\* The messages a runner may still send.
ToSend(r) ==
  IF runner[r].step \in {"prior", "delete", "drop", "text"} THEN 2
  ELSE IF \/ runner[r].step \in {"record_text", "chart", "photo"}
          \/ /\ runner[r].step \in {"preflight", "reserve", "openai", "reconcile"}
             /\ runner[r].caption
       THEN 1 ELSE 0

SentInTime == sent + ToSend("job") + ToSend("worker") <= 2 * runs

\* Ids are issued once, and a row or a list of messages to delete names messages
\* of its own day only.
IdsAreOwn ==
  /\ \A p \in standing : p.id <= sent
  /\ \A p, q \in standing : p.id = q.id => p = q
  /\ \A d \in Days, kind \in Kinds :
       /\ rows[<<d, kind>>] <= sent
       /\ \A p \in standing : p.id = rows[<<d, kind>>] => p.day = d
  /\ \A r \in Runners : At(r, "delete") =>
       \A id \in runner[r].prior :
         /\ id <= sent
         /\ \A p \in standing : p.id = id => p.day = runner[r].day

Recording(r) == At(r, "record_text") \/ At(r, "record_photo")

\* What a runner has sent and is about to record stands, and nobody else knows it.
Unrecorded ==
  \A r \in Runners : Recording(r) =>
    /\ runner[r].id # 0 /\ runner[r].id <= sent
    /\ [id |-> runner[r].id, day |-> runner[r].day,
        kind |-> IF At(r, "record_text") THEN "daily_text" ELSE "daily_photo"] \in standing
    /\ \A dk \in Days \X Kinds : rows[dk] # runner[r].id
    /\ \A s \in Runners :
         /\ At(s, "delete") => runner[r].id \notin runner[s].prior
         /\ s # r /\ Recording(s) => runner[s].id # runner[r].id

\* The least and the most a summary may use or be charged.
Least == Min(Uses \cup {Reserve})
Most == Max(Uses \cup {Reserve})

Summarising(r) == At(r, "openai") \/ At(r, "reconcile")

Dated ==
  /\ \A r \in Runners : Summarising(r) => runner[r].date <= date
  /\ \A r \in Runners : At(r, "reconcile") => runner[r].used \in Uses
  /\ \A d \in Dates : d > date => tokens[d] = 0 /\ spent[d] = 0

\* All that is used is charged, what is reserved on top of it.
Reserved(r) == IF At(r, "openai") THEN Reserve ELSE 0

AllCharged ==
  ~cut => SumFunction(spent) + Reserved("job") + Reserved("worker") <=
            SumFunction(tokens) + Unbooked("job") + Unbooked("worker")

\* What of today's use may not be charged to today: what r has yet to book, and
\* a refund for a reservation of another day it may have booked already.
Margin(r) ==
  IF Summarising(r) /\ runner[r].date # date THEN 0
  ELSE (Reserve - Least) + Unbooked(r) - Reserved(r)

TodayCharged == ~cut => spent[date] <= tokens[date] + Margin("job") + Margin("worker")

\* What r may yet use of the budget of d.
Open(r, d) == IF At(r, "openai") /\ runner[r].date = d THEN Most ELSE 0

DatesAfforded ==
  ~cut => \A d \in Dates :
    spent[d] + Open("job", d) + Open("worker", d) <= Budget + 2 * Spread

\* What the answer to r may add to the counter of today.
Due(r) == IF Summarising(r) THEN Overshoot ELSE 0

ChargeInv ==
  /\ \A d \in Dates : tokens[d] <= Budget + 2 * Overshoot
  /\ tokens[date] + Due("job") + Due("worker") <= Budget + 2 * Overshoot

IInv ==
  /\ TypeOK /\ SentInTime
  /\ IdsAreOwn /\ Unrecorded /\ RowsStand
  /\ Dated /\ AllCharged /\ TodayCharged /\ DatesAfforded /\ ChargeInv

-----------------------------------------------------------------------------
(* Helpers *)

RunnerStates ==
  [step : Steps, day : Days, prior : SUBSET MessageIds,
   id : {0} \cup MessageIds, caption : BOOLEAN, date : Dates,
   attempt : 0 .. MaxRetries - 1, used : {0} \cup Uses]

\* The constants are numbers.
LEMMA Numbers ==
  /\ Reserve \in Nat \ {0} /\ Budget \in Nat \ {0} /\ Uses \subseteq Nat
  /\ MaxRetries \in Nat \ {0} /\ MaxDays \in Nat \ {0} /\ MaxRuns \in Nat
  /\ IsFiniteSet(Dates)
BY ReportsConstantsOK, FS_Interval DEF Dates

LEMMA IdleState ==
  /\ IdleRunner \in RunnerStates /\ IdleRunner.step = "idle" /\ IdleRunner.caption = FALSE
  /\ \A d \in Days : /\ Delivery(d) \in RunnerStates
                     /\ Delivery(d).step = "prior" /\ Delivery(d).caption = FALSE
<1>1. IdleRunner \in RunnerStates
  BY Numbers DEF IdleRunner, RunnerStates, Steps, Days, Dates
<1> QED
  BY <1>1 DEF IdleRunner, RunnerStates, Delivery, Steps

\* One runner moves and the other one does not.
LEMMA OneMoves ==
  ASSUME runner \in [Runners -> RunnerStates], NEW r \in Runners, NEW next \in RunnerStates,
         runner' = [runner EXCEPT ![r] = next]
  PROVE  /\ runner' \in [Runners -> RunnerStates] /\ runner'[r] = next
         /\ \A s \in Runners \ {r} : runner'[s] = runner[s]
BY DEF Runners

\* The runner finishes, or goes on to a step and remembers what it did.
LEMMA Finishes ==
  ASSUME runner \in [Runners -> RunnerStates], NEW r \in Runners, Finish(r)
  PROVE  /\ runner' \in [Runners -> RunnerStates] /\ runner'[r] = IdleRunner
         /\ \A s \in Runners \ {r} : runner'[s] = runner[s]
BY IdleState, OneMoves DEF Finish

Remembers(r) ==
  /\ runner'[r].day = runner[r].day /\ runner'[r].prior = runner[r].prior
  /\ runner'[r].id = runner[r].id /\ runner'[r].caption = runner[r].caption
  /\ runner'[r].date = runner[r].date /\ runner'[r].used = runner[r].used

LEMMA GoesOn ==
  ASSUME runner \in [Runners -> RunnerStates], NEW r \in Runners, NEW step \in Steps,
         Goto(r, step)
  PROVE  /\ runner' \in [Runners -> RunnerStates] /\ runner'[r].step = step
         /\ Remembers(r)
         /\ \A s \in Runners \ {r} : runner'[s] = runner[s]
<1> DEFINE next == [runner[r] EXCEPT !.step = step]
<1>1. next \in RunnerStates /\ runner' = [runner EXCEPT ![r] = next]
  BY DEF Goto, RunnerStates
<1>2. runner'[r] = next
  BY <1>1, OneMoves
<1> QED
  BY <1>1, <1>2, OneMoves DEF RunnerStates, Remembers

-----------------------------------------------------------------------------
(* What a step of a runner does to it *)

\* The list of messages to delete.
LEMMA PriorMoves ==
  ASSUME TypeOK, NEW r \in Runners, prior_today(r)
  PROVE  /\ runner' \in [Runners -> RunnerStates]
         /\ \A s \in Runners \ {r} : runner'[s] = runner[s]
         /\ runner'[r].day = runner[r].day
         /\ runner'[r].step \in {"text", "delete"}
         /\ runner'[r].prior = {rows[<<runner[r].day, kind>>] : kind \in Kinds} \ {0}
<1> DEFINE prior == {rows[<<runner[r].day, kind>>] : kind \in Kinds} \ {0}
           next == [runner[r] EXCEPT !.prior = prior,
                                     !.step = IF prior = {} THEN "text" ELSE "delete"]
<1>1. runner \in [Runners -> RunnerStates] /\ rows \in [Days \X Kinds -> {0} \cup MessageIds]
  BY DEF TypeOK, RunnerStates
<1>2. runner[r].day \in Days
  BY <1>1 DEF RunnerStates
<1>3. prior \in SUBSET MessageIds
  BY <1>1, <1>2
<1>4. runner' = [runner EXCEPT ![r] = next]
  BY DEF prior_today
<1>5. next.day = runner[r].day /\ next.prior = prior /\ next.step \in {"text", "delete"}
  BY <1>1 DEF RunnerStates
<1>6. next \in RunnerStates
  BY <1>1, <1>3 DEF RunnerStates, Steps
<1> HIDE DEF next
<1> QED
  BY <1>1, <1>4, <1>5, <1>6, OneMoves

\* One message less to delete.
LEMMA DeleteMoves ==
  ASSUME TypeOK, NEW r \in Runners, delete_message(r)
  PROVE  \E id \in runner[r].prior :
           /\ standing' = {post \in standing : post.id # id} \/ standing' = standing
           /\ runner' \in [Runners -> RunnerStates]
           /\ \A s \in Runners \ {r} : runner'[s] = runner[s]
           /\ runner'[r].day = runner[r].day
           /\ runner'[r].step \in {"drop", "delete"}
           /\ runner'[r].prior = runner[r].prior \ {id}
<1>1. runner \in [Runners -> RunnerStates]
  BY DEF TypeOK, RunnerStates
<1>2. PICK id \in runner[r].prior :
        /\ standing' = {post \in standing : post.id # id} \/ standing' = standing
        /\ runner' = [runner EXCEPT ![r] =
             [runner[r] EXCEPT !.prior = @ \ {id},
                !.step = IF runner[r].prior = {id} THEN "drop" ELSE "delete"]]
  BY DEF delete_message
<1> DEFINE next == [runner[r] EXCEPT !.prior = @ \ {id},
                      !.step = IF runner[r].prior = {id} THEN "drop" ELSE "delete"]
<1>3. /\ next.day = runner[r].day /\ next.prior = runner[r].prior \ {id}
      /\ next.step \in {"drop", "delete"}
  BY <1>1 DEF RunnerStates
<1>4. next \in RunnerStates
  BY <1>1 DEF RunnerStates, Steps
<1>5. runner' = [runner EXCEPT ![r] = next]
  BY <1>2
<1> HIDE DEF next
<1>6. /\ runner' \in [Runners -> RunnerStates] /\ runner'[r] = next
      /\ \A s \in Runners \ {r} : runner'[s] = runner[s]
  BY <1>1, <1>4, <1>5, OneMoves
<1> QED
  BY <1>2, <1>3, <1>6

\* A message that is sent has the next id.
SendsOne(r, kind, next) ==
  /\ sent' = sent + 1
  /\ standing' = standing \cup {[id |-> sent + 1, day |-> runner[r].day, kind |-> kind]}
  /\ runner' \in [Runners -> RunnerStates]
  /\ runner'[r].step = next /\ runner'[r].id = sent + 1 /\ runner'[r].day = runner[r].day
  /\ \A s \in Runners \ {r} : runner'[s] = runner[s]

LEMMA SendMoves ==
  ASSUME TypeOK, NEW r \in Runners, sent + 1 \in MessageIds, NEW kind, NEW next \in Steps,
         send(r, kind, next)
  PROVE  \/ SendsOne(r, kind, next)
         \/ Finish(r) /\ UNCHANGED <<standing, sent>>
<1>1. runner \in [Runners -> RunnerStates]
  BY DEF TypeOK, RunnerStates
<1> DEFINE new == [runner[r] EXCEPT !.step = next, !.id = sent + 1]
<1>2. new.step = next /\ new.id = sent + 1 /\ new.day = runner[r].day /\ new \in RunnerStates
  BY <1>1 DEF RunnerStates
<1>3. CASE /\ sent' = sent + 1
           /\ standing' = standing \cup
                {[id |-> sent + 1, day |-> runner[r].day, kind |-> kind]}
           /\ runner' = [runner EXCEPT ![r] = new]
  <2> HIDE DEF new
  <2>1. /\ runner' \in [Runners -> RunnerStates] /\ runner'[r] = new
        /\ \A s \in Runners \ {r} : runner'[s] = runner[s]
    BY <1>1, <1>2, <1>3, OneMoves
  <2> QED
    BY <1>2, <1>3, <2>1 DEF SendsOne
<1> QED
  BY <1>3 DEF send

\* The steps of a summary: the chart, the reservation and the answer.
LEMMA ChartMoves ==
  ASSUME TypeOK, NEW r \in Runners, render_chart(r)
  PROVE  /\ runner' \in [Runners -> RunnerStates]
         /\ runner'[r].step \in {"photo", "preflight", "idle"}
         /\ \A s \in Runners \ {r} : runner'[s] = runner[s]
<1>1. runner \in [Runners -> RunnerStates]
  BY DEF TypeOK, RunnerStates
<1>2. CASE Goto(r, "photo")
  BY <1>1, <1>2, GoesOn DEF Steps
<1>3. CASE Finish(r)
  BY <1>1, <1>3, Finishes, IdleState
<1>4. CASE runner' = [runner EXCEPT ![r] =
                        [runner[r] EXCEPT !.step = "preflight", !.caption = TRUE]]
  <2> DEFINE next == [runner[r] EXCEPT !.step = "preflight", !.caption = TRUE]
  <2>1. next \in RunnerStates /\ next.step = "preflight"
    BY <1>1 DEF RunnerStates, Steps
  <2>2. runner' = [runner EXCEPT ![r] = next]
    BY <1>4
  <2> HIDE DEF next
  <2> QED
    BY <1>1, <2>1, <2>2, OneMoves
<1> QED
  BY <1>2, <1>3, <1>4 DEF render_chart

\* A summary that is over: the photo is next, or nothing.
LEMMA SummaryEnds ==
  ASSUME TypeOK, NEW r \in Runners, Summarised(r)
  PROVE  /\ runner' \in [Runners -> RunnerStates]
         /\ runner'[r].step = IF runner[r].caption THEN "photo" ELSE "idle"
         /\ \A s \in Runners \ {r} : runner'[s] = runner[s]
<1>1. runner \in [Runners -> RunnerStates]
  BY DEF TypeOK, RunnerStates
<1> QED
  BY <1>1, GoesOn, Finishes, IdleState DEF Summarised, Steps

Reserves(r) ==
  /\ Affordable /\ tokens' = [tokens EXCEPT ![date] = @ + Reserve]
  /\ runner' \in [Runners -> RunnerStates]
  /\ runner'[r].step = "openai" /\ runner'[r].date = date
  /\ runner'[r].caption = runner[r].caption
  /\ \A s \in Runners \ {r} : runner'[s] = runner[s]

LEMMA ReserveMoves ==
  ASSUME TypeOK, NEW r \in Runners, try_reserve(r)
  PROVE  Reserves(r) \/ (Summarised(r) /\ UNCHANGED tokens)
<1>1. runner \in [Runners -> RunnerStates] /\ date \in Dates
  BY DEF TypeOK, RunnerStates
<1> DEFINE next == [runner[r] EXCEPT !.step = "openai", !.date = date]
<1>2. /\ next \in RunnerStates /\ next.step = "openai" /\ next.date = date
      /\ next.caption = runner[r].caption
  BY <1>1 DEF RunnerStates, Steps
<1>3. CASE /\ Affordable /\ tokens' = [tokens EXCEPT ![date] = @ + Reserve]
           /\ runner' = [runner EXCEPT ![r] = next]
  <2> HIDE DEF next
  <2> QED
    BY <1>1, <1>2, <1>3, OneMoves DEF Reserves
<1> QED
  BY <1>3 DEF try_reserve

AnswersWith(r, used) ==
  /\ spent' = [spent EXCEPT ![runner[r].date] = @ + used]
  /\ runner' \in [Runners -> RunnerStates]
  /\ runner'[r].step = "reconcile" /\ runner'[r].used = used
  /\ runner'[r].date = runner[r].date /\ runner'[r].caption = runner[r].caption
  /\ \A s \in Runners \ {r} : runner'[s] = runner[s]

TriesAgain(r) ==
  /\ runner' \in [Runners -> RunnerStates]
  /\ runner'[r].step = runner[r].step /\ Remembers(r)
  /\ \A s \in Runners \ {r} : runner'[s] = runner[s]

LEMMA ChatMoves ==
  ASSUME TypeOK, NEW r \in Runners, chat(r)
  PROVE  \/ \E used \in Uses : AnswersWith(r, used)
         \/ spent' = spent /\ (TriesAgain(r) \/ Finish(r))
<1>1. runner \in [Runners -> RunnerStates]
  BY DEF TypeOK, RunnerStates
<1>2. ASSUME NEW used \in Uses,
             spent' = [spent EXCEPT ![runner[r].date] = @ + used],
             runner' = [runner EXCEPT ![r].step = "reconcile", ![r].used = used]
      PROVE  AnswersWith(r, used)
  <2> DEFINE next == [runner[r] EXCEPT !.step = "reconcile", !.used = used]
  <2>1. /\ next \in RunnerStates /\ next.step = "reconcile" /\ next.used = used
        /\ next.date = runner[r].date /\ next.caption = runner[r].caption
    BY <1>1 DEF RunnerStates, Steps
  <2>2. runner' = [runner EXCEPT ![r] = next]
    BY <1>2
  <2> HIDE DEF next
  <2> QED
    BY <1>1, <1>2, <2>1, <2>2, OneMoves DEF AnswersWith
<1>3. CASE /\ spent' = spent /\ runner[r].attempt + 1 < MaxRetries
           /\ runner' = [runner EXCEPT ![r].attempt = @ + 1]
  <2> DEFINE next == [runner[r] EXCEPT !.attempt = @ + 1]
  <2>1. next \in RunnerStates /\ next.step = runner[r].step
    BY <1>1, <1>3, Numbers DEF RunnerStates
  <2>2. /\ next.day = runner[r].day /\ next.prior = runner[r].prior
        /\ next.id = runner[r].id /\ next.caption = runner[r].caption
        /\ next.date = runner[r].date /\ next.used = runner[r].used
    BY <1>1 DEF RunnerStates
  <2>3. runner' = [runner EXCEPT ![r] = next]
    BY <1>3
  <2> HIDE DEF next
  <2>4. /\ runner' \in [Runners -> RunnerStates] /\ runner'[r] = next
        /\ \A s \in Runners \ {r} : runner'[s] = runner[s]
    BY <1>1, <2>1, <2>3, OneMoves
  <2> QED
    BY <1>3, <2>1, <2>2, <2>4 DEF TriesAgain, Remembers
<1> QED
  BY <1>2, <1>3 DEF chat

-----------------------------------------------------------------------------
(* Types, and the number of messages *)

LEMMA ToSendType == \A r \in Runners : ToSend(r) \in {0, 1, 2}
BY DEF ToSend

\* A step of one runner, with no more sent than the runner had to send.
LEMMA TypesStay ==
  ASSUME TypeOK, SentInTime, NEW r \in Runners,
         runner' \in [Runners -> RunnerStates],
         \A s \in Runners \ {r} : runner'[s] = runner[s],
         sent' \in Nat, sent' + ToSend(r)' <= sent + ToSend(r),
         rows' \in [Days \X Kinds -> {0} \cup MessageIds], standing' \subseteq Post,
         tokens' \in [Dates -> Int], spent' \in [Dates -> Nat], cut' \in BOOLEAN,
         UNCHANGED <<time, runs>>
  PROVE  TypeOK' /\ SentInTime'
<1>1. /\ ToSend("job") \in Nat /\ ToSend("worker") \in Nat
      /\ ToSend("job")' \in Nat /\ ToSend("worker")' \in Nat
  BY DEF ToSend
<1>2. \A s \in Runners \ {r} : ToSend(s)' = ToSend(s)
  BY DEF ToSend
<1>3. sent \in Nat /\ runs \in Nat /\ runs <= MaxRuns /\ MaxRuns \in Nat
  BY Numbers DEF TypeOK
<1>4. SentInTime'
  <2>1. CASE r = "job"
    <3>1. ToSend("worker")' = ToSend("worker")
      BY <1>2, <2>1 DEF Runners
    <3> HIDE DEF ToSend
    <3>2. sent' + ToSend("job")' <= sent + ToSend("job")
      BY <2>1
    <3>3. sent' + ToSend("job")' + ToSend("worker")' <= 2 * runs
      BY <1>1, <1>3, <3>1, <3>2 DEF SentInTime
    <3> QED
      BY <3>3 DEF SentInTime, time
  <2>2. CASE r = "worker"
    <3>1. ToSend("job")' = ToSend("job")
      BY <1>2, <2>2 DEF Runners
    <3>2. sent' + ToSend("worker")' <= sent + ToSend("worker")
      BY <2>2
    <3>3. sent' + ToSend("job")' + ToSend("worker")' <= 2 * runs
      BY <1>1, <1>3, <3>1, <3>2 DEF SentInTime
    <3> QED
      BY <3>3 DEF SentInTime, time
  <2> QED
    BY <2>1, <2>2 DEF Runners
<1>5. sent' <= 2 * MaxRuns
  <2>1. sent' + ToSend("job")' + ToSend("worker")' <= 2 * runs
    BY <1>4 DEF SentInTime
  <2> QED
    BY <1>1, <1>3, <2>1
<1>6. sent' \in 0 .. 2 * MaxRuns
  BY <1>3, <1>5
<1> QED
  BY <1>4, <1>6 DEF TypeOK, time, RunnerStates

\* A runner that has a message to send is given an id for it.
LEMMA IdsSuffice ==
  ASSUME TypeOK, SentInTime, NEW r \in Runners, ToSend(r) >= 1
  PROVE  sent + 1 \in MessageIds
<1>1. ToSend("job") \in Nat /\ ToSend("worker") \in Nat
  BY DEF ToSend
<1>2. sent \in Nat /\ runs \in Nat /\ runs <= MaxRuns /\ MaxRuns \in Nat
  BY Numbers DEF TypeOK
<1>3. sent + 1 <= 2 * MaxRuns
  BY <1>1, <1>2 DEF SentInTime, Runners
<1> QED
  BY <1>2, <1>3 DEF MessageIds

LEMMA TypeDeliver ==
  ASSUME TypeOK, SentInTime, NEW r \in Runners,
         prior_today(r) \/ delete_message(r) \/ delete_for_day(r) \/ render_chart(r)
  PROVE  TypeOK' /\ SentInTime'
<1>1. /\ runner \in [Runners -> RunnerStates] /\ sent \in Nat
      /\ rows \in [Days \X Kinds -> {0} \cup MessageIds] /\ standing \subseteq Post
      /\ tokens \in [Dates -> Int] /\ spent \in [Dates -> Nat] /\ cut \in BOOLEAN
  BY DEF TypeOK, RunnerStates
<1>2. UNCHANGED <<time, sent, tokens, spent, runs, cut>>
  BY DEF prior_today, delete_message, delete_for_day, render_chart, posts, budget
<1>3. CASE prior_today(r)
  <2>1. UNCHANGED <<rows, standing>> /\ At(r, "prior")
    BY <1>3 DEF prior_today, posts
  <2>2. ToSend(r)' = 2 /\ ToSend(r) = 2
    BY <1>3, <2>1, PriorMoves DEF ToSend, At
  <2> QED
    BY <1>1, <1>2, <1>3, <2>1, <2>2, PriorMoves, TypesStay
<1>4. CASE delete_message(r)
  <2>1. /\ rows' = rows /\ At(r, "delete") /\ standing' \subseteq standing
        /\ runner' \in [Runners -> RunnerStates] /\ runner'[r].step \in {"drop", "delete"}
        /\ \A s \in Runners \ {r} : runner'[s] = runner[s]
    BY <1>4, DeleteMoves DEF delete_message
  <2>2. ToSend(r)' = 2 /\ ToSend(r) = 2
    BY <2>1 DEF ToSend, At
  <2> QED
    BY <1>1, <1>2, <2>1, <2>2, TypesStay
<1>5. CASE delete_for_day(r)
  <2>1. standing' = standing /\ At(r, "drop") /\ Goto(r, "text")
        /\ rows' \in [Days \X Kinds -> {0} \cup MessageIds]
    BY <1>1, <1>5 DEF delete_for_day
  <2>2. /\ runner' \in [Runners -> RunnerStates] /\ runner'[r].step = "text"
        /\ \A s \in Runners \ {r} : runner'[s] = runner[s]
    BY <1>1, <2>1, GoesOn DEF Steps
  <2>3. ToSend(r)' = 2 /\ ToSend(r) = 2
    BY <2>1, <2>2 DEF ToSend, At
  <2> QED
    BY <1>1, <1>2, <2>1, <2>2, <2>3, TypesStay
<1>6. CASE render_chart(r)
  <2>1. UNCHANGED <<rows, standing>> /\ At(r, "chart")
    BY <1>6 DEF render_chart, posts
  <2>2. ToSend(r)' \in {0, 1} /\ ToSend(r) = 1
    BY <1>6, <2>1, ChartMoves DEF ToSend, At
  <2> QED
    BY <1>1, <1>2, <1>6, <2>1, <2>2, ChartMoves, TypesStay
<1> QED
  BY <1>3, <1>4, <1>5, <1>6

LEMMA TypePost ==
  ASSUME TypeOK, SentInTime, NEW r \in Runners,
         send_message(r) \/ send_photo(r) \/ record_text(r) \/ record_photo(r)
  PROVE  TypeOK' /\ SentInTime'
<1>1. /\ runner \in [Runners -> RunnerStates] /\ sent \in Nat
      /\ rows \in [Days \X Kinds -> {0} \cup MessageIds] /\ standing \subseteq Post
      /\ tokens \in [Dates -> Int] /\ spent \in [Dates -> Nat] /\ cut \in BOOLEAN
      /\ runner[r].day \in Days /\ runner[r].id \in {0} \cup MessageIds
  BY DEF TypeOK, RunnerStates
<1>2. UNCHANGED <<time, tokens, spent, runs, cut>>
  BY DEF send_message, send_photo, record_text, record_photo, send, record, budget
<1>3. ASSUME NEW kind \in Kinds, NEW next \in {"record_text", "record_photo"},
             send(r, kind, next), ToSend(r) >= 1,
             next = "record_text" => ToSend(r) = 2
      PROVE  TypeOK' /\ SentInTime'
  <2>1. sent + 1 \in MessageIds
    BY <1>3, IdsSuffice
  <2>2. rows' = rows /\ next \in Steps
    BY <1>3 DEF send, Steps
  <2>3. CASE SendsOne(r, kind, next)
    <3>1. standing' \subseteq Post
      BY <1>1, <2>1, <2>3 DEF SendsOne, Post
    <3>2. ToSend(r)' = IF next = "record_text" THEN 1 ELSE 0
      BY <2>3 DEF SendsOne, ToSend
    <3>3. sent' \in Nat /\ sent' + ToSend(r)' <= sent + ToSend(r)
      BY <1>1, <1>3, <2>3, <3>2, ToSendType DEF SendsOne
    <3> QED
      BY <1>1, <1>2, <2>2, <2>3, <3>1, <3>3, TypesStay DEF SendsOne
  <2>4. CASE Finish(r) /\ UNCHANGED <<standing, sent>>
    <3>1. /\ runner' \in [Runners -> RunnerStates] /\ runner'[r].step = "idle"
          /\ \A s \in Runners \ {r} : runner'[s] = runner[s]
      BY <1>1, <2>4, Finishes, IdleState
    <3>2. ToSend(r)' = 0
      BY <3>1 DEF ToSend
    <3>3. sent' + ToSend(r)' <= sent + ToSend(r)
      BY <1>1, <2>4, <3>2, ToSendType
    <3> QED
      BY <1>1, <1>2, <2>2, <2>4, <3>1, <3>3, TypesStay
  <2> QED
    BY <1>1, <1>3, <2>1, <2>2, <2>3, <2>4, SendMoves
<1>4. CASE send_message(r)
  <2>1. ToSend(r) = 2
    BY <1>4 DEF send_message, At, ToSend
  <2> QED
    BY <1>3, <1>4, <2>1 DEF send_message, Kinds
<1>5. CASE send_photo(r)
  <2>1. ToSend(r) = 1
    BY <1>5 DEF send_photo, At, ToSend
  <2> QED
    BY <1>3, <1>5, <2>1 DEF send_photo, Kinds
<1>6. CASE record_text(r)
  <2>1. /\ At(r, "record_text") /\ Goto(r, "chart") /\ UNCHANGED <<standing, sent>>
        /\ rows' \in [Days \X Kinds -> {0} \cup MessageIds]
    BY <1>1, <1>6 DEF record_text, record
  <2>2. /\ runner' \in [Runners -> RunnerStates] /\ runner'[r].step = "chart"
        /\ \A s \in Runners \ {r} : runner'[s] = runner[s]
    BY <1>1, <2>1, GoesOn DEF Steps
  <2>3. ToSend(r)' = 1 /\ ToSend(r) = 1
    BY <2>1, <2>2 DEF ToSend, At
  <2> QED
    BY <1>1, <1>2, <2>1, <2>2, <2>3, TypesStay
<1>7. CASE record_photo(r)
  <2>1. /\ At(r, "record_photo") /\ Finish(r) /\ UNCHANGED <<standing, sent>>
        /\ rows' \in [Days \X Kinds -> {0} \cup MessageIds]
    BY <1>1, <1>7 DEF record_photo, record
  <2>2. /\ runner' \in [Runners -> RunnerStates] /\ runner'[r].step = "idle"
        /\ \A s \in Runners \ {r} : runner'[s] = runner[s]
    BY <1>1, <2>1, Finishes, IdleState
  <2>3. ToSend(r)' = 0 /\ ToSend(r) = 0
    BY <2>1, <2>2 DEF ToSend, At
  <2> QED
    BY <1>1, <1>2, <2>1, <2>2, <2>3, TypesStay
<1> QED
  BY <1>4, <1>5, <1>6, <1>7

LEMMA TypeSummary ==
  ASSUME TypeOK, SentInTime, NEW r \in Runners,
         preflight(r) \/ try_reserve(r) \/ chat(r) \/ reconcile(r)
  PROVE  TypeOK' /\ SentInTime'
<1>1. /\ runner \in [Runners -> RunnerStates] /\ sent \in Nat
      /\ rows \in [Days \X Kinds -> {0} \cup MessageIds] /\ standing \subseteq Post
      /\ tokens \in [Dates -> Int] /\ spent \in [Dates -> Nat] /\ cut \in BOOLEAN
      /\ date \in Dates /\ runner[r].date \in Dates /\ runner[r].used \in Nat
  <2>1. runner[r] \in RunnerStates
    BY DEF TypeOK, RunnerStates
  <2>2. runner[r].date \in Dates /\ runner[r].used \in {0} \cup Uses
    BY <2>1 DEF RunnerStates
  <2>3. runner[r].used \in Nat
    <3>1. {0} \cup Uses \subseteq Nat
      BY Numbers
    <3> QED
      BY <2>2, <3>1
  <2> QED
    BY <2>2, <2>3 DEF TypeOK, RunnerStates
<1>2. UNCHANGED <<time, rows, standing, sent, runs, cut>>
  BY DEF preflight, try_reserve, chat, reconcile, posts
<1>3. ToSend(r) = IF runner[r].caption THEN 1 ELSE 0
  BY DEF preflight, try_reserve, chat, reconcile, At, ToSend
<1>4. CASE Summarised(r) /\ tokens' \in [Dates -> Int] /\ spent' \in [Dates -> Nat]
  <2>1. /\ runner' \in [Runners -> RunnerStates]
        /\ runner'[r].step = IF runner[r].caption THEN "photo" ELSE "idle"
        /\ \A s \in Runners \ {r} : runner'[s] = runner[s]
    BY <1>4, SummaryEnds
  <2>2. ToSend(r)' = IF runner[r].caption THEN 1 ELSE 0
    BY <2>1 DEF ToSend
  <2>3. sent' + ToSend(r)' <= sent + ToSend(r)
    BY <1>1, <1>2, <1>3, <2>2
  <2> QED
    BY <1>1, <1>2, <1>4, <2>1, <2>3, TypesStay
<1>5. ASSUME runner' \in [Runners -> RunnerStates],
             runner'[r].step \in {"idle", "reserve", "openai", "reconcile"},
             runner'[r].step # "idle" => runner'[r].caption = runner[r].caption,
             \A s \in Runners \ {r} : runner'[s] = runner[s],
             tokens' \in [Dates -> Int], spent' \in [Dates -> Nat]
      PROVE  TypeOK' /\ SentInTime'
  <2>1. ToSend(r)' \in {0, ToSend(r)}
    BY <1>3, <1>5 DEF ToSend
  <2>2. sent' + ToSend(r)' <= sent + ToSend(r)
    BY <1>1, <1>2, <1>3, <2>1
  <2> QED
    BY <1>1, <1>2, <1>5, <2>2, TypesStay
<1>6. CASE preflight(r)
  <2>1. CASE Goto(r, "reserve")
    BY <1>1, <1>5, <1>6, <2>1, GoesOn DEF preflight, budget, Steps, Remembers
  <2> QED
    BY <1>1, <1>4, <1>6, <2>1 DEF preflight, budget
<1>7. CASE try_reserve(r)
  <2>1. CASE Reserves(r)
    <3>1. tokens' \in [Dates -> Int] /\ spent' = spent
      BY <1>1, <1>7, <2>1, Numbers DEF Reserves, try_reserve
    <3> QED
      BY <1>1, <1>5, <2>1, <3>1 DEF Reserves
  <2> QED
    BY <1>1, <1>4, <1>7, <2>1, ReserveMoves DEF try_reserve
<1>8. CASE chat(r)
  <2>1. ASSUME NEW used \in Uses, AnswersWith(r, used)
        PROVE  TypeOK' /\ SentInTime'
    <3>1. spent' \in [Dates -> Nat] /\ tokens' = tokens
      BY <1>1, <1>8, <2>1, Numbers DEF AnswersWith, chat
    <3> QED
      BY <1>1, <1>5, <2>1, <3>1 DEF AnswersWith
  <2>2. CASE spent' = spent /\ TriesAgain(r)
    <3>1. runner'[r].step = "openai"
      BY <1>8, <2>2 DEF chat, At, TriesAgain
    <3> QED
      BY <1>1, <1>5, <1>8, <2>2, <3>1 DEF TriesAgain, Remembers, chat
  <2>3. CASE spent' = spent /\ Finish(r)
    BY <1>1, <1>5, <1>8, <2>3, Finishes, IdleState DEF chat
  <2> QED
    BY <1>8, <2>1, <2>2, <2>3, ChatMoves
<1>9. CASE reconcile(r)
  <2>1. tokens' \in [Dates -> Int] /\ spent' = spent /\ Summarised(r)
    BY <1>1, <1>9, Numbers DEF reconcile
  <2> QED
    BY <1>1, <1>4, <2>1
<1> QED
  BY <1>6, <1>7, <1>8, <1>9

LEMMA TypeFails ==
  ASSUME TypeOK, SentInTime, NEW r \in Runners, database_fails(r)
  PROVE  TypeOK' /\ SentInTime'
<1>1. /\ runner \in [Runners -> RunnerStates] /\ sent \in Nat
      /\ rows \in [Days \X Kinds -> {0} \cup MessageIds] /\ standing \subseteq Post
      /\ tokens \in [Dates -> Int] /\ spent \in [Dates -> Nat] /\ cut \in BOOLEAN
  BY DEF TypeOK, RunnerStates
<1>2. UNCHANGED <<time, rows, standing, sent, tokens, spent, runs>> /\ cut' = TRUE
  BY DEF database_fails, posts, budget
<1>3. /\ runner' \in [Runners -> RunnerStates] /\ ToSend(r)' <= ToSend(r)
      /\ \A s \in Runners \ {r} : runner'[s] = runner[s]
      /\ ToSend(r) \in Nat /\ ToSend(r)' \in Nat
  <2>1. CASE Finish(r)
    BY <1>1, <2>1, Finishes, IdleState DEF ToSend
  <2>2. CASE At(r, "reconcile") /\ Summarised(r)
    BY <2>2, SummaryEnds DEF ToSend, At
  <2> QED
    BY <2>1, <2>2 DEF database_fails
<1>4. sent' + ToSend(r)' <= sent + ToSend(r)
  BY <1>1, <1>2, <1>3
<1> QED
  BY <1>1, <1>2, <1>3, <1>4, TypesStay

\* A delivery or a summary that begins may send two messages, and none was left.
LEMMA TypeBegin ==
  ASSUME TypeOK, SentInTime, NEW r \in Runners, At(r, "idle"),
         NEW first \in RunnerStates, Begin(r, first), UNCHANGED <<posts, budget, cut>>,
         UNCHANGED <<day, slot, date>>, ticked' \in BOOLEAN
  PROVE  TypeOK' /\ SentInTime'
<1>1. /\ runner \in [Runners -> RunnerStates] /\ sent \in Nat /\ runs \in Nat
      /\ runs < MaxRuns /\ MaxRuns \in Nat /\ runs' = runs + 1
  BY Numbers DEF TypeOK, RunnerStates, Begin
<1>2. /\ runner' \in [Runners -> RunnerStates] /\ runner'[r] = first
      /\ \A s \in Runners \ {r} : runner'[s] = runner[s]
  BY <1>1, OneMoves DEF Begin
<1>3. /\ \A s \in Runners : ToSend(s) \in Nat /\ ToSend(s)' \in Nat
      /\ ToSend(r) = 0 /\ ToSend(r)' <= 2
  BY DEF ToSend, At
<1>4. \A s \in Runners \ {r} : ToSend(s)' = ToSend(s)
  BY <1>2 DEF ToSend
<1>5. ToSend("job")' + ToSend("worker")' <= ToSend("job") + ToSend("worker") + 2
  <2>1. CASE r = "job"
    <3>1. ToSend("worker")' = ToSend("worker")
      BY <1>4, <2>1 DEF Runners
    <3>2. ToSend("job")' <= 2 /\ ToSend("job") = 0
      BY <1>3, <2>1
    <3> QED
      BY <1>3, <3>1, <3>2 DEF Runners
  <2>2. CASE r = "worker"
    <3>1. ToSend("job")' = ToSend("job")
      BY <1>4, <2>2 DEF Runners
    <3>2. ToSend("worker")' <= 2 /\ ToSend("worker") = 0
      BY <1>3, <2>2
    <3> QED
      BY <1>3, <3>1, <3>2 DEF Runners
  <2> QED
    BY <2>1, <2>2 DEF Runners
<1>6. sent' + ToSend("job")' + ToSend("worker")' <= 2 * runs'
  <2>1. sent' = sent /\ sent + ToSend("job") + ToSend("worker") <= 2 * runs
    BY DEF SentInTime, posts
  <2>2. /\ ToSend("job") \in Nat /\ ToSend("worker") \in Nat
        /\ ToSend("job")' \in Nat /\ ToSend("worker")' \in Nat
    BY <1>3 DEF Runners
  <2> QED
    BY <1>1, <1>5, <2>1, <2>2
<1>7. SentInTime'
  BY <1>6 DEF SentInTime
<1> QED
  BY <1>1, <1>2, <1>7 DEF TypeOK, posts, budget, RunnerStates

\* The environment, and what begins a run.
LEMMA TypeOthers ==
  ASSUME TypeOK, SentInTime,
         tick \/ report \/ summary \/ next_slot \/ next_date \/ Crash
  PROVE  TypeOK' /\ SentInTime'
<1>1. /\ runner \in [Runners -> RunnerStates] /\ day \in Days /\ sent \in Nat /\ runs \in Nat
  BY Numbers DEF TypeOK, RunnerStates
<1>2. CASE tick
  <2>1. CASE At("job", "idle") /\ Begin("job", Delivery(day))
    BY <1>1, <1>2, <2>1, IdleState, TypeBegin DEF tick, Runners
  <2>2. CASE UNCHANGED <<runs, runner>>
    BY <1>2, <2>2 DEF tick, TypeOK, SentInTime, ToSend, posts, budget
  <2> QED
    BY <1>2, <2>1, <2>2 DEF tick
<1>3. CASE report
  <2>1. ticked' \in BOOLEAN
    BY <1>3 DEF report, time, TypeOK
  <2> QED
    BY <1>1, <1>3, <2>1, IdleState, TypeBegin DEF report, Runners, time
<1>4. CASE summary
  <2>1. ticked' \in BOOLEAN
    BY <1>4 DEF summary, time, TypeOK
  <2>2. [IdleRunner EXCEPT !.step = "preflight"] \in RunnerStates
    BY IdleState DEF RunnerStates, Steps
  <2> QED
    BY <1>4, <2>1, <2>2, TypeBegin DEF summary, Runners, time
<1>5. CASE next_slot \/ next_date
  <2>1. /\ UNCHANGED <<posts, budget, runs, cut, runner>> /\ ticked' \in BOOLEAN
        /\ day' \in Days /\ slot' \in 1 .. 3 /\ date' \in Dates
    <3>1. CASE next_slot
      <4>1. UNCHANGED <<date, posts, budget, runs, cut, runner>> /\ ticked' = FALSE
        BY <3>1 DEF next_slot
      <4>2. day' \in Days /\ slot' \in 1 .. 3
        BY <3>1, Numbers DEF next_slot, TypeOK, Days
      <4> QED
        BY <4>1, <4>2 DEF TypeOK
    <3>2. CASE next_date
      BY <3>2, Numbers DEF next_date, TypeOK, Days, Dates
    <3> QED
      BY <1>5, <3>1, <3>2
  <2> QED
    BY <2>1 DEF TypeOK, SentInTime, ToSend, posts, budget
<1>6. CASE Crash
  <2>1. /\ runner' = [r \in Runners |-> IdleRunner] /\ cut' \in BOOLEAN /\ ticked' = FALSE
        /\ UNCHANGED <<day, slot, date, posts, budget, runs>>
    BY <1>6 DEF Crash, TypeOK
  <2>2. runner' \in [Runners -> RunnerStates] /\ \A r \in Runners : runner'[r].step = "idle"
    BY <2>1, IdleState
  <2>3. ToSend("job")' = 0 /\ ToSend("worker")' = 0
    BY <2>2 DEF ToSend, Runners
  <2>4. SentInTime'
    <3>1. ToSend("job") \in Nat /\ ToSend("worker") \in Nat
      BY DEF ToSend
    <3> QED
      BY <1>1, <2>1, <2>3, <3>1 DEF SentInTime, posts
  <2> QED
    BY <2>1, <2>2, <2>4 DEF TypeOK, posts, budget, RunnerStates
<1> QED
  BY <1>2, <1>3, <1>4, <1>5, <1>6

LEMMA TypeStep ==
  ASSUME TypeOK, SentInTime, [Next]_vars
  PROVE  TypeOK' /\ SentInTime'
<1>1. CASE UNCHANGED vars
  BY <1>1 DEF vars, time, posts, budget, TypeOK, SentInTime, ToSend
<1>2. ASSUME NEW r \in Runners, Run(r)
      PROVE  TypeOK' /\ SentInTime'
  BY <1>2, TypeDeliver, TypePost, TypeSummary, TypeFails DEF Run
<1> QED
  BY <1>1, <1>2, TypeOthers DEF Next

-----------------------------------------------------------------------------
(* The messages that stand, and the rows that name them *)

PostsInv == IdsAreOwn /\ Unrecorded /\ RowsStand

LEMMA PostTypes ==
  ASSUME TypeOK
  PROVE  /\ sent \in Nat
         /\ \A s \in Runners : /\ runner[s].id \in Nat /\ runner[s].day \in Days
                              /\ \A id \in runner[s].prior : id \in Nat \ {0}
         /\ \A d \in Days, kind \in Kinds : rows[<<d, kind>>] \in Nat
         /\ \A p \in standing : p.id \in Nat \ {0}
<1>1. MessageIds \subseteq Nat \ {0} /\ sent \in Nat
  BY Numbers DEF MessageIds, TypeOK
<1> DEFINE Ids == {0} \cup MessageIds
<1>2. Ids \subseteq Nat
  BY <1>1
<1>3. \A s \in Runners : runner[s] \in RunnerStates
  BY DEF TypeOK, RunnerStates
<1>4. \A s \in Runners : /\ runner[s].id \in Nat /\ runner[s].day \in Days
                        /\ \A id \in runner[s].prior : id \in Nat \ {0}
  <2> TAKE s \in Runners
  <2>1. runner[s].id \in Ids /\ runner[s].day \in Days /\ runner[s].prior \subseteq MessageIds
    BY <1>3 DEF RunnerStates
  <2> HIDE DEF Ids
  <2> QED
    BY <1>1, <1>2, <2>1
<1>5. \A d \in Days, kind \in Kinds : rows[<<d, kind>>] \in Nat
  <2>1. rows \in [Days \X Kinds -> Ids]
    BY DEF TypeOK
  <2> HIDE DEF Ids
  <2> QED
    BY <1>2, <2>1
<1>6. \A p \in standing : p.id \in Nat \ {0}
  BY <1>1 DEF TypeOK, Post
<1> QED
  BY <1>1, <1>4, <1>5, <1>6

\* A list of messages to delete that was fine is still so.
LEMMA PriorsStay ==
  ASSUME IdsAreOwn,
         \A s \in Runners : At(s, "delete")' => At(s, "delete") /\ runner'[s] = runner[s],
         UNCHANGED <<standing, sent>>
  PROVE  \A s \in Runners : At(s, "delete")' =>
           \A id \in runner'[s].prior :
             /\ id <= sent'
             /\ \A p \in standing' : p.id = id => p.day = runner'[s].day
BY DEF IdsAreOwn

\* A step of a runner that posts, deletes and records nothing.
LEMMA PostsStay ==
  ASSUME TypeOK, PostsInv, NEW r \in Runners,
         \A s \in Runners \ {r} : runner'[s] = runner[s],
         UNCHANGED posts, cut' = cut \/ cut',
         ~Recording(r)', ~At(r, "delete")',
         runner[r].step \in {"delete", "drop"} => cut'
  PROVE  PostsInv'
<1> USE DEF PostsInv
<1>1. UNCHANGED <<rows, standing, sent>>
  BY DEF posts
<1>2. \A s \in Runners : At(s, "delete")' => s # r /\ At(s, "delete") /\ runner'[s] = runner[s]
  BY DEF At
<1>3. \A s \in Runners : Recording(s)' => s # r /\ Recording(s) /\ runner'[s] = runner[s]
  BY DEF Recording, At
<1>4. IdsAreOwn'
  BY <1>1, <1>2 DEF IdsAreOwn
<1>5. Unrecorded'
  BY <1>1, <1>2, <1>3 DEF Unrecorded, At
<1>6. ASSUME ~cut', NEW d \in Days, \A s \in Runners : ~Replacing(s, d)'
      PROVE  \A s \in Runners : ~Replacing(s, d)
  BY <1>6 DEF Replacing
<1>7. RowsStand'
  BY <1>1, <1>6 DEF RowsStand
<1> QED
  BY <1>4, <1>5, <1>7

\* A delivery looks for what was posted before.
LEMMA PostsPrior ==
  ASSUME TypeOK, PostsInv, NEW r \in Runners, prior_today(r)
  PROVE  PostsInv'
<1> USE DEF PostsInv
<1>1. /\ UNCHANGED <<rows, standing, sent, cut>>
      /\ \A s \in Runners \ {r} : runner'[s] = runner[s]
      /\ runner'[r].day = runner[r].day /\ runner[r].step = "prior"
      /\ runner'[r].step \in {"text", "delete"}
      /\ runner'[r].prior = {rows[<<runner[r].day, kind>>] : kind \in Kinds} \ {0}
  BY PriorMoves DEF prior_today, posts, At
<1>2. runner[r].day \in Days
  BY DEF TypeOK
<1>3. IdsAreOwn'
  <2>1. ASSUME NEW id \in runner'[r].prior
        PROVE  id <= sent /\ \A p \in standing : p.id = id => p.day = runner[r].day
    <3>1. PICK kind \in Kinds : id = rows[<<runner[r].day, kind>>]
      BY <1>1
    <3> QED
      BY <1>2, <3>1 DEF IdsAreOwn
  <2>2. ASSUME NEW s \in Runners, At(s, "delete")', NEW id \in runner'[s].prior
        PROVE  id <= sent /\ \A p \in standing : p.id = id => p.day = runner'[s].day
    <3>1. CASE s = r
      BY <1>1, <2>1, <2>2, <3>1
    <3>2. CASE s # r
      BY <1>1, <2>2, <3>2 DEF IdsAreOwn, At
    <3> QED
      BY <3>1, <3>2
  <2> QED
    BY <1>1, <2>2 DEF IdsAreOwn
<1>4. Unrecorded'
  <2>1. \A s \in Runners : Recording(s)' => s # r /\ Recording(s) /\ runner'[s] = runner[s]
    BY <1>1 DEF Recording, At
  <2>2. \A s \in Runners : Recording(s) => runner[s].id \notin runner'[r].prior
    BY <1>1, <1>2 DEF Unrecorded
  <2>3. ASSUME NEW s \in Runners, Recording(s)', NEW t \in Runners
        PROVE  /\ At(t, "delete")' => runner'[s].id \notin runner'[t].prior
               /\ t # s /\ Recording(t)' => runner'[t].id # runner'[s].id
    <3>1. Recording(s) /\ runner'[s] = runner[s]
      BY <2>1, <2>3
    <3>2. At(t, "delete")' => runner'[s].id \notin runner'[t].prior
      <4>1. CASE t = r
        BY <2>2, <3>1, <4>1
      <4>2. CASE t # r
        BY <1>1, <3>1, <4>2 DEF Unrecorded, At
      <4> QED
        BY <4>1, <4>2
    <3>3. t # s /\ Recording(t)' => runner'[t].id # runner'[s].id
      BY <2>1, <3>1 DEF Unrecorded
    <3> QED
      BY <3>2, <3>3
  <2> QED
    BY <1>1, <2>1, <2>3 DEF Unrecorded, At
<1>5. ASSUME NEW d \in Days, \A s \in Runners : ~Replacing(s, d)'
      PROVE  \A s \in Runners : ~Replacing(s, d)
  BY <1>1, <1>5 DEF Replacing
<1>6. RowsStand'
  BY <1>1, <1>5 DEF RowsStand
<1> QED
  BY <1>3, <1>4, <1>6

\* A message of the day being replaced goes: no row of another day names it.
LEMMA PostsDelete ==
  ASSUME TypeOK, PostsInv, NEW r \in Runners, delete_message(r)
  PROVE  PostsInv'
<1> USE DEF PostsInv
<1>1. At(r, "delete") /\ UNCHANGED <<rows, sent, cut>>
  BY DEF delete_message
<1>2. PICK id \in runner[r].prior :
        /\ standing' = {post \in standing : post.id # id} \/ standing' = standing
        /\ \A s \in Runners \ {r} : runner'[s] = runner[s]
        /\ runner'[r].day = runner[r].day
        /\ runner'[r].step \in {"drop", "delete"}
        /\ runner'[r].prior = runner[r].prior \ {id}
  BY DeleteMoves
<1>3. standing' \subseteq standing /\ \A p \in standing : p.id # id => p \in standing'
  BY <1>2
<1>4. \A s \in Runners : /\ At(s, "delete")' => At(s, "delete")
                        /\ runner'[s].prior \subseteq runner[s].prior
                        /\ runner'[s].day = runner[s].day
  BY <1>1, <1>2 DEF At
<1>5. \A s \in Runners : Recording(s)' => s # r /\ Recording(s) /\ runner'[s] = runner[s]
  BY <1>2 DEF Recording, At
<1>6. IdsAreOwn'
  BY <1>1, <1>3, <1>4 DEF IdsAreOwn
<1>7. Unrecorded'
  <2>1. ASSUME NEW s \in Runners, Recording(s)'
        PROVE  /\ runner'[s].id # 0 /\ runner'[s].id <= sent'
               /\ [id |-> runner'[s].id, day |-> runner'[s].day,
                   kind |-> IF At(s, "record_text")' THEN "daily_text" ELSE "daily_photo"]
                    \in standing'
               /\ \A dk \in Days \X Kinds : rows'[dk] # runner'[s].id
    <3>1. Recording(s) /\ runner'[s] = runner[s] /\ (At(s, "record_text")' <=> At(s, "record_text"))
      BY <1>5, <2>1 DEF At
    <3>2. runner[s].id # id
      BY <1>1, <3>1 DEF Unrecorded
    <3> QED
      BY <1>1, <1>3, <3>1, <3>2 DEF Unrecorded
  <2>2. ASSUME NEW s \in Runners, Recording(s)', NEW t \in Runners
        PROVE  /\ At(t, "delete")' => runner'[s].id \notin runner'[t].prior
               /\ t # s /\ Recording(t)' => runner'[t].id # runner'[s].id
    BY <1>4, <1>5, <2>2 DEF Unrecorded
  <2> QED
    BY <2>1, <2>2 DEF Unrecorded
<1>8. RowsStand'
  <2> SUFFICES ASSUME ~cut, NEW d \in Days, NEW kind \in Kinds, rows[<<d, kind>>] # 0,
                      \A s \in Runners : ~Replacing(s, d)'
               PROVE  [id |-> rows[<<d, kind>>], day |-> d, kind |-> kind] \in standing'
    BY <1>1 DEF RowsStand
  <2>1. \A s \in Runners : ~Replacing(s, d)
    BY <1>1, <1>2 DEF Replacing, At
  <2>2. [id |-> rows[<<d, kind>>], day |-> d, kind |-> kind] \in standing
    BY <2>1 DEF RowsStand
  <2>3. runner[r].day # d
    BY <1>1, <2>1 DEF Replacing, At
  <2>4. rows[<<d, kind>>] # id
    BY <1>1, <2>2, <2>3 DEF IdsAreOwn
  <2> QED
    BY <1>3, <2>2, <2>4
<1> QED
  BY <1>6, <1>7, <1>8

\* The rows of the day go, and with them what a runner had to replace.
LEMMA PostsDrop ==
  ASSUME TypeOK, PostsInv, NEW r \in Runners, delete_for_day(r)
  PROVE  PostsInv'
<1> USE DEF PostsInv
<1>1. /\ At(r, "drop") /\ Goto(r, "text") /\ UNCHANGED <<standing, sent, cut>>
      /\ rows' = [dk \in Days \X Kinds |-> IF dk[1] = runner[r].day THEN 0 ELSE rows[dk]]
  BY DEF delete_for_day
<1>2. /\ runner'[r].step = "text" /\ runner'[r].day = runner[r].day
      /\ \A s \in Runners \ {r} : runner'[s] = runner[s]
  BY <1>1, GoesOn DEF TypeOK, RunnerStates, Steps, Remembers
<1>3. \A d \in Days, kind \in Kinds :
        rows'[<<d, kind>>] = IF d = runner[r].day THEN 0 ELSE rows[<<d, kind>>]
  BY <1>1
<1>4. \A s \in Runners : Recording(s)' => s # r /\ Recording(s) /\ runner'[s] = runner[s]
  BY <1>2 DEF Recording, At
<1>5. \A s \in Runners : At(s, "delete")' => s # r /\ At(s, "delete") /\ runner'[s] = runner[s]
  BY <1>2 DEF At
<1>6. sent \in Nat /\ \A p \in standing : p.id # 0
  BY PostTypes
<1>7. IdsAreOwn'
  <2>1. \A d \in Days, kind \in Kinds :
          /\ rows'[<<d, kind>>] <= sent
          /\ \A p \in standing : p.id = rows'[<<d, kind>>] => p.day = d
    <3> TAKE d \in Days, kind \in Kinds
    <3>1. rows'[<<d, kind>>] = 0 \/ rows'[<<d, kind>>] = rows[<<d, kind>>]
      BY <1>3
    <3> QED
      BY <1>6, <3>1 DEF IdsAreOwn
  <2>2. /\ \A p \in standing : p.id <= sent
        /\ \A p, q \in standing : p.id = q.id => p = q
    BY DEF IdsAreOwn
  <2> QED
    BY <1>1, <1>5, <2>1, <2>2, PriorsStay DEF IdsAreOwn
<1>8. Unrecorded'
  <2>1. \A dk \in Days \X Kinds : rows'[dk] = 0 \/ rows'[dk] = rows[dk]
    BY <1>1
  <2> QED
    BY <1>1, <1>4, <1>5, <2>1 DEF Unrecorded, At
<1>9. RowsStand'
  <2> SUFFICES ASSUME ~cut, NEW d \in Days, NEW kind \in Kinds, rows'[<<d, kind>>] # 0,
                      \A s \in Runners : ~Replacing(s, d)'
               PROVE  [id |-> rows'[<<d, kind>>], day |-> d, kind |-> kind] \in standing
    BY <1>1 DEF RowsStand
  <2>1. d # runner[r].day /\ rows'[<<d, kind>>] = rows[<<d, kind>>]
    BY <1>3
  <2>2. \A s \in Runners : ~Replacing(s, d)
    BY <1>2, <2>1 DEF Replacing
  <2> QED
    BY <2>1, <2>2 DEF RowsStand
<1> QED
  BY <1>7, <1>8, <1>9

\* A message that is sent is new: no row and no list names its id.
LEMMA PostsSend ==
  ASSUME TypeOK, PostsInv, NEW r \in Runners, ~At(r, "delete"), ~At(r, "drop"),
         sent + 1 \in MessageIds,
         \/ SendsOne(r, "daily_text", "record_text")
         \/ SendsOne(r, "daily_photo", "record_photo"),
         UNCHANGED <<rows, cut>>
  PROVE  PostsInv'
<1> USE DEF PostsInv
<1> DEFINE kind == IF At(r, "record_text")' THEN "daily_text" ELSE "daily_photo"
           new == [id |-> sent + 1, day |-> runner[r].day, kind |-> kind]
<1>1. /\ sent' = sent + 1 /\ standing' = standing \cup {new}
      /\ runner'[r].step \in {"record_text", "record_photo"}
      /\ runner'[r].id = sent + 1 /\ runner'[r].day = runner[r].day
      /\ \A s \in Runners \ {r} : runner'[s] = runner[s]
  BY DEF SendsOne, At
<1>2. new.id = sent + 1 /\ new.day = runner[r].day /\ sent \in Nat
  BY DEF TypeOK
<1>3. \A p \in standing : p.id \in Nat
  BY PostTypes
<1>4. \A d \in Days, k \in Kinds : rows[<<d, k>>] <= sent /\ rows[<<d, k>>] \in Nat
  BY PostTypes DEF IdsAreOwn
<1>5. \A s \in Runners : At(s, "delete")' => s # r /\ At(s, "delete") /\ runner'[s] = runner[s]
  BY <1>1 DEF At
<1>6. \A s \in Runners : s # r /\ Recording(s)' => Recording(s) /\ runner'[s] = runner[s]
  BY <1>1 DEF Recording, At
<1>7. \A s \in Runners : At(s, "delete") => \A id \in runner[s].prior : id <= sent /\ id \in Nat
  BY PostTypes DEF IdsAreOwn
<1>8. \A s \in Runners : Recording(s) => runner[s].id <= sent /\ runner[s].id \in Nat
  BY PostTypes DEF Unrecorded
<1>9. /\ \A d \in Days, k \in Kinds : rows[<<d, k>>] # sent + 1
      /\ \A s \in Runners : At(s, "delete") => sent + 1 \notin runner[s].prior
      /\ \A s \in Runners : Recording(s) => runner[s].id # sent + 1
      /\ \A p \in standing : p.id # sent + 1
  BY <1>2, <1>3, <1>4, <1>7, <1>8 DEF IdsAreOwn
<1> HIDE DEF new
<1>10. IdsAreOwn'
  <2>1. \A p \in standing' : p.id <= sent'
    BY <1>1, <1>2, <1>3 DEF IdsAreOwn
  <2>2. \A p, q \in standing' : p.id = q.id => p = q
    BY <1>1, <1>2, <1>9 DEF IdsAreOwn
  <2>3. \A d \in Days, k \in Kinds :
          /\ rows'[<<d, k>>] <= sent'
          /\ \A p \in standing' : p.id = rows'[<<d, k>>] => p.day = d
    <3> TAKE d \in Days, k \in Kinds
    <3>1. rows'[<<d, k>>] = rows[<<d, k>>]
      OBVIOUS
    <3>2. rows[<<d, k>>] <= sent + 1 /\ rows[<<d, k>>] # sent + 1
      BY <1>2, <1>4, <1>9
    <3>3. \A p \in standing : p.id = rows[<<d, k>>] => p.day = d
      BY DEF IdsAreOwn
    <3> QED
      BY <1>1, <1>2, <3>1, <3>2, <3>3
  <2>4. ASSUME NEW s \in Runners, At(s, "delete")', NEW id \in runner'[s].prior
        PROVE  /\ id <= sent'
               /\ \A p \in standing' : p.id = id => p.day = runner'[s].day
    <3>1. At(s, "delete") /\ runner'[s] = runner[s]
      BY <1>5, <2>4
    <3>2. id <= sent /\ id \in Nat /\ id # sent + 1
      BY <1>7, <1>9, <2>4, <3>1
    <3>3. id <= sent'
      BY <1>1, <1>2, <3>2
    <3> QED
      BY <1>1, <1>2, <2>4, <3>1, <3>2, <3>3 DEF IdsAreOwn
  <2> QED
    BY <2>1, <2>2, <2>3, <2>4 DEF IdsAreOwn
<1>11. Unrecorded'
  <2>1. ASSUME NEW s \in Runners, Recording(s)'
        PROVE  /\ runner'[s].id # 0 /\ runner'[s].id <= sent'
               /\ [id |-> runner'[s].id, day |-> runner'[s].day,
                   kind |-> IF At(s, "record_text")' THEN "daily_text" ELSE "daily_photo"]
                    \in standing'
               /\ \A dk \in Days \X Kinds : rows'[dk] # runner'[s].id
    <3>1. CASE s = r
      BY <1>1, <1>2, <1>9, <3>1 DEF new
    <3>2. CASE s # r
      <4>1. Recording(s) /\ runner'[s] = runner[s]
            /\ (At(s, "record_text")' <=> At(s, "record_text"))
        BY <1>6, <2>1, <3>2 DEF At
      <4>2. runner'[s].id <= sent'
        BY <1>1, <1>2, <1>8, <4>1
      <4> QED
        BY <1>1, <4>1, <4>2 DEF Unrecorded
    <3> QED
      BY <3>1, <3>2
  <2>2. ASSUME NEW s \in Runners, Recording(s)', NEW t \in Runners
        PROVE  /\ At(t, "delete")' => runner'[s].id \notin runner'[t].prior
               /\ t # s /\ Recording(t)' => runner'[t].id # runner'[s].id
    BY <1>1, <1>5, <1>6, <1>9, <2>2 DEF Unrecorded
  <2> QED
    BY <2>1, <2>2 DEF Unrecorded
<1>12. RowsStand'
  <2>1. \A d \in Days, s \in Runners : Replacing(s, d) => Replacing(s, d)'
    BY <1>1 DEF Replacing, At
  <2> QED
    BY <1>1, <2>1 DEF RowsStand
<1> QED
  BY <1>10, <1>11, <1>12

\* A row is written for what stands, and its message is new no more.
LEMMA PostsRecord ==
  ASSUME TypeOK, PostsInv, NEW r \in Runners, record_text(r) \/ record_photo(r)
  PROVE  PostsInv'
<1> USE DEF PostsInv
<1> DEFINE kind == IF At(r, "record_text") THEN "daily_text" ELSE "daily_photo"
<1>1. /\ Recording(r) /\ UNCHANGED <<standing, sent, cut>> /\ kind \in Kinds
      /\ rows' = [rows EXCEPT ![<<runner[r].day, kind>>] = runner[r].id]
  BY DEF record_text, record_photo, record, Recording, At, Kinds
<1>2. /\ runner'[r].step \in {"chart", "idle"}
      /\ \A s \in Runners \ {r} : runner'[s] = runner[s]
  BY GoesOn, Finishes, IdleState DEF record_text, record_photo, TypeOK, RunnerStates, Steps
<1>3. /\ [id |-> runner[r].id, day |-> runner[r].day, kind |-> kind] \in standing
      /\ runner[r].id <= sent /\ runner[r].day \in Days
  BY <1>1 DEF Unrecorded, TypeOK
<1> HIDE DEF kind
<1>4. \A d \in Days, k \in Kinds :
        rows'[<<d, k>>] = IF d = runner[r].day /\ k = kind THEN runner[r].id ELSE rows[<<d, k>>]
  BY <1>1, <1>3 DEF TypeOK
<1>5. \A s \in Runners : Recording(s)' => s # r /\ Recording(s) /\ runner'[s] = runner[s]
  BY <1>2 DEF Recording, At
<1>6. \A s \in Runners : At(s, "delete")' => s # r /\ At(s, "delete") /\ runner'[s] = runner[s]
  BY <1>2 DEF At
<1>7. \A p \in standing : p.id = runner[r].id => p.day = runner[r].day
  BY <1>3 DEF IdsAreOwn
<1>8. IdsAreOwn'
  <2>1. \A d \in Days, k \in Kinds :
          /\ rows'[<<d, k>>] <= sent
          /\ \A p \in standing : p.id = rows'[<<d, k>>] => p.day = d
    <3> TAKE d \in Days, k \in Kinds
    <3>1. CASE d = runner[r].day /\ k = kind
      BY <1>3, <1>4, <1>7, <3>1
    <3>2. CASE ~(d = runner[r].day /\ k = kind)
      <4>1. rows'[<<d, k>>] = rows[<<d, k>>]
        BY <1>4, <3>2
      <4> QED
        BY <4>1 DEF IdsAreOwn
    <3> QED
      BY <3>1, <3>2
  <2>2. /\ \A p \in standing : p.id <= sent
        /\ \A p, q \in standing : p.id = q.id => p = q
    BY DEF IdsAreOwn
  <2> QED
    BY <1>1, <1>6, <2>1, <2>2, PriorsStay DEF IdsAreOwn
<1>9. Unrecorded'
  <2>1. ASSUME NEW s \in Runners, Recording(s)'
        PROVE  \A dk \in Days \X Kinds : rows'[dk] # runner'[s].id
    <3>1. s # r /\ Recording(s) /\ runner'[s] = runner[s]
      BY <1>5, <2>1
    <3>2. runner[s].id # runner[r].id
      BY <1>1, <3>1 DEF Unrecorded
    <3>3. \A dk \in Days \X Kinds : rows[dk] # runner[s].id
      BY <3>1 DEF Unrecorded
    <3>4. \A dk \in Days \X Kinds : rows'[dk] = runner[r].id \/ rows'[dk] = rows[dk]
      BY <1>1 DEF TypeOK
    <3> QED
      BY <3>1, <3>2, <3>3, <3>4
  <2> QED
    BY <1>1, <1>5, <1>6, <2>1 DEF Unrecorded, At
<1>10. RowsStand'
  <2>1. \A d \in Days, s \in Runners : Replacing(s, d) => Replacing(s, d)'
    BY <1>1, <1>2 DEF Replacing, Recording, At
  <2>2. ASSUME ~cut, NEW d \in Days, NEW k \in Kinds, rows'[<<d, k>>] # 0,
               \A s \in Runners : ~Replacing(s, d)'
        PROVE  [id |-> rows'[<<d, k>>], day |-> d, kind |-> k] \in standing
    BY <1>3, <1>4, <2>1, <2>2 DEF RowsStand
  <2> QED
    BY <1>1, <2>2 DEF RowsStand
<1> QED
  BY <1>8, <1>9, <1>10

LEMMA PostsRun ==
  ASSUME TypeOK, SentInTime, PostsInv, NEW r \in Runners, Run(r)
  PROVE  PostsInv'
<1>1. runner \in [Runners -> RunnerStates]
  BY DEF TypeOK, RunnerStates
<1>2. ASSUME Finish(r), UNCHANGED posts, cut' = cut \/ cut', ~At(r, "delete"),
             At(r, "drop") => cut'
      PROVE  PostsInv'
  BY <1>1, <1>2, Finishes, IdleState, PostsStay DEF At, Recording
<1>3. ASSUME Summarised(r), UNCHANGED posts, cut' = cut \/ cut',
             ~At(r, "delete"), ~At(r, "drop")
      PROVE  PostsInv'
  BY <1>3, SummaryEnds, PostsStay DEF At, Recording
<1>4. CASE send_message(r) \/ send_photo(r)
  <2>1. ~At(r, "delete") /\ ~At(r, "drop") /\ UNCHANGED <<rows, cut>> /\ ToSend(r) >= 1
    BY <1>4 DEF send_message, send_photo, send, At, ToSend
  <2>2. sent + 1 \in MessageIds
    BY <2>1, IdsSuffice
  <2>3. CASE Finish(r) /\ UNCHANGED <<standing, sent>>
    BY <1>2, <2>1, <2>3 DEF posts
  <2>4. CASE SendsOne(r, "daily_text", "record_text") \/ SendsOne(r, "daily_photo", "record_photo")
    BY <2>1, <2>2, <2>4, PostsSend
  <2> QED
    BY <1>4, <2>2, <2>3, <2>4, SendMoves DEF send_message, send_photo, Steps
<1>5. CASE render_chart(r)
  <2>1. UNCHANGED posts /\ cut' = cut /\ ~At(r, "delete") /\ ~At(r, "drop")
    BY <1>5 DEF render_chart, At
  <2> QED
    BY <1>5, <2>1, ChartMoves, PostsStay DEF At, Recording
<1>6. CASE preflight(r) \/ try_reserve(r) \/ chat(r) \/ reconcile(r)
  <2>1. UNCHANGED posts /\ cut' = cut /\ ~At(r, "delete") /\ ~At(r, "drop") /\ ~Recording(r)
    BY <1>6 DEF preflight, try_reserve, chat, reconcile, At, Recording
  <2>2. CASE Goto(r, "reserve")
    BY <1>1, <2>1, <2>2, GoesOn, PostsStay DEF At, Recording, Steps
  <2>3. CASE Reserves(r)
    BY <2>1, <2>3, PostsStay DEF At, Recording, Reserves
  <2>4. ASSUME NEW used \in Uses, AnswersWith(r, used)
        PROVE  PostsInv'
    BY <2>1, <2>4, PostsStay DEF At, Recording, AnswersWith
  <2>5. CASE TriesAgain(r)
    BY <2>1, <2>5, PostsStay DEF At, Recording, TriesAgain
  <2> QED
    BY <1>2, <1>3, <1>6, <2>1, <2>2, <2>3, <2>4, <2>5, ReserveMoves, ChatMoves
       DEF preflight, reconcile
<1>7. CASE database_fails(r)
  <2>1. UNCHANGED posts /\ cut' = TRUE /\ ~At(r, "delete")
    BY <1>7 DEF database_fails, At
  <2>2. CASE Finish(r)
    BY <1>2, <2>1, <2>2
  <2> QED
    BY <1>3, <1>7, <2>1, <2>2 DEF database_fails, At
<1> QED
  BY <1>4, <1>5, <1>6, <1>7, PostsPrior, PostsDelete, PostsDrop, PostsRecord DEF Run

LEMMA PostsStep ==
  ASSUME TypeOK, SentInTime, PostsInv, [Next]_vars
  PROVE  PostsInv'
<1>1. runner \in [Runners -> RunnerStates] /\ day \in Days
  BY DEF TypeOK, RunnerStates
<1>2. CASE UNCHANGED <<posts, cut, runner>>
  BY <1>2 DEF posts, PostsInv, IdsAreOwn, Unrecorded, RowsStand, Recording, Replacing, At
<1>3. ASSUME NEW r \in Runners, NEW first \in RunnerStates, At(r, "idle"), Begin(r, first),
             first.step \in {"prior", "preflight"}, UNCHANGED <<posts, cut>>
      PROVE  PostsInv'
  <2>1. runner'[r] = first /\ \A s \in Runners \ {r} : runner'[s] = runner[s]
    BY <1>1, <1>3, OneMoves DEF Begin
  <2> QED
    BY <1>3, <2>1, PostsStay DEF At, Recording
<1>4. CASE tick
  BY <1>1, <1>2, <1>3, <1>4, IdleState DEF tick, Runners
<1>5. CASE report
  BY <1>1, <1>3, <1>5, IdleState DEF report, Runners
<1>6. CASE summary
  <2> DEFINE first == [IdleRunner EXCEPT !.step = "preflight"]
  <2>1. first \in RunnerStates /\ first.step = "preflight"
    BY IdleState DEF RunnerStates, Steps
  <2>2. At("worker", "idle") /\ Begin("worker", first) /\ UNCHANGED <<posts, cut>>
    BY <1>6 DEF summary
  <2> HIDE DEF first
  <2> QED
    BY <1>3, <2>1, <2>2 DEF Runners
<1>7. CASE Crash
  <2>1. /\ \A r \in Runners : runner'[r].step = "idle"
        /\ UNCHANGED <<rows, standing, sent>>
        /\ ~cut' => ~cut /\ \A r \in Runners : At(r, "idle")
    BY <1>7, IdleState DEF Crash, posts
  <2>2. IdsAreOwn' /\ Unrecorded'
    BY <2>1 DEF PostsInv, IdsAreOwn, Unrecorded, Recording, At
  <2>3. RowsStand'
    <3>1. ~cut' => \A r \in Runners, d \in Days : ~Replacing(r, d)
      BY <2>1 DEF Replacing, At
    <3> QED
      BY <2>1, <3>1 DEF PostsInv, RowsStand
  <2> QED
    BY <2>2, <2>3 DEF PostsInv
<1>8. CASE UNCHANGED vars \/ next_slot \/ next_date
  BY <1>2, <1>8 DEF vars, next_slot, next_date
<1> QED
  BY <1>4, <1>5, <1>6, <1>7, <1>8, PostsRun DEF Next

-----------------------------------------------------------------------------
(* Numbers of the budget *)

\* Least and Most are what they are called.
LEMMA Bounds ==
  /\ Least \in Nat /\ Most \in Nat /\ Spread = Most - Least
  /\ Least <= Reserve /\ Reserve <= Most
  /\ \A used \in Uses : used \in Nat /\ Least <= used /\ used <= Most
<1> DEFINE S == Uses \cup {Reserve}
<1>1. S \in SUBSET Int /\ S \subseteq Nat /\ S # {} /\ Reserve \in S /\ Uses \subseteq S
  BY Numbers
<1>2. IsFiniteSet(S)
  BY ReportsConstantsOK, FS_AddElement
<1>3. Least = Min(S) /\ Most = Max(S) /\ Spread = Max(S) - Min(S)
  BY DEF Least, Most, Spread
<1> HIDE DEF S
<1>4. /\ \E m \in S : \A n \in S : m >= n
      /\ \E m \in S : \A n \in S : m <= n
  BY <1>1, <1>2, LargestAndSmallest
<1>5. Max(S) \in S /\ \A n \in S : Max(S) >= n
  BY <1>4 DEF Max
<1>6. Min(S) \in S /\ \A n \in S : Min(S) <= n
  BY <1>4 DEF Min
<1>7. Max(S) \in Nat /\ Min(S) \in Nat
  BY <1>1, <1>5, <1>6
<1>8. \A n \in S : n \in Nat /\ Min(S) <= n /\ n <= Max(S)
  BY <1>1, <1>5, <1>6
<1> QED
  BY <1>1, <1>3, <1>7, <1>8

BudgetTyped ==
  /\ date \in Dates
  /\ tokens \in [Dates -> Int] /\ spent \in [Dates -> Int]
  /\ SumFunction(spent) \in Int /\ SumFunction(tokens) \in Int
  /\ \A d \in Dates : tokens[d] \in Int /\ spent[d] \in Int
  /\ \A r \in Runners :
       /\ runner[r].date \in Dates /\ runner[r].used \in Nat
       /\ Reserved(r) \in Nat /\ Unbooked(r) \in Int /\ Margin(r) \in Int
       /\ \A d \in Dates : Open(r, d) \in Nat

LEMMA BudgetTypes == TypeOK => BudgetTyped
<1> SUFFICES ASSUME TypeOK PROVE BudgetTyped
  OBVIOUS
<1>1. /\ date \in Dates /\ tokens \in [Dates -> Int] /\ spent \in [Dates -> Int]
      /\ \A d \in Dates : tokens[d] \in Int /\ spent[d] \in Int
  BY DEF TypeOK
<1>2. SumFunction(spent) \in Int /\ SumFunction(tokens) \in Int
  BY <1>1, Numbers, SumType
<1>3. ASSUME NEW r \in Runners
      PROVE  /\ runner[r].date \in Dates /\ runner[r].used \in Nat
             /\ Reserved(r) \in Nat /\ Unbooked(r) \in Int /\ Margin(r) \in Int
             /\ \A d \in Dates : Open(r, d) \in Nat
  <2>1. runner[r] \in RunnerStates
    BY DEF TypeOK, RunnerStates
  <2>2. {0} \cup Uses \subseteq Nat
    BY Numbers
  <2>3. runner[r].date \in Dates /\ runner[r].used \in {0} \cup Uses
    BY <2>1 DEF RunnerStates
  <2>4. runner[r].used \in Nat
    BY <2>2, <2>3
  <2>5. Reserved(r) \in Nat /\ Unbooked(r) \in Int
    BY <2>4, Numbers DEF Reserved, Unbooked
  <2>6. Margin(r) \in Int /\ \A d \in Dates : Open(r, d) \in Nat
    BY <2>5, Numbers, Bounds DEF Margin, Open
  <2> QED
    BY <2>3, <2>4, <2>5, <2>6
<1> QED
  BY <1>1, <1>2, <1>3 DEF BudgetTyped

LEMMA BudgetTypesNext == TypeOK' => BudgetTyped'
BY BudgetTypes, PTL

-----------------------------------------------------------------------------
(* What is used is charged *)

BudgetInv == Dated /\ AllCharged /\ TodayCharged /\ DatesAfforded

\* One runner moves, and the sums are no worse for what it does.
LEMMA AllStays ==
  ASSUME TypeOK, TypeOK', AllCharged, NEW r \in Runners,
         \A s \in Runners \ {r} : runner'[s] = runner[s], ~cut' => ~cut,
         NEW x \in Int, SumFunction(spent)' <= SumFunction(spent) + x,
         NEW y \in Int, SumFunction(tokens)' >= SumFunction(tokens) + y,
         x + Reserved(r)' - Unbooked(r)' <= y + Reserved(r) - Unbooked(r)
  PROVE  AllCharged'
<1>1. BudgetTyped /\ BudgetTyped'
  BY BudgetTypes, BudgetTypesNext
<1>2. \A s \in Runners \ {r} : Reserved(s)' = Reserved(s) /\ Unbooked(s)' = Unbooked(s)
  BY DEF Reserved, Unbooked, At
<1>3. SUFFICES ASSUME ~cut'
               PROVE  SumFunction(spent)' + Reserved("job")' + Reserved("worker")' <=
                        SumFunction(tokens)' + Unbooked("job")' + Unbooked("worker")'
  BY DEF AllCharged
<1>4. SumFunction(spent) + Reserved("job") + Reserved("worker") <=
        SumFunction(tokens) + Unbooked("job") + Unbooked("worker")
  BY <1>3 DEF AllCharged
<1>5. /\ SumFunction(spent) \in Int /\ SumFunction(tokens) \in Int
      /\ SumFunction(spent)' \in Int /\ SumFunction(tokens)' \in Int
      /\ \A s \in {"job", "worker"} :
           /\ Reserved(s) \in Int /\ Unbooked(s) \in Int
           /\ Reserved(s)' \in Int /\ Unbooked(s)' \in Int
  BY <1>1 DEF BudgetTyped, Runners
<1>6. CASE r = "job"
  <2>1. Reserved("worker")' = Reserved("worker") /\ Unbooked("worker")' = Unbooked("worker")
    BY <1>2, <1>6 DEF Runners
  <2>2. x + Reserved("job")' - Unbooked("job")' <= y + Reserved("job") - Unbooked("job")
    BY <1>6
  <2> QED
    BY <1>4, <1>5, <2>1, <2>2
<1>7. CASE r = "worker"
  <2>1. Reserved("job")' = Reserved("job") /\ Unbooked("job")' = Unbooked("job")
    BY <1>2, <1>7 DEF Runners
  <2>2. x + Reserved("worker")' - Unbooked("worker")'
          <= y + Reserved("worker") - Unbooked("worker")
    BY <1>7
  <2> QED
    BY <1>4, <1>5, <2>1, <2>2
<1> QED
  BY <1>6, <1>7 DEF Runners

LEMMA TodayStays ==
  ASSUME TypeOK, TypeOK', TodayCharged, NEW r \in Runners,
         \A s \in Runners \ {r} : runner'[s] = runner[s], ~cut' => ~cut, date' = date,
         spent'[date] - tokens'[date] - Margin(r)' <= spent[date] - tokens[date] - Margin(r)
  PROVE  TodayCharged'
<1>1. BudgetTyped /\ BudgetTyped'
  BY BudgetTypes, BudgetTypesNext
<1>2. \A s \in Runners \ {r} : Margin(s)' = Margin(s)
  BY DEF Margin, Reserved, Unbooked, Summarising, At
<1>3. SUFFICES ASSUME ~cut'
               PROVE  spent'[date] <= tokens'[date] + Margin("job")' + Margin("worker")'
  BY DEF TodayCharged
<1>4. spent[date] <= tokens[date] + Margin("job") + Margin("worker")
  BY <1>3 DEF TodayCharged
<1>5. /\ spent[date] \in Int /\ tokens[date] \in Int
      /\ spent'[date] \in Int /\ tokens'[date] \in Int
      /\ \A s \in {"job", "worker"} : Margin(s) \in Int /\ Margin(s)' \in Int
  BY <1>1 DEF BudgetTyped, Runners
<1>6. CASE r = "job"
  <2>1. Margin("worker")' = Margin("worker")
    BY <1>2, <1>6 DEF Runners
  <2>2. spent'[date] - tokens'[date] - Margin("job")'
          <= spent[date] - tokens[date] - Margin("job")
    BY <1>6
  <2> QED
    BY <1>4, <1>5, <2>1, <2>2
<1>7. CASE r = "worker"
  <2>1. Margin("job")' = Margin("job")
    BY <1>2, <1>7 DEF Runners
  <2>2. spent'[date] - tokens'[date] - Margin("worker")'
          <= spent[date] - tokens[date] - Margin("worker")
    BY <1>7
  <2> QED
    BY <1>4, <1>5, <2>1, <2>2
<1> QED
  BY <1>6, <1>7 DEF Runners

LEMMA DatesStay ==
  ASSUME TypeOK, TypeOK', DatesAfforded, NEW r \in Runners,
         \A s \in Runners \ {r} : runner'[s] = runner[s], ~cut' => ~cut,
         \A d \in Dates : spent'[d] + Open(r, d)' <= spent[d] + Open(r, d)
  PROVE  DatesAfforded'
<1>1. BudgetTyped /\ BudgetTyped'
  BY BudgetTypes, BudgetTypesNext
<1>2. \A s \in Runners \ {r} : \A d \in Dates : Open(s, d)' = Open(s, d)
  BY DEF Open, At
<1>3. SUFFICES ASSUME ~cut', NEW d \in Dates
               PROVE  spent'[d] + Open("job", d)' + Open("worker", d)' <= Budget + 2 * Spread
  BY DEF DatesAfforded
<1>4. spent[d] + Open("job", d) + Open("worker", d) <= Budget + 2 * Spread
  BY <1>3 DEF DatesAfforded
<1>5. /\ spent[d] \in Int /\ spent'[d] \in Int
      /\ \A s \in {"job", "worker"} : Open(s, d) \in Int /\ Open(s, d)' \in Int
      /\ Budget + 2 * Spread \in Int
  BY <1>1, Bounds, Numbers DEF BudgetTyped, Runners
<1>6. CASE r = "job"
  <2>1. Open("worker", d)' = Open("worker", d)
    BY <1>2, <1>6 DEF Runners
  <2>2. spent'[d] + Open("job", d)' <= spent[d] + Open("job", d)
    BY <1>6
  <2> QED
    BY <1>4, <1>5, <2>1, <2>2
<1>7. CASE r = "worker"
  <2>1. Open("job", d)' = Open("job", d)
    BY <1>2, <1>7 DEF Runners
  <2>2. spent'[d] + Open("worker", d)' <= spent[d] + Open("worker", d)
    BY <1>7
  <2> QED
    BY <1>4, <1>5, <2>1, <2>2
<1> QED
  BY <1>6, <1>7 DEF Runners

LEMMA DatedStays ==
  ASSUME TypeOK, Dated, NEW r \in Runners,
         \A s \in Runners \ {r} : runner'[s] = runner[s], date' = date,
         Summarising(r)' => runner'[r].date <= date,
         At(r, "reconcile")' => runner'[r].used \in Uses,
         \A d \in Dates : d > date => tokens'[d] = 0 /\ spent'[d] = 0
  PROVE  Dated'
BY DEF Dated, Summarising, At

\* A runner that is not summarising, or no longer is and says so, changes nothing.
LEMMA BudgetStays ==
  ASSUME TypeOK, TypeOK', BudgetInv, NEW r \in Runners,
         \A s \in Runners \ {r} : runner'[s] = runner[s],
         UNCHANGED <<date, budget>>, cut' = cut \/ cut',
         ~Summarising(r)', ~Summarising(r) \/ cut'
  PROVE  BudgetInv'
<1> USE DEF BudgetInv
<1>1. BudgetTyped /\ BudgetTyped'
  BY BudgetTypes, BudgetTypesNext
<1>2. UNCHANGED <<tokens, spent>>
  BY DEF budget
<1>3. Dated'
  BY <1>2, DatedStays DEF Dated, Summarising
<1>4. CASE cut'
  BY <1>3, <1>4 DEF AllCharged, TodayCharged, DatesAfforded
<1>5. CASE ~Summarising(r) /\ ~cut'
  <2>1. /\ Reserved(r)' = Reserved(r) /\ Unbooked(r)' = Unbooked(r)
        /\ Margin(r)' = Margin(r) /\ \A d \in Dates : Open(r, d)' = Open(r, d)
    BY <1>5 DEF Margin, Reserved, Unbooked, Open, Summarising, At
  <2>2. AllCharged'
    <3>1. 0 + Reserved(r)' - Unbooked(r)' <= 0 + Reserved(r) - Unbooked(r)
      BY <1>1, <2>1 DEF BudgetTyped
    <3>2. SumFunction(spent)' <= SumFunction(spent) + 0
          /\ SumFunction(tokens)' >= SumFunction(tokens) + 0
      BY <1>1, <1>2 DEF BudgetTyped
    <3> QED
      BY <1>5, <3>1, <3>2, AllStays
  <2>3. TodayCharged'
    <3>1. spent'[date] - tokens'[date] - Margin(r)' <= spent[date] - tokens[date] - Margin(r)
      BY <1>1, <1>2, <2>1 DEF BudgetTyped
    <3> QED
      BY <1>5, <3>1, TodayStays
  <2>4. DatesAfforded'
    <3>1. \A d \in Dates : spent'[d] + Open(r, d)' <= spent[d] + Open(r, d)
      BY <1>1, <1>2, <2>1 DEF BudgetTyped
    <3> QED
      BY <1>5, <3>1, DatesStay
  <2> QED
    BY <1>3, <2>2, <2>3, <2>4
<1> QED
  BY <1>4, <1>5

\* A reservation that the budget has room for: with what both runners may use
\* beyond their reservations the date stays within the budget and the margin.
LEMMA BudgetReserve ==
  ASSUME TypeOK, TypeOK', BudgetInv, NEW r \in Runners, At(r, "reserve"), Reserves(r),
         UNCHANGED <<date, spent, cut>>
  PROVE  BudgetInv'
<1> USE DEF BudgetInv
<1>1. BudgetTyped /\ BudgetTyped'
  BY BudgetTypes, BudgetTypesNext
<1>2. /\ tokens[date] + Reserve <= Budget
      /\ runner'[r].step = "openai" /\ runner'[r].date = date
      /\ \A s \in Runners \ {r} : runner'[s] = runner[s]
  BY DEF Reserves, Affordable
<1>3. /\ date \in Dates /\ tokens[date] \in Int /\ tokens'[date] = tokens[date] + Reserve
      /\ \A d \in Dates \ {date} : tokens'[d] = tokens[d]
      /\ Reserve \in Nat
  BY <1>1, Numbers DEF Reserves, BudgetTyped
<1>4. Dated'
  <2>1. \A d \in Dates : d > date => tokens'[d] = 0 /\ spent'[d] = 0
    BY <1>3 DEF Dated, Dates
  <2>2. runner'[r].date <= date
    BY <1>2, <1>3, Numbers DEF Dates
  <2> QED
    BY <1>2, <2>1, <2>2, DatedStays DEF Summarising, At
<1>5. /\ Reserved(r) = 0 /\ Unbooked(r) = 0 /\ Margin(r) = (Reserve - Least)
      /\ Reserved(r)' = Reserve /\ Unbooked(r)' = 0 /\ Margin(r)' = (Reserve - Least) - Reserve
  BY <1>2, <1>3, Bounds DEF Reserved, Unbooked, Margin, Summarising, At
<1>6. AllCharged'
  <2>1. SumFunction(tokens') = SumFunction(tokens) + Reserve
    BY <1>1, <1>3, Numbers, SumChanges DEF BudgetTyped
  <2>2. SumFunction(spent)' <= SumFunction(spent) + 0
        /\ SumFunction(tokens)' >= SumFunction(tokens) + Reserve
    BY <1>1, <2>1 DEF BudgetTyped
  <2>3. 0 + Reserved(r)' - Unbooked(r)' <= Reserve + Reserved(r) - Unbooked(r)
    BY <1>3, <1>5
  <2> QED
    BY <1>2, <1>3, <2>2, <2>3, AllStays
<1>7. TodayCharged'
  <2>1. spent'[date] - tokens'[date] - Margin(r)' <= spent[date] - tokens[date] - Margin(r)
    BY <1>1, <1>3, <1>5, Bounds DEF BudgetTyped
  <2> QED
    BY <1>2, <2>1, TodayStays
<1>8. DatesAfforded'
  <2> SUFFICES ASSUME ~cut', NEW d \in Dates
               PROVE  spent[d] + Open("job", d)' + Open("worker", d)' <= Budget + 2 * Spread
    BY DEF DatesAfforded
  <2>1. CASE d # date
    <3>1. \A s \in Runners : Open(s, d)' = Open(s, d)
      BY <1>2, <2>1 DEF Open, At
    <3> QED
      BY <3>1 DEF DatesAfforded, Runners
  <2>2. CASE d = date
    \* What r has open beside its margin, be it summarising or not.
    <3>1. \A s \in Runners : Margin(s)' + Open(s, date)' <= Spread
      <4> TAKE s \in Runners
      <4>1. CASE At(s, "openai")'
        BY <1>1, <1>3, <4>1, Bounds DEF Margin, Open, Summarising, Reserved, Unbooked, At
      <4>2. CASE At(s, "reconcile")'
        <5>1. runner'[s].used \in Uses
          BY <1>4, <4>2 DEF Dated
        <5>2. runner'[s].used \in Nat /\ runner'[s].used <= Most
          BY <5>1, Bounds
        <5> QED
          BY <1>1, <1>3, <4>2, <5>2, Bounds
             DEF Margin, Open, Summarising, Reserved, Unbooked, At
      <4>3. CASE ~At(s, "openai")' /\ ~At(s, "reconcile")'
        BY <1>3, <4>3, Bounds DEF Margin, Open, Summarising, Reserved, Unbooked, At
      <4> QED
        BY <4>1, <4>2, <4>3
    <3>2. spent[date] <= tokens'[date] + Margin("job")' + Margin("worker")'
      BY <1>7 DEF TodayCharged
    <3>3. /\ spent[date] \in Int /\ Budget \in Int /\ Spread \in Int
          /\ \A s \in {"job", "worker"} : Margin(s)' \in Int /\ Open(s, date)' \in Int
      BY <1>1, <1>3, Numbers, Bounds DEF BudgetTyped, Runners
    <3>4. tokens'[date] <= Budget /\ tokens'[date] \in Int
      BY <1>2, <1>3, Numbers
    <3>5. /\ Margin("job")' + Open("job", date)' <= Spread
          /\ Margin("worker")' + Open("worker", date)' <= Spread
      BY <3>1 DEF Runners
    <3>6. spent[date] + Open("job", date)' + Open("worker", date)' <= Budget + 2 * Spread
      BY <3>2, <3>3, <3>4, <3>5
    <3> QED
      BY <2>2, <3>6
  <2> QED
    BY <2>1, <2>2
<1> QED
  BY <1>4, <1>6, <1>7, <1>8

\* An answer names no more than what was held open for it.
LEMMA BudgetAnswer ==
  ASSUME TypeOK, TypeOK', BudgetInv, NEW r \in Runners, At(r, "openai"),
         NEW used \in Uses, AnswersWith(r, used), UNCHANGED <<date, tokens, cut>>
  PROVE  BudgetInv'
<1> USE DEF BudgetInv
<1>1. BudgetTyped /\ BudgetTyped'
  BY BudgetTypes, BudgetTypesNext
<1> DEFINE d == runner[r].date
<1>2. /\ runner'[r].step = "reconcile" /\ runner'[r].used = used /\ runner'[r].date = d
      /\ \A s \in Runners \ {r} : runner'[s] = runner[s]
      /\ spent' = [spent EXCEPT ![d] = @ + used]
  BY DEF AnswersWith
<1>3. /\ d \in Dates /\ date \in Dates /\ d <= date
      /\ spent'[d] = spent[d] + used /\ \A e \in Dates \ {d} : spent'[e] = spent[e]
      /\ used \in Nat /\ used <= Most /\ Least <= used /\ Reserve \in Nat
  BY <1>1, <1>2, Numbers, Bounds DEF BudgetTyped, Dated, Summarising
<1> HIDE DEF d
<1>4. Dated'
  <2>1. \A e \in Dates : e > date => tokens'[e] = 0 /\ spent'[e] = 0
    BY <1>3, Numbers DEF Dated, Dates
  <2> QED
    BY <1>2, <1>3, <2>1, DatedStays DEF Summarising, At
<1>5. /\ Reserved(r) = Reserve /\ Unbooked(r) = 0
      /\ Reserved(r)' = 0 /\ Unbooked(r)' = used - Reserve
  BY <1>2 DEF Reserved, Unbooked, At
<1>6. AllCharged'
  <2>1. SumFunction(spent') = SumFunction(spent) + used
    BY <1>1, <1>3, Numbers, SumChanges DEF BudgetTyped
  <2>2. SumFunction(spent)' <= SumFunction(spent) + used
        /\ SumFunction(tokens)' >= SumFunction(tokens) + 0
    BY <1>1, <2>1 DEF BudgetTyped
  <2>3. used + Reserved(r)' - Unbooked(r)' <= 0 + Reserved(r) - Unbooked(r)
    BY <1>3, <1>5
  <2>4. AllCharged /\ (~cut' => ~cut) /\ 0 \in Int /\ used \in Int
    BY <1>3
  <2> HIDE DEF BudgetInv
  <2> QED
    BY <1>2, <2>2, <2>3, <2>4, AllStays
<1>7. TodayCharged'
  <2>1. CASE d = date
    <3>1. /\ Margin(r) = (Reserve - Least) + 0 - Reserve
          /\ Margin(r)' = (Reserve - Least) + (used - Reserve) - 0
      BY <1>2, <1>5, <2>1 DEF Margin, d
    <3>2. spent'[date] - tokens'[date] - Margin(r)' <= spent[date] - tokens[date] - Margin(r)
      BY <1>1, <1>3, <2>1, <3>1, Bounds DEF BudgetTyped
    <3> QED
      BY <1>2, <3>2, TodayStays
  <2>2. CASE d # date
    <3>1. Margin(r) = 0 /\ Margin(r)' = 0 /\ spent'[date] = spent[date]
      BY <1>2, <1>3, <2>2 DEF Margin, Summarising, At, d
    <3>2. spent'[date] - tokens'[date] - Margin(r)' <= spent[date] - tokens[date] - Margin(r)
      BY <1>1, <1>3, <3>1 DEF BudgetTyped
    <3> QED
      BY <1>2, <3>2, TodayStays
  <2> QED
    BY <2>1, <2>2
<1>8. DatesAfforded'
  <2>1. ASSUME NEW e \in Dates
        PROVE  spent'[e] + Open(r, e)' <= spent[e] + Open(r, e)
    <3>1. Open(r, e)' = 0
      BY <1>2 DEF Open, At
    <3>2. spent[e] \in Int
      BY <1>1 DEF BudgetTyped
    <3>3. CASE e = d
      <4>1. Open(r, e) = Most
        BY <3>3 DEF Open, d
      <4> QED
        BY <1>3, <3>1, <3>2, <3>3, <4>1, Bounds
    <3>4. CASE e # d
      <4>1. Open(r, e) = 0
        BY <3>4 DEF Open, d
      <4> QED
        BY <1>3, <3>1, <3>2, <3>4, <4>1
    <3> QED
      BY <3>3, <3>4
  <2> QED
    BY <1>2, <2>1, DatesStay
<1> QED
  BY <1>4, <1>6, <1>7, <1>8

\* An attempt that fails uses nothing; what is reserved stays charged at the end.
LEMMA BudgetGivesUp ==
  ASSUME TypeOK, TypeOK', BudgetInv, NEW r \in Runners, At(r, "openai"),
         TriesAgain(r) \/ Finish(r), UNCHANGED <<date, budget, cut>>
  PROVE  BudgetInv'
<1> USE DEF BudgetInv
<1>1. BudgetTyped /\ BudgetTyped'
  BY BudgetTypes, BudgetTypesNext
<1>2. UNCHANGED <<tokens, spent>>
  BY DEF budget
<1>3. /\ \A s \in Runners \ {r} : runner'[s] = runner[s]
      /\ \/ runner'[r].step = "openai" /\ runner'[r].date = runner[r].date
         \/ runner'[r].step = "idle"
  BY Finishes, IdleState DEF TypeOK, RunnerStates, TriesAgain, Remembers, At
<1>4. Dated'
  <2>1. Summarising(r)' => runner'[r].date <= date
    BY <1>3 DEF Dated, Summarising, At
  <2>2. ~At(r, "reconcile")'
    BY <1>3 DEF At
  <2> QED
    BY <1>2, <1>3, <2>1, <2>2, DatedStays DEF Dated
<1>5. /\ Unbooked(r) = 0 /\ Unbooked(r)' = 0
      /\ Reserved(r)' <= Reserved(r) /\ Margin(r)' >= Margin(r)
      /\ \A d \in Dates : Open(r, d)' <= Open(r, d)
  <2>1. Unbooked(r) = 0 /\ Unbooked(r)' = 0
    BY <1>3 DEF Unbooked, At
  <2>2. CASE runner'[r].step = "openai" /\ runner'[r].date = runner[r].date
    <3>1. Reserved(r)' = Reserved(r) /\ Margin(r)' = Margin(r)
          /\ \A d \in Dates : Open(r, d)' = Open(r, d)
      BY <2>1, <2>2 DEF Reserved, Margin, Open, Summarising, At
    <3> QED
      BY <1>1, <2>1, <3>1 DEF BudgetTyped
  <2>3. CASE runner'[r].step = "idle"
    <3>1. Reserved(r)' = 0 /\ Reserved(r) = Reserve
      BY <2>3 DEF Reserved, At
    <3>2. Margin(r)' = (Reserve - Least) + 0 - 0
      BY <2>1, <2>3, <3>1 DEF Margin, Summarising, At
    <3>3. Margin(r) \in {0, (Reserve - Least) + 0 - Reserve}
      BY <2>1, <3>1 DEF Margin
    <3>4. \A d \in Dates : Open(r, d)' = 0 /\ Open(r, d) \in Nat
      BY <1>1, <2>3 DEF Open, At, BudgetTyped
    <3> QED
      BY <2>1, <3>1, <3>2, <3>3, <3>4, Numbers, Bounds
  <2> QED
    BY <1>3, <2>2, <2>3
<1>6. AllCharged'
  <2>1. 0 + Reserved(r)' - Unbooked(r)' <= 0 + Reserved(r) - Unbooked(r)
    BY <1>1, <1>5 DEF BudgetTyped
  <2>2. SumFunction(spent)' <= SumFunction(spent) + 0
        /\ SumFunction(tokens)' >= SumFunction(tokens) + 0
    BY <1>1, <1>2 DEF BudgetTyped
  <2> QED
    BY <1>3, <2>1, <2>2, AllStays
<1>7. TodayCharged'
  <2>1. spent'[date] - tokens'[date] - Margin(r)' <= spent[date] - tokens[date] - Margin(r)
    BY <1>1, <1>2, <1>5 DEF BudgetTyped
  <2> QED
    BY <1>3, <2>1, TodayStays
<1>8. DatesAfforded'
  <2>1. \A d \in Dates : spent'[d] + Open(r, d)' <= spent[d] + Open(r, d)
    BY <1>1, <1>2, <1>5 DEF BudgetTyped
  <2> QED
    BY <1>3, <2>1, DatesStay
<1> QED
  BY <1>4, <1>6, <1>7, <1>8

\* The difference is booked: on the date of the reservation it makes up for it,
\* on a later one it takes the margin the runner had left.
LEMMA BudgetReconcile ==
  ASSUME TypeOK, TypeOK', BudgetInv, NEW r \in Runners, reconcile(r)
  PROVE  BudgetInv'
<1> USE DEF BudgetInv
<1>1. BudgetTyped /\ BudgetTyped'
  BY BudgetTypes, BudgetTypesNext
<1> DEFINE used == runner[r].used
<1>2. /\ At(r, "reconcile") /\ UNCHANGED <<date, spent, cut>>
      /\ tokens' = [tokens EXCEPT ![date] = @ + used - Reserve]
      /\ \A s \in Runners \ {r} : runner'[s] = runner[s]
      /\ runner'[r].step \in {"photo", "idle"}
  BY SummaryEnds DEF reconcile, time
<1>3. used \in Nat /\ Least <= used /\ used <= Most /\ Reserve \in Nat /\ date \in Dates
  <2>1. used \in Uses
    BY <1>2 DEF Dated
  <2> QED
    BY <1>1, <2>1, Bounds, Numbers DEF BudgetTyped
<1>4. /\ tokens[date] \in Int /\ tokens'[date] = tokens[date] + (used - Reserve)
      /\ \A d \in Dates \ {date} : tokens'[d] = tokens[d]
  BY <1>1, <1>2, <1>3 DEF BudgetTyped
<1>5. /\ Reserved(r) = 0 /\ Reserved(r)' = 0
      /\ Unbooked(r) = used - Reserve /\ Unbooked(r)' = 0
      /\ Margin(r)' = (Reserve - Least) + 0 - 0
      /\ \A d \in Dates : Open(r, d) = 0 /\ Open(r, d)' = 0
  BY <1>2 DEF Reserved, Unbooked, Margin, Open, Summarising, At
<1>6. Margin(r) = IF runner[r].date # date THEN 0 ELSE (Reserve - Least) + (used - Reserve) - 0
  BY <1>2, <1>5 DEF Margin, Summarising
<1> HIDE DEF used
<1>7. Dated'
  <2>1. \A d \in Dates : d > date => tokens'[d] = 0 /\ spent'[d] = 0
    BY <1>2, <1>3, <1>4, Numbers DEF Dated, Dates
  <2> QED
    BY <1>2, <2>1, DatedStays DEF Summarising, At
<1>8. AllCharged'
  <2>1. SumFunction(tokens') = SumFunction(tokens) + (used - Reserve)
    BY <1>1, <1>3, <1>4, Numbers, SumChanges DEF BudgetTyped
  <2>2. SumFunction(spent)' <= SumFunction(spent) + 0
        /\ SumFunction(tokens)' >= SumFunction(tokens) + (used - Reserve)
    BY <1>1, <1>2, <2>1 DEF BudgetTyped
  <2>3. 0 + Reserved(r)' - Unbooked(r)' <= (used - Reserve) + Reserved(r) - Unbooked(r)
    BY <1>3, <1>5
  <2>4. used - Reserve \in Int
    BY <1>3
  <2>5. AllCharged /\ (~cut' => ~cut) /\ 0 \in Int
    BY <1>2
  <2> DEFINE y == used - Reserve
  <2>6. /\ y \in Int /\ SumFunction(tokens)' >= SumFunction(tokens) + y
        /\ 0 + Reserved(r)' - Unbooked(r)' <= y + Reserved(r) - Unbooked(r)
    BY <2>2, <2>3, <2>4
  <2> HIDE DEF y, BudgetInv
  <2> QED
    BY <1>2, <2>2, <2>5, <2>6, AllStays
<1>9. TodayCharged'
  <2>1. spent'[date] - tokens'[date] - Margin(r)' <= spent[date] - tokens[date] - Margin(r)
    <3>1. spent[date] \in Int /\ spent'[date] = spent[date]
      BY <1>1, <1>2 DEF BudgetTyped
    <3> QED
      BY <1>3, <1>4, <1>5, <1>6, <3>1, Bounds
  <2> QED
    BY <1>2, <2>1, TodayStays
<1>10. DatesAfforded'
  <2>1. \A d \in Dates : spent'[d] + Open(r, d)' <= spent[d] + Open(r, d)
    BY <1>1, <1>2, <1>5 DEF BudgetTyped
  <2> QED
    BY <1>2, <2>1, DatesStay
<1> QED
  BY <1>7, <1>8, <1>9, <1>10

\* Midnight of the database: the new date has its margin before it, and the old
\* one has been afforded.
LEMMA BudgetMidnight ==
  ASSUME TypeOK, TypeOK', BudgetInv, next_date
  PROVE  BudgetInv'
<1> USE DEF BudgetInv
<1>1. BudgetTyped /\ BudgetTyped'
  BY BudgetTypes, BudgetTypesNext
<1>2. date' = date + 1 /\ UNCHANGED <<tokens, spent, cut, runner>>
  BY DEF next_date, budget
<1>3. date \in Int /\ Dates \subseteq Int /\ date' \in Dates
  BY <1>1, Numbers DEF BudgetTyped, Dates
<1>4. \A r \in Runners : runner[r].date \in Int
  BY <1>1, <1>3 DEF BudgetTyped
<1>5. Dated'
  <2>1. \A d \in Dates : d > date' => tokens[d] = 0 /\ spent[d] = 0
    BY <1>2, <1>3 DEF Dated
  <2>2. \A r \in Runners : Summarising(r) => runner[r].date <= date'
    BY <1>2, <1>3, <1>4 DEF Dated
  <2> QED
    BY <1>2, <2>1, <2>2 DEF Dated, Summarising, At
<1>6. AllCharged' /\ DatesAfforded'
  BY <1>2 DEF AllCharged, DatesAfforded, Reserved, Unbooked, Open, At
<1>7. TodayCharged'
  <2>1. tokens[date'] = 0 /\ spent[date'] = 0
    BY <1>2, <1>3 DEF Dated
  <2>2. \A r \in Runners : Margin(r)' >= 0
    <3> TAKE r \in Runners
    <3>1. CASE Summarising(r)
      <4>1. runner[r].date # date'
        BY <1>2, <1>3, <1>4, <3>1 DEF Dated
      <4>2. Margin(r)' = 0
        BY <1>2, <3>1, <4>1 DEF Margin, Summarising, At
      <4> QED
        BY <4>2
    <3>2. CASE ~Summarising(r)
      <4>1. Margin(r)' = (Reserve - Least) + 0 - 0
        BY <1>2, <3>2 DEF Margin, Summarising, Reserved, Unbooked, At
      <4> QED
        BY <4>1, Bounds, Numbers
    <3> QED
      BY <3>1, <3>2
  <2>3. \A r \in {"job", "worker"} : Margin(r)' \in Int /\ Margin(r)' >= 0
    BY <1>1, <2>2 DEF BudgetTyped, Runners
  <2>4. spent'[date'] <= tokens'[date'] + Margin("job")' + Margin("worker")'
    BY <1>2, <2>1, <2>3
  <2> QED
    BY <2>4 DEF TodayCharged
<1> QED
  BY <1>5, <1>6, <1>7

LEMMA BudgetRun ==
  ASSUME TypeOK, TypeOK', BudgetInv, NEW r \in Runners, Run(r)
  PROVE  BudgetInv'
<1>1. runner \in [Runners -> RunnerStates]
  BY DEF TypeOK, RunnerStates
<1>2. ASSUME Finish(r), UNCHANGED <<date, budget>>, cut' = cut \/ cut',
             ~Summarising(r) \/ cut'
      PROVE  BudgetInv'
  BY <1>1, <1>2, Finishes, IdleState, BudgetStays DEF Summarising, At
<1>3. ASSUME Summarised(r), UNCHANGED <<date, budget>>, cut' = cut \/ cut',
             ~Summarising(r) \/ cut'
      PROVE  BudgetInv'
  BY <1>3, SummaryEnds, BudgetStays DEF Summarising, At
<1>4. CASE prior_today(r)
  BY <1>4, PriorMoves, BudgetStays DEF prior_today, time, Summarising, At
<1>5. CASE delete_message(r)
  <2>1. /\ \A s \in Runners \ {r} : runner'[s] = runner[s]
        /\ runner'[r].step \in {"drop", "delete"}
    BY <1>5, DeleteMoves
  <2> QED
    BY <1>5, <2>1, BudgetStays DEF delete_message, time, Summarising, At
<1>6. CASE delete_for_day(r) \/ record_text(r)
  <2>1. \/ Goto(r, "text") /\ At(r, "drop")
        \/ Goto(r, "chart") /\ At(r, "record_text")
    BY <1>6 DEF delete_for_day, record_text
  <2>2. /\ \A s \in Runners \ {r} : runner'[s] = runner[s]
        /\ runner'[r].step \in {"text", "chart"}
    BY <1>1, <2>1, GoesOn DEF Steps
  <2> QED
    BY <1>6, <2>1, <2>2, BudgetStays DEF delete_for_day, record_text, record, time,
       Summarising, At
<1>7. CASE send_message(r) \/ send_photo(r)
  <2>1. ~Summarising(r) /\ UNCHANGED <<date, budget, cut>>
    BY <1>7 DEF send_message, send_photo, send, time, Summarising, At
  <2>2. CASE Finish(r)
    BY <1>2, <2>1, <2>2
  <2>3. CASE \E next \in {"record_text", "record_photo"} :
               runner' = [runner EXCEPT ![r] =
                            [runner[r] EXCEPT !.step = next, !.id = sent + 1]]
    <3>1. PICK next \in {"record_text", "record_photo"} :
            runner' = [runner EXCEPT ![r] =
                         [runner[r] EXCEPT !.step = next, !.id = sent + 1]]
      BY <2>3
    <3>2. runner'[r].step = next /\ \A s \in Runners \ {r} : runner'[s] = runner[s]
      BY <1>1, <3>1 DEF RunnerStates
    <3> QED
      BY <2>1, <3>2, BudgetStays DEF Summarising, At
  <2> QED
    BY <1>7, <2>2, <2>3 DEF send_message, send_photo, send
<1>8. CASE record_photo(r)
  BY <1>2, <1>8 DEF record_photo, record, time, Summarising, At
<1>9. CASE render_chart(r)
  BY <1>9, ChartMoves, BudgetStays DEF render_chart, time, Summarising, At
<1>10. CASE preflight(r)
  <2>1. ~Summarising(r) /\ UNCHANGED <<date, budget, cut>>
    BY <1>10 DEF preflight, time, Summarising, At
  <2>2. CASE Goto(r, "reserve")
    BY <1>1, <2>1, <2>2, GoesOn, BudgetStays DEF Summarising, At, Steps
  <2> QED
    BY <1>3, <1>10, <2>1, <2>2 DEF preflight
<1>11. CASE try_reserve(r)
  <2>1. At(r, "reserve") /\ ~Summarising(r) /\ UNCHANGED <<date, spent, cut>>
    BY <1>11 DEF try_reserve, time, Summarising, At
  <2>2. CASE Reserves(r)
    BY <2>1, <2>2, BudgetReserve
  <2>3. CASE Summarised(r) /\ UNCHANGED tokens
    BY <1>3, <2>1, <2>3 DEF budget
  <2> QED
    BY <1>11, <2>2, <2>3, ReserveMoves
<1>12. CASE chat(r)
  <2>1. At(r, "openai") /\ UNCHANGED <<date, tokens, cut>>
    BY <1>12 DEF chat, time
  <2>2. CASE spent' = spent /\ (TriesAgain(r) \/ Finish(r))
    BY <2>1, <2>2, BudgetGivesUp DEF budget
  <2> QED
    BY <1>12, <2>1, <2>2, BudgetAnswer, ChatMoves
<1>13. CASE database_fails(r)
  <2>1. cut' = TRUE /\ UNCHANGED <<date, budget>>
    BY <1>13 DEF database_fails, time
  <2> QED
    BY <1>2, <1>3, <1>13, <2>1 DEF database_fails
<1> QED
  BY <1>4, <1>5, <1>6, <1>7, <1>8, <1>9, <1>10, <1>11, <1>12, <1>13, BudgetReconcile DEF Run

LEMMA BudgetStep ==
  ASSUME TypeOK, TypeOK', BudgetInv, [Next]_vars
  PROVE  BudgetInv'
<1>1. runner \in [Runners -> RunnerStates] /\ day \in Days
  BY DEF TypeOK, RunnerStates
<1>2. CASE UNCHANGED <<date, budget, cut, runner>>
  BY <1>2 DEF budget, BudgetInv, Dated, AllCharged, TodayCharged, DatesAfforded,
     Summarising, Reserved, Unbooked, Margin, Open, At
<1>3. ASSUME NEW r \in Runners, NEW first \in RunnerStates, At(r, "idle"), Begin(r, first),
             first.step \in {"prior", "preflight"}, UNCHANGED <<date, budget, cut>>
      PROVE  BudgetInv'
  <2>1. runner'[r] = first /\ \A s \in Runners \ {r} : runner'[s] = runner[s]
    BY <1>1, <1>3, OneMoves DEF Begin
  <2> QED
    BY <1>3, <2>1, BudgetStays DEF At, Summarising
<1>4. CASE tick
  BY <1>1, <1>2, <1>3, <1>4, IdleState DEF tick, Runners
<1>5. CASE report
  BY <1>1, <1>3, <1>5, IdleState DEF report, Runners, time
<1>6. CASE summary
  <2> DEFINE first == [IdleRunner EXCEPT !.step = "preflight"]
  <2>1. first \in RunnerStates /\ first.step = "preflight"
    BY IdleState DEF RunnerStates, Steps
  <2>2. At("worker", "idle") /\ Begin("worker", first) /\ UNCHANGED <<date, budget, cut>>
    BY <1>6 DEF summary, time
  <2> HIDE DEF first
  <2> QED
    BY <1>3, <2>1, <2>2 DEF Runners
<1>7. CASE Crash
  <2>1. /\ \A r \in Runners : runner'[r] = IdleRunner
        /\ UNCHANGED <<date, tokens, spent>>
        /\ ~cut' => ~cut /\ \A r \in Runners : At(r, "idle")
    BY <1>7 DEF Crash, budget
  <2>2. Dated'
    BY <2>1, IdleState DEF BudgetInv, Dated, Summarising, At
  <2>3. ASSUME ~cut'
        PROVE  /\ ~cut
               /\ \A r \in {"job", "worker"} :
                    /\ Reserved(r)' = Reserved(r) /\ Unbooked(r)' = Unbooked(r)
                    /\ Margin(r)' = Margin(r) /\ \A d \in Dates : Open(r, d)' = Open(r, d)
    BY <2>1, <2>3, IdleState DEF Summarising, Reserved, Unbooked, Margin, Open, At, Runners
  <2>4. AllCharged'
    BY <2>1, <2>3 DEF BudgetInv, AllCharged
  <2>5. TodayCharged'
    BY <2>1, <2>3 DEF BudgetInv, TodayCharged
  <2>6. DatesAfforded'
    BY <2>1, <2>3 DEF BudgetInv, DatesAfforded
  <2> QED
    BY <2>2, <2>4, <2>5, <2>6 DEF BudgetInv
<1>8. CASE UNCHANGED vars \/ next_slot
  BY <1>2, <1>8 DEF vars, next_slot, time
<1> QED
  BY <1>4, <1>5, <1>6, <1>7, <1>8, BudgetRun, BudgetMidnight DEF Next

-----------------------------------------------------------------------------
(* The counter of a date and the budget *)

LEMMA OvershootIs ==
  /\ Overshoot \in Nat /\ Reserve \in Nat /\ Budget \in Nat
  /\ \A used \in Uses : used \in Nat /\ used - Reserve <= Overshoot
BY Bounds, Numbers DEF Overshoot, Most

LEMMA DueIs ==
  /\ "job" \in Runners /\ "worker" \in Runners
  /\ \A r \in Runners : Due(r) \in Nat /\ Due(r) <= Overshoot
BY OvershootIs DEF Due, Runners

\* A runner moves and reserves nothing, and nothing is booked.
LEMMA ChargeStays ==
  ASSUME TypeOK, ChargeInv, NEW r \in Runners,
         \A s \in Runners \ {r} : runner'[s] = runner[s],
         UNCHANGED <<date, tokens>>, Summarising(r)' => Summarising(r)
  PROVE  ChargeInv'
<1>1. \A s \in Runners : Due(s)' \in Nat /\ Due(s)' <= Due(s)
  BY OvershootIs DEF Due, Summarising, At
<1>2. tokens[date] \in Int /\ Budget + 2 * Overshoot \in Int
  BY OvershootIs DEF TypeOK
<1> QED
  BY <1>1, <1>2, DueIs DEF ChargeInv

\* The budget has room for a reservation, and the answers to both come on top.
LEMMA ChargeReserve ==
  ASSUME TypeOK, TypeOK', ChargeInv, NEW r \in Runners, Reserves(r), UNCHANGED date
  PROVE  ChargeInv'
<1>1. date \in Dates /\ \A d \in Dates : tokens[d] \in Int
  BY DEF TypeOK
<1>2. /\ tokens'[date] <= Budget /\ tokens'[date] \in Int
      /\ \A d \in Dates \ {date} : tokens'[d] = tokens[d]
  BY <1>1, OvershootIs DEF Reserves, Affordable, TypeOK
<1>3. \A s \in Runners : Due(s)' \in Nat /\ Due(s)' <= Overshoot
  BY OvershootIs DEF Due
<1>4. tokens'[date] + Due("job")' + Due("worker")' <= Budget + 2 * Overshoot
  BY <1>2, <1>3, DueIs, OvershootIs
<1>5. \A d \in Dates : tokens'[d] <= Budget + 2 * Overshoot
  BY <1>1, <1>2, OvershootIs DEF ChargeInv
<1> QED
  BY <1>4, <1>5 DEF ChargeInv

\* The difference that is booked is no more than what was due.
LEMMA ChargeReconcile ==
  ASSUME TypeOK, TypeOK', Dated, ChargeInv, NEW r \in Runners, reconcile(r)
  PROVE  ChargeInv'
<1> DEFINE y == runner[r].used - Reserve
<1>1. /\ At(r, "reconcile") /\ date' = date
      /\ tokens' = [tokens EXCEPT ![date] = @ + runner[r].used - Reserve]
      /\ \A s \in Runners \ {r} : runner'[s] = runner[s]
      /\ runner'[r].step \in {"photo", "idle"}
  BY SummaryEnds DEF reconcile, time
<1>2. date \in Dates /\ \A d \in Dates : tokens[d] \in Int
  BY DEF TypeOK
<1>3. runner[r].used \in Nat /\ y \in Int /\ y <= Overshoot
  BY <1>1, OvershootIs DEF Dated
<1>4. /\ tokens'[date] = tokens[date] + y
      /\ \A d \in Dates \ {date} : tokens'[d] = tokens[d]
  BY <1>1, <1>2, <1>3, OvershootIs DEF TypeOK
<1>5. /\ Due(r) = Overshoot /\ Due(r)' = 0
      /\ \A s \in Runners \ {r} : Due(s)' = Due(s)
  BY <1>1 DEF Due, Summarising, At
<1> HIDE DEF y
<1>6. tokens'[date] + Due("job")' + Due("worker")' <= Budget + 2 * Overshoot
  <2>1. r = "job" \/ r = "worker"
    BY DEF Runners
  <2>2. tokens[date] + Due("job") + Due("worker") <= Budget + 2 * Overshoot
    BY DEF ChargeInv
  <2> QED
    BY <1>2, <1>3, <1>4, <1>5, <2>1, <2>2, DueIs, OvershootIs
<1>7. tokens'[date] <= Budget + 2 * Overshoot
  <2>1. \A s \in Runners : Due(s)' \in Nat
    BY OvershootIs DEF Due
  <2> QED
    BY <1>2, <1>3, <1>4, <1>6, <2>1, DueIs, OvershootIs
<1>8. \A d \in Dates : tokens'[d] <= Budget + 2 * Overshoot
  BY <1>4, <1>7 DEF ChargeInv
<1> QED
  BY <1>1, <1>6, <1>8 DEF ChargeInv

\* Nothing is charged to the new date yet.
LEMMA ChargeMidnight ==
  ASSUME TypeOK, TypeOK', Dated, ChargeInv, next_date
  PROVE  ChargeInv'
<1>1. /\ date' = date + 1 /\ UNCHANGED <<tokens, runner>>
      /\ date \in Int /\ date' \in Dates
  BY DEF next_date, budget, TypeOK, Dates
<1>2. tokens[date'] = 0
  BY <1>1 DEF Dated
<1>3. \A r \in Runners : Due(r)' = Due(r)
  BY <1>1 DEF Due, Summarising, At
<1> QED
  BY <1>1, <1>2, <1>3, DueIs, OvershootIs DEF ChargeInv

LEMMA ChargeRun ==
  ASSUME TypeOK, TypeOK', Dated, ChargeInv, NEW r \in Runners, Run(r)
  PROVE  ChargeInv'
<1>1. runner \in [Runners -> RunnerStates]
  BY DEF TypeOK, RunnerStates
<1>2. ASSUME Finish(r) \/ Summarised(r), UNCHANGED <<date, tokens>>
      PROVE  ChargeInv'
  <2>1. /\ \A s \in Runners \ {r} : runner'[s] = runner[s]
        /\ ~Summarising(r)'
    BY <1>1, <1>2, Finishes, SummaryEnds, IdleState DEF Summarising, At
  <2> QED
    BY <1>2, <2>1, ChargeStays
<1>3. ASSUME NEW step \in Steps \ {"openai", "reconcile"}, Goto(r, step),
             UNCHANGED <<date, tokens>>
      PROVE  ChargeInv'
  BY <1>1, <1>3, GoesOn, ChargeStays DEF Summarising, At
<1>4. CASE prior_today(r)
  BY <1>4, PriorMoves, ChargeStays DEF prior_today, time, budget, Summarising, At
<1>5. CASE delete_message(r)
  <2>1. /\ \A s \in Runners \ {r} : runner'[s] = runner[s]
        /\ runner'[r].step \in {"drop", "delete"}
    BY <1>5, DeleteMoves
  <2> QED
    BY <1>5, <2>1, ChargeStays DEF delete_message, time, budget, Summarising, At
<1>6. CASE delete_for_day(r) \/ record_text(r)
  <2>1. /\ Goto(r, "text") \/ Goto(r, "chart")
        /\ UNCHANGED <<date, tokens>>
    BY <1>6 DEF delete_for_day, record_text, record, time, budget
  <2> QED
    BY <1>3, <2>1 DEF Steps
<1>7. CASE send_message(r) \/ send_photo(r)
  <2>1. UNCHANGED <<date, tokens>>
    BY <1>7 DEF send_message, send_photo, send, time, budget
  <2>2. CASE \E next \in {"record_text", "record_photo"} :
               runner' = [runner EXCEPT ![r] =
                            [runner[r] EXCEPT !.step = next, !.id = sent + 1]]
    <3>1. PICK next \in {"record_text", "record_photo"} :
            runner' = [runner EXCEPT ![r] =
                         [runner[r] EXCEPT !.step = next, !.id = sent + 1]]
      BY <2>2
    <3>2. runner'[r].step = next /\ \A s \in Runners \ {r} : runner'[s] = runner[s]
      BY <1>1, <3>1 DEF RunnerStates
    <3> QED
      BY <2>1, <3>2, ChargeStays DEF Summarising, At
  <2> QED
    BY <1>2, <1>7, <2>1, <2>2 DEF send_message, send_photo, send
<1>8. CASE record_photo(r)
  BY <1>2, <1>8 DEF record_photo, record, time, budget
<1>9. CASE render_chart(r)
  BY <1>9, ChartMoves, ChargeStays DEF render_chart, time, budget, Summarising, At
<1>10. CASE preflight(r)
  <2>1. UNCHANGED <<date, tokens>> /\ (Goto(r, "reserve") \/ Summarised(r))
    BY <1>10 DEF preflight, time, budget
  <2> QED
    BY <1>2, <1>3, <2>1 DEF Steps
<1>11. CASE try_reserve(r)
  <2>1. date' = date
    BY <1>11 DEF try_reserve, time
  <2> QED
    BY <1>2, <1>11, <2>1, ReserveMoves, ChargeReserve
<1>12. CASE chat(r)
  <2>1. Summarising(r) /\ UNCHANGED <<date, tokens>>
    BY <1>12 DEF chat, time, Summarising
  <2>2. \A s \in Runners \ {r} : runner'[s] = runner[s]
    BY <1>1, <1>12, ChatMoves, Finishes DEF AnswersWith, TriesAgain
  <2> QED
    BY <2>1, <2>2, ChargeStays
<1>13. CASE database_fails(r)
  <2>1. UNCHANGED <<date, tokens>> /\ (Finish(r) \/ Summarised(r))
    BY <1>13 DEF database_fails, time, budget
  <2> QED
    BY <1>2, <2>1
<1> QED
  BY <1>4, <1>5, <1>6, <1>7, <1>8, <1>9, <1>10, <1>11, <1>12, <1>13, ChargeReconcile DEF Run

LEMMA ChargeStep ==
  ASSUME TypeOK, TypeOK', Dated, ChargeInv, [Next]_vars
  PROVE  ChargeInv'
<1>1. runner \in [Runners -> RunnerStates] /\ day \in Days
  BY DEF TypeOK, RunnerStates
<1>2. ASSUME UNCHANGED <<date, tokens>>,
             \A s \in Runners : Summarising(s)' => Summarising(s)
      PROVE  ChargeInv'
  <2>1. \A s \in Runners : Due(s)' \in Nat /\ Due(s)' <= Due(s)
    BY <1>2, OvershootIs DEF Due
  <2>2. tokens[date] \in Int /\ Budget + 2 * Overshoot \in Int
    BY OvershootIs DEF TypeOK
  <2> QED
    BY <1>2, <2>1, <2>2, DueIs DEF ChargeInv
<1>3. CASE UNCHANGED <<date, tokens, runner>>
  BY <1>2, <1>3 DEF Summarising, At
<1>4. ASSUME NEW r \in Runners, NEW first \in RunnerStates, Begin(r, first),
             first.step \in {"prior", "preflight"}, UNCHANGED <<date, budget>>
      PROVE  ChargeInv'
  <2>1. runner'[r] = first /\ \A s \in Runners \ {r} : runner'[s] = runner[s]
    BY <1>1, <1>4, OneMoves DEF Begin
  <2> QED
    BY <1>4, <2>1, ChargeStays DEF At, Summarising, budget
<1>5. CASE tick
  BY <1>1, <1>3, <1>4, <1>5, IdleState DEF tick, Runners, budget
<1>6. CASE report
  BY <1>1, <1>4, <1>6, IdleState DEF report, Runners, time
<1>7. CASE summary
  <2> DEFINE first == [IdleRunner EXCEPT !.step = "preflight"]
  <2>1. first \in RunnerStates /\ first.step = "preflight"
    BY IdleState DEF RunnerStates, Steps
  <2>2. Begin("worker", first) /\ UNCHANGED <<date, budget>>
    BY <1>7 DEF summary, time
  <2> HIDE DEF first
  <2> QED
    BY <1>4, <2>1, <2>2 DEF Runners
<1>8. CASE Crash
  <2>1. UNCHANGED <<date, tokens>> /\ \A s \in Runners : ~Summarising(s)'
    BY <1>8, IdleState DEF Crash, budget, Summarising, At
  <2> QED
    BY <1>2, <2>1
<1>9. CASE UNCHANGED vars \/ next_slot
  BY <1>3, <1>9 DEF vars, next_slot, time, budget
<1> QED
  BY <1>5, <1>6, <1>7, <1>8, <1>9, ChargeRun, ChargeMidnight DEF Next

-----------------------------------------------------------------------------
(* Invariance *)

\* In the beginning nothing is posted, charged or under way.
LEMMA InvInit ==
  ASSUME Init
  PROVE  IInv
<1>1. /\ runner \in [Runners -> RunnerStates] /\ \A r \in Runners : runner[r].step = "idle"
  BY IdleState DEF Init
<1>2. TypeOK
  <2>1. /\ day \in Days /\ slot \in 1 .. 3 /\ date \in Dates
        /\ sent \in 0 .. 2 * MaxRuns /\ runs \in 0 .. MaxRuns
    <3>1. day = 1 /\ slot = 1 /\ date = 1 /\ sent = 0 /\ runs = 0
      BY DEF Init
    <3> QED
      BY <3>1, Numbers DEF Days, Dates
  <2>4. ticked \in BOOLEAN /\ cut \in BOOLEAN
    BY DEF Init
  <2>2. rows \in [Days \X Kinds -> {0} \cup MessageIds] /\ standing \subseteq Post
    BY DEF Init
  <2>3. tokens \in [Dates -> Int] /\ spent \in [Dates -> Nat]
    BY DEF Init
  <2> QED
    BY <1>1, <2>1, <2>2, <2>3, <2>4 DEF TypeOK, RunnerStates
<1>3. SentInTime
  BY <1>1, Numbers DEF Init, SentInTime, ToSend, Runners
<1>4. IdsAreOwn /\ Unrecorded /\ RowsStand
  BY <1>1 DEF Init, IdsAreOwn, Unrecorded, RowsStand, Recording, At
<1>5. Dated
  BY <1>1 DEF Init, Dated, Summarising, At
<1>6. \A r \in {"job", "worker"} :
        /\ Reserved(r) = 0 /\ Unbooked(r) = 0 /\ Margin(r) = (Reserve - Least) + 0 - 0
        /\ \A d \in Dates : Open(r, d) = 0
  BY <1>1 DEF Reserved, Unbooked, Margin, Open, Summarising, At, Runners
<1>7. /\ spent \in [Dates -> Int] /\ tokens \in [Dates -> Int] /\ date \in Dates
      /\ \A d \in Dates : spent[d] = 0 /\ tokens[d] = 0
  BY Numbers DEF Init, Dates
<1>8. AllCharged
  <2>1. SumFunction(spent) = 0 /\ SumFunction(tokens) = 0
    BY <1>7, Numbers, SumOfZeros
  <2> QED
    BY <1>6, <2>1 DEF AllCharged
<1>9. TodayCharged
  BY <1>6, <1>7, Bounds, Numbers DEF TodayCharged
<1>10. DatesAfforded
  BY <1>6, <1>7, Bounds, Numbers DEF DatesAfforded
<1>11. ChargeInv
  <2>1. \A r \in {"job", "worker"} : Due(r) = 0
    BY <1>1 DEF Due, Summarising, At, Runners
  <2> QED
    BY <1>7, <2>1, OvershootIs DEF ChargeInv
<1> QED
  BY <1>2, <1>3, <1>4, <1>5, <1>8, <1>9, <1>10, <1>11 DEF IInv

LEMMA Invariance == Spec => []IInv
<1>1. Init => IInv
  BY InvInit
<1>2. IInv /\ [Next]_vars => IInv'
  BY TypeStep, PostsStep, BudgetStep, ChargeStep DEF IInv, PostsInv, BudgetInv
<1> QED
  BY <1>1, <1>2, PTL DEF Spec

-----------------------------------------------------------------------------
(* The theorems *)

\* Type correctness: every runner is at a step of the code, and no more messages
\* are sent than two for each run.
THEOREM TypeCorrect == Spec => []TypeOK
<1>1. IInv => TypeOK
  BY DEF IInv
<1> QED
  BY <1>1, Invariance, PTL

\* What is taken for posted does stand in the chat (deliver, already_posted_today),
\* though the job and /report replace each other's messages.
THEOREM PostedReportsStand == Spec => []RowsStand
<1>1. IInv => RowsStand
  BY DEF IInv
<1> QED
  BY <1>1, Invariance, PTL

\* No token is used that is not charged to some date (try_reserve, reconcile).
THEOREM EveryUseIsCharged == Spec => []UseIsCharged
<1>1. ASSUME IInv PROVE UseIsCharged
  <2>1. BudgetTyped /\ AllCharged
    BY <1>1, BudgetTypes DEF IInv
  <2>2. /\ SumFunction(spent) \in Int /\ SumFunction(tokens) \in Int
        /\ \A r \in {"job", "worker"} : Reserved(r) \in Nat /\ Unbooked(r) \in Int
    BY <2>1 DEF BudgetTyped, Runners
  <2> QED
    BY <2>1, <2>2 DEF AllCharged, UseIsCharged
<1> QED
  BY <1>1, Invariance, PTL

\* The counter of a date passes the budget by no more than what the answers to the
\* two runners go beyond their reservations, and the summaries of one date use no
\* more than the budget and the spread for each (try_reserve, reconcile).
THEOREM BudgetIsKept == Spec => []BudgetHolds
<1>1. Cardinality(Runners) = 2
  <2>1. IsFiniteSet({"job"}) /\ Cardinality({"job"}) = 1
    BY FS_Singleton
  <2>2. Runners = {"job"} \cup {"worker"} /\ "worker" \notin {"job"}
    BY DEF Runners
  <2> QED
    BY <2>1, <2>2, FS_AddElement
<1>2. ASSUME IInv PROVE BudgetHolds
  <2>1. BudgetTyped /\ DatesAfforded
    BY <1>2, BudgetTypes DEF IInv
  <2>2. ASSUME ~cut, NEW d \in Dates
        PROVE  spent[d] <= Budget + 2 * Spread
    <3>1. /\ spent[d] \in Int /\ Budget + 2 * Spread \in Int
          /\ \A r \in {"job", "worker"} : Open(r, d) \in Nat
      BY <2>1, Bounds, Numbers DEF BudgetTyped, Runners
    <3>2. spent[d] + Open("job", d) + Open("worker", d) <= Budget + 2 * Spread
      BY <2>1, <2>2 DEF DatesAfforded
    <3> QED
      BY <3>1, <3>2
  <2>3. \A d \in Dates : tokens[d] <= Budget + 2 * Overshoot
    BY <1>2 DEF IInv, ChargeInv
  <2> QED
    BY <1>1, <2>2, <2>3 DEF BudgetHolds
<1> QED
  BY <1>2, Invariance, PTL

-----------------------------------------------------------------------------
(***************************************************************************)
(* ReportWindow                                                            *)
(***************************************************************************)
\* Whole days.
LEMMA DayIs ==
  ASSUME NEW D \in Nat \ {0}, NEW x \in Int
  PROVE  /\ x \div D \in Int
         /\ (x \div D) * D <= x /\ x < (x \div D) * D + D
<1>1. x = D * (x \div D) + (x % D) /\ 0 <= x % D /\ x % D < D /\ x \div D \in Int
  OBVIOUS
<1> QED
  BY <1>1

LEMMA NextDay ==
  ASSUME NEW D \in Nat \ {0}, NEW d \in Int
  PROVE  d * D \in Int /\ (d + 1) * D = d * D + D
OBVIOUS

LEMMA DaysFollow ==
  ASSUME NEW D \in Nat \ {0}, NEW d \in Int, NEW e \in Int, d < e
  PROVE  d * D + D <= e * D
<1>1. e - d - 1 \in Nat
  OBVIOUS
<1>2. (e - d - 1) * D >= 0
  BY <1>1
<1>3. e * D = d * D + D + (e - d - 1) * D
  OBVIOUS
<1> QED
  BY <1>2, <1>3

-----------------------------------------------------------------------------
(* Midnights *)

IsZone(z) ==
  /\ z.before \in Int /\ 0 - DayLength < z.before /\ z.before < DayLength
  /\ z.after \in Int /\ 0 - DayLength < z.after /\ z.after < DayLength
  /\ z.before - z.after \in {-1, 0, 1}
  /\ z.at \in Int

LEMMA DayLengthIs == DayLength \in Nat \ {0} /\ MaxDates \in Nat \ {0} /\ MaxMessages \in Nat
BY WindowConstantsOK

LEMMA ReportZone == WindowTypeOK => IsZone(report_zone)
<1> SUFFICES ASSUME WindowTypeOK
             PROVE  IsZone(report_zone)
  OBVIOUS
<1>1. IsZone(UTC)
  BY DayLengthIs DEF IsZone, UTC
<1>2. ASSUME NEW z \in Zones
      PROVE  IsZone(z)
  <2>1. /\ z.before \in 1 - DayLength .. DayLength - 1 /\ z.after \in 1 - DayLength .. DayLength - 1
        /\ z.before - z.after \in {-1, 0, 1} /\ z.at \in Int
    BY WindowConstantsOK
  <2> QED
    BY <2>1, DayLengthIs DEF IsZone
<1> QED
  BY <1>1, <1>2 DEF WindowTypeOK, report_zone

\* Before the transition, else after it, else the clocks skip l.
LEMMA ResolveIs ==
  ASSUME NEW z, IsZone(z), NEW l \in Int
  PROVE  /\ resolve_local(z, l) = IF l - z.before < z.at THEN l - z.before
                                  ELSE IF l - z.after >= z.at THEN l - z.after ELSE l
         /\ from_local(z, l) = {} <=> l - z.before >= z.at /\ l - z.after < z.at
<1> DEFINE b == l - z.before
           a == l - z.after
<1>1. b \in Int /\ a \in Int /\ z.at \in Int
  BY DEF IsZone
<1>2. \A t \in {b, a} : t \in from_local(z, l) <=>
        \/ t < z.at /\ t = b
        \/ t >= z.at /\ t = a
  BY DEF from_local, Offset, IsZone
<1>3. from_local(z, l) \subseteq {b, a}
  BY DEF from_local
<1>4. from_local(z, l) = {} <=> b >= z.at /\ a < z.at
  <2> HIDE DEF a, b
  <2> QED
    BY <1>1, <1>2, <1>3
<1>5. ASSUME b < z.at
      PROVE  resolve_local(z, l) = b
  <2> HIDE DEF a, b
  <2>1. b \in from_local(z, l) /\ \A t \in from_local(z, l) : b <= t
    BY <1>1, <1>2, <1>3, <1>5
  <2>2. Min(from_local(z, l)) = b
    <3>1. \A m \in from_local(z, l) : (\A t \in from_local(z, l) : m <= t) => m = b
      BY <1>1, <1>3, <2>1
    <3> QED
      BY <2>1, <3>1 DEF Min
  <2> QED
    BY <2>1, <2>2 DEF resolve_local
<1>6. ASSUME ~(b < z.at), a >= z.at
      PROVE  resolve_local(z, l) = a
  <2> HIDE DEF a, b
  <2>1. a \in from_local(z, l) /\ \A t \in from_local(z, l) : t = a
    BY <1>1, <1>2, <1>3, <1>6
  <2>2. from_local(z, l) = {a}
    BY <2>1
  <2>3. Min({a}) = a
    BY <1>1 DEF Min
  <2> QED
    BY <2>2, <2>3 DEF resolve_local
<1>7. ASSUME ~(b < z.at), ~(a >= z.at)
      PROVE  resolve_local(z, l) = l
  BY <1>1, <1>4, <1>7 DEF resolve_local
<1> QED
  BY <1>1, <1>4, <1>5, <1>6, <1>7

\* Midnights keep their order, and are within a day of those of UTC.
LEMMA MidnightsFollow ==
  ASSUME NEW z, IsZone(z), NEW l \in Int
  PROVE  /\ resolve_local(z, l) \in Int
         /\ resolve_local(z, l) <= resolve_local(z, l + DayLength)
         /\ l - DayLength < resolve_local(z, l) /\ resolve_local(z, l) < l + DayLength
<1>1. l + DayLength \in Int
  BY DayLengthIs
<1>2. /\ resolve_local(z, l) = IF l - z.before < z.at THEN l - z.before
                               ELSE IF l - z.after >= z.at THEN l - z.after ELSE l
      /\ resolve_local(z, l + DayLength) =
           IF (l + DayLength) - z.before < z.at THEN (l + DayLength) - z.before
           ELSE IF (l + DayLength) - z.after >= z.at THEN (l + DayLength) - z.after ELSE l + DayLength
  BY <1>1, ResolveIs
<1> QED
  BY <1>2, DayLengthIs DEF IsZone

\* A local time that is not skipped divides the instants as the clocks do.
LEMMA ClocksAgree ==
  ASSUME NEW z, IsZone(z), NEW l \in Int, from_local(z, l) # {}, NEW t \in Int
  PROVE  resolve_local(z, l) <= t <=> l <= t + Offset(z, t)
BY ResolveIs, DayLengthIs DEF IsZone, Offset

\* The window of day d, whose midnights are not skipped, is the day.
LEMMA WindowIsDay ==
  ASSUME NEW z, IsZone(z), NEW d \in Int, ~SkipsMidnight(z, d), NEW t \in Int
  PROVE  LET w == day_window_local(z, d)
         IN  (w.from <= t /\ t < w.to) <=> LocalDate(z, t) = d
<1> DEFINE l == d * DayLength
           m == (d + 1) * DayLength
           x == t + Offset(z, t)
<1>1. l \in Int /\ m = l + DayLength /\ m \in Int /\ x \in Int
  BY DayLengthIs, NextDay DEF Offset, IsZone
<1>2. from_local(z, l) # {} /\ from_local(z, m) # {}
  BY DEF SkipsMidnight
<1>3. (resolve_local(z, l) <= t <=> l <= x) /\ (resolve_local(z, m) <= t <=> m <= x)
  BY <1>1, <1>2, ClocksAgree
<1>4. resolve_local(z, m) \in Int /\ resolve_local(z, l) \in Int
  BY <1>1, MidnightsFollow
<1>5. LocalDate(z, t) = d <=> l <= x /\ x < m
  <2> DEFINE q == x \div DayLength
  <2>1. q \in Int /\ q * DayLength <= x /\ x < q * DayLength + DayLength
    <3> HIDE DEF x
    <3> QED
      BY <1>1, DayLengthIs, DayIs
  <2>2. LocalDate(z, t) = q
    BY DEF LocalDate
  <2> HIDE DEF q, x
  <2>3. q * DayLength \in Int
    BY <2>1, DayLengthIs
  <2>4. CASE q = d
    BY <1>1, <2>1, <2>2, <2>4
  <2>5. CASE q < d
    <3>1. q * DayLength + DayLength <= l
      BY <2>1, <2>5, DayLengthIs, DaysFollow
    <3> QED
      BY <1>1, <2>1, <2>2, <2>3, <2>5, <3>1, DayLengthIs
  <2>6. CASE q > d
    <3>1. l + DayLength <= q * DayLength
      BY <2>1, <2>6, DayLengthIs, DaysFollow
    <3> QED
      BY <1>1, <2>1, <2>2, <2>3, <2>6, <3>1, DayLengthIs
  <2> QED
    BY <2>1, <2>4, <2>5, <2>6
<1> QED
  BY <1>1, <1>3, <1>4, <1>5 DEF day_window_local

-----------------------------------------------------------------------------
(* Actions *)

\* The actions before midnight d, and those in the window of d.
Before(z, d) == {t \in ledger : t < resolve_local(z, d * DayLength)}
InWindow(z, d) ==
  LET w == day_window_local(z, d) IN {t \in ledger : w.from <= t /\ t < w.to}

LEMMA InstantsAre ==
  /\ Instants \subseteq Nat /\ IsFiniteSet(Instants) /\ IsFiniteSet(UtcDates)
  /\ MaxDates * DayLength \in Nat
  /\ \A t \in Instants : t < MaxDates * DayLength
<1>1. MaxDates * DayLength \in Nat
  BY DayLengthIs
<1>2. IsFiniteSet(0 .. MaxDates * DayLength - 1) /\ IsFiniteSet(0 .. MaxDates - 1)
  BY <1>1, DayLengthIs, FS_Interval
<1> QED
  BY <1>1, <1>2 DEF Instants, UtcDates

LEMMA LedgerIs ==
  WindowTypeOK => /\ IsFiniteSet(ledger) /\ ledger \subseteq Nat
                  /\ \A t \in ledger : t < MaxDates * DayLength
<1> SUFFICES ASSUME WindowTypeOK
             PROVE  /\ IsFiniteSet(ledger) /\ ledger \subseteq Nat
                    /\ \A t \in ledger : t < MaxDates * DayLength
  OBVIOUS
<1>1. now \in Nat /\ now < MaxDates * DayLength /\ ledger \subseteq 0 .. now
  BY InstantsAre DEF WindowTypeOK
<1>2. IsFiniteSet(0 .. now)
  BY <1>1, FS_Interval
<1>3. IsFiniteSet(ledger)
  BY <1>1, <1>2, FS_Subset
<1> QED
  BY <1>1, <1>3, InstantsAre

\* Windows follow each other without a gap and without a common instant.
LEMMA WindowsFollow ==
  ASSUME WindowTypeOK, NEW z, IsZone(z), NEW d \in Int
  PROVE  Cardinality(Before(z, d + 1)) = Cardinality(Before(z, d)) + count_actions(day_window_local(z, d))
<1> DEFINE l == d * DayLength
<1>1. (d + 1) * DayLength = l + DayLength /\ l \in Int
  BY DayLengthIs, NextDay
<1>2. /\ resolve_local(z, l) <= resolve_local(z, l + DayLength) /\ resolve_local(z, l) \in Int
      /\ l + DayLength \in Int /\ resolve_local(z, l + DayLength) \in Int
  BY <1>1, MidnightsFollow, DayLengthIs
<1>3. InWindow(z, d) =
        {t \in ledger : resolve_local(z, l) <= t /\ t < resolve_local(z, l + DayLength)}
  BY <1>1 DEF InWindow, day_window_local
<1>4. ledger \subseteq Nat /\ IsFiniteSet(ledger)
  BY LedgerIs
<1>5. Before(z, d) = {t \in ledger : t < resolve_local(z, l)}
  BY DEF Before
<1>6. Before(z, d + 1) = {t \in ledger : t < resolve_local(z, l + DayLength)}
  BY <1>1 DEF Before
<1> HIDE DEF l
<1>7. /\ Before(z, d + 1) = Before(z, d) \cup InWindow(z, d)
      /\ Before(z, d) \cap InWindow(z, d) = {}
  <2> DEFINE a == resolve_local(z, l)
             b == resolve_local(z, l + DayLength)
  <2>1. a \in Int /\ b \in Int /\ a <= b
    BY <1>2
  <2>2. /\ Before(z, d) = {t \in ledger : t < a}
        /\ Before(z, d + 1) = {t \in ledger : t < b}
        /\ InWindow(z, d) = {t \in ledger : a <= t /\ t < b}
    BY <1>3, <1>5, <1>6
  <2> HIDE DEF a, b
  <2>3. \A t \in ledger : t \in Int
    BY <1>4
  <2> QED
    BY <2>1, <2>2, <2>3
<1>8. IsFiniteSet(Before(z, d)) /\ IsFiniteSet(InWindow(z, d))
  BY <1>3, <1>4, <1>5, FS_Subset
<1>9. /\ Cardinality(Before(z, d)) \in Nat /\ Cardinality(InWindow(z, d)) \in Nat
      /\ Cardinality({}) = 0
  BY <1>8, FS_CardinalityType, FS_EmptySet
<1>10. Cardinality(Before(z, d + 1)) =
         Cardinality(Before(z, d)) + Cardinality(InWindow(z, d)) - Cardinality({})
  BY <1>7, <1>8, FS_Union
<1>11. count_actions(day_window_local(z, d)) = Cardinality(InWindow(z, d))
  BY DEF count_actions, InWindow
<1> QED
  BY <1>9, <1>10, <1>11

\* Nothing is before the first window, everything is before the end of the last.
LEMMA FirstAndLast ==
  ASSUME WindowTypeOK, NEW z, IsZone(z)
  PROVE  Before(z, -1) = {} /\ Before(z, MaxDates + 1) = ledger
<1>1. (-1) * DayLength \in Int /\ (-1) * DayLength + DayLength = 0
  BY DayLengthIs
<1>2. resolve_local(z, (-1) * DayLength) < 0
  BY <1>1, MidnightsFollow
<1>3. (MaxDates + 1) * DayLength = MaxDates * DayLength + DayLength /\ MaxDates * DayLength \in Nat
  BY DayLengthIs, NextDay, InstantsAre
<1>4. MaxDates * DayLength < resolve_local(z, (MaxDates + 1) * DayLength)
  <2> DEFINE l == MaxDates * DayLength + DayLength
  <2>1. l \in Int /\ l - DayLength = MaxDates * DayLength
    BY <1>3, DayLengthIs
  <2> HIDE DEF l
  <2>2. l - DayLength < resolve_local(z, l)
    BY <2>1, MidnightsFollow
  <2> QED
    BY <1>3, <2>1, <2>2 DEF l
<1>5. resolve_local(z, (MaxDates + 1) * DayLength) \in Int /\ resolve_local(z, (-1) * DayLength) \in Int
  BY <1>1, <1>3, MidnightsFollow, DayLengthIs
<1> QED
  BY <1>2, <1>3, <1>4, <1>5, LedgerIs DEF Before

\* The reports of all days count every action once.
LEMMA CountedOnce ==
  ASSUME WindowTypeOK, NEW z, IsZone(z)
  PROVE  LET days == -1 .. MaxDates
             counted == [d \in days |-> count_actions(day_window_local(z, d))]
         IN Total(counted, days) = Cardinality(ledger)
<1> DEFINE days == -1 .. MaxDates
           counted == [d \in days |-> count_actions(day_window_local(z, d))]
           n == MaxDates + 2
           upto(i) == -1 .. i - 2
           T == {i \in 0 .. n : SumFunction(Part(counted, upto(i))) = Cardinality(Before(z, i - 1))}
<1>1. IsFiniteSet(days) /\ n \in Nat
  BY DayLengthIs, FS_Interval
<1>2. counted \in [days -> Int]
  <2> SUFFICES ASSUME NEW d \in days
               PROVE  count_actions(day_window_local(z, d)) \in Int
    OBVIOUS
  <2>1. IsFiniteSet({t \in ledger : day_window_local(z, d).from <= t /\ t < day_window_local(z, d).to})
    BY LedgerIs, FS_Subset
  <2> QED
    BY <2>1, FS_CardinalityType DEF count_actions
<1>3. \A d \in days : counted[d] = count_actions(day_window_local(z, d)) /\ d \in Int
  OBVIOUS
<1> HIDE DEF counted
<1>4. 0 \in T
  <2>1. upto(0) = {} /\ 0 - 1 = -1 /\ n >= 0
    BY DayLengthIs
  <2>2. SumFunction(Part(counted, {})) = 0
    <3>1. IsFiniteSet({}) /\ Part(counted, {}) \in [{} -> Int]
      BY FS_EmptySet DEF Part
    <3> QED
      BY <3>1, SumOfZeros
  <2>3. Cardinality(Before(z, -1)) = 0
    BY FirstAndLast, FS_EmptySet
  <2> QED
    BY <1>1, <2>1, <2>2, <2>3
<1>5. ASSUME NEW i \in 0 .. n - 1, i \in T
      PROVE  i + 1 \in T
  <2> DEFINE d == i - 1
  <2>1. /\ d \in days /\ d \in Int /\ d \notin upto(i) /\ upto(i) \subseteq days
        /\ upto(i + 1) = upto(i) \cup {d} /\ d + 1 = (i + 1) - 1 /\ i + 1 \in 0 .. n
    BY DayLengthIs
  <2>2. SumFunction(Part(counted, upto(i))) = Cardinality(Before(z, d))
    BY <1>5
  <2> HIDE DEF d, upto, days, n
  <2>3. SumFunction(Part(counted, upto(i) \cup {d})) = SumFunction(Part(counted, upto(i))) + counted[d]
    <3> DEFINE U == upto(i)
    <3>1. U \in SUBSET days /\ d \in days \ U
      BY <2>1
    <3> HIDE DEF U
    <3>2. SumFunction(Part(counted, U \cup {d})) = SumFunction(Part(counted, U)) + counted[d]
      BY <1>1, <1>2, <3>1, SumOfOneMore
    <3> QED
      BY <3>2 DEF U
  <2>4. Cardinality(Before(z, d + 1)) = Cardinality(Before(z, d)) + counted[d]
    BY <1>3, <2>1, WindowsFollow
  <2>5. SumFunction(Part(counted, upto(i + 1))) = Cardinality(Before(z, (i + 1) - 1))
    BY <2>1, <2>2, <2>3, <2>4
  <2> QED
    BY <2>1, <2>5
<1>6. n \in T
  <2> HIDE DEF T, n
  <2>1. \A i \in 0 .. n : i \in T
    BY <1>1, <1>4, <1>5, UpTo
  <2> QED
    BY <1>1, <2>1
<1>7. upto(n) = days /\ n - 1 = MaxDates + 1
  BY DayLengthIs
<1>8. SumFunction(Part(counted, days)) = Cardinality(ledger)
  BY <1>6, <1>7, FirstAndLast
<1>9. Total(counted, days) = Cardinality(ledger)
  BY <1>8 DEF Total, Part
<1> QED
  BY <1>9 DEF counted

LEMMA ActionsOnTheirDay == WindowTypeOK => ActionsAreOnTheirDay
<1> SUFFICES ASSUME WindowTypeOK
             PROVE  ActionsAreOnTheirDay
  OBVIOUS
<1> DEFINE days == -1 .. MaxDates
           counted == [d \in days |-> count_actions(day_window_local(report_zone, d))]
<1>1. IsZone(report_zone)
  BY ReportZone
<1>2. ASSUME NEW d \in days, ~SkipsMidnight(report_zone, d)
      PROVE  counted[d] = Cardinality(OnLocalDate(ledger, d))
  <2>1. d \in Int
    BY DayLengthIs
  <2>2. \A t \in ledger : t \in Int
    BY LedgerIs
  <2>3. InWindow(report_zone, d) = OnLocalDate(ledger, d)
    BY <1>1, <1>2, <2>1, <2>2, WindowIsDay DEF InWindow, OnLocalDate
  <2> QED
    BY <2>3 DEF count_actions, InWindow
<1>3. Total(counted, days) = Cardinality(ledger)
  BY <1>1, CountedOnce
<1> QED
  BY <1>2, <1>3 DEF ActionsAreOnTheirDay

-----------------------------------------------------------------------------
(* Messages *)

\* The instants of the dates in S.
OnDates(S) == {t \in Instants : utc_date(t) \in S}

\* A counter of daily_stats has the messages of its date; no message is to come
\* that has come.
DatesAreCounted == \A d \in UtcDates : seen[d] = Total(messages, OnDates({d}))
FewMessages == Total(messages, Instants) <= MaxMessages
NoneFromTheFuture == \A t \in Instants : t > now => messages[t] = 0

WindowInv == WindowTypeOK /\ DatesAreCounted /\ FewMessages /\ NoneFromTheFuture

LEMMA TotalIs == \A f, S : Total(f, S) = SumFunction(Part(f, S))
BY DEF Total, Part

LEMMA DateOrder ==
  ASSUME NEW t \in Int, NEW u \in Int, t <= u
  PROVE  utc_date(t) \in Int /\ utc_date(t) <= utc_date(u)
<1> DEFINE a == t \div DayLength
           b == u \div DayLength
<1>1. /\ a \in Int /\ a * DayLength <= t /\ t < a * DayLength + DayLength
      /\ b \in Int /\ b * DayLength <= u /\ u < b * DayLength + DayLength
  BY DayLengthIs, DayIs
<1>2. utc_date(t) = a /\ utc_date(u) = b
  BY DEF utc_date
<1> HIDE DEF a, b
<1>3. ASSUME b < a
      PROVE  FALSE
  <2>1. b * DayLength + DayLength <= a * DayLength
    BY <1>1, <1>3, DayLengthIs, DaysFollow
  <2>2. a * DayLength \in Int /\ b * DayLength \in Int
    BY <1>1, DayLengthIs
  <2> QED
    BY <1>1, <2>1, <2>2, DayLengthIs
<1> QED
  BY <1>1, <1>2, <1>3

LEMMA DateOfInstant == \A t \in Instants : utc_date(t) \in UtcDates
<1> SUFFICES ASSUME NEW t \in Instants
             PROVE  utc_date(t) \in UtcDates
  OBVIOUS
<1> DEFINE a == t \div DayLength
<1>1. t \in Nat /\ t < MaxDates * DayLength /\ MaxDates * DayLength \in Nat
  BY InstantsAre
<1>2. a \in Int /\ a * DayLength <= t /\ t < a * DayLength + DayLength /\ a * DayLength \in Int
  BY <1>1, DayLengthIs, DayIs
<1>3. utc_date(t) = a
  BY DEF utc_date
<1> HIDE DEF a
<1>4. ASSUME a < 0
      PROVE  FALSE
  <2>1. a * DayLength + DayLength <= 0 * DayLength
    BY <1>2, <1>4, DayLengthIs, DaysFollow
  <2> QED
    BY <1>1, <1>2, <2>1, DayLengthIs
<1>5. ASSUME a >= MaxDates
      PROVE  FALSE
  <2>1. a = MaxDates \/ MaxDates * DayLength + DayLength <= a * DayLength
    BY <1>2, <1>5, DayLengthIs, DaysFollow
  <2> QED
    BY <1>1, <1>2, <2>1, DayLengthIs
<1> QED
  BY <1>2, <1>3, <1>4, <1>5, DayLengthIs DEF UtcDates

LEMMA MessagesAre == WindowTypeOK => messages \in [Instants -> Nat] /\ seen \in [UtcDates -> Nat]
BY DayLengthIs DEF WindowTypeOK

\* One message more.
LEMMA TotalBumps ==
  ASSUME NEW f \in [Instants -> Nat], NEW n \in Instants, NEW S \in SUBSET Instants
  PROVE  Total([f EXCEPT ![n] = @ + 1], S) = Total(f, S) + IF n \in S THEN 1 ELSE 0
<1> DEFINE h == [f EXCEPT ![n] = @ + 1]
<1>1. h \in [Instants -> Int] /\ h[n] = f[n] + 1 /\ \A t \in Instants \ {n} : h[t] = f[t]
  OBVIOUS
<1>2. f \in [Instants -> Int]
  OBVIOUS
<1> HIDE DEF h
<1>3. Part(f, S) \in [S -> Int] /\ Part(h, S) \in [S -> Int] /\ IsFiniteSet(S)
  BY <1>1, <1>2, WithinType, InstantsAre, FS_Subset
<1>4. SumFunction(Part(f, S)) \in Int
  BY <1>3, SumType
<1>5. CASE n \in S
  <2>1. Part(h, S)[n] = Part(f, S)[n] + 1 /\ \A t \in S \ {n} : Part(h, S)[t] = Part(f, S)[t]
    BY <1>1, <1>5 DEF Part
  <2>2. SumFunction(Part(h, S)) = SumFunction(Part(f, S)) + 1
    BY <1>3, <1>5, <2>1, SumChanges
  <2> QED
    BY <1>5, <2>2, TotalIs DEF h
<1>6. CASE n \notin S
  <2>1. Part(h, S) = Part(f, S)
    BY <1>1, <1>6 DEF Part
  <2> QED
    BY <1>4, <1>6, <2>1, TotalIs DEF h
<1> QED
  BY <1>5, <1>6

LEMMA TotalType ==
  ASSUME NEW f \in [Instants -> Nat], NEW S \in SUBSET Instants
  PROVE  /\ Total(f, S) \in Nat /\ Total(f, S) <= Total(f, Instants)
         /\ \A t \in S : f[t] <= Total(f, S)
<1>1. Total(f, S) \in Nat /\ \A t \in S : f[t] <= Total(f, S)
  BY InstantsAre, SumOfNaturalPart, TotalIs
<1>2. SumFunction(Part(f, S)) <= SumFunction(Part(f, Instants))
  BY InstantsAre, SumOfLargerPart
<1> QED
  BY <1>1, <1>2, TotalIs

LEMMA WindowInvInit == WindowInit => WindowInv
<1> SUFFICES ASSUME WindowInit
             PROVE  WindowInv
  OBVIOUS
<1>1. 0 \in Instants /\ 0 \in 0 .. MaxMessages
  <2>1. MaxDates * DayLength >= 1
    <3>1. 0 * DayLength + DayLength <= MaxDates * DayLength
      BY DayLengthIs, DaysFollow
    <3> QED
      BY <3>1, DayLengthIs, InstantsAre
  <2> QED
    BY <2>1, DayLengthIs, InstantsAre DEF Instants
<1>2. WindowTypeOK
  BY <1>1 DEF WindowInit, WindowTypeOK
<1>3. \A S \in SUBSET Instants : Total(messages, S) = 0
  <2> SUFFICES ASSUME NEW S \in SUBSET Instants
               PROVE  SumFunction(Part(messages, S)) = 0
    BY TotalIs
  <2>1. /\ IsFiniteSet(S) /\ Part(messages, S) \in [S -> Int]
        /\ \A t \in S : Part(messages, S)[t] = 0
    <3>1. IsFiniteSet(S)
      BY InstantsAre, FS_Subset
    <3>2. messages = [t \in Instants |-> 0]
      BY DEF WindowInit
    <3> QED
      BY <3>1, <3>2 DEF Part
  <2> QED
    BY <2>1, SumOfZeros
<1>4. DatesAreCounted
  <2>1. \A d : OnDates({d}) \in SUBSET Instants
    BY DEF OnDates
  <2> QED
    BY <1>3, <2>1 DEF DatesAreCounted, WindowInit
<1>5. FewMessages /\ NoneFromTheFuture
  BY <1>3, DayLengthIs DEF FewMessages, NoneFromTheFuture, WindowInit
<1> QED
  BY <1>2, <1>4, <1>5 DEF WindowInv

LEMMA WindowInvBump == WindowInv /\ bump_messages_seen => WindowInv'
<1> SUFFICES ASSUME WindowInv, bump_messages_seen
             PROVE  WindowInv'
  OBVIOUS
<1> DEFINE d == utc_date(now)
<1>1. /\ messages \in [Instants -> Nat] /\ seen \in [UtcDates -> Nat] /\ now \in Instants
      /\ messages' = [messages EXCEPT ![now] = @ + 1]
      /\ seen' = [seen EXCEPT ![d] = @ + 1]
      /\ now' = now /\ zone' = zone /\ ledger' = ledger
      /\ Total(messages, Instants) < MaxMessages
  BY MessagesAre DEF WindowInv, WindowTypeOK, bump_messages_seen
<1>2. d \in UtcDates
  BY <1>1, DateOfInstant
<1>3. messages' \in [Instants -> Nat] /\ seen' \in [UtcDates -> Nat]
  BY <1>1, <1>2
<1>4. \A S \in SUBSET Instants :
        Total(messages', S) = Total(messages, S) + IF now \in S THEN 1 ELSE 0
  BY <1>1, TotalBumps
<1>5. FewMessages'
  <2>1. Total(messages, Instants) \in Nat
    BY <1>1, TotalType
  <2>2. Total(messages', Instants) = Total(messages, Instants) + 1
    BY <1>1, <1>4
  <2>3. Total(messages', Instants) <= MaxMessages
    BY <1>1, <2>1, <2>2, DayLengthIs
  <2> QED
    BY <2>3 DEF FewMessages, Instants
<1>6. DatesAreCounted'
  <2> SUFFICES ASSUME NEW e \in UtcDates
               PROVE  seen'[e] = Total(messages', OnDates({e}))
    BY DEF DatesAreCounted, OnDates, utc_date, Instants, UtcDates
  <2>1. OnDates({e}) \in SUBSET Instants /\ (now \in OnDates({e}) <=> e = d)
    BY <1>1 DEF OnDates
  <2>2. seen[e] = Total(messages, OnDates({e})) /\ seen[e] \in Nat
    BY <1>1 DEF WindowInv, DatesAreCounted
  <2>3. Total(messages', OnDates({e})) = seen[e] + IF e = d THEN 1 ELSE 0
    BY <1>4, <2>1, <2>2
  <2> HIDE DEF d
  <2> QED
    BY <1>1, <1>2, <2>2, <2>3
<1>7. WindowTypeOK'
  <2>1. Total(messages', Instants) <= MaxMessages
    BY <1>5 DEF FewMessages, Instants
  <2>2. \A S \in SUBSET Instants : /\ Total(messages', S) \in Nat
                                   /\ Total(messages', S) <= Total(messages', Instants)
    BY <1>3, TotalType
  <2>3. ASSUME NEW t \in Instants
        PROVE  messages'[t] \in 0 .. MaxMessages
    <3>1. messages'[t] \in Nat /\ messages'[t] <= Total(messages', Instants)
      BY <1>3, TotalType
    <3> QED
      BY <2>1, <2>2, <3>1, DayLengthIs
  <2>4. ASSUME NEW e \in UtcDates
        PROVE  seen'[e] \in 0 .. MaxMessages
    <3>1. seen'[e] = Total(messages', OnDates({e})) /\ OnDates({e}) \in SUBSET Instants
      BY <1>6 DEF DatesAreCounted, OnDates, utc_date, Instants, UtcDates
    <3> QED
      BY <2>1, <2>2, <3>1, DayLengthIs
  <2>5. seen' \in [UtcDates -> 0 .. MaxMessages] /\ messages' \in [Instants -> 0 .. MaxMessages]
    BY <1>3, <2>3, <2>4
  <2> QED
    BY <1>1, <2>5 DEF WindowTypeOK, WindowInv, Instants, UtcDates
<1>8. NoneFromTheFuture'
  BY <1>1, InstantsAre DEF NoneFromTheFuture, WindowInv, Instants
<1> QED
  BY <1>5, <1>6, <1>7, <1>8 DEF WindowInv

LEMMA WindowInvStep == WindowInv /\ [WindowNext]_windowVars => WindowInv'
<1> SUFFICES ASSUME WindowInv, [WindowNext]_windowVars
             PROVE  WindowInv'
  OBVIOUS
<1>1. CASE bump_messages_seen
  BY <1>1, WindowInvBump
<1>2. CASE apply
  <2>1. /\ zone' = zone /\ now' = now /\ seen' = seen /\ messages' = messages
        /\ ledger' = ledger \cup {now}
    BY <1>2 DEF apply
  <2>2. now \in Nat /\ ledger \subseteq 0 .. now
    BY InstantsAre DEF WindowInv, WindowTypeOK
  <2>3. ledger' \subseteq 0 .. now'
    BY <2>1, <2>2
  <2> QED
    BY <2>1, <2>3 DEF WindowInv, WindowTypeOK, DatesAreCounted, FewMessages, NoneFromTheFuture,
                      OnDates, utc_date, Instants, UtcDates
<1>3. CASE hour_passes
  <2>1. /\ zone' = zone /\ now' = now + 1 /\ seen' = seen /\ messages' = messages
        /\ ledger' = ledger /\ now + 1 \in Instants
    BY <1>3 DEF hour_passes
  <2>2. now \in Nat /\ ledger \subseteq 0 .. now
    BY InstantsAre DEF WindowInv, WindowTypeOK
  <2>3. ledger' \subseteq 0 .. now'
    BY <2>1, <2>2
  <2>4. NoneFromTheFuture'
    BY <2>1, <2>2, InstantsAre DEF WindowInv, NoneFromTheFuture, Instants
  <2> QED
    BY <2>1, <2>3, <2>4 DEF WindowInv, WindowTypeOK, DatesAreCounted, FewMessages,
                            OnDates, utc_date, Instants, UtcDates
<1>4. CASE UNCHANGED windowVars
  BY <1>4 DEF windowVars, WindowInv, WindowTypeOK, DatesAreCounted, FewMessages,
              NoneFromTheFuture, OnDates, utc_date, Instants, UtcDates
<1> QED
  BY <1>1, <1>2, <1>3, <1>4 DEF WindowNext

LEMMA WindowInvariance == WindowSpec => []WindowInv
<1>1. WindowInit => WindowInv
  BY WindowInvInit
<1>2. WindowInv /\ [WindowNext]_windowVars => WindowInv'
  BY WindowInvStep
<1> QED
  BY <1>1, <1>2, PTL DEF WindowSpec

\* The counters of some dates have the messages of these dates.
LEMMA DatesAreTotals ==
  ASSUME WindowInv, NEW S \in SUBSET UtcDates
  PROVE  Total(seen, S) = Total(messages, OnDates(S))
<1> DEFINE T == {s \in SUBSET UtcDates : Total(seen, s) = Total(messages, OnDates(s))}
<1>1. /\ messages \in [Instants -> Nat] /\ messages \in [Instants -> Int]
      /\ seen \in [UtcDates -> Int] /\ seen \in [UtcDates -> Nat]
  BY MessagesAre DEF WindowInv
<1>2. \A s : OnDates(s) \in SUBSET Instants
  BY DEF OnDates
<1>3. {} \in T
  <2>1. \A f : SumFunction(Part(f, {})) = 0
    <3> SUFFICES ASSUME NEW f
                 PROVE  SumFunction(Part(f, {})) = 0
      OBVIOUS
    <3>1. IsFiniteSet({}) /\ Part(f, {}) \in [{} -> Int]
      BY FS_EmptySet DEF Part
    <3> QED
      BY <3>1, SumOfZeros
  <2>2. OnDates({}) = {}
    BY DEF OnDates
  <2> QED
    BY <2>1, <2>2, TotalIs
<1>4. ASSUME NEW s \in SUBSET UtcDates, s # {}, s \ {Pick(s)} \in T
      PROVE  s \in T
  <2> DEFINE p == Pick(s)
             r == s \ {p}
  <2>1. p \in UtcDates /\ p \in s
    BY <1>4, PickIn
  <2>2. Total(seen, r) = Total(messages, OnDates(r)) /\ r \in SUBSET UtcDates
    BY <1>4
  <2> HIDE DEF p
  <2>3. s = r \cup {p} /\ p \notin r
    BY <2>1
  <2> HIDE DEF r
  <2>4. Total(seen, r \cup {p}) = Total(seen, r) + seen[p]
    BY <1>1, <2>1, <2>2, <2>3, InstantsAre, SumOfOneMore, TotalIs
  <2>5. OnDates(r) \cap OnDates({p}) = {} /\ OnDates(r \cup {p}) = OnDates(r) \cup OnDates({p})
    BY <2>3 DEF OnDates
  <2>6. Total(messages, OnDates(r) \cup OnDates({p})) =
          Total(messages, OnDates(r)) + Total(messages, OnDates({p}))
    <3> DEFINE A == OnDates(r)
               B == OnDates({p})
    <3>1. A \in SUBSET Instants /\ B \in SUBSET Instants /\ A \cap B = {}
      BY <1>2, <2>5
    <3> HIDE DEF A, B
    <3>2. messages \in [Instants -> Int] /\ IsFiniteSet(Instants)
      BY <1>1, InstantsAre
    <3>3. SumFunction(Part(messages, A \cup B)) =
            SumFunction(Part(messages, A)) + SumFunction(Part(messages, B))
      BY <3>1, <3>2, SumOfTwoParts
    <3> QED
      BY <3>3, TotalIs DEF A, B
  <2>7. seen[p] = Total(messages, OnDates({p}))
    BY <2>1 DEF WindowInv, DatesAreCounted
  <2>8. Total(seen, s) = Total(messages, OnDates(s))
    BY <2>2, <2>3, <2>4, <2>5, <2>6, <2>7
  <2> QED
    BY <2>8
<1>5. \A s \in SUBSET UtcDates : s \in T
  <2> HIDE DEF T
  <2> QED
    BY <1>3, <1>4, InstantsAre, SubsetsByPick
<1> QED
  BY <1>5

\* Parts that have the same messages have the same totals.
LEMMA TotalCovers ==
  ASSUME WindowInv, NEW S \in SUBSET Instants, NEW R \in SUBSET Instants,
         \A t \in S : t <= now => t \in R
  PROVE  Total(messages, S) <= Total(messages, R)
<1>1. messages \in [Instants -> Nat]
  BY MessagesAre DEF WindowInv
<1>2. \A t \in S \ R : messages[t] = 0
  <2> SUFFICES ASSUME NEW t \in S, t \notin R
               PROVE  messages[t] = 0
    OBVIOUS
  <2>1. t \in Instants /\ t \in Nat /\ now \in Nat
    BY InstantsAre DEF WindowInv, WindowTypeOK
  <2>2. t > now
    BY <2>1
  <2> QED
    BY <2>1, <2>2 DEF WindowInv, NoneFromTheFuture
<1> QED
  BY <1>1, <1>2, InstantsAre, SumOfLargerPart, TotalIs

\* What is counted from the date of the window's start to a date that is not
\* before today's.
LEMMA CoversTheDay ==
  ASSUME WindowInv, ~SkipsMidnight(report_zone, report_date),
         NEW last \in Int, utc_date(now) <= last
  PROVE  LET w == day_window_local(report_zone, report_date)
             touched == {utc_date(t) : t \in OnLocalDate(Instants, report_date)}
             n == sum_metric(utc_date(w.from), last)
         IN /\ Today <= n
            /\ n <= Total(messages, {t \in Instants : utc_date(t) \in touched})
            /\ report_zone.before = 0 /\ report_zone.after = 0 => n = Today
<1> DEFINE z == report_zone
           d == report_date
           w == day_window_local(z, d)
           first == utc_date(w.from)
           S == OnDates(UtcDates \cap (first .. last))
           D == OnLocalDate(Instants, d)
           touched == {utc_date(t) : t \in D}
           n == sum_metric(first, last)
<1>1. WindowTypeOK /\ IsZone(z) /\ now \in Instants /\ \A t \in Instants : t \in Int
  BY ReportZone, InstantsAre DEF WindowInv, WindowTypeOK
<1>2. d \in Int /\ LocalDate(z, now) = d
  <2>1. d = LocalDate(z, now)
    BY DEF report_date
  <2>2. now + Offset(z, now) \in Int
    BY <1>1 DEF Offset, IsZone
  <2> QED
    BY <2>1, <2>2, DayLengthIs, DayIs DEF LocalDate
<1>3. w.from \in Int /\ w.to \in Int
  <2>1. d * DayLength \in Int /\ (d + 1) * DayLength \in Int
    BY <1>2, DayLengthIs
  <2> QED
    BY <1>1, <2>1, MidnightsFollow DEF day_window_local
<1>4. \A t \in Int : (w.from <= t /\ t < w.to) <=> LocalDate(z, t) = d
  BY <1>1, <1>2, WindowIsDay
<1>5. n = Total(messages, S)
  <2>1. UtcDates \cap (first .. last) \in SUBSET UtcDates
    OBVIOUS
  <2> QED
    BY <2>1, DatesAreTotals DEF sum_metric
<1>6. \A t \in D : t \in Instants /\ LocalDate(z, t) = d
  BY DEF OnLocalDate
<1>7. \A t \in Instants : LocalDate(z, t) = d => t \in D
  BY DEF OnLocalDate
<1>8. D \in SUBSET Instants /\ S \in SUBSET Instants
  BY DEF OnLocalDate, OnDates
<1>9. \A t \in Instants : t \in S <=> utc_date(t) \in UtcDates /\ first <= utc_date(t) /\ utc_date(t) <= last
  <2>1. first \in Int
    BY <1>3, DateOrder
  <2>2. \A t \in Instants : utc_date(t) \in Int
    BY <1>1, DateOrder
  <2> HIDE DEF first
  <2> QED
    BY <2>1, <2>2 DEF OnDates
<1> HIDE DEF z, d, w
<1>10. first \in Int /\ w.from <= now /\ now < w.to
  BY <1>1, <1>2, <1>3, <1>4, DateOrder
<1>11. ASSUME NEW t \in D, t <= now
       PROVE  t \in S
  <2>1. t \in Instants /\ w.from <= t /\ t \in Int /\ now \in Int
    BY <1>1, <1>4, <1>6
  <2>2. utc_date(t) \in UtcDates /\ utc_date(t) \in Int /\ utc_date(now) \in Int
    BY <1>1, <2>1, DateOfInstant, DateOrder
  <2>3. first <= utc_date(t) /\ utc_date(t) <= utc_date(now)
    BY <1>3, <1>11, <2>1, DateOrder
  <2>4. utc_date(t) <= last
    BY <2>2, <2>3
  <2> QED
    BY <1>9, <2>1, <2>2, <2>3, <2>4
\* An instant of these dates, up to now, is in the day or on the date of its start.
<1>12. ASSUME NEW t \in S, t <= now
       PROVE  \/ t \in D
              \/ w.from \in D /\ utc_date(t) = utc_date(w.from)
  <2>1. t \in Instants /\ t \in Int /\ now \in Int /\ first <= utc_date(t) /\ utc_date(t) \in Int
    <3>1. t \in Instants
      BY <1>8
    <3>2. first <= utc_date(t)
      BY <1>9, <3>1
    <3> HIDE DEF S, first
    <3> QED
      BY <1>1, <3>1, <3>2, DateOrder
  <2>2. CASE w.from <= t
    <3>1. LocalDate(z, t) = d
      BY <1>3, <1>4, <1>10, <1>12, <2>1, <2>2
    <3> QED
      BY <1>7, <2>1, <3>1
  <2>3. CASE t < w.from
    <3>1. utc_date(t) <= first
      BY <1>3, <2>1, <2>3, DateOrder
    <3>2. utc_date(t) = first
      BY <1>10, <2>1, <3>1
    <3>3. w.from \in Instants
      <4>1. 0 <= t /\ now <= MaxDates * DayLength - 1 /\ MaxDates * DayLength \in Int
        BY <1>1, <2>1, InstantsAre DEF Instants
      <4> QED
        BY <1>3, <1>10, <2>1, <2>3, <4>1 DEF Instants
    <3>4. LocalDate(z, w.from) = d
      BY <1>3, <1>4, <1>10, <2>1
    <3> QED
      BY <1>7, <3>2, <3>3, <3>4
  <2> QED
    BY <1>3, <2>1, <2>2, <2>3
<1> HIDE DEF S, D, first
<1>13. Total(messages, D) <= Total(messages, S)
  BY <1>8, <1>11, TotalCovers
<1>14. Total(messages, S) <= Total(messages, {t \in Instants : utc_date(t) \in touched})
  <2>1. \A t \in S : t <= now => t \in {u \in Instants : utc_date(u) \in touched}
    BY <1>8, <1>12
  <2>2. {u \in Instants : utc_date(u) \in touched} \in SUBSET Instants
    OBVIOUS
  <2> HIDE DEF touched
  <2> QED
    BY <1>8, <2>1, <2>2, TotalCovers
<1>15. ASSUME z.before = 0, z.after = 0
       PROVE  Total(messages, S) = Total(messages, D)
  <2>1. \A t \in Int : LocalDate(z, t) = utc_date(t)
    BY <1>15 DEF LocalDate, Offset, utc_date
  <2>2. ASSUME NEW t \in S, t <= now
        PROVE  t \in D
    <3>1. CASE w.from \in D /\ utc_date(t) = utc_date(w.from)
      <4>1. LocalDate(z, w.from) = d /\ t \in Instants /\ t \in Int /\ w.from \in Int
        BY <1>1, <1>3, <1>6, <1>8, <3>1
      <4>2. LocalDate(z, t) = d
        BY <2>1, <3>1, <4>1
      <4> QED
        BY <1>7, <4>1, <4>2
    <3> QED
      BY <1>12, <2>2, <3>1
  <2>3. Total(messages, S) <= Total(messages, D)
    BY <1>8, <2>2, TotalCovers
  <2>4. Total(messages, S) \in Nat /\ Total(messages, D) \in Nat
    BY <1>1, <1>8, MessagesAre, TotalType
  <2> QED
    BY <1>13, <2>3, <2>4
<1>16. Today = Total(messages, D)
  BY DEF Today, D, d
<1> QED
  BY <1>5, <1>13, <1>14, <1>15, <1>16 DEF z, d, w, first, D

LEMMA StatsCover == WindowInv => StatsCoverTheDay
<1> SUFFICES ASSUME WindowInv, ~SkipsMidnight(report_zone, report_date)
             PROVE  LET touched == {utc_date(t) : t \in OnLocalDate(Instants, report_date)}
                        around == Total(messages, {t \in Instants : utc_date(t) \in touched})
                    IN \A n \in {full_report.messages_seen, stats.messages_seen} :
                         /\ Today <= n /\ n <= around
                         /\ report_zone.before = 0 /\ report_zone.after = 0 => n = Today
  BY DEF StatsCoverTheDay
<1> DEFINE w == day_window_local(report_zone, report_date)
<1>1. full_report.messages_seen = sum_metric(utc_date(w.from), utc_date(w.to))
  BY DEF full_report, aggregate
<1>2. stats.messages_seen = sum_metric(utc_date(w.from), utc_date(now))
  <2>1. [w EXCEPT !.to = now].from = w.from /\ [w EXCEPT !.to = now].to = now
    BY DEF day_window_local
  <2> QED
    BY <2>1 DEF stats, aggregate
<1>3. now \in Int /\ IsZone(report_zone) /\ report_date \in Int
  <2>1. now \in Int /\ IsZone(report_zone)
    BY ReportZone, InstantsAre DEF WindowInv, WindowTypeOK
  <2>2. now + Offset(report_zone, now) \in Int
    BY <2>1 DEF Offset, IsZone
  <2> QED
    BY <2>1, <2>2, DayLengthIs, DayIs DEF report_date, LocalDate
<1>4. w.to \in Int /\ now < w.to
  <2>1. (report_date + 1) * DayLength \in Int
    BY <1>3, DayLengthIs
  <2>2. w.to \in Int
    BY <1>3, <2>1, MidnightsFollow DEF day_window_local
  <2>3. LocalDate(report_zone, now) = report_date
    BY DEF report_date
  <2> QED
    BY <1>3, <2>2, <2>3, WindowIsDay
<1>5. utc_date(now) \in Int /\ utc_date(w.to) \in Int /\ utc_date(now) <= utc_date(w.to)
  BY <1>3, <1>4, DateOrder
<1> HIDE DEF w
<1> QED
  BY <1>1, <1>2, <1>5, CoversTheDay DEF w

-----------------------------------------------------------------------------
(* The theorems about ReportWindow *)

\* Type correctness: no counter of daily_stats outruns the messages.
THEOREM WindowTypeCorrect == WindowSpec => []WindowTypeOK
<1>1. WindowInv => WindowTypeOK
  BY DEF WindowInv
<1> QED
  BY <1>1, WindowInvariance, PTL

\* The windows of a zone divide time as its clocks do, for every length of a day,
\* every offset shorter than a day and every transition of an hour: a report has
\* the actions of its local day, and the reports of all days have each once.
THEOREM ActionsReportedOnTheirDay == WindowSpec => []ActionsAreOnTheirDay
<1> QED
  BY WindowTypeCorrect, ActionsOnTheirDay, PTL

\* /report and /stats never count fewer messages than the local day has had, and
\* none of a date of UTC that the day does not touch; in UTC they are exact.
THEOREM ReportsCoverTheDay == WindowSpec => []StatsCoverTheDay
<1> QED
  BY WindowInvariance, StatsCover, PTL
=============================================================================
