---------------------------- MODULE ReportWindow ----------------------------
(***************************************************************************)
(* What a report of one chat counts.  A report is about a day of the       *)
(* chat's time zone; actions have an instant, messages are counted per     *)
(* date of the database, which is a day of UTC.                            *)
(*                                                                         *)
(* Instants are the hours since an epoch, and DayLength is the number of   *)
(* hours in a day of UTC.  A zone is an offset before and after one        *)
(* transition; a transition may skip local midnight, or repeat it.         *)
(* Malformed is a time zone that does not parse.                           *)
(***************************************************************************)
EXTENDS Integers, FiniteSets, FiniteSetsExt, Functions

CONSTANTS
  DayLength,
  MaxDates,        \* bound: days of UTC in one behaviour
  MaxMessages,     \* bound: messages in one behaviour
  MaxActions,      \* bound: actions in one behaviour
  Zones,           \* the time zones of the chat
  Malformed,
  SPARKLINE_DAYS

UTC == [before |-> 0, after |-> 0, at |-> 0]

ASSUME WindowConstantsOK ==
  /\ {DayLength, MaxDates, SPARKLINE_DAYS} \subseteq Nat \ {0}
  /\ {MaxMessages, MaxActions} \subseteq Nat
  /\ \A z \in Zones : /\ {z.before, z.after} \subseteq 1 - DayLength .. DayLength - 1
                      /\ z.before - z.after \in {-1, 0, 1}
                      /\ z.at \in Int

Instants == 0 .. MaxDates * DayLength - 1
UtcDates == 0 .. MaxDates - 1

VARIABLES
  zone,      \* chat_config.timezone
  now,
  seen,      \* daily_stats, messages_seen: the value of each date
  ledger,    \* moderation_actions of one kind: their created_at
  messages   \* history: how many messages came in each hour

windowVars == <<zone, now, seen, ledger, messages>>

Total(f, S) == SumFunction([e \in S |-> f[e]])

WindowTypeOK ==
  /\ zone \in Zones \cup {Malformed}
  /\ now \in Instants
  /\ seen \in [UtcDates -> 0 .. MaxMessages]
  /\ ledger \subseteq 0 .. now
  /\ messages \in [Instants -> 0 .. MaxMessages]
-----------------------------------------------------------------------------
(***************************************************************************)
(* chrono: dates and local times                                           *)
(***************************************************************************)
Offset(z, t) == IF t < z.at THEN z.before ELSE z.after

utc_date(t) == t \div DayLength
LocalDate(z, t) == (t + Offset(z, t)) \div DayLength

\* The instants at which the clocks of z show the local time l.
from_local(z, l) == {t \in {l - z.before, l - z.after} : t + Offset(z, t) = l}
-----------------------------------------------------------------------------
(***************************************************************************)
(* report_service                                                          *)
(***************************************************************************)
\* Mutant: the later of two instants.
resolve_local_Late(z, l) == IF from_local(z, l) = {} THEN l ELSE Max(from_local(z, l))

\* The earlier of two, and for a local time that is skipped the same in UTC.
resolve_local(z, l) == IF from_local(z, l) = {} THEN l ELSE Min(from_local(z, l))

day_window_local(z, date) ==
  [from |-> resolve_local(z, date * DayLength),
   to   |-> resolve_local(z, (date + 1) * DayLength)]

sum_metric_Exclusive(from_date, to_date) ==   \* mutant: date < to_date
  Total(seen, UtcDates \cap (from_date .. to_date - 1))
sum_metric(from_date, to_date) == Total(seen, UtcDates \cap (from_date .. to_date))

count_actions(w) == Cardinality({t \in ledger : w.from <= t /\ t < w.to})

\* The dates of the points: SPARKLINE_DAYS of them, the last one to_date.
sparkline(to_date) == to_date - SPARKLINE_DAYS + 1 .. to_date

aggregate(w) ==
  [messages_seen |-> sum_metric(utc_date(w.from), utc_date(w.to)),
   actions       |-> count_actions(w),
   last_days     |-> sparkline(utc_date(w.to))]

\* current_report_date_with_tz: what does not parse is UTC.
report_zone == IF zone = Malformed THEN UTC ELSE zone
report_date == LocalDate(report_zone, now)

\* /report and the job: the whole day of today.  /stats: today so far.
full_report == aggregate(day_window_local(report_zone, report_date))
stats == aggregate([day_window_local(report_zone, report_date) EXCEPT !.to = now])
-----------------------------------------------------------------------------
(***************************************************************************)
(* The chat                                                                *)
(***************************************************************************)
WindowInit ==
  /\ zone \in Zones \cup {Malformed}
  /\ now = 0
  /\ seen = [d \in UtcDates |-> 0]
  /\ ledger = {}
  /\ messages = [t \in Instants |-> 0]

\* Mutant: a message is counted by the gate and by the pipeline.
bump_messages_seen_Twice ==
  /\ Total(messages, Instants) < MaxMessages
  /\ seen' = [seen EXCEPT ![utc_date(now)] = @ + 2]
  /\ messages' = [messages EXCEPT ![now] = @ + 1]
  /\ UNCHANGED <<zone, now, ledger>>

\* increment, ON CONFLICT DO UPDATE, with CURRENT_DATE.
bump_messages_seen ==
  /\ Total(messages, Instants) < MaxMessages
  /\ seen' = [seen EXCEPT ![utc_date(now)] = @ + 1]
  /\ messages' = [messages EXCEPT ![now] = @ + 1]
  /\ UNCHANGED <<zone, now, ledger>>

\* A ban, a verification or a deletion.
apply ==
  /\ Cardinality(ledger) < MaxActions
  /\ ledger' = ledger \cup {now}
  /\ UNCHANGED <<zone, now, seen, messages>>

hour_passes ==
  /\ now + 1 \in Instants
  /\ now' = now + 1
  /\ UNCHANGED <<zone, seen, ledger, messages>>

WindowNext == bump_messages_seen \/ apply \/ hour_passes

WindowSpec == WindowInit /\ [][WindowNext]_windowVars
-----------------------------------------------------------------------------
(***************************************************************************)
(* Properties                                                              *)
(***************************************************************************)
\* The local day d begins or ends at a midnight the clocks skip.
SkipsMidnight(z, d) ==
  \E midnight \in {d, d + 1} : from_local(z, midnight * DayLength) = {}

OnLocalDate(S, d) == {t \in S : LocalDate(report_zone, t) = d}

\* An action is reported on the day it was taken, whatever the clocks of the chat
\* do: they may repeat a midnight, and only a midnight they skip moves actions to
\* a neighbouring day.  Even then the reports of all days count it once.
ActionsAreOnTheirDay ==
  LET days == -1 .. MaxDates
      counted == [d \in days |-> count_actions(day_window_local(report_zone, d))]
  IN /\ \A d \in days : ~SkipsMidnight(report_zone, d) =>
          counted[d] = Cardinality(OnLocalDate(ledger, d))
     /\ Total(counted, days) = Cardinality(ledger)

\* The messages of today.
Today == Total(messages, OnLocalDate(Instants, report_date))

\* Messages are counted per date of UTC: a report and /stats never count fewer
\* than the local day has had, and never count those of a date of UTC that the
\* day does not touch.  In UTC they are exact.
StatsCoverTheDay ==
  ~SkipsMidnight(report_zone, report_date) =>
    LET touched == {utc_date(t) : t \in OnLocalDate(Instants, report_date)}
        around == Total(messages, {t \in Instants : utc_date(t) \in touched})
    IN \A n \in {full_report.messages_seen, stats.messages_seen} :
         /\ Today <= n /\ n <= around
         /\ report_zone.before = 0 /\ report_zone.after = 0 => n = Today

\* "`messages_seen` for the last 7 calendar days (server-UTC), oldest first": the
\* messages of each of the last SPARKLINE_DAYS dates are in the report.
SparklineShowsLastDays ==
  \A d \in UtcDates : utc_date(now) - SPARKLINE_DAYS < d /\ seen[d] > 0 =>
    d \in full_report.last_days
=============================================================================
