# vixen-rs in TLA+

`server/` is a Telegram bot that guards chats. Newcomers have to answer a captcha before
they may write; messages of verified members run through a spam pipeline; moderators ban
and unban; once a day the chat gets a report. This directory models the parts whose
correctness is hard to test, checks them with TLC on small instances, and proves all of
their safety properties for all instances with TLAPS.

Paths below are relative to `server/`. Modules and configurations are run with
`tlc -config X.cfg M` and `tlapm M.tla` from this directory.

## 1. The system and its parts

One process (`bin/server.rs`) runs a teloxide dispatcher, three background jobs and a small
HTTP API over one PostgreSQL database, one Redis and the Telegram Bot API. The dispatcher
handles the updates of one chat one after the other and those of different chats at once;
the jobs run beside it. Nothing else orders them: every part talks to the others through
rows, keys and messages.

| Part | State it keeps | Operations | Called by |
|---|---|---|---|
| Captcha service (`services/captcha/service.rs`) | `captcha_challenges`, `verified_users`, rows of `moderation_actions`, counters of `daily_stats` | issue, reissue, record_message_id, solve, verify_manual | all captcha handlers |
| Captcha state (`services/captcha/state.rs`, `keyboard.rs`) | Redis: input buffer, meta of a photo, verified cache, admin cache, all with a time to live | set, get, clear | all captcha handlers |
| Callback handler (`telegram/handlers/captcha.rs`) | – | digit, backspace, refresh | dispatcher |
| Message gate (`telegram/handlers/message_gate.rs`) | – | delete and challenge, or run the spam pipeline | dispatcher |
| Join handler (`telegram/handlers/member_update.rs`) | – | challenge whoever joins | dispatcher |
| Commands (`telegram/handlers/commands.rs`) | Redis cooldowns | /verify, /ban, /unban, /stats, /report, /summary | dispatcher |
| Expiry job (`jobs/captcha_expiry.rs`) | the batch it swept, in memory | sweep, delete photos, write ledger rows and counters | timer, 60 s |
| Moderation service (`services/moderation_service.rs`) | `moderation_actions`, counters, a cache of moderators | apply | commands, spam pipeline |
| Spam pipeline (`services/spam/`) | `spam_messages`, `spam_messages_per_chat`, `allowed_messages` | inspect, lookup, bump, record | message gate |
| CAS client (`services/cas_client.rs`) | verdicts in memory and in Redis | lookup | spam pipeline |
| Spam cleanup (`jobs/spam_cleanup.rs`) | – | prune | timer, 24 h |
| Report job (`jobs/daily_report.rs`, `models/report_message.rs`) | `report_messages` | tick, deliver | timer, 5 min; /report |
| Summary service (`services/summary_service.rs`, `openai_client.rs`, `models/daily_stats.rs`) | the day's `openai_tokens_used` | summarize: reserve, call, reconcile | report delivery, /summary |
| Permission check (`commands.rs`, `moderation_service.rs`, `captcha/state.rs`) | a cache of moderators in the process, a list of administrators in Redis | is_moderator_or_admin, is_chat_admin | commands, message gate |
| Report aggregation (`services/report_service.rs`) | – | day window, sums, counts, sparkline | report job, /report, /stats |
| Lifecycle (`bin/server.rs`, `jobs/mod.rs`, `database/`) | the cancellation token, the handles of all tasks, the pool | start, drain, give up after 30 s, close | operating system |

What is hard, part by part, and what makes the part correct:

* **Captcha tables.** `solve` and the sweep both end an expired row; `verify_manual` deletes
  whatever row there is; the audit insert may do nothing because of its unique key. Correct
  means: only a live challenge can be solved, every challenge is counted once, every verified
  member has an audit row, wrong answers never prolong a challenge.
* **Captcha handlers.** A refresh is five awaited calls; the sweep, an expiring key, a rejoin
  or a crash may come between any two of them; any member may press the buttons. Correct
  means: keyboards, metas, rows and photos that stand agree; attempts are typed by the owner;
  the cache never opens the gate to the wrong person; challenges and their photos go away.
* **Moderation.** The Bot API is called inside an open transaction that holds a ledger row and
  perhaps the chat row; counters follow after the commit. Correct means: no action twice at a
  time, no row without an answer of Telegram, no counter ahead of the ledger, no circular wait.
* **Spam pipeline.** The fingerprint is looked up, and bumped later; the cleanup prunes in
  between; fingerprints are shared by all chats; two cache tiers and an external service fail
  separately. Correct means: nobody is banned without grounds, no made-up verdict is cached,
  the two hit counters explain each other, a disguised copy is recognised.
* **Reports.** The job and /report replace each other's messages without a lock; tokens are
  charged on the date of the database and refunded on the date it is by then. Correct means:
  a row names a message that stands, no token goes uncharged, the budget holds. What a report
  counts has a day of the chat on one side and dates of UTC on the other: every action is on
  one day, and no message of the day is missed.
* **Permissions.** Two facts of the outside world, who is moderator and who is administrator,
  are remembered in two caches that nothing invalidates, and each call may fail or take long.
  Correct means: power that is taken away or given shows within the lifetime of a cache, a
  failure is not remembered, and the cooldown neither leaks nor grows.
* **Lifecycle.** Signals come at any moment, also during the start; a dozen tasks stop each in
  its own way; the pool waits for connections without a limit. Correct means: a stop always
  ends, normally without the timeout, and then nothing is cut off.

`PROJECT.json` lists each hazard at its line, with the properties aimed at it.

## 2. Modules

| Module | Models | Abstract or composed of |
|---|---|---|
| `VerificationGate` | what the captcha promises: members, their chances, how many passed | abstract specification |
| `CaptchaService` | the tables of the captcha, one action per transaction, any callers | implements `VerificationGate` (`GateSpec`) |
| `CaptchaBot` | dispatcher, handlers, job, Redis and photos, step by step | uses the actions of `CaptchaService` through `INSTANCE`, and implements it (`ServiceSpec`) |
| `Moderation` | `ModerationService::apply`, one statement per step, overlapping callers | – |
| `SpamText` | `normalize`, phrase matching and scores, and which texts read alike | – |
| `SpamPipeline` | `inspect`, its tables, the CAS tiers, the cleanup job, several chats | extends `SpamText` |
| `Reports` | report job, /report, /summary, `deliver` and `summarize`, the token budget | – |
| `ReportWindow` | day windows in every zone, sums per date of UTC, counts of the ledger, sparkline | – |
| `CommandGate` | who may give a command, and how often: permission checks call by call, cooldown | – |
| `Lifecycle` | `main` and its tasks: start, signals, drain, closing the pool | – |
| `…Proofs` | theorems (section 4) | extends the module it is named after; `CaptchaBotProofs` uses `CaptchaServiceProofs`, and `ReportsProofs` extends `ReportWindow` as well |
| `FoldLemmas` | lemmas about `SumFunction` and `FoldLeft`, and the inductions over sets, numbers and texts behind them | used by `SpamPipelineProofs` and `ReportsProofs` |
| `MC…` | the instances for TLC | extends the module of the same name |

Actions carry the name of the function they model; a function that awaits between changes
of state is a chain of actions, and the worker's variable (`task`, `call`, `worker`, `runner`)
says which comes next. One action is one awaited call, or a few where reads that change nothing
come before a change; section 5 lists them. Definitions named `Name_Something` are
wrong variants of `Name`: the properties have been checked to notice each of them.

### Captcha

`CaptchaService` keeps one chat, as every key starts with `chat_id`. A transaction is one
action: `solve` and `verify_manual` lock the row, or delete it, inside theirs. The row of
`issue_challenge` is committed before the image is rendered and the counter bumped, so it is
two actions. `ttl` is the time left until `expires_at`. A unique key with a NULL in it does
not conflict, therefore `ledger` counts rows for each key. `LedgerInsert` is the
`ON CONFLICT DO NOTHING` insert.

`CaptchaBot` runs one handler at a time (`task`), with a list of steps still to do; the sweep,
time, expiring keys, crashes and loss of Redis happen between any two of them. Buttons under
every photo that was ever shown may be pressed at any time, by anybody, also after the photo
was refreshed (a press may be under way). `shown`, `by` and similar histories are not read by
any action that models code. Members are not administrators; the check itself is in
`CommandGate`.

### Moderation

A caller is one run of `apply`. What PostgreSQL makes it wait for is written down in `HoldsRow`,
`HoldsLock`, `HoldsKeyShare`: the unique key while another transaction has inserted the same
one, the chat row locked by an id-mode action, the key-share lock a foreign key needs. The
dispatcher of one process does not let two updates of one chat overlap; `apply` promises to be
right for concurrent callers (`docs/moderation.md:74`), and it is modelled for them, hence
also for two processes that overlap while the bot is redeployed.

### Spam pipeline

One worker per chat. `bump` is one action as long as its UPDATE finds the row, because it then
holds it until the commit; when the row has been pruned meanwhile, the UPDATE holds nothing
and the second statement is an action of its own. CAS may say something else each time it is
asked. Handling a message again stands for an update that Telegram repeats.

A message has a text, a sequence of characters of which `SpamText` has one of each kind that
`normalize` tells apart; its normal form stands for its hash, and phrases, weights and the
threshold of the chat decide what is spam. Unicode's tables (compatibility forms, small
letters, composition) are external; for the characters of `SpamText` they are complete. Among the
letters are i and I, which take an acute in, and I also a dot above; İ, whose small form is i and a
dot; and q, which takes nothing in. Acute and dot above are of one combining class, so that
the first of them that stays keeps the other from the letter; the macron is the one below (U+0331),
which composes with none of the letters and is in nobody's way. `Disguises` is what somebody does to
a text without changing its key: `CopiesAreRecognised` says that two such steps never lead to
another fingerprint. An accent that composes is part of the key, hence not a disguise, and İ
stands for i only where no mark follows: "i" with an acute is "í" to `normalize`, and "İ" with an
acute is "i".

### Reports

Two runners, the job and the worker of the chat, go through `deliver` and `summarize` statement
by statement. `slot` says whether it is before, in, or after the first five minutes of
`report_hour`; the job has at most one tick in each, as its interval is five minutes and late
ticks are delayed. The chat's day and the database's date begin independently, at most a day
apart.

`ReportWindow` is about what a report counts. Instants are hours; a zone is an offset before
and after one transition, so that a local midnight may be skipped or come twice, which
`from_local` says as chrono does (no instant, one, or two). `seen` is `daily_stats` keyed by
`CURRENT_DATE`, `ledger` the `created_at` of the actions; `messages` is a history with the hour of
each message, which the code does not keep. Its specification is `WindowSpec`, with `WindowInit`,
`WindowNext` and `WindowTypeOK`, as `ReportsProofs` extends it beside `Reports`.

### Permissions

`CommandGate` has one worker, as the updates of a chat are handled one after the other, and a
check is its chain of calls: cache, SELECT, insert, GET, getChatAdministrators, SETEX. While a
call is under way time passes and roles change. Time is counted in ticks, and a fact is known
by its age, the ticks since it last changed, of which the largest stands for all larger ones.
The message gate fills the same list of administrators and is an action of the same worker.
The commands themselves are in `CaptchaBot`, `Moderation` and `Reports`.

### Lifecycle

`main` goes through its awaits in order; listener, HTTP server, bridge, dispatcher, jobs and
subscription are a state each, and one action takes one of them a step further. Work is a token
that is computing or talking to Telegram, and then may hold a connection of the pool. `tick`
and `job_ends` are the two branches of the biased `select!` that all jobs share; only
`captcha_expiry` looks at the token between two pieces of a pass. SIGINT goes to the listener
and to teloxide's own handler. What teloxide and axum do when asked to stop is external.

## 3. Runs

| Run | Instance | Shows |
|---|---|---|
| `captcha_service` | 2 members, 1 message id, 2 attempts, lifetime 2, 3 challenges | the tables under arbitrary callers keep `VerifiedAreAudited`, `OutcomesAccounted`, `ChallengeOnlyRunsDown` and implement `VerificationGate` |
| `captcha_bot` | 2 members and a bystander, 3 challenges, nothing fails | `MetaMatchesKeyboard`, `RefreshIsAccepted`: buttons work for their owner under every interleaving |
| `captcha_bot_faults` | 1 member, 2 challenges, crashes, shutdowns, failing Redis, database, rendering, sends, deletes | `CacheSound`, `AnswersAreOwn`, `RecordedPhotoIsCurrent`, and the bot implements the service |
| `captcha_bot_live` | 1 member, 2 challenges, failures except of deletes, no crash | `EveryChallengeEnds`, `SweptPhotoGoes` |
| `moderation` | 3 overlapping callers, 3 calls, 1 target, all failures | `RowsWereAnswered`, `CallsAreSerial`, `StatsFollowLedger`, `AlreadyAppliedIsBacked`, `EveryCallEnds` |
| `spam_pipeline` | 2 chats, 2 users, 3 messages, two of them copies, 4 handlings, all failures | `BansHaveGrounds`, `CachesAreAnswers`, `AggregateIsExplained`, `CopiesAreRecognised` |
| `reports` | job and worker, 3 deliveries or summaries, one day of the chat in which the date of the database changes, all failures | `BudgetHolds`: whatever fails, no counter passes the budget by more than answers overshoot; until a runner is cut off, also that uses are bounded, `RowsStand` and `UseIsCharged` |
| `report_window` | days of 4 hours, 3 days, every zone up to 2 hours off with every transition, 2 messages, 1 action | `ActionsAreOnTheirDay`, `StatsCoverTheDay` |
| `command_gate` | 2 users, one with changing roles, caches of 2 ticks, calls of 1 tick, /stats with a cooldown of 2 ticks, all failures | `PowerIsRecent`, `NewPowerIsSeen`, `CooldownHolds` |
| `lifecycle` | 2 jobs, one with passes of any length, 1 update waiting beside the one that is handled, 1 request, all failures | `OnlyTimeoutCutsOff`, `Drains`, `ShutdownEnds` |
| `find_…` | as small as the counterexample allows | a statement of the repository that the code does not keep (section 6) |

Every passing run also checks the type invariant of its module (`captcha_bot_faults` and
`captcha_bot_live` excepted: `captcha_bot` does).

**Bounds, and why they are enough.** `MaxIssues`, `MaxCalls`, `MaxHandled`, `MaxRuns`, `MaxDays`,
`MaxMessages`, `MaxActions` and the `Commands` of `Reports` bound how much is begun, never what may
happen to it.

* Three challenges for two members give a replaced and a fresh challenge beside another
  member's, all of them in the sweep's batch or past it; two attempts tell the last wrong
  answer from an earlier one; one message id is reused by refreshes, which is where the audit
  key conflicts. `BatchSize` 1 makes the sweep come back for the second row.
* Solutions of two digits over two digits have a buffer that is empty, begun and complete, and
  a wrong answer that shares a prefix with the right one.
* `captcha_bot_faults` leaves out the failure of `editMessageMedia`: `refresh` then records the photo
  for the new challenge although it still displays the old one, and `RecordedPhotoIsCurrent` does
  not hold. The liveness run has it, and leaves out failing deletes instead: a photo whose
  deletion failed is never tried again, on purpose. The theorems about keyboards and photos name
  as hypotheses the failures they cannot have (section 4); those about the cache, the attempts and
  the tables have none.
* Three overlapping calls are one that holds, one that waits for it and one that waits behind
  both; a fourth would wait as the third does. A kind of action occurs twice and its opposite in
  between.
* Four handlings let both chats look a copy up, the cleanup prune it, one chat record it anew
  and a repeated message meet it. `Retention` 0 makes a fingerprint stale after one unit of
  time; how long it takes does not matter to the interleavings.
* Three runs are two at once and one before or after them; `Uses` lies on both sides of
  `Reserve`, so that there are refunds and overshoots; the budget is that of one reservation;
  and the date changes once, so that a refund may reach an empty date. A second day of the
  chat, with a second change of the date, is past what TLC does in minutes; the theorems have any
  number of both. A runner is cut off by a crash or by a
  statement that fails in mid-run, a reconciliation included, which the code only logs
  (`summary_service.rs:193`): `RowsStand`, `UseIsCharged` and the uses of `BudgetHolds` are about
  the behaviours until then. The counters of `BudgetHolds` are not, and leave no room for a second
  reservation of what only one could have.
* The texts of `spam_pipeline` hold letters with marks that compose, with a mark below in between,
  İ with and without a mark after it, and a phrase; two steps of disguise put any two kinds of
  change next to each other, which is where the order of `normalize` matters.
* In `report_window` a day of four hours has a first, a last and two middle hours; the zones are
  on both sides of UTC and move their clocks by an hour at each hour of the second day and at
  its ends; the second day has a whole day on each side. One action suffices, as actions are
  counted one by one; two messages fall on two dates of UTC of one local day.
* In `command_gate` lifetimes of two ticks tell an entry that was read from one that was
  renewed; roles of one user change any number of times. `CallTime` bounds what the calls of
  one check take together. For PostgreSQL and Telegram the code has timeouts; for the pool of
  Redis it configures none, so there it is an assumption: a check that hangs longer decides on
  older facts. Only /stats is given: /summary has the same control and a key of its own, and the
  other commands have the check alone.
* `lifecycle` has no bound on updates, requests, signals or passes, only on how many are there
  at once. `daily_report`, which finishes its pass whatever the token says, has the control of
  `spam_cleanup` as well.

Runs whose behaviours end at a bound say `CHECK_DEADLOCK FALSE`; in the captcha modules time
never stops and deadlock is checked.

**Fairness.** Only what the code schedules is fair. In `CaptchaBot`: a handler that started goes
on (its awaited calls have timeouts), the sweep runs again (the job's loop goes on after an
error and stops only with the process), time passes. No one has to join, to write or to press.
In `Moderation`: each started run of `apply` goes on whenever it is not waiting for a lock, and
nobody has to start one; `EveryCallEnds` therefore says that there is no circular wait between
row lock, unique key and foreign key. In `Lifecycle`: tasks that can go on are scheduled, and
the calls they make end (statements and requests of teloxide and reqwest have timeouts; the
pool hands out a connection or fails). Signals, ticks, requests, updates and failures are not
promised, nor is the timeout of the join: `Drains` does without it, and `ShutdownEnds` assumes
it in its own words.

## 4. What is proved

Every theorem is for all values of its module's constants: any sets of members, chats, messages
and callers, any bounds, lifetimes and failures. The assumptions on the constants stand beside
their declarations (`ConstantsOK`, `SentinelsOK`, `BotConstantsOK`, `BotSentinelsOK`,
`ModerationConstantsOK`, `PipelineConstantsOK`, `ReportsConstantsOK`, `WindowConstantsOK`,
`GateConstantsOK`, `LifecycleConstantsOK`): what is counted is finite, limits and lifetimes are
positive, NULL is not a value, a zone is less than a day off and moves its clocks by one hour.
TLC evaluates them in every run of the module.

| Module | Theorem | States |
|---|---|---|
| `CaptchaServiceProofs` | `TypeCorrect` | `Spec => []TypeOK` |
| | `VerifiedStayAudited` | `Spec => []VerifiedAreAudited` |
| | `ChallengesRunDown` | `Spec => ChallengeOnlyRunsDown` |
| | `OutcomesStayAccounted` | `Spec => []OutcomesAccounted` |
| | `ServiceImplementsGate` | `Spec => GateSpec` |
| `CaptchaBotProofs` | `TypeCorrect` | `Spec => []TypeOK` |
| | `BotImplementsService` | `Spec => ServiceSpec` |
| | `ServiceHolds` | `VerifiedAreAudited`, `OutcomesAccounted` and `GateSpec` hold of the bot |
| | `CacheIsSound` | `Spec => []CacheSound` |
| | `AttemptsAreOwn` | `Spec => []AnswersAreOwn` |
| | `CaptchasStayApart` | `Spec => []ChatInv` |
| | `RecordedPhotoStaysCurrent` | `Spec => []RecordedPhotoIsCurrent`, if edits do not fail |
| | `KeyboardsMatch` | `Spec => []MetaMatchesKeyboard`, if edits and Redis commands do not fail |
| | `RefreshStaysAccepted` | `Spec => []RefreshIsAccepted`, if at most Telegram, rendering and sweeps fail |
| `ModerationProofs` | `TypeCorrect` | `Spec => []TypeOK` |
| | `NoRowUnanswered` | `Spec => []RowsWereAnswered` |
| | `OneCallAtATime` | `Spec => []CallsAreSerial` |
| | `StatsAreBacked` | `Spec => []StatsFollowLedger` |
| | `AlreadyAppliedIsTrue` | `Spec => AlreadyAppliedIsBacked` |
| `SpamPipelineProofs` | `TypeCorrect` | `Spec => []TypeOK` |
| | `OnlyAnswersAreCached` | `Spec => []CachesAreAnswers` |
| | `NoBanWithoutGrounds` | `Spec => []BansHaveGrounds` |
| | `AggregateExplained` | `Spec => []AggregateIsExplained` |
| | `DisguisesDoNotHelp` | any number of disguises of a text of any length keeps its normal form, which is its own |
| | `CopiesRecognised` | `Spec => []CopiesAreRecognised` |
| `ReportsProofs` | `TypeCorrect` | `Spec => []TypeOK` |
| | `PostedReportsStand` | `Spec => []RowsStand` |
| | `EveryUseIsCharged` | `Spec => []UseIsCharged` |
| | `BudgetIsKept` | `Spec => []BudgetHolds` |
| | `WindowTypeCorrect` | `WindowSpec => []WindowTypeOK` |
| | `ActionsReportedOnTheirDay` | `WindowSpec => []ActionsAreOnTheirDay` |
| | `ReportsCoverTheDay` | `WindowSpec => []StatsCoverTheDay` |
| `CommandGateProofs` | `TypeCorrect` | `Spec => []TypeOK` |
| | `OldPowerIsGone` | `Spec => []PowerIsRecent` |
| | `NewPowerCounts` | `Spec => []NewPowerIsSeen` |
| | `CooldownIsExact` | `Spec => CooldownHolds` |
| `LifecycleProofs` | `TypeCorrect` | `Spec => []TypeOK` |
| | `OnlyTimeoutCuts` | `Spec => []OnlyTimeoutCutsOff` |

Hardly any of the properties is inductive as it stands. What each proof adds, and why:

**Captcha service.** *Types* are inductive by themselves. *Audit*: ledger rows are never removed
(`LedgerGrows`), and the only two actions that verify someone leave the row behind, whether
inserted or in conflict with an equal one (`LedgerInsertKeeps`). *Running down* needs that no row
has an id that was not issued yet (`IdsIssued`): otherwise a fresh challenge might be taken for
the old one. *Accounts* needs that the batch is finite (`AccountInv`), as a cardinality says
nothing of infinite sets; each action then moves at most one row from "open" to "counted", and
the sweep moves a whole set from the table to the batch with the cardinality of a disjoint union
(`SweepMovesRows`). *Refinement* maps a live row to the attempts it has left and anything else to
no chance; each action of the service is one step of the gate or leaves it alone, an expired row
being indistinguishable from none.

**Captcha bot.** There are four invariants, each on top of the one before.

* `BotInv`, whatever fails. `TaskShape` lists the steps a handler may have before it and what it
  remembers at each of them; without it a step could do anything to the tables. `NothingUnsent`
  makes the next message id new. `MarkedAreVerified` carries the outcome of `solve` to the step
  that fills the cache, for `CacheSound`. `DigitsAreOwn` says whose digits Redis keeps, for
  `AnswersAreOwn`. The refinement is then step by step: every action is one of the service's
  or leaves the tables alone. So the theorems about the service hold of the bot; its module is
  used through a named INSTANCE, whose assumptions `ServiceConstants` discharges.
* `ChatInv`, whatever fails: captchas do not get mixed up. A message belongs to one user only
  (`OneOwner`), be it through a row, a meta row, the handler or the challenge it shows; no two rows
  hold one challenge (`IdsDiffer`); the challenge a handler works on is the current one of its user
  (`TaskIsCurrent`) and, until its step shows it, on no photo (`TaskIsNew`); what ended a challenge
  left no row (`EndedIsGone`). `Moves` sorts the actions by what they do to messages and challenges
  (nothing new, draw, send, show, enable, record, start), so that each part has one argument for
  each kind and not for each action.
* `PhotoInv` and `KeyboardInv`: the photo a handler is about to record shows its challenge
  (`TaskIsShown`), and while it changes a keyboard there is no meta row (`MetaIsAway`). A failed
  edit breaks the first, a failed edit or Redis command the second; these are the hypotheses.
  Crashes are allowed in both.
* `LiveIsUsable`: the keyboard of a live challenge has a meta row that lives at least as long, but
  for the moments a handler changes it. A crash leaves a challenge without its meta row, and so do
  a failed Redis command and a failed statement. These are the hypotheses of `RefreshStaysAccepted`.

The hypotheses are no stronger than they must be: with any one of the failures they exclude, TLC
finds the property violated in the instance of `captcha_bot_faults`.

**Moderation.** `OneHolder` says that the lock of the chat row is held by one transaction,
`OneOfAKey` that the unique key holds among the rows of the ledger and those still open, and
`OneRowEach` that a transaction has at most one row, which is in the ledger from its commit on. From these
two callers never speak with Telegram about one key. `Answered` ties a row to the answer,
`Counted` holds the counters together with those about to bump them (`Counting`) against the
ledger, as the counters follow the commit. `Clock` and `World` are about time stamps and what
Telegram did.

**Spam pipeline.** `WorkersAreSensible` carries the grounds of a verdict through the steps to the
place where it is applied or recorded; `FingerprintsHaveGrounds` does it for rows that outlive the
message. `HitsAreHandled` bounds counters by the messages that counted, `Pending` being those under
way. `AggregateIsExplained` holds one counter against the sum over all chats: `FoldLemmas` has the
lemmas for this. Its induction is on the size of a set, done once from the minimum principle
`WFMin`, which takes no operator.

**Texts.** `normalize` is five passes over a text, and a disguise may be anywhere in it. Each pass is a
fold, whose value at `Append(s, c)` follows from its value at `s` (`FoldOfAppend`). Put together
(`StateAppend`), they read a text from left to right like an automaton: its state is what has been
read, and whether a mark above that comes now would go to the letter that was read last. So it is
enough to know that two texts reach the same state before and after the place where they differ
(`SameRest`), and that is a question of single characters: one of the same kind (`AlikeAfter`), a mark
that composes with nothing, something invisible, one blank more. The last three need that the text
read so far is tidy: no blank at its begin, never two in a row, and a mark above would go to an "i"
(`StateSound`). İ and i reach the same text but not the same state; what comes next is not a mark
and makes the rest of the state what it is after any letter (`DotReplaced`). That a normal form is
its own is the same: a tidy text is read as itself (`TidyIsRead`). As the invariant speaks of texts alone, `CopiesRecognised` needs only the types.
`DisguisesDoNotHelp` says more than the run checks: texts of any length, any number of steps.

**Reports.** *Rows*: message ids are issued once and a row names one of its own day
(`IdsAreOwn`), and what a runner has sent and not recorded stands and is nobody else's
(`Unrecorded`), hence no other runner deletes it. *Tokens*: `AllCharged` is the equation between
what all dates were charged, what was used and what runners have reserved; a refund may go to
another date than its reservation, so that `TodayCharged` needs a margin for each runner and
`DatesAfforded` counts what a reservation may still use of its own date's budget. As the
properties say, this holds until a runner is cut off between two steps: what it had sent or
reserved stays as it is. The bound on the counters holds beyond that, by an invariant of its own,
`ChargeInv`: a date's counter, with what the answers under way may still add to it, stays within the
budget and one overshoot for each runner.

**Day windows.** `ResolveIs` says what `resolve_local` does with a local midnight that is there once,
twice or not at all. From it midnights keep their order (`MidnightsFollow`), so that the windows of a
zone follow each other without gap or overlap (`WindowsFollow`), and the counts of all days telescope to
the ledger (`CountedOnce`). A midnight that is not skipped divides the instants as the clocks do
(`ClocksAgree`), hence a window between two of them is the day (`WindowIsDay`). `WindowInv` is about the
messages: a counter of `daily_stats` has those of its date (`DatesAreCounted`), the cap holds
(`FewMessages`), which is what keeps the counters within their type, and no message comes before its
time (`NoneFromTheFuture`), without which /stats, whose window ends now, would miss some, and a report,
whose last date may lie past the day, count too many. The dates
of a window cover its day and no other date but one that is empty or that the day touches
(`CoversTheDay`).

**Permissions.** `MokaWasSo`, `ListWasSo` and `ReadWasSo` say of each cache entry and each answer in
hand that it was true within its age and the time of the call that got it; `GrantWasDue` and
`RefusalWasDue` put these together at the decision. `CooldownInStep` says that the key's time to
live and the time since a command got through count in step.

**Lifecycle.** `SpawnedInOrder` and `EndsInOrder` say which tasks there can be at each await of
`main`; `QuietServer`, `QuietDispatcher` and `PiecesCounted` that a task has no work before it
starts or after it ends. The timeout is the only way to the closed pool past a running task.

**Only model-checked.**

* `EveryChallengeEnds`, `SweptPhotoGoes`, `EveryCallEnds`, `Drains`, `ShutdownEnds`: liveness under
  fairness is out of the prover's reach.

Every other property of the passing runs is stated by a theorem, the three about photos and keyboards
under the hypotheses above. No module uses RECURSIVE operators.

## 5. What is not modelled, and why

* Rendering of captcha images, captions, charts and report texts: output without state.
* HTTP API, telemetry, configuration, secrets, migrations: set-up and plain I/O. /health, the
  one request that needs the database, is a request of `Lifecycle`.
* The list of phrases, weights that are not integers, Unicode beyond the characters of
  `SpamText`, `xxh3` (the normal form stands for the hash: no collisions).
* Awaits of the captcha handlers between which only reads happen. A digit or backspace reads and
  writes the buffer of the owner in one step, which no other update of the chat touches meanwhile;
  the gate and the join handler ask the cache, `is_verified` and `active_challenge_message_id` in the
  step that begins the challenge. The refusals they send are not state.
* The 60 s that `lifetime_for` falls back to when its query fails (`captcha.rs:299`): the meta row
  gets the lifetime of the challenge. A failing bump of `captcha_issued`, which is logged only
  (`service.rs:133`).
* What a panic of a job leaves undone: the job counts as ended, as `JoinError` is only logged.
* The prompt of a summary, the title and the top phrases of a report, a report tick over several
  chats (it takes them one after the other).
* Settings of a chat that change: nothing in the code writes them, and the subscription that
  would hear of it only logs. It is not renewed when its stream ends (`redis.rs:104`).
* The clock of the process, which `solve` compares with `expires_at` that PostgreSQL wrote:
  the models have one clock.
* What Telegram does with a message of a banned or vanished user.

## 6. Where code and documents disagree

Each of two runs has one property, the words of the repository turned into a formula, and a
counterexample that is a behaviour of the code.

* `find_captcha_for_verified`. `docs/captcha.md:114` calls re-issuing a captcha to a verified user
  a bug. `/verify` deletes the row and leaves photo and `cap:meta`; `refresh` does not ask whether
  the owner is verified.
* `find_sparkline`. `models/report.rs:34` and `docs/reports.md:34` promise the last seven calendar
  days. The window of a report ends at the next local midnight, and `sparkline` takes the UTC date
  of that instant as its last day: in a chat in UTC that is tomorrow, which has no messages, and
  the oldest of the seven days is missing.

Met while modelling and not made a run:

* `member_update.rs:107` says that after a failed `send_photo` the gate issues a fresh captcha on
  the next message. The row is live by then, `active_challenge_message_id` answers `Some(None)`,
  and the gate (`message_gate.rs:86`) issues nothing while it lives.
* `moderation_service.rs:64` says that the last action wins. The check orders by `created_at`,
  which is the start of the transaction: of two overlapping calls the one that began first may
  take the chat lock last.
* `docs/spam-detection.md:59` says that a message processed again is not acted on again. Its first
  handling recorded its fingerprint, so the second one is a dedup hit (`spam/service.rs:112`):
  after `delete` the author is banned too.
* `report_message.rs:133` and `docs/reports.md:134` say that the next tick sends the missing photo.
  It comes five minutes later, and `daily_report.rs:128` returns unless the minute is below five.
* `docs/reports.md:14` gives the daily report the window of the UTC day; the code has the local one.
  `docs/bot.md:56` and `docs/reports.md:123` give /stats the last 24 hours; it has the local day so
  far, and outside UTC its counters span two dates of UTC, which the comment at `commands.rs:332`
  says it no longer does.
* A normal form need not be its own normal form when an invisible character stood between two
  letters that compose with each other (Hangul): `normalize.rs:39` composes before it strips. The
  test `idempotent` has no such text.
* `docs/architecture.md:145` says not to cache user state longer than a moderator takes to react;
  the list of administrators is kept for six hours and nothing invalidates it.
* `docs/moderation.md:39` says of the moderators in the cache: "Invalidated on `chat_moderators`
  write". `invalidate_moderator` has no caller, and nothing in the code writes that table.
* `docs/moderation.md:60-66` promises one ledger row and one `ban_chat_member` when the bot and a
  moderator ban at once. The unique key has the message id, which a verdict of the bot has and a ban by
  id has not, so the two do not conflict. When the moderator is first, there are two rows and two
  calls, and the ten minutes of a dedup hit (`spam/service.rs:120`) replace the ban for ever; when
  the bot is first, the behaviour check (`moderation_service.rs:145`) tells the moderator "already
  applied", and the ban ends after ten minutes. A ban in reply to the same message does conflict,
  as the document says; the ten minutes stand then, too, if the bot was first.
* `redis.rs:26` speaks of the pool's wait and create timeouts; none are configured.
* A SIGTERM before `dispatch()` runs is refused by the dispatcher, which then polls until the 30 s
  timeout: the bridge (`server.rs:219`) asks once. A dispatcher, an HTTP server or a subscription
  that ends by itself leaves the process running without it.
* A rejoin issues a challenge under a new photo; the old photo, its meta and its buttons stay, and
  digits pressed there count against the new challenge (`keyboard.rs:19` suggests otherwise).
* `spam_messages_per_chat` may run ahead of `spam_messages` (`bump_chat`), though
  `m3_reports.up.sql:62` says lockstep; `AggregateIsExplained` states the direction that holds.
* A failing OpenAI call fails `deliver` after the text, so the photo is not sent;
  `docs/reports.md:135` says that the report posts without caption. The reservation stays charged.
* `docs/database.md:46` calls `summary_token_budget` a hard cap; an answer may overshoot it, and
  around midnight a refund lowers the next date's counter below zero. `BudgetHolds` states the cap
  that holds.
* When the job and /report overlap, messages may be left in the chat that no row names.
* A ban verdict of the pipeline does not delete the message; `docs/spam-detection.md` says
  "ban + delete".
* A ban for a message, an unban, and the same ban again: the key answers "already applied".
* A crash between the call of the Bot API and the commit leaves a ban without a ledger row.

## 7. Plan

Done: the captcha (tables, handlers, abstract gate), moderation, spam pipeline with its texts,
reports with their windows, permissions and cooldowns, lifecycle; the proofs of section 4.

Left: `CaptchaService` at statement level (`solve`, `verify_manual` and the sweep with row locks and a
second clock), shown to implement the present module; it would cover the hazards of the two clocks.
