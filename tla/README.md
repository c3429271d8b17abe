# Verification of pet-sitting-palantir

TLA+ models of the program under `src/src/pet_sitting_palantir/`, TLC runs that check them on
small instances, and TLAPS proofs of what matters most for every instance. Paths below are
relative to that package unless they start with `src/`. `PROJECT.json` lists, for every
definition that models code, the lines it models; the runs with their properties; a mutant for
every property (a plausible bug that the property catches); the findings; the hazards; the theorems.

## 1. The system

A home runner wakes at every 5-minute boundary. It scrapes the *golden* (priority) Auckland
scopes that are due, delivers the alerts that are due, and spends what is left of the tick on
one leaf of one *broad* campaign (`north_island`, `all_nz`). A scrape walks the result pages of
a site that shows at most 300 results of a search, splitting the search until it fits. A
complete result is stored: listings are upserted, those of the scope that it does not show
count a missing run, ended ones expire, alert filters turn what changed into alert events.

| Component | State | Operations | Talks to |
| --- | --- | --- | --- |
| home runner, `workflows/home_runner.py` | lock file, date of the last health check | start, stop, tick, the phases of a tick, sleep | scheduler, delivery, health check (calls) |
| scheduler, `workflows/run_due_scopes.py`, `storage/scrape_scopes.py`, `storage/scrape_runs.py` | `last_attempt_at`, `last_success_at`, `scrape_runs` | choose the due scopes of a phase, open and close a run | scrape and store, campaigns |
| broad campaigns, `workflows/broad_scrape_campaign.py`, `storage/broad_scrape_campaigns.py` | campaign and leaf rows | create, resume, defer, record a success or a failure, split, finalize | scraper; on the end, storing |
| HTTP client, `kiwihousesitters/client.py` | session, time of the last request, deadline | paced request, retry, back-off, challenge | the site |
| search splitting, `kiwihousesitters/scraper.py`, `search_filters.py`, `location_map.py` | the recursion | first page, later pages, split | HTTP client, page parser |
| storing, `workflows/scrape_and_store.py` | the transaction of a run | persist a result, close the run | lifecycle, alert events |
| lifecycle, `storage/listings.py`, `storage/lifecycle.py` | `listings` | upsert, mark missing, expire | |
| alert events, `alerts/events.py`, `alerts/matcher.py` | `alert_events` | compare fingerprints, insert | |
| alert delivery, `workflows/deliver_alerts.py`, `alerts/providers.py` | `alert_delivery_attempts` | read pending, send, record | Telegram and others |
| health check, `workflows/healthcheck.py` | none | read a report, send it | providers |
| schema, `storage/schema.py`, `src/scripts/run-production.sh` | migration history, seeded scopes | make up a history, migrate, seed | started before the runner, outside its lock |
| command line and Lambda, analytics, discovery, scripts | none shared with the runtime | | |

What is hard in it: two processes may run at once, since only `--run-continuously` takes the
lock and `--run-due`, `--deliver-alerts` and `--scope X --persist` do not; a process may be
killed between any two transactions, and during a request; a campaign lasts hours and is merged
over data that faster scopes have stored meanwhile; pauses and cooldowns of different causes
meet; a tick may overrun its successor; a provider may take a message and not say so; the
result cap may show only on a later page; one counter per listing serves overlapping scopes.

What makes each component correct:

* *Home runner*: one runner at a time; broad work only after a clean priority phase and a
  delivery, and clear of the next tick and of quiet hours; no phase's failure stops the loop.
* *Scheduler*: a scope counts as fresh only if all of it was seen; every due scope gets its turn
  however the others fare; challenges and failures are given their rest.
* *Campaigns*: one at a time; its leaves are the scope, exactly; nothing staged is lost; it is
  merged once and whole; it ends.
* *Client, splitting*: requests are paced, end by the deadline, stop at a challenge; a scrape
  that returns is complete.
* *Lifecycle*: evidence is counted once, by one owner, after the last sighting, in whatever
  order results arrive.
* *Alerts*: what a listing says now has been announced, nothing twice running; what is
  recorded as sent was taken; every event is sent in the end.
* *Schema*: the history is true; nobody works on half a schema; tuned cadences are not seeded
  over; every database an earlier release left can be started on.

## 2. The modules

| Module | Models | EXTENDS or INSTANCEs |
| --- | --- | --- |
| `RegionCollection` | abstract: what a broad scope promises | |
| `BroadCampaign` | the broad phase: choice of a scope, campaigns, leaves, pauses, processes, crashes | `RegionCollection` (refinement) |
| `BroadCampaign_proofs` | theorems about `BroadCampaign` | `BroadCampaign`, TLAPS |
| `PrioritySchedule` | the priority phase: due, ready and broadest scopes, cooldowns, a runner killed at will | |
| `PrioritySchedule_proofs` | theorems about `PrioritySchedule` | `PrioritySchedule`, TLAPS |
| `ListingLifecycle` | upsert, missing marks and expiry under direct runs and merged campaigns | |
| `ListingLifecycle_proofs` | theorems about `ListingLifecycle` | `ListingLifecycle`, TLAPS |
| `AlertMatching` | which listings a filter takes, what is news, when it may be delivered | |
| `AlertEvents` | event types, fingerprints and the unique constraint over a listing's life | `AlertMatching` |
| `AlertEvents_proofs` | theorems about `AlertEvents` and `AlertMatching` | `AlertEvents`, TLAPS |
| `AlertOutbox` | abstract: what the delivery of alerts promises | |
| `AlertDelivery` | the delivery queue, attempts, lost answers, two processes | `AlertOutbox` (refinement) |
| `AlertDelivery_proofs` | theorems about `AlertDelivery` | `AlertDelivery`, TLAPS |
| `HomeRunner` | lock, tick loop, time budget, quiet hours, health check | |
| `HomeRunner_proofs` | theorems about `HomeRunner` | `HomeRunner`, TLAPS |
| `SearchClient` | pacing, retries, back-off, deadline, challenges | |
| `ScrapeSplit` | the recursive splitting of a search under the result cap, on a site that changes | |
| `Scraping_proofs` | theorems about `ScrapeSplit` and `SearchClient`, the two sides of a scrape | `ScrapeSplit`, `SearchClient`, TLAPS |
| `SchemaMigrations` | initialization of the database: history, migrations, seed, two processes, crashes | |
| `SchemaMigrations_proofs` | theorems about `SchemaMigrations` | `SchemaMigrations`, TLAPS |
| `MC*` | the instance of each for TLC | |

They fit together through what one takes for granted of another. `HomeRunner` lets a broad
step run until its budget is spent, which `SearchClient`'s `NothingOutlastsTheDeadline` shows
of the requests. `PrioritySchedule`, `BroadCampaign` and `ListingLifecycle` take a scrape that
returns for the whole scope, which is `ScrapeSplit`'s `ReturnsWholeScope`. `ListingLifecycle`
merges the leaves that `BroadCampaign` shows to cover the scope once; `AlertEvents` takes any
sequence of statuses a lifecycle can give; `AlertDelivery` any sequence of events.

### BroadCampaign

An action is one transaction of one process and the code around it. `cid`, `leaf`, `wait` and
`challenges` are the rows of the active campaign of a scope and its leaves (`next_attempt_at`
is kept as the ticks left, `wait`); `due`, `cooling`, `wafScopes` and `quiet` what the
scheduler derives from `scrape_scopes` and `scrape_runs`; `pc` and `job` the processes, the job
being what a process read before its scrape. `embargo` and `merged` are history.
`SelectScope` is the choice of a tick (`run_due_scrape_scopes_with_connection`, phase broad);
`ResumeCampaign`, `DeferCampaign`, `CreateCampaign` and `CreateRefused` the start of a step;
`LeafSucceeds`, `CampaignCompletes`, `LeafFails` and `StaleResult` its end; `Crash` a process
killed, or a merge rolled back. `ManualScrape` and `PriorityWaf` are what the rest of the
program does to the same rows.

`RegionCollection` is the abstract specification: collections are opened when no other one is,
gather one missing piece at a time, and publish the whole with the last piece.
`CollectsWholeScopes` is the refinement.

### PrioritySchedule

An instant that is only compared with the clock is a timer: `dueIn` stands for
`last_success_at` against the interval and the grace, `coolFor` for `last_attempt_at`, `wafFor`
for the scope's latest challenge. A scope is the set of cells of the map that it selects, so
that filter containment is inclusion. `Tick` chooses (`DueScopes`), the chosen scopes take their
turns by interval and id (`Turn`), `Attempt` commits the attempt, `Succeed`, `Fail` and `Challenged` end a scrape of any length, `Restart` is a kill
and a new start. `cellAge`, `rest`, `spent` and `lag` say what really happened; `lag` is the
time slept since a tick left a due scope alone.

### ListingLifecycle

A direct run and a merge are one step each, with an instant of its own. `DirectRun` is a golden
or operator-run scope that ends with success; `LeafStaged` stages a region; `CampaignMerged` and
`FullMerged` store a campaign. Whatever the code does in a run, in its order, is in `Store`:
upsert what was seen, mark what was not, expire by date. A listing's row has its status, its
missing count, `last_seen_at` and its appearance; `marks` and `absentAt` are history since the
listing was last stored as seen: how many missing runs each source, a direct run or a campaign of a
scope, has counted, and when complete scrapes have been without it. Not every listing has an end
date (`Dated`). A behaviour may begin with the baselines of earlier runs whose own listings are over
(`Earlier`), so that it need not spend its steps on them. Every region of the map has a leaf,
whether it has listings or not.

### AlertEvents, AlertMatching and AlertDelivery

An observation and its events are one transaction (`Observe`). What it asks
of a content is `AlertFingerprint` and `ListingMatches` of `AlertMatching`: the pure functions of
`matcher.py`, on records with one field for every rule. `DeliverAfter` is the quiet-hours
arithmetic in local time, of the minute `detected` of the observation; `AlertDelivery` takes what
it gives for the order of its queue. A filter may be switched on and off between runs; that its rules
are edited under its name is left out. Delivery reads a list (`ReadPending`): all that is due and
unsent (`Unsent`), in the order of the query (`Before`, `InOrder`). It asks the provider (`SendSucceeds`; `SendFails`, which may have been taken all the same) and
records (`Record`), with the process free to die in between (`Crash`) and the unique index
free to refuse (`RecordRefused`). `taken` is what each provider has really taken.

`AlertOutbox` is the abstract specification: events are promised, fall due and stay; a message
leaves only when its event is due, once or more often, with or without an answer; a delivery is
confirmed once, and only when the provider has answered for it. `KeepsOutbox` is the refinement:
`promised` is what the queue holds, `due` the part of it that is ripe, `confirmed` the recorded
attempts. That every reliable delivery is confirmed in the end is `EverythingIsSent`; that no call
sends what it knows to be sent, `RecordedIsFinal`.

### HomeRunner

Every step of `_run_continuously` and `_run_tick`, on a clock of minutes over a day that wraps.
Each phase takes any time and ends cleanly, with failures, or by raising. `windowLeft` is the
safe window computed as the tick begins, `budget` the broad step's deadline. `CheckStatus` is what
`send_healthcheck` makes of the answers of the providers (`send_notification`): it asks all of
them, whichever fail, and a database that cannot be read fails nothing.

### SearchClient and ScrapeSplit

`SearchClient` is one scrape's client after another: `TakeSlot` and `PauseEnds` are the pacing of
`_wait_for_request_slot`, `Answer` and `BackoffEnds` the loop of `_request_html`. `gap` is the time
since the last request of any client. Its specification is called `ClientSpec`, so that
`Scraping_proofs` can extend both modules. `ScrapeSplit` holds the recursion of
`_leaf_searches` as the stack `todo` of filters (paths: state, region, subregion, length) and
the pages of the leaf at hand. The site is external. `Init` chooses which listings it has, where, and
under which sit lengths; each page whether the cap notice is shown once there are more results than
the cap, and whether counts are given; and the site changes while it is read (`Publish`,
`Withdraw`): a new listing comes first in the order of `newentries` and moves the others towards
later pages, a withdrawn one lets those behind it slip into a page that has been read. Hence what
`ReturnsWholeScope` says: new listings hide nothing, and of those that were there all the time no
more are lost than were withdrawn from the scope meanwhile.

### SchemaMigrations

`scripts/run-production.sh` initializes the database before it starts the runner, so two processes
may do so at once. An action is one statement of `initialize_database`, all of which are one
transaction: a process sees the committed state and what it has written itself (`Sees`), waits for
a transaction that has created what it is about to create (`Held`), and loses everything when a
statement fails or it is killed (`RollBack`). `create table if not exists` looks before it waits,
so that it fails when the other process commits (`WaitEnds`). A migration is the set of tables and
columns it creates (`Builds`); `StandsFor` are those of them that its history row promises, since
the initial schema was edited before there was a history. `Databases` are the starting points:
nothing, a schema without a history as any version before it left it, or the files of an earlier
release.

## 3. The runs

| Run | Configuration | Shows |
| --- | --- | --- |
| `campaign_one_runner` | `MCBroadCampaign_runner` | One runner with crashes, splits and challenges in either phase: pending and staged leaves are the scope (`ExactCover`), a challenge's pause is kept (`WafPauseKept`), a scope is fresh only when whole (`FreshOnlyWhenWhole`), every campaign ends (`CampaignEnds`) |
| `campaign_two_processes` | `MCBroadCampaign_two` | `--run-due` beside the runner, and direct broad scrapes: an active campaign has a leaf left (`PendingWhileActive`), and the refinement (`CollectsWholeScopes`), by which there is one active campaign at a time and no staged leaf is lost |
| `priority_scopes` | `MCPrioritySchedule_scopes` | Three scopes, a runner killed and started at will: a scope that is not due has been seen (`FreshMeansSeen`), every due scope has its turn (`NobodyStarves`), challenges and failures have their rest (`ChallengedScopeRests`, `AttemptsAreSpaced`) |
| `listing_evidence` | `MCListingLifecycle_evidence` | Two overlapping golden scopes, two overlapping campaigns, and one broad scope scraped by hand as well: `EvidenceHasOneOwner`, `MissesAreAbsences`, `LaterSightingWins`, `ConfirmedByThreshold`, `EndedIsClosed` |
| `alert_events` | `MCAlertEvents_events` | Every history of one listing: `CurrentIsAnnounced`, `NothingSaidTwiceRunning`, `TypesTellTheHistory`; an event stands until the next one (`AnnouncementsStand`); `DeliveredAtFirstChance` |
| `delivery` | `MCAlertDelivery_two` | The runner beside `--deliver-alerts`, crashes, lost answers, a channel without a provider: the refinement of `AlertOutbox` (`KeepsOutbox`), `RecordedIsFinal`, `EverythingIsSent` |
| `runner` | `MCHomeRunner_two` | Two runners, started and stopped at any time of a day, every phase failing or overrunning at will: `AtMostOneRunner`, `BroadKeepsClear`, `DeliveryGoesOn` |
| `client` | `MCSearchClient_client` | Every sequence of answers with and without a deadline: `ClientIsPaced`, `NothingOutlastsTheDeadline`, `CallEnds` |
| `split` | `MCScrapeSplit_scopes` | Every small site, which changes while it is read, and every scope: `ReturnsWholeScope`, `GivesUpOnlyAtTheEnd`, `ScrapeEnds` |
| `schema` | `MCSchemaMigrations_start` | Two processes on any database an earlier release left, interrupted at will: `RecordedIsBuilt`, `WorksOnWholeSchema`, `CadencesStay`, `StartsInTheEnd` |
| `listing_reopened` | `MCListingLifecycle_reopen` | `DelayedDataNeverReopens` is violated (section 6) |
| `runner_check_retry` | `MCHomeRunner_retry` | `FailedCheckIsRetried` is violated (section 6) |

All type invariants are proved. Those of `AlertDelivery` (the statuses a table allows) and of
`SearchClient` (the longest pause) say something that a bug could break and are checked by their runs
too; the others are not run.

**Bounds, and why they are enough.**

* `BroadCampaign`: `north_island` has two regions and `all_nz` three of which it shares two
  (10 and 15 in the code): a split, a region that is last, one that is neither first nor last,
  and an overlap. Two processes, one of which runs once and for all. `MaxChallenges` 1, where the
  pause has reached its longest (4 doublings in the code, by `PauseAssumption` any number);
  `MaxOverrun` 1 tick beyond which the age of a scrape is not counted. Times keep their order
  and not their size. Three ids: one per process that may still hold an old one, and a new one.
  The ids are symmetric where no liveness is checked. With many more processes or regions
  nothing is model-checked; the theorems of section 5 cover them.
* `PrioritySchedule`: a tick is two units of time and the grace one, so that a scrape ends in
  the tick's own unit, within the grace, or beyond it; intervals of one, two and four ticks,
  a WAF cooldown of three as in the settings, and scopes that are nested and that are disjoint.
  A scrape lasts any time and the runner may be killed at any instant. `MaxAge` is the longest
  interval: what is older than that is not told apart, since no property asks how much older.
* `ListingLifecycle`: two listings that share a leaf and both golden scopes, so that a result may
  show one and not the other (the two are symmetric), and one outside Auckland, the only one with
  an end date. Three regions, of which Auckland's leaf comes first, as in the code, and the last is
  empty: the leaf of `waikato`, the only one that can be evidence, is staged and waits for the merge
  while other runs go on. `north_island` is scraped by hand as well, the one run that can see or miss
  `waikato` between its leaf and the merge. Both broad scopes have their baselines, the golden ones
  not. `MaxTime` of 7 steps: a merge of evidence older than a sighting takes four, and evidence of
  both campaigns against one listing, were it not kept apart, a sighting and two campaigns of three
  leaves, which is seven. `listing_reopened` has golden direct runs only, and 5 steps.
  `CHECK_DEADLOCK FALSE` since time ends there.
* `AlertEvents`: one listing (none depends on another), two appearances, four versions of the
  listing with three fingerprints, two of them with one; every window of quiet hours of a day of
  three units, in which a window that spans midnight has an instant before, within and after it. The
  theorems of section 5 have no such bounds. `AlertDelivery`: two events, two channels of which one has no
  provider; nothing in the module grows without end. `CHECK_DEADLOCK FALSE`: when all is sent, nothing is left to do but calls that
  change nothing.
* `HomeRunner`: no scaling: the values of `settings.py` in minutes, all 1440 of a day.
  Two runners. `SearchClient`: the values of `settings.py` in half seconds; deadlines 60 and 120
  seconds away when the client is made, and as near as one likes when it works.
* `ScrapeSplit`: every placement of four listings over three subregions, two of which are of one
  region, and two sit lengths; a cap of two, with one listing a page, so that the cap is met on
  first and on later pages of every kind of search; two changes of the site, a new listing and a
  withdrawn one in either order. `CHECK_DEADLOCK FALSE`: a scrape ends.
  (The code stops at a notice shown for 300 results and more.)
* `SchemaMigrations`: the four files of `src/supabase/migrations`, in which the third one repeats
  what the first has come to contain; the empty database, twelve with a schema and no history, eight
  with the history of an earlier release; two processes. Nothing grows without end.

## 4. Fairness

* `BroadCampaign`: WF of the clock and of what a process has begun, since every request and
  every statement has a timeout; WF of the runner's tick, whose loop has no exit but the
  operator's. SF of a step that is not killed and of a leaf that advances: the machine does not
  kill every step before its end, and a site asked for the same leaf again and again delivers
  it. Without either no campaign could end. The second process is assumed nothing of.
  A third assumption is on the rest of the program: the priority phase is not challenged for
  ever, since a challenge there keeps the broad phase from starting.
* `AlertDelivery`: WF of time and of the next step of the home runner's calls; SF that not every
  such call dies at the same delivery and that a *reliable* channel takes a message it is asked
  to take often enough. Nothing is assumed of other channels, nor of the second process.
* `PrioritySchedule`, `ListingLifecycle` and `AlertEvents` assume none: they state no liveness.
* `SearchClient`: WF of time and of the next step of a call, since a sleep ends and a request has a
  timeout; a scrape need not call again.
* `SchemaMigrations`: a process is started until it works, and its statements are answered (WF); from
  some time on the machine kills no initialization. A statement that fails is not such a kill: a
  start that can never succeed would be a counterexample.
* `HomeRunner`: WF of time and of each runner's next step; a runner need not be started nor
  stay. `ScrapeSplit`: WF of the scrape's next step, and nothing of the site's changes.

## 5. The proofs

`BroadCampaign_proofs` proves, for any scopes, regions, processes, ids and pauses that satisfy
the assumptions of `BroadCampaign`:

| Theorem | States |
| --- | --- |
| `TypeCorrect` | `Spec => []TypeOK` |
| `AlwaysALeafLeft` | `Spec => []PendingWhileActive` |
| `OneCampaign` | `Spec => []OneActive` |
| `NoRegionLostOrDoubled` | `Spec => []ExactCover` |
| `StagedLeavesSurvive` | `Spec => StagedLeafKept` |
| `CampaignsCollectScopes` | `Spec => CollectsWholeScopes` (the refinement) |
| `FreshnessIsEarned` | `Spec => FreshOnlyWhenWhole`, when no direct broad scrape happens |
| `PausesAreKept` | `Spec => WafPauseKept`, when there is one process |

The assumptions: a scope has regions and no region has the position of the full leaf; `None` is
no scope and no id; pauses are natural numbers; and `PauseAssumption`, that the pause has
reached `WafMax` by the time challenges are no longer counted, which makes the bound exact.

*The argument.* None of the safety properties is inductive by itself. `IInv` adds to `TypeOK`
three facts. `LeafShape`: the leaves of an active campaign are the parent-sized leaf alone,
pending; or one leaf for every region of the scope, at least one of them pending, beside a full
leaf that was split or never was. `OneActive`. `JobShape`: a process works on a scope from its
selection on and on a campaign from its first request on. `LeafShape` is what makes `ExactCover`
and the refinement true: pending and staged leaves divide the scope because they are either its
regions, one each, or the whole. That a process with an outdated job does no harm is not in the
invariant but in `Recordable`, which reads the rows again: `StepsOnCampaigns` shows that every
step leaves the campaigns alone or changes one of them in one of a few ways, and
`ChangeKeepsShape` that these keep the shape. The action properties and the refinement follow
from the same lemmas. `PausesAreKept` needs a second invariant, `PauseInv`: for one process the
embargo of a scope is never longer than its `wait`, is over while one of its leaves is being
scraped, and no challenge is fresh while a scope is selected. It is false for two
processes (section 6).

`AlertEvents_proofs` proves, for any listings, contents, filters with any rules, quiet hours, length of
the day and bound on appearances:

| Theorem | States |
| --- | --- |
| `TypeCorrect` | `Spec => []TypeOK` |
| `NothingMissed` | `Spec => []CurrentIsAnnounced` |
| `NothingRepeated` | `Spec => []NothingSaidTwiceRunning` |
| `TypesAreTrue` | `Spec => []TypesTellTheHistory` |
| `EventsStand` | `Spec => []AnnouncementsStand` |
| `FirstChance` | `Spec => []DeliveredAtFirstChance` |
| `FingerprintDecides` | listings of one fingerprint are taken alike by a filter that asks for no words, rating or house type |

The inductive invariant adds that a listing with a row has appeared (`HasAppeared`, for the types),
that every event describes a content which its filter takes (`AllDescribe`), and that none is of an
appearance still to come (`AllDated`, without which `TypesTellTheHistory` is not inductive). The
step that matters is `Observe`, and of it `AnnouncedHistory`: a history stays as it is or gains
one event, of the content observed, not of the fingerprint of the latest, and of the type that
`IsTold` describes. `EventsStand` follows from
`AllDescribe` by `FingerprintDecides`: equal fingerprints agree on every field that a rule other
than words, rating and house type reads. `FirstChance` goes by cases on whether the
window spans midnight.

`ListingLifecycle_proofs` proves, for any listings, scopes, thresholds and length of time:

| Theorem | States |
| --- | --- |
| `TypeCorrect` | `Spec => []TypeOK` |
| `EvidenceIsFresh` | `Spec => []MissesAreAbsences` |
| `OneOwner` | `Spec => []EvidenceHasOneOwner`, when no island is left to two broad scopes and no broad scope is scraped directly that covers more than is left to it, as `all_nz` would |
| `ConfirmedByOne` | `Spec => ConfirmedByThreshold` |
| `EndedStaysClosed` | `Spec => EndedIsClosed` |
| `SightingsGoForward` | `Spec => LaterSightingWins` |

All three ways of storing come down to what they do to one row: `StoredSighting`, `StoredAbsence` and
`StoredNothing` say so of `Upserted`, `MarkedMissing` and `Expired`; the lemmas after them, of a direct
run and of the two merges. The invariant adds that nothing is dated in the future (`Past`), that an
absence a leaf has staged was really observed, at the leaf's time, and is still on record unless
the listing has been seen since (`StagedIsAbsence`), and that the count
is no more than the absences since the last sighting that are merged already (`MissesAreMerged`): the
merge happens long after, and without these two nothing would be known of the evidence it brings.

`SchemaMigrations_proofs` proves, for any files, processes and databases within the assumptions:

| Theorem | States |
| --- | --- |
| `TypeCorrect` | `Spec => []TypeOK` |
| `HistoryIsTrue` | `Spec => []RecordedIsBuilt` |
| `WorksOnAll` | `Spec => []WorksOnWholeSchema` |
| `SeededOnce` | `Spec => CadencesStay` |

`Sound(p)` is what a transaction knows at each of its statements: that all files before `next` are
recorded, that what it has recorded is built, that the file it is recording has been executed.
Another process can only add to the database (`Gains`), which keeps it. `SeededOnce` needs
`OneSeeder`: whoever finds no scopes has itself created the history table in a transaction that is
still open, so there is one such process at a time, and no scopes to write over.

`HomeRunner_proofs` proves, for any number of runners and any lengths of the tick, its margin, the
day and the quiet hours, of which the day and the quiet hours are whole ticks:

| Theorem | States |
| --- | --- |
| `TypeCorrect` | `Spec => []TypeOK` |
| `OneRunnerAtATime` | `Spec => []AtMostOneRunner` |
| `BroadWorkKeepsClear` | `Spec => []BroadKeepsClear` |

The invariant: who is in the loop holds the lock (`HoldsLock`); a window that is not over ends on a
boundary of the clock (`OnBoundary`), so that neither midnight (`SameDay`) nor the end of the quiet
hours (`WithinQuiet`) lies within it; and a broad step's budget is its window without the margin
(`InBudget`). `NextBoundary`, that the first boundary after an instant is no later than any other,
is what carries the arithmetic.

`PrioritySchedule_proofs` proves, for any scopes over any map, and any intervals and cooldowns:

| Theorem | States |
| --- | --- |
| `TypeCorrect` | `Spec => []TypeOK` |
| `FreshIsSeen` | `Spec => []FreshMeansSeen` |
| `ChallengeRests` | `Spec => ChallengedScopeRests` |
| `AttemptsSpaced` | `Spec => AttemptsAreSpaced` |
| `NoneStarves` | `Spec => []NobodyStarves` |

`FreshMeansSeen` follows from `AgeAndDue`: the age of a cell and the time a scope over it has left
add up to no more than the interval, which the passing of time keeps. The two action properties
follow from `Spacing`: the timers of the code are never shorter than what they stand for, and what a
tick chose stays ready until its turn, however long the scopes before it take, because only its own
turn sets its timers (`OneTurn`).

`NoneStarves` is the one for which the number of scopes matters. A tick takes only the broadest of
the due scopes that are ready, so that a scope may be passed over for one above it; `SomeBroadestGoes`
shows that then one above it is taken. It needs the scopes to be finite, which `ScheduleAssumption`
says of them, and well-foundedness of strict inclusion in place of an induction: among the
ready scopes above a given one, one with a smallest set of scopes above it has none. Hence a scope that
is left alone has a cooldown to wait for. `Waits` is the inductive invariant: as long as that cooldown
runs, the time slept and what is left of it add up to no more than the longer cooldown; when it is over,
what is left is the time to the next tick.

`AlertDelivery_proofs` proves, for any events, channels, providers and processes:

| Theorem | States |
| --- | --- |
| `DeliveryTyped` | `Spec => []TypeOK` |
| `RecordedStaysFinal` | `Spec => RecordedIsFinal` |
| `DeliveryKeepsOutbox` | `Spec => KeepsOutbox` (the refinement) |
| `SentWasTaken` | what is recorded as sent was acknowledged, what was acknowledged was taken, and of what was taken the event was due |
| `ListIsFound` | whatever is due and unsent, there is a list of it in the order of the query |

The inductive invariant adds that no event is in the queue twice (`Placed`), and of the list of a call
(`Listed`) that it names nothing twice, that all of it is due, that none of it was known to the call as
recorded, and that an answer of success waiting to be recorded is one the provider gave. That the list
names nothing twice is what makes `RecordedIsFinal` inductive: without it what a call has recorded could
come again further down. That it stays due while new events are stored among those of the queue is
`InsertedElements`: an event is inserted behind those that are ripe. The refinement goes action by action:
`StorePromises`, `RipenFallsDue`, `AskDelivers`, `RecordConfirms`, and nothing else changes what
`AlertOutbox` sees. Two processes need no case of their own, since what the list of one says of what is
due stays true whatever the other does, and that it may be outdated in what has been sent is met by the
index alone (`Recordable`). `SentWasTaken` is a consequence of `AlertOutbox`, not of `AlertDelivery`.
`ListIsFound` rests on the order being total, which needs channels that are named once
(`ChannelsAssumption`, as `alerts/filter_config.py:141` demands).

`Scraping_proofs` proves of `SearchClient`, for any interval, jitter, timeout, back-off and budgets:

| Theorem | States |
| --- | --- |
| `ClientTyped` | `ClientSpec => []ClientTypeOK` |
| `DeadlineKept` | `ClientSpec => []NothingOutlastsTheDeadline` |
| `Pacing` | `ClientSpec => ClientIsPaced` |

The invariant adds `ClientPaced`, what a pause has still to wait for and what has been waited for make up
the interval; `ClientRaises`, `ClientSleeps` and `ClientBegins` are the three ways in which a step of a
call can end. That the back-off of every attempt is within the longest pause needs that powers of two
grow; since induction is out of reach they are taken as what they count, the subsets of `1..n` (`Power`,
`PowerGrows`).

It proves of `ScrapeSplit`, for any site, map, scope, cap and size of a page, and any number of
changes:

| Theorem | States |
| --- | --- |
| `TypeCorrect` | `Spec => []TypeOK` |
| `WholeScopeReturned` | `Spec => []ReturnsWholeScope`, when the site puts every listing under some sit length |
| `GivesUpRightly` | `Spec => []GivesUpOnlyAtTheEnd` |

`WithinScope` says that what is held and what is still to be searched is of the scope
(`ChildrenNarrow`). `Missed` are the listings that were there all the time, are not collected, and
are in no search and on no page still to come; `FewMissed`, that there are no more of them than were
withdrawn. A split loses nothing, since the children of a search have between them what it has
(`ChildrenCover`, which needs the hypothesis about sit lengths); a page that is read leaves what it does not show to
the next one (`PageReads`), unless the notice shows, and then all of the search is split; a new
listing moves the others back only. A withdrawal loses one listing at most: the first behind the
pages that have been read, and there is one such since no two have the same rank
(`RankIsInjective`). When the scrape returns nothing is to come, so that what is missed is what the
result lacks. `GivesUpRightly` rests on `OnlyLengthsEnd`, that every filter but a sit length has
children, and on `NoticeIsTrue`.

*Only model-checked*: what holds under fairness, since liveness and `ENABLED` are out of the prover's
reach: `CampaignEnds`, `EverythingIsSent`, `DeliveryGoesOn`, `CallEnds`, `ScrapeEnds` and
`StartsInTheEnd`. Every safety property of a passing run is proved, under the hypotheses that the tables name.

## 6. What the code does that its documents do not say

Two are kept as runs in which TLC finds a behaviour that breaks the quoted sentence, whose lines
are in `PROJECT.json`:

| Run | What happens |
| --- | --- |
| `listing_reopened` | A merge of an older sighting clears the missing count that a golden run has since begun, as only `last_seen_at` is compared. |
| `runner_check_retry` | A failed health check is logged as retried on the next tick, which is past its window. |

The others follow from the modelled definitions and have no run of their own; a project that
wants one of them changed would begin by stating the quoted sentence as a property.

| Where | What happens |
| --- | --- |
| `BroadCampaign!LeafSucceeds`; `settings.py:43` | With two processes, one that scraped beside another that met a second challenge records its success with the short leaf delay and cancels the doubled pause. |
| `PrioritySchedule!Fail`; `settings.py:36` | The failure cooldown of a 5-minute scope begins after its tick and has no grace, so the next tick finds it cooling and it is retried after 10 minutes. |
| `ListingLifecycle!MarkedMissing`; `src/docs/agent-context/scopes.md:108` | Missing runs of overlapping golden scopes add up in one count, which is compared with the threshold of whichever ran last. |
| `ListingLifecycle!DirectRun`; `src/pet_sitting_palantir/workflows/broad_scrape_campaign.py:378` | The partition of missing authority is the campaigns' only: `all_nz` scraped by hand marks listings of any island missing, and its count adds to theirs; `north_island` scraped by hand adds to the golden scopes' in Auckland. |
| `ListingLifecycle!CampaignMerged`; `src/docs/agent-context/lifecycle-and-safety.md:175` | A region leaf without any listing marks all of its region missing; only a wholly empty result is suspicious. |
| `AlertEvents!IsStored`; `src/docs/agent-context/alerts.md:52` | A listing that changes and changes back is not announced as it now is. |
| `AlertDelivery!Crash`; `src/docs/agent-context/alerts.md:78` | A success that dies before its commit is sent again. |
| `HomeRunner!ScanEnds`; `settings.py:67` | A priority phase that began before midnight goes on in quiet hours. |
| `HomeRunner!HealthcheckIsDue`; `src/docs/agent-context/scheduling.md:44` | A tick that overruns the window skips the day's health check. |
| `SearchClient!TakeSlot`; `settings.py:10` | The first request of a scope follows the last of the scope before without a pause. |
| `ScrapeSplit!Children`; `src/docs/agent-context/scraping-kiwihousesitters.md:105`, `:152` | A listing under none of the sit lengths is lost when its subregion has to be split by them, and then counts as missing. |

## 7. Not modelled, and why

* The shape checks of the filter files: a filter is one that has passed them. The two days a year
  on which the clock is changed, for quiet hours of any kind.
* A filter whose rules are edited under its name: its events then go on from those of the old rules.
* What a migration does to the rows of older tables; `schema.py` does not read them.
* The fields that `parser.py` takes from a page, notification wording, logging, command line
  and Lambda dispatch: no state that the properties tell apart.
* The health check's report, analytics, discovery and shell scripts: read-only or one-off.
* A page limit (`max_pages`): inspection runs only; persisted runs refuse one.
* Pagination follows the site's own next link, without a limit or a memory: the models take the pages of
  a search to be numbered and finite, as the site's are. A site whose links form a cycle would hold a
  priority scan up for ever.

## 8. Plan

The order was: campaigns and their theorems, lifecycle, alert events, delivery, runner, client,
splitting, priority schedule, matching; then the changing site, schema and migrations, the abstract
outbox, and the theorems of lifecycle, schema, runner, priority schedule, client, splitting and
delivery. What is left, in order:

1. An abstract specification of a scrape (all of a scope or nothing) that `ScrapeSplit` refines, for a
   site that does not change.
2. A composition of `BroadCampaign` and `ListingLifecycle` in which leaves are scraped by two
   processes while golden runs go on.
3. The verdict of the health check on the histories of `PrioritySchedule`.

## 9. Running it

In this directory, `tlc -config MC<Module>_<configuration>.cfg MC<Module>.tla` runs one
configuration; `tlapm <Module>_proofs.tla` checks the proofs of a module that has them. The longest
runs, `priority_scopes`, `campaign_two_processes`, `listing_evidence`, `split` and `alert_events`,
take one to three minutes each on two workers; the others take seconds.
