# mulewatch, specified

A TLA+ development of the mulewatch crawler: modules that model its parts, TLC
configurations that check them on small instances, and theorems about them that
the TLA+ proof system checks for every instance. Paths below are relative to
`packages/crawler/src/mulewatch/` unless they start with `packages/` or `docs/`.

## 1. Inventory

mulewatch watches the eD2k and Kademlia networks for files that match a list of
targets. One process (`composition/app.py`) runs, in one asyncio event loop and
under one `TaskGroup`, a search loop, a download loop, a port-sync loop and a
control loop for the web UI; amuled, its amuleapi HTTP interface and gluetun run
beside it under s6. Two SQLite files keep its state: `catalog.db` (append-only
observations and decisions) and `local.db` (scheduler state, downloads, markers).

| component | state it keeps | operations | what is hard in it |
|---|---|---|---|
| Download loop: `application/run_download_cycle.py`, `adapters/persistence_sqlite/download_repository.py`, `domain/download/` | the `downloads` table (state and `last_seen_at` of each hash), the `disk_low` alert, the locals of a cycle | monitor, completions, presence and TTL, candidates, links | two lists of amuled read at different moments; failures isolated per step; a commit before a notification; a byte budget over files that are not all visible |
| Search cycle: `application/run_search_cycle.py`, `application/search_worker.py`, `domain/search/` | the queue of a cycle, what is left of each keyword, the backoff of each channel and instance, cycle index and backoff in `local.db` | build and shuffle the queue, N workers take tasks, connect, search, poll, widen, record, back off, hand a task back, drop it, save | N workers on one queue; a task skipped by one worker and wanted by another; quiescence; what survives a restart |
| Port sync: `application/port_sync_loop.py`, `adapters/gluetun_port.py`, `adapters/s6_restart.py` | the port being confirmed, the last restart | read the forwarded port, compare, write the preference, restart amuled, alert | two writes that are not atomic, to a daemon that applies one only when the other follows; debounce and cooldown across changes of the port |
| Decisions and backfill: `application/decisions.py`, `record_observations.py`, `reevaluate_catalog.py`, `run_backfill.py`, `domain/retraction.py`, `domain/policy_fingerprint.py`, `adapters/persistence_sqlite/catalog_repository.py` | the append-only journals of `catalog.db`, the fingerprint marker | record an observation, decide, deduplicate, retract, re-evaluate everything when the policy changed | deduplication over a journal; retraction over several targets of one file; a backfill cut short |
| Nudge hub, edge state, clock: `adapters/decision_signal_asyncio.py`, `application/edge_state.py`, `adapters/clock_asyncio.py` | one event per subject, the set of active conditions | signal, wait, enter, leave, sleep | a nudge between the clear and the wait |
| amuleapi client: `adapters/mule_api/` | the HTTP session, its token, the id of the search in flight | connect, close, log in again on 401, start, stop and widen a search, sweep a list by key | a token that expires between two calls; a list that changes under a paged sweep |
| Composition and supervision: `composition/app.py`, `composition/__main__.py`, `adapters/crawler_control_loop.py` | paused, forced cycle, the shutdown event, the task group | start, supervise, run cycles, sleep, pause, force, stop | shutdown while anything is in flight; a loop that dies alone; pause against force |
| Persistence core: `adapters/persistence_sqlite/connection.py`, `reader.py`, `errors.py`, `local_state_repository.py`, `scheduler_state_repository.py`, `migrations/` | the two database files, their versions, the read connection | open, migrate, `BEGIN IMMEDIATE`, quiesce, save | two processes that open and migrate one file |
| Merge: `merge/` | the catalogue merged into | attach, union the journals of several catalogues | the first sighting decides; being cut and run again; a crawler on the same file |
| Compaction: `compact/`, `domain/retention/` | the observation ranges | fold old observations into buckets | an append-only journal that loses rows; a day on both sides of the cutoff; merged before or after |
| Observability: `domain/observability/`, `adapters/observability/` | counters, gauges | turn an event into a notification and a metric | a failing sink must not fail the caller |
| Matching engine: `packages/matching/` | none | validate and resolve a policy, normalise, match, decide | references among tokens; order of targets and segments, the fan-out of one file over several |
| Web UI: `webui/` | a read connection, in another thread | read-only pages, a SQL console, pause, resume, force, restart | several queries that fold one journal each in their own way; intents from another thread |
| Configuration, guards, deployment: `adapters/config/`, `packages/vex_guards/`, `deploy/` | none | parse, validate | no behaviour over time |

What makes each one correct, in the order of the plan below:

- Download loop: a file is announced once, and only when amuled holds it all; a
  live download is never given up; the disk floor holds; nothing is stuck.
- Search cycle: every keyword is searched or given up for a stated reason, once
  per channel; workers never leave a cycle while one of them may still hand a
  task back; a network that refuses us is left alone for its backoff.
- Port sync: amuled ends up listening on the forwarded port, without being
  restarted for a port that is still moving.
- Decisions: a decision is recorded only when it changes; every stale one is
  retracted; a backfill that is cut short is replayed.
- Policy: a file that is accepted can be resolved; a refused one is refused at the start.
- Client: one login per expiry; a sweep returns every row that stayed; results carry
  the keyword that was really searched.
- Supervision: a shutdown ends every task, within its bound; a dead loop ends the
  process; what is asked for is not slept over.
- Merge and compaction: no observation is forgotten, and each is counted once.
- Web UI: lists, totals, facets and coverage agree with each other.

## 2. Plan

In the order of what matters most to a user of the crawler. Each module takes its
parameters as CONSTANTS with a named assumption, has one action per step between
two awaits (or two commits), and states its invariants as conjunctions of named
parts, so that a proof module can extend it.

| | module | models | composes with | state |
|---|---|---|---|---|
| M1 | `DownloadCycle`, `DownloadLifecycle` | the download loop; the abstract life of a row | refinement: the loop implements the lifecycle | modelled, checked, proved |
| M2 | `PortSync` | the port-sync loop | | modelled, checked, proved |
| M3 | `SearchCycle` | the work queue, the workers, the backoff, the save | | modelled, checked, safety proved |
| M4 | `Matching`, `Catalogue`, `CatalogueViews` | the engine; observations, decisions, retraction, the sweep and its marker; what the web UI reads | `Catalogue` extends `Matching`, `CatalogueViews` extends both | modelled, checked, safety proved |
| M5 | `Supervision` | startup, the loops in their group, pause, force, nudge, signals, the armed bound, the exit code | the three loops, a cycle as one interval | modelled, checked, safety proved |
| M6 | `MuleClient` | session, token and one re-login on 401, the search in flight, the paged sweep | with amuleapi, amuled and Kad as its environment | modelled, checked, safety proved |
| M7 | `CatalogTools` | merge, compaction, the opening and migration of a catalogue, the swap | two tools' runs and a crawler on the same files | modelled, checked, safety proved |
| M8 | `MatcherPolicy` | what a policy is refused for; which rules its trees fire | gives `Matching` its rules in `MCCatalogue` | modelled, evaluated |

Runs: for each module one instance with every fault enabled for its safety, one
small instance under fairness for its liveness where the two do not fit in one,
and a run for a disagreement between the code and what its own comments say.

Worth composing next: `Catalogue` with `CatalogTools` (rows merged into a live catalogue
are judged by nobody until they are seen again).

## 3. How to read the models

Every module describes one loop of the process and, around it, the daemons and
the disk it works with. Python runs one task at a time and switches only at an
`await`, so what lies between two awaits is one action. A database write is a
commit of its own, which a stop of the process may follow, so it ends an action
too. What may go wrong is chosen by the constant `Faults`: each kind of failure
that a module knows is named, with a comment, in its `FaultKinds`, and an action
that stands for it has `"kind" \in Faults` as its first conjunct. A definition
whose comment says "variant to refute" is no part of the model: it is a
plausible mistake in the definition after it, kept so that each property can be
shown to notice one.

### 3.1 DownloadCycle, DownloadLifecycle

| in the code | in the model |
|---|---|
| rows of `downloads`, their state | `downloads`, `NoRow` when there is none |
| `last_seen_at` of a row | `age`, in ticks since then, saturated just above the TTL |
| `run_download_cycle` and its locals | `step`; `queued`, `transferring`, `outstanding` (step 0), `shared` (step 2), `free`, `todo` |
| `EdgeState` condition `disk_low` | `diskLow` |
| `DownloadCompleted` events | `notices`, counted per hash |
| amuled's queue, received bytes, shared list; free bytes | `entry`, `got`, `sharedFiles`, `diskFree` |
| an `add_link` that timed out and is still executed | `inflight` |

`offered` and `intruded` are history: the hashes whose link was ever sent; those that
entered amuled's queue since the loop last read it, by a link executed late or by the
operator. The latter are the one exception of `CompletionIsReal` and `CondemnedIsGone`.

`ReadQueue`, `Monitor`, `ReadShared`, `StampCompleted`/`Notify`, `Presence`,
`MeasureDisk`, `AdmitCandidate`/`PassCandidate`, `ReadQueuedRows`,
`LinkTaken`/`LinkRejected` are the steps of a cycle in the order of the code;
`SkipCompletion`, `TargetLookupFails`, `SharedUnreachable`, `LinkUnreachable`,
`DiskUnmeasurable` and the disjuncts guarded by "repo" are its error paths, which
either skip a row, leave a step or end the iteration, as the `except` clauses do.
`Crash`/`Restart` drop the locals and keep the rows. `Receive`, `Clear`,
`LearnSize`, `LateLink`, `MoveOut`, `OperatorAdds`/`OperatorRemoves` are amuled and
its operator.

Abstracted: a sweep of several pages is one read (`MuleClient` takes it apart); the nudge
only shortens the sleep between two cycles, which has no length here; which
hashes have a decision to download is any set, chosen again in each cycle; rows
are never deleted, since no code path of the loop deletes one.

`DownloadLifecycle` is what a reader of the table relies on: the moves between
states, `completed` as the end, one announcement per completion and after it.

### 3.2 PortSync

| in the code | in the model |
|---|---|
| `run_port_sync_cycle` between its awaits | `step`: compare, verify, write, restart, recheck |
| the port read this cycle; `now` of the decision; `_last_restart` | `target`, `sinceDecision`, `sinceRestart` (ages, up to `Window`) |
| `EdgeState` condition `port_mismatch` | `alert` |
| gluetun's forwarded port | `forwarded` |
| amuled's preference, the port it bound when it started, its High-ID | `pref`, `bound`, `highId` |
| amuled up; s6 asked to restart it | `running`, `pending` |

amuled binds its port only when it starts, and `s6-svc` returns before the
restart happens: `RequestRestart` sets `pending`, `Stop` and `Start` follow in
their own time. Two variables are history. `orphaned`: a write of the preference has
lost the restart that should have followed it (its answer was lost, the restart
was refused, or the process stopped in between), and amuled has not started
since. `refused`: this process had a restart refused, and amuled has held no High-ID
since. The ages stop at `Window`, beyond which the code tells them apart no more. Ports are model values; only their equality matters.

### 3.3 SearchCycle

| in the code | in the model |
|---|---|
| `asyncio.LifoQueue` and its unfinished count | `queue` (last element on top), `unfinished` |
| where a worker is in `_worker_loop` and `run_task` | `at`, and the task it runs in `hand` |
| `_SearchTask.skipped_by` | the field of a queue entry |
| `SearchWorker._connected`, the client's session | `connected`, `session` |
| `BackoffRegistry` | `backoff`: attempts and remaining wait of each instance and each instance and channel |
| `scheduler_state` and `channel_backoff` in `local.db` | `unsaved` (how far the loop's index is ahead, capped at 2) and `saved` |
| `EdgeState` condition `coverage_blind` | `blind` |

`Begin` reads the coverage and fills the queue; `Run`, `HandBack`, `Drop`, `Leave`
are the four things a worker does with an item, `Resume` its `task_done` after the
pause or the yield; `ConnectOk/Fails`, `SearchOk/Refused/Unreachable` the outcomes
of the awaits of `run_task`; `Join`, `Gather`, `WriteCycleState`,
`SaveChannelBackoff` the end of a cycle; `Crash`, `Boot` a stop (by failure or by
shutdown) and the wiring that reloads the registry and tries each client once;
`Overflows` the failure whose delay is too large for a float.

Abstracted: one search, with its polls, its widening and its results, is one await
with three outcomes, because nothing of it outlives it; the seeded shuffle of the
keywords is any order; `retry_after`, an instant, is the ticks left until it, which
pass for the registry and its saved copy alike and also while the process is
down; jitter is below a tick. The code counts failures without a limit, the model up to
the one whose delay reaches the cap, which stands for all later ones: at that count a
failure either keeps the capped delay or, any time, overflows and stops the process. The pause
gate and the forced cycle, which only decide when `Begin` happens, are in `Supervision`.

### 3.4 Matching, MatcherPolicy

`Matching` is `engine.py`: `FirstRules` is the first rule of a name, `BestRules` the best
of each target over all its names, `FanOut` and `SingleWinner` what becomes of them,
`Evaluate` the whole. Which rules a name fires is its constant `Fires`.

`MatcherPolicy` says where `Fires` comes from. A mapping of `matcher.yml` is a record
with the same keys, so `DOMAIN raw` is what the code asks with `key in mapping`;
`IsCondition`, `IsTokenDef`, `IsRule` are the checks of the schema, `ValidateConfig`
those of the graph, with `Walk` the depth-first search and its memory of finished
tokens, `Matches` the trees of the resolver. What a keyword or a pattern finds in a
name, and a coverage score, are constants: normalisation, `re` and `rapidfuzz` are
text and floats. `MCCatalogue` writes down the tokens and rules of
`deploy/matcher.yml` (with one more token, a size, so that `attr_between` is there
too) and a second policy that trusts one mark less. Its operators are recursive, so
no other module extends it.

### 3.5 Catalogue, CatalogueViews

| in the code | in the model |
|---|---|
| `file_observations` | `known` (the names of a file), `latest` (its latest row by stamp and id) |
| `match_decisions` | `journal`: the latest row of each file and target |
| the fingerprint in `local.db` | `marker` |
| `run_backfill_if_policy_changed`, `reevaluate_catalog` | `phase`, `policy`, `rest` (files still to sweep) |
| `record_decision_if_changed` and its locals | `job`: the file, its fields, the rows still to write |

`Observe` appends the observation and begins a judgement, `Judge` reads the journal
and evaluates, each `WriteRow` commits one row, `Finish` ends. The sweep judges file
by file (`SweepNext`) and `StoreMarker` ends it. `JudgementRefused` is the
`RepositoryError` both callers absorb; `Stop` is a stop, or a refused marker, which
nobody absorbs. A row may be stamped before the one it should replace (`Hidden`): the
host's clock was set back, and the readers go by the stamp. `judged` and `begun` are
history: the last complete judgement of a file, the last sweep that began.

`CatalogueViews` adds no state: each operator is one query of `catalog_read.py`, or
what a page makes of it.

### 3.6 MuleClient

| in the code | in the model |
|---|---|
| `_http`, the Authorization header | `http`, `token` (none, accepted, refused) |
| `_search_id`, `_current_keyword` | `search`, `current` |
| the call under way, `_request` inside it, the keyset anchor | `call` |
| what a call returns or raises | `got`, `observed`, `outcome` |
| Kad's search list, the swept list, the password | `listed`, `list`, `passwordOk` |

One action is one HTTP roundtrip: `Roundtrip` (answered), `RoundtripFails` (before or
after it was served), `Login`. `Finished` says what each call makes of its last answer.
Between two roundtrips rows appear and disappear, the token expires, amuled restarts,
Kad ends a search. `orphaned` (a keyword on Kad's list the client cannot know of),
`truncated` (an odd answer ended the sweep) and `calm` are history. Methods that read
their answer the same way are one; the fields of a row, but for its names, are left out.

### 3.7 Supervision

| in the code | in the model |
|---|---|
| where `run()` is; what its exit stack holds; its timeout | `phase`, `started`, `stack`, `bound` |
| the task group: cancelling by itself, having raised | `aborting`, `failed` |
| the tasks, cancelled ones | `loop` (the await each is at), `told` |
| `_force_cycle`, the nudge event | `wake` |
| `_resumed`, `_shutdown`, signals received | `resumed`, `shutdown`, `signals` |

A step is what one task does between two awaits. `Top` is the head of a loop,
`EventWakes` and `TimerWakes` the two ends of its sleep, `CancelLoser` and `Slept` the
`finally` that cancels the other one and awaits it: a cancellation that arrives there
is taken for the loser's. `AfterCycle` is where a cycle ends: the port-sync loop sleeps
inside its cycle, so it re-checks the shutdown only after the sleep. `Notice`, `GroupEnds`, `BoundFires`, `CloseOne`, `End` are the
way out; `Signal`, `Pause`, `Resume`, `ForceCycle`, `RestartIntent`, `Nudge` come from
outside. `owed` (a cycle asked for since the last one began) and `ran` are history. It
is one life of the process; a third signal is not modelled.

### 3.8 CatalogTools

| in the code | in the model |
|---|---|
| a catalogue: `user_version`, its tables, `files`, observations, ranges | `disk[p]` |
| a run of `merge` or `compact` and its locals | `tool` |
| the opening of the live catalogue by the crawler | `crawler` |

`MergeStarts` and `CompactStarts` are the checks of the command line and the opening of
the output, `ToolMigrates` and `CrawlerMigrates` one script each, `MergeOne` and
`CompactOne` one source, which is one transaction, or passed over when it is the
destination of `--into`. `ToolStops` cuts anywhere; `Swap` and
`Delete` are the operator, who swaps only an output whose tool ended well and read the
live catalogue while the crawler was down, as `docs/operate.md` asks. `taken`, `grouped`
and `twice` are history: what each catalogue took in, the sets of observations its buckets
were made of, and the catalogues that were merged with another in which an observation
counts otherwise, by a bucket here and by itself, or by another bucket, there. One script
stands for those after the second. The journals that are
copied as the observations are, and complete sources, which are bucketed as sources
are, are left out.


## 4. Runs

| run | instance | checks |
|---|---|---|
| `download_any_fault` | an observed hash of two bytes and an unobserved one of one byte, TTL 1, every fault | `TypeOK`, `AnnouncedAtMostOnce`, `ImplementsLifecycle`, `CompletionIsReal`, `CondemnedIsGone` |
| `download_disk` | two observed hashes of two bytes in four bytes with a floor of one, TTL 1; unmeasurable disk, rejected links | `FloorKept` |
| `download_live` | one hash, TTL 0; unreachable, links executed late, database errors, stops, an operator | `FinishedIsCompleted`, `FailedComesBack`, `QueuedIsOffered` |
| `port_loop` | three ports, a window of two, every fault | `RefusalShows`, `WrittenIsPending`, `Converges`, `AlertRecovers` |
| `search_drain` | two workers, one keyword on two channels, one delay; refused searches, lost answers | `EachTaskOnce`, `LeavesLast`, `SearchesAreSpaced`, `DropIsUnanimous`, `CycleEnds` |
| `search_live` | one worker (the deployed pool), two delays; amuled down, refusals, database errors, stops | `EveryTaskComesAgain`, `BlindEnds` |
| `catalogue_any_fault` | two files, five names, three targets of two episodes, two policies, two faults out of stops, refusals and a clock set back | `TypeOK`, `SettledIsFresh`, `CutSweepIsReplayed`, `NeverDemotedByAName`, `RepairedByObservation`, `ViewsAgree` |
| `catalogue_reverted` | the same instance, stops only | finds `JudgedUnderPolicy` violated |
| `client_session` | two keywords, a list of four rows in pages of two, every fault | `TypeOK`, `KadListAccounted`, `SweepKeepsStayers`, `ResultsAreOurs`, `SessionHeals` |
| `supervision_any_fault` | the full mode: six steps of startup, three loops; failed startup, dead loop, second signal | `TypeOK`, `AskedIsPrompt`, `ExitTellsWhy`, `OneCyclePerPause`, `BoundIsForTheSlow`, `ShutdownEnds` |
| `supervision_swallowed` | the same, a dead loop only | finds `DeadLoopEndsProcess` violated |
| `tools_any_fault` | three paths, two nodes' rows of one file over two days, older and newer releases on both sides, three runs of the tools | `TypeOK`, `NothingForgotten`, `CountedOnce` |

What the bounds are for:

- Two hashes are the least with which a cycle can move several rows in one step
  and commit a prefix of them; one is left unobserved so that candidates
  without a link occur; the other has two bytes, so that it is partial for a while and
  may be of unknown size while it is. In `download_disk` both files fit the disk one by one and
  not together with the floor, which is the case the budget exists for. A TTL of one lets a row be absent for a while and
  come back; the liveness run uses TTL 0, where the condemnation comes soonest.
- Three ports let the VPN move twice while a write is under way; a window of two
  has an inside, a boundary and an outside.
- Two workers and two tasks are the least for a task to be refused by one worker
  and run by the other, for both to refuse it, and for a worker to be pausing
  while its peer hands a task back. The theorems of section 7 hold for any pool.
- `download_disk` has neither "move" nor "unreachable": with them the floor does
  not hold (section 5). It checks what the floor does rest on.
- The five names of `MCCatalogue` give a file nothing but the catch-all, one segment,
  both segments of an episode, segments of two episodes, and no rule at all; two files
  make a sweep that is cut between them; two faults cut a repair as well.
- Four rows in pages of two have a page before, at and after every row that
  changes; with two keywords one can be left on Kad's list while the other runs.
- Three runs of the tools reach merge, compaction of the merged file and a merge of
  both (or a tool cut twice and run again); two days have a cutoff before, between and
  after. The rows differ in what a bucket folds: time, name, node, number of sources.

Before the runs of `MCCatalogue` TLC evaluates `PoliciesOrdered` (the hypothesis of the
theorem `NamesDemoteNothing`) and three assumptions about `MatcherPolicy`: `PoliciesAccepted`, `TreesFire` (the trees of the policies fire the rules the table of
the instance says), and `ValidationIsExact`: for every graph of three tokens, walked in
every order, and bounds of one to four, a config is accepted if and only if no chain of
references is longer than the bound, and a cycle is reported only where there is one.
The search that remembers finished tokens does not show this alone (without the second
check, of the depth, the assumption is false).

`PortSync` and `SearchCycle` have their type invariants proved (section 7) rather than
checked by a run; what a run could tell of them says nothing about the code.

Every run also checks that no state is without a successor, except those of
`Supervision`, where the process ends.

## 5. Where the code and its comments disagree

Two runs find the quoted sentence violated.

| run | what happens |
|---|---|
| `catalogue_reverted` | A sweep under a new policy is cut short and the operator goes back to the old policy: the marker still names the old one, the sweep is skipped, and the loops run with decisions of a policy nobody runs, where `run_backfill.py` says that the next start "retries the full pass". |
| `supervision_swallowed` | A loop dies while a sibling is at the `await` in the `finally` of its sleep: the sibling takes the group's cancellation for the loser's and suppresses it; the group cancels once, so the sibling goes on for ever and the error is never reported, where `_supervise` says "we don't mask it". |

Seen while modelling, and left without a run of their own:

- A row queued just before amuled was unreachable for longer than the TTL is failed by
  the first cycle that reaches amuled, before its link was ever sent, where the comments
  say such a row is "caught up next round".
- The target lookup comes after the commit of the completed state: if it raises, or the
  process stops there, the event is never sent, although "the notification fires exactly
  once per download".
- The bytes still to come are summed from amuled's queue; a row whose link could not be
  sent is in no sum, and the next cycle admits another file into the same space. A
  finished file that leaves the incoming directory before the loop has noticed it opens
  the same gap.
- A link that amuled executes late, or an entry the operator adds, after the queue was
  read can complete a row whose file is partial (`intruded` names such a file, and
  `CompletionIsReal` excepts it).
- `backoff_delay` computes the power before it caps it, and the count of failures has no
  limit and is saved: with the factor 2 of `deploy/crawler.yml` about a thousand
  consecutive failures raise `OverflowError`, which leaves `run_task` although its
  docstring says "Never raises", ends the process, and comes back one failure after the
  registry is reloaded. `EveryTaskComesAgain` shows that the searches come back all the
  same once amuled answers; `Supervision` has such an end among the deaths of a loop.
- After a refused restart the preference equals the forwarded port, so no later cycle
  asks for the restart that `s6_restart.py` says is retried. Its alert stays lit
  (`RefusalShows`) until a cycle reads a High-ID, which may be that of the port before.
- A write of the preference whose answer is lost leaves the port wrong as well, and no
  alert: the next cycle finds the preference it wanted.
- A save of the cycle that failed is absorbed and the loop's own index goes on; "the
  cycle will be replayed" does not happen. Index and registry are saved in two
  transactions where a comment says "together".
- Reconnecting a client that still has its HTTP session does nothing, succeeds, and
  clears the failures of the instance; an amuled that stays down never gets past the
  first delay.
- The page of a file explains its first decision by its latest name only; for a file of
  several names it may show rules that did not decide it (`DetailExplainsTheRule` is
  about files of one name).
- When the bound of the shutdown has fired, what is left on the stack is still closed,
  without a bound.
- A `MigrationError` or a `PersistenceError` leaves the `main` of a tool as a traceback,
  past its exit codes; a compaction that fails leaves an empty output behind, which the
  next one refuses.
- Rows merged `--into` the live catalogue are not judged while the marker says that the
  policy has not changed, until they are observed again.
- A clock that goes back over midnight between two compactions could bring a row to a day
  already folded; `CatalogTools` excludes it (`Observe` has a clock that does not go
  back).
- Two rules of one name are accepted, and the tree of the last one stands for both
  (`Tree`).

## 6. Fairness

- The event loop gives every ready task its turn and each await ends (calls have
  timeouts, sleeps end): weak fairness of `Loop`, of each worker's `Work`, of `MainStep`
  and each `Step(l)` in `Supervision`, of `Exchange` in `MuleClient`, of the steps of the
  pipeline and of the sweep in `Catalogue`.
- Time passes: weak fairness of `Tick`.
- The process, or amuled, is stopped only so many times and is started again by
  s6: `<>[](step # "down")` and its like (in `SearchCycle` only the stops from outside
  end, an overflow may stop it again and again), weak fairness of `Boot`, `Start`, `Stop`.
- Where a property is about a retry, the call that is tried again and again
  succeeds again and again: strong fairness of `Monitor` without an error,
  `ReadShared`, `ReadQueuedRows`, `StampCompleted`, `LinkTaken` in the download
  loop, of `Compare`, `Verify`, `WritePreference`, `RequestRestart` in port sync.
  Without it an amuled that never answers makes every one of these properties
  false, in the code as in the model.
- The loops connect and ask for something again and again: strong fairness of `Connect`
  and of one plain call in `MuleClient`. A file still shared is found again by some later
  cycle: strong fairness of `Observed(h)` in `Catalogue`.
- `SearchCycle` assumes none of the latter: `EveryTaskComesAgain` has what it
  needs of amuled as its premise, and `CycleEnds` needs nothing of it. `SessionHeals`
  likewise has its password and its answers as a premise.
- `CatalogTools` has safety properties only, and no fairness.

## 7. Theorems

The proofs take the constants as they are declared, with the named assumption of
the module, and no bound.

`DownloadCycleProofs`. `TypeCorrect`, `AnnouncementSafety`, `CompletedStays` and `LoopImplementsLifecycle` hold for any
faults (that a completed row stays so is `CompletedIsTerminal`, which the runs leave to
the lifecycle). A row is stamped from the local `todo`, which was computed before the
write, so the invariant `RowInv` says what `todo` may hold in each step: rows not
yet completed while completions are pending, one just stamped when it is to be
announced, queued rows while links are sent. From it the lemma `RowStep` gives
what one step of the loop does to the rows and announcements, and that is a step
of the lifecycle or a stutter.

`CompletionsAreReal` and `CondemnedAreGone` are about acting on two lists of
amuled read at different moments, under any faults. They rest on `SnapshotInv`: between
the reads and their last use the loop adds nothing to amuled's queue, so for every file
but those in `intruded` the queue only shrinks and transfers only finish (`OnlyShrinks`);
then the queue snapshot covers the queue, and the two lists together what is shared.
Without the exception the statements are false.

`FloorIsKept` is about the budget of a cycle. The code reads three numbers at three
moments: the bytes amuled has still to receive (`outstanding`, step 0), the free space
(step 3), and the sizes it admits. The invariant `FloorInv` compares them with the bytes
really owed now, `OwedBytes`: what each entry of amuled has still to receive, and the
whole of each row whose link is not sent yet. Transfers that advance in between only
make what is owed smaller than what was read; an admission adds one size to both; a link
turns the size of a row into the rest of an entry. It needs two hypotheses. The disk must
begin with the floor free. And of the faults only "disk" and "reject" are allowed
(`Undisturbed`): a row whose link could not be sent in the cycle that admitted it, or
after a stop, is in no sum that the next cycle reads, and a file that is moved out or
added by the operator changes one number and not the other (section 5). `OwedBytes` is a
sum over a set of files, so it rests on the sums of `FiniteLemmas`.

`PortSyncProofs`. `WrittenPreferenceIsPending`: a preference that amuled has not
bound has a restart on its way unless `orphaned` says why not, for any faults. It
is inductive with the type invariant, and it is what makes it safe to compare
the forwarded port with the preference alone. `RefusalIsShown` is `RefusalShows`: the
steps that clear the alert are those that read a High-ID, and these end the obligation.

`SearchCycleProofs`. The safety properties of `search_drain` and the type invariant, for
any pool of workers, keywords, delays and faults. The invariants, in the order they build
on each other:

- `Accounted` (`CountIsExact`): asyncio's count is the length of the queue plus the
  number of workers that have taken an item and not yet marked it done. It gives that the
  count is never negative, and that `Join` happens with an empty queue and no
  worker under way.
- `ControlInv`: no sentinel while the cycle drains, nothing but sentinels once it
  winds up, and no worker left of a cycle that is over.
- `PlacedInv`: each task is queued once, or held by one worker, or over. With
  `Accounted` it makes every task over at `Join`, hence `WorkersLeaveLast`, and
  itself gives `NoTaskLostOrDoubled`.
- `SpacedInv`: a worker that skipped its pause is in front of an empty queue, and
  only one who takes from the queue ever puts back into it.
- `WaitInv`, `RefusalInv`: only the top of the queue has been refused, and a worker
  that refused it has run nothing since, so its failures are still on record
  when the last worker's refusal drops the task (`DropsAreUnanimous`).

`SupervisionProofs`. `TypeCorrect` proves `PhaseOK` (what each phase implies for the
tasks, the group and the bound) and, with the index of each resource as strengthening
(`StackInv`), that the stack holds what was started, in the order of the startup. On it
rest `PromptInv` (a loop with a cycle owed to it, asleep, has its event set:
`RequestsAreServed`), `GateInv` (a search loop past the gate has not run since
the last pause: `PausesHold`), `BoundInv` (once the bound is armed every task still
alive has been cancelled: `DeadlineIsForTheSlow`) and `LifeInv` (which failures each phase
may still report: `ExitCodeIsTrue`). They hold for any loops, resources and faults.

`MuleClientProofs`. One invariant, `Inv`, types the session, the call under way and its
answers, for each route. `KadListAccounted` is inductive with it. `ResultsAreOurs` is an
action property of the same invariant: the keyword stamped on the rows is that of the
search in flight at the moment they are read. `SweepsKeepStayers` rests on `SweepInv`:
what a sweep has collected contains every row below its cursor that was listed since it
began, and nothing that was never listed; pages are read by key, so removals and
appearances before the cursor cannot shift it.

`FiniteLemmas` has what these proofs need of finite sets and of nothing else: the
smallest and largest member, the increasing enumeration, the ranks of an order, and the sum
of a function over a set (`Total`, equal to the community modules' `MapThenSumSet`), with
how it changes at one member and how it adds up over disjoint parts. The library's induction rules take an operator as parameter, so each of them
is proved from a smallest counterexample.

`CatalogueProofs`. `Base` is the type invariant with the shape of the journals (rows only
of observed files, jobs only of rows). `SettledAreFresh` adds `WriteInv` (while the rows
of a file are written, each target has the row the engine decides or is still to get
it) and `SettledInv` (a file judged to the end has them all); a judgement with a row
hidden by a clock that was set back is not `whole`, and settles nothing.
`CutSweepsAreReplayed` has `ReplayInv`: below the sweep's cursor everything is of the new
policy, and the marker is written only at its end.

`NamesDemoteNothing` says that another name never takes a file its strongest tier, in any
state between two rows. For arbitrary policies this is false: a new name may make a
single winner of another target, of a weaker tier, or a catch-all the winner. It holds
when each policy is `Ordered` (rules listed by tier, catch-alls last, rules of the episode
level true of all segments of an episode or of none), which `deploy/matcher.yml` is and
which TLC checks of the policies of the instance. The lemma `MoreNamesDecideHigher` is about the engine alone; the
invariant `ClimbInv` then says that in the middle of a judgement what is in force is at
least the old maximum or the new one, because decisions are written before retractions.
The property excepts a clock that was set back: then a row hides the new one.

`ReadersAgree` is `ViewsAgree` of the web UI, for any page size. A page is cut by ranks, so
each of the `CASE` orders of the list has to be a strict total order (`SortsAreOrders`; it
is, because names, hashes and tiers are compared as numbers and the hash breaks ties,
which is what the assumption `Name \subseteq Nat` stands for), and the ranks of a strict
total order have no gap (`RanksAreDense`, `RankedInterval`, `Intervals` of `FiniteLemmas`):
then the pages cover the list and no file is on two. The totals, the facets and the
coverage are equalities of the sets that separate queries count. The page of a file
explains what was decided only of a settled file with one name, so that part rests on
`SettledInv`.

`CatalogToolsProofs`. `TypeCorrect` and `NothingIsForgotten`, for any paths, observations
and releases. The lemmas `MergeTells`, `CompactionTells`, `RecordTells` and `ScriptKeeps`
say of one transaction that the catalogue stays sound and tells what it told, and in
addition what the source or the new row tells; `BucketCovers` is what a compaction owes to
`bucketize`: the bucket of a day covers each of its rows. The invariant `ToolsInv` follows
them through the runs. Two parts of it are not about one catalogue. The version that an
opening has read may be left behind by another process, never overtaken (`Opening`), so a
script is applied only on top of the one before it, and the loser of a race finds its
table there. And a swap puts the output in the place of a catalogue that may have grown
since it was read, so the invariant keeps, from the start of the tool to the swap, that
what the live catalogue took in is in the output or has its turn to come (`ToolOK`,
`OperatorOK`); it holds because the crawler is down all that time, as `docs/operate.md`
asks.

`EachIsCountedOnce` is `CountedOnce` for any observations and any number of runs. The
statement compares sums, and a sum does not say which row counts what, so the invariant
does not mention sums at all: `CountInv` keeps, of every catalogue outside of `twice`, that
each observation it took in is a row of its own or a member of one group, never both
(`Attributed`); that the ranges are the summaries of the groups, each there once; and that
no two groups have the same summary, for the merge would take the second for a copy of the
first and drop it. To keep that through a merge it needs three more facts. The days of the
groups are over, so a new row is never of the day of a group. A group has all the rows
there were of its file and day from its side (this node, the other node), so no later
compaction makes a second group beside it from the same side. And the catalogues are
copies of one another at different moments (`HistoryOK`): of what two of them took in from
one side, one has all that the other has. `UnionAttributed` is the step of a merge,
`CompactionAttributed` that of a compaction, `RecordedCounts` that of a new row. The sums
come last: a bucket has the count and the sum of its group, the groups of a day
partition what is not a row, and a sum over disjoint parts is the sum of their sums
(`DayAddsUp`, `PartsAddUp`).

The proof changed the model in one place. `Commit` used to recognise the operator's
mistake by comparing the buckets that cover an observation in the two catalogues. That
is not enough: a bucket keeps only sets and bounds, so groups of different observations
may have equal buckets, or a bucket may cover an observation it was not made of. Hence
`grouped`: the model now remembers what each bucket was made of.

Only model-checked: every liveness property (`ENABLED` and fairness are out of the
prover's reach), and what the recursive operators of `MatcherPolicy` compute.

## 8. Not modelled

Observability (events become log lines, notifications and counters; the modules count
the events whose number matters), the configuration of the crawler (fields read one by
one and checked for type and range), the VEX guards, container and deployment files have
no behaviour over time. Of the matching engine, normalisation, patterns and scores; of
the web UI, rendering, formatting, the page of the node and the SQL console, which
refuses what is not a read.

`reader.py` hands the web thread its connections; its `quiesce()` has no caller outside
of the tests, so there is no retirement to race with. That a SQLite transaction is
atomic, and durable once committed, is assumed by every module.
