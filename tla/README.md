# A TLA+ verification of webhook-ui

webhook-ui is a small server, with a web interface, that runs a command or a
script when a webhook is called, and another hook when that one succeeds. This
directory holds TLA+ modules of its stateful and concurrent parts, the TLC runs
that check them on small instances, and TLAPS proofs about them.

Paths below are relative to `internal/` of the repository.

## 1. Inventory

| Component | State it keeps | Operations | What makes it correct | Modules |
|---|---|---|---|---|
| Hook configuration (`handlers/hook.go`, `validateSuccessTarget` in `success_chain.go`) | table `hooks`; `async`, `success_hook_id`, `ssh_host_id` and `script_id` steer control | create, update, delete | the success graph has no cycle and no dangling target, whatever requests cross | `HookConfig`, `References` |
| Scripts and SSH hosts (`handlers/script.go`, `sshhost.go`) | tables `scripts`, `ssh_hosts` | create, update, delete | what a hook refers to is not deleted | `References` |
| Runner (`handlers/runner.go`) | map `inFlight`, channel `slots`, a WaitGroup | Admit, SetExecution, Start, Finish, Release, TrackHandoff, WaitIdle | one admission per hook, slots given back on every path, WaitIdle exact | `Runner` |
| Cancel registry (`handlers/cancel.go`) | execution id to channel | Register, Unregister, Cancel | a cancelled execution ends | `Runner` |
| Executions table (`webhook.go`, `success_chain.go`, `execution.go`) | table `executions` | insert, markRunning, logExecutionEnd, finishHookExecution, dispatch, claim, startup sweep, cleanup | a final status stays, a live row is carried by someone | `ExecutionTable`, `History` |
| Triggering and handoff (`webhook.go`, `success_chain.go`, `execution.go`) | goroutines of requests and workers | Trigger, launchHook, dispatchSuccess, RetrySuccessor, Cancel | one successor per success, no hook twice in a chain, nothing stuck | `Executions`, `Handoff` |
| Execution log (`executionlogsink.go`, `ExecutionHandler.Logs`, `LogStreamView.tsx`) | table `execution_logs`, a counter in memory, a cursor in the browser | WriteChunk, trim, Logs, poll | a reader misses nothing without seeing a gap, and stops with the whole log | `LogViewer`, `LogStream` |
| Script test runs (`testrun.go`, `script.go`) | registry of runs, each with a capped log in memory | start, evict, cancel, finish, sweep, page | the oldest is evicted, whoever keeps trying is admitted, the log page is exact | `TestRuns`, `TestRunLog` |
| Retention (`retention.go`, `settings.go`, `CleanupOldExecutions`) | settings, sweep goroutines | save, apply, stop, pass | one sweeper, by the stored policy; nothing unsettled or referred to is deleted | `Retention`, `History` |
| Executor and capture (`services/executor.go`, `logsink.go`, `tailbuffer.go`, `procutil`) | a process and its group, two readers, a waiter, a capture that can be sealed | run, pump, wait, kill, abort, result, mark | no rune lost or torn; nothing below the mark; no signal to a reaped group; an abort returns | `StreamCapture`, `CommandRun` |
| SSH execution and host keys (`services/ssh.go`, `handlers/scriptexec.go`, `sshhost.go`) | a session; the column `host_key` | session, dial, learn, save, test, delete | a pinned key stays; a learned one was shown by the saved address | `CommandRun`, `HostKeys` |
| Login guard, rate limiter (`middleware/login_guard.go`, `rate_limiter.go`, `handlers/auth.go`) | failure records, windows | allow, sweep, check, record, reset | the limits hold under parallel attempts | `Login` |
| Database, migrations (`database/db.go`, `migrate.go`) | the schema, `user_version` | open, migrate | what is served is a whole schema; no hook loses its host | `Migration` |
| Startup (`main.go`) | the process | open and upgrade, then serve | nothing is served from half an upgrade | `Server`, `Executions!Restart` |
| Sessions, API token, HMAC, web interface | little or none | | | section 5 |

### How the parts interact

* A trigger loads the hook (table `hooks`), asks the Runner for admission,
  inserts a row (table `executions`), registers the execution for cancellation
  and starts a worker goroutine. A synchronous hook runs on the request's own
  goroutine, without admission, slot or registration.
* A worker waits for a slot or its cancel channel, runs the command (which
  writes the execution log through its sink), writes the final status, gives
  everything back in the order of its deferred calls and then dispatches the
  next hook: a transaction on the table, an admission, and another worker.
* An operator's retry claims an execution in the table and dispatches it again,
  side by side with the workers.
* Startup sweeps rows an earlier process left unfinished before it serves, and
  starts a retention sweeper, which from then on deletes old rows while
  executions are added, handed off and retried.
* The browser polls the log of an execution or a test run until it is finished.
* A command has two pipes (or channels of a session) with a reader goroutine
  each, which write to one capture; a third goroutine waits for the readers and
  then for the command; `run` selects on it, the timer and the cancel channel,
  and takes the result without waiting for the readers.
* A remote command is dialled with the key in the host's row, or learns the one
  it is shown and writes it to the row; operators save, test and delete the row
  meanwhile.
* A login passes the rate limiter, takes the time, asks the guard, compares, and
  records a failure: five steps, each under its own mutex or none.
* The database is upgraded statement by statement before anything is served.

Database work is serialised: the pool has one connection, so a statement, or a
whole transaction, is one step. What is *not* in one transaction is split:
the look-ups before a delete, the statements of a log page, admission and insert.

### What is hard

Interleavings of requests, workers, the sweeper and the browser between their
database steps; order of the deferred calls, on a panic too; crashes with rows
queued, running or pending; repeated retries; logs that roll off while they are
paged; configuration edited between the links of a running chain; limits of
slots, queue and logs; pipes that cut a rune in two or outlive the command that
was given them; a kill that races the reaping of its process; a key learned
while the row is edited; logins sent side by side; an upgrade cut short between
two statements. `PROJECT.json` lists each hazard at its line with the properties
that cover it.

## 2. Modules

```
Ids
 |- HookConfig          hooks table
 |    '- References     + hosts and scripts   --- ReferencesProofs
 |- ExecutionTable      executions table
 |    '- History        + retention of rows   --- HistoryProofs
 '- Runner              runner, cancel registry
HookConfig + ExecutionTable + Runner
      '- Executions     threads               --- ExecutionProperties (INSTANCE Handoff)
                                              --- ExecutionProofs
LogViewer               polling loop, page
 |- LogStream           log of an execution   --- LogStreamProofs
 '- TestRunLog          log of a test run     --- TestRunProofs
TestRuns                registry of test runs --- TestRunProofs
Retention               policy and sweepers   --- RetentionProofs
StreamCapture           sink and result
 '- CommandRun          one command           --- CommandRunProofs
Migration   Login   HostKeys
      '- Server         the process around them --- ServerProofs
```

Each `MC*` module gives one of these its values for TLC; `MCTestRuns` runs
`TestRunLog` and `TestRuns` side by side.

**HookConfig** has the success graph: `hooks` maps an id to its row. The three
edits are one action each, as each is one transaction. `ValidTarget` is the walk
of `validateSuccessTarget`, stated as the existence of a path that ends.

**References** adds the columns `ssh_host_id` and `script_id` and the two other
tables. A save is `CheckHook` (the host is looked up) and then `CommitHook` or
`RollBack`; a delete of a host or script is `CheckUsers` and then `DeleteThing`.
`crossed` is a history variable: what was deleted by a request that had looked
before a save wrote, and the other way round.

**Runner** and **ExecutionTable** are the operations of `runner.go`/`cancel.go`
and the statements on `executions`, as operators over their own variables.
`canceled` is the closed channels, `wg` the counter of the WaitGroup. A row keeps
its hook, parent, the successor id snapshot (`target`), the set of hooks in its
chain (`path`), `success_status` (`handoff`), attempt and latest successor
(`child`).

**Executions** composes the three. A thread is a request or a worker, and
`thread[t].pc` names the next shared operation: between two of them another
thread may run. The deferred calls of `launchHook` are the chain `finishSlot`
(→ `logPanic`) → `unregister` → `release` → `dispatch` → `handoffDone`. Writes
that fail and panics are `Fault`s, bounded by `MaxFaults`; `Crash` forgets all
but the tables, `Restart` is the sweep of `SweepInterruptedExecutions`.

**Handoff** is the abstract specification of the success handoff, without
threads or tables: an execution offers itself, an attempt starts one successor
or ends in a state that may be claimed again, and a claim needs the last
successor to have ended badly. `ExecutionProperties!H` is the refinement mapping.

**History** lets any statement of `ExecutionTable` run on any row that meets its
conditions and adds the clock, the logs and `CleanupOldExecutions`, whose cutoff
is taken in one step (`StartPass`) and used in a later one (`Cleanup`). The
recursive query is `Retained`: the least set that holds the rows kept on their
own and, with each of its rows, the row's parent.

**LogViewer** is the `poll` loop of `LogStreamView.tsx` and what the two servers
put on a page. **LogStream** serves the page in four statements, `ReadStatus`,
`ReadChunks`, `ReadOldest`, `ReadMore`, while the sink writes and trims between
them; **TestRunLog** serves it in one, under the mutex of the run.

**TestRuns** is `StartTestRun`: `start`, `evict`, `cancel` and `again` are its
calls of the registry; `victim` stands for the registry's lock while the run
found is told to stop. **Retention** is `UpdateRetention` under its mutex, the
controller, and one goroutine per policy ever applied.

**StreamCapture** is `outputCapture`, `streamWriter` and `tailBuffer`. A byte is
what the decoder tells of it: a letter, the lead of a rune of some length, a
continuation, or one that begins nothing. `Write` holds back what
`IncompleteTailLen` says is unfinished, records the rest as `Sanitize` leaves it
and keeps the last `TailBytes` of it; `Result` flushes and seals under the one
mutex, after which writes are dropped.

**CommandRun** runs one command, local or remote, over that capture. The
processes are environment: the leader writes, may leave an `heir` behind that
holds the pipes, inside its group or detached from it, and ends or never ends.
`reader[s]` is `pumpStream`, `waiter` is the goroutine with `readers.Wait`,
`cmd.Wait`, the flag under `killMu` and the send on `done`, and `main` is `run`
with its `select`, the kill, the result, and the caller's `markCanceled`. The
remote case is `runSSHSession`: instead of a signal the channel is closed, which
the other side may or may not answer; `runRemote` closes the connection as it
returns.

**HostKeys** has the row of one host, the servers at its addresses, which may be
installed anew with another key, and connections: `Load` or `TestForm`, `Dial`,
`Persist`. **Login** has `RateLimiter` and `LoginGuard` with a clock in ticks;
a request takes the time twice (`Arrive`, `TakeTime`), each before it has the
mutex it needs, so a newer request may come first. `guesses` and `allowed` are
histories: the failures of a client, and when an address was let through.
`Swept` is the sweep of `Allow`, which one address's request does to all;
`Late` is a request that took its time before the window it is counted in was
opened, or, where the sweep left none, before that sweep. **Migration** has every
statement of `migrateTo` as data (`Steps`): what it creates, adds, drops or
carries over, what the schema refuses, and the version written at the end.
**Server** composes the three with what a crash does to each: the schema and the
row stay, the connections, lockouts and windows are gone. The parts share only
the process, so its bound `follow` lets a behaviour follow the steps of one of
them, with crashes and upgrades between.

## 3. Runs

All numbers are distinct states.

| Run | Instance | Shows |
|---|---|---|
| `references` | 3 hooks, 1 host, 1 script, 2 requests, 5 edits; 506k | the success graph stays acyclic and closed; a host is lost only to a crossing delete |
| `admission` | 3 async hooks, one handing off to another, 2 requests, 1 slot + 1 queued, 2 executions, 1 crash, 1 fault; 648k | admission, slots, WaitGroup, the cancel registry, the id named in a 409 and the rows agree; no path leaks; a final status is final |
| `handoff` | a sync hook handing off to an async one, 2 requests, 3 executions, 2 attempts, 2 edits, 1 fault; 189k | one successor, one child per attempt, only after success, no repeated hook; refines `Handoff` |
| `liveness` | two async hooks, 1 request, 2 executions, 1 crash; 26k | cancels end, executions end, handoffs resolve |
| `log_stream` | 5 chunks of 2 sizes, limit 2, page 2, 2 faults; 5.8M | holes are marked, the viewer stops only when complete; the sink's count is exact |
| `test_runs` | a log: 5 chunks of 2 sizes, limit 2, 2 records, page 1, 1 fault; or the registry: 4 clients, 2 slots; 332k | a gap is shown exactly when there is one; caps hold; the viewer stops; the oldest is evicted; the button is never dead |
| `history` | chain of 3 hooks, 4 executions, 2 attempts, 3 days; 2.5M | cleanup keeps ancestors, successors, and whatever is unsettled |
| `retention` | 2 requests, 3 sweepers, 2 faults; 45k | the sweeper in charge follows the stored policy; replaced ones end |
| `command_run` | local and remote, one stream of a two-byte rune and a letter, one of a rune, a tail of 2 bytes, one descendant; 180k | the text survives every cut, nothing follows the seal or the mark, an abort returns, signals go to the own group |
| `server` | any release upgraded with crashes anywhere; 2 clients at an address each, 2 requests, limits of 2, 3 ticks; 2 connections, 2 host addresses, 2 keys, one save, reinstall and test; 356k | upgrades, the lockout, the rate limit and host keys across restarts |
| `delete_claim` | violation | a referenced host or script is deleted when delete and save cross |
| `login_rate` | as `server`; violation | the documented limit is exceeded across the boundary of two windows |

### Why the bounds are enough

* Two hooks are the shortest chain; the third in `admission` fills the runner so
  that a trigger is refused for want of room and not for its hook. A ring of
  three hooks needs three edits to build but the last, and `references` has five.
* Two requests are what a race needs; a worker is a third party, and two workers
  run at once in `admission`. Three executions are parent, first and second
  successor, or a chain that comes back to its first hook (`hA`, `hB`, `hA`).
  Two attempts let a retry be repeated.
* One slot and one place in the queue: the second execution waits, the third is
  refused.
* In `handoff` edits and faults are taken only in behaviours in which every
  command succeeds and one request is under way (`EditsAndFaultsAlone`): a chain
  only goes on after a success, and everything else is explored without them.
* In `admission` one request at a time is under way after a restart
  (`RestartedAlone`): what it races with is the sweep, not another request.
* Pages of one or two chunks against four or five make a backlog longer than a
  page; a limit that two chunks exceed rolls off more than one at a time.
* In `history` days 0 to 2 and a window of one day have rows older than, at and
  younger than the cutoff; four executions are a chain of three with one retry.
  Logs are written by the second execution (`Logging`), which may be a trigger
  or a successor.
* In `retention` one window and "off" are the policies; three sweepers are one
  in charge, one on its way out and one that follows a restart.
* In `log_stream` five chunks and a limit of two make the log roll off twice
  while one backlog is paged; liveness of the same loop is checked in
  `test_runs`, where the loop is the same module `LogViewer`.
* In `command_run` a rune of two bytes is the shortest that can be cut; cut
  anywhere, on both streams at once, with the tail's cap falling inside it, it
  meets every branch of `Write` and `Result`. What `IncompleteTailLen` and
  `Sanitize` return is checked against a reference definition for every text of
  up to four bytes of five kinds (the ASSUMEs of `MCCommandRun`). One descendant
  is enough: the pipes do not tell one holder from many.
* In `server` no bound is on crashes: `Stop` is always possible. An upgrade
  starts from every one of the thirteen versions a release left behind, and from
  none. For logins, a limit, lockout and window of two, within three ticks, have
  a tick inside, at and past the end of each; two requests are what overtakes, and
  their names are interchangeable (`RequestSymmetry`). The second client is there
  for what one address's requests do to the window of another, the sweep; the
  clients share nothing else. So where both come they come no further than the
  limiter, and one of them is let through at most twice (`LimiterAlone`); the
  lockout is explored with one of them. One less than twice the limit is
  reached, so `AddressThrottled` is as tight as it can be.
  For hosts, a save may cross a connection, and a second connection may learn
  what the first did not; what is reinstalled once can be pinned wrongly.
* A behaviour of `test_runs` follows the log of one run or the registry
  (`followed`): the two share only the outcome of a run, which each leaves open.
* The part a behaviour of `server` follows (`follow`) loses nothing: the three
  share no variable but the phase of the process.
* `CHECK_DEADLOCK FALSE` stands where the system stops: a command that is over, a viewer that is done,
  four clients that have their runs, a history or a set of sweepers at its
  bound, and a table all of whose hooks were deleted.

### Fairness

* `Executions!FairSpec`: a goroutine that can take a step takes one, a crashed
  process is started again, and a killed command ends. Nothing else is assumed:
  `CancelEnds` and `HandoffResolves` hold though commands run for ever.
  `ExecutionEnds` states its further assumptions itself: every command ends, by
  itself or by `timeout_seconds`, and a goroutine blocked on `slots` is served
  in turn (strong fairness; Go queues blocked senders first in, first out).
  Arrivals, edits, cancels, crashes and faults are never forced.
* `MCTestRuns!MCSpec`: where the log is followed, the browser polls and the
  server answers; where the registry is, handlers return, a *cancelled* script
  ends, who was refused presses again. Scripts that are not cancelled need not
  end, and runs need not finish.
* `CommandRun!FairSpec`: the server's goroutines are scheduled, and a group that
  was sent SIGKILL dies. No process is assumed to end by itself, no remote side
  to answer, no timer to fire: `AbortReturns` speaks of runs that are late or
  cancelled.
* `Retention!FairSpec`: goroutines run, and a `select` that finds both channels
  ready over and over does not choose the timer each time (Go chooses at random).

### What the properties exempt

Where the code leaves a window open, the property names it with a history
variable and holds everywhere else; none is stated so that it holds by shape.

* `LostHostWasCrossed`: a delete and a save that crossed (`crossed`).
* `PinsAreOwn`: a connection that began with nothing pinned was under way while
  the row was saved, or a form with other values was tested under the row's id
  (`crossed`). The learned key is written by id alone (`scriptexec.go:72`), so
  it replaces whatever the operator saved meanwhile. These are the very windows
  of the two hazards at `scriptexec.go:72` and `sshhost.go:208`: the property
  shows that nothing else loses a pin, not that these do not.
* `LoginThrottled` is about the lockout only. It exempts clients of whom an older
  request reached the record after a newer one (`overtaken`), since the record
  takes the time of whoever writes last (`login_guard.go:65`); and it counts one
  more attempt for each request that was past the check already, because check
  and record are two steps (`auth.go:44`).
* `AddressThrottled` starts the account of an address anew with every request of
  it that is let through *late*: one that took its time before a sweep and
  reaches the limiter after it opens a window in the past
  (`rate_limiter.go:50`), beside the one that was swept, and what it adds to the
  old account is not bounded. From there on the bound is twice the limit again.
* `LiveRowIsCarried` and `PendingIsOwned` ask for a carrier only where no write
  failed. A final `UPDATE` that fails leaves a row running until the next start
  (`success_chain.go:67`); that slot, admission and hook are free then is what
  `SlotAccounting`, `SingleFlight` and `IdleMeansDrained` show.
* `UpgradeSound`: an upgrade that was cut short may never get past the statement
  it repeats (`interrupted`). Statements run outside a transaction and the
  version is written at the end, so a start after a crash past an `ADD COLUMN`
  adds it again, is refused, and ends in `log.Fatal`, at every start from then
  on. What the property shows is that such a process never serves, and
  `LocationKept` that the data is still there to repair. Of the two
  ways a hook may authenticate its triggers it says that not both are left, not
  which of them stays.
* `SignalsOwnGroup`: between the return of `cmd.Wait` and the flag
  (`executor.go:184-197`) the leader is reaped and the flag not yet set. That is
  the window of the hazard at `executor.go:193`: what is shown is that there is
  no other.
* `AbortReturns`: the reader of a pipe that is held by a descendant which left
  the group stays behind; `run` does not.

### Findings

README 354 and 392 say that deleting what a hook refers to is answered 409; but
the look-up and the delete are two statements, and `delete_claim` shows a save
between them.

README 105 says that `/api/login` takes at most 10 requests per IP and minute,
and README 99 calls `LOGIN_RATE_LIMIT_PER_MIN` the most attempts per IP and
minute. The limiter counts in fixed windows (`rate_limiter.go:49`), and
`login_rate` shows more than the limit within one window's length: the end of
one window and the start of the next. What holds in its place is
`AddressThrottled`, less than twice the limit, and more than that only with a
late request. Of the lockout README 105 says that five failures in a row lock;
sent side by side, one more may fail for each request that was past the check
(`LoginThrottled`).

README 329 and the comment at `execution.go:79` say that a cursor below
`oldest_seq` has lost a stretch of the log. A cursor is the last chunk shown, so
one that is just below, at `oldest_seq - 1`, has lost nothing; by that rule a
gap would be shown where there is none (the mutant `HeadRolledOffSoon`). The
code of `LogStreamView.tsx` asks for more than that, and `GapMeansHole` holds.

Three comments say less than the code does, without harm to any property:
`runner.go:119` says that the id in a 409 is 0 between admission and the insert
of the row, but it is 0 until `SetExecution`, a step after the insert
(`BusyNamesHolder` allows both); `cancel.go:10` says what is not in the registry
has finished, is synchronous or belongs to another process, but a cancel removes
the entry while the execution goes on; `retention.go:134` says a stopped sweep starts no further
pass, but the first pass does not look at the stop channel.

## 4. Proofs

All are checked by TLAPS for every value of the constants under the assumptions
named in the modules.

| Theorem | Module | Statement |
|---|---|---|
| `ConfigAcyclic`, `ConfigClosed` | `ReferencesProofs` | `ConfigSpec => []SuccessGraphAcyclic`, `[]NoDanglingTarget` |
| `RequestsEditHooks` | `ReferencesProofs` | `Spec => ConfigSpec`: crossing requests implement `HookConfig` |
| `LostHostsWereCrossed`, `DeletesTakeNothing` | `ReferencesProofs` | `Spec => []LostHostWasCrossed`, `Spec => DeleteTakesNothing` |
| `TypeCorrect` | `ExecutionProofs`, part 1 | `Spec => []TypeOK` of `Executions` |
| `SingleFlightHolds`, `SlotAccountingHolds`, `IdleMeansDrainedHolds`, `BusyNamesHolderHolds` | part 2 | `Spec => []` of each: admission, slots, the WaitGroup, the id in a 409 |
| `LiveRowIsCarriedHolds`, `PendingIsOwnedHolds` | part 3 | `Spec => []` of each: who brings a row to its end, a handoff to a decision |
| `FinishedIsFinalHolds` | part 3 | `Spec => FinishedIsFinal`, an action property |
| `SuccessorsSoundHolds`, `ChainNeverRepeatsHolds` | part 3 | `Spec => []` of each: one successor, no hook twice in a chain |
| `RefinesHandoffHolds` | part 3 | `Spec => H!HandoffSpec`: `Executions` implements `Handoff` |
| `RelativesKeptHolds`, `UnsettledStaysHolds` | `HistoryProofs` | `Spec => []RelativesKept`, and the action property `UnsettledStays` |
| `NoOrphanLogsHolds` | `HistoryProofs` | `Spec => []NoOrphanLogs`: no log outlives its execution; only proved, since it rests on two statements of one transaction |
| `HolesAreShownHolds`, `StopsCompleteHolds`, `RetainedAgreesHolds` | `LogStreamProofs` | `Spec => []` of each |
| `StopsCompleteHolds`, `GapMeansHoleHolds`, `NewestWithinCapsHolds` | `TestRunProofs`, the log | `Spec => []` of each |
| `OldestGoesFirstHolds` | the registry | `RunsSpec => []OldestGoesFirst` of `TestRuns` |
| `PolicyHolds` | `RetentionProofs` | `Spec => []PolicyInForce` |
| `PinsHold` | `ServerProofs`, part 1 | `Spec => []PinsAreOwn` of `Server` |
| `LoginThrottledHolds` | part 2 | `Spec => LoginThrottled` of `Server`, an action property: the lockout |
| `AddressThrottledHolds` | part 2 | `Spec => []AddressThrottled` of `Server`: the rate limiter |
| `LocationKeptHolds`, `UpgradeSoundHolds` | part 3 | `Spec => []LocationKept`, `Spec => []UpgradeSound` of `Server` |
| `GroupIsOwn`, `NothingBelowMarkHolds`, `TextSurvivesHolds` | `CommandRunProofs` | `Spec => SignalsOwnGroup`, `Spec => NothingBelowMark`, `Spec => []TextSurvives` |

*Assumptions.* `NoHook` is no hook; every table the process may start with is
typed, acyclic and closed (it was left by these same handlers); request names
are not execution ids; there are finitely many requests to log in and clients
that want a test run; bounds and capacities are natural numbers, the slots and
attempts positive; hosts and scripts have different ids, neither the empty one;
`NoReq` is no request, `NoKey` no key, and a retention window is at least a day;
chunks are not empty, a page and a log hold at least one; and what a command
writes on a stream is a finite text of whole runes (`TextAssumption`).

*HookConfig.* Acyclic is stated without paths: every non-empty set of hooks has
one whose successor lies outside it. A validated target gives a walk; the hooks
on it are closed under `success_hook_id` and avoid the hook saved
(`WalkIsClosed`). A set that contains both the hook saved and its new target is
cut down to its part on the walk, which by the old invariant has a hook that
leads out of it, and so out of the whole set. A delete changes a row to one
that leads nowhere, and nobody referred to it.

*References.* `LostHostWasCrossed` is not inductive: a commit trusts what its
check saw. `RefInv` adds what each request may still rely on: a hook about to be
saved has a host or a delete crossed it (`SavesKnownHost`), what is about to be
deleted has no user or a save crossed it (`DeletesUnused`).

*TypeOK of Executions.* Not inductive: a worker at `execute` writes row
`thread[w].exec`, so that id must be one. `Shape` says which fields are set at
which step, that a row with a handoff has a target, and that no row exists from
`nextId` on. One lemma per action shows that `TypeInv = TypeOK /\ Shape` is kept.

*Admission, slots, WaitGroup.* A hook in flight is held by exactly one thread.
To keep "exactly one" when a worker is launched, the worker's own thread must be
idle and nobody else may be about to launch the same execution: `FreshLaunch`.
The bound on `inFlight` needs its finiteness (`CapacityInv`). `SafeInv` joins
them, over `TypeInv`. The counts are then over sets of threads that gain or lose
one member a step, which needs which steps belong to requests and which to
workers (`CodeInv`); `BusyInv` says of every holder what is stored for its hook.
`RunnerInv` is all of these.

*Rows and handoffs.* `LifeInv` adds `WorkInv` and `RegistryInv` to `RunnerInv`.
`WorkInv`: of the threads that carry a row or hand it off there is one, and with
no write failed there is one for each row that needs it; it joins the two,
since a worker passes from one to the other in a single step. Most actions
touch one row; `RowEffect` lists what a step may do to a row (insert, status,
finish, claim, refuse, start a successor), and what follows is proved from it
without looking at threads again: `FinishedIsFinal`, and in `SuccInv` that all
successors of an execution but the latest have ended badly, that the attempt
counts them, and that every attempt before the current one was claimed once.
`ChainInv` says of each row that its hook is in its own path and not in its
parent's, from which the members of the chain follow by taking, in the closed
set that `Ancestors` is defined by, the rows whose hook the path knows.

*Refinement.* The mapping is `ExecutionProperties!H`. Each effect of `RowEffect`
is an action of `Handoff` or a stutter: a finish that offers is `Offer`, an
insert of a successor `StartSuccessor`, a refusal `Refuse`, a claim `ClaimAgain`,
the end of a successor `SuccessorEnds` (with the offer it may make in the same
statement), the sweep of a restart, which changes many rows at once, `Interrupt`.
The guards the abstract actions have over the latest successor come from
`SuccInv`.

*History.* `Retained` is closed under parents, so ancestors are kept. That a
successor outlives its parent rests on more: it is the latest of the successors
(`Kin`), it started after the others (`Aged`), and the others have ended badly
and were never handed off, so nothing keeps the parent but what keeps the latest.

*The log of an execution.* `LogInv` has three parts. `SinkInv`: the table holds
what was written but for a part cut off at the old end (`Cut`), and the count is
the sum of its sizes. `PageInv`, for each of the four statements: a written
chunk that the page passed over (`Skipped`) is gone, and everything before the
page with it, so that the oldest chunk, read later, is above it. `ViewInv`: the
cursor is at the last chunk shown and below it all that is left was shown.
What the sink may do between the statements is `SinkEffect`. The sum over a set
is the recursive function of `MapThenSumSet`; that it exists, and grows by what
is added, is proved by induction on the size of the set.

*The log of a test run.* The same three parts, but the page is exact: it holds,
up to its last chunk, what is not older than the oldest it names. `AppendEffect`
shows that the longest tail that fits exists, that it holds the new chunk and
is a tail of what was written.

*PolicyInForce.* It speaks of rest. `RetentionInv` adds what holds between a
save and its application: the sweeper that was not stopped is the controller's,
always (`OneInCharge`), the request with the mutex is the one whose policy is
stored (`HolderSaved`), and a process that is down has neither (`DownAtRest`).

*PinsAreOwn.* `PinInv` adds what connections carry: one that learns was opened
for the row's address unless the row was crossed (`LearnsForRow`), and what it
learned was shown there (`LearnedWasShown`). The theorem is about `Server`, so
that logins, upgrades and crashes are shown not to disturb it.

*LoginThrottled.* It speaks of a history, `guesses`, by sums over spans of time;
the code keeps one number and one time of it. `GuardInv`:
the count of a client and the requests of it past their check are below the
limit and one for each request (`CountInv`); unless an older request came after
a newer one, there is a time from which on the count is at least the failures,
and those before it are a lockout older (`RowInv`); a span that a new failure
falls into then lies within that row (`RowSpan`), and so does a chain of
failures that still locks (`RowChain`). The conjunct that looks at no step is not
inductive without them, since what the code forgets, the history does not.

*AddressThrottled.* `allowed` is again a history of which the limiter keeps one
number and one time. `WindowInv` says of an address when its window was opened
(`Opened`; the last sweep stands in for a window that was swept) and that it was
let through at no time past the window's end, from the opening on no more often
than the count (`Given`), past the tick of the opening fewer times than that, and
in the window's length before the opening, but for its first tick, fewer times
than the limit. A span of a window's length that a new request falls into has
two parts, the one before the opening, with less than the limit, and the one
from it on, with at most the limit (`WindowCounted`). Where a window is opened, the one before is
over, so that the span that ends there has only what came after the tick of the
earlier opening, less than the limit (`WindowOpened`). A sweep moves the opening
only past windows that are over (`WindowSwept`), and a late request is the first
of its account (`WindowLate`).

*LocationKept, UpgradeSound.* Both speak of what earlier, interrupted upgrades
left. The statements of all versions get one row of numbers (`Before`), and each
table, column or index the number of the one statement that makes it (`Place`,
`StatementsPlaced`, `ThingAt`). `Reached(n)`: whatever the upgrades before, what
comes before statement `n` is done; it holds for the next statement and for the
first that the stored version has not seen. `Fresh(n)`: while none was cut
short, nothing else is done, so nothing is refused. `Located` says which of the
two places still has the host of a database older than version 7. That the
numbers fit the schema is a lemma over all statements of `Steps`.

*SignalsOwnGroup.* `GroupInv` says that a reaped leader shows in the waiter and
that `run` only kills what it started; only `Kill` dooms a group, and it looks at
the waiter's flag.

*NothingBelowMark.* `MarkInv` says when the capture is sealed and why a run ends
(`Steps`), and that until it has ended no chunk in the log is the mark
(`Unmarked`). The latter needs what decoding gives: `Sanitize` is a
concatenation of runes, none of which is the mark (`FlattenType`, by induction
over the sequence, `SanitizeType`), and what a reader holds back is the end of
what it was given (`IncompleteTailRange`).

*TextSurvives.* A text of whole runes has cuts, the places where one rune ends
and the next begins, and `Upto(text, n)` is the last of them not beyond `n`.
`TextInv`: of what was handed on up to `n`, the log has what lies before
`Upto(text, n)` and the pending bytes are the rest. One lemma per helper says
what it makes of such a piece: `IncompleteTailLen` is what follows the last cut
(`HeldBackOf`), `Sanitize` leaves whole runes as they are and makes one
replacement of the beginning of a rune (`SanitizeOfSlice`), and what
`TailAppend` keeps stays the longest end within the cap (`TailOfJoin`); so each
write takes the log from one cut to a later one (`WriteKeeps`), and the result
gives up on at most one rune (`ResultKeeps`). That a command that ran to its end
shows all it wrote needs that both readers had finished, and nobody was left to
write, when the waiter went on (`DrainInv`).

*OldestGoesFirst.* Runs are numbered as they start, one for each request that was
accepted, so there is always a number left for one that was not (`OnePerRequest`).
Whatever is older than the victim is over when it is picked, since numbers are
used in order (`InOrder`), and what is over stays so (`OlderAreOver`).

*Induction.* The library's induction theorems take an operator as a parameter,
which these provers cannot instantiate. `NatSetInduction` has the same content for a *set*
of numbers, and follows from the well-foundedness of `<`. The sums, `FlattenSeq`
and the least and greatest chunk are proved about with it.

*Only model-checked.* Liveness and `ENABLED` are out of the prover's reach:
`CancelEnds`, `ExecutionEnds`, `HandoffResolves`, `AbortReturns`, `ViewerStops`,
`EventuallyAdmitted` and `StoppedEnds`. The invariants and the action properties
of the passing runs are all proved. What `IncompleteTailLen` and `Sanitize`
return for foreign bytes, which no `Text` has, is checked against a reference
definition for all short texts.

## 5. Not modelled

* Whether a single statement of a poll fails is modelled; that SQLite may be
  full or locked is only the failure of that statement.
* The data a hook carries to its command: arguments, headers, payload,
  environment, and the text of logs. No control flow modelled reads them.
* Updates of scripts: they change no column these modules read. Of an update of
  a host, `HostKeys` has the address and the key; user, password and options only
  decide whether a dial succeeds.
* The whitelist, the choice of an interpreter and the temporary file of a script
  are one way for a start to fail; the command line built for a remote host is
  text. On Windows `procutil` ends a process tree in another way; what is
  modelled is the Unix build.
* Sessions, tokens and HMAC are pure checks of one request; only that a check
  may fail is in `Executions!RejectAuth`. Configuration is read once, and the
  registration of routes changes no state.
* The web interface but for the polling loop of `LogStreamView.tsx`.
* Graceful shutdown beyond the count `WaitIdle` waits for.

## 6. Plan

Done: every component of section 1 that has state, each with its safety
properties proved.

Left to prove: `HeldBack` and `Sanitized` of `MCCommandRun` as lemmas for every
text, foreign bytes included. Liveness stays with TLC.
