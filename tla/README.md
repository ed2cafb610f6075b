# token-forge: formal model

token-forge runs an OpenAI-compatible LLM endpoint on one spot GPU instance. A
CLI (`tkf`) deploys a CDK stack, raises an auto-scaling group to one instance,
waits for the endpoint and, for `tkf run`, executes a command against it and
gives the GPU back. Nothing coordinates the sessions except a lock file per
host, a status read of the group and a JSON file naming the last target. This
directory holds TLA+ modules for that system, TLC configurations that check
them, and TLAPS proofs about them. `PROJECT.json` links every definition to the
lines it models; this file is for the reader.

## 1. Inventory

### Components

| component | source | state it keeps | operations | talks to |
|---|---|---|---|---|
| `tkf run` session | `cli/commands/run.ts`, `cli/program.ts` | `asgName` (owned), `prevState`, signal flag, timers, the child's process group, exit status | acquire lock, prepare stack, claim, raise, wait, spawn, supervise, release, confirm, restore | AWS calls, lock, state.json, the OS |
| `tkf up` session | `cli/commands/up.ts` | local variables only (loop deadline, consecutive 403s) | `ensureStackReady`, `waitReady`, `runUp`, `runUpAuto` | AWS calls, lock (read only), state.json |
| `tkf down` | `cli/commands/down.ts` | none | stop, optionally purge | AWS calls, state.json |
| lock file | `cli/lock.ts` | one file per stack and host | `acquireLock` (link(2)), release if own, `readLockHolder` | file system |
| state file | `cli/state.ts` | target, `lastUsed`, `standbyRegions` | load, save (written in place), clear, remove region | file system |
| auto-scaling group | `lib/token-forge-stack.ts:179-217`, `cli/aws.ts` | min, desired, instances | `setDesired`, `setCapacity`, `getAsgStatus` | EC2 |
| idle guard | `lib/token-forge-stack.ts:330-382` | alarm state, pending events | alarm, EventBridge rule, stop Lambda | load balancer metric, the group |
| region race, automatic up | `cli/commands/race.ts`, `cli/commands/up.ts:180-246` | entrants, prior `lastUsed` | prepare several regions, first InService wins | as `up`, several regions |
| weight seeding | `scripts/seed-weights.sh`, `cli/commands/seed.ts` | seeder instance, `.complete` marker | launch seeder, poll, terminate | S3, EC2 |
| boot supervisor | `assets/user-data/boot.sh` | job table, phases | parallel prepare jobs, container start, health loop | Docker, S3, Secrets |
| boot telemetry | `assets/user-data/boot.sh`, `cli/commands/boot-report.ts` | event queue, cursor | batch, retry once, final flush; parse, dedup, report | CloudWatch Logs |
| usage policy, settings | `lib/usage-mode.ts`, `lib/deployment-settings.ts`, `lib/token-forge-stack.ts:28-55` | the outputs of the stack | `resolveUsagePolicy`, `policyMatchesOutputs`, `encodeSettings`, `parseSettings`, `normalizeCidr` | CLI and cdk both resolve |
| placement engine | `cli/placement/*.ts` | latency cache | feed, latency, `gatherCandidates`, `rank`, `pickLeader` | feed, AWS calls |
| score collector, dashboard publisher | `lib/spot-score-collector-stack.ts`, `assets/dashboard-publisher` | DynamoDB items, `data.json` | collect, batch write, scan, publish | placement API, DynamoDB, S3 |
| rotation, status, connect | `cli/commands/*.ts` | none | rotate key on the instance; read and print | SSM, Secrets |

### What is hard here

* **Interleaving across processes.** A session consults the lock or the group
  and acts on the answer several AWS calls later. Another session, the idle
  guard, EC2 or a person may act in between (`up.ts:29`, `run.ts:108-112`).
* **Partial failure.** Each AWS call can fail before or after it took effect.
  Which failures give the GPU back depends on where they are raised
  (`up.ts:116,153,156`; `run.ts:169-191`).
* **Callbacks inside one process.** Signals, the job limit, two SIGKILL grace
  timers, and the child's `exit` and `error` events race in `run.ts:115-168`.
* **Crash and recovery.** A killed run leaves its lock file, its state.json, the
  job's detached process group and the capacity. `state.ts:17` writes state.json in
  place: a crash or a full disk in the middle leaves a file that cannot be parsed, two
  sessions may mix their texts, and a reader may find an empty file.
* **A deadline against late answers.** The boot's uploader may be cut off during a
  batch, or lose the answer of a request that took effect (`boot.sh:192-246`); its
  jobs may hang, fail to start or be interrupted at any point (`boot.sh:162-190`).
* **Stale snapshots.** `prevState` is written back at the end (`run.ts:193`);
  outputs are read before ownership is checked (`up.ts:46-64`), and what was read
  of them is what an update passes on (`up.ts:70-84`).
* **Edges instead of levels.** The stop Lambda runs when the alarm changes to ALARM,
  not while it is in ALARM, some time later, and again when it failed half-way
  (`token-forge-stack.ts:374`, `:343-351`).
* **A marker that stands for many objects.** Several uploaders fill one cache and any
  of them may be interrupted (`boot.sh:30-47`, `seed-weights.sh:66-74`).

`PROJECT.json` lists the hazards at their lines, with the properties that watch them.

### What makes each component correct

* run: releases what it raised or says that it could not; exits 0 only for a job
  that succeeded within its limit; leaves no process and no armed timer behind;
  ends; stops nobody else's GPU.
* up: whenever it asked for a GPU, `tkf down` finds it or fails on an unparsable file; it
  ends; a failed up leaves no GPU on (this one does not hold, section 5).
* lock: at most one run of a host at work on a stack, through crashes.
* group: a pinned minimum never outlives the desired capacity.
* state file: names the target of the running GPU, unless a save was interrupted or a
  session that read it earlier has written it back (section 5).
* race: at most one region left on, or the others named; every region that was
  switched on is named in state.json; a success leaves the winner as the target.
* down: a purge takes its region out of the file it had read (what others saved
  meanwhile is lost, section 5).
* boot supervisor: the container waits for both preparations; the recorded events and
  the exit status agree, whatever signals come; every process is gone at the end; it ends.
* boot telemetry: every event reaches the log stream, or a failed upload is on record.
* boot report: it never says of a boot what its exit status denies, whatever the export lacks.
* seeding: no marker without all weights; whoever trusts the marker is right; no seeder is
  left running.
* idle guard: a GPU whose session is heard in every window is not stopped, one that
  nobody uses is.
* policy and settings: a session works under the policy it asked for; an update changes
  neither the security settings nor the capacity; cdk accepts what the CLI accepted.
* scores: a placement is decided by recent points, and no point is lost to a single
  refusal; the ranking is complete and ordered although ties are not transitive.

## 2. Modules

| module | models | how it corresponds to the code |
|---|---|---|
| `Asg` | the group and the calls on it | `SetDesired`, `SetCapacity` are the two requests of `aws.ts`; `Busy` is the ownership test of `up.ts:55-63` and `run.ts:108-110`; `RequestFails` is a call that throws, with or without effect; `Launch`, `EnterService`, `Withdraw`, `Terminated` are EC2's side |
| `UpSession` | `ensureStackReady`, `waitReady`, `runUp` | one action per remote call, named by `pc`; local state of the loop in `polls` and `forbidden`; a save of state.json is two steps, `Saves` opens the file and `Write` or `Rewrite` fills it |
| `RunSession` | `runBatch`, `acquireLock`, `spawnJob` | extends `UpSession`: a run takes the same shared steps, and its own for the lock, the claim, the job group, the timers, the signal and the clean-up |
| `Sessions` | all sessions on one stack | runs, ups and downs on several hosts, crashes, removal of a stale lock by hand, the idle guard, EC2, sessions of other stacks; the specification and the properties |
| `MCSessions` | instances for TLC | hosts and policies of the sessions |
| `Regions` | what the sessions of one host share when several regions are in play | `fleet` is the stack of the model in each region, `state` is state.json with `standbyRegions` and `lastUsed`, `me[p]` the local variables of session `p`; `Save` and `Write` are the two halves of `saveState`, `saving[p]` the text still to be written; `EnsureStack`, `EnsureWeights` are `ensureStackReady`, shared by up and seed |
| `Race` | `runRace` | extends `Regions`; the requests of an `allSettled` or `all` are answered one by one in any order; `Poll`, `RaceRecover`, `Cancel`, `Nap`, `GiveUp` are the loop |
| `AutoUp` | `runUpAuto`, `tkf seed`, `tkf down` with and without `--purge` | extends `Race`; preparation, provisional state, race, winner, purge; crashes, idle guard, EC2; the specification and the properties |
| `MCAutoUp` | instances for TLC | the options of each `tkf down`, the symmetry of the regions |
| `BootLog` | what the telemetry promises | abstract specification: the supervisor closes only when the stream holds every event or a failure is noted |
| `BootUploader` | uploader thread and the end of `main` in `boot.sh` | one action per remote call or turn of the loop; `up` holds the thread's local variables; `Log == INSTANCE BootLog` maps `notes` and `main` to the abstract ones |
| `BootSupervisor` | `main`, `launch`, `await_jobs`, `cleanup` of `boot.sh` | `todo` is the rest of the try block as a list of steps, `active` the dict of started jobs, `phase` the latest event of each phase |
| `BootReport` | `boot-report.ts` on the events of `boot.sh` | extends `BootSupervisor` by `records`, the events each step writes; `File` is an export that holds any lines in any order, `Verdict` its judgement, `Truthful` what that may be |
| `SeedWeights` | `seed-weights.sh`, its seeder, the weights job of a boot | `bucket` is the set of visible keys, `script[p]` an invocation by its next call, `machine[m]` an instance with its disk and what it has uploaded |
| `IdleGuard` | metric, alarm, rule and Lambda of the idle stop | `quiet` counts the periods without requests, `stop[e]` is a pending invocation of the Lambda; a session is what the guard can tell of it: waiting, or using the GPU; `Probe` and `Heartbeat` are its own requests, answered or failed |
| `StackUpdates` | `usage-mode.ts`, `deployment-settings.ts`, the policy side of `ensureStackReady`, address checks and outputs of the stack | `stack` is what the outputs say, `me[p].keep` the settings a session read and will pass on, `Plan` the decision of `up.ts:45-80` |
| `MCStackUpdates` | instance for TLC | lists of addresses, the symmetry of the sessions |
| `Placement` | `avg48h`, `regionScore`, `pickLeader`, `rank` | pure operators; a score is a fraction |
| `ScorePipeline` | the collector of `spot-score-collector-stack.ts`, the publisher `dashboard-publisher/index.py`, `gatherCandidates` | `coll` is one invocation of the collector with its current request, `table` the points, `scan` the publisher's reading of it, `feed` data.json with its points and its regions without a pool, `cli` a placement |
| `MCScorePipeline` | instance for TLC | pools, prices, lists of candidates |
| `SessionsProofs` | theorems about `Sessions` | all its safety properties: the lock, the capacity, the job, the exit status, the recorded target |
| `BootUploaderProofs` | theorems about `BootUploader` | type correctness, refinement of `BootLog`, no call after the abort |
| `SeedWeightsProofs` | theorems about `SeedWeights` | the marker stands for every file, and can be trusted |
| `StackUpdatesProofs` | theorems about `StackUpdates` | the policy in force, the settings kept, what cdk accepts |
| `BootSupervisorProofs` | theorems about `BootSupervisor` and `BootReport` | order of the phases, verdict, clean-up; the report agrees with the exit status |
| `IdleGuardProofs` | theorem about `IdleGuard` | what keeps the alarm quiet |
| `AutoUpProofs` | theorems about `AutoUp`, with `Race` and `Regions` | losers off, failures named, regions recorded, target of a success |
| `ScorePipelineProofs` | theorems about `ScorePipeline` and `Placement` | points lost, freshness of scores, soundness of the ranking |

Between two remote calls Node.js runs the program without interruption, so the
atomic step is "answer of one call up to the request of the next". Signals and
timers are callbacks: they are actions of their own and interleave at those
same points. The synchronous `fs.writeFileSync` is the exception, because other processes
and a crash see it half done: it is two steps. `pc[s]` is the call a session is about to
make (`lockcheck`, `outputs`, `ownership`, `deploy`, `verify`, `write`, `weights`, `claim`,
`raise`, `secret`, `probe`, `pin`, `rewrite`, `status`, `recover`, `sleep`, `restore`, `key`,
`job`, `release`, `confirm`, `finish`, `putback`, `lower`).

Abstractions:

* `getAsgName` is merged with the call that follows it: both are reads, the name
  never changes, and either may throw.
* The group never has desired above one, so its instances are the set of
  lifecycle states present. All that `getAsgStatus` tells its callers apart is
  desired and whether any instance exists.
* `interactive` is the default policy, `custom` any interactive policy with
  another idle window: `policyMatchesOutputs` compares nothing else. `legacy` is
  a stack whose outputs carry no mode; it is taken as it is by a default
  request, refused for any other (`up.ts:65-80`).
* Weights: present, seeded, or the step throws. The seeding itself is in `SeedWeights`.
* `stateFile` in `Sessions` records which target a host's state.json names, or that it
  is `empty` or `torn`; `lastUsed`, `standbyRegions` and `down --purge` are in `AutoUp`. A
  save empties the file, then writes it: the second half may fail, leave a part, or be
  mixed with what another session has written since. A reader of an empty or torn
  file throws. Two writers of which the second opens the file after the first has filled it
  leave the second's text, as the calls do.
* Signal numbers, messages and (here) heartbeats are left out. The exit status keeps
  the classes the code distinguishes: `zero`, `code` (the job's own), `one`,
  `timeout`, `spawn`, `signal`.
* `IdleStop` may strike whenever the deployed policy has an idle window; what makes
  it strike is the subject of `IdleGuard`.
* Deployment sets `minCapacity=0`; whether CloudFormation touches the live
  minimum depends on the previous template, so both outcomes are possible.

In `Regions`, `Race` and `AutoUp`:

* The ranking is any injective sequence of regions: which one the placement
  engine picks does not matter to what follows.
* `lastUsed` maps regions to times in the code. All that is read of it is the
  order, so it is the sequence of regions in order of use.
* `EnsureStack` is the deployment, its verification and the save in one step;
  `UpSession` has them one by one. `Wait` is `waitReady` likewise, reduced to its
  effects on the capacity. The group's minimum is left out, because only `waitReady` of
  online mode sets it, which `Sessions` covers.
* An instance is `none`, `launching` or `serving`. A stack that is destroyed
  leaves its retained bucket, counted in `orphans`.
* A region without a stack has no group: a request to it throws (`Refused`).
* `ping` after a single-candidate up, which only prints, is left out, as is the
  suggestion of old caches, which is always empty (section 5).

In `BootUploader` and `BootSupervisor`:

* An event is its sequence number; its text and its rotation on the host are left
  out, and the note on the host is taken to be written. Upload events (`uploader`
  notes) are never uploaded themselves, as in the code.
* The 5 s pause, the 4 s limit of a call and the 18 s of the join are nondeterministic
  instants. `wake` only shortens the pause, so it needs no variable.
* `Put` chooses what a failed request left behind: nothing, the accepted part of a
  partial rejection, or everything with the answer lost.
* A batch of events more than a day apart is sent one event at a time; the model
  allows it for any batch, because the clock may jump while the host boots.
* A job is its leader, the other processes of its group, and its cache-observation
  file. What the weights script does inside is in `SeedWeights`.
  The retry of `killpg` on a permission error and the reuse of a process id are left out. A
  container outlives its `docker run` on a failed boot, as `boot.sh` intends; it is not a
  process of the job's group.
* `late` is the deadline in force, that of the preparation or of the health wait.
* The main thread's progress appears in `BootUploader` as `Event` and `Stop`: any
  number of events up to `MaxRecords`, at any time.

In `BootReport`:

* An event is its number, phase and status. A step of `BootSupervisor` that changes several
  phases writes several events, in the order of the code.
* Of the clocks, what the report tells apart: `skew`, that the difference between
  wall clock and monotonic clock has changed by more than 2 ms since the first event.
* `File(number, jump)` is a file by line number: `number[k]` is the event that line k holds,
  so lines may be lost, repeated and in any order; the clock jumps once, before event
  `jump + 1`, or not at all. Damage (a line that is no event) is a flag, since the code counts
  such lines and reads nothing else from them. `ReportTrue` looks at the files that TLC can
  enumerate, the theorem `EveryReportIsTrue` at all of them.
* Durations, the launch anchor, the cost and the printed table are left out. An
  event of the stream `telemetry` is none of the boot's and left out as well.

In `SeedWeights`:

* A weight file is visible or not (S3 objects appear whole). An upload makes them
  visible in any order and may stop after any of them.
* A call of the script that fails is answered like a miss (`|| true`, `|| echo unknown`),
  and `run-instances` may fail although the instance was started.
* Choice of image and instance type, disk size and the s5cmd installation are left
  out; any of them failing is the failure of `Fetch`, `Upload` or `Mark`.

In `IdleGuard`:

* A period is five minutes, `Periods` of them make the idle window. `Tick` ends one;
  evaluation and delivery happen at any later time.
* One session at a time uses the GPU. A wait probes every 15 s and a run with a job every
  minute, so a period in which a session did so from start to end has one of its
  probes in it (`HeartbeatDue`). Any of them may fail, and may or may not have been counted
  then; `run.ts:132` and `up.ts:121` go on. An `up` hands over to a person, who asks or
  does not.
* A probe before the balancer has a target is not counted by the metric.
* The Lambda is repeated twice after a failure, from its beginning. The capacity request is
  taken to be accepted at the third attempt.
* `sent`, `whole` and `unheard` are history variables: the outcomes of the session's probes
  in this period, whether it could be heard from its start, and how many complete
  periods were not attended and heard.

In `StackUpdates`:

* The seeding, the lock and the capacity a session raises are in `Sessions`; here anybody
  may set the group's capacity at any time (`Capacity`).
* Contexts and options are records; strings such as `"v1"` stand for outputs that parse.
  An address is an opaque `ip` with a mask or without: the check of its four octets is
  `ip \in Ips`.
* CloudFormation changes a stack in one step, or fails before it or after it.
* `since` is a history variable: who has deployed since a session read the stack.

In `ScorePipeline`:

* The two calls for a type (`single` true and false) are one, and its items are by region;
  those by availability zone are written the same way.
* `Window` stands for 48 hours, a step of `now` for the hour between two collections.
* Retried invocations of the collector are new invocations, at a later time.
* The publisher's scan is a start and an end (`BeginScan`, `Publish`): of the points written
  between them it shows any. Which pools have a price in 90 days is an answer of EC2
  (`Histories`), from which `NoPool` follows as in `index.py:112-114`. The series are kept as
  they are: only points older than 14 days are merged (`index.py:28-36`), and the table drops
  them after 90, while a placement looks back for two days.
* Latencies are constants, known for every region; prices are constants, some unknown.
* `Init` also starts from a finished placement with any list of candidates the API may
  have given: it puts many lists before the ranking that a small pipeline would not yield.

`by` is a history variable: who last changed the desired capacity. The
definitions marked "Fault" are wrong variants of the definition they precede,
kept to show that each property notices a plausible mistake; no specification
uses them.

## 3. Model checking

| run | instance | checks |
|---|---|---|
| `runs_of_one_host` | two runs, one host, batch stack, `MaxPolls = 2`, no job limit | `TypeOK`, `LockExclusive`, `NoForeignStop` |
| `job_of_a_run` | one run, with a limit or without; batch or legacy stack; another stack's sessions on the host; `MaxPolls = 3` | `HonestExit`, `NoOrphans`, `NoLateTimers`, `SessionsEnd` |
| `run_up_down` | a run, an online up and a down on one host; no stack yet, an online or an interactive one; `MaxPolls = 1` | `TargetRecorded`, `NoLeakedCapacity`, `MinWithinDesired` |
| `race_beside_seed` | one automatic up that races three regions, one seed of up to one region, one round | `OneRegionLeft`, `TimeoutReported`, `EntrantsRecorded`, `DownTargetIsWinner` |
| `purge_during_up` | an up and a `down --purge`, two regions, under `FairSpec` | `EntrantsRecorded`, `ProcsEnd` |
| `boot_upload` | uploader and main thread, four events | `TypeOK`, `LogSpec`, `NoCallAfterAbort`, `UploaderEnds` |
| `boot_jobs` | the supervisor with its two preparations, container and probe, serial or parallel; at every point the reports of the exports described below | `ContainerNeedsBoth`, `BootVerdict`, `PhasesClosed`, `NothingLeft`, `ReportTrue`, `BootEnds` |
| `seeding` | one script with its two possible seeders, one booting instance, two files, two polls | `MarkerComplete`, `MarkerTrusted`, `SeedersGo` |
| `idle_guard` | an idle window of two periods, two pending invocations | `NoAlarmWhileUsed`, `OrphanStopped` |
| `stack_updates` | two sessions of any policy, deployments by hand, purges | `TypeOK`, `PolicyInForce`, `SynthAccepts`, `SettingsKept`, `NoGpuByDeploy` |
| `score_pipeline` | two types, two regions, three hours; and 46,692 lists of one or three candidates with four pairs of ties | `LostOnlyRefusedTwice`, `ScoreFresh`, `RankSound` |
| `failed_up_keeps_gpu` | one up | the documented claim `UpFailureReleases`, violated (section 5) |

What the properties say:

* `LockExclusive`: a run at work is the run its host's lock file names, and a
  lock file names a run that is at work or crashed. It covers the run that is
  refused, the run that crashed, the person who deletes the stale file, and the
  next run.
* `NoForeignStop`: a run lowers only a capacity that it raised itself. For runs
  of one host; between hosts the README of the repository grants that ownership
  is a check, not a lock.
* `TargetRecorded`: whenever a GPU is on because of a run or an up, that host's
  state.json names the stack, so that a plain `tkf down` finds it, or cannot be parsed, so
  that `tkf down` fails and says so; also after a crash. Two things make it name something
  else, and both are in the property because the code does them: a session of
  another stack saves its own target, and another run of the host puts back a snapshot older
  than the request. It fails if an up saves its target only after it has requested the GPU.
* `NoLeakedCapacity`: a finished run whose GPU request is still in force has
  reported a failed clean-up.
* `MinWithinDesired`: `min <= desired`. A stop that left the pinned minimum of
  online mode would let the group launch again.
* `HonestExit`: status 0 is given only to a job that ended with 0 by itself, within
  its limit and with no cancellation handled before the outcome was taken, and is kept only
  if the GPU was released. A signal that is handled later, during the clean-up, does
  not change the status, as in `run.ts:160`. It fails if the outcome does not look
  at the cancellation.
* `NoOrphans`, `NoLateTimers`: the end of a job under every order of exit, limit, signal
  and grace timers.
* `SessionsEnd`: every up and every run ends, a run without a limit once it
  was cancelled (a job may run for ever if nobody cancels it).
* `OneRegionLeft`: once the race has a winner, no other entrant is left on at
  the race's request, whatever order the answers come in and whichever entrant
  was lowered and raised again meanwhile. It fails if a rejected request to a
  loser is ignored.
* `TimeoutReported`: a race that gave up names every entrant it left on.
* `EntrantsRecorded`: a region that an automatic up has switched on is named in
  state.json, from before the first request until after a crash: as the target, which a
  plain `tkf down` stops, or among the standby regions, which take a `tkf down --region`.
  Exceptions are an unfinished save, which leaves an unparsable file, and a purge that
  removes the file or writes back what it had read (`PurgedOver`, section 5). A seed that
  prepares the same regions does not erase it, nor does a purge in any other way: the
  mutant of `purge_during_up` removes the file whatever region was purged.
* `DownTargetIsWinner`: after a success, plain `tkf down` stops the region that
  is on. It fails beside a second up or a purge, by the lost update of
  state.json that section 5 describes, so it is checked for one up and one seed.
* `ProcsEnd`: every session ends, the race although the guard may undo every request.
* `LogSpec`: the uploader implements `BootLog`. Retries, partial rejections, a
  batch given up, and the abort may drop an event, but never one that no failure
  on the host answers for. It fails if the last look at the queue is skipped.
* `NoCallAfterAbort`: after the abort no `aws` process runs that was not told to end.
  The uploader may be between its look at `upload_abort` and `Popen`; `upload_lock`
  makes the abort wait for it. It fails if the abort does not take the lock.
* `UploaderEnds`: the supervisor reports its status however the calls go.
* `ContainerNeedsBoth`: the container is launched only when both preparations have
  completed, were observed for their cache result, and have no process left.
* `BootVerdict`: status 0, the event `boot ready` and completed phases go together;
  a boot recorded as cancelled exits with the signal's status. Signals may come
  between the last health probe, the events and the exit status.
* `PhasesClosed`: each started phase gets an outcome. The exception is a job whose
  process could not be created: its phase stays at `start`.
* `NothingLeft`, `BootEnds`: no process of a job survives the boot, and it ends though
  a job may hang and the endpoint never answer.
* `ReportTrue`: a report says ready only of a boot that is READY, and only from all
  of its events, an undamaged file and a steady clock; from all events it says what the exit
  status says; from fewer it says that or incomplete. TLC looks at the exports that lack
  up to two events or everything from some event on, or at most one event when the
  clock jumps as well; what is left stands in the file in reverse order and then once more,
  with a damaged line or without.
  It fails if a gap in the numbers is not looked for: the lost event may be
  one that no milestone needs.
* `MarkerComplete`, `MarkerTrusted`: the marker is visible only when every file is,
  although seeders and a booting instance fill the same cache and may be interrupted
  anywhere; so a boot that takes the marker's word starts its container with all
  files, and a script that reports success leaves a complete cache.
* `SeedersGo`: every seeder disappears: by its shutdown trap, whatever fails in it, also
  when the answer of its launch was lost or its script was killed.
* `NoAlarmWhileUsed`: the alarm changes to ALARM only after a window without a single
  period in which a session asked from start to end and was heard. Failed probes, which
  nobody looks at, and the metric, which counts an answered probe in the period it
  came in, are both in the model. It fails if the heartbeat is slower than a period.
* `OrphanStopped`: a GPU that nobody uses is switched off, by an event or by a later
  session, unless the alarm is in ALARM already. That exception is the one the
  repository's README grants ("no new change happens", `README.md:301`).
* `PolicyInForce`: a session that goes on has the policy it asked for, until somebody
  else deploys. It fails if the idle window is not compared.
* `SettingsKept`: no number of sessions changes the allow list, the zones or the mail
  address of a stack among themselves, although every update must pass them again.
  It takes a deployment by hand or a purge in the window between read and update.
* `NoGpuByDeploy`: an update by tkf never raises the group. It fails if the minimum is left to
  its default, which is one for every mode but batch.
* `SynthAccepts`: whatever the CLI resolved, or read from the outputs of a
  stack that anyone deployed, cdk accepts.
* `LostOnlyRefusedTwice`: a point of an invocation that came to its end is in the
  table unless it was refused twice; across batches, whatever part of each is refused.
* `ScoreFresh`: the score a placement takes from the feed lies between scores of that region,
  of one type, of the last 48 hours at the time of use; however old the feed is.
* `RankSound`: every candidate is ranked once; nobody stands behind a candidate that it
  beats by the score threshold, nor behind a dearer one with no better score and no
  better latency. Ties are not transitive, so this does not follow from any sort;
  it fails if the pool of the first leader is used for the rest.

Bounds. `MaxPolls` counts iterations of the wait loop before its deadline, which
is 15 s times up to 100 in the code. Three are needed for the third consecutive
403; the fourth would differ from the third in nothing but its number, since
an iteration keeps no state but the count of 403s and the deadline. Two are
enough to recover after a demotion and fail later, one where the loop is not the
subject. The deadline may also fall earlier, because the calls of an iteration
take time. Two runs are enough for a lock that names one; a crash, the removal of its file and a
second run are the longest chain. One run, one up, one down is one session
of each kind on the group.

Three regions give a race a winner and two losers whose answers can come in
either order, one of them failing; two regions suffice for what concerns one
purge. `MaxRounds` counts rounds of the race before its deadline (and, in
`Wait`, recoveries): one round already has an entrant lowered and raised behind
the loop's back. `MaxSeeds` is how many regions a seed prepares: each is
prepared by itself. Regions, and the sessions of `stack_updates`, are
interchangeable there, and the checks use that symmetry, except where a run has liveness.

`MaxRecords = 4` gives a batch of two events, one recorded during its upload and one
after it; with more, batches only grow, and the theorems of section 4 hold for any
number. `BootSupervisor` needs no bound: its jobs are the program's. The exports that
`ReportTrue` looks at are bounded as said above; the proof covers all.

Two weight files make a cache that is neither empty nor complete. Two polls let the
marker appear, or the seeder end, between a look at one and a look at the other. In
`idle_guard`, an idle window of two periods distinguishes the first quiet period from
the last, and two pending invocations let an old event meet a new one.
`Idles = {0, 3, 30}` is the boundary, a window off the five-minute steps and the default;
`Mins = {0, 1, 2}` adds one that is refused; addresses are alone or with a mask that is refused.
In `score_pipeline` a batch has one item, so that an invocation has several batches and
one refusal leaves others to be written; `Window = 1` in three hours lets a point grow too
old, and the collector works before `MaxTime` only, so that a placement may
come later than every point. Lists of three candidates
with scores 1 to 4 and ties of 1 and 2 are the smallest with ties that are not transitive.

The checks of a deadlock are off where sessions end: an idle group, a finished boot
and a finished seeding are legitimate final states.

Fairness (`FairSpec`): weak fairness of each session's own steps, its timers
included. It stands for the AWS SDK returning or failing each call and for the
Node.js event loop firing due timers. It promises nothing of the job (which may
ignore SIGTERM and never end), of EC2, of the idle guard, or of signals.
In `AutoUp`, `FairSpec` is weak fairness of each session's own steps in the same
sense; a step of `ProcStep` is always the answer of a call or the end of a sleep.
In `BootUploader`, both threads are scheduled and each call ends, because
`communicate` has a four second limit after which the process is killed. In
`BootSupervisor`, the main thread is scheduled and the monotonic clock reaches
the deadline; the jobs are promised nothing. In `SeedWeights`, the commands of a
seeder end, with success or failure, and EC2 terminates an instance that has shut
down; nothing is promised of the script. In `IdleGuard`, time passes, the
alarm is evaluated, EventBridge delivers and Lambda runs; no session is promised to
begin, to go on or to end.

## 4. Proofs

Every safety property that a passing run checks, invariant or action property, is a
theorem: the run shows it on a small instance, the proof for every value of the
constants. Each proof is the same argument: an inductive invariant (`Inv` or a name of its
own), one lemma per action or group of actions that it is preserved, and the property
from it. TLC checked every strengthened invariant on the instances of section 3 before it
was proved.

### `SessionsProofs`

For every set of runs, ups, downs, hosts, every policy and every `MaxPolls`, under
`SessionAssumption`, `LimitAssumption` and `HostAssumption` (the three kinds of session
are disjoint, a session has one host, an up does not ask for batch). Finiteness is
not assumed.

* `TypeCorrect`: induction on `TypeOK /\ PollsBelow`: that `polls` stays in
  `0..MaxPolls` needs that a session past the probe still has an iteration left.
* `LockIsExclusive`: the steps shared with `tkf up` neither start nor finish a run
  (`SharedMoves`), so the lock changes only in `StartRun`, `Finish` and
  `RemoveStaleLock`. `lock[HostOf[r]] = r` for a working `r` makes a second
  run's `LockFree` false.
* `NoCapacityLeaks`: `LeakInv` says where a run may be while the capacity is on at its
  request: `owned` and on a path to the release, crashed, or done with a failed
  clean-up. It holds because `owned` is set in the step before the raise; the
  "late owner" variant breaks it.
* `MinStaysWithin`: inductive together with the type; the proof goes through every request,
  deployment and EC2 step that writes the group.
* `NoOrphansLeft`, `TimersEndWithJob`, `ExitIsHonest`: one invariant, `JobInv`. Timers are
  armed and the group alive only between the spawn and the exit of the job (a group
  also after a crash of the run); and at every place after it, status 0 means a job that
  ended with 0 within its limit and, when the outcome was taken, without a cancellation,
  and after the clean-up also a confirmed release. In the
  code each of these is kept by another callback of `run.ts:115-168`.
* `StopsOnlyItsOwn`: true where the runs are on one host and no up is there
  (`RunsOfOneHost`); the lock excludes the others and `OwnCapacity` says that a GPU which is
  on while a run is responsible for it is on at its own request.
* `TargetIsRecorded`: no assumption beyond those of the module. `TargetInv` strengthens the
  property to every place from the save onward, where the session may not have
  requested the GPU yet (`Saving`), so that it must not be broken when the request comes.
  `WhoSaves` lists the steps that write the file and what each may leave: the two
  halves of a save leave `here` or an unreadable text, and the second half of the write-back
  (`PutBack`) whatever the snapshot was, or that text.

`RunsOfOneHost` describes the run that checks `NoForeignStop`; between hosts the property is
false, as the README of the repository grants.

### `AutoUpProofs`

For any regions, any number of ups, seeds and downs, any width of the race, and any number
of rounds, under `RegionAssumption`.

* `LosersAreOff`, `FailuresAreReported`: `Inv` says, for each place of the race (`InRace`),
  which regions may be on at the request of that up: in `cancel` the winner, those
  still to be asked and those whose request was refused, and so on. It is about one session at a
  time, because a region is on at the request of one session (`by`), whatever others do.
* `NothingUnrecorded`: true of one automatic up (`OneAuto`) beside any seeds, downs and
  purges; section 5 tells how two ups overwrite each other's record. `NamedInv` says at each
  place of the up what state.json names (`Says`): the whole ranking before the first
  request, and the winner as the target once there is one. Where it names something else
  or cannot be parsed, `Spoilt` and `FileInv` say why: the up is between the halves
  of a save, somebody has died or failed in one, or a purge has written or mixed in what
  it had read (`Left`). Seeds and plain downs do not write.
* `DownFindsTheWinner`: from the same invariant, without purges; an up that succeeded has
  completed its save, so nothing spoils the file.

### `BootUploaderProofs`

For every `MaxRecords \in Nat`.

* `ImplementsLog`: `Spec => LogSpec`. The property speaks of the end only, so the
  induction carries what is true on the way (`Inv`): the events below the cursor
  are stored or a failure is noted (`CursorCovered`); during an attempt each event
  of the batch is stored or in a chunk still to be sent (`AttemptCovered`); a batch
  marked `ok` is stored (`OkCovered`); the main thread ends only after the
  uploader, and after an abort it has noted the timeout (`EndAgrees`); the lock keeps
  the abort and the start of a process apart (`AbortHolds`). Then `Put`
  maps to `Store`, `Note` and `Rejoin` to `Note` and `Close`, and the rest stutters
  or records.
* `TypeCorrect` and `NoLateCall`: from the same invariant.

### `BootSupervisorProofs`

There is no constant to instantiate; what the proofs add to the runs is a reason.

* `ContainerWaitsForBoth`, `VerdictIsConsistent`, `PhasesAreClosed`, `NothingIsLeft`: the
  main thread executes one of two lists of steps. `Spots` lists the sixteen places it
  can be at: what is still to be done, the jobs active, those not yet started. `Inv`
  says that it is at one of them and what each phase and job then is
  (`Pace`): not started, active and at `start`, or complete with nothing left of its
  group. The rest covers the exits from these places: every live job is in `active`
  (`Listed`), a phase at `start` is active or never got a process (`Outcomes`), and the
  exit status goes with the event of the boot (`Judged`).
* `EveryReportIsTrue`: for every file that holds any of the events, each any number of times
  and in any order, with one jump of the clock anywhere, or none, and damaged lines or
  none. `RecordInv` ties the
  written events to the phases. Always: the first event is the start of the boot, the
  latest status of each phase has been written, and `boot ready` is the last event. On a
  boot that has not failed (`Good`): every event is written once, exactly the phases that
  have begun have a start, and the events are in the order that the report asks for
  (`InOrder`). `Adds` says what a step writes. An export, however repeated and reordered, is
  read as the set of its lines (`Exported`; the first line of each event exists because
  every set of line numbers has a least one, `NatMin`). A lossy one that still holds
  `boot ready` holds the last event, so the loss leaves a gap (`SoundReport`); a
  failed boot has written so (`FailureReport`); a ready one passes every test
  (`ReadyReport`).
* `ReportIsTrue`: the exports that TLC looks at (`ReportTrue`) are among them.

### `SeedWeightsProofs`

For every set of files, scripts and instances, under `FilesAssumption` (the marker is no
weight file).

* `MarkerIsComplete`, `MarkerIsTrusted`: neither property is inductive. `Inv` adds what one
  instance knows of the cache (`Sound`): what it has sent is visible; while it uploads
  its disk holds all files; when it marks all files are visible; and an instance that
  copies has seen the marker. Keys only ever become visible, so no step of another instance
  disturbs that (`MachineKeeps`).

### `IdleGuardProofs`

For every length of the idle window and any number of pending invocations.

* `RunsAreNotIdle`: the alarm needs `Periods` quiet periods, and a period in which a session
  was heard is not quiet, because what was answered was counted (`AnswersCount`); so
  there are never more quiet periods than unheard ones (`QuietIsUnheard`).

### `StackUpdatesProofs`

For any sessions, policies and settings, under `InputsAssumption` (`Unset` is no value) and
`OutputAssumption` (no record of settings is `Unset`).

* `TypeCorrect`, `SynthAlwaysAccepts`: what resolves to a policy resolves again to itself,
  and what normalises normalises again to itself; so what the CLI passes on, and what it
  reads back from any stack, is accepted. The type includes that.
* `PolicyIsInForce`, `SettingsAreKept`, `DeploysStartNoGpu`: a session acts on
  what it read before. `Inv` says what that is still worth, as a function of who has deployed
  since: the policy is in force if nobody has (`UsesWhatItWanted`), the settings it
  passes on are those of the stack if only tkf has (`PassesOnWhatIs`). The second survives
  another session's deployment only because that one kept the settings too.

### `ScorePipelineProofs`

For any types, regions, pools, scores and candidates, any size of a batch and any positive
thresholds, under `PipelineAssumption` and `WindowAssumption`.

* `LostWasRefusedTwice`: the invariant `WriteOK` accounts for each item of an invocation:
  in the table, still to be written, or refused twice.
* `ScoresAreFresh`: the table only holds points that were collected, and a scan and the feed
  only points of the table, however the scan overlaps the writes and whichever pools have a
  price; so the average lies between two of them. `Averages` bounds the sum of a finite set by its
  cardinality times its extremes.
* `RankingIsSound`: a statement about the recursive function in `rank`. The prover has no
  induction theorem that takes a predicate, so the proof takes the least
  counterexample (`NatMin`, from `NatLessThanWellFounded` and `WFMin`) where an induction
  is meant, and the existence of the recursive functions is derived from the unique one on
  each initial segment (`Iteration`). The invariant of the loop (`Round`, `Ranked`) is that what
  is ranked is not beaten by what is left.

### Only model-checked

Liveness: `SessionsEnd`, `ProcsEnd`, `UploaderEnds`, `BootEnds`, `SeedersGo`,
`OrphanStopped`. They rest on fairness, which is about `ENABLED`, and the
installed version of the prover does not treat it. `UpFailureReleases` is violated (section 5).

## 5. Where the documentation and the code disagree

1. `failed_up_keeps_gpu`. `docs/architecture.md:142` and `README.md:31` say that
   capacity returns to 0 on every failure path of `tkf up`. `waitReady` does so
   on its deadline and on three 403s. An error from the secret lookup
   (`up.ts:116`, the shortest counterexample), a status read (`:153`), the repeated
   request (`:156`) or the save after READY (`:176`) leaves the GPU requested. So does
   the first request (`:114`) when only its answer is lost; the property leaves
   that one out, because the code cannot tell it from a request that had no effect.

Met while modelling; the models contain the behaviour where they reach it, and no
run is kept for it.

Sessions and state:

* `state.ts:17` writes state.json in place. A crash or a full disk in one of the saves
  (`up.ts:92`, `:176`, `:216`, `:227`, `run.ts:87`, `program.ts:215`), or two sessions that save at
  the same time, leave an empty or damaged file with the GPU on, and `loadState`
  (`state.ts:23`) throws: a plain `tkf down` fails until the file is removed by hand.
  `TargetRecorded` and `EntrantsRecorded` say that nothing worse comes of it.
* `up.ts:154` takes any desired of 0 for a demotion by the idle guard and raises it
  again, after a successful `tkf down` too.
* `README.md:291` says the lock file stops `tkf up` on the same host from using
  the stack during a run. `up` reads it once, at its start (`up.ts:29`), so an up that
  began before the run uses the stack beside it. If it also read the group before the run raised
  it, it may deploy another policy under the run (`up.ts:53-84`).
* `run.ts:192` says the restore preserves another session's target; the snapshot
  from the start of the run overwrites a target saved meanwhile, of an up whose
  GPU is on for one (`PutBackBy`).
* `program.ts:209` reads state.json, `:215` writes it back after the purge; a target
  saved in between is lost, that of a racing up included. When the target itself was
  purged, `:214` removes the file, and with it the standby regions, running ones
  included (`PurgedOver`).
* `up.ts:213` reads `lastUsed` from a state.json that `ensureStackReady` has just
  replaced by one without it, so the clean-up of `up.ts:237` is never suggested.
  `cli-up-auto.test.ts` stubs the state and does not see it.
* When a purge destroyed the stack and failed on the bucket, a second `down --purge`
  reports that there is nothing left (`down.ts:13`).
* The branch at `run.ts:143` (cancelled before the spawn) cannot be taken, because
  nothing is awaited between the check before it and the spawn.
* A spot interruption during a job stops the heartbeats from being counted; if the
  replacement boots for longer than the idle window, the guard lowers the group
  under the run, which does not look at it (`run.ts:132`).
* A late event, or a repeated invocation of the stop Lambda after its notification failed,
  lowers the group minutes later, whoever uses it by then
  (`token-forge-stack.ts:345-351`, `:374`). A session that still waits asks again, until
  its deadline; one that is past READY loses its GPU.
* Heartbeats that fail for a whole idle window, of which `run.ts:132` says nothing, let the
  guard stop the GPU under the job unless the job itself uses the endpoint.

Race:

* An error of a status read (`race.ts:39`), of a repeated request (`:48`) or of lowering the
  losers (`:42`) leaves every entrant requested.
* `race.ts:19` says an entrant whose start failed was never at desired 1; when only
  the answer was lost it is, and nobody lowers it.
* `up.ts:211` says state.json is saved before the race so that `tkf down` finds
  every candidate; `tkf down` stops `state.region` only (`program.ts:210`), and the others need a
  `tkf down --region` each. `EntrantsRecorded` is about what the file names.

Deployment:

* `up.ts:82` compares the settings after an update with those that were read before it:
  a deployment by hand in between is undone and the comparison succeeds. A session that
  read no stack likewise overwrites one that was created meanwhile.

Boot and seeding:

* A phase whose process cannot be created stays at `start` (`boot.sh:162-165`): it is
  not yet in `active` when the exception is handled.
* A wall clock that is adjusted by more than 2 ms during the boot makes its report
  incomplete (`boot-report.ts:90`).
* `seed-weights.sh:97-101` looks for the marker, then at the seeder: a seeder that finishes
  in between is reported as failed although the cache is complete.

Placement:

* `tkf config set scoreTieThreshold 0` is accepted (`program.ts:259`), but the strict
  comparison of `engine.ts:30` then leaves no candidate: `pickLeader` returns
  undefined and `rank` a list of it. The same holds for `rttTieThresholdMs`.
* One region with a short quota is enough for the error that says all have one
  (`engine.ts:86`), although the others failed for want of a score.
* Only the request for the feed is guarded (`engine.ts:52-54`): a feed that is not of the
  expected shape throws instead of falling back.

## 6. Plan

Every component with behaviour of its own is modelled, and every safety property of a
passing run is proved. What is left:

1. The lock file as a refinement of an abstract mutex, with its proof.
2. The race as a refinement of what `tkf up` promises its user: one region on, or an error
   that names what is.

Not modelled:

* Key rotation writes one secret and prints a notice; a running server keeps the key it
  booted with. `status`, `connect`, `placement` and `models` read and print.
* `config set` checks one value and saves one file.
* CDK declarations without behaviour, and the profile files read at synth. What
  behaves is in `Asg`, `IdleGuard` and `StackUpdates`.
* The latency measurement and its cache, and the price lookup: values for `Placement`.
* The cost estimate and the launch anchor of `boot-report`.
* The dashboard and the rendering of the publisher; the pre-bootstrap image scripts,
  the smoke test and `start.sh`/`stop.sh`, which are one request each.
