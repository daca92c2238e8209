# A TLA+ model of PagerWesi

PagerWesi audits cloud accounts against a baseline, remediates some AWS settings, rolls them back
from a manifest, and can watch continuously as a daemon. This directory holds the TLA+ modules that
model the parts of it whose correctness depends on failures, interleavings and restarts, the TLC
configurations that check them on small instances, and TLAPS proofs for every value of the constants.

    tlc -config AwsApply.cfg MCAwsRun        # a run; PROJECT.json lists them all
    tlapm AwsRunProofs.tla                   # the proofs of a component

## 1. Inventory of the system

| component | code | state it keeps | operations | hard behaviour | what makes it correct |
|---|---|---|---|---|---|
| AWS audit, plan, apply | `cloud/providers/aws/{baseline,services,organizations}.py` | findings of the account and of the run; the settings in the cloud | a control reads, or reads and writes, one setting; pool of bucket jobs; organization members; profiles | read and write are two calls; a call is refused, or its answer is lost; a member is abandoned half way; kill between the changes and the manifest | the manifest and the exit code tell the truth about what changed; nothing is dropped silently; only apply writes |
| AWS rollback | `cloud/providers/aws/rollback.py` | manifest, findings | validate, then undo each change in reverse order | a call fails in the middle; kill and rerun; a setting changed twice | every change answered once; PASS means restored; nothing else touched |
| Findings, manifests, exit code | `cloud/core.py` | none | `exit_code`, `change_manifest`, `plan_manifest`, renderers | none of its own | error before fail before pass |
| Command line | `cloud/main.py` | manifests and report files | guards, single provider, `all`, custom controls, exceptions, notify, exit code | partial failure along the pipeline | the exit code and the files match what was done |
| Agent | `cloud/agent.py` | state file, history directory, shutdown flag | load, audit, save, rotate, diff, notify, sleep | kill or failing write between save and alert; a provider that raises, or answers in part; a state file that is torn, too large or not read; signals | no failure is silenced unannounced, none is announced twice without one of the causes named in `AnnouncedOnce`; graceful shutdown |
| Concurrent runner | `cloud/concurrent_runner.py` | pool, futures, results | `run_providers`, `run_regions` | deadline against completion order; errors in threads | each task once with its outcome; ends; bounded pool |
| Rate limiter | `cloud/rate_limiter.py` | tokens, last refill, lock | `acquire`; retry helpers | threads interleave between looks, tests and sleeps | rate bound in every window; no token lost; every call is answered |
| Webhooks | `cloud/webhooks.py`, `retry_with_backoff` of `cloud/rate_limiter.py` | errors of the call | `notify`: per channel, validation and a POST with retries | an answer that is lost after the delivery; a channel that fails; what counts as passing | every channel is delivered to or reported; repeats have a cause; the caller waits a bounded time |
| Network scanner | `cloud/network_scanner.py`, the list of endpoints of `cloud/input_validator.py` | pool, futures | two TLS checks of every endpoint through the limiter | a pool over a blocking limiter; a check that is denied a token, raises in its sleep, or connects late | every check is reported as what became of it; connections keep the rate; the scan ends |
| Azure, GCP, Kubernetes audits | `cloud/{azure,gcp,k8s}_harden.py` | findings of the audit | list the scopes (subscriptions, projects, the cluster); in each, blocks of checks that read a listing item by item | a page or a lookup fails half way; an answer that is not looked at; run beside each other under one deadline | every control of every scope is answered for; ERROR if and only if something could not be read; the exit code of `all` hides nothing |
| Exceptions, custom controls, policy | `cloud/{exceptions,custom_controls,policy}.py` | none | waive, run commands, validate | expiry, time-outs | waived failures become SKIP |
| Other audits and scanners | `docker_cis.py`, `secrets_scanner.py`, `terraform_plan.py` | none | read and judge | none: sequential, read-only | a pure verdict |
| Reports, registry, logging, validation | `cloud/{html_report,dashboard_gen,compliance,remediation,control_registry,logging_config,input_validator}.py` | none | formatting and checks of strings | none | out of a model checker's interest |
| Linux script | `linux/harden.sh` | `sshd_config`, firewall, packages, backup directories | audit, plan, apply, rollback | a command that fails or a kill between backup and change, and a second run on what it left | no file of an operator is lost; an apply that exits 0 leaves the host hardened and reachable; only one that is stopped may leave it cut off; plan changes nothing |
| Other host scripts | `freebsd`, `alpine`, `macos`, `windows` | configuration of the host | audit, plan, apply | as above, without backups | as above |

How they interact: `main` calls one provider's `run_audit`, or hands four of them to one call of
`ConcurrentRunner`, whose workers run them beside each other, and exits with the exit code of all the findings together; the AWS provider runs its buckets in a pool of its own; `main` writes the report
and then the manifest, and a later process reads that file to roll back. The agent calls the
providers one after the other and shares nothing with the command line but the file formats. The
network scanner's threads share one `RateLimiter`. Webhooks are called by `main` and by the agent.

## 2. The modules

| module | models |
|---|---|
| `AwsCloud` | the settings the controls read and write, findings, manifests, `exit_code`, other operators (`Drift`) |
| `AwsRun` | one `pagerwesi aws` process: `run_audit`, all of its controls, the bucket pool, organization members, report and manifest |
| `AwsRollback` | processes of `--mode rollback` on a manifest file |
| `AwsRemediation` | a run of `AwsRun` followed by runs of `AwsRollback` over the same cloud and file |
| `Agent` | the daemon, its state file and history, its alerts |
| `Webhooks` | one call of `notify`, its channels, POSTs and retries |
| `CommandLine` | a process of `main`, from its arguments to its exit code: the guards, the audit as a call, custom controls, waivers, the report and the manifests, and the alert, step by step, of `Webhooks` |
| `LinuxHarden` | runs of `linux/harden.sh` on one host, one after the other |
| `TaskBatch` | abstract: what a call that runs a batch of tasks promises |
| `ConcurrentRunner` | `run_providers` and `run_regions` over the thread pool; implements `TaskBatch` |
| `ProviderAudit` | the audits of Azure, GCP and Kubernetes: their scopes, blocks of checks and items |
| `AllProviders` | `pagerwesi all`: those audits on the workers of `ConcurrentRunner`, and the exit code |
| `RateLimiter` | the token bucket and its callers |
| `NetworkScan` | an audit of the network: validation, the pool, and the checks, which are the callers of `RateLimiter` |
| `MC*` | small instances for TLC |
| `*Proofs` | theorems and proofs of the module they are named after, and of the modules it extends: `CommandLineProofs` has those of `Webhooks`, `AllProvidersProofs` those of `ConcurrentRunner`, `NetworkScanProofs` those of `RateLimiter` |

Operators defined next to a comment that begins with "Mutation" are deliberate mistakes: TLC must find
the property violated when the definition after them is replaced by them, which shows that the property
depends on the code. No specification uses them.

### AwsRun

`phase`, `visit` and `region` are the program counter of the main thread: the organization controls,
the session of an account, its regions, the account block and the list of buckets, the pool, and at the
end the report and the manifest. `todo[k]` are the controls that thread `k` (the main thread, or the
job of a bucket) still has to run; they run in the order of the code (`Rank`). `seen[k]` is what `k` has
read and is about to overwrite, so a control that changes something is two steps, with everything else
possible in between. `batch` and `report` are the lists of `Finding`s of the account and of the run; `puts` is
a history variable that remembers which writes took effect, and what they replaced.

`Visits` is the list of accounts. With `OrgRole` it is the list of organization members, and an
exception in one (`Abandon`) costs the findings of that account only; without it the visits are those
of named profiles, and an exception ends the process with exit code 2 and no manifest. An exception
escapes from three places: the session of the account, the write of the account Public Access Block
and `list_buckets`; all other calls are guarded. `Understood` keeps one peculiarity: S3-004
and S3-005 take every read error for "not configured", and apply then writes over what is there.

A setting is one of a few values (see the header of `AwsCloud`). The two identifiers that a rollback
needs (`analyzer_name`, `flow_log_ids`) are one Boolean `id` of a finding, which no run ever sets.

### AwsRollback and AwsRemediation

The order of the manifest matters only for changes of one control on one resource, because the list
is sorted by control and resource with a stable sort: `IsLast` picks a change with no later one of its own
setting. `Plan` says whether a change is answered SKIP or MANUAL without a call; `RestoreFails` is a call
that raises, with or without effect. The process may be killed and started again on the same file. `AwsRemediation`
adds `original`, the settings before the run.

### Agent

A finding is its identity (control and resource), which is all that `_new_fails` compares. `current` and
`previous` are the failing identities of this cycle and of the loaded state. A provider raises (AGENT-PROVIDER-001 stands for
all it reports on, its `IdentsOf`), or answers. An answer may be partial: the audits of Azure, GCP and Kubernetes return normally with an
error of a scope (an identity in `Gap`) in place of what was found there (`Behind` it), and a control that cannot be judged may become
a MANUAL finding (`Manual`: AWS organization controls, `GCP-KMS-001`), which the state file does not list. `unseen` is the history of
what this cycle could not tell of. `Load` reads the state file; one over 50 MiB, or a read that raises, gives no state, and
`_save_state` may leave a file that is too large, any number of times and without a fault. The write of the state file
may also fail before or after truncating it; a kill may truncate it too; every fault is counted in
`faults`. `alerted` and `excused` are history variables: who was told of what, and what was recorded
without being told, because of a fault. `forgotten` is one too: the failures whose announcement the state does not
show, because something else stood in their place (`Hidden`), or the file was stale, torn, too large or not read; only these may be announced again.
`Told` is what a person knows: of the failure, or of the error that hides it.

### ConcurrentRunner, ProviderAudit and AllProviders

The pool starts jobs in the order of submission and its with-block waits for all of them.
`as_completed` gives up when its deadline has passed while futures are outstanding. `clock`
counts seconds since the wait began; submitting and collecting take none.

The three audits of `ProviderAudit` have one shape, and differ in their `Blocks`. A block is one `try`: it reads a listing
item by item (`ReadItem`, with the lookups for the item), and ends when the listing does (`EndList`), at the first exception
(`CallFails`), or with a MANUAL finding where the code cannot tell (`LeaveToOperator`). Controls in `PerItem` have a finding for every item,
which stays when a later item raises; the others judge the listing as a whole, and ask for one item that complies (`WantsOne`) or
for none that does not. Whether an item complies is a choice. `seen` and `missed` are history variables: the verdicts on what was read, and what
could not be read.
`RefusalMisread` is the one call whose status the code does not look at: a refusal of the diagnostic settings has none in its body.
In `AllProviders` an audit takes steps while its job is on a worker (`AuditRuns`), and the job ends as the audit did (`AuditEnds`). The audit
of AWS is a job of unknown outcome here; it has `AwsRun`.

### RateLimiter and NetworkScan

In `RateLimiter` a token costs `Period` units of credit and a tick earns one, so amounts are integers.
A look under the lock is one step; the test of the deadline, the second reading of the clock and the
wake-up are steps of their own, with any number of ticks in between.

A check of `NetworkScan` is one caller of `RateLimiter`: a thread of the pool calls `acquire`, connects if it has a token
(`Connect`), and returns what it saw or an ERROR (`Conclude`, `Denied`). `acquire` may raise out of its sleep, outside the `try` of the check, and
then the future has the exception (`Raise`), which the main thread turns into a finding of `network:unknown`. The main thread
validates the list, opens the pool, submits, and collects in any order.

### Webhooks and CommandLine

`notify` takes the channels in a fixed order; `answers[c]` is the history of what the POSTs to `c` came to. An exception is the
type, the status code and the words that `_is_retriable` looks at. `_post_json` raises HTTP errors as `OSError`s without
a code and wraps every other `OSError`, so that `Raised` leaves only the words: of all answers, 408 and 504
("Request Timeout", "Gateway Timeout") alone are retried.

`CommandLine` extends `Webhooks` and calls it in the step "notify" of its list of steps; one step of `notify` is one step
(`Alert`) of the process. `Refused` is the disjunction of all guards, `Pipeline` the steps that were asked for, taken in the order of `Rank`. A step either
prints its exception (custom controls, waivers, alerts) or lets it escape (`WriteRaises`), in which case
the interpreter ends with exit code 1. `called` remembers that an audit function was called, whether it returned or raised, and
`dropped` the findings of custom controls that ran before one that raises, which the code loses: `Counted` is what is left to count. `Accepted` is what the
code does with `--control`, which a rollback does not look at and all providers together do not check. "azure" stands for Azure and GCP,
"docker" for the other providers that are neither AWS nor all. `files[s]` is what step `s` wrote; a kill or an error may leave it torn. `Outcomes`
are the sets of findings that an audit function may return, among them those with changes or plans in the modes
that make them. `apply_exceptions` compares a status with `"FAIL"` as the code does, which is equal to none.

### LinuxHarden

The script is a list of commands, of which `todo` is what is left; under `set -e` any of them may end it (`Stop`), and a copy
that stops half way leaves a torn file. `config` is what the script's regular expressions see of `sshd_config`: for each of the two
settings whether the line is as wanted, otherwise, in a comment, absent or inside a Match block, and whether `sshd -t`
accepts the file. A line that the script appends belongs to the Match block that the file ends in, if it does. An apply runs the checks before it changes
anything, and its exit code is theirs: 1 says that something had to be changed, not that it failed. `copies[s]` is the copy in the backup directory of second `s`. `firewall[t]` tells stored rules
(`permitted`) from rules in force (`reach`), because firewalld needs a reload in between. `own` is a history variable: the file that an
operator chose last, by editing it or by a rollback. `cut` is one
too: the last apply to set up a firewall was stopped between turning it on and letting SSH in.

## 3. The runs

| run | shows | bounds |
|---|---|---|
| `aws_apply` | `CleanExitIsComplete`, `EveryChangeWasPut`, `BeforeIsWhatWasOverwritten`, `NothingSkipped`, `RunTerminates` | two accounts (so that one can fail after or before the other), two buckets in the second, two workers; one organization control, the account block and the bucket block; another operator may change one bucket once |
| `aws_rollback` | `EveryChangeAnswered`, `RollbackTerminates` | five files, which between them reach every branch of the code; another operator may change one bucket once; two attempts |
| `aws_round_trip` | `PassMeansRestored`, `NoCollateral`, `CleanRoundTripRestores` | audit, plan or apply; one account visited twice, so that a setting can be changed twice; two regions; one bucket that is audited, one excluded; two rollback attempts |
| `agent` | `RecordedMeansAnnounced`, `AnnouncedOnce`, `FailureIsAnnounced`, `GracefulShutdown` | two providers; one only raises or answers with nothing, the other reports on its projects, or an error of them behind which its keys are hidden, and on its keys, which may become MANUAL; one fault anywhere, any number of state files that are too large, of cycles, restarts, breakages and repairs |
| `all_providers` | `ExitTellsAll`, `RunsABatch`, `Terminates` | plan mode; three providers on two workers, a deadline that may pass at any point, both functions of the runner; one scope each; one item of Azure, an excluded one of GCP, none of Kubernetes; five controls, which reach every branch of a block |
| `network_scan` | `BucketIsExact`, `ConnectionBound`, `EveryCheckAnswered`, `ScanEnds` | four checks of two endpoints on two threads, and the lists and worker counts that open no pool; burst 1, a token every three ticks, timeouts 1 and 3; threads may be slow for two ticks |
| `command_line` | `RecordsComplete`, `ExitIsWorst`, `OnlyAcknowledged`, `MainReturns`, and of `Webhooks` `EveryChannelAnswered`, `RepeatHasCause`, `WaitIsBounded` | every combination of provider, mode, `--yes` and manifests; eleven processes with further options, which reach every step; two custom controls; waivers of every kind of expiry; every subset of the three channels, every answer to every attempt, with the retries and delays of the code |
| `linux` | `NothingUnrecoverable`, `CutOffOnlyIfStopped`, `AppliedMeansHardened`, `PlanChangesNothing`, `ScriptEnds` | any number of runs within two seconds; a file that ends in a Match block, one that sshd refuses, and none; firewalls off, or on without a rule for SSH; with and without each tool; apt and dnf |

Every run also has its module's type invariant, save `aws_round_trip`, whose variables are those of the
two modules before it. Deadlock is not checked: the processes end, and the clocks are bounded.

The bounds are small because the hazards are: each involves one or two failures, two actors and two
writes of one setting. What depends on size (any number of accounts, buckets, regions, tasks, threads
and faults) is covered by the proofs. `Contested`, `MaxAttempts`, `MaxFaults`, `SlowUntil` and `MaxTime` are the only
bounds on behaviour; `MaxTime` is a clock in three modules. `SlowUntil` says how long threads of a scan may be
preempted; after it time passes only while all of them sleep, without which no bound on the clock would cover the whole of a scan (24 ticks are enough for every thread to wake up: `ScanEnds` would fail if time stopped before). Scopes and blocks of an audit do not
share anything, and its items only their block, which is why one scope and one item are enough to reach every way a block may end;
the proofs have any number of them.

Four runs show that the code does not do what its documents say:

* `aws_undone` (`ExitZeroMeansUndone`): the README says that a rollback removes tool-created analyzers. The
  run never records `analyzer_name`, so the rollback answers SKIP and exits 0 with the analyzer in place.
* `runner_isolation` (`FailuresAreIsolated`): `as_completed` has one deadline for the batch, and its
  TimeoutError discards the results of providers that answered well within their own timeout.
* `webhooks_retry` (`TransientIsRetried`): the release notes promise retries of throttling, timeouts and 5xx; a 429, a 503 or
  a socket that "timed out" is given up on at the first attempt.
* `waivers` (`WaiversApply`): no finding is ever waived, because of the comparison with `"FAIL"`. The process goes on with the
  findings as they are, so that what fails is still reported and still counts (`ExitIsWorst`).

Other disagreements met while modelling have no run of their own and appear as the stated exceptions of
properties that hold: a read error of a bucket's block or encryption loses the owner's configuration
(`BeforeIsWhatWasOverwritten`); a rollback turns EBS encryption off in its own region even when the run had turned
it on only elsewhere (`MistakenForHome` in `NoCollateral`), and exits 0 with settings left that are
`OutOfReach` of it (`CleanRoundTripRestores`); the agent alerts
again on old failures after a cycle in which the provider raised or had an error or a MANUAL finding in their place, and whenever the state file is torn, too large,
unreadable or could not be written (`AnnouncedOnce` excuses what is `forgotten`); when a custom control raises (a severity that is none), the findings
of those before it are lost, errors included, and a refused file of custom controls or exceptions is printed only, so that the exit code is 0 or 1 where
the README (line 132) has 2 for execution errors (`ExitIsWorst` counts what is `Counted`); `main` refuses apply mode for Azure, GCP and all only, so that
the audits of Kubernetes, Docker, secrets, Terraform and the network are called in it, for which the README (lines 67 to 71) lists no Apply: they change nothing,
which is why `OnlyAcknowledged` says what is called in apply mode and what a change manifest holds; a PermitRootLogin that the Linux script appends behind
a Match block belongs to the block, so that root may still log in after an apply, every later apply exits 1 likewise, and `docs/controls.md` (line 50) is not
kept (`AppliedMeansHardened` excuses it for exit code 1); a member account that raises after a write that was answered
leaves its changes out of the manifest, although the run then exits 2 (`CleanExitIsComplete`); `time.sleep` gets a
negative number, and raises, if the deadline passes between lines 81 and 84 of `rate_limiter.py`: a caller in `RateLimiter` then
ends as crashed, and as `acquire` is called outside the `try` of a check, the finding is of `network:unknown`, under NET-TLS-001 for
either check (`EveryCheckAnswered`); zero workers and a list of blank endpoints raise out of the network audit (`EveryCheckAnswered`);
connections may exceed the rate by one for every thread (`ConnectionBound`);
a refusal of Azure's diagnostic settings is read as having none, and is reported as a failure and not as an error (`ExitTellsAll`
excuses AZURE-LOG-002); a report that cannot be written ends the process with exit code 1, without the change manifest
(`RecordsComplete` speaks of processes that return an exit code of their own); the Linux script enables firewalld
before it permits SSH, although the README (line 294) says the opposite, so that an apply that is stopped there leaves the host
out of reach (`CutOffOnlyIfStopped`), and two runs within one second share a backup directory (`NothingUnrecoverable`
excuses them by `collided`); a provider that hangs holds up the pool's
with-block for ever (`Terminates` needs every audit function to end).

Three more are visible in the code and in no property: `docs/controls.md` (line 77) lists NET-PORT-001, but nothing calls
`_check_open_ports`; the agent passes no endpoints, so that its network provider always answers with an error; `all` leaves out a provider that cannot be
loaded with a warning only.

## 4. Fairness

* `AwsRun`: weak fairness of the main thread and of each worker. API calls return or raise, and the operating
  system schedules every thread. Nothing is assumed of other operators, of failures or of kills.
* `AwsRollback`: weak fairness of the loop; starting a rollback is up to the operator.
* `Agent`: weak fairness of the agent's own steps while it is alive; none for restarts, signals, faults or the world.
* `ConcurrentRunner`: weak fairness of the caller, of the pool, of time and of every audit function.
* `CommandLine`: weak fairness of the process. A command of a custom control and a POST have timeouts of their own (30 and 15 seconds);
  that audit functions end is assumed.
* `LinuxHarden`: weak fairness of the commands of a script that runs; none for its start, the operator, the clock and `Stop`.
* `AllProviders`: the same, and weak fairness of the steps of every audit: the calls of the SDKs return or raise.
* `NetworkScan`: weak fairness of the main thread, of every check and of time. A connection has a timeout of its own (10 seconds).
* `RateLimiter`: none; that `acquire` returns is part of `ScanEnds`.

## 5. What is proved

For all values of the constants that satisfy the named assumptions of the modules (`OwnerAssumption`,
`PlacesDistinct`, `InitialCloudsAssumption`, `ContestedAssumption`, `RunAssumption`, `AgentAssumption`,
`RollbackAssumption`, `RunnerAssumption`, `AuditAssumption`, `AllAssumption`, `LimiterAssumption`, `ScanAssumption`, `LinuxAssumption`,
`ReachableAssumption`, `WebhooksAssumption`, `CommandAssumption`), which TLC evaluates on every run:

* `AwsRunProofs`: `TypeCorrect`, `ManifestComplete` (`CleanExitIsComplete`), `ManifestSound` (`EveryChangeWasPut`),
  `BeforeIsTrue` (`BeforeIsWhatWasOverwritten`), `NothingIsSkipped` (`NothingSkipped`), and `OnlyApplyWrites`: a step of a run in another mode
  writes nothing, which is stated in the theorem itself.
  The type invariant is not inductive: `Change` is typed only because a thread with a `seen` value stands
  before a remediable control it is going to write (`ThreadsOK`). The manifest theorems
  rest on `ManifestInv`: every changed finding of `batch`, `report` or the manifest was put, and every write that
  took effect is recorded by a changed finding, or an error finding in `batch` or `report` stands for it and the
  exit code will be 2, or the process has failed. `BeforeIsTrue` rests on `FreshOK`: what a thread holds is what
  the setting is, unless somebody else changed it or it is one of the two that are misread; for that no two threads work on one
  setting. `NothingIsSkipped` follows the main thread: every control of the visit is still to run or has its finding (`VisitOK`), and a visit that
  is over has its findings in the report, or its error (`ReportOK`).
* `AwsRollbackProofs`: `RollbackTypeCorrect`, `ChangesAreAnswered` (`EveryChangeAnswered`). What was answered and what remains make
  up the manifest, and nothing is in both (`AnsweredOK`).
* `AwsRemediationProofs`: `NothingElseTouched` (`NoCollateral`), `PassIsTrue` (`PassMeansRestored`), `CleanRoundTrip` (`CleanRoundTripRestores`),
  `RemediationTypeCorrect` (`RunTypeOK` and `RollbackTypeOK`) and `RemediationKeepsPromises`. During the run, the writes are those of
  accounts, regions and controls that the order of the code has reached (`WritesBefore`), a write that
  replaced a setting which did not comply is the first of that setting and replaced what was there before the run (`FirstWrite`), and the cloud is as the writes left it (`CloudAsWritten`). The run leaves `RunLeft` to the
  rollbacks, whose answers go from the last change to the first, so that a setting all of whose changes are
  answered PASS is at its original (`RestoredOK`). `CleanRoundTrip` adds that a run without errors listed every write
  (`EveryWriteListed`), and that a change in a rollback that exits 0 is PASS, or SKIP because it is out of reach (`VerdictsOK`). `RollbackAssumption`
  speaks of the files an operator may present; that those a run leaves are among them (`EntriesRecorded`) is what `RemediationTypeCorrect`
  shows, and what was proved of each half alone then holds of the two together (`RemediationKeepsPromises`).
* `AgentProofs`: `AgentTypeCorrect`, `StateFileIsHonest` (`RecordedMeansAnnounced`), `AlertsAreNew` (`AnnouncedOnce`). The invariants add that
  during the steps between save and alert the file is what was loaded or what was just found, and that `new` is the difference;
  that what was loaded is in the file (`LoadedIsFile`), though it may be nothing of a file that lists something; and that what was announced is in
  the file, or known to be dropped from it (`AlertedIsKept`).
* `AllProvidersProofs`: `RunnerTypeCorrect`, `RunnerImplementsBatch` (the refinement of `TaskBatch`), `PoolIsBounded`; `AllTypeCorrect`,
  `AllRunsABatch` and `ExitIsHonest` (`ExitTellsAll`). Of `Terminates`, what can be proved is its safety half: a call that has not ended
  can take a step (`RunnerNeverStuck`), and each of its steps but the passing of time leaves fewer (`RunnerStepsRunOut`). The
  invariant of the runner partitions the tasks into unstarted, running, ready and collected, by their index in `Tasks`. That of an audit says, of
  every control in every scope, that it is untouched while its block is ahead, that its findings mirror what was read while it
  is in it, and that it is answered afterwards; a call that failed left an error (`MissedIsTold`). The two meet in `EndedIsOver`: a
  job ended as its audit did.
* `NetworkScanProofs`: `LimiterTypeCorrect`, `RateIsLimited`, `RateIsAvailable` for the limiter alone; `ScanUsesTheLimiter` (a scan implements
  `RateLimiter`), from which `ScanIsLimited` (`BucketIsExact`) follows, `ScanTypeCorrect`,
  `ChecksAreAnswered` (`EveryCheckAnswered`), `ConnectionsAreBounded` (`ConnectionBound`). The invariant of the bucket relates what was handed out to the
  credit and the time of the last refill, for every moment in the log. The bound on connections adds that the tokens are those
  of the checks that were granted one, of which at most one for every thread has not connected yet (`Tokens`).
* `LinuxHardenProofs`: `LinuxTypeCorrect`, `FilesAreKept` (`NothingUnrecoverable`), `PlansAreHarmless` (`PlanChangesNothing`), `CutOffIsAStop`
  (`CutOffOnlyIfStopped`), `AppliedIsHardened` (`AppliedMeansHardened`). All rest on `TodoOK`: what is left of the script is in the order of the code. `KeptOK`
  says that the copy is made before the first edit, `FirewallOK` that the rule is stored before ufw is turned on and before firewalld is reloaded,
  and only the tool in use can shut SSH out; `HardenedOK` that every setting is as wanted or its command is still to come. That exit code 0 leaves no exception needs more: its checks passed, and what they found
  is kept by the commands after them (`PassingOK`).
* `CommandLineProofs`: of `Webhooks`, `WebhooksTypeCorrect`, `ChannelsAreIndependent` (`EveryChannelAnswered`), `RepeatsAreRetries` (`RepeatHasCause`) and
  `WaitsAreBounded` (`WaitIsBounded`): the channels still to be answered have had only answers that are retried (`StillOpen`), and those
  left behind were delivered to or failed (`Closed`). The bound is a sum of powers, `Growth`, which is a recursive function: its equation
  and those of the sum are proved by least elements (`WFMin` of the library takes a set and not an operator), and the invariant says that
  what was slept is at most what the channels so far, and the attempts at this one, may take. Of `CommandLine`, `MainTypeCorrect`, `ChangesAreAcknowledged` (`OnlyAcknowledged`), `ExitTellsTheWorst`
  (`ExitIsWorst`), `ReportsAreComplete` (`RecordsComplete`), and three on `Webhooks` within a process: `AlertsAreAnswered`, `NotifyAsSpecified` (seen from `notify`, a process takes the
  steps of `Webhooks` and one that makes the findings known) and `ProcessWaitIsBounded`. The invariant says that steps are taken
  in the order of `Rank` (`InOrder`), so that nothing is written before the
  custom controls and the waivers have been seen to (`NothingWritten`), that a process that called an audit function has passed the guards, and only AWS in apply mode has changes to list (`PassedGuards`, `ChangeOK`), and every file holds its part of findings that do not change any
  more (`WrittenOK`); that the findings are those that are `Counted` (`Collected`), which
  rests on `NothingWaived`: no status is equal to `"FAIL"`. Were the comparison repaired, `ExitIsWorst` would still be
  what the code should promise, and its proof would need the waivers.

Only model-checked: liveness, which is out of the prover's reach (`RunTerminates`, `RollbackTerminates`, `FailureIsAnnounced`,
`GracefulShutdown`, `Terminates`, `ScanEnds`, `MainReturns`, `ScriptEnds`).

## 6. What is not modelled, and why

* Profiles combined with an organization role, and manifests edited by hand beyond what `aws_rollback` lists.
* `AWS-ORG-001` as a selected control: it selects nothing but is accepted by the command line.
* The content of findings (titles, evidence, severity) and all renderers; in `CommandLine` also their resources.
* `Unsuccessful` items inside a successful answer to `create_flow_logs` (`services.py`, line 300): a call succeeds, fails or loses its answer as a whole.
* Worker counts in `all_providers`, which has two: that the pool is bounded by any number, and never stuck with any, is proved.
* Backup directories of two runs of the Linux script within one second: `NothingUnrecoverable` excuses them.
* Pure judgement: whether an item of an Azure, GCP or Kubernetes listing complies; the Docker, secrets and Terraform scanners; input validation
  beyond the list of endpoints.
* `_check_open_ports` of the network scanner, which has no caller.
* `retry_api_call`, which nothing in the repository calls; the payloads of alerts; how webhook addresses and
  the commands of custom controls are parsed.
* The host scripts other than the Linux one: they keep no backup, and are lists of commands guarded in the same way.
* The schema of policies; excluded resources and the flow-log destination are constants.

## 7. Plan

Done: the AWS core (`AwsCloud`, `AwsRun`, `AwsRollback`, `AwsRemediation`), `Agent`, `ConcurrentRunner`, `ProviderAudit` and `AllProviders`,
`RateLimiter` and `NetworkScan`, `Webhooks`, `CommandLine`, `LinuxHarden`, and a proof of every safety property that a run checks. Next, in this order:

1. An abstract undo log that `AwsRemediation` implements where its identifiers are recorded, and an abstract
   monitor (a failure is announced once until it is resolved) that `Agent` implements without faults.
2. `Agent` over `Webhooks` in place of its abstract alert.
3. Profiles combined with an organization role in `AwsRun`; `AwsRun` as the fourth audit of `AllProviders`.
