# Nitely: a verification project in TLA+

Nitely turns Work items of a repository into Runs of a Flow: agents work in a
worktree, a change request is published, and the Work item shows how it ended.
The program is one Node.js code base, but several of its processes work on one
repository at a time: one or more schedulers, the web server, the command line,
webhook intake. They share SQLite databases and JSON files under `.nitely/`,
and GitHub. This directory models what those processes do to the shared state,
checks the models with TLC, and proves the most important invariants for every
instance with TLAPS.

Paths below are relative to the repository root, and `src/` is its source
directory. `PROJECT.json` maps every definition to the lines that it models and
lists the runs, the mutants, the findings, the hazards and the theorems.

    tlc -workers 2 -config MCRunAdmission.cfg MCRunAdmission
    tlapm RunAdmissionProofs.tla

## 1. Inventory

### Components, their state and operations

| Component | State | Operations | Modelled in |
|---|---|---|---|
| **Run admission** `src/run/admission*.ts` | ledger `run_admissions`, one SQLite row per Run: state, snapshot, initialization token, settlement token, intent and lease | claim, reject, markProjected, beginSettlement, renew, complete, abort, recoverStale | `RunAdmission` |
| **Work items** `src/work-items/` | a JSON record per item: status, latest Run, change request, dependencies | admitTaskRunState, updateTaskRunState, edits: read, change, rewrite | `RunAdmission` (status part) |
| **Event log** `src/events/`, `src/run/project.ts` | SQLite events per Run; a projection gives the Run's status | append, transaction, project | `RunLog`; in `RunAdmission` the terminal events only |
| **Run control** `src/run/control.ts`, `src/scheduler/resume-claim.ts` | continuation claims | cancelRun, withRunContinuationClaim, denyRunApproval | `RunAdmission`; the denial in `FlowRun` |
| **Scheduler** `src/scheduler/` | leases, cooldowns; a cycle over all items | admit, reconcile, resume, settle errors, heartbeat | `RunAdmission` (not the leases) |
| **Flow runner** `src/run/run-flow.ts` | worktree, stage attempts, events | run, resume, retry, rework, approve, finalize, publish, update | `FlowRun`; ends of a Run: `RunAdmission`; guarded stages: `WorkClaims` |
| **Work coordination** `src/coordination/claims.ts` | claims, world heads, holds, wakes | snapshot, propose, markEffectStarted, complete, abort; record, claim, finish, release a wake | `WorkClaims`; the wakes: `WorkWakes` |
| **CI repair** `src/ci-repair/` | evidence record per failed head | submit, resume, repair, observe | `WorkClaims` (the guarded repair) |
| **Webhook intake** `src/github-webhooks/` | delivery files and their lock files | accept, drain, lock, steal, retry | `WebhookIntake` |
| **Schedules** `src/schedules/` | schedules and occurrences, two JSON files | scan, fire, skip, advance, fire by hand, pause | `Schedules` |
| **Runner control plane** `src/runner-control-plane/` | queue file with leases | claim, heartbeat, result | not modelled |
| **Preview** `src/preview/` | preview sessions, processes | start, expire, stop | not modelled |
| **Knowledge repositories** `src/knowledge-repositories/`, `src/run/owned-file.ts` | registry, snapshots, a lease directory | acquire, steal, release | not modelled |
| **Notifications** `src/web/notification-delivery.ts` | delivery records | send, record, retry | not modelled |

`PROJECT.json` lists the other parts too (parsers, catalogues, providers,
reports, the command line), with the reason why they are not modelled: they
hold no shared state of their own, or are I/O.

### How they interact

* The scheduler, the web server and the command line call the same functions of
  Run admission on the same ledger. The ledger, the record and the event log
  are **three stores without a common transaction**; every function awaits
  between them, and JSON records are rewritten whole from an earlier read.
* `cancelRun` writes only to the log and then settles; the runner learns of a
  cancel of another process when it looks at the log.
* A scheduler resume takes the continuation claim, marks the record `running`
  and re-enters the runner; it does not touch the ledger.
* A runner and the operators of its Run (cancel, approve, deny, raise the
  budget) meet **in the event log only**: a resumed runner rebuilds its place,
  its completed stages and its attempt numbers from the projection.
* A web server answers a webhook once the delivery is stored and drains the
  stored deliveries afterwards; its handlers interleave with its drain, and two
  servers meet at the delivery files, their lock files and the wakes.
* A scheduler's cycle first scans the schedules, whose firings create Work
  items, and then starts Work items; the web server fires, pauses and resumes
  the same schedules.
* The publish-change and update-change stages and the CI repair call
  `runGuardedMutation` around the call to GitHub. The effect of a CI repair is
  a Run, whose own stage calls `runGuardedMutation` again.

### What is hard, and what makes it correct

* *Single ownership.* One Run at a time owns an item, and a snapshot of an item
  starts at most one Run, whoever claims, cancels, settles, dies or edits.
* *Agreement of the stores.* A Run executes only while its item shows it; a
  Run is settled only after its log ended; a settled Run's outcome is shown.
* *Fenced settlement with recovery.* A settler that died must not block the
  item for ever, and a settler that is only slow must not write after it was
  overtaken.
* *Ended Runs.* The item of an ended Run leaves `running`; a cancelled Run
  stays cancelled.
* *The Run of a Flow.* `run.completed` stands for every stage, whatever path of
  reworks, approvals, budget stops, crashes and resumes led there; no attempt
  number is used twice; no approval is passed without an answer of its own; a
  runner that leaves has left an end or something to resume.
* *Deliveries.* Of several activations of one issue the newest leads, one
  becomes a task, and none is dropped by a crash.
* *Schedules.* Every instant is decided once, on the record, and its Work item
  is created once, wherever a scan stopped; misfires and overlaps are bounded.
* *External effects.* A change to GitHub is made once, from an observation that
  is still current, by one mutation at a time per domain, and is never repeated
  after a crash in the middle.

Timeouts (settlement and scheduler leases), retries (stages, repairs,
deliveries), crashes at each step and lost updates of JSON records are the
failure modes. The `hazards` of `PROJECT.json` list them at their lines.

## 2. Modules

### `RunAdmission`: admission, execution, cancel, resume, settlement

A member of `Procs` is one call in flight of `admitWorkItemRun` (with the Run
it dispatches), `cancelRun`, `reconcileTerminalWorkItemRun`, a scheduler resume
or an edit of a record. `pc[p]` says where it is and `loc[p]` holds its local
variables. A step is one synchronous stretch of the code: an `await` on another
store, a separate SQLite transaction and a separate read of the record are
steps of their own, so every interleaving of the calls is explored. Consecutive
synchronous SQLite calls are one step only where nothing of another process in
between could change the outcome (`recoverStale…` then `get`, `complete…` then
`get`, and the look at the log before the `run.failed` of a runner that threw:
a cancel in between leaves what `StopRun` behind a cancel leaves).

| Variable | Code |
|---|---|
| `ledger[r]` | row of `run_admissions`; `init`/`token` name the process instead of a UUID, `cand` is the fingerprinted value itself |
| `record[i]` | status, latest Run, presence of a change request; `edits` stands for the rest of the document |
| `evt[r]` | what the log projects to (the last terminal event) |
| `quiet[r]` | resumes since which the log has not ended (`latestRunEventSequence`) |
| `pr[r]` | the log names a change request |
| `continuation[r]` | `scheduler_resume_claims` |
| `stale[r]` | the settlement lease is older than `SETTLEMENT_LEASE_MS` |

`Live`, `Active`, `MayBeginSettlement`, `Holds` and `Unsettled` are the WHERE
clauses of the conditional updates. `ClaimRun` is the IMMEDIATE transaction of
`claim`. `Return` gives the result of `settleWorkItemRun` to its three kinds of
caller: an admission that was recovering an owner claims again, a runner whose
result did not settle handles an error, everybody else returns.

Abstractions:

* An item is eligible when it is not `running`. Approvals, readiness, budgets
  and drafts are checks on the record that the candidate fingerprint covers.
* The comparison of an item and its dependencies is one step.
* A resume is possible for a blocked Run. The log of a resumed Run stays
  blocked until it ends again; `run.resumed` is appended only for a Run that no
  stage blocked, which is not modelled.
* A Run that comes to an approval returns to its caller (`AwaitApproval`), which
  changes nothing and keeps the row. That a resumed one then rewrites its record
  as `running`, and that a person has the waiting Run taken up, are not in
  `RunAdmission`; `FlowRun` has the second.
* The rows of older versions (`recoverLegacyProjection`, not-admitted Runs),
  the work-item-mismatch error, and exceptions inside a resume's own writes are
  left out. So is the web server's error path, which settles without the URL
  (listed as a hazard).
* A crash is for good; a restarted program is another member of `Procs`. No run
  combines crashes with resumes: a continuation claim of a dead process is
  documented to stay (CONTEXT.md, "Run continuation claim").

### `RunOwnership`: what admission promises

The abstract specification: an item is free, taken, running or shown; it is
owned by one Run; a Run owns once; an owner leaves after its outcome was shown,
or before the item ever showed it as running. `RunAdmissionProps` instantiates
it with the active row as owner and the record's status as phase, and
`OwnershipRefined` states that every step of every call implements it. The
refinement holds, resumes included, where no edit rewrites the record (an edit
may undo a status) and no stage blocks after a cancel (the log is then no longer
ended). `core_admission` checks it on its instance and `RunSettlementProofs`
proves it.

### `WorkClaims`: guarded mutations of GitHub

A mutation is named by its idempotency key; `Mutation[k]` gives its kind and
what it names (branch, worktree, issue, pull request), `DomainsOf(k)` its
conflict domains as `changeMutationDomains` computes them. `CheckOut`,
`StartStage`, `StartRepair` and `RunRepairFlow` are the callers; `Snapshot`
reads one domain after another, as the code does outside a transaction, in the
code's order (`Rank`); `Propose`, `MarkStarted` and `Complete` are the IMMEDIATE
transactions; `Push` is the call to GitHub; `Abandon` is the death of the
process or an exception of the effect, before or after the push. A head is
named by the mutation, or the stranger, that pushed it.

Abstractions: a hold and a reached re-evaluation limit both end the call; a
replay without a URL ends it like a stop; GitHub accepts every push (a refusal
by git is not relied on, and would only remove behaviours); `abort`, which only
the tests call, and artifact domains, which no caller passes, are left out. A
stage of one Run has one runner (the continuation claim, checked in
`RunAdmission`), so only a repair, which `--resume` submits again after a
minute, is started twice at once.

### `GuardedMutations`: what work coordination promises

The abstract specification has no claims, revisions, processes or crashes. A
mutation is fixed to one head (`Choose`), holds all of its work from `Claim` to
`Record`, and starts and applies its effect once. Two comparisons with a head
guard it: `Claim` compares with the head last recorded for the work, `Apply`
with the head of the branch, if another mutation pushed that. The effect of a
repair is that of the update in its Run, so it is recorded after that one.
`WorkClaimsProps` maps the status of a claim to the stage of the mutation
(`unknown` is *started* until the push and *applied* behind it), `checkout` to
the base, the remote heads and the world heads to themselves, and
`MutationsRefined` states that every step implements it. In the instance of
`services` no repair is ever recorded, because of finding 4: that part of
`Record` rests on the proof alone.

### `RunLog` and `FlowRun`: one Run of a Flow

`RunLog` is the projection: `log` is what the event log of a Run amounts to
(per stage its status and highest attempt number, the completed stages, the
answers to approvals, the status and the ends of the Run), with one operator
per event. `FlowRun` is the loop over the stages of `run/run-flow.ts`, of the
fresh runner and of the one that resumes.

| Variable | Code |
|---|---|
| `log` | `projectRun` of the Run's events |
| `runner.pc`, `runner.i` | where the runner is, `stageIndex`; `left` when it has returned, `crash` when it died |
| `runner.done`, `runner.tries` | `completedStages`, `attemptsByStage` |
| `runner.cont`, `runner.from` | the stages to continue that it has not reached; where it was resumed |
| `signal` | the runner's cancellation signal |
| `over` | the budget is used up |
| `denying` | how far `denyRunApproval` has come: it reads and then appends |

The constants are the Flow: `Order`, `Finalizer`, `Kind`, `Target` (which stage
a stage may send back to) and `MaxAttempts`. A step is what a runner does
between two awaits: it begins an attempt (`BeginPolicy`, `BeginStep`), which then
ends in any way that its kind allows (`Complete`, `Await`, `FailAttempt`,
`BlockRun`, `StopOnBudget`, `SeeCancel`); `Retry`, `RequestRework` and `GiveUp`
are the decision of `policy/decide.ts`; `Catch` is the error handler.
`FailPreRun` and `FailPostRun` are hooks of the Flow that fail: each records
`run.failed` whatever the log says, and in a resumed runner no handler follows.
The hooks of a stage are part of its attempt (`FailAttempt`). Two runners at once
are excluded, since `OneRunnerPerRun` is what `RunAdmission` is checked for;
`ResumeBudget` is one step for the same reason: between its test and its
transaction, which repeats only the test for a cancel, nothing can change a Run
that has failed, that nobody works on and that waits for no answer.

Left out: what a stage does to the worktree, runtime candidates, task plans,
the operator's review of a gate, questions, two operators who answer one
approval at the same instant, and exceptions of the runner's own bookkeeping
(evidence, attempt directories, the preparation of an attempt before
`stage.started`).

### `RunStages`: what the log of a Run promises its readers

The abstract specification knows no runners, retries, budgets or crashes, only
the log that all of them write: the stages are walked in their order (`Turn`:
those before are completed and no other is open), each attempt has a number
higher than the last (`NewAttempt`), an approval is passed on an answer to its
own attempt (`Ask`, `Answer`, `Pass`) and fails while it waits only when it was
denied, and the Run completes when every stage has (`Finish`). `late` is the one
exception, a Run taken up within a finalizer (`TakeUp`), which walks no stage
any more and completes. The mapping of `FlowRunProps` is a projection of `log`;
`late` is `FromFinalizer`. That a stage that had completed may fail again
(`Fail`) is not a freedom of the abstraction: what the code runs behind the
completion may still fail the stage.

### `WorkWakes` and `WebhookIntake`: webhook deliveries

`WorkWakes` is the `wakes` table, one row per issue or comment, as operators on
a row (`Recorded`, `Claimed`, `Finished`, `Released`: the IMMEDIATE
transactions of `coordination/claims.ts`). `WebhookIntake` has one `pc[p]` for
the drain of each server and `acc[p][d]` for the handler of each delivery;
`lock[d]` is the lock file, which is *empty* between its creation and its
write; `record[d]` and `task[d]` are files; `due[p]` counts chained drains.
Locks and leases expire nondeterministically and servers restart. Any call of
the drain may throw: where the code catches it, the delivery fails and its wake
is released, or the error is ignored (`Throws`); where nothing catches it, the
drain ends (`Aborts`). The deliveries are those that pass the checks of `accept`.
`task[d]` may be taken up by somebody at any time after it was made.

### `Schedules`: a schedule and its firings

`clock` is the time, `schedule` the record of one schedule, `occ` the file of
occurrences, `task`, `dependsOn` and `candidates` what its firings created.
`pc[p]` and `loc[p]` are a call: a scan of a scheduler, a pause or resume, or a
firing by hand. Each read and each write of a file is a step, since no lock
guards them; `loc[p].sched` and `loc[p].file` are what the call has read. A
call may stop at any step (`Stop`: the process dies or a store throws). The
instants are numbers: `Grid` stands for the cron or interval trigger. Whether a
single instant is within the grace time is left open (`MayFire`). A Work item
is `ready`, or with admission for review a `draft` until somebody approves its
planning (`ApproveTask`); a scheduler runs it, and a person may start one that
has ended once more (`StartAgain`).

Left out: edits and deletion of a schedule, a start by hand of an item that has
not run yet (it would pass over its dependencies), the limit of 1000 instants,
and the arithmetic of cron, intervals and time zones.

### Property, instance and proof modules

Each component `X` has its properties in `XProps`. `RunAdmissionProofs`,
`WorkClaimsProofs`, `FlowRunProofs`, `SchedulesProofs` and
`WebhookIntakeProofs` hold the theorems;
`RunSettlementProofs` builds on the first, `FlowEndsProofs` on the third and
`ScheduleBoundsProofs` on the fourth.
The abstract specifications are refined by the module that their sections
follow: `OwnershipRefined`, `MutationsRefined` and `StagesRefined`. The
instances for TLC:

* `MCRunAdmission`: one item, with the roles of its calls per configuration.
* `MCRunStarts`, `MCSettles`, `MCServices`: each is a choice of *settings*,
  instances that do not interact. A behaviour chooses one and moves only it.
  The comment at the head of each module lists them. This keeps questions of a
  kind in one run.
* `MCWorkClaims`, `MCWebhookIntake`, `MCFlowRun`, `MCSchedules`: the instances
  of the findings.

Beside a definition whose name has the form `Name_Slip` stands the mutated form
that `PROJECT.json` names: a plausible slip, under which the property named
there breaks.

## 3. Runs

| Run | Instance | Question and answer |
|---|---|---|
| `core_admission` | 1 item, 2 Runs, 2 starters, 1 operator (cancel, reconcile), 1 crash anywhere | one owner, one Run per snapshot, stores agree, settlement is fenced, ownership is refined: holds |
| `faults` | 1 item, 2 Runs, 2 processes that start and resume, 1 edit, 1 store exception anywhere | lost updates of the record and exceptions do not let a snapshot start twice; a Run keeps one runner and its own row: holds |
| `starts`, setting `flow` | a Flow of a stage, a sync, a gate, an approval, a judge and a finalizer; 2 attempts, 2 resumes, 1 crash | a Run completes through every stage, passes approvals only on an answer, never repeats an attempt number, always leaves an end or something to resume; `RunStages` is refined: holds |
| `starts`, setting `resume` | 1 Run that may block, 2 resuming schedulers, cancel, reconcile | one runner per Run; a settler keeps its row (both in `ResumesAreFenced`): holds |
| `starts`, setting `race` | the same with a second starter and a second Run, without cancel | an executing Run owns its item, even when it is resumed before its first runner has returned (`StartsAreFenced`): holds |
| `starts`, setting `items` | 2 items, the second depends on the first, 2 starters of which one reconciles | a snapshot of an item and its dependencies starts one Run (`StartsAreFenced`): holds |
| `settles`, setting `flow` | a stage and a judge that may ask for its rework, 3 attempts, 1 resume, 1 crash, fair | a runner comes to its end: holds |
| `settles`, setting `cancel` | 1 Run, operator, 1 store exception anywhere, fair | the item of an ended Run leaves `running`: holds |
| `settles`, setting `intake` | a server, two activations, a comment, 3 requests, fair | a stored activation is settled without being sent again: holds |
| `services`, setting `claims` | a publish, two updates of its pull request, a CI repair; 2 processes, 1 abandoned call, pushes by a stranger | one claim per domain, effects once and from fresh observations, no unseen push overwritten, recorded heads right; `GuardedMutations` is refined: holds |
| `services`, setting `alone` | a server that is restarted when it dies, an activation and two comments, a status publisher, 1 fault | completed deliveries have their task, a task somebody took up is kept: holds |
| `services`, setting `pair` | two servers, of which one may die and the other goes on, two activations of an issue, 1 fault, wakes that keep 1 delivery id | the newest activation leads, only its owner ends a lease: holds |
| `services`, setting `scan` | a scheduler, 3 instants, every trigger, misfire and overlap policy, no review, 1 stop anywhere | no instant is passed undecided, no Work item is created twice, catch-up and overlap keep their bounds: holds |
| `services`, setting `pause` | the same with an operator who pauses and resumes, 2 instants, with and without review | a scan that returns leaves nothing pending; no Work item is created twice: holds |
| `services`, setting `byhand` | the same with an operator who fires by hand, no stop | catch-up keeps its bound whatever record is lost: holds |
| `cancel_resume` | starter, canceller, scheduler | **violated**: finding 1 |
| `cancel_overwritten` | the same | **violated**: finding 2 |
| `publish_same_issue` | two publishes for one issue | **violated**: finding 3 |
| `repair_conflict` | one repair, nothing fails, fair | **violated**: finding 4 |
| `webhook_lost` | one server, two activations, nothing fails | **violated**: finding 5 |
| `raised_cap` | one stage with one attempt | **violated**: finding 6 |
| `missed_latest` | one scheduler, one late scan | **violated**: finding 7 |

*Why the bounds are enough.* Every race of the ledger needs two starters of one
item or a starter and a settler: two Runs and three calls give both at once,
and a call that returned may start again, so a chain of settle, restart, settle
is within the bounds. One crash or one exception is placed at every step; the
documented fail-closed cases need just one. Two items are needed only for
dependencies. Two updates, with the publish that created the pull request and a
repair, give every pair of kinds that share a domain. Runs and starters that
nothing tells apart are symmetric, except where a property is temporal.

The Flow of `starts` has every kind of stage, a rework that crosses a sync and
an approval, and a rework of a stage by itself; two resumes allow a budget stop
or crash after a resume. A larger instance (3 attempts, 3 resumes, 1 crash)
held as well and is not kept for its time. Liveness is checked on the part of
the Flow that can loop. For webhooks, the second activation is what may
overtake the first, and the second comment is what may take its slot. In `pair`
every interleaving of two drains over an expired or unwritten lock occurs, and
its wake keeps one delivery id (32 in the code) for the two deliveries of its
domain: whichever comes second makes it forget the first, and `LeadIsNewest`
therefore compares each lead with the one before it. In `alone` each domain has
one delivery, so no id is ever forgotten there. Three instants with a catch-up limit of 2
and 1 recorded skip (25 in the code) give a backlog that is fired, skipped and
summed up in one scan, and one that grows between a stopped scan and the next.

*Deadlock* is not checked: calls are bounded, so an instance ends when its Runs,
requests or instants are used up.

*Fairness.* `WF(Step(p))` in `RunAdmission` and `WorkClaims`, `WF(Run)` in
`FlowRun`, `WF(Handle(p))` and `WF(Drain(p))` in `WebhookIntake`: a call in
progress goes on, since the event loop runs it; exceptions, crashes, requests
and the choices of people are not part of these steps. In `RunAdmission` also
`WF(StartReconcile(p, i))`: the scheduler's cycle reconciles every item that is
`running`. Exceptions are bounded by `MaxFaults`; without a bound a store could
fail for ever. `EndedRunLeavesRunning` asks for `ledger[r].projected`, since a
call that stopped before that mark is documented to stay for an operator
(CONTEXT.md, "Run admission"). `StoredIsSettled` is checked without crashes:
after a restart within two minutes the first drain passes over a delivery whose
lock has not expired, and no drain follows until the next webhook. Of schedules
nothing is promised "in the end": `NothingLeftPending` says what a scan that
returns has done, so it needs no fairness.

## 4. Findings

1. **A cancelled item may stay `running`** (`cancel_resume`,
   `SettledItemNotStuck`). A scheduler resume revalidates under its
   continuation claim and then marks the record `running`; a cancel of another
   process in between records `run.cancelled` and settles. `cancelRun` takes no
   continuation claim, although docs/remote-operations.md says that a cancel is
   refused while a resume is starting. The row is settled, so no later
   reconcile moves the item. The refused resume also appends `run.failed` after
   `run.cancelled`.
2. **A cancelled Run may become blocked again** (`cancel_overwritten`,
   `CancelledRunStaysEnded`). A stage that blocks appends `run.blocked` without
   looking at the log; the projection takes the last terminal event, so the Run
   is resumable and may even complete.
3. **A second Run for an issue cannot publish** (`publish_same_issue`,
   `FirstPublishProceeds`). Its own branch was never published, but the domain
   `github-issue:…` has the head of the first Run's branch and a publish always
   observes `none`.
4. **A CI repair stops itself** (`repair_conflict`, `RepairUpdatesPull`). The
   repair claims the pull request's domain and then runs a Flow whose
   update-change stage claims the same domain with another key: a conflict. The
   repair never pushes, and its claim stays `unknown`.

5. **Two activations of an issue may both be dropped** (`webhook_lost`,
   `ActivationKept`). `accept` stores a delivery and records its wake in a later
   step. A drain in between coalesces the newer delivery, which does not lead
   yet, and then the older one, which leads no more.
6. **A Run stopped on its budget cannot always go on** (`raised_cap`,
   `RaisedRunHasEnd`). When the stage that crossed the budget had no attempt
   left, the resumed runner throws without beginning one; its error handler
   finds the `run.failed` of the budget stop and appends none, so the log stays
   `running`, with nothing to resume. It is why `ReturnedRunHasEnd` is stated for
   Runs that nobody took up again behind a recorded end (`Reopened`). Such a Run
   needs no raised cap: a stage blocks, the runner dies in a finalizer, a resume
   within it fails in a `postRun` hook and appends `run.failed`, and the blocked
   stage, taken up once more, throws and trusts that old end.
7. **A long downtime loses the `run_once_now` firing** (`missed_latest`,
   `LatestFires`). After 25 recorded skips the scan writes one summary and ends
   its loop, before it comes to the latest missed instant, the only one that
   this policy (the default) fires. The schedule then advances past it.

Behaviours of the models that are not runs of their own:

* A lock file that is created and not yet written counts as expired, so two
  servers may process one delivery (`github-webhooks/intake.ts:885`, 925-957),
  although test/github-webhooks/intake.test.ts:1393 says that the lease prevents
  it. Setting `pair` has these behaviours; the wake still has one owner.
* Two processes that write schedules or occurrences at once undo one another: a
  firing by hand may lose its record, and a pause may be undone by `advance`.
  Two scans at once (two schedulers, or one and the command line) may both find
  that a Work item is missing and create it. A pause that a scan's advance
  overwrites, and a resume from what was read before, may set the next firing to
  an instant later than those that wait. The properties of the schedules are
  therefore stated for the interference that each one survives.
* After a scan that was stopped, the pending firing is finished without the
  dependency that the overlap policy `queue` gives it.

## 5. Proofs

The theorems are for any items, Runs, stages, keys, processes, dependencies,
instants, roles and bounds, under the named assumptions of the modules: the null
values and the heads that strangers push are not members of the sets they stand
beside, dependencies are items, bounds are naturals, a drain makes one pass at least, a stage names a branch, a
repair names an update and nothing but its pull request
(`ci-repair/runtime.ts:214`), and no two repairs name the same update
(`NestedAssumption`: the key of an update names its Run, and every repair starts
a Run of its own). Where a theorem needs more of the instance, the hypothesis
has a name and is explained with it.

`RunAdmissionProofs`

* `TypeCorrect`. `TypeOK` is not inductive: that `loc[p].run` may index the
  ledger at `verify` must be known. `TypeInv` adds what the local variables of a
  call hold at each step (`LocalOK`) and that logs, records and settlements
  only name Runs that have a row (`RunsKnown`). One lemma per action; `MoveOK`,
  `FinishOK`, `CallOK`, `ReturnOK`, `ReadOK`, `WriteOK`, `AppendOK` and `EndOK`
  are the operators that the actions share.
* `OneOwnerAlways` and `SnapshotRunsOnceAlways`. Every step either *narrows*
  the ledger (no row becomes active or live, items and snapshots stay) or
  *claims* (one new active row, where there was neither an owner nor an earlier
  admission of that snapshot): lemma `NextLedger`. Both invariants follow from
  that alone, so they hold whatever the records and logs do.

`RunSettlementProofs`

* `OneRunnerPerRunAlways`. `CallInv` says who may work for a Run: the call that
  starts one is alone with it, and its log has not ended but by a cancel; a
  call that resumes one holds its continuation claim, and the log still says
  blocked or cancelled; a row is `none`, unprojected or projected as the call
  that starts the Run is before, between or behind the two marks.
* `SettlerHoldsRowAlways`. A settler may lose its lease to another one, which
  completes the row without writing. `Final` is why the first does not write
  then: a record, *or a copy of one that any call holds*, that shows an outcome
  was written by the settlement that has the row or completed it, and no call on
  its way would write another outcome.
* `SettledRunEndedAlways` and `ExecutingRunKeepsRowAlways` (`EndInv`: a row with
  a settlement stands for an ended log) under `NoOverwrite`: no Run may be
  cancelled, or none may block. Finding 2 shows that this is needed.
* `SettledRunIsShownAlways` and `ExecutingRunOwnsItemAlways`, under `NoOverwrite`
  and `NoEdits`: an edit writes a whole record back and may lose the write that
  shows a Run, as `faults` has it. `ItemInv` and `ShownInv` say what the record
  shows of a projected and of a settled row, and what a call that is about to
  rewrite the record knows of it; a copy that shows an outcome is never older
  than a record which shows the Run as running (`CopyShown`).
* `OwnershipRefinedAlways`, under the same two: `ClaimRun` is the abstract take,
  `WriteAdmission` the start, the settler's write the showing, and a completed
  or rejected row the release. Every other step stutters, which needs
  `ShownInv`: a resume, for example, writes `running` over `running` only.

`WorkClaimsProofs`

* `ClaimsTypeCorrect`, with the invariant that a call past `idle` has a key.
* `OneClaimPerDomainAlways`. Only a proposal makes a claim active, and it does
  so in the transaction that saw no rival (`NextClaims`).
* `EffectOnceAlways`. `EffectOnce` is not inductive; `EffectInv` adds that a
  call at the effect has `unknown` claims and an effect not yet applied, that
  there is one such call per key, and that the claims of an applied effect are
  `unknown` or `completed` (so no later call passes `MarkStarted`).
* `FreshEffectAlways`. `FreshInv` carries the argument: what a call observed is
  what its Run checked out (`Observed`), a check-out does not change once its
  mutation is in use (`CheckedOut`, and `NestedOnce` for the Run that a repair
  starts), and the recorded head of a claimed domain stays that check-out
  (`ClaimedCurrent`), because the only call that could move it holds a claim on
  the same domain, which `OneClaimPerDomainAlways` excludes.
* `RecordedHeadIsLatestAlways`. `RemoteInv`: a head that a mutation pushed is the
  recorded one of its branch, or that mutation's effect is still `unknown`; and
  until a call has recorded its push, no other mutation's push is over it
  (`OwnPush`), since it would need a claim on the same branch.
* `NoBlindPushAlways` follows: the head that a push replaces is the recorded one,
  and that is what `FreshInv` says was checked out.
* `MutationsRefinedAlways`. `MappingInv` is what the mapping needs beyond these
  invariants: a call that has its effect behind it has pushed, or its repair's
  Run has recorded its push (`AppliedDone`); the Run of a repair resolves its
  head once (`ChosenOnce`); a repair pushes nothing itself; and every head that
  names a mutation was pushed by it. Then one lemma per action: `CheckOut` and
  `RunRepairFlow` choose, `Propose` claims, `MarkStarted` starts, `Push` applies,
  `Complete` records; each of the others stutters.

`FlowRunProofs`

* `FlowTypeCorrect`, `PassedStagesAreDoneAlways` and `CompletedIsCompleteAlways`,
  from one invariant `IInv`. `PassedStagesAreDone` is not inductive: a resume
  starts at the stage that is open in the log, so what is open must be known.
  `IInv` adds where a runner can stand at each step (`Placed`), what the log
  says of the stage it stands at (`Reported`), that a pending approval waits
  (`Waiting`), that one stage at most is open and every stage before it is
  completed (`OpenIsNext`), and that it is the one the runner is at
  (`OpenIsHere`). One lemma per action; `StepHere` and `StepElsewhere` are what
  steps at one stage, and steps that leave all stages alone, have in common. Only
  `FinishRun` records `run.completed`, and it does so behind the last stage.

`FlowEndsProofs`

* `PassIsApprovedAlways` and `AttemptsAreFreshAlways`. An attempt of an approval
  begins without a verdict (`Answered`), and a runner knows of every attempt of
  the stages that it counts itself instead of reading the count from the log
  (`Counted`: finalizers and policy stages).
* `ReturnedRunHasEndAlways`. A runner returns from several places, after a cancel,
  a block, a failure, a budget stop, a denial of another process or a finalizer,
  and each must have an end in the log or leave a stage open. The invariant says
  what is open when a runner goes on or is blocked (`Continued`, `Blocks`) and
  what a cancel left in the log (`Signalled`, `FreshEnds`). For Runs without
  `run.resumed` it adds what the log of a runner that threw says (`Thrown`), and
  that a Run which failed has ended, unless a stage blocked it behind its
  `run.failed` (`Again`, `FailureEnds`). Finding 6 is about the two kinds of Runs
  that are set aside.
* `StagesRefinedAlways`, for every Flow, limit on attempts and number of resumes.
  `TurnHere`: by `OpenIsHere` and `PassedStagesAreDone` it is always the turn of
  the stage a runner is at. `WalkInv` adds that only an approval that was asked
  for waits (`Waits`) and that a stage at work has an attempt (`Attempts`). One
  lemma per kind of event (an attempt begins, a stage fails, an end is recorded)
  and one per action that writes it; all other steps stutter.

`SchedulesProofs`, under `Parameters`

* `SchedulesTypeCorrect`, for any calls at once. `TypeInv` adds that a scan which
  decides has an instant and a call at work has an occurrence (`LocalOK`). That
  `First` finds the first of a set of instants for every set is `FirstOf`, from
  the well-founded order of finite sets.
* `NothingPassedOverAlways`, for one scheduler and nobody else (`Sole`). `ScanInv`
  says what a scan knows at each step (`ScanOK`): the schedule and the file it
  holds are the stored ones, every missed instant before the one it is at is
  settled (`Deciding`), at the advance all are settled or summed up (`Passing`). A settled instant stays so, because a scan writes
  `pending` only over an occurrence it found unrecorded. `AdvanceFacts`: what the
  advance passes is exactly what the scan has missed.
* `NothingLeftPendingAlways`, for one scheduler and any number of operators who
  pause and resume (`OneScanner`), who never write the occurrences. `LeftOK`: what is pending in the file is on the
  scan's list, or is the occurrence it works on; a scan that decides has emptied
  the list. `ReturnSteps`: only two steps end a scan.
* `NoWorkTwiceAlways`, under the same hypothesis: a scan that is to create a Work
  item has looked for it, and nobody else creates any (`CreatesNew`). An item
  that has run is never put back, and one that a person starts again is not new.

`ScheduleBoundsProofs`, under `Parameters`

* `CatchUpIsBoundedAlways`, for one scheduler whose scans may stop anywhere and
  any number of operators who fire by hand occurrences of their own, whose writes
  of the occurrences may undo those of the scan; nobody pauses (`Unpaused`: two
  schedulers, or a pause, may move the stored next firing back, and the count
  starts from there). `BoundInv` says of every instant that is taken up, by a
  pending record in the file or in a copy that a call will write back, by a call
  at work on it or by a Work item, that fewer than `limit` instants come before it
  from the next firing on (`Within`). Only `Fire` takes up an instant, and
  `Index(l) < Limit` is this very count; a later next firing only lowers it. The
  bound then follows from the last instant that is taken up (`LastOf`).
* `OneAtATimeAlways`, for one scheduler and nobody else (`Sole`), for admission
  without a review (the code does not see a draft as an active predecessor) and
  for the first Run of an item, as long as no scan has stopped: the next scan finishes what a stopped one left pending
  without its dependency, which may run beside its predecessor. The property is
  not inductive; `LaneInv` adds that there are no drafts and no Work item started
  before an earlier one ended (`InTurn`), that instants are fired in their order (`OrderOK`), that
  the last of them is on the record and no Work item is later (`KnownOK`), and
  that one which is ready waits for the last ready or running one before it or
  has nothing before it (`QueuedOK`; `DepOK` while the scan is between the Work
  item and its dependency, `ClearOK` for `skip`). One dependency is enough,
  although others may be ready too, because that one waits in turn.

`WebhookIntakeProofs`

* `IntakeTypeCorrect`, `LeadIsNewestAlways`, `CompletedHasTaskAlways` and
  `OnlyOwnerEndsLeaseAlways`, for any number of servers that steal locks of each
  other, die and are restarted, from one invariant `IntakeInv`. Two lemmas say
  once what the ten steps of a drain do that matters: `WakeStep` to the wakes,
  `RecordStep` to the records and tasks. `LeadIsNewest` speaks of steps, since
  the ids of a wake are capped: only `recordWake` changes a lead (`RecordedLead`).
* `WakesInv`: a wake is to run again only for a lead other than its owner, and
  leads and owners are stored (`RowOK` of a row). This rests on `FirstWake`: a
  delivery that `accept` is about to record neither leads nor owns its wake yet,
  and nobody else records it, because the hard link that creates its file
  succeeds once and the file is never removed. `TasksInv`: a drain that is to
  write `completed`, or to finish the wake, has found or made the task.
* `TakenTaskKeptAlways`, for one server (`OneServer`). `MakeInv`: the task that a
  server is about to make does not exist. Two servers may both find it missing,
  since the lock file does not keep them apart (section 4).

Only model-checked: the liveness properties, which are out of the prover's
reach as induction over data is, and `SettledItemNotStuck` and the other properties
of the violation runs, which do not hold.

## 6. Plan

Done: `RunOwnership` and `RunAdmission`, `GuardedMutations` and `WorkClaims`,
`RunStages`, `RunLog` and `FlowRun`, `Schedules`, `WorkWakes` and
`WebhookIntake`, each with proofs of its safety properties and, where there is an
abstract specification, of the refinement.

Next, in this order (a module in brackets is composed with the one before it):

1. `KnowledgeLease` and owned files [`FlowRun`: a stage holds them while it
   runs]: leases of checkouts and of files that two Runs declare.
2. `RunnerQueue`: jobs of remote runners, their leases, heartbeats and results
   that come late.
3. `NotificationDelivery`: at-least-once sending with retries and a dead letter.
4. `Preview`: environments that are created, expire and are torn down.
5. `SchedulerLease`: leases of tasks with their heartbeats. `RunAdmission`
   lets two schedulers start an item as if there were no lease, and its
   properties hold, so this module would add what the lease alone promises.

Theorems: what a further proof can do is weaken a hypothesis, where TLC first
shows which interference a property survives. For the schedules it has: with a
pause beside the scan, or a firing by hand, `NothingPassedOver` has a
counterexample, and with a firing by hand `NoWorkTwice` too, so `Sole` and
`OneScanner` are as weak as these properties allow. `NoEdits` and `Unpaused` are open. `Schedules` and
`WebhookIntake` have no abstract specification yet: a schedule that decides each
instant once, and a wake that hands its newest delivery to one task.

## 7. Not modelled, and why

* Pure decisions (eligibility, readiness, policy, change risk, selection of
  knowledge): one state, no interleaving. They are candidates for operators
  checked against a reference definition.
* Parsers, formats, rendering, catalogues, evaluation, telemetry: no shared
  state.
* GitHub, git, the agents and the execution backends: external; their effect on
  the modelled state is an environment step.
* Sign-in, sessions and routing of the web console.
* A continuation claim of a process that died: the row has no expiry, so the
  Run stays claimed until a person removes it. The model's crash frees nothing
  either; no property promises that such a Run goes on.
