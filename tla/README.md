# A TLA+ verification of LambdaCIActions

LambdaCIActions runs GitHub Actions jobs on short-lived microVMs: a GitHub App's webhooks are turned into run
rows and queue records, a worker mints a just-in-time runner and boots a microVM for each, the microVM stops
itself through a broker, and a scheduled Reaper ends whatever was lost. Around that run plane stands a control
plane: a management API and web console, per-repository configuration, custom runner images, workflow discovery and
an automatic rewrite of workflows by pull request; a credential broker of its own; and scripts that build and publish
the images. These modules model that system at the grain at which its actors interleave: one remote write or read per
step, with a crash, a fault or somebody else's change possible between any two.

Paths below are relative to the repository root.

## 1. Inventory

### Parts, state, operations, hazards, correctness

| Part | Code | State it keeps | Operations | What is hard | What makes it correct | Modules |
|---|---|---|---|---|---|---|
| Run store | `src/shared/run-store.ts` | run rows (status, VM id, token hash, `updatedAt`), JIT items, status and repository indexes | guarded status writes, stamp, JIT item, lists and counts | every status has several writers and no lock; guards are DynamoDB conditions | status only moves forward, a terminal one is final | `RunStore`, `RunLifecycle` |
| Ingest, run plane | `src/ingest/handler.ts` | none of its own | claim a queued job (row, then record), status webhooks | webhooks late, twice, out of order; row write fails and the send succeeds | one launch per job, no claimed job lost unseen | `Ingest` |
| Provision | `src/provision/handler.ts` | SQS FIFO queue, DLQ | guard, mint, stash, launch, stamp, mark | redelivery at any step, lost answers, the row moving underneath | a consumed record leaves its run settled; no second VM without a fault | `Provision` |
| microVM service | `src/shared/microvm.ts` | the VM and the guest in it | boot, fetch, run, end | the broker is asked before the stamp lands | every VM is stopped | `Compute` |
| Guest run hook | `microvm/bootstrap/run-hook.mjs` | `jobStarted`, the agent process | `POST /run`, boot fetch, self-terminate with bounded retries | two requests await their bodies at once; the broker does not answer | one job per VM, and its end is asked for | `GuestHook` |
| Hook broker | `src/hook/` | none of its own | hand out the JIT config, terminate the caller | a token of an earlier delivery, an overwritten row | stops no VM but its caller | `Compute` |
| Reaper | `src/reaper/` | none, one sweep each 5 min | lifetime cap, orphans, stale queued runs | decides from two lists read at different times; a fault ends a sweep half-way | times out no run whose VM lives; every run ends | `Reaper` |
| Platform-config broker | `src/appcfg/handler.ts`, `src/shared/config-store.ts`, `ssm.ts` | five SSM credential parameters with history, the slug, the hook secret at GitHub, a lock row, a shared status answer with a generation | `relink`, `rollback`, `status` | nothing spans two writes; the undo can fail; the secret lives at two ends; the lock outlives a crash | one writer; no mixed credential set; GitHub and Ingest agree; no stale shared answer | `AppConfig` |
| Claim decision | `src/ingest/adopt.ts`, `filter.ts`, `job-match.ts`, `compat.ts` | none (pure) | `decideClaim`, label compatibility, match of a job to its stored analysis | fail-open and fail-closed defaults must combine; reads that fail | a repository that did not adopt gives up no hosted job | `Catalog`, `ClaimRules`, `Claiming` |
| Routing | `src/provision/flavor.ts`, `labels.ts`, `src/provision/handler.ts` | none | `resolveFlavor`, image lookup, runner labels | the registry changes between resolution and launch, or cannot be read | the image launched is proven, and the one the job named | `FlavorRules`, `Routing` |
| Custom flavors | `src/shared/flavor-store.ts`, `src/flavorval/validate-core.ts` | flavor rows with a validation state | register, revalidate, repoint, delete, verdicts | read before write; verdicts late, for another image, for a deleted flavor | only an image that passed is routable | `FlavorStore`, `SmokeRules` |
| Webhook secret | `src/ingest/handler.ts` (`verifyWithRotation`), `ssm.ts` | each container's cached copy | verify, one uncached re-read per window | strangers use the re-read up | GitHub's delivery is refused only briefly after a rotation | `WebhookDoor` |
| Installations, repositories, allowlist | `src/shared/install-store.ts`, `src/ingest/install-filter.ts`, `allowlist.ts`, `src/mgmt/handler.ts` | installation and repository rows, a parameter with cached copies | grant, withdraw, suspend; patch, FlavorMap, runner labels | change between the reads of one webhook | see claim, discovery, rewrite | `RepoConfig` |
| Refusals | `src/ingest/refusal.ts`, `src/shared/refusal-store.ts` | one row per refused job | classify, upsert | redelivery with another outcome | the row explains the last refusal | `ClaimRules`, `Claiming` |
| Discovery | `src/discover/`, `src/shared/workflow-store.ts` | stored analysis per workflow file | scan from a standard queue | two scans at once, configuration changing under a scan, a file that vanishes | stored routes are those of the current text and mode | `Discovery` |
| Workflow rewrite | `src/mgmt/rewrite.ts`, `src/rewrite/handler.ts`, `src/shared/github-app.ts` | a branch and a pull request at GitHub | plan, branch, commit, pull request | authors push, edit, merge and close between any two calls; retries meet what they left | nobody's change is lost; a commit is claimable; work ends in a pull request | `RewriteRules`, `RewritePr` |
| Image publishing | `scripts/build-images.mjs`, `scripts/flavors-reconcile.mjs`, `src/shared/flavor-reconcile.ts`, `flavor-readiness.ts` | images, ARN parameters, the allowlist, the fleet | build, publish, claim the label, compare and fix | whole-list writers without a lock; a fleet that changes during builds; exit codes | no label without a usable image; exit 0 tells the truth | `PublishRules`, `ImagePublish` |
| Runs screen | `web/src/screens/Runs.tsx`, `hooks.ts`, `src/mgmt/run-rollup.ts`, `paging.ts` | the head page, older pages, seam, filter | poll, load older, change filter | pages are snapshots of different times | "exact" is said of whole runs only | `RollupRules`, `RunsScreen` |
| Reports, health | `src/mgmt/reports.ts`, `report-store.ts`, `views.ts` | none | windows, worker pool over run indexes, figures, exports | budgets shared by workers | "complete" is said of whole windows only; one figure everywhere | `ReportReads`, `ReportRules` |
| Console previews | `src/mgmt/views.ts`, `refusal-views.ts`, `handler.ts` (`labelImpact`) | none | impact of a claim-list change, adopt badge, readiness of routes | each repeats a part of Ingest's rules by hand; reads that fail; a capped scan | no job that moves is left out; what differs from Ingest differs by a known rule | `PreviewRules` |
| Management API, session, metrics, other screens, stacks | `src/mgmt/`, `web/`, `lib/` | session cookies | | | | writers are with the stores they write; the rest in section 7 |

### How they interact

Ingest, Provision, the hook broker and the Reaper share the run table and know nothing else of one another, except
that Ingest sends Provision records over a FIFO queue. Provision and the Reaper call the microVM service; guests
call the hook broker with a per-launch token whose hash is in the JIT item and, after the stamp, on the run row.
GitHub assigns jobs to registered runners by their labels, so the VM launched for one run can take another's job.

The control plane shares one table and the GitHub repository, again without a lock: the console and GitHub's events
write the repository row; Ingest reads it, the allowlist and the stored analyses to claim; Provision reads all of them
again, and the flavor registry, to route; Discovery reads the row and the files and writes the analyses; the rewrite
worker plans from the analyses and writes to GitHub. Discovery and the rewrite are behind queues with receive limits.
The platform-config broker shares the webhook secret with Ingest. The build scripts and the console write one
allowlist parameter. The Runs screen and the reports page through the run table while the run plane writes it.

`PROJECT.json` lists each hazard at the line where it bites and the properties that would catch it.

## 2. Modules and the code

```
RunStore <- PlaneState <- Ingest, Provision, Compute, Reaper <- RunPlane <- MCRunPlane, RunPlaneProofs
                                          RunLifecycle (abstract) ^
AppConfig <- MCAppConfig, AppConfigProofs

Catalog <- ClaimRules <- FlavorRules <- RewriteRules <- ControlState <- RepoConfig <- Discovery <- Claiming
                    <- SmokeRules                            <- FlavorStore          <- Routing <- RewritePr
                                                             <- WebhookDoor
RewritePr, FlavorStore, WebhookDoor <- ControlPlane <- ControlProofs <- JobProofs <- SharedProofs
                       ControlPlane, SmokeRules, PreviewRules <- MCControlPlane
RewriteRules <- PreviewRules <- ReportProofs

PublishRules <- ImagePublish <- MCImagePublish, PublishProofs
GuestHook    <- MCGuestHook, GuestProofs
RollupRules  <- RunsScreen, ReportReads <- ConsoleReads <- ReportProofs
             <- ReportRules                ConsoleReads, ReportRules <- MCConsoleReads
```

### The run plane

**RunStore**: `Status`, its rank and `CanTransition`, the condition of every guarded write, and the ages the
Reaper's thresholds tell apart. **PlaneState**: the variables several actors touch and the helpers they share.

| Variable | In the code |
|---|---|
| `row`, `jit` | the run row (status, `microvmId`, `hookTokenHash`, age of `updatedAt`), the JIT item's token hash |
| `dedup`, `msg`, `worker` | the FIFO deduplication window; records with state and receive count; the invocation of each message group, its local variables `cur`, `tok`, `vm` and where it stands |
| `vm`, `gh` | the microVM service with the guest inside each VM, GitHub's state of each job |
| `reaper` | the sweep: the VMs it listed and the dispositions still to do |
| `mishaps`, `budget` | history: which faults a run met, and how many may still happen |

**Ingest**, **Provision**, **Compute**, **Reaper**: one action per remote step, named after what the code does
there (`Guard`, `MintAndStash`, `Launch`, `Stamp`, `MarkRunning`, ...). A step that can fail has a disjunct per
outcome; a call that may be applied without being answered has that outcome too: `LaunchAnswerLost` boots a VM nobody
hears of and throws, with the row `failed`, or left open where the write of `failed` is swallowed or the loss is taken
for a throttle. **RunPlane**
composes them and states the properties. **RunLifecycle** is the promise of the run store to everybody who reads
a run: a run appears queued (or already advanced), only moves forward and never leaves its end. `RunPlane` is shown
to implement it under the mapping `status <- [r \in Runs |-> row[r].status]`.

**GuestHook** looks closer at the process inside one VM. Node runs one handler at a time, so requests interleave
only where they await a body (`RunArrives`, then `BodyRead`), and a broker call (`call`: action and attempt) blocks
everything until it is answered; `HookStep` is its answer, its retry or its giving up.

### The credential broker

**AppConfig**: `inv[i]` is the request a warm container serves, with the local variables of `relinkAction` or
`rollbackAction` (`before`, `rotated`, how many parameters are written, what is left to undo); `pc` is the remote call
it is about to make. A request runs `Request` (first invalidation), `AcquireLock`, then

- relink: `BeginRelink` (verify, snapshot) - `WriteParam` x5 - `VerifyStored` - `SyncHook` - `WriteSlug`; any
  failure up to `SyncHook` goes through `UndoWrite`, once per written parameter;
- rollback: `BeginRollback` (read all history) - `RestoreParam` x5 - `RecheckRestored` - `WriteSlug` - `SyncHook`;

and `ReleaseLock`, `InvalidateAgain`. `ssm[p]` is a parameter's version history, so a version number means what it
means in SSM: deleting the parameter starts the count again. A rollback handle (`handles`) is such a set of version numbers, kept
by the operator; `stale` marks, as history, one whose version was deleted after it was answered, so that the number may come
to mean another value. `StatusBegins`, `StatusComputes` and `StatusPublishes`
are the status read with its generation fence. `Crash` ends a request at any step, as an error of the runtime or
the 25 s timeout does: no `catch` and no `finally` of the code runs.

### The control plane

The rules are operators without state: **Catalog** (the built-in flavors, the custom namespace, label predicates),
**ClaimRules** (claim, analysis match, refusals), **FlavorRules** (resolution and runner labels), **RewriteRules** (the
planner), **SmokeRules** (the static gate, the preview and the smoke verdict of custom flavors), **PreviewRules** (what
the console says of jobs before they run: the label impact, the adopt badge, the readiness of routes). **ControlState** has
the variables:

| Variable | In the code |
|---|---|
| `repo`, `install`, `allow` | the repository's row, the installation's flags, the runner-label parameter and a container's cached copy |
| `secret` | the stored webhook secret, a container's copy, the ticks left of its time to live and of the re-read window |
| `flavor`, `console`, `checks` | custom flavor rows; management calls between their read and their write; validations under way |
| `tree`, `branch`, `pr` | at GitHub: the default branch, the rewrite branch, the pull request |
| `analysis`, `scanQ`, `scan` | stored analyses; the discovery queue by receives so far, its DLQ last; the invocations |
| `rewriteQ`, `rewriter` | the rewrite queue, likewise; the one invocation (reserved concurrency 1) |
| `job`, `refusal` | a queued job from its webhook to its launch, with what each invocation has read; its refusal row |
| `scope` | the scenario: what this behaviour may still meet |

A file that no scan has stored is `Unscanned`, a rewrite branch that does not exist is `NoBranch`; of the labels a FlavorMap
redefines, the job's first one decides (`FirstMapHit`).

`RepoConfig`, `FlavorStore`, `WebhookDoor`, `Discovery`, `Claiming`, `Routing` and `RewritePr` hold the actions, one
per remote read or write with the computation that follows it: an Ingest invocation is `Receive`, `IngestConfig`,
`IngestClaim`, `IngestGate`; routing is `ProvLookup`, `ProvResolve`, `ProvLaunch`; a scan is `ScanBegin`, then
`ScanFile` and `ScanPut` per file; a rewrite is `RewriteBegin`, `RewriteProbe`, `RewriteRead` per file,
`RewritePlanned`, `EnsureBranch`, `PutFile` per file, `PutsDone`, `FindOpenPullRequest`, `CreatePullRequest`.
**ControlPlane** composes them. What a claim does to the run table and what follows a resolved launch are `RunPlane`'s.

### Image publishing

**PublishRules** has the two judgements of a flavor (`healthOf` of the scripts, `readinessOf` of the console) and what
`--fix` may do. **ImagePublish** has the script's phases per flavor (`build[b].phase`: fleet, look, create or update,
poll, publish, probe, list, write), the reconciler with the build it runs as its child, the console's label list, and
an image service and a fleet that move on their own.

### Console reads

**RollupRules** has the rollups of a workflow run and when they may be called exact; **RunsScreen** the Runs screen
over `listRunsRoute`: `head` and `poll` (useApi), `pages` and `hop` (Load older), `filter`, and a table in which jobs are
queued and move on meanwhile. **ReportReads** has `fetchReportRuns`: a queue of repositories, workers, the row and page
budgets. **ReportRules** has windows, filters, the per-row figures, `computeReport`, the export bound and the dashboard.
**ConsoleReads** takes the two from their start.

### Abstractions

Everywhere:

- A token, a VM, a credential set, an App, a secret, an image and a workflow's text are model values or small
  records; the hash of a token stands for the token.
- Time is the order of steps, and thresholds are events (`RowAges`, `VmAges`, `JitExpires`, `LockExpires`,
  `SharedExpires`, `AllowlistExpires`) or ticks (`DoorTick`: half of the 30 s of the secret's cache and window). Nothing
  assumes how fast they come, except where the code's own numbers forbid an order: a row cannot grow as old as the
  5-minute grace while the step of an invocation (60 s) that is about to refresh it is still to come, and a lock row (90 s)
  does not lapse while its holder (at most 25 s) still runs.
- A write that faults leaves its store as it was, or, where it matters (a launch, a parameter write, a hook update,
  the lock row, a GitHub write of the rewrite), may have been applied; which of the two a caller cannot tell.

Run plane and broker: the status index is read in one step, and a page holds all rows (`listRunsByStatus` reads 100). The
VMs whose listing has no usable start time are a constant, `Undated`: the lifetime cap never applies to them. The
order of the records within a message group is left open, which allows more than FIFO does. What a status answer shows is
the App id and key it was computed from; a container's own 30 s copy of it is left out, as it only makes that container
answer without reading; a write of the shared row that fails is a write followed by `SharedExpires`. `setRunnerLabels` and
`redeliver` touch none of `AppConfig`'s variables but the lock and the cached status. The second disjunct of
`VerifyStored`'s condition, "stored credentials authenticate as a different App", cannot happen while one writer is at
work; it is written and never taken. That a handle's version is no longer readable takes four requests, more than the
instance has; a history read that faults takes its place there.

Control plane: a workflow file has one job; its text is `[name, labels, group, docker, shape]`, `name` being the workflow's
`name:`, which several files may share, and `shape` what the planner can or cannot edit. A file's path stands for its
basename too. The job's own name and the names a matrix may render of it (`JobName`, `Legs`) are constants of a file; a
webhook carries one of them, and the workflow's rendered name or none. Labels stand lower-cased and trimmed. The names of flavors are the catalog's and those of the custom
base names of the instance. Of the compatibility codes, the one that blocks is modelled, the warnings are not. The
validation worker is not in the repository: it is a caller that keeps to the store's transitions and finds an image good
or bad once and for all. Other repositories of the installation do not appear.

Image publishing: each call of the script, the reconciler and the console is a step; what the image service and the fleet
do between them is free. The polling loop's timeout is a failure that may come at any poll.

Guest hook: a request's body is what the parser makes of it (bare or wrapped config, no JSON, no config, too large).

Console: rows are numbered by their creation, which is also their order in the indexes; a row runs and then fails (two of
the six statuses, one change). `collectVisible` is one step, as the pages it walks lie behind one cursor; a page is
computed when it lands. The six status queries of the merged view are separate steps. One screen is mounted at a time. In a
report, the queue of repositories is a set, an index is three counts (rows after the window, in it, before it), since what
is queued meanwhile falls outside the window and before every cursor. Money is whole, ratios are pairs.

## 3. Runs

| Run | Instance | What it shows |
|---|---|---|
| `plane_faults` | 1 run, 2 VMs, 2 tokens, 1 record received up to twice, every kind of fault, two per behaviour | the safety of one job's life and the refinement of `RunLifecycle` |
| `plane_duplicates` | 1 run, 2 records each received up to twice, at most one guard or mark fault, crash, or lost launch answer (recorded or not) | duplicate records alone never launch twice |
| `plane_two_runs` | 2 runs of one repository in one batch, either runner may be given either job, no faults | rows, VMs and webhooks that interleave crosswise |
| `plane_live` | 1 run, at most one lost stamp, crash or aborted sweep, one of the 2 VMs of unknown start time, `FairSpec` | runs end, VMs of known age end, records leave the queue |
| `config_changes` | 2 containers, 3 credential sets over 2 Apps and 2 secrets, 2 changes, status reads without bound, a fault of any kind and a second one in the undo of it | the broker's safety properties |
| `control_changes` | 25 scenarios of one repository with two workflow files whose jobs share a rendered name (a matrix leg), in two of them also a workflow name, three custom base names, a good and a bad image, 2 console calls and 2 scans at once, quota 1, 2 receives; 2 to 6 requests or mishaps each, `FairSpec` | 15 properties of the control plane |
| `image_publish` | 2 flavors; 2 requests and 1 mishap from every combination of images, ARNs and lists, 3 requests from one | labels, ARNs, the fleet, the exit code |
| `guest_hook` | 2 requests, 5 bodies, 3 failing broker calls, `FairSpec` | one job per VM; its end is settled |
| `console_reads` | screen: pages of 2 rows, 2 index pages per request, 8 rows of 2 repositories, 2 jobs queued, 3 filter changes, 1 status change. Report: 2 workers, 2 repositories over 2 installations, pages of 2, 3 pages per repository, 5 rows in all, exports of 2 | exact windows and complete reports are whole |
| `plane_lost_row`, `config_timeout`, `config_unrotated` | the smallest that shows it | each refutes one sentence of the repository (section 6) |

**Evaluated with the runs.** Pure rules are compared over small tables, as assumptions of the MC modules. In
`MCControlPlane`: a row that passes the static gate stays in the composed catalog (`PassedIsRoutable`), what the console
accepts fails the gate only for its image or smoke repository (`AcceptedCanPass`; so the preview of an accepted body
never shows a failure), our own fault is never a final verdict (`FaultIsNoVerdict`), no job of a smoke run is
claimed (`SmokeIsNotClaimed`); an impact that is not called truncated names every job that moves, if its reads succeeded
(`UntruncatedIsWhole`, `UnreadIsSilent`), and errs only by the four rules it does not repeat (`ImpactErrsByRuleOnly`);
a flavor chosen by its own label is called ready as Ingest claims it (`ReadyIsClaimable`), one chosen otherwise may not be
(`AdoptedIsCalledUnrunnable`), and a failed read is nobody's fault (`UnknownIsNoFault`). In `MCGuestHook`: the boot fetch at its slowest, and one attempt more, end before the
hook's deadline. In `MCConsoleReads`: Run detail, dashboard, report and export agree on the same rows (`FiguresAgree`);
coverage and percentiles; windows, their defaults and links lie within retention (`DefaultIsServable`,
`WindowWithinRetention`, `PinnedLinks`); an export carries the longest prefix that fits (`ExportIsTight`); a label of a
partial run is a bound, or true of the whole run (`LabelsAreTrue`); the dashboard counts no other installation's money
(`DashboardScope`).

**Why these bounds.** What can go wrong with a run takes at most two launches of it (a second VM, an overwritten
token, a stamp over a stamp): two VMs and two tokens. `MaxReceive = 2` instead of 3 has the redelivery and the
dead letter. The hazards between runs are between two: a swapped job. Two faults make one that hits the recovery from
another. For the broker: two containers are one writer and one competitor, or a writer and a status reader; two
changes are a relink and what follows it; the three sets are a new secret for the same App (`c2`), the old secret for a
new App (`c3`), and a new App with a new secret between `c2` and `c3`. The environment starts linked to any of them or
fresh. Containers, VMs and tokens are interchangeable (symmetry), which is used for safety runs only.

The control plane's hazards each involve few parties, and adding parties that do not touch what a property is about only
multiplies states; so each scenario allows the requests and mishaps its question needs and bounds their number, and
everything else (scans, receives, retries, reads, ticks) is unbounded. A rotation needs three ticks, two deliveries and a
stranger; a flavor's life needs a registration, a verdict and two changes; a rewrite needs a request, a second one, and up
to three things that happen to it. A quota of 1 and two calls overrun it. Image publishing: two flavors, as the script
goes on to the next one; two writers and one failure, or three writers. The screen needs one page boundary that moves (2
queued jobs), a second hop, and a filter left and entered again (3 changes).

`CHECK_DEADLOCK FALSE` everywhere: the instances bound messages and requests, so the system may run out of things to do.

### Properties

**Run plane.** `ImplementsLifecycle` (no late webhook re-opens or re-ends a run);
`StampMatchesVm`, `OnlySelfTerminated` (the VM id and the token hash on a row are one launch's, so the broker kills
only its caller); `LiveVmIsNamed` (a VM whose row names another, or none, took a fault); `SecondLaunchNeedsFault` (a crash, a
guard waved through blind, a lost `running` mark, or a lost launch answer that left the row open);
`ConsumedIsSettled` (a deleted record has ended its run, launched it, or met a named fault); `OrphanHasNoVm` (a run
is timed out as orphaned only when the VM its row names is gone, although the sweep's two lists are of different
moments); `RunsEnd`, `VmsEnd`, `RecordsLeaveQueue`. `VmsEnd` is about the VMs whose start time
the listing gives: the Reaper has no cap for any other. `RunsEnd` excuses a run that such a VM holds up, since its row is
no orphan while the VM lives.

**Broker.** `OneWriter`; `CredentialsWhole` (with nobody at work, all five parameters are of
one set, or all absent); `RolledBackIsBack` (a relink that answers `rolledBack: true` left every parameter at the
value it had); `SecretsAgree` (GitHub signs with the secret that is stored); `SlugNamesStored`;
`SharedIsCurrent` (between changes the shared status is of what is stored). Each names, in its premise, the faults
under which the code does not keep it: a crash, an undo or a rollback cut short (`Torn`), a parameter write or hook update
applied without an answer, a swallowed slug write, a failed re-check, an unreadable generation, a failed
invalidation, a desynchronisation the operator accepted. The excuses are part of the result. Two of them
deserve attention: after a *put that was applied without its answer*, a relink answers `rolledBack: true` although
that parameter keeps its new value, since it is not in `written`; and after a *hook update that was applied without
its answer*, the undo restores the parameters but GitHub stays on the new secret.

**Control plane.** Registry: `ValidIsProven`, `RegistryBounded`. Claiming: `AdoptNeedsOptIn`, `RefusalsAreTrue`,
`RefusedOnlyInRotation`. Routing: `LaunchedIsProven`, `NoSilentBuiltin`, `FailsOnlyOnVerdict`. Discovery: `RoutesCurrent`.
Rewrite: `NoClobber`, `CommitIsClaimable` (what is committed is claimed by its label in every mode, minted, and left alone
by the next rewrite), `KeepsMappedLabel` (no commit takes the label that a FlavorMap entry to a custom flavor is keyed on,
whatever becomes of the flavor), `NoStrandedRewrite`, `DlqNeedsCauses` (no request defeats itself again and
again). All of it: `WorkEnds`. Premises name what the code does not withstand: two validations of one flavor or two
scans at once (`Overlap`), a lost scan request, a stored route that is not of the current map and text (`Remapping`), a job with
as many labels as a runner may carry, two files that answer to one webhook's names while the first scan is under way
(`Distinct`), a repository row that cannot be read when the job is routed (`LookedUpBlind`). For the last one the model
keeps, as history, what the tables held when they were read (`told`).

**Images.** `ClaimFollowsImage`, `ClaimsSurvive` (no entry of the list is lost, unless two writers of it overlapped),
`OldVmsAreGone` (under an unforced build every VM is younger than its fleet check - not that there is none: VMs launched
meanwhile boot the image being replaced), `ExitIsTrue`. **Guest.** `JobIsWhole`, `GuestEnds`. **Console.** `ExactIsWhole`,
`OlderBelongs`, `ReportIsWhole`. `ExactIsWhole` leaves out three cases in which the code does call a window exact that is
not (section 6).

## 4. Fairness

- `plane_live` (`Fairness` in `RunPlane`): weak fairness of `Receive` and of every step of an invocation: SQS delivers a
  visible record, and a Lambda invocation runs to its end or dies (`Crash` is not forced); of the sweep's three steps: the
  EventBridge schedule fires each 5 minutes; of `VmAges`, and strong fairness of `RowAges`: time passes. `RowAges` is
  disabled while a sweep or an invocation is under way, over and over, and each sweep is finite, so weak fairness would
  let time stand still. Nothing is assumed of webhooks, of GitHub, of guests, of the broker's answers or of faults: a run
  ends although all of its webhooks are lost.
- `control_changes` (`FairSpec`): weak fairness of `Working`, the steps of the queues' consumers and of Ingest and
  Provision: while a message waits or an invocation is under way, some step is taken. That is the event source mapping and
  the Lambda runtime. Nothing is assumed of operators, authors, GitHub, mishaps or the validation worker.
- `guest_hook` (`FairSpec`): weak fairness of `HookStep` (the process goes on; a call to the broker has a timeout) and of
  the runner agent's start and end. That a request is posted, that its body arrives or that the stamp lands is not assumed.

The other runs check safety and assume none.

## 5. Proofs

TLAPS proves these for every value of the constants: any number of runs, VMs, containers, credential sets, flavors,
workflow files, scripts and workers, any bounds, any set of faults. They rest on the named assumptions of the modules, which
TLC evaluates on the instances:

- types of the constants, and that `None` (or another absent value) is no element of the set it is added to;
- run plane: at least one receive is allowed;
- console: a workflow run is of one repository, and the table starts with no more rows than it may hold;
- control plane: where a scenario may start (rows and registry of the right shape, the quota kept, a `valid` flavor proven);
  that a text has a sequence of labels, a shape, and a runner group, "" where it names none (`TextAssumption`); that no result of a registry read is `Fault`
  (`FaultAssumption`); that workflow files are finitely many; that of several flavors one has the most specific label and
  custom labels are longer than built-in ones (`SpecificityAssumption`).

| Theorem | States |
|---|---|
| `RunPlaneProofs!Invariant`, `TypeCorrect` | `Spec => []IInv`, `Spec => []TypeOK` |
| `RunPlaneProofs!StampCorrect` | `Spec => []StampMatchesVm` |
| `RunPlaneProofs!BrokerKillsOnlyCaller` | `Spec => OnlySelfTerminated` |
| `RunPlaneProofs!LifecycleRefined` | `Spec => ImplementsLifecycle` |
| `RunPlaneProofs!PlaneInvariant` | `Spec => []PlaneInv` |
| `RunPlaneProofs!ConsumedSettled`, `OneLaunchWithoutFault`, `LiveVmNamed`, `OrphansHaveNoVm` | `ConsumedIsSettled`, `SecondLaunchNeedsFault`, `LiveVmIsNamed`, `OrphanHasNoVm` |
| `AppConfigProofs!ConfigInvariant`, `ConfigTypeCorrect` | `Spec => []IInv`, `Spec => []TypeOK` |
| `AppConfigProofs!RelinksExclude` | `Spec => []OneWriter` |
| `AppConfigProofs!ChangeInvariant` | `Spec => []ChangeInv` |
| `AppConfigProofs!CredentialsStayWhole`, `RolledBackTrue`, `SecretsStayAgreed`, `SlugStaysRight`, `SharedStaysCurrent` | `CredentialsWhole`, `RolledBackIsBack`, `SecretsAgree`, `SlugNamesStored`, `SharedIsCurrent` |
| `JobProofs!ControlInvariant`, `ControlTypeCorrect` | `Spec => []IInv`, `Spec => []TypeOK` |
| `JobProofs!ValidCorrect`, `RegistryQuota` | `ValidIsProven`, `RegistryBounded` |
| `JobProofs!DoorCorrect`, `AdoptCorrect` | `RefusedOnlyInRotation`, `AdoptNeedsOptIn` |
| `JobProofs!LaunchedCorrect`, `SilentCorrect`, `VerdictCorrect` | `LaunchedIsProven`, `NoSilentBuiltin`, `FailsOnlyOnVerdict` |
| `JobProofs!NoClobberCorrect` | `Spec => NoClobber` |
| `SharedProofs!CommitsClaimable`, `MappedKept` | `CommitIsClaimable`, `KeepsMappedLabel` |
| `SharedProofs!DeadLettersHaveCauses`, `NothingStranded` | `DlqNeedsCauses`, `NoStrandedRewrite` |
| `SharedProofs!RefusalsCorrect`, `RoutesCorrect` | `RefusalsAreTrue`, `RoutesCurrent` |
| `PublishProofs!PublishTypes`, `ClaimsFollow`, `LabelsSurvive`, `OldVmsGone`, `ExitTrue` | `TypeOK`, `ClaimFollowsImage`, `ClaimsSurvive`, `OldVmsAreGone`, `ExitIsTrue` |
| `PublishProofs!FixIsSafe`, `ConsoleAgrees` | what `--fix` may do on its own; both judges of a flavor agree on what both read |
| `GuestProofs!OneJob`, `TriesBeforeLeaving` | `JobIsWhole`; a VM is left to the Reaper only if every attempt was used for one request (`asked`, history), or the broker refused |
| `ReportProofs!ReportWhole`, `ExactWhole`, `OlderMatch` | `ReportIsWhole`, `ExactIsWhole`, `OlderBelongs` |
| `ReportProofs!NoMoveMissed`, `ListedMoves`, `BadgeIsTheSwitch` | no move of a job is missing from the impact; when a listed one is real; the adopt badge is what a switch hands over |

TLC checked each of the inductive invariants named below on the instances of section 3 before it was proved.

**The run plane.** `StampMatchesVm` is not inductive: a stamp writes what the invocation carried from its
launch, so the invariant says what it carries (`InvocationCarries`): after `Launch`, a VM of the current run with the
invocation's token. That a VM keeps its run and token is `LaunchedVms`; that no two have one token, and that no launched
VM has the token of an invocation about to launch, is `TokensUsedOnce`, from the freshness of minted tokens. With it
a token names one VM, and `StampOfLaunch` gives the row's VM that token: the VM the broker stops is the caller. The
receive count stays within its type because only a record with receives left is visible (`ReceivesCounted`). The refinement
goes action by action: each write of `status` is guarded by `CanTransition`, and creates a row only where none is.

The other four properties relate an invocation or a sweep to what it did some steps ago, and `PlaneInv` is what each leans on
in between. *One launch*: until a crash, a blind guard, a lost mark or a lost launch answer that left the row open lets a second one in, a run has no VM while an
invocation is still about to launch, and once it has one, that invocation has yet to mark the row, or the row turns every
later guard away (`OneLaunch`); the row stays present and fresh under an invocation (`GuardedRow`), so no sweep ends it
there. *Live VMs*: a launched VM is on the row or about to be stamped (`NamedVms`). *Consumed records*: what settles a run settles
it for good (`SettledRuns`), and a row is absent only if its write failed (`SentHasRow`). *Orphans*: the sweep lists the VMs
first, so a row too old to have been launched since names no VM the list missed, and a run read as an orphan has nobody launching
for it and stays one until it ends (`SweepSound`).

**The broker.** `OneWriter` needs that whoever is between taking and giving up the lock is its holder, and that a lock row
whose holder died (or never learnt that it holds it) names nobody alive. Types need more: a value put back is a
stored one only if the version is still in the history. So `Sound` adds `Restorable`: every version noted before the
first write still exists, because a put lengthens the history, only the lock's holder writes, and a parameter is deleted only if
it had no version to go back to. Each step of a holder keeps the others sound since they hold no lock
(`HolderSparesOthers`); each step of anybody else does since it writes no parameter and takes no lock from its holder
(`ReaderSparesOthers`).

The five properties of what is stored follow from `ChangeInv`. Its centre is `HeldWhole`: a relink holds the new set where it has
written and not undone, and the set its snapshot denotes everywhere else; a rollback likewise with what is left to restore. So
when nothing is left the whole set is one, whatever the step at which it failed. `HeldAgrees` and `HeldSlug` say the same of the
hook secret and the slug, each until the step that changes it. Each is under the faults its property names, so a step first shows that
a fault it meets excuses it, or that nothing was written. That a snapshot still denotes one set is `Restorable` again for a
request at work; for a handle that waits with the operator nothing protects it, and the first attempt at the proof stopped there: a
handle outlives the history it names (`stale`, section 6). `Fenced` is the generation: an answer computed before a change notes a generation
that the end of the change outdates, so what is published between changes is of what is stored.

**The control plane.** `IInv` is a conjunction by owner. `RegistryInv`: the quota holds with every registration in flight
counted as if it had been put (`QuotaHeld`), a running validation is of the image its row names (`ChecksOfRow`), which
holds because one change of a flavor is over before the next (`OneChange`). `SecretInv`: a stale copy has no more time to
live than the rotation has left to be excused. `JobInv`: what Ingest and Provision remember is what they were told - an
`adopt` claim was the row's (`AdoptHeld`), the registry was read if and only if the job or the row names a custom flavor
(`NeedsHeld`), a built-in image for a job that named a custom one was resolved with an excuse (`ResolvedHeld`, from lemmas
about `ResolveFlavor`, `UnresolvedNamedCustom` and the specificity of labels), a launched image was valid when read.
What Provision looked up is what the tables told, unless a read failed (`BlindInv`): so a verdict is on what they told.
`RewriteInv`: each plan is a rewrite of the text it was made from; `NoClobber` follows since a commit goes through only if
the file is still that text. `RepoInv`, `ScanInv`, `ScopeInv` carry types. The first module holds the actions of
the registry, configuration, discovery, rewrite and door; the second those of the jobs, and the theorems.

The third, `SharedProofs`, has what one worker relies on while others share it, each with an invariant of its own on top of
`IInv`:

- `CauseInv` (`DlqNeedsCauses`): a request received n times has met n causes. Unless one more was spent since it was received, its
  plans are of the text still there, there is one for each file, and the branch is as it was found (`Undisturbed`): then no step
  throws without a mishap of its own.
- `StrandInv` (`NoStrandedRewrite`): while nobody patches the row or edits the branch, all work has the opt-in, an absent branch
  stays absent until `EnsureBranch`, and a commit without its pull request has a request at work or waiting.
- `WorldTexts` (`CommitIsClaimable`): every text there is, on either branch or planned, is a sequence of labels with a shape and a
  group. What is committed is a plan, and a plan is a rewrite the planner did not object to (`RewriteInv`); a rewrite has the
  labels kept, `self-hosted` and the flavor's, no hosted one and none incompatible (`RewrittenSet`), so at most one more than before.
- `KeepInv` (`KeepsMappedLabel`): every stored route of a job that the map sends to a custom flavor tells of a custom flavor, found or
  not (`MappedRoute`, for any catalog), so it stops the planner; and a file of the rewrite branch is that of the default branch
  or was rewritten, which stops it too.
- `TextInv`, `MirrorInv`, `RefusalInv` (`RefusalsAreTrue`): a text keeps its runner group through plans, commits, scans and stored
  analyses; while the default branch stays as it is, every analysis is of the text that is there, and either no file has one or all
  have. So two files that answer to a webhook's names are both stored, or neither, and a unique match is the job's own. In a
  first scan that fails, which the proof found (section 6); there the property needs names that one file answers to.
- `SettledInv` (`RoutesCurrent`): if no scan waits, each file's analysis is current or still to be made by the one scan under way,
  from the row as it is. A scan reads the registry only if its text or row names a custom flavor; that the route is nevertheless the one with
  the whole registry is a lemma about `ResolveFlavor` (`ResolveUnneeded`: a flavor nothing names makes no difference), from the
  specificity of labels.

**Images.** `PublishInv` says that a script past its probe has seen the image usable (`PlaneCovered`, `BuildCovered`), and
that a VM launched after a script's check is marked as such (`FleetIsNew`). `ExitIsTrue` is about a reconciler with nobody else at
work (`Alone`): its own child is the only one that changes the plane, and only while the reconciler waits for it (`OneAtWork`); so
what it has read since is still so when it decides (`SeenIsTrue`). **Guest.** `CallInv` ties a call to its
request, `RunnerInv` the agent to the guard, `GuardInv` the guard to the requests that passed it. **Reports.** `PlaceInv`
gives each repository one place (waiting, with one worker, read), `RowsInv` and `CountInv` say which rows the walk behind a
cursor has collected and that each was counted once, `CoverInv` that a repository nobody will read any more is either covered
to the window's start or has cleared `complete`; `AnswerInv` freezes it. **Runs screen.** `ScreenInv` says what lies between two
pages of different moments. A head page that is whole holds every row of its filter down to its cursor (`HeadInv`, and `PollInv` for
the six reads it is merged from); the older pages passed over no row below the row the first hop set out from, down to their own cursor
(`PagesInv`); a hop under way goes on from where the pages end, or from a head page with nothing between its last row and its cursor (`HopInv`). A
window is called exact when the newest head page still reaches that row, and then no row of it is in neither.

**Previews.** The impact repeats only `shouldClaim` and the compatibility gate. Ingest adds the same custom labels to either
list and applies the same gates and the same mode before and after, so an answer that changes can only change by the
list: the impact errs on the side of too many jobs (`NoMoveMissed`), and `ListedMoves` says when it does not. Both are of
the jobs whose stored analysis Ingest finds by the delivery's names.

**Model-checked only**: the liveness properties (`RunsEnd`, `VmsEnd`, `RecordsLeaveQueue`, `WorkEnds`, `GuestEnds`), which
are out of the prover's reach like everything about fairness and `ENABLED`. What the folds of `ReportRules` compute for tables
of any size would need induction over data, which the installed provers cannot do: they are evaluated over small tables only.

## 6. What the code does and its words deny

Each row quotes the repository. A run that refutes the sentence is named; the others were found with a run of
section 3 by dropping a premise of the property or adding a request to a scenario, and the property as it stands says what
does hold. An assumption is evaluated with `control_changes` and states the disagreement itself.

| Property (run) | The words | What happens |
|---|---|---|
| `FaultNeverDropsLaunch` (`plane_lost_row`) | "A DB fault shouldn't silently drop the launch" (`src/provision/handler.ts:90`) | a record enqueued without its row is skipped as "already advanced" |
| `TimeoutLeavesWholeSet` (`config_timeout`) | "leaving its own verify→rollback path to clean up" (`lib/control-stack.ts:706`) | a timeout runs no `catch`: a torn credential set stays |
| `UnrotatedSecretAgrees` (`config_unrotated`) | "a secret that did not change leaves GitHub and Ingest in agreement regardless of the sync" (`src/appcfg/handler.ts:426`) | not when the App changed: its hook has a secret of its own |
| `SecondLaunchNeedsFault` | "so we never double-provision a microVM for the same job" (`src/provision/handler.ts:83`) | a crash between launch and mark, and the redelivered record launches again; so does a launch whose answer and `failed` write are lost, as `launchMicroVM` sends no client token |
| `ConsumedIsSettled` | a failed launch is rethrown "so SQS retries -> DLQ" (`src/provision/handler.ts:277`) | the run was just closed as `failed`: the redelivery is skipped and deleted |
| `VmsEnd` | "Reaper reconciles microVMs with no matching active run" (`docs/ARCHITECTURE.md:165`) | no sweep relates a live VM to an ended run; only the lifetime cap stops it |
| `VmsEnd` | "the Reaper handles lifetime caps automatically" (`docs/RUNBOOK.md:436`) | not of a VM whose start time is missing or unreadable (`src/reaper/reap.ts:36`): it is passed over for good |
| `CredentialsWhole` | "Rollback re-reads those exact versions", so history is enough and no rollback leaves "a mixed credential set" (`src/appcfg/broker-core.ts:75`, `handler.ts:720`) | deleting a parameter restarts its versions: an old handle names other values, and a rollback to it mixes two sets |
| `RefusalsAreTrue` | an ambiguous name must "fail open rather than guess wrong" (`src/ingest/job-match.ts:69`) | during a first scan only one of two namesakes may be stored: a job is refused for the other's group, also under a workflow name if both files share it |
| `FailsOnlyOnVerdict` | a "DB fault degrades to label-only routing, never a failed launch" (`src/provision/handler.ts:102`) | a repository row that cannot be read is an absent one: a job whose FlavorMap sends its custom label to a built-in flavor is failed for good |
| `ValidIsProven` | an atomic transition keeps "the loser's stale verdict" from overwriting the winner's (`src/shared/flavor-store.ts:473`) | the condition is on the state alone: with two validations at once, the first one's verdict lands on the second one's image |
| `RoutesCurrent` | "scans are idempotent upserts, so duplicate delivery is harmless" (`lib/control-stack.ts:106`) | two scans run at once and the older one's rows may land last |
| `KeepsMappedLabel` | a job mapped to a custom flavor must not be rewritten, or it "is pinned to base forever" (`src/mgmt/rewrite.ts:802`) | `putFlavorMap` asks for no scan: the rewrite plans with the route of the old map; likewise after a push and before its scan, with the route of the old labels |
| `KeepsMappedLabel` | the same | a docker step's upgrade replaces the custom flavor in the stored route, and `customRouteSkip` does not look at what was replaced: the label goes |
| `CommitIsClaimable` | a job we cannot claim is no candidate, "so rewriting it would strand it" (`src/mgmt/rewrite.ts:787`) | the planner adds a label to a job that has 20 already: claimed in adopt mode before, refused by Provision after (`MAX_JIT_LABELS`) |
| `JobIsWhole` | "single-use guard - never accept a second job on the same VM" (`microvm/bootstrap/run-hook.mjs:545`) | it is read before the body is awaited: two requests pass it, and the second agent's exit ends the VM under the first one's job |
| `ExactIsWhole` | after a filter change "the window it belongs to no longer exists" (`web/src/screens/Runs.tsx:161`) | an operator who returns to the filter gets the page of the earlier visit appended |
| `ExactIsWhole` | "the new filter refetched its own head page" (`Runs.tsx:163`) | until that poll lands, the cursor is the previous filter's |
| `ExactIsWhole` | `complete` tells "whether any job row was dropped on the way out" (`src/mgmt/handler.ts:916`) | a row that changes status between two of the six queries is in neither answer |
| `ImpactErrsByRuleOnly` (assumption) | "if these two ever disagree, the preview lies"; jobs "the control plane would refuse regardless of labels are excluded" (`src/mgmt/views.ts:933`) | x86 labels, runner groups, adopt mode and custom labels are not repeated: jobs are shown as lost or gained whose answer stays |
| `UnreadIsSilent` (assumption) | a missing installation "must not silently shrink the impact set" (`src/mgmt/handler.ts:2015`) | four reads of the scan fail into emptiness, and none of them sets `truncated` |
| `AdoptedIsCalledUnrunnable` (assumption) | jobs that "route somewhere the live control plane cannot run" (`src/mgmt/refusal-views.ts:184`) | a job claimed by adopt mode or by its own label needs no label of the routed flavor |

## 7. Not modelled, and why

- **Status-only filters** of the Runs screen claim no run exact by design; nothing could be said of them.
- **The validation worker** and the smoke repository's workflow are not in the repository (its rules are, see
  `SmokeRules`); `smoke-store.ts` is called by nothing else.
- **Log lookups** (`src/mgmt/logs.ts` and its views) and the **question-to-report model call** (`askReport`): read-only, over
  CloudWatch or Bedrock, with no state of their own.
- **Login and session**: a signed cookie over GitHub's OAuth; cryptography and expiry, without interleaving.
- **Metrics and redaction**: formatting. The one decision in it, the classification of a quota error, is a choice in `Provision`.
- **YAML**: the parser and the byte-exact edit of a `runs-on` line are text processing; the planner's cases are the
  `shape` of a text.
- **Renaming a job** while its webhooks are under way: a file's job keeps its name; pushes change the rest of its text.
- **Retention**: TTLs of rows and refusals; phase watermarks of a run row appear in `ReportRules` as given times.
- **`create-github-app.mjs`**, pruning of image versions, staging of the build context: operator tooling, one process, no
  shared state that another part reads while they run.
- **Stacks** (`lib/`, `bin/`): synthesis. The settings that decide behaviour (visibility, `maxReceiveCount`, batch size,
  concurrency, timeouts, schedules) are in the guards and the fairness.
- **Reconciliation of installation rows** missing from the index (`listInstallations`): it changes what lists show.
- **The other screens** of the console: forms and tables over routes that are modelled where they write.

`PROJECT.json` lists two hazards without a property: more stuck rows than one page of the Reaper's status read, which needs
more runs than an instance can hold, and a swallowed stamp whose healthy VM is timed out after the grace, which the code
accepts and no document denies.
