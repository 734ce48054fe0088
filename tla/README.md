# DreadGOAD in TLA+

A verification project for DreadGOAD: models of the parts whose correctness
depends on the order in which things happen, checked with TLC on small
instances and, for the core, proved with TLAPS for every instance.
`PROJECT.json` holds the machine-readable index: the map from definitions to
source lines, the runs, the mutants each property must reject, the hazards and the theorems.

## 1. The system

DreadGOAD builds, provisions and operates Active Directory ranges.

| Component | State it keeps | Operations | Talks to |
|---|---|---|---|
| **Console backend** (`src/console/backend`, Python/asyncio) | `runtimes` (per session: socket, turn, lock, agent, pending approval, `closing`), SQLite rows, session directories, message threads | WebSocket messages, approvals, cancel; REST create, delete, model switch, layout | browser (WebSocket, REST), the CLI (subprocess), the model |
| **Console frontend** (`src/console/frontend`) | view state, the layout save queue | React views | the backend |
| **Go CLI: lifecycle** (`src/cli/cmd`) | none between commands but files: environment, materialized lab config and its owner, inventory, state | `env create`, `up`, `infra`, `provision`, `health-check`, `lab ...`, `score reset` | Ansible, Terragrunt (subprocess), cloud APIs |
| **Go CLI: judgement** (`internal/validate`, `internal/scoreboard`, `internal/doctor`) | a report, an answer key, a dashboard's view | `validate`, `score`, `scoreboard run`, `doctor` | remote PowerShell, the attack box, a terminal |
| **Variant generator** (`internal/variant`) | name mappings, a target directory, a completion marker | `variant`, `env create --variant`, provisioning of a variant | the lab data |
| **Lab data** (`ad`, `ansible`, `modules`, `packer`, `extensions`) | declarative | run by external tools | - |
| **Legacy tool** (`goad.py`, `goad/`) | an interactive prompt | the predecessor of the CLI | - |

What is hard here:

* *The backend* runs everything on one event loop, so the races are between
  the code on either side of an `await`.  A session's lock and turn field live
  in a runtime object that is discarded when idle and recreated on demand; a
  cancel may land at any await; DELETE, model switch and shutdown work on a
  session that sockets and turns still use; database jobs run in order on one
  thread.
* *A turn* runs CLI commands, asks a human before two of them, and must leave
  the session's status and its cached agent correct whatever is cancelled.
* *The CLI's* provisioning loop supervises Ansible: a watchdog with a kill
  sequence, process groups, retries with repairs, a tunnel that is replaced in
  the middle, a context that may be cancelled at any time.
* *The lifecycle commands* each see only files and the cloud: what one leaves
  half done, the next one finds, with machines replaced and a lab config edited
  in between.  `up` prints the command that resumes it.
* *`env create` and the variant generator* claim paths, write trees and files
  step by step, may fail or die anywhere, and may run twice for one name.
* *`validate`* runs checks concurrently over hosts that answer late, emptily or
  not at all, behind a dashboard fed by two unordered channels; *scoring* polls
  a file that another program appends to.

Correctness, per component:

| Component | What must hold |
|---|---|
| session runtime | turns of a session never overlap; a deletion excludes turns and leaves nothing behind; shutdown leaves no turn; a cancel always ends the turn |
| agent turn | no protected command without this request's approval; no process a cancel misses; status and agent settled when the turn is over |
| playbook process | returns only when nothing of it runs; kills only what is silent; a stall or an interrupt always ends it |
| CLI process | reading its output always ends; a cancelled one leaves nothing; its exit code is the real one; no signal is armed against a group that is gone |
| provisioning loop | every run uses the open tunnel; no tunnel outlives the command; a playbook passed over is done on every host; an interrupt begins no further attempt or playbook; it ends |
| range document | no writer brings back an older layout; a save never overwrites a layout its tab has not seen; a drag is stored or visibly taken back |
| environment creation | a failed creation removes what it made and nothing else; of two for one name one wins; the winner's tree and inventory belong to its lab |
| inventory repair, preflight | Ansible is given the addresses and passwords of the machines that run, whatever was replaced or edited since |
| variant generator | the variant is the source under other names, in every file; no source name is left; an incomplete one is never handed on |
| up, infra | `up` that succeeds means what it says, also over its resume hints; it does only what was asked; what `destroy` reports gone is gone |
| resets | the lab is back at its baseline, nothing of the lab is purged, and what stays on a box is reported |
| validate | a verdict rests on an answer; no check falls silent; a report is settled before it is saved |
| scoring | score and scoreboard agree; trying credentials never costs a credit; the board catches up with the report |
| purge, creation of sessions | all or nothing: a failure leaves the files and the configuration as they were |

## 2. Modules

| Module | Models | Composes / extends |
|---|---|---|
| `SessionContract` | what a session promises: open, one turn, deleting, gone, stopped | - |
| `SessionRuntime` | `chat_runtime.py`, `chat_socket.py`, the turn task of `chat.py`, DELETE and PUT of `session_routes.py`, `db.py`'s job queue, shutdown | implements `SessionContract` |
| `MCSessionRuntime` | symmetry for TLC | `SessionRuntime` |
| `SessionRuntimeProofs` | the theorems about it | `SessionRuntime`, TLAPS |
| `CommandTurn` | `command_runner.py`, `approvals.py`, status and agent context inside a turn | the turns `SessionRuntime` serializes |
| `MCCommandTurn` | the instance for TLC | `CommandTurn` |
| `CommandTurnProofs` | the theorems about it | `CommandTurn`, TLAPS |
| `PlaybookRun` | `ansible/runner.go`: one `ansible-playbook` process group and its watchdog | - |
| `ProvisionContract` | what provisioning promises: runs per playbook, their order, what an interrupt still allows | - |
| `Provision` | `provisionPlaybooks` and `ansible/retry.go` | implements `ProvisionContract`; takes each run's end from `PlaybookRun` |
| `ProvisionProofs` | the theorems about it | `Provision`, TLAPS |
| `RangeDocument` | the range row and everyone who rewrites it: `db.py`, `topology_sync.py`, `inventory_sync.py`, `range_routes.py`, and in the browser `RangeView.tsx` with `layoutSaveQueue.ts` | the commands whose turns `CommandTurn` runs write it |
| `MCRangeDocument` | symmetry for TLC | `RangeDocument` |
| `RangeDocumentProofs` | the theorems about it | `RangeDocument`, TLAPS |
| `RunningCommand` | `cli.py`: one CLI process group, its two readers, cancel and escalation | the process `CommandTurn` only knows as running or not |
| `MCProcesses` | the two process trees in one instance | `RunningCommand`, `PlaybookRun` |
| `ProcessesProofs` | the theorems about both | `MCProcesses`, TLAPS |
| `InventoryFile` | the inventory as a document and every function that reads or rewrites it (`inventory.go`, `inventory_topology.go`, `aws_inventory.go`, passwords of `provision.go`) | - |
| `EnvScaffold` | `env create` and the disk side of the generator, for invocations side by side | `InventoryFile` |
| `EnvScaffoldProofs` | the theorems about it and about the repair of inventories | `EnvScaffold`, TLAPS |
| `MCEnvScaffold` | a lab, two references and all requests | `EnvScaffold` |
| `Variant` | `internal/variant`: names, ordered replacements, transformed files, marker | - |
| `MCVariant` | five small labs and pools of colliding names | `Variant` |
| `RangeState` | what the lifecycle commands share: disk, inventory, cloud, lab, the running command | `InventoryFile` |
| `UpPipeline` | `up.go`: steps, refusals, hints | `RangeState` |
| `RangeInfra` | `infra_cmd.go`, `infra_state.go`, power commands, `destroy-vm` | `UpPipeline` |
| `Preflight` | `provision.go` up to the playbooks, and what a playbook does to the machines | `RangeInfra`; `Provision` looks inside the last step |
| `Readiness` | `doctor`, `health-check`, `requireInfra` with SSM recovery | `Preflight` |
| `RangeReset` | `lab_reset.go`, `score_reset.go` | `Readiness` |
| `RangeLifecycle` | an operator's commands, faults, kills, and changes behind the CLI's back | all of the above |
| `MCRangeLifecycle` | ranges, requests, AD objects and artefacts | `RangeLifecycle` |
| `RangeLifecycleProofs` | the theorems about the lifecycle and about reconciliation | `RangeLifecycle`, TLAPS |
| `ValidationChecks` | `checks.go` as tables from answers to results and next probes | - |
| `Validation` | `validator.go`, `script_runner.go`: goroutines, retries, dead hosts, Ctrl-C | any table of checks |
| `MCValidation` | `Validation` of the checks of `ValidationChecks`, on which its assumptions are evaluated | both |
| `ValidationProofs` | the theorems about `Validation` and both dashboards | `Validation`, `LiveDashboard`, `Scoreboard`, TLAPS |
| `LiveDashboard` | `validate/tui.go`: the passes, both channels, quitting | the passes `Validation` looks into |
| `Scoring` | `internal/scoreboard` without its screen: answer key, `verify.go`, `score.go`, `live.go` | - |
| `Scoreboard` | `scoreboard/tui.go` beside the agent, `score` and a deletion of the report | `Scoring` |
| `MCDashboards` | both dashboards in one instance | `LiveDashboard`, `Scoreboard` |

The modules are composed by abstraction rather than by one product: each takes
the promise of the next as an assumption.  A turn of `SessionRuntime` is all of
`CommandTurn`; a started call of `CommandTurn` is a `RunningCommand`; a run of
`Provision` is a `PlaybookRun`; the last step of `Preflight` is a `Provision`; a
pass of `LiveDashboard` is a `Validation`.  The modules from `RangeState` to
`RangeLifecycle` are one machine, cut by source file.  `SessionContract` and
`ProvisionContract` are abstract specifications, whose implementations are also
checked, and proved, as refinements.

### Correspondence

**SessionRuntime.**  `pc[p]` names the await a coroutine is suspended on; an
action is the code from one await to the next.  `rt` is the registry entry,
`conn`, `turnOf`, `agent`, `closing`, `lock` are fields of runtime objects
(several may exist, only one is registered), `ref[p]` is the object a coroutine
captured in a local.  `waiting` and `ahead` are the database thread's FIFO
queue: a job is `Served` when no earlier one is left.  `row`, `dir`, `thread`
are what is stored.  Turn, swap and delete identities are slots that are
reused, so behaviours are unbounded in length.

**CommandTurn.**  `call[c]` holds the locals of one `run_cli` call, again with
its await in `pc`.  `approval`, `decision`, `expired` are the pending request,
its future and its timer; `status` the persisted lifecycle status; `context`
whether the cached agent was built before or after the range root changed.
Command classes (protected, long-running, cloud operations) are the tables of
`commands.py`.  A subprocess is only running or not.

**PlaybookRun.**  The goroutines of `RunPlaybook` (main, scanner, watchdog, the
stderr copier) and the external process group.  `pipe` is a bounded sequence of
ordinary and over-long lines; who holds the write end decides when the scanner
sees its end.  The watchdog's ticker is counted: `quiet` ticks since the last
output.  A tick is allowed at any time (an over-approximation of 60 s
intervals), so nothing shown depends on how fast the process is.

**Provision.**  `pc` is the statement of the loop; `tunnel`, `runVars`,
`copied` the handle and the two copies of the extra-vars that carry the proxy;
`completed` and `gaveUp` are history.  Ansible is external: a run completes on
some hosts, fails or finds unreachable some, and may never reach others.
Forks and the text of extra-vars are left out (users' overrides of the proxy
variables too).

**RangeDocument.**  `doc` is the row, reduced to the hosts' identities, the
layout and its revision.  Every function that reads the document, awaits and
writes it back holds its snapshot: `writers` for the command of the turn
(`apply_instances`, `reseed`, `apply_health`) and for the scaffold, `gets` for a
GET that repairs.  `tabs` is what a tab shows, with `LatestLayoutSaver`'s
revision, save under way (`put`) and pending layout.  A position is the number
of the drag that made it, which is all a property needs to tell positions
apart.  The database worker makes each read and each write one step.

**RunningCommand.**  The process (`leader`, `code`, `open`), its helpers and the
pipe are the operating system's; `cancelled`, `closed`, `killTask` are the
fields of `RunningCommand`; `reader` is the await `stream_lines` or
`communicate` is suspended on, `deadline` the drain budget.  "exited" and
"reaped" are told apart because `returncode` is set by asyncio's child watcher
some time after the exit.

**InventoryFile, EnvScaffold.**  An inventory is three partial functions (host
lines, groups, `[all:vars]`); layout and quoting are left out.  `pc[p]` is the
next file system call of an invocation; `owner` says who made what is at a path,
so that two invocations, an overwrite under `--force` and a rollback can be told
apart; `claims` is `scaffoldArtifacts.paths`, removed from its end.  `tree` and
`points` hold of the files only what the properties tell apart.

**Variant.**  A text is a sequence of atoms, words with their case and
separators, so that containment, word boundaries and case variants are those of
the code without its characters.  `table` is the ordered list of replacements;
equally long ones come in every order (the code sorts by length only).  Names
are drawn from `Pool` in every way the generator could draw them.

**RangeState to RangeLifecycle.**  `cmd` is the running command: its request,
the steps it has left (`todo`) and the point inside the step (`at`).  One point
is one call that reads or writes a file or the cloud.  A machine has a
generation (`gen`), the version of the lab config its password came from
(`built`) and the playbooks that completed on it (`done`); a version stands for
everything a lab config says.  `chain` and `spent` are ghosts: which `up` was
asked for and what happened besides.  `cmd.slips` says that something went wrong
of which only the output tells; `cmd.list` which config a purge went by;
`cmd.blind` what listings hid that failed without a word.  An AD object knows
which configs list it in any domain (a purge's allowlist) and which define it for
the domain of its controller (what `ad-data.yml` makes again, never a computer).
Drift is memberships and passwords that differ from the config, of the kind the
reconciliation covers or not.

**ValidationChecks, Validation, LiveDashboard.**  A check is a graph of probes;
an answer is a named fact or one of error, refused, blank and noise; the table
gives the results and the next probe.  `work[w]` is a goroutine with the
counters of the three retry loops.  In `LiveDashboard` a result is only the pass
that produced it, which is what a reset or an overtaking can confuse.

**Scoring, Scoreboard.**  A finding is target, host and evidence; evidence is
the password it proves.  `polls` are fetches on their way, `kicks` the timers
that start the next.

## 3. Runs

TLC explores the whole state space of every instance.  A module's type invariant
is the first conjunct of one of the invariants of its run.

| Run | Instance | Distinct states | Shows |
|---|---|---|---|
| `session` | 2 sockets, 2 turns, 2 deletes, 3 runtime objects, failed starts | 49,360 | turns serialized, deletion exclusive and complete, shutdown quiet, contract implemented |
| `session_cancel` | 1 socket, 1 turn, 1 swap, 1 delete, fair | 167,060 | a cancelled turn ends |
| `command_turn` | 2 parallel calls over 4 commands, 2 approval ids, failed starts, restart | 874,907 | approval, ownership, signalling, settled status |
| `command_cancel` | 2 calls, 2 commands, fair | 121,569 | cancel and approval end |
| `processes` | a CLI process with 2 helpers and a pipe of 2 in both reading modes, or a playbook with 2 workers and 2 ticks; fair | 39,616 | reading ends also after a cancel, nothing is left, the exit code is real, the watchdog strikes when it should and then the call ends |
| `provision` | 3 hosts, 2 playbooks, 2 retries, with and without a limit, tunnel, interrupts, fair | 235,284 | tunnel, completion, contract implemented, the command ends |
| `range_document` | 2 tabs, 3 hosts, 2 drags, 1 command, 1 loss, the scaffold | 1,250,227 | layouts survive every writer, no blind overwrite, drags are stored or taken back |
| `validation` | every check of `checks.go` alone on 2 hosts, 2 checks side by side, 2 attempts, 2 retries, fair | 132,964 | verdicts rest on answers, no check is silent, the pass ends |
| `dashboards` | 3 passes, channels of 2 and 1; or a report of 3 findings, 1 press of r, 1 failed fetch, 1 deletion; fair | 140,206 | the dashboards show what is true, the report is settled, the two scorings agree |
| `env_scaffold` | 2 invocations with every pair of requests over 3 kinds of plan, 2 references, removals that fail | 3,138,311 (up to symmetry) | exact rollback, one winner, a whole environment and a fit inventory |
| `variant` | 5 labs, colliding pools, every order of equal lengths, crash anywhere, regeneration | 33,990 | what is handed on is whole, consistent and anonymous |
| `range_lifecycle` | 2 hosts, AWS and Azure, also a variant, 2 commands (or one and its hints), 1 fault, 1 outside change, 3 versions of the lab config | 1,267,986 | what commands say of the range is true of it |

Each property also rejects at least one mutant of the code (`PROJECT.json`,
"mutants"): a dropped check, a missing reset, a signal to the leader only.

What the properties of the later modules say, in short:

* `ImplementsContract` of `Provision`: a playbook is run at most twice per
  attempt, never again after it succeeded, an interrupt leaves at most the two
  runs of one attempt and no further playbook, and an error is returned exactly
  when not all playbooks are through.
* `VerdictEvidenced`: a PASS or FAIL rests on an answer of the host (the probe
  `Careless` is exempt, see 17 below).  `NothingDropped`: a check that ends without an
  interrupt has added a result for what it was given.
* `OneShotExact`, `EndsSettled`, `BoardCatchesUp`: the screen ends up at the
  truth and the report is saved when nobody adds to it any more.
* `ScoringsAgree`, `KnownAdminCounts`: a static score is within the board's, a
  live one never lower than a static one, and an administrator of a host is
  known as one.
* `RollbackExact`, `OneWinner`, `WinnerIsWhole`: see the table of section 1.
* `HandedIsWhole`, `SourceRenamed`, `Anonymous`: an incomplete target is never
  provisioned from; the variant's references resolve as the source's do, its
  mapping file is the renaming that happened, passwords follow their users; no
  source name stands alone in any file.
* `UpDoesAsAsked`: when an `up`, resumed however often from its own hints, says
  that the lab is up, each selected host of the inventory is, at its address, its
  own machine with every playbook asked for completed; and no unit exists that
  was not there before or asked for.  On Azure, where nothing checks whose an
  address is, the host's name and address must be one machine's (`Single`).
  `HandoverSound`: when playbooks start on AWS, each selected host of the
  inventory has the address of the one machine found under its name.
  `DestroyedMeansGone`: a destroy of the whole range that says ok has left nothing
  Terraform built.
* `PurgeKeepsLab`: a purge judges by the config it reads now, by a path of its own
  (`LabConfigPath`), the domain was built from a copy made earlier.  As long as
  both are one version and a variant's target is whole, it takes nothing this
  version lists in any domain, whatever fails in between, and nothing that is
  exempt for certain; what its lookups exempt (controllers nobody listed, what an
  administrator made) only where they worked, and if a controller goes the output
  tells of it; of a creator that was not found nothing does.  `ResetToBaseline`:
  after a `lab reset` that says ok and printed neither error nor warning, and whose
  purge and playbooks read one config, every domain has its users and groups
  again, nothing a purge removes, and no drift that the reconciliation covers.  It
  promises no computer account and no other drift, and nothing with
  `ad_reconcile_check_only`.  `LeftIsReported`: a `score reset --apply` that says ok,
  printed no error and removed as much as it found has left nothing of what its
  phases look for, except what a listing hid that failed without a word.  The
  conditions on the output are what an operator can see: without them each of
  the two fails by disagreements 30 and 31.

### Why the bounds are enough

* *SessionRuntime*: every hazard is between two coroutines of some kind and an
  object that replaces another.  Two of each kind, with reuse of identities,
  lets each meet itself and the others; three objects let a registered, a
  captured and a forgotten one coexist, and objects nobody refers to return to
  the pool.  The proofs remove the bounds for safety.
* *CommandTurn*: two parallel calls suffice for every interference on the
  status, the approval and the cancel, which are single cells; the four
  commands have one member of each class the code distinguishes.
* *PlaybookRun*: the watchdog compares with a threshold, two ticks separate
  "once" from "enough"; two workers separate leader, group and survivors.
* *Provision*: the second playbook shows what a first one leaves; three hosts
  allow one completed, one failed and one never reached at the same time.
  The proofs remove these bounds for safety.
* *RangeDocument*: two tabs make a conflict; the second drag can undo or follow
  the first, from either tab; three writers hold snapshots at the same time (the
  command, the scaffold, a repairing read); one host of each kind (config,
  extension, attack box) is one for each way a host is added or dropped.  One
  loss strikes each request and answer in turn.  The theorem about the layout
  needs none of the bounds.
* *RunningCommand*: one helper holds the pipe, another survives it; a pipe of
  two lines is empty, partly read or full.

* *EnvScaffold*: two invocations race; a variant target of an earlier one is
  in the initial states.  The proofs remove the bound for
  rollback and the race.  A path that `RemoveAll` could not remove whole counts from
  then on as an earlier invocation's, in any part.  The two invocations are
  alike, so the instance takes them up to symmetry.
* *Variant*: the labs are cut out of the shipped ones so that each collision of
  names the generator has code for occurs: names inside names, one account in
  two domains, a host's name in an ACL key, equal passwords.
* *RangeLifecycle*: two commands let one find what the other left; one fault
  (failure or kill) and one outside change strike at every point of them; two
  generations are the machine an inventory knows and the one that replaced it;
  a controller and a server differ in everything the commands look at.  An
  engagement makes or deletes one object of any class (`MaxMoves`), the used
  ranges start with several made and deleted.  A listing that fails can hide any
  part of what is there; faults are what they cost.
* *Validation*: two workers share the counter of a host, which is all checks
  share; thresholds of two separate "once" from "enough".
* *Dashboards*: three passes let a late result of one meet the reset of the
  next; channels that small are full often.

### Fairness

Fairness is stated only where the code's scheduling gives it.  asyncio runs
every ready coroutine and its locks are first come, first served (strong
fairness on acquiring, since the lock is taken and released by others
meanwhile); the database thread serves its queue; a process that got SIGKILL
dies; timers fire; goroutines are scheduled and tickers tick.  Nothing is
assumed of the model, of a client, of a command nobody cancelled, or of
Ansible.  `FairSpec` of each module names the actions; `RunningCommand` states
fairness in `Spec` itself, for the child watcher, the escalation's timer, the
drain budget and the reader, and for no exit of a process.  `Provision` has weak
fairness of `Step`: a run ends in some way (which `PlaybookRun` is about).

The validate goroutines make progress because every remote call has a time limit
(`runPSTimeout`); the dashboards serve their messages, and nobody has to press
a key.  `EnvScaffold`, `Variant` and `RangeLifecycle` have no fairness and no
liveness property: their programs may die anywhere.

Two liveness properties are conditional, because the code refutes them without:
`session_cancel` sets `StartMayFail = FALSE`, and `CancelEndsIfStarted` (the first
half of `CancelAndRequestEnd`) assumes `startable` (disagreement 7 below); `StallEnds` in `WatchdogStrikes` assumes
`Watched` (8).

## 4. Proofs

Safety is proved for every value of the constants in eight modules.  Each proof has
an inductive invariant `IInv`, one step per action, and temporal theorems that
combine Init, step and implication.

**SessionRuntimeProofs**, for every set of sockets, turns, swaps, deletes and
runtime objects: `TurnsAreContained` (types, serialization, shutdown),
`DeletionSafety`, `ReservationSafety` from no assumption but those on the
constants' shape; `DeletionComplete` and `Refinement` (the runtime implements
`SessionContract`) under `Swaps = {}`, since with a swap they do not hold (5
below).  The properties are not inductive: that no two turns are live follows
only because every live turn is the `turnOf` of its object *and that object is
the registered one*, which holds because discarding looks at the turn, because
an admission goes through the registered object, and because closing objects
stay registered.  `IInv` is `TypeOK` with `Ownership`: `TurnOwnsRuntime`,
`AdmittedTurn`, `ReservedRuntime`, `OneReservation`, `ClosingRegistered`,
`Stopping`.  `DeletionComplete` adds `Gone`: after a deletion the registered
object stays closing and no coroutine is at a step that could still write.

**ProvisionProofs**, for any hosts, number of playbooks and retries, with or
without a tunnel: `TunnelIsSound` (types, every run through the open tunnel,
none left), `DoneEverywhere`.  `IInv` adds three parts: `Progress` (inside the loop there is
a playbook, and an attempt left), `TunnelOpen` (the handle is the one open
tunnel and the extra-vars name it; at which steps there is none) and `LeftOut`
(a strategy plays on at least the hosts that have not completed the playbook,
provided the recap is complete or `--limit` makes it play on all).  The lemma
`Narrowed` is the heart: recap and limit together leave no host out.
`KeepsContract` (`ImplementsContract`) is the refinement of `ProvisionContract`,
step by step.  The contract counts runs and the loop attempts; the mapping `Left`
says at each point of the loop how many runs are still to come, also once it is
interrupted, when it depends on the point alone.  Besides `Progress` it needs
`AtWork`: only a loop that retries is at a strategy, and none has failed before
it is over.

**RangeDocumentProofs**, for any hosts, tabs, reloads and bounds:
`NoLayoutRestored`.  The row's layout is the one accepted last, because every
snapshot, wherever it is held, agrees with the layout accepted *at its own
revision* (`Snapshots`), and an upsert keeps the row's layout unless the
revisions are equal.  `DragsAreKept` (types; a tab at rest shows nothing that was
never saved) and `SavesMoveForward` (a save moves no host back) need to know the
tabs, and `JInv` says it: a position that is shown is saved, on its way in the
put or the queue, or about to be taken back (`Carried`); neither what a tab shows
nor what it sends is behind the layout accepted at its revision (`Follows`); every
snapshot holds the hosts of its own revision (`Good`), and every layout accepted
or under way is a drag of its own (`Counted`, which bounds `accepted`).  The
attempt to prove them found an error in an earlier version of the model, which
sent every save with revision 0; and, once that was repaired, the exception for
extension hosts in `NewestWins` (disagreement 14 below).

**CommandTurnProofs**, for any calls, commands and approval ids:
`ApprovalIsExact`, `CancelReaches`, `TurnsSettle`.  The properties look at a
spawned command, a signalled process and an ended turn; `IInv` says how one comes
there.  `Granted`: a call's id was issued for its command, is the pending one
while the call asks, and is confirmed once it was let through; with
`GrantsDistinct` that gives the one approval per spawn.  `Settling`: while a
turn that began settled is not cancelled, whatever is unsettled has a call that
will settle it, a status "provisioning" one before its final status, a stale
context one before the invalidation.  `OwnStep` states once what a step of one
call owes to the others.

**ProcessesProofs**, for any helpers, workers, pipe and timeout.  Of the console's
subprocess: `CommandEndsClean` (types, nothing left, the real exit code, nothing
armed), where `IInv` adds `OnTheWay` (draining starts after the exit, a torn
`communicate` waits for a group that is dead) and `Finished` (a reader that is
done without giving up has closed the handle).  Of the playbook:
`PlaybookEndsClean` (`RunPlaybook` returns when no process is left) and
`WatchdogIsPatient`, an action property: it strikes only after a whole idle
timeout without a line; `PInv` is `Places` (who may still be alive at which step
of the caller) and `Measured` (the silence counted is the silence that was).
Both for the composition that TLC runs, whose steps are those of one tree.

**ValidationProofs**, for any table of checks, lab, number of workers and bounds:
`VerdictsRestOnAnswers` and `NoCheckFallsSilent`.  `IInv` says of every worker's
record (`Sane`) what its pending verdict rests on (`Evidence`) and that the check
has spoken or is at a probe that leads on to one that will (`Asks`, `Opening`).
What the tables of `checks.go` must satisfy for this is stated as three
assumptions of `Validation`: every probe handles an error (`TableAssumption`), no
error is a verdict but that of the one careless probe (`HonestAssumption`), and
the probes a check makes before it speaks lead to one another
(`OpeningAssumption`).  TLC evaluates them on the tables themselves.

The module has four theorems about the dashboards.  Of `LiveDashboard`, for any
number of passes and results and any capacity of the channels: `OneShotIsExact`
(`OneShotExact`; what was sent is shown, in a channel or dropped, pass by pass) and
`SavedReportIsSettled` (`ReportSettled`, an action property: control comes back
only when no pass is left that could add).  Of `Scoreboard`, for any agent, answer
key and number of failed fetches: `BoardHasOnePoll` (`BoardTypeOK`) and
`BoardTakesNothingBack` (`BoardMonotone`, an action property), because what
the board has taken over is in what the one fetch brings, and that in the report
(`Behind`), as long as nobody presses r and nobody deletes the report.

**EnvScaffoldProofs**, for any number of invocations, requests, references and
labs: `RollbackIsExact`, `AtMostOneWins`.  The invariant keeps one set of books
per invocation: its claims are its own and distinct (`Distinct`), there are none
before the first reservation or after a rollback (`Unclaimed`), without
`--force` it writes only where it has reserved (`Held`), the variant it generates
is its own and not claimed yet (`Target`), and all it made is claimed
(`Accounted`).  `OthersKept` carries the race: a step makes only what nobody has
and removes only its own, so it leaves the books of all others in order.  The
only assumption is that no invocation is called "none" or "earlier".
`WinnerLeavesItWhole` is about what is in the files: an invocation that succeeded
left infrastructure and inventory of exactly the lab's hosts, which pass
provisioning's preflight.  Its `JInv` follows the scaffolding step by step: `Left`
says what the directories and the inventory hold at each step (`Infrastructure`,
`Configuration`, `Inventoried`), and `Others` that no other invocation touches
them, because it writes only what it has claimed.  With `--force` it would not
(disagreement 23), so `Left` is promised while nobody forces.  Two more
assumptions: a variant of a template range is refused (`RequestsAssumption`,
`env_cmd.go:212`), and every lab declares the groups `[dc]` and `[domain]`
(`LabAssumption`, as each `ad/*/data/inventory` does).

The module also has two theorems about the repair of an inventory as a function,
for every document and lab: `RepairMeetsContract` (a repair satisfies the check
that follows it and loses no host line, member or variable) and
`RepairIsIdempotent` (so each provisioning may repair again).

**RangeLifecycleProofs**, for any lab, ranges, requests, AD objects, and any
number of rebuilt machines, faults, outside changes and commands:
`UpKeepsItsWord` (`UpDoesAsAsked`), `AddressesAreHandedOver` (`HandoverSound`),
`DestroyEmpties` (`DestroyedMeansGone`), `ResetOwnsUp` (`LeftIsReported`),
`ResetRestores` (`ResetToBaseline`) and the action property `PurgeIsSelective`
(`PurgeKeepsLab`).  All rest on one invariant, `Kept`:

* `OnTrack`: the running command is one that was asked for, at one of its own
  steps, and every hint is again a legal `up`.  Without it a reset could be at a
  step of infra; the work is in `HintsGood` (what a failure prints keeps the
  request's limits) and `TrackMoves` (a step goes on, is done or fails, and
  nothing else).
* `Standing`: what the cloud, the lab and the budgets are made of, and that
  every inventory line has an address.
* `Handing`: from the reconciliation to the playbooks the selected hosts have the
  addresses that were found.  The passwords are written in between, so
  it needs that no rewrite of the inventory changes an address or a connection
  (`AddressesStay`, `ConnectionStays`), and `HandoverMade` that a mere warning is
  given only when every host of the limit was resolved.
* `Emptied`: everything is gone before the bucket's turn comes, since a failed
  destroy never gets there.
* `Listed`: the config a purge goes by is the one on disk, unless a variant's
  target is not whole, also while its controllers are visited.
* `Cleaned`: a score reset phase by phase and host by host.  The tally never
  removes more than it found (`Accounted`); as long as the two are equal and no
  error was printed, nothing is left of what the finished phases count
  (`Judged`), nor of what is counted on the hosts done so far in the present one
  (`Sweeping`), but what `cmd.blind` holds.  That a later phase does
  not undo an earlier one is `Phased`: the phases come in the order of the code.
* `Restoring`: a lab reset while nothing has gone wrong, not even a warning
  (`Hopeful`).  The purge has
  a machine for each controller of the inventory (`PurgeStarts`, which needs
  `Grouped`) and leaves on those it is through with only what the config spares
  (`UnflaggedIsSpared`, `PurgeGoes`); then `ad-data.yml` is still to be played or
  every controller is restored (`PlaysRestore`).  The play reaches the right
  machines because of `Handing`, whose addresses are ids of the hosts' own
  machines (`ReachedHasRole`).

`UpKeepsItsWord` adds to `Kept` the types (`Typed`) and `Upheld`, which is about a
chain: the first `up`, whose word is to be kept, and the command of the moment or
the hint that waits.  A hint must hand on what the steps to come need of the first
request (`Carries`): module, excludes and playbooks as long as infra is to come,
the limit until health-check.  And every playbook that was asked for is either
still pending in the command or completed on the machine that the host's line
leads to (`Progress`), a machine called like the host on AWS, the only one on
Azure.  What makes it inductive is that no step takes back what was reached:
machines only complete more (`Grown`), and lines that are written anew, as by a
hint that runs the preflight again, lead where they led (`UptoStays`): on AWS
because ids are of one host, on Azure because address and password are those they
had (`Given`, `Passworded`).  That no more is built than was asked (`OnlyAsked`)
follows step by step once the flags are carried.  The attempt to prove it
corrected the property twice: on Azure nothing checks whose an address is, so it
asks there for one machine under the host's name, alone with its address
(`Single`); and `--module` is built alone even if it is excluded (`Asked`).  It also
made it stronger: the machine is the one at the host's address, not any machine of
its role.

`AddressesAreWritten`, about reconciliation as a function, is what `HandoverMade`
rests on: it writes what it resolved and touches no other host, provided no two
names differ only by case, which the code refuses first, and every line has an
`ansible_host`, which it does not look at.  The assumptions are on what is found
and asked: the ranges' inventories are what `env create` writes, host lines of the
lab each with an `ansible_host`, and a `[dc]` group, if there is one, with every
controller that has a line (`RangesAssumption`; each rewrite keeps both), requests
are what the flags can say (`RequestsAssumption`), instance ids belong to one host
and are no addresses (`IdsAssumption`), `ad-data.yml` is one of `adStatePlaybooks`
(`AdPlaybooksAssumption`), no host is called like an optional unit or not at all,
and the controllers are hosts of the lab (`LabAssumption`), `playbooks.yml` lists at
least one playbook (`PlaybooksAssumption`), lower case is its own lower case
(`LowerAssumption`), an AD object is of one class, and no config makes a computer account
(`ObjectsAssumption`, `lab_reset.go:133-185`, `roles/ad/tasks`), and an engagement leaves finitely many things
(`ArtifactsAssumption`).  The attempt to prove the handover corrected the
property: a limit may name a host the inventory does not have, which Ansible
ignores, and roles are compared in lower case, so it speaks of the selected
hosts the inventory lists and of the role `Lower[h]`.  The attempt to prove
`LeftIsReported` corrected it and its requests: phases had been in any order,
which `score reset` never runs, and the property looked at the machines the last
phase had found, after a purge the controllers, where it now looks at all that
run.  `ResetToBaseline` is for the controllers the inventory has a line for:
neither stage knows of another one.  All three were once wrong about what they rest on,
too: playbooks had restored computers and all drift, listings had never failed,
and a lookup of the controllers had always worked.

Only model-checked: the liveness properties, which need fairness and ENABLED,
beyond the prover; the three properties of `Variant` (`HandedIsWhole`,
`SourceRenamed`, `Anonymous`), which are about what a recursive replacement makes
of texts; and of the scoring `ScoringsAgree`, but for its first part
`BoardTypeOK`, and `KnownAdminCounts`, which compare recursive walks through a
domain's groups.  Both would be inductions over data, which the installed provers
cannot do.

## 5. Disagreements found

Each was met while modelling and is in the model; where it would break a
property, the property names the condition that leaves it out, so that it says
something about everything else.

Console and provisioning loop:

1. `swap_model` relies on the session lock, but the runtime object that holds it
   is discarded when its socket leaves, and the next message locks a new one: a
   switch runs beside a turn (`chat_runtime.py:90`).
2. A cancel that lands while the status is written cancels the task and leaves
   the status at provisioning (`command_runner.py:115`).
3. An interrupt kills only the leader of the playbook's process group and ends
   the watchdog; a worker that holds the pipe keeps the call waiting
   (`runner.go:68`; `Watched` leaves it out).
4. A retry of the failed hosts is taken for the whole playbook although Ansible
   never reached the others (`retry.go:308`; `CompletedUnlessGivenUp` exempts
   `gaveUp`, what Ansible gave up in a run without a limit).
5. `swap_model` reads the session, awaits, and writes it back: a DELETE in
   between is undone, the row is there again (`NoOrphanData` is run and proved
   for `Swaps = {}`; `chat.py:234`).
6. A cancel before `_finalize_command` skips the invalidation of the cached
   agent: the next turn uses the old range root (`TurnSettles` speaks of turns
   that were not cancelled; `command_runner.py:831`).
7. A cancel during the report of a failed start is lost: the turn goes on
   (`startable` in `CommandTurn`, `StartMayFail` in `SessionRuntime`).
8. A line over 1 MB ends the scanner and with it the watchdog, and the playbook
   may then stall for ever (`Watched` in `PlaybookRun`; `runner.go:114`).
9. A run that ends in the instant of the deciding tick is reported timed out
   and is repeated (`TimeoutJustified` is about silence, not about the exit).
10. `--max-retries` bounds attempts, each of which may run the playbook twice:
    once for the strategy (`retry.go:127`).
11. A context cancelled during an attempt still runs the error strategy
    (`Prepare` does not look at it; `retry.go:166`).
12. A GET that is answered while the tab saves replaces the nodes, but
    `setRevision` ignores its revision: the tab shows older positions under the
    revision its save returns, and its next drag silently puts back what the
    saved drag had moved (`stale` in `NewestWins`; `layoutSaveQueue.ts:23`).
13. `check_run`, which makes the browsers read again, is sent before `/health`'s
    verdicts and `/extensions`' nodes are written: they show up only after the
    next command (`AnnounceCheck`, then `Overlay`; `command_runner.py:921`).
14. The repair of a GET writes the host list of its snapshot and so drops
    extension nodes added meanwhile (`Repair`; `topology_sync.py:175`), or brings
    back, under the same revision, the position of one a reseed dropped, which a
    tab that loaded in between undoes (the exception in `NewestWins`); and a
    failing `extension list` counts as no extensions (`ListExtensions`;
    `topology_sync.py:40`).
15. A command given up after `_EXIT_GRACE` has been killed, yet its exit code
    reads 0, and an escalation stays armed because `_reap_group` does nothing
    before `returncode` is set (`abandoned` in `ExitReported` and `Disarms`;
    `cli.py:121`).
16. The wait for the exit in `stream_lines` swallows a cancellation of the
    turn's task (`ExitSeen`, `ExitGrace`; `cli.py:178`).

Validation and scoring:

17. A transport error on the policy probe of ESC13 is a FAIL although
    `script_runner.go:105` says an error is no evidence (`Careless`); ESC9 FAILs
    when its probes only errored; a refused ADCS probe adds WARN and FAIL; a
    blank answer about the firewall is a PASS; ESC1 is recognised by a digit 1.
18. Checks that run concurrently turn one outage into a dead host, because each
    call that gives up counts (`validator.go:291`).
19. Quitting a later pass of `--poll` forgets the failures of the earlier ones,
    so the exit code is 0; a reset loses the rows of Discovery; a dropped update
    is never made up for, though `tui.go:58` says so; a SIGTERM saves no report.
20. `score` tries a bare user name against the first open objective of that
    name only, the board against all; the score depends on the order of
    findings (`ScoringsAgree` is one inclusion, and equality when domains are
    named).
21. Pressing r starts a poll chain of its own for ever, and an older fetch may
    then overwrite a newer one (`BoardMonotone` assumes no press); a deleted
    report leaves its credits on the screen.
22. Objectives of two hosts of one name share an id; administrators from another
    domain count only with a host tag; a domain whose controller has an empty
    address hides the domain's own; any failed status reads as "no report".

Environments, inventory and variants:

23. A crash of `env create` leaves reservations that block every later one
    without `--force`; `--variant --force` over an existing target overwrites
    the infrastructure and then always fails (`env_cmd.go:61`); `--force` beside
    a failing invocation loses files (`WinnerIsWhole` assumes nobody forces).
24. A placeholder is seen only if `ansible_host` is the first variable of the
    line (`inventory.go:488`); an Azure host whose machine is gone keeps its
    address; of two Azure machines with one role the last one wins; a machine
    without a private address is written as its id.  `up` then says that the lab
    is up of lines that lead to other machines (`Single` leaves it out).
25. Provisioning writes the passwords of the lab config as materialized by the
    last infra action, which after an edit are not those the machines were built
    with (`provision.go:225`).
26. A variant: a host of an unknown domain gets an FQDN that ends in a dot; a
    host called "dc" is replaced inside other words; two users of one name in two
    domains share an entry of the password map; rebuilt ACL keys may merge; `\b`
    does not see a name beside an underscore; a partial target blocks
    regeneration until it is removed by hand.

Lifecycle:

27. The resume hint of `up` omits `--backend-bootstrap`; on a variant without a
    complete target `up` fails at infra and the hint cannot succeed; missing
    hosts are skipped by health-check, which counts as passed.
28. `destroy --exclude` deletes the transfer bucket the remaining hosts use; an
    incomplete variant blocks `destroy`; a `destroy-vm` that nobody confirmed
    exits 0.
29. SSM recovery reports success when the agents it restarted are back, whether
    or not others failed to restart (`infra.go`).
30. The purge and the playbooks after it (`lab_reset.go`):
    * `lab reset` exits 0 although its purge failed, on Azure always; an object
      or a controller that failed is only printed, and so are the warnings of the
      reconciliation, which end no playbook.
    * The help of `purge-unmanaged` (`lab_reset.go:201-202`) says that built-in
      groups, controllers and what administrators made are always exempt.  Groups
      are exempt by a number under 1000 only, so DnsAdmins and DnsUpdateProxy are
      deleted, and a group by whomever it was made.  If `Get-ADDomainController`
      fails, its error is caught, the list of controllers is empty
      (`lab_reset.go:153-154`) and one the lab does not list is deleted; a creator
      that cannot be looked up is no administrator, without a word
      (`flaggedComputers`, `AdminMade`; `Spared` asks for lookups that worked).
      Of an administrator only direct membership is seen.
    * A variant whose target is absent or has no data is purged by the base
      lab's config (`config.go:337`), which deletes all of the variant's objects;
      `lab reset` then generates a new variant with other names and provisions it
      (`LabConfigs`; `cmd.list` in `ResetToBaseline`).
    * What was deployed is the copy an infra command made; after an edit of the
      config a purge deletes what only the deployed one lists.
    * A computer account the engagement deleted never comes back, no playbook of
      the reset makes one, and the reset says ok all the same (`Restorable`).
      Reconciliation passes over computers, members from other domains, built-in
      accounts, protected accounts and groups the config does not name
      (`reconcile_group_membership.yml`); with `ad_reconcile_check_only` it corrects
      nothing and the reset exits 0, as its help says.
31. `score reset` (`score_reset.go`):
    * It deletes the agent's report also when fetching or saving it failed;
      workspace databases are counted everywhere and removed in one place;
      subdirectories of shares are removed and not counted; errors on Windows
      hosts that answered or of its purge do not reach the exit code.
    * A listing of files that fails is silenced (lines 643, 659, 686, 698; on the
      attack box every `find` and every removal): its artefacts are neither
      counted nor removed, found equals removed, the exit code is 0 and nothing
      says so (`cmd.blind`, exempt in `LeftIsReported`).  A failed `Get-LocalUser`
      (714-728) or `Get-LocalGroupMember` (747-752) does the same, but its error
      is printed (`Accounts`; `cmd.slips`).
    * `requireInfra` goes on with an empty host map when only the attack box or
      the Azure controller runs (`infra.go:128`): nothing is looked at and the
      Windows phase is clean.

## 6. Not modelled

`PROJECT.json` lists every component with its status.

* Deletion of the session under a range's writers: `upsert_range` would insert
  the row again, as in (5).
* What the model writes, command output, formatting, and read-only projections.
* `os.Exit` on a second interrupt (`root.go:72-80`): it leaves tunnels by design.
* Clients of cloud APIs, configuration merging and rendering: sequential code
  over external or declarative data.  The lifecycle is modelled for AWS and
  Azure, not for Ludus and Proxmox.
* The bootstrap of an inventory that is not there, `inventory sync` beside a
  running command, the choice of hosts and classes in the resets.  Of the
  evaluations of `health-check`, those of services, trusts, DNS and SQL Server are
  free choices: their subjects are no part of the state.
* What PowerShell scripts and Ansible roles do on a host: facts and completed
  playbooks stand for it, but for the scripts of the resets and what `ad-data.yml`
  does to users, groups, memberships and passwords.
* `bastion`, `ami`, `exec`, `ssm`, `extension`, `config`, `range init`: single
  calls, or clients of a cloud.
* The legacy tool, Ansible roles, Terraform modules, images.
* The data race on `outputBuf` in `runner.go` (scanner and stderr copier): its
  text only feeds the classification, which is a free choice in the models.

## 7. Plan

The order is by how much goes wrong when the part does.  Done: the session core,
the turn, the supervised processes, the provisioning loop, the range document,
environments and inventories, variants, validation, scoring, and the lifecycle
commands as one machine.

Next modules:

1. `Purge` - `environment_purge.execute` with its rollback, and the checks of
   `_finalize_command` between the destroy and the purge (another session on
   the same config, a changed config, a session that is gone).  Property: all
   paths or none; never those of a config another session uses.
2. `SessionCreate` - the three creation flows of `sessions.py` with their
   rollbacks, over config file, session row, directory and scaffold; requests
   that are cancelled between the steps, two requests for one name.
3. `ThreadRepair` - `repair_tool_pairing` as a function on sequences of
   messages, against the reference definition of a well-paired thread, and
   idempotent; composed with the save of an interrupted turn.
4. `RemoteCommand` - `provider/retry.go`, and the bastion's watchdog.

Next theorems: the conjuncts of `HandedIsWhole` that are about control alone (the
marker is written last, by the run that copied the last file); a contract of
`RangeLifecycle` for one range, "absent, partly built, built, provisioned", that
every command refines.
