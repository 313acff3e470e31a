# Formal models of the provision backend

These TLA+ modules model parts of the provision server:

- the transactional core (`src/backend/requestTracker.go`);
- the lifecycle, validation and ISO explosion of BootEnv objects
  (`src/backend/bootenv.go`);
- tasks (`src/backend/task.go`);
- parameter resolution and the per-object key pairs
  (`src/backend/requestTracker.go:456-632`);
- the job log endpoints (`src/frontend/jobs.go`).

TLC checks the modules on small instances. TLAPS proves, for every value of
the constants, type correctness of every model and each safety invariant
the passing runs check. It also proves the lock-order invariant of the RequestTracker, and that the
RequestTracker refines the atomic specification `RequestTrackerAtomic`.
Where a property fails in the code (a key-changing Patch, a reused job UUID,
an extraction that fails part way), the proved invariant is the exact
characterisation of when it fails, stated with a history variable, not the
property under an assumption that rules the failure out. `PROJECT.json` lists the
components, the runs, the mutants, the map from definitions to source lines,
the findings, the hazards and the theorems.

## 1. The system

| Part | Source | State | Operations |
|---|---|---|---|
| RequestTracker (C4) | `backend/requestTracker.go` | the lock stores `d`, the post-commit queue `toRunAfter`, its own mutex | `Request`, `Do`, `AllLocked`, `Create`, `Update`, `Save`, `Remove`, `Patch`, `Publish`, `PublishEvent`, `RunAfter`, the deferred `unlocker`, `Find`/`RawFind`/`FindByIndex`, `GetParams`/`GetParam`, key-pair helpers |
| Lock manager, stores, index, backing store (C1-C3) | outside `src/` (`lockEnts`, `store.*`, `index.*`) | one mutex per prefix, a sorted index per prefix, a durable key/value store | `lockEnts` (sort, dedupe, lock), `store.Create/Update/Save/Remove` (call `BeforeSave`/`AfterSave`/`BeforeDelete`/`AfterDelete`, then write) |
| Lock declarations | `task.go:188-195`, `bootenv.go:655-662`, `preference.go:228-235` | constant maps | `Locks(action)` |
| BootEnv hooks | `bootenv.go` | the bootenvs index; the machines, stages and preferences that name bootenvs; the virtual FS's dynamic trees and renderers | `Validate`, `BeforeSave`, `AfterSave`, `BeforeDelete`, `AfterDelete`, `AddDynamicTree` |
| BootEnv materialisation | `bootenv.go:130-342` | `realArches`, `installRepos`, `pathLookasides` | `regenArches`, `canLocalBoot`, `CanArchBoot`, `PathFor`, `fillInstallRepos`, the lookaside closure |
| ISO explosion | `bootenv.go:361-440` | canary files, `explodeMux` | `IsoExploders`, `ExplodeIsos` (one goroutine per arch), `explodeISO` |
| Task | `task.go` | the tasks index, stages that list tasks | `Validate` (queues stage revalidation with `RunAfter`), `BeforeSave`, `BeforeDelete` |
| Parameter resolution and key pairs | `requestTracker.go:456-632` | reads the stores; writes the secrets store (one key per object, under `secretsMux`) | `getAggParams`, `GetParams`, `GetParam`, `decryptParam`, `PrivateKeyFor`, `PublicKeyFor`, `rotateKeyFor`, `DeleteKeyFor` |
| Jobs API | `frontend/jobs.go` | jobs index, job log files | REST handlers; `PUT /jobs/:uuid/log` uses two `Do` calls |
| Generated code | `models/dhcp_lease_input.go`, `restapi/operations/dhcp_subnets/*` | none | go-swagger binding and responses |

How the parts interact. A REST handler builds a RequestTracker with the lock
set `model.Locks(action)` and runs a thunk in `Do`. `Do` locks the prefixes
through `lockEnts`, which sorts and dedupes them. The thunk calls the CRUD
methods. Each CRUD method calls the store, which runs the model's hooks and
writes the backing store, and then updates the in-memory index and queues a
publication. When the thunk returns, the deferred `unlocker` runs the queue
and then releases the locks. BootEnv hooks read the machines and stages
stores under the same locks. `AfterSave` also starts detached ISO-extraction
goroutines and registers the bootenv's dynamic trees in the virtual
filesystem.

### What is hard in this code

- Several goroutines run `Do` with overlapping lock sets. Deadlock freedom
  rests only on the sorted acquisition order.
- Events are queued under the locks and delivered by `unlocker`.
  `unlocker` runs the queue before `u()` releases the locks
  (`requestTracker.go:36`). Spec 4.4 says delivery comes after the release.
- The hooks run inside `store.*`, before the RequestTracker updates the
  index. `AfterSave` and `AfterDelete` therefore see the index as it was
  before the write (`bootenv.go:629`, `bootenv.go:573`).
- `BeforeDelete` branches on `OnlyUnknown`. An update can flip that flag on a
  bootenv that other objects still name (`bootenv.go:545`).
- Detached goroutines extract ISOs. They serialise on `explodeMux`, but the
  canary is checked before they start (`bootenv.go:409`).
- `PUT /jobs/:uuid/log` checks authorisation between two separate `Do`
  calls.
- `GetParams` merges four levels of objects first-wins. It decrypts each
  value with the key of the object the value came from, and a key can be
  created inside a read (`requestTracker.go:523`, `537`).

The properties that make the parts correct:

- **Event consistency.** Whenever a prefix is unlocked, replaying the
  delivered events gives the index (`ViewConsistent`), except at the keys a
  key-changing Patch touched (`ViewConsistentUnlessRenamed`).
- **Event ordering.** Events are delivered after release
  (`EventAfterRelease`).
- **Deadlock freedom.** Every `Do` completes (`DoCompletes`).
- **No empty keys.** No key is empty (`NoEmptyKey`).
- **Reference integrity.** Removal never leaves a dangling name
  (`DeleteGuard`).
- **Cascade.** Stages are revalidated against the saved bootenv
  (`StageCascade`).
- **Trees.** A removed bootenv's tree goes with it (`TreePruned`).
- **Parameters.** Resolution follows the spec's order
  (`AggregationOrder`), and Secure values round-trip (`SecureRoundTrip`).
- **Log authorisation.** A log line or a served log belongs to a job the
  caller may touch (`LogAuthorized`, `ReadAuthorized`), except when the job
  the first lookup found was deleted before the second
  (`LogAuthorizedUnlessReplaced`, `ReadAuthorizedUnlessReplaced`).
- **Canary.** A trusted canary sits next to the tree it names
  (`CanaryTruthful`), except next to a tree a failed script run left
  (`CanaryTruthfulUnlessFailed`).

## 2. Modules

### `RequestTracker` (+ `MCRequestTracker`, `RequestTrackerAtomic`, `RequestTrackerProofs`)

State:

| Variable | Models |
|---|---|
| `pc[t]` | where each RequestTracker is: idle, acquiring its locks, running the thunk, or in the deferred unlocker |
| `want[t]` | the deduplicated lock set |
| `owner[p]` | the holder of each prefix mutex |
| `ops[t]` | the number of CRUD calls made in this thunk, bounded by `MaxOps` |
| `runAfter[t]` | `toRunAfter`, as a sequence of queued events |
| `index[p][k]` | the stores' indexes |
| `view[p][k]` | what subscribers have been told |
| `renamed[p]` | history only: the keys a key-changing `Patch` has touched since their last own write |

Actions:

| Action | Code |
|---|---|
| `Do` | `Do` (lines 175-186) |
| `AllLocked` | `AllLocked` (192-199) |
| `Acquire` | one mutex of `lockEnts`, in rank order (`NextLock`); `Rank` is the `sort.Strings` order of the prefix names |
| `Locked` | `rt.d = d` |
| `Create`, `Update`, `Save`, `Remove`, `Patch` | the CRUD methods, each guarded by `spkibrt`'s locked-prefix condition (`InBody`) |
| `Commit` | the accepted branch of a CRUD method: `idx.Add`/`idx.Remove` and `Publish` queueing a cloned snapshot; it also records in `renamed` both keys of a write whose event names another key, and clears the key of a write whose event names its own |
| `Refused` | every early return and every refused store write |
| `EndBody` | the thunk returning |
| `Drain` | one iteration of `unlocker`'s loop |
| `Release` | `u()` and the reset of `rt.d`/`toRunAfter` |

The backing store is not modelled separately. A CRUD call is atomic under the
prefix lock, and a refused write leaves the index unchanged (spec 4.2), which
is exactly `Refused`. `Deliver` models the publisher fan-out by applying the
event's snapshot to `view`.

`RequestTrackerAtomic` is what `Do` promises its thunk (spec 4.4). `Begin`
takes a whole free lock set from `LockSets[t]` in one step, either the
declared set or, for an `AllLocked` tracker, every prefix. `Write` is a CRUD
call on a prefix the body holds. `End` releases the set in one step. The
property `AtomicDo` instances it with this mapping:

- `running` is `Running`, the trackers whose `rt.d` is set (in the body or
  the unlocker);
- `lockOwner[p]` is `owner[p]` when the owner is running, and `NoThread`
  otherwise;
- `store` is `index`.

So the locks a tracker takes one at a time in `lockEnts` become visible only
at `Locked`, when the whole set is held. A CRUD commit is a `Write`, and a
refused call is a stutter.

### `BootEnvLifecycle` (+ `MCBootEnvLifecycle`, `BootEnvLifecycleProofs`)

State:

| Variable | Models |
|---|---|
| `benv[n]` | the bootenvs index; a bootenv is reduced to the two fields the hooks branch on, OnlyUnknown and OS.Name |
| `machineRef`, `stageRef` | the BootEnv fields of machines and stages |
| `stageSeen[s]` | what the stage's last validation found under that name |
| `pref` | the defaultBootEnv and unknownBootEnv preferences |
| `trees` | the dynamic trees registered in the virtual FS, as `PathFor` results |

Actions:

- `Create`, `Update` and `Save` are the RequestTracker guards plus `Write`.
  `Write` is an accepted save: `BeforeSave` passed, then `AfterSave`, then
  `idx.Add`, with `AfterSave` reading the old index.
- `Remove` is the existence guard, then `BeforeDelete`, `AfterDelete` and
  `idx.Remove`.
- `SetMachineBootEnv`, `SetStageBootEnv` and `SetPref` model code outside
  `src/`: Machine and Stage validation, and `DataTracker.SetPrefs`. They are
  modelled from the spec and marked `spec_modelled`:
  - a machine must name an existing bootenv (spec scenario S3);
  - a stage may name any bootenv, and records what its lookup found (spec 9,
    name-keyed weak references);
  - unknownBootEnv must name an OnlyUnknown bootenv, and defaultBootEnv one
    that is not.

A write that validation or the backing store refuses changes nothing. It is a
stuttering step. Each write is one step because every bootenv write holds the
stages, bootenvs and machines locks (`bootEnvLockMap`), and a preference
write holds bootenvs and stages. The RequestTracker model shows that this
exclusion holds.

### `IsoExplode` (+ `MCIsoExplode`)

State: `canary[a]` is the content of the arch's canary file, an empty
checksum or none. `tree[a]` is the hash of the ISO the arch's tree was
extracted from, or `Partial`. `pending` is the set of started workers that
have not run, each with its save, its arch and the SHA256 it captured.
`saves` counts saves, and `extractions[a]` counts script runs.

Actions:

- `ExplodeIsos` is one accepted save (`AfterSave` -> `ExplodeIsos`,
  `bootenv.go:434-440`). It adds the closures `IsoExploders` builds
  (`395-432`). An arch is skipped when its canary holds its `Sha256` or its
  ISO is missing.
- `Captured` is the `archInfo.Sha256` a closure reads when it runs
  (`427`). With `PerIterationLoopVars = FALSE` (Go before 1.22), every
  closure reads the arch the loop visited last, and `\E last` picks it.
- `explodeISO(w)` is a worker's whole run under `explodeMux` (`361-393`).
  It checks the hash only when a checksum is given, then runs `Extract`.
- `Extract` is `explode_iso.sh`, which is not under `src/` and is modelled
  from the spec. It writes the tree and the canary. With
  `ScriptMayFail = TRUE` it can also fail part way, leaving the tree
  `Partial` and the canary as it was. The code only logs that failure.

`Init` is any disk an earlier run could leave: a canary next to the
complete tree it was written for.

### `JobLog` (+ `MCJobLog`, `JobLogProofs`)

State:

- `job[u]` is the AuthKey (the machine) of the job under UUID `u`, or
  `Absent`.
- Each client's request has a phase `cpc`, a UUID `cuuid` and the AuthKey
  `cseen` its first `rt.Do` found.
- `written` and `read` record the log lines appended and the logs served,
  each tagged with the client and the machine whose job it was, and with
  whether the request's job had been replaced.
- `replaced` is history only: the clients in the middle of a request whose
  found job has been deleted since the first lookup. `DeleteJob` adds them,
  and a new first lookup removes the client.

Actions:

- `CreateJob` is `POST /jobs` (`jobs.go:285-330`). It keeps a
  client-given `Uuid`, so a UUID can be reused once its job is deleted.
- `DeleteJob` is `DELETE /jobs/:uuid` (`413-416`).
- `PutLogFind`, `LogAuth` and `PutLogAppend` are the three steps of `PUT`
  (`537-597`): the first `rt.Do`, the `assureSimpleAuth` outside the lock,
  and the second `rt.Do`, which finds the UUID again and appends.
- `GetLogFind`, `LogAuth` and `GetLogFile` are the steps of `GET`
  (`488-520`), where `c.File` runs after the lock is released.

`Authorized` abstracts `assureSimpleAuth`, which is outside `src/`: a token
is scoped to one machine or to all.

### `TaskLifecycle` (+ `MCTaskLifecycle`, `TaskLifecycleProofs`)

State:

- `tasks[n]` is the tasks index. A task is abstracted to what `Validate`
  and `BeforeSave` decide: Useable, and the two exit-code features.
- `stageTasks[s]` and `machineTasks[m]` are the task names stages and
  machines list.
- `stageSeen[s]` is what a stage's last validation found.

Actions:

- `Create`, `Update` and `Save` are the RequestTracker guards plus
  `TaskWrite`. `TaskWrite` is one whole write under `taskLockMap`:
  - `Validate` queues a `RunAfter` revalidation of every stage in
    `Listing(n)` (`task.go:92-128`);
  - `BeforeSave` refuses a task that is not Useable and stamps
    `original-exit-codes` (`Stamped`, `139-148`);
  - the queued thunks then run against the index as the write left it.
    They run even when the write was refused.
- `Remove` is guarded by `BeforeDelete` (`155-167`).
- `SetStageTasks` and `SetMachineTasks` are Stage and Machine writes,
  which are outside `src/` and modelled from the spec.

### `BootEnvArch` (+ `MCBootEnvArch`)

This module covers what `Validate` computes for one bootenv in one
environment. The environment is the kernel and initrd files on disk and
the global profile's `package-repositories`. The functions are operators
of the bootenv and the environment:

| Operator | Code |
|---|---|
| `RealArches`, `Info`, `KernelError` | `regenArches` (130-160) |
| `NetBoot`, `ArchFor` | 42-44, 170-177 |
| `Usable`, `FillInstallRepos` | `fillInstallRepos` (267-334) |
| `CanLocalBoot`, `CanArchBoot` | 179-230, 232-241 |
| `EndsWith`, `Lookaside` | the `pathLookasides` closure (304-321) |
| `Validate`, `BeforeSave` | 451-507, 524-530 |

`Init` is every bootenv and environment of a bounded domain:
- two arches, and a `SupportedArchitectures` entry for arm64;
- a kernel flag per arch, and two initrd names (top-level and arm64's
  own);
- up to two repos, each under the arch name `amd64` or the alias
  `aarch64`.

`BeforeSave` records the outcome. The properties compare it with the
spec's reference definitions `SpecBootable` and `SpecLookaside`. `Lookaside` is the closure installed for a bound arch. It
is evaluated for every request file, BootLoc set or not, and local tree
present or not. Files are named by basename. Strings are
abstracted to whether a field is set.

### `ParamResolution` (+ `MCParamResolution`)

State:

- The stores a request reads. These are `set[o]`, the names object `o` has
  params for, for the machine and each profile, and `mProfiles`, the
  machine's Profiles list (it may name a profile that does not exist). They
  are also `mStage` (the stage, a stage name that does not exist, or `""`),
  `sProfiles`, the stage's list, and `def[k]`, the Param definition of
  `k` (none, plain or Secure).
- `keys[o]` is the secrets store entry of `o`. It is none, the key its
  stored ciphertexts were made for, or a key generated since. Each generated
  key is fresh, so every key after the first is one value in the model.

A value is a record: the object it is stored on, its name, and the key it
is encrypted to. `Stored(o, k)` is encrypted to `o`'s first key exactly
when `k` is Secure (spec invariant 6; the write path is outside `src/`).
`Init` takes every store, with a key for each object that holds a Secure
value.

Operators and actions:

- `Found` is the `rt.Find` filter of a profile list. It is written as the
  fold of `SelectSeq`, a recursive function over the list, because the
  provers cannot unfold the built-in `SelectSeq`. `SubObjs` is the list
  `getAggParams` builds (`493-520`). `AggSources` is its first-wins loop, a
  recursive function over the list (`484-529`). `Sources` handles
  `!aggregate`.
- `Decrypt` is `decryptParam` (`456-481`). It returns the value as it is
  without decrypt, without a Param definition, for a non-Secure Param, and
  when the key does not open the ciphertext.
- `GetParamsResult` and `GetParamResult` are what the two calls return
  (`532-556`). `GetParamResult` includes the default fallback, taken only
  when aggregating.
- The actions `GetParams` and `GetParam` are the state change the calls
  make: `PrivateKeyFor` of every source whose Secure value they decrypt
  creates a missing key (`KeysAfter`, `609-620`).
- `KeyFor` is `PrivateKeyFor`/`PublicKeyFor`/`rotateKeyFor` called alone,
  and `DeleteKeyFor` removes a key (`603-607`).

The properties are checked over the results of the calls in every state.
This is because a call changes only the secrets store.

## 3. Runs

| Run | Config | Checks | Shows |
|---|---|---|---|
| rt_safety | `MCRequestTracker.cfg` | `TypeOK`, `ViewConsistentUnlessRenamed`, `CanonicalAcquisition`, `DoCompletes`, `AtomicDo` | Three RequestTrackers write bootenvs with the preference, bootenv and task lock sets (the task one also via `AllLocked`), two CRUD calls each, one value and keys {"", k1}, and patches free to change the key. Whenever the lock is free, subscribers agree with the index at every key no key-changing Patch touched. A tracker taking a lock holds only locks ranked below it. Under the fairness below, every `Do` also finishes, because sorted acquisition leaves no cycle. Every behaviour is a behaviour of `RequestTrackerAtomic`. 184 314 states, without symmetry, which is unsound for liveness. |
| rt_events | `MCRequestTracker_events.cfg` | `EventAfterRelease` (violation) | A queued event is delivered while the locks are still held. |
| benv_refs | `MCBootEnvLifecycle.cfg` | `TypeOK`, `DeleteGuard` | With bootenvs that are not OnlyUnknown, `BeforeDelete` never lets a bootenv go while a machine, a stage or defaultBootEnv names it, over every interleaving of bootenv, machine, stage and preference writes. 749 states. |
| benv_onlyunknown | `MCBootEnvLifecycle_ou.cfg` | `DeleteGuard` (violation) | An OnlyUnknown bootenv that a machine names is removed. |
| benv_cascade | `MCBootEnvLifecycle_cascade.cfg` | `StageCascade` (violation) | A stage revalidated by `AfterSave` sees the object being replaced. |
| iso_explode | `MCIsoExplode.cfg` | `TypeOK`, `CanaryTruthfulUnlessFailed`, `EventuallyAttempted` | With per-iteration loop variables and a script that may fail part way, every arch whose ISO is acceptable is eventually extracted after a save. A canary that holds its checksum sits next to a complete tree of that ISO, or next to the `Partial` tree a failed run left. 38 851 states. |
| job_log | `MCJobLog.cfg` | `TypeOK`, `LogAuthorizedUnlessReplaced`, `ReadAuthorizedUnlessReplaced` | With UUIDs that a new job may reuse, two clients scoped to different machines, and two UUIDs, a log line or a served log belongs to a job the caller may not touch only when the job the request's first lookup found was deleted before its second. 5 129 099 states, with symmetry over the UUIDs and over the client/machine pairs. |
| job_log_reuse | `MCJobLog_reuse.cfg` | `LogAuthorized` (violation) | c1 passes auth on its job; c2 deletes it and creates a job for m2 under the same UUID; c1's line lands in m2's log. |
| task_cascade | `MCTaskLifecycle.cfg` | `TypeOK`, `TaskStageCascade` | Task writes, refused writes, removals and stage and machine edits with two tasks, one stage and one machine keep every stage's last validation equal to the index. 256 states. |
| arch_validate | `MCBootEnvArch.cfg` | `TypeOK`, `AvailableSane` | Over every bootenv and environment of the domain, an Available bootenv has an OS.Name when it netboots, and a kernel for each arch. 430 080 states. |
| arch_available | `MCBootEnvArch_availablebootable.cfg` | `AvailableBootable` (violation) | A bootenv with no kernel file and no install repo is Available. |
| param_resolution | `MCParamResolution.cfg` | `TypeOK`, `AggregationOrder`, `SecureRoundTrip` | The check covers every store, with two param names, a machine listing up to two of {p1, global, a dangling name}, its stage (existing with up to one profile, dangling, or none) and every plain/Secure/undefined Param. It also covers every key state `PrivateKeyFor` and `DeleteKeyFor` reach. `GetParams` and `GetParam` return the first hit in the order of spec 4.6 with its source. They return a Secure value in the clear whenever its source still has the key it was encrypted to. 1 263 600 states, with symmetry over the param names. |

The disagreements below are stated by properties of the same modules. Each
has a configuration beside the others, under which TLC finds its property
violated. They are kept as configurations, not as recorded runs, so that
the recorded runs hold one disagreement per code path that matters most.

| Config | Property | Shows |
|---|---|---|
| `MCRequestTracker_emptykey.cfg` | `NoEmptyKey` (violation) | `Save` stores the empty key. |
| `MCRequestTracker_patchkey.cfg` | `ViewConsistent` (violation) | With patches free to change the key, the event names the old key and the index holds the object under the new one. |
| `MCBootEnvLifecycle_prune.cfg` | `TreePruned` (violation) | Removing the last bootenv of an OS leaves its tree. |
| `MCIsoExplode_partial.cfg` | `CanaryTruthful` (violation) | Two saves start two workers for one arch. The first extracts and writes the canary, and the second extracts again and fails part way. A broken tree then sits behind a canary IsoExploders trusts. |
| `MCIsoExplode_loopvar.cfg` | `EventuallyAttempted` (violation) | With shared loop variables, a1's worker checks against a2's checksum and a1 is never extracted. |
| `MCIsoExplode_reextract.cfg` | `NoReExtraction` (violation) | Two saves start two workers for one arch, and the script runs a second time after the canary was written. |
| `MCJobLog_readreuse.cfg` | `ReadAuthorized` (violation) | The same sequence before `c.File`: c1 is served m2's log. |
| `MCBootEnvArch_everyrepobound.cfg` | `EveryRepoBound` (violation) | With repos for amd64 and arm64, only the first is bound. |
| `MCBootEnvArch_canarchbootasspec.cfg` | `CanArchBootAsSpec` (violation) | arm64 with its own initrd missing is bootable, because the top-level Initrds are checked. |
| `MCBootEnvArch_lookaside.cfg` | `LookasideAsSpec` (violation) | A bootenv with no top-level Kernel and arm64 bound to a repo with a BootLoc: every request, initrds included, is sent to the arm64 kernel. |
| `MCParamResolution_ciphertext.cfg` | `NoCiphertextReturned` (violation) | After `DeleteKeyFor` of the global profile, `GetParams` with decrypt makes it a new key, cannot open the stored ciphertext, and returns the ciphertext as the value. |

**Bounds.** Three threads are the smallest number in which two lock sets
overlap on more than one prefix in different declared orders. The
preference set declares preferences before bootenvs; the bootenv set
declares stages before bootenvs before tasks. An unsorted acquisition would
therefore deadlock, and the `DeclaredNextLock` mutant shows that it does.
`MaxOps = 2` lets a thunk write a key twice, or patch `k1` to `""` and
write `""` again, so a queue can hold two events
for one cell. That is the case `CellOK` handles with its
"latest pending event" clause. One value is enough: a write still differs from a delete, and a
key-changing Patch still leaves `""` stored and unseen; a second value takes
the run past five minutes. Only the `bootenvs` prefix holds data, because
a second data prefix takes the run past five minutes without adding a new
interleaving: writes to different prefixes commute. The run declares no
symmetry, because symmetry is unsound for the liveness property it checks.

The lifecycle model uses:

- two bootenvs, so that two bootenvs can share one OS;
- one of them an "-install" bootenv, so that their trees differ;
- two OSes, one of them served by an install repo;
- one machine and one stage.

That is the smallest instance with a reference of every kind.

The passing run benv_refs allows only `OnlyUnknown = false`, because
`DeleteGuard` really fails otherwise; `benv_onlyunknown` lifts it.

`MCIsoExplode` uses:

- three arches, each a different case for the code: a1's ISO matches its
  checksum, a2's does not, and a3 declares no checksum;
- three hash values, so that an initial canary can be stale;
- `MaxSaves = 2`, the fewest saves that start two workers for one arch.

`MCJobLog` uses two clients scoped to two machines and two UUIDs. That is
the fewest values for a UUID to pass from one machine's job to the other's
while a request is under way. `MCTaskLifecycle` has two tasks, so that a
write of one leaves the other's view untouched, one stage and one machine.
`MCParamResolution` has one profile besides the global one, and a dangling
name. Two slots in the machine's list let it name a profile twice, name
the global profile itself, and put two profiles in either order, which is
the [P1, P2] of spec invariant 5. The stage's one slot places a profile
between the machine's and the global one. Two param names let one call
resolve names from different sources and decrypt with different keys.
`MCBootEnvArch` enumerates every bootenv and environment of its domain.
This is an exhaustive check of the operators over that domain, not a
sample of it.

**Fairness** (rt_safety and iso_explode):

- `Acquire` has strong fairness. A Go `sync.Mutex` switches to starvation
  mode and hands the lock to a waiter that has waited over 1 ms, so a
  waiter whose lock is free infinitely often gets it.
- `Locked`, `EndBody`, `Drain` and `Release` have weak fairness. The Go
  scheduler keeps running a runnable goroutine, and each of these steps has
  no blocking operation.
- `Do` and `AllLocked` carry no fairness, because no request has to arrive.
- In `IsoExplode`, every worker has weak fairness (`FairSpec`). A started
  goroutine is runnable, and it blocks only on `explodeMux`, which every
  run releases. Saves carry no fairness.

Deadlock is checked in every run except the `IsoExplode` runs, which say
`CHECK_DEADLOCK FALSE`. That model really stops once `MaxSaves` saves have
happened and every worker has run. In every other model a new request can
always arrive, and `BootEnvArch` can always validate again.

**Mutants.** Each property of a passing run is broken by one plausible bug
in a mapped definition:

| Mutant | Bug | Breaks |
|---|---|---|
| `ReleaseBeforeDrain` | the locks are released before the drain | `ViewConsistentUnlessRenamed` |
| `InBodyOffByOne` | `<=` in the call bound | `TypeOK` |
| `DeclaredNextLock` | the locks are taken in declared order | `DoCompletes`, `CanonicalAcquisition` |
| `AcquireNoWait` | a mutex is taken without waiting for its holder | `AtomicDo` |
| `BeforeDeleteNoStages` | `BeforeDelete` loses its stage loop | `DeleteGuard` (the task version also breaks `TaskStageCascade`) |
| `PathForSwapped` | the path segments are joined in the wrong order | `TypeOK` |
| `IsoExplodersAnyCanary` | any canary, even a stale one, skips the arch | `EventuallyAttempted` |
| `explodeISONoCheck` | the SHA256 check is dropped | `CanaryTruthfulUnlessFailed` |
| `ExtractWrongCanary` | the canary is written with the wrong value | `TypeOK` |
| `LogAuthAlways` | `assureSimpleAuth` is dropped | `LogAuthorizedUnlessReplaced`, `ReadAuthorizedUnlessReplaced` |
| `PutLogAppendNoFind` | the second `rt.Do` does not find the job again | `TypeOK` |
| `KeysAfterOnly` | saving a new key replaces the whole secrets store | `TypeOK` (ParamResolution) |
| `AggSourcesLastWins` | a later sub-object overrides an earlier one | `AggregationOrder` |
| `DecryptWithObj` | values are decrypted with the queried object's key | `SecureRoundTrip` |
| `TaskWriteEarly` | the stages are revalidated before the write, not in `RunAfter` | `TaskStageCascade` |
| `StampedClean` | the stored copy loses a field | `TypeOK` |
| `KernelErrorNever` | the missing-kernel check of `regenArches` is dropped | `AvailableSane` |
| `FillInstallReposRaw` | the repo is bound under its Arch as written | `TypeOK` |

## 4. Findings

Findings 1, 4, 5, 10 and 14 are the recorded violation runs and are
listed in `PROJECT.json`. The others come from the further configurations
of section 3.

1. **Events are delivered under the locks** (`requestTracker.go:36`).
   `unlocker` runs the queued publications before `u()`, so a subscriber
   that locks the same prefix deadlocks. The order also contradicts spec 4.4
   and testable property 4. What subscribers see is still consistent
   wherever no key-changing Patch intervened (`ViewConsistentUnlessRenamed`
   holds and is proved).
2. **`Save` skips the key checks** (`requestTracker.go:437`). It accepts the
   empty key, which `Create` refuses.
3. **`Patch` can change the key** (`requestTracker.go:390`). A patch that
   rewrites the name stores the object under the new key, leaves the old
   entry, and publishes an update for the old key.
4. **`BeforeDelete` skips the reference checks for OnlyUnknown bootenvs**
   (`bootenv.go:545`). It skips the machines and stages checks and looks at
   one preference only. Setting OnlyUnknown and then deleting breaks spec
   invariant 4.
5. **The stage cascade sees the old bootenv** (`bootenv.go:629`).
   `AfterSave` runs before `idx.Add`, so the stages are revalidated against
   the bootenv being replaced.
6. **`AfterDelete` never prunes** (`bootenv.go:573`). It counts the deleted
   bootenv among those of its OS, so `DelDynamicTree` is unreachable.
7. **The ISO workers capture the loop variable** (`bootenv.go:427`). The
   closure reads `archInfo.Sha256` when it runs. Built with Go before 1.22
   (the repository pins no Go version), every worker of a save checks its
   ISO against the checksum of the arch the loop visited last. An arch
   whose ISO matches its own checksum is then never extracted (`MCIsoExplode_loopvar.cfg`).
8. **The canary is checked too early** (`bootenv.go:409`). `IsoExploders`
   reads it in the saving request, and `explodeISO` does not read it again
   under `explodeMux`. Two saves before the first extraction ends run the
   script twice for one arch, which contradicts the spec's glossary
   (`MCIsoExplode_reextract.cfg`).
9. **A failed re-extraction hides behind the canary** (`bootenv.go:388`).
   When that second run fails part way, the tree is broken but the canary
   from the first run holds the declared checksum, so no later save
   repairs it (`MCIsoExplode_partial.cfg`). The script's behaviour is modelled from the
   spec.
10. **`PUT /jobs/:uuid/log` writes to a job it did not authorise**
    (`jobs.go:571-590`). `POST /jobs` keeps a client-given `Uuid`
    (`jobs.go:301`). Between the handler's two `rt.Do`, the job can be
    deleted and recreated for another machine, and the line lands in that
    job's log (`job_log_reuse`).
11. **`GET /jobs/:uuid/log` serves a file it did not authorise**
    (`jobs.go:517`). `c.File` runs after the lock is released
    (`MCJobLog_readreuse.cfg`).
12. **`fillInstallRepos` binds one repo** (`bootenv.go:332`). It returns
    after the first usable repo, while spec 4.7 step 3 binds every arch's
    repo (`MCBootEnvArch_everyrepobound.cfg`).
13. **`canLocalBoot` checks the wrong initrds** (`bootenv.go:212`). It
    checks the top-level `Initrds` under every arch, so an arm64 arch with
    its own initrd missing is bootable (`MCBootEnvArch_canarchbootasspec.cfg`).
14. **`Validate` never checks the boot files** (`bootenv.go:451-507`). No
    caller in `src/` calls `canLocalBoot` or `CanArchBoot` from
    validation. A bootenv whose kernel is missing and that has no install
    repo becomes Available, against spec invariant 3 and scenario S1
    (`arch_available`).
15. **The lookaside tests the top-level kernel** (`bootenv.go:311`). The
    closure compares each request with `b.Kernel` under every arch. A
    bootenv with only SupportedArchitectures has an empty `b.Kernel`, which
    every path ends with, so all its files are sent to the kernel at
    `BootLoc`. Requests for an arm64 kernel named differently go upstream.
    Spec 4.8 rewrites a request for the declared kernel or an initrd to that
    file (`MCBootEnvArch_lookaside.cfg`). For amd64 from the top-level fields,
    scenario S6, the lookaside agrees with the spec. This was checked over
    the same domain.

What holds, besides these:

- the task cascade (`task_cascade`, proved);
- log access whenever the request's job was not deleted between its two
  lookups (`job_log`, proved);
- the canary, except next to a tree a failed script run left
  (`iso_explode`, proved);
- parameter resolution in the spec's order and the Secure round trip
  (`param_resolution`).

`decryptParam` returns a stored ciphertext unchanged, without an error,
when the source's current key does not open it
(`MCParamResolution_ciphertext.cfg`). This happens after `DeleteKeyFor`.
Spec invariant 6 covers only values encrypted to the current key, so this is
not recorded as a finding. `DeleteKeyFor` has no caller in `src/`.

## 5. Proofs

`RequestTrackerProofs` proves, for all constants satisfying `RTAssumption`:

- **`TypeCorrect`**: `Spec => []TypeOK`. The proof has one case per action,
  with lemmas `CommitType` and `CrudType` for the CRUD calls.
- **`ViewConsistency`**: `Spec => []ViewConsistentUnlessRenamed`, for every
  `PatchKeys`. The history variable `renamed` records the keys a
  key-changing Patch touched (both the stored key and the one its event
  names) and drops a key again when a later write's event names it. The
  invariant is not inductive. A thread in its body has changed the index
  but not the view. The strengthening `IInv` says:
  - `IdleHoldsNothing`: an idle thread holds no lock and has an empty queue;
  - `AcquiringQueuesNothing`: a thread still acquiring has queued nothing;
  - `LockedHoldsAll`: in the body or the unlocker, a thread holds its whole
    lock set;
  - `QueuedUnderLock`: every queued event is for a prefix its thread holds;
  - `CellConsistent`: for each cell `(p, k)` with `k` not in `renamed[p]`,
    either its lock is free and
    view equals index, or its holder has no pending event for it and view
    equals index, or the holder's latest pending event for it carries the
    current index value.

  `CommitStep` covers an event naming any key: a write whose event names
  its own key becomes the key's latest pending event, and one whose event
  names another key puts both keys in `renamed` and leaves every other
  key's queue and store alone.
  `IInv` was model-checked first (184 314 states). Then `IInvInit`, one
  lemma per kind of step (`CommitStep`, `DrainStep`, `ReleaseStep`,
  `AcquireStep`, `ControlStep`, `CrudStep`, `OpsOnlyStep`) and `IInvStep`
  were proved. The theorem follows by PTL from `CellOK` at every key
  outside `renamed`.
- **`CanonicalAcquisitionHolds`**: `Spec => []CanonicalAcquisition`. The
  invariant `LockOrder` says that an idle tracker holds nothing, and that an
  acquiring one holds only locks of its set, each ranked below every lock it
  still waits for. `Acquire` preserves it because of the lemma
  `NextLockLeast`: `NextLock` is a least-ranked lock still to take. The
  lemma's least element comes from `WFMin` and `NatLessThanWellFounded`,
  because `<` is well founded on `Nat` (`Rank` maps into `Nat`). Another
  tracker's `Release` only frees locks, and its `Acquire` takes a lock that
  was free, so neither changes what this tracker holds.
- **`AtomicDoHolds`**: `Spec => AtomicDo`, the refinement. `RInv` adds two
  facts to `LockOrder`. `RunHeld`: a tracker in its body or its unlocker
  holds exactly its lock set. `WantSet`: a tracker that is not idle wants a
  set of `LockSets`. `StepRefines` has one case per action:
  - `Locked` is `RA!Begin(t, want[t])`. Every lock of the set is owned by
    `t`, which is not yet running, so the abstract owners are all `NoThread`.
    `LockOrder` shows that `t` holds no lock outside the set.
  - A committed CRUD call is `RA!Write` (lemma `CrudRefines`). The prefix
    is in `want[t]`, which `RunHeld` says `t` holds.
  - `Release` is `RA!End(t)`.
  - `Acquire` is a stutter, because the lock was free and the acquiring
    tracker does not run.
  - Every other step is a stutter (lemma `Stutter`).
  `RInv` was model-checked on the rt_safety instance. `InitRefines`,
  `RInvStep` and `StepRefines` give the theorem by PTL.

`BootEnvLifecycleProofs` proves, for all constants satisfying
`BELAssumption`:

- **`TypeCorrect`**: `Spec => []TypeOK`.

`DeleteGuard` is not proved: it fails once a bootenv is OnlyUnknown
(`benv_onlyunknown`), so it is checked by TLC over the instance where no
write sets OnlyUnknown, and not stated as a theorem under that assumption.

`TaskLifecycleProofs` proves, for all constants satisfying
`TaskAssumption`:

- **`TypeCorrect`**: `Spec => []TypeOK`, with the lemma `StampedType` for
  the stamp of `BeforeSave`.
- **`CascadeHolds`**: `Spec => []TaskStageCascade`. The inductive invariant
  is `IInv == TypeOK /\ TaskStageCascade`. `TypeOK` is needed because the
  step proof reasons about function values over `Names`. A task write
  recomputes exactly the listing stages' views from the new index. For any
  other stage, the lemma `ViewFrame` shows that a write of a name the stage
  does not list leaves its view unchanged. `Remove` is allowed only for a
  name no stage lists (`BeforeDelete`), so the same lemma applies.

`JobLogProofs` proves, for all sets of UUIDs, machines and clients and
every scope:

- **`TypeCorrect`**: `Spec => []TypeOK`.
- **`LogAuthorizedHolds`** and **`ReadAuthorizedHolds`**:
  `Spec => []LogAuthorizedUnlessReplaced`, and the same for reads, with
  UUIDs reused freely. The history variable `replaced` holds the clients in
  the middle of a request whose found job has since been deleted, and each
  recorded line or read carries whether its client was in it. The
  invariants are not inductive: a request past its auth check acts on
  whatever job holds its UUID when it resumes. The strengthening `IInv`
  adds two conjuncts:
  - `LookupStable`: a pending request not in `replaced` finds its UUID
    holding the job of the machine it saw. Deleting that job puts the
    client in `replaced`, and a new job can take the UUID only after that
    delete;
  - `AuthPassed`: a request about to append or serve passed
    `Authorized` for the machine it saw.

  The lemma `LandsAuthorized` combines them: a request that is not in
  `replaced` acts on a job it is authorised for. `IInv` was model-checked
  first on the job_log instance. `IInvInit` and `IInvStep`, one case per
  action, give `Invariance` by PTL.

`BootEnvArchProofs` proves **`TypeCorrect`** (`Spec => []TypeOK`). The type proof needs the lemma `FirstUsable`,
that the `CHOOSE` in `FillInstallRepos` picks a usable repo. That lemma
rests on `LeastIndex`: a nonempty set of naturals has a least element, from
`WFMin` and `NatLessThanWellFounded`. `ValidateType` puts `Validate`'s
result among the `Outcomes`. It also proves **`AvailableSaneHolds`**:
`Spec => []AvailableSane`, for every bootenv, environment and set of
supported arches. The invariant `Recorded` says the outcome is `NotYet` or
`Validate(be, env)`. It is inductive because no step changes the bootenv or
the environment. `AvailableSane` then follows from the order of checks in
`Validate`: the `regenArches` error withholds Validated, and the OS.Name
check withholds Available.

`IsoExplodeProofs` proves **`TypeCorrect`**: `Spec => []TypeOK`, whether or
not the script may fail. The bound `extractions[a] <= MaxSaves` is not
inductive. The strengthening `Counted` says:

- each pending worker has a save number no greater than `saves`;
- a save number and an arch identify at most one pending worker;
- `extractions[a]` plus the number of pending workers for `a` is at most
  `saves`.

A save adds one worker per arch and raises `saves` by one. A worker that
runs moves one from the pending count to `extractions`. The counting uses
`FS_Subset`, `FS_AddElement` and `FS_RemoveElement` through the lemma
`SavesInFinite`. So explode_iso.sh runs at most once per save for each arch.
It also proves **`CanaryTruthfulHolds`**:
`Spec => []CanaryTruthfulUnlessFailed`. It holds for every set of arches
and checksums and every bound on the saves, with either value of
`PerIterationLoopVars` and of `ScriptMayFail`: a canary holding its
arch's declared checksum sits next to a complete tree of that ISO unless
the tree is `Partial`. The strengthening `IInv` has three parts:

- `Typed`: the parts of `TypeOK` the proof needs;
- `CanaryTree`: a canary holding a checksum sits next to the tree of that
  ISO or a `Partial` one, and an empty canary next to a complete or a
  `Partial` tree;
- `PendingIso`: every started worker's ISO is on disk.

`PendingIso` is needed because a worker handed `NoSha` writes an empty
canary. That canary counts as trusted for an arch that declares no checksum,
so the tree it writes must be a complete extraction. A worker with a
captured checksum of another arch passes the check only when that checksum
is its own ISO's, so the shared loop variable cannot break `CanaryTree`.
A failed run leaves the canary as it was and the tree `Partial`, which
`CanaryTree` allows. `IInv` was model-checked first on the iso_explode
instance (38 851 states). The strict `CanaryTruthful` fails
(`MCIsoExplode_partial.cfg`); the theorem says that the broken tree is the
only way it fails.

`ParamResolutionProofs` proves **`TypeCorrect`**: `Spec => []TypeOK`. The
lemma `KeysAfterType` says that `PrivateKeyFor`'s save keeps every other
object's key.

It also proves **`AggregationOrderHolds`** and **`SecureRoundTripHolds`**.
Neither needs a strengthened invariant: both follow from `TypeOK` in every
state. The work is in what the two folds compute, for lists of any length:

- `FoundType`: `Found` of any list is a list of profiles. The proof shows
  that a solution of the fold's equation exists (`SelPartial` extends a
  partial solution, index by index) and that `Found` is that solution.
- `AggSourcesHit`: `AggSources(subs)[k]` is `Hit(subs, Len(subs), k)`. That
  is the machine if it has `k`, else the first sub-object with `k`, else
  `Missing`. `AggRefIsFold` shows that the table of `Hit` values solves the
  fold's equation. `AggUnique` shows that the equation has one solution: at
  the least index where two solutions differ, both take the same step from
  equal predecessors. The step is "a later object only fills names still
  missing", so the least index with `k` wins.
- `FirstHitIs`: that object is `FirstHit` of the machine followed by
  `subs`, the spec's order. Index `i` of `subs` is index `i + 1` there.

The induction is over the index of the list. It is done as a least
counterexample, by `WFMin` of `WellFoundedInduction` applied to the set of
failing indices. The library's induction rules would need an operator
parameter, and the installed provers cannot instantiate one. `SecureRoundTrip`
then follows by unfolding `Decrypt` at the object `Sources` names and
`KeysAfter` for the key states.

What stays with TLC:

- liveness (`DoCompletes`, `EventuallyAttempted`), since TLAPS does not
  reason about fairness or ENABLED here;
- the violation runs;
- `DeleteGuard`, which holds only while no bootenv is OnlyUnknown;
- the strict `ViewConsistent`, `LogAuthorized`, `ReadAuthorized` and
  `CanaryTruthful`, which fail in the code; the theorems prove the exact
  conditions under which they hold;
- the `Lookasides`/`PathFor` abstraction of `BootEnvLifecycle`, beyond what
  the type proof covers;
- the refinement's liveness. `AtomicDo` is a safety refinement, and
  `RequestTrackerAtomic` has no fairness.

No module with a theorem reaches a RECURSIVE operator.

## 6. Not modelled, and the plan

Not modelled:

- **Generated code** (`models/`, `restapi/`): binding and responses, with no
  state.
- **Key arithmetic**: Curve25519 and the secrets-store I/O; `ParamResolution` models only which key each object has.
- **Read-only calls** (`Find`, `RawFind`, `FindByIndex`, `urlFor`,
  `ApiURL`, `FileURL`, `SealClaims`, `MachineForMac`): they change no state.
- **Renderer registration and template merging**: the renderers are
  rebuilt in each validation and have no cross-step property here.

Not yet modelled:

- **Parameter resolution for objects that are not Machines**:
  `getAggParams` reads Profiles and Stage only for the three Machine types.
  For a Profile or Stage it adds the global profile alone.
- **A failing secrets store**: `PrivateKeyFor` panics in `decryptParam`, and
  the deferred unlocker still releases the locks.
- **The lookaside's data race** (`bootenv.go:306`). The closure reads
  `b.installRepos` from file-server goroutines. Modelling that needs the
  file server, which is outside `src/`. The URL rewriting is the operator
  `Lookaside` in `BootEnvArch`.
- **`GET /jobs/:uuid/actions`** and the other read-only job handlers: each
  reads one job under one `Do` and renders it.

Planned, in order:

1. Composing `TaskLifecycle`'s `RunAfter` thunks with the RequestTracker
   queue.
2. `fillInstallRepos` reading `package-repositories` through `GetParam`,
   composed with `ParamResolution`.
3. A property that no tree outlives every bootenv of its OS and name
   after an update changes them (`bootenv.go:651`).
