# A formal model of terraform-provider-k8sconnect

k8sconnect is a Terraform provider that manages Kubernetes objects with
server-side apply (SSA). What makes it hard is not any single call but that
nothing is a transaction: Terraform's state, the plan, the annotation that marks
the owner, `metadata.managedFields`, and a private state that outlives each run
are read and written by separate API calls, while other Terraform runs,
controllers and `kubectl` act in between.

These modules model that core in TLA+, check it with TLC on small instances, and
prove the invariants that matter most with TLAPS for instances of any size. Paths
below are relative to `internal/k8sconnect/`.

## 1. Inventory

| Component | State it keeps | Operations | Interacts with | Hard part | Correct when |
|---|---|---|---|---|---|
| `k8sconnect_object` handlers (`resource/object/crud.go`, `apply.go`, `context.go`, `deletion.go`, `import.go`) | Terraform state: id, projection, managed fields; private state: pending projection, stale read, imported-without-annotations, ownership baseline | Create, Read, Update, Delete, ImportState | API server (Get, Apply, Delete, discovery); other instances through the annotation | check-then-act between handlers; lost responses; crashes; missing CRD or namespace | no object is orphaned or taken from its owner; a protected instance is never dropped; handlers return |
| Planning (`plan_modifier.go`, `identity_changes.go`, `projection.go`) | none of its own; reads state, private state | ModifyPlan: dry run, projection, conflict detection, preservation of the state | API server (dry run, Get), the framework's consistency checks | prediction must equal the result; stale state after an expired token | plans hide no drift, predict what apply returns, converge |
| Field ownership (`managed_fields.go`, `common/ownership`, `common/fieldmanagement/ownership.go`) | ownership baseline | flatten, scope, classify | `managedFields` of the API server | co-owners, forced takeovers, ignored fields | a takeover is warned of; ignored fields stay with their controllers |
| Field paths and merge keys (`common/fieldmanagement/paths.go`, `mergekeys.go`, `projection.go`) | none | encode, parse, resolve, filter | every component above | keyed lists, dotted keys | a path names one field |
| `k8sconnect_wait` (`resource/wait`) | result, status | Create, Update, Read, Delete | watcher goroutine, API server | event, timer and reconnect race | no version is missed; timeouts are honest; waits and goroutines end |
| Resilient watcher (`common/k8sclient/client.go:504-590`) | resourceVersion, stop channel | Watch, Stop | API server's watch, the wait that reads the channel | reconnects without a gap; unbuffered hand-over | every version after the first is delivered in order or superseded |
| `k8sconnect_patch` (`resource/patch`) | content, projection, managed fields | ModifyPlan, Create, Read, Update, Delete | other field managers, other patches, the Patch API | a refresh that writes; three ways to compare; a dry run under another name | drift is corrected, the state names what it owns, plans settle and predict |
| Retry loop (`common/k8sclient/retry.go`) | attempt, time, last error | withRetry | every API call; itself, around discovery | nested loops, cancellation with a request under way | attempts and time are bounded; nothing goes on for long after a cancellation |
| Client cache (`common/factory`) | map of clients, a read-write lock | GetClient | every handler, concurrently | double-checked locking | one client per key; every handler gets the lock |
| Warnings (`common/k8sclient/warnings.go`, `warnings_helpers.go`) | a list of texts per client | collect, surface | every handler of a connection | the collector is shared | no warning is lost between two handlers |
| Error classification (`common/k8serrors`) | none | predicates, texts | branches of the handlers | wrapped and textual errors | each error takes the branch meant for it |
| Connections, validators, data sources, state upgrade, provider | none that an operation depends on | | | | |

Section 7 says what is left out of the model, and why.

## 2. Modules

| Module | Models | Rests on |
|---|---|---|
| `ObjectLifecycle` | Create, Read, Update, Delete and import of several instances that name one object | |
| `OwnershipContract` | what the ownership annotation promises (abstract) | |
| `MCObjectLifecycle`, `MCContract` | instances for TLC; the refinement mapping to the contract | the two above |
| `ObjectLifecycle_proofs` | proofs | `ObjectLifecycle` |
| `Contract_proofs` | proofs about handlers that do not overlap; the refinement | `MCContract`, `ObjectLifecycle_proofs` |
| `ResilientWatcher` | the watcher goroutine, half of each hand-over | |
| `WaitResource` | the handlers of `k8sconnect_wait`, composed with the watcher | `ResilientWatcher` |
| `WaitResource_proofs` | proofs | `WaitResource` |
| `PlanApply` | the fields of one object through refresh, plan and apply | |
| `MCPlanApply` | symmetry for TLC | `PlanApply` |
| `PlanApply_proofs` | proofs | `PlanApply` |
| `PatchResource` | `k8sconnect_patch`: several patches of one target | |
| `MCPatchResource` | contents and symmetry for TLC | `PatchResource` |
| `PatchResource_proofs` | proofs | `PatchResource` |
| `ClientCache` | `GetClient` under its read-write lock | |
| `RetryLoop` | one call of the API: its requests, the loops around them, time, cancellation | |
| `ProviderCalls` | a request of Terraform from its client to its diagnostics, with the shared warnings | the two above |
| `MCProviderCalls` | connections, keys and calls for TLC | `ProviderCalls` |
| `ClientCache_proofs`, `RetryLoop_proofs` | lemmas: a step of the cache, a step of a call | their modules |
| `ProviderCalls_proofs` | proofs | all of these |

`ObjectLifecycle` and `PlanApply` look at the same handlers from two sides: the
first has many instances, ids, crashes and retries and takes the projection for
one of "none", "empty", "full"; the second has one instance and looks into the
projection, field by field and manager by manager.

### ObjectLifecycle

`obj` is the object in the cluster (is it there, whose annotation does it carry,
is it being deleted, has it a finalizer), `dep` the CRD and namespace it needs,
`st[r]` the Terraform state of instance `r` with its private flags, `pc[r]` the
API call the instance's handler makes next, `mem[r]` the handler's local
variables (`ResourceContext`). One action is one API call and all the code up to
the next: `CreateCheck` is `checkResourceExistenceAndOwnership`, `ApplySucceeds`
the forced apply, `CreateProject` the projection with its recovery (ADR-006),
`DeleteRecheck` the second ownership check, `ForceGet`/`ForceApply`/`ForceDelete`
the force destroy, and so on; `HandlerStep` puts them in order. Calls may fail
(`CallFails`), lose their response (the call takes effect and is sent again, `Resend`), meet an expired
token, or the process may die. `DeleteWait` and `ForceWait` are one poll of
`waitForDeletion` each: `mem[r].polls` counts them, `PollsOn` is a poll before the deadline,
which the loop looks at only after the poll (`deletion.go:258-301`); a Get that fails is
logged there and polled again. A starting Delete that cannot discover the kind drops the instance,
whatever the discovery's error was, an expired token included (`context.go:78-88`,
`crud.go:369-376`). `given` is history: the id of the object at the
time a handler last returned or died leaving it behind.

`OwnershipContract` knows only the id on the object (`owner`, `Absent` without one), the
id each instance has in its state (`book`) and the id each Create works with (`making`).
`MCContract` maps the model to it: the annotation of the live object, `st[r].id`, and
`mem[r].id` while `r` is in Create.

### ResilientWatcher and WaitResource

`hist` is the sequence of versions of the watched object, each of them meeting
the wait, not meeting it, or absent. `wpc`, `wrv`, `wpos` are the goroutine's
position, its `ResourceVersion` and the last version delivered; `stopped` and
`cancelled` are the stop channel and the request's context. `SendsVersion` and
`SendsError` are the sending half of a rendezvous; `Receive`, `ReceiveError` and
`ReceiveClosed` of `WaitResource` the other half. The handler's phases
(`exist`, `appear`, `check`, `open`, `watch`, `poll`, `result`) are
`performWait`, `waitForExistence`, the first check, `watchForCondition`,
`processWatchEvents`, `pollFor...` and `updateStatus`. A field, a field value
and a rollout wait share their control and differ from a condition wait, which
watches from the version of a second Get.

Time counts poll intervals and passes only in a waiting phase; a due timer
fires before time goes on.

### PlanApply

Fields are independent leaves. `obj.val` and `obj.by` are values and owners;
`Applied` is what the API server does on a forced apply: the manager becomes an
owner of what it sends (the only one if it changes the value), gives up what it
no longer sends, and a field goes with its last owner. `conf`, `state` and `plan`
are the configuration, Terraform's state with the baseline and the stale flag,
and the planned state. `Refresh` is Read, `DryRun` the dry run with its
projection, `PlanGet` the live Get with conflict detection, the comparison and
`checkDriftAndPreserveState`, `Apply` and `Save` the two halves of Create and
Update. `calm` is history: whether anybody has written since the last Read, dry
run or completed apply. An attribute without any effect on the object
(`cluster`, `delete_protection`, ...) is the boolean `other`.

### PatchResource

`obj` is the target, with values and owners as in `PlanApply`; `conf[p]`, `st[p]`
and `plan[p]` are configuration, Terraform state and planned state of patch `p`,
`pc[p]` and `mem[p]` its handler. A patch of kind `ssa` (attribute `patch`) is a
forced apply with the manager `k8sconnect-patch-<id>`; a `raw` one (`json_patch`,
`merge_patch`) goes through the Patch API, which gives its manager what the call
changed and takes nothing away. The fields in `Hidden` are elements of keyed
lists: `projection.go:67` has no path for them, and `collectValueDrift`
compares lists whole, so a partial list always differs.

* `PlanGet`, `PlanMissing` and `PlanBlind` are the three ways through ModifyPlan: a
  dry run (apply only), a target or CRD that is not there, a content with `${` in it
  or an unknown connection. `Planned` is `checkDriftAndPreserveState`. The plan of the
  model is the one Terraform makes when it applies.
* `CreateGet`, `CreateApply`, `CreateBack` are Create's Get with the ownership check, its
  patch, and the read-back; `ReadGet`, `ReadApply`, `ReadBack` are Read, which writes
  when values have drifted; `UpdateGet`, `UpdateApply`, `UpdateFresh` are Update. Each
  has a failing twin, and a failing apply may have taken effect. `Delete` touches
  nothing but the state.
* `calm[p]` is history: nobody else has written since the state of `p` was in step with
  the target; `quiet[p]` the same since the last write of `p`'s own handler; `plan.sound`
  that a prediction is of the present object; `left` has the ids that a Delete or a failed
  Create abandoned on the target.

### ClientCache, RetryLoop and ProviderCalls

`cache` is the factory's map, `readers` and `writer` its `sync.RWMutex`, `get[h]` the call
of `GetClient` of handler `h`, one action per locked section. `KeysOf` gives a connection
several keys: `generateCacheKey` walks the map of an exec plugin's environment in the random order
of Go. Clients carry a number, so that two clients of one connection differ.

`RetryLoop` is written as operators on the record of one call: the place in its
requests, the attempts of the outer and the inner loop, the time, and
whether its context is done. `Requests` has the requests of each kind of call; "gvr" and
"scope" are discovery requests, each in a `withRetry` of its own inside the attempt
(`client.go:138`, `:175`, `:325`). `Continuations` is one step of `withRetry`: the loop head with its
looks at clock and context, the request, the classification of its error, the backoff.
Errors keep what `isRetryableError` tells apart: after the inner loop has wrapped an
error, a server error is no longer recognised (`retry.go:208` is a type assertion), while
the text of a discovery 404 is.

`ProviderCalls` composes them: `Arrives` (`SetupClient`), `GetsClient`, `CallsServer`, `Works` (a
step of the call, its answer with any warnings), `Surfaces` and `Returns`, and `Cancel`, which ends the
contexts of all requests, as an interrupt of Terraform does. `collected` is the collector of each
client, `unheard` history: the warnings of `h`'s own requests that nobody has reported yet. One request
of Terraform makes one call here: the loop knows nothing of the calls before.

## 3. Runs

| Run | Question | Result |
|---|---|---|
| `faulty` | two force-destroying instances, overlapping handlers, failing calls, lost responses, crashes, kubectl: is every object still accounted for, does a pending projection force a diff, do ids stay? | holds |
| `dependency` | CRD and namespace come and go, calls fail, tokens expire: may an instance leave the state only for a reason? | holds, with the exceptions `DropJustified` names |
| `reliable` | the API answers after lost responses, with valid tokens; handlers overlap: is nothing left behind? | holds |
| `serial` | two force-destroying instances, one handler at a time, faults and crashes: does Create take nothing over, Delete touch nothing foreign, does every handler return? | holds, the last under fairness |
| `contract` | two instances, plain and protected, calls that are answered, CRD, namespace and kind come and go, kubectl strips and deletes: do handlers that do not overlap implement `OwnershipContract`? | yes |
| `wait` | failing Gets and watches, reconnects, cancellation: what may a wait miss and report, does it end, and its goroutine? | holds under fairness |
| `plan` | imports, ignored fields, expired tokens, failing Gets, plans without a dry run, two other managers: what may a plan hide, mispredict, take? | holds |
| `patch` | one patch that changes content and kind, on a target that another manager writes, shares, deletes, creates and adopts; calls fail, responses are lost, plans are blind: what does the state say, what do plans keep and predict? | holds |
| `calls` | two requests at once, a good and a broken connection, calls with and without nested loops, every kind of error, cancellation: what do the locks guard, what does a call cost, is every warning reported and every request answered? | holds under fairness |
| `plan_yaml_violation` | `plan_modifier.go:210`: the state's YAML is kept "since no actual changes will occur" | refuted |
| `plan_ignored_violation` | ADR-009: plan and apply agree on `managed_fields` with ignored fields | refuted |
| `patch_conflict_violation` | `plan_modifier.go:315` of the patch: "Prevent multiple patches on the same fields" | refuted |

`calls` checks for deadlock: nothing there is bounded by a counter, so a state
without a step would be handlers that wait for each other's lock. The others do
not: a provider whose bounded environment has used up its events rightly stops.

### What the refuted statements mean

* **The plan keeps an old YAML** (`resource/object/plan_modifier.go:208-211`). If the
  projections agree and both bodies have the same *fields*, the plan takes the
  state's YAML; the *values* are not compared. After an import, if the object
  then changes to what the configuration asks for, projections agree, the
  first Update (it has owners to change) applies the imported values, undoes the
  change, and fails the consistency check. The same happens when an Update's
  Apply succeeded and its Get failed, or after a stale read. `PlanKept` excludes
  such plans (`plan.yaml # conf.yaml`); `OnlyConfiguredTaken` shows that they
  never take *ownership* of more fields than configured.
* **Ignored fields after Create** (`apply.go:201-204`, `plan_modifier.go:224-226`).
  Create sends ignored fields, Update does not. Any first Update whose plan kept
  `managed_fields` drops k8sconnect's ownership: the value goes (or returns to
  its default) unless somebody else owns it, and the result lacks an entry the plan
  promised.
* **Two patches of one field** (`resource/patch/plan_modifier.go:315-354`). The check asks
  `ExtractManagedFieldsMap`, which knows only the manager `k8sconnect`; the owner it
  looks for is never another patch. The second patch takes the field by force, and from
  then on each refresh of either finds drift and takes it back (`crud.go:166`). The run has
  two patches, no faults and no edits.

## 4. Bounds, and why they suffice

* Instances 2, ids 2 or 3: a conflict needs an owner, a rival, and
  an id that neither remembers; ids are reused as soon as nobody remembers them,
  so behaviours are not cut short. `MaxRetries = 1`, `MaxDepTries` 1 or 2: one repeat
  tells "sent twice" from "sent once"; the loops differ in nothing else. `MaxPolls`, the polls of a
  wait until its deadline, is 1 where no property is about waiting and 2 elsewhere: a poll
  after which the wait goes on and one after which it does not. The proofs hold for every value.
* `contract` has the options, faults and edits under which the contract holds
  (section 6 has what goes wrong with each of the others) and every state of the dependency;
  three ids give each of two instances one and leave a fresh one for Create.
* `MaxVersions = 3`, `Timeout = 1`: an unmet, a met and a later version, and every
  order of event, timer and reconnect; the safety part is proved for any number.
* `patch`: one visible and one hidden field, four contents (either field or both, and
  either value of the visible one), both kinds, one other manager and `MaxEdits = 3`: a
  change of kind, one of content and one by another manager. One patch: to it another patch is one more manager that
  writes and shares, which kubectl does here. Two ids, so that the patch can be created
  again beside what it left.
* `calls`: two handlers on a good and a broken connection; one applies or discovers, the
  other patches and surfaces nothing. Get is left out: its two requests are the last
  two of an apply. `MaxRetries = 1` gives each loop a first and a last attempt. Requests take
  no time or the longest, 2; `TotalTimeout = 2` is one such request or two backoffs, so
  that the clock just does or does not run out in either loop. How many calls are
  made is not bounded. The proofs hold for every value.
* `plan`: two fields (one the subject, one that keeps the object alive), two values, one
  manager of each kind, `MaxEdits = 2` changes by others: enough for change,
  adoption in the configuration and a second change by another manager.
  Fields and values are symmetric.

## 5. Fairness

* `ObjectLifecycle!FairSpec`: weak fairness of each instance's `HandlerStep`. Go
  runs a handler that has been called; nobody has to call one. All loops
  of a handler, the resends, the attempts for a missing dependency and the two waits for a
  deletion, end by counters of their own, whatever the object and the calls do: `HandlerReturns` assumes
  nothing of the API server but that each call is answered or fails.
* `WaitResource!FairSpec`: weak fairness of the handler, of time, and of the
  goroutine's own steps; the context of a request ends once the request is over
  (gRPC cancels it), and client-go closes the watch of a context that is done. The
  API server need not send or close anything: without `Cancel` a stopped goroutine
  with a silent watch would never end, and one in the hand-over of an error
  (`client.go:557`) never does, which is why `WatcherOver` counts `senderr`.
* `ProviderCalls!FairSpec`: strong fairness of each handler's step. Requests end
  (`RequestTimes`); a backoff ends; and neither readers nor writers starve at a Go
  `sync.RWMutex` (a waiting writer keeps new readers out, and the readers that waited go
  first after it), so who can have the lock again and again gets it. With weak fairness a handler could
  wait forever while others take turns, which the lock does not allow.
* `PlanApply` has no liveness property: convergence is stated as an invariant of
  the next plan.

## 6. Proofs

All proofs are for every value of the constants, from the assumptions beside
them (`NoIdAssumption`, `BoundAssumption`, `OptAssumption`, `AbsentAssumption`; `VersionAssumption`,
`FailureAssumption`, `ModeAssumption`, `TimeoutAssumption`; `ManagerAssumption`, `ValueAssumption`,
`FaultAssumption`; `FieldAssumption`, `BodyAssumption`, `KindAssumption`, `IdAssumption`,
`OtherAssumption`, `FaultAssumption`; `KeyAssumption`, `NoneAssumption`, `BadAssumption`, `RetryAssumption`,
`HandlerAssumption`), which TLC evaluates in each run.

* **`Accounted`** (`ObjectLifecycle_proofs`): an object that carries an id is looked
  after by an instance with that id, unless a handler gave it up. Not inductive:
  a Create could have an id that is somebody else's, or a Delete could take a
  missing CRD for a missing object. `AccountedInv` adds `DependencyFirst` (no
  CRD, no object), `Sessions` (a handler works for the id in its own state) and
  `FreshUntilApplied` (a Create's id is its secret until it applies). One lemma per
  group of actions; each conjunct has its own argument.
* **`StepWrites`** (same module) says once what any step may write to any instance's
  state (`Writes`): nothing, a Created state with the handler's id, a refreshed or updated one,
  the stale flag, an imported one, or none at all. Hence `PendingForcesDiff`, and as action properties
  `IdStable`, `ProtectedStays` and `DropJustified`. The last two need what a Delete
  knows: **`OptionsKept`**, it works with the options of its own state, is
  not protected, and force-destroys only if told to.
* **`NothingAbandoned`** (same module) has the hypothesis `Reliable`: no call fails for good,
  no token has expired, no process dies, and no configuration has `force_destroy` or a `delete_timeout` of zero. These
  are exactly the ways out that the code has: a Create that gives up after its apply, a Delete
  that returns before the object is gone. One of these is an expired token: the discovery of a
  Delete then fails, the code takes the kind for deleted, and the instance leaves the state with its object
  alive (`context.go:78-88`, `crud.go:369-376`), so tokens have to be valid too. Lost
  responses, parallel handlers, kubectl and dependencies that leave are all allowed. With `Accounted`: each annotated object has
  its instance, without exception (`EveryObjectHasItsInstance`).
* **`Alone`, `DeleteAlone`, `CreateAlone`** (`Contract_proofs`) have the hypothesis `Serial`,
  `terraform apply -parallelism=1` with a locked state. Between the check of the
  annotation and the call that relies on it there is no lock and no precondition in the request
  (`apply.go:30`, `crud.go:419`), so with overlapping handlers both properties fail: what Delete has
  read about the owner goes on to hold at every later call, and Create's "not there" until its
  apply, only if nobody else acts. Hence `ForeignUntouched`; and, with nobody else *creating*
  the object between check and apply (`"create"` not in `Edits`), `CreateNeverAdopts`. Failing calls, lost
  responses and crashes are allowed in both.
* **`ContractKept`** (`Contract_proofs`): the refinement. `InitRefines` for the initial
  state; `StepRefines` maps each action to a step of the contract or to a stutter. `Orderly` is `Serial` and
  `Reliable`, without `"lost"` and `"create"`. None of it can go: TLC refutes `KeepsContract` with any one of these
  allowed. Two Creates that overlap both pass the check, and the second takes the first's object;
  kubectl's object, made after the check, is taken as well; a failing call or a crash after the apply leaves an object
  that no state names; an expired token has Delete drop an object that is there; force_destroy (in `ForceApply`) and delete_timeout "0" forget an object that is
  still there; and an apply sent again after a lost response claims an object that has just been stripped of its
  annotation. Protected instances, dependencies that come and go, kubectl's
  deletions and strips remain.
* **`WaitInv`** (`WaitResource_proofs`): `NoVersionSkipped`, `SuccessJustified` and
  `TimeoutHonest` need where goroutine and reader are relative to each other
  (`Positions`), that a wait resumes where it has looked (`Resumes`) and how late
  each phase can be (`Timers`). No timeout comes early, and a wait takes at most
  three timeouts and one poll interval.
* **`PlanInv`** (`PlanApply_proofs`): a plan ignores what the configuration ignores
  and sets the same fields, whichever YAML it kept; its warnings are those of the
  present object. From it: `OnlyConfiguredTaken`, `IgnoredUntouched` and
  `NoSilentTakeover`, each an action property of `Apply`.
* **`DriftInv`** (`PlanApply_proofs`) extends it: after a working refresh the state's
  projection is the object's, and the plan has the dry run's projection even when it kept the
  state's. Hence **`NoSilentDrift`**: when the refresh has worked, a plan without a difference has
  three projections that are one, so the object has what the configuration sets and k8sconnect
  owns nothing else. With a stale state this is false (section 8).
* **`ConvergeInv`** (`PlanApply_proofs`) extends it by what `Converges` and `PlanKept` need, along one
  cycle: the dry run's owners are those the plan predicts (`PlanFresh`, `OwnersCurrent`); after an
  undisturbed apply the object has the plan's fields and k8sconnect owns no other (`JustApplied`),
  and reading it gives what the plan has (`SavePredicted`); after the save, state, object and configuration
  are one (`Settled`), so the next plan has no difference. Besides: a field with a value has owners
  (`ValueHasOwner`), what the baseline calls ours was sent (`OwnedSent`), projection and
  managed_fields of a refreshed state fit together (`MapsAgree`), and after an undisturbed apply
  those of a stale state are the object's as well (`MapsSettled`), so that `Converges` holds for
  refreshes with an expired token too. `Settled` has to follow
  every step of the next refresh and plan; `Converges` alone says nothing about the
  plans in between.

* **`IInv`** (`ProviderCalls_proofs`) has one part per component and what links them. Of the
  cache, `CacheInv`: program counters and the lock agree (`Locked`), handlers and clients
  are under keys of their connections, and a builder's key is still empty (`Keyed`), clients
  are numbered up to the keys in use (`Counted`; the collectors are numbered by it). From these
  `MapGuarded` and `OneClient`. Of each call, `CallInv`: where it is in its program
  (`Placed`), the requests sent and the time spent by that place (`Counts`, `Lasts`), and what
  goes on after a cancellation (`Stops`). `StepKeeps` (`RetryLoop_proofs`) proves it once for every step
  of every call, `CacheStepKeeps` (`ClientCache_proofs`) once for every locked section. `Linked`: only a
  handler with a client has a call. Hence `RequestsBounded`, `DurationBounded`, `CancelPrompt`,
  `WarningsHeard`, and the action property `CancelSendsNothing` (no request leaves once the
  context is done), which follows from the heads of both loops and is proved without a run of its own.

* **`PatchInv`** (`PatchResource_proofs`) has, of each patch, whose id its handler works with
  (`Session`), what it finds between its write and its last read as long as nobody else
  writes (`Landed`), and what a calm state agrees with (`InStep`); a step of anybody else
  takes `quiet` and `calm` away and leaves the rest (`Untouched`), so that one lemma per
  handler suffices. Hence `DriftCorrected` and `OwnFieldsRecorded`. **`OwnInv`**: a target
  that is not there has no owners, and until its apply nobody shares the id of a Create
  (`Secret`), so that a failed one leaves nothing unless it is in `left`. Hence
  `OwnersKnown`. **`Planning`**: a known projection is of an apply and shows the visible
  content (`Shown`), a plan with another content than the configuration shows both
  (`Kept`), and the plan of a calm state is one that could be made now (`Fresh`). Hence
  `KeptContentHarmless` and, as a dry run of what is applied shows what is there,
  `Converges`: both with the exceptions that their preconditions `Current` and `Clean` name,
  and without a bound on the edits that TLC would need to meet those.
* **`KeptInv`** (`PatchResource_proofs`): between plan and save, a sound prediction of managed_fields
  is what the apply will own, or what the state owns when the content stays (`Predicted`), and
  the dry run's own manager never reaches the target (`NoTemp`). A step of anybody
  else that writes takes `sound` away; that of another patch's handler that does not write
  leaves it. Hence `PlanKept` of patches, with any number of patches of one target.

TLC agrees with the inductive invariants on instances like those of section 4. Only model-checked: the liveness properties (`HandlerReturns` of `ObjectLifecycle` and
of `ProviderCalls`, `WaitEnds`, `GoroutineEnds`). They need fairness and ENABLED, which the prover does
not reach. Every other property of a passing run is a theorem; those of the violation runs
are false.

## 7. What is not modelled

* Delayed requests: a call takes effect before the handler goes on. Durations of
  API calls outside `RetryLoop` (elsewhere time passes only while a wait waits); jitter.
* Text: YAML, paths, merge keys, `FieldsV1`, messages. Fields are leaves, so
  parent and list ownership is out. Status and system annotations, which the code
  filters out, are not fields of the model.
* Replacement on identity changes and on immutable fields; what makes a rollout
  complete, and that a rollout wait on a kind it does not know succeeds at once
  (`wait_logic.go:782-796`).
* `wait_for` keeps its kind within a behaviour, and a wait has one watcher at a time.
* Of `k8sconnect_patch`: a JSON patch or merge patch of the model only sets values. A
  `remove` or `move` of a JSON patch and a null of a merge patch, which take fields away, are left out; a
  `test` that does not hold is a call that fails. Nor that a JSON patch which adds to a list adds again when Read
  applies it again; how maps merge; the formatting of values; ownership
  warnings (`checkOwnershipTransitions`), which change no state; the self-patching check beyond
  `obj.owned`.
* Of the calls: discovery's answers bring no warnings; keys of different
  connections do not collide (the hash puts no separator between attributes, so it could); a
  warning is in a set, so its number is lost.
* Error texts, connections, validators, data sources, state upgrade: pure functions and
  declarations without a state that an operation reads. Paths and merge keys: see the plan.

## 8. Observations without a run

* ADR-003:57 says that Update validates the annotation; `crud.go:278-282` sets it
  without a look, so it overwrites that of an instance that imported the object
  after the annotation had been stripped.
* The baseline is taken from the Get *after* Apply and names the first manager of
  each field (`managed_fields.go:144-155`). A manager that writes between the two
  calls, or a co-owner named first, is in the baseline, and its takeover of the
  field is no change later on: `NoSilentTakeover` has to except both.
* A plan that kept the projection of a stale state (expired token) and changes
  `ignore_fields` predicts entries that Update does not return; `PlanKept`
  excepts stale states. `PlanGet` whose Get fails compares with the stale projection.
* A stale state hides drift. When the refresh cannot authenticate (`crud.go:113-136`, `:160-177`) and the
  configuration is unchanged, `plan_modifier.go:180-191` compares the dry run with the refreshed
  projection only to decide whether the state's YAML is kept. The planned projection is that of the dry run,
  which applies the configuration by force and so equals the stale state's: Terraform sees no
  difference although the object has drifted. ADR-023:38 ("Dry-run apply -> compare -> detect drift"), its
  section on phase 3, and the comments at `crud.go:116-118` and `plan_modifier.go:177-180` promise that this
  plan detects drift. `NoSilentDrift` has to except stale states. The drift shows after the next refresh that
  works, or at once if the configuration's `cluster` has changed with its token.
* `managed_fields` of a patch: `docs/resources/patch.md:196` and the schema
  (`resource/patch/patch.go:233-235`) say that it shows `k8sconnect` for fields of this provider and the names
  of external managers (`kubectl`, `hpa-controller`) for the others, and that a takeover appears in the
  diff under the new owner's name. `resource/patch/managed_fields.go:39-68` keeps only the fields of the patch's own
  manager, under the name `k8sconnect-patch`: an external manager is never shown, and a field that another manager
  takes leaves the map. `OwnFieldsRecorded` states what the code does.
* ADR-023 has ModifyPlan clear the stale-read flag; only the next Read does.
* `crud.go:130` of the wait keeps the result on transient errors by its comment;
  `update_status.go:28-31` replaces it by null. ADR-008 says unknown, not null.
* `docs/resources/wait.md:503` calls the timeout the maximum time to wait; existence,
  watch and poll each take it (`TimeoutHonest` has the true bound).
* `isWatchError` (`wait_logic.go:513`) looks for the word "watch" in any error text, the
  object's name included (`WatchInText`).
* A condition that becomes true between the check of a condition wait and its second
  Get (`wait_logic.go:411`) gives no event.

* A `for_each` rename of an object: `QA-CHECKLIST.md:591` wants the object to survive, and
  `crud.go:404` says that the new address overwrites the old; the new address is refused
  (`apply.go:30`) or left with an object that the old address deletes (`crud.go:419`).
* ADR-007:18 has a single apply succeed when the CRD arrives meanwhile; the GVR found missing
  at the start (`context.go:97`) is never looked up again, so Create applies and then fails, tainting
  its instance. `isDiscoveryError` does not wait for a kind missing from a known group (`client.go:361`).
* `CHANGELOG.md:151` has waits detect conditions "even when watch events are delayed";
  at the timeout the last object received is checked again, not the current one (`wait_logic.go:452`).
* `docs/resources/patch.md:173` says that destroying a patch releases its fields; Delete
  does nothing to the target (`resource/patch/crud.go:369-371`), whose fields keep a manager nobody
  knows (`OwnersKnown` has to except `left`).
* A change of a patch that concerns only elements of keyed lists is dropped from the plan:
  the projections are equal (`resource/patch/plan_modifier.go:107-137`, `projection.go:67`), so the content of the
  state is kept. `KeptContentHarmless` holds for the other fields only.
* An Update of a patch whose apply arrived and whose response did not leaves the old
  content in the state; the refresh applies that again if one of its values differs (`crud.go:166`).
  Fields that only the new content has stay until the next Update.
* Update stores the projection of the plan, not that of its result. A field that the
  patch owned by the Patch API, and lost to another manager between plan and apply, stays in it;
  a later configuration that asks for the value shown there is taken for unchanged, and
  the value is never applied (`Current` in `KeptContentHarmless` and `Converges` excepts this).
* `patchContentEqual` is given a type its switch does not know, so it compares strings.
* `retry.go:49` calls `TotalTimeout` the maximum time of all retries; a call's discovery loops have
  timeouts of their own, and with `MaxRetries = 5` one call can send 36 discovery requests
  per stage (`RequestsBounded`, `DurationBounded` have the true bounds).
* A warning can be reported under the identity of another object of the same
  connection (`warnings.go:38`); a wait or the Delete of an object reports none and leaves its warnings to others.

## 9. Plan

Order by what the provider promises its users; each step with its run and proofs.

1. Done: lifecycle and ownership; waits; plan and apply.
2. Done: `PatchResource`; `RetryLoop`, `ClientCache` and their composition, with proofs.
3. Done: every safety and action property of a passing run proved, and the refinement of
   `OwnershipContract`.
4. An abstract specification of `PlanApply` (what the user is promised of plan and apply) and of
   a wait, to be implemented by the detailed ones as the contract is by the lifecycle.
5. Path encoding, merge keys, the conflict table and rollout rules as operators
   against reference definitions over bounded inputs.
6. Replacement: `identity_changes.go` with Delete and Create in both orders, composed
   with `ObjectLifecycle`.
