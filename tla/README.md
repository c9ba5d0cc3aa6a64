# Verification of the Datadog integration for Oracle Cloud

TLA+ models of the parts of this repository that run concurrently, retry, get
interrupted, or are run again on what is left. TLC checks them on small
instances; TLAPS proves the most important safety properties for every value of
the constants. Paths below are relative to the repository root; `client.go`
stands for `datadog-functions/lib/client/client.go`.

## 1. The system

The integration sends a tenancy's logs, metrics and events to Datadog. Service
Connector Hub delivers batches to OCI Functions, which format them and send
them to Datadog's intake over HTTP. What cannot be delivered goes to an Object
Storage bucket, from which a `backfill` invocation replays it. Terraform stacks
install all this in each region, and a Python command-line tool removes it.

### Inventory

| Component | State it keeps | Operations | Hard part | What makes it correct |
|---|---|---|---|---|
| `DatadogClient.Backfill` (`client.go:386-560`) | the bucket; the run's pages, channel, workers, cancellation and summary; the shared API key | list, hand out, read, replay with retries, refresh the key, drop, delete | five workers and a producer over an unbuffered channel, cancellation from three sides, kills, overlapping runs | nothing leaves the bucket undelivered and undecided; no object is handled twice by a run; the run ends; the summary adds up |
| Forward path (`client.go:37-135`, `151-165`, `217-251`; the events and metrics handlers) | a container's cached client and its key; an invocation's copy, attempt and deadline | create the client, send, refresh, retry, persist, answer | nested retries, one deadline per payload, a cache created before it is valid, redelivery by the hub | no false success; order; bounded requests; a container heals; what is retryable is persisted |
| Logs forwarder pipeline (`logs-forwarder/internal/handler/handler.go`) | two channels, a wait group, three goroutines, nested contexts | decode, format, push, batch, send, report, close, answer | panics and cancellations at any point, errors racing the close of the error channel | no log lost, no partial batch too early, success means sent, the handler answers |
| Events formatter (`events-forwarder/internal/formatter/formatter.go`) | the payload being filled, its size | decode, chunk, flush | two limits and the bytes of punctuation | limits kept, nothing lost, fewest requests |
| Logs and metrics formatters | none | map fields, redact | none (data only) | unit tests |
| Cleanup engine and domains (`oci-integration-cleanup/oci_cleanup`) | the tenancy; a run's plan, failures and approvals | discover, ask, clean regions in a pool, clean the home region | partial failures, destroy jobs that outlive the run, deletions that take days, reruns | global teardown only over clean regions; reruns converge; nothing foreign is touched |
| Datadog stack (`datadog-integration/main.tf`, `regional_stack.tf`, `locals.tf`, `modules/{auth,kms,integration}`) | Terraform's state; the tenancy's identity and vault; what Datadog knows of the tenancy | apply (check, provision, start the scripts, register), destroy, be cancelled | reruns over what earlier runs left, with other regions and configurations; partial failure of regions; a state that lags behind the scripts | success means every reported region is served; nothing is left that no later run takes care of; reruns converge |
| Regional stack scripts (`create_apply_regional_stack.sh`, `delete_stack.sh`) | Resource Manager stacks and their jobs | find, create or update, apply with retries; find, destroy, delete | jobs that outlive the script that waited for them, lost answers, lists that fail silently | one stack per region; a record is deleted only when its resources are gone; exit 0 means applied, or gone |
| API key management (`modules/key/main.tf`) | the OCI user's signing keys | make a pair, upload, delete the first key at the limit, poll | the limit, lost answers, a failure between eviction and registration | the key Datadog signs with exists |
| Prechecks (`pre_check.py`) | none; it reads the tenancy, once per stack | six validations, each with queries that may fail | what is accepted and refused later, reruns over the stack's own resources | what is accepted can be installed |
| Regional stack contents, onboarding module, policy and metrics stacks, legacy forwarders, release scripts | none, or declarative | | | not modelled |

Interactions. The forward path and backfill share the bucket, the vault's API
key and `send`; the hub calls the handlers and reacts to their answers only; the
cleanup tool removes what the stacks created, by asking Resource Manager first
and the services afterwards. Each model keeps the others as actions of its
environment: in `Backfill` the forward path is the action `Persist`, a second
run is part of `Faults`; in `Forward` backfill is absent, since it only takes
away what `bucket` holds. The Datadog stack is where components are composed in
one model: Terraform runs the prechecks, then starts the key script and the
scripts of all regions, and registers the tenancy from their outcomes.

`PROJECT.json` lists every component with its status, and under `hazards` what
in this code is hard to test, with the line where it bites and the properties
aimed at it.

## 2. The modules

| Module | Models | Checked by | Proved in |
|---|---|---|---|
| `PayloadStore` | abstract: an at-least-once store | refinement from `Backfill` | |
| `Backfill` | one region's backfill runs | `backfill_*` | `BackfillProofs` |
| `Forward` | containers, the hub, `SendMessageToDatadog` | `forward_*` | `ForwardProofs` |
| `LogsPipeline` | one invocation of the logs function | `logs_*` | `LogsPipelineProofs` |
| `EventsChunk` | `Decode` and `Chunk` | `events_plain` | `EventsChunkProofs` |
| `Cleanup` | repeated runs of the cleanup tool | `cleanup_*` | `CleanupProofs` |
| `FaultBudget` | what may go wrong during an installation, and how often | through `Install` | |
| `RegionalStacks` | the two scripts of each region and Resource Manager | through `Install` | `RegionalStacksProofs` |
| `SigningKeys` | the key script and the user's keys | through `Install` | through `Install` |
| `PreCheck` | `pre_check.py` as an operator on what its queries find | through `Install` | through `Install` |
| `Install` | runs of Terraform over the three modules above | `install_reruns` | `InstallProofs` |
| `FoldLemmas` | nothing of the code: facts about folds, `FlattenSeq` and least numbers | | itself, for the proofs that need them |

`MC*.tla` give the constants their small values. Operators named in a comment
as "seeded fault" are wrong versions of the definition that follows them; no
specification uses them. They are what the properties are tried against: each
property of each passing run is violated when one of them takes the place of
the definition it imitates (`mutants` in `PROJECT.json`).

### Backfill

State: the bucket, the objects Datadog has accepted, the reasons for drops; then
the run: `producer` is the position of the producer loop, `page`/`start`/
`nextStart` its listing, `pc`/`obj`/`attempt`/`resent`/`keySent` each worker,
`ctxDone`/`fatal`/`listFailed` the ways a run is stopped, `summary` the
`BackfillSummary`. Objects are numbered in the order of their timestamped names,
which is the order `ListObjects` returns. `present`, `handed` and `left` are
history.

Every remote call is a step of its own: a worker's loop is `HandOut` (the
rendezvous on the unbuffered channel), `GetObject` or `GetFails`, `BeginSend`
(the header is built from the shared key), the answer (`Delivered`, `NoAnswer`,
`Refused`, `Forbidden`, `CannotSend`), `RefreshKey` or `RefreshFails` after a
403, `BackoffEnds` after a 429, and the delete. `ReplayFailed` is
`replayWithRetry`, `Settle` is the error branch of the worker (`client.go:447-466`) with its
`ctx.Err()` test first. A key that is not accepted is answered with one of
`BadKeyStatus`: a 403 (`Forbidden`) refreshes it, a 401 (`Unauthorized`) is a failure
like any other. `Crash` kills the container, `Expire` is the function's
deadline, `RotateKey` makes the key in use a stale one, `Persist` is the forward
path, and an overlapping run delivers an object or drops it, for any reason a run may
have (`DropReasons`), and deletes it. A run whose set-up fails (`client.go:395-408`)
returns before it has touched anything; it is no step of the model.

### Forward

Per container: the cached client (`nil`, or its key `none`, `old`, `good`), the
invocation's own copy of it, the message and payload being served, the attempt,
whether this `send` has refreshed its key, the key in the header of the request
on the wire, and whether the payload's three-minute context is over. A refreshed
key stays in the invocation's copy: the handlers call `NewDatadogClient`, which
returns the cache by value (`client.go:151-180`), so the cache keeps the old
key. A failed first fetch leaves a cache with an empty key. The intake answers a key
it does not accept with 401 or 403 (`BadKeyStatus`), as it likes; only after a 403
does `send` fetch the key (`client.go:70`). `Persist` is
`handleRetryableErrorPayload`, under the same context as the sends. The hub
delivers a message again until it has got a success, to any container; `Crash`
empties the container.

A request, here, is one call of `sendMessage`. The Datadog library repeats a
request inside `CallAPI` when it is answered with 429 or 5xx
(`RetryConfiguration.EnableRetry`); that is part of the outcome of the call.

### LogsPipeline

Logs are never reordered, so the model counts them: `pushed`, `queued` in the
channel, in the `batch`, `acked`. The three goroutines are program counters;
`running` is the wait group; `err` and `errClosed` are the buffered error
channel. A panicked goroutine leaves the wait group (`wg.Done` is the deferred
call that runs first) before its `recover` reports, so its report can come
after the channel was closed and kill the process: `crashed`. Selects with
several ready cases are a choice, as in Go.

### EventsChunk

An event is two lengths: as it was `read`, which is what `Chunk` counts, and as it is
`sent`, since `json.Marshal` compacts a `RawMessage` and escapes `<`, `>` and `&` in
it (`formatter.go:75`). `Bad` is an undecodable message. `AddEvent` is one iteration
of the loop in `Chunk`. The reference definition, `Fewest`, enumerates every way to
cut the events by the lengths `Chunk` counts. `PayloadsFit` is about what is sent: a
body exceeds the limit only if an event in it has grown.

### The installation: RegionalStacks, SigningKeys, PreCheck, Install

`RegionalStacks`. Per region: the `config`uration of each stack of the name, what
its resources are (`live`: of a configuration, `partial`, or none), and the `jobs`
Resource Manager still has to run for it, which it does one after another. Per
script: `step`, the chosen `stack` (`STACK_ID`), the `attempt`, the stacks
`delete_stack.sh` has still to handle (`pending`). Each CLI call is a step with
the outcomes of `Call`: done, refused, or taken for failed although it went
through. A wait may end before its job does; the job then goes on. A list that
fails reads as an empty one, because its exit status is lost in the pipe to `jq`;
`misread` remembers that this has happened. `set -e` and the checks of `JOB_ID`
and `JOB_STATE` are the steps to `failed`. Resource Manager is external: it runs
the jobs of a stack in order, with the configuration the stack had when the job
was created, and deletes a record whatever its resources are, so that the order
"destroyed, then deleted" is the script's own.

`StacksSpec` is also the abstract specification of what Terraform may do with the
scripts: `AnyRun` and `AnyApply` let any run start and end, at any moment, for any
regions. That `Install` implements it is proved.

`SigningKeys`. The user's `keys`, the script's `keyStep`, the pair in
`/tmp/sshkey` (`newKey`). Which key the API lists first is free: nothing in the
script sorts `resources`.

`PreCheck` has no state. A tenancy is a record of what the program's queries would
find and which of them fail; `Refuses` is the program's verdict. `Creatable`,
`Needs` and `VaultReady` are what the modules `auth` and `kms` meet afterwards.

`Install`. A run of Terraform: `Begin` (configuration, target regions, images,
order; the regions it drops are destroyed at once), `Check`, `Provision`, `Track`
(the instances of `regional_stacks_destroy`), `StartScripts`, `Register`,
`EndApply`; `BeginDestroy`, `Unregister`, `RemoveIdentity`, `EndDestroy`; `Cancel`
at any moment. `tracked`, `created` and `marker` are Terraform's state,
`registered` and `reported` what Datadog has been told. A resource starts when what
it depends on has succeeded, and those that do not depend on a failed one go on:
this is why a failed region keeps the tenancy from being registered and does not
stop the other regions when they run side by side. `strays` are regions a
cancelled run had started a script for and not tracked yet.

Simplified: `Provision` is one step, in which one call at most is refused; the
identity is removed in one step; the registration with Datadog is one request; the
wait for the vault's DNS name belongs to its creation. The compartment is there.

### Cleanup

The tenancy: `live` resources per region, those `scheduled` for deletion in KMS,
the newest destroy `job` of a stack, and the `home` region's IAM, tags, parent
stack and compartment. A run: its command line, the regions discovery found, a
worker pool (`started`, `todo`: the kinds still to handle per region, in the
order of `cleanup_region`), the `plan` of the home region, and the engine's
`failures`, `kms_pending` and `dynamic_groups_deleted`.

Each `action()` is a step with four outcomes: done, refused, done although
reported as failed, and taken for done although nothing happened (`OciCli.run`
takes NotAuthorizedOrNotFound for deleted, and a waiter that reaches `FAILED` exits with 0).
`misled` remembers the last one, because no code could keep its promises after
it. Lists may fail (`Raise` in a region, `Abort` in the home stage), discovery
may skip regions, the process may be killed between any two steps.

A run that does not begin ends in `DiscoveryFails`, with status 1: because a list of
discovery or of the confirmations raised, because every region is unauthorised, or
because discovery cannot tell which compartment is Datadog's
(`discovery.py:233-275`). It can (`Resolved`) if the command line names it
(`OcidGiven`), or the compartment is still there, or a region that is searched holds
something with the `ownedby` tag (`Owned`); connectors, event rules, streams and
buckets carry only the marker, and the foreign resource neither. More than one
candidate is not modelled. `MaxFaults`
bounds how often something goes wrong in a behaviour. OCI is permissive: it
deletes what it is asked to delete whatever depends on it, so every ordering in
the model is the tool's own. The operator's approvals are part of the command
line.

Simplified: one resource of each kind per region; one foreign resource, nested
in the subnet; the parent stack is not in the compartment; its destroy job is one action (its failure does
not stop the record's deletion either way); no route tables; one user and one
group.

## 3. The runs

| Run | Instance | What it shows |
|---|---|---|
| `backfill_safety` | 2 workers, 3 objects (the 2nd malformed), pages of 2, deadline at any time | Objects are handed out once although pages shift under the listing, what is not settled when a run is cancelled stays stored and undecided, a run that was not cancelled has dealt with what was there, and the summary adds up. |
| `backfill_faults` | 2 workers, 2 objects, pages of 1, kill, overlap, rotation, 401 and 403, vault failures, cancellation by a fatal failure, with fairness | No payload is lost; the runs implement `PayloadStore`; a run always ends: no wait on the channel for ever. |
| `backfill_dropped_good` | no fault but a vault that cannot be read | **Violated**: a good payload is dropped. |
| `forward_safety` | 2 containers, a message of 2 payloads, storage that may fail, kill, deadline, rotation | No false success, payloads in order, at most four requests. |
| `forward_recovers` | 1 container, 2 messages, one of them malformed, a vault that fails, rotation, 401 and 403, with fairness | Invocations end, and good messages are delivered in the end: an empty or stale key in the cache is repaired by every invocation's own refresh, unless keys are rotated for ever or a bad key is answered with 401 for ever. |
| `forward_deadline` | working storage, deadline | **Violated**: a retryable payload is persisted nowhere. |
| `logs_pipeline` | up to 5 logs, batches of 2, a channel of 2, time-out, deadline, panics | Conservation, full batches, success means sent, the handler answers. |
| `logs_deadline` | up to 3 logs, deadline | **Violated**: success with logs unsent. |
| `events_plain` | up to 5 messages, undecodable ones and events that grow included; 9 bytes, 2 events | The best cut, within both limits but for events that grow when written, losing nothing that fits. |
| `install_reruns` | the tenancies of `MCInstall`, see below | No resources without a stack, one stack per region, success means served, the registered key exists, nothing is forgotten, what the checks accept can be installed, reruns converge. |
| `cleanup_reruns` | 2 regions, 2 workers, dry run / full / minimal command, every fault, at most 2 per behaviour | The teardown waits for clean regions, status 0 means that the regions looked at are clean, reruns converge unless a rule is lost or the compartment went before the rest, dry runs only read. |
| `cleanup_skipped` | the same, the full command, one skipped region | **Violated**: a resource that no rerun can find. |

Why the bounds are enough. Two workers are needed for every race of the pool
and the proofs cover any number of them; three objects and pages of two give a full
page, a last page, and an object persisted while the run is under way. With two
payloads per message one can fail after another was accepted; two containers
are needed for concurrent redelivery. In the pipeline, five logs, batches of two and a channel of
two fill and drain each buffer more than once and leave a last, smaller batch.
The events are: three fit together, two, one, exactly one with nothing to spare,
none; one gets longer when written, one shorter. In the cleanup, one region has the stack, its job and a vault
pending deletion, the other a network with a foreign resource and the event rule that
only the marker identifies: the kinds that interact. Two faults give a failure
during the recovery from a failure; with none left, runs succeed and
`Converges` can be asked. The command lines do not name the compartment, which is the
case in which discovery may fail.

`install_reruns` is one run over a set of tenancies, each with the faults that
matter in it (`mishaps`), so that its state graph is the union of theirs:

- one region that runs may want or drop, two keys at most, and each fault once: a
  refused call, a lost answer, a failed list, a failed job, a wait that ends early,
  a missing image, a cancelled run, at every place where it can happen;
- the same with one key at most (each upload evicts) and the pairs "lost answer,
  then cancelled" and "wait ended early, then refused", which leave a job behind
  and then fail the run that meets it;
- two regions, the second of them in some runs only, side by side and in order,
  and a job that fails in either;
- what the checks are for: each name taken; each policy tagged as Datadog's, with
  a query that fails or not; an exhausted quota with every combination of vault,
  realm and failing query; an existing vault that is usable, or lacks one of the
  four conditions; each query failing; another region than the home region; no
  image.

Each run brings the configuration the last one did not have, of two: one for the
run, one for what is left of earlier runs. Two stacks per region are enough to
have a second one (`MaxStacks`). Two attempts to create the apply job, five in the
code, are enough for a job to be left behind and for the loop to end; the proofs
hold for any number. Runs are not bounded: Terraform is applied for ever.

Symmetry (`Permutations` of workers, of containers) is used in safety runs only.
Deadlock is not checked where the modelled thing ends by design: an answered
message, an answered invocation, a chunked batch, a tenancy in which no fault
or job is left, a destroyed stack (`CHECK_DEADLOCK FALSE`). It is checked in all
`backfill_*` runs, in `forward_safety` and in `forward_deadline`.

### Fairness

- `Backfill`: weak fairness of the run as a whole: while one of its goroutines can
  go on, one of them does. Each call ends by an answer, the SDK's time-out or the
  context. Nothing is assumed about which goroutine goes on, nor about which
  outcome a call has: a run ends even if one worker does all the work.
- `Forward`: weak fairness of each container's steps for `InvocationEnds`.
  `Recovers` adds that the hub goes on delivering messages it has no success for,
  and, payload by payload, that a vault and an intake asked again and again
  answer honestly again and again (strong fairness of `FetchKey`, of `RefreshKey`, of
  `Delivered`, and of an answer to a bad key, 401 or 403, which of them is free).
  Nothing is assumed about the failures in between. `Recovers` has two exceptions:
  rotation for ever, and 401 for ever; the latter wedges the container.
- `LogsPipeline`: the goroutines are scheduled and the intake answers or times
  out. That the context of an answered invocation is over follows from the
  handler's `defer cancel()`.
- `Cleanup`: calls return, workers are scheduled, destroy jobs and KMS delays
  end, and the operator keeps running the full command and approves what it
  asks about. Without an operator who reruns it, the tool promises nothing.

- `Install`: weak fairness of what has been started: scripts, jobs and resources
  make progress, in whatever order and with whatever outcome the faults allow.
  Strong fairness of an apply for some regions: the operator applies the stack
  again and again, with all images in place. Without an operator who does, a
  failed run stays as it is. Nothing is assumed about destroys.

### Disagreements between documentation and code

Checked by the four violated runs, and quoted in `findings`:

1. A payload is dropped although Datadog never judged it, when its 403 meets a
   vault that cannot be read: status 403 is not among the retained ones.
2. The upload of a payload whose sends used up the three minutes fails at once,
   under the same context.
3. The logs handler may answer success with logs unsent when its context ends
   while the sender reports an error.
4. A region skipped as unauthorised in discovery is not a failure: the tags are
   deleted, and a rule outside the compartment in that region that was
   identified by the marker tag alone is not found by any rerun.

Qualified in a property of a passing run, each of which names its exception:

- `formatter.go:56` says that `Chunk`'s payloads "respect the intake's per-request
  size and count limits". The size is counted before `json.Marshal` escapes `<`, `>`
  and `&`, so a body with many of them can exceed it (`PayloadsFit`, `Grows`).
- The cleanup's README (line 36) has the same command rerun. Without
  `--compartment-ocid` this stops working once the compartment is deleted with
  something else left: discovery exits with 1 before it does anything
  (`discovery.py:267-270`). A misreported deletion or a skipped region lead there, and
  so does a parent stack whose deletion failed, because `delete_compartment` follows
  it in the same branch (`engine.py:73-75`). `Converges` has this as `Stranded`. With
  the option, as in the usage examples of that README, nothing is ever stranded.
- Exit status 0 of the cleanup says nothing of a region that was skipped as
  unauthorised, nor of what a misreported deletion has left (`ExitZeroMeansDone`).
- An intake that answers a bad key with 401 wedges a container whose key is empty or
  stale: only a 403 refreshes it (`client.go:70`, `Recovers`).
- A backfill run that the function's deadline ends returns no error
  (`client.go:520-523`) though objects are left; `DrainComplete` is about runs that were
  not cancelled.

Seen while reading, too small for a run of their own: the cleanup README
describes `--domain-ocid` and a filter on the regions of the Identity Domain,
which the parser and discovery do not have; `domains/identity.py:4` says the
stage "runs only after all regional cleanup succeeds", while `engine.py:69` runs
it always; `domains/stacks.py:3` says failed stacks are preserved for retry,
while the record is deleted whatever the job did (line 182); `Dropped` counts an
object even if its delete failed (`client.go:461-466`).

Of the installation, what the properties name as their exceptions:

- A list of stacks that fails is taken for an empty one. `delete_stack.sh:13-16`
  then prints "No stacks found in the compartment." and exits with 0, so that
  Terraform forgets the region; `create_apply_regional_stack.sh:55` creates a second
  stack of the name. The result of `stack delete` is not looked at either
  (`delete_stack.sh:48`): an empty record may stay behind "All stacks destroyed".
- A run cancelled after a region's script has started and before
  `regional_stacks_destroy` has an instance for it leaves a stack that no destroy
  will look for, until a later run for that region tracks it.
- `modules/key/main.tf:88` speaks of the oldest key, and deletes the one the API
  lists first. If the run then fails before it registers the new key, Datadog may
  sign with a key that is gone, until the next run succeeds.
- The checks let pass a policy tagged as Datadog's that is not in Terraform's
  state, and an existing `datadog-vault` with an exhausted quota; in both cases the
  creation may be refused afterwards, in every run. `Converges` leaves these out.
- A run whose target regions have all been dropped is refused by
  `region_intersection_info`, while the stacks of these regions are being destroyed.

## 4. The proofs

Theorems and what they say are listed in `PROJECT.json`. All proofs are for
arbitrary constants subject to the named assumptions of the modules
(`ConstantsAssumption`, `BudgetAssumption`, `StacksAssumption`,
`InstallAssumption`): any number of workers, objects, page size, containers,
messages, payloads, logs, batch size, capacity, events and their lengths, limits
on a payload, regions, stacks, attempts, keys, tenancies, command lines and faults.
The workers of a backfill are finitely many and at least one
(`backfillConcurrency`, `client.go:384`), the regions of a cleanup finitely many.

**`BackfillProofs`.** The properties are not inductive on their own. `IInv`
adds `WorkerInv` (what a program counter says of the object held: a worker at
`ack` holds an accepted object, one at `drop` a given-up one, one that exited
with an object did so after a cancellation), `StoreInv` (only persisted objects
are listed), `CursorInv` (everything already handed out is below everything that
can still be handed out: this is what makes `ExclusiveHolding` survive the
paging), `DrainInv` (what was there at the start is settled, held or still to
come) and `HeldInv` (without an overlapping run, what is held is stored).
`AbandonedRetained` is an action property: `AbandonedStep` shows it of each step. Each
conjunct has a lemma with one step per action. `Refinement` then shows that each
step is a step or a stutter of `PayloadStore`: the delete after a success is
`Forget`, allowed because of `WorkerInv`.

**`ForwardProofs`.** `SuccessMeansAccepted` needs `EarlierAccepted`: the last
payload's acceptance completes the message only if the earlier ones went
before. `RequestsBounded` needs `RoomForRequests` (the requests an attempt may
still make fit in what is left of four) and `RefreshOnce`.

**`LogsPipelineProofs`.** `SuccessMeansSent` needs `WaitGroup` (the error channel
is closed only when both goroutines are done), `Counted` (the channel of logs is closed only when all
were pushed) and `NoErrorLost` (a goroutine that ended early left its error in
the channel or in the answer).

**`EventsChunkProofs`.** `IInv` says of the loop, at every event, that what can be
sent of the events read is what the payloads and the current one hold, in order
(`Accounted`), that each payload fits as counted (`WithinLimits`; `PayloadsFit`, about what is
sent, follows since only growth makes the two differ), and that none had room for
the first event of the one after it (`Greedy`). `FewestPayloads` follows from
`GreedyIsFewest`: in any other cut of the same events into payloads that fit, the
first n pieces hold no more than the first n of `Chunk`, so it needs as many. The
sizes and the flattened payloads are folds; a fold is a recursive function, and
`FoldLemmas` proves what is needed of it by induction over a set of numbers, which
takes no operator as a parameter.

`SummaryBalance` is proved in `BackfillProofs` from `IInv` and `HandedBelow`: each
step that moves the summary moves the set of held objects by one element.

**`RegionalStacksProofs`.** The invariant is what each script may rely on at each
of its steps (`ApplyKnows`, `DeleteKnows`): a script that waits is waiting for the
newest job of its stack, so that when that job ends well no other job is left; a
stack about to be deleted is empty; the stacks `delete_stack.sh` has dealt with are
empty. It is inductive under `AnyRun` and `AnyApply`, so it does not depend on how
Terraform drives the scripts. `NoOrphans`, `OneStack`, `AppliedMeansCurrent` and
`DeletedMeansGone` follow from it.

**`InstallProofs`.** `InstallRefines` shows `InstallSpec => StacksSpec`, step by
step, and so inherits the theorems above. `InstallInv` adds what Terraform knows:
the scripts running belong to the regions of this run (`ScriptsBelong`), the
resources of a region nobody tracks belong to this run (`Remembered`), the key and
the registration (`KeyKnown`), what each result means (`ResultKnown`) and what a
passed check tells about the tenancy (`MarkerKnown`). `SuccessMeansServed`,
`KeyInForce`, `ForgottenNothing` and `NoSurprise` follow, for any tenancies,
regions, number of faults and limit of keys.

**`CleanupProofs`.** The heart is `LeftToDo`: while no failure is on record and the
run was not misled, whatever is left in a region is still on its list. An exception
empties the list and records a failure; a skipped network records one too; that is
why the barrier before the tags works. `Guarded` says the same of the network (the
gateways wait for the subnet, the subnet for the foreign resource), `GroupsKnown`
and `HomeLeft` of the home region. `CompartmentEmptied` and `DryRunReadOnly` are
action properties of every step. `ExitZero` is about the regions the run looked at
and a tenancy where no deletion was ever misreported; it has no more to say, and the
code keeps no more.

**What liveness rests on.** For each component that must come to an end it is
proved, for every value of the constants, that every step uses up something of which
there is only so much, and, where its parts wait for each other, that something can
go on until the end is reached. What is left to TLC is to conclude, under fairness,
that the end is reached.

- `LogsPipelineProofs`, for `HandlerAnswers`: `NobodyBlocksAll` and `EveryStepCounts`,
  both until the handler has answered, its context is over, or the process has died:
  after the end of the context a panic of the formatter may leave the handler waiting.
  The number that falls weighs the logs not yet pushed and sent, and what each
  goroutine has before it.
- `BackfillProofs`, for `RunEnds`: `RunNeverStuck` and `RunUsesUpWork`. The first needs
  `PoolServes`: a worker leaves only when the run is cancelled or the channel is
  closed, so the producer never waits for nobody. The work is a set of pairs of an
  object and a step of it; `ExclusiveHolding` and `CursorInv` keep one worker from
  using up, or renewing, what is another's.
- `ForwardProofs`, for `InvocationEnds`: `InvocationUsesUpWork`, at most 13 steps for
  each payload. That a container whose invocation is open has a step is left to TLC.
- `RegionalStacksProofs`, for `Converges` of `Install`: `NoWaitForNothing` and
  `ScriptsUseUpSteps`, at most two steps for each attempt and four for each stack;
  `InstallScriptsEnd` inherits them through the refinement.
- `CleanupProofs`, for `Converges` of `Cleanup`: `CleanupNeverStuck` and
  `CleanupUsesUpWork`. A run goes on, or waits for a destroy job, which is Resource
  Manager's to end; faults are among the steps that use up work. `Order` and
  `HomeOrder` list each kind once (`OrderLists`), so that there is always a next kind
  (`Earliest`).

What can go on is said by state predicates written out by hand (`WorkerReady`,
`RegionReady` and the like), since ENABLED cannot be reasoned about in the proofs.
In `LogsPipeline`, `Backfill` and `Cleanup` they agree with ENABLED in every state TLC
reaches with the small instances.

Only model-checked: the liveness properties themselves (`RunEnds`, `Recovers`,
`InvocationEnds`, `HandlerAnswers`, both `Converges`), which need fairness and ENABLED.
For `Recovers`, and for what repeated runs of both `Converges` achieve, no argument
is proved beyond the above. Every other property the passing runs check is a theorem.

## 5. Not modelled

- Formatting, redaction and field mapping of logs and metrics: data only.
- A torn read of `client.apiKey`, which workers share without a lock: the model
  lets each request see the key before or after the refresh.
- The answer of the backfill handler ("Backfill complete" also after the
  function's deadline), logging and metrics.
- In the cleanup: several candidates for the compartment, tag syntax,
  nested resources other than one in the subnet, route tables, marked resources
  of unsupported types, several tagged users or groups.
- In the installation: existing users and groups (`modules/auth/main.tf:1-113`), the
  parsing and validation of subnet OCIDs (`main.tf:48-110`), the compartment, tags,
  how supported regions are queried; runs of Terraform at the same time, which its
  lock excludes.
- What a regional stack contains, the onboarding module and the policy and metrics
  stacks: declarative. What a regional stack manages is a constant of `Cleanup`.
- Legacy forwarders under `Object Store` and `Service Connector  Hub` (one call,
  no state); image builds and release scripts.
- `Forward` and `Backfill` on one bucket: each has the other as its environment.

## 6. Plan

Done, the most important behaviour first: `Backfill` with `PayloadStore`,
`Forward`, `LogsPipeline`, `EventsChunk`, `Cleanup`, `RegionalStacks` with
`SigningKeys`, `PreCheck` and `Install`, and the proofs about all of them.

Open, in the order of their use:

1. `Delivery`: `Forward` and `Backfill` on one bucket, with the promise of the whole
   path as its abstract specification: a message the hub delivered is accepted,
   stored, or given up for a reason.
2. Route tables and nested resources of other kinds in `Cleanup`, and what several
   tagged users or groups mean to it.
3. `Cleanup` of a tenancy in which `Install` is applied again: both use the stacks'
   names and Resource Manager's jobs.
4. Existing users and groups in `Install`.
