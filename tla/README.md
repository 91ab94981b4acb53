# TPU DRA driver: specifications, model checking and proofs

This directory holds TLA+ models of the kubelet plugin
`cmd/tpu-dra-kubeletplugin`, the TLC configurations that check them on small
instances, and TLAPS proofs of their main theorems for every value of the
constants. Line numbers below refer to `cmd/tpu-dra-kubeletplugin/`; a longer
list, definition by definition, is the `map` of `PROJECT.json`.

## 1. The system

The plugin is one process per node, started by a DaemonSet. It finds the TPU
chips of the node, publishes them in a ResourceSlice, and prepares and unprepares
ResourceClaims for the kubelet. A claim always gets every chip of the node; with
*consumable shares* several claims may hold them at once.

| Component | State | Operations | Correct when |
|---|---|---|---|
| Claim state (`state.go`) | checkpoint file, CDI spec files, log directory, a mutex | `Prepare`, `Unprepare` | running containers have their files; nothing of another claim is lost |
| Checkpoint (`checkpoint.go`) | one JSON file with a checksum | read, replace | no update is lost |
| CDI handler (`cdi.go`) | one file per claim and a common one in the CDI root | write, delete, validate | a file shows the devices of its claim; the common one is there when containers run |
| Health checker (`health_check.go`) | own copy of the health flags | a pass every 10 s, `Stop` | flags follow the device files |
| Health broadcaster (`device_health_status.go`) | list of subscriber channels | `subscribe`, `broadcast`, `WatchHealthStatus` | no wakeup lost; reports keep coming |
| Publication (`driver.go`) | `publishchan`, the ResourceSlice | `GatherStateAndPublish`, `republishSlice` | the slice follows the flags |
| Start and stop (`main.go`, `driver.go`) | retry loop, context, signal channel | `StartPlugin`, `NewDriver`, `Shutdown` | comes up when chips appear; ends on a signal |
| Hardware probe (`hardware.go`) | none (reads `/dev`, sysfs) | `probeTPUHardware` | counts the TPU chips |
| Label discovery (`util.go`) | none (five sources, a poll with a deadline) | `getTPUNodeLabelsFromSources`, `completeLabelsFromHardware` | given labels stand, gaps are filled, made-up values do no harm |
| Topology and environment (`util.go`) | none | `InitEnvs` and what it calls | exact, refuses what it cannot compute |
| Sharing policy (`consumable_shares.go`) | resolved once per start | `validateConsumableShares`, `resolveConsumableShares` | chips of a larger slice are never shared; a valid request is never dropped |
| TPU manager (`manager.go`) | enumerated devices | `NewTPUManager`, `enumerateAllPossibleTpuDevices` | as many devices as the labels say |
| Command line, feature gates, network settings, Helm chart | none of their own | | not modelled, see section 7 |

How they interact. The kubelet calls `Prepare` and `Unprepare` over gRPC; the
helper library and then `DeviceState`'s mutex serialise the calls. The health
checker writes `DeviceState`'s flags under the same mutex, signals `publishchan`
after releasing it, and wakes the health streams through one channel each.
`NewDriver` builds all of it from what the probe, the labels and the enumeration
have found. At the end, `Shutdown` stops the checker first, then the helper with
its streams, and only then is the context of the publisher cancelled.

What is hard: three separate writes per call with failures and crashes in
between; late, lost and repeated calls; a policy that may be resolved differently
after a restart; goroutines that meet on bounded channels; signals that come before anyone
waits for them; a host that is read twice while device files change; sources that
are silent or tell half the truth; arithmetic on numbers taken from labels. The
`hazards` of `PROJECT.json` list each of them at its line.

## 2. The modules

| Module | What it models |
|---|---|
| `ClaimLedger` | the abstract specification: claims are prepared and unprepared in one step |
| `ClaimState` | `DeviceState.Prepare` and `Unprepare`, with the kubelet as environment; implements `ClaimLedger` |
| `HealthStream` | the abstract specification of one health stream: snapshots, in order, each but the first due to a completed probing pass |
| `DeviceHealth` | checker, broadcaster, streams, publisher, start of the helper, shutdown; every stream implements `HealthStream` |
| `Topology` | the pure functions of `util.go` on accelerators and dimensions |
| `Labels` | what follows from labels: which source is believed, completion, sharing, environment |
| `Startup` | the action of `main.go`, `StartPlugin` and `NewDriver`: flag, signals, probe, labels, policy, environment, enumeration |
| `LabelDiscovery` | `getTPUNodeLabels` source by source, with formats, defaults and the poll; implements the step `ReadLabels` of `Startup` |
| `MC*` | instances for TLC |
| `*_proofs` | theorems and proofs about the module they extend; `ClaimLedger` holds its own |

### ClaimState

On disk: `checkpoint` (claim to list of prepared devices, or `NotPrepared`) and
`stored` (is there such a file), `cdi` (claim to the devices its spec file
defines), `common` (the spec file of the edits all claims share), `logs` (claims
with files in the libtpu log directory). In the process: its progress `proc`, the
resolved policy `shares`, the mutex `lock`, and per gRPC handler a program counter, the request, and `cp`, the
copy of the checkpoint that it reads once and writes back. A call is the sequence
of its writes:

    Prepare, claim in checkpoint:   PrepareRestore, RecreateClaimSpecFile      (state.go 137-144)
    Prepare, new claim:             PrepareDevices, CreateClaimSpecFile, SavePrepared   (146-160)
    Unprepare, not in checkpoint:   UnprepareSkip                              (173-176)
    Unprepare, in checkpoint:       UnprepareFound, UnprepareDevices,
                                    DeleteClaimSpecFile, SaveUnprepared        (178-193)

A process that starts resolves the policy, to any member of `Policies`, and writes
the common spec file (`CreateCommonSpecFile`), then keeps the checkpoint file it finds
(`FindCheckpoint`) or writes an empty one (`CreateCheckpoint`), as `NewDeviceState`
does; it may end between any two of these steps. Once it serves, it publishes what the
policy allows (`Publish`, which sets `offered`). On a node where the plugin has never
run, `offered` is `"nothing"` and `Admit` gives no claim to it; later the scheduler goes
by the last slice published, which may be that of an earlier process.

Locking and reading the checkpoint are one step, which is sound because the file
is only written with the lock held (`NoLostUpdate` fails without the lock). Every
read and write may fail (`GetCheckpointFails`, `WriteFails`,
`RemoveDirContentsFails`) and the process may end before any of them (`Crash`). One
failure is silent: `RemoveDirContents` drops the error of `os.ReadDir` (util.go 139),
so `ReadDirFails` leaves some or all of the logs and goes on as `UnprepareDevices`
does. `overlooked` is bookkeeping of the model: the claims whose logs such a wipe left,
until their workload writes again.
`Reboot` empties the CDI root, a tmpfs, and the common file with it. Single-file writes are atomic, because
both libraries write a temporary file and rename it. The plugin's own serialising
lock (`kubeletplugin.Serialize`) is not modelled: the mutex alone must be enough.

The kubelet is external code, modelled from its contract with the plugin: one
outstanding call per claim, retries until success, calls it gives up on
(`Abandon`; the handler ignores its context and runs to the end), lost replies,
restarts. `CallPlugin` copies the claim's allocation before the handler waits for
the lock, as `NodePrepareResources` does. `abandoned` is bookkeeping of the model:
the claims with an Unprepare that the kubelet gave up on, until a Prepare of the
claim has succeeded while no such call was waiting.

### DeviceHealth

One program counter each for the checker, the publisher and every stream, and the
phase `main` of `StartPlugin`. A health report and a slice are the set of healthy
devices they show. Every critical section is one step; the send on `publishchan`
after `UpdateHealth`'s unlock, and the publication after the gathering, are steps
of their own. `BuildReport` and `Deliver` are two steps because Go evaluates the
operand of a send when the select statement is entered. `busy` stands for the
helper's bridge, which takes a report from the unbuffered channel and is then
occupied until `stream.Send` returns. `PublishResources` hands the slice to the
helper's controller, which is not modelled, and does not fail.

`HealthStream` is one stream as the kubelet sees it. Its `due` counts the reports
that may still be taken: one when the stream is opened, and one for a probing pass
that completes, unless it is coalesced with an earlier one. The comment of
`WatchHealthStatus` promises that "a resend is evidence the checker is actually
alive"; this is that promise, together with its converse that a completed pass
leaves a report due. `ImplementsStreams` is the conjunction of
`StreamOf(s)!Spec` over the streams, written with the quantifier inside the box so
that TLC takes it.

### Topology, Labels and Startup

`Topology` and `Labels` have an operator per function. A Go result with an error,
or a label that may be unset, is a set with at most one element. `Wrapped` gives
the int64 that a product becomes; its limit is a constant so that small instances
wrap. Accelerator names are abstracted to the parts the regular expressions tell
apart (version, lite, form); names that repeat a form, which no generation has, are
left out, and so is the first expression (`tpu7x`), whose generations are all
refused. A flag says disabled, unlimited, a number, or something else.

`Startup` begins with the action of `main.go` (`ValidateFlag`). It keeps the host
(`files`, which may change between any two steps), what the label sources offer,
and the results of `NewDriver`'s stages. Which sources fail is chosen at
`ReadLabels`. The probe counts VFIO groups by PCI ids, the enumeration takes file
names, as the code does. A listing of a directory is one step; file names that the
two regular expressions for `/dev/accel*` judge differently (`accel` without a
number) are left out. `Misread` is a probe that cannot read `/dev`, `/dev/vfio` or the directory
of a group and counts it for nothing, as the code does. `told` says that a signal was sent, `sigc` that the channel
of capacity one holds it: a signal may come in the middle of `NewDriver`, before
`signal.Notify` (`SignalKills`, in the phases `main` and `prepare`), or while the
channel is full. `PrepareHost` is what `StartPlugin` does to the host before that:
its directories and the unsafe-interrupts parameter; an error there is `HostFails`.
`StateFails` is one in the part of `NewDriver` that creates the CDI handler, the common
spec file, the checkpoint and the helper, and publishes. Both end the process.

### LabelDiscovery

The node is a host of a slice (`slice`), and what the sources say of it is true but
may leave out anything (`Says`): the module asks what the plugin makes of true,
incomplete answers. A text is a sequence of entries with a key and a value, the
last entry of a key counts; `KubeLabels` and `EnvLabels` are the two formats, with
the precedence of keys and the defaults of `mapTpuEnvToLabels` (count 4, topology
2x2, a product over the parts of the bounds that can be parsed). The value of a tpu-env
type is a prefix that the code looks for and the accelerator name it spells:
`OfFamily` maps the known prefixes and passes every other name through, as the code
does in lower case. The sources are
asked one after the other: configuration, tpu-env file, the two attributes of the
metadata server in rounds until a deadline (only on GCE), Node object. Each but the
configuration may fail whenever it is asked (`Unheard`). The deadline may pass between
two rounds or in the middle of a read, which it ends (`PollTimeout`). The rest of `NewDriver` is
one step that uses the operators of `Labels`; `Startup` has its details. How many
device files there are may grow at any time.

`Startup` reads all sources in one step, `given' = Found(offer, failed)`.
`ImplementsReadLabels` says that the discovery comes to the same, with the sources
that were silent when last asked in the place of `failed`; `silent` is bookkeeping
of the model.

## 3. The properties and the runs

| Run | Constants | Properties | States | Result |
|---|---|---|---|---|
| `claims` | 2 claims, 2 handlers, 2 chips, 3 allocations (one with another driver's result, one with a chip twice), `Policies` both, 2 faults | `TypeOK`, `RunningClaimIsBacked`, `SpecMatchesCheckpoint`, `LogsHaveATenant`, `CommonEditsInPlace`, `EveryTenantHoldsEveryChip`, `PreparedOnce`, `NoLostUpdate`, `ImplementsLedger` | 4.3M | hold |
| `claims_live` | 2 allocations, one of them refused, always shared, 1 fault, fairness | `DrainingEnds`, `WantedEnds`, `CoTenantLogsKept` | 149k | hold |
| `claims_orphan_spec` | 1 allocation, always shared, 1 fault | `UnprepareUndoesPrepare` | | violated |
| `claims_policy_flip` | 1 allocation, `Policies` both, 1 fault | `CoTenantLogsKept` | | violated |
| `claims_double_booking` | 1 allocation, never shared, 1 fault | `NoDoubleBooking` | | violated |
| `claims_left_logs` | 1 allocation, always shared, 1 fault | `LastOneOutRemovesLogs` | | violated |
| `health` | 2 devices, 1 stream, 2 changes, fairness | `TypeOK`, `PublishedOrSignalled`, `CopyMatchesFlags`, `SenderHasReceiver`, `NoLostWakeup`, `PublishedSettles`, `ViewSettles`, `Heartbeat`, `ShutdownCompletes`, `ImplementsStreams` | 385k | hold |
| `health_stale` | 1 device, 1 stream, 1 change | `FreshAtSend` | | violated |
| `startup` | 2 accel chips, 3 VFIO groups, 2 sources, 13 sets of labels, 3 flags with and without the feature gate, 1 change, I/O error or misread probe, fairness | `TypeOK`, `SharedNodeIsWholeSlice`, `SharedNodeIsSingleHost`, `SharingIsHonoured`, `GivenLabelsHold`, `InferredTopologyFits`, `CoresAreExact`, `NodeComesUp`, `SignalEndsProcess` | 978k | hold |
| `startup_vfio` | 4 sets of labels, 2 flags, no changes | `ConfiguredNodeStarts` | | violated |
| `discovery` | 4 slices, every combination of 4 kinds of tpu-env, 3 of labels, 4 of flags or silence, 2 rounds of the poll, fairness | `TypeOK`, `SharedNodeIsItsSlice`, `CountedNodeStarts`, `ImplementsReadLabels`, `StartupAdvances`, `DiscoveryEnds` | 1.0M | hold |
| `discovery_v3` | a host of a v3 pod | `MultiHostNeverShares` | | violated |

Each property is stated in words above its definition. `PROJECT.json` names a
mutant for every property of every passing run: a plausible bug in a modelled
operation, written next to it, under which TLC finds the property violated.

Why the bounds are enough. Two claims are enough for one to disturb the other, and
two handlers for two calls to race; properties speak of at most two claims. Two
faults allow a failure and a second one while the first is being repaired. One
stream is enough because streams share no state with each other; two changes let a
device go and come back, or two devices go, at any point of a pass. Two
`/dev/accel` chips and three VFIO groups of which two hold a TPU give counts from 0
to 3 on both paths, and one change lets the probe and the enumeration see different
hosts. `MaxTotalChips` is 16 and `IntLimit` 128 so that labels such as `2x64x2`
pass the cap and wrap. The four slices of `discovery` are a whole host, one of
four hosts with a count that is the default and with one that is not, and a device
type; its deadline may pass in any round, and two rounds let an answer of the first
be followed by silence in the second. For the safety properties the proofs of
section 5 remove these bounds.

The runs of `DeviceHealth` do not check for deadlock: after `ShutdownCompletes`
the system stops, as it should. All other runs check it.

### Fairness

- `ClaimState`: handlers finish. Strong fairness of a handler's steps, since
  entering waits for a mutex that others take; Go hands a mutex to a waiter that
  starves. Replies arrive (weak fairness), the DaemonSet restarts the plugin, the
  kubelet keeps retrying (strong, since it needs an idle handler). Faults are not
  fair and bounded.
- `DeviceHealth`: goroutines run (weak fairness), the ticker keeps firing,
  `stream.Send` returns. Strong fairness of `StopChecker` is the Go select
  statement, which chooses among ready cases at random. During shutdown the
  helper's `Stop` cancels the streams.
- `Startup`: the process runs and is restarted. Strong fairness of `TakeSignal` is
  again the select statement. Nothing is assumed of signals, device files,
  I/O errors, misread directories or sources; `NodeComesUp` is stated under the premise
  that the device files come to rest and the plugin is not stopped for ever. Weak
  fairness of `StartPlugin` does assume that what `NewDriver` reads returns, with an
  answer or without one. It is true of everything but the Node object, which is read
  without a deadline (util.go 791): while that read lasts, a signal waits in its channel,
  and `NodeComesUp` and `SignalEndsProcess` say nothing.
- `LabelDiscovery` examines that assumption, so it makes it of no read over the network.
  Weak fairness is of `Prompt` only: what the process computes, what it reads from its
  own host, and the deadline of the poll. `DiscoveryEnds` then says that the start-up
  ends or comes to the read of the Node object, and that it ends if that one returns;
  a deadline that did not reach into the reads would break it.

Runs that check liveness use no symmetry.

## 4. What the runs found

Seven statements of the repository's own text do not hold of its code. The
configurations with expectation `violation` reproduce them, and a theorem says for
each of them under which condition the statement does hold (section 5): the
behaviour the condition excludes is the only one that can break it.

1. **Orphaned CDI spec file** (`claims_orphan_spec`). `Prepare` writes the spec
   file before the checkpoint. If the second write fails and the pod then goes away,
   `Unprepare` finds no checkpoint entry and returns success; the file stays. The
   interface says that Unprepare "must undo whatever work PrepareResourceClaims
   did".
2. **Logs of a co-tenant** (`claims_policy_flip`). `unprepareDevices` trusts the
   policy of the last start. If the process ends while two claims hold the chips and
   the next start resolves sharing as disabled, the first claim to leave deletes the
   other's logs. As long as no restart
   turns sharing off this cannot happen (`CoTenantLogsAreKept`, proved).
3. **Two claims on the same chips** (`claims_double_booking`). A Prepare that the
   kubelet gave up on while it waited for the lock runs after its claim was
   unprepared and checkpoints it again; the chips, free for all the scheduler knows, are
   given to another claim. `Prepare` does not look at the other claims, so both end up in
   the checkpoint on a node that does not share. The interface calls the driver "the last line of defense" against that.
   On a node that shares, the entry the late call leaves behind also counts as a
   tenant until the claim is unprepared again, so the logs are kept.
4. **Report built before it is sent** (`health_stale`). A report that waits for a
   busy bridge does not show the passes completed meanwhile, unlike what the
   comment of `broadcast` says. The next report does (`ViewSettles`).
5. **Foreign VFIO devices** (`startup_vfio`). The probe ignores VFIO groups without
   a TPU, the enumeration does not, so with one of them present the counts differ
   and the plugin refuses to start although the accelerator is configured. The
   property exempts I/O failures and hosts whose device files are no longer those
   that were probed (`ProbeHolds`).
6. **A host of a v3 pod is shared** (`discovery_v3`). tpu-env types that begin with
   `v3` become `tpu-v3-device`, which counts as one host whatever the topology is.
   The flag's text says that "only single-host nodes can share".
7. **Logs that nobody wipes** (`claims_left_logs`). `RemoveDirContents` drops the error
   of `os.ReadDir`: a log directory that cannot be listed is taken for an empty one, and
   `Unprepare` forgets the last claim and reports success with the logs in place. The
   comment of `unprepareDevices` says that "the contents are removed by whichever claim
   is the last one out".

Related, and visible in the model without a run of its own: a driver configuration
with `--tpu-topology` or `--tpu-chip-count` but no `--tpu-accelerator` is dropped as
a whole, like any source that does not name the accelerator (util.go 761). And a tpu-env
with a type and without bounds is taken to count four chips (util.go 667), so a node
with another number refuses to start; `CountedNodeStarts` exempts it (`BoundsStated`).

## 5. What is proved

All proofs are checked by TLAPS and hold for every value of the constants under
the `ASSUME`s of the modules: there is at least one chip and finitely many, results
of an allocation are finite in number, sentinels differ from values, offers and
configurations are well formed, a slice has at least the chips of one host,
`MaxTotalChips` is below `IntLimit` and no less than the chips of any host the code
knows (`ChipsPerHost`), the label sources are a nonempty finite sequence.

**ClaimState.** `TypeOK` and `ClaimInv` are inductive together. The parts of
`ClaimInv`, and why they are needed:

- `LockInv`: the handler between lock and unlock is the lock's holder and its copy
  equals the file. Without it a save may do anything to other claims.
- `StartedInv`: a process that serves calls has written the common spec file and has
  a checkpoint file; without one, nothing was ever prepared.
- `StepInv`: what a handler knows of its own claim at each step, for example that
  at `save` the spec file already shows the devices about to be checkpointed. It
  carries the argument from one write to the next, over failures.
- `SpecMatchesCheckpoint`, `EveryTenantHoldsEveryChip`: properties that the steps
  rely on. The second needs that an injection between finite sets of equal size is
  onto (the count and duplicate checks of two packages taken together).
- `CallInv`: the kubelet waits for at most one call per claim, and for every
  Unprepare it has not abandoned.
- `PodsInv`: running claims are backed, and so are those whose successful Prepare
  is about to be reported; none of them is being unprepared.
- `LogsInv`: between its wipe and its checkpoint update, the last tenant leaves nothing
  in the directory but what its wipe could not list (`overlooked`).

From it follow `RunningClaimIsBacked`, `CommonEditsInPlace`, `SpecMatchesCheckpoint`,
`EveryTenantHoldsEveryChip`, `LogsHaveATenant`, the action properties
`PreparedOnce` and `NoLostUpdate`, and the refinement `Spec => ImplementsLedger`:
a save is the ledger's `Prepare` or `Unprepare`, a reply to Prepare is `Run`, and
what ends containers is `Stop`. `HoldersCanMove` is the safety core of the liveness
properties: the mutex is held only by a handler of a running process, at a step it
can take; the case that needs proof is a restored claim, whose devices the CDI
library must accept, since `Prepare` is modelled with no answer to their refusal.

`ClaimLedger` has an invariant and an action property of its own (`EntriesHold`,
`EntriesNeverMove`): what runs has an entry, and the entry does not move under it.
`EntriesOfRunningClaimsStay` carries both over to `ClaimState`, which shows what the
refinement is good for.

**DeviceHealth.** `TypeOK`, `PublishedOrSignalled` (strengthened by what the
publisher has gathered), `CopyMatchesFlags` (by the update under way), `NoLostWakeup`
(by the checker's passes), and the refinement `Spec => ImplementsStreams`, from the
types and the fact that a stream that waits to send holds a report. `ShutdownOrder`
(the checker stops for `Stop` only, the streams end before the context is cancelled,
the publisher goes after it) gives `SenderHasReceiver` and `ShutdownIsNeverStuck`.

**Topology and Labels.** `TotalChipsExact`: for all integers, the product is exact
or refused, and no multiplication wraps. The lemmas after it are the other half, what
is not refused: labels with the accelerator, the count of the chips and the topology
of a host, as inferred or as given, within the cap (`CapAssumption`).

**Startup.** `StartInv` (types, well-formed labels, a valid flag, and that each
stage's result follows from the labels) gives `GivenLabelsHold`,
`SharedNodeIsWholeSlice`, `SharedNodeIsSingleHost`, `SharingIsHonoured`,
`CoresAreExact` and `InferredTopologyFits`. `SignalsAreKept` is the safety core of
`SignalEndsProcess`: a signal that was sent stays in the channel until the process
has ended.

**LabelDiscovery.** `TypeOK`; `ImplementsReadLabels`, from an invariant that says, at
each step, that no source before the one being asked has answered and knows the
accelerator, unless it is silent; and `SharedNodeIsItsSlice`, from the truth of the
sources: a topology that is stated is the slice's, so a podslice that counts as one
host has as many chips as the slice, and one that does not is not shared.
`CountedNodeStarts` follows from a second invariant: whatever was given counts the
chips of the host or leaves the count open (the product of the bounds is the count,
`HostProduct`), so that a node with all its chips has labels that `InitEnvs` and
the enumeration accept, be the topology stated, the default or inferred.
`StartupAdvances`: every step of `NewDriver` lowers `StepsLeft`, a natural number that
is at most ten and three per round of the poll, so the start-up cannot go round for
ever, whatever the sources answer; a read that does not return takes no step.

**Where the findings end.** The seven violated properties are theorems under a
condition. A condition on a constant is an assumption of the theorem; a condition on
what happens is a premise beside `Spec`, an action formula or an invariant that says
what does not happen. The conditions are not claims about the code: the code does not
ensure them, which is what the findings are about.

| Property | Holds when | Theorem |
|---|---|---|
| `CoTenantLogsKept` | no restart turns sharing off (`SharingStaysOn`); in particular when `Policies` has one member | `CoTenantLogsAreKept`, `CoTenantLogsUnderFixedPolicy` |
| `NoDoubleBooking` | and no Prepare runs after the kubelet has given up on it (`NoLatePrepare`) | `NoDoubleBookingInTime` |
| `UnprepareUndoesPrepare` | no Prepare ends between its two writes (`PreparesComplete`) | `UnprepareUndoesCompletePrepare` |
| `FreshAtSend` | no probing pass completes while a report waits for the bridge (`NoPassOvertakes`) | `ReportsAreFreshUnlessOvertaken` |
| `ConfiguredNodeStarts` | every VFIO group of the host holds a TPU | `TpuOnlyNodesStart` |
| `MultiHostNeverShares` | the family a tpu-env names maps to the type of the slice, which it does for all but v3 | `KnownFormsNeverShare` |
| `LastOneOutRemovesLogs` | every wipe can list the log directory (`ListingsSucceed`) | `LastOneOutRemovesListedLogs` |

Likewise `CountedTextsStart` turns the premise of `CountedNodeStarts` into one on the
texts: if every tpu-env that names a type states the bounds, no node whose believed
source is true is refused.

They need invariants of their own: `ExclusiveInv` (without sharing, the kubelet
knows of one claim at a time), `UnpreparedInv` (what the kubelet
has forgotten is not in the checkpoint), `OwnedSpecs` (a spec file belongs to an entry
or to a Prepare between its two writes), `WaitingReportIsFresh`, and for a refused
node `FoundInv` and `ProbeIsEnumeration` (probe and enumeration count the same
files when every group is a TPU's) with the lemmas on what `InitEnvs` accepts.

Only model-checked: the liveness properties (`DrainingEnds`, `WantedEnds`,
`PublishedSettles`, `ViewSettles`, `Heartbeat`, `ShutdownCompletes`, `NodeComesUp`,
`SignalEndsProcess`, `DiscoveryEnds`), and of course the seven violations. Liveness
under fairness and `ENABLED` are out of reach of the prover; of `DrainingEnds`,
`WantedEnds`, `ShutdownCompletes`, `SignalEndsProcess` and `DiscoveryEnds` the safety
core is proved, as said above. Every invariant and every action property of a passing
run is also proved.

## 6. What the properties exempt

- A claim with an Unprepare that the kubelet has given up on (`abandoned`): such a
  call may run after the claim was prepared again, and neither side can tell. The
  properties about running containers exempt the claim until a Prepare of it
  succeeds with no such call waiting; those about logs exempt the run while there is
  such a claim. An abandoned Prepare is not exempt.
- `LogsHaveATenant` exempts logs that a wipe could not list (`overlooked`), until their
  claim writes again; without the exemption it is finding 7.
- `CoTenantLogsKept` exempts steps in which the process ends.
- `UnprepareUndoesPrepare` is about claims that the kubelet has been told are unprepared,
  without an entry and without a call under way: a late Prepare that still runs, or has
  put its claim back, is the subject of `NoDoubleBooking`.
- `DiscoveryEnds` exempts the time in which the Node object is being read.
- `InferredTopologyFits` is about nodes whose enumeration found what the probe had
  found. When chips appear in between and the labels state their number, the two
  disagree about the topology.
- `ConfiguredNodeStarts` exempts nodes whose files are not those probed, be it that they
  have changed or that the probe could not read them.
- `SharedNodeIsItsSlice` is about nodes whose sources name the topology wherever they
  name the accelerator (`TopologyStated`): without it the code cannot tell a host of
  a larger slice from a host of its own, and documents that it then assumes the
  latter. It leaves out hosts of v3 pods that are described by tpu-env
  (`FormKept`), which are finding 6.
- `CountedNodeStarts` is about nodes whose tpu-env, if any, has the bounds
  (`BoundsStated`): the count is made up otherwise.

## 7. Not modelled

- JSON encoding and checksum of the checkpoint: a read that fails. A torn write
  cannot happen while the library renames a temporary file over the old one.
- Attributes, UUIDs, device nodes and mounts: data that no property depends on. The
  ICI resiliency label, which is copied into the environment, and the capacities
  `applyConsumableShares` writes for the scheduler.
- The identity of a chip apart from its name. A claim holds all chips of the node,
  so chips that are numbered otherwise after a reboot give the same set.
- `IsValidSubSliceTopology` and the options for NUMA and visible chips: no caller
  passes them.
- The generation that is read from PCI ids only feeds a warning.
- `ApplyNetworkSettings`, whose failure is only logged. What `StartPlugin` writes
  to the host is one step that may fail; the content of it is left out.
- Command line, logging, declaration of feature gates, the Helm chart, the demo
  scripts.
- The helper's gRPC server, registration and ResourceSlice controller (vendored),
  and its batches: the loops of `PrepareResourceClaims` and
  `UnprepareResourceClaims` give every claim a call and a result of its own.
- `DeviceHealth` and `ClaimState` are not composed: the mutex is all they share,
  since `prepareDevices` looks at the number and the names of the devices and never
  at their health.

## 8. Plan

Done: `ClaimState` with its ledger, start-up and common spec file; `DeviceHealth` with
`HealthStream`; `Topology`, `Labels` and `Startup` with flags and signals; `LabelDiscovery` as a
refinement of the step it stands for; runs and proofs for each, and for each finding a
theorem that says where it ends. Left, in this order:

1. The capacities of `applyConsumableShares` with a scheduler that honours them, when
   the repository has more to say about the scheduler.
2. The checkpoint's checksum with a torn write, if the library's atomicity is to be
   examined rather than assumed.
