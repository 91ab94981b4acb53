------------------------------- MODULE Startup -------------------------------
(***************************************************************************)
(* How the plugin starts on a node: StartPlugin's retry loop around        *)
(* NewDriver, which probes the host for TPU chips, asks a list of sources  *)
(* what kind of TPU they are, completes the answer from the hardware,      *)
(* resolves the sharing policy, computes the environment of the workloads  *)
(* and enumerates the devices to publish.                                  *)
(*                                                                         *)
(* The host is read twice, by the probe and by the enumeration, with       *)
(* network calls in between; device files may come and go at any time, a   *)
(* directory may be unreadable for once, and a source may fail to answer.  *)
(***************************************************************************)
EXTENDS Labels, FiniteSets

CONSTANTS
  Accels,     \* names of the chips in /dev: accel<n>
  Groups,     \* names of the IOMMU groups in /dev/vfio
  Pci,        \* the PCI functions of each group, by vendor and device id
  Sources,    \* the label sources, in order of precedence; Sources[1] is the
              \* driver configuration
  Offers,     \* the labels a source may hold
  Flags,      \* values of --consumable-shares
  MaxChanges  \* bound on the device files that come and go, on the I/O errors and
              \* on the probes that cannot read everything

VARIABLES
  files,        \* the device files that exist
  changes,      \* number of changes and I/O errors so far
  offer,        \* the labels each source holds
  flag,         \* the flag --consumable-shares
  gate,         \* the feature gate ConsumableShares
  told,         \* a termination signal was sent to the process
  sigc,         \* the channel sigc holds it
  phase,        \* progress of StartPlugin
  hardware,     \* result of probeTPUHardware
  given,        \* the labels as their source gave them
  labels,       \* the labels after completion
  policy,       \* the resolved sharing policy
  envs,         \* the environment for the workloads (NewTPUManager)
  allocatable   \* the devices to publish

host == <<files, changes, offer, flag, gate>>
signals == <<told, sigc>>
driver == <<hardware, given, labels, policy, envs, allocatable>>
vars == <<host, signals, phase, driver>>

ASSUME HostAssumption == IsFiniteSet(Accels) /\ IsFiniteSet(Groups)

ASSUME SourcesAssumption ==
  /\ Len(Sources) \in Nat \ {0} /\ DOMAIN Sources = 1..Len(Sources)
  /\ \A l \in Offers : WellFormed(l)
  /\ MaxChanges \in Nat

-----------------------------------------------------------------------------
(* The hardware.                                                           *)

\* tpuGenerationOfIOMMUGroup: a Google device whose id can be read and is not
\* known to be something else.
IsTpuGroup(g) ==
  \E i \in DOMAIN Pci[g] :
    Pci[g][i].vendor = "google" /\ Pci[g][i].device \notin {"unreadable", "not_tpu"}

\* countAccelDevices and countVfioTPUDevices.
AccelDevices == files \cap Accels
VfioTpuDevices == {g \in files \cap Groups : IsTpuGroup(g)}

Hardware(dir, devices) ==
  Some([devDirectory |-> dir, chipCount |-> Cardinality(devices)])

\* What the probe lists: the two device directories, and the group of each VFIO
\* device.
Listed == {"/dev", "/dev/vfio"} \cup Groups

\* Mutant of ProbeTPUHardware: only /dev is searched.
ProbeAccelOnly(unread) ==
  IF "/dev" \notin unread /\ AccelDevices # {} THEN Hardware("/dev", AccelDevices)
  ELSE None

\* probeTPUHardware: what cannot be read counts for nothing.
ProbeTPUHardware(unread) ==
  LET accel == IF "/dev" \in unread THEN {} ELSE AccelDevices
      vfio == IF "/dev/vfio" \in unread THEN {} ELSE VfioTpuDevices \ unread
  IN  IF accel # {} THEN Hardware("/dev", accel)
      ELSE IF vfio # {} THEN Hardware("/dev/vfio", vfio)
      ELSE None

\* The files enumerateAllPossibleTpuDevices takes for chips: by their names
\* alone.
Enumerated(devDirectory) ==
  IF devDirectory = "/dev" THEN files \cap Accels ELSE files \cap Groups

-----------------------------------------------------------------------------
(* The host.                                                               *)

\* The process begins, on any host, with any labels and any flag.
Init ==
  /\ files \in SUBSET (Accels \cup Groups)
  /\ changes = 0
  /\ offer \in [DOMAIN Sources -> {Some(l) : l \in Offers} \cup {None}]
  /\ flag \in Flags /\ gate \in BOOLEAN
  /\ told = FALSE /\ sigc = FALSE
  /\ phase = "main"
  /\ hardware = None /\ given = Unlabelled /\ labels = Unlabelled
  /\ policy = None /\ envs = None /\ allocatable = {}

Change == changes < MaxChanges /\ changes' = changes + 1

\* A device file appears or goes away.
FileChanges(f) ==
  /\ Change
  /\ files' = IF f \in files THEN files \ {f} ELSE files \cup {f}
  /\ UNCHANGED <<offer, flag, gate, signals, phase, driver>>

\* The action of main.go: a flag that is not valid ends the process.
ValidateFlag ==
  /\ phase = "main"
  /\ phase' = IF ValidShares(gate, flag) THEN "prepare" ELSE "failed"
  /\ UNCHANGED <<host, signals, driver>>

\* StartPlugin has made its directories and allowed unsafe interrupts; it asks for
\* the signals and calls NewDriver.
PrepareHost ==
  /\ phase = "prepare"
  /\ phase' = "probe"
  /\ UNCHANGED <<host, signals, driver>>

\* A directory or parameter of the host cannot be read or written: StartPlugin
\* returns the error, and the process ends.
HostFails ==
  /\ phase = "prepare"
  /\ Change
  /\ phase' = "failed"
  /\ UNCHANGED <<files, offer, flag, gate, signals, driver>>

\* A file of DeviceState or of the helper cannot be read or written: NewDriver
\* returns the error, and the process ends.
StateFails ==
  /\ phase = "enumerate"
  /\ Change
  /\ phase' = "failed"
  /\ UNCHANGED <<files, offer, flag, gate, signals, driver>>

-----------------------------------------------------------------------------
(* NewDriver.                                                              *)

\* The probe reads everything but this.
Reads(unread) == IF unread = {} THEN UNCHANGED changes ELSE Change

\* The host has TPU chips that can be seen.
Probe(unread) ==
  /\ phase = "probe" /\ ProbeTPUHardware(unread) # None
  /\ Reads(unread)
  /\ hardware' = ProbeTPUHardware(unread)
  /\ phase' = "labels"
  /\ UNCHANGED <<files, offer, flag, gate, signals, given, labels, policy, envs,
                 allocatable>>

\* It has none: errNoTPUDetected, the only error StartPlugin does not return.
NoTPU(unread) ==
  /\ phase = "probe" /\ ProbeTPUHardware(unread) = None
  /\ Reads(unread)
  /\ phase' = "idle"
  /\ UNCHANGED <<files, offer, flag, gate, signals, driver>>

\* A directory cannot be read for once; the probe does not tell.
Misread(unread) == unread # {} /\ (Probe(unread) \/ NoTPU(unread))

\* Mutant of ReadLabels: a node whose accelerator nobody knows is accepted.
ReadLabelsUnchecked(failed) ==
  /\ phase = "labels"
  /\ given' = Found(offer, failed)
  /\ labels' = CompleteLabels(Found(offer, failed), Value(hardware))
  /\ phase' = "configure"
  /\ UNCHANGED <<host, signals, hardware, policy, envs, allocatable>>

\* The labels, from a source that knows the accelerator and what the probe saw.
ReadLabels(failed) ==
  /\ phase = "labels"
  /\ given' = Found(offer, failed)
  /\ labels' = CompleteLabels(Found(offer, failed), Value(hardware))
  /\ phase' = IF labels'.accelerator = None THEN "failed" ELSE "configure"
  /\ UNCHANGED <<host, signals, hardware, policy, envs, allocatable>>

\* resolveConsumableShares and NewTPUManager; both depend on the labels only.
Configure ==
  /\ phase = "configure" /\ InitEnvs(labels) # None
  /\ policy' = ResolveShares(RequestedShares(gate, flag), labels)
  /\ envs' = InitEnvs(labels)
  /\ phase' = "enumerate"
  /\ UNCHANGED <<host, signals, hardware, given, labels, allocatable>>

\* enumerateAllPossibleTpuDevices finds as many devices as the labels say.
Enumerate ==
  /\ phase = "enumerate"
  /\ allocatable' = Enumerated(Value(hardware).devDirectory)
  /\ Cardinality(allocatable') \in ChipCount(labels)
  /\ phase' = "running"
  /\ UNCHANGED <<host, signals, hardware, given, labels, policy, envs>>

\* Any other error is returned by StartPlugin, and the process ends.
Refuse ==
  /\ \/ phase = "configure" /\ InitEnvs(labels) = None
     \/ /\ phase = "enumerate"
        /\ Cardinality(Enumerated(Value(hardware).devDirectory))
             \notin ChipCount(labels)
  /\ phase' = "failed"
  /\ UNCHANGED <<host, signals, driver>>

-----------------------------------------------------------------------------
(* StartPlugin.                                                            *)

\* noTPURetryPeriod has passed.
RetryTimer ==
  /\ phase = "idle"
  /\ phase' = "probe"
  /\ UNCHANGED <<host, signals, driver>>

\* Mutant of SignalArrives: the channel has no buffer, and a signal is lost
\* unless StartPlugin is waiting for it.
SignalUnbuffered ==
  /\ phase \notin {"main", "prepare", "failed", "stopped"}
  /\ told' = TRUE /\ sigc' = (sigc \/ phase \in {"idle", "running"})
  /\ UNCHANGED <<host, phase, driver>>

\* The kubelet ends the container, at any time after signal.Notify; while the
\* channel is full, another signal is dropped.
SignalArrives ==
  /\ phase \notin {"main", "prepare", "failed", "stopped"}
  /\ told' = TRUE /\ sigc' = TRUE
  /\ UNCHANGED <<host, phase, driver>>

\* Before signal.Notify a signal ends the process.
SignalKills ==
  /\ phase \in {"main", "prepare"}
  /\ told' = TRUE
  /\ phase' = "stopped"
  /\ UNCHANGED <<host, sigc, driver>>

\* The signal is taken by the retry loop or after it.
TakeSignal ==
  /\ phase \in {"idle", "running"} /\ sigc
  /\ sigc' = FALSE
  /\ phase' = "stopped"
  /\ UNCHANGED <<host, told, driver>>

\* The kubelet restarts the container of a process that ended.
Restart ==
  /\ phase \in {"failed", "stopped"}
  /\ told' = FALSE /\ sigc' = FALSE
  /\ phase' = "main"
  /\ hardware' = None /\ given' = Unlabelled /\ labels' = Unlabelled
  /\ policy' = None /\ envs' = None /\ allocatable' = {}
  /\ UNCHANGED host

-----------------------------------------------------------------------------
\* The driver configuration is a flag and can always be read.
Remote == DOMAIN Sources \ {1}

StartPlugin ==
  \/ ValidateFlag \/ PrepareHost
  \/ Probe({}) \/ NoTPU({}) \/ Configure \/ Enumerate \/ Refuse \/ RetryTimer
  \/ \E failed \in SUBSET Remote : ReadLabels(failed)

Next ==
  \/ \E f \in Accels \cup Groups : FileChanges(f)
  \/ \E unread \in SUBSET Listed : Misread(unread)
  \/ HostFails \/ StateFails
  \/ StartPlugin \/ SignalArrives \/ SignalKills \/ TakeSignal \/ Restart

Spec == Init /\ [][Next]_vars

\* The process runs, its select statements pick every ready channel in the end,
\* and the kubelet restarts it; what NewDriver reads, it reads in the end.  Signals,
\* file changes, I/O errors, misread directories and failing sources are not fair.
FairSpec ==
  Spec /\ WF_vars(StartPlugin) /\ SF_vars(TakeSignal) /\ WF_vars(Restart)

-----------------------------------------------------------------------------
(* Properties.                                                             *)

\* Type invariant: what NewDriver has found out is there when it is needed.
TypeOK ==
  /\ files \subseteq Accels \cup Groups
  /\ changes \in 0..MaxChanges
  /\ flag \in Flags /\ gate \in BOOLEAN
  /\ told \in BOOLEAN /\ sigc \in BOOLEAN
  /\ phase \in {"main", "prepare", "probe", "idle", "labels", "configure", "enumerate",
                "running", "failed", "stopped"}
  /\ phase \in {"labels", "configure", "enumerate", "running"} =>
       /\ hardware # None
       /\ \A hw \in hardware :
            hw.devDirectory \in {"/dev", "/dev/vfio"} /\ hw.chipCount \in Nat \ {0}
  /\ phase \in {"configure", "enumerate", "running"} =>
       labels.accelerator # None /\ labels.count # None
  /\ phase \in {"enumerate", "running"} => envs # None
  /\ policy \in {RequestedShares(gate, flag), None}
  /\ allocatable \subseteq Accels \cup Groups

\* Offers and labels are well formed.
LabelsInv ==
  /\ offer \in [DOMAIN Sources -> {Some(l) : l \in Offers} \cup {None}]
  /\ WellFormed(given) /\ WellFormed(labels)

\* What NewDriver has computed so far follows from the labels and the flag.
ProgressInv ==
  /\ phase \notin {"main", "failed", "stopped"} => ValidShares(gate, flag)
  /\ phase \in {"configure", "enumerate", "running"} =>
       labels = CompleteLabels(given, Value(hardware))
  /\ phase \in {"enumerate", "running"} =>
       policy = ResolveShares(RequestedShares(gate, flag), labels) /\ envs = InitEnvs(labels)
  /\ phase = "running" => Cardinality(allocatable) \in ChipCount(labels)

\* The inductive invariant.
StartInv == TypeOK /\ LabelsInv /\ ProgressInv

\* Sharing never crosses a slice: when the devices of a podslice are published
\* with AllowMultipleAllocations, they are all the chips of the slice's topology.
\* It takes isSingleHostNode (labels only) and enumerateAllPossibleTpuDevices
\* (devices against labels) together.
SharedNodeIsWholeSlice ==
  phase = "running" /\ policy # None /\ OnPodslice(labels) =>
    \E dims \in Dims(labels) : Cardinality(allocatable) = SliceChips(dims)

\* A request to share that main.go accepts is not dropped later on: a single host
\* that runs has the policy the flag asks for, and every other node runs without
\* one (validateConsumableShares against resolveConsumableShares).
SharingIsHonoured ==
  phase = "running" =>
    (policy # None) = (flag.says # "disabled" /\ IsSingleHostNode(labels))

\* The two judgements of the same fact agree: a podslice node that is shared
\* gives its workloads the single-host environment (isSingleHostNode and InitEnvs).
SharedNodeIsSingleHost ==
  phase = "running" /\ policy # None /\ OnPodslice(labels) =>
    Value(envs).singleHost

\* What the source says stands, and the node matches it: the hardware only fills
\* gaps, and a node with another number of devices than stated does not start.
GivenLabelsHold ==
  phase = "running" =>
    /\ given.count # None => given.count = Some(Cardinality(allocatable))
    /\ given.topology # None => labels.topology = given.topology

\* A topology inferred from the hardware describes one host: the environment of a
\* podslice then has a single host along every dimension (singleHostTopology
\* against calculateHostBounds), if the devices enumerated are those probed.
InferredTopologyFits ==
  /\ phase = "running" /\ OnPodslice(labels)
  /\ given.topology = None /\ labels.topology # None
  /\ Value(hardware).chipCount = Cardinality(allocatable)
  => Value(envs).hostBounds = Some(<<1, 1, 1>>) /\ Value(envs).singleHost

\* The cores given to a workload are the exact product of the dimensions, and no
\* topology above maxTotalChips gets that far (calculateTotalChips: no overflow).
CoresAreExact ==
  phase = "running" =>
    \A dims \in Dims(labels) :
      /\ SliceChips(dims) \in 1..MaxTotalChips
      /\ Value(envs).cores \in {Some(SliceChips(dims)), Some(2 * SliceChips(dims))}

\* The node's chips: those in /dev if there are any.
NodeChips == IF AccelDevices # {} THEN AccelDevices ELSE VfioTpuDevices

\* The flag is valid, the node has the chips of a single host, and the driver
\* configuration names a valid accelerator and nothing else.
Startable ==
  /\ ValidShares(gate, flag)
  /\ \E l \in offer[1] :
       /\ \E a \in l.accelerator : AcceleratorGen(a) # None
       /\ l.count = None /\ l.topology = None
  /\ Cardinality(NodeChips) \in DOMAIN ChipsPerHost

\* What NewDriver knows of the host is so, and still so.
ProbeHolds == hardware # None => hardware = ProbeTPUHardware({})

\* "Only the accelerator type is required" and VFIO devices are told apart "by the
\* Google PCI vendor id" (README): a node that is configured so is not refused,
\* unless an I/O operation fails or its device files are not those probed.
ConfiguredNodeStarts ==
  [][Startable /\ ProbeHolds /\ changes' = changes => phase' # "failed"]_vars

\* A node that gets its chips after the plugin started comes up: once it has only
\* chips and keeps them, the plugin ends up running unless it is stopped for ever.
NodeComesUp ==
  /\ <>[](Startable /\ \A g \in files \cap Groups : IsTpuGroup(g))
  /\ <>[](phase # "stopped")
  => <>[](phase = "running")

\* A termination signal ends the process whenever it comes: in the middle of
\* NewDriver, between two attempts on a node without TPU, or while it runs.
SignalEndsProcess == told ~> phase \in {"failed", "stopped"}
=============================================================================
