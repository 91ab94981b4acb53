------------------------------ MODULE ClaimState ------------------------------
(***************************************************************************)
(* DeviceState of the kubelet plugin: how ResourceClaims are prepared and  *)
(* unprepared on one node.                                                 *)
(*                                                                         *)
(* A gRPC handler runs one Prepare or Unprepare call.  It takes the lock,  *)
(* reads the checkpoint file, and then makes two or three separate writes  *)
(* (CDI spec file, log directory, checkpoint file), each of which may      *)
(* fail, with a possible crash of the process or a reboot of the node      *)
(* between any two of them.  A process that starts writes the CDI spec     *)
(* file all claims share and makes sure that there is a checkpoint file.   *)
(* The kubelet is the environment: it retries, loses replies, gives up on  *)
(* calls that are still queued, and restarts.                              *)
(***************************************************************************)
EXTENDS Naturals, FiniteSets, Sequences, Functions

CONSTANTS
  Claims,          \* UIDs of the ResourceClaims
  Chips,           \* names of the TPU devices the node publishes
  Allocations,     \* allocation results the scheduler may put in a claim
  DriverName,      \* the driver name that marks this driver's results
  Handlers,        \* gRPC handler goroutines of the plugin
  NotPrepared,     \* "no entry" in the checkpoint, "no file" in the CDI root
  NoHandler,       \* the lock is free
  NoCall,          \* the handler runs no call
  Policies,        \* what a start may resolve: are the chips shared?
  MaxFaults        \* bound on faults (I/O errors, crashes, lost calls) per run

VARIABLES
  \* on disk
  checkpoint,  \* the checkpoint file: claim -> its prepared devices
  cdi,         \* the CDI spec files: claim -> the devices the file defines
  logs,        \* claims whose workload has files in the libtpu log directory
  common,      \* is there a CDI spec file of the edits common to all claims?
  stored,      \* is there a checkpoint file?
  \* the plugin process
  proc,        \* progress of NewDeviceState: "down", "starting" or "up"
  shares,      \* sharesPolicy.enabled, as the last start resolved it
  offered,     \* what the published ResourceSlice offers, "nothing" at first
  lock,        \* holder of DeviceState's mutex
  pc,          \* next step of each handler
  call,        \* the request each handler serves
  cp,          \* the copy of the checkpoint each handler works on
  ok,          \* outcome of a finished call
  live,        \* is the kubelet still waiting for the handler's reply?
  \* the kubelet and the API server
  kubelet,     \* what the kubelet wants for each claim
  alloc,       \* allocation result of each claim
  pods,        \* claims whose containers may be running
  \* bookkeeping of the model
  abandoned,   \* claims with an Unprepare the kubelet gave up on, until a
               \* later Prepare has succeeded
  overlooked,  \* claims whose logs a wipe left because it could not list them,
               \* until they write again
  faults       \* number of faults so far

logdir == <<logs, overlooked>>
disk == <<checkpoint, cdi, logdir>>
process == <<proc, shares, offered, common, stored>>
handlers == <<lock, pc, call, cp, ok, live>>
cluster == <<kubelet, alloc, pods>>
vars == <<disk, process, handlers, cluster, abandoned, faults>>

-----------------------------------------------------------------------------
(* Allocation results and prepared devices.                                *)

\* The results that name this driver; everything else belongs to others.
OwnResults(a) == {i \in DOMAIN a : a[i].driver = DriverName}

PreparedDevices(a) == [i \in OwnResults(a) |-> a[i].device]

DeviceLists == {PreparedDevices(a) : a \in Allocations}

\* The checks of prepareDevices: all of the node's chips, and only chips.
ValidAllocation(a) ==
  /\ Cardinality(OwnResults(a)) = Cardinality(Chips)
  /\ \A i \in OwnResults(a) : a[i].device \in Chips

\* Mutant of ValidSpec: the same chip may be listed twice.
RepeatsAllowed(devices) == DOMAIN devices # {}

\* The CDI library refuses a spec with no device or with a repeated one.
ValidSpec(devices) == DOMAIN devices # {} /\ IsInjective(devices)

ASSUME ChipsAssumption == IsFiniteSet(Chips) /\ Chips # {}

ASSUME AllocationsAssumption ==
  \A a \in Allocations : IsFiniteSet(DOMAIN a)

ASSUME SentinelAssumption ==
  /\ NotPrepared \notin DeviceLists
  /\ NoHandler \notin Handlers
  /\ MaxFaults \in Nat
  /\ Policies \subseteq BOOLEAN /\ Policies # {}

-----------------------------------------------------------------------------
(* Types.                                                                  *)

Table == [Claims -> DeviceLists \cup {NotPrepared}]
Calls == [kind : {"Prepare", "Unprepare"}, claim : Claims, alloc : Allocations]

\* Steps a handler takes with the lock held.
Locked == {"respec", "spec", "save", "wipe", "unspec", "drop"}
Steps == Locked \cup {"idle", "waiting", "done"}

\* Type invariant: the tables are total over the claims, a handler that is not
\* idle serves a call, and every sentinel is where its variable expects it
\* (DeviceState and Checkpoint of state.go and checkpoint.go).
TypeOK ==
  /\ checkpoint \in Table
  /\ cdi \in Table
  /\ logs \subseteq Claims
  /\ proc \in {"down", "starting", "up"}
  /\ offered \in {"nothing", "exclusive", "shared"}
  /\ shares \in BOOLEAN /\ common \in BOOLEAN /\ stored \in BOOLEAN
  /\ lock \in Handlers \cup {NoHandler}
  /\ pc \in [Handlers -> Steps]
  /\ call \in [Handlers -> Calls \cup {NoCall}]
  /\ cp \in [Handlers -> Table]
  /\ ok \in [Handlers -> BOOLEAN]
  /\ live \in [Handlers -> BOOLEAN]
  /\ \A h \in Handlers : pc[h] # "idle" => call[h] \in Calls
  /\ kubelet \in [Claims -> {"absent", "wanted", "prepared", "draining"}]
  /\ alloc \in [Claims -> Allocations]
  /\ pods \subseteq Claims
  /\ abandoned \subseteq Claims /\ overlooked \subseteq Claims
  /\ faults \in 0..MaxFaults

EmptyTable == [c \in Claims |-> NotPrepared]

\* A node on which the plugin has never run: no policy, nothing published.
Init ==
  /\ checkpoint = EmptyTable
  /\ cdi = EmptyTable
  /\ logs = {}
  /\ common = FALSE /\ stored = FALSE
  /\ proc = "down"
  /\ shares = FALSE /\ offered = "nothing"
  /\ lock = NoHandler
  /\ pc = [h \in Handlers |-> "idle"]
  /\ call = [h \in Handlers |-> NoCall]
  /\ cp = [h \in Handlers |-> EmptyTable]
  /\ ok = [h \in Handlers |-> FALSE]
  /\ live = [h \in Handlers |-> FALSE]
  /\ kubelet = [c \in Claims |-> "absent"]
  /\ alloc \in [Claims -> Allocations]
  /\ pods = {}
  /\ abandoned = {} /\ overlooked = {}
  /\ faults = 0

Fault == faults < MaxFaults /\ faults' = faults + 1

-----------------------------------------------------------------------------
(* Steps of a handler.                                                     *)

Claim(h) == call[h].claim

\* Move on to step s with the lock held.
Goto(h, s) ==
  /\ pc' = [pc EXCEPT ![h] = s]
  /\ UNCHANGED <<lock, call, cp, ok, live>>

\* Mutant of Return: a call that fails keeps the lock.
ReturnLocked(h, success) ==
  /\ pc' = [pc EXCEPT ![h] = "done"]
  /\ ok' = [ok EXCEPT ![h] = success]
  /\ lock' = IF success THEN NoHandler ELSE lock
  /\ UNCHANGED <<call, cp, live>>

\* The handler returns: the deferred Unlock runs and the reply is on its way.
Return(h, success) ==
  /\ pc' = [pc EXCEPT ![h] = "done"]
  /\ ok' = [ok EXCEPT ![h] = success]
  /\ lock' = NoHandler
  /\ UNCHANGED <<call, cp, live>>

\* A Prepare that succeeds makes good what late Unprepares of its claim have
\* undone, unless one more of them waits for the lock.
Repaired(h) ==
  {c \in {Claim(h)} :
     \A g \in Handlers :
       pc[g] = "waiting" /\ call[g].kind = "Unprepare" => Claim(g) # c}

World == <<process, cluster>>
Environment == <<World, abandoned>>

\* Mutant of CanEnter: calls are not serialised.
CanEnterUnlocked(h) == pc[h] = "waiting"

\* The lock is free, and GetCheckpoint is next.
CanEnter(h) == pc[h] = "waiting" /\ lock = NoHandler

\* Lock and read the checkpoint file into the handler's copy.
Enter(h, s) ==
  /\ lock' = h
  /\ cp' = [cp EXCEPT ![h] = checkpoint]
  /\ pc' = [pc EXCEPT ![h] = s]
  /\ UNCHANGED <<call, ok, live>>

\* Lock, read, and return at once.
EnterAndReturn(h, success) ==
  /\ pc' = [pc EXCEPT ![h] = "done"]
  /\ ok' = [ok EXCEPT ![h] = success]
  /\ UNCHANGED <<lock, call, cp, live>>

GetCheckpointFails(h) ==
  /\ CanEnter(h)
  /\ EnterAndReturn(h, FALSE)
  /\ Fault
  /\ UNCHANGED <<disk, Environment>>

\* Prepare of a claim that is in the checkpoint: no check is repeated.
PrepareRestore(h) ==
  /\ CanEnter(h)
  /\ call[h].kind = "Prepare"
  /\ checkpoint[Claim(h)] # NotPrepared
  /\ Enter(h, "respec")
  /\ UNCHANGED <<disk, Environment, faults>>

\* Mutant of PrepareDevices: the checkpoint is not consulted first.
PrepareAgain(h) ==
  /\ CanEnter(h)
  /\ call[h].kind = "Prepare"
  /\ ValidAllocation(call[h].alloc)
  /\ Enter(h, "spec")
  /\ UNCHANGED <<disk, Environment, faults>>

\* Prepare of a new claim: prepareDevices accepts the allocation ...
PrepareDevices(h) ==
  /\ CanEnter(h)
  /\ call[h].kind = "Prepare"
  /\ checkpoint[Claim(h)] = NotPrepared
  /\ ValidAllocation(call[h].alloc)
  /\ Enter(h, "spec")
  /\ UNCHANGED <<disk, Environment, faults>>

\* ... or refuses it.
PrepareReject(h) ==
  /\ CanEnter(h)
  /\ call[h].kind = "Prepare"
  /\ checkpoint[Claim(h)] = NotPrepared
  /\ ~ValidAllocation(call[h].alloc)
  /\ EnterAndReturn(h, FALSE)
  /\ UNCHANGED <<disk, Environment, faults>>

\* Write the claim's CDI spec file: from the checkpoint when the claim is
\* restored, from the allocation when it is new.
RecreateClaimSpecFile(h) ==
  /\ pc[h] = "respec"
  /\ ValidSpec(cp[h][Claim(h)])
  /\ cdi' = [cdi EXCEPT ![Claim(h)] = cp[h][Claim(h)]]
  /\ Return(h, TRUE)
  /\ abandoned' = abandoned \ Repaired(h)
  /\ UNCHANGED <<checkpoint, logdir, World, faults>>

\* Mutant of CreateClaimSpecFile: a file that is already there is kept.
KeepClaimSpecFile(h) ==
  /\ pc[h] = "spec"
  /\ ValidSpec(PreparedDevices(call[h].alloc))
  /\ cdi' = IF cdi[Claim(h)] # NotPrepared THEN cdi
            ELSE [cdi EXCEPT ![Claim(h)] = PreparedDevices(call[h].alloc)]
  /\ Goto(h, "save")
  /\ UNCHANGED <<checkpoint, logdir, Environment, faults>>

CreateClaimSpecFile(h) ==
  /\ pc[h] = "spec"
  /\ ValidSpec(PreparedDevices(call[h].alloc))
  /\ cdi' = [cdi EXCEPT ![Claim(h)] = PreparedDevices(call[h].alloc)]
  /\ Goto(h, "save")
  /\ UNCHANGED <<checkpoint, logdir, Environment, faults>>

\* The spec is invalid.  Nothing is written.
ClaimSpecInvalid(h) ==
  /\ pc[h] = "spec"
  /\ ~ValidSpec(PreparedDevices(call[h].alloc))
  /\ Return(h, FALSE)
  /\ UNCHANGED <<disk, Environment, faults>>

\* Mutant of SavePrepared: the results of other drivers are saved too.
SaveAllocation(h) ==
  /\ pc[h] = "save"
  /\ checkpoint' = [cp[h] EXCEPT ![Claim(h)] =
       [i \in DOMAIN call[h].alloc |-> call[h].alloc[i].device]]
  /\ Return(h, TRUE)
  /\ abandoned' = abandoned \ Repaired(h)
  /\ UNCHANGED <<cdi, logdir, World, faults>>

\* Add the claim to the copy and write the copy back.
SavePrepared(h) ==
  /\ pc[h] = "save"
  /\ checkpoint' = [cp[h] EXCEPT ![Claim(h)] = PreparedDevices(call[h].alloc)]
  /\ Return(h, TRUE)
  /\ abandoned' = abandoned \ Repaired(h)
  /\ UNCHANGED <<cdi, logdir, World, faults>>

\* Mutant of UnprepareSkip: an unknown claim is an error.
UnprepareUnknown(h) ==
  /\ CanEnter(h)
  /\ call[h].kind = "Unprepare"
  /\ checkpoint[Claim(h)] = NotPrepared
  /\ EnterAndReturn(h, FALSE)
  /\ UNCHANGED <<disk, Environment, faults>>

\* Unprepare of a claim that is not in the checkpoint succeeds at once.
UnprepareSkip(h) ==
  /\ CanEnter(h)
  /\ call[h].kind = "Unprepare"
  /\ checkpoint[Claim(h)] = NotPrepared
  /\ EnterAndReturn(h, TRUE)
  /\ UNCHANGED <<disk, Environment, faults>>

UnprepareFound(h) ==
  /\ CanEnter(h)
  /\ call[h].kind = "Unprepare"
  /\ checkpoint[Claim(h)] # NotPrepared
  /\ Enter(h, "wipe")
  /\ UNCHANGED <<disk, Environment, faults>>

\* Mutant of HasOtherPreparedClaims: the claim itself is counted.
HasPreparedClaims(h) == \E c \in Claims : cp[h][c] # NotPrepared

HasOtherPreparedClaims(h) ==
  \E c \in Claims \ {Claim(h)} : cp[h][c] # NotPrepared

\* Mutant of KeepLogs: the policy is not consulted.
WipeAlways(h) == FALSE

KeepLogs(h) == shares /\ HasOtherPreparedClaims(h)

\* unprepareDevices: empty the log directory unless the chips are shared with
\* another prepared claim.
UnprepareDevices(h) ==
  /\ pc[h] = "wipe"
  /\ IF KeepLogs(h) THEN UNCHANGED logdir ELSE logs' = {} /\ overlooked' = {}
  /\ Goto(h, "unspec")
  /\ UNCHANGED <<checkpoint, cdi, Environment, faults>>

\* RemoveDirContents drops the error of ReadDir: what the listing lacks stays,
\* and the call goes on as if the directory were empty.
ReadDirFails(h) ==
  /\ pc[h] = "wipe"
  /\ ~KeepLogs(h)
  /\ logs' \in SUBSET logs
  /\ overlooked' = logs'
  /\ Goto(h, "unspec")
  /\ Fault
  /\ UNCHANGED <<checkpoint, cdi, Environment>>

\* RemoveDirContents stops at the first entry it cannot remove.
RemoveDirContentsFails(h) ==
  /\ pc[h] = "wipe"
  /\ ~KeepLogs(h)
  /\ logs' \in SUBSET logs
  /\ Return(h, FALSE)
  /\ Fault
  /\ UNCHANGED <<checkpoint, cdi, overlooked, Environment>>

DeleteClaimSpecFile(h) ==
  /\ pc[h] = "unspec"
  /\ cdi' = [cdi EXCEPT ![Claim(h)] = NotPrepared]
  /\ Goto(h, "drop")
  /\ UNCHANGED <<checkpoint, logdir, Environment, faults>>

\* Mutant of SaveUnprepared: a new checkpoint is written, without the others.
SaveNewCheckpoint(h) ==
  /\ pc[h] = "drop"
  /\ checkpoint' = EmptyTable
  /\ Return(h, TRUE)
  /\ UNCHANGED <<cdi, logdir, Environment, faults>>

\* Delete the claim from the copy and write the copy back.
SaveUnprepared(h) ==
  /\ pc[h] = "drop"
  /\ checkpoint' = [cp[h] EXCEPT ![Claim(h)] = NotPrepared]
  /\ Return(h, TRUE)
  /\ UNCHANGED <<cdi, logdir, Environment, faults>>

\* Mutant of WriteFails: the error of a write is dropped.
WriteErrorIgnored(h) ==
  /\ pc[h] \in {"respec", "spec", "save", "unspec", "drop"}
  /\ Return(h, TRUE)
  /\ Fault
  /\ UNCHANGED <<disk, Environment>>

\* An I/O error in any single-file write: the file keeps its content (each is
\* written to a temporary file and renamed) and the call returns the error.
WriteFails(h) ==
  /\ pc[h] \in {"respec", "spec", "save", "unspec", "drop"}
  /\ Return(h, FALSE)
  /\ Fault
  /\ UNCHANGED <<disk, Environment>>

Handle(h) ==
  \/ PrepareRestore(h)
  \/ PrepareDevices(h)
  \/ PrepareReject(h)
  \/ RecreateClaimSpecFile(h)
  \/ CreateClaimSpecFile(h)
  \/ ClaimSpecInvalid(h)
  \/ SavePrepared(h)
  \/ UnprepareSkip(h)
  \/ UnprepareFound(h)
  \/ UnprepareDevices(h)
  \/ DeleteClaimSpecFile(h)
  \/ SaveUnprepared(h)

HandleFails(h) ==
  \/ GetCheckpointFails(h)
  \/ ReadDirFails(h)
  \/ RemoveDirContentsFails(h)
  \/ WriteFails(h)

-----------------------------------------------------------------------------
(* The plugin process.                                                     *)

\* A crash, or the end of the pod in an update of the DaemonSet: every
\* goroutine is gone; the disk is as the last write left it.
KillProcess ==
  /\ proc' = "down"
  /\ lock' = NoHandler
  /\ pc' = [h \in Handlers |-> "idle"]
  /\ call' = [h \in Handlers |-> NoCall]
  /\ cp' = [h \in Handlers |-> EmptyTable]
  /\ ok' = [h \in Handlers |-> FALSE]
  /\ live' = [h \in Handlers |-> FALSE]
  /\ UNCHANGED <<shares, offered, stored>>

\* Also the end of a process whose NewDeviceState has returned an error.
Crash ==
  /\ proc # "down"
  /\ KillProcess
  /\ Fault
  /\ UNCHANGED <<disk, common, cluster, abandoned>>

\* Mutant of CreateCommonSpecFile: the file is written on the first start only.
CommonSpecFileOnce ==
  /\ proc = "down"
  /\ proc' = "starting"
  /\ shares' \in Policies
  /\ common' = (common \/ ~stored)
  /\ UNCHANGED <<disk, offered, stored, handlers, cluster, abandoned, faults>>

\* NewDriver resolves the policy again, and NewDeviceState writes the CDI spec
\* file of the common edits ...
CreateCommonSpecFile ==
  /\ proc = "down"
  /\ proc' = "starting"
  /\ shares' \in Policies
  /\ common' = TRUE
  /\ UNCHANGED <<disk, offered, stored, handlers, cluster, abandoned, faults>>

\* Mutant of FindCheckpoint: no checkpoint file is looked for before a new one
\* is written.
ResetCheckpoint ==
  /\ proc = "starting" /\ stored
  /\ proc' = "up"
  /\ checkpoint' = EmptyTable
  /\ UNCHANGED <<cdi, logdir, shares, offered, common, stored, handlers, cluster,
                 abandoned, faults>>

\* ... finds the checkpoint file and keeps it ...
FindCheckpoint ==
  /\ proc = "starting" /\ stored
  /\ proc' = "up"
  /\ UNCHANGED <<disk, shares, offered, common, stored, handlers, cluster,
                 abandoned, faults>>

\* ... or writes an empty one.
CreateCheckpoint ==
  /\ proc = "starting" /\ ~stored
  /\ proc' = "up"
  /\ checkpoint' = EmptyTable /\ stored' = TRUE
  /\ UNCHANGED <<cdi, logdir, shares, offered, common, handlers, cluster,
                 abandoned, faults>>

\* GatherStateAndPublish: the slice offers the chips as the policy has it.  An
\* older slice stays on offer until then.
Publish ==
  /\ proc = "up"
  /\ offered' = IF shares THEN "shared" ELSE "exclusive"
  /\ UNCHANGED <<disk, proc, shares, common, stored, handlers, cluster, abandoned,
                 faults>>

Start == CreateCommonSpecFile \/ FindCheckpoint \/ CreateCheckpoint

\* A node reboot empties the CDI root (a tmpfs) and perhaps the log directory.
\* The kubelet has to prepare every claim again.
Reboot ==
  /\ KillProcess
  /\ cdi' = EmptyTable /\ common' = FALSE
  /\ logs' \in {logs, {}}
  /\ pods' = {}
  /\ kubelet' = [c \in Claims |->
                   IF kubelet[c] = "prepared" THEN "wanted" ELSE kubelet[c]]
  /\ Fault
  /\ UNCHANGED <<checkpoint, overlooked, alloc, abandoned>>

-----------------------------------------------------------------------------
(* The kubelet and the workloads (not part of this repository).            *)

\* No reply for the claim is outstanding: the kubelet serialises its calls.
Quiet(c) == \A h \in Handlers : live[h] => Claim(h) # c

\* A pod that uses the claim is bound to the node.  The scheduler gives the
\* chips to a second claim only while the published devices allow it.
Admit(c) ==
  /\ kubelet[c] = "absent"
  /\ \/ offered = "shared"
     \/ offered = "exclusive" /\ \A d \in Claims : kubelet[d] = "absent"
  /\ kubelet' = [kubelet EXCEPT ![c] = "wanted"]
  /\ \E a \in Allocations : alloc' = [alloc EXCEPT ![c] = a]
  /\ UNCHANGED <<disk, process, handlers, pods, abandoned, faults>>

\* Another pod with the same claim arrives before Unprepare has succeeded.
Readmit(c) ==
  /\ kubelet[c] = "draining" /\ Quiet(c)
  /\ kubelet' = [kubelet EXCEPT ![c] = "wanted"]
  /\ UNCHANGED <<disk, process, handlers, alloc, pods, abandoned, faults>>

\* The last pod of the claim has stopped.
PodsGone(c) ==
  /\ kubelet[c] \in {"wanted", "prepared"} /\ Quiet(c)
  /\ kubelet' = [kubelet EXCEPT ![c] = "draining"]
  /\ pods' = pods \ {c}
  /\ UNCHANGED <<disk, process, handlers, alloc, abandoned, faults>>

\* The kubelet calls NodePrepareResources or NodeUnprepareResources.  The
\* helper library reads the claim before it queues for the lock.
CallPlugin(c, h) ==
  /\ proc = "up"
  /\ kubelet[c] \in {"wanted", "draining"} /\ Quiet(c)
  /\ pc[h] = "idle"
  /\ pc' = [pc EXCEPT ![h] = "waiting"]
  /\ call' = [call EXCEPT ![h] =
       [kind |-> IF kubelet[c] = "wanted" THEN "Prepare" ELSE "Unprepare",
        claim |-> c, alloc |-> alloc[c]]]
  /\ live' = [live EXCEPT ![h] = TRUE]
  /\ UNCHANGED <<disk, process, lock, cp, ok, cluster, abandoned, faults>>

Release(h) ==
  /\ pc' = [pc EXCEPT ![h] = "idle"]
  /\ call' = [call EXCEPT ![h] = NoCall]
  /\ cp' = [cp EXCEPT ![h] = EmptyTable]
  /\ ok' = [ok EXCEPT ![h] = FALSE]
  /\ live' = [live EXCEPT ![h] = FALSE]
  /\ UNCHANGED lock

\* The reply of a Prepare reaches the kubelet, which starts the containers.
PrepareReply(h) ==
  /\ pc[h] = "done" /\ live[h] /\ ok[h] /\ call[h].kind = "Prepare"
  /\ kubelet' = [kubelet EXCEPT ![Claim(h)] = "prepared"]
  /\ pods' = pods \cup {Claim(h)}
  /\ Release(h)
  /\ UNCHANGED <<disk, process, alloc, abandoned, faults>>

\* The reply of an Unprepare reaches the kubelet, which forgets the claim.
UnprepareReply(h) ==
  /\ pc[h] = "done" /\ live[h] /\ ok[h] /\ call[h].kind = "Unprepare"
  /\ kubelet' = [kubelet EXCEPT ![Claim(h)] = "absent"]
  /\ Release(h)
  /\ UNCHANGED <<disk, process, alloc, pods, abandoned, faults>>

\* An error reply, or the end of a call nobody waits for: the kubelet retries.
NoReply(h) ==
  /\ pc[h] = "done" /\ ~(live[h] /\ ok[h])
  /\ Release(h)
  /\ UNCHANGED <<disk, process, cluster, abandoned, faults>>

Reply(h) == PrepareReply(h) \/ UnprepareReply(h) \/ NoReply(h)

\* A reply that is ready is lost.
LoseReply(h) ==
  /\ pc[h] = "done" /\ live[h] /\ ok[h]
  /\ Release(h)
  /\ Fault
  /\ UNCHANGED <<disk, process, cluster, abandoned>>

\* The kubelet gives up on a call that the plugin has not finished: the
\* handler ignores its context and runs to the end, however late.
Abandon(h) ==
  /\ pc[h] \in Locked \cup {"waiting"} /\ live[h]
  /\ live' = [live EXCEPT ![h] = FALSE]
  /\ abandoned' = abandoned \cup
       {c \in {Claim(h)} : call[h].kind = "Unprepare"}
  /\ Fault
  /\ UNCHANGED <<disk, process, lock, pc, call, cp, ok, cluster>>

\* A restarted kubelet no longer knows what is prepared; the pods keep running.
KubeletRestart ==
  /\ \A h \in Handlers : ~live[h]
  /\ \E c \in Claims : kubelet[c] = "prepared"
  /\ kubelet' = [c \in Claims |->
                   IF kubelet[c] = "prepared" THEN "wanted" ELSE kubelet[c]]
  /\ Fault
  /\ UNCHANGED <<disk, process, handlers, alloc, pods, abandoned>>

\* A running workload writes to the libtpu log directory.
WriteLog(c) ==
  /\ c \in pods
  /\ logs' = logs \cup {c} /\ overlooked' = overlooked \ {c}
  /\ UNCHANGED <<checkpoint, cdi, process, handlers, cluster, abandoned, faults>>

-----------------------------------------------------------------------------
Next ==
  \/ \E h \in Handlers : Handle(h) \/ HandleFails(h)
  \/ \E h \in Handlers : Reply(h) \/ LoseReply(h) \/ Abandon(h)
  \/ \E c \in Claims, h \in Handlers : CallPlugin(c, h)
  \/ \E c \in Claims : Admit(c) \/ Readmit(c) \/ PodsGone(c) \/ WriteLog(c)
  \/ Crash \/ Start \/ Publish \/ Reboot \/ KubeletRestart

Spec == Init /\ [][Next]_vars

\* Handlers run to their end (Go schedules every goroutine, and a mutex waiter
\* that starves is handed the lock), replies arrive, a stopped plugin is
\* restarted by its DaemonSet and the kubelet keeps retrying.  No fault is fair.
Fairness ==
  /\ \A h \in Handlers : SF_vars(Handle(h)) /\ WF_vars(Reply(h))
  /\ \A c \in Claims : SF_vars(\E h \in Handlers : CallPlugin(c, h))
  /\ WF_vars(Start)

FairSpec == Spec /\ Fairness

-----------------------------------------------------------------------------
(* Properties.                                                             *)

\* While the containers of a claim may run, the claim is in the checkpoint and
\* its CDI spec file is there and defines the devices that were checkpointed,
\* through any order of failed writes, crashes, reboots, retries and late
\* Prepares.  A claim with an Unprepare that the kubelet gave up on is exempt, as
\* that call may run after the next Prepare, but only until a Prepare of the claim
\* succeeds with no such call waiting: what a late Unprepare has undone does not
\* survive the kubelet's next Prepare (state.go Prepare, Unprepare).
RunningClaimIsBacked ==
  \A c \in pods \ abandoned :
    checkpoint[c] # NotPrepared /\ cdi[c] = checkpoint[c]

\* Every Prepare names the common CDI device next to the claim's own
\* (GetClaimDevices): whenever containers may start, its spec file is there,
\* although only a starting process writes it and a reboot removes it.
CommonEditsInPlace == pods # {} => common

\* A spec file of a checkpointed claim never shows the devices of an earlier
\* allocation of the claim, even when an earlier Prepare or Unprepare failed
\* half way and left its file behind (the order of the writes in Prepare).
SpecMatchesCheckpoint ==
  \A c \in Claims :
    checkpoint[c] # NotPrepared /\ cdi[c] # NotPrepared => cdi[c] = checkpoint[c]

\* Every checkpointed claim holds every chip of the node, each one once: the
\* count, membership and duplicate checks of prepareDevices and the CDI library
\* together.  hasOtherPreparedClaims relies on it.
EveryTenantHoldsEveryChip ==
  \A c \in Claims :
    checkpoint[c] # NotPrepared =>
      Range(checkpoint[c]) = Chips /\ IsInjective(checkpoint[c])

NoneCheckpointed == \A c \in Claims : checkpoint[c] = NotPrepared

\* The last tenant leaves no logs behind: with no claim checkpointed, nothing is
\* in the log directory but what a wipe could not list, which is exempt as
\* RemoveDirContents drops the error, and only until its claim writes again
\* (unprepareDevices wipes the directory for whoever is last out).
LogsHaveATenant ==
  abandoned = {} /\ NoneCheckpointed => logs \subseteq overlooked

\* "When consumable shares is enabled, the contents are removed by whichever
\* claim is the last one out" (state.go unprepareDevices): the same without the
\* exemption.
LastOneOutRemovesLogs == abandoned = {} /\ NoneCheckpointed => logs = {}

\* Unprepare of one claim does not delete the log files of another claim whose
\* workload is still running (state.go unprepareDevices).
CoTenantLogsKept ==
  [][\A h \in Handlers :
       pc[h] = "wipe" /\ pc'[h] # "wipe" /\ proc' = "up" /\ abandoned = {} =>
         \A c \in (logs \cap pods) \ {Claim(h)} : c \in logs']_vars

\* A checkpointed claim keeps its devices until it is unprepared: a repeated or
\* late Prepare, with whatever allocation, restores them (state.go Prepare).
PreparedOnce ==
  [][\A c \in Claims :
       checkpoint[c] # NotPrepared /\ checkpoint'[c] # NotPrepared =>
         checkpoint'[c] = checkpoint[c]]_checkpoint

\* Saving the checkpoint changes the entry of the saving call's own claim and
\* loses no update made by another call (the mutex around read and write).
NoLostUpdate ==
  [][\E h \in Handlers :
       /\ pc[h] \in {"save", "drop"}
       /\ \A c \in Claims \ {Claim(h)} : checkpoint'[c] = checkpoint[c]]_checkpoint

\* A claim whose pods are gone is unprepared at last, unless a new pod wants it
\* again: Unprepare can be retried after any failure (state.go Unprepare).
DrainingEnds ==
  \A c \in Claims :
    kubelet[c] = "draining" ~> kubelet[c] \in {"absent", "wanted"}

\* A claim with a proper allocation is prepared at last, unless its pods go
\* away: Prepare can be retried after any failure (state.go Prepare).
WantedEnds ==
  \A c \in Claims :
    /\ kubelet[c] = "wanted"
    /\ ValidAllocation(alloc[c]) /\ ValidSpec(PreparedDevices(alloc[c]))
    ~> kubelet[c] \in {"prepared", "draining"}

\* "UnprepareResourceClaims must undo whatever work PrepareResourceClaims did":
\* once the kubelet has been told that the claim is unprepared, no call on it is
\* under way and its checkpoint entry is gone, no CDI spec file of it is left
\* (kubeletplugin/draplugin.go).
UnprepareUndoesPrepare ==
  \A c \in Claims :
    /\ kubelet[c] = "absent" /\ checkpoint[c] = NotPrepared
    /\ \A h \in Handlers : pc[h] # "idle" => Claim(h) # c
    => cdi[c] = NotPrepared

\* "A DRA driver should verify that all devices listed in a ResourceClaim are not
\* already in use for some other ResourceClaim ... the DRA driver is the last line
\* of defense" (kubeletplugin/draplugin.go): on a node whose chips are not shared,
\* one claim at a time is prepared.
NoDoubleBooking ==
  ~shares => \A c, d \in Claims :
    checkpoint[c] # NotPrepared /\ checkpoint[d] # NotPrepared => c = d

\* The lists of prepared devices that name every chip of the node once.
NodeLists == {l \in DeviceLists : Range(l) = Chips /\ IsInjective(l)}

Ledger == INSTANCE ClaimLedger
  WITH held <- checkpoint, running <- pods \ abandoned

\* Refinement: with all its separate writes, failures and restarts, DeviceState
\* behaves like a ledger that prepares and unprepares a claim in one step, the
\* write of the checkpoint file (state.go Prepare, Unprepare).
ImplementsLedger == Ledger!Spec

-----------------------------------------------------------------------------
(* The inductive invariant behind RunningClaimIsBacked, SpecMatchesCheckpoint, *)
(* EveryTenantHoldsEveryChip, LogsHaveATenant and CoTenantLogsKept: what each  *)
(* handler relies on at each of its steps.                                     *)

\* The handler between Lock and Unlock is the lock's holder, and its copy of
\* the checkpoint is still what the file says.
LockInv ==
  \A h \in Handlers :
    /\ pc[h] \in Locked <=> lock = h
    /\ pc[h] \in Locked => cp[h] = checkpoint

\* What a Prepare and an Unprepare know about their own claim at each step.
StepInv ==
  \A h \in Handlers :
    /\ pc[h] \in {"respec", "spec", "save"} => call[h].kind = "Prepare"
    /\ pc[h] \in {"wipe", "unspec", "drop"} => call[h].kind = "Unprepare"
    /\ pc[h] \in {"respec", "wipe", "unspec", "drop"} =>
         checkpoint[Claim(h)] # NotPrepared
    /\ pc[h] \in {"spec", "save"} =>
         /\ checkpoint[Claim(h)] = NotPrepared
         /\ ValidAllocation(call[h].alloc)
    /\ pc[h] = "save" =>
         /\ ValidSpec(PreparedDevices(call[h].alloc))
         /\ cdi[Claim(h)] = PreparedDevices(call[h].alloc)
    /\ pc[h] = "drop" => cdi[Claim(h)] = NotPrepared

\* The kubelet waits for at most one call per claim, and for every Unprepare it
\* has not abandoned.
CallInv ==
  /\ \A h \in Handlers : live[h] => pc[h] # "idle"
  /\ \A g, h \in Handlers : live[g] /\ live[h] /\ Claim(g) = Claim(h) => g = h
  /\ \A h \in Handlers :
       /\ pc[h] \in Locked \cup {"waiting"} /\ call[h].kind = "Unprepare"
       /\ Claim(h) \notin abandoned
       => live[h]
  /\ \A h \in Handlers : live[h] =>
       kubelet[Claim(h)] =
         IF call[h].kind = "Prepare" THEN "wanted" ELSE "draining"

Backed(c) == checkpoint[c] # NotPrepared /\ cdi[c] = checkpoint[c]

\* A process that serves calls has written the common file and has a checkpoint
\* file to read; without one no claim was ever prepared.
StartedInv ==
  /\ proc # "down" => common
  /\ proc = "up" => stored
  /\ ~stored => checkpoint = EmptyTable
  /\ \A h \in Handlers : pc[h] # "idle" => proc = "up"
  /\ pods # {} => common

\* Running claims, and claims whose successful Prepare is about to be reported,
\* are backed; running claims are not being unprepared.
PodsInv ==
  /\ \A c \in pods : kubelet[c] \in {"wanted", "prepared"}
  /\ \A c \in pods \ abandoned : Backed(c)
  /\ \A h \in Handlers :
       /\ pc[h] = "done" /\ ok[h] /\ live[h] /\ call[h].kind = "Prepare"
       /\ Claim(h) \notin abandoned
       => Backed(Claim(h))

\* Between its wipe and its checkpoint update, the last tenant out has left
\* nothing in the log directory that its wipe has seen.
LogsInv ==
  abandoned = {} =>
    /\ logs \ overlooked # {} => \E c \in Claims : checkpoint[c] # NotPrepared
    /\ \A h \in Handlers :
         pc[h] \in {"unspec", "drop"} /\ logs \ overlooked # {} =>
           \E c \in Claims \ {Claim(h)} : checkpoint[c] # NotPrepared

ClaimInv ==
  /\ StartedInv
  /\ LockInv
  /\ StepInv
  /\ SpecMatchesCheckpoint
  /\ EveryTenantHoldsEveryChip
  /\ CallInv
  /\ PodsInv
  /\ LogsInv

\* As long as no start turns sharing off, the slice offers shared chips only
\* under a policy that shares, and until it does the scheduler gives the chips
\* to one claim at a time.
ExclusiveInv ==
  /\ offered = "shared" => shares
  /\ offered # "shared" => \A c, d \in Claims :
       kubelet[c] # "absent" /\ kubelet[d] # "absent" => c = d
=============================================================================
