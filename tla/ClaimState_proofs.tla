-------------------------- MODULE ClaimState_proofs --------------------------
(***************************************************************************)
(* Proofs about ClaimState, for any claims, chips, allocations, handlers   *)
(* and any number of faults.                                               *)
(***************************************************************************)
EXTENDS ClaimState, FiniteSetTheorems, FunctionTheorems, TLAPS

\* The checkpoint of a fresh node is a table.
LEMMA EmptyTableType == EmptyTable \in Table
  BY DEF EmptyTable, Table

\* Initially every variable has its type.
LEMMA InitTypeOK == Init => TypeOK
<1> SUFFICES ASSUME Init PROVE TypeOK
  OBVIOUS
<1>1. /\ proc \in {"down", "starting", "up"} /\ shares \in BOOLEAN
      /\ common \in BOOLEAN /\ stored \in BOOLEAN
      /\ offered \in {"nothing", "exclusive", "shared"}
  BY Zenon DEF Init
<1>2. /\ checkpoint \in Table /\ cdi \in Table /\ lock \in Handlers \cup {NoHandler}
      /\ logs \subseteq Claims /\ pods \subseteq Claims /\ abandoned \subseteq Claims
      /\ overlooked \subseteq Claims
      /\ kubelet \in [Claims -> {"absent", "wanted", "prepared", "draining"}]
      /\ alloc \in [Claims -> Allocations] /\ faults \in 0..MaxFaults
  BY SentinelAssumption, EmptyTableType DEF Init
<1>3. /\ pc \in [Handlers -> Steps] /\ call \in [Handlers -> Calls \cup {NoCall}]
      /\ cp \in [Handlers -> Table]
      /\ ok \in [Handlers -> BOOLEAN] /\ live \in [Handlers -> BOOLEAN]
      /\ \A h \in Handlers : pc[h] # "idle" => call[h] \in Calls
  BY EmptyTableType DEF Init, Steps
<1> QED
  BY <1>1, <1>2, <1>3, Zenon DEF TypeOK

\* A handler that runs serves a call on a claim.
LEMMA CallType ==
  ASSUME TypeOK, NEW h \in Handlers, pc[h] # "idle"
  PROVE  /\ call[h] \in Calls
         /\ Claim(h) \in Claims
         /\ call[h].alloc \in Allocations
         /\ PreparedDevices(call[h].alloc) \in DeviceLists
  BY DEF TypeOK, Calls, Claim, DeviceLists

\* Every step of a handler keeps the types.
LEMMA HandleTypeOK ==
  ASSUME TypeOK, NEW h \in Handlers, Handle(h)
  PROVE  TypeOK'
<1> USE DEF TypeOK, Table, Steps, Locked, disk, logdir, Environment, World, process, cluster
<1>1. CASE PrepareRestore(h)
  BY <1>1 DEF PrepareRestore, CanEnter, Enter
<1>2. CASE PrepareDevices(h)
  BY <1>2 DEF PrepareDevices, CanEnter, Enter
<1>3. CASE PrepareReject(h)
  BY <1>3 DEF PrepareReject, CanEnter, EnterAndReturn
<1>4. CASE RecreateClaimSpecFile(h)
  BY <1>4, CallType DEF RecreateClaimSpecFile, Return
<1>5. CASE CreateClaimSpecFile(h)
  BY <1>5, CallType DEF CreateClaimSpecFile, Goto
<1>6. CASE ClaimSpecInvalid(h)
  BY <1>6 DEF ClaimSpecInvalid, Return
<1>7. CASE SavePrepared(h)
  BY <1>7, CallType DEF SavePrepared, Return
<1>8. CASE UnprepareSkip(h)
  BY <1>8 DEF UnprepareSkip, CanEnter, EnterAndReturn
<1>9. CASE UnprepareFound(h)
  BY <1>9 DEF UnprepareFound, CanEnter, Enter
<1>10. CASE UnprepareDevices(h)
  BY <1>10 DEF UnprepareDevices, Goto
<1>11. CASE DeleteClaimSpecFile(h)
  BY <1>11, CallType DEF DeleteClaimSpecFile, Goto
<1>12. CASE SaveUnprepared(h)
  BY <1>12, CallType DEF SaveUnprepared, Return
<1> QED
  BY <1>1, <1>2, <1>3, <1>4, <1>5, <1>6, <1>7, <1>8, <1>9, <1>10, <1>11,
     <1>12 DEF Handle

\* So does every failing step.
LEMMA HandleFailsTypeOK ==
  ASSUME TypeOK, NEW h \in Handlers, HandleFails(h)
  PROVE  TypeOK'
<1> USE SentinelAssumption
    DEF TypeOK, Steps, Locked, disk, logdir, Environment, World, process, cluster, Fault
<1>1. CASE GetCheckpointFails(h)
  BY <1>1 DEF GetCheckpointFails, CanEnter, EnterAndReturn
<1>2. CASE ReadDirFails(h)
  BY <1>2 DEF ReadDirFails, Goto
<1>3. CASE RemoveDirContentsFails(h)
  BY <1>3 DEF RemoveDirContentsFails, Return
<1>4. CASE WriteFails(h)
  BY <1>4 DEF WriteFails, Return
<1> QED
  BY <1>1, <1>2, <1>3, <1>4 DEF HandleFails

\* So does the end of a call, whatever becomes of its reply.
LEMMA ReplyTypeOK ==
  ASSUME TypeOK, NEW h \in Handlers, Reply(h) \/ LoseReply(h) \/ Abandon(h)
  PROVE  TypeOK'
<1> USE SentinelAssumption
    DEF TypeOK, Table, EmptyTable, Steps, Locked, disk, logdir, process, cluster, Fault
<1>1. CASE PrepareReply(h)
  BY <1>1, CallType DEF PrepareReply, Release
<1>2. CASE UnprepareReply(h)
  BY <1>2, CallType DEF UnprepareReply, Release
<1>3. CASE NoReply(h)
  BY <1>3 DEF NoReply, Release
<1>4. CASE LoseReply(h)
  BY <1>4 DEF LoseReply, Release
<1>5. CASE Abandon(h)
  BY <1>5, CallType DEF Abandon
<1> QED
  BY <1>1, <1>2, <1>3, <1>4, <1>5 DEF Reply

\* So does every step of the kubelet, the scheduler and the workloads.
LEMMA ClusterTypeOK ==
  ASSUME TypeOK, NEW c \in Claims,
         \/ \E h \in Handlers : CallPlugin(c, h)
         \/ Admit(c) \/ Readmit(c) \/ PodsGone(c) \/ WriteLog(c)
  PROVE  TypeOK'
<1> USE DEF TypeOK, disk, logdir, process, handlers, cluster
<1>1. CASE \E h \in Handlers : CallPlugin(c, h)
  BY <1>1 DEF CallPlugin, Calls, Steps, Locked
<1>2. CASE Admit(c)
  BY <1>2 DEF Admit
<1>3. CASE Readmit(c)
  BY <1>3 DEF Readmit
<1>4. CASE PodsGone(c)
  BY <1>4 DEF PodsGone
<1>5. CASE WriteLog(c)
  BY <1>5 DEF WriteLog
<1> QED
  BY <1>1, <1>2, <1>3, <1>4, <1>5

\* The end of the process leaves every handler idle.
LEMMA KillProcessTypeOK ==
  ASSUME TypeOK, KillProcess
  PROVE  /\ proc' = "down" /\ shares' \in BOOLEAN /\ stored' \in BOOLEAN
         /\ offered' \in {"nothing", "exclusive", "shared"}
         /\ lock' \in Handlers \cup {NoHandler}
         /\ pc' \in [Handlers -> Steps]
         /\ call' \in [Handlers -> Calls \cup {NoCall}]
         /\ cp' \in [Handlers -> Table]
         /\ ok' \in [Handlers -> BOOLEAN]
         /\ live' \in [Handlers -> BOOLEAN]
         /\ \A h \in Handlers : pc'[h] = "idle"
  BY EmptyTableType DEF TypeOK, KillProcess, Steps

\* So does every step of the process as a whole.
LEMMA ProcessTypeOK ==
  ASSUME TypeOK, Crash \/ Start \/ Publish \/ Reboot \/ KubeletRestart
  PROVE  TypeOK'
<1> USE SentinelAssumption, EmptyTableType
    DEF TypeOK, disk, logdir, process, handlers, cluster, Fault
<1>1. CASE Crash
  BY <1>1, KillProcessTypeOK DEF Crash
<1>2. CASE Start \/ Publish
  BY <1>2 DEF Start, CreateCommonSpecFile, FindCheckpoint, CreateCheckpoint, Publish
<1>3. CASE Reboot
  <2>1. common' \in BOOLEAN
    BY <1>3, Zenon DEF Reboot
  <2> QED
    BY <1>3, <2>1, KillProcessTypeOK DEF Reboot
<1>4. CASE KubeletRestart
  BY <1>4 DEF KubeletRestart
<1> QED
  BY <1>1, <1>2, <1>3, <1>4

\* And a step that changes nothing.
LEMMA StutterTypeOK ==
  ASSUME TypeOK, UNCHANGED vars
  PROVE  TypeOK'
  BY DEF TypeOK, vars, disk, logdir, process, handlers, cluster

\* TypeOK holds in every reachable state: the variables of DeviceState, the
\* handlers and the kubelet keep their types through every step of ClaimState.
THEOREM TypeCorrect == Spec => []TypeOK
<1>1. Init => TypeOK
  BY InitTypeOK
<1>2. TypeOK /\ [Next]_vars => TypeOK'
  BY HandleTypeOK, HandleFailsTypeOK, ReplyTypeOK, ClusterTypeOK,
     ProcessTypeOK, StutterTypeOK DEF Next
<1> QED
  BY <1>1, <1>2, PTL DEF Spec

-----------------------------------------------------------------------------
(* The start of the process.                                               *)

\* Initially the plugin has never run.
LEMMA InitStartedInv == Init => StartedInv
  BY DEF Init, StartedInv

\* A starting process finds the checkpoint file, or writes what it would find.
LEMMA StartKeepsCheckpoint ==
  ASSUME StartedInv, Start \/ Publish
  PROVE  UNCHANGED <<disk, handlers, cluster, abandoned, faults>>
<1>1. CASE CreateCommonSpecFile \/ FindCheckpoint \/ Publish
  BY <1>1 DEF CreateCommonSpecFile, FindCheckpoint, Publish
<1>2. CASE CreateCheckpoint
  BY <1>2 DEF CreateCheckpoint, StartedInv, disk, logdir
<1> QED
  BY <1>1, <1>2 DEF Start

\* Handlers run in a process that has started.
LEMMA HandleStartedInv ==
  ASSUME TypeOK, StartedInv, NEW h \in Handlers, Handle(h) \/ HandleFails(h)
  PROVE  StartedInv'
<1> USE DEF StartedInv, TypeOK, Steps, Locked, disk, logdir, CanEnter, Environment, World,
            process, cluster
<1>1. CASE PrepareRestore(h) \/ PrepareDevices(h) \/ UnprepareFound(h)
  BY <1>1 DEF PrepareRestore, PrepareDevices, UnprepareFound, Enter
<1>2. CASE PrepareReject(h) \/ UnprepareSkip(h) \/ GetCheckpointFails(h)
  BY <1>2
     DEF PrepareReject, UnprepareSkip, GetCheckpointFails, EnterAndReturn
<1>3. CASE CreateClaimSpecFile(h) \/ UnprepareDevices(h)
             \/ DeleteClaimSpecFile(h)
  BY <1>3 DEF CreateClaimSpecFile, UnprepareDevices, DeleteClaimSpecFile, Goto
<1>4. CASE RecreateClaimSpecFile(h) \/ ClaimSpecInvalid(h)
  BY <1>4 DEF RecreateClaimSpecFile, ClaimSpecInvalid, Return
<1>5. CASE SavePrepared(h) \/ SaveUnprepared(h)
  BY <1>5 DEF SavePrepared, SaveUnprepared, Return
<1>6. CASE ReadDirFails(h) \/ RemoveDirContentsFails(h) \/ WriteFails(h)
  BY <1>6 DEF ReadDirFails, RemoveDirContentsFails, WriteFails, Goto, Return
<1> QED
  BY <1>1, <1>2, <1>3, <1>4, <1>5, <1>6 DEF Handle, HandleFails

\* No file is removed except by a reboot, which also ends the process and the
\* workloads.
LEMMA OtherStartedInv ==
  ASSUME TypeOK, StartedInv, [Next]_vars,
         \A h \in Handlers : ~Handle(h) /\ ~HandleFails(h)
  PROVE  StartedInv'
<1> USE DEF StartedInv, TypeOK, disk, logdir, process, handlers, cluster
<1>1. ASSUME NEW h \in Handlers, Reply(h) \/ LoseReply(h) \/ Abandon(h)
      PROVE  StartedInv'
  BY <1>1
     DEF Reply, PrepareReply, UnprepareReply, NoReply, LoseReply, Abandon, Release
<1>2. ASSUME NEW c \in Claims, NEW h \in Handlers, CallPlugin(c, h)
      PROVE  StartedInv'
  BY <1>2 DEF CallPlugin
<1>3. ASSUME NEW c \in Claims, Admit(c) \/ Readmit(c) \/ PodsGone(c) \/ WriteLog(c)
      PROVE  StartedInv'
  BY <1>3 DEF Admit, Readmit, PodsGone, WriteLog
<1>4. CASE Crash \/ Reboot
  BY <1>4 DEF Crash, Reboot, KillProcess
<1>5. CASE Start \/ Publish
  BY <1>5 DEF Start, CreateCommonSpecFile, FindCheckpoint, CreateCheckpoint, Publish
<1>6. CASE KubeletRestart \/ UNCHANGED vars
  BY <1>6 DEF KubeletRestart, vars
<1> QED
  BY <1>1, <1>2, <1>3, <1>4, <1>5, <1>6 DEF Next

-----------------------------------------------------------------------------
(* The lock and the handlers' copies of the checkpoint.                    *)

\* The lock and the copies are consistent initially.
LEMMA InitLockInv == Init => LockInv
  BY SentinelAssumption DEF Init, LockInv, Locked

\* Handlers take and release the lock, and write the checkpoint, in step.
LEMMA HandleLockInv ==
  ASSUME TypeOK, LockInv, NEW h \in Handlers, Handle(h) \/ HandleFails(h)
  PROVE  LockInv'
<1> USE SentinelAssumption
    DEF LockInv, TypeOK, Table, Steps, Locked, disk, logdir, CanEnter
<1>1. CASE PrepareRestore(h)
  BY <1>1 DEF PrepareRestore, Enter
<1>2. CASE PrepareDevices(h)
  BY <1>2 DEF PrepareDevices, Enter
<1>3. CASE UnprepareFound(h)
  BY <1>3 DEF UnprepareFound, Enter
<1>4. CASE PrepareReject(h) \/ UnprepareSkip(h) \/ GetCheckpointFails(h)
  BY <1>4
     DEF PrepareReject, UnprepareSkip, GetCheckpointFails, EnterAndReturn
<1>5. CASE CreateClaimSpecFile(h) \/ UnprepareDevices(h)
             \/ DeleteClaimSpecFile(h)
  BY <1>5 DEF CreateClaimSpecFile, UnprepareDevices, DeleteClaimSpecFile, Goto
<1>6. CASE RecreateClaimSpecFile(h) \/ ClaimSpecInvalid(h)
  BY <1>6 DEF RecreateClaimSpecFile, ClaimSpecInvalid, Return
<1>7. CASE SavePrepared(h) \/ SaveUnprepared(h)
  BY <1>7 DEF SavePrepared, SaveUnprepared, Return
<1>8. CASE ReadDirFails(h) \/ RemoveDirContentsFails(h) \/ WriteFails(h)
  BY <1>8 DEF ReadDirFails, RemoveDirContentsFails, WriteFails, Goto, Return
<1> QED
  BY <1>1, <1>2, <1>3, <1>4, <1>5, <1>6, <1>7, <1>8 DEF Handle, HandleFails

\* No other step gives a handler the lock or takes it away, except the end of
\* the process.
LEMMA OtherLockInv ==
  ASSUME TypeOK, StartedInv, LockInv, [Next]_vars,
         \A h \in Handlers : ~Handle(h) /\ ~HandleFails(h)
  PROVE  LockInv'
<1> USE SentinelAssumption
    DEF LockInv, TypeOK, Table, Steps, Locked, disk, logdir, process, handlers, cluster
<1>1. ASSUME NEW h \in Handlers, Reply(h) \/ LoseReply(h)
      PROVE  LockInv'
  BY <1>1 DEF Reply, PrepareReply, UnprepareReply, NoReply, LoseReply, Release
<1>2. ASSUME NEW h \in Handlers, Abandon(h)
      PROVE  LockInv'
  BY <1>2 DEF Abandon
<1>3. ASSUME NEW c \in Claims, NEW h \in Handlers, CallPlugin(c, h)
      PROVE  LockInv'
  BY <1>3 DEF CallPlugin
<1>4. ASSUME NEW c \in Claims, Admit(c) \/ Readmit(c) \/ PodsGone(c) \/ WriteLog(c)
      PROVE  LockInv'
  BY <1>4 DEF Admit, Readmit, PodsGone, WriteLog
<1>5. CASE Crash \/ Reboot
  BY <1>5 DEF Crash, Reboot, KillProcess
<1>6. CASE Start \/ Publish
  BY <1>6, StartKeepsCheckpoint
<1>7. CASE KubeletRestart
  BY <1>7 DEF KubeletRestart
<1>8. CASE UNCHANGED vars
  BY <1>8 DEF vars
<1> QED
  BY <1>1, <1>2, <1>3, <1>4, <1>5, <1>6, <1>7, <1>8 DEF Next

-----------------------------------------------------------------------------
(* Prepared devices.                                                       *)

\* The pigeonhole step: as many results as chips, all of them chips and no two
\* alike, are all the chips.
LEMMA AllChips ==
  ASSUME NEW a \in Allocations, ValidAllocation(a), ValidSpec(PreparedDevices(a))
  PROVE  Range(PreparedDevices(a)) = Chips
<1> DEFINE own == OwnResults(a)
           f   == PreparedDevices(a)
<1>1. f \in Injection(own, Chips)
  BY DEF PreparedDevices, ValidAllocation, ValidSpec, Injection
<1>2. f \in Surjection(own, Chips)
  BY <1>1, FS_Injection, ChipsAssumption DEF ValidAllocation
<1> QED
  BY <1>2 DEF Range, Surjection

-----------------------------------------------------------------------------
(* The disk, logdir: what the two files of a claim say at each step of a handler.   *)

DiskInv ==
  StepInv /\ SpecMatchesCheckpoint /\ EveryTenantHoldsEveryChip

\* The two kinds of files agree initially: there are none.
LEMMA InitDiskInv == Init => DiskInv
  BY DEF Init, DiskInv, StepInv, SpecMatchesCheckpoint,
         EveryTenantHoldsEveryChip, EmptyTable

\* Steps of handlers keep it.  The steps that write a file are the interesting
\* ones; a handler at another locked step would hold the lock as well.
LEMMA HandleDiskInv ==
  ASSUME TypeOK, LockInv, DiskInv,
         NEW h \in Handlers, Handle(h) \/ HandleFails(h)
  PROVE  DiskInv'
<1> USE SentinelAssumption
    DEF DiskInv, StepInv, SpecMatchesCheckpoint, EveryTenantHoldsEveryChip,
        LockInv, TypeOK, Steps, Locked, disk, logdir, CanEnter, Claim
<1>1. CASE PrepareRestore(h)
  BY <1>1 DEF PrepareRestore, Enter
<1>2. CASE PrepareDevices(h)
  BY <1>2 DEF PrepareDevices, Enter
<1>3. CASE UnprepareFound(h)
  BY <1>3 DEF UnprepareFound, Enter
<1>4. CASE PrepareReject(h) \/ UnprepareSkip(h) \/ GetCheckpointFails(h)
  BY <1>4
     DEF PrepareReject, UnprepareSkip, GetCheckpointFails, EnterAndReturn
<1>5. CASE CreateClaimSpecFile(h)
  BY <1>5, CallType DEF CreateClaimSpecFile, Goto, Table
<1>6. CASE UnprepareDevices(h)
  BY <1>6 DEF UnprepareDevices, Goto
<1>7. CASE DeleteClaimSpecFile(h)
  BY <1>7, CallType DEF DeleteClaimSpecFile, Goto, Table
<1>8. CASE RecreateClaimSpecFile(h)
  BY <1>8, CallType DEF RecreateClaimSpecFile, Return, Table
<1>9. CASE ClaimSpecInvalid(h)
  BY <1>9 DEF ClaimSpecInvalid, Return
<1>10. CASE SavePrepared(h)
  BY <1>10, CallType, AllChips DEF SavePrepared, Return, Table, ValidSpec
<1>11. CASE SaveUnprepared(h)
  BY <1>11, CallType DEF SaveUnprepared, Return, Table
<1>12. CASE ReadDirFails(h) \/ RemoveDirContentsFails(h) \/ WriteFails(h)
  BY <1>12 DEF ReadDirFails, RemoveDirContentsFails, WriteFails, Goto, Return
<1> QED
  BY <1>1, <1>2, <1>3, <1>4, <1>5, <1>6, <1>7, <1>8, <1>9, <1>10, <1>11,
     <1>12 DEF Handle, HandleFails

\* No other step writes a claim's files, except a reboot, which stops every
\* handler and empties the CDI root.
LEMMA OtherDiskInv ==
  ASSUME TypeOK, StartedInv, DiskInv, [Next]_vars,
         \A h \in Handlers : ~Handle(h) /\ ~HandleFails(h)
  PROVE  DiskInv'
<1> USE DEF DiskInv, StepInv, SpecMatchesCheckpoint, EveryTenantHoldsEveryChip,
            TypeOK, Steps, Locked, disk, logdir, process, handlers, cluster, Claim
<1>1. ASSUME NEW h \in Handlers, Reply(h) \/ LoseReply(h)
      PROVE  DiskInv'
  BY <1>1 DEF Reply, PrepareReply, UnprepareReply, NoReply, LoseReply, Release
<1>2. ASSUME NEW h \in Handlers, Abandon(h)
      PROVE  DiskInv'
  BY <1>2 DEF Abandon
<1>3. ASSUME NEW c \in Claims, NEW h \in Handlers, CallPlugin(c, h)
      PROVE  DiskInv'
  BY <1>3 DEF CallPlugin
<1>4. ASSUME NEW c \in Claims, Admit(c) \/ Readmit(c) \/ PodsGone(c) \/ WriteLog(c)
      PROVE  DiskInv'
  BY <1>4 DEF Admit, Readmit, PodsGone, WriteLog
<1>5. CASE Crash \/ Reboot
  BY <1>5 DEF Crash, Reboot, KillProcess, EmptyTable
<1>6. CASE Start \/ Publish
  BY <1>6, StartKeepsCheckpoint
<1>7. CASE KubeletRestart
  BY <1>7 DEF KubeletRestart
<1>8. CASE UNCHANGED vars
  BY <1>8 DEF vars
<1> QED
  BY <1>1, <1>2, <1>3, <1>4, <1>5, <1>6, <1>7, <1>8 DEF Next

-----------------------------------------------------------------------------
(* The kubelet's calls.                                                    *)

\* Initially no call is outstanding.
LEMMA InitCallInv == Init => CallInv
  BY DEF Init, CallInv, Locked

\* A Prepare about to succeed repairs its own claim at most, and no Unprepare is
\* still to run that it does not know of.
LEMMA RepairedIsQuiet ==
  ASSUME LockInv, StepInv, NEW h \in Handlers, pc[h] \in {"respec", "save"}
  PROVE  /\ Repaired(h) \subseteq {Claim(h)}
         /\ \A g \in Handlers :
              pc[g] \in Locked \cup {"waiting"} /\ call[g].kind = "Unprepare" =>
                Claim(g) \notin Repaired(h)
  BY DEF Repaired, LockInv, StepInv, Locked

\* Inside a handler only the step changes.
LEMMA HandleCallInv ==
  ASSUME TypeOK, LockInv, StepInv, CallInv,
         NEW h \in Handlers, Handle(h) \/ HandleFails(h)
  PROVE  CallInv'
<1> USE DEF CallInv, TypeOK, Steps, Locked, CanEnter, Claim, Environment, World, cluster
<1>1. CASE PrepareRestore(h) \/ PrepareDevices(h) \/ UnprepareFound(h)
  BY <1>1 DEF PrepareRestore, PrepareDevices, UnprepareFound, Enter
<1>2. CASE PrepareReject(h) \/ UnprepareSkip(h) \/ GetCheckpointFails(h)
  BY <1>2
     DEF PrepareReject, UnprepareSkip, GetCheckpointFails, EnterAndReturn
<1>3. CASE CreateClaimSpecFile(h) \/ UnprepareDevices(h)
             \/ DeleteClaimSpecFile(h)
  BY <1>3 DEF CreateClaimSpecFile, UnprepareDevices, DeleteClaimSpecFile, Goto
<1>4. CASE RecreateClaimSpecFile(h) \/ SavePrepared(h)
  BY <1>4, RepairedIsQuiet DEF RecreateClaimSpecFile, SavePrepared, Return
<1>5. CASE ClaimSpecInvalid(h) \/ SaveUnprepared(h)
  BY <1>5 DEF ClaimSpecInvalid, SaveUnprepared, Return
<1>6. CASE ReadDirFails(h) \/ RemoveDirContentsFails(h) \/ WriteFails(h)
  BY <1>6 DEF ReadDirFails, RemoveDirContentsFails, WriteFails, Goto, Return
<1> QED
  BY <1>1, <1>2, <1>3, <1>4, <1>5, <1>6 DEF Handle, HandleFails

\* The kubelet calls for a claim, or changes what it wants for it, only when no
\* reply for that claim is outstanding.
LEMMA OtherCallInv ==
  ASSUME TypeOK, StartedInv, CallInv, [Next]_vars,
         \A h \in Handlers : ~Handle(h) /\ ~HandleFails(h)
  PROVE  CallInv'
<1> USE DEF CallInv, TypeOK, Steps, Locked, process, handlers, cluster, Claim
<1>1. ASSUME NEW h \in Handlers, PrepareReply(h) \/ UnprepareReply(h)
      PROVE  CallInv'
  BY <1>1, CallType DEF PrepareReply, UnprepareReply, Release
<1>2. ASSUME NEW h \in Handlers, NoReply(h) \/ LoseReply(h)
      PROVE  CallInv'
  BY <1>2 DEF NoReply, LoseReply, Release
<1>3. ASSUME NEW h \in Handlers, Abandon(h)
      PROVE  CallInv'
  BY <1>3 DEF Abandon
<1>4. ASSUME NEW c \in Claims, NEW h \in Handlers, CallPlugin(c, h)
      PROVE  CallInv'
  BY <1>4 DEF CallPlugin, Quiet
<1>5. ASSUME NEW c \in Claims, Admit(c) \/ WriteLog(c)
      PROVE  CallInv'
  BY <1>5, CallType DEF Admit, WriteLog
<1>6. ASSUME NEW c \in Claims, Readmit(c) \/ PodsGone(c)
      PROVE  CallInv'
  BY <1>6, CallType DEF Readmit, PodsGone, Quiet
<1>7. CASE Crash \/ Reboot
  BY <1>7 DEF Crash, Reboot, KillProcess
<1>8. CASE Start \/ Publish
  BY <1>8, StartKeepsCheckpoint
<1>9. CASE KubeletRestart
  BY <1>9 DEF KubeletRestart
<1>10. CASE UNCHANGED vars
  BY <1>10 DEF vars
<1> QED
  BY <1>1, <1>2, <1>3, <1>4, <1>5, <1>6, <1>7, <1>8, <1>9, <1>10 DEF Next, Reply

-----------------------------------------------------------------------------
(* The running workloads.                                                  *)

\* Initially nothing runs.
LEMMA InitPodsInv == Init => PodsInv
  BY DEF Init, PodsInv

\* A handler that writes a file of a claim serves that claim, so a running claim
\* that is not abandoned is at most being restored.
LEMMA HandlePodsInv ==
  ASSUME TypeOK, LockInv, StepInv, CallInv, PodsInv,
         NEW h \in Handlers, Handle(h) \/ HandleFails(h)
  PROVE  PodsInv'
<1> USE DEF PodsInv, Backed, CallInv, StepInv, LockInv, TypeOK, Steps, Locked,
            disk, logdir, CanEnter, Claim, Environment, World, cluster
<1>1. CASE PrepareRestore(h) \/ PrepareDevices(h) \/ UnprepareFound(h)
  BY <1>1 DEF PrepareRestore, PrepareDevices, UnprepareFound, Enter
<1>2. CASE PrepareReject(h) \/ UnprepareSkip(h) \/ GetCheckpointFails(h)
  BY <1>2
     DEF PrepareReject, UnprepareSkip, GetCheckpointFails, EnterAndReturn
<1>3. CASE CreateClaimSpecFile(h)
  BY <1>3, CallType DEF CreateClaimSpecFile, Goto, Table
<1>4. CASE UnprepareDevices(h)
  BY <1>4 DEF UnprepareDevices, Goto
<1>5. CASE DeleteClaimSpecFile(h)
  BY <1>5, CallType DEF DeleteClaimSpecFile, Goto, Table
<1>6. CASE RecreateClaimSpecFile(h)
  BY <1>6, CallType, RepairedIsQuiet DEF RecreateClaimSpecFile, Return, Table
<1>7. CASE ClaimSpecInvalid(h)
  BY <1>7 DEF ClaimSpecInvalid, Return
<1>8. CASE SavePrepared(h)
  BY <1>8, CallType, RepairedIsQuiet, SentinelAssumption
     DEF SavePrepared, Return, Table
<1>9. CASE SaveUnprepared(h)
  BY <1>9, CallType DEF SaveUnprepared, Return, Table
<1>10. CASE ReadDirFails(h) \/ RemoveDirContentsFails(h) \/ WriteFails(h)
  BY <1>10 DEF ReadDirFails, RemoveDirContentsFails, WriteFails, Goto, Return
<1> QED
  BY <1>1, <1>2, <1>3, <1>4, <1>5, <1>6, <1>7, <1>8, <1>9, <1>10
     DEF Handle, HandleFails

\* Workloads start after a reply to Prepare and have stopped before the claim is
\* unprepared; no other step touches them or the files under them.
LEMMA OtherPodsInv ==
  ASSUME TypeOK, StartedInv, CallInv, PodsInv, [Next]_vars,
         \A h \in Handlers : ~Handle(h) /\ ~HandleFails(h)
  PROVE  PodsInv'
<1> USE DEF PodsInv, Backed, CallInv, TypeOK, Steps, Locked, disk, logdir, process,
            handlers, cluster, Claim
<1>1. ASSUME NEW h \in Handlers, PrepareReply(h)
      PROVE  PodsInv'
  BY <1>1, CallType DEF PrepareReply, Release
<1>2. ASSUME NEW h \in Handlers, UnprepareReply(h)
      PROVE  PodsInv'
  BY <1>2, CallType DEF UnprepareReply, Release
<1>3. ASSUME NEW h \in Handlers, NoReply(h) \/ LoseReply(h)
      PROVE  PodsInv'
  BY <1>3 DEF NoReply, LoseReply, Release
<1>4. ASSUME NEW h \in Handlers, Abandon(h)
      PROVE  PodsInv'
  BY <1>4 DEF Abandon
<1>5. ASSUME NEW c \in Claims, NEW h \in Handlers, CallPlugin(c, h)
      PROVE  PodsInv'
  BY <1>5 DEF CallPlugin
<1>6. ASSUME NEW c \in Claims, Admit(c) \/ Readmit(c) \/ PodsGone(c) \/ WriteLog(c)
      PROVE  PodsInv'
  BY <1>6 DEF Admit, Readmit, PodsGone, WriteLog
<1>7. CASE Crash \/ Reboot
  BY <1>7 DEF Crash, Reboot, KillProcess
<1>8. CASE Start \/ Publish
  BY <1>8, StartKeepsCheckpoint
<1>9. CASE KubeletRestart
  BY <1>9 DEF KubeletRestart
<1>10. CASE UNCHANGED vars
  BY <1>10 DEF vars
<1> QED
  BY <1>1, <1>2, <1>3, <1>4, <1>5, <1>6, <1>7, <1>8, <1>9, <1>10 DEF Next, Reply

-----------------------------------------------------------------------------
(* The log directory.                                                      *)

\* Initially the log directory is empty.
LEMMA InitLogsInv == Init => LogsInv
  BY DEF Init, LogsInv

\* Writing a log needs a running claim, which is checkpointed; the last tenant
\* out has wiped the directory before it leaves the checkpoint.
LEMMA HandleLogsInv ==
  ASSUME TypeOK, LockInv, StepInv, LogsInv,
         NEW h \in Handlers, Handle(h) \/ HandleFails(h)
  PROVE  LogsInv'
<1> USE SentinelAssumption
    DEF LogsInv, LockInv, StepInv, TypeOK, Steps, Locked, disk, logdir, CanEnter,
        Claim, Environment, World
<1>1. CASE PrepareRestore(h) \/ PrepareDevices(h) \/ UnprepareFound(h)
  BY <1>1 DEF PrepareRestore, PrepareDevices, UnprepareFound, Enter
<1>2. CASE PrepareReject(h) \/ UnprepareSkip(h) \/ GetCheckpointFails(h)
  BY <1>2
     DEF PrepareReject, UnprepareSkip, GetCheckpointFails, EnterAndReturn
<1>3. CASE CreateClaimSpecFile(h) \/ DeleteClaimSpecFile(h)
  BY <1>3 DEF CreateClaimSpecFile, DeleteClaimSpecFile, Goto
<1>4. CASE UnprepareDevices(h)
  BY <1>4
     DEF UnprepareDevices, Goto, KeepLogs, HasOtherPreparedClaims
<1>5. CASE RecreateClaimSpecFile(h)
  BY <1>5, CallType DEF RecreateClaimSpecFile, Return
<1>6. CASE SavePrepared(h)
  BY <1>6, CallType DEF SavePrepared, Return, Table
<1>7. CASE SaveUnprepared(h)
  BY <1>7, CallType DEF SaveUnprepared, Return, Table
<1>8. CASE ReadDirFails(h) \/ RemoveDirContentsFails(h)
  BY <1>8 DEF ReadDirFails, RemoveDirContentsFails, Goto, Return
<1>9. CASE ClaimSpecInvalid(h) \/ WriteFails(h)
  BY <1>9 DEF ClaimSpecInvalid, WriteFails, Return
<1> QED
  BY <1>1, <1>2, <1>3, <1>4, <1>5, <1>6, <1>7, <1>8, <1>9
     DEF Handle, HandleFails

\* Outside the handlers only a workload writes a log, and it needs a running
\* claim; the checkpoint changes in no other step.
LEMMA OtherLogsInv ==
  ASSUME TypeOK, StartedInv, StepInv, CallInv, PodsInv, LogsInv, [Next]_vars,
         \A h \in Handlers : ~Handle(h) /\ ~HandleFails(h)
  PROVE  LogsInv'
<1> USE DEF LogsInv, TypeOK, Steps, Locked, disk, logdir, process, handlers, cluster,
            Claim
<1>1. ASSUME NEW h \in Handlers, Reply(h) \/ LoseReply(h)
      PROVE  LogsInv'
  BY <1>1 DEF Reply, PrepareReply, UnprepareReply, NoReply, LoseReply, Release
<1>2. ASSUME NEW h \in Handlers, Abandon(h)
      PROVE  LogsInv'
  BY <1>2, CallType DEF Abandon
<1>3. ASSUME NEW c \in Claims, NEW h \in Handlers, CallPlugin(c, h)
      PROVE  LogsInv'
  BY <1>3 DEF CallPlugin
<1>4. ASSUME NEW c \in Claims, Admit(c) \/ Readmit(c) \/ PodsGone(c)
      PROVE  LogsInv'
  BY <1>4 DEF Admit, Readmit, PodsGone
<1>5. ASSUME NEW c \in Claims, WriteLog(c), abandoned = {}
      PROVE  LogsInv'
  <2>1. checkpoint[c] # NotPrepared /\ kubelet[c] \in {"wanted", "prepared"}
    BY <1>5 DEF WriteLog, PodsInv, Backed
  <2>2. ASSUME NEW h \in Handlers, pc[h] \in {"unspec", "drop"}
        PROVE  c # Claim(h)
    BY <2>1, <2>2, <1>5 DEF CallInv, StepInv
  <2> QED
    BY <1>5, <2>1, <2>2 DEF WriteLog
<1>6. ASSUME NEW c \in Claims, WriteLog(c), abandoned # {}
      PROVE  LogsInv'
  BY <1>6 DEF WriteLog
<1>7. CASE Crash \/ Reboot
  BY <1>7 DEF Crash, Reboot, KillProcess
<1>8. CASE Start \/ Publish
  BY <1>8, StartKeepsCheckpoint
<1>9. CASE KubeletRestart
  BY <1>9 DEF KubeletRestart
<1>10. CASE UNCHANGED vars
  BY <1>10 DEF vars
<1> QED
  BY <1>1, <1>2, <1>3, <1>4, <1>5, <1>6, <1>7, <1>8, <1>9, <1>10 DEF Next

-----------------------------------------------------------------------------
(* The invariant.                                                          *)

\* The invariant is inductive: every step keeps each of its parts.
LEMMA ClaimInvNext ==
  ASSUME TypeOK, ClaimInv, [Next]_vars
  PROVE  ClaimInv'
<1>1. ASSUME NEW h \in Handlers, Handle(h) \/ HandleFails(h)
      PROVE  ClaimInv'
  BY <1>1, HandleStartedInv, HandleLockInv, HandleDiskInv, HandleCallInv, HandlePodsInv,
     HandleLogsInv DEF ClaimInv, DiskInv
<1>2. ASSUME \A h \in Handlers : ~Handle(h) /\ ~HandleFails(h)
      PROVE  ClaimInv'
  BY <1>2, OtherStartedInv, OtherLockInv, OtherDiskInv, OtherCallInv, OtherPodsInv,
     OtherLogsInv DEF ClaimInv, DiskInv
<1> QED
  BY <1>1, <1>2

\* The inductive invariant holds in every reachable state: each handler can rely
\* on what the steps before it established, whatever fails in between.
THEOREM ClaimInvHolds == Spec => []ClaimInv
<1>1. Init => ClaimInv
  BY InitStartedInv, InitLockInv, InitDiskInv, InitCallInv, InitPodsInv, InitLogsInv
     DEF ClaimInv, DiskInv
<1>2. TypeOK /\ ClaimInv /\ [Next]_vars => ClaimInv'
  BY ClaimInvNext
<1> QED
  BY <1>1, <1>2, TypeCorrect, PTL DEF Spec

\* A running claim stays in the checkpoint with its CDI spec file in place
\* (Prepare and Unprepare of state.go), for any number of faults.
THEOREM RunningClaimsAreBacked == Spec => []RunningClaimIsBacked
<1>1. ClaimInv => RunningClaimIsBacked
  BY DEF ClaimInv, PodsInv, Backed, RunningClaimIsBacked
<1> QED
  BY <1>1, ClaimInvHolds, PTL

\* The common CDI device that every Prepare names can be resolved while containers
\* run, across restarts of the plugin and of the node (NewDeviceState).
THEOREM CommonEditsAreInPlace == Spec => []CommonEditsInPlace
<1>1. ClaimInv => CommonEditsInPlace
  BY DEF ClaimInv, StartedInv, CommonEditsInPlace
<1> QED
  BY <1>1, ClaimInvHolds, PTL

\* No stale spec file of a checkpointed claim (the order of writes in Prepare).
THEOREM SpecsMatchCheckpoint == Spec => []SpecMatchesCheckpoint
<1>1. ClaimInv => SpecMatchesCheckpoint
  BY DEF ClaimInv
<1> QED
  BY <1>1, ClaimInvHolds, PTL

\* A checkpointed claim holds all the chips of the node, each one once, however
\* many chips there are and whatever allocations the scheduler writes.
THEOREM TenantsHoldEveryChip == Spec => []EveryTenantHoldsEveryChip
<1>1. ClaimInv => EveryTenantHoldsEveryChip
  BY DEF ClaimInv
<1> QED
  BY <1>1, ClaimInvHolds, PTL

\* The last tenant out leaves nothing in the log directory that its wipe could
\* list (unprepareDevices, RemoveDirContents).
THEOREM LastTenantWipes == Spec => []LogsHaveATenant
<1>1. ClaimInv => LogsHaveATenant
  BY DEF ClaimInv, LogsInv, LogsHaveATenant, NoneCheckpointed
<1> QED
  BY <1>1, ClaimInvHolds, PTL

\* The wipe always gets a listing of the log directory.
ListingsSucceed == [][\A h \in Handlers : ~ReadDirFails(h)]_vars

\* Then it overlooks nothing.
NoneOverlooked == overlooked = {}

\* A wipe without a listing is the only step that overlooks logs.
LEMMA NothingOverlooked == Spec /\ ListingsSucceed => []NoneOverlooked
<1>1. Init => NoneOverlooked
  BY DEF Init, NoneOverlooked
<1>2. ASSUME Next, \A h \in Handlers : ~ReadDirFails(h), overlooked = {}
      PROVE  overlooked' = {}
  <2> USE DEF disk, logdir, Environment, World
  <2>1. ASSUME NEW h \in Handlers, Handle(h) PROVE overlooked' = {}
    BY <1>2, <2>1
       DEF Handle, PrepareRestore, PrepareDevices, PrepareReject,
           RecreateClaimSpecFile, CreateClaimSpecFile, ClaimSpecInvalid,
           SavePrepared, UnprepareSkip, UnprepareFound, UnprepareDevices,
           DeleteClaimSpecFile, SaveUnprepared
  <2>2. ASSUME NEW h \in Handlers, HandleFails(h) PROVE overlooked' = {}
    BY <1>2, <2>2 DEF HandleFails, GetCheckpointFails, RemoveDirContentsFails, WriteFails
  <2>3. ASSUME NEW h \in Handlers, Reply(h) \/ LoseReply(h) \/ Abandon(h)
        PROVE  overlooked' = {}
    BY <1>2, <2>3 DEF Reply, PrepareReply, UnprepareReply, NoReply, LoseReply, Abandon
  <2>4. ASSUME NEW c \in Claims,
               \/ \E h \in Handlers : CallPlugin(c, h)
               \/ Admit(c) \/ Readmit(c) \/ PodsGone(c) \/ WriteLog(c)
        PROVE  overlooked' = {}
    BY <1>2, <2>4 DEF CallPlugin, Admit, Readmit, PodsGone, WriteLog
  <2>5. CASE Start \/ Publish \/ Crash \/ Reboot \/ KubeletRestart
    BY <1>2, <2>5
       DEF Start, CreateCommonSpecFile, FindCheckpoint, CreateCheckpoint, Publish, Crash,
           Reboot, KillProcess, KubeletRestart
  <2> QED
    BY <1>2, <2>1, <2>2, <2>3, <2>4, <2>5 DEF Next
<1>3. /\ NoneOverlooked /\ [Next]_vars /\ [\A h \in Handlers : ~ReadDirFails(h)]_vars
      => NoneOverlooked'
  <2>1. ASSUME overlooked = {}, UNCHANGED vars PROVE overlooked' = {}
    BY <2>1 DEF vars, disk, logdir
  <2> QED
    BY <1>2, <2>1 DEF NoneOverlooked
<1> QED
  BY <1>1, <1>3, PTL DEF Spec, ListingsSucceed

\* The last one out removes the logs, through failures of the wipe that it reports,
\* crashes and retries, unless the directory cannot be listed (RemoveDirContents).
THEOREM LastOneOutRemovesListedLogs ==
  Spec /\ ListingsSucceed => []LastOneOutRemovesLogs
<1>1. LogsHaveATenant /\ NoneOverlooked => LastOneOutRemovesLogs
  BY DEF LogsHaveATenant, NoneOverlooked, LastOneOutRemovesLogs
<1> QED
  BY <1>1, LastTenantWipes, NothingOverlooked, PTL

-----------------------------------------------------------------------------
(* What a step may do to the checkpoint.                                   *)

\* Only the last step of a handler writes the checkpoint file.
LEMMA CheckpointWriters ==
  ASSUME TypeOK, StartedInv, [Next]_vars, checkpoint' # checkpoint
  PROVE  \E h \in Handlers : SavePrepared(h) \/ SaveUnprepared(h)
<1> USE DEF disk, logdir
<1>1. ASSUME NEW h \in Handlers, Handle(h)
      PROVE  SavePrepared(h) \/ SaveUnprepared(h)
  BY <1>1
     DEF Handle, PrepareRestore, PrepareDevices, PrepareReject,
         RecreateClaimSpecFile, CreateClaimSpecFile, ClaimSpecInvalid,
         UnprepareSkip, UnprepareFound, UnprepareDevices, DeleteClaimSpecFile
<1>2. ASSUME NEW h \in Handlers
      PROVE  ~HandleFails(h) /\ ~Reply(h) /\ ~LoseReply(h) /\ ~Abandon(h)
  BY DEF HandleFails, GetCheckpointFails, ReadDirFails, RemoveDirContentsFails,
         WriteFails, Reply, PrepareReply, UnprepareReply, NoReply, LoseReply, Abandon
<1>3. ASSUME NEW c \in Claims
      PROVE  /\ \A h \in Handlers : ~CallPlugin(c, h)
             /\ ~Admit(c) /\ ~Readmit(c) /\ ~PodsGone(c) /\ ~WriteLog(c)
  BY DEF CallPlugin, Admit, Readmit, PodsGone, WriteLog
<1>4. ~Crash /\ ~Start /\ ~Publish /\ ~Reboot /\ ~KubeletRestart /\ ~UNCHANGED vars
  BY StartKeepsCheckpoint DEF Crash, Reboot, KubeletRestart, vars
<1> QED
  BY <1>1, <1>2, <1>3, <1>4 DEF Next

\* Adding a claim to the checkpoint file does change it.
LEMMA SaveStepWrites ==
  ASSUME TypeOK, LockInv, StepInv, NEW h \in Handlers, SavePrepared(h)
  PROVE  checkpoint' # checkpoint
<1>1. /\ pc[h] = "save" /\ cp[h] = checkpoint /\ checkpoint \in Table
      /\ Claim(h) \in Claims /\ PreparedDevices(call[h].alloc) \in DeviceLists
      /\ checkpoint[Claim(h)] = NotPrepared
  BY CallType DEF SavePrepared, LockInv, StepInv, Locked, TypeOK
<1> QED
  BY <1>1, SentinelAssumption DEF SavePrepared, Table

\* A save changes one entry only, and never replaces one list by another.
LEMMA SaveStep ==
  ASSUME TypeOK, LockInv, StepInv,
         NEW h \in Handlers, SavePrepared(h) \/ SaveUnprepared(h)
  PROVE  /\ pc[h] \in {"save", "drop"}
         /\ \A c \in Claims \ {Claim(h)} : checkpoint'[c] = checkpoint[c]
         /\ \A c \in Claims : \/ checkpoint[c] = NotPrepared
                              \/ checkpoint'[c] = NotPrepared
                              \/ checkpoint'[c] = checkpoint[c]
<1>1. /\ pc[h] \in {"save", "drop"}
      /\ cp[h] = checkpoint /\ checkpoint \in Table /\ Claim(h) \in Claims
  BY CallType DEF SavePrepared, SaveUnprepared, LockInv, Locked, TypeOK
<1>2. CASE SavePrepared(h)
  BY <1>1, <1>2 DEF SavePrepared, StepInv, Table
<1>3. CASE SaveUnprepared(h)
  BY <1>1, <1>3 DEF SaveUnprepared, Table
<1> QED
  BY <1>2, <1>3

\* A checkpointed claim keeps its devices until it is unprepared.
THEOREM PreparedOnceHolds == Spec => PreparedOnce
<1>1. ASSUME TypeOK, ClaimInv, [Next]_vars, checkpoint' # checkpoint
      PROVE  \A c \in Claims :
               checkpoint[c] # NotPrepared /\ checkpoint'[c] # NotPrepared =>
                 checkpoint'[c] = checkpoint[c]
  BY <1>1, CheckpointWriters, SaveStep DEF ClaimInv
<1>2. TypeOK /\ ClaimInv /\ [Next]_vars =>
        [\A c \in Claims :
           checkpoint[c] # NotPrepared /\ checkpoint'[c] # NotPrepared =>
             checkpoint'[c] = checkpoint[c]]_checkpoint
  BY <1>1
<1> QED
  BY <1>2, TypeCorrect, ClaimInvHolds, PTL DEF Spec, PreparedOnce

\* The mutex around reading and writing the checkpoint file loses no update.
THEOREM NoLostUpdateHolds == Spec => NoLostUpdate
<1>1. ASSUME TypeOK, ClaimInv, [Next]_vars, checkpoint' # checkpoint
      PROVE  \E h \in Handlers :
               /\ pc[h] \in {"save", "drop"}
               /\ \A c \in Claims \ {Claim(h)} : checkpoint'[c] = checkpoint[c]
  BY <1>1, CheckpointWriters, SaveStep DEF ClaimInv
<1>2. TypeOK /\ ClaimInv /\ [Next]_vars =>
        [\E h \in Handlers :
           /\ pc[h] \in {"save", "drop"}
           /\ \A c \in Claims \ {Claim(h)} :
                checkpoint'[c] = checkpoint[c]]_checkpoint
  BY <1>1
<1> QED
  BY <1>2, TypeCorrect, ClaimInvHolds, PTL DEF Spec, NoLostUpdate

-----------------------------------------------------------------------------
(* The refinement.                                                         *)

\* Adding a claim to the checkpoint is Prepare of the ledger: the claim was not
\* there and its new entry names every chip once.
LEMMA PrepareRefines ==
  ASSUME TypeOK, ClaimInv, NEW h \in Handlers, SavePrepared(h)
  PROVE  Ledger!Prepare(Claim(h))
<1> DEFINE devices == PreparedDevices(call[h].alloc)
<1>1. /\ pc[h] = "save" /\ Claim(h) \in Claims /\ devices \in DeviceLists
      /\ checkpoint[Claim(h)] = NotPrepared /\ cp[h] = checkpoint
      /\ ValidAllocation(call[h].alloc) /\ ValidSpec(devices)
      /\ call[h].alloc \in Allocations
  BY CallType DEF SavePrepared, ClaimInv, LockInv, StepInv, Locked
<1>2. devices \in NodeLists
  BY <1>1, AllChips DEF NodeLists, ValidSpec
<1>3. checkpoint' = [checkpoint EXCEPT ![Claim(h)] = devices]
  BY <1>1 DEF SavePrepared
<1>4. \/ UNCHANGED (pods \ abandoned)
      \/ (pods \ abandoned)' = (pods \ abandoned) \cup {Claim(h)}
  <2>1. UNCHANGED pods /\ abandoned' = abandoned \ Repaired(h)
    BY DEF SavePrepared, World, cluster
  <2>2. Repaired(h) \subseteq {Claim(h)}
    BY DEF Repaired
  <2> QED
    BY <2>1, <2>2
<1> QED
  BY <1>1, <1>2, <1>3, <1>4 DEF Ledger!Prepare

\* Deleting a claim from the checkpoint is Unprepare of the ledger: its pods
\* have stopped, or the kubelet has given up on the call.
LEMMA UnprepareRefines ==
  ASSUME TypeOK, ClaimInv, NEW h \in Handlers, SaveUnprepared(h)
  PROVE  Ledger!Unprepare(Claim(h))
<1>1. /\ pc[h] = "drop" /\ Claim(h) \in Claims /\ cp[h] = checkpoint
      /\ checkpoint[Claim(h)] # NotPrepared /\ call[h].kind = "Unprepare"
  BY CallType DEF SaveUnprepared, ClaimInv, LockInv, StepInv, Locked
<1>2. Claim(h) \notin pods \ abandoned
  BY <1>1 DEF ClaimInv, CallInv, PodsInv, Locked
<1>3. UNCHANGED (pods \ abandoned)
  BY DEF SaveUnprepared, Environment, World, cluster
<1> QED
  BY <1>1, <1>2, <1>3 DEF SaveUnprepared, Ledger!Unprepare

\* The reply to a successful Prepare is Run of the ledger, or changes nothing
\* when the claim is abandoned.
LEMMA ReplyRefines ==
  ASSUME TypeOK, ClaimInv, NEW h \in Handlers, PrepareReply(h)
  PROVE  Ledger!Run(Claim(h)) \/ UNCHANGED Ledger!vars
<1>1. UNCHANGED <<checkpoint, abandoned>> /\ pods' = pods \cup {Claim(h)}
  BY DEF PrepareReply, disk, logdir
<1>2. CASE Claim(h) \in abandoned
  BY <1>1, <1>2 DEF Ledger!vars
<1>3. CASE Claim(h) \notin abandoned
  <2>1. Backed(Claim(h))
    BY <1>3 DEF PrepareReply, ClaimInv, PodsInv
  <2>2. (pods \ abandoned)' = (pods \ abandoned) \cup {Claim(h)}
    BY <1>1, <1>3
  <2> QED
    BY <1>1, <2>1, <2>2 DEF Backed, Ledger!Run
<1> QED
  BY <1>2, <1>3

\* Restoring a claim from the checkpoint is Run of the ledger if its containers
\* have been waiting for it, and changes nothing otherwise.
LEMMA RestoreRefines ==
  ASSUME TypeOK, ClaimInv, NEW h \in Handlers, RecreateClaimSpecFile(h)
  PROVE  Ledger!Run(Claim(h)) \/ UNCHANGED Ledger!vars
<1>1. UNCHANGED <<checkpoint, pods>> /\ abandoned' = abandoned \ Repaired(h)
  BY DEF RecreateClaimSpecFile, World, cluster
<1>2. Repaired(h) \subseteq {Claim(h)}
  BY DEF Repaired
<1>3. \/ UNCHANGED (pods \ abandoned)
      \/ (pods \ abandoned)' = (pods \ abandoned) \cup {Claim(h)}
  BY <1>1, <1>2
<1>4. checkpoint[Claim(h)] # NotPrepared
  BY DEF RecreateClaimSpecFile, ClaimInv, StepInv
<1> QED
  BY <1>1, <1>3, <1>4 DEF Ledger!Run, Ledger!vars

\* Pods that end, a reboot and an abandoned call are Stop of the ledger.
LEMMA StopRefines ==
  ASSUME UNCHANGED checkpoint, pods' \subseteq pods, abandoned \subseteq abandoned'
  PROVE  Ledger!Stop
  BY DEF Ledger!Stop

\* Every step of DeviceState is a step of the ledger or leaves it alone.
LEMMA LedgerNext ==
  ASSUME TypeOK, ClaimInv, [Next]_vars
  PROVE  [Ledger!Next]_(Ledger!vars)
<1>1. CASE checkpoint' # checkpoint
  <2>1. PICK h \in Handlers : SavePrepared(h) \/ SaveUnprepared(h)
    BY <1>1, CheckpointWriters DEF ClaimInv
  <2>2. Claim(h) \in Claims
    BY <2>1, CallType DEF SavePrepared, SaveUnprepared
  <2> QED
    BY <2>1, <2>2, PrepareRefines, UnprepareRefines DEF Ledger!Next
<1>2. CASE UNCHANGED checkpoint
  <2>1. ASSUME NEW h \in Handlers, PrepareReply(h)
        PROVE  [Ledger!Next]_(Ledger!vars)
    <3>1. Claim(h) \in Claims
      BY <2>1, CallType DEF PrepareReply
    <3> QED
      BY <2>1, <3>1, ReplyRefines DEF Ledger!Next
  <2>2. ASSUME NEW h \in Handlers, RecreateClaimSpecFile(h)
        PROVE  [Ledger!Next]_(Ledger!vars)
    <3>1. Claim(h) \in Claims
      BY <2>2, CallType DEF RecreateClaimSpecFile
    <3> QED
      BY <2>2, <3>1, RestoreRefines DEF Ledger!Next
  <2>3. ASSUME \A h \in Handlers : ~PrepareReply(h) /\ ~RecreateClaimSpecFile(h)
        PROVE  pods' \subseteq pods /\ abandoned \subseteq abandoned'
    <3> USE <1>2, <2>3 DEF cluster, Environment, World
    <3>1. ASSUME NEW h \in Handlers, Handle(h) \/ HandleFails(h)
          PROVE  UNCHANGED <<pods, abandoned>>
      <4>1. ~SavePrepared(h)
        BY SaveStepWrites DEF ClaimInv
      <4> QED
        BY <3>1, <4>1
           DEF Handle, PrepareRestore, PrepareDevices, PrepareReject,
               CreateClaimSpecFile, ClaimSpecInvalid, UnprepareSkip,
               UnprepareFound, UnprepareDevices, DeleteClaimSpecFile,
               SaveUnprepared, HandleFails, GetCheckpointFails,
               ReadDirFails, RemoveDirContentsFails, WriteFails
    <3>2. ASSUME NEW h \in Handlers, Reply(h) \/ LoseReply(h) \/ Abandon(h)
          PROVE  UNCHANGED pods /\ abandoned \subseteq abandoned'
      BY <3>2 DEF Reply, UnprepareReply, NoReply, LoseReply, Abandon
    <3>3. ASSUME NEW c \in Claims,
                 \/ \E h \in Handlers : CallPlugin(c, h)
                 \/ Admit(c) \/ Readmit(c) \/ PodsGone(c) \/ WriteLog(c)
          PROVE  pods' \subseteq pods /\ UNCHANGED abandoned
      BY <3>3 DEF CallPlugin, Admit, Readmit, PodsGone, WriteLog
    <3>4. CASE Crash \/ Start \/ Publish \/ Reboot \/ KubeletRestart \/ UNCHANGED vars
      BY <3>4, StartKeepsCheckpoint
         DEF ClaimInv, Crash, Reboot, KubeletRestart, vars
    <3> QED
      BY <3>1, <3>2, <3>3, <3>4 DEF Next
  <2> QED
    BY <1>2, <2>1, <2>2, <2>3, StopRefines DEF Ledger!Next
<1> QED
  BY <1>1, <1>2

\* DeviceState implements the ledger, for any number of faults.
THEOREM DeviceStateImplementsLedger == Spec => ImplementsLedger
<1>1. Init => Ledger!Init
  BY DEF Init, EmptyTable, Ledger!Init
<1>2. TypeOK /\ ClaimInv /\ [Next]_vars => [Ledger!Next]_(Ledger!vars)
  BY LedgerNext
<1> QED
  BY <1>1, <1>2, TypeCorrect, ClaimInvHolds, PTL
     DEF Spec, ImplementsLedger, Ledger!Spec

\* What the ledger promises holds of DeviceState as well: the entry of a claim neither
\* changes nor goes away while its containers run, unless the kubelet has given up on
\* an Unprepare of it, through failures, crashes, reboots and late calls.
THEOREM EntriesOfRunningClaimsStay == Spec => []Ledger!EntriesInv /\ Ledger!EntriesStay
<1>1. NotPrepared \notin NodeLists
  BY SentinelAssumption DEF NodeLists
<1>2. Ledger!Spec => []Ledger!EntriesInv /\ Ledger!EntriesStay
  BY <1>1, Ledger!EntriesHold, Ledger!EntriesNeverMove, PTL
<1> QED
  BY <1>2, DeviceStateImplementsLedger, PTL DEF ImplementsLedger

-----------------------------------------------------------------------------
(* The logs of co-tenants, while no restart turns sharing off.             *)

\* A plugin that shares the chips keeps sharing them when it is restarted.
SharingStaysOn == [][shares => shares']_vars

\* The slice never offers more than the policy allows, so without sharing the
\* scheduler admits one claim at a time.
LEMMA ExclusiveNext ==
  ASSUME TypeOK, StartedInv, CallInv, PodsInv, ExclusiveInv,
         [shares => shares']_vars, [Next]_vars
  PROVE  ExclusiveInv'
<1> USE DEF ExclusiveInv, TypeOK, disk, logdir, process, handlers, cluster, Environment, World
<1>1. ASSUME NEW h \in Handlers, Handle(h)
      PROVE  ExclusiveInv'
  BY <1>1
     DEF Handle, PrepareRestore, PrepareDevices, PrepareReject,
         RecreateClaimSpecFile, CreateClaimSpecFile, ClaimSpecInvalid,
         SavePrepared, UnprepareSkip, UnprepareFound, UnprepareDevices,
         DeleteClaimSpecFile, SaveUnprepared
<1>2. ASSUME NEW h \in Handlers, HandleFails(h)
      PROVE  ExclusiveInv'
  BY <1>2
     DEF HandleFails, GetCheckpointFails, ReadDirFails, RemoveDirContentsFails,
         WriteFails
<1>3. ASSUME NEW h \in Handlers, PrepareReply(h) \/ UnprepareReply(h)
      PROVE  ExclusiveInv'
  BY <1>3, CallType DEF PrepareReply, UnprepareReply, CallInv, Claim
<1>4. ASSUME NEW h \in Handlers, NoReply(h) \/ LoseReply(h) \/ Abandon(h)
      PROVE  ExclusiveInv'
  BY <1>4 DEF NoReply, LoseReply, Abandon
<1>5. ASSUME NEW c \in Claims, Admit(c)
      PROVE  ExclusiveInv'
  BY <1>5 DEF Admit
<1>6. ASSUME NEW c \in Claims, Readmit(c) \/ PodsGone(c) \/ WriteLog(c)
      PROVE  ExclusiveInv'
  BY <1>6 DEF Readmit, PodsGone, WriteLog
<1>7. ASSUME NEW c \in Claims, NEW h \in Handlers, CallPlugin(c, h)
      PROVE  ExclusiveInv'
  BY <1>7 DEF CallPlugin
<1>8. CASE Crash \/ Start
  <2>1. UNCHANGED <<kubelet, offered>>
    BY <1>8
       DEF Crash, KillProcess, Start, CreateCommonSpecFile, FindCheckpoint,
           CreateCheckpoint
  <2>2. shares => shares'
    BY Zenon DEF vars
  <2> QED
    BY <2>1, <2>2, Zenon
<1>9. CASE Reboot \/ KubeletRestart
  BY <1>9 DEF Reboot, KubeletRestart, KillProcess
<1>10. CASE UNCHANGED vars
  BY <1>10 DEF vars
<1>11. CASE Publish
  <2>1. /\ offered' = IF shares THEN "shared" ELSE "exclusive"
        /\ UNCHANGED <<shares, kubelet>>
    BY <1>11 DEF Publish
  <2> QED
    BY <2>1
<1> QED
  BY <1>1, <1>2, <1>3, <1>4, <1>5, <1>6, <1>7, <1>8, <1>9, <1>10, <1>11
     DEF Next, Reply

\* A handler leaves the wipe only by doing it or by failing to.
LEMMA WipeEnds ==
  ASSUME TypeOK, [Next]_vars, proc' = "up",
         NEW h \in Handlers, pc[h] = "wipe", pc'[h] # "wipe"
  PROVE  UnprepareDevices(h) \/ ReadDirFails(h) \/ RemoveDirContentsFails(h)
<1> USE DEF TypeOK, Steps, Locked, process, handlers
<1>1. ASSUME NEW g \in Handlers, Handle(g)
      PROVE  UnprepareDevices(h)
  BY <1>1
     DEF Handle, PrepareRestore, PrepareDevices, PrepareReject,
         RecreateClaimSpecFile, CreateClaimSpecFile, ClaimSpecInvalid,
         SavePrepared, UnprepareSkip, UnprepareFound, UnprepareDevices,
         DeleteClaimSpecFile, SaveUnprepared, CanEnter, Enter, EnterAndReturn,
         Goto, Return
<1>2. ASSUME NEW g \in Handlers, HandleFails(g)
      PROVE  ReadDirFails(h) \/ RemoveDirContentsFails(h)
  BY <1>2
     DEF HandleFails, GetCheckpointFails, ReadDirFails, RemoveDirContentsFails,
         WriteFails, CanEnter, EnterAndReturn, Goto, Return
<1>3. ASSUME NEW g \in Handlers
      PROVE  ~Reply(g) /\ ~LoseReply(g) /\ ~Abandon(g)
  BY DEF Reply, PrepareReply, UnprepareReply, NoReply, LoseReply, Abandon,
         Release
<1>4. ASSUME NEW c \in Claims
      PROVE  /\ \A g \in Handlers : ~CallPlugin(c, g)
             /\ ~Admit(c) /\ ~Readmit(c) /\ ~PodsGone(c) /\ ~WriteLog(c)
  BY DEF CallPlugin, Admit, Readmit, PodsGone, WriteLog
<1>5. ~Crash /\ ~Start /\ ~Publish /\ ~Reboot /\ ~KubeletRestart /\ ~UNCHANGED vars
  BY DEF Crash, Start, CreateCommonSpecFile, FindCheckpoint, CreateCheckpoint, Publish,
         Reboot, KubeletRestart, KillProcess, vars
<1> QED
  BY <1>1, <1>2, <1>3, <1>4, <1>5 DEF Next

\* A handler that wipes the log directory leaves the logs of other running
\* claims alone: if there is another tenant the policy allows sharing, and then
\* the directory is kept.
LEMMA WipeStep ==
  ASSUME TypeOK, ClaimInv, ExclusiveInv, [Next]_vars, abandoned = {}, proc' = "up",
         NEW h \in Handlers, pc[h] = "wipe", pc'[h] # "wipe",
         NEW c \in (logs \cap pods) \ {Claim(h)}
  PROVE  c \in logs'
<1>1. c \in Claims /\ checkpoint[c] # NotPrepared /\ cp[h] = checkpoint
  BY DEF ClaimInv, PodsInv, Backed, LockInv, Locked, TypeOK
<1>2. kubelet[c] # "absent" /\ kubelet[Claim(h)] # "absent"
  BY CallType DEF ClaimInv, PodsInv, CallInv, StepInv, Locked
<1>3. KeepLogs(h)
  BY <1>1, <1>2, CallType DEF KeepLogs, HasOtherPreparedClaims, ExclusiveInv
<1>4. UnprepareDevices(h)
  BY <1>3, WipeEnds DEF ReadDirFails, RemoveDirContentsFails
<1> QED
  BY <1>3, <1>4 DEF UnprepareDevices, logdir

\* Under SharingStaysOn, claims that the kubelet knows are exclusive unless shared.
LEMMA ExclusiveInvHolds == Spec /\ SharingStaysOn => []ExclusiveInv
<1>1. Init => ExclusiveInv
  BY DEF Init, ExclusiveInv
<1>2. TypeOK /\ ClaimInv /\ ExclusiveInv /\ [Next]_vars /\ [shares => shares']_vars
        => ExclusiveInv'
  BY ExclusiveNext DEF ClaimInv
<1> QED
  BY <1>1, <1>2, TypeCorrect, ClaimInvHolds, PTL DEF Spec, SharingStaysOn

\* No Unprepare deletes the log files of another claim's running workload
\* (unprepareDevices), unless a restart has turned sharing off: any other change of
\* the policy is harmless.
THEOREM CoTenantLogsAreKept == Spec /\ SharingStaysOn => CoTenantLogsKept
<1>1. TypeOK /\ ClaimInv /\ ExclusiveInv /\ [Next]_vars =>
        [\A h \in Handlers :
           pc[h] = "wipe" /\ pc'[h] # "wipe" /\ proc' = "up" /\ abandoned = {} =>
             \A c \in (logs \cap pods) \ {Claim(h)} : c \in logs']_vars
  BY WipeStep
<1> QED
  BY <1>1, ExclusiveInvHolds, TypeCorrect, ClaimInvHolds, PTL
     DEF Spec, CoTenantLogsKept

\* When every start resolves the same policy, it is never turned off.
LEMMA FixedPolicyStaysOn ==
  ASSUME \A p, q \in Policies : p = q
  PROVE  Spec => SharingStaysOn
<1> DEFINE Resolved == shares => shares \in Policies
<1>1. Init => Resolved
  BY Zenon DEF Init
<1>2. ASSUME Next PROVE UNCHANGED shares \/ shares' \in Policies
  <2> USE DEF process, Environment, World
  <2>1. ASSUME NEW h \in Handlers, Handle(h) PROVE UNCHANGED shares
    BY <2>1
       DEF Handle, PrepareRestore, PrepareDevices, PrepareReject,
           RecreateClaimSpecFile, CreateClaimSpecFile, ClaimSpecInvalid,
           SavePrepared, UnprepareSkip, UnprepareFound, UnprepareDevices,
           DeleteClaimSpecFile, SaveUnprepared
  <2>2. ASSUME NEW h \in Handlers, HandleFails(h) PROVE UNCHANGED shares
    BY <2>2
       DEF HandleFails, GetCheckpointFails, ReadDirFails, RemoveDirContentsFails,
           WriteFails
  <2>3. ASSUME NEW h \in Handlers, Reply(h) \/ LoseReply(h) \/ Abandon(h)
        PROVE  UNCHANGED shares
    BY <2>3 DEF Reply, PrepareReply, UnprepareReply, NoReply, LoseReply, Abandon
  <2>4. ASSUME NEW c \in Claims,
               \/ \E h \in Handlers : CallPlugin(c, h)
               \/ Admit(c) \/ Readmit(c) \/ PodsGone(c) \/ WriteLog(c)
        PROVE  UNCHANGED shares
    BY <2>4 DEF CallPlugin, Admit, Readmit, PodsGone, WriteLog
  <2>5. CASE \/ FindCheckpoint \/ CreateCheckpoint \/ Publish
             \/ Crash \/ Reboot \/ KubeletRestart
    BY <2>5
       DEF FindCheckpoint, CreateCheckpoint, Publish, Crash, Reboot, KillProcess,
           KubeletRestart
  <2>6. CASE CreateCommonSpecFile
    BY <2>6 DEF CreateCommonSpecFile
  <2> QED
    BY <1>2, <2>1, <2>2, <2>3, <2>4, <2>5, <2>6 DEF Next, Start
<1>3. Resolved /\ [Next]_vars => Resolved'
  <2>1. ASSUME UNCHANGED vars PROVE UNCHANGED shares
    BY <2>1 DEF vars, process
  <2> QED
    BY <1>2, <2>1, Zenon
<1>4. TypeOK /\ Resolved /\ [Next]_vars => [shares => shares']_vars
  <2> SUFFICES ASSUME TypeOK, Resolved, Next, shares PROVE shares'
    BY Zenon
  <2>1. CASE UNCHANGED shares
    BY <2>1, Zenon
  <2>2. CASE shares' \in Policies
    <3>1. shares \in Policies /\ shares' = shares
      BY <2>2, Zenon
    <3> QED
      BY <3>1, Zenon
  <2> QED
    BY <1>2, <2>1, <2>2, Zenon
<1> QED
  BY <1>1, <1>3, <1>4, TypeCorrect, PTL DEF Spec, SharingStaysOn

\* In particular no co-tenant loses its logs when every start resolves one policy.
THEOREM CoTenantLogsUnderFixedPolicy ==
  ASSUME \A p, q \in Policies : p = q
  PROVE  Spec => CoTenantLogsKept
BY CoTenantLogsAreKept, FixedPolicyStaysOn, PTL

-----------------------------------------------------------------------------
(* What the kubelet's calls can be relied on for, when none of them is late. *)

\* The kubelet never gives up on a Prepare that is queued or runs.
NoLatePrepare ==
  \A h \in Handlers :
    pc[h] \in Locked \cup {"waiting"} /\ call[h].kind = "Prepare" => live[h]

\* A claim the kubelet has forgotten, and a claim whose successful Unprepare is
\* about to be reported, have no entry.
UnpreparedInv ==
  /\ \A c \in Claims : kubelet[c] = "absent" => checkpoint[c] = NotPrepared
  /\ \A h \in Handlers :
       pc[h] = "done" /\ ok[h] /\ live[h] /\ call[h].kind = "Unprepare" =>
         checkpoint[Claim(h)] = NotPrepared

\* An entry is added on behalf of a kubelet that waits for it.
LEMMA HandleUnpreparedInv ==
  ASSUME TypeOK, LockInv, StepInv, CallInv, NoLatePrepare, UnpreparedInv,
         NEW h \in Handlers, Handle(h) \/ HandleFails(h)
  PROVE  UnpreparedInv'
<1> USE DEF UnpreparedInv, TypeOK, Steps, disk, logdir, CanEnter, Claim, Environment, World,
            cluster
<1>1. CASE PrepareRestore(h) \/ PrepareDevices(h) \/ UnprepareFound(h)
  BY <1>1 DEF PrepareRestore, PrepareDevices, UnprepareFound, Enter
<1>2. CASE PrepareReject(h) \/ UnprepareSkip(h) \/ GetCheckpointFails(h)
  BY <1>2 DEF PrepareReject, UnprepareSkip, GetCheckpointFails, EnterAndReturn
<1>3. CASE CreateClaimSpecFile(h) \/ UnprepareDevices(h) \/ DeleteClaimSpecFile(h)
  BY <1>3 DEF CreateClaimSpecFile, UnprepareDevices, DeleteClaimSpecFile, Goto
<1>4. CASE RecreateClaimSpecFile(h) \/ ClaimSpecInvalid(h)
  BY <1>4 DEF RecreateClaimSpecFile, ClaimSpecInvalid, Return, StepInv
<1>5. CASE SavePrepared(h)
  <2>1. /\ call[h].kind = "Prepare" /\ live[h] /\ pc[h] = "save"
        /\ kubelet[Claim(h)] = "wanted" /\ Claim(h) \in Claims
    BY <1>5, CallType DEF SavePrepared, StepInv, NoLatePrepare, CallInv, Locked
  <2>2. \A g \in Handlers : live[g] /\ Claim(g) = Claim(h) => g = h
    BY <2>1 DEF CallInv
  <2>3. \A c \in Claims \ {Claim(h)} : checkpoint'[c] = checkpoint[c]
    BY <1>5, SaveStep
  <2>4. \A g \in Handlers : pc[g] # "idle" => Claim(g) \in Claims
    BY CallType
  <2> QED
    BY <1>5, <2>1, <2>2, <2>3, <2>4 DEF SavePrepared, Return
<1>6. CASE SaveUnprepared(h)
  <2>1. Claim(h) \in Claims
    BY <1>6, CallType DEF SaveUnprepared
  <2>2. \A c \in Claims \ {Claim(h)} : checkpoint'[c] = checkpoint[c]
    BY <1>6, SaveStep
  <2>3. checkpoint'[Claim(h)] = NotPrepared
    BY <1>6, <2>1 DEF SaveUnprepared, Table
  <2>4. \A g \in Handlers : pc[g] # "idle" => Claim(g) \in Claims
    BY CallType
  <2> QED
    BY <1>6, <2>1, <2>2, <2>3, <2>4 DEF SaveUnprepared, Return
<1>7. CASE ReadDirFails(h) \/ RemoveDirContentsFails(h) \/ WriteFails(h)
  BY <1>7 DEF ReadDirFails, RemoveDirContentsFails, WriteFails, Goto, Return
<1> QED
  BY <1>1, <1>2, <1>3, <1>4, <1>5, <1>6, <1>7 DEF Handle, HandleFails

\* The kubelet forgets a claim only when it is told that it is unprepared.
LEMMA OtherUnpreparedInv ==
  ASSUME TypeOK, StartedInv, UnpreparedInv, [Next]_vars,
         \A h \in Handlers : ~Handle(h) /\ ~HandleFails(h)
  PROVE  UnpreparedInv'
<1> USE DEF UnpreparedInv, TypeOK, Steps, Locked, disk, logdir, process, handlers, cluster,
            Claim
<1>1. ASSUME NEW h \in Handlers, PrepareReply(h) \/ UnprepareReply(h)
      PROVE  UnpreparedInv'
  BY <1>1, CallType DEF PrepareReply, UnprepareReply, Release
<1>2. ASSUME NEW h \in Handlers, NoReply(h) \/ LoseReply(h)
      PROVE  UnpreparedInv'
  BY <1>2 DEF NoReply, LoseReply, Release
<1>3. ASSUME NEW h \in Handlers, Abandon(h)
      PROVE  UnpreparedInv'
  BY <1>3 DEF Abandon
<1>4. ASSUME NEW c \in Claims, NEW h \in Handlers, CallPlugin(c, h)
      PROVE  UnpreparedInv'
  BY <1>4 DEF CallPlugin
<1>5. ASSUME NEW c \in Claims, Admit(c) \/ Readmit(c) \/ PodsGone(c) \/ WriteLog(c)
      PROVE  UnpreparedInv'
  BY <1>5 DEF Admit, Readmit, PodsGone, WriteLog
<1>6. CASE Crash \/ Reboot
  BY <1>6 DEF Crash, Reboot, KillProcess
<1>7. CASE Start \/ Publish
  BY <1>7, StartKeepsCheckpoint
<1>8. CASE KubeletRestart
  BY <1>8 DEF KubeletRestart
<1>9. CASE UNCHANGED vars
  BY <1>9 DEF vars
<1> QED
  BY <1>1, <1>2, <1>3, <1>4, <1>5, <1>6, <1>7, <1>8, <1>9 DEF Next, Reply

\* Once the kubelet has been told that a claim is unprepared, the claim has no entry
\* until it is prepared again, unless the kubelet gives up on a Prepare: late
\* Unprepares, failed writes, crashes and reboots do not matter (state.go Prepare,
\* Unprepare).
THEOREM ForgottenClaimsAreUnprepared == Spec /\ []NoLatePrepare => []UnpreparedInv
<1>1. Init => UnpreparedInv
  BY DEF Init, UnpreparedInv, EmptyTable
<1>2. TypeOK /\ ClaimInv /\ NoLatePrepare /\ UnpreparedInv /\ [Next]_vars
        => UnpreparedInv'
  BY HandleUnpreparedInv, OtherUnpreparedInv DEF ClaimInv
<1> QED
  BY <1>1, <1>2, TypeCorrect, ClaimInvHolds, PTL DEF Spec

\* Two things only can prepare a second claim on a node that does not share: a
\* Prepare the kubelet gave up on, and a restart that turns sharing off.  Without
\* them the driver needs no check of its own (prepareDevices has none).
THEOREM NoDoubleBookingInTime ==
  Spec /\ SharingStaysOn /\ []NoLatePrepare => []NoDoubleBooking
<1>1. ExclusiveInv /\ UnpreparedInv => NoDoubleBooking
  BY DEF ExclusiveInv, UnpreparedInv, NoDoubleBooking
<1> QED
  BY <1>1, ExclusiveInvHolds, ForgottenClaimsAreUnprepared, PTL

-----------------------------------------------------------------------------
(* The spec files that are left behind.                                    *)

\* No Prepare ends between its two writes: neither does the second one fail, nor is
\* there a crash or a reboot in between.
SavesComplete ==
  \A h \in Handlers : pc[h] = "save" => SavePrepared(h) \/ pc'[h] = "save"

PreparesComplete == [][SavesComplete]_vars

\* A spec file belongs to a claim that is checkpointed or is about to be.
OwnedSpecs ==
  \A c \in Claims :
    cdi[c] # NotPrepared =>
      \/ checkpoint[c] # NotPrepared
      \/ \E h \in Handlers : pc[h] = "save" /\ Claim(h) = c

\* A claim's file is written just before its entry, and deleted before it.
LEMMA HandleOwnedSpecs ==
  ASSUME TypeOK, LockInv, StepInv, OwnedSpecs,
         SavesComplete, NEW h \in Handlers, Handle(h) \/ HandleFails(h)
  PROVE  OwnedSpecs'
<1>1. /\ \A g \in Handlers : pc[g] = "save" /\ g # h => pc'[g] = "save"
      /\ UNCHANGED call
  BY DEF Handle, HandleFails, PrepareRestore, PrepareDevices, PrepareReject,
         RecreateClaimSpecFile, CreateClaimSpecFile, ClaimSpecInvalid, SavePrepared,
         UnprepareSkip, UnprepareFound, UnprepareDevices, DeleteClaimSpecFile,
         SaveUnprepared, GetCheckpointFails, ReadDirFails, RemoveDirContentsFails, WriteFails,
         CanEnter, Enter, EnterAndReturn, Goto, Return, TypeOK
<1>2. ASSUME UNCHANGED <<checkpoint, cdi>>, pc[h] = "save" => pc'[h] = "save"
      PROVE  OwnedSpecs'
  BY <1>1, <1>2 DEF OwnedSpecs, Claim
<1>3. CASE CreateClaimSpecFile(h)
  <2>1. /\ pc'[h] = "save" /\ UNCHANGED checkpoint
        /\ \A c \in Claims \ {Claim(h)} : cdi'[c] = cdi[c]
    BY <1>3, CallType DEF CreateClaimSpecFile, Goto, TypeOK, Table
  <2>2. pc[h] = "spec"
    BY <1>3 DEF CreateClaimSpecFile
  <2> QED
    BY <1>1, <2>1, <2>2 DEF OwnedSpecs, Claim
<1>4. CASE RecreateClaimSpecFile(h)
  <2>1. /\ checkpoint[Claim(h)] # NotPrepared /\ UNCHANGED checkpoint
        /\ \A c \in Claims \ {Claim(h)} : cdi'[c] = cdi[c]
        /\ pc[h] = "respec"
    BY <1>4, CallType DEF RecreateClaimSpecFile, StepInv, TypeOK, Table
  <2> QED
    BY <1>1, <2>1 DEF OwnedSpecs, Claim
<1>5. CASE DeleteClaimSpecFile(h)
  <2>1. /\ cdi'[Claim(h)] = NotPrepared /\ UNCHANGED checkpoint
        /\ \A c \in Claims \ {Claim(h)} : cdi'[c] = cdi[c]
        /\ pc[h] = "unspec"
    BY <1>5, CallType DEF DeleteClaimSpecFile, TypeOK, Table
  <2> QED
    BY <1>1, <2>1 DEF OwnedSpecs, Claim
<1>6. CASE SavePrepared(h)
  <2>1. /\ Claim(h) \in Claims /\ checkpoint'[Claim(h)] # NotPrepared
        /\ UNCHANGED cdi
    BY <1>6, CallType, SentinelAssumption
       DEF SavePrepared, LockInv, Locked, TypeOK, Table, disk, logdir
  <2>2. \A c \in Claims \ {Claim(h)} : checkpoint'[c] = checkpoint[c]
    BY <1>6, SaveStep
  <2> QED
    BY <1>1, <2>1, <2>2 DEF OwnedSpecs, Claim
<1>7. CASE SaveUnprepared(h)
  <2>1. /\ pc[h] = "drop" /\ cdi[Claim(h)] = NotPrepared /\ UNCHANGED cdi
    BY <1>7 DEF SaveUnprepared, StepInv, disk, logdir
  <2>2. \A c \in Claims \ {Claim(h)} : checkpoint'[c] = checkpoint[c]
    BY <1>7, SaveStep
  <2> QED
    BY <1>1, <2>1, <2>2 DEF OwnedSpecs, Claim
<1>8. CASE \/ PrepareRestore(h) \/ PrepareDevices(h) \/ PrepareReject(h)
           \/ ClaimSpecInvalid(h) \/ UnprepareSkip(h) \/ UnprepareFound(h)
           \/ UnprepareDevices(h)
  <2>1. pc[h] # "save" /\ UNCHANGED <<checkpoint, cdi>>
    BY <1>8
       DEF PrepareRestore, PrepareDevices, PrepareReject, ClaimSpecInvalid,
           UnprepareSkip, UnprepareFound, UnprepareDevices, CanEnter, disk, logdir
  <2> QED
    BY <1>2, <2>1
<1>9. CASE HandleFails(h)
  <2>1. UNCHANGED <<checkpoint, cdi>>
    BY <1>9
       DEF HandleFails, GetCheckpointFails, ReadDirFails, RemoveDirContentsFails,
           WriteFails, disk, logdir
  <2> QED
    BY <1>2, <1>6, <2>1 DEF SavesComplete
<1> QED
  BY <1>3, <1>4, <1>5, <1>6, <1>7, <1>8, <1>9 DEF Handle

\* No other step of a complete Prepare or of an Unprepare leaves a file behind.
LEMMA OtherOwnedSpecs ==
  ASSUME TypeOK, StartedInv, OwnedSpecs, [Next]_vars, SavesComplete,
         \A h \in Handlers : ~Handle(h) /\ ~HandleFails(h)
  PROVE  OwnedSpecs'
<1>1. \A h \in Handlers : pc[h] = "save" => pc'[h] = "save"
  BY DEF Handle, SavesComplete
<1>2. ASSUME NEW h \in Handlers, Reply(h) \/ LoseReply(h) \/ Abandon(h)
      PROVE  /\ UNCHANGED <<checkpoint, cdi>>
             /\ \A g \in Handlers : pc[g] = "save" => call'[g] = call[g]
  BY <1>2
     DEF Reply, PrepareReply, UnprepareReply, NoReply, LoseReply, Abandon, Release,
         disk, logdir, TypeOK
<1>3. ASSUME NEW c \in Claims, NEW h \in Handlers, CallPlugin(c, h)
      PROVE  /\ UNCHANGED <<checkpoint, cdi>>
             /\ \A g \in Handlers : pc[g] = "save" => call'[g] = call[g]
  BY <1>3 DEF CallPlugin, disk, logdir, TypeOK
<1>4. CASE \/ \E c \in Claims : Admit(c) \/ Readmit(c) \/ PodsGone(c) \/ WriteLog(c)
           \/ Start \/ Publish \/ KubeletRestart \/ UNCHANGED vars
  <2>1. UNCHANGED <<checkpoint, cdi, call>>
    BY <1>4, StartKeepsCheckpoint
       DEF Admit, Readmit, PodsGone, WriteLog, KubeletRestart, vars, disk, logdir, handlers
  <2> QED
    BY <1>1, <2>1 DEF OwnedSpecs, Claim
<1>5. CASE Crash \/ Reboot
  <2>1. \A h \in Handlers : pc[h] # "save"
    BY <1>1, <1>5 DEF Crash, Reboot, KillProcess
  <2> QED
    BY <1>5, <2>1 DEF OwnedSpecs, Crash, Reboot, EmptyTable, disk, logdir
<1>6. ASSUME UNCHANGED <<checkpoint, cdi>>,
             \A g \in Handlers : pc[g] = "save" => call'[g] = call[g]
      PROVE  OwnedSpecs'
  BY <1>1, <1>6 DEF OwnedSpecs, Claim
<1> QED
  BY <1>2, <1>3, <1>4, <1>5, <1>6 DEF Next

\* Only a Prepare that ends between its writes leaves a spec file without an owner;
\* late calls, failures of any other write, and crashes and reboots at any other
\* time do not (CreateClaimSpecFile and DeleteClaimSpecFile against the checkpoint).
THEOREM SpecsAreOwned == Spec /\ PreparesComplete => []OwnedSpecs
<1>1. Init => OwnedSpecs
  BY DEF Init, OwnedSpecs, EmptyTable
<1>2. TypeOK /\ ClaimInv /\ OwnedSpecs /\ [Next]_vars /\ [SavesComplete]_vars
        => OwnedSpecs'
  <2> SUFFICES ASSUME TypeOK, ClaimInv, OwnedSpecs, [Next]_vars, [SavesComplete]_vars
               PROVE  OwnedSpecs'
    OBVIOUS
  <2>1. SavesComplete
    BY DEF SavesComplete, vars, handlers
  <2>2. CASE \E h \in Handlers : Handle(h) \/ HandleFails(h)
    BY <2>1, <2>2, HandleOwnedSpecs DEF ClaimInv
  <2>3. CASE \A h \in Handlers : ~Handle(h) /\ ~HandleFails(h)
    BY <2>1, <2>3, OtherOwnedSpecs DEF ClaimInv
  <2> QED
    BY <2>2, <2>3
<1> QED
  BY <1>1, <1>2, TypeCorrect, ClaimInvHolds, PTL DEF Spec, PreparesComplete

\* Unprepare undoes what Prepare did, as the helper library demands, unless a Prepare
\* ends between its two writes: late calls of any kind do no harm.
THEOREM UnprepareUndoesCompletePrepare ==
  Spec /\ PreparesComplete => []UnprepareUndoesPrepare
<1>1. OwnedSpecs => UnprepareUndoesPrepare
  BY DEF OwnedSpecs, UnprepareUndoesPrepare
<1> QED
  BY <1>1, SpecsAreOwned, PTL

-----------------------------------------------------------------------------
(* The lock is never left behind.                                          *)

\* The holder of the lock is a handler of a running process with a step to take: the
\* devices of a restored claim are always a valid spec, so Prepare of a checkpointed
\* claim needs no answer to an invalid one.
HolderCanMove ==
  lock # NoHandler =>
    /\ proc = "up" /\ lock \in Handlers
    /\ pc[lock] \in Locked
    /\ pc[lock] = "respec" => ValidSpec(cp[lock][Claim(lock)])

\* No call waits for ever for a mutex that its holder cannot release: the holder can go
\* on to its deferred Unlock (the safety core of DrainingEnds and WantedEnds).
THEOREM HoldersCanMove == Spec => []HolderCanMove
<1>1. TypeOK /\ ClaimInv => HolderCanMove
  <2> SUFFICES ASSUME TypeOK, ClaimInv, lock # NoHandler PROVE HolderCanMove
    BY DEF HolderCanMove
  <2>1. lock \in Handlers /\ pc[lock] \in Locked /\ cp[lock] = checkpoint
    BY DEF TypeOK, ClaimInv, LockInv
  <2>2. proc = "up"
    BY <2>1 DEF ClaimInv, StartedInv, Locked
  <2>3. ASSUME pc[lock] = "respec" PROVE ValidSpec(cp[lock][Claim(lock)])
    <3> DEFINE devices == checkpoint[Claim(lock)]
    <3>1. Claim(lock) \in Claims /\ devices # NotPrepared
      BY <2>1, <2>3, CallType DEF ClaimInv, StepInv
    <3>2. Range(devices) = Chips /\ IsInjective(devices)
      BY <3>1 DEF ClaimInv, EveryTenantHoldsEveryChip
    <3>3. DOMAIN devices # {}
      BY <3>2, ChipsAssumption DEF Range
    <3> QED
      BY <2>1, <3>2, <3>3 DEF ValidSpec
  <2> QED
    BY <2>1, <2>2, <2>3 DEF HolderCanMove
<1> QED
  BY <1>1, TypeCorrect, ClaimInvHolds, PTL
=============================================================================
