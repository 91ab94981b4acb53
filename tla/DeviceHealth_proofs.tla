------------------------- MODULE DeviceHealth_proofs -------------------------
(***************************************************************************)
(* Proofs about DeviceHealth: the type invariant, that neither a           *)
(* publication nor a wakeup is lost, that the checker's copy of the flags  *)
(* follows them and that the shutdown leaves nobody waiting for a          *)
(* goroutine that has gone, for every set of devices and streams.          *)
(***************************************************************************)
EXTENDS DeviceHealth, TLAPS

\* A step of a stream's goroutine, of the bridge or of the kubelet on stream s.
StreamStep(s) == Subscribe(s) \/ Stream(s) \/ BridgeReady(s) \/ Unsubscribe(s)

-----------------------------------------------------------------------------
(* Types.                                                                  *)

\* The checker's steps keep the types.
LEMMA CheckerTypeOK ==
  ASSUME TypeOK,
         \/ Checker
         \/ \E d \in Devices : DeviceChanges(d) \/ StatFails(d)
  PROVE  TypeOK'
<1> USE HealthAssumption DEF TypeOK, Reports, Nothing, checker, state,
        publisher, streams, disk
<1>1. ASSUME NEW d \in Devices, DeviceChanges(d) PROVE TypeOK'
  BY <1>1 DEF DeviceChanges, Flip
<1>2. CASE Tick
  BY <1>2 DEF Tick
<1>3. ASSUME NEW d \in Devices, Probe(d) PROVE TypeOK'
  BY <1>3 DEF Probe, Probed
<1>4. ASSUME NEW d \in Devices, StatFails(d) PROVE TypeOK'
  BY <1>4 DEF StatFails, Probed, Flip
<1>5. CASE UpdateHealth
  BY <1>5 DEF UpdateHealth
<1>6. CASE SendSignal
  BY <1>6 DEF SendSignal
<1>7. CASE EndPass
  BY <1>7 DEF EndPass
<1> QED
  BY <1>1, <1>2, <1>3, <1>4, <1>5, <1>6, <1>7 DEF Checker

\* So do the publisher's steps and those of start-up and shutdown.
LEMMA PublisherTypeOK ==
  ASSUME TypeOK, Publisher \/ Signalled \/ StopChecker \/ HelperStopped
  PROVE  TypeOK'
<1> USE HealthAssumption DEF TypeOK, Reports, Nothing, checker, state,
        publisher, streams, disk
<1>1. CASE HelperStarted
  BY <1>1 DEF HelperStarted
<1>2. CASE Gather
  BY <1>2 DEF Gather
<1>3. CASE Publish
  BY <1>3 DEF Publish
<1>4. CASE Receive
  BY <1>4 DEF Receive
<1>5. CASE PublisherExit
  BY <1>5 DEF PublisherExit
<1>6. CASE Signalled
  BY <1>6 DEF Signalled
<1>7. CASE StopChecker
  BY <1>7 DEF StopChecker
<1>8. CASE HelperStopped
  BY <1>8 DEF HelperStopped
<1> QED
  BY <1>1, <1>2, <1>3, <1>4, <1>5, <1>6, <1>7, <1>8 DEF Publisher

\* And the steps of a stream.
LEMMA StreamTypeOK ==
  ASSUME TypeOK, NEW s \in Streams, StreamStep(s)
  PROVE  TypeOK'
<1> USE HealthAssumption DEF TypeOK, Reports, Nothing, checker, state,
        publisher, streams, disk
<1>1. CASE Subscribe(s)
  BY <1>1 DEF Subscribe
<1>2. CASE BuildReport(s)
  BY <1>2 DEF BuildReport
<1>3. CASE Deliver(s)
  BY <1>3 DEF Deliver
<1>4. CASE BridgeReady(s)
  BY <1>4 DEF BridgeReady
<1>5. CASE Wake(s)
  BY <1>5 DEF Wake
<1>6. CASE Unsubscribe(s)
  BY <1>6 DEF Unsubscribe
<1> QED
  BY <1>1, <1>2, <1>3, <1>4, <1>5, <1>6 DEF StreamStep, Stream

\* Every reachable state is well typed.
THEOREM TypeCorrect == Spec => []TypeOK
<1>1. Init => TypeOK
  <2> SUFFICES ASSUME Init PROVE TypeOK
    OBVIOUS
  <2> USE DEF Init, Reports, Nothing
  <2>1. flips \in 0..MaxFlips
    BY HealthAssumption
  <2>2. /\ spc \in [Streams -> {"off", "build", "send", "wait"}]
        /\ wake \in [Streams -> BOOLEAN] /\ busy \in [Streams -> BOOLEAN]
    OBVIOUS
  <2>3. /\ report \in [Streams -> Reports \cup {Nothing}]
        /\ view \in [Streams -> Reports \cup {Nothing}]
    OBVIOUS
  <2> QED
    BY <2>1, <2>2, <2>3 DEF TypeOK
<1>2. TypeOK /\ [Next]_vars => TypeOK'
  <2> SUFFICES ASSUME TypeOK, [Next]_vars PROVE TypeOK'
    OBVIOUS
  <2>1. CASE UNCHANGED vars
    BY <2>1 DEF TypeOK, Reports, vars, disk, checker, state, publisher, streams
  <2>2. CASE Next
    BY <2>2, CheckerTypeOK, PublisherTypeOK, StreamTypeOK DEF Next, StreamStep
  <2> QED
    BY <2>1, <2>2
<1> QED
  BY <1>1, <1>2, PTL DEF Spec

-----------------------------------------------------------------------------
(* No change of the health flags is left unpublished.                      *)

\* Whenever the publisher rests on, or is about to publish, a slice that does
\* not show the health flags, a signal that makes it gather again is in
\* publishchan or about to be sent.
THEOREM NoChangeIsLost == Spec => []PublishedOrSignalled
<1>1. Init => PublishedOrSignalled
  BY DEF Init, PublishedOrSignalled
<1>2. PublishedOrSignalled /\ [Next]_vars => PublishedOrSignalled'
  <2> SUFFICES ASSUME PublishedOrSignalled, [Next]_vars
               PROVE  PublishedOrSignalled'
    OBVIOUS
  <2> USE DEF PublishedOrSignalled, Outgoing, checker, state, publisher,
              streams, disk
  <2>1. CASE UNCHANGED vars
    BY <2>1 DEF vars
  <2>2. ASSUME NEW d \in Devices, DeviceChanges(d) PROVE PublishedOrSignalled'
    BY <2>2 DEF DeviceChanges
  <2>3. ASSUME NEW d \in Devices, Probe(d) \/ StatFails(d)
        PROVE  PublishedOrSignalled'
    BY <2>3 DEF Probe, StatFails, Probed
  <2>4. CASE Tick \/ EndPass
    BY <2>4 DEF Tick, EndPass
  <2>5. CASE UpdateHealth
    BY <2>5 DEF UpdateHealth
  <2>6. CASE SendSignal
    BY <2>6 DEF SendSignal
  <2>7. CASE Publisher
    BY <2>7 DEF Publisher, HelperStarted, Gather, Publish, Receive,
                PublisherExit
  <2>8. ASSUME NEW s \in Streams, StreamStep(s) PROVE PublishedOrSignalled'
    BY <2>8 DEF StreamStep, Stream, Subscribe, BuildReport, Deliver,
                BridgeReady, Wake, Unsubscribe
  <2>9. CASE Signalled \/ StopChecker \/ HelperStopped
    BY <2>9 DEF Signalled, StopChecker, HelperStopped
  <2> QED
    BY <2>1, <2>2, <2>3, <2>4, <2>5, <2>6, <2>7, <2>8, <2>9
       DEF Next, Checker, StreamStep
<1> QED
  BY <1>1, <1>2, PTL DEF Spec

-----------------------------------------------------------------------------
(* No wakeup of a stream is lost.                                          *)

\* A step of stream t keeps the promise made to every stream: one that builds
\* takes the flags as they are, and the others carry what they had.
LEMMA StreamKeepsWakeup ==
  ASSUME TypeOK, NoLostWakeup, NEW t \in Streams, StreamStep(t)
  PROVE  NoLostWakeup'
<1> SUFFICES ASSUME NEW s \in Streams,
                    spc'[s] \in {"send", "wait"}, ~wake'[s], cpc' = "select"
             PROVE  Latest(s)' = healthy'
  BY DEF NoLostWakeup
<1> USE DEF TypeOK, NoLostWakeup, Latest, checker, state, publisher, streams,
            disk
<1>1. CASE Subscribe(t)
  BY <1>1 DEF Subscribe
<1>2. CASE BuildReport(t)
  BY <1>2 DEF BuildReport
<1>3. CASE Deliver(t)
  BY <1>3 DEF Deliver
<1>4. CASE BridgeReady(t)
  BY <1>4 DEF BridgeReady
<1>5. CASE Wake(t)
  BY <1>5 DEF Wake
<1>6. CASE Unsubscribe(t)
  BY <1>6 DEF Unsubscribe
<1> QED
  BY <1>1, <1>2, <1>3, <1>4, <1>5, <1>6 DEF StreamStep, Stream

\* Between two probing passes, a stream with no notification pending carries, or
\* has delivered, the health flags as they are.
THEOREM NoWakeupIsLost == Spec => []NoLostWakeup
<1>1. Init => NoLostWakeup
  BY DEF Init, NoLostWakeup
<1>2. TypeOK /\ NoLostWakeup /\ [Next]_vars => NoLostWakeup'
  <2> SUFFICES ASSUME TypeOK, NoLostWakeup, [Next]_vars PROVE NoLostWakeup'
    OBVIOUS
  <2> USE DEF NoLostWakeup, Latest, checker, state, publisher, streams, disk
  <2>1. CASE UNCHANGED vars
    BY <2>1 DEF vars
  <2>2. ASSUME NEW d \in Devices, DeviceChanges(d) PROVE NoLostWakeup'
    BY <2>2 DEF DeviceChanges
  <2>3. ASSUME NEW d \in Devices, Probe(d) \/ StatFails(d) PROVE NoLostWakeup'
    BY <2>3 DEF Probe, StatFails, Probed
  <2>4. CASE Tick \/ UpdateHealth \/ SendSignal
    BY <2>4 DEF Tick, UpdateHealth, SendSignal
  <2>5. CASE EndPass
    BY <2>5 DEF EndPass, Subscribers, TypeOK
  <2>6. CASE Publisher
    BY <2>6 DEF Publisher, HelperStarted, Gather, Publish, Receive,
                PublisherExit
  <2>7. ASSUME NEW s \in Streams, StreamStep(s) PROVE NoLostWakeup'
    BY <2>7, StreamKeepsWakeup
  <2>8. CASE Signalled \/ StopChecker \/ HelperStopped
    BY <2>8 DEF Signalled, StopChecker, HelperStopped
  <2> QED
    BY <2>1, <2>2, <2>3, <2>4, <2>5, <2>6, <2>7, <2>8
       DEF Next, Checker, StreamStep
<1> QED
  BY <1>1, <1>2, TypeCorrect, PTL DEF Spec

-----------------------------------------------------------------------------
(* The checker's copy of the flags.                                        *)

\* A change is in the checker's own copy before it is in the flags, for one device
\* at a time.
THEOREM CopyFollowsFlags == Spec => []CopyMatchesFlags
<1>1. Init => CopyMatchesFlags
  BY DEF Init, CopyMatchesFlags
<1>2. CopyMatchesFlags /\ [Next]_vars => CopyMatchesFlags'
  <2> SUFFICES ASSUME CopyMatchesFlags, [Next]_vars PROVE CopyMatchesFlags'
    OBVIOUS
  <2> USE DEF CopyMatchesFlags, checker, state, publisher, streams, disk
  <2>1. CASE UNCHANGED vars
    BY <2>1 DEF vars
  <2>2. ASSUME NEW d \in Devices, DeviceChanges(d) PROVE CopyMatchesFlags'
    BY <2>2 DEF DeviceChanges
  <2>3. ASSUME NEW d \in Devices, Probe(d) \/ StatFails(d) PROVE CopyMatchesFlags'
    BY <2>3 DEF Probe, StatFails, Probed
  <2>4. CASE Tick \/ SendSignal \/ EndPass
    BY <2>4 DEF Tick, SendSignal, EndPass
  <2>5. CASE UpdateHealth
    BY <2>5 DEF UpdateHealth
  <2>6. CASE Publisher
    BY <2>6 DEF Publisher, HelperStarted, Gather, Publish, Receive,
                PublisherExit
  <2>7. ASSUME NEW s \in Streams, StreamStep(s) PROVE CopyMatchesFlags'
    BY <2>7 DEF StreamStep, Stream, Subscribe, BuildReport, Deliver,
                BridgeReady, Wake, Unsubscribe
  <2>8. CASE Signalled \/ StopChecker \/ HelperStopped
    BY <2>8 DEF Signalled, StopChecker, HelperStopped
  <2> QED
    BY <2>1, <2>2, <2>3, <2>4, <2>5, <2>6, <2>7, <2>8
       DEF Next, Checker, StreamStep
<1> QED
  BY <1>1, <1>2, PTL DEF Spec

-----------------------------------------------------------------------------
(* The order of the shutdown.                                              *)

\* The publisher goes after the context is cancelled, the context is cancelled after
\* the streams have ended, and they end after the checker has stopped; the checker
\* stops for nobody but Stop, which runs after NewDriver.
ShutdownOrder ==
  /\ main \in {"helper", "cancelled"} <=> cpc = "stopped"
  /\ main = "cancelled" => Subscribers = {}
  /\ main # "newdriver" => ppc # "helper"
  /\ ppc = "exited" => main = "cancelled"

\* The shutdown keeps its order.
LEMMA ShutdownOrderHolds == Spec => []ShutdownOrder
<1>1. Init => ShutdownOrder
  BY DEF Init, ShutdownOrder
<1>2. TypeOK /\ ShutdownOrder /\ [Next]_vars => ShutdownOrder'
  <2> SUFFICES ASSUME TypeOK, ShutdownOrder, [Next]_vars PROVE ShutdownOrder'
    OBVIOUS
  <2> USE DEF ShutdownOrder, Subscribers, checker, state, publisher, streams, disk
  <2>1. CASE UNCHANGED vars
    BY <2>1 DEF vars
  <2>2. ASSUME NEW d \in Devices, DeviceChanges(d) \/ Probe(d) \/ StatFails(d)
        PROVE  ShutdownOrder'
    BY <2>2 DEF DeviceChanges, Probe, StatFails, Probed
  <2>3. CASE Tick \/ UpdateHealth \/ SendSignal \/ EndPass
    BY <2>3 DEF Tick, UpdateHealth, SendSignal, EndPass
  <2>4. CASE Publisher
    BY <2>4 DEF Publisher, HelperStarted, Gather, Publish, Receive,
                PublisherExit
  <2>5. ASSUME NEW s \in Streams, StreamStep(s) PROVE ShutdownOrder'
    <3>1. CASE Subscribe(s)
      BY <2>5, <3>1 DEF Subscribe
    <3>2. CASE ~Subscribe(s)
      <4>1. /\ UNCHANGED <<cpc, ppc, main>>
            /\ spc[s] # "off" \/ UNCHANGED spc
        BY <2>5, <3>2 DEF StreamStep, Stream, BuildReport, Deliver, BridgeReady,
                          Wake, Unsubscribe
      <4>2. main = "cancelled" => spc[s] = "off"
        OBVIOUS
      <4> QED
        BY <4>1, <4>2
    <3> QED
      BY <3>1, <3>2
  <2>6. CASE Signalled \/ StopChecker \/ HelperStopped
    BY <2>6 DEF Signalled, StopChecker, HelperStopped
  <2> QED
    BY <2>1, <2>2, <2>3, <2>4, <2>5, <2>6 DEF Next, Checker, StreamStep
<1> QED
  BY <1>1, <1>2, TypeCorrect, PTL DEF Spec

\* A checker that blocks on publishchan still has a receiver.
THEOREM SendersAreReceived == Spec => []SenderHasReceiver
<1>1. ShutdownOrder => SenderHasReceiver
  BY DEF ShutdownOrder, SenderHasReceiver
<1> QED
  BY <1>1, ShutdownOrderHolds, PTL

\* Once the shutdown has begun, the goroutine it waits for can go on, or waits for
\* one that can: Stop waits for the checker to come to its select, and the checker,
\* when publishchan is full, for the publisher, which has yet to gather, to publish or
\* to take the signal.  The context is cancelled for the publisher alone, with no
\* stream and no checker left.
ShutdownCanMove ==
  /\ main = "stopping" =>
       /\ cpc \in {"select", "probe", "update", "send"}
       /\ cpc = "send" /\ signal => ppc \in {"gather", "publish", "wait"}
  /\ main = "helper" => cpc = "stopped"
  /\ main = "cancelled" =>
       /\ cpc = "stopped" /\ Subscribers = {}
       /\ ppc \in {"gather", "publish", "wait", "exited"}

\* The shutdown is never stuck: the order of Stop, pluginHelper.Stop and cancel
\* leaves no goroutine waiting for one that has gone (the safety core of
\* ShutdownCompletes).
THEOREM ShutdownIsNeverStuck == Spec => []ShutdownCanMove
<1>1. TypeOK /\ ShutdownOrder => ShutdownCanMove
  BY DEF TypeOK, ShutdownOrder, ShutdownCanMove, Subscribers
<1> QED
  BY <1>1, TypeCorrect, ShutdownOrderHolds, PTL

-----------------------------------------------------------------------------
(* Streams.                                                                *)

\* A stream that waits to send holds a report.
HoldsReport == \A s \in Streams : spc[s] = "send" => report[s] # Nothing

\* Streams keep holding one.
LEMMA HoldsReportHolds == Spec => []HoldsReport
<1>1. Init => HoldsReport
  BY DEF Init, HoldsReport
<1>2. TypeOK /\ HoldsReport /\ [Next]_vars => HoldsReport'
  <2> SUFFICES ASSUME TypeOK, HoldsReport, [Next]_vars PROVE HoldsReport'
    OBVIOUS
  <2>1. CASE UNCHANGED streams
    BY <2>1 DEF streams, HoldsReport
  <2>2. CASE EndPass
    BY <2>2 DEF EndPass, HoldsReport
  <2>3. ASSUME NEW s \in Streams, StreamStep(s) PROVE HoldsReport'
    <3> healthy # Nothing
      BY HealthAssumption DEF TypeOK, Reports, Nothing
    <3> QED
      BY <2>3 DEF StreamStep, Stream, Subscribe, BuildReport, Deliver,
                  BridgeReady, Wake, Unsubscribe, TypeOK, HoldsReport
  <2>4. CASE ~EndPass /\ ~\E s \in Streams : StreamStep(s)
    BY <2>1, <2>4 DEF Next, Checker, Publisher, StreamStep, vars, DeviceChanges, Tick,
       Probe, StatFails, Probed, UpdateHealth, SendSignal, HelperStarted, Gather,
       Publish, Receive, PublisherExit, Signalled, StopChecker, HelperStopped
  <2> QED
    BY <2>2, <2>3, <2>4
<1> QED
  BY <1>1, <1>2, TypeCorrect, PTL DEF Spec

\* What stream s does, or does not, in a step of another goroutine.
LEMMA ChecksAreStreamSteps ==
  ASSUME TypeOK, NEW s \in Streams,
         Checker \/ StopChecker \/ \E d \in Devices : StatFails(d)
  PROVE  StreamOf(s)!Next \/ UNCHANGED StreamOf(s)!vars
<1> USE DEF checker, state, publisher, streams, disk, StreamOf!vars, Due
<1>1. CASE Tick
  BY <1>1 DEF Tick, StreamOf!Next, StreamOf!BeginPass
<1>2. ASSUME NEW d \in Devices, Probe(d) \/ StatFails(d)
      PROVE  UNCHANGED StreamOf(s)!vars
  BY <1>2 DEF Probe, StatFails, Probed
<1>3. CASE UpdateHealth
  <2>1. cur \in Devices
    BY <1>3 DEF UpdateHealth, TypeOK
  <2>2. healthy' = healthy \/ StreamOf(s)!Change(cur)
    BY <1>3 DEF UpdateHealth, StreamOf!Change
  <2>3. healthy' = healthy => UNCHANGED StreamOf(s)!vars
    BY <1>3 DEF UpdateHealth
  <2> QED
    BY <2>1, <2>2, <2>3 DEF StreamOf!Next
<1>4. CASE SendSignal
  BY <1>4 DEF SendSignal
<1>5. CASE EndPass
  <2>1. /\ cpc = "probe" /\ cpc' = "select"
        /\ UNCHANGED <<healthy, spc, report, view>>
    BY <1>5 DEF EndPass
  <2>2. wake'[s] = (wake[s] \/ spc[s] # "off")
    BY <1>5 DEF EndPass, Subscribers
  <2>3. CASE spc[s] = "off"
    BY <2>1, <2>2, <2>3 DEF StreamOf!Next, StreamOf!EndPass, TypeOK
  <2>4. CASE spc[s] # "off"
    <3>1. wake'[s]
      BY <2>2, <2>4
    <3>2. Due(s)' \in {Due(s), Due(s) + 1} \ {0}
      BY <2>1, <3>1
    <3> QED
      BY <2>1, <2>4, <3>2 DEF StreamOf!Next, StreamOf!EndPass
  <2> QED
    BY <2>3, <2>4
<1>6. CASE StopChecker
  BY <1>6 DEF StopChecker
<1> QED
  BY <1>1, <1>2, <1>3, <1>4, <1>5, <1>6 DEF Checker

\* The steps of stream s are its steps as the kubelet sees it, and those of another
\* stream are none.
LEMMA StreamsAreStreamSteps ==
  ASSUME TypeOK, HoldsReport, NEW s \in Streams, NEW t \in Streams, StreamStep(t)
  PROVE  StreamOf(s)!Next \/ UNCHANGED StreamOf(s)!vars
<1> USE DEF checker, state, publisher, disk, StreamOf!vars, Due, TypeOK
<1>1. CASE s # t
  BY <1>1 DEF StreamStep, Stream, Subscribe, BuildReport, Deliver, BridgeReady, Wake,
              Unsubscribe
<1>2. CASE s = t
  <2>1. CASE Subscribe(t)
    BY <1>2, <2>1 DEF Subscribe, StreamOf!Next, StreamOf!Open
  <2>2. CASE BuildReport(t)
    BY <1>2, <2>2 DEF BuildReport, StreamOf!Next, StreamOf!Take
  <2>3. CASE Deliver(t)
    BY <1>2, <2>3 DEF Deliver, HoldsReport, StreamOf!Next, StreamOf!Send
  <2>4. CASE BridgeReady(t) \/ Wake(t)
    BY <1>2, <2>4 DEF BridgeReady, Wake
  <2>5. CASE Unsubscribe(t)
    BY <1>2, <2>5 DEF Unsubscribe, StreamOf!Next, StreamOf!Close
  <2> QED
    BY <2>1, <2>2, <2>3, <2>4, <2>5 DEF StreamStep, Stream
<1> QED
  BY <1>1, <1>2

\* Every stream keeps the promises of HealthStream: each report after the first is
\* the evidence of a probing pass, and no pass goes unreported.
THEOREM StreamsKeepTheirPromise == Spec => ImplementsStreams
<1>1. Init => \A s \in Streams : StreamOf(s)!Init
  BY DEF Init, StreamOf!Init, Due
<1>2. TypeOK /\ HoldsReport /\ [Next]_vars =>
        [\A s \in Streams : StreamOf(s)!Next \/ UNCHANGED StreamOf(s)!vars]_vars
  <2> SUFFICES ASSUME TypeOK, HoldsReport, Next, NEW s \in Streams
               PROVE  StreamOf(s)!Next \/ UNCHANGED StreamOf(s)!vars
    OBVIOUS
  <2>1. CASE Checker \/ StopChecker \/ \E d \in Devices : StatFails(d)
    BY <2>1, ChecksAreStreamSteps
  <2>2. ASSUME NEW t \in Streams, StreamStep(t)
        PROVE  StreamOf(s)!Next \/ UNCHANGED StreamOf(s)!vars
    BY <2>2, StreamsAreStreamSteps
  <2>3. CASE Publisher \/ Signalled \/ HelperStopped \/ \E d \in Devices : DeviceChanges(d)
    BY <2>3 DEF Publisher, HelperStarted, Gather, Publish, Receive, PublisherExit,
       Signalled, HelperStopped, DeviceChanges, checker, state, streams, StreamOf!vars, Due
  <2> QED
    BY <2>1, <2>2, <2>3 DEF Next, StreamStep
<1> QED
  BY <1>1, <1>2, TypeCorrect, HoldsReportHolds, PTL DEF Spec, ImplementsStreams
-----------------------------------------------------------------------------
(* Reports that wait for the bridge.                                       *)

\* No probing pass completes while a stream holds a report that it has built and
\* the bridge has not taken.
NoPassOvertakes ==
  [][cpc = "probe" /\ cpc' = "select" => \A s \in Streams : spc[s] # "send"]_vars

\* Between two passes, a report that waits shows the flags as they are.
WaitingReportIsFresh ==
  \A s \in Streams : spc[s] = "send" /\ cpc = "select" => report[s] = healthy

\* That the report is built before the channel send is all that separates the code
\* from the comment of broadcast: when no pass completes while a report waits for
\* the bridge, each report that leaves shows the outcome of the last pass.
THEOREM ReportsAreFreshUnlessOvertaken == Spec /\ NoPassOvertakes => FreshAtSend
<1> DEFINE Kept == cpc = "probe" /\ cpc' = "select"
                     => \A s \in Streams : spc[s] # "send"
           Fresh == \A s \in Streams :
                      /\ spc[s] = "send" /\ spc'[s] = "wait"
                      /\ view[s] # Nothing /\ wake[s] /\ cpc = "select"
                      => view'[s] = healthy
<1>1. Init => WaitingReportIsFresh
  BY DEF Init, WaitingReportIsFresh
<1>2. TypeOK /\ WaitingReportIsFresh /\ [Next]_vars /\ [Kept]_vars
        => WaitingReportIsFresh'
  <2> SUFFICES ASSUME TypeOK, WaitingReportIsFresh, [Next]_vars, [Kept]_vars,
                      NEW s \in Streams, spc'[s] = "send", cpc' = "select"
               PROVE  report'[s] = healthy'
    BY DEF WaitingReportIsFresh
  <2> USE DEF WaitingReportIsFresh, checker, state, publisher, streams, disk
  <2>1. CASE UNCHANGED vars
    BY <2>1 DEF vars
  <2>2. CASE EndPass
    <3>1. Kept
      BY <2>2 DEF EndPass, vars, checker
    <3> QED
      BY <2>2, <3>1 DEF EndPass
  <2>3. ASSUME NEW d \in Devices, DeviceChanges(d) \/ Probe(d) \/ StatFails(d)
        PROVE  report'[s] = healthy'
    BY <2>3 DEF DeviceChanges, Probe, StatFails, Probed
  <2>4. CASE Tick \/ UpdateHealth \/ SendSignal
    BY <2>4 DEF Tick, UpdateHealth, SendSignal
  <2>5. CASE Publisher
    BY <2>5 DEF Publisher, HelperStarted, Gather, Publish, Receive,
                PublisherExit
  <2>6. ASSUME NEW t \in Streams, StreamStep(t) PROVE report'[s] = healthy'
    BY <2>6 DEF StreamStep, Stream, Subscribe, BuildReport, Deliver,
                BridgeReady, Wake, Unsubscribe, TypeOK
  <2>7. CASE Signalled \/ StopChecker \/ HelperStopped
    BY <2>7 DEF Signalled, StopChecker, HelperStopped
  <2> QED
    BY <2>1, <2>2, <2>3, <2>4, <2>5, <2>6, <2>7 DEF Next, Checker, StreamStep
<1>3. TypeOK /\ WaitingReportIsFresh /\ [Next]_vars => [Fresh]_vars
  <2> SUFFICES ASSUME TypeOK, WaitingReportIsFresh, Next, NEW s \in Streams,
                      spc[s] = "send", spc'[s] = "wait", cpc = "select"
               PROVE  view'[s] = healthy
    OBVIOUS
  <2>1. view'[s] = report[s]
    BY DEF Next, Checker, Publisher, Stream, DeviceChanges, Tick, Probe, StatFails, Probed,
       UpdateHealth, SendSignal, EndPass, HelperStarted, Gather, Publish, Receive,
       PublisherExit, Subscribe, BuildReport, Deliver, BridgeReady, Wake, Unsubscribe,
       Signalled, StopChecker, HelperStopped, checker, state, publisher, streams, disk,
       TypeOK
  <2> QED
    BY <2>1 DEF WaitingReportIsFresh
<1> QED
  BY <1>1, <1>2, <1>3, TypeCorrect, PTL DEF Spec, NoPassOvertakes, FreshAtSend
=============================================================================
