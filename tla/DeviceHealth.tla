---------------------------- MODULE DeviceHealth ----------------------------
(***************************************************************************)
(* Device health of the kubelet plugin: the goroutine that probes the      *)
(* device files, the goroutine that republishes the ResourceSlice, one     *)
(* WatchHealthStatus call per kubelet stream, and the start and the stop   *)
(* of the driver around them.                                              *)
(*                                                                         *)
(* The goroutines share DeviceState's health flags, the channel            *)
(* publishchan (capacity one, blocking send), one channel per stream       *)
(* (capacity one, the send is dropped when it is full) and the unbuffered  *)
(* channels stop and reports.  Every critical section is one step.         *)
(***************************************************************************)
EXTENDS Naturals

CONSTANTS
  Devices,   \* the enumerated TPU devices
  Streams,   \* health streams the kubelet may open
  NoDevice,  \* a value that is not a device
  MaxFlips   \* bound on changes of the device files and on failing Stats

VARIABLES
  dev,       \* device files that exist
  flips,     \* changes and failing Stats so far
  \* TPUHealthChecker.monitorDevDir
  cpc,       \* its next step
  todo,      \* devices left in this probing pass
  cur,       \* the device whose change is being reported
  known,     \* devices its own copy marks as allocatable
  \* DeviceState
  healthy,   \* devices marked as allocatable
  signal,    \* is publishchan full?
  \* GatherStateAndPublish, called by NewDriver and then by republishSlice
  ppc,       \* its next step
  snap,      \* the devices it has gathered
  published, \* the devices of the last published ResourceSlice
  \* StartPlugin
  main,      \* its phase
  \* WatchHealthStatus and the helper's bridge, per stream
  spc,       \* its next step
  wake,      \* is its notification channel full?
  report,    \* the report it holds
  busy,      \* is the bridge still sending the previous report?
  view       \* the last report the kubelet has got on it

disk == <<dev, flips>>
checker == <<cpc, todo, cur, known>>
state == <<healthy, signal>>
publisher == <<ppc, snap, published>>
streams == <<spc, wake, report, busy, view>>
vars == <<disk, checker, state, publisher, main, streams>>

ASSUME HealthAssumption == NoDevice \notin Devices /\ MaxFlips \in Nat

\* A slice and a health report are known by the healthy devices they show.
Reports == SUBSET Devices

\* Not yet: no slice published, no report received.
Nothing == {NoDevice}

\* Type invariant: health data are sets of devices, and a step is one of the
\* goroutine's own.
TypeOK ==
  /\ dev \in Reports /\ flips \in 0..MaxFlips
  /\ cpc \in {"select", "probe", "update", "send", "stopped"}
  /\ todo \in Reports /\ cur \in Devices \cup {NoDevice} /\ known \in Reports
  /\ cpc \in {"update", "send"} => cur \in Devices
  /\ healthy \in Reports /\ signal \in BOOLEAN
  /\ ppc \in {"helper", "gather", "publish", "wait", "exited"}
  /\ snap \in Reports /\ published \in Reports \cup {Nothing}
  /\ main \in {"newdriver", "running", "stopping", "helper", "cancelled"}
  /\ spc \in [Streams -> {"off", "build", "send", "wait"}]
  /\ wake \in [Streams -> BOOLEAN] /\ busy \in [Streams -> BOOLEAN]
  /\ report \in [Streams -> Reports \cup {Nothing}]
  /\ view \in [Streams -> Reports \cup {Nothing}]

\* NewDriver has enumerated the devices and started the health checker.
Init ==
  /\ dev = Devices /\ flips = 0
  /\ cpc = "select" /\ todo = {} /\ cur = NoDevice /\ known = Devices
  /\ healthy = Devices /\ signal = FALSE
  /\ ppc = "helper" /\ snap = {} /\ published = Nothing
  /\ main = "newdriver"
  /\ spc = [s \in Streams |-> "off"]
  /\ wake = [s \in Streams |-> FALSE]
  /\ report = [s \in Streams |-> Nothing]
  /\ busy = [s \in Streams |-> FALSE]
  /\ view = [s \in Streams |-> Nothing]

Flip == flips < MaxFlips /\ flips' = flips + 1

-----------------------------------------------------------------------------
(* The device files.                                                       *)

\* A device file disappears or comes back.
DeviceChanges(d) ==
  /\ dev' = IF d \in dev THEN dev \ {d} ELSE dev \cup {d}
  /\ Flip
  /\ UNCHANGED <<checker, state, publisher, main, streams>>

-----------------------------------------------------------------------------
(* The health checker.                                                     *)

\* The ticker fires: a probing pass over all devices begins.
Tick ==
  /\ cpc = "select"
  /\ cpc' = "probe" /\ todo' = Devices
  /\ UNCHANGED <<disk, cur, known, state, publisher, main, streams>>

\* Mutant of Probed: the device whose change was seen is not remembered.
ProbedForgets(d, exists) ==
  /\ todo' = todo \ {d}
  /\ IF exists = (d \in known)
       THEN UNCHANGED <<cpc, cur, known>>
       ELSE /\ known' = IF exists THEN known \cup {d} ELSE known \ {d}
            /\ cur' = NoDevice
            /\ cpc' = "update"
  /\ UNCHANGED <<dev, state, publisher, main, streams>>

\* The outcome of probing d: nothing to do, or the checker's own copy changes
\* and UpdateHealth is called.
Probed(d, exists) ==
  /\ todo' = todo \ {d}
  /\ IF exists = (d \in known)
       THEN UNCHANGED <<cpc, cur, known>>
       ELSE /\ known' = IF exists THEN known \cup {d} ELSE known \ {d}
            /\ cur' = d
            /\ cpc' = "update"
  /\ UNCHANGED <<dev, state, publisher, main, streams>>

Probe(d) ==
  /\ cpc = "probe" /\ d \in todo
  /\ Probed(d, d \in dev)
  /\ UNCHANGED flips

\* Any other Stat error counts as a missing device.
StatFails(d) ==
  /\ cpc = "probe" /\ d \in todo
  /\ Probed(d, FALSE)
  /\ Flip

\* Mutant of UpdateHealth: a recovery is not announced.
AnnounceLosses ==
  /\ cpc = "update"
  /\ healthy' = IF cur \in known THEN healthy \cup {cur} ELSE healthy \ {cur}
  /\ cpc' = IF cur \notin known THEN "send" ELSE "probe"
  /\ UNCHANGED <<disk, todo, cur, known, signal, publisher, main, streams>>

\* Mutant of UpdateHealth: a device that comes back stays unhealthy.
IgnoreRecoveries ==
  /\ cpc = "update"
  /\ healthy' = healthy \ {cur}
  /\ cpc' = IF healthy' # healthy THEN "send" ELSE "probe"
  /\ UNCHANGED <<disk, todo, cur, known, signal, publisher, main, streams>>

\* The critical section of UpdateHealth.  A change is announced after Unlock.
UpdateHealth ==
  /\ cpc = "update"
  /\ healthy' = IF cur \in known THEN healthy \cup {cur} ELSE healthy \ {cur}
  /\ cpc' = IF healthy' # healthy THEN "send" ELSE "probe"
  /\ UNCHANGED <<disk, todo, cur, known, signal, publisher, main, streams>>

\* publishchan <- true blocks while the channel is full.
SendSignal ==
  /\ cpc = "send" /\ ~signal
  /\ signal' = TRUE
  /\ cpc' = "probe"
  /\ UNCHANGED <<disk, todo, cur, known, healthy, publisher, main, streams>>

\* Mutant of Subscribers: a stream is woken only while it waits for it.
WaitingSubscribers == {s \in Streams : spc[s] = "wait"}

\* The streams that are subscribed.
Subscribers == {s \in Streams : spc[s] # "off"}

\* Mutant of EndPass: only the streams whose report has changed are woken.
EndPassIfChanged ==
  /\ cpc = "probe" /\ todo = {}
  /\ wake' = [s \in Streams |-> wake[s] \/ (s \in Subscribers /\ view[s] # healthy)]
  /\ cpc' = "select"
  /\ UNCHANGED <<disk, todo, cur, known, state, publisher, main, spc, report,
                 busy, view>>

\* The end of a pass: broadcast wakes every subscriber; a full channel drops
\* the notification.
EndPass ==
  /\ cpc = "probe" /\ todo = {}
  /\ wake' = [s \in Streams |-> wake[s] \/ s \in Subscribers]
  /\ cpc' = "select"
  /\ UNCHANGED <<disk, todo, cur, known, state, publisher, main, spc, report,
                 busy, view>>

-----------------------------------------------------------------------------
(* Publishing the ResourceSlice.                                           *)

\* kubeletplugin.Start returns; streams may come in from now on.
HelperStarted ==
  /\ ppc = "helper"
  /\ ppc' = "gather"
  /\ UNCHANGED <<disk, checker, state, snap, published, main, streams>>

\* Mutant of Gather: the devices gathered first are published again.
GatherOnce ==
  /\ ppc = "gather"
  /\ snap' = IF published = Nothing THEN healthy ELSE snap
  /\ ppc' = "publish"
  /\ UNCHANGED <<disk, checker, state, published, main, streams>>

\* The critical section of GatherStateAndPublish.
Gather ==
  /\ ppc = "gather"
  /\ snap' = healthy
  /\ ppc' = "publish"
  /\ UNCHANGED <<disk, checker, state, published, main, streams>>

\* PublishResources.  The first one ends NewDriver, which then starts
\* republishSlice.
Publish ==
  /\ ppc = "publish"
  /\ published' = snap
  /\ ppc' = "wait"
  /\ main' = IF main = "newdriver" THEN "running" ELSE main
  /\ UNCHANGED <<disk, checker, state, snap, streams>>

\* republishSlice takes a signal.
Receive ==
  /\ ppc = "wait" /\ signal
  /\ signal' = FALSE
  /\ ppc' = "gather"
  /\ UNCHANGED <<disk, checker, healthy, snap, published, main, streams>>

\* Mutant of PublisherExit: the context is cancelled before Shutdown.
CancelledFirst ==
  /\ ppc = "wait" /\ main \in {"stopping", "helper", "cancelled"}
  /\ ppc' = "exited"
  /\ UNCHANGED <<disk, checker, state, snap, published, main, streams>>

\* republishSlice sees its context cancelled.
PublisherExit ==
  /\ ppc = "wait" /\ main = "cancelled"
  /\ ppc' = "exited"
  /\ UNCHANGED <<disk, checker, state, snap, published, main, streams>>

-----------------------------------------------------------------------------
(* Health streams.                                                         *)

\* The kubelet opens a stream: WatchHealthStatus subscribes first.
Subscribe(s) ==
  /\ spc[s] = "off" /\ ppc # "helper"
  /\ main \in {"newdriver", "running", "stopping"}
  /\ spc' = [spc EXCEPT ![s] = "build"]
  /\ wake' = [wake EXCEPT ![s] = FALSE]
  /\ busy' = [busy EXCEPT ![s] = FALSE]
  /\ UNCHANGED <<disk, checker, state, publisher, main, report, view>>

\* buildReport, the operand of the send: Go evaluates it when the select
\* statement is entered, before the send can proceed.
BuildReport(s) ==
  /\ spc[s] = "build"
  /\ report' = [report EXCEPT ![s] = healthy]
  /\ spc' = [spc EXCEPT ![s] = "send"]
  /\ UNCHANGED <<disk, checker, state, publisher, main, wake, busy, view>>

\* The bridge takes the report from the unbuffered channel and passes it on.
Deliver(s) ==
  /\ spc[s] = "send" /\ ~busy[s]
  /\ view' = [view EXCEPT ![s] = report[s]]
  /\ busy' = [busy EXCEPT ![s] = TRUE]
  /\ report' = [report EXCEPT ![s] = Nothing]
  /\ spc' = [spc EXCEPT ![s] = "wait"]
  /\ UNCHANGED <<disk, checker, state, publisher, main, wake>>

\* The bridge's stream.Send returns.
BridgeReady(s) ==
  /\ busy[s]
  /\ busy' = [busy EXCEPT ![s] = FALSE]
  /\ UNCHANGED <<disk, checker, state, publisher, main, spc, wake, report, view>>

\* Mutant of Wake: reports are repeated without a notification.
Resend(s) ==
  /\ spc[s] = "wait"
  /\ wake' = [wake EXCEPT ![s] = FALSE]
  /\ spc' = [spc EXCEPT ![s] = "build"]
  /\ UNCHANGED <<disk, checker, state, publisher, main, report, busy, view>>

\* A notification is taken and a new report is due.
Wake(s) ==
  /\ spc[s] = "wait" /\ wake[s]
  /\ wake' = [wake EXCEPT ![s] = FALSE]
  /\ spc' = [spc EXCEPT ![s] = "build"]
  /\ UNCHANGED <<disk, checker, state, publisher, main, report, busy, view>>

\* The stream's context is done: the call unsubscribes and returns.
Unsubscribe(s) ==
  /\ spc[s] \in {"send", "wait"}
  /\ spc' = [spc EXCEPT ![s] = "off"]
  /\ wake' = [wake EXCEPT ![s] = FALSE]
  /\ report' = [report EXCEPT ![s] = Nothing]
  /\ busy' = [busy EXCEPT ![s] = FALSE]
  /\ view' = [view EXCEPT ![s] = Nothing]
  /\ UNCHANGED <<disk, checker, state, publisher, main>>

-----------------------------------------------------------------------------
(* Shutdown.                                                               *)

\* A termination signal ends <-sigc, and the deferred Shutdown calls Stop.
Signalled ==
  /\ main = "running"
  /\ main' = "stopping"
  /\ UNCHANGED <<disk, checker, state, publisher, streams>>

\* Stop: the unbuffered send meets the checker's select, which closes stop.
StopChecker ==
  /\ main = "stopping" /\ cpc = "select"
  /\ cpc' = "stopped"
  /\ main' = "helper"
  /\ UNCHANGED <<disk, todo, cur, known, state, publisher, streams>>

\* pluginHelper.Stop ends every stream and waits for the handlers; then the
\* context is cancelled.
HelperStopped ==
  /\ main = "helper" /\ Subscribers = {}
  /\ main' = "cancelled"
  /\ UNCHANGED <<disk, checker, state, publisher, streams>>

-----------------------------------------------------------------------------
Checker ==
  \/ Tick \/ UpdateHealth \/ SendSignal \/ EndPass
  \/ \E d \in Devices : Probe(d)

Publisher == HelperStarted \/ Gather \/ Publish \/ Receive \/ PublisherExit

Stream(s) == BuildReport(s) \/ Deliver(s) \/ Wake(s)

Next ==
  \/ \E d \in Devices : DeviceChanges(d) \/ StatFails(d)
  \/ Checker
  \/ Publisher
  \/ \E s \in Streams : Subscribe(s) \/ Stream(s) \/ BridgeReady(s) \/ Unsubscribe(s)
  \/ Signalled \/ StopChecker \/ HelperStopped

Spec == Init /\ [][Next]_vars

\* Goroutines are scheduled, the ticker keeps firing, stream.Send returns, and a
\* select that finds both stop and the ticker ready infinitely often takes stop.
\* Device changes, subscriptions and signals are not fair.
Fairness ==
  /\ WF_vars(Checker) /\ WF_vars(Publisher)
  /\ SF_vars(StopChecker) /\ WF_vars(HelperStopped)
  /\ \A s \in Streams :
       /\ WF_vars(Stream(s)) /\ WF_vars(BridgeReady(s))
       /\ WF_vars(main = "helper" /\ Unsubscribe(s))

FairSpec == Spec /\ Fairness

-----------------------------------------------------------------------------
(* Properties.                                                             *)

\* What the publisher has gathered for its next publication, or published last.
Outgoing == IF ppc = "publish" THEN snap ELSE published

\* No lost update: when the slice that is published, or about to be, does not
\* show the current health flags, a signal is in publishchan or on its way to
\* it, so another publication will follow (UpdateHealth, GatherStateAndPublish
\* and the order of start-up in NewDriver).
PublishedOrSignalled ==
  ppc \in {"publish", "wait"} =>
    Outgoing = healthy \/ signal \/ cpc = "send"

\* The checker compares with its own copy of the flags and DeviceState with the
\* flags themselves: the two may differ in the device that is being reported and in
\* no other, or a change would never be reported again (NewTPUHealthChecker copies
\* the map, probe writes the copy, UpdateHealth the flags).
CopyMatchesFlags ==
  \A d \in Devices :
    (cpc = "update" /\ d = cur) \/ (d \in known <=> d \in healthy)

\* A checker that waits for room in publishchan is never left alone with a full
\* channel: whoever empties it has not gone (the order of Stop, pluginHelper.Stop
\* and cancel in the shutdown).
SenderHasReceiver == cpc = "send" => ppc # "exited"

\* The report a stream holds, or the last one it has delivered.
Latest(s) == IF spc[s] = "send" THEN report[s] ELSE view[s]

\* No lost wakeup: when a stream has sent its first report and no notification
\* is pending, then between two probing passes its latest report shows the
\* current health flags (subscribe before the first report, broadcast after
\* every pass, and coalescing in a channel of capacity one).
NoLostWakeup ==
  \A s \in Streams :
    spc[s] \in {"send", "wait"} /\ ~wake[s] /\ cpc = "select" =>
      Latest(s) = healthy

\* The reports a stream may still build: the one it is about to build, and one for
\* the notification in its channel.
Due(s) == (IF spc[s] = "build" THEN 1 ELSE 0) + (IF wake[s] THEN 1 ELSE 0)

\* A stream as the kubelet sees it.
StreamOf(s) == INSTANCE HealthStream WITH
  health <- healthy, probing <- cpc \notin {"select", "stopped"},
  open <- spc[s] # "off", due <- Due(s), held <- report[s], shown <- view[s]

\* Every stream is a HealthStream: it starts as one (StreamOf(s)!Init) and makes only
\* its steps (StreamOf(s)!Spec for all streams at once).  "A resend is evidence the
\* checker is actually alive" (WatchHealthStatus): no report but the first is sent
\* without a probing pass that has completed since the stream was opened, one for each report; a
\* pass that completes leaves a report due; reports are snapshots, in order.
ImplementsStreams ==
  /\ \A s \in Streams : StreamOf(s)!Init
  /\ [][\A s \in Streams : StreamOf(s)!Next \/ UNCHANGED StreamOf(s)!vars]_vars

\* Once the device files stop changing, the published slice lists exactly the
\* devices whose files exist, unless the plugin is shutting down.
PublishedSettles ==
  <>[](main \in {"newdriver", "running"} => published = dev)

\* A stream that stays open shows the kubelet the device files as they are, once
\* they stop changing.
ViewSettles ==
  \A s \in Streams : <>[](spc[s] # "off") => <>[](view[s] = dev)

\* Heartbeat: a stream that stays open never stops sending reports, changed or
\* not, for as long as the checker is alive.
Heartbeat ==
  \A s \in Streams : <>[](spc[s] # "off") => []<>(busy[s]) /\ []<>(~busy[s])

\* A termination signal ends the plugin: Stop cannot wait for ever for a checker
\* that waits for the publisher (the order of Shutdown and cancel in StartPlugin).
ShutdownCompletes ==
  main = "stopping" ~> main = "cancelled" /\ ppc = "exited"

\* "however many probing passes complete while a subscriber is busy, it wakes
\* once and builds the latest snapshot at send time" (broadcast): when a pass has
\* completed while the subscriber was busy sending, the report that then leaves
\* shows the outcome of that pass.
FreshAtSend ==
  [][\A s \in Streams :
       /\ spc[s] = "send" /\ spc'[s] = "wait"
       /\ view[s] # Nothing /\ wake[s] /\ cpc = "select"
       => view'[s] = healthy]_vars
=============================================================================
