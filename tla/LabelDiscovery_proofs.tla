------------------------ MODULE LabelDiscovery_proofs ------------------------
(***************************************************************************)
(* Proofs about LabelDiscovery: its types, that the discovery amounts to   *)
(* the one step Startup takes for it, and that with true sources that name *)
(* the topology only a node that is its whole slice is shared.             *)
(***************************************************************************)
EXTENDS LabelDiscovery, Labels_proofs

-----------------------------------------------------------------------------
(* Types.                                                                  *)

\* Where asking a source leads.
LEMMA AskLeads ==
  ASSUME NEW i \in 1..5, NEW next, Heard(i, next) \/ Unheard(i, next),
         silent \subseteq 1..5
  PROVE  step' \in {next, "complete"} /\ silent' \subseteq 1..5
<1>1. CASE Heard(i, next)
  <2>1. CASE Knows(Offer, i, {})
    BY <1>1, <2>1 DEF Heard
  <2>2. CASE ~Knows(Offer, i, {})
    BY <1>1, <2>2 DEF Heard
  <2> QED
    BY <2>1, <2>2
<1>2. CASE Unheard(i, next)
  BY <1>2 DEF Unheard
<1> QED
  BY <1>1, <1>2

\* What the deadline makes of the sources of the round it falls into.
LEMMA TimeoutSilences ==
  ASSUME PollTimeout
  PROVE  /\ silent \subseteq silent' /\ silent' \subseteq silent \cup {3, 4}
         /\ step \in {"kube", "env", "wait"} /\ step' = "node"
         /\ step = "kube" => {3, 4} \subseteq silent'
         /\ step = "env" => 4 \in silent'
BY DEF PollTimeout

\* The sources stay numbered from 1 to 5.
LEMMA TimeoutKeepsSources ==
  ASSUME PollTimeout, silent \subseteq 1..5
  PROVE  silent' \subseteq 1..5
<1>1. {3, 4} \subseteq 1..5 /\ {4} \subseteq 1..5
  OBVIOUS
<1>2. silent' \subseteq silent \cup {3, 4}
  BY TimeoutSilences
<1> QED
  BY <1>1, <1>2

\* Every variable keeps its type; no step but the probe sees no chips.
THEOREM TypeCorrect == Spec => []TypeOK
<1>1. Init => TypeOK
  BY SlicesAssumption, SourcesAssumption DEF Init, TypeOK, None
<1>2. TypeOK /\ [Next]_vars => TypeOK'
  <2> SUFFICES ASSUME TypeOK, [Next]_vars PROVE TypeOK'
    OBVIOUS
  <2> USE SlicesAssumption, SourcesAssumption DEF TypeOK, node, driver
  <2>1. CASE UNCHANGED vars
    BY <2>1 DEF vars
  <2>2. CASE ChipAppears
    BY <2>2 DEF ChipAppears
  <2>3. CASE Probe
    <3>1. chips \in Nat \ {0} /\ slice.chips \in Nat
      OBVIOUS
    <3>2. hardware' \in 0..slice'.chips /\ hardware' # 0
      BY <2>3, <3>1 DEF Probe
    <3> QED
      BY <2>3, <3>2 DEF Probe
  <2>4. CASE AskConfig \/ AskFile \/ AskKube \/ AskEnv \/ AskNode
    <3>1. step \in {"config", "file", "kube", "env", "node"}
      BY <2>4 DEF AskConfig, AskFile, AskKube, AskEnv, AskNode
    <3>2. PICK i \in 1..5, next \in {"file", "gce", "env", "wait", "complete"} :
            Heard(i, next) \/ Unheard(i, next)
      BY <2>4 DEF AskConfig, AskFile, AskKube, AskEnv, AskNode
    <3>3. /\ step' \in {"file", "gce", "env", "wait", "complete"}
          /\ silent' \subseteq 1..5
      BY <3>2, AskLeads
    <3>4. UNCHANGED <<node, chips, round, hardware, labels, policy, published>>
      BY <2>4 DEF AskConfig, AskFile, AskKube, AskEnv, AskNode
    <3> QED
      BY <3>1, <3>3, <3>4
  <2>5. CASE DetectGCE
    <3>1. step' \in {"kube", "node"} /\ silent' \subseteq 1..5
      <4>1. CASE says.onGCE
        BY <2>5, <4>1, Zenon DEF DetectGCE
      <4>2. CASE ~says.onGCE
        <5>1. step' = "node" /\ silent' = silent \cup {3, 4}
          BY <2>5, <4>2, Zenon DEF DetectGCE
        <5> QED
          BY <5>1
      <4> QED
        BY <4>1, <4>2
    <3> QED
      BY <2>5, <3>1 DEF DetectGCE
  <2>6. CASE Complete \/ Refuse
    BY <2>6 DEF Complete, Refuse
  <2>7. CASE Start
    <3>1. policy' \in SharesFlags \cup {None}
      BY <2>7 DEF Start, ResolveShares
    <3> QED
      BY <2>7, <3>1 DEF Start
  <2>8. CASE Restart
    BY <2>8 DEF Restart, None
  <2>9. CASE NextRound
    <3>1. Polls \in Nat
      OBVIOUS
    <3> QED
      BY <2>9, <3>1 DEF NextRound
  <2>10. CASE PollTimeout
    <3>1. silent' \subseteq 1..5
      BY <2>10, TimeoutKeepsSources
    <3> QED
      BY <2>10, <3>1 DEF PollTimeout
  <2> QED
    BY <2>1, <2>2, <2>3, <2>4, <2>5, <2>6, <2>7, <2>8, <2>9, <2>10 DEF Next, NewDriver
<1> QED
  BY <1>1, <1>2, PTL DEF Spec

-----------------------------------------------------------------------------
(* The discovery.                                                          *)

\* The sources that have been asked when a step begins.
Asked(s) ==
  CASE s = "file" -> 1..1
    [] s \in {"gce", "kube"} -> 1..2
    [] s = "env" -> 1..3
    [] s \in {"wait", "node"} -> 1..4
    [] OTHER -> {}

\* Before the discovery is complete nothing is given, and no source that was asked
\* is known to know the accelerator, as far as it could be heard.
DiscoveryInv ==
  step \in {"probe", "config", "file", "gce", "kube", "env", "wait", "node"} =>
    /\ given = Unlabelled
    /\ \A j \in Asked(step) : ~Knows(Offer, j, silent)

\* There are five sources.
LEMMA FiveSources == DOMAIN Offer = 1..5
BY DEF Offer

\* Asking source i when those before it have been asked: it is found, or it joins
\* those that are of no use.
LEMMA AskSource ==
  ASSUME NEW i \in 1..5, NEW next, Heard(i, next) \/ Unheard(i, next),
         UNCHANGED node, given = Unlabelled,
         \A j \in 1..(i - 1) : ~Knows(Offer, j, silent)
  PROVE  \/ given' = Found(Offer, silent') /\ step' = "complete"
         \/ /\ given' = Unlabelled /\ step' = next
            /\ \A j \in 1..i : ~Knows(Offer, j, silent')
<1>1. \A j \in 1..(i - 1) : ~Knows(Offer, j, silent')
  BY DEF Heard, Unheard, Knows
<1>2. CASE Heard(i, next) /\ Knows(Offer, i, {})
  <2>1. Knows(Offer, i, silent')
    BY <1>2 DEF Heard, Knows
  <2>2. Found(Offer, silent') = Value(Offer[i])
    BY <1>1, <2>1, FiveSources, FirstIsFound
  <2> QED
    BY <1>2, <2>2 DEF Heard
<1>3. CASE Heard(i, next) /\ ~Knows(Offer, i, {})
  <2>1. ~Knows(Offer, i, silent')
    BY <1>3 DEF Knows
  <2> QED
    BY <1>1, <1>3, <2>1 DEF Heard
<1>4. CASE Unheard(i, next)
  <2>1. ~Knows(Offer, i, silent')
    BY <1>4 DEF Unheard, Knows
  <2> QED
    BY <1>1, <1>4, <2>1 DEF Unheard
<1> QED
  BY <1>2, <1>3, <1>4

\* A step keeps the invariant, and completes the discovery only with what Found
\* gives.
LEMMA DiscoveryStep ==
  ASSUME DiscoveryInv, [Next]_vars
  PROVE  /\ DiscoveryInv'
         /\ step # "complete" /\ step' = "complete" => given' = Found(Offer, silent')
<1> USE DEF node, driver
<1>1. CASE UNCHANGED vars \/ ChipAppears
  BY <1>1 DEF vars, ChipAppears, DiscoveryInv, Offer
<1>2. CASE Probe \/ Complete \/ Start \/ Refuse \/ Restart
  BY <1>2 DEF Probe, Complete, Start, Refuse, Restart, DiscoveryInv, Asked
<1>3. CASE AskConfig
  <2>1. \/ given' = Found(Offer, silent') /\ step' = "complete"
        \/ /\ given' = Unlabelled /\ step' = "file"
           /\ \A j \in 1..1 : ~Knows(Offer, j, silent')
    BY <1>3, AskSource DEF AskConfig, DiscoveryInv
  <2> QED
    BY <1>3, <2>1 DEF AskConfig, DiscoveryInv, Asked, Offer
<1>4. CASE AskFile
  <2>1. \/ given' = Found(Offer, silent') /\ step' = "complete"
        \/ /\ given' = Unlabelled /\ step' = "gce"
           /\ \A j \in 1..2 : ~Knows(Offer, j, silent')
    BY <1>4, AskSource DEF AskFile, DiscoveryInv, Asked
  <2> QED
    BY <1>4, <2>1 DEF AskFile, DiscoveryInv, Asked, Offer
<1>5. CASE DetectGCE
  <2>1. step = "gce" /\ given = Unlabelled /\ given' = given /\ Offer' = Offer
        /\ \A j \in 1..2 : ~Knows(Offer, j, silent)
    BY <1>5 DEF DetectGCE, DiscoveryInv, Asked, Offer
  <2>2. CASE says.onGCE
    BY <1>5, <2>1, <2>2 DEF DetectGCE, DiscoveryInv, Asked
  <2>3. CASE ~says.onGCE
    <3>1. step' = "node" /\ silent' = silent \cup {3, 4}
      BY <1>5, <2>3 DEF DetectGCE
    <3>2. \A j \in 1..4 : ~Knows(Offer, j, silent')
      BY <2>1, <3>1 DEF Knows
    <3> QED
      BY <2>1, <3>1, <3>2 DEF DiscoveryInv, Asked
  <2> QED
    BY <2>2, <2>3
<1>6. CASE AskKube
  <2>1. \/ given' = Found(Offer, silent') /\ step' = "complete"
        \/ /\ given' = Unlabelled /\ step' = "env"
           /\ \A j \in 1..3 : ~Knows(Offer, j, silent')
    BY <1>6, AskSource DEF AskKube, DiscoveryInv, Asked
  <2> QED
    BY <1>6, <2>1 DEF AskKube, DiscoveryInv, Asked, Offer
<1>7. CASE AskEnv
  <2>1. \/ given' = Found(Offer, silent') /\ step' = "complete"
        \/ /\ given' = Unlabelled /\ step' = "wait"
           /\ \A j \in 1..4 : ~Knows(Offer, j, silent')
    BY <1>7, AskSource DEF AskEnv, DiscoveryInv, Asked
  <2> QED
    BY <1>7, <2>1 DEF AskEnv, DiscoveryInv, Asked, Offer
<1>8. CASE NextRound
  <2>1. step = "wait" /\ step' = "kube" /\ Offer' = Offer
        /\ UNCHANGED <<given, silent>>
    BY <1>8 DEF NextRound, Offer
  <2> QED
    BY <2>1 DEF DiscoveryInv, Asked
<1>9. CASE AskNode
  <2>1. \/ given' = Found(Offer, silent') /\ step' = "complete"
        \/ /\ given' = Unlabelled /\ step' = "complete"
           /\ \A j \in 1..5 : ~Knows(Offer, j, silent')
    BY <1>9, AskSource DEF AskNode, DiscoveryInv, Asked
  <2>2. given' = Found(Offer, silent') /\ step' = "complete"
    BY <2>1, FiveSources, NothingFound
  <2> QED
    BY <2>2 DEF DiscoveryInv
<1>10. CASE PollTimeout
  <2>1. Offer' = Offer /\ UNCHANGED given
    BY <1>10 DEF PollTimeout, Offer
  <2>2. given = Unlabelled /\ \A j \in Asked(step) : ~Knows(Offer, j, silent)
    BY <1>10, TimeoutSilences DEF DiscoveryInv
  <2>3. \A j \in 1..4 : ~Knows(Offer, j, silent')
    BY <1>10, <2>2, TimeoutSilences DEF Knows, Asked
  <2> QED
    BY <1>10, <2>1, <2>2, <2>3, TimeoutSilences DEF DiscoveryInv, Asked
<1> QED
  BY <1>1, <1>2, <1>3, <1>4, <1>5, <1>6, <1>7, <1>8, <1>9, <1>10
     DEF Next, NewDriver

\* The discovery implements the step ReadLabels of Startup: for any texts, any
\* number of rounds and any failures.
THEOREM DiscoveryImplementsReadLabels == Spec => ImplementsReadLabels
<1>1. Init => DiscoveryInv
  BY DEF Init, DiscoveryInv, Asked
<1>2. DiscoveryInv /\ [Next]_vars =>
        /\ DiscoveryInv'
        /\ [step # "complete" /\ step' = "complete" =>
              given' = Found(Offer, silent')]_vars
  BY DiscoveryStep
<1> QED
  BY <1>1, <1>2, PTL DEF Spec, ImplementsReadLabels

-----------------------------------------------------------------------------
(* What true sources say.                                                  *)

\* What holds of labels that name the accelerator, when the sources are true and
\* name the topology.
TrueLabels(l) ==
  /\ l.accelerator # None => l.accelerator = {slice.accelerator}
  /\ l.accelerator # None => l.topology = {slice.topology}
  /\ AtMostOne(l.count)
  /\ DOMAIN l = {"accelerator", "count", "topology"}

\* An entry of a true text has the true value.
LEMMA LastValueIsTrue ==
  ASSUME NEW text, NEW s, TrueText(text, s), NEW key
  PROVE  LastValue(text, key) \subseteq {TrueValue(key, s)}
BY DEF LastValue, TrueText

\* So has the preferred one of two keys.
LEMMA PreferredIsTrue ==
  ASSUME NEW text, NEW s, TrueText(text, s)
  PROVE  /\ Preferred(text, "accelerator") \subseteq {s.accelerator}
         /\ Preferred(text, "topology") \subseteq {s.topology}
         /\ AtMostOne(Preferred(text, "count"))
<1>1. \A p : \/ Preferred(text, p) \subseteq {TrueValue(Own(p), s)}
             \/ Preferred(text, p) \subseteq {TrueValue(Gke(p), s)}
  BY LastValueIsTrue DEF Preferred
<1>2. /\ TrueValue(Own("accelerator"), s) = s.accelerator
      /\ TrueValue(Gke("accelerator"), s) = s.accelerator
      /\ TrueValue(Own("topology"), s) = s.topology
      /\ TrueValue(Gke("topology"), s) = s.topology
  BY DEF TrueValue, Own, Gke
<1> QED
  BY <1>1, <1>2 DEF AtMostOne

\* And the entries of a true tpu-env.
LEMMA AcceleratorTypeIsTrue ==
  ASSUME NEW text, NEW s, TrueText(text, s)
  PROVE  /\ AcceleratorType(text) \subseteq {s.family}
         /\ LastValue(text, Env("TOPOLOGY")) \subseteq {s.topology}
         /\ AtMostOne(LastValue(text, Env("CHIPS_PER_HOST_BOUNDS")))
<1>1. /\ TrueValue(Env("ACCELERATOR_TYPE"), s) = s.family
      /\ TrueValue(Env("TYPE"), s) = s.family
      /\ TrueValue(Env("TOPOLOGY"), s) = s.topology
  BY DEF TrueValue, Env
<1>2. AcceleratorType(text) \subseteq {s.family}
  BY <1>1, LastValueIsTrue DEF AcceleratorType
<1> QED
  BY <1>1, <1>2, LastValueIsTrue DEF AtMostOne

\* A source that may hold one of the texts holds a true one.
LEMMA HeldTextIsTrue ==
  ASSUME NEW texts, NEW s, NEW held \in Holding(texts, s), NEW t \in held
  PROVE  TrueText(t, s)
BY DEF Holding, Some, None

\* Each source offers true labels.
LEMMA OffersAreTrue ==
  ASSUME says \in Says(slice), TopologyStated, FormKept,
         NEW i \in 1..5, NEW l \in Offer[i]
  PROVE  TrueLabels(l)
<1> USE DEF None
<1>1. CASE i = 1
  <2>1. l = says.config /\ l \in Offer[1]
    BY <1>1 DEF Offer, Some
  <2>2. l \in Configs /\ TrueConfig(l, slice)
    BY <2>1 DEF Says
  <2>3. l.accelerator # {} => l.topology # {}
    BY <2>1 DEF TopologyStated
  <2>4. WellFormed(l)
    BY <2>2, SourcesAssumption
  <2>5. AtMostOne(l.count) /\ DOMAIN l = {"accelerator", "count", "topology"}
    BY <2>4 DEF WellFormed, LabelSets
  <2> QED
    BY <2>2, <2>3, <2>5 DEF TrueConfig, TrueLabels
<1>2. ASSUME i \in {3, 5} PROVE TrueLabels(l)
  <2>1. l \in Offer[3] \cup Offer[5]
    BY <1>2
  <2>2. PICK t \in says.kube \cup says.node : l = KubeLabels(t)
    BY <2>1 DEF Offer
  <2>3. TrueText(t, slice)
    BY HeldTextIsTrue DEF Says
  <2>4. l.accelerator # {} => l.topology # {}
    BY <2>1 DEF TopologyStated
  <2>5. /\ l.accelerator = Preferred(t, "accelerator")
        /\ l.topology = Preferred(t, "topology")
        /\ l.count = Preferred(t, "count")
        /\ DOMAIN l = {"accelerator", "count", "topology"}
    BY <2>2 DEF KubeLabels
  <2> QED
    BY <2>3, <2>4, <2>5, PreferredIsTrue DEF TrueLabels
<1>3. ASSUME i \in {2, 4} PROVE TrueLabels(l)
  <2>1. l \in Offer[2] \cup Offer[4]
    BY <1>3
  <2>2. PICK t \in says.file \cup says.env : l = EnvLabels(t)
    BY <2>1 DEF Offer
  <2>3. TrueText(t, slice)
    BY HeldTextIsTrue DEF Says
  <2>4. CASE AcceleratorType(t) = {}
    <3>1. l = Unlabelled
      BY <2>2, <2>4 DEF EnvLabels
    <3> QED
      BY <3>1 DEF Unlabelled, TrueLabels, AtMostOne
  <2>5. CASE AcceleratorType(t) # {}
    <3>1. LastValue(t, Env("TOPOLOGY")) # {}
          /\ OfFamily(slice.family) = slice.accelerator
      BY <2>5 DEF TopologyStated, FormKept
    <3>2. /\ AcceleratorType(t) = {slice.family}
          /\ LastValue(t, Env("TOPOLOGY")) = {slice.topology}
          /\ AtMostOne(LastValue(t, Env("CHIPS_PER_HOST_BOUNDS")))
      BY <2>3, <2>5, <3>1, AcceleratorTypeIsTrue
    <3>3. /\ l.accelerator = {OfFamily(f) : f \in AcceleratorType(t)}
          /\ l.topology = LastValue(t, Env("TOPOLOGY"))
          /\ DOMAIN l = {"accelerator", "count", "topology"}
      BY <2>2, <2>5, <3>1 DEF EnvLabels
    <3>4. l.count = EnvCount(t)
      BY <2>2, <2>5 DEF EnvLabels
    <3>5. AtMostOne(l.count)
      BY <3>2, <3>4 DEF EnvCount, AtMostOne, Some
    <3>6. l.accelerator = {slice.accelerator}
      BY <3>1, <3>2, <3>3
    <3> QED
      BY <3>2, <3>3, <3>5, <3>6 DEF TrueLabels
  <2> QED
    BY <2>4, <2>5
<1> QED
  BY <1>1, <1>2, <1>3

-----------------------------------------------------------------------------
(* What a running plugin shares.                                           *)

\* The labels are true as far as they were given, completed from the hardware, and
\* the node was judged by them.
SharingInv ==
  /\ says \in Says(slice)
  /\ TopologyStated /\ FormKept => TrueLabels(given)
  /\ step \in {"start", "running"} =>
       /\ labels = CompleteLabels(given, [chipCount |-> hardware])
       /\ labels.accelerator # None
  /\ step = "running" =>
       /\ policy = ResolveShares(flag, labels)
       /\ published \in ChipCount(labels)

\* Every step keeps it.
LEMMA SharingStep ==
  ASSUME SharingInv, [Next]_vars
  PROVE  SharingInv'
<1> USE DEF node, driver
<1>1. Offer' = Offer /\ UNCHANGED node
  BY DEF Next, NewDriver, vars, ChipAppears, Probe, AskConfig, AskFile, DetectGCE,
         AskKube, AskEnv, NextRound, PollTimeout, AskNode, Complete, Start, Refuse,
         Restart, Offer
<1>2. (says \in Says(slice))' /\ (TopologyStated' <=> TopologyStated)
      /\ (FormKept' <=> FormKept) /\ \A l : TrueLabels(l)' <=> TrueLabels(l)
  BY <1>1 DEF SharingInv, TopologyStated, FormKept, TrueLabels
<1>3. CASE UNCHANGED <<step, given, labels, hardware, policy, published>>
  BY <1>1, <1>2, <1>3 DEF SharingInv
<1>4. ASSUME step' \notin {"start", "running"}, given' = given PROVE SharingInv'
  BY <1>1, <1>2, <1>4 DEF SharingInv
<1>5. ASSUME step' \notin {"start", "running"}, given' = Unlabelled
      PROVE  SharingInv'
  <2>1. TrueLabels(Unlabelled)
    BY DEF TrueLabels, Unlabelled, AtMostOne, None
  <2> QED
    BY <1>1, <1>2, <1>5, <2>1 DEF SharingInv
<1>6. ASSUME NEW i \in 1..5, NEW next \in {"file", "gce", "env", "wait", "complete"},
             Heard(i, next) \/ Unheard(i, next)
      PROVE  SharingInv'
  <2>1. CASE Heard(i, next) /\ Knows(Offer, i, {})
    <3>1. given' = Value(Offer[i]) /\ step' = "complete"
      BY <2>1 DEF Heard
    <3>2. given' \in Offer[i]
      BY <2>1, <3>1 DEF Knows, Value, None
    <3>3. TopologyStated /\ FormKept => TrueLabels(given')
      BY <3>2, OffersAreTrue DEF SharingInv
    <3> QED
      BY <1>1, <1>2, <3>1, <3>3 DEF SharingInv
  <2>2. CASE given' = given /\ step' = next
    BY <1>4, <2>2
  <2> QED
    BY <1>6, <2>1, <2>2 DEF Heard, Unheard
<1>7. CASE AskConfig \/ AskFile \/ AskKube \/ AskEnv \/ AskNode
  BY <1>6, <1>7 DEF AskConfig, AskFile, AskKube, AskEnv, AskNode
<1>8. CASE Complete
  BY <1>1, <1>2, <1>8 DEF Complete, SharingInv
<1>9. CASE Start
  BY <1>1, <1>2, <1>9 DEF Start, Accepted, SharingInv
<1>10. CASE DetectGCE
  <2>1. step' \in {"kube", "node"} /\ given' = given
    BY <1>10, Zenon DEF DetectGCE
  <2> QED
    BY <1>4, <2>1
<1> QED
  BY <1>3, <1>4, <1>5, <1>7, <1>8, <1>9, <1>10
     DEF Next, NewDriver, vars, ChipAppears, Probe, NextRound, PollTimeout, Refuse,
         Restart

\* With true sources that name the topology, and types that are what tpu-env calls
\* them, only a node that is its own slice shares its chips, and a podslice shares
\* all of them: for any slice, any texts, and chips that appear at any time.
THEOREM SharingStaysInItsSlice == Spec => []SharedNodeIsItsSlice
<1>1. Init => SharingInv
  BY DEF Init, SharingInv, TrueLabels, Unlabelled, AtMostOne, None
<1>2. SharingInv /\ [Next]_vars => SharingInv'
  BY SharingStep
<1>3. TypeOK /\ SharingInv => SharedNodeIsItsSlice
  <2> SUFFICES ASSUME TypeOK, SharingInv, step = "running", policy # None,
                      TopologyStated, FormKept
               PROVE  /\ IsOneHost(slice)
                      /\ IsPodslice(slice.accelerator) => published = slice.chips
    BY DEF SharedNodeIsItsSlice
  <2>1. /\ slice.chips \in Nat /\ slice.topology \in Seq(Int)
        /\ ~IsPodslice(slice.accelerator) => IsOneHost(slice)
        /\ \A dims \in TopologyDims(slice.topology) : slice.chips <= SliceChips(dims)
    BY SlicesAssumption DEF TypeOK
  <2>2. TrueLabels(given) /\ labels = CompleteLabels(given, [chipCount |-> hardware])
        /\ labels.accelerator # None
    BY DEF SharingInv
  <2>3. /\ labels.accelerator = given.accelerator
        /\ labels.topology = IF given.topology = None THEN SingleHostTopology(hardware)
                             ELSE given.topology
        /\ labels.count = IF given.count = None THEN {hardware} ELSE given.count
    BY <2>2 DEF CompleteLabels, TrueLabels, Some
  <2>4. labels.accelerator = {slice.accelerator} /\ labels.topology = {slice.topology}
    BY <2>2, <2>3 DEF TrueLabels, None
  <2>5. AtMostOne(labels.count)
    BY <2>2, <2>3 DEF TrueLabels, AtMostOne
  <2>6. CASE IsPodslice(slice.accelerator)
    <3>1. IsSingleHostNode(labels) /\ OnPodslice(labels)
      BY <2>4, <2>6 DEF SharingInv, ResolveShares, OnPodslice
    <3>2. PICK n \in ChipCount(labels), dims \in Dims(labels) :
            TRUE \in IsSingleHost(n, dims)
      BY <3>1 DEF IsSingleHostNode
    <3>3. n \in TotalChips(dims) /\ dims \in TopologyDims(slice.topology)
      BY <2>4, <3>2 DEF IsSingleHost, Dims
    <3>4. n = SliceChips(dims)
      BY <2>1, <3>3, ThreeDims, TotalChipsExact
    <3>5. published = n
      BY <2>5, <3>2 DEF SharingInv, ChipCount, AtMostOne
    <3>6. published <= slice.chips /\ slice.chips <= SliceChips(dims)
      BY <2>1, <3>3 DEF TypeOK
    <3>7. published \in Int /\ published = slice.chips
      BY <2>1, <3>4, <3>5, <3>6 DEF TypeOK
    <3> QED
      BY <3>3, <3>4, <3>5, <3>7 DEF IsOneHost
  <2> QED
    BY <2>1, <2>6
<1> QED
  BY <1>1, <1>2, <1>3, TypeCorrect, PTL DEF Spec

-----------------------------------------------------------------------------
(* A node whose chips are counted starts.                                  *)

\* What the sources say of the number of chips, when none of them is a tpu-env
\* that is silent about it; a topology may be made up.
CountedLabels(l) ==
  /\ DOMAIN l = {"accelerator", "count", "topology"}
  /\ l.count \subseteq {slice.chips}
  /\ \/ l.topology \subseteq {slice.topology}
     \/ l.topology = {DefaultTopology}

\* The table of chips per host says what it is a table of.
LEMMA HostProduct ==
  ASSUME NEW n \in DOMAIN ChipsPerHost
  PROVE  Product([i \in 1..3 |-> Some(ChipsPerHost[n][i])]) = n
<1> DEFINE b == [i \in 1..3 |-> Some(ChipsPerHost[n][i])]
<1>1. n \in {1, 2, 4, 8}
  BY DEF ChipsPerHost
<1>2. \A x : Factor(Some(x)) = x
  BY DEF Factor, Some, None, Value
<1>3. Product(b) = ChipsPerHost[n][1] * ChipsPerHost[n][2] * ChipsPerHost[n][3]
  BY <1>2 DEF Product
<1>4. CASE n = 1
  BY <1>3, <1>4 DEF ChipsPerHost
<1>5. CASE n = 2
  BY <1>3, <1>5 DEF ChipsPerHost
<1>6. CASE n = 4
  BY <1>3, <1>6 DEF ChipsPerHost
<1>7. CASE n = 8
  BY <1>3, <1>7 DEF ChipsPerHost
<1> QED
  BY <1>1, <1>4, <1>5, <1>6, <1>7

\* Each source offers labels that count the chips of the host.
LEMMA OffersAreCounted ==
  ASSUME says \in Says(slice), BoundsStated, slice.chips \in DOMAIN ChipsPerHost,
         NEW i \in 1..5, NEW l \in Offer[i]
  PROVE  CountedLabels(l)
<1> USE DEF None
<1>1. CASE i = 1
  <2>1. l = says.config
    BY <1>1 DEF Offer, Some
  <2>2. l \in Configs /\ TrueConfig(l, slice)
    BY <2>1 DEF Says
  <2>3. DOMAIN l = {"accelerator", "count", "topology"}
    BY <2>2, SourcesAssumption DEF WellFormed, LabelSets
  <2> QED
    BY <2>2, <2>3 DEF TrueConfig, CountedLabels
<1>2. ASSUME i \in {3, 5} PROVE CountedLabels(l)
  <2>1. PICK t \in says.kube \cup says.node : l = KubeLabels(t)
    BY <1>2 DEF Offer
  <2>2. TrueText(t, slice)
    BY HeldTextIsTrue DEF Says
  <2>3. /\ TrueValue(Own("count"), slice) = slice.chips
        /\ TrueValue(Gke("count"), slice) = slice.chips
    BY DEF TrueValue, Own, Gke
  <2>4. Preferred(t, "count") \subseteq {slice.chips}
    BY <2>2, <2>3, LastValueIsTrue DEF Preferred
  <2>5. Preferred(t, "topology") \subseteq {slice.topology}
    BY <2>2, PreferredIsTrue
  <2>6. /\ l.topology = Preferred(t, "topology")
        /\ l.count = Preferred(t, "count")
        /\ DOMAIN l = {"accelerator", "count", "topology"}
    BY <2>1 DEF KubeLabels
  <2> QED
    BY <2>4, <2>5, <2>6 DEF CountedLabels
<1>3. ASSUME i \in {2, 4} PROVE CountedLabels(l)
  <2>1. PICK t \in says.file \cup says.env : l = EnvLabels(t)
    BY <1>3 DEF Offer
  <2>2. TrueText(t, slice)
    BY HeldTextIsTrue DEF Says
  <2>3. CASE AcceleratorType(t) = {}
    BY <2>1, <2>3 DEF EnvLabels, Unlabelled, CountedLabels
  <2>4. CASE AcceleratorType(t) # {}
    <3> DEFINE bounds == LastValue(t, Env("CHIPS_PER_HOST_BOUNDS"))
               true   == [j \in 1..3 |-> Some(ChipsPerHost[slice.chips][j])]
    <3>1. bounds # {}
      BY <2>4 DEF BoundsStated
    <3>2. TrueValue(Env("CHIPS_PER_HOST_BOUNDS"), slice) = true
      BY DEF TrueValue, Env
    <3>3. bounds = {true}
      BY <2>2, <3>1, <3>2, LastValueIsTrue
    <3>4. ~\A j \in DOMAIN t : t[j].key # Env("CHIPS_PER_HOST_BOUNDS")
      BY <3>1 DEF LastValue
    <3>5. EnvCount(t) = {Product(b) : b \in bounds}
      BY <3>1, <3>4 DEF EnvCount
    <3>6. EnvCount(t) = {slice.chips}
      BY <3>3, <3>5, HostProduct
    <3>7. LastValue(t, Env("TOPOLOGY")) \subseteq {slice.topology}
      BY <2>2, AcceleratorTypeIsTrue
    <3>8. /\ l.count = EnvCount(t)
          /\ l.topology = IF LastValue(t, Env("TOPOLOGY")) = {}
                            THEN {DefaultTopology} ELSE LastValue(t, Env("TOPOLOGY"))
          /\ DOMAIN l = {"accelerator", "count", "topology"}
      BY <2>1, <2>4 DEF EnvLabels, Some
    <3> QED
      BY <3>6, <3>7, <3>8 DEF CountedLabels
  <2> QED
    BY <2>3, <2>4
<1> QED
  BY <1>1, <1>2, <1>3

\* Labels that count the chips of a supported host, with its accelerator, and
\* completed on a host that has all its chips, are accepted.
LEMMA CountedIsAccepted ==
  ASSUME Supported, NEW given0, CountedLabels(given0),
         given0.accelerator = {slice.accelerator},
         NEW l, l = CompleteLabels(given0, [chipCount |-> slice.chips])
  PROVE  /\ l.accelerator # None
         /\ InitEnvs(l) # None
         /\ slice.chips \in ChipCount(l)
<1> DEFINE n == slice.chips
<1>1. n \in {1, 2, 4, 8} /\ n \in DOMAIN ChipsPerHost
  BY DEF Supported, ChipsPerHost
<1>2. /\ l.accelerator = {slice.accelerator}
      /\ l.count = IF given0.count = {} THEN {n} ELSE given0.count
      /\ l.topology = IF given0.topology = {} THEN SingleHostTopology(n)
                      ELSE given0.topology
  BY DEF CompleteLabels, CountedLabels, Some, None
<1>3. l.count = {n}
  BY <1>2 DEF CountedLabels
<1>4. ChipCount(l) = {n}
  BY <1>1, <1>3 DEF ChipCount
<1>5. \E t \in l.topology : \E dims \in TopologyDims(t) : TotalChips(dims) # None
  <2>1. CASE l.topology = {slice.topology}
    BY <2>1 DEF Supported
  <2>2. CASE l.topology = {<<2, 2>>}
    BY <2>2, HostTopologyAccepted
  <2>3. CASE l.topology = SingleHostTopology(n)
    BY <1>1, <2>3, InferredTopologyAccepted
  <2> QED
    BY <1>2, <2>1, <2>2, <2>3 DEF CountedLabels, DefaultTopology
<1>6. InitEnvs(l) # None
  BY <1>1, <1>2, <1>4, <1>5, LabelsAccepted DEF Supported
<1> QED
  BY <1>2, <1>4, <1>6 DEF None

\* The labels count the chips as far as they were given, no more chips were probed
\* than there are, and what was refused is not acceptable.
CountedInv ==
  /\ says \in Says(slice)
  /\ hardware <= chips
  /\ BoundsStated /\ slice.chips \in DOMAIN ChipsPerHost => CountedLabels(given)
  /\ step \in {"start", "running", "refused"} =>
       labels = CompleteLabels(given, [chipCount |-> hardware])
  /\ step = "refused" /\ hardware = slice.chips =>
       \/ labels.accelerator = None
       \/ InitEnvs(labels) = None
       \/ slice.chips \notin ChipCount(labels)

\* Every step keeps it.
LEMMA CountedStep ==
  ASSUME TypeOK, CountedInv, [Next]_vars
  PROVE  CountedInv'
<1> USE DEF node, driver
<1>1. Offer' = Offer /\ UNCHANGED node
  BY DEF Next, NewDriver, vars, ChipAppears, Probe, AskConfig, AskFile, DetectGCE,
         AskKube, AskEnv, NextRound, PollTimeout, AskNode, Complete, Start, Refuse,
         Restart, Offer
<1>2. /\ (says \in Says(slice))' /\ (BoundsStated' <=> BoundsStated)
      /\ slice' = slice /\ \A l : CountedLabels(l)' <=> CountedLabels(l)
  BY <1>1 DEF CountedInv, BoundsStated, CountedLabels
<1>3. /\ hardware \in Nat /\ chips \in Nat /\ hardware <= chips
      /\ chips <= slice.chips /\ slice.chips \in Nat
  BY SlicesAssumption DEF TypeOK, CountedInv
<1>4. CASE UNCHANGED <<step, given, labels, hardware>> /\ chips' \in {chips, chips + 1}
  BY <1>1, <1>2, <1>3, <1>4 DEF CountedInv
<1>5. ASSUME step' \notin {"start", "running", "refused"}, given' = given,
             UNCHANGED <<hardware, chips>>
      PROVE  CountedInv'
  BY <1>1, <1>2, <1>3, <1>5 DEF CountedInv
<1>6. ASSUME NEW i \in 1..5, NEW next \in {"file", "gce", "env", "wait", "complete"},
             Heard(i, next) \/ Unheard(i, next), UNCHANGED <<hardware, chips>>
      PROVE  CountedInv'
  <2>1. CASE Heard(i, next) /\ Knows(Offer, i, {})
    <3>1. given' = Value(Offer[i]) /\ step' = "complete"
      BY <2>1 DEF Heard
    <3>2. given' \in Offer[i]
      BY <2>1, <3>1 DEF Knows, Value, None
    <3>3. BoundsStated /\ slice.chips \in DOMAIN ChipsPerHost => CountedLabels(given')
      BY <3>2, OffersAreCounted DEF CountedInv
    <3> QED
      BY <1>1, <1>2, <1>3, <1>6, <3>1, <3>3 DEF CountedInv
  <2>2. CASE given' = given /\ step' = next
    BY <1>5, <1>6, <2>2
  <2> QED
    BY <1>6, <2>1, <2>2 DEF Heard, Unheard
<1>7. CASE AskConfig \/ AskFile \/ AskKube \/ AskEnv \/ AskNode
  BY <1>6, <1>7 DEF AskConfig, AskFile, AskKube, AskEnv, AskNode
<1>8. CASE DetectGCE
  <2>1. step' \in {"kube", "node"} /\ given' = given /\ UNCHANGED <<hardware, chips>>
    BY <1>8, Zenon DEF DetectGCE
  <2> QED
    BY <1>5, <2>1
<1>9. CASE Probe
  BY <1>1, <1>2, <1>3, <1>9 DEF Probe, CountedInv
<1>10. CASE Complete
  BY <1>1, <1>2, <1>3, <1>10 DEF Complete, CountedInv
<1>11. CASE Start
  BY <1>1, <1>2, <1>3, <1>11 DEF Start, CountedInv
<1>12. CASE Refuse
  <2>1. hardware = slice.chips => chips = slice.chips
    BY <1>3
  <2>2. UNCHANGED <<labels, hardware, chips, given>> /\ step' = "refused" /\ step = "start"
        /\ (InitEnvs(labels) = None \/ chips \notin ChipCount(labels))
    BY <1>12 DEF Refuse, Accepted
  <2> QED
    BY <1>1, <1>2, <1>3, <2>1, <2>2 DEF CountedInv
<1>13. CASE Restart
  <2>1. CountedLabels(Unlabelled)
    BY DEF CountedLabels, Unlabelled, None
  <2> QED
    BY <1>1, <1>2, <1>3, <1>13, <2>1 DEF Restart, CountedInv
<1> QED
  BY <1>4, <1>5, <1>7, <1>8, <1>9, <1>10, <1>11, <1>12, <1>13
     DEF Next, NewDriver, vars, ChipAppears, NextRound, PollTimeout

\* A node of a supported slice that has all its chips, and of which some source that
\* is believed tells the true type, is not refused, whatever the sources leave out,
\* unless a tpu-env is silent about the number of chips.
THEOREM CountedNodesStart == Spec => []CountedNodeStarts
<1>1. Init => CountedInv
  <2> SUFFICES ASSUME Init PROVE CountedInv
    OBVIOUS
  <2>1. CountedLabels(Unlabelled)
    BY DEF CountedLabels, Unlabelled, None
  <2>2. hardware <= chips
    BY SlicesAssumption DEF Init
  <2> QED
    BY <2>1, <2>2 DEF Init, CountedInv
<1>2. TypeOK /\ CountedInv /\ [Next]_vars => CountedInv'
  BY CountedStep
<1>3. CountedInv => CountedNodeStarts
  <2> SUFFICES ASSUME CountedInv, BoundsStated, step = "refused",
                      hardware = slice.chips, Supported,
                      given.accelerator = {slice.accelerator}
               PROVE  FALSE
    BY DEF CountedNodeStarts, NamedNodeStarts, Some
  <2>1. CountedLabels(given)
    BY DEF CountedInv, Supported
  <2>2. labels = CompleteLabels(given, [chipCount |-> slice.chips])
    BY DEF CountedInv
  <2>3. /\ labels.accelerator # None /\ InitEnvs(labels) # None
        /\ slice.chips \in ChipCount(labels)
    BY <2>1, <2>2, CountedIsAccepted
  <2> QED
    BY <2>3 DEF CountedInv
<1> QED
  BY <1>1, <1>2, <1>3, TypeCorrect, PTL DEF Spec
-----------------------------------------------------------------------------
(* When the promises of the README and of the flag hold.                   *)

\* Were the type of every TPU VM the one its family is mapped to (OfFamily), no host of
\* a larger slice would share its chips, as --consumable-shares has it: the family v3
\* is all that stands in the way.
THEOREM KnownFormsNeverShare ==
  ASSUME \A s \in Slices : OfFamily(s.family) = s.accelerator
  PROVE  Spec => []MultiHostNeverShares
<1>1. TypeOK /\ SharedNodeIsItsSlice => MultiHostNeverShares
  BY DEF TypeOK, SharedNodeIsItsSlice, MultiHostNeverShares, FormKept
<1> QED
  BY <1>1, TypeCorrect, SharingStaysInItsSlice, PTL

\* The texts and the slice of a node are what they were.
LEMMA SaysHolds == Spec => [](says \in Says(slice))
<1>1. Init => says \in Says(slice)
  BY DEF Init
<1>2. says \in Says(slice) /\ [Next]_vars => (says \in Says(slice))'
  <2> SUFFICES ASSUME [Next]_vars PROVE UNCHANGED <<says, slice>>
    OBVIOUS
  <2> QED
    BY DEF Next, NewDriver, vars, node, ChipAppears, Probe, AskConfig, AskFile,
           DetectGCE, AskKube, AskEnv, NextRound, PollTimeout, AskNode, Complete,
           Start, Refuse, Restart
<1> QED
  BY <1>1, <1>2, PTL DEF Spec

\* Were CHIPS_PER_HOST_BOUNDS always there, as in every tpu-env that names a type, no
\* node of a supported slice with a source that is believed and true would be refused.
THEOREM CountedTextsStart ==
  ASSUME \A t \in EnvTexts :
           AcceleratorType(t) # None => LastValue(t, Env("CHIPS_PER_HOST_BOUNDS")) # None
  PROVE  Spec => []NamedNodeStarts
<1>1. says \in Says(slice) /\ CountedNodeStarts => NamedNodeStarts
  <2> SUFFICES ASSUME says \in Says(slice) PROVE BoundsStated
    BY DEF CountedNodeStarts
  <2>1. ASSUME NEW t \in says.file \cup says.env PROVE t \in EnvTexts
    BY DEF Says, Holding, Some, None
  <2> QED
    BY <2>1 DEF BoundsStated
<1> QED
  BY <1>1, SaysHolds, CountedNodesStart, PTL

-----------------------------------------------------------------------------
(* The discovery is bounded.                                               *)

\* The deadline of the poll bounds the whole start, for any number of rounds.
THEOREM StartupIsBounded == Spec => StartupAdvances
<1>1. TypeOK /\ Next =>
        (step \notin {"running", "refused"} =>
           chips' # chips \/ (StepsLeft' < StepsLeft /\ StepsLeft' >= 0))
  <2> SUFFICES ASSUME TypeOK, Next, step \notin {"running", "refused"}, chips' = chips
               PROVE  StepsLeft' < StepsLeft /\ StepsLeft' >= 0
    OBVIOUS
  <2>1. Polls \in Nat /\ round \in 0..Polls
    BY SourcesAssumption DEF TypeOK
  <2>2. ~ChipAppears /\ ~Restart
    BY SlicesAssumption DEF ChipAppears, Restart, TypeOK
  <2>3. CASE Probe \/ DetectGCE \/ Complete \/ Start \/ Refuse \/ PollTimeout
    <3>1. /\ UNCHANGED round
          /\ \/ step = "probe" /\ step' = "config"
             \/ step = "gce" /\ step' \in {"kube", "node"}
             \/ step = "complete" /\ step' \in {"refused", "start"}
             \/ step = "start" /\ step' \in {"running", "refused"}
             \/ step \in {"kube", "env", "wait"} /\ step' = "node"
      BY <2>3, Zenon DEF Probe, DetectGCE, Complete, Start, Refuse, PollTimeout
    <3> QED
      BY <2>1, <3>1 DEF StepsLeft
  <2>4. CASE AskConfig \/ AskFile \/ AskKube \/ AskEnv \/ AskNode
    <3>1. /\ UNCHANGED round
          /\ \/ step = "config" /\ step' \in {"file", "complete"}
             \/ step = "file" /\ step' \in {"gce", "complete"}
             \/ step = "kube" /\ step' \in {"env", "complete"}
             \/ step = "env" /\ step' \in {"wait", "complete"}
             \/ step = "node" /\ step' = "complete"
      <4>1. silent \subseteq 1..5 /\ 1 \in 1..5 /\ 2 \in 1..5 /\ 3 \in 1..5
            /\ 4 \in 1..5 /\ 5 \in 1..5
        BY DEF TypeOK
      <4>2. AskConfig => UNCHANGED round /\ step = "config" /\ step' \in {"file", "complete"}
        BY <4>1, AskLeads DEF AskConfig
      <4>3. AskFile => UNCHANGED round /\ step = "file" /\ step' \in {"gce", "complete"}
        BY <4>1, AskLeads DEF AskFile
      <4>4. AskKube => UNCHANGED round /\ step = "kube" /\ step' \in {"env", "complete"}
        BY <4>1, AskLeads DEF AskKube
      <4>5. AskEnv => UNCHANGED round /\ step = "env" /\ step' \in {"wait", "complete"}
        BY <4>1, AskLeads DEF AskEnv
      <4>6. AskNode => UNCHANGED round /\ step = "node" /\ step' \in {"complete"}
        BY <4>1, AskLeads DEF AskNode
      <4> QED
        BY <2>4, <4>2, <4>3, <4>4, <4>5, <4>6
    <3> QED
      BY <2>1, <3>1 DEF StepsLeft
  <2>5. CASE NextRound
    BY <2>1, <2>5 DEF NextRound, StepsLeft
  <2> QED
    BY <2>2, <2>3, <2>4, <2>5 DEF Next, NewDriver
<1> QED
  BY <1>1, TypeCorrect, PTL DEF Spec, StartupAdvances
=============================================================================
