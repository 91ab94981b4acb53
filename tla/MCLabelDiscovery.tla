-------------------------- MODULE MCLabelDiscovery --------------------------
(***************************************************************************)
(* Instances of LabelDiscovery for TLC: hosts of small and of large        *)
(* slices, and sources that state all, some or none of what is true.       *)
(***************************************************************************)
EXTENDS LabelDiscovery

\* A slice of a family; the name of its type is what a family without a known
\* prefix spells.
Slice(prefix, v, l, form, n, t) ==
  LET type == [version |-> v, lite |-> l, form |-> form]
  IN  [family |-> [prefix |-> prefix, name |-> type], accelerator |-> type,
       chips |-> n, topology |-> t]

Entry(key, value) == [key |-> key, value |-> value]

\* A whole v6e host whose tpu-env spells the type like the labels, one of four v6e
\* hosts, one of four with a single chip each, a device that is a host of its own.
FourSlices ==
  {Slice("tpu-v6e-slice", "v6e", FALSE, "slice", 2, <<1, 2>>),
   Slice("v6e", "v6e", FALSE, "slice", 4, <<4, 4>>),
   Slice("v5litepod", "v5", TRUE, "podslice", 1, <<2, 2>>),
   Slice("v5lite", "v5", TRUE, "device", 2, <<1, 2>>)}

\* A host of a v3 pod.
V3Pod == {Slice("v3", "v3", FALSE, "slice", 4, <<4, 4>>)}

\* Labels in the keys of GKE, of the driver and GKE, in one order with an entry
\* that a later one empties, and without a topology or an accelerator.
TextsOf(s) ==
  LET a == Some(s.accelerator) n == Some(s.chips) t == Some(s.topology)
  IN  {<<Entry(Gke("accelerator"), a), Entry(Gke("accelerator"), None),
         Entry(Own("accelerator"), a), Entry(Gke("topology"), t)>>,
       <<Entry(Own("accelerator"), a), Entry(Own("accelerator"), None),
         Entry(Gke("topology"), t)>>,
       <<Entry(Gke("accelerator"), a), Entry(Gke("count"), n)>>}

BoundsOf(s) == [i \in 1..3 |-> Some(ChipsPerHost[s.chips][i])]

\* tpu-env without the bounds, with all there is, without the topology and with
\* empty bounds, and without a type.
EnvsOf(s) ==
  LET f == Some(s.family) t == Some(s.topology)
  IN  {<<Entry(Env("TYPE"), f), Entry(Env("TOPOLOGY"), t)>>,
       <<Entry(Env("ACCELERATOR_TYPE"), f), Entry(Env("TYPE"), None),
         Entry(Env("TOPOLOGY"), t),
         Entry(Env("CHIPS_PER_HOST_BOUNDS"), Some(BoundsOf(s)))>>,
       <<Entry(Env("ACCELERATOR_TYPE"), f),
         Entry(Env("CHIPS_PER_HOST_BOUNDS"), None)>>,
       <<Entry(Env("TOPOLOGY"), t)>>}

\* The accelerator or the topology or both or none.
ConfigsOf(s) ==
  {[accelerator |-> a, count |-> None, topology |-> t] :
     a \in {None, Some(s.accelerator)}, t \in {None, Some(s.topology)}}

FourTexts == UNION {TextsOf(s) : s \in FourSlices}
FourEnvs == UNION {EnvsOf(s) : s \in FourSlices}
FourConfigs == UNION {ConfigsOf(s) : s \in FourSlices}

V3Texts == UNION {TextsOf(s) : s \in V3Pod}
V3Envs == UNION {EnvsOf(s) : s \in V3Pod}
V3Configs == UNION {ConfigsOf(s) : s \in V3Pod}

Shared == {Some([unlimited |-> TRUE, shares |-> 0])}
=============================================================================
