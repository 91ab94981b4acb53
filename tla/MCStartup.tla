------------------------------ MODULE MCStartup ------------------------------
(***************************************************************************)
(* Instances of Startup for TLC: a host with two /dev/accel chips, two     *)
(* IOMMU groups with a TPU and one without, and the labels of sane and of  *)
(* misconfigured nodes.                                                    *)
(***************************************************************************)
EXTENDS Startup, TLC

TwoAccels == {"accel0", "accel1"}
ThreeGroups == {"10", "11", "12"}

Function(v, d) == [vendor |-> v, device |-> d]

GroupPci ==
  "10" :> <<Function("google", "tpu")>> @@
  "11" :> <<Function("other", "bridge"), Function("google", "unknown")>> @@
  "12" :> <<Function("other", "gpu"), Function("google", "not_tpu")>>

TwoSources == <<"driver configuration", "Kubernetes node object">>

Type(v, l, f) == [version |-> v, lite |-> l, form |-> f]
V6e == Some(Type("v6e", FALSE, "slice"))
V5Device == Some(Type("v5", TRUE, "device"))
V4 == Some(Type("v4", FALSE, "podslice"))

Labels(a, n, t) == [accelerator |-> a, count |-> n, topology |-> t]

\* Nodes that say little.
PlainOffers ==
  {Labels(V6e, None, None), Labels(V5Device, None, None),
   Labels(V4, Some(2), None), Labels(None, Some(2), None)}

\* Hosts of their own, hosts of a larger slice, and labels that are wrong.
MoreOffers == PlainOffers \cup
  {Labels(V6e, Some(2), Some(<<1, 2>>)), Labels(V6e, Some(1), Some(<<1, 2>>)),
   Labels(V4, None, Some(<<4, 4, 1>>)), Labels(V4, Some(1), Some(<<1, 1>>)),
   Labels(V6e, Some(0), None), Labels(V6e, None, Some(<<2>>)),
   Labels(V5Device, Some(2), Some(<<2, 64, 2>>)),
   Labels(V5Device, None, Some(<<0, 2>>)),
   Labels(Some(Type("v4", FALSE, "device")), None, None)}

Flag(s, n) == [says |-> s, n |-> n]

ThreeFlags == {Flag("disabled", 0), Flag("number", 2), Flag("number", 0)}
FewFlags == {Flag("unlimited", 0), Flag("other", 0)}
=============================================================================
