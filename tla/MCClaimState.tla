---------------------------- MODULE MCClaimState ----------------------------
(***************************************************************************)
(* Instances of ClaimState for TLC: two claims, two handlers, two chips.   *)
(***************************************************************************)
EXTENDS ClaimState, TLC

Own(device) == [driver |-> DriverName, device |-> device]
Foreign(device) == [driver |-> "nic.example.com", device |-> device]

\* Both orders of the node's chips, one of them mixed with another driver's.
TwoChips == {"accel0", "accel1"}
GoodAllocations ==
  {<<Own("accel0"), Own("accel1")>>,
   <<Own("accel1"), Foreign("eth0"), Own("accel0")>>}

\* Also a list with one chip twice, which passes the checks of prepareDevices.
MixedAllocations == GoodAllocations \cup {<<Own("accel0"), Own("accel0")>>}

OneAllocation == {<<Own("accel0"), Own("accel1")>>}

\* Also a list with a name that is no chip of the node.
GoodOrWrong == OneAllocation \cup {<<Own("accel0"), Own("accel7")>>}

Symmetry == Permutations(Claims) \cup Permutations(Handlers)
=============================================================================
