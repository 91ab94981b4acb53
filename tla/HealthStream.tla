---------------------------- MODULE HealthStream ----------------------------
(***************************************************************************)
(* What WatchHealthStatus promises the kubelet about one stream: a report  *)
(* is a snapshot of the health flags, reports arrive in the order in which *)
(* they were taken, and every report after the first is evidence of a      *)
(* probing pass that has completed: the checker is alive.  Passes may be   *)
(* coalesced, but one that completes always leaves a report due.           *)
(***************************************************************************)
EXTENDS Naturals

CONSTANTS
  Devices,  \* the devices of the node
  Nothing   \* no report

VARIABLES
  health,   \* the devices marked as healthy
  probing,  \* a probing pass is under way
  open,     \* the kubelet has the stream open
  due,      \* number of reports that may still be taken
  held,     \* the report that was taken and has not been sent
  shown     \* the last report the kubelet has got

vars == <<health, probing, open, due, held, shown>>

Init ==
  /\ health = Devices /\ probing = FALSE
  /\ open = FALSE /\ due = 0
  /\ held = Nothing /\ shown = Nothing

BeginPass ==
  /\ ~probing /\ probing' = TRUE
  /\ UNCHANGED <<health, open, due, held, shown>>

\* Health changes in a pass only, one device at a time.
Change(d) ==
  /\ probing
  /\ health' = IF d \in health THEN health \ {d} ELSE health \cup {d}
  /\ UNCHANGED <<probing, open, due, held, shown>>

EndPass ==
  /\ probing /\ probing' = FALSE
  /\ due' \in IF open THEN {due, due + 1} \ {0} ELSE {due}
  /\ UNCHANGED <<health, open, held, shown>>

\* The first report is due at once.
Open ==
  /\ ~open /\ open' = TRUE
  /\ due' = 1
  /\ UNCHANGED <<health, probing, held, shown>>

Take ==
  /\ open /\ due > 0
  /\ held' = health
  /\ due' = due - 1
  /\ UNCHANGED <<health, probing, open, shown>>

Send ==
  /\ open /\ held # Nothing
  /\ shown' = held /\ held' = Nothing
  /\ UNCHANGED <<health, probing, open, due>>

Close ==
  /\ open /\ open' = FALSE
  /\ due' = 0 /\ held' = Nothing /\ shown' = Nothing
  /\ UNCHANGED <<health, probing>>

Next ==
  \/ BeginPass \/ EndPass \/ \E d \in Devices : Change(d)
  \/ Open \/ Take \/ Send \/ Close

Spec == Init /\ [][Next]_vars
=============================================================================
