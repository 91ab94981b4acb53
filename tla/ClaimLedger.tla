----------------------------- MODULE ClaimLedger -----------------------------
(***************************************************************************)
(* What DeviceState promises the kubelet about the claims of a node: a     *)
(* ledger in which every claim is prepared and unprepared in one step.     *)
(* An entry names all of the node's chips, it does not change while it is  *)
(* there, containers run only for claims that have one, and no entry goes  *)
(* away under a running container.  Crashes and reboots of the node may    *)
(* stop containers; they lose no entry.                                    *)
(***************************************************************************)
EXTENDS TLAPS

CONSTANTS
  Claims,      \* UIDs of the ResourceClaims
  NodeLists,   \* lists of prepared devices that name every chip once
  NotPrepared  \* no entry

VARIABLES
  held,    \* the ledger: claim -> its prepared devices
  running  \* claims whose containers may be running

vars == <<held, running>>

Init ==
  /\ held = [c \in Claims |-> NotPrepared]
  /\ running = {}

\* Containers may already wait for their claim to be prepared again.
Prepare(c) ==
  /\ held[c] = NotPrepared
  /\ \E devices \in NodeLists : held' = [held EXCEPT ![c] = devices]
  /\ running' \in {running, running \cup {c}}

Unprepare(c) ==
  /\ held[c] # NotPrepared /\ c \notin running
  /\ held' = [held EXCEPT ![c] = NotPrepared]
  /\ UNCHANGED running

Run(c) ==
  /\ held[c] # NotPrepared
  /\ running' = running \cup {c}
  /\ UNCHANGED held

Stop ==
  /\ running' \in SUBSET running
  /\ UNCHANGED held

Next ==
  \/ \E c \in Claims : Prepare(c) \/ Unprepare(c) \/ Run(c)
  \/ Stop

Spec == Init /\ [][Next]_vars

-----------------------------------------------------------------------------
(* What the ledger is good for.                                            *)

\* Containers run only for claims with an entry, and an entry names every chip once.
EntriesInv ==
  /\ held \in [Claims -> NodeLists \cup {NotPrepared}]
  /\ running \subseteq Claims
  /\ \A c \in running : held[c] # NotPrepared

\* An entry neither changes nor goes away in a step that begins while containers run
\* on its chips, and it is never replaced by another one without an Unprepare.
EntriesStay ==
  [][\A c \in Claims :
       /\ c \in running => held'[c] = held[c]
       /\ held[c] # NotPrepared => held'[c] \in {held[c], NotPrepared}]_vars

-----------------------------------------------------------------------------
(* Proofs.                                                                 *)

\* Every entry is a list of all the chips, and what runs has an entry.
THEOREM EntriesHold ==
  ASSUME NotPrepared \notin NodeLists
  PROVE  Spec => []EntriesInv
<1>1. Init => EntriesInv
  BY DEF Init, EntriesInv
<1>2. EntriesInv /\ [Next]_vars => EntriesInv'
  <2> SUFFICES ASSUME EntriesInv, [Next]_vars PROVE EntriesInv'
    OBVIOUS
  <2> USE DEF EntriesInv
  <2>1. ASSUME NEW c \in Claims, Prepare(c) PROVE EntriesInv'
    BY <2>1 DEF Prepare
  <2>2. ASSUME NEW c \in Claims, Unprepare(c) PROVE EntriesInv'
    BY <2>2 DEF Unprepare
  <2>3. ASSUME NEW c \in Claims, Run(c) PROVE EntriesInv'
    BY <2>3 DEF Run
  <2>4. CASE Stop \/ UNCHANGED vars
    BY <2>4 DEF Stop, vars
  <2> QED
    BY <2>1, <2>2, <2>3, <2>4 DEF Next
<1> QED
  BY <1>1, <1>2, PTL DEF Spec

\* No entry moves under a running container.
THEOREM EntriesNeverMove ==
  ASSUME NotPrepared \notin NodeLists
  PROVE  Spec => EntriesStay
<1>1. EntriesInv /\ Next =>
        \A c \in Claims :
          /\ c \in running => held'[c] = held[c]
          /\ held[c] # NotPrepared => held'[c] \in {held[c], NotPrepared}
  <2> SUFFICES ASSUME EntriesInv, Next, NEW c \in Claims
               PROVE  /\ c \in running => held'[c] = held[c]
                      /\ held[c] # NotPrepared => held'[c] \in {held[c], NotPrepared}
    OBVIOUS
  <2>1. ASSUME NEW d \in Claims, Prepare(d)
        PROVE  d \notin running /\ held[d] = NotPrepared
               /\ \A e \in Claims \ {d} : held'[e] = held[e]
    BY <2>1 DEF Prepare, EntriesInv
  <2>2. ASSUME NEW d \in Claims, Unprepare(d)
        PROVE  d \notin running /\ held'[d] = NotPrepared
               /\ \A e \in Claims \ {d} : held'[e] = held[e]
    BY <2>2 DEF Unprepare, EntriesInv
  <2>3. ASSUME NEW d \in Claims, Run(d) PROVE UNCHANGED held
    BY <2>3 DEF Run
  <2>4. Stop => UNCHANGED held
    BY DEF Stop
  <2> QED
    BY <2>1, <2>2, <2>3, <2>4 DEF Next
<1> QED
  BY <1>1, EntriesHold, PTL DEF Spec, EntriesStay
=============================================================================
