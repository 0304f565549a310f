---------------------------- MODULE MCTickStream -----------------------------
(***************************************************************************)
(* What leaves the dashboard for TLC, in two parts, of which a behaviour   *)
(* is one: the live stream to the pages (two sections, of which one comes, *)
(* changes and goes), and the alerts that a forwarder fetches (a condition *)
(* that is pushed at both of its ranks, and a warning that is not).        *)
(***************************************************************************)
EXTENDS TickStream, Forwarder

VARIABLE part

partVars == <<part, vars, forwarderVars>>

SnapshotsMade ==
    {[slots |-> 0, stats |-> 0], [slots |-> 1, stats |-> 0],
     [slots |-> 1, stats |-> Absent]}

Pushed == {"gpu"} \X {2, 3}

RanksShown == [k \in Conditions |-> IF k = "gpu" THEN {2, 3} ELSE {1}]

ClientsInit == part \in {"stream", "forwarder"} /\ Init /\ ForwarderInit

ClientsNext ==
    /\ UNCHANGED part
    /\ \/ part = "stream" /\ Next /\ UNCHANGED forwarderVars
       \/ part = "forwarder" /\ ForwarderNext /\ UNCHANGED vars

ClientsSpec == ClientsInit /\ [][ClientsNext]_partVars

==============================================================================
