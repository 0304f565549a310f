---------------------------- MODULE SnapshotView -----------------------------
(***************************************************************************)
(* What the live stream promises a page: everything it shows at one time   *)
(* is one snapshot the server published, whole, and it never goes back to  *)
(* an older one.  How the snapshot gets there is module TickStream.        *)
(***************************************************************************)
EXTENDS Naturals, Sequences

CONSTANTS
    Pages,      \* the pages that are open
    Snapshots,  \* what a snapshot can be
    Blank       \* what a page shows before its first message

VARIABLES
    published,  \* every snapshot the server made current, in order
    view        \* page |-> the number and the content of what it shows

viewVars == <<published, view>>

Init ==
    /\ published \in [{1} -> Snapshots]
    /\ view = [p \in Pages |-> [at |-> 0, snap |-> Blank]]

(* A poll makes a new snapshot current. *)
Publish ==
    /\ \E snap \in Snapshots : published' = Append(published, snap)
    /\ UNCHANGED view

(* A page moves on to a snapshot no older than the one it shows. *)
Show(p) ==
    /\ \E n \in DOMAIN published :
          /\ n >= view[p].at
          /\ view' = [view EXCEPT ![p] = [at |-> n, snap |-> published[n]]]
    /\ UNCHANGED published

Next == Publish \/ \E p \in Pages : Show(p)

Spec == Init /\ [][Next]_viewVars

==============================================================================
