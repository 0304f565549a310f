-------------------------------- MODULE Clock --------------------------------
(***************************************************************************)
(* The wall clock the dashboard reads once per poll (time.time() at the    *)
(* top of Monitor.poll_once).  The distance between two polls is not       *)
(* fixed: the loop sleeps POLL_INTERVAL less what the poll took, and a     *)
(* poll that waits for a slow agent, server or page client takes longer.   *)
(***************************************************************************)
EXTENDS Naturals

CONSTANTS
    Gaps,     \* the distances in time that two successive polls may have
    MaxTime   \* bound of the model: the clock stops here

VARIABLE now  \* the time of the latest poll

ASSUME GapsAssumption == Gaps \subseteq Nat \ {0}

(* What the clock may read next. *)
Readings == {t \in {now + gap : gap \in Gaps} : t <= MaxTime}

Reads(t) == t \in Readings /\ now' = t

==============================================================================
