------------------------------ MODULE AlertGate ------------------------------
(***************************************************************************)
(* alerts.AlertGate: what is worth saying of what the rules found true on  *)
(* a poll.  A condition must hold for its HOLD_SECONDS, and while a        *)
(* restart or a model switch is visibly under way the reachability rules   *)
(* it trips by design are held back, up to TRANSITION_MAX.                 *)
(*                                                                         *)
(* A poll hands the gate the keys present on it and whether               *)
(* transition_signal() gave a reason.  The reason's wording is left out.   *)
(* The gate lives in the process: a restart of the dashboard loses it.     *)
(***************************************************************************)
EXTENDS Clock

CONSTANTS
    Keys,            \* the alert keys the rules can raise
    TransitionKeys,  \* those a transition holds back (config.TRANSITION_KEYS)
    Hold,            \* key |-> seconds (config.HOLD_SECONDS.get(k, 0))
    TransitionMax,   \* config.TRANSITION_MAX
    TransitionTail   \* config.TRANSITION_TAIL

ASSUME GateAssumption ==
    /\ TransitionKeys \subseteq Keys
    /\ Hold \in [Keys -> Nat]
    /\ TransitionMax \in Nat \ {0}
    /\ TransitionTail \in Nat

VARIABLES
    first_seen,  \* key |-> the poll since which it has been present
    transition,  \* the transition being tracked, or NoTransition
    shown,       \* the keys apply() returned on the latest poll
    \* History, kept for the properties only.
    run,         \* key |-> first poll of the unbroken run of polls it is in
    quiet,       \* key |-> since when it is past its hold and yet not shown
    switch       \* the polls with a signal: the first and last of the latest
                 \* switch, and whether a calm poll has closed it

gateVars == <<first_seen, transition, shown>>
historyVars == <<run, quiet, switch>>
vars == <<now, gateVars, historyVars>>

NoTransition == [active |-> FALSE, since |-> 0, last |-> 0]

Transition == [active : BOOLEAN, since : Nat, last : Nat]

-----------------------------------------------------------------------------
(* Mutant: the first poll without a signal ends the transition. *)
UpdateTransitionNoTail(signal, t) ==
    IF signal
      THEN [active |-> TRUE,
            since |-> IF transition.active THEN transition.since ELSE t,
            last |-> t]
      ELSE NoTransition

(* update_transition: a signal starts a transition or keeps it alive; with *)
(* no signal it outlives the last one by TRANSITION_TAIL.                  *)
UpdateTransition(signal, t) ==
    IF signal
      THEN [active |-> TRUE,
            since |-> IF transition.active THEN transition.since ELSE t,
            last |-> t]
      ELSE IF transition.active /\ t - transition.last > TransitionTail
             THEN NoTransition
             ELSE transition

(* Mutant: a stalled transition goes on suppressing. *)
SuppressingStalled(tr, t) == tr.active

(* suppressing: a transition is under way and is not yet stalled. *)
Suppressing(tr, t) == tr.active /\ t - tr.since < TransitionMax

(* first_seen forgets the keys that are absent and starts the new ones. *)
Since(seen, present, t) ==
    [k \in present |-> IF k \in DOMAIN seen THEN seen[k] ELSE t]

(* Mutant: a hold must be exceeded, not reached. *)
ShownLate(seen, tr, present, t) ==
    {k \in present :
        /\ ~(Suppressing(tr, t) /\ k \in TransitionKeys)
        /\ t - seen[k] > Hold[k]}

(* The keys apply() lets through. *)
Shown(seen, tr, present, t) ==
    {k \in present :
        /\ ~(Suppressing(tr, t) /\ k \in TransitionKeys)
        /\ t - seen[k] >= Hold[k]}

-----------------------------------------------------------------------------
(* What the history records: the run of polls on which a key was present,  *)
(* within it the stretch on which it was due and not shown, and the latest *)
(* switch, which a poll without a signal closes once the last signal is    *)
(* more than TRANSITION_TAIL ago.                                          *)
NoSwitch == [calm |-> TRUE, first |-> 0, last |-> 0]

Due(present, t) == {k \in present : t - run'[k] >= Hold[k]}

RecordHistory(present, signal, t) ==
    /\ run' = [k \in present |-> IF k \in DOMAIN run THEN run[k] ELSE t]
    /\ quiet' = [k \in Due(present, t) \ shown' |->
                    IF k \in DOMAIN quiet THEN quiet[k] ELSE t]
    /\ switch' =
        [calm |-> ~signal /\ (switch.calm \/ t > switch.last + TransitionTail),
         first |-> IF signal /\ switch.calm THEN t ELSE switch.first,
         last |-> IF signal THEN t ELSE switch.last]

(* Mutant: what is suppressed is not tracked, so its hold starts again when *)
(* the transition ends.                                                    *)
JudgeUntracked(present, signal, t) ==
    /\ transition' = UpdateTransition(signal, t)
    /\ first_seen' = Since(first_seen,
                           IF Suppressing(transition', t) THEN present \ TransitionKeys
                           ELSE present, t)
    /\ shown' = Shown(first_seen', transition', present, t)
    /\ RecordHistory(present, signal, t)

(* One poll through the gate, in the order of Monitor._judge.  First-seen  *)
(* is tracked while suppressed too.                                        *)
Judge(present, signal, t) ==
    /\ transition' = UpdateTransition(signal, t)
    /\ first_seen' = Since(first_seen, present, t)
    /\ shown' = Shown(first_seen', transition', present, t)
    /\ RecordHistory(present, signal, t)

Poll(present, signal, t) ==
    /\ Reads(t)
    /\ Judge(present, signal, t)

(* A new AlertGate(), as a new process builds it. *)
NewGate ==
    /\ first_seen' = <<>>
    /\ transition' = NoTransition
    /\ shown' = {}
    /\ run' = <<>>
    /\ quiet' = <<>>
    /\ switch' = NoSwitch

(* The dashboard stops and starts again at time t. *)
Restart(t) ==
    /\ Reads(t)
    /\ NewGate

Init ==
    /\ now = 0
    /\ first_seen = <<>>
    /\ transition = NoTransition
    /\ shown = {}
    /\ run = <<>>
    /\ quiet = <<>>
    /\ switch = NoSwitch

Next ==
    \E t \in Readings :
        \/ Restart(t)
        \/ \E present \in SUBSET Keys, signal \in BOOLEAN :
              Poll(present, signal, t)

Spec == Init /\ [][Next]_vars

-----------------------------------------------------------------------------
(* A key |-> time map over some of the keys, with no time in the future. *)
TimesUpToNow(f) ==
    /\ DOMAIN f \subseteq Keys
    /\ \A k \in DOMAIN f : f[k] \in Nat /\ f[k] <= now

(* The type invariant: the gate's maps are over keys and hold no time      *)
(* later than the latest poll; a live transition began before its last     *)
(* signal.                                                                 *)
TypeOK ==
    /\ now \in Nat
    /\ TimesUpToNow(first_seen)
    /\ transition \in Transition
    /\ transition.since <= transition.last
    /\ transition.last <= now
    /\ shown \subseteq DOMAIN first_seen
    /\ TimesUpToNow(run)
    /\ TimesUpToNow(quiet)
    /\ switch \in [calm : BOOLEAN, first : Nat, last : Nat]

(* What TRANSITION_MAX is for (config.py: "up to a limit, after which a    *)
(* load that never finishes alerts like anything else"): no condition that *)
(* has outlasted its hold is kept quiet for TRANSITION_MAX or longer,      *)
(* whatever comes and goes in the meantime, and only a reachability key is *)
(* ever kept quiet.                                                        *)
BoundedSilence ==
    \A k \in DOMAIN quiet :
        k \in TransitionKeys /\ now - quiet[k] < TransitionMax

(* The inductive form of BoundedSilence: the transition that hides a key   *)
(* began no later than the silence, has not stalled, and is still the same *)
(* one.                                                                    *)
QuietUnderOneTransition ==
    \A k \in DOMAIN quiet :
        /\ k \in TransitionKeys
        /\ Suppressing(transition, now)
        /\ transition.since <= quiet[k]

(* alerts.py: "a load that ends in failure alerts the moment the           *)
(* transition closes, not a hold later".  On the poll a transition ends,   *)
(* everything that has been present for its hold is shown, the time under  *)
(* the transition counted in.                                              *)
FailedLoadAlertsAtOnce ==
    [][transition.active /\ ~transition'.active
       => \A k \in DOMAIN run' : now' - run'[k] >= Hold[k] => k \in shown']_vars

(* The purpose of the gate ("a planned switch used to log three or four    *)
(* criticals"): from the first signal of a switch until a poll finds the   *)
(* last one more than TRANSITION_TAIL old, and for less than               *)
(* TRANSITION_MAX, no reachability alert is shown; and nothing is ever     *)
(* shown that was absent on a poll of its last HOLD_SECONDS.               *)
SwitchUnderWay == ~switch.calm /\ now - switch.first < TransitionMax

PlannedSwitchIsQuiet ==
    /\ SwitchUnderWay => shown \cap TransitionKeys = {}
    /\ \A k \in shown : k \in DOMAIN run /\ now - run[k] >= Hold[k]

(* The other side of it: whatever else happened, an outage that has been   *)
(* there on every poll of its hold is shown, unless it is a reachability   *)
(* key and a switch is under way that began less than TRANSITION_MAX ago.  *)
HeldConditionIsShown ==
    \A k \in DOMAIN run :
        now - run[k] >= Hold[k] =>
            k \in shown \/ (k \in TransitionKeys /\ SwitchUnderWay)

==============================================================================
