--------------------------- MODULE AlertGateProofs ---------------------------
(***************************************************************************)
(* Proofs about the gate, for every choice of keys, holds and limits.      *)
(***************************************************************************)
EXTENDS AlertGate, TLAPS

(* One step of the gate's maps keeps them over keys and not in the future. *)
LEMMA SinceTyped ==
    ASSUME NEW f, NEW S \in SUBSET Keys, NEW t \in Nat,
           \A k \in DOMAIN f : f[k] \in Nat /\ f[k] <= t
    PROVE  /\ DOMAIN Since(f, S, t) = S
           /\ \A k \in S : Since(f, S, t)[k] \in Nat /\ Since(f, S, t)[k] <= t
  BY DEF Since

(* The transition after a poll is well formed. *)
LEMMA TransitionTyped ==
    ASSUME NEW signal \in BOOLEAN, NEW t \in Nat, TypeOK, now < t
    PROVE  LET tr == UpdateTransition(signal, t)
           IN  tr \in Transition /\ tr.since <= tr.last /\ tr.last <= t
  BY GateAssumption DEF UpdateTransition, TypeOK, Transition, NoTransition

(* Type correctness of the gate. *)
THEOREM GateTypeOK == Spec => []TypeOK
<1>1. Init => TypeOK
  BY DEF Init, TypeOK, TimesUpToNow, Transition, NoTransition, NoSwitch
<1>2. TypeOK /\ [Next]_vars => TypeOK'
  <2> SUFFICES ASSUME TypeOK, [Next]_vars PROVE TypeOK'
    OBVIOUS
  <2>1. ASSUME NEW t \in Readings, Restart(t) PROVE TypeOK'
    BY <2>1, GapsAssumption
    DEF Restart, NewGate, Reads, Readings, TypeOK, TimesUpToNow, Transition,
        NoTransition, NoSwitch
  <2>2. ASSUME NEW t \in Readings, NEW present \in SUBSET Keys,
               NEW signal \in BOOLEAN, Poll(present, signal, t)
        PROVE  TypeOK'
    <3>1. t \in Nat /\ now < t /\ now' = t
      BY <2>2, GapsAssumption DEF Poll, Reads, Readings, TypeOK
    <3>2. TimesUpToNow(first_seen)'
      BY <2>2, <3>1, SinceTyped DEF Poll, Judge, TypeOK, TimesUpToNow
    <3>3. /\ transition' \in Transition
          /\ transition'.since <= transition'.last
          /\ transition'.last <= now'
      BY <2>2, <3>1, TransitionTyped DEF Poll, Judge
    <3>4. shown' \subseteq DOMAIN first_seen'
      BY <2>2, <3>1 DEF Poll, Judge, Shown, Since
    <3>5. TimesUpToNow(run)'
      BY <2>2, <3>1 DEF Poll, Judge, RecordHistory, TypeOK, TimesUpToNow
    <3>6. TimesUpToNow(quiet)'
      <4>1. quiet' = [k \in Due(present, t) \ shown' |->
                         IF k \in DOMAIN quiet THEN quiet[k] ELSE t]
        BY <2>2 DEF Poll, Judge, RecordHistory
      <4>2. Due(present, t) \subseteq Keys
        BY DEF Due
      <4> QED
        BY <4>1, <4>2, <3>1 DEF TypeOK, TimesUpToNow
    <3>7. switch' \in [calm : BOOLEAN, first : Nat, last : Nat]
      BY <2>2, <3>1 DEF Poll, Judge, RecordHistory, TypeOK
    <3> QED
      BY <3>1, <3>2, <3>3, <3>4, <3>5, <3>6, <3>7 DEF TypeOK
  <2>3. CASE UNCHANGED vars
    BY <2>3 DEF vars, gateVars, historyVars, TypeOK, TimesUpToNow
  <2> QED
    BY <2>1, <2>2, <2>3 DEF Next
<1> QED
  BY <1>1, <1>2, PTL DEF Spec

-----------------------------------------------------------------------------
(* The history's run is what the gate takes for first-seen: the code       *)
(* forgets a key exactly when a poll is without it, suppressed or not.     *)
RunIsFirstSeen == run = first_seen

(* The inductive invariant behind BoundedSilence. *)
GateInv == TypeOK /\ RunIsFirstSeen /\ QuietUnderOneTransition

(* A poll keeps first-seen equal to the run it stands for. *)
LEMMA RunStep ==
    ASSUME RunIsFirstSeen, NEW present, NEW signal, NEW t, Judge(present, signal, t)
    PROVE  RunIsFirstSeen'
  BY DEF RunIsFirstSeen, Judge, RecordHistory, Since

(* A key that is due and not shown is hidden by a transition in force. *)
LEMMA HiddenByTransition ==
    ASSUME RunIsFirstSeen, NEW present, NEW signal, NEW t, Judge(present, signal, t),
           NEW k \in Due(present, t) \ shown'
    PROVE  k \in TransitionKeys /\ Suppressing(transition', t)
  <1>1. first_seen' = run'
    BY RunStep DEF RunIsFirstSeen
  <1> QED
    BY <1>1 DEF Judge, Shown, Due

(* A transition still in force after a poll that had begun before it is    *)
(* the same one.                                                           *)
LEMMA SameTransition ==
    ASSUME NEW signal \in BOOLEAN, NEW t, transition.active
    PROVE  LET tr == UpdateTransition(signal, t)
           IN  tr.active => tr.since = transition.since
  BY DEF UpdateTransition, NoTransition

(* GateTypeOK, QuietUnderOneTransition and RunIsFirstSeen together are     *)
(* preserved by every poll of AlertGate.filter.                            *)
THEOREM GateInvariant == Spec => []GateInv
<1>1. Init => RunIsFirstSeen /\ QuietUnderOneTransition
  BY DEF Init, RunIsFirstSeen, QuietUnderOneTransition
<1>2. GateInv /\ TypeOK' /\ [Next]_vars => RunIsFirstSeen' /\ QuietUnderOneTransition'
  <2> SUFFICES ASSUME GateInv, TypeOK', [Next]_vars
               PROVE  RunIsFirstSeen' /\ QuietUnderOneTransition'
    OBVIOUS
  <2>1. ASSUME NEW t \in Readings, Restart(t)
        PROVE  RunIsFirstSeen' /\ QuietUnderOneTransition'
    BY <2>1 DEF Restart, NewGate, RunIsFirstSeen, QuietUnderOneTransition
  <2>2. ASSUME NEW t \in Readings, NEW present \in SUBSET Keys,
               NEW signal \in BOOLEAN, Poll(present, signal, t)
        PROVE  RunIsFirstSeen' /\ QuietUnderOneTransition'
    <3>1. RunIsFirstSeen'
      BY <2>2, RunStep DEF Poll, GateInv
    <3>2. ASSUME NEW k \in DOMAIN quiet'
          PROVE  /\ k \in TransitionKeys
                 /\ Suppressing(transition, now)'
                 /\ transition'.since <= quiet'[k]
      <4>1. /\ quiet' = [x \in Due(present, t) \ shown' |->
                            IF x \in DOMAIN quiet THEN quiet[x] ELSE t]
            /\ k \in Due(present, t) \ shown'
        BY <2>2, <3>2 DEF Poll, Judge, RecordHistory
      <4>2. k \in TransitionKeys /\ Suppressing(transition', t)
        BY <4>1, <2>2, HiddenByTransition DEF Poll, GateInv
      <4>3. now' = t
        BY <2>2 DEF Poll, Reads
      <4>4. transition'.since <= t
        BY <4>3 DEF TypeOK, Transition
      <4>5. CASE k \in DOMAIN quiet
        <5>1. transition.active /\ transition.since <= quiet[k]
          BY <4>5 DEF GateInv, QuietUnderOneTransition, Suppressing
        <5>2. transition'.since = transition.since
          BY <5>1, <4>2, <2>2, SameTransition DEF Poll, Judge, Suppressing
        <5> QED
          BY <5>1, <5>2, <4>1, <4>2, <4>3, <4>5 DEF Suppressing
      <4>6. CASE k \notin DOMAIN quiet
        BY <4>1, <4>2, <4>3, <4>4, <4>6 DEF Suppressing
      <4> QED
        BY <4>5, <4>6
    <3> QED
      BY <3>1, <3>2 DEF QuietUnderOneTransition
  <2>3. CASE UNCHANGED vars
    BY <2>3 DEF vars, gateVars, historyVars, GateInv, RunIsFirstSeen,
                QuietUnderOneTransition, Suppressing
  <2> QED
    BY <2>1, <2>2, <2>3 DEF Next
<1> QED
  BY <1>1, <1>2, GateTypeOK, PTL DEF Spec, GateInv

(* No condition that has outlasted its hold is kept quiet for              *)
(* TRANSITION_MAX or longer, and only a reachability key is kept quiet.    *)
THEOREM SilenceIsBounded == Spec => []BoundedSilence
<1>1. GateInv => BoundedSilence
  BY GateAssumption
  DEF GateInv, TypeOK, TimesUpToNow, Transition, QuietUnderOneTransition,
      Suppressing, BoundedSilence
<1> QED
  BY <1>1, GateInvariant, PTL

-----------------------------------------------------------------------------
(* The transition the code tracks is the switch the history tells of. *)
SwitchIsTransition ==
    /\ switch \in [calm : BOOLEAN, first : Nat, last : Nat]
    /\ transition.active <=> ~switch.calm
    /\ transition.active => /\ switch.first = transition.since
                            /\ switch.last = transition.last

(* The two update alike. *)
LEMMA SwitchStep ==
    ASSUME TypeOK, SwitchIsTransition, NEW present \in SUBSET Keys,
           NEW signal \in BOOLEAN, NEW t \in Nat, Judge(present, signal, t)
    PROVE  SwitchIsTransition'
<1>1. switch' =
        [calm |-> ~signal /\ (switch.calm \/ t > switch.last + TransitionTail),
         first |-> IF signal /\ switch.calm THEN t ELSE switch.first,
         last |-> IF signal THEN t ELSE switch.last]
  BY DEF Judge, RecordHistory
<1>2. transition' = UpdateTransition(signal, t)
  BY DEF Judge
<1>3. CASE signal
  BY <1>1, <1>2, <1>3 DEF SwitchIsTransition, UpdateTransition, TypeOK, Transition
<1>4. CASE ~signal
  <2>1. transition.active =>
          (t > switch.last + TransitionTail <=> t - transition.last > TransitionTail)
    BY GateAssumption DEF SwitchIsTransition, TypeOK, Transition
  <2> QED
    BY <1>1, <1>2, <1>4, <2>1
    DEF SwitchIsTransition, UpdateTransition, TypeOK, Transition, NoTransition
<1> QED
  BY <1>3, <1>4

(* What the gate shows after a poll, exactly: what has held, less the      *)
(* reachability keys while a switch is under way.                          *)
ShownExactly ==
    shown = {k \in DOMAIN run :
                /\ ~(k \in TransitionKeys /\ SwitchUnderWay)
                /\ now - run[k] >= Hold[k]}

LEMMA ShownStep ==
    ASSUME RunIsFirstSeen, SwitchIsTransition', NEW present, NEW signal, NEW t,
           Judge(present, signal, t), now' = t
    PROVE  ShownExactly'
<1>1. first_seen' = run' /\ DOMAIN run' = present
  BY RunStep DEF RunIsFirstSeen, Judge, RecordHistory
<1>2. Suppressing(transition', t) <=> SwitchUnderWay'
  BY DEF SwitchIsTransition, SwitchUnderWay, Suppressing
<1> QED
  BY <1>1, <1>2 DEF ShownExactly, Judge, Shown

(* AlertGate.filter shows what is present past its hold and not hidden by  *)
(* the transition, no more and no less.                                    *)
THEOREM GateShowsExactly == Spec => [](SwitchIsTransition /\ ShownExactly)
<1> DEFINE Inv == SwitchIsTransition /\ ShownExactly
<1> DOMAIN <<>> = {}
  OBVIOUS
<1>1. Init => Inv
  <2>1. Init => SwitchIsTransition
    BY DEF Init, SwitchIsTransition, NoTransition, NoSwitch
  <2>2. Init => ShownExactly
    BY DEF Init, ShownExactly
  <2> QED
    BY <2>1, <2>2
<1>2. TypeOK /\ RunIsFirstSeen /\ Inv /\ [Next]_vars => Inv'
  <2> SUFFICES ASSUME TypeOK, RunIsFirstSeen, Inv, [Next]_vars PROVE Inv'
    OBVIOUS
  <2>1. ASSUME NEW t \in Readings, Restart(t) PROVE Inv'
    <3>1. SwitchIsTransition'
      BY <2>1 DEF Restart, NewGate, SwitchIsTransition, NoTransition, NoSwitch
    <3>2. ShownExactly'
      BY <2>1 DEF Restart, NewGate, ShownExactly
    <3> QED
      BY <3>1, <3>2
  <2>2. ASSUME NEW t \in Readings, NEW present \in SUBSET Keys,
               NEW signal \in BOOLEAN, Poll(present, signal, t)
        PROVE  Inv'
    <3>1. t \in Nat /\ now' = t
      BY <2>2, GapsAssumption DEF Poll, Reads, Readings, TypeOK
    <3>2. SwitchIsTransition'
      BY <2>2, <3>1, SwitchStep DEF Poll
    <3> QED
      BY <2>2, <3>1, <3>2, ShownStep DEF Poll
  <2>3. CASE UNCHANGED vars
    BY <2>3 DEF vars, gateVars, historyVars, SwitchIsTransition, ShownExactly,
                SwitchUnderWay
  <2> QED
    BY <2>1, <2>2, <2>3 DEF Next
<1> QED
  BY <1>1, <1>2, GateInvariant, PTL DEF Spec, GateInv

(* While a switch is under way no reachability alert is shown, and nothing *)
(* is shown before its hold.                                               *)
THEOREM SwitchesAreQuiet == Spec => []PlannedSwitchIsQuiet
<1>1. ShownExactly => PlannedSwitchIsQuiet
  BY DEF ShownExactly, PlannedSwitchIsQuiet
<1> QED
  BY <1>1, GateShowsExactly, PTL

(* Everything that has held is shown, unless a young switch hides it. *)
THEOREM OutagesAreShown == Spec => []HeldConditionIsShown
<1>1. ShownExactly => HeldConditionIsShown
  BY DEF ShownExactly, HeldConditionIsShown
<1> QED
  BY <1>1, GateShowsExactly, PTL

(* A load that ends in failure alerts on the poll that closes the          *)
(* transition.                                                             *)
THEOREM FailuresAlertAtOnce == Spec => FailedLoadAlertsAtOnce
<1>1. SwitchIsTransition' /\ ShownExactly' =>
        (transition.active /\ ~transition'.active
           => \A k \in DOMAIN run' : now' - run'[k] >= Hold[k] => k \in shown')
  BY DEF SwitchIsTransition, ShownExactly, SwitchUnderWay
<1> QED
  BY <1>1, GateShowsExactly, PTL DEF FailedLoadAlertsAtOnce

==============================================================================
