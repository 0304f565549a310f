------------------------- MODULE AlertPipelineProofs -------------------------
(***************************************************************************)
(* What the notifier may be trusted to say, for every choice of keys,      *)
(* holds, levels and limits, any number of restarts and any number of      *)
(* polls in which the store fails.                                         *)
(***************************************************************************)
EXTENDS AlertPipeline, AlertGateProofs

(* Every step but a stutter reads the clock. *)
LEMMA ReadingIsLater ==
    ASSUME now \in Nat, NEW t \in Readings
    PROVE  t \in Nat /\ now < t
  BY GapsAssumption DEF Readings

(* A poll of the gate gives the run of every key that is present. *)
LEMMA RunAfterPoll ==
    ASSUME NEW present, NEW signal, NEW t, Judge(present, signal, t)
    PROVE  run' = [k \in present |-> IF k \in DOMAIN run THEN run[k] ELSE t]
  BY DEF Judge, RecordHistory

-----------------------------------------------------------------------------
(* What the grace period rests on: the process was started in the past,    *)
(* and a key's first-seen is the first poll of its unbroken run.           *)
GraceInv ==
    /\ now \in Nat
    /\ started \in Nat /\ started <= now
    /\ RunIsFirstSeen
    /\ DOMAIN run \subseteq Keys
    /\ \A k \in DOMAIN run : run[k] \in Nat /\ run[k] <= now
    /\ ClearedMeansGone

(* A poll of the gate keeps all of it but the last conjunct. *)
LEMMA GraceTyped ==
    ASSUME GraceInv, NEW alerts \in RaisedAlerts, NEW signal \in BOOLEAN,
           NEW t \in Readings, GatePoll(alerts, signal, t), started' = started
    PROVE  /\ now' = t /\ now' \in Nat
           /\ started' \in Nat /\ started' <= now'
           /\ RunIsFirstSeen'
           /\ DOMAIN run' \subseteq Keys
           /\ \A k \in DOMAIN run' : run'[k] \in Nat /\ run'[k] <= now'
<1>1. now' = t /\ t \in Nat /\ now < t
  BY ReadingIsLater DEF GatePoll, Poll, Reads, GraceInv
<1>2. Judge(DOMAIN alerts, signal, t)
  BY DEF GatePoll, Poll
<1>3. DOMAIN alerts \subseteq Keys
  BY DEF RaisedAlerts
<1>4. run' = [k \in DOMAIN alerts |-> IF k \in DOMAIN run THEN run[k] ELSE t]
  BY <1>2, RunAfterPoll
<1>5. RunIsFirstSeen'
  BY <1>2, RunStep DEF GraceInv
<1> QED
  BY <1>1, <1>3, <1>4, <1>5 DEF GraceInv

(* A key present on every poll since shortly after the start is shown once *)
(* the grace is over, unless a transition holds it back.                   *)
LEMMA BackBeforeGraceEnds ==
    ASSUME GraceInv, NEW alerts \in RaisedAlerts, NEW signal \in BOOLEAN,
           NEW t \in Readings, GatePoll(alerts, signal, t), started' = started,
           t - started >= Grace,
           NEW k \in DOMAIN run', run'[k] <= started + FirstPollDelay,
           ~(k \in TransitionKeys /\ Suppressing(transition', t))
    PROVE  k \in shown'
<1>1. t \in Nat /\ started \in Nat /\ run'[k] \in Nat /\ k \in Keys
  BY GraceTyped DEF GraceInv
<1>2. first_seen' = run'
  BY GraceTyped DEF RunIsFirstSeen
<1>3. Grace \in Nat /\ FirstPollDelay \in Nat /\ Hold[k] \in Nat
      /\ Grace >= Hold[k] + FirstPollDelay
  BY <1>1, PipelineAssumption, LedgerAssumption, GateAssumption
<1>4. t - first_seen'[k] >= Hold[k]
  BY <1>1, <1>2, <1>3
<1>5. Judge(DOMAIN alerts, signal, t)
  BY DEF GatePoll, Poll
<1>6. k \in DOMAIN alerts
  BY <1>5, RunAfterPoll
<1> QED
  BY <1>4, <1>5, <1>6 DEF Judge, Shown

(* A poll's message calls nothing cleared that is still there. *)
LEMMA ClearedStep ==
    ASSUME GraceInv, NEW alerts \in RaisedAlerts, NEW signal \in BOOLEAN,
           NEW t \in Readings, GatePoll(alerts, signal, t),
           Update(Current(alerts), t)
    PROVE  ClearedMeansGone'
<1>1. started' = started
  BY DEF Update
<1>2. news'.cleared = Cleared(Current(alerts), t)
  BY DEF Update, Lines
<1>3. now' = t
  BY <1>1, GraceTyped
<1> SUFFICES ASSUME NEW k \in news'.cleared,
                    k \in DOMAIN run', run'[k] <= started + FirstPollDelay,
                    ~(k \in TransitionKeys /\ Suppressing(transition', t))
             PROVE  k \in shown'
  <2>1. \A k \in DOMAIN run' : run'[k] \in Nat
    BY <1>1, GraceTyped
  <2>2. started + FirstPollDelay \in Nat
    BY PipelineAssumption DEF GraceInv
  <2> QED
    BY <1>1, <1>3, <2>1, <2>2 DEF ClearedMeansGone
<1>4. t - started >= Grace
  BY <1>2 DEF Cleared
<1> QED
  BY <1>1, <1>4, BackBeforeGraceEnds

(* A step without news has nothing to answer for. *)
LEMMA NoNewsNoClear ==
    ASSUME news' = NoNews
    PROVE  ClearedMeansGone'
  BY DEF ClearedMeansGone, NoNews

(* reconcile_alerts: once the grace period is over, whatever has been      *)
(* there on every poll since the start has its hold behind it.             *)
THEOREM PipelineGrace == PipeSpec => []GraceInv
<1>1. PipeInit => GraceInv
  BY DEF PipeInit, Init, InitLedger, GraceInv, RunIsFirstSeen, ClearedMeansGone, NoNews
<1>2. GraceInv /\ [PipeNext]_pipeVars => GraceInv'
  <2> SUFFICES ASSUME GraceInv, [PipeNext]_pipeVars PROVE GraceInv'
    OBVIOUS
  <2>1. ASSUME NEW t \in Readings, RestartDashboard(t) PROVE GraceInv'
    <3>1. t \in Nat /\ now' = t
      BY <2>1, ReadingIsLater DEF RestartDashboard, Restart, Reads, GraceInv
    <3>2. started' = t /\ run' = <<>> /\ first_seen' = <<>> /\ news' = NoNews
      BY <2>1 DEF RestartDashboard, Restart, NewGate, ReloadLedger
    <3> QED
      BY <3>1, <3>2, NoNewsNoClear DEF GraceInv, RunIsFirstSeen
  <2>2. ASSUME NEW t \in Readings, NEW signal \in BOOLEAN, JudgeRulesFail(signal, t)
        PROVE  GraceInv'
    <3>1. t \in Nat /\ now < t /\ now' = t
      BY <2>2, ReadingIsLater DEF JudgeRulesFail, Reads, GraceInv
    <3>2. UNCHANGED <<started, run, first_seen>> /\ news' = NoNews
      BY <2>2 DEF JudgeRulesFail, NoUpdate, historyVars
    <3> QED
      BY <3>1, <3>2, NoNewsNoClear DEF GraceInv, RunIsFirstSeen
  <2>3. ASSUME NEW t \in Readings, NEW signal \in BOOLEAN, NEW alerts \in RaisedAlerts,
               JudgePoll(alerts, signal, t)
        PROVE  GraceInv'
    <3>1. GatePoll(alerts, signal, t) /\ Update(Current(alerts), t)
      BY <2>3 DEF JudgePoll
    <3>2. started' = started
      BY <3>1 DEF Update
    <3>3. ClearedMeansGone'
      BY <3>1, ClearedStep
    <3> QED
      BY <3>1, <3>2, <3>3, GraceTyped DEF GraceInv
  <2>4. ASSUME NEW t \in Readings, NEW signal \in BOOLEAN, NEW alerts \in RaisedAlerts,
               \/ JudgeEventFails(alerts, signal, t)
               \/ JudgeSaveFails(alerts, signal, t)
        PROVE  GraceInv'
    <3>1. GatePoll(alerts, signal, t) /\ started' = started /\ news' = NoNews
      BY <2>4 DEF JudgeEventFails, JudgeSaveFails, NoUpdate, UpdateNotSaved
    <3> QED
      BY <3>1, GraceTyped, NoNewsNoClear DEF GraceInv
  <2>5. CASE UNCHANGED pipeVars
    BY <2>5 DEF pipeVars, vars, gateVars, historyVars, ledgerVars, toldVars,
                GraceInv, RunIsFirstSeen, ClearedMeansGone, Suppressing
  <2> QED
    BY <2>1, <2>2, <2>3, <2>4, <2>5 DEF PipeNext
<1> QED
  BY <1>1, <1>2, PTL DEF PipeSpec

(* Nothing is called cleared that has been there since the process started.*)
THEOREM PipelineNoFalseClear == PipeSpec => []ClearedMeansGone
<1>1. GraceInv => ClearedMeansGone
  BY DEF GraceInv
<1> QED
  BY <1>1, PipelineGrace, PTL

-----------------------------------------------------------------------------
(* What "a restart repeats nothing" rests on: unless a write of it failed, *)
(* the keys open in memory and the keys open in the stored row are those   *)
(* the recipient was last told are on.                                     *)
ToldOpen(k) == k \in DOMAIN told /\ told[k].open

LedgerInv ==
    ~unsaved =>
        \A k : /\ k \in DOMAIN open <=> ToldOpen(k)
               /\ k \in DOMAIN saved.open <=> ToldOpen(k)

(* The lines of one message announce what was not open and clear what was. *)
LEMMA LinesFollowOpen ==
    ASSUME NEW current, NEW t, Update(current, t)
    PROVE  /\ news'.announced \cap DOMAIN open = {}
           /\ news'.cleared \subseteq DOMAIN open
           /\ news'.escalated \subseteq DOMAIN open
           /\ news'.cleared \cap Said(news') = {}
  BY DEF Update, Lines, Announced, Escalated, Cleared, Said

(* After update() the open keys are the ones it was, and those announced,  *)
(* less those cleared; the recipient has been told the same.               *)
LEMMA UpdateKeepsLedger ==
    ASSUME LedgerInv, NEW current, NEW t, Update(current, t), unsaved' = unsaved
    PROVE  LedgerInv'
<1> SUFFICES ASSUME ~unsaved, NEW k
             PROVE  /\ k \in DOMAIN open' <=> ToldOpen(k)'
                    /\ k \in DOMAIN saved'.open <=> ToldOpen(k)'
  BY DEF LedgerInv
<1>1. /\ k \in DOMAIN open <=> ToldOpen(k)
      /\ k \in DOMAIN saved.open <=> ToldOpen(k)
  BY DEF LedgerInv, ToldOpen
<1>2. /\ open' = OpenAfter(current, news')
      /\ saved' = IF AnyLine(news') THEN [open |-> open', last |-> last'] ELSE saved
      /\ told' = TellAfter(news', t)
  BY DEF Update
<1>3. k \in DOMAIN open' <=> ToldOpen(k)'
  <2>1. k \in DOMAIN open' <=>
          (k \in DOMAIN open \/ k \in news'.announced) /\ k \notin news'.cleared
    BY <1>2 DEF OpenAfter
  <2>2. k \in DOMAIN told' <=> (k \in DOMAIN told \/ k \in Said(news'))
    BY <1>2 DEF TellAfter
  <2>3. CASE k \in Said(news')
    <3>1. told'[k] = [open |-> TRUE, at |-> t]
      BY <1>2, <2>3 DEF TellAfter
    <3> QED
      BY <2>1, <2>2, <2>3, <3>1, LinesFollowOpen DEF Said, ToldOpen
  <2>4. CASE k \in news'.cleared
    <3>1. ToldOpen(k) /\ k \notin Said(news')
      BY <1>1, <2>4, LinesFollowOpen
    <3>2. told'[k] = [open |-> FALSE, at |-> told[k].at]
      BY <1>2, <2>4, <3>1 DEF TellAfter, ToldOpen
    <3>3. ~told'[k].open
      BY <3>1, <3>2 DEF ToldOpen
    <3> QED
      BY <2>1, <2>4, <3>3 DEF ToldOpen
  <2>5. CASE k \notin Said(news') /\ k \notin news'.cleared
    <3>1. k \in DOMAIN told => told'[k] = told[k]
      BY <1>2, <2>5 DEF TellAfter
    <3> QED
      BY <1>1, <2>1, <2>2, <2>5, <3>1 DEF Said, ToldOpen
  <2> QED
    BY <2>3, <2>4, <2>5
<1>4. CASE AnyLine(news')
  BY <1>2, <1>3, <1>4
<1>5. CASE ~AnyLine(news')
  <2>1. k \notin Said(news') /\ k \notin news'.cleared
    BY <1>5 DEF AnyLine
  <2>2. ToldOpen(k)' <=> ToldOpen(k)
    BY <1>2, <2>1 DEF TellAfter, ToldOpen
  <2> QED
    BY <1>1, <1>2, <1>3, <1>5, <2>2
<1> QED
  BY <1>4, <1>5

(* Notifier: while its row could be written, memory, row and recipient     *)
(* have the same keys open.                                                *)
THEOREM PipelineLedger == PipeSpec => []LedgerInv
<1>1. PipeInit => LedgerInv
  BY DEF PipeInit, InitLedger, LedgerInv, ToldOpen, Empty
<1>2. LedgerInv /\ [PipeNext]_pipeVars => LedgerInv'
  <2> SUFFICES ASSUME LedgerInv, [PipeNext]_pipeVars PROVE LedgerInv'
    OBVIOUS
  <2>1. ASSUME NEW t \in Readings, RestartDashboard(t) PROVE LedgerInv'
    <3>1. open' = saved.open /\ UNCHANGED <<saved, told, unsaved>>
      BY <2>1 DEF RestartDashboard, ReloadLedger
    <3> QED
      BY <3>1 DEF LedgerInv, ToldOpen
  <2>2. ASSUME NEW t \in Readings, NEW signal \in BOOLEAN,
               \/ JudgeRulesFail(signal, t)
               \/ \E alerts \in RaisedAlerts : JudgeEventFails(alerts, signal, t)
        PROVE  LedgerInv'
    <3>1. UNCHANGED <<open, saved, told, unsaved>>
      BY <2>2 DEF JudgeRulesFail, JudgeEventFails, NoUpdate
    <3> QED
      BY <3>1 DEF LedgerInv, ToldOpen
  <2>3. ASSUME NEW t \in Readings, NEW signal \in BOOLEAN, NEW alerts \in RaisedAlerts,
               JudgePoll(alerts, signal, t)
        PROVE  LedgerInv'
    BY <2>3, UpdateKeepsLedger DEF JudgePoll
  <2>4. ASSUME NEW t \in Readings, NEW signal \in BOOLEAN, NEW alerts \in RaisedAlerts,
               JudgeSaveFails(alerts, signal, t)
        PROVE  LedgerInv'
    BY <2>4 DEF JudgeSaveFails, LedgerInv
  <2>5. CASE UNCHANGED pipeVars
    BY <2>5 DEF pipeVars, ledgerVars, toldVars, logVars, LedgerInv, ToldOpen
  <2> QED
    BY <2>1, <2>2, <2>3, <2>4, <2>5 DEF PipeNext
<1> QED
  BY <1>1, <1>2, PTL DEF PipeSpec

(* No restart, and no series of them, announces again what was announced   *)
(* and not cleared, or clears what was not announced.                      *)
THEOREM PipelineRepeatsNothing == PipeSpec => NothingRepeated
<1>1. LedgerInv /\ [PipeNext]_pipeVars =>
        [~unsaved' =>
            /\ \A k \in news'.announced : k \notin DOMAIN told \/ ~told[k].open
            /\ \A k \in news'.cleared : k \in DOMAIN told /\ told[k].open]_pipeVars
  <2> SUFFICES ASSUME LedgerInv, PipeNext, ~unsaved'
               PROVE  /\ \A k \in news'.announced : ~ToldOpen(k)
                      /\ \A k \in news'.cleared : ToldOpen(k)
    BY DEF ToldOpen
  <2>1. CASE news' = NoNews
    BY <2>1 DEF NoNews
  <2>2. ASSUME NEW t \in Readings, NEW signal \in BOOLEAN, NEW alerts \in RaisedAlerts,
               JudgePoll(alerts, signal, t)
        PROVE  /\ \A k \in news'.announced : ~ToldOpen(k)
               /\ \A k \in news'.cleared : ToldOpen(k)
    <3>1. Update(Current(alerts), t) /\ ~unsaved
      BY <2>2 DEF JudgePoll
    <3> QED
      BY <3>1, LinesFollowOpen DEF LedgerInv, ToldOpen
  <2> QED
    BY <2>1, <2>2
    DEF PipeNext, RestartDashboard, ReloadLedger, JudgeRulesFail, JudgeEventFails,
        JudgeSaveFails, NoUpdate, UpdateNotSaved
<1> QED
  BY <1>1, PipelineLedger, PTL DEF PipeSpec, NothingRepeated

-----------------------------------------------------------------------------
(* What the cooldown rests on: a map holds, for everything the recipient   *)
(* was ever told, a time no earlier than when it was told.                 *)
CoversTold(f) ==
    \A k \in DOMAIN told : k \in DOMAIN f /\ f[k] \in Nat /\ f[k] >= told[k].at

(* Both copies do, in memory and in the store, even when a write failed:   *)
(* then memory is only later than what was said.                           *)
CooldownInv ==
    /\ now \in Nat
    /\ \A k \in DOMAIN told : told[k].at \in Nat /\ told[k].at <= now
    /\ CoversTold(last)
    /\ CoversTold(saved.last)

(* The clock moves on and nothing is said. *)
LEMMA NothingSaid ==
    ASSUME CooldownInv, NEW t \in Readings, now' = t, told' = told,
           CoversTold(last'), CoversTold(saved'.last)
    PROVE  CooldownInv'
<1>1. t \in Nat /\ now < t
  BY ReadingIsLater DEF CooldownInv
<1>2. \A k \in DOMAIN told : told[k].at \in Nat /\ told[k].at <= t
  BY <1>1 DEF CooldownInv
<1>3. CoversTold(last)' /\ CoversTold(saved.last)'
  BY DEF CoversTold
<1> QED
  BY <1>1, <1>2, <1>3 DEF CooldownInv

(* last after an update() that says these lines at t. *)
LEMMA LastMovesOn ==
    ASSUME CooldownInv, NEW t \in Nat, now < t, NEW lines
    PROVE  CoversTold(LastAfter(lines, t))
<1> SUFFICES ASSUME NEW k \in DOMAIN told
             PROVE  /\ k \in DOMAIN LastAfter(lines, t)
                    /\ LastAfter(lines, t)[k] \in Nat
                    /\ LastAfter(lines, t)[k] >= told[k].at
  BY DEF CoversTold
<1>1. /\ told[k].at \in Nat /\ told[k].at <= now /\ now \in Nat
      /\ k \in DOMAIN last /\ last[k] \in Nat /\ last[k] >= told[k].at
  BY DEF CooldownInv, CoversTold
<1>2. /\ k \in DOMAIN LastAfter(lines, t)
      /\ LastAfter(lines, t)[k] = IF k \in Said(lines) THEN t ELSE last[k]
  BY <1>1 DEF LastAfter
<1> QED
  BY <1>1, <1>2

(* A message is queued and the row that goes with it is written. *)
LEMMA UpdateKeepsCooldown ==
    ASSUME CooldownInv, NEW t \in Readings, NEW current, now' = t, Update(current, t)
    PROVE  CooldownInv'
<1>1. t \in Nat /\ now < t
  BY ReadingIsLater DEF CooldownInv
<1>2. /\ last' = LastAfter(news', t)
      /\ saved' = IF AnyLine(news') THEN [open |-> open', last |-> last'] ELSE saved
      /\ told' = TellAfter(news', t)
  BY DEF Update
<1>3. ASSUME NEW k \in DOMAIN told'
      PROVE  /\ told'[k].at \in Nat /\ told'[k].at <= t
             /\ k \in DOMAIN last' /\ last'[k] \in Nat /\ last'[k] >= told'[k].at
  <2>1. k \in DOMAIN told \cup Said(news')
    BY <1>2 DEF TellAfter
  <2>2. CASE k \in Said(news')
    <3>1. told'[k] = [open |-> TRUE, at |-> t]
      BY <1>2, <2>1, <2>2 DEF TellAfter
    <3>2. k \in DOMAIN last' /\ last'[k] = t
      BY <1>2, <2>2 DEF LastAfter
    <3> QED
      BY <1>1, <3>1, <3>2
  <2>3. CASE k \notin Said(news')
    <3>1. k \in DOMAIN told
      BY <2>1, <2>3
    <3>2. told'[k] = IF k \in news'.cleared THEN [open |-> FALSE, at |-> told[k].at]
                     ELSE told[k]
      BY <1>2, <2>1, <2>3 DEF TellAfter
    <3>3. told'[k].at = told[k].at
      BY <3>2
    <3>4. /\ told[k].at \in Nat /\ told[k].at <= now /\ now \in Nat
          /\ k \in DOMAIN last /\ last[k] \in Nat /\ last[k] >= told[k].at
      BY <3>1 DEF CooldownInv, CoversTold
    <3>5. k \in DOMAIN last' /\ last'[k] = last[k]
      BY <1>2, <2>3, <3>4 DEF LastAfter
    <3> QED
      BY <1>1, <3>3, <3>4, <3>5
  <2> QED
    BY <2>2, <2>3
<1>4. CoversTold(last)'
  BY <1>3 DEF CoversTold
<1>5. CoversTold(saved.last)'
  <2>1. CASE AnyLine(news')
    <3>1. saved'.last = last'
      BY <1>2, <2>1
    <3> QED
      BY <1>4, <3>1 DEF CoversTold
  <2>2. CASE ~AnyLine(news')
    <3>1. Said(news') = {} /\ news'.cleared = {}
      BY <2>2 DEF AnyLine
    <3>2. /\ DOMAIN told' = DOMAIN told
          /\ \A k \in DOMAIN told : told'[k] = told[k]
      BY <1>2, <3>1 DEF TellAfter
    <3> QED
      BY <1>2, <2>2, <3>2 DEF CooldownInv, CoversTold
  <2> QED
    BY <2>1, <2>2
<1> QED
  BY <1>1, <1>3, <1>4, <1>5 DEF CooldownInv

(* Notifier: in memory and in the stored row, the last message of a key is *)
(* no earlier than the one the recipient was told.                         *)
THEOREM PipelineCooldown == PipeSpec => []CooldownInv
<1>1. PipeInit => CooldownInv
  BY DEF PipeInit, Init, InitLedger, CooldownInv, CoversTold
<1>2. CooldownInv /\ [PipeNext]_pipeVars => CooldownInv'
  <2> SUFFICES ASSUME CooldownInv, [PipeNext]_pipeVars PROVE CooldownInv'
    OBVIOUS
  <2>1. ASSUME NEW t \in Readings, RestartDashboard(t) PROVE CooldownInv'
    BY <2>1, NothingSaid
    DEF RestartDashboard, ReloadLedger, Restart, Reads, CooldownInv
  <2>2. ASSUME NEW t \in Readings, NEW signal \in BOOLEAN,
               \/ JudgeRulesFail(signal, t)
               \/ \E alerts \in RaisedAlerts : JudgeEventFails(alerts, signal, t)
        PROVE  CooldownInv'
    <3>1. now' = t /\ UNCHANGED <<last, saved, told>>
      BY <2>2 DEF JudgeRulesFail, JudgeEventFails, GatePoll, Poll, Reads, NoUpdate
    <3> QED
      BY <3>1, NothingSaid DEF CooldownInv
  <2>3. ASSUME NEW t \in Readings, NEW signal \in BOOLEAN, NEW alerts \in RaisedAlerts,
               JudgePoll(alerts, signal, t)
        PROVE  CooldownInv'
    <3>1. now' = t /\ Update(Current(alerts), t)
      BY <2>3 DEF JudgePoll, GatePoll, Poll, Reads
    <3> QED
      BY <3>1, UpdateKeepsCooldown
  <2>4. ASSUME NEW t \in Readings, NEW signal \in BOOLEAN, NEW alerts \in RaisedAlerts,
               JudgeSaveFails(alerts, signal, t)
        PROVE  CooldownInv'
    <3>1. now' = t /\ UNCHANGED <<saved, told>>
      BY <2>4 DEF JudgeSaveFails, GatePoll, Poll, Reads, UpdateNotSaved
    <3>2. last' = LastAfter(Lines(Current(alerts), t), t)
      BY <2>4 DEF JudgeSaveFails, UpdateNotSaved
    <3>3. t \in Nat /\ now < t
      BY ReadingIsLater DEF CooldownInv
    <3>4. CoversTold(last')
      BY <3>2, <3>3, LastMovesOn
    <3> QED
      BY <3>1, <3>4, NothingSaid DEF CooldownInv
  <2>5. CASE UNCHANGED pipeVars
    BY <2>5 DEF pipeVars, vars, ledgerVars, toldVars, CooldownInv, CoversTold
  <2> QED
    BY <2>1, <2>2, <2>3, <2>4, <2>5 DEF PipeNext
<1> QED
  BY <1>1, <1>2, PTL DEF PipeSpec

(* A condition that is not critical is announced again no sooner than the  *)
(* cooldown after the recipient last heard of it.                          *)
THEOREM PipelineKeepsCooldown == PipeSpec => CooldownKept
<1>1. CooldownInv /\ [PipeNext]_pipeVars =>
        [\A k \in news'.announced :
            open'[k] # "critical" /\ k \in DOMAIN told
            => now' - told[k].at >= Cooldown]_pipeVars
  <2> SUFFICES ASSUME CooldownInv, PipeNext, NEW k \in news'.announced,
                      open'[k] # "critical", k \in DOMAIN told
               PROVE  now' - told[k].at >= Cooldown
    OBVIOUS
  <2>1. news' # NoNews
    BY DEF NoNews
  <2>2. PICK t \in Readings, signal \in BOOLEAN, alerts \in RaisedAlerts :
            JudgePoll(alerts, signal, t)
    BY <2>1 DEF PipeNext, RestartDashboard, ReloadLedger, JudgeRulesFail,
                JudgeEventFails, JudgeSaveFails, NoUpdate, UpdateNotSaved
  <2>3. now' = t /\ t \in Nat
    BY <2>2, ReadingIsLater DEF JudgePoll, GatePoll, Poll, Reads, CooldownInv
  <2>4. k \in Announced(Current(alerts), t) /\ k \in Said(news')
    BY <2>2 DEF JudgePoll, Update, Lines, Said
  <2>5. open'[k] = Current(alerts)[k]
    <3>1. open' = OpenAfter(Current(alerts), news')
      BY <2>2 DEF JudgePoll, Update
    <3>2. k \notin news'.cleared
      BY <2>2, <2>4, LinesFollowOpen DEF JudgePoll
    <3> QED
      BY <2>4, <3>1, <3>2 DEF OpenAfter
  <2>6. k \in DOMAIN last => t - last[k] >= Cooldown
    BY <2>4, <2>5 DEF Announced, MayAnnounce
  <2>7. /\ k \in DOMAIN last /\ last[k] \in Nat /\ told[k].at \in Nat
        /\ last[k] >= told[k].at
    BY DEF CooldownInv, CoversTold
  <2> QED
    BY <2>3, <2>6, <2>7, LedgerAssumption
<1> QED
  BY <1>1, PipelineCooldown, PTL DEF PipeSpec, CooldownKept

-----------------------------------------------------------------------------
(* The current alerts of a poll are known keys at levels. *)
LEMMA CurrentTyped ==
    ASSUME NEW alerts \in RaisedAlerts, NEW signal, NEW t, GatePoll(alerts, signal, t)
    PROVE  /\ DOMAIN Current(alerts) \subseteq Keys
           /\ \A k \in DOMAIN Current(alerts) : Current(alerts)[k] \in Levels
           /\ shown' \subseteq Keys
<1>1. shown' \subseteq DOMAIN alerts
  BY DEF GatePoll, Poll, Judge, Shown
<1>2. DOMAIN alerts \subseteq Keys /\ \A k \in DOMAIN alerts : alerts[k] \in Levels
  BY DEF RaisedAlerts
<1> QED
  BY <1>1, <1>2 DEF Current

(* The part of PipeTypeOK that update() writes. *)
DictsTyped ==
    /\ DOMAIN open \subseteq Keys /\ \A k \in DOMAIN open : open[k] \in Levels
    /\ TimesUpToNow(last)

(* Whatever the lines are, the two dicts stay what they are. *)
LEMMA DictsStep ==
    ASSUME PipeTypeOK, now \in Nat, NEW t \in Readings, now' = t,
           NEW current, DOMAIN current \subseteq Keys,
           \A k \in DOMAIN current : current[k] \in Levels,
           open' = OpenAfter(current, Lines(current, t)),
           last' = LastAfter(Lines(current, t), t)
    PROVE  DictsTyped'
<1> DEFINE lines == Lines(current, t)
<1>1. t \in Nat /\ now < t
  BY ReadingIsLater
<1>2. Said(lines) \subseteq DOMAIN current
  BY DEF Lines, Said, Announced, Escalated
<1>3. lines.announced \subseteq DOMAIN current
  BY <1>2 DEF Said
<1>4. DOMAIN open' \subseteq Keys /\ \A k \in DOMAIN open' : open'[k] \in Levels
  <2>1. DOMAIN open' = (DOMAIN open \cup lines.announced) \ lines.cleared
    BY DEF OpenAfter
  <2>2. \A k \in DOMAIN open' :
            open'[k] = IF k \in Said(lines) THEN current[k] ELSE open[k]
    BY DEF OpenAfter
  <2>3. \A k \in DOMAIN open' : k \in Said(lines) \/ k \in DOMAIN open
    BY <2>1 DEF Said
  <2> QED
    BY <1>2, <1>3, <2>1, <2>2, <2>3 DEF PipeTypeOK
<1>5. TimesUpToNow(last)'
  <2>1. DOMAIN last' = DOMAIN last \cup Said(lines)
    BY DEF LastAfter
  <2>2. \A k \in DOMAIN last' : last'[k] = IF k \in Said(lines) THEN t ELSE last[k]
    BY DEF LastAfter
  <2>3. /\ DOMAIN last \subseteq Keys
        /\ \A k \in DOMAIN last : last[k] \in Nat /\ last[k] <= now
    BY DEF PipeTypeOK, TimesUpToNow
  <2> QED
    BY <1>1, <1>2, <2>1, <2>2, <2>3 DEF TimesUpToNow
<1> QED
  BY <1>4, <1>5 DEF DictsTyped

(* What the clock leaves in the past stays there. *)
LEMMA TimesStay ==
    ASSUME NEW f, TimesUpToNow(f), now \in Nat, NEW t \in Nat, now < t, now' = t
    PROVE  /\ DOMAIN f \subseteq Keys
           /\ \A k \in DOMAIN f : f[k] \in Nat /\ f[k] <= now'
  BY DEF TimesUpToNow

(* The ledger, the log and what was said are of known keys and levels, and *)
(* of no moment later than now.                                            *)
THEOREM PipelineTypeOK == PipeSpec => []PipeTypeOK
<1> DEFINE Inv == now \in Nat /\ PipeTypeOK
<1> DOMAIN <<>> = {}
  OBVIOUS
<1>1. PipeInit => Inv
  <2> SUFFICES ASSUME PipeInit PROVE Inv
    OBVIOUS
  <2>1. /\ now = 0 /\ started = 0 /\ open = <<>> /\ last = <<>> /\ told = <<>>
        /\ saved.open = <<>> /\ saved.last = <<>> /\ active = {} /\ logged = <<>>
        /\ fresh = TRUE /\ reached = FALSE /\ unsaved = FALSE /\ faults = 0
    BY DEF PipeInit, Init, InitLedger, Empty
  <2>2. TimesUpToNow(last) /\ TimesUpToNow(saved.last)
    BY <2>1 DEF TimesUpToNow
  <2>3. now \in Nat /\ started \in Nat /\ started <= now /\ faults \in Nat
    BY <2>1
  <2>4. fresh \in BOOLEAN /\ reached \in BOOLEAN /\ unsaved \in BOOLEAN
    BY <2>1, Zenon
  <2> QED
    BY <2>1, <2>2, <2>3, <2>4, Zenon DEF PipeTypeOK
<1>2. Inv /\ [PipeNext]_pipeVars => Inv'
  <2> SUFFICES ASSUME Inv, [PipeNext]_pipeVars PROVE Inv'
    OBVIOUS
  <2>1. ASSUME NEW t \in Readings, RestartDashboard(t) PROVE Inv'
    <3>1. t \in Nat /\ now < t /\ now' = t
      BY <2>1, ReadingIsLater DEF RestartDashboard, Restart, Reads
    <3>2. /\ started' = t /\ open' = saved.open /\ last' = saved.last
          /\ UNCHANGED <<saved, told, logged, faults, unsaved>>
          /\ active' = {} /\ fresh' = TRUE /\ reached' = FALSE
      BY <2>1 DEF RestartDashboard, ReloadLedger
    <3>3. TimesUpToNow(saved.last)'
      BY <3>1, <3>2, TimesStay DEF PipeTypeOK, TimesUpToNow
    <3>4. TimesUpToNow(last)'
      BY <3>2, <3>3 DEF TimesUpToNow
    <3>5. started' \in Nat /\ started' <= now' /\ now' \in Nat
      BY <3>1, <3>2
    <3>6. fresh' \in BOOLEAN /\ reached' \in BOOLEAN /\ unsaved' \in BOOLEAN
      BY <3>2, Zenon DEF PipeTypeOK
    <3> QED
      BY <3>2, <3>3, <3>4, <3>5, <3>6, Zenon DEF PipeTypeOK
  <2>2. ASSUME NEW t \in Readings, NEW signal \in BOOLEAN, JudgeRulesFail(signal, t)
        PROVE  Inv'
    <3>1. t \in Nat /\ now < t /\ now' = t
      BY <2>2, ReadingIsLater DEF JudgeRulesFail, Reads
    <3>2. /\ UNCHANGED <<open, last, saved, told, started, active, fresh, logged, unsaved>>
          /\ faults' = faults + 1 /\ reached' = FALSE
      BY <2>2 DEF JudgeRulesFail, NoUpdate, Fault
    <3>3. TimesUpToNow(saved.last)' /\ TimesUpToNow(last)'
      BY <3>1, <3>2, TimesStay DEF PipeTypeOK, TimesUpToNow
    <3>4. /\ started' \in Nat /\ started' <= now' /\ now' \in Nat
          /\ faults' \in Nat
      BY <3>1, <3>2 DEF PipeTypeOK
    <3>5. fresh' \in BOOLEAN /\ reached' \in BOOLEAN /\ unsaved' \in BOOLEAN
      BY <3>2, Zenon DEF PipeTypeOK
    <3> QED
      BY <3>2, <3>3, <3>4, <3>5, Zenon DEF PipeTypeOK
  <2>3. ASSUME NEW t \in Readings, NEW signal \in BOOLEAN, NEW alerts \in RaisedAlerts,
               \/ JudgePoll(alerts, signal, t)
               \/ JudgeEventFails(alerts, signal, t)
               \/ JudgeSaveFails(alerts, signal, t)
        PROVE  Inv'
    <3>1. GatePoll(alerts, signal, t)
      BY <2>3 DEF JudgePoll, JudgeEventFails, JudgeSaveFails
    <3>2. t \in Nat /\ now < t /\ now' = t /\ fresh' = FALSE
      BY <3>1, ReadingIsLater DEF GatePoll, Poll, Reads
    <3>3. /\ DOMAIN Current(alerts) \subseteq Keys
          /\ \A k \in DOMAIN Current(alerts) : Current(alerts)[k] \in Levels
          /\ shown' \subseteq Keys
      BY <3>1, CurrentTyped
    <3>4. started' = started
      BY <2>3 DEF JudgePoll, JudgeEventFails, JudgeSaveFails, NoUpdate, Update, UpdateNotSaved
    <3>5. /\ active' \subseteq Keys
          /\ DOMAIN logged' \subseteq Keys
          /\ \A k \in DOMAIN logged' : logged'[k] \in {"raised", "cleared"}
      BY <2>3, <3>3
      DEF JudgePoll, JudgeEventFails, JudgeSaveFails, Reconcile, ReconcileFails, LogAfter,
          PipeTypeOK
    <3>6. reached' \in BOOLEAN /\ unsaved' \in BOOLEAN
      BY <2>3, Zenon DEF JudgePoll, JudgeEventFails, JudgeSaveFails, PipeTypeOK
    <3>7. faults' \in Nat
      BY <2>3 DEF JudgePoll, JudgeEventFails, JudgeSaveFails, Fault, PipeTypeOK
    <3>8. DictsTyped'
      <4>1. CASE open' = open /\ last' = last
        BY <3>2, <4>1, TimesStay DEF PipeTypeOK, TimesUpToNow, DictsTyped
      <4>2. CASE /\ open' = OpenAfter(Current(alerts), Lines(Current(alerts), t))
                 /\ last' = LastAfter(Lines(Current(alerts), t), t)
        BY <3>2, <3>3, <4>2, DictsStep
      <4> QED
        BY <2>3, <4>1, <4>2
        DEF JudgePoll, JudgeEventFails, JudgeSaveFails, NoUpdate, Update, UpdateNotSaved
    <3>9. /\ DOMAIN saved'.open \subseteq Keys
          /\ \A k \in DOMAIN saved'.open : saved'.open[k] \in Levels
          /\ TimesUpToNow(saved.last)'
      <4>1. CASE saved' = saved
        BY <3>2, <4>1, TimesStay DEF PipeTypeOK, TimesUpToNow
      <4>2. CASE saved' = [open |-> open', last |-> last']
        BY <3>8, <4>2 DEF DictsTyped, TimesUpToNow
      <4> QED
        BY <2>3, <4>1, <4>2
        DEF JudgePoll, JudgeEventFails, JudgeSaveFails, NoUpdate, Update, UpdateNotSaved
    <3>10. DOMAIN told' \subseteq Keys
      <4>1. CASE told' = told
        BY <4>1 DEF PipeTypeOK
      <4>2. CASE told' = TellAfter(Lines(Current(alerts), t), t)
        <5>1. Said(Lines(Current(alerts), t)) \subseteq Keys
          BY <3>3 DEF Lines, Said, Announced, Escalated
        <5> QED
          BY <4>2, <5>1 DEF TellAfter, PipeTypeOK
      <4> QED
        BY <2>3, <4>1, <4>2
        DEF JudgePoll, JudgeEventFails, JudgeSaveFails, NoUpdate, Update, UpdateNotSaved
    <3>11. started' \in Nat /\ started' <= now'
      BY <3>2, <3>4 DEF PipeTypeOK
    <3> QED
      BY <3>2, <3>5, <3>6, <3>8, <3>9, <3>10, <3>11, <3>7
      DEF PipeTypeOK, DictsTyped
  <2>4. CASE UNCHANGED pipeVars
    BY <2>4 DEF pipeVars, vars, ledgerVars, toldVars, logVars, PipeTypeOK, TimesUpToNow
  <2> QED
    BY <2>1, <2>2, <2>3, <2>4 DEF PipeNext
<1>3. Inv => PipeTypeOK
  OBVIOUS
<1> QED
  BY <1>1, <1>2, <1>3, PTL DEF PipeSpec

(* While the store does not fail, what is active has a raise as its latest *)
(* row, and after a poll that got to its end it is what the page shows.    *)
LogInv ==
    /\ faults \in Nat
    /\ faults = 0 => /\ \A k \in active : k \in DOMAIN logged /\ logged[k] = "raised"
                     /\ reached => active = shown

(* The event log reads as a history: what the page shows was raised last.  *)
THEOREM PipelineLogs == PipeSpec => []ShownIsLogged
<1>1. PipeInit => LogInv
  BY DEF PipeInit, LogInv
<1>2. LogInv /\ [PipeNext]_pipeVars => LogInv'
  <2> SUFFICES ASSUME LogInv, [PipeNext]_pipeVars PROVE LogInv'
    OBVIOUS
  <2>1. ASSUME NEW t \in Readings, RestartDashboard(t) PROVE LogInv'
    BY <2>1 DEF RestartDashboard, LogInv
  <2>2. CASE Fault
    BY <2>2 DEF Fault, LogInv
  <2>3. ASSUME NEW t \in Readings, NEW signal \in BOOLEAN, NEW alerts \in RaisedAlerts,
               JudgePoll(alerts, signal, t)
        PROVE  LogInv'
    BY <2>3 DEF JudgePoll, Reconcile, LogAfter, LogInv
  <2>4. CASE UNCHANGED pipeVars
    BY <2>4 DEF pipeVars, vars, gateVars, logVars, LogInv
  <2> QED
    BY <2>1, <2>2, <2>3, <2>4
    DEF PipeNext, JudgeRulesFail, JudgeEventFails, JudgeSaveFails
<1>3. LogInv => ShownIsLogged
  BY DEF LogInv, ShownIsLogged
<1> QED
  BY <1>1, <1>2, <1>3, PTL DEF PipeSpec

-----------------------------------------------------------------------------
(* What "announced once the cooldown is over" rests on: unless a write of  *)
(* it failed, a key is held back by no later moment than the one at which  *)
(* the recipient was last told of it.                                      *)
SaidAt(f) == \A k \in DOMAIN f : k \in DOMAIN told /\ f[k] = told[k].at

HeldBackInv ==
    /\ ~unsaved => SaidAt(last) /\ SaidAt(saved.last)
    /\ ShownIsAnnounced

(* Both copies keep to it through an update that is stored. *)
LEMMA UpdateSaysAt ==
    ASSUME SaidAt(last), SaidAt(saved.last), NEW current, NEW t, Update(current, t)
    PROVE  SaidAt(last)' /\ SaidAt(saved.last)'
<1>1. /\ last' = LastAfter(news', t)
      /\ saved' = IF AnyLine(news') THEN [open |-> open', last |-> last'] ELSE saved
      /\ told' = TellAfter(news', t)
  BY DEF Update
<1>2. ASSUME NEW k \in DOMAIN told
      PROVE  /\ k \in DOMAIN told'
             /\ k \notin Said(news') => told'[k].at = told[k].at
  <2>1. k \in DOMAIN told'
    BY <1>1 DEF TellAfter
  <2>2. k \notin Said(news') =>
            told'[k] = IF k \in news'.cleared THEN [open |-> FALSE, at |-> told[k].at]
                       ELSE told[k]
    BY <1>1, <2>1 DEF TellAfter
  <2> QED
    BY <2>1, <2>2
<1>3. ASSUME NEW k \in DOMAIN last'
      PROVE  k \in DOMAIN told' /\ last'[k] = told'[k].at
  <2>1. CASE k \in Said(news')
    <3>1. k \in DOMAIN told' /\ told'[k] = [open |-> TRUE, at |-> t]
      BY <1>1, <2>1 DEF TellAfter
    <3>2. last'[k] = t
      BY <1>1, <2>1 DEF LastAfter
    <3> QED
      BY <3>1, <3>2
  <2>2. CASE k \notin Said(news')
    <3>1. k \in DOMAIN last /\ last'[k] = last[k]
      BY <1>1, <2>2 DEF LastAfter
    <3> QED
      BY <1>2, <2>2, <3>1 DEF SaidAt
  <2> QED
    BY <2>1, <2>2
<1>4. SaidAt(last)'
  BY <1>3 DEF SaidAt
<1>5. CASE AnyLine(news')
  <2>1. saved'.last = last'
    BY <1>1, <1>5
  <2> QED
    BY <1>4, <2>1 DEF SaidAt
<1>6. CASE ~AnyLine(news')
  <2>1. saved' = saved /\ Said(news') = {}
    BY <1>1, <1>6 DEF AnyLine
  <2> QED
    BY <1>2, <1>4, <2>1 DEF SaidAt
<1> QED
  BY <1>5, <1>6

(* After a poll that reached the notifier, what is shown and pushed is     *)
(* announced, or was too lately to be announced again.                     *)
LEMMA ReachedIsAnnounced ==
    ASSUME LedgerInv, LedgerInv', CooldownInv, ~unsaved, SaidAt(last),
           NEW t \in Readings, NEW signal \in BOOLEAN, NEW alerts \in RaisedAlerts,
           JudgePoll(alerts, signal, t)
    PROVE  ShownIsAnnounced'
<1> SUFFICES ASSUME NEW k \in shown', \A level \in LevelsOf[k] : Notifies(k, level),
                    ~ToldOpen(k)'
             PROVE  /\ k \in DOMAIN told'
                    /\ now' - told'[k].at < Cooldown
                    /\ LevelsOf[k] # {"critical"}
  BY DEF ShownIsAnnounced, ToldOpen
<1> DEFINE current == Current(alerts)
<1>1. GatePoll(alerts, signal, t) /\ Update(current, t) /\ ~unsaved' /\ now' = t
  BY DEF JudgePoll, GatePoll, Poll, Reads
<1>2. t \in Nat /\ now < t
  BY ReadingIsLater DEF CooldownInv
<1>3. k \in DOMAIN current /\ current[k] = alerts[k] /\ alerts[k] \in LevelsOf[k]
  <2>1. k \in DOMAIN alerts
    BY <1>1 DEF GatePoll, Poll, Judge, Shown
  <2>2. alerts[k] \in LevelsOf[k]
    BY <2>1 DEF RaisedAlerts
  <2> QED
    BY <2>2 DEF Current
<1> HIDE DEF current
<1>4. /\ open' = OpenAfter(current, news') /\ told' = TellAfter(news', t)
      /\ news' = Lines(current, t)
  BY <1>1 DEF Update
<1>5. k \notin news'.cleared
  BY <1>3, <1>4 DEF Lines, Cleared
<1>6. k \notin DOMAIN open'
  BY <1>1 DEF LedgerInv, ToldOpen
<1>7. k \notin DOMAIN open /\ k \notin news'.announced
  BY <1>4, <1>5, <1>6 DEF OpenAfter
<1>8. ~MayAnnounce(k, current[k], t)
  BY <1>3, <1>4, <1>7 DEF Lines, Announced
<1>9. k \in DOMAIN last /\ ~(t - last[k] >= Cooldown) /\ alerts[k] # "critical"
  BY <1>3, <1>8 DEF MayAnnounce
<1>10. k \in DOMAIN told /\ told[k].at = last[k] /\ told[k].at \in Nat
  BY <1>9 DEF SaidAt, CooldownInv
<1>11. k \notin Said(news')
  BY <1>4, <1>7 DEF Said, Lines, Escalated
<1>12. k \in DOMAIN told' /\ told'[k] = told[k]
  BY <1>4, <1>5, <1>10, <1>11 DEF TellAfter
<1> QED
  BY <1>1, <1>2, <1>3, <1>9, <1>10, <1>12, LedgerAssumption

(* Nothing that is on the page and pushed is held back for longer than a   *)
(* cooldown, whatever restarts and failed writes came before it.           *)
THEOREM PipelineAnnounces == PipeSpec => []ShownIsAnnounced
<1>1. PipeInit => HeldBackInv
  BY DEF PipeInit, InitLedger, HeldBackInv, SaidAt, ShownIsAnnounced, Empty
<1>2. HeldBackInv /\ LedgerInv /\ LedgerInv' /\ CooldownInv /\ [PipeNext]_pipeVars
      => HeldBackInv'
  <2> SUFFICES ASSUME HeldBackInv, LedgerInv, LedgerInv', CooldownInv, [PipeNext]_pipeVars
               PROVE  HeldBackInv'
    OBVIOUS
  <2>1. ASSUME NEW t \in Readings, RestartDashboard(t) PROVE HeldBackInv'
    <3>1. last' = saved.last /\ UNCHANGED <<saved, told, unsaved>> /\ reached' = FALSE
      BY <2>1 DEF RestartDashboard, ReloadLedger
    <3> QED
      BY <3>1 DEF HeldBackInv, SaidAt, ShownIsAnnounced
  <2>2. ASSUME NEW t \in Readings, NEW signal \in BOOLEAN,
               \/ JudgeRulesFail(signal, t)
               \/ \E alerts \in RaisedAlerts : JudgeEventFails(alerts, signal, t)
        PROVE  HeldBackInv'
    <3>1. UNCHANGED <<last, saved, told, unsaved>> /\ reached' = FALSE
      BY <2>2 DEF JudgeRulesFail, JudgeEventFails, NoUpdate
    <3> QED
      BY <3>1 DEF HeldBackInv, SaidAt, ShownIsAnnounced
  <2>3. ASSUME NEW t \in Readings, NEW signal \in BOOLEAN, NEW alerts \in RaisedAlerts,
               JudgePoll(alerts, signal, t)
        PROVE  HeldBackInv'
    <3>1. Update(Current(alerts), t) /\ unsaved' = unsaved
      BY <2>3 DEF JudgePoll
    <3>2. CASE unsaved
      BY <3>1, <3>2 DEF HeldBackInv, ShownIsAnnounced
    <3>3. CASE ~unsaved
      BY <2>3, <3>1, <3>3, UpdateSaysAt, ReachedIsAnnounced DEF HeldBackInv
    <3> QED
      BY <3>2, <3>3
  <2>4. ASSUME NEW t \in Readings, NEW signal \in BOOLEAN, NEW alerts \in RaisedAlerts,
               JudgeSaveFails(alerts, signal, t)
        PROVE  HeldBackInv'
    BY <2>4 DEF JudgeSaveFails, HeldBackInv, ShownIsAnnounced
  <2>5. CASE UNCHANGED pipeVars
    BY <2>5 DEF pipeVars, vars, gateVars, ledgerVars, toldVars, logVars, HeldBackInv, SaidAt,
                ShownIsAnnounced
  <2> QED
    BY <2>1, <2>2, <2>3, <2>4, <2>5 DEF PipeNext
<1>3. HeldBackInv => ShownIsAnnounced
  BY DEF HeldBackInv
<1> QED
  BY <1>1, <1>2, <1>3, PipelineLedger, PipelineCooldown, PTL DEF PipeSpec

==============================================================================
