------------------------------ MODULE PollProofs ------------------------------
(***************************************************************************)
(* What a poll makes of what it reads.  The reachability rules, whatever   *)
(* the observations, drive the gate as module AlertGate lets any rules     *)
(* drive it, so what is proved of the gate holds of them.  And for any     *)
(* number of events, polls and restarts, the tokens a poll learns from     *)
(* were generated since the metrics were last read, and the signals it     *)
(* stores add up, and a disk's rate is never too high; a model that sleeps *)
(* is left asleep; and what the demo answers a poll from a recording never *)
(* goes backwards.                                                         *)
(***************************************************************************)
EXTENDS Reachability, Telemetry, LlamaSleep, Demo, AlertGateProofs, WellFoundedInduction

(* The rules yield keys the gate knows. *)
LEMMA RaisedAreKeys == \A o \in Observations : Raised(o) \subseteq Keys
<1> SUFFICES ASSUME NEW o \in Observations PROVE Raised(o) \subseteq Keys
  OBVIOUS
<1>1. o.server \in ServerState
  BY ObservationsAssumption DEF Observation
<1>2. ReachabilityRule(o) \subseteq ReachabilityKeys
  BY <1>1 DEF ReachabilityRule, ReachabilityKeys, ServerState
<1>3. UnitsRule(o) \subseteq ReachabilityKeys
  BY DEF UnitsRule, ReachabilityKeys
<1>4. ContainerRule(o) \subseteq ReachabilityKeys
  BY DEF ContainerRule, ReachabilityKeys
<1> QED
  BY <1>2, <1>3, <1>4, KeysAssumption DEF Raised

(* transition_signal gives a reason or none. *)
LEMMA SignalIsBoolean == \A o \in Observations : Signal(o) \in BOOLEAN
  BY DEF Signal

(* What the rules and the gate do together is a behaviour of the gate:     *)
(* every poll of rules.reachability, inference_units and                   *)
(* inference_container through AlertGate.apply is one of AlertGate's.      *)
THEOREM WatchImplementsGate == WatchSpec => Spec
<1>1. WatchInit => Init
  BY DEF WatchInit
<1>2. ASSUME [WatchNext]_watchVars PROVE [Next]_vars
  <2>1. CASE UNCHANGED watchVars
    BY <2>1 DEF watchVars
  <2>2. ASSUME NEW t \in Readings, WatchRestart(t) PROVE Next
    BY <2>2 DEF WatchRestart, Next
  <2>3. ASSUME NEW t \in Readings, NEW o \in Observations, WatchPoll(o, t)
        PROVE  Next
    <3>1. Raised(o) \in SUBSET Keys /\ Signal(o) \in BOOLEAN
      BY RaisedAreKeys, SignalIsBoolean
    <3>2. Poll(Raised(o), Signal(o), t)
      BY <2>3 DEF WatchPoll
    <3> QED
      BY <3>1, <3>2 DEF Next
  <2> QED
    BY <1>2, <2>1, <2>2, <2>3 DEF WatchNext
<1> QED
  BY <1>1, <1>2, PTL DEF WatchSpec, Spec

(* So an outage of the server, the agent, the units or the target is kept  *)
(* quiet for less than TRANSITION_MAX past its hold, for any observations. *)
THEOREM WatchSilenceIsBounded == WatchSpec => []BoundedSilence
  BY WatchImplementsGate, SilenceIsBounded, PTL

(* And one that is there on every poll of its hold, with no switch under   *)
(* way, is on the page.                                                    *)
THEOREM WatchShowsOutages == WatchSpec => []HeldConditionIsShown
  BY WatchImplementsGate, OutagesAreShown, PTL

(* A planned switch or a load raises no reachability alert, whatever the   *)
(* hosts answer meanwhile.                                                 *)
THEOREM WatchSwitchesAreQuiet == WatchSpec => []PlannedSwitchIsQuiet
  BY WatchImplementsGate, SwitchesAreQuiet, PTL

(* And a load that ends in failure alerts on the poll that closes it.      *)
THEOREM WatchFailuresAlert == WatchSpec => FailedLoadAlertsAtOnce
  BY WatchImplementsGate, FailuresAlertAtOnce, PTL

(* What docs/alerts.md says of a server that is down or unhealthy is true  *)
(* as long as it is not ok in one way only: then the polls that find it so *)
(* all raise the same key, whose run is as old as the outage.              *)
IsTheKey(k) == \A o \in Observations : o.server # "ok" => k \in Raised(o)

RunIsOutage(k) ==
    bad_since.is =>
        /\ ~transition.active
        /\ k \in DOMAIN run /\ run[k] \in Nat /\ run[k] <= bad_since.at
        /\ bad_since.at \in Nat

THEOREM OutageOfOneKindAlerts ==
    ASSUME NEW k \in {"llama", "llama_health"}, IsTheKey(k), Hold[k] <= Hold["llama"]
    PROVE  WatchSpec => []DownOrUnhealthyAlerts
<1>1. WatchInit => RunIsOutage(k)
  BY DEF WatchInit, NotBad, RunIsOutage
<1>2. TypeOK /\ RunIsOutage(k) /\ [WatchNext]_watchVars => RunIsOutage(k)'
  <2> SUFFICES ASSUME TypeOK, RunIsOutage(k), [WatchNext]_watchVars PROVE RunIsOutage(k)'
    OBVIOUS
  <2>1. CASE UNCHANGED watchVars
    BY <2>1 DEF watchVars, vars, gateVars, historyVars, RunIsOutage
  <2>2. ASSUME NEW t \in Readings, WatchRestart(t) PROVE RunIsOutage(k)'
    BY <2>2 DEF WatchRestart, NotBad, RunIsOutage
  <2>3. ASSUME NEW t \in Readings, NEW o \in Observations, WatchPoll(o, t)
        PROVE  RunIsOutage(k)'
    <3>1. t \in Nat
      BY GapsAssumption DEF Readings, TypeOK, TimesUpToNow
    <3>2. /\ run' = [x \in Raised(o) |-> IF x \in DOMAIN run THEN run[x] ELSE t]
          /\ RecordServer(o, t)
      BY <2>3 DEF WatchPoll, Poll, Judge, RecordHistory
    <3>3. \A x \in DOMAIN run : run[x] \in Nat /\ run[x] <= now
      BY DEF TypeOK, TimesUpToNow
    <3>4. ASSUME bad_since'.is
          PROVE  /\ ~transition'.active /\ k \in DOMAIN run' /\ run'[k] \in Nat
                 /\ run'[k] <= bad_since'.at /\ bad_since'.at \in Nat
      <4>1. o.server # "ok" /\ ~transition'.active
            /\ bad_since' = IF bad_since.is THEN bad_since ELSE [is |-> TRUE, at |-> t]
        BY <3>2, <3>4 DEF RecordServer, NotBad
      <4>2. k \in DOMAIN run' /\ run'[k] = IF k \in DOMAIN run THEN run[k] ELSE t
        BY <3>2, <4>1 DEF IsTheKey
      <4>3. now < t /\ now \in Nat
        BY GapsAssumption DEF Readings, TypeOK, TimesUpToNow
      <4> QED BY <3>1, <3>3, <4>1, <4>2, <4>3 DEF RunIsOutage
    <3> QED BY <3>4 DEF RunIsOutage
  <2> QED BY <2>1, <2>2, <2>3 DEF WatchNext
<1>3. TypeOK /\ RunIsOutage(k) /\ SwitchIsTransition /\ ShownExactly => DownOrUnhealthyAlerts
  <2> SUFFICES ASSUME TypeOK, RunIsOutage(k), SwitchIsTransition, ShownExactly,
                      bad_since.is, now - bad_since.at >= Hold["llama"]
               PROVE  k \in shown
    BY DEF DownOrUnhealthyAlerts
  <2>1. ~SwitchUnderWay
    BY DEF RunIsOutage, SwitchIsTransition, SwitchUnderWay
  <2>2. now \in Nat /\ Hold[k] \in Nat /\ Hold["llama"] \in Nat
    BY GateAssumption, KeysAssumption DEF TypeOK, TimesUpToNow, ReachabilityKeys
  <2>3. now - run[k] >= Hold[k]
    BY <2>2 DEF RunIsOutage
  <2> QED BY <2>1, <2>3 DEF RunIsOutage, ShownExactly
<1> QED
  BY <1>1, <1>2, <1>3, WatchImplementsGate, GateTypeOK, GateShowsExactly, PTL DEF WatchSpec

-----------------------------------------------------------------------------
Reading == Int \cup {Nothing}

Books ==
    [generated : Int, interval : Int, diskAt : Reading, diskSpan : Reading, first : Reading,
     last : Reading, heard : Int, raised : BOOLEAN]

Hosts == [sectors : Nat, count : Nat, tokens : Nat, events : Nat]

(* What is remembered of llama.cpp's total is never further behind it than *)
(* what was generated since.                                               *)
TokensInv ==
    /\ host.tokens \in Nat /\ book.generated \in Nat
    /\ prev.metrics # Nothing =>
          prev.metrics \in Nat /\ host.tokens - prev.metrics <= book.generated
    /\ point.gen \in Nat /\ book.interval \in Nat /\ point.gen <= book.interval

(* Since the first answer of the agent's life, what is remembered of its   *)
(* count is what it last said, and it has only grown since.                *)
SignalsInv ==
    /\ host.count \in Nat
    /\ prev.counters \in Nat \cup {Nothing}
    /\ book.first # Nothing =>
          /\ book.first \in Nat /\ book.last \in Nat /\ book.heard \in Nat
          /\ prev.counters = book.last
          /\ book.last <= host.count
          /\ book.heard <= book.last - book.first
          /\ ~book.raised => book.heard = book.last - book.first
    /\ book.first = Nothing => book.heard = 0

(* The records have their fields. *)
FieldsInv ==
    /\ host \in Hosts
    /\ prev \in [metrics : Reading, ts : Reading, disk : Reading, counters : Reading]
    /\ point \in [gen : Int, disk : {point.disk}, delta : {point.delta}]
    /\ book \in Books

ReadInv == FieldsInv /\ TokensInv /\ SignalsInv /\ now \in Nat

LEMMA TelemetryInitInv == TelemetryInit => ReadInv
BY TelemetryAssumption
   DEF TelemetryInit, ReadInv, FieldsInv, TokensInv, SignalsInv, Reading, Books, Hosts

(* A poll that is published. *)
LEMMA ReadAllInv ==
    ASSUME ReadInv, NEW t \in Readings, NEW agent \in BOOLEAN, NEW server \in BOOLEAN,
           ReadAll(t, agent, server)
    PROVE  ReadInv'
<1> DEFINE metrics == IF server THEN host.tokens ELSE Nothing
           llama == ReadLlama(metrics, t)
           delta == CounterDelta(Count(agent))
<1>1. now' = t /\ t \in Nat
  BY GapsAssumption DEF ReadAll, Reads, Readings, ReadInv
<1>2. /\ host' = host
      /\ point' = [gen |-> llama.gen, disk |-> DeviceRate(Sectors(agent), Dt(t)),
                   delta |-> delta]
      /\ prev' = [metrics |-> llama.metrics, ts |-> llama.ts, disk |-> Sectors(agent),
                  counters |-> Counters(Count(agent))]
  BY DEF ReadAll
<1>3. /\ book'.generated = IF server THEN 0 ELSE book.generated
      /\ book'.interval = book.generated
      /\ book'.first = IF agent /\ book.first = Nothing THEN host.count ELSE book.first
      /\ book'.last = IF agent THEN host.count ELSE book.last
      /\ book'.heard = IF agent /\ book.first # Nothing THEN book.heard + delta
                       ELSE book.heard
      /\ book'.raised = book.raised
      /\ book'.diskAt = IF agent THEN t ELSE Nothing
      /\ book'.diskSpan = IF book.diskAt = Nothing THEN Nothing ELSE t - book.diskAt
      /\ book' \in [generated : {book'.generated}, interval : {book'.interval},
                    diskAt : {book'.diskAt}, diskSpan : {book'.diskSpan},
                    first : {book'.first}, last : {book'.last},
                    heard : {book'.heard}, raised : {book'.raised}]
  BY DEF ReadAll, NotesAgent, ReadInv, FieldsInv, Books
<1>4. /\ llama.gen = GenTokens(metrics)
      /\ llama.metrics = IF metrics # Nothing THEN metrics ELSE prev.metrics
      /\ llama.ts \in {t, prev.ts}
  BY DEF ReadLlama
<1>5. TokensInv'
  <2>1. llama.gen \in Nat /\ llama.gen <= book.generated
    BY <1>4, TelemetryAssumption DEF GenTokens, ReadInv, TokensInv
  <2>2. prev'.metrics = IF server THEN host.tokens ELSE prev.metrics
    BY <1>2, <1>4, TelemetryAssumption DEF ReadInv, TokensInv
  <2> QED
    BY <1>2, <1>3, <2>1, <2>2, TelemetryAssumption DEF ReadInv, TokensInv
<1>6. SignalsInv'
  <2>1. prev'.counters = IF agent THEN host.count ELSE prev.counters
    BY <1>2, TelemetryAssumption DEF Counters, Count, ReadInv, SignalsInv
  <2>2. agent /\ book.first # Nothing => delta = host.count - book.last
    BY TelemetryAssumption DEF CounterDelta, Count, ReadInv, SignalsInv
  <2> HIDE DEF delta
  <2> QED
    BY <1>2, <1>3, <2>1, <2>2, TelemetryAssumption DEF ReadInv, SignalsInv
<1>7. FieldsInv'
  <2>1. /\ prev'.metrics \in Reading /\ prev'.ts \in Reading
        /\ prev'.disk \in Reading /\ prev'.counters \in Reading
    BY <1>1, <1>2, <1>4, TelemetryAssumption
       DEF ReadInv, FieldsInv, Hosts, Reading, Sectors, Counters, Count
  <2>2. prev' \in [metrics : Reading, ts : Reading, disk : Reading, counters : Reading]
    BY <1>2, <2>1
  <2>3. point' \in [gen : Int, disk : {point'.disk}, delta : {point'.delta}]
    BY <1>2, <1>5 DEF TokensInv
  <2>4. /\ book'.generated \in Int /\ book'.interval \in Int
        /\ book'.first \in Reading /\ book'.last \in Reading
        /\ book'.heard \in Int /\ book'.raised \in BOOLEAN
    BY <1>3, <1>5, <1>6, TelemetryAssumption
       DEF ReadInv, FieldsInv, TokensInv, SignalsInv, Reading, Books
  <2>5. book'.diskAt \in Reading /\ book'.diskSpan \in Reading
    BY <1>1, <1>3 DEF ReadInv, FieldsInv, Books, Reading
  <2>6. book' \in Books
    BY <1>3, <2>4, <2>5 DEF Books
  <2> QED
    BY <1>2, <2>2, <2>3, <2>6 DEF ReadInv, FieldsInv
<1> QED
  BY <1>1, <1>5, <1>6, <1>7 DEF ReadInv

(* A poll that raises. *)
LEMMA ReadRaisesInv ==
    ASSUME ReadInv, NEW t \in Readings, NEW agent \in BOOLEAN, ReadRaises(t, agent)
    PROVE  ReadInv'
<1>1. now' = t /\ t \in Nat
  BY GapsAssumption DEF ReadRaises, Reads, Readings, ReadInv
<1>2. /\ host' = host /\ point' = point
      /\ prev' = [prev EXCEPT !.disk = Sectors(agent), !.counters = Counters(Count(agent))]
      /\ book' = [NotesAgent(agent, t) EXCEPT !.raised = TRUE]
  BY DEF ReadRaises
<1>3. /\ prev'.metrics = prev.metrics /\ prev'.ts = prev.ts
      /\ prev'.counters = IF agent THEN host.count ELSE prev.counters
      /\ prev' \in [metrics : Reading, ts : Reading, disk : Reading, counters : Reading]
  <2>1. prev \in [metrics : Reading, ts : Reading, disk : Reading, counters : Reading]
    BY DEF ReadInv, FieldsInv
  <2>2. Sectors(agent) \in Reading /\ Counters(Count(agent)) \in Reading
    BY <2>1 DEF Sectors, Counters, Count, ReadInv, FieldsInv, Hosts, Reading
  <2>3. Counters(Count(agent)) = IF agent THEN host.count ELSE prev.counters
    BY TelemetryAssumption DEF Counters, Count, ReadInv, SignalsInv
  <2> QED
    BY <1>2, <2>1, <2>2, <2>3
<1>4. /\ book'.generated = book.generated /\ book'.interval = book.interval
      /\ book'.first = IF agent /\ book.first = Nothing THEN host.count ELSE book.first
      /\ book'.last = IF agent THEN host.count ELSE book.last
      /\ book'.heard = book.heard /\ book'.raised = TRUE
      /\ book'.diskAt = IF agent THEN t ELSE Nothing
      /\ book'.diskSpan = book.diskSpan
      /\ book' \in [generated : {book'.generated}, interval : {book'.interval},
                    diskAt : {book'.diskAt}, diskSpan : {book'.diskSpan},
                    first : {book'.first}, last : {book'.last},
                    heard : {book'.heard}, raised : {book'.raised}]
  BY <1>2 DEF NotesAgent, ReadInv, FieldsInv, Books
<1>5. TokensInv'
  BY <1>2, <1>3, <1>4 DEF ReadInv, TokensInv
<1>6. SignalsInv'
  BY <1>2, <1>3, <1>4, TelemetryAssumption DEF ReadInv, SignalsInv
<1>7. FieldsInv'
  <2>1. host.count \in Nat /\ book \in Books
    BY DEF ReadInv, FieldsInv, SignalsInv
  <2>2. /\ book'.generated \in Int /\ book'.interval \in Int
        /\ book'.heard \in Int /\ book'.raised \in BOOLEAN
        /\ book'.diskSpan \in Reading
    BY <1>4, <2>1 DEF Books
  <2>3. book'.first \in Reading /\ book'.last \in Reading /\ book'.diskAt \in Reading
    BY <1>1, <1>4, <2>1 DEF Books, Reading
  <2>4. book' \in Books
    BY <1>4, <2>2, <2>3 DEF Books
  <2> QED
    BY <1>2, <1>3, <2>4 DEF ReadInv, FieldsInv
<1> QED
  BY <1>1, <1>5, <1>6, <1>7 DEF ReadInv

LEMMA HappensFields ==
    ASSUME host \in Hosts, NEW changed \in Hosts, Happens(changed)
    PROVE  /\ host' \in Hosts
           /\ host'.tokens = changed.tokens /\ host'.count = changed.count
           /\ UNCHANGED <<now, prev, point>>
<1>1. host' = [changed EXCEPT !.events = host.events + 1] /\ host.events + 1 \in Nat
  BY DEF Happens, Happened, Hosts
<1> QED
  BY <1>1 DEF Happens, Hosts

LEMMA NewBook ==
    ASSUME NEW b \in Books
    PROVE  [b EXCEPT !.first = Nothing, !.last = Nothing, !.heard = 0, !.raised = FALSE]
               \in Books
<1> DEFINE c == [b EXCEPT !.first = Nothing]
           d == [c EXCEPT !.last = Nothing]
           e == [d EXCEPT !.heard = 0]
<1>0. Nothing \in Reading
  BY DEF Reading
<1>1. c \in Books
  BY <1>0 DEF Books
<1> HIDE DEF c
<1>2. d \in Books
  BY <1>0, <1>1 DEF Books
<1> HIDE DEF d
<1>3. e \in Books
  BY <1>2 DEF Books
<1> HIDE DEF e
<1>4. [e EXCEPT !.raised = FALSE] \in Books
  BY <1>3 DEF Books
<1> QED
  BY <1>4 DEF c, d, e

(* What happens on the two hosts. *)
LEMMA HostsInv ==
    ASSUME ReadInv, Generate \/ ServerStarts \/ ReadDisk \/ LogSignal \/ AgentStarts
    PROVE  ReadInv'
<1>0. host \in Hosts
  BY DEF ReadInv, FieldsInv
<1>1. CASE Generate
  <2>1. /\ host' \in Hosts /\ host'.tokens = host.tokens + 1 /\ host'.count = host.count
        /\ UNCHANGED <<now, prev, point>>
    <3>1. [host EXCEPT !.tokens = @ + 1] \in Hosts
      BY <1>0 DEF Hosts
    <3> QED
      BY <1>0, <1>1, <3>1, HappensFields DEF Generate, Hosts
  <2>2. book' = [book EXCEPT !.generated = @ + 1]
    BY <1>1 DEF Generate
  <2>3. book' \in Books
    BY <2>2 DEF ReadInv, FieldsInv, Books
  <2>4. TokensInv' /\ SignalsInv'
    BY <2>1, <2>2 DEF ReadInv, FieldsInv, TokensInv, SignalsInv, Books
  <2> QED
    BY <2>1, <2>3, <2>4 DEF ReadInv, FieldsInv
<1>2. CASE ServerStarts
  <2>1. /\ host' \in Hosts /\ host'.tokens = 0 /\ host'.count = host.count
        /\ UNCHANGED <<now, prev, point, book>>
    <3>1. [host EXCEPT !.tokens = 0] \in Hosts
      BY <1>0 DEF Hosts
    <3> QED
      BY <1>0, <1>2, <3>1, HappensFields DEF ServerStarts, Hosts
  <2> QED
    BY <2>1 DEF ReadInv, FieldsInv, TokensInv, SignalsInv
<1>3. CASE ReadDisk
  <2>1. /\ host' \in Hosts /\ host'.tokens = host.tokens /\ host'.count = host.count
        /\ UNCHANGED <<now, prev, point, book>>
    <3>1. [host EXCEPT !.sectors = @ + 1] \in Hosts
      BY <1>0 DEF Hosts
    <3> QED
      BY <1>0, <1>3, <3>1, HappensFields DEF ReadDisk, Hosts
  <2> QED
    BY <2>1 DEF ReadInv, FieldsInv, TokensInv, SignalsInv
<1>4. CASE LogSignal
  <2>1. /\ host' \in Hosts /\ host'.tokens = host.tokens /\ host'.count = host.count + 1
        /\ UNCHANGED <<now, prev, point, book>>
    <3>1. [host EXCEPT !.count = @ + 1] \in Hosts
      BY <1>0 DEF Hosts
    <3> QED
      BY <1>0, <1>4, <3>1, HappensFields DEF LogSignal, Hosts
  <2> QED
    BY <2>1 DEF ReadInv, FieldsInv, TokensInv, SignalsInv
<1>5. CASE AgentStarts
  <2>1. PICK replayed \in 0 .. Replayable :
           /\ Happens([host EXCEPT !.count = replayed])
           /\ book' = [book EXCEPT !.first = Nothing, !.last = Nothing, !.heard = 0,
                                   !.raised = FALSE]
    BY <1>5 DEF AgentStarts
  <2>2. replayed \in Nat
    BY TelemetryAssumption
  <2>3. /\ host' \in Hosts /\ host'.tokens = host.tokens /\ host'.count = replayed
        /\ UNCHANGED <<now, prev, point>>
    <3>1. [host EXCEPT !.count = replayed] \in Hosts
      BY <1>0, <2>2 DEF Hosts
    <3> QED
      BY <1>0, <2>1, <3>1, HappensFields DEF Hosts
  <2>4. Nothing \in Reading
    BY DEF Reading
  <2> QED
    <3>1. TokensInv' /\ SignalsInv'
      BY <2>1, <2>2, <2>3 DEF ReadInv, FieldsInv, TokensInv, SignalsInv
    <3>2. book' \in Books
      <4>1. book \in Books
        BY DEF ReadInv, FieldsInv
      <4> QED
        BY <2>1, <4>1, NewBook
    <3> QED
      BY <2>3, <3>1, <3>2 DEF ReadInv, FieldsInv
<1> QED
  BY <1>1, <1>2, <1>3, <1>4, <1>5

LEMMA TelemetryStepInv == ReadInv /\ [TelemetryNext]_telemetryVars => ReadInv'
<1> SUFFICES ASSUME ReadInv, [TelemetryNext]_telemetryVars PROVE ReadInv'
  OBVIOUS
<1>1. ASSUME NEW t \in Readings, NEW agent \in BOOLEAN, ReadRaises(t, agent)
      PROVE  ReadInv'
  BY <1>1, ReadRaisesInv
<1>2. ASSUME NEW t \in Readings, NEW agent \in BOOLEAN, NEW server \in BOOLEAN,
             ReadAll(t, agent, server)
      PROVE  ReadInv'
  BY <1>2, ReadAllInv
<1>3. CASE Generate \/ ServerStarts \/ ReadDisk \/ LogSignal \/ AgentStarts
  BY <1>3, HostsInv
<1>4. CASE UNCHANGED telemetryVars
  BY <1>4 DEF telemetryVars, ReadInv, FieldsInv, TokensInv, SignalsInv, Reading
<1> QED
  BY <1>1, <1>2, <1>3, <1>4 DEF TelemetryNext

LEMMA TelemetryInv == TelemetrySpec => []ReadInv
BY TelemetryInitInv, TelemetryStepInv, PTL DEF TelemetrySpec

(* What a poll counts as generated is never negative and never more than   *)
(* was generated since the metrics were last read, over any polls without  *)
(* them and any restarts of the server: monitor._read_llama's reset and    *)
(* prev_metrics kept until there are new ones.                             *)
THEOREM TokensAreReal == TelemetrySpec => []TokensAreOfTheInterval
<1>1. ReadInv => TokensAreOfTheInterval
  BY DEF ReadInv, TokensInv, TokensAreOfTheInterval
<1> QED
  BY <1>1, TelemetryInv, PTL

(* The deltas stored of an agent's counters add up to what it counted,     *)
(* whatever answers were lost and however often it restarted; polls that   *)
(* raise can only lose some (derive.counter_deltas, monitor._read_journal).*)
THEOREM SignalsAddUp == TelemetrySpec => []SignalsConserved
<1>1. ReadInv => SignalsConserved
  BY DEF ReadInv, SignalsInv, SignalsConserved
<1> QED
  BY <1>1, TelemetryInv, PTL
(* What the run telemetry_disk leaves of DiskRateIsOfItsInterval: a rate   *)
(* may divide by more than the time between its two readings, because the  *)
(* time is that of the metrics, but never by less.  derive.disk_rates may  *)
(* make a load look slower than it was and never faster.                   *)
DiskRateIsNoHigher ==
    point.disk # Nothing =>
        /\ point.disk.amount >= 0
        /\ book.diskSpan \in Nat \ {0} /\ point.disk.dt >= book.diskSpan

(* What is remembered of the disk was read at the latest poll, and the     *)
(* time of the metrics is not after that.                                  *)
DiskInv ==
    /\ prev.disk # Nothing => book.diskAt = now
    /\ prev.ts # Nothing => prev.ts <= now
    /\ DiskRateIsNoHigher

LEMMA ReadAllDisk ==
    ASSUME ReadInv, DiskInv, NEW t \in Readings, NEW agent \in BOOLEAN,
           NEW server \in BOOLEAN, ReadAll(t, agent, server)
    PROVE  DiskInv'
<1>1. now' = t /\ t \in Nat /\ now \in Nat /\ now < t
  BY GapsAssumption DEF ReadAll, Reads, Readings, ReadInv
<1> DEFINE metrics == IF server THEN host.tokens ELSE Nothing
           llama == ReadLlama(metrics, t)
<1>2. /\ prev'.ts = llama.ts /\ prev'.disk = Sectors(agent)
      /\ point'.disk = DeviceRate(Sectors(agent), Dt(t))
  BY DEF ReadAll
<1>3. /\ book'.diskAt = IF agent THEN t ELSE Nothing
      /\ book'.diskSpan = IF book.diskAt = Nothing THEN Nothing ELSE t - book.diskAt
  BY DEF ReadAll, NotesAgent, ReadInv, FieldsInv, Books
<1>4. /\ prev.ts \in Reading /\ prev.disk \in Reading
      /\ host.sectors \in Nat
  BY DEF ReadInv, FieldsInv, Hosts
<1>5. prev'.disk # Nothing => book'.diskAt = now'
  BY <1>1, <1>2, <1>3 DEF Sectors
<1>6. prev'.ts # Nothing => prev'.ts <= now'
  <2>1. llama.ts = t \/ llama.ts = prev.ts
    BY DEF ReadLlama
  <2> QED
    BY <1>1, <1>2, <1>4, <2>1 DEF DiskInv, Reading
<1>7. ASSUME point'.disk # Nothing
      PROVE  /\ point'.disk.amount >= 0
             /\ book'.diskSpan \in Nat \ {0} /\ point'.disk.dt >= book'.diskSpan
  <2>1. /\ agent /\ prev.disk # Nothing /\ prev.ts # Nothing /\ host.sectors >= prev.disk
        /\ point'.disk = [amount |-> host.sectors - prev.disk, dt |-> t - prev.ts]
    BY <1>2, <1>4, <1>7 DEF DeviceRate, Sectors, Dt, Reading
  <2>2. prev.ts \in Int /\ prev.disk \in Int /\ prev.ts <= now /\ book.diskAt = now
    BY <1>4, <2>1 DEF DiskInv, Reading
  <2>3. book'.diskSpan = t - now
    BY <1>1, <1>3, <2>2, TelemetryAssumption
  <2> QED
    BY <1>1, <1>4, <2>1, <2>2, <2>3
<1> QED
  BY <1>5, <1>6, <1>7 DEF DiskInv, DiskRateIsNoHigher

LEMMA ReadRaisesDisk ==
    ASSUME ReadInv, DiskInv, NEW t \in Readings, NEW agent \in BOOLEAN, ReadRaises(t, agent)
    PROVE  DiskInv'
<1>1. now' = t /\ t \in Nat /\ now \in Nat /\ now < t
  BY GapsAssumption DEF ReadRaises, Reads, Readings, ReadInv
<1>2. /\ prev'.ts = prev.ts /\ prev'.disk = Sectors(agent) /\ prev.ts \in Reading
      /\ point' = point
  BY DEF ReadRaises, ReadInv, FieldsInv
<1>3. /\ book'.diskAt = IF agent THEN t ELSE Nothing
      /\ book'.diskSpan = book.diskSpan
  BY DEF ReadRaises, NotesAgent, ReadInv, FieldsInv, Books
<1> QED
  BY <1>1, <1>2, <1>3 DEF DiskInv, DiskRateIsNoHigher, Sectors, Reading

LEMMA DiskStepInv == ReadInv /\ DiskInv /\ [TelemetryNext]_telemetryVars => DiskInv'
<1> SUFFICES ASSUME ReadInv, DiskInv, [TelemetryNext]_telemetryVars PROVE DiskInv'
  OBVIOUS
<1>1. ASSUME NEW t \in Readings, NEW agent \in BOOLEAN, ReadRaises(t, agent)
      PROVE  DiskInv'
  BY <1>1, ReadRaisesDisk
<1>2. ASSUME NEW t \in Readings, NEW agent \in BOOLEAN, NEW server \in BOOLEAN,
             ReadAll(t, agent, server)
      PROVE  DiskInv'
  BY <1>2, ReadAllDisk
<1>3. CASE Generate \/ ServerStarts \/ ReadDisk \/ LogSignal \/ AgentStarts
  <2>1. UNCHANGED <<now, prev, point>>
    BY <1>3 DEF Generate, ServerStarts, ReadDisk, LogSignal, AgentStarts, Happens
  <2>2. book'.diskAt = book.diskAt /\ book'.diskSpan = book.diskSpan
    BY <1>3 DEF Generate, ServerStarts, ReadDisk, LogSignal, AgentStarts, ReadInv,
                FieldsInv, Books
  <2> QED
    BY <2>1, <2>2 DEF DiskInv, DiskRateIsNoHigher
<1>4. CASE UNCHANGED telemetryVars
  BY <1>4 DEF telemetryVars, DiskInv, DiskRateIsNoHigher
<1> QED
  BY <1>1, <1>2, <1>3, <1>4 DEF TelemetryNext

(* A disk or network rate (derive.disk_rates, net_rates) is never higher   *)
(* than what was counted since the reading before it, over any polls that  *)
(* missed the metrics, the agent or both, and any that raised.             *)
THEOREM DiskRatesOnlyFade == TelemetrySpec => []DiskRateIsNoHigher
<1>1. TelemetryInit => DiskInv
  BY DEF TelemetryInit, DiskInv, DiskRateIsNoHigher
<1>2. DiskInv => DiskRateIsNoHigher
  BY DEF DiskInv
<1> QED
  BY <1>1, <1>2, DiskStepInv, TelemetryInv, PTL DEF TelemetrySpec

-----------------------------------------------------------------------------
(* Polling a model that sleeps.  It sleeps when it was idle for so long,   *)
(* and a poll is shorter than that.                                        *)
SleepTypes ==
    /\ DOMAIN model = {"asleep", "busy", "idle"}
    /\ model.asleep \in BOOLEAN /\ model.busy \in BOOLEAN /\ model.idle \in Nat
    /\ DOMAIN spent = {"ticks", "work", "refused"} /\ spent.ticks \in Nat
    /\ DOMAIN read = {"busy", "sleeping"}
    /\ read.busy \in BOOLEAN /\ read.sleeping \in {"unread", "asleep", "awake"}
    /\ step \in {"health", "metrics", "props", "slots", "rest"}

(* What the poll read was so when it read it, and the ticks since are      *)
(* counted.                                                                *)
ReadInPoll ==
    /\ model.asleep => ~model.busy /\ SleepAfter <= model.idle
    /\ step # "rest" => spent.ticks <= PollTicks
    /\ step \in {"health", "metrics"} => ~read.busy
    /\ step \in {"health", "metrics", "props"} => read.sleeping = "unread"
    /\ step \in {"props", "slots"} /\ read.busy => model.busy \/ model.idle <= spent.ticks
    /\ step = "slots" /\ read.sleeping = "awake" /\ model.asleep => spent.ticks > 0

SleepInv == SleepTypes /\ ReadInPoll

LEMMA SleepInitInv == SleepInit => SleepInv
<1> SUFFICES ASSUME SleepInit PROVE SleepInv
  OBVIOUS
<1>1. SleepAfter \in Nat /\ PollTicks \in Nat
  BY SleepAssumption
<1>2. /\ DOMAIN model = {"asleep", "busy", "idle"} /\ model.asleep \in BOOLEAN
      /\ model.busy \in BOOLEAN /\ ~model.busy
      /\ model.asleep => model.idle = SleepAfter
      /\ ~model.asleep => model.idle = 0
  <2>1. PICK a \in BOOLEAN :
           model = [asleep |-> a, busy |-> FALSE, idle |-> IF a THEN SleepAfter ELSE 0]
    BY DEF SleepInit
  <2>2. /\ DOMAIN model = {"asleep", "busy", "idle"} /\ model.asleep = a
        /\ model.busy = FALSE /\ model.idle = IF a THEN SleepAfter ELSE 0
    BY <2>1
  <2> QED BY <2>2
<1>3. /\ step = "health" /\ DOMAIN read = {"busy", "sleeping"} /\ read.busy \in BOOLEAN /\ ~read.busy
      /\ read.sleeping = "unread" /\ DOMAIN spent = {"ticks", "work", "refused"}
      /\ spent.ticks = 0
  BY DEF SleepInit, NothingRead
<1>4. SleepTypes
  BY <1>1, <1>2, <1>3 DEF SleepTypes
<1>5. ReadInPoll
  BY <1>1, <1>2, <1>3 DEF ReadInPoll
<1> QED BY <1>4, <1>5 DEF SleepInv

LEMMA TouchedIs ==
    ASSUME SleepTypes
    PROVE  /\ DOMAIN Touched = {"asleep", "busy", "idle"} /\ Touched.asleep = FALSE
           /\ Touched.busy = model.busy /\ Touched.idle = 0
BY DEF SleepTypes, Touched

LEMMA SleepStepInv == SleepInv /\ [SleepNext]_sleepVars => SleepInv'
<1> SUFFICES ASSUME SleepInv, [SleepNext]_sleepVars PROVE SleepInv'
  OBVIOUS
<1> USE SleepAssumption DEF SleepInv, SleepTypes, ReadInPoll
<1>1. CASE UNCHANGED sleepVars
  BY <1>1 DEF sleepVars
<1>2. CASE ReadHealth
  BY <1>2 DEF ReadHealth
<1>3. ASSUME NEW answered \in BOOLEAN, ReadMetrics(answered) PROVE SleepInv'
  <2>1. /\ step = "metrics" /\ step' = "props" /\ DOMAIN spent' = DOMAIN spent
        /\ spent'.ticks = spent.ticks /\ DOMAIN read' = DOMAIN read
        /\ read'.sleeping = read.sleeping
    BY <1>3 DEF ReadMetrics
  <2>4. read'.busy \in BOOLEAN /\ (read'.busy => model.busy)
    <3>1. read'.busy = (answered /\ model.busy)
      BY <1>3 DEF ReadMetrics
    <3> QED BY <3>1
  <2>2. model' = model \/ model' = Touched
    BY <1>3 DEF ReadMetrics
  <2>3. /\ DOMAIN model' = DOMAIN model /\ model'.busy = model.busy
        /\ model'.asleep \in BOOLEAN /\ model'.idle \in Nat
        /\ model'.asleep => model.asleep /\ model'.idle = model.idle
    <3>1. CASE model' = model
      BY <3>1
    <3>2. CASE model' = Touched
      <4>1. model'.asleep = FALSE /\ model'.idle = 0 /\ model'.busy = model.busy
        BY <3>2, TouchedIs
      <4>2. DOMAIN model' = DOMAIN model
        BY <3>2, TouchedIs
      <4>3. model'.asleep \in BOOLEAN /\ ~model'.asleep
        BY <4>1
      <4>4. model'.idle \in Nat /\ model'.busy = model.busy
        BY <4>1
      <4> QED BY <4>2, <4>3, <4>4
    <3> QED BY <2>2, <3>1, <3>2
  <2> QED BY <2>1, <2>3, <2>4
<1>4. ASSUME NEW answered \in BOOLEAN, ReadProps(answered) PROVE SleepInv'
  BY <1>4 DEF ReadProps
<1>5. CASE ReadSlots
  BY <1>5 DEF ReadSlots, Touched
<1>6. CASE NextPoll
  BY <1>6 DEF NextPoll, NothingRead
<1>7. CASE Tick
  <2>1. /\ ~model.busy /\ ~model.asleep /\ step' = step /\ read' = read
        /\ DOMAIN model' = DOMAIN model /\ model'.busy = model.busy
        /\ model'.idle = model.idle + 1
        /\ model'.asleep = (model.idle + 1 >= SleepAfter)
        /\ DOMAIN spent' = DOMAIN spent
        /\ step # "rest" => spent.ticks < PollTicks /\ spent'.ticks = spent.ticks + 1
        /\ step = "rest" => spent'.ticks = 0
    BY <1>7 DEF Tick
  <2>2. model'.asleep => SleepAfter <= model'.idle
    BY <2>1
  <2>3. model'.asleep \in BOOLEAN
    BY <2>1
  <2> QED BY <2>1, <2>2, <2>3
<1>8. CASE Begin
  <2>1. /\ DOMAIN model' = DOMAIN model /\ ~model'.asleep /\ model'.asleep \in BOOLEAN
        /\ model'.busy \in BOOLEAN /\ model'.busy /\ model'.idle = 0
        /\ step' = step /\ read' = read /\ DOMAIN spent' = DOMAIN spent
        /\ spent'.ticks = spent.ticks
    BY <1>8, TouchedIs DEF Begin
  <2> QED BY <2>1
<1>9. CASE Finish
  <2>1. /\ DOMAIN model' = DOMAIN model /\ ~model'.asleep /\ model'.asleep \in BOOLEAN
        /\ model'.busy \in BOOLEAN /\ ~model'.busy /\ model'.idle = 0
        /\ step' = step /\ read' = read /\ spent' = spent
    BY <1>9, TouchedIs DEF Finish
  <2> QED BY <2>1
<1> QED BY <1>1, <1>2, <1>3, <1>4, <1>5, <1>6, <1>7, <1>8, <1>9 DEF SleepNext, Polls

(* In every mode a sleeping model is left asleep: no poll wakes it, except *)
(* by the scrape of an old build, or in a mode that asks whatever the      *)
(* metrics say, when /props was refused or the timer fired after it        *)
(* (should_poll_slots, fetch_llama).                                       *)
THEOREM AsleepIsLeft == SleepSpec => LeftAsleep
<1>1. SleepInv /\ [SleepNext]_sleepVars =>
        [model.asleep /\ ~model'.asleep /\ ~model'.busy
         => \/ step = "metrics" /\ ~setup.safe
            \/ step = "slots" /\ ~Careful /\ (read.sleeping = "unread" \/ spent.ticks > 0)
        ]_sleepVars
  <2> SUFFICES ASSUME SleepInv, SleepNext, model.asleep, ~model'.asleep, ~model'.busy
               PROVE  \/ step = "metrics" /\ ~setup.safe
                      \/ step = "slots" /\ ~Careful
                         /\ (read.sleeping = "unread" \/ spent.ticks > 0)
    OBVIOUS
  <2>1. CASE ReadHealth \/ NextPoll \/ \E answered \in BOOLEAN : ReadProps(answered)
    BY <2>1 DEF ReadHealth, NextPoll, ReadProps
  <2>2. CASE \E answered \in BOOLEAN : ReadMetrics(answered)
    BY <2>2 DEF ReadMetrics
  <2>3. CASE ReadSlots
    <3>1. step = "slots" /\ ShouldPollSlots
      BY <2>3 DEF ReadSlots
    <3>2. ~read.busy
      BY <3>1, SleepAssumption DEF SleepInv, SleepTypes, ReadInPoll
    <3>3. ~Careful
      BY <3>1, <3>2 DEF ShouldPollSlots, Careful
    <3>4. read.sleeping = "unread" \/ spent.ticks > 0
      BY <3>1 DEF ShouldPollSlots, SleepInv, SleepTypes, ReadInPoll
    <3> QED BY <3>1, <3>3, <3>4
  <2>4. CASE Tick \/ Begin \/ Finish
    <3>1. ~model.busy
      BY DEF SleepInv, ReadInPoll
    <3>2. ~Tick
      BY DEF Tick
    <3>3. ~Finish
      BY <3>1 DEF Finish
    <3>4. CASE Begin
      <4>1. model'.busy = TRUE
        BY <3>4, TouchedIs DEF Begin, SleepInv
      <4> QED BY <4>1
    <3> QED BY <2>4, <3>2, <3>3, <3>4
  <2> QED BY <2>1, <2>2, <2>3, <2>4 DEF SleepNext, Polls
<1> QED BY <1>1, SleepInitInv, SleepStepInv, PTL DEF SleepSpec, LeftAsleep

-----------------------------------------------------------------------------
(* The replay.  Frames are counted over all passes: place p is a frame of  *)
(* a pass, and what a leaf is there is what was last read of it.           *)
Moments == [pass : Nat, frame : DOMAIN frames]

Place(m) == m.pass * Len(frames) + m.frame

FrameAt(p) == ((p - 1) % Len(frames)) + 1
PassAt(p) == (p - 1) \div Len(frames)

ValueAt(p, leaf) == Shift(leaf, LatestRead(FrameAt(p), leaf), PassAt(p))

(* What the state says of the recording and its session. *)
Playing == frames \in Recordings /\ session.started \in Int

LEMMA DivisionIs ==
    ASSUME NEW w \in Nat \ {0}, NEW t \in Int
    PROVE  t \div w \in Int /\ t % w \in 0 .. w - 1 /\ t = (t \div w) * w + (t % w)
OBVIOUS

LEMMA ProductMonotone ==
    ASSUME NEW w \in Nat \ {0}, NEW k \in Int, NEW j \in Int, k <= j
    PROVE  k * w <= j * w
OBVIOUS

LEMMA ProductOrder ==
    ASSUME NEW w \in Nat \ {0}, NEW k \in Int, NEW j \in Int, k * w < j * w + w
    PROVE  k <= j
OBVIOUS

(* Rows of w places each: one row on is w places on. *)
LEMMA PlacesInOrder ==
    ASSUME NEW w \in Nat \ {0}, NEW k \in Int, NEW j \in Int,
           NEW a \in 1 .. w, NEW b \in 1 .. w, k < j \/ (k = j /\ a <= b)
    PROVE  k * w + a <= j * w + b
<1>1. k * w \in Int /\ j * w \in Int
  OBVIOUS
<1>2. CASE k = j /\ a <= b
  BY <1>1, <1>2
<1>3. CASE k < j
  <2>1. k + 1 \in Int /\ k + 1 <= j
    BY <1>3
  <2>2. (k + 1) * w <= j * w
    BY <2>1, ProductMonotone
  <2>3. (k + 1) * w = k * w + w
    OBVIOUS
  <2> QED BY <1>1, <2>2, <2>3
<1> QED BY <1>2, <1>3

(* There is one way to divide. *)
LEMMA DivisionIsOne ==
    ASSUME NEW w \in Nat \ {0}, NEW t \in Int, NEW k \in Int, NEW r \in 0 .. w - 1,
           t = k * w + r
    PROVE  t \div w = k /\ t % w = r
<1> DEFINE j == t \div w
           s == t % w
<1>1. j \in Int /\ s \in 0 .. w - 1 /\ t = j * w + s
  BY DivisionIs
<1> HIDE DEF j, s
<1>2. j * w \in Int /\ k * w \in Int
  BY <1>1
<1>3. j * w < k * w + w /\ k * w < j * w + w
  BY <1>1, <1>2
<1>4. j <= k /\ k <= j
  BY <1>1, <1>3, ProductOrder
<1> QED BY <1>1, <1>2, <1>4 DEF j, s

(* Of some numbers, none above n, the largest. *)
LEMMA LargestOf ==
    ASSUME NEW n \in Nat, NEW S \in SUBSET (0 .. n), S # {}
    PROVE  \E m \in S : \A j \in S : j <= m
<1> DEFINE T == {n - j : j \in S}
<1>0. \A j \in S : j \in Int /\ j <= n
  OBVIOUS
<1>1. T \in SUBSET Nat /\ T # {}
  <2>1. \A j \in S : n - j \in Nat
    BY <1>0
  <2> QED BY <2>1
<1>2. PICK x \in T : \A y \in T : <<y, x>> \notin OpToRel(<, Nat)
  BY <1>1, NatLessThanWellFounded, WFMin
<1>3. ASSUME NEW y \in T PROVE x <= y
  <2>1. <<y, x>> \notin {ss \in Nat \X Nat : ss[1] < ss[2]}
    BY <1>2, <1>3 DEF OpToRel
  <2> QED BY <1>1, <2>1
<1>4. PICK m \in S : x = n - m
  OBVIOUS
<1>5. ASSUME NEW j \in S PROVE j <= m
  <2>1. n - m <= n - j
    BY <1>3, <1>4
  <2> HIDE DEF T
  <2> QED BY <1>0, <2>1
<1> QED BY <1>5

LEMMA ElementsOf == ASSUME NEW S, NEW s \in Seq(S) PROVE \A i \in DOMAIN s : s[i] \in S
OBVIOUS

(* What a recording is. *)
LEMMA RecordingIs ==
    ASSUME Playing
    PROVE  /\ Len(frames) \in Nat \ {0} /\ DOMAIN frames = 1 .. Len(frames)
           /\ \A i \in DOMAIN frames :
                 /\ frames[i].t \in Nat
                 /\ \A leaf \in Leaves : frames[i][leaf] \in Int \cup {Refused, Unread}
           /\ frames[1].t = 0
           /\ \A leaf \in Leaves : Read(First, leaf) /\ Read(Final, leaf)
           /\ Period \in Nat \ {0}
<1>1. IsRecording(frames)
  BY DemoAssumption DEF Playing
<1>2. /\ frames \in Seq([t : Nat, ts : Answers, lines : Answers, tokens : Answers])
      /\ frames # <<>>
  BY <1>1 DEF IsRecording
<1>3. Len(frames) \in Nat \ {0} /\ DOMAIN frames = 1 .. Len(frames)
  BY <1>2
<1>4. \A i \in DOMAIN frames :
         frames[i] \in [t : Nat, ts : Answers, lines : Answers, tokens : Answers]
  BY <1>2, ElementsOf
<1>5. ASSUME NEW i \in DOMAIN frames
      PROVE  /\ frames[i].t \in Nat
             /\ \A leaf \in Leaves : frames[i][leaf] \in Int \cup {Refused, Unread}
  BY <1>4, <1>5 DEF Leaves, Answers
<1>6. \A leaf \in Leaves : Read(First, leaf) /\ Read(Final, leaf)
  BY <1>1 DEF IsRecording, Read, First, Final
<1>7. Period \in Nat \ {0}
  BY <1>3, <1>5, DemoAssumption DEF Period, Final
<1> QED BY <1>1, <1>3, <1>5, <1>6, <1>7 DEF IsRecording

(* The first frame's time has come at any moment of a pass, so moment()    *)
(* has a frame; and a later moment is at no earlier place.                 *)
LEMMA MomentIs ==
    ASSUME Playing, NEW t \in Int
    PROVE  /\ Moment(t) \in Moments
           /\ \A j \in DOMAIN frames :
                 frames[j].t <= (IF t > session.started THEN t - session.started ELSE 0) % Period
                 => j <= Moment(t).frame
           /\ frames[Moment(t).frame].t
                 <= (IF t > session.started THEN t - session.started ELSE 0) % Period
<1> DEFINE elapsed == IF t > session.started THEN t - session.started ELSE 0
           come == {i \in DOMAIN frames : frames[i].t <= elapsed % Period}
<1>1. elapsed \in Nat
  BY DEF Playing
<1>2. elapsed % Period \in Nat /\ elapsed \div Period \in Nat
  <2> HIDE DEF elapsed
  <2>1. Period \in Nat \ {0}
    BY RecordingIs
  <2> HIDE DEF Period
  <2> QED BY <1>1, <2>1
<1> HIDE DEF elapsed
<1>3. 1 \in come /\ come \in SUBSET (0 .. Len(frames)) /\ Len(frames) \in Nat
  BY <1>2, RecordingIs
<1>4. \E i \in come : \A j \in come : j <= i
  <2> HIDE DEF come
  <2> QED BY <1>3, LargestOf
<1>5. Moment(t) = [pass |-> elapsed \div Period,
                   frame |-> CHOOSE i \in come : \A j \in come : j <= i]
  BY DEF Moment, elapsed
<1> DEFINE f == CHOOSE i \in come : \A j \in come : j <= i
<1>6. f \in come /\ \A j \in come : j <= f
  BY <1>4
<1>7. Moment(t).frame = f /\ Moment(t).pass = elapsed \div Period
  BY <1>5
<1> HIDE DEF f
<1>8. Moment(t) \in Moments
  BY <1>2, <1>5, <1>6 DEF Moments, f
<1> QED BY <1>6, <1>7, <1>8 DEF elapsed

LEMMA MomentsRise ==
    ASSUME Playing, NEW s \in Int, NEW t \in Int, s <= t
    PROVE  Place(Moment(s)) <= Place(Moment(t))
<1> DEFINE e(x) == IF x > session.started THEN x - session.started ELSE 0
           d == e(s)
           f == e(t)
           L == Len(frames)
           m == Moment(s)
           n == Moment(t)
<1>1. d \in Nat /\ f \in Nat /\ d <= f
  BY DEF Playing
<1>2. /\ m.pass = d \div Period /\ n.pass = f \div Period
      /\ m.pass \in Nat /\ n.pass \in Nat
      /\ m.frame \in 1 .. L /\ n.frame \in 1 .. L
      /\ frames[m.frame].t <= d % Period
      /\ \A j \in DOMAIN frames : frames[j].t <= f % Period => j <= n.frame
  BY MomentIs, RecordingIs DEF Moment, Moments
<1>3. Period \in Nat \ {0} /\ L \in Nat \ {0} /\ frames[m.frame].t \in Nat
      /\ DOMAIN frames = 1 .. L
  BY <1>2, RecordingIs
<1> HIDE DEF d, f, m, n, L
<1>4. /\ d % Period \in 0 .. Period - 1 /\ f % Period \in 0 .. Period - 1
      /\ d = (d \div Period) * Period + (d % Period)
      /\ f = (f \div Period) * Period + (f % Period)
      /\ d \div Period \in Int /\ f \div Period \in Int
  <2> HIDE DEF Period
  <2>1. d \in Int /\ f \in Int
    BY <1>1
  <2>2. d \div Period \in Int /\ d % Period \in 0 .. Period - 1
        /\ d = (d \div Period) * Period + (d % Period)
    BY <1>3, <2>1, DivisionIs
  <2>3. f \div Period \in Int /\ f % Period \in 0 .. Period - 1
        /\ f = (f \div Period) * Period + (f % Period)
    BY <1>3, <2>1, DivisionIs
  <2> QED BY <2>2, <2>3
<1> DEFINE c == d % Period
           e1 == f % Period
           j == d \div Period
           k == f \div Period
<1> HIDE DEF c, e1, j, k
<1>5. /\ c \in 0 .. Period - 1 /\ e1 \in 0 .. Period - 1 /\ j \in Int /\ k \in Int
      /\ d = j * Period + c /\ f = k * Period + e1
  BY <1>4 DEF c, e1, j, k
<1>6. /\ m.pass = j /\ n.pass = k /\ frames[m.frame].t <= c
      /\ \A i \in 1 .. L : frames[i].t <= e1 => i <= n.frame
  BY <1>2, <1>3 DEF c, e1, j, k
<1>7. j * Period \in Int /\ k * Period \in Int
  BY <1>3, <1>5
<1>8. j <= k
  <2> HIDE DEF Period
  <2>1. j * Period < k * Period + Period
    BY <1>1, <1>3, <1>5, <1>7
  <2> QED BY <1>3, <1>5, <2>1, ProductOrder
<1>9. j = k => m.frame <= n.frame
  <2> SUFFICES ASSUME j = k PROVE m.frame <= n.frame
    OBVIOUS
  <2>1. c <= e1
    BY <1>1, <1>5, <1>7
  <2>2. frames[m.frame].t <= e1
    BY <1>3, <1>5, <1>6, <2>1
  <2> QED BY <1>2, <1>6, <2>2
<1>10. j * L + m.frame <= k * L + n.frame
  <2>1. j < k \/ (j = k /\ m.frame <= n.frame)
    BY <1>5, <1>8, <1>9
  <2> QED BY <1>2, <1>3, <1>5, <2>1, PlacesInOrder
<1> QED BY <1>6, <1>10 DEF Place, L, m, n

(* A moment's place tells its pass and its frame. *)
LEMMA PlaceIs ==
    ASSUME Playing, NEW m \in Moments
    PROVE  Place(m) \in Nat \ {0} /\ FrameAt(Place(m)) = m.frame /\ PassAt(Place(m)) = m.pass
<1> DEFINE L == Len(frames)
           k == m.pass
           r == m.frame - 1
<1>1. L \in Nat \ {0} /\ k \in Nat /\ m.frame \in 1 .. L
  BY RecordingIs DEF Moments
<1>2. Place(m) = k * L + m.frame
  BY DEF Place
<1> HIDE DEF L, k
<1>3. k * L \in Nat
  BY <1>1
<1>4. Place(m) \in Nat \ {0} /\ Place(m) - 1 = k * L + r /\ r \in 0 .. L - 1
  BY <1>1, <1>2, <1>3
<1> DEFINE q == Place(m) - 1
<1> HIDE DEF r, q
<1>5. q \div L = k /\ q % L = r
  <2>1. q \in Int /\ q = k * L + r /\ r \in 0 .. L - 1
    BY <1>4 DEF q
  <2> QED BY <1>1, <2>1, DivisionIsOne
<1>6. r + 1 = m.frame
  BY <1>1 DEF r
<1> QED BY <1>4, <1>5, <1>6 DEF FrameAt, PassAt, q, L, k

(* The next place is the next frame, or the first one of the next pass. *)
LEMMA NextPlace ==
    ASSUME Playing, NEW p \in Nat \ {0}
    PROVE  /\ FrameAt(p) \in DOMAIN frames /\ PassAt(p) \in Nat
           /\ \/ /\ FrameAt(p) < Len(frames) /\ FrameAt(p + 1) = FrameAt(p) + 1
                 /\ PassAt(p + 1) = PassAt(p)
              \/ /\ FrameAt(p) = Len(frames) /\ FrameAt(p + 1) = 1
                 /\ PassAt(p + 1) = PassAt(p) + 1
<1> DEFINE L == Len(frames)
           k == (p - 1) \div L
           r == (p - 1) % L
<1>1. L \in Nat \ {0} /\ DOMAIN frames = 1 .. L
  BY RecordingIs
<1>2. k \in Int /\ r \in 0 .. L - 1 /\ p - 1 = k * L + r /\ k \in Nat
  <2> HIDE DEF L
  <2>1. p - 1 \in Int
    OBVIOUS
  <2>2. k \in Int /\ r \in 0 .. L - 1 /\ p - 1 = k * L + r
    BY <1>1, <2>1, DivisionIs
  <2>3. k \in Nat
    <3> HIDE DEF k, r
    <3>1. 0 * L < k * L + L
      BY <1>1, <2>2
    <3>2. 0 <= k
      BY <1>1, <2>2, <3>1, ProductOrder
    <3> QED BY <2>2, <3>2
  <2> QED BY <2>2, <2>3
<1>3. FrameAt(p) = r + 1 /\ PassAt(p) = k
  BY DEF FrameAt, PassAt
<1>4. FrameAt(p + 1) = (p % L) + 1 /\ PassAt(p + 1) = p \div L
  <2>1. (p + 1) - 1 = p
    OBVIOUS
  <2> QED BY <2>1 DEF FrameAt, PassAt
<1> HIDE DEF L, k, r
<1>5. k * L \in Int
  BY <1>1, <1>2
<1>6. CASE r < L - 1
  <2>1. p = k * L + (r + 1) /\ r + 1 \in 0 .. L - 1
    BY <1>1, <1>2, <1>5, <1>6
  <2> DEFINE s == r + 1
  <2> HIDE DEF s
  <2>2. p \div L = k /\ p % L = s
    <3>1. p = k * L + s /\ s \in 0 .. L - 1 /\ p \in Int
      BY <2>1 DEF s
    <3> QED BY <1>1, <1>2, <3>1, DivisionIsOne
  <2>3. FrameAt(p + 1) = (r + 1) + 1 /\ PassAt(p + 1) = k
    BY <1>4, <2>2 DEF s, L
  <2>4. FrameAt(p) < L /\ FrameAt(p + 1) = FrameAt(p) + 1 /\ FrameAt(p) \in 1 .. L
    BY <1>1, <1>2, <1>3, <1>6, <2>3
  <2> QED BY <1>1, <1>2, <1>3, <2>3, <2>4 DEF L
<1>7. CASE r = L - 1
  <2> DEFINE h == k + 1
  <2>1. p = h * L + 0 /\ 0 \in 0 .. L - 1 /\ h \in Int /\ p \in Int
    <3>1. h * L = k * L + L
      BY <1>1, <1>2
    <3> QED BY <1>1, <1>2, <1>5, <1>7, <3>1
  <2> HIDE DEF h
  <2>2. p \div L = h /\ p % L = 0
    BY <1>1, <2>1, DivisionIsOne
  <2>3. FrameAt(p + 1) = 1 /\ PassAt(p + 1) = k + 1
    BY <1>4, <2>2 DEF h, L
  <2>4. FrameAt(p) = L /\ FrameAt(p) \in 1 .. L
    BY <1>1, <1>2, <1>3, <1>7
  <2> QED BY <1>1, <1>2, <1>3, <2>3, <2>4 DEF L
<1> QED BY <1>1, <1>2, <1>6, <1>7

(* What was last read of a leaf: the first frame holds each. *)
LEMMA LatestReadIs ==
    ASSUME Playing, NEW leaf \in Leaves, NEW i \in DOMAIN frames
    PROVE  /\ LatestRead(i, leaf) \in Int
           /\ \E j \in 1 .. i :
                 /\ Read(frames[j], leaf) /\ LatestRead(i, leaf) = frames[j][leaf]
                 /\ \A k \in 1 .. i : Read(frames[k], leaf) => k <= j
<1> DEFINE reads == {j \in 1 .. i : Read(frames[j], leaf)}
<1>1. i \in Nat /\ 1 \in 1 .. i
  BY RecordingIs
<1>2. 1 \in reads /\ reads \in SUBSET (0 .. i)
  BY <1>1, RecordingIs DEF First
<1>3. \E j \in reads : \A k \in reads : k <= j
  <2> HIDE DEF reads
  <2> QED BY <1>1, <1>2, LargestOf
<1>4. LatestRead(i, leaf) = frames[CHOOSE j \in reads : \A k \in reads : k <= j][leaf]
  BY <1>2 DEF LatestRead
<1> DEFINE c == CHOOSE j \in reads : \A k \in reads : k <= j
<1>5. c \in reads /\ \A k \in reads : k <= c
  BY <1>3
<1> HIDE DEF c
<1>6. LatestRead(i, leaf) = frames[c][leaf]
  BY <1>4 DEF c
<1> QED BY <1>5, <1>6 DEF Read

(* From one place to the next no time falls, and a counter only where the  *)
(* recorded machine's did: at the seam a pass goes on from the last.       *)
LEMMA NextValue ==
    ASSUME Playing, NEW leaf \in Leaves, NEW p \in Nat \ {0},
           ~(leaf \in Totals /\ FellAsRecorded(p, leaf))
    PROVE  ValueAt(p, leaf) <= ValueAt(p + 1, leaf)
<1> DEFINE i == FrameAt(p)
           k == PassAt(p)
<1>1. i \in DOMAIN frames /\ k \in Nat /\ DOMAIN frames = 1 .. Len(frames)
      /\ Len(frames) \in Nat \ {0} /\ Period \in Nat \ {0}
  BY NextPlace, RecordingIs
<1>2. IsRecording(frames) /\ session.started \in Int
  BY DemoAssumption DEF Playing
<1>3. CASE i < Len(frames) /\ FrameAt(p + 1) = i + 1 /\ PassAt(p + 1) = k
  <2>1. i + 1 \in DOMAIN frames
    BY <1>1, <1>3
  <2> DEFINE v == LatestRead(i, leaf)
             w == LatestRead(i + 1, leaf)
  <2>2. v \in Int /\ w \in Int
    BY <1>1, <2>1, LatestReadIs
  <2>3. v <= w
    <3>1. CASE leaf \in Totals
      BY <1>3, <2>2, <3>1 DEF FellAsRecorded, FrameAt
    <3>2. CASE leaf = "ts"
      <4>1. PICK a \in 1 .. i : Read(frames[a], leaf) /\ v = frames[a][leaf]
        BY <1>1, LatestReadIs
      <4>2. PICK b \in 1 .. i + 1 :
                /\ Read(frames[b], leaf) /\ w = frames[b][leaf]
                /\ \A j \in 1 .. i + 1 : Read(frames[j], leaf) => j <= b
        BY <2>1, LatestReadIs
      <4>3. a <= b /\ a \in DOMAIN frames /\ b \in DOMAIN frames /\ a \in Int /\ b \in Int
        <5>1. a \in 1 .. i + 1
          BY <1>1
        <5> QED BY <1>1, <1>3, <4>1, <4>2, <5>1
      <4>4. CASE a < b
        BY <1>2, <3>2, <4>1, <4>2, <4>3, <4>4 DEF IsRecording, Read
      <4>5. CASE a = b
        BY <2>2, <4>1, <4>2, <4>5
      <4> QED BY <4>3, <4>4, <4>5
    <3> QED BY <3>1, <3>2 DEF Leaves, Totals
  <2>4. ValueAt(p, leaf) = Shift(leaf, v, k) /\ ValueAt(p + 1, leaf) = Shift(leaf, w, k)
    BY <1>3 DEF ValueAt
  <2> HIDE DEF v, w, k
  <2>5. k * Step(leaf) \in Int /\ k * Period \in Int
    <3>1. Step(leaf) \in Int
      BY DEF Step, Read
    <3> HIDE DEF Period
    <3> QED BY <1>1, <3>1
  <2> QED BY <1>2, <2>2, <2>3, <2>4, <2>5 DEF Shift
<1>4. CASE i = Len(frames) /\ FrameAt(p + 1) = 1 /\ PassAt(p + 1) = k + 1
  <2> DEFINE v == First[leaf]
             w == Final[leaf]
  <2>1. v \in Int /\ w \in Int /\ 1 \in DOMAIN frames
    BY <1>1, RecordingIs DEF Read
  <2>2. LatestRead(1, leaf) = v
    <3>1. PICK j \in 1 .. 1 : LatestRead(1, leaf) = frames[j][leaf]
      BY <2>1, LatestReadIs
    <3> QED BY <3>1 DEF First
  <2>3. LatestRead(i, leaf) = w
    <3>1. PICK j \in 1 .. i : /\ LatestRead(i, leaf) = frames[j][leaf]
                              /\ \A m \in 1 .. i : Read(frames[m], leaf) => m <= j
      BY <1>1, LatestReadIs
    <3>2. Read(frames[i], leaf)
      BY <1>4, RecordingIs DEF Final
    <3>3. i \in 1 .. i
      BY <1>1
    <3>4. i <= j
      BY <3>1, <3>2, <3>3
    <3>5. j = i
      BY <1>1, <3>4
    <3> QED BY <1>4, <3>1, <3>5 DEF Final
  <2>4. ValueAt(p, leaf) = Shift(leaf, w, k) /\ ValueAt(p + 1, leaf) = Shift(leaf, v, k + 1)
    BY <1>4, <2>2, <2>3 DEF ValueAt
  <2>5. CASE leaf \in Totals
    <3> DEFINE s == Step(leaf)
    <3>1. s \in Int /\ w <= v + s
      BY <2>1, RecordingIs DEF Step
    <3>2. ValueAt(p, leaf) = w + k * s /\ ValueAt(p + 1, leaf) = v + (k + 1) * s
      BY <2>4, <2>5 DEF Shift
    <3> HIDE DEF s, v, w, k
    <3>3. k * s \in Int /\ (k + 1) * s = k * s + s
      BY <1>1, <3>1
    <3> QED BY <2>1, <3>1, <3>2, <3>3
  <2>6. CASE leaf = "ts"
    <3>1. w <= v + Period
      BY <1>1, <1>2, <2>1, <2>6, RecordingIs, DemoAssumption DEF IsRecording, First, Final, Period
    <3>2. /\ ValueAt(p, leaf) = w + session.started + k * Period
          /\ ValueAt(p + 1, leaf) = v + session.started + (k + 1) * Period
      BY <2>4, <2>6 DEF Shift, Totals
    <3> HIDE DEF v, w, k, Period
    <3>3. k * Period \in Int /\ (k + 1) * Period = k * Period + Period
      BY <1>1
    <3> QED BY <1>1, <1>2, <2>1, <3>1, <3>2, <3>3
  <2> QED BY <2>5, <2>6 DEF Leaves, Totals
<1> QED BY <1>3, <1>4, NextPlace

LEMMA ValueIs ==
    ASSUME Playing, NEW leaf \in Leaves, NEW p \in Nat \ {0}
    PROVE  ValueAt(p, leaf) \in Int
<1> DEFINE v == LatestRead(FrameAt(p), leaf)
           k == PassAt(p)
<1>1. v \in Int /\ k \in Nat /\ Period \in Nat \ {0} /\ session.started \in Int
  BY NextPlace, RecordingIs, LatestReadIs DEF Playing
<1>2. Step(leaf) \in Int
  BY DEF Step, Read
<1>3. ValueAt(p, leaf) = Shift(leaf, v, k)
  BY DEF ValueAt
<1> HIDE DEF v, k
<1>4. k * Step(leaf) \in Int /\ k * Period \in Int
  <2> HIDE DEF Period
  <2> QED BY <1>1, <1>2
<1> QED BY <1>1, <1>3, <1>4 DEF Shift

(* So it is between any two places. *)
LEMMA ValuesRise ==
    ASSUME Playing, NEW leaf \in Leaves, NEW p \in Nat \ {0}, NEW q \in Nat \ {0}, p <= q
    PROVE  \/ ValueAt(p, leaf) <= ValueAt(q, leaf)
           \/ \E k \in p .. q - 1 : leaf \in Totals /\ FellAsRecorded(k, leaf)
<1> SUFFICES ASSUME \A k \in p .. q - 1 : ~(leaf \in Totals /\ FellAsRecorded(k, leaf))
             PROVE  ValueAt(p, leaf) <= ValueAt(q, leaf)
  OBVIOUS
<1> DEFINE v(x) == ValueAt(x, leaf)
           S == {n \in Nat : p + n <= q /\ ~(v(p) <= v(p + n))}
<1>1. \A x \in Nat \ {0} : v(x) \in Int
  BY ValueIs
<1>2. \A x \in p .. q - 1 : x \in Nat \ {0} /\ v(x) <= v(x + 1)
  BY NextValue
<1>3. S = {}
  <2> SUFFICES ASSUME S # {} PROVE FALSE
    OBVIOUS
  <2>1. PICK n \in S : \A y \in S : <<y, n>> \notin OpToRel(<, Nat)
    BY NatLessThanWellFounded, WFMin
  <2>2. n \in Nat /\ p + n <= q /\ ~(v(p) <= v(p + n))
    OBVIOUS
  <2>3. n # 0
    <3>1. p + 0 = p /\ v(p) \in Int
      BY <1>1
    <3> HIDE DEF v
    <3> QED BY <2>2, <3>1
  <2>4. n - 1 \in Nat /\ p + (n - 1) <= q
    BY <2>2, <2>3
  <2>5. n - 1 \notin S
    <3>1. <<n - 1, n>> \in {ss \in Nat \X Nat : ss[1] < ss[2]}
      BY <2>2, <2>4
    <3> QED BY <2>1, <3>1 DEF OpToRel
  <2>6. v(p) <= v(p + (n - 1))
    BY <2>4, <2>5
  <2>7. p + (n - 1) \in p .. q - 1 /\ (p + (n - 1)) + 1 = p + n
    BY <2>2, <2>4
  <2>8. v(p + (n - 1)) <= v(p + n) /\ {v(p), v(p + (n - 1)), v(p + n)} \subseteq Int
    <3>1. p + (n - 1) \in Nat \ {0} /\ p + n \in Nat \ {0}
      BY <2>2, <2>4
    <3> HIDE DEF v, S
    <3> QED BY <1>1, <1>2, <2>7, <3>1
  <2> HIDE DEF v, S
  <2> QED BY <2>2, <2>6, <2>8
<1>4. q - p \in Nat /\ p + (q - p) = q
  OBVIOUS
<1>5. q - p \notin S
  BY <1>3
<1> QED BY <1>4, <1>5

(* No poll to come is of an earlier moment than this one's. *)
Standing ==
    /\ at \in Moments
    /\ \A t \in Int : now <= t => Place(at) <= Place(Moment(t))

(* What was heard of a leaf was its value at a place no later than that. *)
HeardOfPlace(leaf) ==
    heard[leaf] \in Int =>
        /\ Standing
        /\ heardAt[leaf] \in Nat \ {0} /\ heardAt[leaf] <= Place(at)
        /\ heard[leaf] = ValueAt(heardAt[leaf], leaf)

DemoInv ==
    /\ now \in Nat /\ Playing /\ session.started <= now - DemoOffset
    /\ session = [started |-> session.started, agent |-> session.agent,
                  restarts |-> session.restarts]
    /\ newest \in Int /\ newest <= now
    /\ at = NoAnswer \/ Standing
    /\ \A leaf \in Leaves : HeardOfPlace(leaf)

(* ReplayTransport answers a number from where its moment is. *)
LEMMA AnswerIs ==
    ASSUME Playing, NEW m \in Moments, NEW leaf \in Leaves, Answer(m, leaf) \in Int
    PROVE  Answer(m, leaf) = ValueAt(Place(m), leaf)
<1> DEFINE reads == {i \in 1 .. m.frame : frames[i][leaf] # Unread}
           c == CHOOSE i \in reads : \A j \in reads : j <= i
<1>1. m.frame \in DOMAIN frames /\ m.frame \in Nat /\ 1 .. m.frame \subseteq DOMAIN frames
  BY RecordingIs DEF Moments
<1>2. Refused \notin Int /\ Unread \notin Int /\ NoAnswer \notin Int
  BY DemoAssumption
<1>3. reads # {}
  BY <1>2 DEF Answer
<1>4. \E i \in reads : \A j \in reads : j <= i
  <2>1. reads \in SUBSET (0 .. m.frame)
    BY <1>1
  <2> HIDE DEF reads
  <2> QED BY <1>1, <1>3, <2>1, LargestOf
<1>5. c \in reads /\ \A j \in reads : j <= c
  BY <1>4
<1>6. Answer(m, leaf) = IF frames[c][leaf] = Refused THEN Refused
                        ELSE Shift(leaf, frames[c][leaf], m.pass)
  BY <1>3 DEF Answer
<1> HIDE DEF c
<1>7. c \in 1 .. m.frame /\ Read(frames[c], leaf)
  BY <1>1, <1>2, <1>5, <1>6, RecordingIs DEF Read
<1>8. PICK j \in 1 .. m.frame :
          /\ Read(frames[j], leaf) /\ LatestRead(m.frame, leaf) = frames[j][leaf]
          /\ \A k \in 1 .. m.frame : Read(frames[k], leaf) => k <= j
  BY <1>1, LatestReadIs
<1>9. j \in reads
  BY <1>2, <1>8 DEF Read
<1>10. j = c
  BY <1>1, <1>5, <1>7, <1>8, <1>9
<1>11. FrameAt(Place(m)) = m.frame /\ PassAt(Place(m)) = m.pass
  BY PlaceIs
<1>12. frames[c][leaf] # Refused
  BY <1>2, <1>7 DEF Read
<1> QED BY <1>6, <1>8, <1>10, <1>11, <1>12 DEF ValueAt

LEMMA SameRecording ==
    ASSUME UNCHANGED <<frames, session>>
    PROVE  /\ Playing' = Playing /\ Moments' = Moments
           /\ \A s \in Int : Moment(s)' = Moment(s) /\ Place(Moment(s))' = Place(Moment(s))
           /\ \A p \in Nat \ {0}, leaf \in Leaves : ValueAt(p, leaf)' = ValueAt(p, leaf)
BY DEF Playing, Moments, Place, Moment, ValueAt, Shift, LatestRead, FrameAt, PassAt,
       Period, Final, First, Step

(* One request of a poll: what is heard is of the poll's moment, which is  *)
(* no earlier than what was heard before; so it has not gone backwards.    *)
LEMMA RequestIs ==
    ASSUME DemoInv, NEW t \in Readings, now' = t, NEW leaves \in SUBSET Leaves,
           at' = Moment(t) \/ (Standing /\ at' = at), Hear(leaves, at'),
           UNCHANGED <<frames, session>>
    PROVE  /\ Standing'
           /\ \A leaf \in Leaves :
                 /\ HeardOfPlace(leaf)'
                 /\ heard[leaf] \in Int =>
                        \/ heard'[leaf] >= heard[leaf]
                        \/ \E p \in heardAt[leaf] .. heardAt'[leaf] - 1 :
                              leaf \in Totals /\ FellAsRecorded(p, leaf)
<1>1. t \in Int /\ now \in Int /\ now < t /\ Playing
  BY GapsAssumption DEF DemoInv, Readings
<1>2. /\ Playing' /\ Moments' = Moments
      /\ \A s \in Int : Moment(s)' = Moment(s) /\ Place(Moment(s))' = Place(Moment(s))
      /\ \A p \in Nat \ {0}, leaf \in Leaves : ValueAt(p, leaf)' = ValueAt(p, leaf)
  BY <1>1, SameRecording
<1>3. at' \in Moments /\ \A s \in Int : t <= s => Place(at') <= Place(Moment(s))
  <2>1. CASE at' = Moment(t)
    BY <1>1, <2>1, MomentIs, MomentsRise
  <2>2. CASE Standing /\ at' = at
    <3>1. \A s \in Int : t <= s => now <= s
      BY <1>1
    <3> QED BY <2>2, <3>1 DEF Standing
  <2> QED BY <2>1, <2>2
<1>4. Standing => Place(at) <= Place(at')
  <2>1. CASE at' = Moment(t)
    BY <1>1, <2>1 DEF Standing
  <2>2. CASE Standing /\ at' = at
    BY <1>1, <2>2, PlaceIs DEF Standing
  <2> QED BY <2>1, <2>2
<1>5. Place(at)' = Place(at')
  BY DEF Place
<1>6. Standing'
  <2> SUFFICES ASSUME NEW s \in Int, t <= s PROVE Place(at)' <= Place(Moment(s))'
    BY <1>2, <1>3 DEF Standing
  <2> QED BY <1>1, <1>2, <1>3, <1>5, MomentIs
<1>7. ASSUME NEW leaf \in Leaves
      PROVE  /\ HeardOfPlace(leaf)'
             /\ heard[leaf] \in Int =>
                    \/ heard'[leaf] >= heard[leaf]
                    \/ \E p \in heardAt[leaf] .. heardAt'[leaf] - 1 :
                          leaf \in Totals /\ FellAsRecorded(p, leaf)
  <2>1. HeardOfPlace(leaf)
    BY DEF DemoInv
  <2>2. Place(at') \in Nat \ {0}
    BY <1>1, <1>3, PlaceIs
  <2>3. CASE leaf \in leaves /\ Answer(at', leaf) \in Int
    <3>1. heard'[leaf] = Answer(at', leaf)
      BY <2>3 DEF Hear
    <3>2. heardAt'[leaf] = Place(at')
      BY <2>3 DEF Hear, Place
    <3>3. heard'[leaf] = ValueAt(Place(at'), leaf)
      BY <1>1, <1>3, <2>3, <3>1, AnswerIs
    <3>4. HeardOfPlace(leaf)'
      <4>1. ValueAt(heardAt[leaf], leaf)' = ValueAt(Place(at'), leaf)
        BY <1>2, <2>2, <3>2
      <4> QED BY <1>5, <1>6, <2>2, <3>2, <3>3, <4>1 DEF HeardOfPlace
    <3>5. ASSUME heard[leaf] \in Int
          PROVE  \/ heard'[leaf] >= heard[leaf]
                 \/ \E p \in heardAt[leaf] .. heardAt'[leaf] - 1 :
                       leaf \in Totals /\ FellAsRecorded(p, leaf)
      <4>1. /\ heardAt[leaf] \in Nat \ {0} /\ heard[leaf] = ValueAt(heardAt[leaf], leaf)
            /\ heardAt[leaf] <= Place(at) /\ Standing
        BY <2>1, <3>5 DEF HeardOfPlace
      <4>2. Place(at) \in Nat \ {0}
        BY <1>1, <4>1, PlaceIs DEF Standing
      <4>3. heardAt[leaf] <= Place(at')
        BY <1>4, <2>2, <4>1, <4>2
      <4>4. \/ ValueAt(heardAt[leaf], leaf) <= ValueAt(Place(at'), leaf)
            \/ \E p \in heardAt[leaf] .. Place(at') - 1 :
                  leaf \in Totals /\ FellAsRecorded(p, leaf)
        BY <1>1, <2>2, <4>1, <4>3, ValuesRise
      <4> QED BY <3>2, <3>3, <4>1, <4>4
    <3> QED BY <3>4, <3>5
  <2>4. CASE ~(leaf \in leaves /\ Answer(at', leaf) \in Int)
    <3>1. heard'[leaf] = heard[leaf] /\ heardAt'[leaf] = heardAt[leaf]
      BY <2>4 DEF Hear
    <3>2. ASSUME heard[leaf] \in Int PROVE HeardOfPlace(leaf)'
      <4>1. /\ heardAt[leaf] \in Nat \ {0} /\ heard[leaf] = ValueAt(heardAt[leaf], leaf)
            /\ heardAt[leaf] <= Place(at) /\ Standing
        BY <2>1, <3>2 DEF HeardOfPlace
      <4>2. Place(at) \in Nat \ {0}
        BY <1>1, <4>1, PlaceIs DEF Standing
      <4>3. heardAt[leaf] <= Place(at')
        BY <1>4, <2>2, <4>1, <4>2
      <4>4. ValueAt(heardAt[leaf], leaf)' = ValueAt(heardAt[leaf], leaf)
        BY <1>2, <3>1, <4>1
      <4> QED BY <1>5, <1>6, <3>1, <4>1, <4>3, <4>4 DEF HeardOfPlace
    <3>3. heard[leaf] \in Int => heard'[leaf] >= heard[leaf]
      BY <3>1
    <3> QED BY <3>1, <3>2, <3>3 DEF HeardOfPlace
  <2> QED BY <2>3, <2>4
<1> QED BY <1>6, <1>7

LEMMA DemoInitInv == DemoInit => DemoInv
<1> SUFFICES ASSUME DemoInit PROVE DemoInv
  OBVIOUS
<1>1. PICK agent \in BOOLEAN : session = [started |-> -DemoOffset, agent |-> agent, restarts |-> 0]
  BY DEF DemoInit
<1>2. newest = -Spacing /\ NoAnswer \notin Int
  BY DemoAssumption DEF DemoInit, Seeded
<1>3. \A leaf \in Leaves : heard[leaf] \notin Int
  BY <1>2 DEF DemoInit
<1> QED BY <1>1, <1>2, <1>3, DemoAssumption DEF DemoInit, DemoInv, Playing, HeardOfPlace

(* A request of the agent, or of llama.cpp, is one of a poll. *)
LEMMA RequestSteps ==
    ASSUME DemoInv, NEW t \in Readings, AskAgent(t) \/ AskServer(t)
    PROVE  \E leaves \in SUBSET Leaves :
              /\ now' = t /\ (at' = Moment(t) \/ (Standing /\ at' = at)) /\ Hear(leaves, at')
              /\ UNCHANGED <<frames, session>>
<1>1. CASE AskAgent(t)
  <2>1. AgentLeaves \in SUBSET Leaves
    BY DEF AgentLeaves, Leaves
  <2> QED BY <1>1, <2>1 DEF AskAgent, Reads
<1>2. CASE AskServer(t)
  <2>1. Leaves \ AgentLeaves \in SUBSET Leaves
    OBVIOUS
  <2> QED BY <1>2, <2>1 DEF AskServer, Reads, DemoInv
<1> QED BY <1>1, <1>2

LEMMA DemoStartsIs ==
    ASSUME DemoInv, NEW t \in Readings, DemoStarts(t)
    PROVE  DemoInv' /\ newest' = newest /\ session'.started # session.started
<1>1. /\ now' = t /\ t \in Nat /\ now < t /\ now \in Nat
  BY GapsAssumption DEF DemoInv, DemoStarts, Readings, Reads
<1>2. /\ session' = [session EXCEPT !.started = t - DemoOffset, !.restarts = @ + 1]
      /\ frames' = frames /\ at' = NoAnswer
      /\ heard' = [leaf \in Leaves |-> NoAnswer] /\ newest' = Seeded(newest, t)
  BY DEF DemoStarts
<1>3. NoAnswer \notin Int /\ DemoOffset \in Nat
  BY DemoAssumption
<1>4. newest' = newest
  BY <1>2, <1>3 DEF Seeded, DemoInv
<1>5. /\ session'.started = t - DemoOffset
      /\ session' = [started |-> session'.started, agent |-> session'.agent,
                     restarts |-> session'.restarts]
  BY <1>2 DEF DemoInv
<1>6. \A leaf \in Leaves : heard'[leaf] \notin Int
  BY <1>2, <1>3
<1>7. session'.started # session.started
  BY <1>1, <1>3, <1>5 DEF DemoInv, Playing
<1>8. Playing'
  BY <1>1, <1>2, <1>3, <1>5 DEF DemoInv, Playing
<1>9. DemoInv'
  BY <1>1, <1>2, <1>3, <1>4, <1>5, <1>6, <1>8 DEF DemoInv, HeardOfPlace
<1> QED BY <1>4, <1>7, <1>9

(* demo.py: each pass goes on from where the last ended, "so nothing       *)
(* downstream sees time or a counter go backwards", for any recording, any *)
(* irregular polls, missed answers and restarts.                           *)
THEOREM ReplayGoesForward == DemoSpec => NothingGoesBackwards
<1>1. DemoInv /\ [DemoNext]_demoVars =>
        /\ DemoInv'
        /\ [/\ newest' >= newest
            /\ session'.started = session.started =>
                 \A leaf \in Leaves : heard[leaf] \in Int =>
                     \/ heard'[leaf] >= heard[leaf]
                     \/ \E p \in heardAt[leaf] .. heardAt'[leaf] - 1 :
                           leaf \in Totals /\ FellAsRecorded(p, leaf)]_demoVars
  <2> SUFFICES ASSUME DemoInv, [DemoNext]_demoVars
               PROVE  /\ DemoInv'
                      /\ [/\ newest' >= newest
                          /\ session'.started = session.started =>
                               \A leaf \in Leaves : heard[leaf] \in Int =>
                                   \/ heard'[leaf] >= heard[leaf]
                                   \/ \E p \in heardAt[leaf] .. heardAt'[leaf] - 1 :
                                         leaf \in Totals /\ FellAsRecorded(p, leaf)]_demoVars
    OBVIOUS
  <2>1. CASE UNCHANGED demoVars
    <3>1. DemoInv'
      <4>1. /\ UNCHANGED <<now, frames, session, newest, at, heard, heardAt>>
            /\ Playing' = Playing /\ Moments' = Moments
            /\ \A s \in Int : Place(Moment(s))' = Place(Moment(s))
            /\ \A p \in Nat \ {0}, leaf \in Leaves : ValueAt(p, leaf)' = ValueAt(p, leaf)
        BY <2>1, SameRecording DEF demoVars
      <4>2. Place(at)' = Place(at)
        BY <4>1 DEF Place
      <4>3. Standing' <=> Standing
        BY <4>1, <4>2 DEF Standing
      <4>4. \A leaf \in Leaves : HeardOfPlace(leaf) => HeardOfPlace(leaf)'
        BY <4>1, <4>2, <4>3 DEF HeardOfPlace
      <4> QED BY <4>1, <4>3, <4>4 DEF DemoInv
    <3> QED BY <2>1, <3>1
  <2>2. ASSUME NEW t \in Readings, AskAgent(t) \/ AskServer(t)
        PROVE  /\ DemoInv' /\ newest' >= newest
               /\ \A leaf \in Leaves : heard[leaf] \in Int =>
                      \/ heard'[leaf] >= heard[leaf]
                      \/ \E p \in heardAt[leaf] .. heardAt'[leaf] - 1 :
                            leaf \in Totals /\ FellAsRecorded(p, leaf)
    <3>1. t \in Nat /\ now < t /\ now \in Nat
      BY GapsAssumption DEF DemoInv, Readings
    <3>2. PICK leaves \in SUBSET Leaves :
              /\ now' = t /\ (at' = Moment(t) \/ (Standing /\ at' = at)) /\ Hear(leaves, at')
              /\ UNCHANGED <<frames, session>>
      BY <2>2, RequestSteps
    <3>3. /\ Standing'
          /\ \A leaf \in Leaves :
                 /\ HeardOfPlace(leaf)'
                 /\ heard[leaf] \in Int =>
                        \/ heard'[leaf] >= heard[leaf]
                        \/ \E p \in heardAt[leaf] .. heardAt'[leaf] - 1 :
                              leaf \in Totals /\ FellAsRecorded(p, leaf)
      BY <3>2, RequestIs
    <3>4. newest' = newest \/ newest' = t
      BY <2>2 DEF AskAgent, AskServer
    <3>5. newest' \in Int /\ newest' <= t /\ newest' >= newest
      BY <3>1, <3>4 DEF DemoInv
    <3>6. Playing' /\ session'.started <= now' - DemoOffset
      BY <3>1, <3>2, DemoAssumption DEF DemoInv, Playing
    <3>7. DemoInv'
      BY <3>1, <3>2, <3>3, <3>5, <3>6 DEF DemoInv
    <3> QED BY <3>3, <3>5, <3>7
  <2>3. ASSUME NEW t \in Readings, DemoStarts(t)
        PROVE  DemoInv' /\ newest' >= newest /\ session'.started # session.started
    <3>1. newest \in Int
      BY DEF DemoInv
    <3> QED BY <2>3, <3>1, DemoStartsIs
  <2> QED BY <2>1, <2>2, <2>3 DEF DemoNext
<1> QED BY <1>1, DemoInitInv, PTL DEF DemoSpec, NothingGoesBackwards

==============================================================================
