----------------------------- MODULE AgentProofs -----------------------------
(* The agent: that a card that is lost leaves the count, that what the     *)
(* log's parser counts, records and shows is right however its tails end,  *)
(* that the serving target is found, and that the load record is the one   *)
(* of the target that is followed.                                         *)
EXTENDS JournalFollower, JournalParser, Discovery, GpuStream, FiniteSetTheorems, TLAPS

-----------------------------------------------------------------------------
(* The GPU stream.                                                         *)
GpuTypeInv ==
    /\ lost \in [Cards -> [is : BOOLEAN, age : Nat]]
    /\ process \in [is : {"none", "runs", "wedged"}, age : Nat]
    /\ latest \in [Cards -> Nat]
    /\ last_line \in Nat
    /\ counted \in [cards : SUBSET Cards, late : SUBSET Nat, age : Nat]

(* No row is newer than the loss of its card. *)
RowsInv == \A c \in Cards : lost[c].is => lost[c].age <= latest[c]

(* Who was off the bus for longer than MAX_AGE was not in the last count,  *)
(* and how silent a process can be by the age of that count.               *)
CountInv ==
    /\ counted.age <= CollectWithin
    /\ \A age \in counted.late : age <= MaxAge
    /\ process.is # "none" => last_line <= Stall + counted.age \/ process.age <= counted.age

GpuInv == GpuTypeInv /\ RowsInv /\ CountInv

(* A row of numbers, one second older, is a row of numbers.                *)
LEMMA AgeingTypes == Ages \in Nat /\ \A a \in Nat : Ageing(a) \in Nat
BY GpuAssumption DEF Ageing, Ages

(* Ages are capped alike, so that the older of two stays the older. *)
LEMMA AgeingBounds ==
    /\ \A a \in Nat : Ageing(a) <= a + 1
    /\ \A a, b \in Nat : a <= b => Ageing(a) <= Ageing(b)
BY AgeingTypes DEF Ageing

(* The invariant of the stream of cards, at the start and over a step.     *)
LEMMA GpuInitInv == GpuInit => GpuInv
BY GpuAssumption, AgeingTypes DEF GpuInit, GpuInv, GpuTypeInv, RowsInv, CountInv, Is

LEMMA GpuStepInv == GpuInv /\ [GpuNext]_gpuVars => GpuInv'
<1> SUFFICES ASSUME GpuInv, [GpuNext]_gpuVars PROVE GpuInv'
  OBVIOUS
<1> USE GpuAssumption DEF GpuInv
<1>1. CASE Launches
  BY <1>1 DEF Launches, Is, GpuTypeInv, RowsInv, CountInv
<1>2. CASE RowsArrive
  <2>1. PICK cards \in SUBSET Present \ {{}} :
            latest' = [c \in Cards |-> IF c \in cards THEN 0 ELSE latest[c]]
    BY <1>2 DEF RowsArrive
  <2>2. GpuTypeInv'
    BY <1>2, <2>1 DEF RowsArrive, GpuTypeInv
  <2>3. RowsInv'
    BY <1>2, <2>1 DEF RowsArrive, RowsInv, Present
  <2>4. CountInv'
    BY <1>2 DEF RowsArrive, GpuTypeInv, CountInv
  <2> QED BY <2>2, <2>3, <2>4
<1>3. CASE ProcessFails
  <2>1. \/ process' = [process EXCEPT !.is = "wedged"]
        \/ process' = [is |-> "none", age |-> 0]
    BY <1>3 DEF ProcessFails, Is
  <2>2. GpuTypeInv' /\ process.is # "none"
        /\ (process'.is # "none" => process'.age = process.age)
    BY <1>3, <2>1 DEF ProcessFails, GpuTypeInv
  <2>3. RowsInv' /\ CountInv'
    BY <1>3, <2>2 DEF ProcessFails, RowsInv, CountInv
  <2> QED BY <2>2, <2>3
<1>4. CASE CardDropsOff
  <2>1. PICK c \in Present : lost' = [lost EXCEPT ![c] = [is |-> TRUE, age |-> 0]]
    BY <1>4 DEF CardDropsOff, Is
  <2>2. GpuTypeInv'
    BY <1>4, <2>1 DEF CardDropsOff, GpuTypeInv, Present
  <2>3. RowsInv'
    <3>1. \A d \in Cards : lost'[d] = IF d = c THEN [is |-> TRUE, age |-> 0] ELSE lost[d]
      BY <2>1 DEF GpuTypeInv
    <3>2. \A d \in Cards : latest'[d] = latest[d] /\ latest[d] \in Nat
      BY <1>4 DEF CardDropsOff, GpuTypeInv
    <3> QED BY <3>1, <3>2 DEF RowsInv
  <2>4. CountInv'
    BY <1>4 DEF CardDropsOff, CountInv
  <2> QED BY <2>2, <2>3, <2>4
<1>5. CASE CollectGpus
  <2>1. PICK cards \in {Fresh} \cup (IF Fresh = {} THEN {Present} ELSE {}) :
            counted' = [cards |-> {c \in cards : ~lost[c].is},
                        late |-> {lost[c].age : c \in {x \in cards : lost[x].is}}, age |-> 0]
    BY <1>5 DEF CollectGpus
  <2>2. cards = Fresh \/ cards = Present
    BY <2>1
  <2>3. cards \subseteq Cards
    BY <2>2 DEF Fresh, Present
  <2>4. process' = (IF Stalled THEN [is |-> "none", age |-> 0] ELSE process)
    BY <1>5 DEF CollectGpus, Is
  <2>5. GpuTypeInv'
    <3>1. \A c \in cards : lost[c].age \in Nat
      BY <2>3 DEF GpuTypeInv
    <3>2. {lost[c].age : c \in {x \in cards : lost[x].is}} \in SUBSET Nat
          /\ {c \in cards : ~lost[c].is} \in SUBSET Cards
      BY <2>3, <3>1
    <3>3. counted' \in [cards : SUBSET Cards, late : SUBSET Nat, age : Nat]
      BY <2>1, <3>2
    <3>4. process' \in [is : {"none", "runs", "wedged"}, age : Nat]
      BY <2>4 DEF GpuTypeInv
    <3> QED BY <1>5, <3>3, <3>4 DEF CollectGpus, GpuTypeInv
  <2>6. RowsInv'
    BY <1>5 DEF CollectGpus, RowsInv
  <2>7. ASSUME NEW age \in counted'.late PROVE age <= MaxAge
    <3>1. PICK c \in cards : lost[c].is /\ age = lost[c].age
      BY <2>1
    <3>2. latest[c] <= MaxAge
      BY <2>2, <3>1 DEF Fresh, Present
    <3>3. lost[c].age <= latest[c] /\ lost[c].age \in Nat /\ latest[c] \in Nat
      BY <2>3, <3>1 DEF RowsInv, GpuTypeInv
    <3> QED BY <3>1, <3>2, <3>3
  <2>8. process'.is # "none" => last_line' <= Stall
    BY <1>5, <2>4 DEF CollectGpus, Stalled, GpuTypeInv
  <2>9. CountInv'
    BY <2>1, <2>7, <2>8 DEF CountInv
  <2> QED BY <2>5, <2>6, <2>9
<1>6. CASE SecondPasses
  <2>1. GpuTypeInv'
    <3>1. lost' \in [Cards -> [is : BOOLEAN, age : Nat]] /\ latest' \in [Cards -> Nat]
      BY <1>6, AgeingTypes DEF SecondPasses, GpuTypeInv
    <3>2. process' \in [is : {"none", "runs", "wedged"}, age : Nat] /\ last_line' \in Nat
      BY <1>6, AgeingTypes DEF SecondPasses, GpuTypeInv
    <3>3. counted' \in [cards : SUBSET Cards, late : SUBSET Nat, age : Nat]
      <4>1. counted' = [counted EXCEPT !.age = counted.age + 1]
        BY <1>6 DEF SecondPasses
      <4>2. counted \in [cards : SUBSET Cards, late : SUBSET Nat, age : Nat]
        BY DEF GpuTypeInv
      <4>3. counted.age + 1 \in Nat
        BY <4>2
      <4> QED BY <4>1, <4>2, <4>3
    <3> QED BY <3>1, <3>2, <3>3 DEF GpuTypeInv
  <2>2. RowsInv'
    <3> SUFFICES ASSUME NEW c \in Cards, lost'[c].is PROVE lost'[c].age <= latest'[c]
      BY DEF RowsInv
    <3>1. lost[c] \in [is : BOOLEAN, age : Nat] /\ latest[c] \in Nat
      BY DEF GpuTypeInv
    <3>2. lost'[c] = [lost[c] EXCEPT !.age = IF lost[c].is THEN Ageing(@) ELSE @]
          /\ latest'[c] = Ageing(latest[c])
      BY <1>6 DEF SecondPasses
    <3>3. lost[c].is /\ lost'[c].age = Ageing(lost[c].age)
      BY <3>1, <3>2
    <3> QED BY <3>1, <3>2, <3>3, AgeingBounds DEF RowsInv
  <2>3. CountInv'
    <3>1. counted'.age = counted.age + 1 /\ counted'.late = counted.late
          /\ counted.age < CollectWithin /\ last_line' = Ageing(last_line)
          /\ process'.is = process.is /\ process'.age = Ageing(process.age)
      BY <1>6 DEF SecondPasses, GpuTypeInv
    <3>2. last_line \in Nat /\ process.age \in Nat /\ counted.age \in Nat
          /\ last_line' \in Nat /\ process'.age \in Nat
      BY <2>1 DEF GpuTypeInv
    <3>3. last_line' <= last_line + 1 /\ process'.age <= process.age + 1
      BY <3>1, <3>2, AgeingBounds
    <3> QED BY <3>1, <3>2, <3>3 DEF CountInv
  <2> QED BY <2>1, <2>2, <2>3
<1>7. CASE UNCHANGED gpuVars
  BY <1>7 DEF gpuVars, GpuTypeInv, RowsInv, CountInv
<1> QED BY <1>1, <1>2, <1>3, <1>4, <1>5, <1>6, <1>7 DEF GpuNext

(* nvidia.py: whatever becomes of the process, a card that is off the bus  *)
(* is out of the count within MAX_AGE, and none that is silent lives on.   *)
THEOREM GpuLostCard == GpuSpec => []LostCardIsNotCounted
<1>1. GpuInv => LostCardIsNotCounted
  BY GpuAssumption DEF GpuInv, GpuTypeInv, CountInv, LostCardIsNotCounted
<1> QED BY <1>1, GpuInitInv, GpuStepInv, PTL DEF GpuSpec

-----------------------------------------------------------------------------
(* The parser of the log.                                                  *)
Kinds == {"loading", "loaded", "signal", "launch", "prompt", "eval", "release"}

LogLines == [kind : Kinds, slot : Slots \cup {NoSlot}, task : Nat]

Figures == [started : Nat, prompt : Nat, eval : Nat]

Records == [of : Figures, task : Nat, finished : Nat]

(* A record of the parser's fields. *)
Shape(p) ==
    p = [slots |-> p.slots, pending |-> p.pending, requests |-> p.requests,
         load |-> p.load, signals |-> p.signals, hwm |-> p.hwm]

(* What a line changes, field by field.                                    *)
SlotsAfter(p, i) ==
    CASE log[i].kind = "launch"  -> Put(p.slots, log[i].slot,
                                        [task |-> log[i].task, phase |-> "prefill"])
      [] log[i].kind = "prompt"  -> Phase(p, log[i].slot, "decode")
      [] log[i].kind = "release" -> Put(p.slots, log[i].slot, Idle)
      [] log[i].kind = "loading" -> <<>>
      [] OTHER -> p.slots

PendingAfter(p, i) ==
    CASE log[i].kind = "launch"  -> Put(p.pending, log[i].task, [NoFigures EXCEPT !.started = i])
      [] log[i].kind = "prompt"  -> Put(p.pending, log[i].task,
                                        [Pending(p, log[i].task) EXCEPT !.prompt = i])
      [] log[i].kind = "eval"    -> Put(p.pending, log[i].task,
                                        [Pending(p, log[i].task) EXCEPT !.eval = i])
      [] log[i].kind = "release" -> [t \in DOMAIN p.pending \ {log[i].task} |-> p.pending[t]]
      [] log[i].kind = "loading" -> <<>>
      [] OTHER -> p.pending

Record(p, i) == [of |-> Pending(p, log[i].task), task |-> log[i].task, finished |-> i]

RequestsAfter(p, i) ==
    IF log[i].kind = "release"
    THEN LET kept == <<Record(p, i)>> \o p.requests
         IN  SubSeq(kept, 1, IF Len(kept) > MaxRequests THEN MaxRequests ELSE Len(kept))
    ELSE p.requests

IsNews(p, i) == log[i].kind = "signal" /\ ~(i <= p.hwm)

LEMMA IngestFields ==
    ASSUME NEW p, Shape(p), NEW i, log[i].kind \in Kinds
    PROVE  /\ Shape(IngestLine(p, i))
           /\ IngestLine(p, i).slots = SlotsAfter(p, i)
           /\ IngestLine(p, i).pending = PendingAfter(p, i)
           /\ IngestLine(p, i).requests = RequestsAfter(p, i)
           /\ IngestLine(p, i).signals = IF IsNews(p, i) THEN p.signals + 1 ELSE p.signals
           /\ IngestLine(p, i).hwm = IF IsNews(p, i) THEN i ELSE p.hwm
<1> USE DEF Shape, IngestLine, SlotsAfter, PendingAfter, RequestsAfter, IsNews
<1>1. CASE log[i].kind = "signal"
  BY <1>1 DEF Count
<1>2. CASE log[i].kind = "launch"
  BY <1>2 DEF Launched
<1>3. CASE log[i].kind = "prompt"
  BY <1>3 DEF Timed
<1>4. CASE log[i].kind = "eval"
  BY <1>4 DEF Timed
<1>5. CASE log[i].kind = "release"
  BY <1>5 DEF Released, Record
<1>6. CASE log[i].kind = "loading"
  BY <1>6 DEF Loading
<1>7. CASE log[i].kind = "loaded"
  BY <1>7
<1> QED BY <1>1, <1>2, <1>3, <1>4, <1>5, <1>6, <1>7 DEF Kinds

SlotStates == [task : Nat, phase : {"idle", "prefill", "decode", "done"}]

Servers == [slots : [Slots -> SlotStates], next : Nat, ready : BOOLEAN]

ParserTypeInv ==
    /\ log \in Seq(LogLines)
    /\ server \in Servers
    /\ tail \in [at : Nat \ {0}, count : Nat] /\ tail.at <= Len(log) + 1
    /\ Shape(parser) /\ parser.requests \in Seq(Records)
    /\ parser.signals \in Nat /\ parser.hwm \in Nat
    /\ \A t \in DOMAIN parser.pending : parser.pending[t] \in Figures
    /\ seen \subseteq DOMAIN log /\ missed \subseteq DOMAIN log

(* What was logged stays as it was, below one more line. *)
LogGrows ==
    /\ log' \in Seq(LogLines) /\ Len(log') = Len(log) + 1
    /\ \A i \in 1 .. Len(log) : log'[i] = log[i]
    /\ UNCHANGED <<tail, parser, seen, missed>>

LEMMA LogStep ==
    ASSUME NEW kind \in Kinds, NEW slot \in Slots \cup {NoSlot}, NEW task \in Nat, NEW after,
           ParserTypeInv, Log(kind, slot, task, after)
    PROVE  /\ LogGrows /\ server' = after
           /\ log'[Len(log) + 1] = [kind |-> kind, slot |-> slot, task |-> task]
<1>1. PICK line \in LogLines : line = [kind |-> kind, slot |-> slot, task |-> task]
  BY DEF LogLines
<1>2. log \in Seq(LogLines) /\ log' = Append(log, line)
  BY <1>1 DEF Log, ParserTypeInv
<1> QED BY <1>1, <1>2 DEF Log, LogGrows

(* The steps of the server, by the line that each of them logs.            *)
NewLine == log'[Len(log) + 1]

Starts ==
    /\ LogGrows /\ NewLine.kind = "loading"
    /\ server' = [slots |-> [x \in Slots |-> Idle], next |-> 1, ready |-> FALSE]

Says ==
    /\ LogGrows /\ NewLine.kind \in {"loaded", "signal"}
    /\ server'.slots = server.slots /\ server'.next = server.next
    /\ server'.ready /\ (NewLine.kind = "signal" => server.ready)
    /\ server' = [server EXCEPT !.ready = TRUE]

LaunchesOn(s) ==
    /\ LogGrows /\ NewLine = [kind |-> "launch", slot |-> s, task |-> server.next]
    /\ server.ready /\ server.slots[s] = Idle
    /\ server' = [server EXCEPT !.slots[s] = [task |-> server.next, phase |-> "prefill"],
                                !.next = @ + 1]

WorksOn(s, from, kind, to) ==
    /\ LogGrows /\ NewLine = [kind |-> kind, slot |-> s, task |-> server.slots[s].task]
    /\ server.slots[s].phase = from
    /\ server' = [server EXCEPT !.slots[s].phase = to]

ReleasesOn(s) ==
    /\ LogGrows /\ NewLine = [kind |-> "release", slot |-> s, task |-> server.slots[s].task]
    /\ server.slots[s].phase \in {"prefill", "done"}
    /\ server' = [server EXCEPT !.slots[s] = Idle]

ServerSteps ==
    \/ Starts \/ Says
    \/ \E s \in Slots : \/ LaunchesOn(s)
                        \/ WorksOn(s, "prefill", "prompt", "decode")
                        \/ WorksOn(s, "decode", "eval", "done")
                        \/ ReleasesOn(s)

(* The steps of the log and its reader, by what they change.               *)
LEMMA ParserSteps ==
    ASSUME ParserTypeInv, ParserNext
    PROVE  ServerSteps \/ ReadNext \/ NewTail
<1> USE DEF Kinds
<1>0. server \in Servers
  BY DEF ParserTypeInv
<1> USE DEF Servers, SlotStates
<1>9. NoSlot \in Slots \cup {NoSlot} /\ 0 \in Nat
  OBVIOUS
<1>1. CASE Start
  <2>1. LogGrows /\ NewLine = [kind |-> "loading", slot |-> NoSlot, task |-> 0]
        /\ server' = [slots |-> [x \in Slots |-> Idle], next |-> 1, ready |-> FALSE]
    <3>1. Log("loading", NoSlot, 0, [slots |-> [x \in Slots |-> Idle], next |-> 1, ready |-> FALSE])
      BY <1>1 DEF Start
    <3> QED BY <1>9, <3>1, LogStep DEF NewLine
  <2> QED BY <2>1 DEF Starts, ServerSteps
<1>2. CASE Loaded
  <2>1. LogGrows /\ NewLine = [kind |-> "loaded", slot |-> NoSlot, task |-> 0]
        /\ server' = [server EXCEPT !.ready = TRUE]
    BY <1>9, <1>2, LogStep DEF Loaded, NewLine
  <2> QED BY <1>0, <2>1 DEF Says, ServerSteps
<1>3. CASE LogSignal
  <2>1. server = [server EXCEPT !.ready = TRUE]
    BY <1>0, <1>3 DEF LogSignal
  <2>2. LogGrows /\ NewLine = [kind |-> "signal", slot |-> NoSlot, task |-> 0]
        /\ server' = server /\ server.ready
    BY <1>9, <1>3, LogStep DEF LogSignal, NewLine
  <2> QED BY <2>1, <2>2 DEF Says, ServerSteps
<1>4. ASSUME NEW s \in Slots, Serve(s) PROVE ServerSteps
  <2>0. server.slots[s].task \in Nat /\ server.next \in Nat
    BY <1>0
  <2>1. CASE Launch(s)
    BY <2>0, <2>1, LogStep DEF Launch, LaunchesOn, NewLine, ServerSteps
  <2>2. CASE Works(s, {"prefill"}, "prompt", "decode")
    BY <2>0, <2>2, LogStep DEF Works, WorksOn, NewLine, ServerSteps
  <2>3. CASE Works(s, {"decode"}, "eval", "done")
    BY <2>0, <2>3, LogStep DEF Works, WorksOn, NewLine, ServerSteps
  <2> QED BY <1>4, <2>1, <2>2, <2>3 DEF Serve
<1>5. ASSUME NEW s \in Slots, Release(s) PROVE ServerSteps
  <2>0. server.slots[s].task \in Nat
    BY <1>0
  <2> QED BY <1>5, <2>0, LogStep DEF Release, ReleasesOn, NewLine, ServerSteps
<1> QED BY <1>1, <1>2, <1>3, <1>4, <1>5 DEF ParserNext

LEMMA ParserInitTypes == ParserInit => ParserTypeInv
BY ParserAssumption DEF ParserInit, ParserTypeInv, FreshParser, Shape, Idle, Servers, SlotStates

(* Figures and records stay what they are. *)
LEMMA PendingTypes ==
    ASSUME NEW p, NEW t, \A k \in DOMAIN p.pending : p.pending[k] \in Figures
    PROVE  Pending(p, t) \in Figures
BY DEF Pending, NoFigures, Figures

LEMMA PendingAfterTypes ==
    ASSUME NEW p, \A t \in DOMAIN p.pending : p.pending[t] \in Figures, NEW i \in Nat
    PROVE  \A t \in DOMAIN PendingAfter(p, i) : PendingAfter(p, i)[t] \in Figures
<1>1. Pending(p, log[i].task) \in Figures
  BY PendingTypes
<1>2. [NoFigures EXCEPT !.started = i] \in Figures
      /\ [Pending(p, log[i].task) EXCEPT !.prompt = i] \in Figures
      /\ [Pending(p, log[i].task) EXCEPT !.eval = i] \in Figures
  BY <1>1 DEF NoFigures, Figures
<1> QED BY <1>2 DEF PendingAfter, Put

LEMMA RequestsAfterTypes ==
    ASSUME NEW p, \A t \in DOMAIN p.pending : p.pending[t] \in Figures,
           p.requests \in Seq(Records), NEW i \in Nat, log[i] \in LogLines
    PROVE  /\ RequestsAfter(p, i) \in Seq(Records)
           /\ \A k \in DOMAIN RequestsAfter(p, i) :
                 \/ log[i].kind = "release" /\ RequestsAfter(p, i)[k] = Record(p, i)
                 \/ \E j \in DOMAIN p.requests : RequestsAfter(p, i)[k] = p.requests[j]
<1>1. CASE log[i].kind = "release"
  <2>1. Record(p, i) \in Records
    BY PendingTypes DEF Record, Records, LogLines
  <2>2. PICK kept \in Seq(Records) : kept = <<Record(p, i)>> \o p.requests
    <3>1. <<Record(p, i)>> \in Seq(Records) /\ p.requests \in Seq(Records)
      BY <2>1
    <3>2. <<Record(p, i)>> \o p.requests \in Seq(Records)
      BY ONLY <3>1
    <3> QED BY <3>2
  <2>3. Len(kept) = 1 + Len(p.requests) /\ kept[1] = Record(p, i)
        /\ \A k \in 2 .. Len(kept) : kept[k] = p.requests[k - 1]
    BY <2>1, <2>2
  <2>4. PICK m \in 0 .. Len(kept) :
            m = IF Len(kept) > MaxRequests THEN MaxRequests ELSE Len(kept)
    BY ParserAssumption
  <2>5. RequestsAfter(p, i) = SubSeq(kept, 1, m)
    BY <1>1, <2>2, <2>4 DEF RequestsAfter
  <2>6. SubSeq(kept, 1, m) \in Seq(Records) /\ DOMAIN SubSeq(kept, 1, m) = 1 .. m
        /\ \A k \in 1 .. m : SubSeq(kept, 1, m)[k] = kept[k]
    BY <2>2, <2>4
  <2>7. ASSUME NEW k \in 1 .. m
        PROVE kept[k] = Record(p, i) \/ \E j \in DOMAIN p.requests : kept[k] = p.requests[j]
    <3>1. CASE k = 1
      BY <2>3, <3>1
    <3>2. CASE k # 1
      <4>1. k \in 2 .. Len(kept) /\ k - 1 \in DOMAIN p.requests
        BY <2>3, <2>4, <3>2
      <4> QED BY <2>3, <4>1
    <3> QED BY <3>1, <3>2
  <2> QED BY <1>1, <2>5, <2>6, <2>7
<1>2. CASE log[i].kind # "release"
  BY <1>2 DEF RequestsAfter
<1> QED BY <1>1, <1>2

(* A new tail begins within the log, behind no completed load.             *)
LEMMA NewTailFacts ==
    ASSUME ParserTypeInv, NewTail
    PROVE  /\ tail' \in [at : Nat \ {0}, count : Nat] /\ tail'.at <= Len(log) + 1
           /\ \A i \in DOMAIN log : log[i].kind = "loaded" => i <= tail'.at
           /\ Len(log) - Replay + 1 <= tail'.at
           /\ \/ tail'.at = 1 \/ tail'.at = Len(log) - Replay + 1
              \/ tail'.at \in DOMAIN log /\ log[tail'.at].kind = "loaded"
           /\ missed' = missed \cup {i \in DOMAIN log : tail.at <= i /\ i < tail'.at}
           /\ UNCHANGED <<log, server, parser, seen>>
<1>1. log \in Seq(LogLines) /\ Len(log) \in Nat /\ DOMAIN log = 1 .. Len(log)
  BY DEF ParserTypeInv
<1>2. PICK starts : starts = {1, Len(log) - Replay + 1}
                             \cup {i \in DOMAIN log : log[i].kind = "loaded"}
  OBVIOUS
<1>3. PICK from \in starts :
          /\ \A i \in starts : i <= from
          /\ tail' = [at |-> from, count |-> tail.count + 1]
          /\ missed' = missed \cup {i \in DOMAIN log : tail.at <= i /\ i < from}
  BY <1>2 DEF NewTail
<1>4. from \in Nat \ {0} /\ from <= Len(log) + 1
  <2>1. from \in Int /\ from <= Len(log) + 1
    BY <1>1, <1>2, ParserAssumption
  <2>2. 1 <= from
    BY <1>2, <1>3
  <2> QED BY <2>1, <2>2
<1>5. tail.count \in Nat
  BY DEF ParserTypeInv
<1>6. tail'.at = from /\ tail' \in [at : Nat \ {0}, count : Nat]
  BY <1>3, <1>4, <1>5
<1>7. \A i \in DOMAIN log : log[i].kind = "loaded" => i <= from
  BY <1>2, <1>3
<1>8. Len(log) - Replay + 1 <= from
  BY <1>2, <1>3
<1>9. \/ from = 1 \/ from = Len(log) - Replay + 1
      \/ from \in DOMAIN log /\ log[from].kind = "loaded"
  BY <1>2
<1> QED BY <1>3, <1>4, <1>6, <1>7, <1>8, <1>9 DEF NewTail

LEMMA ReadNextFacts ==
    ASSUME ParserTypeInv, ReadNext
    PROVE  /\ tail.at \in DOMAIN log /\ log[tail.at] \in LogLines
           /\ tail' = [tail EXCEPT !.at = tail.at + 1]
           /\ tail'.at = tail.at + 1 /\ tail'.at <= Len(log) + 1
           /\ Shape(parser')
           /\ parser'.slots = SlotsAfter(parser, tail.at)
           /\ parser'.pending = PendingAfter(parser, tail.at)
           /\ parser'.requests = RequestsAfter(parser, tail.at)
           /\ parser'.signals = IF IsNews(parser, tail.at) THEN parser.signals + 1
                                ELSE parser.signals
           /\ parser'.hwm = IF IsNews(parser, tail.at) THEN tail.at ELSE parser.hwm
           /\ seen' = seen \cup {tail.at}
           /\ UNCHANGED <<log, server, missed>>
<1>1. log \in Seq(LogLines) /\ tail \in [at : Nat \ {0}, count : Nat] /\ tail.at <= Len(log)
  BY DEF ParserTypeInv, ReadNext
<1>2. tail.at \in DOMAIN log /\ log[tail.at] \in LogLines
  BY <1>1
<1>3. log[tail.at].kind \in Kinds
  BY <1>2 DEF LogLines
<1>4. Shape(parser) /\ parser' = IngestLine(parser, tail.at)
  BY DEF ParserTypeInv, ReadNext
<1> QED BY <1>1, <1>2, <1>3, <1>4, IngestFields DEF ReadNext

LEMMA ParserStepTypes == ParserTypeInv /\ [ParserNext]_parserVars => ParserTypeInv'
<1> SUFFICES ASSUME ParserTypeInv, [ParserNext]_parserVars PROVE ParserTypeInv'
  OBVIOUS
<1>0. /\ log \in Seq(LogLines) /\ DOMAIN log = 1 .. Len(log) /\ Len(log) \in Nat
      /\ server \in Servers
      /\ tail \in [at : Nat \ {0}, count : Nat] /\ tail.at <= Len(log) + 1
  BY DEF ParserTypeInv
<1>1. CASE ServerSteps
  <2>1. LogGrows
    BY <1>1 DEF ServerSteps, Starts, Says, LaunchesOn, WorksOn, ReleasesOn
  <2>2. Idle \in SlotStates
    BY DEF Idle, SlotStates
  <2>3. server' \in Servers
    <3>1. CASE Starts
      BY <2>2, <3>1 DEF Starts, Servers
    <3>2. CASE Says
      <4>1. server' = [server EXCEPT !.ready = TRUE]
        BY <3>2 DEF Says
      <4> QED BY <1>0, <4>1 DEF Servers
    <3>3. ASSUME NEW s \in Slots, LaunchesOn(s)
          PROVE server' \in Servers
      <4>1. PICK slots \in [Slots -> SlotStates] :
                slots = [server.slots EXCEPT ![s] = [task |-> server.next, phase |-> "prefill"]]
        BY <1>0 DEF Servers, SlotStates
      <4>2. server' = [server EXCEPT !.slots = slots, !.next = server.next + 1]
        BY <3>3, <4>1 DEF LaunchesOn
      <4>3. server.next + 1 \in Nat /\ server.ready \in BOOLEAN
        BY <1>0 DEF Servers
      <4>4. server' = [slots |-> slots, next |-> server.next + 1, ready |-> server.ready]
        BY <1>0, <4>2 DEF Servers
      <4> QED BY <4>1, <4>3, <4>4 DEF Servers
    <3>4. ASSUME NEW s \in Slots, NEW from, NEW kind, NEW to \in {"decode", "done"},
                 WorksOn(s, from, kind, to)
         
          PROVE server' \in Servers
      BY <1>0, <3>4 DEF WorksOn, Servers, SlotStates
    <3>5. ASSUME NEW s \in Slots, ReleasesOn(s)
          PROVE server' \in Servers
      BY <1>0, <2>2, <3>5 DEF ReleasesOn, Servers
    <3> QED BY <1>1, <3>1, <3>2, <3>3, <3>4, <3>5 DEF ServerSteps
  <2>4. log' \in Seq(LogLines) /\ DOMAIN log \subseteq DOMAIN log' /\ Len(log') = Len(log) + 1
        /\ tail' = tail /\ parser' = parser /\ seen' = seen /\ missed' = missed
    BY <1>0, <2>1 DEF LogGrows
  <2>5. tail'.at <= Len(log') + 1
    BY <1>0, <2>4
  <2> QED BY <2>3, <2>4, <2>5 DEF ParserTypeInv, Shape
<1>2. CASE ReadNext
  <2>1. tail' \in [at : Nat \ {0}, count : Nat]
    <3>1. tail' = [tail EXCEPT !.at = tail.at + 1] /\ tail.at + 1 \in Nat \ {0}
      BY <1>0, <1>2, ReadNextFacts
    <3> QED BY <1>0, <3>1
  <2>2. tail.at \in Nat /\ parser'.signals \in Nat /\ parser'.hwm \in Nat
    BY <1>0, <1>2, ReadNextFacts DEF ParserTypeInv
  <2>3. parser'.requests \in Seq(Records)
    <3>1. log[tail.at] \in LogLines /\ parser'.requests = RequestsAfter(parser, tail.at)
      BY <1>2, ReadNextFacts
    <3>2. /\ parser.requests \in Seq(Records)
          /\ \A t \in DOMAIN parser.pending : parser.pending[t] \in Figures
      BY DEF ParserTypeInv
    <3> QED BY <2>2, <3>1, <3>2, RequestsAfterTypes
  <2>4. \A t \in DOMAIN parser'.pending : parser'.pending[t] \in Figures
    <3>1. \A t \in DOMAIN PendingAfter(parser, tail.at) :
              PendingAfter(parser, tail.at)[t] \in Figures
      BY <2>2, PendingAfterTypes DEF ParserTypeInv
    <3>2. parser'.pending = PendingAfter(parser, tail.at)
      BY <1>2, ReadNextFacts
    <3> QED BY <3>1, <3>2
  <2>5. seen' \subseteq DOMAIN log
    BY <1>2, ReadNextFacts DEF ParserTypeInv
  <2> QED BY <1>2, <2>1, <2>2, <2>3, <2>4, <2>5, ReadNextFacts DEF ParserTypeInv, Shape
<1>3. CASE NewTail
  <2>1. missed' \subseteq DOMAIN log
    BY <1>3, NewTailFacts DEF ParserTypeInv
  <2> QED BY <1>3, <2>1, NewTailFacts DEF ParserTypeInv, Shape
<1>4. CASE UNCHANGED parserVars
  BY <1>4 DEF parserVars, ParserTypeInv, Shape
<1> QED BY <1>1, <1>2, <1>3, <1>4, ParserSteps

-----------------------------------------------------------------------------
(* Signals.  Every line below the mark was read, or will never be.         *)
SignalsInv ==
    /\ parser.hwm <= Len(log)
    /\ \A i \in DOMAIN log : i < tail.at \/ i <= parser.hwm => i \in seen \cup missed
    /\ \A i \in seen : log[i].kind = "signal" => i <= parser.hwm
    /\ \A i \in missed : i < tail.at
    /\ \A i \in missed : \/ i <= Len(log) - Replay
                         \/ \E j \in DOMAIN log : log[j].kind = "loaded" /\ i < j
    /\ SignalsCountedOnce

(* A line that is read for the first time is counted if it is a signal.    *)
LEMMA SignalsStep ==
    ParserTypeInv /\ ParserTypeInv' /\ SignalsInv /\ [ParserNext]_parserVars => SignalsInv'
<1> SUFFICES ASSUME ParserTypeInv, ParserTypeInv', SignalsInv, [ParserNext]_parserVars
             PROVE  SignalsInv'
  OBVIOUS
<1>0. /\ log \in Seq(LogLines) /\ DOMAIN log = 1 .. Len(log) /\ Len(log) \in Nat
      /\ tail.at \in Nat \ {0} /\ tail.at <= Len(log) + 1
      /\ parser.signals \in Nat /\ parser.hwm \in Nat
      /\ seen \subseteq 1 .. Len(log) /\ missed \subseteq 1 .. Len(log)
  BY DEF ParserTypeInv
<1>1. CASE ServerSteps
  <2>1. LogGrows
    BY <1>1 DEF ServerSteps, Starts, Says, LaunchesOn, WorksOn, ReleasesOn
  <2>2. /\ log' \in Seq(LogLines) /\ Len(log') = Len(log) + 1 /\ DOMAIN log' = 1 .. Len(log) + 1
        /\ \A i \in 1 .. Len(log) : log'[i] = log[i]
        /\ tail' = tail /\ parser' = parser /\ seen' = seen /\ missed' = missed
    BY <2>1 DEF LogGrows
  <2>3. parser.hwm <= Len(log)
    BY DEF SignalsInv
  <2>4. SignalsCountedOnce'
    <3>1. {i \in seen' : log'[i].kind = "signal"} = {i \in seen : log[i].kind = "signal"}
      BY <1>0, <2>2
    <3> QED BY <2>2, <3>1 DEF SignalsInv, SignalsCountedOnce
  <2>5. ASSUME NEW m \in missed'
        PROVE  \/ m <= Len(log') - Replay
               \/ \E k \in DOMAIN log' : log'[k].kind = "loaded" /\ m < k
    <3>1. m \in missed /\ m \in 1 .. Len(log) /\ Replay \in Nat
      BY <1>0, <2>2, ParserAssumption
    <3>2. CASE m <= Len(log) - Replay
      BY <1>0, <2>2, <3>1, <3>2
    <3>3. CASE \E j \in DOMAIN log : log[j].kind = "loaded" /\ m < j
      <4>1. PICK j \in 1 .. Len(log) : log[j].kind = "loaded" /\ m < j
        BY <1>0, <3>3
      <4>2. j \in DOMAIN log' /\ log'[j].kind = "loaded"
        BY <1>0, <2>2, <4>1
      <4> QED BY <4>1, <4>2
    <3> QED BY <3>1, <3>2, <3>3 DEF SignalsInv
  <2>6. parser'.hwm <= Len(log') /\ \A i \in missed' : i < tail'.at
    BY <1>0, <2>2 DEF SignalsInv
  <2>7. ASSUME NEW i \in DOMAIN log', i < tail'.at \/ i <= parser'.hwm
        PROVE  i \in seen' \cup missed'
    BY <1>0, <2>2, <2>3, <2>7 DEF SignalsInv
  <2>8. \A i \in seen' : log'[i].kind = "signal" => i <= parser'.hwm
    BY <1>0, <2>2 DEF SignalsInv
  <2> QED BY <2>4, <2>5, <2>6, <2>7, <2>8 DEF SignalsInv
<1>2. CASE ReadNext
  <2>1. PICK i \in 1 .. Len(log) : i = tail.at
    BY <1>0, <1>2, ReadNextFacts
  <2>2. /\ tail'.at = i + 1 /\ log' = log /\ missed' = missed /\ seen' = seen \cup {i}
        /\ parser'.signals = IF IsNews(parser, i) THEN parser.signals + 1 ELSE parser.signals
        /\ parser'.hwm = IF IsNews(parser, i) THEN i ELSE parser.hwm
    BY <1>2, <2>1, ReadNextFacts
  <2>3. i \notin missed
    BY <2>1 DEF SignalsInv
  <2>4. SignalsCountedOnce'
    <3>1. PICK S : S = {j \in seen : log[j].kind = "signal"}
      OBVIOUS
    <3>2. IsFiniteSet(S)
      <4>1. IsFiniteSet(1 .. Len(log))
        BY <1>0, FS_Interval
      <4> QED BY <1>0, <3>1, <4>1, FS_Subset
    <3>3. parser.signals = Cardinality(S)
      BY <3>1 DEF SignalsInv, SignalsCountedOnce
    <3>4. CASE IsNews(parser, i)
      <4>1. {j \in seen' : log'[j].kind = "signal"} = S \cup {i} /\ i \notin S
        BY <1>0, <2>1, <2>2, <3>1, <3>4 DEF IsNews, SignalsInv
      <4>2. Cardinality(S \cup {i}) = Cardinality(S) + 1
        BY <3>2, <4>1, FS_AddElement
      <4> QED BY <2>2, <3>3, <3>4, <4>1, <4>2 DEF SignalsCountedOnce
    <3>5. CASE ~IsNews(parser, i)
      <4>1. log[i].kind = "signal" => i \in seen
        BY <1>0, <2>1, <2>3, <3>5 DEF IsNews, SignalsInv
      <4>2. {j \in seen' : log'[j].kind = "signal"} = S
        BY <2>2, <3>1, <4>1
      <4> QED BY <2>2, <3>3, <3>5, <4>2 DEF SignalsCountedOnce
    <3> QED BY <3>4, <3>5
  <2>5. parser'.hwm <= Len(log')
    BY <1>0, <2>1, <2>2 DEF SignalsInv
  <2>6. ASSUME NEW j \in DOMAIN log, j < tail'.at \/ j <= parser'.hwm
        PROVE  j \in seen' \cup missed'
    BY <1>0, <2>1, <2>2, <2>6 DEF SignalsInv
  <2>7. ASSUME NEW j \in seen', log'[j].kind = "signal" PROVE j <= parser'.hwm
    BY <1>0, <2>1, <2>2, <2>7 DEF SignalsInv, IsNews
  <2>8. \A j \in missed' : j < tail'.at
    BY <1>0, <2>1, <2>2 DEF SignalsInv
  <2>9. \A j \in missed' : \/ j <= Len(log') - Replay
                           \/ \E k \in DOMAIN log' : log'[k].kind = "loaded" /\ j < k
    BY <2>2 DEF SignalsInv
  <2> QED BY <2>2, <2>4, <2>5, <2>6, <2>7, <2>8, <2>9 DEF SignalsInv
<1>3. CASE NewTail
  <2>1. PICK from \in Nat \ {0} : from = tail'.at /\ from <= Len(log) + 1
    BY <1>3, NewTailFacts
  <2>2. /\ \A i \in DOMAIN log : log[i].kind = "loaded" => i <= from
        /\ Len(log) - Replay + 1 <= from
        /\ missed' = missed \cup {i \in DOMAIN log : tail.at <= i /\ i < from}
        /\ log' = log /\ parser' = parser /\ seen' = seen
    BY <1>3, <2>1, NewTailFacts
  <2>3. ASSUME NEW m \in missed' PROVE m < from
    <3>1. CASE m \in missed
      <4>1. m \in 1 .. Len(log)
        BY <1>0, <3>1
      <4>2. CASE m <= Len(log) - Replay
        BY <1>0, <2>1, <2>2, <4>1, <4>2, ParserAssumption
      <4>3. CASE \E j \in DOMAIN log : log[j].kind = "loaded" /\ m < j
        BY <1>0, <2>1, <2>2, <4>1, <4>3
      <4> QED BY <3>1, <4>2, <4>3 DEF SignalsInv
    <3>2. CASE m \notin missed
      BY <2>2, <2>3, <3>2
    <3> QED BY <3>1, <3>2
  <2>4. \A i \in DOMAIN log : i < from \/ i <= parser.hwm => i \in seen \cup missed'
    BY <1>0, <2>1, <2>2 DEF SignalsInv
  <2>5. ASSUME NEW m \in missed'
        PROVE  m <= Len(log) - Replay \/ \E j \in DOMAIN log : log[j].kind = "loaded" /\ m < j
    <3>1. CASE m \in missed
      BY <3>1 DEF SignalsInv
    <3>2. CASE m \notin missed
      <4>1. m \in 1 .. Len(log) /\ m < from
        BY <1>0, <2>2, <2>5, <3>2
      <4>2. \/ from = 1 \/ from = Len(log) - Replay + 1
            \/ from \in DOMAIN log /\ log[from].kind = "loaded"
        BY <1>3, <2>1, NewTailFacts
      <4> QED BY <1>0, <2>1, <4>1, <4>2, ParserAssumption
    <3> QED BY <3>1, <3>2
  <2> QED BY <2>1, <2>2, <2>3, <2>4, <2>5 DEF SignalsInv, SignalsCountedOnce
<1>4. CASE UNCHANGED parserVars
  BY <1>4 DEF parserVars, SignalsInv, SignalsCountedOnce
<1> QED BY <1>1, <1>2, <1>3, <1>4, ParserSteps

(* parser.py: a replayed burst does not count twice.                       *)
THEOREM ParserCountsOnce == ParserSpec => []SignalsCountedOnce
<1>1. ParserInit => SignalsInv
  <2> SUFFICES ASSUME ParserInit PROVE SignalsInv
    OBVIOUS
  <2>1. log = <<>> /\ seen = {} /\ missed = {} /\ parser.hwm = 0 /\ parser.signals = 0
    BY DEF ParserInit, FreshParser
  <2>2. {i \in seen : log[i].kind = "signal"} = {} /\ DOMAIN log = {} /\ Len(log) = 0
    BY <2>1
  <2> QED BY <2>1, <2>2, FS_EmptySet DEF SignalsInv, SignalsCountedOnce
<1>2. SignalsInv => SignalsCountedOnce
  BY DEF SignalsInv
<1> QED BY <1>1, <1>2, ParserInitTypes, ParserStepTypes, SignalsStep, PTL DEF ParserSpec

-----------------------------------------------------------------------------
(* One run of the server: between two loads, or after the last.            *)
NoLoad(lines, a, b) == \A j \in a .. b : lines[j].kind # "loading"

NoLaunch(lines, s, a, b) == \A j \in a .. b : ~(lines[j].kind = "launch" /\ lines[j].slot = s)

Tells(line) == line.kind \in {"launch", "prompt", "eval"}

Busy(s) == server.slots[s].phase # "idle"

(* A slot is idle, or holds a task of its own of those that were given.    *)
SlotsInv ==
    /\ server.next >= 1
    /\ \A s \in Slots :
          /\ ~Busy(s) => server.slots[s] = Idle
          /\ Busy(s) => /\ server.ready
                        /\ 1 <= server.slots[s].task /\ server.slots[s].task < server.next
    /\ \A s1, s2 \in Slots :
          Busy(s1) /\ Busy(s2) /\ server.slots[s1].task = server.slots[s2].task => s1 = s2

(* Between a load and a line that tells of a request, the load was done.   *)
LoadsInv ==
    /\ server.ready =>
          \A j \in DOMAIN log : log[j].kind = "loading" =>
              \E l \in DOMAIN log : j < l /\ log[l].kind = "loaded"
    /\ \A j, i \in DOMAIN log : log[j].kind = "loading" /\ Tells(log[i]) /\ j < i =>
          \E l \in DOMAIN log : j < l /\ l < i /\ log[l].kind = "loaded"

(* The current run: its tasks were given by this server, what was told of  *)
(* one that is held was told on its slot, which it has had since, and one  *)
(* that was released is not held.                                          *)
RunInv ==
    \A i \in DOMAIN log : NoLoad(log, i, Len(log)) =>
        /\ Tells(log[i]) \/ log[i].kind = "release" => log[i].task < server.next
        /\ \A s \in Slots : Busy(s) /\ server.slots[s].task = log[i].task =>
              /\ Tells(log[i]) => log[i].slot = s /\ NoLaunch(log, s, i + 1, Len(log))
              /\ log[i].kind # "release"

(* In any run: what was told of a task that ends was told before that, on  *)
(* its slot, where nothing else was launched meanwhile.                    *)
EndsInv ==
    \A i, f \in DOMAIN log :
        /\ Tells(log[i]) /\ log[f].kind = "release" /\ log[i].task = log[f].task
        /\ NoLoad(log, i, f) /\ NoLoad(log, f, i)
        => /\ i < f /\ log[i].slot = log[f].slot
           /\ NoLaunch(log, log[f].slot, i + 1, f)

WorldInv == SlotsInv /\ LoadsInv /\ RunInv /\ EndsInv

(* No load is among the lines that no tail will read. *)
NoLoadMissed == \A i \in missed : log[i].kind # "loading"

FiguresOf(r) == {r.started, r.prompt, r.eval} \ {0}

(* What is pending was told of its task, by the server whose lines the     *)
(* tail is reading: no load lies between the two.                          *)
PendingInv ==
    NoLoadMissed =>
        \A t \in DOMAIN parser.pending : \A i \in FiguresOf(parser.pending[t]) :
            /\ i \in DOMAIN log /\ Tells(log[i]) /\ log[i].task = t
            /\ NoLoad(log, i, tail.at - 1) /\ NoLoad(log, tail.at, i)

(* What the records are made of. *)
RecordsInv ==
    NoLoadMissed =>
        \A k \in DOMAIN parser.requests :
            LET r == parser.requests[k]
            IN  /\ r.finished \in DOMAIN log
                /\ \A i \in FiguresOf(r.of) :
                      /\ i \in DOMAIN log /\ i < r.finished
                      /\ log[i].task = r.task /\ log[i].slot = log[r.finished].slot
                      /\ NoLaunch(log, log[r.finished].slot, i + 1, r.finished)

-----------------------------------------------------------------------------
(* Slots, as the log leaves them.  What ends or replaces all that a slot   *)
(* was doing:                                                              *)
Resets(line, s) ==
    \/ line.kind = "loading"
    \/ line.kind \in {"launch", "release"} /\ line.slot = s

NoReset(lines, s, a, b) == \A j \in a .. b : ~Resets(lines[j], s)

NoPrompt(lines, s, a, b) == \A j \in a .. b : ~(lines[j].kind = "prompt" /\ lines[j].slot = s)

(* The last line that tells where a slot is, is where the server has it.   *)
LinesInv ==
    \A s \in Slots : \A a \in DOMAIN log : NoReset(log, s, a + 1, Len(log)) =>
        /\ log[a].kind = "launch" /\ log[a].slot = s =>
              /\ server.slots[s].task = log[a].task
              /\ NoPrompt(log, s, a + 1, Len(log)) => server.slots[s].phase = "prefill"
        /\ Resets(log[a], s) /\ log[a].kind # "launch" => server.slots[s] = Idle
        /\ log[a].kind = "prompt" /\ log[a].slot = s =>
              server.slots[s].phase \in {"decode", "done"}

Shown(s) == IF s \in DOMAIN parser.slots THEN parser.slots[s] ELSE Idle

ShownPhase(phase) == IF phase = "done" THEN "decode" ELSE phase

(* A slot is shown as the server has it, unless a line that is still to be *)
(* read tells where it is.                                                 *)
ShownInv ==
    missed = {} =>
        \A s \in Slots : NoReset(log, s, tail.at, Len(log)) =>
            /\ Shown(s).task = server.slots[s].task
            /\ NoPrompt(log, s, tail.at, Len(log)) =>
                  Shown(s).phase = ShownPhase(server.slots[s].phase)

-----------------------------------------------------------------------------
(* What a line leaves of what lies between two lines.                      *)
LEMMA Between ==
    ASSUME ParserTypeInv, LogGrows, NEW a \in Nat \ {0}
    PROVE  /\ \A b \in Int : b <= Len(log) =>
                 /\ NoLoad(log', a, b) <=> NoLoad(log, a, b)
                 /\ \A s : NoLaunch(log', s, a, b) <=> NoLaunch(log, s, a, b)
           /\ a <= Len(log) + 1 =>
                 /\ NoLoad(log', a, Len(log) + 1) <=>
                       NoLoad(log, a, Len(log)) /\ NewLine.kind # "loading"
                 /\ \A s : NoLaunch(log', s, a, Len(log) + 1) <=>
                       NoLaunch(log, s, a, Len(log)) /\ ~(NewLine.kind = "launch" /\ NewLine.slot = s)
                 /\ \A s : NoReset(log', s, a, Len(log) + 1) <=>
                       NoReset(log, s, a, Len(log)) /\ ~Resets(NewLine, s)
                 /\ \A s : NoPrompt(log', s, a, Len(log) + 1) <=>
                       NoPrompt(log, s, a, Len(log)) /\ ~(NewLine.kind = "prompt" /\ NewLine.slot = s)
<1>1. /\ Len(log) \in Nat
      /\ \A i \in 1 .. Len(log) : log'[i] = log[i]
  BY DEF ParserTypeInv, LogGrows
<1>2. ASSUME NEW b \in Int, b <= Len(log)
      PROVE  /\ NoLoad(log', a, b) <=> NoLoad(log, a, b)
             /\ \A s : NoLaunch(log', s, a, b) <=> NoLaunch(log, s, a, b)
  <2>1. \A j \in a .. b : log'[j] = log[j]
    BY <1>1, <1>2
  <2> QED BY <2>1 DEF NoLoad, NoLaunch
<1>3. ASSUME a <= Len(log) + 1
      PROVE  /\ NoLoad(log', a, Len(log) + 1) <=>
                   NoLoad(log, a, Len(log)) /\ NewLine.kind # "loading"
             /\ \A s : NoLaunch(log', s, a, Len(log) + 1) <=>
                   NoLaunch(log, s, a, Len(log)) /\ ~(NewLine.kind = "launch" /\ NewLine.slot = s)
             /\ \A s : NoReset(log', s, a, Len(log) + 1) <=>
                   NoReset(log, s, a, Len(log)) /\ ~Resets(NewLine, s)
             /\ \A s : NoPrompt(log', s, a, Len(log) + 1) <=>
                   NoPrompt(log, s, a, Len(log)) /\ ~(NewLine.kind = "prompt" /\ NewLine.slot = s)
  <2>1. /\ \A j \in a .. Len(log) : log'[j] = log[j] /\ j \in a .. Len(log) + 1
        /\ Len(log) + 1 \in a .. Len(log) + 1
        /\ \A j \in a .. Len(log) + 1 : j \in a .. Len(log) \/ j = Len(log) + 1
    BY <1>1, <1>3
  <2>2. NoLoad(log', a, Len(log) + 1) <=> NoLoad(log, a, Len(log)) /\ NewLine.kind # "loading"
    BY <2>1 DEF NoLoad, NewLine
  <2>3. \A s : NoLaunch(log', s, a, Len(log) + 1) <=>
            NoLaunch(log, s, a, Len(log)) /\ ~(NewLine.kind = "launch" /\ NewLine.slot = s)
    BY <2>1 DEF NoLaunch, NewLine
  <2>4. \A s : NoReset(log', s, a, Len(log) + 1) <=>
            NoReset(log, s, a, Len(log)) /\ ~Resets(NewLine, s)
    BY <2>1 DEF NoReset, NewLine
  <2>5. \A s : NoPrompt(log', s, a, Len(log) + 1) <=>
            NoPrompt(log, s, a, Len(log)) /\ ~(NewLine.kind = "prompt" /\ NewLine.slot = s)
    BY <2>1 DEF NoPrompt, NewLine
  <2> QED BY <2>2, <2>3, <2>4, <2>5
<1> QED BY <1>2, <1>3

LEMMA TaskTypes ==
    ASSUME ParserTypeInv
    PROVE  /\ server.next \in Nat /\ \A s \in Slots : server.slots[s].task \in Nat
           /\ \A i \in DOMAIN log : log[i].task \in Nat
<1>1. log \in Seq(LogLines) /\ \A line \in LogLines : line.task \in Nat
  BY DEF ParserTypeInv, LogLines
<1>2. \A i \in DOMAIN log : log[i] \in LogLines
  BY <1>1
<1>3. server.next \in Nat /\ \A s \in Slots : server.slots[s].task \in Nat
  BY DEF ParserTypeInv, Servers, SlotStates
<1> QED BY <1>1, <1>2, <1>3

(* The same steps, slot by slot.                                           *)
OthersStay(s) ==
    /\ server'.ready = server.ready
    /\ \A x \in Slots : x # s => server'.slots[x] = server.slots[x]

(* What one line of the server does to its slots, and each invariant of    *)
(* the log in turn.                                                        *)
LEMMA SlotSteps ==
    ASSUME ParserTypeInv, SlotsInv, NEW s \in Slots
    PROVE  /\ LaunchesOn(s) =>
                 /\ OthersStay(s) /\ server.ready /\ ~Busy(s)
                 /\ server'.slots[s].task = server.next /\ server'.slots[s].phase = "prefill"
                 /\ server'.next = server.next + 1
                 /\ NewLine.kind = "launch" /\ NewLine.slot = s /\ NewLine.task = server.next
           /\ \A from, to \in {"prefill", "decode", "done"} : \A kind : WorksOn(s, from, kind, to) =>
                 /\ OthersStay(s) /\ Busy(s) /\ server.slots[s].phase = from
                 /\ server'.slots[s].task = server.slots[s].task /\ server'.slots[s].phase = to
                 /\ server'.next = server.next
                 /\ NewLine.kind = kind /\ NewLine.slot = s /\ NewLine.task = server.slots[s].task
           /\ ReleasesOn(s) =>
                 /\ OthersStay(s) /\ Busy(s) /\ server'.slots[s] = Idle
                 /\ server'.next = server.next
                 /\ NewLine.kind = "release" /\ NewLine.slot = s
                 /\ NewLine.task = server.slots[s].task
<1>1. server \in [slots : [Slots -> SlotStates], next : Nat, ready : BOOLEAN]
  BY DEF ParserTypeInv, Servers
<1>2. server.slots[s] \in [task : Nat, phase : {"idle", "prefill", "decode", "done"}]
  BY <1>1 DEF SlotStates
<1>3. ASSUME LaunchesOn(s)
      PROVE  /\ OthersStay(s) /\ server.ready /\ ~Busy(s)
             /\ server'.slots[s].task = server.next /\ server'.slots[s].phase = "prefill"
             /\ server'.next = server.next + 1
             /\ NewLine.kind = "launch" /\ NewLine.slot = s /\ NewLine.task = server.next
  <2>1. PICK new : new = [task |-> server.next, phase |-> "prefill"]
    OBVIOUS
  <2>2. server' = [server EXCEPT !.slots[s] = new, !.next = server.next + 1]
    BY <1>3, <2>1 DEF LaunchesOn
  <2>3. /\ server'.slots = [server.slots EXCEPT ![s] = new]
        /\ server'.next = server.next + 1 /\ server'.ready = server.ready
    BY <1>1, <2>2
  <2>4. OthersStay(s) /\ server'.slots[s] = new
    BY <1>1, <2>3 DEF OthersStay
  <2> QED BY <1>3, <2>1, <2>3, <2>4 DEF LaunchesOn, Busy, Idle
<1>4. ASSUME NEW from \in {"prefill", "decode", "done"}, NEW to \in {"prefill", "decode", "done"},
             NEW kind, WorksOn(s, from, kind, to)
      PROVE  /\ OthersStay(s) /\ Busy(s) /\ server.slots[s].phase = from
             /\ server'.slots[s].task = server.slots[s].task /\ server'.slots[s].phase = to
             /\ server'.next = server.next
             /\ NewLine.kind = kind /\ NewLine.slot = s /\ NewLine.task = server.slots[s].task
  BY <1>1, <1>2, <1>4 DEF WorksOn, OthersStay, Busy
<1>5. ASSUME ReleasesOn(s)
      PROVE  /\ OthersStay(s) /\ Busy(s) /\ server'.slots[s] = Idle
             /\ server'.next = server.next
             /\ NewLine.kind = "release" /\ NewLine.slot = s
             /\ NewLine.task = server.slots[s].task
  BY <1>1, <1>5 DEF ReleasesOn, OthersStay, Busy
<1> QED BY <1>3, <1>4, <1>5

LEMMA StepsGrow == ServerSteps => LogGrows
BY DEF ServerSteps, Starts, Says, LaunchesOn, WorksOn, ReleasesOn

LEMMA SlotsStep == ParserTypeInv /\ SlotsInv /\ ServerSteps => SlotsInv'
<1> SUFFICES ASSUME ParserTypeInv, SlotsInv, ServerSteps PROVE SlotsInv'
  OBVIOUS
<1>0. /\ server.next \in Nat /\ \A s \in Slots : server.slots[s].task \in Nat
  BY DEF ParserTypeInv, Servers, SlotStates
<1>1. CASE Starts
  BY <1>1 DEF Starts, SlotsInv, Busy, Idle
<1>2. CASE Says
  BY <1>2 DEF Says, SlotsInv, Busy
<1>3. ASSUME NEW s \in Slots, LaunchesOn(s) PROVE SlotsInv'
  <2>1. /\ OthersStay(s) /\ server.ready /\ ~Busy(s)
        /\ server'.slots[s].task = server.next /\ server'.slots[s].phase = "prefill"
        /\ server'.next = server.next + 1
    BY <1>3, SlotSteps
  <2> QED BY <1>0, <2>1 DEF SlotsInv, OthersStay, Busy
<1>4. ASSUME NEW s \in Slots, NEW from \in {"prefill", "decode", "done"},
             NEW to \in {"prefill", "decode", "done"}, NEW kind, WorksOn(s, from, kind, to)
      PROVE  SlotsInv'
  <2>1. /\ OthersStay(s) /\ Busy(s)
        /\ server'.slots[s].task = server.slots[s].task /\ server'.slots[s].phase = to
        /\ server'.next = server.next
    BY <1>4, SlotSteps
  <2> QED BY <1>0, <2>1 DEF SlotsInv, OthersStay, Busy
<1>5. ASSUME NEW s \in Slots, ReleasesOn(s) PROVE SlotsInv'
  <2>1. OthersStay(s) /\ server'.slots[s] = Idle /\ server'.next = server.next
    BY <1>5, SlotSteps
  <2>2. server'.slots[s].phase = "idle"
    BY <2>1 DEF Idle
  <2> QED BY <1>0, <2>1, <2>2 DEF SlotsInv, OthersStay, Busy
<1> QED BY <1>1, <1>2, <1>3, <1>4, <1>5 DEF ServerSteps

LEMMA LoadsStep == ParserTypeInv /\ SlotsInv /\ LoadsInv /\ ServerSteps => LoadsInv'
<1> SUFFICES ASSUME ParserTypeInv, SlotsInv, LoadsInv, ServerSteps PROVE LoadsInv'
  OBVIOUS
<1>1. PICK n \in Nat : n = Len(log) /\ DOMAIN log = 1 .. n
  BY DEF ParserTypeInv
<1>2. DOMAIN log' = 1 .. n + 1 /\ \A i \in 1 .. n : log'[i] = log[i]
  BY <1>1, StepsGrow DEF LogGrows
<1>3. \/ log'[n + 1].kind = "loading" /\ ~server'.ready
      \/ log'[n + 1].kind = "loaded"
      \/ log'[n + 1].kind = "signal" /\ server.ready
      \/ log'[n + 1].kind \in {"launch", "prompt", "eval", "release"} /\ server.ready
  <2>1. CASE Starts
    BY <1>1, <2>1 DEF Starts, NewLine
  <2>2. CASE Says
    BY <1>1, <2>2 DEF Says, NewLine
  <2>3. ASSUME NEW s \in Slots, LaunchesOn(s)
        PROVE  log'[n + 1].kind = "launch" /\ server.ready
    BY <1>1, <2>3, SlotSteps DEF NewLine
  <2>4. ASSUME NEW s \in Slots, NEW from \in {"prefill", "decode", "done"},
               NEW to \in {"prefill", "decode", "done"}, NEW kind, WorksOn(s, from, kind, to)
        PROVE  log'[n + 1].kind = kind /\ server.ready
    BY <1>1, <2>4, SlotSteps DEF NewLine, SlotsInv
  <2>5. ASSUME NEW s \in Slots, ReleasesOn(s)
        PROVE  log'[n + 1].kind = "release" /\ server.ready
    BY <1>1, <2>5, SlotSteps DEF NewLine, SlotsInv
  <2> QED BY <2>1, <2>2, <2>3, <2>4, <2>5 DEF ServerSteps
<1>4. ASSUME server'.ready, NEW j \in DOMAIN log', log'[j].kind = "loading"
      PROVE  \E l \in DOMAIN log' : j < l /\ log'[l].kind = "loaded"
  <2>1. j \in 1 .. n /\ log[j].kind = "loading"
    BY <1>2, <1>3, <1>4
  <2>2. CASE log'[n + 1].kind = "loaded"
    BY <1>2, <2>1, <2>2
  <2>3. CASE log'[n + 1].kind # "loaded"
    <3>1. PICK l \in 1 .. n : j < l /\ log[l].kind = "loaded"
      BY <1>1, <1>3, <1>4, <2>1, <2>3 DEF LoadsInv
    <3> QED BY <1>2, <3>1
  <2> QED BY <2>2, <2>3
<1>5. ASSUME NEW j \in DOMAIN log', NEW i \in DOMAIN log',
             log'[j].kind = "loading", Tells(log'[i]), j < i
      PROVE  \E l \in DOMAIN log' : j < l /\ l < i /\ log'[l].kind = "loaded"
  <2>1. j \in 1 .. n /\ log[j].kind = "loading"
    BY <1>2, <1>5
  <2>2. CASE i \in 1 .. n
    <3>1. Tells(log[i])
      BY <1>2, <1>5, <2>2
    <3>2. PICK l \in 1 .. n : j < l /\ l < i /\ log[l].kind = "loaded"
      BY <1>1, <1>5, <2>1, <2>2, <3>1 DEF LoadsInv
    <3> QED BY <1>2, <3>2
  <2>3. CASE i = n + 1
    <3>1. server.ready
      BY <1>3, <1>5, <2>3 DEF Tells
    <3>2. PICK l \in 1 .. n : j < l /\ log[l].kind = "loaded"
      BY <1>1, <2>1, <3>1 DEF LoadsInv
    <3> QED BY <1>2, <2>3, <3>2
  <2> QED BY <1>2, <2>2, <2>3
<1> QED BY <1>4, <1>5 DEF LoadsInv

LEMMA RunStep == ParserTypeInv /\ SlotsInv /\ RunInv /\ ServerSteps => RunInv'
<1> SUFFICES ASSUME ParserTypeInv, SlotsInv, RunInv, ServerSteps PROVE RunInv'
  OBVIOUS
<1>1. PICK n \in Nat : n = Len(log) /\ DOMAIN log = 1 .. n
  BY DEF ParserTypeInv
<1>2. /\ LogGrows /\ Len(log') = n + 1 /\ DOMAIN log' = 1 .. n + 1
      /\ NewLine = log'[n + 1] /\ \A i \in 1 .. n : log'[i] = log[i]
  BY <1>1, StepsGrow DEF LogGrows, NewLine
<1> SUFFICES ASSUME NEW i \in 1 .. n + 1, NoLoad(log', i, n + 1)
             PROVE  /\ Tells(log'[i]) \/ log'[i].kind = "release" => log'[i].task < server'.next
                    /\ \A s \in Slots : Busy(s)' /\ server'.slots[s].task = log'[i].task =>
                          /\ Tells(log'[i]) => /\ log'[i].slot = s
                                               /\ NoLaunch(log', s, i + 1, n + 1)
                          /\ log'[i].kind # "release"
  BY <1>2 DEF RunInv
<1>3. NewLine.kind # "loading" /\ (i \in 1 .. n => NoLoad(log, i, n))
  BY <1>1, <1>2, Between
<1>4. /\ server.next \in Nat /\ \A s \in Slots : server.slots[s].task \in Nat
      /\ i \in 1 .. n => log[i].task \in Nat
  BY <1>1, TaskTypes
<1>5. \A s : NoLaunch(log', s, n + 2, n + 1)
  BY DEF NoLaunch
<1>6. ASSUME i \in 1 .. n, NEW s \in Slots
      PROVE  NoLaunch(log', s, i + 1, n + 1) <=>
                NoLaunch(log, s, i + 1, n) /\ ~(NewLine.kind = "launch" /\ NewLine.slot = s)
  BY <1>1, <1>2, <1>6, Between
<1>7. ASSUME i \in 1 .. n, NEW s \in Slots, Busy(s), server.slots[s].task = log[i].task
      PROVE  /\ Tells(log[i]) => log[i].slot = s /\ NoLaunch(log, s, i + 1, n)
             /\ log[i].kind # "release"
  BY <1>1, <1>3, <1>7 DEF RunInv
<1>8. ASSUME i \in 1 .. n, Tells(log[i]) \/ log[i].kind = "release"
      PROVE  log[i].task < server.next
  BY <1>1, <1>3, <1>8 DEF RunInv
<1>9. CASE Starts
  BY <1>3, <1>9 DEF Starts
<1>10. CASE Says
  <2>1. /\ NewLine.kind \in {"loaded", "signal"}
        /\ server'.slots = server.slots /\ server'.next = server.next
    BY <1>10 DEF Says
  <2>2. CASE i \in 1 .. n
    BY <1>2, <1>6, <1>7, <1>8, <2>1, <2>2 DEF Busy
  <2>3. CASE i = n + 1
    BY <1>2, <2>1, <2>3 DEF Tells
  <2> QED BY <2>2, <2>3
<1>11. ASSUME NEW s0 \in Slots, LaunchesOn(s0)
       PROVE  /\ Tells(log'[i]) \/ log'[i].kind = "release" => log'[i].task < server'.next
              /\ \A s \in Slots : Busy(s)' /\ server'.slots[s].task = log'[i].task =>
                    /\ Tells(log'[i]) => /\ log'[i].slot = s
                                         /\ NoLaunch(log', s, i + 1, n + 1)
                    /\ log'[i].kind # "release"
  <2>1. /\ OthersStay(s0) /\ server'.slots[s0].task = server.next
        /\ server'.next = server.next + 1
        /\ NewLine.kind = "launch" /\ NewLine.slot = s0 /\ NewLine.task = server.next
    BY <1>11, SlotSteps
  <2>2. CASE i \in 1 .. n
    <3>1. log'[i] = log[i] /\ (Tells(log[i]) \/ log[i].kind = "release" => log[i].task < server.next)
      BY <1>2, <1>8, <2>2
    <3>2. ASSUME NEW s \in Slots, Busy(s)', server'.slots[s].task = log[i].task
          PROVE  /\ Tells(log[i]) => log[i].slot = s /\ NoLaunch(log', s, i + 1, n + 1)
                 /\ log[i].kind # "release"
      <4>1. CASE s = s0
        BY <1>4, <2>1, <3>1, <3>2, <4>1
      <4>2. CASE s # s0
        <5>1. Busy(s) /\ server.slots[s].task = log[i].task
          BY <2>1, <3>2, <4>2 DEF OthersStay, Busy
        <5> QED BY <1>6, <1>7, <2>1, <2>2, <4>2, <5>1
      <4> QED BY <4>1, <4>2
    <3> QED BY <1>4, <2>1, <2>2, <3>1, <3>2
  <2>3. CASE i = n + 1
    <3>1. ASSUME NEW s \in Slots, Busy(s)', server'.slots[s].task = server.next PROVE s = s0
      <4>1. CASE s # s0
        <5>1. Busy(s) /\ server.slots[s].task = server.next
          BY <2>1, <3>1, <4>1 DEF OthersStay, Busy
        <5> QED BY <1>4, <5>1 DEF SlotsInv
      <4> QED BY <4>1
    <3> QED BY <1>2, <1>4, <1>5, <2>1, <2>3, <3>1
  <2> QED BY <2>2, <2>3
<1>12. ASSUME NEW s0 \in Slots, NEW from \in {"prefill", "decode", "done"},
              NEW to \in {"prefill", "decode", "done"}, NEW kind \in {"prompt", "eval"},
              WorksOn(s0, from, kind, to)
       PROVE  /\ Tells(log'[i]) \/ log'[i].kind = "release" => log'[i].task < server'.next
              /\ \A s \in Slots : Busy(s)' /\ server'.slots[s].task = log'[i].task =>
                    /\ Tells(log'[i]) => /\ log'[i].slot = s
                                         /\ NoLaunch(log', s, i + 1, n + 1)
                    /\ log'[i].kind # "release"
  <2>1. /\ OthersStay(s0) /\ Busy(s0) /\ server'.slots[s0].task = server.slots[s0].task
        /\ server'.slots[s0].phase = to /\ server'.next = server.next
        /\ NewLine.kind = kind /\ NewLine.slot = s0 /\ NewLine.task = server.slots[s0].task
    BY <1>12, SlotSteps
  <2>2. \A s \in Slots : /\ server'.slots[s].task = server.slots[s].task
                         /\ Busy(s)' <=> Busy(s)
    BY <2>1 DEF OthersStay, Busy
  <2>3. CASE i \in 1 .. n
    BY <1>2, <1>6, <1>7, <1>8, <2>1, <2>2, <2>3
  <2>4. CASE i = n + 1
    BY <1>2, <1>5, <2>1, <2>2, <2>4 DEF SlotsInv
  <2> QED BY <2>3, <2>4
<1>13. ASSUME NEW s0 \in Slots, ReleasesOn(s0)
       PROVE  /\ Tells(log'[i]) \/ log'[i].kind = "release" => log'[i].task < server'.next
              /\ \A s \in Slots : Busy(s)' /\ server'.slots[s].task = log'[i].task =>
                    /\ Tells(log'[i]) => /\ log'[i].slot = s
                                         /\ NoLaunch(log', s, i + 1, n + 1)
                    /\ log'[i].kind # "release"
  <2>1. /\ OthersStay(s0) /\ Busy(s0) /\ server'.slots[s0] = Idle /\ server'.next = server.next
        /\ NewLine.kind = "release" /\ NewLine.slot = s0 /\ NewLine.task = server.slots[s0].task
    BY <1>13, SlotSteps
  <2>2. \A s \in Slots : Busy(s)' => /\ s # s0 /\ Busy(s)
                                     /\ server'.slots[s].task = server.slots[s].task
    BY <2>1 DEF OthersStay, Busy, Idle
  <2>3. CASE i \in 1 .. n
    BY <1>2, <1>6, <1>7, <1>8, <2>1, <2>2, <2>3
  <2>4. CASE i = n + 1
    BY <1>2, <1>5, <2>1, <2>2, <2>4 DEF SlotsInv, Tells
  <2> QED BY <2>3, <2>4
<1> QED BY <1>9, <1>10, <1>11, <1>12, <1>13 DEF ServerSteps

LEMMA EndsStep == ParserTypeInv /\ SlotsInv /\ RunInv /\ EndsInv /\ ServerSteps => EndsInv'
<1> SUFFICES ASSUME ParserTypeInv, SlotsInv, RunInv, EndsInv, ServerSteps PROVE EndsInv'
  OBVIOUS
<1>1. PICK n \in Nat : n = Len(log) /\ DOMAIN log = 1 .. n
  BY DEF ParserTypeInv
<1>2. /\ LogGrows /\ DOMAIN log' = 1 .. n + 1
      /\ NewLine = log'[n + 1] /\ \A i \in 1 .. n : log'[i] = log[i]
  BY <1>1, StepsGrow DEF LogGrows, NewLine
<1>3. server.next \in Nat /\ \A i \in 1 .. n : log[i].task \in Nat
  BY <1>1, TaskTypes
<1> SUFFICES ASSUME NEW i \in 1 .. n + 1, NEW f \in 1 .. n + 1,
                    Tells(log'[i]), log'[f].kind = "release", log'[i].task = log'[f].task,
                    NoLoad(log', i, f), NoLoad(log', f, i)
             PROVE  /\ i < f /\ log'[i].slot = log'[f].slot
                    /\ NoLaunch(log', log'[f].slot, i + 1, f)
  BY <1>2 DEF EndsInv
<1>4. CASE i \in 1 .. n /\ f \in 1 .. n
  <2>1. NoLoad(log, i, f) /\ NoLoad(log, f, i)
    BY <1>1, <1>2, <1>4, Between
  <2>2. i < f /\ log[i].slot = log[f].slot /\ NoLaunch(log, log[f].slot, i + 1, f)
    BY <1>1, <1>2, <1>4, <2>1 DEF EndsInv
  <2> QED BY <1>1, <1>2, <1>4, <2>2, Between
<1>5. CASE i \in 1 .. n /\ f = n + 1
  <2>1. PICK s \in Slots : ReleasesOn(s)
    <3>1. ASSUME NEW s \in Slots, LaunchesOn(s) PROVE NewLine.kind = "launch"
      BY <3>1, SlotSteps
    <3>2. ASSUME NEW s \in Slots, NEW from, NEW to, NEW kind, WorksOn(s, from, kind, to)
          PROVE  NewLine.kind = kind
      BY <3>2 DEF WorksOn
    <3> QED BY <1>2, <1>5, <3>1, <3>2 DEF ServerSteps, Starts, Says
  <2>2. /\ Busy(s) /\ NewLine.kind = "release" /\ NewLine.slot = s
        /\ NewLine.task = server.slots[s].task
    BY <2>1, SlotSteps
  <2>3. NoLoad(log, i, n)
    BY <1>1, <1>2, <1>5, Between
  <2>4. log[i].slot = s /\ NoLaunch(log, s, i + 1, n)
    BY <1>1, <1>2, <1>5, <2>2, <2>3 DEF RunInv
  <2>5. NoLaunch(log', s, i + 1, n + 1)
    BY <1>1, <1>2, <1>5, <2>2, <2>4, Between
  <2> QED BY <1>2, <1>5, <2>2, <2>4, <2>5
<1>6. CASE i = n + 1 /\ f \in 1 .. n
  <2>1. NoLoad(log, f, n) /\ log[f].kind = "release"
    BY <1>1, <1>2, <1>6, Between
  <2>2. /\ log[f].task < server.next
        /\ \A s \in Slots : Busy(s) => server.slots[s].task # log[f].task
    BY <1>1, <1>6, <2>1 DEF RunInv
  <2>3. ASSUME NEW s \in Slots, LaunchesOn(s) PROVE FALSE
    BY <1>2, <1>3, <1>6, <2>2, <2>3, SlotSteps
  <2>4. ASSUME NEW s \in Slots, NEW from \in {"prefill", "decode", "done"},
               NEW to \in {"prefill", "decode", "done"}, NEW kind, WorksOn(s, from, kind, to)
        PROVE  FALSE
    BY <1>2, <1>6, <2>2, <2>4, SlotSteps
  <2>5. ASSUME NEW s \in Slots, ReleasesOn(s) PROVE FALSE
    <3>1. NewLine.kind = "release"
      BY <2>5, SlotSteps
    <3> QED BY <1>2, <1>6, <3>1 DEF Tells
  <2> QED BY <1>2, <1>6, <2>3, <2>4, <2>5 DEF ServerSteps, Starts, Says, Tells
<1>7. CASE i = n + 1 /\ f = n + 1
  BY <1>7 DEF Tells
<1> QED BY <1>4, <1>5, <1>6, <1>7

(* Where the figures of a pending record are from.                         *)
LEMMA FigureOrigins ==
    ASSUME NEW p, \A t \in DOMAIN p.pending : p.pending[t] \in Figures, NEW a \in Nat,
           NEW t \in DOMAIN PendingAfter(p, a), NEW i \in FiguresOf(PendingAfter(p, a)[t])
    PROVE  /\ log[a].kind # "loading"
           /\ \/ t \in DOMAIN p.pending /\ i \in FiguresOf(p.pending[t])
              \/ i = a /\ Tells(log[a]) /\ log[a].task = t
<1>1. CASE log[a].kind = "launch"
  <2>1. CASE t = log[a].task
    <3>1. PendingAfter(p, a)[t] = [NoFigures EXCEPT !.started = a]
      BY <1>1, <2>1 DEF PendingAfter, Put
    <3> QED BY <1>1, <2>1, <3>1 DEF NoFigures, FiguresOf, Tells
  <2>2. CASE t # log[a].task
    BY <1>1, <2>2 DEF PendingAfter, Put
  <2> QED BY <2>1, <2>2
<1>2. CASE log[a].kind \in {"prompt", "eval"}
  <2>1. CASE t = log[a].task
    <3>1. PICK r \in Figures : r = Pending(p, t)
      BY PendingTypes
    <3>2. PendingAfter(p, a)[t] \in {[r EXCEPT !.prompt = a], [r EXCEPT !.eval = a]}
      BY <1>2, <2>1, <3>1 DEF PendingAfter, Put
    <3>3. FiguresOf(PendingAfter(p, a)[t]) \subseteq FiguresOf(r) \cup {a}
      BY <3>1, <3>2 DEF FiguresOf, Figures
    <3>4. i \in FiguresOf(r) => t \in DOMAIN p.pending /\ r = p.pending[t]
      BY <3>1 DEF Pending, NoFigures, FiguresOf
    <3> QED BY <1>2, <2>1, <3>3, <3>4 DEF Tells
  <2>2. CASE t # log[a].task
    BY <1>2, <2>2 DEF PendingAfter, Put
  <2> QED BY <2>1, <2>2
<1>3. CASE log[a].kind = "release"
  BY <1>3 DEF PendingAfter
<1>4. CASE log[a].kind = "loading"
  BY <1>4 DEF PendingAfter
<1>5. CASE log[a].kind \notin {"launch", "prompt", "eval", "release", "loading"}
  BY <1>5 DEF PendingAfter
<1> QED BY <1>1, <1>2, <1>3, <1>4, <1>5

(* What the parser has pending, has recorded and shows, over one line      *)
(* read.                                                                   *)
LEMMA PendingStep ==
    ParserTypeInv /\ LoadsInv /\ PendingInv /\ [ParserNext]_parserVars => PendingInv'
<1> SUFFICES ASSUME ParserTypeInv, LoadsInv, PendingInv, [ParserNext]_parserVars, NoLoadMissed',
                    NEW t \in DOMAIN parser'.pending, NEW i \in FiguresOf(parser'.pending[t])
             PROVE  /\ i \in DOMAIN log' /\ Tells(log'[i]) /\ log'[i].task = t
                    /\ NoLoad(log', i, tail'.at - 1) /\ NoLoad(log', tail'.at, i)
  BY DEF PendingInv
<1>1. PICK n \in Nat : n = Len(log) /\ DOMAIN log = 1 .. n /\ missed \subseteq 1 .. n
  BY DEF ParserTypeInv
<1>2. PICK a \in Nat \ {0} : a = tail.at /\ a <= n + 1
  BY <1>1 DEF ParserTypeInv
<1>3. ASSUME NoLoadMissed, t \in DOMAIN parser.pending, i \in FiguresOf(parser.pending[t])
      PROVE  /\ i \in 1 .. n /\ Tells(log[i]) /\ log[i].task = t
             /\ NoLoad(log, i, a - 1) /\ NoLoad(log, a, i)
  BY <1>1, <1>2, <1>3 DEF PendingInv
<1>4. CASE ServerSteps
  <2>1. /\ LogGrows /\ DOMAIN log' = 1 .. n + 1
        /\ \A j \in 1 .. n : log'[j] = log[j]
        /\ tail' = tail /\ parser' = parser /\ missed' = missed
    BY <1>1, <1>4, StepsGrow DEF LogGrows
  <2>2. NoLoadMissed
    BY <1>1, <2>1 DEF NoLoadMissed
  <2>3. /\ i \in 1 .. n /\ Tells(log[i]) /\ log[i].task = t
        /\ NoLoad(log, i, a - 1) /\ NoLoad(log, a, i)
    BY <1>3, <2>1, <2>2
  <2>4. NoLoad(log', i, a - 1) /\ NoLoad(log', a, i)
    BY <1>1, <1>2, <2>1, <2>3, Between
  <2> QED BY <1>2, <2>1, <2>3, <2>4
<1>5. CASE ReadNext
  <2>1. /\ a \in 1 .. n /\ tail'.at = a + 1 /\ log' = log /\ missed' = missed
        /\ parser'.pending = PendingAfter(parser, a)
    BY <1>1, <1>2, <1>5, ReadNextFacts
  <2>2. /\ log[a].kind # "loading"
        /\ \/ t \in DOMAIN parser.pending /\ i \in FiguresOf(parser.pending[t])
           \/ i = a /\ Tells(log[a]) /\ log[a].task = t
    BY <2>1, FigureOrigins DEF ParserTypeInv
  <2>3. CASE t \in DOMAIN parser.pending /\ i \in FiguresOf(parser.pending[t])
    <3>1. /\ i \in 1 .. n /\ Tells(log[i]) /\ log[i].task = t
          /\ NoLoad(log, i, a - 1) /\ NoLoad(log, a, i)
      BY <1>3, <2>1, <2>3 DEF NoLoadMissed
    <3>2. NoLoad(log, i, a) /\ NoLoad(log, a + 1, i)
      BY <1>2, <2>2, <3>1 DEF NoLoad
    <3> QED BY <1>1, <2>1, <3>1, <3>2
  <2>4. CASE i = a /\ Tells(log[a]) /\ log[a].task = t
    <3>1. NoLoad(log, a, a) /\ NoLoad(log, a + 1, a)
      BY <2>2 DEF NoLoad
    <3> QED BY <1>1, <2>1, <2>4, <3>1
  <2> QED BY <2>2, <2>3, <2>4
<1>6. CASE NewTail
  <2>1. PICK from \in Nat \ {0} : from = tail'.at /\ from <= n + 1
    BY <1>1, <1>6, NewTailFacts
  <2>2. /\ \A l \in 1 .. n : log[l].kind = "loaded" => l <= from
        /\ missed' = missed \cup {m \in 1 .. n : a <= m /\ m < from}
        /\ log' = log /\ parser' = parser
    BY <1>1, <1>2, <1>6, <2>1, NewTailFacts
  <2>3. NoLoadMissed
    BY <2>2 DEF NoLoadMissed
  <2>4. /\ i \in 1 .. n /\ Tells(log[i]) /\ log[i].task = t
        /\ NoLoad(log, i, a - 1) /\ NoLoad(log, a, i)
    BY <1>3, <2>2, <2>3
  <2>5. ASSUME NEW j \in i .. from - 1 PROVE log[j].kind # "loading"
    <3>1. CASE j < a
      BY <1>2, <2>1, <2>4, <2>5, <3>1 DEF NoLoad
    <3>2. CASE a <= j
      <4>1. j \in missed'
        BY <1>2, <2>1, <2>2, <2>4, <2>5, <3>2
      <4> QED BY <2>2, <4>1 DEF NoLoadMissed
    <3> QED BY <1>2, <2>4, <2>5, <3>1, <3>2
  <2>6. ASSUME NEW j \in from .. i PROVE log[j].kind # "loading"
    <3>1. SUFFICES ASSUME log[j].kind = "loading" PROVE FALSE
      OBVIOUS
    <3>2. j \in 1 .. n /\ j < i
      BY <2>1, <2>4, <2>6, <3>1 DEF Tells
    <3>3. PICK l \in 1 .. n : j < l /\ log[l].kind = "loaded"
      BY <1>1, <2>4, <3>1, <3>2 DEF LoadsInv
    <3> QED BY <2>1, <2>2, <2>6, <3>3
  <2>7. NoLoad(log, i, from - 1) /\ NoLoad(log, from, i)
    BY <2>5, <2>6 DEF NoLoad
  <2> QED BY <1>1, <2>1, <2>2, <2>4, <2>7
<1>7. CASE UNCHANGED parserVars
  BY <1>1, <1>2, <1>3, <1>7 DEF parserVars, NoLoadMissed
<1> QED BY <1>4, <1>5, <1>6, <1>7, ParserSteps

LEMMA RecordsStep ==
    ParserTypeInv /\ EndsInv /\ PendingInv /\ RecordsInv /\ [ParserNext]_parserVars
        => RecordsInv'
<1> SUFFICES ASSUME ParserTypeInv, EndsInv, PendingInv, RecordsInv, [ParserNext]_parserVars,
                    NoLoadMissed', NEW k \in DOMAIN parser'.requests,
                    NEW r, r = parser'.requests[k]
             PROVE  /\ r.finished \in DOMAIN log'
                    /\ \A i \in FiguresOf(r.of) :
                          /\ i \in DOMAIN log' /\ i < r.finished
                          /\ log'[i].task = r.task /\ log'[i].slot = log'[r.finished].slot
                          /\ NoLaunch(log', log'[r.finished].slot, i + 1, r.finished)
  BY DEF RecordsInv
<1>1. PICK n \in Nat : n = Len(log) /\ DOMAIN log = 1 .. n /\ missed \subseteq 1 .. n
  BY DEF ParserTypeInv
<1>2. ASSUME NoLoadMissed, NEW j \in DOMAIN parser.requests, r = parser.requests[j]
      PROVE  /\ r.finished \in 1 .. n
             /\ \A i \in FiguresOf(r.of) :
                   /\ i \in 1 .. n /\ i < r.finished
                   /\ log[i].task = r.task /\ log[i].slot = log[r.finished].slot
                   /\ NoLaunch(log, log[r.finished].slot, i + 1, r.finished)
  BY <1>1, <1>2 DEF RecordsInv
<1>3. CASE ServerSteps
  <2>1. /\ LogGrows /\ DOMAIN log' = 1 .. n + 1
        /\ \A j \in 1 .. n : log'[j] = log[j]
        /\ parser' = parser /\ missed' = missed
    BY <1>1, <1>3, StepsGrow DEF LogGrows
  <2>2. NoLoadMissed
    BY <1>1, <2>1 DEF NoLoadMissed
  <2>3. /\ r.finished \in 1 .. n
        /\ \A i \in FiguresOf(r.of) :
              /\ i \in 1 .. n /\ i < r.finished
              /\ log[i].task = r.task /\ log[i].slot = log[r.finished].slot
              /\ NoLaunch(log, log[r.finished].slot, i + 1, r.finished)
    BY <1>2, <2>1, <2>2
  <2>4. \A i \in FiguresOf(r.of) : NoLaunch(log', log[r.finished].slot, i + 1, r.finished)
    BY <1>1, <2>1, <2>3, Between
  <2> QED BY <2>1, <2>3, <2>4
<1>4. CASE ReadNext
  <2>1. PICK a \in 1 .. n : a = tail.at
    BY <1>1, <1>4, ReadNextFacts
  <2>2. /\ log' = log /\ missed' = missed /\ log[a] \in LogLines
        /\ parser'.requests = RequestsAfter(parser, a)
    BY <1>4, <2>1, ReadNextFacts
  <2>3. NoLoadMissed
    BY <2>2 DEF NoLoadMissed
  <2>4. \/ log[a].kind = "release" /\ r = Record(parser, a)
        \/ \E j \in DOMAIN parser.requests : r = parser.requests[j]
    <3>1. /\ parser.requests \in Seq(Records)
          /\ \A t \in DOMAIN parser.pending : parser.pending[t] \in Figures
      BY DEF ParserTypeInv
    <3>2. a \in Nat
      OBVIOUS
    <3>3. \A h \in DOMAIN RequestsAfter(parser, a) :
              \/ log[a].kind = "release" /\ RequestsAfter(parser, a)[h] = Record(parser, a)
              \/ \E j \in DOMAIN parser.requests : RequestsAfter(parser, a)[h] = parser.requests[j]
      BY <2>2, <3>1, <3>2, RequestsAfterTypes
    <3> QED BY <2>2, <3>3
  <2>5. CASE log[a].kind = "release" /\ r = Record(parser, a)
    <3>1. /\ r.finished = a /\ r.task = log[a].task /\ r.of = Pending(parser, log[a].task)
      BY <2>5 DEF Record
    <3>2. ASSUME NEW i \in FiguresOf(r.of)
          PROVE  /\ i \in 1 .. n /\ i < a /\ log[i].task = log[a].task
                 /\ log[i].slot = log[a].slot /\ NoLaunch(log, log[a].slot, i + 1, a)
      <4>1. /\ log[a].task \in DOMAIN parser.pending
            /\ i \in FiguresOf(parser.pending[log[a].task])
        BY <3>1, <3>2 DEF Pending, NoFigures, FiguresOf
      <4>2. /\ i \in 1 .. n /\ Tells(log[i]) /\ log[i].task = log[a].task
            /\ NoLoad(log, i, a - 1) /\ NoLoad(log, a, i)
        BY <1>1, <2>1, <2>3, <4>1 DEF PendingInv
      <4>3. NoLoad(log, i, a)
        BY <2>1, <2>5, <4>2 DEF NoLoad
      <4> QED BY <1>1, <2>5, <4>2, <4>3 DEF EndsInv
    <3> QED BY <1>1, <2>2, <3>1, <3>2
  <2> QED BY <1>1, <1>2, <2>2, <2>3, <2>4, <2>5
<1>5. CASE NewTail
  <2>1. log' = log /\ parser' = parser /\ missed \subseteq missed'
    BY <1>5, NewTailFacts
  <2>2. NoLoadMissed
    BY <2>1 DEF NoLoadMissed
  <2> QED BY <1>1, <1>2, <2>1, <2>2
<1>6. CASE UNCHANGED parserVars
  BY <1>1, <1>2, <1>6 DEF parserVars, NoLoadMissed
<1> QED BY <1>3, <1>4, <1>5, <1>6, ParserSteps

(* What a slot does that is not reset by the line.                         *)
LEMMA SlotMoves ==
    ASSUME ParserTypeInv, SlotsInv, ServerSteps, NEW s \in Slots, ~Resets(NewLine, s)
    PROVE  /\ server'.slots[s].task = server.slots[s].task
           /\ \/ server'.slots[s] = server.slots[s]
                 /\ ~(NewLine.kind = "prompt" /\ NewLine.slot = s)
              \/ NewLine.kind = "prompt" /\ NewLine.slot = s
                 /\ Busy(s) /\ server'.slots[s].phase = "decode"
              \/ NewLine.kind = "eval"
                 /\ server.slots[s].phase = "decode" /\ server'.slots[s].phase = "done"
<1>1. CASE Starts
  BY <1>1 DEF Starts, Resets
<1>2. CASE Says
  BY <1>2 DEF Says
<1>3. ASSUME NEW s0 \in Slots, LaunchesOn(s0)
      PROVE  server'.slots[s] = server.slots[s] /\ NewLine.kind # "prompt"
  <2>1. OthersStay(s0) /\ NewLine.kind = "launch" /\ NewLine.slot = s0
    BY <1>3, SlotSteps
  <2> QED BY <2>1 DEF OthersStay, Resets
<1>4. ASSUME NEW s0 \in Slots, WorksOn(s0, "prefill", "prompt", "decode")
      PROVE  \/ s # s0 /\ server'.slots[s] = server.slots[s] /\ NewLine.slot = s0
             \/ s = s0 /\ Busy(s) /\ server'.slots[s].phase = "decode"
                /\ server'.slots[s].task = server.slots[s].task
                /\ NewLine.kind = "prompt" /\ NewLine.slot = s
  <2>1. /\ OthersStay(s0) /\ Busy(s0) /\ server'.slots[s0].task = server.slots[s0].task
        /\ server'.slots[s0].phase = "decode" /\ NewLine.kind = "prompt" /\ NewLine.slot = s0
    BY <1>4, SlotSteps
  <2> QED BY <2>1 DEF OthersStay
<1>5. ASSUME NEW s0 \in Slots, WorksOn(s0, "decode", "eval", "done")
      PROVE  /\ NewLine.kind = "eval"
             /\ \/ server'.slots[s] = server.slots[s]
                \/ /\ server.slots[s].phase = "decode" /\ server'.slots[s].phase = "done"
                   /\ server'.slots[s].task = server.slots[s].task
  <2>1. /\ OthersStay(s0) /\ server'.slots[s0].task = server.slots[s0].task
        /\ server.slots[s0].phase = "decode" /\ server'.slots[s0].phase = "done"
        /\ NewLine.kind = "eval"
    BY <1>5, SlotSteps
  <2> QED BY <2>1 DEF OthersStay
<1>6. ASSUME NEW s0 \in Slots, ReleasesOn(s0)
      PROVE  server'.slots[s] = server.slots[s] /\ NewLine.kind # "prompt"
  <2>1. OthersStay(s0) /\ NewLine.kind = "release" /\ NewLine.slot = s0
    BY <1>6, SlotSteps
  <2> QED BY <2>1 DEF OthersStay, Resets
<1> QED BY <1>1, <1>2, <1>3, <1>4, <1>5, <1>6 DEF ServerSteps

(* And the one that is.                                                    *)
LEMMA SlotIsReset ==
    ASSUME ParserTypeInv, SlotsInv, ServerSteps, NEW s \in Slots
    PROVE  /\ Resets(NewLine, s) =>
                 IF NewLine.kind = "launch"
                 THEN /\ NewLine.slot = s /\ server'.slots[s].task = NewLine.task
                      /\ server'.slots[s].phase = "prefill"
                 ELSE server'.slots[s] = Idle
           /\ NewLine.kind = "prompt" /\ NewLine.slot = s => server'.slots[s].phase = "decode"
<1>1. CASE Starts
  BY <1>1 DEF Starts
<1>2. CASE Says
  BY <1>2 DEF Says, Resets
<1>3. ASSUME NEW s0 \in Slots, LaunchesOn(s0)
      PROVE  /\ NewLine.kind = "launch"
             /\ Resets(NewLine, s) =>
                   /\ NewLine.slot = s /\ server'.slots[s].task = NewLine.task
                   /\ server'.slots[s].phase = "prefill"
  <2>1. /\ server'.slots[s0].task = server.next /\ server'.slots[s0].phase = "prefill"
        /\ NewLine.kind = "launch" /\ NewLine.slot = s0 /\ NewLine.task = server.next
    BY <1>3, SlotSteps
  <2> QED BY <2>1 DEF Resets
<1>4. ASSUME NEW s0 \in Slots, NEW from \in {"prefill", "decode", "done"},
             NEW to \in {"prefill", "decode", "done"}, NEW kind \in {"prompt", "eval"},
             WorksOn(s0, from, kind, to)
      PROVE  /\ ~Resets(NewLine, s) /\ NewLine.kind = kind
             /\ NewLine.slot = s => server'.slots[s].phase = to
  <2>1. server'.slots[s0].phase = to /\ NewLine.kind = kind /\ NewLine.slot = s0
    BY <1>4, SlotSteps
  <2> QED BY <2>1 DEF Resets
<1>5. ASSUME NEW s0 \in Slots, ReleasesOn(s0)
      PROVE  /\ NewLine.kind = "release"
             /\ Resets(NewLine, s) => server'.slots[s] = Idle
  <2>1. server'.slots[s0] = Idle /\ NewLine.kind = "release" /\ NewLine.slot = s0
    BY <1>5, SlotSteps
  <2> QED BY <2>1 DEF Resets
<1> QED BY <1>1, <1>2, <1>3, <1>4, <1>5 DEF ServerSteps

LEMMA LinesStep == ParserTypeInv /\ SlotsInv /\ LinesInv /\ ServerSteps => LinesInv'
<1> SUFFICES ASSUME ParserTypeInv, SlotsInv, LinesInv, ServerSteps PROVE LinesInv'
  OBVIOUS
<1>1. PICK n \in Nat : n = Len(log) /\ DOMAIN log = 1 .. n
  BY DEF ParserTypeInv
<1>2. /\ LogGrows /\ Len(log') = n + 1 /\ DOMAIN log' = 1 .. n + 1
      /\ NewLine = log'[n + 1]
      /\ \A i \in 1 .. n : log'[i] = log[i]
  BY <1>1, StepsGrow DEF LogGrows, NewLine
<1> SUFFICES ASSUME NEW s \in Slots, NEW a \in 1 .. n + 1, NoReset(log', s, a + 1, n + 1)
             PROVE  /\ log'[a].kind = "launch" /\ log'[a].slot = s =>
                          /\ server'.slots[s].task = log'[a].task
                          /\ NoPrompt(log', s, a + 1, n + 1) => server'.slots[s].phase = "prefill"
                    /\ Resets(log'[a], s) /\ log'[a].kind # "launch" => server'.slots[s] = Idle
                    /\ log'[a].kind = "prompt" /\ log'[a].slot = s =>
                          server'.slots[s].phase \in {"decode", "done"}
  BY <1>2 DEF LinesInv
<1>3. CASE a \in 1 .. n
  <2>1. /\ NoReset(log, s, a + 1, n) /\ ~Resets(NewLine, s)
        /\ NoPrompt(log', s, a + 1, n + 1) <=>
              NoPrompt(log, s, a + 1, n) /\ ~(NewLine.kind = "prompt" /\ NewLine.slot = s)
    BY <1>1, <1>2, <1>3, Between
  <2>2. /\ log[a].kind = "launch" /\ log[a].slot = s =>
              /\ server.slots[s].task = log[a].task
              /\ NoPrompt(log, s, a + 1, n) => server.slots[s].phase = "prefill"
        /\ Resets(log[a], s) /\ log[a].kind # "launch" => ~Busy(s) /\ server.slots[s] = Idle
        /\ log[a].kind = "prompt" /\ log[a].slot = s =>
              server.slots[s].phase \in {"decode", "done"}
    BY <1>1, <1>3, <2>1 DEF LinesInv, Busy, Idle
  <2>3. log'[a] = log[a]
    BY <1>2, <1>3
  <2> QED BY <2>1, <2>2, <2>3, SlotMoves DEF Busy
<1>4. CASE a = n + 1
  BY <1>2, <1>4, SlotIsReset DEF Resets
<1> QED BY <1>3, <1>4

LEMMA ShownStep ==
    ParserTypeInv /\ SlotsInv /\ LinesInv /\ ShownInv /\ [ParserNext]_parserVars => ShownInv'
<1> SUFFICES ASSUME ParserTypeInv, SlotsInv, LinesInv, ShownInv, [ParserNext]_parserVars,
                    missed' = {}, NEW s \in Slots, NoReset(log', s, tail'.at, Len(log'))
             PROVE  /\ Shown(s)'.task = server'.slots[s].task
                    /\ NoPrompt(log', s, tail'.at, Len(log')) =>
                          Shown(s)'.phase = ShownPhase(server'.slots[s].phase)
  BY DEF ShownInv
<1>1. PICK n \in Nat : n = Len(log) /\ DOMAIN log = 1 .. n
  BY DEF ParserTypeInv
<1>2. PICK a \in Nat \ {0} : a = tail.at /\ a <= n + 1
  BY <1>1 DEF ParserTypeInv
<1>3. ASSUME missed = {}, NoReset(log, s, a, n)
      PROVE  /\ Shown(s).task = server.slots[s].task
             /\ NoPrompt(log, s, a, n) => Shown(s).phase = ShownPhase(server.slots[s].phase)
  BY <1>1, <1>2, <1>3 DEF ShownInv
<1>4. CASE ServerSteps
  <2>1. /\ LogGrows /\ Len(log') = n + 1
        /\ tail' = tail /\ parser' = parser /\ missed' = missed
    BY <1>1, <1>4, StepsGrow DEF LogGrows
  <2>2. /\ NoReset(log, s, a, n) /\ ~Resets(NewLine, s)
        /\ NoPrompt(log', s, a, n + 1) <=>
              NoPrompt(log, s, a, n) /\ ~(NewLine.kind = "prompt" /\ NewLine.slot = s)
    BY <1>1, <1>2, <2>1, Between
  <2>3. Shown(s)' = Shown(s)
    BY <2>1 DEF Shown
  <2>4. /\ Shown(s).task = server.slots[s].task
        /\ NoPrompt(log, s, a, n) => Shown(s).phase = ShownPhase(server.slots[s].phase)
    BY <1>3, <2>1, <2>2
  <2> QED BY <1>2, <1>4, <2>1, <2>2, <2>3, <2>4, SlotMoves DEF ShownPhase
<1>5. CASE ReadNext
  <2>1. /\ a \in 1 .. n /\ tail'.at = a + 1 /\ log' = log /\ server' = server
        /\ missed = {} /\ log[a] \in LogLines /\ parser'.slots = SlotsAfter(parser, a)
    BY <1>1, <1>2, <1>5, ReadNextFacts
  <2>2. NoReset(log, s, a + 1, n)
    BY <1>1, <2>1
  <2>3. /\ log[a].kind = "launch" /\ log[a].slot = s =>
              /\ server.slots[s].task = log[a].task
              /\ NoPrompt(log, s, a + 1, n) => server.slots[s].phase = "prefill"
        /\ Resets(log[a], s) /\ log[a].kind # "launch" => server.slots[s] = Idle
        /\ log[a].kind = "prompt" /\ log[a].slot = s =>
              server.slots[s].phase \in {"decode", "done"}
    BY <1>1, <2>1, <2>2 DEF LinesInv
  <2>4. CASE Resets(log[a], s)
    <3>1. CASE log[a].kind = "launch"
      <4>1. Shown(s)' = [task |-> log[a].task, phase |-> "prefill"]
        BY <2>1, <2>4, <3>1 DEF Shown, SlotsAfter, Put, Resets
      <4> QED BY <1>1, <2>1, <2>3, <2>4, <3>1, <4>1 DEF ShownPhase, Resets
    <3>2. CASE log[a].kind # "launch"
      <4>1. Shown(s)' = Idle
        BY <2>1, <2>4, <3>2 DEF Shown, SlotsAfter, Put, Resets
      <4> QED BY <2>1, <2>3, <2>4, <3>2, <4>1 DEF ShownPhase, Idle
    <3> QED BY <3>1, <3>2
  <2>5. CASE ~Resets(log[a], s)
    <3>1. NoReset(log, s, a, n) /\ (NoPrompt(log, s, a, n) <=>
              NoPrompt(log, s, a + 1, n) /\ ~(log[a].kind = "prompt" /\ log[a].slot = s))
      <4>1. \A j \in a .. n : j = a \/ j \in a + 1 .. n
        OBVIOUS
      <4>2. a \in a .. n /\ \A j \in a + 1 .. n : j \in a .. n
        BY <2>1
      <4> QED BY <2>2, <2>5, <4>1, <4>2 DEF NoReset, NoPrompt
    <3>2. /\ Shown(s).task = server.slots[s].task
          /\ NoPrompt(log, s, a, n) => Shown(s).phase = ShownPhase(server.slots[s].phase)
      BY <1>3, <2>1, <3>1
    <3>3. CASE log[a].kind = "prompt" /\ log[a].slot = s
      <4>1. Shown(s)' = [task |-> Shown(s).task, phase |-> "decode"]
        BY <2>1, <3>3 DEF Shown, SlotsAfter, Put, Phase, Idle
      <4> QED BY <2>1, <2>3, <3>2, <3>3, <4>1 DEF ShownPhase
    <3>4. CASE ~(log[a].kind = "prompt" /\ log[a].slot = s)
      <4>1. Shown(s)' = Shown(s)
        BY <2>1, <2>5, <3>4 DEF Shown, SlotsAfter, Put, Phase, Resets
      <4> QED BY <1>1, <2>1, <3>1, <3>2, <3>4, <4>1
    <3> QED BY <3>3, <3>4
  <2> QED BY <2>4, <2>5
<1>6. CASE NewTail
  <2>1. PICK from \in Nat \ {0} : from = tail'.at /\ from <= n + 1
    BY <1>1, <1>6, NewTailFacts
  <2>2. /\ missed' = missed \cup {m \in 1 .. n : a <= m /\ m < from}
        /\ log' = log /\ parser' = parser /\ server' = server
    BY <1>1, <1>2, <1>6, <2>1, NewTailFacts
  <2>3. from <= a /\ missed = {}
    <3>1. CASE a < from
      <4>1. a \in {m \in 1 .. n : a <= m /\ m < from}
        BY <2>1, <3>1
      <4> QED BY <2>2, <4>1
    <3> QED BY <2>2, <3>1
  <2>4. NoReset(log, s, a, n) /\ (NoPrompt(log, s, from, n) => NoPrompt(log, s, a, n))
    <3>1. \A j \in a .. n : j \in from .. n
      BY <2>3
    <3> QED BY <1>1, <2>1, <2>2, <3>1 DEF NoReset, NoPrompt
  <2>5. Shown(s)' = Shown(s)
    BY <2>2 DEF Shown
  <2> QED BY <1>1, <1>3, <2>1, <2>2, <2>3, <2>4, <2>5
<1>7. CASE UNCHANGED parserVars
  <2>1. Shown(s)' = Shown(s)
    BY <1>7 DEF parserVars, Shown
  <2> QED BY <1>1, <1>2, <1>3, <1>7, <2>1 DEF parserVars
<1> QED BY <1>4, <1>5, <1>6, <1>7, ParserSteps

-----------------------------------------------------------------------------
ParserInv == ParserTypeInv /\ WorldInv /\ PendingInv /\ RecordsInv /\ LinesInv /\ ShownInv

(* The whole invariant, at the start and over a step.                      *)
LEMMA ParserInitInv == ParserInit => ParserInv
<1> SUFFICES ASSUME ParserInit PROVE ParserInv
  OBVIOUS
<1>1. log = <<>> /\ DOMAIN log = {} /\ missed = {}
  BY DEF ParserInit
<1>2. parser = FreshParser /\ DOMAIN parser.slots = {} /\ DOMAIN parser.pending = {}
      /\ DOMAIN parser.requests = {}
  BY DEF ParserInit, FreshParser
<1>3. \A s \in Slots : server.slots[s] = Idle
  BY DEF ParserInit
<1>4. SlotsInv
  BY <1>3 DEF ParserInit, SlotsInv, Busy, Idle
<1>5. LoadsInv /\ RunInv /\ EndsInv /\ LinesInv
  BY <1>1 DEF LoadsInv, RunInv, EndsInv, LinesInv
<1>6. PendingInv /\ RecordsInv
  BY <1>2 DEF PendingInv, RecordsInv
<1>7. ShownInv
  BY <1>2, <1>3 DEF ShownInv, Shown, ShownPhase, Idle
<1> QED BY <1>4, <1>5, <1>6, <1>7, ParserInitTypes DEF ParserInv, WorldInv

LEMMA ParserStepInv == ParserInv /\ [ParserNext]_parserVars => ParserInv'
<1> SUFFICES ASSUME ParserInv, [ParserNext]_parserVars PROVE ParserInv'
  OBVIOUS
<1> USE DEF ParserInv, WorldInv
<1>1. ParserTypeInv' /\ PendingInv' /\ RecordsInv' /\ ShownInv'
  BY ParserStepTypes, PendingStep, RecordsStep, ShownStep
<1>2. WorldInv' /\ LinesInv'
  <2>1. CASE ServerSteps
    BY <2>1, SlotsStep, LoadsStep, RunStep, EndsStep, LinesStep
  <2>2. CASE log' = log /\ server' = server
    BY <2>2 DEF SlotsInv, LoadsInv, RunInv, EndsInv, LinesInv, Busy
  <2> QED BY <2>1, <2>2, ParserSteps, ReadNextFacts, NewTailFacts DEF parserVars
<1> QED BY <1>1, <1>2

(* A request's record is stored for ever: it has no other's figures.       *)
THEOREM ParserRecords == ParserSpec => []RecordIsOfOneRequest
<1>1. ParserInv => RecordIsOfOneRequest
  BY DEF ParserInv, RecordsInv, RecordIsOfOneRequest, NoLoadMissed, FiguresOf, NoLaunch
<1> QED BY <1>1, ParserInitInv, ParserStepInv, PTL DEF ParserSpec

(* follower.py: a tail that has caught up shows the server's slots.        *)
THEOREM ParserShowsSlots == ParserSpec => []SlotsAgree
<1>1. ParserInv => SlotsAgree
  <2> SUFFICES ASSUME ParserInv, tail.at > Len(log), missed = {}, NEW s \in Slots
               PROVE  /\ Shown(s).task = server.slots[s].task
                      /\ Shown(s).phase = ShownPhase(server.slots[s].phase)
    BY DEF SlotsAgree, Shown, ShownPhase
  <2>1. tail.at \in Nat /\ Len(log) \in Nat
    BY DEF ParserInv, ParserTypeInv
  <2>2. NoReset(log, s, tail.at, Len(log)) /\ NoPrompt(log, s, tail.at, Len(log))
    BY <2>1 DEF NoReset, NoPrompt
  <2> QED BY <2>2 DEF ParserInv, ShownInv
<1> QED BY <1>1, ParserInitInv, ParserStepInv, PTL DEF ParserSpec

-----------------------------------------------------------------------------
(* The search for the target.                                              *)
DiscoveryTypeInv ==
    /\ agent \in Hosts
    /\ running \subseteq Places /\ home \subseteq Places
    /\ serves \in (home \cap running) \cup {Nowhere}
    /\ agent.runtime = "auto" => running = Places
    /\ known = [place |-> known.place, units |-> known.units, age |-> known.age]
    /\ known.age \in Nat
    /\ cached_for \in Nat /\ cached_for <= RefreshWithin
    /\ steady \in Nat

(* What a discovery finds, and what a probe then answers, of the machine   *)
(* as it is.                                                               *)
Found ==
    IF agent.runtime = "auto"
    THEN IF "systemd" \in home \cap running THEN "systemd" ELSE Nowhere
    ELSE IF agent.fixed # Nowhere THEN agent.fixed ELSE First(home \cap running)

Answer ==
    LET probed == Probed(known.place, known.units, {})
    IN  IF agent.runtime = "auto" THEN Ranked(CollectDocker({}, {}), probed) ELSE probed

(* How long what was found may be old when the cache is fresh. *)
GoodFor == IF known.place = Nowhere THEN DiscoveryRetry ELSE DiscoveryTTL

(* What was found, or asked, since the machine is as it is and every       *)
(* command works, is right.                                                *)
SinceInv ==
    /\ known.age < steady =>
          known.place = Found /\ known.units = (Found \in home \cap running)
    /\ cached_for < steady =>
          llm_ct = Answer /\ known.place \in running \cup {agent.fixed, Nowhere}

(* At the first refresh there is nothing to keep. *)
AgesInv ==
    \/ known.age < GoodFor + cached_for
    \/ known.age >= LongAgo /\ cached_for = RefreshWithin /\ steady = 0

DiscoveryInv == DiscoveryTypeInv /\ SinceInv /\ AgesInv

(* One second older, up to the bound.                                      *)
LEMMA OlderBounds ==
    /\ LongAgo \in Nat
    /\ \A a \in Nat : Older(a) \in Nat /\ Older(a) <= a + 1 /\ a <= Older(a)
    /\ \A a, b \in Nat : Older(a) < Older(b) => a < b
<1>1. LongAgo \in Nat
  BY DiscoveryAssumption DEF LongAgo
<1> QED BY <1>1 DEF Older

(* The first of the places is one of those that were asked for.            *)
LEMMA FirstIsOne == ASSUME NEW some PROVE First(some) \in some \cup {Nowhere}
<1>1. PICK firsts : firsts = {i \in DOMAIN agent.places :
                                 /\ agent.places[i] \in some
                                 /\ \A j \in 1 .. i - 1 : agent.places[j] \notin some}
  OBVIOUS
<1>2. First(some) = IF firsts = {} THEN Nowhere ELSE agent.places[CHOOSE i \in firsts : TRUE]
  BY <1>1 DEF First
<1>3. ASSUME firsts # {} PROVE agent.places[CHOOSE i \in firsts : TRUE] \in some
  BY <1>1, <1>3
<1> QED BY <1>2, <1>3

LEMMA DiscoveryInitInv == DiscoveryInit => DiscoveryInv
<1> SUFFICES ASSUME DiscoveryInit PROVE DiscoveryInv
  OBVIOUS
<1>1. DiscoveryTypeInv
  BY OlderBounds, DiscoveryAssumption DEF DiscoveryInit, DiscoveryTypeInv
<1>2. known.age = LongAgo /\ steady = 0 /\ cached_for = RefreshWithin
  BY DEF DiscoveryInit
<1>3. SinceInv
  BY <1>2, OlderBounds, DiscoveryAssumption DEF SinceInv
<1>4. AgesInv
  BY <1>2, OlderBounds DEF AgesInv
<1> QED BY <1>1, <1>3, <1>4 DEF DiscoveryInv

(* Each action of discovery preserves the invariant.                       *)
LEMMA MachineChangesInv == DiscoveryInv /\ MachineChanges => DiscoveryInv'
<1> SUFFICES ASSUME DiscoveryInv, MachineChanges PROVE DiscoveryInv'
  OBVIOUS
<1> USE DEF DiscoveryInv
<1>1. /\ agent' = agent /\ Places' = Places /\ known' = known /\ cached_for' = cached_for
      /\ steady' = 0
  BY DEF MachineChanges, Places
<1>2. /\ running' \subseteq Places /\ home' \subseteq Places
      /\ serves' \in (home' \cap running') \cup {Nowhere}
      /\ agent.runtime = "auto" => running' = running
  <2>1. CASE agent.runtime = "proxmox-lxc"
             /\ (\E p \in Places :
                    \/ p \in running /\ running' = running \ {p}
                    \/ p \notin running /\ running' = running \cup {p})
             /\ serves' = (IF serves \in running' THEN serves ELSE Nowhere)
             /\ UNCHANGED home
    BY <2>1 DEF DiscoveryTypeInv
  <2>2. CASE /\ home' \in SUBSET Places \ {home}
             /\ serves' = (IF serves \in home' THEN serves ELSE Nowhere)
             /\ UNCHANGED running
    BY <2>2 DEF DiscoveryTypeInv
  <2>3. CASE serves' \in ((home \cap running) \cup {Nowhere}) \ {serves}
             /\ UNCHANGED <<running, home>>
    BY <2>3 DEF DiscoveryTypeInv
  <2> QED BY <2>1, <2>2, <2>3 DEF MachineChanges
<1>3. DiscoveryTypeInv'
  BY <1>1, <1>2 DEF DiscoveryTypeInv
<1>4. SinceInv'
  BY <1>1, <1>3 DEF DiscoveryTypeInv, SinceInv
<1>5. AgesInv'
  BY <1>1 DEF AgesInv, GoodFor, LongAgo
<1> QED BY <1>3, <1>4, <1>5

LEMMA TimePassesInv == DiscoveryInv /\ TimePasses => DiscoveryInv'
<1> SUFFICES ASSUME DiscoveryInv, TimePasses PROVE DiscoveryInv'
  OBVIOUS
<1> USE DEF DiscoveryInv
<1>1. /\ known.age \in Nat /\ cached_for \in Nat /\ steady \in Nat
      /\ known = [place |-> known.place, units |-> known.units, age |-> known.age]
  BY DEF DiscoveryTypeInv
<1>2. /\ agent' = agent /\ running' = running /\ home' = home /\ serves' = serves
      /\ llm_ct' = llm_ct /\ cached_for < RefreshWithin /\ cached_for' = cached_for + 1
      /\ steady' = Older(steady) /\ known' = [known EXCEPT !.age = Older(known.age)]
  BY DEF TimePasses, worldVars
<1>3. /\ known' = [place |-> known'.place, units |-> known'.units, age |-> known'.age]
      /\ known'.place = known.place /\ known'.units = known.units
      /\ known'.age = Older(known.age)
  BY <1>1, <1>2
<1>4. DiscoveryTypeInv'
  BY <1>1, <1>2, <1>3, OlderBounds, DiscoveryAssumption DEF DiscoveryTypeInv, Places
<1>5. SinceInv'
  <2>1. known'.age < steady' => known.age < steady
    BY <1>1, <1>2, <1>3, OlderBounds
  <2>2. cached_for' < steady' => cached_for < steady
    BY <1>1, <1>2, OlderBounds
  <2>3. Found' = Found /\ Answer' = Answer
    BY <1>2, <1>3 DEF Found, Answer, First, Probed, Ranked, CollectDocker, ListsUnits
  <2> QED BY <1>2, <1>3, <2>1, <2>2, <2>3 DEF SinceInv
<1>6. AgesInv'
  <2>1. known.age < GoodFor + cached_for
    BY <1>2, <1>1, DiscoveryAssumption DEF AgesInv
  <2>2. GoodFor' = GoodFor /\ GoodFor \in Nat
    BY <1>3, DiscoveryAssumption DEF GoodFor
  <2>3. known'.age <= known.age + 1 /\ known'.age \in Nat
    BY <1>1, <1>3, OlderBounds
  <2> QED BY <1>1, <1>2, <2>1, <2>2, <2>3 DEF AgesInv
<1> QED BY <1>4, <1>5, <1>6

LEMMA RefreshGuestsInv == DiscoveryInv /\ RefreshGuests => DiscoveryInv'
<1> SUFFICES ASSUME DiscoveryInv, RefreshGuests PROVE DiscoveryInv'
  OBVIOUS
<1> USE DEF DiscoveryInv
<1>1. /\ known.age \in Nat /\ cached_for \in Nat /\ steady \in Nat
      /\ known = [place |-> known.place, units |-> known.units, age |-> known.age]
      /\ running \subseteq Places
  BY DEF DiscoveryTypeInv
<1>2. /\ agent' = agent /\ running' = running /\ home' = home /\ serves' = serves
      /\ cached_for' = 0 /\ Places' = Places
  BY DEF RefreshGuests, worldVars, Places
<1>3. PICK deaf \in SUBSET Places, mute \in SUBSET Places, ran \in {running, {}} :
          /\ \/ /\ agent.runtime = "proxmox-lxc"
                /\ known' = FindInferenceCT(ran, deaf)
                /\ llm_ct' = Probed(known'.place, known'.units, mute)
             \/ /\ agent.runtime = "auto" /\ ran = running
                /\ known' = UnitNames(deaf)
                /\ llm_ct' = Ranked(CollectDocker(deaf, mute),
                                    Probed(known'.place, known'.units, mute))
          /\ steady' = (IF deaf \cup mute = {} /\ ran = running THEN steady ELSE 0)
  BY DEF RefreshGuests
<1>4. \/ known' = known /\ known.age < GoodFor
      \/ known'.age = 0 /\ known' = [place |-> known'.place, units |-> known'.units, age |-> 0]
  BY <1>3 DEF FindInferenceCT, UnitNames, StillKnown, GoodFor
<1>5. DiscoveryTypeInv'
  BY <1>1, <1>2, <1>3, <1>4, DiscoveryAssumption DEF DiscoveryTypeInv
<1>6. AgesInv'
  <2>1. GoodFor' \in Nat \ {0}
    BY DiscoveryAssumption DEF GoodFor
  <2>2. CASE known' = known /\ known.age < GoodFor
    BY <1>1, <1>2, <2>1, <2>2 DEF AgesInv, GoodFor
  <2>3. CASE known'.age = 0
    <3>1. PICK g \in Nat \ {0} : g = GoodFor'
      BY <2>1
    <3>2. 0 < g + 0
      OBVIOUS
    <3> QED BY <1>2, <2>3, <3>1, <3>2 DEF AgesInv
  <2> QED BY <1>4, <2>2, <2>3
<1>7. SinceInv'
  <2>0. known'.age \in Nat /\ cached_for' = 0
    BY <1>2, <1>5 DEF DiscoveryTypeInv
  <2>1. SUFFICES ASSUME steady' # 0 PROVE SinceInv'
    BY <2>0 DEF SinceInv
  <2>2. deaf = {} /\ mute = {} /\ ran = running /\ steady' = steady
    BY <1>3, <2>1
  <2>3. Found' = Found
    BY <1>2 DEF Found, First
  <2>4. \/ known' = known /\ known.place \in running \cup {Nowhere}
        \/ known'.place = Found /\ known'.units = (Found \in home \cap running)
    <3>1. CASE agent.runtime = "proxmox-lxc"
      <4>1. {p \in running : ListsUnits(p, {})} = home \cap running
        BY DEF ListsUnits
      <4>2. known' = FindInferenceCT(running, {})
        BY <1>3, <2>2, <3>1
      <4>3. CASE StillKnown(running)
        BY <4>2, <4>3 DEF FindInferenceCT, StillKnown
      <4>4. CASE ~StillKnown(running)
        <5>1. known' = [place |-> Found, units |-> ListsUnits(Found, {}), age |-> 0]
          BY <3>1, <4>1, <4>2, <4>4 DEF FindInferenceCT, Found
        <5>2. ListsUnits(Found, {}) = (Found \in home \cap running)
          BY DEF ListsUnits
        <5> QED BY <5>1, <5>2
      <4> QED BY <4>3, <4>4
    <3>2. CASE agent.runtime = "auto"
      <4>1. known' = UnitNames({})
        BY <1>3, <2>2, <3>2
      <4>2. "systemd" \in running /\ Nowhere \notin home \cap running
        <5>1. Places = {"docker", "systemd"}
          BY <3>2, DiscoveryAssumption DEF DiscoveryTypeInv, Places, ToSet
        <5>2. Nowhere \notin Places
          BY DiscoveryAssumption DEF DiscoveryTypeInv, Places
        <5> QED BY <3>2, <5>1, <5>2 DEF DiscoveryTypeInv
      <4>3. CASE StillKnown({"systemd"})
        BY <4>1, <4>2, <4>3 DEF UnitNames, StillKnown
      <4>4. CASE ~StillKnown({"systemd"})
        <5>1. ListsUnits("systemd", {}) = ("systemd" \in home \cap running)
          BY DEF ListsUnits
        <5>2. known' = [place |-> IF "systemd" \in home \cap running THEN "systemd" ELSE Nowhere,
                        units |-> "systemd" \in home \cap running, age |-> 0]
          BY <4>1, <4>4, <5>1 DEF UnitNames
        <5>3. Found = IF "systemd" \in home \cap running THEN "systemd" ELSE Nowhere
          BY <3>2 DEF Found
        <5>4. ("systemd" \in home \cap running) = (Found \in home \cap running)
          BY <4>2, <5>3
        <5> QED BY <5>2, <5>3, <5>4
      <4> QED BY <4>3, <4>4
    <3> QED BY <1>3, <3>1, <3>2
  <2>5. known'.age < steady' =>
            known'.place = Found /\ known'.units = (Found \in home \cap running)
    BY <2>2, <2>4 DEF SinceInv
  <2>6. llm_ct' = Answer'
    BY <1>2, <1>3, <2>2 DEF Answer, Ranked, CollectDocker, Probed, ListsUnits
  <2>7. known'.place \in running \cup {agent.fixed, Nowhere}
    <3>1. Found \in running \cup {agent.fixed, Nowhere}
      BY FirstIsOne DEF Found
    <3> QED BY <2>4, <3>1
  <2> QED BY <1>2, <2>3, <2>5, <2>6, <2>7 DEF SinceInv
<1> QED BY <1>5, <1>6, <1>7

(* A right discovery and a full answer are what an agent that looked now   *)
(* would have.                                                             *)
LEMMA RightAnswer ==
    ASSUME DiscoveryTypeInv,
           known.place = Found, known.units = (Found \in home \cap running)
    PROVE  Answer = [vmid |-> Serving,
                     units |-> Serving \in home \cap running,
                     endpoint |-> IF serves = Serving THEN serves ELSE Nowhere]
<1>1. Nowhere \notin home \cap running /\ serves \in (home \cap running) \cup {Nowhere}
  BY DiscoveryAssumption DEF DiscoveryTypeInv, Places
<1>2. PICK lists \in BOOLEAN : lists = (Found \in home \cap running)
  <2>1. CASE Found \in home \cap running
    <3>1. TRUE \in BOOLEAN /\ TRUE = (Found \in home \cap running)
      BY <2>1
    <3> QED BY <3>1
  <2>2. CASE Found \notin home \cap running
    <3>1. FALSE \in BOOLEAN /\ FALSE = (Found \in home \cap running)
      BY <2>2
    <3> QED BY <3>1
  <2> QED BY <2>1, <2>2
<1>3. Probed(known.place, known.units, {}) =
          [vmid |-> Found, units |-> lists,
           endpoint |-> IF lists /\ serves = Found THEN serves ELSE Nowhere]
  <2>1. known.place = Found /\ known.units = lists
    BY <1>2
  <2>2. CASE lists = TRUE
    <3>1. (known.units /\ known.place \in running \ {}) = TRUE
      BY <1>2, <2>1, <2>2
    <3> QED BY <2>1, <2>2, <3>1 DEF Probed
  <2>3. CASE lists = FALSE
    <3>1. (known.units /\ known.place \in running \ {}) = FALSE
      BY <2>1, <2>3
    <3> QED BY <2>1, <2>3, <3>1 DEF Probed
  <2> QED BY <2>2, <2>3
<1>4. CASE agent.runtime # "auto"
  <2>1. Serving = Found
    BY <1>4 DEF Serving, Found
  <2>2. (IF lists /\ serves = Found THEN serves ELSE Nowhere)
            = (IF serves = Found THEN serves ELSE Nowhere)
    BY <1>1, <1>2
  <2>3. Answer = Probed(known.place, known.units, {})
    BY <1>4 DEF Answer
  <2> QED BY <1>2, <1>3, <2>1, <2>2, <2>3
<1>5. CASE agent.runtime = "auto"
  <2>1. /\ agent.places = <<"docker", "systemd">> /\ agent.fixed = Nowhere
        /\ running = {"docker", "systemd"} /\ home \subseteq {"docker", "systemd"}
        /\ Nowhere \notin {"docker", "systemd"}
    <3>1. agent.places = <<"docker", "systemd">> /\ agent.fixed = Nowhere
      BY <1>5, DiscoveryAssumption DEF DiscoveryTypeInv
    <3>2. Places = {"docker", "systemd"}
      BY <3>1 DEF Places, ToSet
    <3>3. Nowhere \notin Places
      BY DiscoveryAssumption DEF DiscoveryTypeInv, Places
    <3> QED BY <1>5, <3>1, <3>2, <3>3 DEF DiscoveryTypeInv
  <2>2. home \cap running = home
    BY <2>1
  <2>3. Found = IF "systemd" \in home THEN "systemd" ELSE Nowhere
    BY <1>5, <2>2 DEF Found
  <2>4. lists = ("systemd" \in home)
    BY <1>2, <2>1, <2>2, <2>3
  <2>5. CollectDocker({}, {}) =
            IF "docker" \in home
            THEN [vmid |-> "docker", units |-> TRUE,
                  endpoint |-> IF serves = "docker" THEN serves ELSE Nowhere]
            ELSE [vmid |-> Nowhere, units |-> FALSE, endpoint |-> Nowhere]
    BY <2>1 DEF CollectDocker, ListsUnits, Probed, NoTargetFound
  <2>6. First(home) = IF "docker" \in home THEN "docker"
                      ELSE IF "systemd" \in home THEN "systemd" ELSE Nowhere
    <3>1. PICK firsts : firsts = {i \in DOMAIN agent.places :
                                     /\ agent.places[i] \in home
                                     /\ \A j \in 1 .. i - 1 : agent.places[j] \notin home}
      OBVIOUS
    <3>2. First(home) = IF firsts = {} THEN Nowhere
                        ELSE agent.places[CHOOSE i \in firsts : TRUE]
      BY <3>1 DEF First
    <3>3. /\ DOMAIN agent.places = {1, 2}
          /\ agent.places[1] = "docker" /\ agent.places[2] = "systemd"
          /\ 1 .. 1 - 1 = {} /\ 1 .. 2 - 1 = {1}
      BY <2>1
    <3>4. CASE "docker" \in home
      <4>1. firsts = {1}
        BY <3>1, <3>3, <3>4
      <4> QED BY <3>2, <3>3, <3>4, <4>1
    <3>5. CASE "docker" \notin home /\ "systemd" \in home
      <4>1. firsts = {2}
        BY <3>1, <3>3, <3>5
      <4> QED BY <3>2, <3>3, <3>5, <4>1
    <3>6. CASE "docker" \notin home /\ "systemd" \notin home
      <4>1. firsts = {}
        BY <3>1, <3>3, <3>6
      <4> QED BY <3>2, <3>6, <4>1
    <3> QED BY <3>4, <3>5, <3>6
  <2>7. Serving = IF serves # Nowhere THEN serves ELSE First(home)
    BY <1>5, <2>1, <2>2 DEF Serving
  <2>8. PICK docker, systemd :
            /\ docker = CollectDocker({}, {})
            /\ systemd = [vmid |-> Found, units |-> lists,
                          endpoint |-> IF lists /\ serves = Found THEN serves ELSE Nowhere]
    OBVIOUS
  <2>9. Answer = Ranked(docker, systemd)
    BY <1>3, <1>5, <2>8 DEF Answer
  <2>10. serves \in home \cup {Nowhere} /\ Nowhere \notin home
    BY <1>1, <2>2
  <2>11. "docker" \in home =>
            docker = [vmid |-> "docker", units |-> TRUE,
                      endpoint |-> IF serves = "docker" THEN serves ELSE Nowhere]
    BY <2>5, <2>8
  <2>12. "docker" \notin home =>
            docker = [vmid |-> Nowhere, units |-> FALSE, endpoint |-> Nowhere]
    BY <2>5, <2>8
  <2>13. "systemd" \in home =>
            systemd = [vmid |-> "systemd", units |-> TRUE,
                       endpoint |-> IF serves = "systemd" THEN serves ELSE Nowhere]
    BY <2>3, <2>4, <2>8
  <2>14. "systemd" \notin home =>
            systemd = [vmid |-> Nowhere, units |-> FALSE, endpoint |-> Nowhere]
    BY <2>3, <2>4, <2>8
  <2>15. CASE serves = "docker"
    <3>1. docker.endpoint = "docker" /\ docker = [vmid |-> "docker", units |-> TRUE,
                                                  endpoint |-> "docker"]
      BY <2>1, <2>10, <2>11, <2>15
    <3>2. Answer = docker
      BY <2>1, <2>9, <3>1 DEF Ranked
    <3>3. Serving = "docker" /\ (Serving \in home \cap running) = TRUE
      BY <2>1, <2>2, <2>7, <2>10, <2>15
    <3> QED BY <2>15, <3>1, <3>2, <3>3
  <2>16. CASE serves = "systemd"
    <3>1. systemd = [vmid |-> "systemd", units |-> TRUE, endpoint |-> "systemd"]
          /\ systemd.endpoint = "systemd"
      BY <2>1, <2>10, <2>13, <2>16
    <3>2. docker.endpoint = Nowhere
      BY <2>11, <2>12, <2>16
    <3>3. Answer = systemd
      BY <2>1, <2>9, <3>1, <3>2 DEF Ranked
    <3>4. Serving = "systemd" /\ (Serving \in home \cap running) = TRUE
      BY <2>1, <2>2, <2>7, <2>10, <2>16
    <3> QED BY <2>16, <3>1, <3>3, <3>4
  <2>17. CASE serves = Nowhere
    <3>1. docker.endpoint = Nowhere /\ systemd.endpoint = Nowhere
      BY <2>11, <2>12, <2>13, <2>14, <2>17
    <3>2. Answer = IF systemd.units /\ ~docker.units THEN systemd ELSE docker
      BY <2>9, <3>1 DEF Ranked
    <3>3. Serving = First(home)
      BY <2>7, <2>17
    <3>4. CASE "docker" \in home
      <4>1. Answer = [vmid |-> "docker", units |-> TRUE, endpoint |-> Nowhere]
        BY <2>1, <2>11, <2>17, <3>2, <3>4
      <4>2. Serving = "docker" /\ (Serving \in home \cap running) = TRUE
        BY <2>2, <2>6, <3>3, <3>4
      <4> QED BY <2>17, <4>1, <4>2
    <3>5. CASE "docker" \notin home /\ "systemd" \in home
      <4>1. Answer = [vmid |-> "systemd", units |-> TRUE, endpoint |-> Nowhere]
        BY <2>1, <2>12, <2>13, <2>17, <3>2, <3>5
      <4>2. Serving = "systemd" /\ (Serving \in home \cap running) = TRUE
        BY <2>2, <2>6, <3>3, <3>5
      <4> QED BY <2>17, <4>1, <4>2
    <3>6. CASE "docker" \notin home /\ "systemd" \notin home
      <4>1. Answer = [vmid |-> Nowhere, units |-> FALSE, endpoint |-> Nowhere]
        BY <2>12, <2>14, <3>2, <3>6
      <4>2. Serving = Nowhere /\ (Serving \in home \cap running) = FALSE
        BY <2>2, <2>6, <2>10, <3>3, <3>6
      <4> QED BY <2>17, <4>1, <4>2
    <3> QED BY <3>4, <3>5, <3>6
  <2> QED BY <2>1, <2>10, <2>15, <2>16, <2>17
<1> QED BY <1>4, <1>5

(* Whatever it found, it is where the agent can look.                      *)
LEMMA AnswerIsSomewhere ==
    ASSUME DiscoveryTypeInv, known.place \in running \cup {agent.fixed, Nowhere}
    PROVE  Answer.vmid \in running \cup {agent.fixed, Nowhere}
<1>1. Probed(known.place, known.units, {}).vmid = known.place
  BY DEF Probed
<1>2. CASE agent.runtime # "auto"
  BY <1>1, <1>2 DEF Answer
<1>3. CASE agent.runtime = "auto"
  <2>1. "docker" \in running
    <3>1. agent.places = <<"docker", "systemd">>
      BY <1>3, DiscoveryAssumption DEF DiscoveryTypeInv
    <3>2. "docker" \in Places
      BY <3>1 DEF Places, ToSet
    <3> QED BY <1>3, <3>2 DEF DiscoveryTypeInv
  <2>2. CollectDocker({}, {}).vmid \in {"docker", Nowhere}
    BY DEF CollectDocker, Probed, NoTargetFound
  <2>3. Answer \in {CollectDocker({}, {}), Probed(known.place, known.units, {})}
    BY <1>3 DEF Answer, Ranked
  <2> QED BY <1>1, <2>1, <2>2, <2>3
<1> QED BY <1>2, <1>3

(* proxmox_lxc.py: the target is the right one in the end, however often   *)
(* commands failed and containers came and went before.                    *)
THEOREM TargetIsFound == DiscoverySpec => []FoundInTime
<1>1. DiscoveryInv /\ [DiscoveryNext]_discoveryVars => DiscoveryInv'
  <2>1. DiscoveryInv /\ UNCHANGED discoveryVars => DiscoveryInv'
    <3> SUFFICES ASSUME DiscoveryInv, UNCHANGED discoveryVars PROVE DiscoveryInv'
      OBVIOUS
    <3>1. /\ agent' = agent /\ running' = running /\ home' = home /\ serves' = serves
          /\ known' = known /\ llm_ct' = llm_ct /\ cached_for' = cached_for /\ steady' = steady
      BY DEF discoveryVars, worldVars
    <3>2. DiscoveryTypeInv'
      BY <3>1 DEF DiscoveryInv, DiscoveryTypeInv, Places
    <3>3. Found' = Found /\ Answer' = Answer /\ GoodFor' = GoodFor
      BY <3>1 DEF Found, Answer, GoodFor, First, Probed, Ranked, CollectDocker, ListsUnits
    <3>4. SinceInv' /\ AgesInv'
      BY <3>1, <3>3 DEF DiscoveryInv, SinceInv, AgesInv
    <3> QED BY <3>2, <3>4 DEF DiscoveryInv
  <2> QED BY <2>1, MachineChangesInv, TimePassesInv, RefreshGuestsInv DEF DiscoveryNext
<1>2. DiscoveryInv => FoundInTime
  <2> SUFFICES ASSUME DiscoveryInv PROVE FoundInTime
    OBVIOUS
  <2> USE DEF DiscoveryInv
  <2>1. /\ known.age \in Nat /\ cached_for \in Nat /\ steady \in Nat
        /\ cached_for <= RefreshWithin
        /\ {DiscoveryTTL, DiscoveryRetry, RefreshWithin} \subseteq Nat \ {0}
        /\ DiscoveryRetry <= DiscoveryTTL
    BY DiscoveryAssumption DEF DiscoveryTypeInv
  <2>2. ASSUME known.age < steady, cached_for < steady
        PROVE  llm_ct = [vmid |-> Serving,
                         units |-> Serving \in home \cap running,
                         endpoint |-> IF serves = Serving THEN serves ELSE Nowhere]
    <3>1. /\ known.place = Found /\ known.units = (Found \in home \cap running)
          /\ llm_ct = Answer
      BY <2>2 DEF SinceInv
    <3> QED BY <3>1, RightAnswer
  <2>3. ASSUME steady > RefreshWithin PROVE cached_for < steady
    BY <2>1, <2>3
  <2>4. ASSUME steady > DiscoveryTTL + RefreshWithin
        PROVE  known.age < steady /\ cached_for < steady
    BY <2>1, <2>4 DEF AgesInv, GoodFor
  <2>5. ASSUME steady > DiscoveryRetry + RefreshWithin, known.place = Nowhere
        PROVE  known.age < steady /\ cached_for < steady
    BY <2>1, <2>5 DEF AgesInv, GoodFor
  <2>6. ASSUME steady > RefreshWithin PROVE llm_ct.vmid \in running \cup {agent.fixed, Nowhere}
    BY <2>3, <2>6, AnswerIsSomewhere DEF SinceInv
  <2>7. ASSUME steady > DiscoveryRetry + RefreshWithin, known.place = Nowhere
        PROVE  llm_ct.vmid = Serving
    BY <2>2, <2>5, <2>7
  <2> QED BY <2>2, <2>4, <2>6, <2>7 DEF FoundInTime
<1> QED BY <1>1, <1>2, DiscoveryInitInv, PTL DEF DiscoverySpec

-----------------------------------------------------------------------------
(* The follower (JournalFollower): the tail, the lock and the load record.  *)

(* A pipe is a sequence of lines no longer than MaxPipe. *)
LEMMA PipeIsSeq == \A s : s \in Pipes <=> s \in Seq(Lines) /\ Len(s) <= MaxPipe
<1>1. ASSUME NEW s \in Pipes PROVE s \in Seq(Lines) /\ Len(s) <= MaxPipe
  <2>1. PICK n \in 0 .. MaxPipe : s \in [1 .. n -> Lines] BY DEF Pipes
  <2> QED BY <2>1, FollowerAssumption
<1>2. ASSUME NEW s \in Seq(Lines), Len(s) <= MaxPipe PROVE s \in Pipes
  <2>1. Len(s) \in 0 .. MaxPipe BY <1>2, FollowerAssumption
  <2>2. s \in [1 .. Len(s) -> Lines] OBVIOUS
  <2> QED BY <2>1, <2>2 DEF Pipes
<1> QED BY <1>1, <1>2

(* Lines enter and leave it one at a time. *)
LEMMA PipeAppend ==
    ASSUME NEW s \in Pipes, Len(s) < MaxPipe, NEW line \in Lines
    PROVE  Append(s, line) \in Pipes
<1>1. s \in Seq(Lines) BY PipeIsSeq
<1>2. Append(s, line) \in Seq(Lines) /\ Len(Append(s, line)) = Len(s) + 1 BY <1>1
<1>3. Len(s) + 1 <= MaxPipe BY <1>1, FollowerAssumption
<1> QED BY <1>2, <1>3, PipeIsSeq

LEMMA PipeTail ==
    ASSUME NEW s \in Pipes, s # <<>>
    PROVE  Head(s) \in Lines /\ Tail(s) \in Pipes
<1>1. s \in Seq(Lines) /\ Len(s) <= MaxPipe BY PipeIsSeq
<1>2. Head(s) \in Lines /\ Tail(s) \in Seq(Lines) /\ Len(Tail(s)) = Len(s) - 1
  BY <1>1
<1>3. Len(Tail(s)) <= MaxPipe BY <1>1, <1>2, FollowerAssumption
<1> QED BY <1>2, <1>3, PipeIsSeq

LEMMA FollowerInitTypeOK == Init => TypeOK
<1> SUFFICES ASSUME Init PROVE TypeOK
  OBVIOUS
<1> USE DEF Init
<1>1. reader \in [pc : {"look", "spawn", "attach", "read", "end"},
                  saw : Targets \cup {NoTarget}]
  OBVIOUS
<1>2. watchdog \in [pc : {"idle", "looked", "stopping"}, saw : Targets \cup {NoTarget}]
  OBVIOUS
<1>3. load \in [state : {"none", "loading", "loaded"}, of : Targets \cup {NoTarget}]
  BY DEF FreshLoad
<1>4. locked \in BOOLEAN /\ ~locked /\ attached \in BOOLEAN
  OBVIOUS
<1>5. reader.pc = "look" /\ watchdog.pc = "idle"
  OBVIOUS
<1> QED BY <1>1, <1>2, <1>3, <1>4, <1>5 DEF TypeOK

(* A stream is a record that differs from None, also after a line came or  *)
(* went or its writers were ended.                                         *)
LEMMA StreamAfter ==
    ASSUME NEW s \in Streams, NEW p \in Pipes
    PROVE  /\ s # NoStream /\ s.of \in Targets /\ s.pipe \in Pipes /\ s.open \in BOOLEAN
           /\ [s EXCEPT !.pipe = p] \in Streams /\ [s EXCEPT !.pipe = p].of = s.of
           /\ [s EXCEPT !.open = FALSE] \in Streams /\ [s EXCEPT !.open = FALSE].of = s.of
BY FollowerAssumption DEF Streams

(* Where the reader holds a tail, and the lock's holder. *)
LEMMA FollowerTypeOKStep == TypeOK /\ [Next]_vars => TypeOK'
<1> SUFFICES ASSUME TypeOK, [Next]_vars PROVE TypeOK'
  OBVIOUS
<1> USE DEF TypeOK
<1>1. ASSUME NEW t \in Targets \cup {NoTarget}, Refresh(t) PROVE TypeOK'
  BY <1>1 DEF Refresh
<1>2. ASSUME NEW line \in Lines, Write(line) PROVE TypeOK'
  <2>1. stream \in Streams BY <1>2 DEF Write
  <2>2. Append(stream.pipe, line) \in Pipes
    BY <1>2, <2>1, PipeAppend DEF Write, Streams
  <2>3. stream' \in Streams /\ stream' # NoStream
    BY <1>2, <2>1, <2>2, StreamAfter DEF Write
  <2> QED BY <1>2, <2>1, <2>3, StreamAfter DEF Write
<1>3. CASE TailDies
  <2>1. stream \in Streams /\ stream # NoStream BY <1>3 DEF TailDies
  <2>2. stream' \in Streams /\ stream' # NoStream
    BY <1>3, <2>1, FollowerAssumption DEF TailDies, Streams
  <2> QED BY <1>3, <2>1, <2>2 DEF TailDies
<1>4. CASE Look
  BY <1>4 DEF Look
<1>5. CASE Spawn
  <2>0. reader.saw \in Targets BY <1>5 DEF Spawn
  <2>1. stream' \in Streams BY <1>5, <2>0 DEF Spawn, Streams
  <2>3. stream' # NoStream BY <2>1, FollowerAssumption
  <2>2. load' \in [state : {"none", "loading", "loaded"}, of : Targets \cup {NoTarget}]
    BY <1>5 DEF Spawn, ResetLoad, FreshLoad
  <2> QED BY <1>5, <2>1, <2>2, <2>3 DEF Spawn
<1>6. CASE SpawnFails
  <2>1. load' \in [state : {"none", "loading", "loaded"}, of : Targets \cup {NoTarget}]
    BY <1>6 DEF SpawnFails, ResetLoad, FreshLoad
  <2> QED BY <1>6, <2>1 DEF SpawnFails
<1>7. CASE Attach
  BY <1>7 DEF Attach
<1>8. CASE ReadLine
  <2>1. stream \in Streams BY <1>8 DEF ReadLine
  <2>2. Head(stream.pipe) \in Lines /\ Tail(stream.pipe) \in Pipes
    BY <1>8, <2>1, PipeTail DEF ReadLine, Streams
  <2>3. stream' \in Streams /\ stream' # NoStream
    BY <1>8, <2>1, <2>2, StreamAfter DEF ReadLine
  <2>4. load' \in [state : {"none", "loading", "loaded"}, of : Targets \cup {NoTarget}]
    BY <1>8, <2>1, <2>2 DEF ReadLine, Ingest, Lines, Streams
  <2> QED BY <1>8, <2>1, <2>3, <2>4 DEF ReadLine
<1>9. CASE ReadRaises
  <2>1. stream \in Streams BY <1>9 DEF ReadRaises
  <2>2. Tail(stream.pipe) \in Pipes
    BY <1>9, <2>1, PipeTail DEF ReadRaises, Streams
  <2>3. stream' \in Streams /\ stream' # NoStream
    BY <1>9, <2>1, <2>2, StreamAfter DEF ReadRaises
  <2> QED BY <1>9, <2>1, <2>3 DEF ReadRaises
<1>10. CASE ReadEof
  BY <1>10 DEF ReadEof
<1>11. CASE End
  BY <1>11 DEF End
<1>12. CASE WatchLook
  BY <1>12 DEF WatchLook
<1>13. CASE WatchLock
  BY <1>13 DEF WatchLock, Switched
<1>14. CASE WatchStop
  <2>1. stream' \in Streams \cup {NoStream} /\ (stream' = NoStream <=> stream = NoStream)
    BY <1>14, FollowerAssumption DEF WatchStop, Streams
  <2> QED BY <1>14, <2>1 DEF WatchStop
<1>15. CASE UNCHANGED vars
  BY <1>15 DEF vars
<1> QED
  BY <1>1, <1>2, <1>3, <1>4, <1>5, <1>6, <1>7, <1>8, <1>9, <1>10, <1>11, <1>12,
     <1>13, <1>14, <1>15 DEF Next, Run, WatchTarget, World

(* The follower's state is of its type: in particular the reader is at a   *)
(* tail whenever run() uses self.stream, although the watchdog, discovery  *)
(* and the tail's own death go on around it.                               *)
THEOREM FollowerTypeOK == Spec => []TypeOK
<1>1. Init => TypeOK BY FollowerInitTypeOK
<1>2. TypeOK /\ [Next]_vars => TypeOK' BY FollowerTypeOKStep
<1> QED BY <1>1, <1>2, PTL DEF Spec

(* The tail that is read is always the target's: _spawn is the only writer *)
(* of either, under the lock.                                              *)
StreamIsOfTarget == stream # NoStream => stream.of = target

LoadInv == TypeOK /\ StreamIsOfTarget /\ LoadIsOfTarget

LEMMA LoadInvStep == LoadInv /\ [Next]_vars => LoadInv'
<1> SUFFICES ASSUME LoadInv, [Next]_vars PROVE StreamIsOfTarget' /\ LoadIsOfTarget'
  BY FollowerTypeOKStep DEF LoadInv
<1> USE DEF LoadInv, StreamIsOfTarget, LoadIsOfTarget
<1>1. ASSUME NEW t \in Targets \cup {NoTarget}, Refresh(t)
      PROVE  StreamIsOfTarget' /\ LoadIsOfTarget'
  BY <1>1 DEF Refresh
<1>2. ASSUME NEW line \in Lines, Write(line) PROVE StreamIsOfTarget' /\ LoadIsOfTarget'
  <2>1. stream \in Streams BY <1>2 DEF Write, TypeOK
  <2>2. stream'.of = stream.of BY <1>2, <2>1 DEF Write, Streams
  <2> QED BY <1>2, <2>2 DEF Write
<1>3. CASE TailDies
  <2>1. stream \in Streams BY <1>3 DEF TailDies, TypeOK
  <2>2. stream'.of = stream.of BY <1>3, <2>1 DEF TailDies, Streams
  <2> QED BY <1>3, <2>2 DEF TailDies
<1>4. CASE Look
  BY <1>4 DEF Look
<1>5. CASE Spawn
  BY <1>5 DEF Spawn, ResetLoad, FreshLoad
<1>6. CASE SpawnFails
  BY <1>6 DEF SpawnFails, ResetLoad, FreshLoad
<1>7. CASE Attach
  BY <1>7 DEF Attach
<1>8. CASE ReadLine
  <2>1. stream \in Streams /\ stream # NoStream BY <1>8 DEF ReadLine, TypeOK
  <2>2. stream'.of = stream.of BY <1>8, <2>1 DEF ReadLine, Streams
  <2>3. load' = load \/ load'.of = stream.of BY <1>8 DEF ReadLine, Ingest
  <2> QED BY <1>8, <2>1, <2>2, <2>3 DEF ReadLine
<1>9. CASE ReadRaises
  <2>1. stream \in Streams /\ stream # NoStream BY <1>9 DEF ReadRaises, TypeOK
  <2>2. stream'.of = stream.of BY <1>9, <2>1 DEF ReadRaises, Streams
  <2> QED BY <1>9, <2>1, <2>2 DEF ReadRaises
<1>10. CASE ReadEof
  BY <1>10 DEF ReadEof
<1>11. CASE End
  BY <1>11 DEF End
<1>12. CASE WatchLook
  BY <1>12 DEF WatchLook
<1>13. CASE WatchLock
  BY <1>13 DEF WatchLock
<1>14. CASE WatchStop
  <2>1. stream # NoStream => stream'.of = stream.of
    BY <1>14 DEF WatchStop, TypeOK, Streams
  <2>2. stream = NoStream => stream' = NoStream
    BY <1>14 DEF WatchStop
  <2> QED BY <1>14, <2>1, <2>2 DEF WatchStop
<1>15. CASE UNCHANGED vars
  BY <1>15 DEF vars
<1> QED
  BY <1>1, <1>2, <1>3, <1>4, <1>5, <1>6, <1>7, <1>8, <1>9, <1>10, <1>11, <1>12,
     <1>13, <1>14, <1>15 DEF Next, Run, WatchTarget, World

(* The load record the agent reports, which holds the reachability alerts  *)
(* back while it says "loading", is never of another unit than the one it  *)
(* reports as followed, however tails fail, die or are ended.              *)
THEOREM LoadRecordIsOfTarget == Spec => []LoadIsOfTarget
<1>1. Init => LoadInv
  BY FollowerInitTypeOK DEF Init, LoadInv, StreamIsOfTarget, LoadIsOfTarget, FreshLoad
<1>2. LoadInv /\ [Next]_vars => LoadInv' BY LoadInvStep
<1>3. LoadInv => LoadIsOfTarget BY DEF LoadInv
<1> QED BY <1>1, <1>2, <1>3, PTL DEF Spec

==============================================================================
