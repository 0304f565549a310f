------------------------------ MODULE Telemetry ------------------------------
(***************************************************************************)
(* What a poll makes of counters: rates and counts are differences to the  *)
(* readings that an earlier poll left behind (derive.py, and the prev_     *)
(* fields of monitor.Monitor).  llama.cpp and the agent answer or do not,  *)
(* each poll anew, and each may restart with its counters at zero; a       *)
(* restarted agent counts again what the log's tail still holds.           *)
(***************************************************************************)
EXTENDS Clock, Integers

CONSTANTS
    Nothing,      \* no reading
    Replayable,   \* signals in the log's tail that a restarted agent may replay
    MaxEvents     \* bound of the model: what happens on the two hosts

ASSUME TelemetryAssumption == {Replayable, MaxEvents} \subseteq Nat /\ Nothing \notin Int

VARIABLES
    host,    \* sectors read, the agent's count, llama.cpp's count: the truth
    prev,    \* prev_metrics, prev_ts, prev_disk, prev_counters
    point,   \* what the latest poll made of its readings
    book     \* history: what was read when, and what it was made of

telemetryVars == <<now, host, prev, point, book>>

Happened == host.events

-----------------------------------------------------------------------------
(* counter_rates, gen_tokens: what was generated since prev_metrics.  A    *)
(* total that fell is a restarted server, with nothing to difference to.   *)
GenTokensAcrossRestart(metrics) ==
    IF metrics = Nothing \/ prev.metrics = Nothing THEN 0 ELSE metrics - prev.metrics

GenTokens(metrics) ==
    IF metrics = Nothing \/ prev.metrics = Nothing \/ metrics < prev.metrics THEN 0
    ELSE metrics - prev.metrics

(* poll_once, dt: since the last poll that had metrics. *)
Dt(t) == IF prev.ts = Nothing THEN Nothing ELSE t - prev.ts

(* disk_rates, as sectors and the time they are divided by; net_rates is   *)
(* the same of bytes.  A count that fell gives no rate.                    *)
DeviceRate(sectors, dt) ==
    IF sectors = Nothing \/ prev.disk = Nothing \/ dt = Nothing \/ sectors < prev.disk
    THEN Nothing
    ELSE [amount |-> sectors - prev.disk, dt |-> dt]

(* counter_deltas: the first count is no news; a count that fell is all    *)
(* new; with no answer there is none.                                      *)
CounterDelta(count) ==
    IF count = Nothing THEN Nothing
    ELSE IF prev.counters = Nothing THEN 0
    ELSE IF count >= prev.counters THEN count - prev.counters ELSE count

(* _read_llama: the totals of an answer, and what is remembered of them    *)
(* for the next (_publish).                                                *)
ReadLlama(metrics, t) ==
    [gen |-> GenTokens(metrics),
     metrics |-> IF metrics # Nothing THEN metrics ELSE prev.metrics,
     ts |-> IF metrics # Nothing \/ prev.ts = Nothing THEN t ELSE prev.ts]

(* Mutant: a poll without an answer forgets the count. *)
CountersForgotten(count) == count

(* _read_journal: "if counters". *)
Counters(count) == IF count = Nothing THEN prev.counters ELSE count

Sectors(agent) == IF agent THEN host.sectors ELSE Nothing
Count(agent) == IF agent THEN host.count ELSE Nothing

(* What the reading of the agent leaves, whatever becomes of the poll. *)
NotesAgent(agent, t) ==
    [book EXCEPT !.diskAt = IF agent THEN t ELSE Nothing,
                 !.first = IF agent /\ @ = Nothing THEN host.count ELSE @,
                 !.last = IF agent THEN host.count ELSE @]

(* One poll: the agent's answer (its counters and the disk's), then        *)
(* llama.cpp's metrics, each Nothing without an answer.                    *)
ReadAll(t, agent, server) ==
    LET metrics == IF server THEN host.tokens ELSE Nothing
        llama == ReadLlama(metrics, t)
        delta == CounterDelta(Count(agent))
    IN  /\ Reads(t)
        /\ point' = [gen |-> llama.gen, disk |-> DeviceRate(Sectors(agent), Dt(t)),
                     delta |-> delta]
        /\ prev' = [metrics |-> llama.metrics, ts |-> llama.ts, disk |-> Sectors(agent),
                    counters |-> Counters(Count(agent))]
        /\ book' = [NotesAgent(agent, t) EXCEPT
                       !.generated = IF server THEN 0 ELSE @,
                       !.interval = book.generated,
                       !.diskSpan = IF book.diskAt = Nothing THEN Nothing ELSE t - book.diskAt,
                       !.heard = IF agent /\ book.first # Nothing THEN @ + delta ELSE @]
        /\ UNCHANGED host

(* A poll that raises in its judgement, because the store does: what was   *)
(* read of the agent is remembered already, of llama.cpp not yet, and the  *)
(* point is published by nobody.                                           *)
ReadRaises(t, agent) ==
    /\ Reads(t)
    /\ prev' = [prev EXCEPT !.disk = Sectors(agent), !.counters = Counters(Count(agent))]
    /\ book' = [NotesAgent(agent, t) EXCEPT !.raised = TRUE]
    /\ UNCHANGED <<host, point>>

-----------------------------------------------------------------------------
Happens(changed) ==
    /\ Happened < MaxEvents
    /\ host' = [changed EXCEPT !.events = Happened + 1]
    /\ UNCHANGED <<now, prev, point>>

Generate ==
    /\ Happens([host EXCEPT !.tokens = @ + 1])
    /\ book' = [book EXCEPT !.generated = @ + 1]

ServerStarts ==
    /\ Happens([host EXCEPT !.tokens = 0])
    /\ UNCHANGED book

ReadDisk ==
    /\ Happens([host EXCEPT !.sectors = @ + 1])
    /\ UNCHANGED book

LogSignal ==
    /\ Happens([host EXCEPT !.count = @ + 1])
    /\ UNCHANGED book

(* The agent starts again, and so do its counts and the book of this life. *)
AgentStarts ==
    \E replayed \in 0 .. Replayable :
        /\ Happens([host EXCEPT !.count = replayed])
        /\ book' = [book EXCEPT !.first = Nothing, !.last = Nothing, !.heard = 0,
                               !.raised = FALSE]

TelemetryInit ==
    /\ now = 0
    /\ host = [sectors |-> 0, count |-> 0, tokens |-> 0, events |-> 0]
    /\ prev = [metrics |-> Nothing, ts |-> Nothing, disk |-> Nothing, counters |-> Nothing]
    /\ point = [gen |-> 0, disk |-> Nothing, delta |-> Nothing]
    /\ book = [generated |-> 0, interval |-> 0, diskAt |-> Nothing, diskSpan |-> Nothing,
               first |-> Nothing, last |-> Nothing, heard |-> 0, raised |-> FALSE]

TelemetryNext ==
    \/ \E t \in Readings, agent \in BOOLEAN :
          ReadRaises(t, agent) \/ \E server \in BOOLEAN : ReadAll(t, agent, server)
    \/ Generate \/ ServerStarts \/ ReadDisk \/ LogSignal \/ AgentStarts

TelemetrySpec == TelemetryInit /\ [][TelemetryNext]_telemetryVars

-----------------------------------------------------------------------------
(* monitor.py, _read_llama: "counters went backwards - server restarted".  *)
(* Whatever polls were missed and whenever the server restarted, a poll    *)
(* never has fewer tokens than none nor more than were generated since the *)
(* metrics were last read: what it learns a decode rate from is real.      *)
TokensAreOfTheInterval == point.gen >= 0 /\ point.gen <= book.interval

(* derive.py, counter_deltas: the log's signals are "differenced from the  *)
(* agent's counters".  Between the first answer of an agent and its        *)
(* latest, the stored counts never add up to more than what that agent     *)
(* counted, and to just that unless a poll raised in between, whatever     *)
(* answers were lost.                                                      *)
SignalsConserved ==
    book.first # Nothing =>
        /\ book.heard <= book.last - book.first
        /\ ~book.raised => book.heard = book.last - book.first

(* derive.py: "Read and write bytes per second across all disks: what      *)
(* makes a model load visible."  A rate divides what was read between two  *)
(* readings by the time between those two.                                 *)
DiskRateIsOfItsInterval ==
    point.disk # Nothing /\ point.disk.amount > 0 => point.disk.dt = book.diskSpan

==============================================================================
