---------------------------- MODULE JournalParser ----------------------------
(***************************************************************************)
(* The agent's reading of llama.cpp's log (journal/parser.py) through a    *)
(* tail that ends and is started again: each new tail first replays the    *)
(* last lines of the log, so a line may be read twice, and lines that were *)
(* written while no tail was open may be read by none.                     *)
(*                                                                         *)
(* A line is stamped with its place in the log, and what a line tells of a *)
(* request is abstracted to that stamp.                                    *)
(***************************************************************************)
EXTENDS Integers, SequencesExt

CONSTANTS
    Slots,        \* llama.cpp's slots
    Replay,       \* the lines a new tail begins with (-n 40)
    MaxRequests,  \* JournalParser.MAX_REQUESTS
    MaxTask,      \* bound of the model: requests of one server start
    MaxLog,       \* bound of the model: lines logged
    MaxTails      \* bound of the model: tails

ASSUME ParserAssumption == {Replay, MaxRequests, MaxTask, MaxLog, MaxTails} \subseteq Nat

VARIABLES
    log,       \* what llama.cpp has logged
    server,    \* its slots, and the task it gives next
    tail,      \* the next line to read, and how many tails there were
    parser,    \* slots, pending, requests, load, counters, count_hwm
    seen,      \* history: the lines read
    missed     \* history: the lines no tail will read

parserVars == <<log, server, tail, parser, seen, missed>>

NoSlot == 0

Idle == [task |-> 0, phase |-> "idle"]

NoFigures == [started |-> 0, prompt |-> 0, eval |-> 0]

FreshParser ==
    [slots |-> <<>>, pending |-> <<>>, requests |-> <<>>, load |-> "unknown",
     signals |-> 0, hwm |-> 0]

-----------------------------------------------------------------------------
(* llama.cpp.  A server that starts loads its model, with its tasks        *)
(* numbered afresh, and says nothing of what it was doing before.          *)
Log(kind, slot, task, after) ==
    /\ Len(log) < MaxLog
    /\ log' = Append(log, [kind |-> kind, slot |-> slot, task |-> task])
    /\ server' = after
    /\ UNCHANGED <<tail, parser, seen, missed>>

Start == Log("loading", NoSlot, 0, [slots |-> [x \in Slots |-> Idle], next |-> 1, ready |-> FALSE])

Loaded == ~server.ready /\ Log("loaded", NoSlot, 0, [server EXCEPT !.ready = TRUE])

LogSignal == server.ready /\ Log("signal", NoSlot, 0, server)

Works(s, from, kind, to) ==
    /\ server.slots[s].phase \in from
    /\ Log(kind, s, server.slots[s].task, [server EXCEPT !.slots[s].phase = to])

Launch(s) ==
    /\ server.ready /\ server.slots[s] = Idle /\ server.next <= MaxTask
    /\ Log("launch", s, server.next,
           [server EXCEPT !.slots[s] = [task |-> server.next, phase |-> "prefill"],
                          !.next = @ + 1])

Serve(s) ==
    \/ Launch(s)
    \/ Works(s, {"prefill"}, "prompt", "decode")
    \/ Works(s, {"decode"}, "eval", "done")

(* Done, or cancelled in its prefill. *)
Release(s) ==
    /\ server.slots[s].phase \in {"prefill", "done"}
    /\ Log("release", s, server.slots[s].task, [server EXCEPT !.slots[s] = Idle])

-----------------------------------------------------------------------------
(* The parser, line i of the log.  Mutant: every line counts. *)
CountAlways(p, i) == [p EXCEPT !.signals = @ + 1, !.hwm = i]

(* _count: a log signal once, however many times the line is read. *)
Count(p, i) == IF i <= p.hwm THEN p ELSE [p EXCEPT !.signals = @ + 1, !.hwm = i]

Put(f, key, value) == [k \in DOMAIN f \cup {key} |-> IF k = key THEN value ELSE f[k]]

Pending(p, task) == IF task \in DOMAIN p.pending THEN p.pending[task] ELSE NoFigures

(* The phase a slot is put in; the task it is at is left as it is known. *)
Phase(p, slot, phase) ==
    Put(p.slots, slot, [task |-> IF slot \in DOMAIN p.slots THEN p.slots[slot].task ELSE 0,
                        phase |-> phase])

(* _launch: a new record, whatever there was of a task of this number. *)
Launched(p, i) ==
    [p EXCEPT !.slots = Put(@, log[i].slot, [task |-> log[i].task, phase |-> "prefill"]),
              !.pending = Put(@, log[i].task, [NoFigures EXCEPT !.started = i])]

(* _prompt, _eval and their kind: figures for the record of their task,    *)
(* which is begun if it is not known.                                      *)
Timed(p, i) ==
    IF log[i].kind = "prompt"
    THEN [p EXCEPT !.slots = Phase(p, log[i].slot, "decode"),
                   !.pending = Put(@, log[i].task, [Pending(p, log[i].task) EXCEPT !.prompt = i])]
    ELSE [p EXCEPT !.pending = Put(@, log[i].task, [Pending(p, log[i].task) EXCEPT !.eval = i])]

(* _release: the record is complete, newest first. *)
Released(p, i) ==
    LET record == [of |-> Pending(p, log[i].task), task |-> log[i].task, finished |-> i]
        kept == <<record>> \o p.requests
    IN  [p EXCEPT !.slots = Put(@, log[i].slot, Idle),
                  !.pending = [t \in DOMAIN @ \ {log[i].task} |-> @[t]],
                  !.requests = SubSeq(kept, 1, IF Len(kept) > MaxRequests THEN MaxRequests
                                               ELSE Len(kept))]

(* Mutant: the slots of the server before are kept. *)
LoadingKeepsSlots(p) == [p EXCEPT !.load = "loading", !.pending = <<>>]

(* Mutant: the records of the server before are kept. *)
LoadingKeepsPending(p) == [p EXCEPT !.load = "loading", !.slots = <<>>]

(* _loading: a new server, whose slots and tasks are not the old ones. *)
Loading(p) == [p EXCEPT !.load = "loading", !.slots = <<>>, !.pending = <<>>]

(* ingest: the first pattern that matches handles the line. *)
IngestLine(p, i) ==
    CASE log[i].kind = "signal"             -> Count(p, i)
      [] log[i].kind = "launch"             -> Launched(p, i)
      [] log[i].kind \in {"prompt", "eval"} -> Timed(p, i)
      [] log[i].kind = "release"            -> Released(p, i)
      [] log[i].kind = "loading"            -> Loading(p)
      [] log[i].kind = "loaded"             -> [p EXCEPT !.load = "loaded"]

ReadNext ==
    /\ tail.at <= Len(log)
    /\ parser' = IngestLine(parser, tail.at)
    /\ tail' = [tail EXCEPT !.at = @ + 1]
    /\ seen' = seen \cup {tail.at}
    /\ UNCHANGED <<log, server, missed>>

(* The tail ends, and the follower starts another a while later.  Loading  *)
(* a model logs more lines than a tail replays (only its first and last    *)
(* are in this log): a replay does not reach behind a completed load.      *)
NewTail ==
    LET starts == {1, Len(log) - Replay + 1} \cup {i \in DOMAIN log : log[i].kind = "loaded"}
    IN  /\ tail.count < MaxTails
        /\ \E from \in starts :
              /\ \A i \in starts : i <= from
              /\ tail' = [at |-> from, count |-> tail.count + 1]
              /\ missed' = missed \cup {i \in DOMAIN log : tail.at <= i /\ i < from}
        /\ UNCHANGED <<log, server, parser, seen>>

ParserInit ==
    /\ log = <<>>
    /\ server = [slots |-> [s \in Slots |-> Idle], next |-> 1, ready |-> FALSE]
    /\ tail = [at |-> 1, count |-> 1]
    /\ parser = FreshParser
    /\ seen = {} /\ missed = {}

ParserNext ==
    \/ Start \/ Loaded \/ LogSignal
    \/ \E s \in Slots : Serve(s) \/ Release(s)
    \/ ReadNext \/ NewTail

ParserSpec == ParserInit /\ [][ParserNext]_parserVars

-----------------------------------------------------------------------------
(* parser.py: "every respawn replays the last 40 lines, and a re-read      *)
(* burst must not count twice".  Whatever is replayed or missed, the       *)
(* counter is the number of signals that were read.                        *)
SignalsCountedOnce ==
    parser.signals = Cardinality({i \in seen : log[i].kind = "signal"})

(* A completed request is stored for ever.  Its record has figures of that *)
(* request and of no other: lines of its task and its slot, with no other  *)
(* request launched there before the end.  So it is though tasks are       *)
(* numbered afresh by every server and tails end anywhere, unless the line *)
(* of a load was missed.                                                   *)
RecordIsOfOneRequest ==
    (\A i \in missed : log[i].kind # "loading")
    => \A k \in DOMAIN parser.requests :
           LET r == parser.requests[k]
               slot == log[r.finished].slot
           IN  \A i \in {r.of.started, r.of.prompt, r.of.eval} \ {0} :
                   /\ i < r.finished /\ log[i].task = r.task /\ log[i].slot = slot
                   /\ \A j \in i + 1 .. r.finished :
                         ~(log[j].kind = "launch" /\ log[j].slot = slot)

(* follower.py: the tail is started again and again.  Once it has caught   *)
(* up, and missed nothing, the slots are what the server's are: no replay  *)
(* brings back a request that is over, nor ends one that is not.           *)
SlotsAgree ==
    tail.at > Len(log) /\ missed = {} =>
        \A s \in Slots :
            LET shows == IF s \in DOMAIN parser.slots THEN parser.slots[s] ELSE Idle
                is == server.slots[s]
            IN  /\ shows.task = is.task
                /\ shows.phase = IF is.phase = "done" THEN "decode" ELSE is.phase

==============================================================================
