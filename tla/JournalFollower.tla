--------------------------- MODULE JournalFollower ---------------------------
(***************************************************************************)
(* The agent's journal follower (journal/follower.py): two threads over    *)
(* one tail of the active unit's log.  run() reads the tail, a line at a   *)
(* time, blocked while there is none; watch_target() ends it when another  *)
(* unit has become active, because a stopped unit never writes the line    *)
(* that would make run() look.  The cached discovery both of them read is  *)
(* refreshed by a third thread.  Of the parser (parser.py) only the load   *)
(* record is here, which must not outlive the unit it is about.            *)
(***************************************************************************)
EXTENDS Naturals, Sequences

CONSTANTS
    Targets,   \* what can be followed: [ct, unit]
    NoTarget,  \* nothing is active, or discovery failed
    NoStream,  \* self.stream is None
    MaxPipe    \* bound of the model: lines in the pipe

VARIABLES
    cached,    \* CACHES["guests"]: the active target, as last discovered
    reader,    \* run(): where it is, and the target it saw
    watchdog,  \* watch_target(): the same
    locked,    \* watch_target() holds proc_lock
    target,    \* self.target
    stream,    \* self.stream: whose tail, its unread lines, and whether
               \* anything still writes into it
    attached,  \* self.attached
    load       \* parser.load: its state, and which unit's log it is from

vars == <<cached, reader, watchdog, locked, target, stream, attached, load>>

(* The lines that matter: a load begins, a load is done, anything else. *)
Lines == {"loading", "loaded", "other"}

Pipes == UNION {[1 .. n -> Lines] : n \in 0 .. MaxPipe}

Streams == [of : Targets, pipe : Pipes, open : BOOLEAN]

ASSUME FollowerAssumption ==
    /\ NoTarget \notin Targets
    /\ \A t \in Targets : t = [ct |-> t.ct, unit |-> t.unit]
    /\ NoStream \notin Streams
    /\ MaxPipe \in Nat

FreshLoad == [state |-> "none", of |-> NoTarget]

-----------------------------------------------------------------------------
(* The world: discovery finds a target or none, a unit logs, a tail dies.  *)
Refresh(t) ==
    /\ cached' = t
    /\ UNCHANGED <<reader, watchdog, locked, target, stream, attached, load>>

Write(line) ==
    /\ stream # NoStream /\ stream.open
    /\ Len(stream.pipe) < MaxPipe
    /\ stream' = [stream EXCEPT !.pipe = Append(@, line)]
    /\ UNCHANGED <<cached, reader, watchdog, locked, target, attached, load>>

TailDies ==
    /\ stream # NoStream /\ stream.open
    /\ stream' = [stream EXCEPT !.open = FALSE]
    /\ UNCHANGED <<cached, reader, watchdog, locked, target, attached, load>>

-----------------------------------------------------------------------------
(* run(): what is active decides whether a new tail is needed. *)
Look ==
    /\ reader.pc = "look"
    /\ cached # NoTarget
    /\ reader' = [pc |-> IF cached # target \/ stream = NoStream THEN "spawn" ELSE "attach",
                  saw |-> cached]
    /\ UNCHANGED <<cached, watchdog, locked, target, stream, attached, load>>

(* Mutant: the targets are compared once the new one is in place. *)
ResetLoadNever == load' = load

(* _spawn: a load record of another target is forgotten, before the tail   *)
(* is known to start.                                                      *)
ResetLoad == load' = IF reader.saw # target THEN FreshLoad ELSE load

(* The tail starts, with the last lines of the log in it. *)
Spawn ==
    /\ reader.pc = "spawn" /\ ~locked
    /\ ResetLoad
    /\ \E replayed \in Pipes :
          stream' = [of |-> reader.saw, pipe |-> replayed, open |-> TRUE]
    /\ target' = reader.saw
    /\ reader' = [reader EXCEPT !.pc = "attach"]
    /\ UNCHANGED <<cached, watchdog, locked, attached>>

(* follow() raises, which leaves the target as it was, or returns None. *)
SpawnFails ==
    /\ reader.pc = "spawn" /\ ~locked
    /\ ResetLoad
    /\ stream' = NoStream
    /\ attached' = FALSE
    /\ target' \in {target, reader.saw}
    /\ reader' = [reader EXCEPT !.pc = "look"]
    /\ UNCHANGED <<cached, watchdog, locked>>

Attach ==
    /\ reader.pc = "attach"
    /\ attached' = TRUE
    /\ reader' = [reader EXCEPT !.pc = "read"]
    /\ UNCHANGED <<cached, watchdog, locked, target, stream, load>>

(* The parser's part: which load is under way. *)
Ingest(line) ==
    load' = IF line = "other" THEN load
            ELSE [state |-> line, of |-> stream.of]

(* Another unit is active than the one that is followed. *)
Switched(now) == now # NoTarget /\ target # NoTarget /\ now.unit # target.unit

(* A line: ingested, and then the only look the reader takes. *)
ReadLine ==
    /\ reader.pc = "read" /\ stream.pipe # <<>>
    /\ Ingest(Head(stream.pipe))
    /\ stream' = [stream EXCEPT !.pipe = Tail(@)]
    /\ reader' = [reader EXCEPT !.pc = IF Switched(cached) THEN "end" ELSE "read"]
    /\ UNCHANGED <<cached, watchdog, locked, target, attached>>

(* A line the parser cannot read ends the tail; so does the end of it. *)
ReadRaises ==
    /\ reader.pc = "read" /\ stream.pipe # <<>>
    /\ stream' = [stream EXCEPT !.pipe = Tail(@)]
    /\ reader' = [reader EXCEPT !.pc = "end"]
    /\ UNCHANGED <<cached, watchdog, locked, target, attached, load>>

ReadEof ==
    /\ reader.pc = "read" /\ stream.pipe = <<>> /\ ~stream.open
    /\ reader' = [reader EXCEPT !.pc = "end"]
    /\ UNCHANGED <<cached, watchdog, locked, target, stream, attached, load>>

(* finally: _kill() stops and closes the tail and forgets it. *)
End ==
    /\ reader.pc = "end" /\ ~locked
    /\ stream' = NoStream
    /\ attached' = FALSE
    /\ reader' = [reader EXCEPT !.pc = "look"]
    /\ UNCHANGED <<cached, watchdog, locked, target, load>>

-----------------------------------------------------------------------------
(* watch_target(): it looks, and then waits for the lock. *)
WatchLook ==
    /\ watchdog.pc = "idle"
    /\ watchdog' = [pc |-> "looked", saw |-> cached]
    /\ UNCHANGED <<cached, reader, locked, target, stream, attached, load>>

(* With the lock: what it saw may be old by now, the target is not. *)
WatchLock ==
    /\ watchdog.pc = "looked" /\ ~locked
    /\ locked' = Switched(watchdog.saw)
    /\ watchdog' = [watchdog EXCEPT
                       !.pc = IF Switched(watchdog.saw) THEN "stopping" ELSE "idle"]
    /\ UNCHANGED <<cached, reader, target, stream, attached, load>>

(* Mutant: the pipe is closed as well, which waits for a blocked reader. *)
WatchStopCloses ==
    /\ watchdog.pc = "stopping"
    /\ ~(reader.pc = "read" /\ stream.pipe = <<>>)
    /\ stream' = IF stream = NoStream THEN NoStream ELSE [stream EXCEPT !.open = FALSE]
    /\ locked' = FALSE
    /\ watchdog' = [watchdog EXCEPT !.pc = "idle"]
    /\ UNCHANGED <<cached, reader, target, attached, load>>

(* _kill(close_pipe=False): every writer is ended, which takes seconds,    *)
(* and the reader gets its EOF; the stream is left to it.                  *)
WatchStop ==
    /\ watchdog.pc = "stopping"
    /\ stream' = IF stream = NoStream THEN NoStream ELSE [stream EXCEPT !.open = FALSE]
    /\ locked' = FALSE
    /\ watchdog' = [watchdog EXCEPT !.pc = "idle"]
    /\ UNCHANGED <<cached, reader, target, attached, load>>

Init ==
    /\ cached = NoTarget
    /\ reader = [pc |-> "look", saw |-> NoTarget]
    /\ watchdog = [pc |-> "idle", saw |-> NoTarget]
    /\ locked = FALSE
    /\ target = NoTarget
    /\ stream = NoStream
    /\ attached = FALSE
    /\ load = FreshLoad

Run == Look \/ Spawn \/ SpawnFails \/ Attach \/ ReadLine \/ ReadRaises \/ ReadEof \/ End

WatchTarget == WatchLook \/ WatchLock \/ WatchStop

World ==
    \/ \E t \in Targets \cup {NoTarget} : Refresh(t)
    \/ \E line \in Lines : Write(line)
    \/ TailDies

Next == Run \/ WatchTarget \/ World

(* Both threads go on running, the reader gets a lock that the watchdog    *)
(* takes again and again, and the runtime starts a tail in the end; nothing *)
(* is assumed of discovery, of the log, or of how often tails die.          *)
Fairness ==
    /\ WF_vars(Run) /\ SF_vars(Spawn) /\ SF_vars(End)
    /\ WF_vars(WatchTarget)

Spec == Init /\ [][Next]_vars

FairSpec == Spec /\ Fairness

-----------------------------------------------------------------------------
(* The type invariant: the reader is at a tail exactly where the code      *)
(* dereferences one, and the lock is held only while a tail is stopped.    *)
TypeOK ==
    /\ cached \in Targets \cup {NoTarget}
    /\ reader \in [pc : {"look", "spawn", "attach", "read", "end"},
                   saw : Targets \cup {NoTarget}]
    /\ watchdog \in [pc : {"idle", "looked", "stopping"}, saw : Targets \cup {NoTarget}]
    /\ locked \in BOOLEAN /\ (locked <=> watchdog.pc = "stopping")
    /\ target \in Targets \cup {NoTarget}
    /\ stream \in Streams \cup {NoStream}
    /\ reader.pc = "spawn" => reader.saw # NoTarget
    /\ reader.pc \in {"attach", "read", "end"} <=> stream # NoStream
    /\ attached \in BOOLEAN
    /\ load \in [state : {"none", "loading", "loaded"}, of : Targets \cup {NoTarget}]

(* follower.py: "a load record belongs to the unit that emitted it".  The  *)
(* load that is reported, and holds the reachability alerts back, is never *)
(* of another target than the one reported as followed, whenever tails     *)
(* fail, die or are ended.                                                 *)
LoadIsOfTarget == load.state # "none" => load.of = target

Following(t) == stream # NoStream /\ stream.of = t /\ stream.open

(* follower.py: without the watchdog "a switch away from the followed unit *)
(* would park the reader on a dead unit indefinitely and silently end      *)
(* request telemetry for the unit that is actually serving".  Once         *)
(* discovery keeps finding one target, it is followed again and again,     *)
(* though the unit followed before may never log another line.             *)
FollowsActive ==
    \A t \in Targets : <>[](cached = t) => []<>Following(t)

==============================================================================
