--------------------------------- MODULE Demo ---------------------------------
(***************************************************************************)
(* DEMO=1 (demo.py): the poll loop's client answers from a recorded        *)
(* session that loops, over a store seeded with a recorded week.  Times    *)
(* are moved on by the session's length each pass, and counters by what    *)
(* they gained in it.  The recording begins at 0.                          *)
(*                                                                         *)
(* A frame is one recorded poll: when it was (t), and of its answers what  *)
(* is told apart here, the agent's own time (ts) and one of its cumulative *)
(* counters (lines), and one of llama.cpp's totals (tokens).  ts stands    *)
(* for the stamps of a payload that move with it.                          *)
(***************************************************************************)
EXTENDS Clock, Integers, Sequences

CONSTANTS
    Recordings,   \* sequences of frames
    Spacing,      \* config.POLL_INTERVAL
    DemoOffset,   \* config.DEMO_OFFSET
    DemoRestarts, \* bound of the model: restarts of the dashboard
    Refused,      \* an error, recorded in place of an answer
    Unread,       \* a path that was not read at this poll
    NoAnswer      \* nothing yet, or a 404

Leaves == {"ts", "lines", "tokens"}
AgentLeaves == {"ts", "lines"}    \* of /metrics.json; the other of /metrics
Totals == {"lines", "tokens"}

Answers == Int \cup {Refused, Unread}

(* A recording begins at 0; the agent's times in it are in order and span  *)
(* no more than a pass; its first and last frame hold what is counted.     *)
IsRecording(r) ==
    /\ r \in Seq([t : Nat, ts : Answers, lines : Answers, tokens : Answers]) /\ r # <<>>
    /\ r[1].t = 0
    /\ \A leaf \in Leaves : {r[1][leaf], r[Len(r)][leaf]} \subseteq Int
    /\ \A i, j \in DOMAIN r : i < j /\ {r[i].ts, r[j].ts} \subseteq Int => r[i].ts <= r[j].ts
    /\ r[Len(r)].ts <= r[1].ts + r[Len(r)].t + Spacing

ASSUME DemoAssumption ==
    /\ Spacing \in Nat \ {0} /\ {DemoOffset, DemoRestarts} \subseteq Nat
    /\ {Refused, Unread, NoAnswer} \cap Int = {}
    /\ \A recording \in Recordings : IsRecording(recording)

VARIABLES
    frames,   \* Session.frames
    session,  \* when it started, whether an agent is configured, restarts so far
    at,       \* ReplayTransport.at: the pass and frame of this poll's answers
    asked,    \* the agent was asked, llama.cpp is next
    newest,   \* the ts of the newest row in the store
    heard,    \* history: leaf |-> the last number answered
    heardAt   \* history: leaf |-> the frame it was of, counted over all passes

demoVars == <<now, frames, session, at, asked, newest, heard, heardAt>>

First == frames[1]
Final == frames[Len(frames)]

Period == Final.t + Spacing

Read(f, leaf) == f[leaf] \in Int

(* _steps and _metric_steps: what a pass adds to a counter, if the first   *)
(* and the last frame both hold it and it did not fall.                    *)
Step(leaf) ==
    IF Read(First, leaf) /\ Read(Final, leaf) /\ Final[leaf] >= First[leaf]
    THEN Final[leaf] - First[leaf] ELSE 0

(* moment: the pass, and the last frame whose time has come in it. *)
Moment(t) ==
    LET elapsed == IF t > session.started THEN t - session.started ELSE 0
        come == {i \in DOMAIN frames : frames[i].t <= elapsed % Period}
    IN  [pass |-> elapsed \div Period,
         frame |-> CHOOSE i \in come : \A j \in come : j <= i]

(* Mutant: the counters are carried on once. *)
ShiftOnce(leaf, value, pass) ==
    IF leaf \in Totals THEN value + (IF pass > 0 THEN Step(leaf) ELSE 0)
    ELSE value + session.started + pass * Period

(* _shift and _shift_agent. *)
Shift(leaf, value, pass) ==
    IF leaf \in Totals THEN value + pass * Step(leaf)
    ELSE value + session.started + pass * Period

(* answer: a path that this frame did not read is answered by the latest   *)
(* frame that did.                                                         *)
Answer(m, leaf) ==
    LET reads == {i \in 1 .. m.frame : frames[i][leaf] # Unread}
    IN  IF reads = {} THEN NoAnswer
        ELSE LET f == frames[CHOOSE i \in reads : \A j \in reads : j <= i]
             IN  IF f[leaf] = Refused THEN Refused ELSE Shift(leaf, f[leaf], m.pass)

Hear(leaves, m) ==
    LET told == {leaf \in leaves : Answer(m, leaf) \in Int}
    IN  /\ heard' = [leaf \in Leaves |->
                        IF leaf \in told THEN Answer(m, leaf) ELSE heard[leaf]]
        /\ heardAt' = [leaf \in Leaves |->
                          IF leaf \in told THEN m.pass * Len(frames) + m.frame
                          ELSE heardAt[leaf]]

-----------------------------------------------------------------------------
(* A poll asks the agent first, and that request sets the moment of the    *)
(* whole poll.                                                             *)
AskAgent(t) ==
    /\ session.agent /\ ~asked
    /\ Reads(t)
    /\ at' = Moment(t)
    /\ Hear(AgentLeaves, at')
    /\ asked' = TRUE
    /\ UNCHANGED <<frames, session, newest>>

(* llama.cpp is asked later, and answers from the same moment; without an  *)
(* agent the first request of all sets it.  Then the poll's row is stored. *)
AskServer(t) ==
    /\ asked \/ ~session.agent
    /\ Reads(t)
    /\ at' = IF at = NoAnswer THEN Moment(t) ELSE at
    /\ Hear(Leaves \ AgentLeaves, at')
    /\ asked' = FALSE
    /\ newest' = t
    /\ UNCHANGED <<frames, session>>

(* seed: only a store without samples is filled. *)
Seeded(store, t) == IF store = NoAnswer THEN t - Spacing ELSE store

DemoStarts(t) ==
    /\ session.restarts < DemoRestarts
    /\ Reads(t)
    /\ newest' = Seeded(newest, t)
    /\ session' = [session EXCEPT !.started = t - DemoOffset, !.restarts = @ + 1]
    /\ at' = NoAnswer /\ asked' = FALSE
    /\ heard' = [leaf \in Leaves |-> NoAnswer]
    /\ heardAt' = [leaf \in Leaves |-> 0]
    /\ UNCHANGED frames

DemoInit ==
    /\ now = 0
    /\ frames \in Recordings
    /\ \E agent \in BOOLEAN :
          session = [started |-> -DemoOffset, agent |-> agent, restarts |-> 0]
    /\ at = NoAnswer /\ asked = FALSE
    /\ newest = Seeded(NoAnswer, 0)
    /\ heard = [leaf \in Leaves |-> NoAnswer]
    /\ heardAt = [leaf \in Leaves |-> 0]

DemoNext == \E t \in Readings : AskAgent(t) \/ AskServer(t) \/ DemoStarts(t)

DemoSpec == DemoInit /\ [][DemoNext]_demoVars

-----------------------------------------------------------------------------
(* The latest number of a leaf at or before frame i of the recording. *)
LatestRead(i, leaf) ==
    LET reads == {j \in 1 .. i : Read(frames[j], leaf)}
    IN  IF reads = {} THEN NoAnswer
        ELSE frames[CHOOSE j \in reads : \A k \in reads : k <= j][leaf]

(* The recorded machine's own counter fell between the p-th frame of all   *)
(* passes and the next (a server that was restarted while it recorded).    *)
FellAsRecorded(p, leaf) ==
    LET i == ((p - 1) % Len(frames)) + 1
    IN  i < Len(frames) /\ LatestRead(i + 1, leaf) < LatestRead(i, leaf)

(* demo.py: each pass "carries cumulative counters on from where the last  *)
(* pass ended, so nothing downstream sees time or a counter go backwards". *)
(* Between two answers of one life of the dashboard, however many frames   *)
(* or passes apart, a time never falls and a counter falls only where the  *)
(* recorded machine's did; the rows stored, the seeded ones first, are in  *)
(* the order of their times over all lives.                                *)
NothingGoesBackwards ==
    [][/\ newest' >= newest
       /\ session'.started = session.started =>
            \A leaf \in Leaves : heard[leaf] \in Int =>
                \/ heard'[leaf] >= heard[leaf]
                \/ \E p \in heardAt[leaf] .. heardAt'[leaf] - 1 :
                      leaf \in Totals /\ FellAsRecorded(p, leaf)]_demoVars

==============================================================================
