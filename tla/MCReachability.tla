--------------------------- MODULE MCReachability ----------------------------
(***************************************************************************)
(* A poll's readings for TLC, in four parts, of which a behaviour is one:  *)
(* the rules on reachability behind the gate (two units, holds and limits  *)
(* scaled to a few polls), the differences of counters, the polling of a   *)
(* model that sleeps, and the answers of a replayed demo.  The parts share *)
(* the clock and nothing else.                                             *)
(***************************************************************************)
EXTENDS Reachability, Telemetry, LlamaSleep, Demo, TLC

VARIABLE part

partVars == <<part, watchVars, telemetryVars, sleepVars, demoVars>>

demoOnly == <<frames, session, at, asked, newest, heard, heardAt>>

AllKeys == ReachabilityKeys

HeldBack == {"llama", "llama_health", "units"}

(* One poll of hold for the agent, two for the server, three for the       *)
(* container, none for the key config.HOLD_SECONDS has not.                *)
Holds ==
    [k \in AllKeys |->
        IF k \in {"llama", "llama_health", "units", "units_both"} THEN 2
        ELSE IF k = "agent" THEN 1 ELSE 3]

Seen(server, first, second) ==
    [server |-> server, agent |-> TRUE, target |-> "reachable",
     units |-> [u \in Units |-> IF u = "main" THEN first ELSE second],
     mid_load |-> FALSE]

NoUnits == [u \in {} |-> "stopped"]

Blind(server) ==
    [server |-> server, agent |-> FALSE, target |-> "unknown",
     units |-> NoUnits, mid_load |-> FALSE]

Lost(target) ==
    [server |-> "down", agent |-> TRUE, target |-> target,
     units |-> NoUnits, mid_load |-> FALSE]

(* Healthy, stopped, failed, being switched, loading, the log mid-load     *)
(* before the port opens, two units at once; the agent silent; the target  *)
(* gone.                                                                   *)
Interesting ==
    {Seen("ok", "active", "stopped"), Seen("down", "stopped", "stopped"),
     Seen("sick", "active", "stopped"), Seen("down", "stopped", "changing"),
     Seen("loading", "active", "stopped"), Seen("ok", "active", "active"),
     [Seen("down", "active", "stopped") EXCEPT !.mid_load = TRUE],
     Blind("down"), Blind("ok"), Lost("unreachable"), Lost("missing")}

(* Three frames: the first and the last hold both counters, as the shipped *)
(* session's do; the middle one may have lost an answer, or not asked; a   *)
(* counter may fall within the recording, or end below where it began; the *)
(* agent's time may be ahead of the frame's.                               *)
Frame(t, ahead, lines, tokens) ==
    [t |-> t, ts |-> IF lines = Refused THEN Refused ELSE t + ahead,
     lines |-> lines, tokens |-> tokens]

Sessions ==
    {<<Frame(0, ahead, 0, first), Frame(middle, 0, lines, tokens), Frame(4, 1 - ahead, 1, last)>> :
        ahead \in {0, 1}, first, last \in 0 .. 2, middle \in {1, 2}, lines \in {1, Refused},
        tokens \in {0, 3, Refused, Unread}}

OneSession == {CHOOSE recording \in Sessions : TRUE}

PollInit ==
    /\ part \in {"watch", "telemetry", "sleep", "demo"}
    /\ WatchInit
    /\ TelemetryInit
    /\ SleepInit
    /\ DemoInit
    /\ part # "demo" => frames \in OneSession /\ session.agent
    /\ part # "sleep" => setup = [mode |-> "auto", reported |-> TRUE, safe |-> TRUE]
                         /\ ~model.asleep

PollNext ==
    /\ UNCHANGED part
    /\ \/ part = "watch" /\ WatchNext
          /\ UNCHANGED <<host, prev, point, book, sleepVars, demoOnly>>
       \/ part = "telemetry" /\ TelemetryNext
          /\ UNCHANGED <<gateVars, historyVars, bad_since, sleepVars, demoOnly>>
       \/ part = "sleep" /\ SleepNext
          /\ UNCHANGED <<watchVars, host, prev, point, book, demoOnly>>
       \/ part = "demo" /\ DemoNext
          /\ UNCHANGED <<gateVars, historyVars, bad_since, host, prev, point, book, sleepVars>>

PollSpec ==
    /\ PollInit /\ [][PollNext]_partVars
    /\ WF_sleepVars(part = "sleep" /\ Polls)
    /\ WF_sleepVars(part = "sleep" /\ Tick)
    /\ WF_sleepVars(part = "sleep" /\ Finish)

AsleepAfterWork == part = "sleep" => IdleModelSleeps

==============================================================================
