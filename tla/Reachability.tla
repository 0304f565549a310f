---------------------------- MODULE Reachability -----------------------------
(***************************************************************************)
(* The rules that say whether inference is up, and the signal that says    *)
(* it is mid-switch, over what one poll observed: fetch_agent, fetch_llama *)
(* (sources.py), rules.reachability, rules.inference_units,                *)
(* rules.inference_container and alerts.transition_signal.  Composed with  *)
(* the gate they feed.                                                     *)
(*                                                                         *)
(* A poll reads the agent and then the server, so what it saw of the two   *)
(* need not have been true at one instant: every combination is possible.  *)
(***************************************************************************)
EXTENDS AlertGate, FiniteSets

CONSTANTS
    Units,         \* the units or containers that run llama.cpp
    AgentEnabled,  \* config.AGENT_ENABLED
    Observations   \* the observations a poll may make

(* What fetch_llama makes of /health: no answer, 200 ok, the 503 "Loading  *)
(* model" of a server reading its weights, or any other answer.            *)
ServerState == {"down", "ok", "loading", "sick"}

(* What the agent's guests and journal sections say.  With no answer there *)
(* is no section at all; a target it cannot exec into has no units; and of *)
(* an agent told that llama.cpp does not run on its host nothing is known. *)
Observation ==
    {o \in [server : ServerState,
            agent : BOOLEAN,
            target : {"reachable", "unreachable", "missing", "unknown"},
            units : UNION {[S -> {"active", "changing", "stopped"}] :
                               S \in {{}, Units}},
            mid_load : BOOLEAN] :
        /\ o.agent => AgentEnabled
        /\ ~o.agent => o.target = "unknown" /\ ~o.mid_load
        /\ o.target # "reachable" => DOMAIN o.units = {}}

ASSUME ObservationsAssumption == Observations \subseteq Observation

-----------------------------------------------------------------------------
(* transition_signal: /health answers "Loading model", the journal's       *)
(* latest load is still "loading", or a unit is between states.            *)
Signal(o) ==
    \/ o.server = "loading"
    \/ o.mid_load
    \/ \E u \in DOMAIN o.units : o.units[u] = "changing"

Active(o) == {u \in DOMAIN o.units : o.units[u] = "active"}

(* The keys each rule yields.  A server that answers but is not "ok" is    *)
(* unhealthy, one that is loading included; the two llama keys exclude     *)
(* each other.                                                             *)
ReachabilityRule(o) ==
    (IF AgentEnabled /\ ~o.agent THEN {"agent"} ELSE {})
    \cup (CASE o.server = "down" -> {"llama"}
            [] o.server \in {"loading", "sick"} -> {"llama_health"}
            [] o.server = "ok" -> {})

UnitsRule(o) ==
    (IF DOMAIN o.units # {} /\ Active(o) = {} THEN {"units"} ELSE {})
    \cup (IF Cardinality(Active(o)) > 1 THEN {"units_both"} ELSE {})

ContainerRule(o) ==
    (IF o.target = "unreachable" THEN {"ct"} ELSE {})
    \cup (IF o.target = "missing" THEN {"ct_missing"} ELSE {})

(* evaluate_alerts, of these rules. *)
Raised(o) == ReachabilityRule(o) \cup UnitsRule(o) \cup ContainerRule(o)

ReachabilityKeys ==
    {"agent", "llama", "llama_health", "units", "units_both", "ct", "ct_missing"}

ASSUME KeysAssumption == ReachabilityKeys \subseteq Keys

-----------------------------------------------------------------------------
VARIABLE bad_since  \* history: [is, at], the polls in a row that found the
                    \* server not ok and no transition under way

watchVars == <<vars, bad_since>>

NotBad == [is |-> FALSE, at |-> 0]

RecordServer(o, t) ==
    bad_since' =
        IF o.server = "ok" \/ transition'.active THEN NotBad
        ELSE IF bad_since.is THEN bad_since ELSE [is |-> TRUE, at |-> t]

(* One poll: what it observed, through the rules and the gate. *)
WatchPoll(o, t) ==
    /\ Poll(Raised(o), Signal(o), t)
    /\ RecordServer(o, t)

WatchRestart(t) == Restart(t) /\ bad_since' = NotBad

WatchInit == Init /\ bad_since = NotBad

WatchNext ==
    \E t \in Readings :
        \/ WatchRestart(t)
        \/ \E o \in Observations : WatchPoll(o, t)

WatchSpec == WatchInit /\ [][WatchNext]_watchVars

-----------------------------------------------------------------------------
(* docs/alerts.md, the table of rules: "Inference server unreachable, or   *)
(* unhealthy | critical | llama.cpp does not answer, or `/health` is not   *)
(* ok, for 20 s".  With no transition under way, a server that has been    *)
(* found not ok on every poll for the hold is alerted.                     *)
DownOrUnhealthyAlerts ==
    bad_since.is /\ now - bad_since.at >= Hold["llama"]
    => shown \cap {"llama", "llama_health"} # {}

==============================================================================
