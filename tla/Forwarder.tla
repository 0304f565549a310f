------------------------------ MODULE Forwarder ------------------------------
(***************************************************************************)
(* examples/forwarder/dash-alerts.py: a program run by a timer on another  *)
(* machine.  A run reads its state file, asks the dashboard for /api/alerts *)
(* (what is shown now, and the event log's rows after the last one seen),  *)
(* sends what is new, and saves its state only if every send succeeded.    *)
(*                                                                         *)
(* A run judges by the one answer it fetched and the clock it read before, *)
(* so a run is one step; what may fail in it is the fetch, any of its      *)
(* sends, and the process before it saves.  A send reported as failed may  *)
(* have been heard.  There are fewer conditions than MAX_LINES, and the    *)
(* two machines' clocks agree.                                             *)
(***************************************************************************)
EXTENDS Clock, Sequences, SequencesExt, FiniteSets, FiniteSetsExt

CONSTANTS
    Conditions,     \* the alert keys
    PushWorthy,     \* the <<key, rank>> that should_notify lets through
    Ranks,          \* key |-> the ranks it may be shown at; RANK, 3 is critical
    RowLimit,       \* the limit of store.events_since
    DownTrip,       \* DOWN_TRIP
    StallAfter,     \* STALL_AFTER
    AnnounceEvery   \* COOLDOWN

ASSUME ForwarderAssumption ==
    /\ IsFiniteSet(Conditions)
    /\ Ranks \in [Conditions -> SUBSET (1 .. 3)]
    /\ PushWorthy \subseteq Conditions \X (1 .. 3)
    /\ {RowLimit, DownTrip} \subseteq Nat \ {0}
    /\ {StallAfter, AnnounceEvery} \subseteq Nat

VARIABLES
    \* The dashboard.
    alerts,   \* Monitor.snapshot's alerts: key |-> rank
    polled,   \* Monitor.last_poll_ok, 0 before the first poll
    rows,     \* the event log's rows after fwd.since, in the order written
    \* The forwarder.
    fwd,      \* the state file
    \* History.
    belief,   \* what the recipient last heard: the keys on, and whether the
              \* dashboard is unreachable or has stalled
    spoken,   \* key |-> when a line last said it was raised
    owed,     \* the push-worthy keys raised since the last run that was saved
    missed,   \* those of them the latest saved run said nothing of
    cut,      \* a saved run was given fewer rows than there were
    doubtful, \* a message was heard, and its run not saved
    misses,   \* fetches that failed since one succeeded
    unsent    \* the latest send reported failure

dashVars == <<alerts, polled, rows>>
fwdHistory == <<belief, spoken, owed, missed, cut, doubtful, misses, unsent>>
forwarderVars == <<now, dashVars, fwd, fwdHistory>>

NoFile == [known |-> FALSE, since |-> 0, fail |-> 0, open |-> <<>>, last |-> <<>>,
           down |-> FALSE, stall |-> FALSE]

(* The state a run at t starts from: setdefault. *)
Loaded(t) == IF fwd.known THEN fwd ELSE [fwd EXCEPT !.known = TRUE, !.since = t]

-----------------------------------------------------------------------------
(* The dashboard polls: rows for the edges (Monitor.reconcile_alerts), all *)
(* with the poll's time.                                                   *)
Rows(t, from, to) ==
    LET edge(k, state, rank) == [ts |-> t, key |-> k, rank |-> rank, state |-> state]
        raised == {edge(k, "raised", to[k]) : k \in DOMAIN to \ DOMAIN from}
        cleared == {edge(k, "cleared", from[k]) : k \in DOMAIN from \ DOMAIN to}
    IN  SetToSeq(raised) \o SetToSeq(cleared)

PushesRaise(r) == r.state = "raised" /\ <<r.key, r.rank>> \in PushWorthy

Shows == UNION {{f \in [S -> 1 .. 3] : \A k \in S : f[k] \in Ranks[k]} :
                   S \in SUBSET Conditions}

Raise(t) ==
    /\ Reads(t)
    /\ \E shows \in Shows :
          LET written == Rows(t, alerts, shows)
          IN  /\ alerts' = shows
              /\ rows' = IF fwd.known THEN rows \o written ELSE <<>>
              /\ owed' = IF fwd.known
                         THEN owed \cup {r.key : r \in {x \in ToSet(written) : PushesRaise(x)}}
                         ELSE {}
    /\ polled' = t
    /\ UNCHANGED <<fwd, belief, spoken, missed, cut, doubtful, misses, unsent>>

(* It restarts: no alert is known before the next poll. *)
DashboardRestarts(t) ==
    /\ Reads(t)
    /\ alerts' = <<>>
    /\ polled' = 0
    /\ UNCHANGED <<rows, fwd, fwdHistory>>

-----------------------------------------------------------------------------
(* events_since: the oldest rows after `since`, up to its limit. *)
EventsSince == 1 .. Min({Len(rows), RowLimit})

(* api_alerts: of those the push-worthy ones. *)
Fetched == {i \in EventsSince : <<rows[i].key, rows[i].rank>> \in PushWorthy}

(* The alerts marked notify. *)
Notified == [k \in {x \in DOMAIN alerts : <<x, alerts[x]>> \in PushWorthy} |-> alerts[k]]

MayTell(st, k, rank, t) ==
    rank = 3 \/ k \notin DOMAIN st.last \/ t - st.last[k] >= AnnounceEvery

(* Came and went: raised in the log, neither shown now nor announced       *)
(* before.  The first such row of a key decides for it.  A first run's     *)
(* rows are none.                                                          *)
CameAndWent(st, t) ==
    LET raised == {i \in Fetched : /\ rows[i].state = "raised"
                                   /\ rows[i].key \notin DOMAIN Notified \cup DOMAIN st.open}
        first(k) == rows[Min({i \in raised : rows[i].key = k})]
    IN  {k \in {rows[i].key : i \in raised} : MayTell(st, k, first(k).rank, t)}

NowOn(st, t) ==
    {k \in DOMAIN Notified \ DOMAIN st.open : MayTell(st, k, Notified[k], t)}
    \cup {k \in DOMAIN Notified \cap DOMAIN st.open : Notified[k] > st.open[k]}

NowOff(st) == DOMAIN st.open \ DOMAIN Notified

Stalled(t) == polled # 0 /\ t - polled > StallAfter

(* The messages of a run whose fetch succeeded, in the order sent. *)
Messages(st, t) ==
    (IF st.down THEN <<[says |-> "reachable"]>> ELSE <<>>) \o
    (IF Stalled(t) /\ ~st.stall THEN <<[says |-> "stalled"]>>
     ELSE IF st.stall /\ ~Stalled(t) THEN <<[says |-> "polling"]>> ELSE <<>>) \o
    (LET gone == CameAndWent(st, t)
         on == NowOn(st, t)
         off == NowOff(st)
     IN  IF gone \cup on \cup off = {} THEN <<>>
         ELSE <<[says |-> "alerts", gone |-> gone, on |-> on, off |-> off]>>)

(* The newest row the run was given. *)
SinceAfter(st) == IF Fetched = {} THEN st.since ELSE rows[Max(Fetched)].ts

(* The state after it. *)
AfterRun(st, t) ==
    LET said == CameAndWent(st, t) \cup NowOn(st, t)
    IN  [st EXCEPT !.fail = 0, !.down = FALSE, !.stall = Stalled(t),
                   !.since = SinceAfter(st),
                   !.open = [k \in (DOMAIN @ \cup NowOn(st, t)) \ NowOff(st) |->
                                IF k \in NowOn(st, t) THEN Notified[k] ELSE @[k]],
                   !.last = [k \in DOMAIN @ \cup said |-> IF k \in said THEN t ELSE @[k]]]

-----------------------------------------------------------------------------
(* The lines about alerts in some messages, and what the recipient makes   *)
(* of messages of one run.                                                 *)
Lines(msgs) == {m \in ToSet(msgs) : m.says = "alerts"}

Hear(msgs, t) ==
    LET says(what) == \E m \in ToSet(msgs) : m.says = what
        raised == UNION {m.gone \cup m.on : m \in Lines(msgs)}
        over == UNION {m.gone \cup m.off : m \in Lines(msgs)}
    IN  /\ belief' = [on |-> (belief.on \cup raised) \ over,
                      dark |-> belief.dark /\ ~says("reachable"),
                      stalled |-> (belief.stalled \/ says("stalled")) /\ ~says("polling")]
        /\ spoken' = [k \in DOMAIN spoken \cup raised |-> IF k \in raised THEN t ELSE spoken[k]]

(* Told of now, still on for the recipient, or told of within a cooldown. *)
SpokenFor(k, t) ==
    \/ k \in belief.on
    \/ k \in DOMAIN spoken' /\ (spoken'[k] = t \/ t - spoken'[k] < AnnounceEvery)

(* A row of the key will be given to a later run: it is behind `since`,    *)
(* and since moves (a run that is given none of RowLimit rows is followed  *)
(* by runs that are given the same).                                       *)
StillToCome(k) ==
    /\ \E r \in ToSet(rows') : r.key = k /\ PushesRaise(r)
    /\ Len(rows') > RowLimit => rows' # rows

(* The rows after a time; they are in the order of theirs. *)
RowsBehind(seen) ==
    SubSeq(rows, 1 + Cardinality({i \in DOMAIN rows : rows[i].ts <= seen}), Len(rows))

(* Every send succeeded, if there was any: the state is saved. *)
RunSaved(t) ==
    LET st == Loaded(t)
        seen == SinceAfter(st)
    IN  /\ Reads(t)
        /\ Hear(Messages(st, t), t)
        /\ fwd' = AfterRun(st, t)
        /\ cut' = (cut \/ Len(rows) > RowLimit)
        /\ rows' = RowsBehind(seen)
        /\ owed' = {k \in owed : StillToCome(k)}
        /\ missed' = {k \in owed \ owed' : ~SpokenFor(k, t)}
        /\ misses' = 0
        /\ unsent' = FALSE
        /\ UNCHANGED <<alerts, polled, doubtful>>

(* Mutant: a run is saved though a send failed. *)
RunFailsSaved(t) ==
    LET msgs == Messages(Loaded(t), t)
    IN  /\ Reads(t)
        /\ msgs # <<>>
        /\ fwd' = AfterRun(Loaded(t), t)
        /\ misses' = 0
        /\ unsent' = TRUE
        /\ UNCHANGED <<dashVars, belief, spoken, owed, missed, cut, doubtful>>

(* A send failed, and all() tries no further, or the process died before   *)
(* it saved: the next run starts from the same state.                      *)
RunFails(t) ==
    LET msgs == Messages(Loaded(t), t)
    IN  /\ Reads(t)
        /\ msgs # <<>>
        /\ \E n \in 0 .. Len(msgs) :
              /\ Hear(SubSeq(msgs, 1, n), t)
              /\ doubtful' = (doubtful \/ n > 0)
        /\ misses' = 0
        /\ unsent' = TRUE
        /\ UNCHANGED <<dashVars, fwd, owed, missed, cut>>

(* Mutant: what happened while the dashboard did not answer is skipped. *)
FetchFailsSkips(t) ==
    LET st == Loaded(t)
    IN  /\ Reads(t)
        /\ fwd' = [st EXCEPT !.fail = IF @ < DownTrip THEN @ + 1 ELSE @, !.since = t]
        /\ rows' = <<>>
        /\ misses' = IF misses < DownTrip THEN misses + 1 ELSE misses
        /\ UNCHANGED <<alerts, polled, belief, spoken, owed, missed, cut, doubtful, unsent>>

(* The fetch failed: counted and saved, and said once it has failed often  *)
(* enough, if the send succeeds.                                           *)
FetchFails(t) ==
    LET st == Loaded(t)
        due == st.fail + 1 >= DownTrip /\ ~st.down
    IN  /\ Reads(t)
        /\ \E sent, heard \in BOOLEAN :
              /\ sent \/ heard => due
              /\ sent => heard
              /\ fwd' = [st EXCEPT !.fail = IF @ < DownTrip THEN @ + 1 ELSE @,
                                   !.down = @ \/ sent]
              /\ belief' = [belief EXCEPT !.dark = @ \/ heard]
              /\ doubtful' = (doubtful \/ (heard /\ ~sent))
              /\ unsent' = (due /\ ~sent)
        /\ misses' = IF misses < DownTrip THEN misses + 1 ELSE misses
        /\ UNCHANGED <<dashVars, spoken, owed, missed, cut>>

ForwarderInit ==
    /\ now = 0
    /\ alerts = <<>> /\ polled = 0 /\ rows = <<>>
    /\ fwd = NoFile
    /\ belief = [on |-> {}, dark |-> FALSE, stalled |-> FALSE]
    /\ spoken = <<>> /\ owed = {} /\ missed = {}
    /\ cut = FALSE /\ doubtful = FALSE /\ misses = 0 /\ unsent = FALSE

ForwarderNext ==
    \E t \in Readings :
        Raise(t) \/ DashboardRestarts(t) \/ RunSaved(t) \/ RunFails(t) \/ FetchFails(t)

ForwarderSpec == ForwarderInit /\ [][ForwarderNext]_forwarderVars

-----------------------------------------------------------------------------
(* api.py, of what the forwarder polls: "a condition that came and went    *)
(* between two polls is still delivered".  A push-worthy condition is      *)
(* owed from its raise; after a run whose sends all succeeded and that     *)
(* leaves no row of it for a later run, it was told, is on for the         *)
(* recipient, or was told of within the cooldown.  (A message heard from a *)
(* run that was not saved may make the two differ for good: nothing is     *)
(* said of that case.)                                                     *)
CameAndWentIsDelivered == doubtful \/ missed = {}

(* The same while no run was given fewer rows than there were: failed      *)
(* sends and fetches, a dashboard that restarts and one that stalls lose   *)
(* nothing of it.                                                          *)
ShortLogIsDelivered == cut \/ doubtful \/ missed = {}

(* dash-alerts.py: on a failed send "the next run retries the same edges   *)
(* rather than dropping them", and it "says so when the dashboard itself   *)
(* stops answering".  Unless a message was heard from a run that was not   *)
(* saved, what the state file says was said is what the recipient believes *)
(* of each key, of the dashboard's answering and of its polling; and after *)
(* DOWN_TRIP failed fetches only a failed send has left it in the dark.    *)
RecipientKnows ==
    ~doubtful =>
        /\ belief = [on |-> DOMAIN fwd.open, dark |-> fwd.down, stalled |-> fwd.stall]
        /\ misses >= DownTrip => belief.dark \/ unsent

==============================================================================
