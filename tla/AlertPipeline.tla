---------------------------- MODULE AlertPipeline ----------------------------
(***************************************************************************)
(* What one poll does with what the rules raised, Monitor._judge: the      *)
(* transition and its event, the gate, Monitor.reconcile_alerts, which     *)
(* writes the edges into the event log, and Notifier.update.  The steps    *)
(* run in that order inside one poll; an exception from the store ends the *)
(* poll where it is (Monitor.run logs it and polls again), and a restart   *)
(* of the dashboard loses everything but the stored rows.                  *)
(***************************************************************************)
EXTENDS AlertGate, NotifyLedger

CONSTANTS
    LevelsOf,         \* key |-> the levels its rule may raise it at
    PushSkip,         \* config.PUSH_SKIP_KEYS
    WarningsPushed,   \* the keys with a prefix in NOTIFY_WARNING_PREFIXES
    FirstPollDelay,   \* by when after its start a process has judged a poll
    MaxFaults         \* bound of the model: polls the store fails in

ASSUME PipelineAssumption ==
    /\ LevelsOf \in [Keys -> SUBSET Levels]
    /\ PushSkip \subseteq Keys
    /\ WarningsPushed \subseteq Keys
    /\ FirstPollDelay \in Nat
    /\ MaxFaults \in Nat
    /\ \A k \in Keys : Grace >= Hold[k] + FirstPollDelay

VARIABLES
    active,       \* Monitor.active_alerts: the keys the event log has open
    fresh,        \* no poll has been judged since the process started
    \* History.
    logged,       \* key |-> the state of its latest row in the event log
    reached,      \* the latest poll got as far as Notifier.update
    faults,       \* the polls the store failed in, and
    unsaved       \* whether a failure was of the notifier's row

logVars == <<active, fresh, logged, reached, faults, unsaved>>
pipeVars == <<vars, ledgerVars, toldVars, logVars>>

(* should_notify *)
Notifies(k, level) ==
    /\ k \notin PushSkip
    /\ level \in {"critical", "serious"} \/ (level = "warning" /\ k \in WarningsPushed)

(* The rules' output: some keys, each at one of its levels. *)
RaisedAlerts == UNION {{f \in [S -> Levels] : \A k \in S : f[k] \in LevelsOf[k]} :
                          S \in SUBSET Keys}

(* The alerts the notifier looks at: shown, and marked notify. *)
Current(alerts) ==
    [k \in {x \in shown' : Notifies(x, alerts[x])} |-> alerts[k]]

-----------------------------------------------------------------------------
(* The log's latest row per key after rows for these edges. *)
LogAfter(raised, cleared) ==
    [k \in DOMAIN logged \cup raised \cup cleared |->
        IF k \in raised THEN "raised"
        ELSE IF k \in cleared THEN "cleared" ELSE logged[k]]

(* Mutant: what is gone stays among the active alerts. *)
ReconcileKeeps ==
    /\ logged' = LogAfter(shown' \ active, active \ shown')
    /\ active' = active \cup shown'

(* reconcile_alerts: log only the edges. *)
Reconcile ==
    /\ logged' = LogAfter(shown' \ active, active \ shown')
    /\ active' = shown'

(* reconcile_alerts when a log_event raises: the rows of the raised keys   *)
(* come first, and active_alerts is not replaced.                          *)
ReconcileFails ==
    /\ \E raised \in SUBSET (shown' \ active), cleared \in SUBSET (active \ shown') :
         /\ cleared # {} => raised = shown' \ active
         /\ <<raised, cleared>> # <<shown' \ active, active \ shown'>>
         /\ logged' = LogAfter(raised, cleared)
    /\ UNCHANGED active

(* One poll through the gate, no later after a start than FirstPollDelay. *)
GatePoll(alerts, signal, t) ==
    /\ fresh => t - started <= FirstPollDelay
    /\ Poll(DOMAIN alerts, signal, t)
    /\ fresh' = FALSE

(* The store keeps up: the whole of _judge. *)
JudgePoll(alerts, signal, t) ==
    /\ GatePoll(alerts, signal, t)
    /\ Reconcile
    /\ Update(Current(alerts), t)
    /\ reached' = TRUE
    /\ UNCHANGED <<faults, unsaved>>

Fault == faults < MaxFaults /\ faults' = faults + 1

(* The row of a transition's start or end cannot be written, or a rule     *)
(* cannot store what it has learned: the poll ends with the transition     *)
(* updated and the gate not applied.                                       *)
JudgeRulesFail(signal, t) ==
    /\ Fault
    /\ Reads(t)
    /\ transition' = UpdateTransition(signal, t)
    /\ NoUpdate
    /\ reached' = FALSE
    /\ UNCHANGED <<first_seen, shown, historyVars, active, fresh, logged, unsaved>>

(* An alert's row cannot be written: the notifier is not reached. *)
JudgeEventFails(alerts, signal, t) ==
    /\ Fault
    /\ GatePoll(alerts, signal, t)
    /\ ReconcileFails
    /\ NoUpdate
    /\ reached' = FALSE
    /\ UNCHANGED unsaved

(* The notifier's row cannot be written. *)
JudgeSaveFails(alerts, signal, t) ==
    /\ Fault
    /\ GatePoll(alerts, signal, t)
    /\ Reconcile
    /\ UpdateNotSaved(Current(alerts), t)
    /\ reached' = FALSE
    /\ unsaved' = TRUE

(* The process stops and a new one starts. *)
RestartDashboard(t) ==
    /\ Restart(t)
    /\ ReloadLedger(t)
    /\ active' = {}
    /\ fresh' = TRUE
    /\ reached' = FALSE
    /\ UNCHANGED <<logged, faults, unsaved>>

PipeInit ==
    /\ Init
    /\ InitLedger
    /\ active = {}
    /\ logged = <<>>
    /\ reached = FALSE
    /\ fresh = TRUE
    /\ faults = 0
    /\ unsaved = FALSE

PipeNext ==
    \E t \in Readings :
        \/ RestartDashboard(t)
        \/ \E signal \in BOOLEAN :
              \/ JudgeRulesFail(signal, t)
              \/ \E alerts \in RaisedAlerts :
                    \/ JudgePoll(alerts, signal, t)
                    \/ JudgeEventFails(alerts, signal, t)
                    \/ JudgeSaveFails(alerts, signal, t)

PipeSpec == PipeInit /\ [][PipeNext]_pipeVars

-----------------------------------------------------------------------------
(* The type invariant of the pipeline: announced levels are levels, what   *)
(* was announced was announced in the past, and the log and the ledger     *)
(* speak of known keys.                                                    *)
PipeTypeOK ==
    /\ started \in Nat /\ started <= now
    /\ DOMAIN open \subseteq Keys /\ \A k \in DOMAIN open : open[k] \in Levels
    /\ DOMAIN saved.open \subseteq Keys
    /\ \A k \in DOMAIN saved.open : saved.open[k] \in Levels
    /\ TimesUpToNow(last) /\ TimesUpToNow(saved.last)
    /\ DOMAIN told \subseteq Keys
    /\ active \subseteq Keys
    /\ DOMAIN logged \subseteq Keys
    /\ \A k \in DOMAIN logged : logged[k] \in {"raised", "cleared"}
    /\ fresh \in BOOLEAN /\ reached \in BOOLEAN /\ unsaved \in BOOLEAN
    /\ faults \in Nat

(* notify.py: "for a short while after start nothing is called cleared,    *)
(* because alerts wait out their hold times again before they reappear".   *)
(* Across restarts, store failures and transitions, a condition is only    *)
(* called cleared on a poll where it is absent, is held back by a          *)
(* transition, is shown at a level that is not pushed, or had gone away at *)
(* some point since the process started.                                   *)
ClearedMeansGone ==
    \A k \in news.cleared :
        \/ k \notin DOMAIN run
        \/ run[k] > started + FirstPollDelay
        \/ k \in TransitionKeys /\ Suppressing(transition, now)
        \/ k \in shown

(* docs/alerts.md: "What was announced is kept in the database, so a       *)
(* restart repeats nothing".  A condition the recipient was told is on is  *)
(* not announced again until it was told it is off, and nothing is called  *)
(* cleared that was not announced, in any number of restarts, as long as   *)
(* the notifier's row could be written.                                    *)
NothingRepeated ==
    [][~unsaved' =>
        /\ \A k \in news'.announced : k \notin DOMAIN told \/ ~told[k].open
        /\ \A k \in news'.cleared : k \in DOMAIN told /\ told[k].open]_pipeVars

(* docs/alerts.md: "An alert that clears and comes back is announced again *)
(* at most every 30 minutes (`NOTIFY_COOLDOWN`), unless it is critical".   *)
(* Counted from the last time the recipient heard of it, restarts and      *)
(* failed writes in between included.                                      *)
CooldownKept ==
    [][\A k \in news'.announced :
        open'[k] # "critical" /\ k \in DOMAIN told
        => now' - told[k].at >= Cooldown]_pipeVars

(* notify.py: an alert held back by the cooldown "is announced once the    *)
(* cooldown is over, if it still holds".  After every poll that reached    *)
(* the notifier, a pushed alert on the page is either announced, or was    *)
(* announced less than a cooldown ago and is not critical.                 *)
ShownIsAnnounced ==
    reached /\ ~unsaved =>
        \A k \in shown :
            (\A level \in LevelsOf[k] : Notifies(k, level)) =>
                \/ k \in DOMAIN told /\ told[k].open
                \/ /\ k \in DOMAIN told
                   /\ now - told[k].at < Cooldown
                   /\ LevelsOf[k] # {"critical"}

(* Monitor.reconcile_alerts: "log only edges, so the event log reads as a  *)
(* history".  While the store does not fail, the latest row of everything  *)
(* on the page is a raise, however often it came and went and whatever     *)
(* earlier processes left in the log.                                      *)
ShownIsLogged ==
    faults = 0 /\ reached =>
        \A k \in shown : k \in DOMAIN logged /\ logged[k] = "raised"

==============================================================================
