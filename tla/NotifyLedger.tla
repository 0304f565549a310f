---------------------------- MODULE NotifyLedger -----------------------------
(***************************************************************************)
(* The bookkeeping half of notify.Notifier: update(), which turns a poll's *)
(* push-worthy alerts into the lines of at most one message, and what of   *)
(* it is kept in the store (the kv row notify_state) across restarts.      *)
(* Delivery of the message is module Notifier.                             *)
(***************************************************************************)
EXTENDS Clock, FiniteSets

CONSTANTS
    Cooldown,  \* config.NOTIFY_COOLDOWN
    Grace      \* Notifier.grace: the longest hold and three poll intervals

ASSUME LedgerAssumption == Cooldown \in Nat /\ Grace \in Nat

VARIABLES
    started,  \* Monitor.started: when this process was started
    open,     \* key |-> level announced and not yet cleared
    last,     \* key |-> when it was last announced
    saved,    \* the stored [open, last]
    news,     \* history: the lines of the latest poll, by kind
    told      \* history: key |-> what was last said of it, ever, and when

ledgerVars == <<started, open, last, saved>>
toldVars == <<news, told>>

Levels == {"warning", "serious", "critical"}

(* notify.RANK *)
Rank == [warning |-> 1, serious |-> 2, critical |-> 3]

NoNews == [announced |-> {}, escalated |-> {}, cleared |-> {}]

Empty == [open |-> <<>>, last |-> <<>>]

-----------------------------------------------------------------------------
(* Mutant: the cooldown holds for critical conditions too. *)
MayAnnounceAny(k, level, t) == k \notin DOMAIN last \/ t - last[k] >= Cooldown

(* may_announce: a key is re-announced at most once per cooldown, unless   *)
(* the condition is critical.                                              *)
MayAnnounce(k, level, t) ==
    \/ level = "critical"
    \/ k \notin DOMAIN last
    \/ t - last[k] >= Cooldown

(* The lines of update(current, t), current being key |-> level of the     *)
(* alerts marked notify.                                                   *)
Announced(current, t) ==
    {k \in DOMAIN current \ DOMAIN open : MayAnnounce(k, current[k], t)}

Escalated(current) ==
    {k \in DOMAIN current \cap DOMAIN open : Rank[current[k]] > Rank[open[k]]}

(* Mutant: no grace after a start. *)
ClearedAtOnce(current, t) == DOMAIN open \ DOMAIN current

(* Nothing is called cleared until every alert has had its hold again. *)
Cleared(current, t) ==
    IF t - started >= Grace THEN DOMAIN open \ DOMAIN current ELSE {}

Lines(current, t) ==
    [announced |-> Announced(current, t),
     escalated |-> Escalated(current),
     cleared |-> Cleared(current, t)]

Said(lines) == lines.announced \cup lines.escalated

AnyLine(lines) == Said(lines) \cup lines.cleared # {}

(* The two dicts after the lines. *)
OpenAfter(current, lines) ==
    [k \in (DOMAIN open \cup lines.announced) \ lines.cleared |->
        IF k \in Said(lines) THEN current[k] ELSE open[k]]

LastAfter(lines, t) ==
    [k \in DOMAIN last \cup Said(lines) |-> IF k \in Said(lines) THEN t ELSE last[k]]

(* What the recipient has been told, were every message delivered. *)
TellAfter(lines, t) ==
    [k \in DOMAIN told \cup Said(lines) |->
        IF k \in Said(lines) THEN [open |-> TRUE, at |-> t]
        ELSE IF k \in lines.cleared THEN [open |-> FALSE, at |-> told[k].at]
        ELSE told[k]]

(* update(): the dicts change in memory, are saved if there is any line,   *)
(* and the message is queued.                                              *)
Update(current, t) ==
    LET lines == Lines(current, t)
    IN  /\ open' = OpenAfter(current, lines)
        /\ last' = LastAfter(lines, t)
        /\ saved' = IF AnyLine(lines) THEN [open |-> open', last |-> last'] ELSE saved
        /\ news' = lines
        /\ told' = TellAfter(lines, t)
        /\ UNCHANGED started

(* update() when _save() raises (the disk is full, the database locked):   *)
(* the dicts have changed, nothing is stored and no message is queued.     *)
UpdateNotSaved(current, t) ==
    LET lines == Lines(current, t)
    IN  /\ AnyLine(lines)
        /\ open' = OpenAfter(current, lines)
        /\ last' = LastAfter(lines, t)
        /\ news' = NoNews
        /\ UNCHANGED <<saved, told, started>>

(* A poll that does not get as far as update(). *)
NoUpdate ==
    /\ news' = NoNews
    /\ UNCHANGED <<open, last, saved, told, started>>

(* Mutants: only one of the two dicts is read back. *)
ReloadLedgerLast(t) ==
    /\ started' = t
    /\ open' = <<>>
    /\ last' = saved.last
    /\ news' = NoNews
    /\ UNCHANGED <<saved, told>>

ReloadLedgerOpen(t) ==
    /\ started' = t
    /\ open' = saved.open
    /\ last' = <<>>
    /\ news' = NoNews
    /\ UNCHANGED <<saved, told>>

(* A new process at t reads the stored state back. *)
ReloadLedger(t) ==
    /\ started' = t
    /\ open' = saved.open
    /\ last' = saved.last
    /\ news' = NoNews
    /\ UNCHANGED <<saved, told>>

InitLedger ==
    /\ started = 0
    /\ open = <<>>
    /\ last = <<>>
    /\ saved = Empty
    /\ news = NoNews
    /\ told = <<>>

==============================================================================
