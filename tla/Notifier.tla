------------------------------ MODULE Notifier -------------------------------
(***************************************************************************)
(* notify.Notifier with its delivery: the poll loop queues messages in the *)
(* outbox, and a task of its own, Monitor._deliver_notifications, sends    *)
(* them on a thread, one at a time, while polls go on queueing.            *)
(*                                                                         *)
(* A round of deliver() works through the list the outbox was when it      *)
(* began and judges "due" and "too old" by the time it began, however long *)
(* its sends take.  A failed message is due again RETRY_EVERY later.  The  *)
(* sender reports success only if every destination did, so a failure may  *)
(* still have been heard.  The outbox is in memory only.  A message is     *)
(* heard whole: there are fewer keys than notify.MAX_LINES.                *)
(***************************************************************************)
EXTENDS NotifyLedger, SequencesExt

CONSTANTS
    Keys,        \* the keys that can be pushed
    RetryEvery,  \* notify.RETRY_EVERY
    GiveUpAfter  \* notify.GIVE_UP_AFTER

ASSUME DeliveryAssumption == RetryEvery \in Nat \ {0} /\ GiveUpAfter \in Nat

VARIABLES
    outbox,   \* the messages waiting: when queued, when due, what they say
    worker,   \* the delivery task: asleep, or in a round that began at t0
              \* with batch yet to be looked at, or sending batch's head
    \* History.
    heard,    \* key |-> is it on, by the last line that reached the recipient
    queued,   \* every message queued, by the time it was,
    reached,  \* those heard at least once,
    dropped,  \* and those given up, with the age they had at it
    failed,   \* a send has failed,
    raised,   \* or raised, and
    lost      \* a process died with messages it had not sent

deliveryVars == <<outbox, worker>>
recipientVars == <<heard, queued, reached, dropped, failed, raised, lost>>
vars == <<now, ledgerVars, toldVars, deliveryVars, recipientVars>>

Asleep == [pc |-> "asleep", batch |-> <<>>, t0 |-> 0]

Message(lines, t) == [at |-> t, next |-> t, lines |-> lines]

-----------------------------------------------------------------------------
(* A poll: update(), which queues one message if there are any lines. *)
Poll(current, t) ==
    /\ Reads(t)
    /\ Update(current, t)
    /\ outbox' = IF AnyLine(news') THEN Append(outbox, Message(news', t)) ELSE outbox
    /\ queued' = IF AnyLine(news') THEN queued \cup {t} ELSE queued
    /\ UNCHANGED <<worker, heard, reached, dropped, failed, raised, lost>>

(* Mutant: the newest message goes first. *)
BeginRoundNewest ==
    /\ worker.pc = "asleep"
    /\ outbox # <<>>
    /\ worker' = [pc |-> "round", batch |-> Reverse(outbox), t0 |-> now]
    /\ UNCHANGED <<now, ledgerVars, toldVars, outbox, recipientVars>>

(* deliver(): take the time and a copy of the list. *)
BeginRound ==
    /\ worker.pc = "asleep"
    /\ outbox # <<>>
    /\ worker' = [pc |-> "round", batch |-> outbox, t0 |-> now]
    /\ UNCHANGED <<now, ledgerVars, toldVars, outbox, recipientVars>>

(* The next message of the round is not due. *)
SkipMessage ==
    /\ worker.pc = "round" /\ worker.batch # <<>>
    /\ Head(worker.batch).next > worker.t0
    /\ worker' = [worker EXCEPT !.batch = Tail(@)]
    /\ UNCHANGED <<now, ledgerVars, toldVars, outbox, recipientVars>>

(* It is, and goes to the sender's thread. *)
BeginSend ==
    /\ worker.pc = "round" /\ worker.batch # <<>>
    /\ Head(worker.batch).next <= worker.t0
    /\ worker' = [worker EXCEPT !.pc = "sending"]
    /\ UNCHANGED <<now, ledgerVars, toldVars, outbox, recipientVars>>

(* What the recipient makes of a message. *)
HeardAfter(lines) ==
    [k \in DOMAIN heard \cup Said(lines) \cup lines.cleared |->
        IF k \in lines.cleared THEN FALSE
        ELSE IF k \in Said(lines) THEN TRUE ELSE heard[k]]

Hears(msg) ==
    /\ heard' = HeardAfter(msg.lines)
    /\ reached' = reached \cup {msg.at}

NextMessage == worker' = [worker EXCEPT !.pc = "round", !.batch = Tail(@)]

(* Mutant: whatever is waiting goes with it. *)
WithoutAll(msg) == <<>>

(* list.remove: no two messages are of one time. *)
Without(msg) == RemoveAt(outbox, CHOOSE i \in DOMAIN outbox : outbox[i].at = msg.at)

(* Mutant: it is put back at the end of the queue. *)
RetriedLast(msg) ==
    Append(Without(msg), [msg EXCEPT !.next = worker.t0 + RetryEvery])

Retried(msg) ==
    [i \in DOMAIN outbox |->
        IF outbox[i].at = msg.at THEN [msg EXCEPT !.next = worker.t0 + RetryEvery]
        ELSE outbox[i]]

Age(msg) == worker.t0 - msg.at

(* Mutant: the age is counted from when it was last due. *)
TooOldSinceDue(msg) == worker.t0 - msg.next > GiveUpAfter

TooOld(msg) == Age(msg) > GiveUpAfter

(* Every destination took it. *)
SendOk ==
    LET msg == Head(worker.batch)
    IN  /\ worker.pc = "sending"
        /\ Hears(msg)
        /\ outbox' = Without(msg)
        /\ NextMessage
        /\ UNCHANGED <<now, ledgerVars, toldVars, queued, dropped, failed, raised, lost>>

(* Some destination did not: given up if old, or else due again. *)
SendFails ==
    LET msg == Head(worker.batch)
    IN  /\ worker.pc = "sending"
        /\ \/ Hears(msg)
           \/ UNCHANGED <<heard, reached>>
        /\ \/ /\ TooOld(msg)
              /\ outbox' = Without(msg)
              /\ dropped' = dropped \cup {[at |-> msg.at, age |-> Age(msg)]}
           \/ /\ ~TooOld(msg)
              /\ outbox' = Retried(msg)
              /\ UNCHANGED dropped
        /\ failed' = TRUE
        /\ NextMessage
        /\ UNCHANGED <<now, ledgerVars, toldVars, queued, raised, lost>>

(* The sender raised (Apprise missing, a thread refused): the exception    *)
(* ends the round, and the message stays as it was, heard or not.          *)
SendRaises ==
    /\ worker.pc = "sending"
    /\ \/ Hears(Head(worker.batch))
       \/ UNCHANGED <<heard, reached>>
    /\ worker' = [worker EXCEPT !.pc = "asleep", !.batch = <<>>]
    /\ raised' = TRUE
    /\ UNCHANGED <<now, ledgerVars, toldVars, outbox, queued, dropped, failed, lost>>

(* The round is over, and the task sleeps a second. *)
EndRound ==
    /\ worker.pc = "round" /\ worker.batch = <<>>
    /\ worker' = [worker EXCEPT !.pc = "asleep"]
    /\ UNCHANGED <<now, ledgerVars, toldVars, outbox, recipientVars>>

(* The process dies and another starts; what was being sent may have been  *)
(* heard.                                                                  *)
Restart(t) ==
    /\ Reads(t)
    /\ ReloadLedger(t)
    /\ outbox' = <<>>
    /\ worker' = Asleep
    /\ lost' = (lost \/ outbox # <<>>)
    /\ \/ worker.pc = "sending" /\ Hears(Head(worker.batch))
       \/ UNCHANGED <<heard, reached>>
    /\ UNCHANGED <<queued, dropped, failed, raised>>

Init ==
    /\ now = 0
    /\ InitLedger
    /\ outbox = <<>>
    /\ worker = Asleep
    /\ heard = <<>>
    /\ queued = {} /\ reached = {} /\ dropped = {}
    /\ failed = FALSE /\ raised = FALSE /\ lost = FALSE

Alerts == UNION {[S -> Levels] : S \in SUBSET Keys}

Next ==
    \/ \E t \in Readings :
          \/ Restart(t)
          \/ \E current \in Alerts : Poll(current, t)
    \/ BeginRound \/ SkipMessage \/ BeginSend \/ SendOk \/ SendFails \/ SendRaises \/ EndRound

Spec == Init /\ [][Next]_vars

-----------------------------------------------------------------------------
Waiting == {outbox[i].at : i \in DOMAIN outbox}

(* notify.py: what is sent is "raised, escalated, cleared".  While every   *)
(* send succeeds and no process dies with unsent messages, a recipient who *)
(* has heard everything queued believes of each key what was last said of  *)
(* it, however polls and sends interleave.                                 *)
HeardIsTold ==
    outbox = <<>> /\ ~failed /\ ~lost =>
        \A k \in DOMAIN told : k \in DOMAIN heard /\ heard[k] = told[k].open

(* notify.py: "a message that could not be delivered is retried this       *)
(* often, for this long".  Nothing queued vanishes: it waits, was heard,   *)
(* was given up older than GIVE_UP_AFTER, or died with its process; and    *)
(* what waits keeps its place through sends, retries and polls.            *)
NothingVanishes ==
    /\ ~lost => queued \subseteq
          Waiting \cup reached \cup {d.at : d \in {x \in dropped : x.age > GiveUpAfter}}
    /\ \A i, j \in DOMAIN outbox : i < j => outbox[i].at < outbox[j].at

(* "For this long", and no longer: unless a send raised, what is still     *)
(* there after a round is younger than GIVE_UP_AFTER and one retry.  A     *)
(* raise leaves its message, and those behind it, where they are.          *)
KeptNoLonger ==
    worker.pc = "asleep" /\ ~raised =>
        \A i \in DOMAIN outbox :
            outbox[i].at <= worker.t0
            => worker.t0 - outbox[i].at < GiveUpAfter + RetryEvery

==============================================================================
