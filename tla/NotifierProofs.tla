---------------------------- MODULE NotifierProofs ----------------------------
(***************************************************************************)
(* The delivery of notifications, for any keys, clock and limits: what is  *)
(* queued does not vanish and is not kept for ever, and a recipient whose  *)
(* every message arrives believes what was last said of each key, however  *)
(* polls, rounds, failures and restarts interleave.                        *)
(***************************************************************************)
EXTENDS Notifier, SequenceTheorems, TLAPS

Texts == [announced : SUBSET Keys, escalated : SUBSET Keys, cleared : SUBSET Keys]

Messages == [at : Nat, next : Nat, lines : Texts]

Workers == [pc : {"asleep", "round", "sending"}, batch : Seq(Messages), t0 : Nat]

Ordered(s) == \A i, j \in DOMAIN s : i < j => s[i].at < s[j].at

(* The outbox holds messages of the past in the order they were queued,    *)
(* and what a round has yet to look at is in it, as it was.                *)
QueueInv ==
    /\ now \in Nat
    /\ DOMAIN open \subseteq Keys /\ DOMAIN saved.open \subseteq Keys
    /\ outbox \in Seq(Messages)
    /\ Ordered(outbox)
    /\ \A i \in DOMAIN outbox : outbox[i].at <= now
    /\ worker \in Workers
    /\ worker.t0 <= now
    /\ Ordered(worker.batch)
    /\ \A i \in DOMAIN worker.batch : \E j \in DOMAIN outbox : outbox[j] = worker.batch[i]
    /\ worker.pc = "asleep" => worker.batch = <<>>
    /\ worker.pc = "sending" => worker.batch # <<>>

-----------------------------------------------------------------------------
(* Sequences: their elements, one taken out, and the first one taken off.  *)
LEMMA SeqElements ==
    ASSUME NEW S, NEW s \in Seq(S)
    PROVE  DOMAIN s = 1 .. Len(s) /\ Len(s) \in Nat /\ \A i \in DOMAIN s : s[i] \in S
OBVIOUS

LEMMA MessageFields ==
    ASSUME NEW s \in Seq(Messages)
    PROVE  /\ \A i \in DOMAIN s : s[i] \in Messages
           /\ \A m \in Messages : m.at \in Nat /\ m.next \in Nat /\ m.lines \in Texts
BY SeqElements DEF Messages

LEMMA RemoveAtProperties ==
    ASSUME NEW S, NEW s \in Seq(S), NEW p \in 1 .. Len(s)
    PROVE  /\ RemoveAt(s, p) \in Seq(S)
           /\ Len(RemoveAt(s, p)) = Len(s) - 1
           /\ DOMAIN RemoveAt(s, p) = 1 .. Len(s) - 1
           /\ \A j \in 1 .. Len(s) - 1 :
                 RemoveAt(s, p)[j] = IF j < p THEN s[j] ELSE s[j + 1]
<1> DEFINE a == SubSeq(s, 1, p - 1)
           b == SubSeq(s, p + 1, Len(s))
<1>1. a \in Seq(S) /\ Len(a) = p - 1 /\ \A j \in 1 .. p - 1 : a[j] = s[j]
  OBVIOUS
<1>2. b \in Seq(S) /\ Len(b) = Len(s) - p /\ \A j \in 1 .. Len(s) - p : b[j] = s[p + j]
  OBVIOUS
<1>3. RemoveAt(s, p) = a \o b
  BY DEF RemoveAt
<1> HIDE DEF a, b
<1>4. /\ a \o b \in Seq(S) /\ Len(a \o b) = Len(s) - 1
      /\ \A j \in 1 .. Len(s) - 1 :
            (a \o b)[j] = IF j <= Len(a) THEN a[j] ELSE b[j - Len(a)]
  <2>1. Len(a) + Len(b) = Len(s) - 1
    BY <1>1, <1>2
  <2>2. /\ a \o b \in Seq(S) /\ Len(a \o b) = Len(a) + Len(b)
        /\ \A j \in 1 .. Len(a) + Len(b) :
              (a \o b)[j] = IF j <= Len(a) THEN a[j] ELSE b[j - Len(a)]
    BY <1>1, <1>2, ConcatProperties, Zenon
  <2> QED
    BY <2>1, <2>2
<1>5. \A j \in 1 .. Len(s) - 1 : (a \o b)[j] = IF j < p THEN s[j] ELSE s[j + 1]
  <2> TAKE j \in 1 .. Len(s) - 1
  <2>1. CASE j < p
    BY <1>1, <1>4, <2>1
  <2>2. CASE ~(j < p)
    <3>1. j - Len(a) \in 1 .. Len(s) - p /\ p + (j - Len(a)) = j + 1
      BY <1>1, <2>2
    <3> QED
      BY <1>1, <1>2, <1>4, <2>2, <3>1
  <2> QED
    BY <2>1, <2>2
<1>6. DOMAIN (a \o b) = 1 .. Len(s) - 1
  BY <1>4
<1> QED
  BY <1>3, <1>4, <1>5, <1>6

LEMMA TailProperties ==
    ASSUME NEW S, NEW s \in Seq(S), s # <<>>
    PROVE  /\ Tail(s) \in Seq(S) /\ DOMAIN Tail(s) = 1 .. Len(s) - 1
           /\ \A i \in 1 .. Len(s) - 1 : Tail(s)[i] = s[i + 1]
           /\ 1 \in DOMAIN s /\ Head(s) = s[1] /\ Head(s) \in S
           /\ DOMAIN s = 1 .. Len(s) /\ Len(s) \in Nat
OBVIOUS

(* A message a round has yet to look at is at one place of the outbox.     *)
LEMMA PlaceOf ==
    ASSUME QueueInv, NEW p \in DOMAIN outbox
    PROVE  (CHOOSE i \in DOMAIN outbox : outbox[i].at = outbox[p].at) = p
<1>1. DOMAIN outbox = 1 .. Len(outbox) /\ \A i \in DOMAIN outbox : outbox[i].at \in Nat
  BY SeqElements, MessageFields DEF QueueInv
<1>2. \A i \in DOMAIN outbox : outbox[i].at = outbox[p].at => i = p
  BY <1>1 DEF QueueInv, Ordered
<1> QED
  BY <1>2

(* The outbox without the message that the round is at.                    *)
LEMMA WithoutHead ==
    ASSUME QueueInv, worker.batch # <<>>
    PROVE  \E p \in 1 .. Len(outbox) :
              /\ outbox[p] = Head(worker.batch)
              /\ Without(Head(worker.batch)) = RemoveAt(outbox, p)
<1>1. /\ 1 \in DOMAIN worker.batch /\ Head(worker.batch) = worker.batch[1]
      /\ DOMAIN outbox = 1 .. Len(outbox)
  BY TailProperties DEF QueueInv, Workers
<1>2. PICK p \in 1 .. Len(outbox) : outbox[p] = Head(worker.batch)
  BY <1>1 DEF QueueInv
<1>3. (CHOOSE i \in DOMAIN outbox : outbox[i].at = Head(worker.batch).at) = p
  BY <1>1, <1>2, PlaceOf
<1>4. Without(Head(worker.batch)) = RemoveAt(outbox, p)
  BY <1>3 DEF Without
<1> QED
  BY <1>2, <1>4

(* The rest of a round is later than the message it is at.                 *)
LEMMA RestIsLater ==
    ASSUME QueueInv, worker.batch # <<>>
    PROVE  /\ Tail(worker.batch) \in Seq(Messages)
           /\ Ordered(Tail(worker.batch))
           /\ \A i \in DOMAIN Tail(worker.batch) :
                 /\ Tail(worker.batch)[i].at # Head(worker.batch).at
                 /\ \E j \in DOMAIN outbox : outbox[j] = Tail(worker.batch)[i]
<1> DEFINE b == worker.batch
<1>1. b \in Seq(Messages) /\ b # <<>>
  BY DEF QueueInv, Workers
<1>2. /\ Tail(b) \in Seq(Messages) /\ DOMAIN Tail(b) = 1 .. Len(b) - 1
      /\ \A i \in 1 .. Len(b) - 1 : Tail(b)[i] = b[i + 1]
      /\ 1 \in DOMAIN b /\ Head(b) = b[1] /\ DOMAIN b = 1 .. Len(b) /\ Len(b) \in Nat
  BY <1>1, TailProperties
<1>3. \A i \in DOMAIN b : b[i].at \in Nat
  BY <1>1, MessageFields
<1>4. Ordered(b) /\ \A i \in DOMAIN b : \E j \in DOMAIN outbox : outbox[j] = b[i]
  BY DEF QueueInv
<1> HIDE DEF b
<1>5. Ordered(Tail(b))
  BY <1>2, <1>4 DEF Ordered
<1>6. \A i \in DOMAIN Tail(b) : i + 1 \in DOMAIN b /\ Tail(b)[i] = b[i + 1] /\ 1 < i + 1
  BY <1>2
<1>7. \A i \in DOMAIN Tail(b) : Tail(b)[i].at # Head(b).at
  BY <1>2, <1>3, <1>4, <1>6 DEF Ordered
<1> QED
  BY <1>2, <1>4, <1>5, <1>6, <1>7 DEF b

-----------------------------------------------------------------------------
(* What has been sent or given up leaves, and the others keep their order. *)
LEMMA WithoutElements ==
    ASSUME QueueInv, worker.batch # <<>>,
           NEW out, out = Without(Head(worker.batch))
    PROVE  /\ out \in Seq(Messages)
           /\ Ordered(out)
           /\ \A i \in DOMAIN out : \E j \in DOMAIN outbox :
                 out[i] = outbox[j] /\ outbox[j].at # Head(worker.batch).at
           /\ \A j \in DOMAIN outbox :
                 outbox[j].at = Head(worker.batch).at \/ \E i \in DOMAIN out : out[i] = outbox[j]
<1> DEFINE msg == Head(worker.batch)
           n == Len(outbox)
<1>1. PICK p \in 1 .. n : outbox[p] = msg /\ out = RemoveAt(outbox, p)
  BY WithoutHead
<1>2. /\ outbox \in Seq(Messages) /\ DOMAIN outbox = 1 .. n /\ n \in Nat
      /\ \A i \in DOMAIN outbox : outbox[i].at \in Nat
  BY SeqElements, MessageFields DEF QueueInv
<1>3. /\ out \in Seq(Messages) /\ DOMAIN out = 1 .. n - 1
      /\ \A j \in 1 .. n - 1 : out[j] = IF j < p THEN outbox[j] ELSE outbox[j + 1]
  BY <1>1, <1>2, RemoveAtProperties
<1> HIDE DEF msg, n
<1>4. \A i, j \in 1 .. n : i < j => outbox[i].at < outbox[j].at
  BY <1>2 DEF QueueInv, Ordered
<1>5. Ordered(out)
  BY <1>2, <1>3, <1>4 DEF Ordered
<1>6. \A i \in DOMAIN out : \E j \in DOMAIN outbox :
          out[i] = outbox[j] /\ outbox[j].at # msg.at
  <2> TAKE i \in DOMAIN out
  <2> DEFINE j == IF i < p THEN i ELSE i + 1
  <2>1. j \in 1 .. n /\ out[i] = outbox[j] /\ (j < p \/ p < j)
    BY <1>2, <1>3
  <2> HIDE DEF j
  <2>2. outbox[j].at # outbox[p].at
    BY <1>2, <1>4, <2>1
  <2> QED
    BY <1>1, <1>2, <2>1, <2>2
<1>7. \A j \in DOMAIN outbox : outbox[j].at = msg.at \/ \E i \in DOMAIN out : out[i] = outbox[j]
  <2> TAKE j \in DOMAIN outbox
  <2>1. CASE j < p
    <3>1. j \in DOMAIN out
      BY <1>2, <1>3, <2>1
    <3>2. out[j] = outbox[j]
      BY <1>3, <2>1, <3>1
    <3> QED
      BY <3>1, <3>2
  <2>2. CASE p < j
    <3>1. j - 1 \in DOMAIN out /\ ~(j - 1 < p) /\ (j - 1) + 1 = j
      BY <1>2, <1>3, <2>2
    <3>2. out[j - 1] = outbox[j]
      BY <1>3, <3>1
    <3> QED
      BY <3>1, <3>2
  <2>3. CASE j = p
    BY <1>1, <2>3
  <2> QED
    BY <1>2, <2>1, <2>2, <2>3
<1> QED
  BY <1>3, <1>5, <1>6, <1>7 DEF msg

(* What failed is due again later, at its place.                           *)
LEMMA RetriedElements ==
    ASSUME QueueInv, worker.batch # <<>>,
           NEW out, out = Retried(Head(worker.batch))
    PROVE  /\ out \in Seq(Messages) /\ DOMAIN out = DOMAIN outbox
           /\ Ordered(out)
           /\ \A i \in DOMAIN outbox :
                 /\ out[i].at = outbox[i].at /\ out[i].lines = outbox[i].lines
                 /\ IF outbox[i].at = Head(worker.batch).at
                    THEN out[i].next = worker.t0 + RetryEvery
                    ELSE out[i] = outbox[i]
<1> DEFINE msg == Head(worker.batch)
           n == Len(outbox)
<1>1. PICK p \in 1 .. n : outbox[p] = msg
  BY WithoutHead
<1>2. /\ outbox \in Seq(Messages) /\ DOMAIN outbox = 1 .. n /\ n \in Nat
      /\ \A i \in DOMAIN outbox : outbox[i].at \in Nat /\ outbox[i] \in Messages
  BY SeqElements, MessageFields DEF QueueInv
<1>3. worker.t0 + RetryEvery \in Nat
  BY DeliveryAssumption DEF QueueInv, Workers
<1>4. \A i \in 1 .. n : outbox[i].at = msg.at => outbox[i] = msg
  BY <1>1, <1>2 DEF QueueInv, Ordered
<1> DEFINE later == [msg EXCEPT !.next = worker.t0 + RetryEvery]
<1>5. /\ later \in Messages /\ later.at = msg.at /\ later.lines = msg.lines
      /\ later.next = worker.t0 + RetryEvery
  BY <1>1, <1>2, <1>3 DEF Messages
<1>6. out = [i \in 1 .. n |-> IF outbox[i].at = msg.at THEN later ELSE outbox[i]]
  BY <1>2 DEF Retried
<1> HIDE DEF msg, n, later
<1>7. out \in Seq(Messages) /\ DOMAIN out = 1 .. n
  BY <1>2, <1>5, <1>6
<1>8. \A i \in 1 .. n : /\ out[i].at = outbox[i].at /\ out[i].lines = outbox[i].lines
                       /\ IF outbox[i].at = msg.at
                          THEN out[i].next = worker.t0 + RetryEvery
                          ELSE out[i] = outbox[i]
  BY <1>4, <1>5, <1>6
<1>9. Ordered(out)
  BY <1>2, <1>7, <1>8 DEF QueueInv, Ordered
<1> QED
  BY <1>2, <1>7, <1>8, <1>9 DEF msg

(* A new message is later than those that wait. *)
LEMMA AppendElements ==
    ASSUME QueueInv, NEW t \in Nat, now < t, NEW lines \in Texts,
           NEW out, out = Append(outbox, Message(lines, t))
    PROVE  /\ out \in Seq(Messages) /\ DOMAIN out = 1 .. Len(outbox) + 1
           /\ Ordered(out)
           /\ \A i \in DOMAIN outbox : i \in DOMAIN out /\ out[i] = outbox[i]
           /\ out[Len(outbox) + 1] = Message(lines, t)
           /\ DOMAIN outbox = 1 .. Len(outbox) /\ Len(outbox) \in Nat
<1> DEFINE n == Len(outbox)
           msg == Message(lines, t)
<1>1. /\ outbox \in Seq(Messages) /\ DOMAIN outbox = 1 .. n /\ n \in Nat
      /\ \A i \in DOMAIN outbox : outbox[i].at \in Nat /\ outbox[i].at <= now
  BY SeqElements, MessageFields DEF QueueInv
<1>2. msg \in Messages /\ msg.at = t
  BY DEF Message, Messages
<1> HIDE DEF msg
<1>3. /\ out \in Seq(Messages) /\ DOMAIN out = 1 .. n + 1
      /\ \A i \in 1 .. n : out[i] = outbox[i]
      /\ out[n + 1] = msg
  BY <1>1, <1>2, AppendProperties DEF msg
<1> HIDE DEF n
<1>4. Ordered(out)
  <2> SUFFICES ASSUME NEW i \in 1 .. n + 1, NEW j \in 1 .. n + 1, i < j
               PROVE  out[i].at < out[j].at
    BY <1>3 DEF Ordered
  <2>1. i \in 1 .. n /\ out[i] = outbox[i] /\ out[i].at \in Nat /\ out[i].at <= now
    BY <1>1, <1>3
  <2>2. CASE j = n + 1
    BY <1>2, <1>3, <2>1, <2>2 DEF QueueInv
  <2>3. CASE j # n + 1
    BY <1>1, <1>3, <2>1, <2>3 DEF QueueInv, Ordered
  <2> QED
    BY <2>2, <2>3
<1> QED
  BY <1>1, <1>3, <1>4 DEF msg, n

-----------------------------------------------------------------------------
(* The lines of a message are of known keys; a key is not both said to be  *)
(* on and called cleared.                                                  *)
LEMMA UpdateTyped ==
    ASSUME QueueInv, NEW current \in Alerts, NEW t, Update(current, t)
    PROVE  /\ news' \in Texts
           /\ Said(news') \cap news'.cleared = {}
           /\ DOMAIN open' \subseteq Keys /\ DOMAIN saved'.open \subseteq Keys
<1>1. DOMAIN current \subseteq Keys
  BY DEF Alerts
<1>2. /\ news' = Lines(current, t)
      /\ open' = OpenAfter(current, news')
      /\ saved' = IF AnyLine(news') THEN [open |-> open', last |-> last'] ELSE saved
  BY DEF Update
<1>3. /\ Announced(current, t) \subseteq DOMAIN current
      /\ Escalated(current) \subseteq DOMAIN current
      /\ Cleared(current, t) \subseteq DOMAIN open \ DOMAIN current
  BY DEF Announced, Escalated, Cleared
<1>4. news' \in Texts
  BY <1>1, <1>2, <1>3 DEF Lines, Texts, QueueInv
<1>5. Said(news') \cap news'.cleared = {}
  BY <1>2, <1>3 DEF Lines, Said
<1>6. DOMAIN open' \subseteq Keys
  BY <1>2, <1>4 DEF OpenAfter, Texts, QueueInv
<1>7. DOMAIN saved'.open \subseteq Keys
  BY <1>2, <1>6 DEF QueueInv
<1> QED
  BY <1>4, <1>5, <1>6, <1>7

LEMMA ReadingIsLater ==
    ASSUME now \in Nat, NEW t \in Readings
    PROVE  t \in Nat /\ now < t
  BY GapsAssumption DEF Readings

(* What a send that is over leaves of the round. *)
LEMMA NextMessageTyped ==
    ASSUME QueueInv, worker.pc = "sending", NextMessage
    PROVE  /\ worker.batch # <<>>
           /\ worker' \in Workers /\ worker'.t0 = worker.t0
           /\ worker'.batch = Tail(worker.batch) /\ worker'.pc = "round"
<1>1. worker.batch # <<>> /\ worker \in Workers
  BY DEF QueueInv
<1>2. Tail(worker.batch) \in Seq(Messages)
  BY <1>1, RestIsLater
<1> QED
  BY <1>1, <1>2 DEF NextMessage, Workers

(* Notifier.outbox is in the order it was queued, and what the delivery    *)
(* task has read of it, and not yet attempted, is still in it.             *)
THEOREM NotifierQueue == Spec => []QueueInv
<1>1. Init => QueueInv
  BY DEF Init, InitLedger, Empty, Asleep, QueueInv, Workers, Ordered
<1>2. QueueInv /\ [Next]_vars => QueueInv'
  <2> SUFFICES ASSUME QueueInv, [Next]_vars PROVE QueueInv'
    OBVIOUS
  <2>1. ASSUME NEW t \in Readings, Restart(t) PROVE QueueInv'
    <3>1. t \in Nat /\ now' = t
      BY <2>1, ReadingIsLater DEF Restart, Reads, QueueInv
    <3>2. /\ open' = saved.open /\ saved' = saved
          /\ outbox' = <<>> /\ worker' = Asleep
      BY <2>1 DEF Restart, ReloadLedger
    <3> QED
      BY <3>1, <3>2 DEF QueueInv, Asleep, Workers, Ordered
  <2>2. ASSUME NEW t \in Readings, NEW current \in Alerts, Poll(current, t)
        PROVE  QueueInv'
    <3>1. t \in Nat /\ now < t /\ now' = t /\ now \in Nat
      BY <2>2, ReadingIsLater DEF Poll, Reads, QueueInv
    <3>2. /\ news' \in Texts /\ DOMAIN open' \subseteq Keys /\ DOMAIN saved'.open \subseteq Keys
      BY <2>2, UpdateTyped DEF Poll
    <3>3. worker' = worker /\ worker \in Workers /\ worker.t0 \in Nat /\ worker.t0 <= now
      BY <2>2 DEF Poll, QueueInv, Workers
    <3>4. /\ outbox' \in Seq(Messages) /\ Ordered(outbox')
          /\ \A i \in DOMAIN outbox' : outbox'[i].at <= t
          /\ \A i \in DOMAIN outbox : i \in DOMAIN outbox' /\ outbox'[i] = outbox[i]
      <4>1. \A i \in DOMAIN outbox : outbox[i].at \in Nat /\ outbox[i].at <= t
        BY <3>1, MessageFields, SeqElements DEF QueueInv
      <4>2. CASE outbox' = outbox
        BY <4>1, <4>2 DEF QueueInv
      <4>3. CASE outbox' = Append(outbox, Message(news', t))
        <5>1. /\ outbox' \in Seq(Messages) /\ DOMAIN outbox' = 1 .. Len(outbox) + 1
              /\ Ordered(outbox')
              /\ \A i \in DOMAIN outbox : i \in DOMAIN outbox' /\ outbox'[i] = outbox[i]
              /\ outbox'[Len(outbox) + 1] = Message(news', t)
              /\ DOMAIN outbox = 1 .. Len(outbox) /\ Len(outbox) \in Nat
          BY <3>1, <3>2, <4>3, AppendElements
        <5>2. Message(news', t).at <= t
          BY <3>1 DEF Message
        <5>3. \A i \in DOMAIN outbox' : i \in DOMAIN outbox \/ i = Len(outbox) + 1
          BY <5>1
        <5> QED
          BY <4>1, <5>1, <5>2, <5>3
      <4> QED
        BY <2>2, <4>2, <4>3 DEF Poll
    <3>5. \A i \in DOMAIN worker.batch : \E j \in DOMAIN outbox' : outbox'[j] = worker.batch[i]
      BY <3>4 DEF QueueInv
    <3>6. worker.t0 <= t
      BY <3>1, <3>3
    <3> QED
      BY <3>1, <3>2, <3>3, <3>4, <3>5, <3>6 DEF QueueInv, Ordered
  <2>3. CASE BeginRound
    <3>1. worker' = [pc |-> "round", batch |-> outbox, t0 |-> now]
      BY <2>3 DEF BeginRound
    <3> QED
      BY <2>3, <3>1 DEF BeginRound, ledgerVars, QueueInv, Workers, Ordered
  <2>4. CASE SkipMessage
    <3>1. /\ worker.batch # <<>> /\ worker' = [worker EXCEPT !.batch = Tail(worker.batch)]
          /\ worker.pc = "round" /\ UNCHANGED <<now, open, saved, outbox>>
      BY <2>4 DEF SkipMessage, ledgerVars
    <3>2. /\ worker'.batch = Tail(worker.batch) /\ worker'.t0 = worker.t0
          /\ worker'.pc = "round" /\ worker' \in Workers
      BY <3>1, RestIsLater DEF QueueInv, Workers
    <3> QED
      BY <3>1, <3>2, RestIsLater DEF QueueInv, Ordered
  <2>5. CASE BeginSend
    <3>1. /\ worker.batch # <<>> /\ worker' = [worker EXCEPT !.pc = "sending"]
          /\ UNCHANGED <<now, open, saved, outbox>>
      BY <2>5 DEF BeginSend, ledgerVars
    <3> QED
      BY <3>1 DEF QueueInv, Workers, Ordered
  <2>6. ASSUME SendOk \/ SendFails PROVE QueueInv'
    <3>1. /\ worker.pc = "sending" /\ NextMessage
          /\ UNCHANGED <<now, open, saved>>
          /\ \/ outbox' = Without(Head(worker.batch))
             \/ outbox' = Retried(Head(worker.batch))
      BY <2>6 DEF SendOk, SendFails, ledgerVars
    <3>2. /\ worker.batch # <<>>
          /\ worker' \in Workers /\ worker'.t0 = worker.t0
          /\ worker'.batch = Tail(worker.batch) /\ worker'.pc = "round"
      BY <3>1, NextMessageTyped
    <3>3. /\ outbox' \in Seq(Messages) /\ Ordered(outbox')
          /\ \A i \in DOMAIN outbox' : \E j \in DOMAIN outbox : outbox'[i].at = outbox[j].at
          /\ \A j \in DOMAIN outbox :
                outbox[j].at = Head(worker.batch).at
                \/ \E i \in DOMAIN outbox' : outbox'[i] = outbox[j]
      <4>1. CASE outbox' = Without(Head(worker.batch))
        BY <3>2, <4>1, WithoutElements
      <4>2. CASE outbox' = Retried(Head(worker.batch))
        BY <3>2, <4>2, RetriedElements
      <4> QED
        BY <3>1, <4>1, <4>2
    <3>4. \A i \in DOMAIN outbox' : outbox'[i].at <= now
      BY <3>3 DEF QueueInv
    <3>5. \A i \in DOMAIN Tail(worker.batch) :
              \E j \in DOMAIN outbox' : outbox'[j] = Tail(worker.batch)[i]
      <4> TAKE i \in DOMAIN Tail(worker.batch)
      <4>1. PICK j \in DOMAIN outbox : outbox[j] = Tail(worker.batch)[i]
        BY <3>2, RestIsLater
      <4>2. outbox[j].at # Head(worker.batch).at
        BY <3>2, <4>1, RestIsLater
      <4> QED
        BY <3>3, <4>1, <4>2
    <3> QED
      BY <3>1, <3>2, <3>3, <3>4, <3>5, RestIsLater DEF QueueInv, Ordered
  <2>7. CASE SendRaises
    <3>1. /\ worker' = [worker EXCEPT !.pc = "asleep", !.batch = <<>>]
          /\ UNCHANGED <<now, open, saved, outbox>>
      BY <2>7 DEF SendRaises, ledgerVars
    <3>2. worker' \in Workers /\ worker'.batch = <<>> /\ worker'.t0 = worker.t0
          /\ worker'.pc = "asleep"
      <4>1. worker \in Workers /\ <<>> \in Seq(Messages)
        BY DEF QueueInv
      <4> QED
        BY <3>1, <4>1 DEF Workers
    <3> QED
      BY <3>1, <3>2 DEF QueueInv, Ordered
  <2>8. CASE EndRound
    <3>1. /\ worker' = [worker EXCEPT !.pc = "asleep"] /\ worker.batch = <<>>
          /\ UNCHANGED <<now, open, saved, outbox>>
      BY <2>8 DEF EndRound, ledgerVars
    <3> QED
      BY <3>1 DEF QueueInv, Workers, Ordered
  <2>9. CASE UNCHANGED vars
    BY <2>9 DEF vars, ledgerVars, deliveryVars, QueueInv, Ordered
  <2> QED
    BY <2>1, <2>2, <2>3, <2>4, <2>5, <2>6, <2>7, <2>8, <2>9 DEF Next
<1> QED
  BY <1>1, <1>2, PTL DEF Spec

-----------------------------------------------------------------------------
(* What "retried this often, for this long" rests on: no message is due    *)
(* later than the limits allow, and one a round has passed was not due, or *)
(* is due again after the round's time.                                    *)
KeepInv ==
    /\ \A i \in DOMAIN outbox : outbox[i].next <= outbox[i].at + GiveUpAfter + RetryEvery
    /\ ~raised =>
          \A i \in DOMAIN outbox :
              outbox[i].at <= worker.t0 =>
                  \/ worker.t0 < outbox[i].next
                  \/ \E j \in DOMAIN worker.batch : worker.batch[j] = outbox[i]

(* What a recipient will believe of k when the outbox is empty: the last   *)
(* message waiting that speaks of it says so, or else it was heard.        *)
Mentions(msg, k) == k \in Said(msg.lines) \cup msg.lines.cleared

Says(msg, k) == IF k \in msg.lines.cleared THEN FALSE ELSE TRUE

WillBelieve(k, b) ==
    \/ \E i \in DOMAIN outbox :
          /\ Mentions(outbox[i], k) /\ Says(outbox[i], k) = b
          /\ \A j \in DOMAIN outbox : i < j => ~Mentions(outbox[j], k)
    \/ /\ \A i \in DOMAIN outbox : ~Mentions(outbox[i], k)
       /\ k \in DOMAIN heard /\ heard[k] = b

(* While no send has failed, a round works from the front of the outbox,   *)
(* all of which is due.                                                    *)
FrontInv ==
    /\ \A i \in DOMAIN outbox : outbox[i].next = outbox[i].at
    /\ \A i \in DOMAIN worker.batch :
          /\ i \in DOMAIN outbox /\ worker.batch[i] = outbox[i]
          /\ worker.batch[i].at <= worker.t0

HeardInv ==
    ~failed /\ ~lost => FrontInv /\ \A k \in DOMAIN told : WillBelieve(k, told[k].open)

-----------------------------------------------------------------------------
(* Times are numbers. *)
LEMMA TimesAreNat ==
    ASSUME QueueInv
    PROVE  /\ \A i \in DOMAIN outbox : outbox[i].at \in Nat /\ outbox[i].next \in Nat
           /\ \A i \in DOMAIN worker.batch :
                 worker.batch[i].at \in Nat /\ worker.batch[i].next \in Nat
           /\ worker.t0 \in Nat /\ now \in Nat /\ worker.t0 <= now
           /\ RetryEvery \in Nat /\ RetryEvery > 0 /\ GiveUpAfter \in Nat
<1>1. outbox \in Seq(Messages) /\ worker.batch \in Seq(Messages) /\ worker.t0 \in Nat
  BY DEF QueueInv, Workers
<1> QED
  BY <1>1, MessageFields, DeliveryAssumption DEF QueueInv

(* A send that is over takes its message away, or puts it off past the     *)
(* time of the round.                                                      *)
LEMMA SendKeeps ==
    ASSUME QueueInv, KeepInv, SendOk \/ SendFails
    PROVE  KeepInv'
<1> DEFINE msg == Head(worker.batch)
<1>1. worker.pc = "sending" /\ NextMessage /\ raised' = raised
  BY DEF SendOk, SendFails
<1>2. /\ worker.batch # <<>> /\ worker'.batch = Tail(worker.batch)
      /\ worker'.t0 = worker.t0
  BY <1>1, NextMessageTyped
<1>3. /\ DOMAIN worker.batch = 1 .. Len(worker.batch) /\ Len(worker.batch) \in Nat
      /\ DOMAIN Tail(worker.batch) = 1 .. Len(worker.batch) - 1
      /\ \A i \in 1 .. Len(worker.batch) - 1 : Tail(worker.batch)[i] = worker.batch[i + 1]
      /\ 1 \in DOMAIN worker.batch /\ Head(worker.batch) = worker.batch[1]
  BY <1>2, TailProperties DEF QueueInv, Workers
<1>4. ASSUME NEW j \in DOMAIN worker.batch, worker.batch[j].at # msg.at
      PROVE  \E i \in DOMAIN Tail(worker.batch) : Tail(worker.batch)[i] = worker.batch[j]
  <2>1. j # 1
    BY <1>3, <1>4
  <2>2. j - 1 \in DOMAIN Tail(worker.batch) /\ (j - 1) + 1 = j
    BY <1>3, <2>1
  <2>3. Tail(worker.batch)[j - 1] = worker.batch[j]
    BY <1>3, <2>2
  <2> QED
    BY <2>2, <2>3
<1> HIDE DEF msg
<1>5. ASSUME NEW j \in DOMAIN outbox, outbox[j].at # msg.at, ~raised,
             outbox[j].at <= worker.t0
      PROVE  \/ worker.t0 < outbox[j].next
             \/ \E i \in DOMAIN worker'.batch : worker'.batch[i] = outbox[j]
  BY <1>2, <1>4, <1>5 DEF KeepInv
<1>6. CASE outbox' = Without(msg)
  <2>1. \A i \in DOMAIN outbox' : \E j \in DOMAIN outbox :
            outbox'[i] = outbox[j] /\ outbox[j].at # msg.at
    BY <1>2, <1>6, WithoutElements DEF msg
  <2>2. \A i \in DOMAIN outbox' : outbox'[i].next <= outbox'[i].at + GiveUpAfter + RetryEvery
    BY <2>1 DEF KeepInv
  <2>3. ASSUME ~raised', NEW i \in DOMAIN outbox', outbox'[i].at <= worker'.t0
        PROVE  \/ worker'.t0 < outbox'[i].next
               \/ \E j \in DOMAIN worker'.batch : worker'.batch[j] = outbox'[i]
    <3>1. PICK j \in DOMAIN outbox : outbox'[i] = outbox[j] /\ outbox[j].at # msg.at
      BY <2>1, <2>3
    <3> QED
      BY <1>1, <1>2, <1>5, <2>3, <3>1
  <2> QED
    BY <2>2, <2>3 DEF KeepInv
<1>7. CASE outbox' = Retried(msg) /\ ~TooOld(msg)
  <2>1. /\ DOMAIN outbox' = DOMAIN outbox
        /\ \A i \in DOMAIN outbox :
              /\ outbox'[i].at = outbox[i].at
              /\ IF outbox[i].at = msg.at
                 THEN outbox'[i].next = worker.t0 + RetryEvery
                 ELSE outbox'[i] = outbox[i]
    BY <1>2, <1>7, RetriedElements DEF msg
  <2>2. worker.t0 <= msg.at + GiveUpAfter
    <3>1. msg.at \in Nat
      BY <1>3, TimesAreNat DEF msg
    <3> QED
      BY <1>7, <3>1, TimesAreNat DEF TooOld, Age
  <2>3. \A i \in DOMAIN outbox' : outbox'[i].next <= outbox'[i].at + GiveUpAfter + RetryEvery
    <3> TAKE i \in DOMAIN outbox'
    <3>1. CASE outbox[i].at = msg.at
      BY <2>1, <2>2, <3>1, TimesAreNat
    <3>2. CASE outbox[i].at # msg.at
      BY <2>1, <3>2 DEF KeepInv
    <3> QED
      BY <3>1, <3>2
  <2>4. ASSUME ~raised', NEW i \in DOMAIN outbox', outbox'[i].at <= worker'.t0
        PROVE  \/ worker'.t0 < outbox'[i].next
               \/ \E j \in DOMAIN worker'.batch : worker'.batch[j] = outbox'[i]
    <3>1. CASE outbox[i].at = msg.at
      <4>1. outbox'[i].next = worker.t0 + RetryEvery
        BY <2>1, <3>1
      <4> QED
        BY <1>2, <4>1, TimesAreNat
    <3>2. CASE outbox[i].at # msg.at
      <4>1. i \in DOMAIN outbox /\ outbox'[i] = outbox[i]
        BY <2>1, <3>2
      <4> QED
        BY <1>1, <1>2, <1>5, <2>4, <3>2, <4>1
    <3> QED
      BY <3>1, <3>2
  <2> QED
    BY <2>3, <2>4 DEF KeepInv
<1> QED
  BY <1>6, <1>7 DEF SendOk, SendFails, msg

(* Notifier.deliver keeps a message for GIVE_UP_AFTER and one retry at     *)
(* most, unless a send raises.                                             *)
THEOREM NotifierKeeps == Spec => []KeptNoLonger
<1>1. Init => KeepInv
  BY DEF Init, KeepInv
<1>2. QueueInv /\ KeepInv /\ [Next]_vars => KeepInv'
  <2> SUFFICES ASSUME QueueInv, KeepInv, [Next]_vars PROVE KeepInv'
    OBVIOUS
  <2>1. ASSUME NEW t \in Readings, Restart(t) PROVE KeepInv'
    BY <2>1 DEF Restart, KeepInv
  <2>2. ASSUME NEW t \in Readings, NEW current \in Alerts, Poll(current, t)
        PROVE  KeepInv'
    <3>1. t \in Nat /\ now < t
      BY <2>2, ReadingIsLater DEF QueueInv
    <3>2. worker' = worker /\ raised' = raised
      BY <2>2 DEF Poll
    <3>3. CASE outbox' = outbox
      BY <3>2, <3>3 DEF KeepInv
    <3>4. CASE outbox' = Append(outbox, Message(news', t))
      <4>1. news' \in Texts
        BY <2>2, UpdateTyped DEF Poll
      <4>2. /\ DOMAIN outbox' = 1 .. Len(outbox) + 1
            /\ \A i \in DOMAIN outbox : i \in DOMAIN outbox' /\ outbox'[i] = outbox[i]
            /\ outbox'[Len(outbox) + 1] = Message(news', t)
            /\ DOMAIN outbox = 1 .. Len(outbox) /\ Len(outbox) \in Nat
        BY <3>1, <3>4, <4>1, AppendElements
      <4>3. Message(news', t).at = t /\ Message(news', t).next = t
        BY DEF Message
      <4>4. ~(t <= worker.t0) /\ t <= t + GiveUpAfter + RetryEvery
        BY <3>1, TimesAreNat
      <4>5. \A i \in DOMAIN outbox' :
                \/ i \in DOMAIN outbox /\ outbox'[i] = outbox[i]
                \/ outbox'[i].at = t /\ outbox'[i].next = t
        BY <4>2, <4>3
      <4> QED
        BY <3>2, <4>4, <4>5 DEF KeepInv
    <3> QED
      BY <2>2, <3>3, <3>4 DEF Poll
  <2>3. CASE BeginRound
    <3>1. worker'.batch = outbox /\ outbox' = outbox
      BY <2>3 DEF BeginRound
    <3> QED
      BY <3>1 DEF KeepInv
  <2>4. CASE SkipMessage
    <3>1. /\ worker.batch # <<>> /\ outbox' = outbox /\ raised' = raised
          /\ Head(worker.batch).next > worker.t0
          /\ worker'.batch = Tail(worker.batch) /\ worker'.t0 = worker.t0
      BY <2>4 DEF SkipMessage, recipientVars, QueueInv, Workers
    <3>2. /\ DOMAIN worker.batch = 1 .. Len(worker.batch) /\ Len(worker.batch) \in Nat
          /\ DOMAIN Tail(worker.batch) = 1 .. Len(worker.batch) - 1
          /\ \A i \in 1 .. Len(worker.batch) - 1 : Tail(worker.batch)[i] = worker.batch[i + 1]
          /\ Head(worker.batch) = worker.batch[1]
      BY <3>1, TailProperties DEF QueueInv, Workers
    <3>3. ASSUME NEW i \in DOMAIN outbox, ~raised, outbox[i].at <= worker.t0,
                 ~(worker.t0 < outbox[i].next)
          PROVE  \E j \in DOMAIN Tail(worker.batch) : Tail(worker.batch)[j] = outbox[i]
      <4>1. PICK j \in DOMAIN worker.batch : worker.batch[j] = outbox[i]
        BY <3>3 DEF KeepInv
      <4>2. j # 1
        BY <3>1, <3>2, <3>3, <4>1, TimesAreNat
      <4>3. j - 1 \in DOMAIN Tail(worker.batch) /\ (j - 1) + 1 = j
        BY <3>2, <4>2
      <4>4. Tail(worker.batch)[j - 1] = worker.batch[j]
        BY <3>2, <4>3
      <4> QED
        BY <4>1, <4>3, <4>4
    <3> QED
      BY <3>1, <3>3 DEF KeepInv
  <2>5. CASE BeginSend
    <3>1. /\ outbox' = outbox /\ raised' = raised
          /\ worker'.batch = worker.batch /\ worker'.t0 = worker.t0
      BY <2>5 DEF BeginSend, recipientVars, QueueInv, Workers
    <3> QED
      BY <3>1 DEF KeepInv
  <2>6. CASE SendOk \/ SendFails
    BY <2>6, SendKeeps
  <2>7. CASE SendRaises
    BY <2>7 DEF SendRaises, KeepInv
  <2>8. CASE EndRound
    <3>1. /\ outbox' = outbox /\ raised' = raised
          /\ worker'.batch = worker.batch /\ worker'.t0 = worker.t0
      BY <2>8 DEF EndRound, recipientVars, QueueInv, Workers
    <3> QED
      BY <3>1 DEF KeepInv
  <2>9. CASE UNCHANGED vars
    BY <2>9 DEF vars, deliveryVars, recipientVars, KeepInv
  <2> QED
    BY <2>1, <2>2, <2>3, <2>4, <2>5, <2>6, <2>7, <2>8, <2>9 DEF Next
<1>3. QueueInv /\ KeepInv => KeptNoLonger
  <2> SUFFICES ASSUME QueueInv, KeepInv, worker.pc = "asleep", ~raised,
                      NEW i \in DOMAIN outbox, outbox[i].at <= worker.t0
               PROVE  worker.t0 - outbox[i].at < GiveUpAfter + RetryEvery
    BY DEF KeptNoLonger
  <2>1. worker.t0 < outbox[i].next
    <3>1. worker.batch = <<>>
      BY DEF QueueInv
    <3> QED
      BY <3>1 DEF KeepInv
  <2>2. outbox[i].next <= outbox[i].at + GiveUpAfter + RetryEvery
    BY DEF KeepInv
  <2> QED
    BY <2>1, <2>2, TimesAreNat
<1> QED
  BY <1>1, <1>2, <1>3, NotifierQueue, PTL DEF Spec

-----------------------------------------------------------------------------
(* Where a queued message can be. *)
Accounted(t) ==
    \/ t \in Waiting
    \/ t \in reached
    \/ \E d \in dropped : d.age > GiveUpAfter /\ d.at = t

VanishInv == ~lost => \A t \in queued : Accounted(t)

(* A send that is over has been heard, is given up as too old, or waits.   *)
LEMMA SendAccounts ==
    ASSUME QueueInv, VanishInv, SendOk \/ SendFails
    PROVE  VanishInv'
<1> DEFINE msg == Head(worker.batch)
<1>1. worker.pc = "sending" /\ worker.batch # <<>> /\ queued' = queued /\ lost' = lost
  BY DEF SendOk, SendFails, QueueInv
<1>2. reached \subseteq reached' /\ dropped \subseteq dropped'
  BY DEF SendOk, SendFails, Hears
<1>3. \A t \in Waiting : t = msg.at \/ t \in Waiting'
  <2>1. CASE outbox' = Without(msg)
    <3>1. \A j \in DOMAIN outbox :
              outbox[j].at = msg.at \/ \E i \in DOMAIN outbox' : outbox'[i] = outbox[j]
      BY <1>1, <2>1, WithoutElements
    <3> QED
      BY <3>1 DEF Waiting
  <2>2. CASE outbox' = Retried(msg)
    <3>1. DOMAIN outbox' = DOMAIN outbox /\ \A i \in DOMAIN outbox : outbox'[i].at = outbox[i].at
      BY <1>1, <2>2, RetriedElements
    <3> QED
      BY <3>1 DEF Waiting
  <2> QED
    BY <2>1, <2>2 DEF SendOk, SendFails
<1>4. \/ msg.at \in Waiting'
      \/ msg.at \in reached'
      \/ \E d \in dropped' : d.age > GiveUpAfter /\ d.at = msg.at
  <2>1. CASE SendOk
    BY <2>1 DEF SendOk, Hears
  <2>2. CASE SendFails /\ TooOld(msg)
    <3> DEFINE d == [at |-> msg.at, age |-> Age(msg)]
    <3>1. d \in dropped'
      BY <2>2 DEF SendFails
    <3>2. d.at = msg.at /\ d.age > GiveUpAfter
      BY <2>2 DEF TooOld
    <3> QED
      BY <3>1, <3>2
  <2>3. CASE SendFails /\ ~TooOld(msg)
    <3>1. outbox' = Retried(msg)
      BY <2>3 DEF SendFails
    <3>2. DOMAIN outbox' = DOMAIN outbox /\ \A i \in DOMAIN outbox : outbox'[i].at = outbox[i].at
      BY <1>1, <3>1, RetriedElements
    <3>3. PICK p \in 1 .. Len(outbox) : outbox[p] = msg
      BY <1>1, WithoutHead
    <3>4. p \in DOMAIN outbox
      BY <3>3, SeqElements DEF QueueInv
    <3> QED
      BY <3>2, <3>3, <3>4 DEF Waiting
  <2> QED
    BY <2>1, <2>2, <2>3
<1> HIDE DEF msg
<1>5. \A t : Accounted(t) => Accounted(t)'
  BY <1>2, <1>3, <1>4 DEF Accounted
<1> QED
  BY <1>1, <1>5 DEF VanishInv

(* Nothing queued vanishes, and what waits is in the order it was queued.  *)
THEOREM NotifierLosesNothing == Spec => []NothingVanishes
<1>1. Init => VanishInv
  BY DEF Init, VanishInv
<1>2. QueueInv /\ VanishInv /\ [Next]_vars => VanishInv'
  <2> SUFFICES ASSUME QueueInv, VanishInv, [Next]_vars PROVE VanishInv'
    OBVIOUS
  <2>1. ASSUME NEW t \in Readings, Restart(t) PROVE VanishInv'
    <3>1. /\ outbox' = <<>> /\ lost' = (lost \/ outbox # <<>>)
          /\ reached \subseteq reached' /\ UNCHANGED <<queued, dropped>>
      BY <2>1 DEF Restart, Hears
    <3>2. CASE outbox = <<>> /\ ~lost
      <4>1. Waiting' = Waiting
        BY <3>1, <3>2 DEF Waiting
      <4> QED
        BY <3>1, <3>2, <4>1 DEF VanishInv, Accounted
    <3>3. CASE outbox # <<>> \/ lost
      BY <3>1, <3>3 DEF VanishInv
    <3> QED
      BY <3>2, <3>3
  <2>2. ASSUME NEW t \in Readings, NEW current \in Alerts, Poll(current, t)
        PROVE  VanishInv'
    <3>1. t \in Nat /\ now < t
      BY <2>2, ReadingIsLater DEF QueueInv
    <3>2. UNCHANGED <<reached, dropped, lost>>
      BY <2>2 DEF Poll
    <3>3. CASE ~AnyLine(news')
      <4>1. outbox' = outbox /\ queued' = queued
        BY <2>2, <3>3 DEF Poll
      <4> QED
        BY <3>2, <4>1 DEF VanishInv, Accounted, Waiting
    <3>4. CASE AnyLine(news')
      <4>1. outbox' = Append(outbox, Message(news', t)) /\ queued' = queued \cup {t}
        BY <2>2, <3>4 DEF Poll
      <4>2. news' \in Texts
        BY <2>2, UpdateTyped DEF Poll
      <4>3. /\ DOMAIN outbox' = 1 .. Len(outbox) + 1
            /\ \A i \in DOMAIN outbox : i \in DOMAIN outbox' /\ outbox'[i] = outbox[i]
            /\ outbox'[Len(outbox) + 1] = Message(news', t)
            /\ Len(outbox) \in Nat
        BY <3>1, <4>1, <4>2, AppendElements
      <4>4. Len(outbox) + 1 \in DOMAIN outbox' /\ outbox'[Len(outbox) + 1].at = t
        BY <4>3 DEF Message
      <4>5. Waiting \subseteq Waiting' /\ t \in Waiting'
        BY <4>3, <4>4 DEF Waiting
      <4> QED
        BY <3>2, <4>1, <4>5 DEF VanishInv, Accounted
    <3> QED
      BY <3>3, <3>4
  <2>3. CASE SendOk \/ SendFails
    BY <2>3, SendAccounts
  <2>4. CASE SendRaises
    <3>1. reached \subseteq reached' /\ UNCHANGED <<outbox, queued, dropped, lost>>
      BY <2>4 DEF SendRaises, Hears
    <3> QED
      BY <3>1 DEF VanishInv, Accounted, Waiting
  <2>5. CASE UNCHANGED <<outbox, queued, reached, dropped, lost>>
    BY <2>5 DEF VanishInv, Accounted, Waiting
  <2> QED
    BY <2>1, <2>2, <2>3, <2>4, <2>5
    DEF Next, BeginRound, SkipMessage, BeginSend, EndRound, vars, deliveryVars, recipientVars
<1>3. QueueInv /\ VanishInv => NothingVanishes
  BY DEF QueueInv, Ordered, VanishInv, Accounted, NothingVanishes
<1> QED
  BY <1>1, <1>2, <1>3, NotifierQueue, PTL DEF Spec

-----------------------------------------------------------------------------
(* What a poll says of a key is what the recipient will come to believe.   *)
LEMMA PollIsBelieved ==
    ASSUME QueueInv, NEW t \in Readings, NEW current \in Alerts, Poll(current, t),
           \A k \in DOMAIN told : WillBelieve(k, told[k].open)
    PROVE  \A k \in DOMAIN told' : WillBelieve(k, told[k].open)'
<1>1. t \in Nat /\ now < t
  BY ReadingIsLater DEF QueueInv
<1>2. news' \in Texts /\ Said(news') \cap news'.cleared = {}
  BY UpdateTyped DEF Poll
<1>3. /\ told' = TellAfter(news', t) /\ heard' = heard
      /\ outbox' = IF AnyLine(news') THEN Append(outbox, Message(news', t)) ELSE outbox
  BY DEF Poll, Update
<1> SUFFICES ASSUME NEW k \in DOMAIN told' PROVE WillBelieve(k, told[k].open)'
  OBVIOUS
<1>4. k \in DOMAIN told \/ k \in Said(news')
  BY <1>3 DEF TellAfter
<1>5. CASE ~AnyLine(news')
  <2>1. k \in DOMAIN told /\ told'[k] = told[k] /\ outbox' = outbox
    BY <1>3, <1>4, <1>5 DEF AnyLine, TellAfter
  <2>2. WillBelieve(k, told[k].open)
    BY <2>1
  <2> QED
    BY <1>3, <2>1, <2>2 DEF WillBelieve
<1>6. CASE AnyLine(news')
  <2> DEFINE n == Len(outbox)
             msg == Message(news', t)
  <2>1. /\ DOMAIN outbox' = 1 .. n + 1 /\ DOMAIN outbox = 1 .. n /\ n \in Nat
        /\ \A i \in 1 .. n : outbox'[i] = outbox[i]
        /\ outbox'[n + 1] = msg
    BY <1>1, <1>2, <1>3, <1>6, AppendElements
  <2>2. msg.lines = news'
    BY DEF Message
  <2> HIDE DEF n, msg
  <2>3. CASE Mentions(msg, k)
    <3>1. told'[k].open = Says(msg, k)
      <4>1. CASE k \in Said(news')
        <5>1. told'[k] = [open |-> TRUE, at |-> t]
          BY <1>3, <4>1 DEF TellAfter
        <5>2. Says(msg, k) = TRUE
          BY <1>2, <2>2, <4>1 DEF Says
        <5> QED
          BY <5>1, <5>2
      <4>2. CASE k \notin Said(news')
        <5>1. k \in news'.cleared /\ k \in DOMAIN told
          BY <1>4, <2>2, <2>3, <4>2 DEF Mentions
        <5>2. told'[k] = [open |-> FALSE, at |-> told[k].at]
          BY <1>3, <4>2, <5>1 DEF TellAfter
        <5>3. Says(msg, k) = FALSE
          BY <2>2, <5>1 DEF Says
        <5>4. \A old : [open |-> FALSE, at |-> old].open = FALSE
          OBVIOUS
        <5> QED
          BY <5>2, <5>3, <5>4, Zenon
      <4> QED
        BY <4>1, <4>2
    <3>2. n + 1 \in DOMAIN outbox' /\ \A j \in DOMAIN outbox' : ~(n + 1 < j)
      BY <2>1
    <3> QED
      BY <2>1, <2>3, <3>1, <3>2 DEF WillBelieve
  <2>4. CASE ~Mentions(msg, k)
    <3>1. k \in DOMAIN told /\ told'[k] = told[k]
      BY <1>3, <1>4, <2>2, <2>4 DEF Mentions, TellAfter
    <3>2. WillBelieve(k, told[k].open)
      BY <3>1
    <3>3. CASE \E i \in DOMAIN outbox :
                  /\ Mentions(outbox[i], k) /\ Says(outbox[i], k) = told[k].open
                  /\ \A j \in DOMAIN outbox : i < j => ~Mentions(outbox[j], k)
      <4>1. PICK i \in 1 .. n :
                  /\ Mentions(outbox[i], k) /\ Says(outbox[i], k) = told[k].open
                  /\ \A j \in DOMAIN outbox : i < j => ~Mentions(outbox[j], k)
        BY <2>1, <3>3
      <4>2. i \in DOMAIN outbox' /\ outbox'[i] = outbox[i]
        BY <2>1
      <4>3. \A j \in DOMAIN outbox' : i < j => ~Mentions(outbox'[j], k)
        <5> TAKE j \in DOMAIN outbox'
        <5>1. CASE j = n + 1
          BY <2>1, <2>4, <5>1
        <5>2. CASE j # n + 1
          <6>1. j \in 1 .. n
            BY <2>1, <5>2
          <6> QED
            BY <2>1, <4>1, <6>1
        <5> QED
          BY <5>1, <5>2
      <4> QED
        BY <3>1, <4>1, <4>2, <4>3 DEF WillBelieve
    <3>4. CASE /\ \A i \in DOMAIN outbox : ~Mentions(outbox[i], k)
               /\ k \in DOMAIN heard /\ heard[k] = told[k].open
      <4>1. \A j \in DOMAIN outbox' : ~Mentions(outbox'[j], k)
        <5> TAKE j \in DOMAIN outbox'
        <5>1. j \in 1 .. n \/ j = n + 1
          BY <2>1
        <5> QED
          BY <2>1, <2>4, <3>4, <5>1
      <4> QED
        BY <1>3, <3>1, <3>4, <4>1 DEF WillBelieve
    <3> QED
      BY <3>2, <3>3, <3>4 DEF WillBelieve
  <2> QED
    BY <2>3, <2>4
<1> QED
  BY <1>5, <1>6

(* What the recipient makes of a message, key by key. *)
LEMMA HeardOf ==
    ASSUME NEW msg, NEW k, Hears(msg)
    PROVE  /\ Mentions(msg, k) => k \in DOMAIN heard' /\ heard'[k] = Says(msg, k)
           /\ ~Mentions(msg, k) =>
                 (k \in DOMAIN heard => k \in DOMAIN heard' /\ heard'[k] = heard[k])
<1>1. heard' = HeardAfter(msg.lines)
  BY DEF Hears
<1>2. CASE k \in msg.lines.cleared
  BY <1>1, <1>2 DEF HeardAfter, Mentions, Says
<1>3. CASE k \notin msg.lines.cleared /\ k \in Said(msg.lines)
  BY <1>1, <1>3 DEF HeardAfter, Mentions, Says
<1>4. CASE k \notin msg.lines.cleared /\ k \notin Said(msg.lines)
  BY <1>1, <1>4 DEF HeardAfter, Mentions
<1> QED
  BY <1>2, <1>3, <1>4

(* Heard once more, and still waiting: nothing is believed otherwise.      *)
LEMMA HearingAgain ==
    ASSUME NEW k, NEW b, WillBelieve(k, b), NEW p \in DOMAIN outbox,
           Hears(outbox[p]), outbox' = outbox
    PROVE  WillBelieve(k, b)'
<1>1. CASE \E i \in DOMAIN outbox :
              /\ Mentions(outbox[i], k) /\ Says(outbox[i], k) = b
              /\ \A j \in DOMAIN outbox : i < j => ~Mentions(outbox[j], k)
  BY <1>1 DEF WillBelieve
<1>2. CASE /\ \A i \in DOMAIN outbox : ~Mentions(outbox[i], k)
           /\ k \in DOMAIN heard /\ heard[k] = b
  <2>1. k \in DOMAIN heard' /\ heard'[k] = heard[k]
    BY <1>2, HeardOf
  <2> QED
    BY <1>2, <2>1 DEF WillBelieve
<1> QED
  BY <1>1, <1>2 DEF WillBelieve

(* The first message, while every send succeeds.                           *)
LEMMA FirstLeaves ==
    ASSUME QueueInv, FrontInv, worker.batch # <<>>,
           outbox' = Without(Head(worker.batch))
    PROVE  /\ DOMAIN outbox = 1 .. Len(outbox) /\ Len(outbox) \in Nat
           /\ 1 \in DOMAIN outbox /\ Head(worker.batch) = outbox[1]
           /\ DOMAIN outbox' = 1 .. Len(outbox) - 1
           /\ \A j \in 1 .. Len(outbox) - 1 : outbox'[j] = outbox[j + 1]
<1>1. 1 \in DOMAIN worker.batch /\ Head(worker.batch) = worker.batch[1]
  BY TailProperties DEF QueueInv, Workers
<1>2. 1 \in DOMAIN outbox /\ outbox[1] = Head(worker.batch)
  BY <1>1 DEF FrontInv
<1>3. outbox \in Seq(Messages) /\ DOMAIN outbox = 1 .. Len(outbox) /\ Len(outbox) \in Nat
  BY SeqElements DEF QueueInv
<1>4. PICK p \in 1 .. Len(outbox) :
          /\ outbox[p] = Head(worker.batch)
          /\ Without(Head(worker.batch)) = RemoveAt(outbox, p)
  BY WithoutHead
<1>5. p = 1
  <2>1. \A i \in DOMAIN outbox : outbox[i].at \in Nat
    BY TimesAreNat
  <2>2. outbox[p].at = outbox[1].at
    BY <1>2, <1>4
  <2>3. p \in DOMAIN outbox /\ (p = 1 \/ 1 < p)
    BY <1>3
  <2> QED
    BY <1>2, <2>1, <2>2, <2>3 DEF QueueInv, Ordered
<1>6. /\ DOMAIN outbox' = 1 .. Len(outbox) - 1
      /\ \A j \in 1 .. Len(outbox) - 1 :
            outbox'[j] = IF j < 1 THEN outbox[j] ELSE outbox[j + 1]
  BY <1>3, <1>4, <1>5, RemoveAtProperties
<1> QED
  BY <1>2, <1>3, <1>6

LEMMA SendIsBelieved ==
    ASSUME QueueInv, FrontInv, SendOk, NEW k, NEW b, WillBelieve(k, b)
    PROVE  WillBelieve(k, b)'
<1> DEFINE n == Len(outbox)
<1>1. /\ worker.batch # <<>> /\ Hears(Head(worker.batch))
      /\ outbox' = Without(Head(worker.batch))
  BY DEF SendOk, QueueInv
<1>2. /\ DOMAIN outbox = 1 .. n /\ n \in Nat /\ 1 \in DOMAIN outbox
      /\ Head(worker.batch) = outbox[1]
      /\ DOMAIN outbox' = 1 .. n - 1
      /\ \A j \in 1 .. n - 1 : outbox'[j] = outbox[j + 1]
  BY <1>1, FirstLeaves
<1> HIDE DEF n
<1>3. \A j \in DOMAIN outbox' : j + 1 \in DOMAIN outbox /\ outbox'[j] = outbox[j + 1] /\ 1 < j + 1
  BY <1>2
<1>4. ASSUME NEW i \in DOMAIN outbox, Mentions(outbox[i], k), Says(outbox[i], k) = b,
             \A j \in DOMAIN outbox : i < j => ~Mentions(outbox[j], k)
      PROVE  WillBelieve(k, b)'
  <2>1. CASE i = 1
    <3>1. k \in DOMAIN heard' /\ heard'[k] = b
      BY <1>1, <1>2, <1>4, <2>1, HeardOf
    <3>2. \A j \in DOMAIN outbox' : ~Mentions(outbox'[j], k)
      BY <1>3, <1>4, <2>1
    <3> QED
      BY <3>1, <3>2 DEF WillBelieve
  <2>2. CASE i # 1
    <3>1. i - 1 \in DOMAIN outbox' /\ (i - 1) + 1 = i
      BY <1>2, <2>2
    <3>2. outbox'[i - 1] = outbox[i]
      BY <1>3, <3>1
    <3>3. \A j \in DOMAIN outbox' : i - 1 < j => ~Mentions(outbox'[j], k)
      <4> TAKE j \in DOMAIN outbox'
      <4>1. i - 1 < j => i < j + 1
        BY <1>2
      <4> QED
        BY <1>3, <1>4, <4>1
    <3> QED
      BY <1>4, <3>1, <3>2, <3>3 DEF WillBelieve
  <2> QED
    BY <2>1, <2>2
<1>5. ASSUME \A i \in DOMAIN outbox : ~Mentions(outbox[i], k),
             k \in DOMAIN heard, heard[k] = b
      PROVE  WillBelieve(k, b)'
  <2>1. k \in DOMAIN heard' /\ heard'[k] = b
    BY <1>1, <1>2, <1>5, HeardOf
  <2>2. \A j \in DOMAIN outbox' : ~Mentions(outbox'[j], k)
    BY <1>3, <1>5
  <2> QED
    BY <2>1, <2>2 DEF WillBelieve
<1> QED
  BY <1>4, <1>5 DEF WillBelieve

(* No step unmakes a failed send, or a process that died owing a message. *)
LEMMA FailuresStay ==
    ASSUME [Next]_vars
    PROVE  (failed => failed') /\ (lost => lost')
<1>1. CASE \E t \in Readings : Restart(t)
  <2>1. failed' = failed /\ lost' = (lost \/ outbox # <<>>)
    BY <1>1 DEF Restart
  <2> QED
    BY <2>1
<1>2. CASE \E t \in Readings, current \in Alerts : Poll(current, t)
  BY <1>2 DEF Poll
<1>3. CASE BeginRound \/ SkipMessage \/ BeginSend \/ EndRound
  BY <1>3 DEF BeginRound, SkipMessage, BeginSend, EndRound, recipientVars
<1>4. CASE SendOk
  BY <1>4 DEF SendOk
<1>5. CASE SendFails
  <2>1. failed' = TRUE /\ lost' = lost
    BY <1>5 DEF SendFails
  <2> QED
    BY <2>1
<1>6. CASE SendRaises
  BY <1>6 DEF SendRaises
<1>7. CASE UNCHANGED vars
  BY <1>7 DEF vars, recipientVars
<1> QED
  BY <1>1, <1>2, <1>3, <1>4, <1>5, <1>6, <1>7 DEF Next

(* A recipient to whom every send got through, and to whom no process died *)
(* owing a message, believes what was last said of each key.               *)
THEOREM NotifierIsBelieved == Spec => []HeardIsTold
<1>1. Init => HeardInv
  BY DEF Init, InitLedger, Asleep, HeardInv, FrontInv
<1>2. QueueInv /\ QueueInv' /\ HeardInv /\ [Next]_vars => HeardInv'
  <2> SUFFICES ASSUME QueueInv, QueueInv', HeardInv, [Next]_vars, ~failed', ~lost'
               PROVE  FrontInv' /\ \A k \in DOMAIN told' : WillBelieve(k, told[k].open)'
    BY DEF HeardInv
  <2> DEFINE Believed == \A k \in DOMAIN told : WillBelieve(k, told[k].open)
  <2>0. ~failed /\ ~lost
    BY FailuresStay
  <2>1. FrontInv /\ Believed
    BY <2>0 DEF HeardInv
  <2> HIDE DEF Believed
  <2>2. ASSUME NEW t \in Readings, Restart(t) PROVE FrontInv' /\ Believed'
    <3>1. outbox = <<>> /\ outbox' = <<>> /\ worker' = Asleep /\ told' = told
      BY <2>2 DEF Restart, ReloadLedger
    <3>2. worker.pc # "sending"
      <4>1. worker.batch = <<>>
        BY <3>1, TailProperties DEF QueueInv, Workers
      <4> QED
        BY <4>1 DEF QueueInv
    <3>3. heard' = heard
      BY <2>2, <3>2 DEF Restart
    <3> QED
      BY <2>1, <3>1, <3>3 DEF FrontInv, Believed, WillBelieve, Asleep
  <2>3. ASSUME NEW t \in Readings, NEW current \in Alerts, Poll(current, t)
        PROVE  FrontInv' /\ Believed'
    <3>1. t \in Nat /\ now < t /\ news' \in Texts
      BY <2>3, ReadingIsLater, UpdateTyped DEF Poll, QueueInv
    <3>2. worker' = worker
      BY <2>3 DEF Poll
    <3>3. FrontInv'
      <4>1. CASE outbox' = outbox
        BY <2>1, <3>2, <4>1 DEF FrontInv
      <4>2. CASE outbox' = Append(outbox, Message(news', t))
        <5>1. /\ DOMAIN outbox' = 1 .. Len(outbox) + 1
              /\ \A i \in DOMAIN outbox : i \in DOMAIN outbox' /\ outbox'[i] = outbox[i]
              /\ outbox'[Len(outbox) + 1] = Message(news', t)
              /\ DOMAIN outbox = 1 .. Len(outbox) /\ Len(outbox) \in Nat
          BY <3>1, <4>2, AppendElements
        <5>2. Message(news', t).at = Message(news', t).next
          BY DEF Message
        <5>3. \A i \in DOMAIN outbox' : i \in DOMAIN outbox \/ i = Len(outbox) + 1
          BY <5>1
        <5> QED
          BY <2>1, <3>2, <5>1, <5>2, <5>3 DEF FrontInv
      <4> QED
        BY <2>3, <4>1, <4>2 DEF Poll
    <3> QED
      BY <2>1, <2>3, <3>3, PollIsBelieved DEF Believed
  <2>4. CASE BeginRound
    <3>1. /\ worker'.batch = outbox /\ worker'.t0 = now
          /\ UNCHANGED <<outbox, heard, told>>
      BY <2>4 DEF BeginRound, toldVars, recipientVars
    <3> QED
      BY <2>1, <3>1 DEF FrontInv, QueueInv, Believed, WillBelieve
  <2>5. CASE SkipMessage
    <3>1. /\ worker.batch # <<>> /\ Head(worker.batch).next > worker.t0
      BY <2>5 DEF SkipMessage
    <3>2. 1 \in DOMAIN worker.batch /\ Head(worker.batch) = worker.batch[1]
      BY <3>1, TailProperties DEF QueueInv, Workers
    <3>3. /\ worker.batch[1].next = worker.batch[1].at /\ worker.batch[1].at <= worker.t0
          /\ worker.batch[1].at \in Nat
      BY <2>1, <3>2, TimesAreNat DEF FrontInv
    <3> QED
      BY <3>1, <3>2, <3>3, TimesAreNat
  <2>6. CASE BeginSend \/ EndRound
    <3>1. /\ worker'.batch = worker.batch /\ worker'.t0 = worker.t0
          /\ UNCHANGED <<outbox, heard, told>>
      BY <2>6 DEF BeginSend, EndRound, toldVars, recipientVars, QueueInv, Workers
    <3> QED
      BY <2>1, <3>1 DEF FrontInv, Believed, WillBelieve
  <2>7. CASE SendOk
    <3>1. /\ worker.batch # <<>> /\ outbox' = Without(Head(worker.batch))
          /\ worker.pc = "sending" /\ NextMessage /\ told' = told
      BY <2>7 DEF SendOk, QueueInv, toldVars
    <3>2. worker'.batch = Tail(worker.batch) /\ worker'.t0 = worker.t0
      BY <3>1, NextMessageTyped
    <3>3. /\ DOMAIN outbox' = 1 .. Len(outbox) - 1
          /\ DOMAIN outbox = 1 .. Len(outbox) /\ Len(outbox) \in Nat
          /\ \A j \in 1 .. Len(outbox) - 1 : outbox'[j] = outbox[j + 1]
      BY <2>1, <3>1, FirstLeaves
    <3>4. /\ DOMAIN worker.batch = 1 .. Len(worker.batch) /\ Len(worker.batch) \in Nat
          /\ DOMAIN Tail(worker.batch) = 1 .. Len(worker.batch) - 1
          /\ \A i \in 1 .. Len(worker.batch) - 1 : Tail(worker.batch)[i] = worker.batch[i + 1]
      BY <3>1, TailProperties DEF QueueInv, Workers
    <3>5. \A i \in DOMAIN outbox' : i + 1 \in DOMAIN outbox /\ outbox'[i] = outbox[i + 1]
      BY <3>3
    <3>6. \A i \in DOMAIN Tail(worker.batch) :
              i \in Nat /\ i >= 1 /\ i + 1 \in DOMAIN worker.batch
              /\ Tail(worker.batch)[i] = worker.batch[i + 1]
      BY <3>4
    <3>7. \A i \in DOMAIN Tail(worker.batch) : i \in DOMAIN outbox'
      <4> TAKE i \in DOMAIN Tail(worker.batch)
      <4>1. i + 1 \in DOMAIN outbox
        BY <2>1, <3>6 DEF FrontInv
      <4> QED
        BY <3>3, <3>6, <4>1
    <3>8. FrontInv'
      BY <2>1, <3>2, <3>5, <3>6, <3>7 DEF FrontInv
    <3>9. Believed'
      BY <2>1, <2>7, <3>1, SendIsBelieved DEF Believed
    <3> QED
      BY <3>8, <3>9 DEF Believed
  <2>8. CASE SendRaises
    <3>1. /\ worker.pc = "sending" /\ worker'.batch = <<>> /\ outbox' = outbox /\ told' = told
      BY <2>8 DEF SendRaises, toldVars, QueueInv, Workers
    <3>2. FrontInv'
      BY <2>1, <3>1 DEF FrontInv
    <3>3. CASE heard' = heard
      BY <2>1, <3>1, <3>2, <3>3 DEF Believed, WillBelieve
    <3>4. CASE Hears(Head(worker.batch))
      <4>1. 1 \in DOMAIN worker.batch /\ Head(worker.batch) = worker.batch[1]
        BY <3>1, TailProperties DEF QueueInv, Workers
      <4>2. 1 \in DOMAIN outbox /\ Hears(outbox[1])
        BY <2>1, <3>4, <4>1 DEF FrontInv
      <4> QED
        BY <2>1, <3>1, <3>2, <4>2, HearingAgain DEF Believed
    <3> QED
      BY <2>8, <3>3, <3>4 DEF SendRaises
  <2>9. CASE UNCHANGED vars
    BY <2>1, <2>9 DEF vars, toldVars, deliveryVars, recipientVars, FrontInv, Believed, WillBelieve
  <2>10. ~SendFails
    BY DEF SendFails
  <2> QED
    BY <2>2, <2>3, <2>4, <2>5, <2>6, <2>7, <2>8, <2>9, <2>10 DEF Next, Believed
<1>3. HeardInv => HeardIsTold
  <2> SUFFICES ASSUME HeardInv, outbox = <<>>, ~failed, ~lost, NEW k \in DOMAIN told
               PROVE  k \in DOMAIN heard /\ heard[k] = told[k].open
    BY DEF HeardIsTold
  <2>1. WillBelieve(k, told[k].open)
    BY DEF HeardInv
  <2> QED
    BY <2>1 DEF WillBelieve
<1> QED
  BY <1>1, <1>2, <1>3, NotifierQueue, PTL DEF Spec

==============================================================================
