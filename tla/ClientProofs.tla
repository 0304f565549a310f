---------------------------- MODULE ClientProofs -----------------------------
(***************************************************************************)
(* Proofs about what leaves the dashboard: the live stream, for any pages, *)
(* sockets and sections, any number of polls and any live window, and the  *)
(* forwarder, for any conditions, ranks and limits.                        *)
(*                                                                         *)
(* The stream's argument follows one socket from accept() to its close.    *)
(* Every message on it, and the one a send is awaited for, fits the        *)
(* snapshot the page will show by then: merged with it, it makes the       *)
(* snapshot the message is numbered with.  The server's belief about the   *)
(* client is the snapshot that the last of them makes.                     *)
(*                                                                         *)
(* The forwarder's: unless a message was heard from a run that was not     *)
(* saved, the state file and the recipient know the same, so a run that is *)
(* given all of the log owes nothing after it.                             *)
(***************************************************************************)
EXTENDS TickStream, Forwarder, SequenceTheorems, FiniteSetTheorems, TLAPS

Values == Contents \cup {Absent}
Maps == [Sections -> Values]
Beliefs == UNION {[S -> Maps] : S \in SUBSET Sockets}

SocketMessages ==
    {m \in [type : {"init", "tick"}, tick : Nat, points : Seq(Nat),
            snap : UNION {[S -> Values] : S \in SUBSET Sections}, kept : SUBSET Sections] :
        m.snap \in [Sections \ m.kept -> Values]}

HandlerStates ==
    [pc : {"unused", "accepted", "sending", "receiving", "ended"},
     msg : SocketMessages \cup {<<>>}, holds : Maps]

Broadcasts ==
    [todo : SUBSET Sockets, known : Beliefs,
     sending : [socket : Sockets, msg : SocketMessages] \cup {NotSending}]

PageStates ==
    [socket : Sockets \cup {NoSocket}, at : Nat, shows : Maps, points : Seq(Nat)]

-----------------------------------------------------------------------------
(* What each variable holds. *)
TypeInv ==
    /\ tick \in 0 .. MaxTick
    /\ snapshot \in Snapshots \cup {Booting}
    /\ snaps \in Seq(Maps)
    /\ clients \in Beliefs
    /\ handler \in [Sockets -> HandlerStates]
    /\ broadcast \in Broadcasts
    /\ chan \in [Sockets -> Seq(SocketMessages)]
    /\ alive \subseteq Sockets
    /\ page \in [Pages -> PageStates]
    /\ broadcast.todo \subseteq DOMAIN broadcast.known
    /\ \A s \in Sockets : handler[s].pc = "sending" => handler[s].msg \in SocketMessages

(* The snapshots are kept by number, and the last is the current one. *)
SnapsInv == Len(snaps) = tick + 1 /\ snaps[tick + 1] = snapshot

(* A socket belongs to one page while it is alive, and is used once: until *)
(* its init is sent nothing else is, and while it is alive after that the  *)
(* server has it as a client.                                              *)
Unregistered(s) ==
    s \notin broadcast.todo /\ broadcast.sending.socket # s /\ chan[s] = <<>>

Life(s) ==
    /\ s \in DOMAIN clients => handler[s].pc = "receiving"
    /\ s \in alive =>
          /\ handler[s].pc \in {"accepted", "sending", "receiving"}
          /\ handler[s].pc = "receiving" => s \in DOMAIN clients
    /\ handler[s].pc \in {"unused", "accepted", "sending"} => Unregistered(s)

Owned ==
    /\ alive = {page[p].socket : p \in {q \in Pages : Connected(q)}}
    /\ \A p, q \in Pages : Connected(p) /\ page[p].socket = page[q].socket => p = q

SocketInv ==
    /\ Owned
    /\ \A s \in Sockets : Life(s)
    /\ broadcast.sending.socket \notin broadcast.todo

(* The snapshot a page shows at position n, of all there are: at 0, before *)
(* any message, none.                                                      *)
ShownAt(n, all) == IF n = 0 THEN Booting ELSE all[n]

Ordered(points) == \A i, j \in DOMAIN points : i < j => points[i] < points[j]

(* What a page shows is the snapshot of its position, and its points are   *)
(* in order and not of a later poll.                                       *)
ShowsInv(p) ==
    /\ page[p].at <= tick + 1
    /\ page[p].shows = ShownAt(page[p].at, snaps)
    /\ Ordered(page[p].points)
    /\ \A i \in DOMAIN page[p].points : page[p].points[i] < page[p].at

(* A message fits a page at position n, when t is the newest poll: it is   *)
(* not older, a tick is newer, and merged with what the page shows there   *)
(* it makes one whole snapshot.                                            *)
Fits(m, n, t, all) ==
    /\ m.tick <= t /\ n <= m.tick + 1
    /\ Ordered(m.points)
    /\ \A i \in DOMAIN m.points : m.points[i] <= m.tick
    /\ m.type = "tick" => n <= m.tick /\ m.points = <<m.tick>>
    /\ MergeKept(m, ShownAt(n, all)) = all[m.tick + 1]

(* The position page p will be at after the first i messages on socket s,  *)
(* and after all of them.                                                  *)
PositionAfter(p, s, i) == IF i = 0 THEN page[p].at ELSE chan[s][i].tick + 1
Position(p, s) == PositionAfter(p, s, Len(chan[s]))

(* Every message on its way fits. *)
ChannelInv(p, s) ==
    \A i \in DOMAIN chan[s] : Fits(chan[s][i], PositionAfter(p, s, i - 1), tick, snaps)

(* The server believes the client to be where the last message brings it. *)
BeliefInv(p, s) ==
    s \in DOMAIN clients =>
        /\ clients[s] = ShownAt(Position(p, s), snaps)
        /\ \A section \in Sections : WillShow(p, section, clients[s][section])

(* So it does in the list a broadcast took when it began, which is a poll  *)
(* ahead of every client still on it; and a tick that is being sent fits,  *)
(* and keeps only the sections the client has as they are.                 *)
BroadcastInv(p, s) ==
    /\ s \in broadcast.todo =>
          Position(p, s) <= tick /\ s \in DOMAIN clients /\ broadcast.known[s] = clients[s]
    /\ broadcast.sending.socket = s =>
          LET m == broadcast.sending.msg
          IN  /\ Fits(m, Position(p, s), tick, snaps)
              /\ m.tick = tick /\ s \in DOMAIN clients
              /\ \A section \in Sections :
                    IF section \in m.kept THEN clients[s][section] = snapshot[section]
                    ELSE m.snap[section] = snapshot[section]

(* The init that is being sent fits, and is what the handler will register. *)
InitInv(p, s) ==
    handler[s].pc = "sending" =>
        /\ Fits(handler[s].msg, page[p].at, tick, snaps)
        /\ handler[s].msg.kept = {} /\ handler[s].msg.snap = handler[s].holds
        /\ handler[s].holds = snaps[handler[s].msg.tick + 1]

StreamInv(p, s) == ChannelInv(p, s) /\ BeliefInv(p, s) /\ BroadcastInv(p, s) /\ InitInv(p, s)

PageInv(p) == ShowsInv(p) /\ \A s \in Sockets : page[p].socket = s => StreamInv(p, s)

WholeInv == TypeInv /\ SnapsInv /\ SocketInv /\ \A p \in Pages : PageInv(p)

-----------------------------------------------------------------------------
(* The model's operators. *)
LEMMA MapsElements ==
    /\ Snapshots \cup {Booting} \subseteq Maps
    /\ Booting \in Maps
BY StreamAssumption DEF Maps, Values, Booting

LEMMA BeliefsElements ==
    /\ \A f \in Beliefs : DOMAIN f \subseteq Sockets /\ \A s \in DOMAIN f : f[s] \in Maps
    /\ \A S \in SUBSET Sockets : \A f \in [S -> Maps] : f \in Beliefs /\ DOMAIN f = S
BY DEF Beliefs

(* A sequence's elements, without its set. *)
LEMMA SeqElements ==
    ASSUME NEW S, NEW seq \in Seq(S)
    PROVE  /\ Len(seq) \in Nat /\ DOMAIN seq = 1 .. Len(seq)
           /\ \A i \in DOMAIN seq : seq[i] \in S
BY LenProperties, ElementOfSeq

LEMMA MessageFields ==
    ASSUME NEW m \in SocketMessages
    PROVE  /\ m.type \in {"init", "tick"} /\ m.tick \in Nat /\ m.points \in Seq(Nat)
           /\ m.kept \subseteq Sections
           /\ m.snap \in [Sections \ m.kept -> Values]
BY DEF SocketMessages

LEMMA IsMessage ==
    ASSUME NEW type \in {"init", "tick"}, NEW at \in Nat, NEW points \in Seq(Nat),
           NEW kept \in SUBSET Sections, NEW snap \in [Sections \ kept -> Values]
    PROVE  [type |-> type, tick |-> at, points |-> points, snap |-> snap, kept |-> kept]
               \in SocketMessages
<1> DEFINE m == [type |-> type, tick |-> at, points |-> points, snap |-> snap, kept |-> kept]
<1>1. snap \in UNION {[S -> Values] : S \in SUBSET Sections}
  OBVIOUS
<1>2. m.snap \in [Sections \ m.kept -> Values]
  OBVIOUS
<1> QED
  BY <1>1, <1>2 DEF SocketMessages

(* The newest points are in order, and none is of a later poll. *)
LEMMA NewestTyped ==
    ASSUME NEW n \in Nat, NEW t \in Nat
    PROVE  /\ Newest(n, t) \in Seq(Nat)
           /\ Ordered(Newest(n, t))
           /\ \A i \in DOMAIN Newest(n, t) : Newest(n, t)[i] <= t
<1> DEFINE many == IF n <= t THEN n ELSE t
<1>1. many \in Nat /\ many <= t
  OBVIOUS
<1> HIDE DEF many
<1>2. Newest(n, t) = [i \in 1 .. many |-> t - many + i]
  BY DEF Newest, many
<1>3. [i \in 1 .. many |-> t - many + i] \in Seq(Nat)
  <2>1. \A i \in 1 .. many : t - many + i \in Nat
    BY <1>1
  <2> QED
    BY <1>1, <2>1, IsASeq
<1> QED
  BY <1>1, <1>2, <1>3 DEF Ordered

(* Trimmed drops points from the front. *)
LEMMA TrimmedIs ==
    ASSUME NEW points \in Seq(Nat), NEW t \in Nat
    PROVE  /\ Trimmed(points, t) \in Seq(Nat)
           /\ \E c \in Nat :
                 /\ \A i \in DOMAIN Trimmed(points, t) :
                       /\ i \in Nat /\ c + i \in DOMAIN points
                       /\ Trimmed(points, t)[i] = points[c + i]
                 /\ Trimmed(points, t) # <<>> => c + Len(Trimmed(points, t)) = Len(points)
<1> DEFINE old == {i \in DOMAIN points : \A j \in 1 .. i : points[j] + LivePoints <= t}
           c == Cardinality(old)
           n == Len(points)
           kept == SubSeq(points, c + 1, n)
<1>1. n \in Nat /\ DOMAIN points = 1 .. n /\ \A i \in DOMAIN points : points[i] \in Nat
  BY SeqElements
<1>2. c \in Nat
  <2>1. IsFiniteSet(1 .. n)
    BY <1>1, FS_Interval
  <2>2. old \subseteq 1 .. n
    BY <1>1
  <2> QED
    BY <2>1, <2>2, FS_Subset, FS_CardinalityType
<1>3. Trimmed(points, t) = kept
  BY DEF Trimmed
<1> HIDE DEF c, n
<1>4. /\ kept \in Seq(Nat)
      /\ Len(kept) = IF c + 1 <= n THEN n - (c + 1) + 1 ELSE 0
      /\ \A i \in 1 .. n - (c + 1) + 1 : kept[i] = points[c + 1 + i - 1]
  <2>1. \A i \in c + 1 .. n : points[i] \in Nat
    BY <1>1, <1>2
  <2>2. c + 1 \in Int /\ n \in Int
    BY <1>1, <1>2
  <2> QED
    BY <2>1, <2>2, SubSeqProperties
<1> HIDE DEF kept
<1>5. DOMAIN kept = 1 .. Len(kept) /\ (kept # <<>> => Len(kept) # 0)
  BY <1>4, SeqElements, EmptySeq
<1>6. ASSUME NEW i \in DOMAIN kept
      PROVE  i \in Nat /\ c + i \in DOMAIN points /\ kept[i] = points[c + i]
  <2>1. i \in 1 .. n - (c + 1) + 1 /\ i \in Nat
    BY <1>1, <1>2, <1>4, <1>5
  <2>2. c + 1 + i - 1 = c + i /\ c + i \in 1 .. n
    BY <1>1, <1>2, <2>1
  <2> QED
    BY <1>1, <1>4, <2>1, <2>2
<1>7. kept # <<>> => c + Len(kept) = n
  BY <1>1, <1>2, <1>4, <1>5
<1> QED
  BY <1>2, <1>3, <1>4, <1>6, <1>7 DEF n

LEMMA TrimmedTyped ==
    ASSUME NEW points \in Seq(Nat), NEW t \in Nat
    PROVE  /\ Trimmed(points, t) \in Seq(Nat)
           /\ Ordered(points) => Ordered(Trimmed(points, t))
           /\ \A i \in DOMAIN Trimmed(points, t) :
                  \E j \in DOMAIN points : Trimmed(points, t)[i] = points[j]
<1>1. Trimmed(points, t) \in Seq(Nat)
  BY TrimmedIs
<1>2. PICK c \in Nat :
          \A i \in DOMAIN Trimmed(points, t) :
              i \in Nat /\ c + i \in DOMAIN points /\ Trimmed(points, t)[i] = points[c + i]
  BY TrimmedIs
<1>3. Ordered(points) => Ordered(Trimmed(points, t))
  BY <1>2 DEF Ordered
<1> QED
  BY <1>1, <1>2, <1>3

LEMMA MergeTyped ==
    ASSUME NEW m \in SocketMessages, NEW shows \in Maps
    PROVE  MergeKept(m, shows) \in Maps
BY MessageFields DEF MergeKept, Maps

LEMMA TickMessageTyped ==
    ASSUME TypeInv, NEW known \in Maps
    PROVE  TickMessage(known) \in SocketMessages
<1> DEFINE kept == Kept(snapshot, known)
           snap == [s \in Sections \ kept |-> snapshot[s]]
<1>1. kept \in SUBSET Sections
  BY DEF Kept
<1>2. snapshot \in Maps /\ tick \in Nat
  BY MapsElements, StreamAssumption DEF TypeInv
<1>3. snap \in [Sections \ kept -> Values]
  BY <1>2 DEF Maps
<1>4. <<tick>> \in Seq(Nat)
  BY <1>2
<1> QED
  BY <1>1, <1>2, <1>3, <1>4, IsMessage DEF TickMessage

LEMMA InitMessageTyped ==
    ASSUME TypeInv
    PROVE  InitMessage \in SocketMessages
<1>1. snapshot \in Maps /\ tick \in Nat /\ LivePoints \in Nat
  BY MapsElements, StreamAssumption DEF TypeInv
<1>2. snapshot \in [Sections \ {} -> Values]
  BY <1>1 DEF Maps
<1> QED
  BY <1>1, <1>2, NewestTyped, IsMessage DEF InitMessage

-----------------------------------------------------------------------------
(* Each step keeps the types. *)
LEMMA BroadcastFields ==
    ASSUME TypeInv
    PROVE  /\ broadcast.todo \subseteq Sockets /\ broadcast.known \in Beliefs
           /\ broadcast.sending.socket \in Sockets \cup {NoSocket}
           /\ broadcast.sending # NotSending =>
                 broadcast.sending.socket \in Sockets /\ broadcast.sending.msg \in SocketMessages
           /\ broadcast.sending = NotSending => broadcast.sending.socket \notin Sockets
BY StreamAssumption DEF TypeInv, Broadcasts, NotSending

LEMMA HandlerTyped ==
    ASSUME TypeInv, NEW s \in Sockets,
           NEW pc \in {"accepted", "receiving", "ended"},
           handler' = [handler EXCEPT ![s].pc = pc]
    PROVE  /\ handler' \in [Sockets -> HandlerStates]
           /\ handler'[s].pc = pc /\ handler'[s].msg = handler[s].msg
           /\ handler'[s].holds = handler[s].holds
           /\ \A c \in Sockets : c # s => handler'[c] = handler[c]
           /\ \A c \in Sockets : handler'[c].pc = "sending" => handler'[c].msg \in SocketMessages
<1>1. handler[s] \in HandlerStates
  BY DEF TypeInv
<1>2. [handler[s] EXCEPT !.pc = pc] \in HandlerStates
  BY <1>1 DEF HandlerStates
<1>3. handler' = [handler EXCEPT ![s] = [handler[s] EXCEPT !.pc = pc]]
  OBVIOUS
<1>4. handler'[s] = [handler[s] EXCEPT !.pc = pc]
  BY <1>3 DEF TypeInv
<1>5. handler'[s].pc = pc /\ handler'[s].msg = handler[s].msg /\ handler'[s].holds = handler[s].holds
  BY <1>1, <1>4 DEF HandlerStates
<1>6. \A c \in Sockets : c # s => handler'[c] = handler[c]
  BY <1>3 DEF TypeInv
<1>7. handler' \in [Sockets -> HandlerStates]
  BY <1>2, <1>3 DEF TypeInv
<1>8. \A c \in Sockets : handler'[c].pc = "sending" => handler'[c].msg \in SocketMessages
  BY <1>5, <1>6 DEF TypeInv
<1> QED
  BY <1>5, <1>6, <1>7, <1>8

(* A message is put on a channel. *)
LEMMA Sent ==
    ASSUME TypeInv, NEW s \in Sockets, NEW m \in SocketMessages,
           chan' = [chan EXCEPT ![s] = Append(@, m)]
    PROVE  /\ chan' \in [Sockets -> Seq(SocketMessages)]
           /\ \A c \in Sockets : c # s => chan'[c] = chan[c]
           /\ Len(chan[s]) \in Nat /\ Len(chan'[s]) = Len(chan[s]) + 1
           /\ DOMAIN chan[s] = 1 .. Len(chan[s])
           /\ DOMAIN chan'[s] = 1 .. Len(chan[s]) + 1
           /\ \A i \in DOMAIN chan[s] : chan'[s][i] = chan[s][i]
           /\ chan'[s][Len(chan[s]) + 1] = m
<1>1. chan[s] \in Seq(SocketMessages) /\ chan'[s] = Append(chan[s], m)
  BY DEF TypeInv
<1>2. chan'[s] \in Seq(SocketMessages)
  BY <1>1, AppendProperties
<1>3. chan' \in [Sockets -> Seq(SocketMessages)] /\ \A c \in Sockets : c # s => chan'[c] = chan[c]
  BY <1>1, <1>2 DEF TypeInv
<1> QED
  BY <1>1, <1>2, <1>3, AppendProperties, SeqElements

(* The first message is taken off it. *)
LEMMA Taken ==
    ASSUME TypeInv, NEW s \in Sockets, chan[s] # <<>>,
           chan' = [chan EXCEPT ![s] = Tail(@)]
    PROVE  /\ chan' \in [Sockets -> Seq(SocketMessages)]
           /\ \A c \in Sockets : c # s => chan'[c] = chan[c]
           /\ Len(chan[s]) \in Nat \ {0} /\ Len(chan'[s]) = Len(chan[s]) - 1
           /\ DOMAIN chan[s] = 1 .. Len(chan[s])
           /\ DOMAIN chan'[s] = 1 .. Len(chan[s]) - 1
           /\ Head(chan[s]) = chan[s][1] /\ Head(chan[s]) \in SocketMessages
           /\ \A i \in DOMAIN chan'[s] : chan'[s][i] = chan[s][i + 1]
<1>1. chan[s] \in Seq(SocketMessages) /\ chan'[s] = Tail(chan[s])
  BY DEF TypeInv
<1>2. /\ Tail(chan[s]) \in Seq(SocketMessages) /\ Len(Tail(chan[s])) = Len(chan[s]) - 1
      /\ \A i \in 1 .. Len(Tail(chan[s])) : Tail(chan[s])[i] = chan[s][i + 1]
      /\ Head(chan[s]) \in SocketMessages
  BY <1>1, HeadTailProperties
<1>3. /\ Len(chan[s]) \in Nat /\ DOMAIN chan[s] = 1 .. Len(chan[s]) /\ Len(chan[s]) # 0
      /\ Head(chan[s]) = chan[s][1]
  BY <1>1, SeqElements, EmptySeq
<1>4. DOMAIN chan'[s] = 1 .. Len(chan[s]) - 1
  BY <1>1, <1>2, SeqElements
<1>5. chan' \in [Sockets -> Seq(SocketMessages)] /\ \A c \in Sockets : c # s => chan'[c] = chan[c]
  BY <1>1, <1>2 DEF TypeInv
<1> QED
  BY <1>1, <1>2, <1>3, <1>4, <1>5

(* A page receives a message. *)
LEMMA Received ==
    ASSUME TypeInv, NEW p \in Pages, NEW s \in Sockets, page[p].socket = s, Receive(p)
    PROVE  LET msg == Head(chan[s])
           IN  /\ page' \in [Pages -> PageStates] /\ page'[p].socket = s
               /\ page'[p].at = msg.tick + 1
               /\ page'[p].shows = MergeKept(msg, page[p].shows)
               /\ page'[p].points = IF msg.type = "init" THEN msg.points
                                    ELSE Trimmed(page[p].points \o msg.points, msg.tick)
               /\ \A q \in Pages : q # p => page'[q] = page[q]
<1> DEFINE msg == Head(chan[s])
           points == IF msg.type = "init" THEN msg.points
                     ELSE Trimmed(page[p].points \o msg.points, msg.tick)
           next == [page[p] EXCEPT !.at = msg.tick + 1,
                                   !.shows = MergeKept(msg, page[p].shows),
                                   !.points = points]
<1>1. msg \in SocketMessages
  <2>1. chan[s] # <<>> /\ chan' = [chan EXCEPT ![s] = Tail(@)]
    BY DEF Receive
  <2> QED
    BY <2>1, Taken
<1>2. page[p] \in PageStates
  BY DEF TypeInv
<1>3. page' = [page EXCEPT ![p] = next]
  BY DEF Receive
<1>4. msg.tick + 1 \in Nat /\ MergeKept(msg, page[p].shows) \in Maps /\ points \in Seq(Nat)
  <2>1. page[p].points \in Seq(Nat) /\ page[p].shows \in Maps
    BY <1>2 DEF PageStates
  <2>2. msg.points \in Seq(Nat) /\ msg.tick \in Nat
    BY <1>1, MessageFields
  <2>3. page[p].points \o msg.points \in Seq(Nat)
    BY <2>1, <2>2, ConcatProperties
  <2>4. Trimmed(page[p].points \o msg.points, msg.tick) \in Seq(Nat)
    BY <2>2, <2>3, TrimmedTyped
  <2>5. MergeKept(msg, page[p].shows) \in Maps
    BY <1>1, <2>1, MergeTyped
  <2>6. msg.tick + 1 \in Nat
    BY <2>2
  <2>7. points \in Seq(Nat)
    BY <2>2, <2>4
  <2> QED
    BY <2>5, <2>6, <2>7
<1> HIDE DEF msg, points
<1>5. /\ next \in PageStates /\ next.socket = page[p].socket /\ next.at = msg.tick + 1
      /\ next.shows = MergeKept(msg, page[p].shows) /\ next.points = points
  BY <1>2, <1>4 DEF PageStates
<1> HIDE DEF next
<1>6. page' \in [Pages -> PageStates] /\ page'[p] = next /\ \A q \in Pages : q # p => page'[q] = page[q]
  BY <1>3, <1>5 DEF TypeInv
<1> QED
  BY <1>5, <1>6 DEF msg, points

LEMMA Untyped ==
    ASSUME TypeInv, NEW s \in Sockets
    PROVE  /\ Without(clients, s) \in Beliefs
           /\ DOMAIN Without(clients, s) = DOMAIN clients \ {s}
           /\ \A c \in DOMAIN clients \ {s} : Without(clients, s)[c] = clients[c]
<1>1. DOMAIN clients \subseteq Sockets /\ \A c \in DOMAIN clients : clients[c] \in Maps
  BY BeliefsElements DEF TypeInv
<1>2. Without(clients, s) \in [DOMAIN clients \ {s} -> Maps]
  BY <1>1 DEF Without
<1> QED
  BY <1>1, <1>2, BeliefsElements DEF Without

LEMMA Believed ==
    ASSUME TypeInv, NEW S \in SUBSET Sockets, NEW s, NEW m \in Maps, S \subseteq DOMAIN clients \cup {s},
           clients' = [c \in S |-> IF c = s THEN m ELSE clients[c]]
    PROVE  /\ clients' \in Beliefs /\ DOMAIN clients' = S
           /\ s \in S => clients'[s] = m
           /\ \A c \in S : c # s => clients'[c] = clients[c]
<1>1. \A c \in DOMAIN clients : clients[c] \in Maps
  BY BeliefsElements DEF TypeInv
<1>2. clients' \in [S -> Maps]
  BY <1>1
<1> QED
  BY <1>2, BeliefsElements

LEMMA TypesHold ==
    ASSUME TypeInv, [Next]_vars
    PROVE  TypeInv'
<1>1. ASSUME NEW snap \in Snapshots, Publish(snap) PROVE TypeInv'
  <2>1. tick' \in 0 .. MaxTick
    BY <1>1, StreamAssumption DEF Publish, TypeInv
  <2>2. snaps' \in Seq(Maps)
    BY <1>1, MapsElements, AppendProperties DEF Publish, TypeInv
  <2>3. /\ broadcast' \in Broadcasts /\ broadcast'.todo = DOMAIN clients
        /\ broadcast'.known = clients
    BY <1>1, BeliefsElements DEF Publish, TypeInv, Broadcasts
  <2> QED
    BY <1>1, <2>1, <2>2, <2>3 DEF Publish, TypeInv, pageVars
<1>2. ASSUME NEW s \in Sockets, BeginTick(s) PROVE TypeInv'
  <2> DEFINE m == TickMessage(broadcast.known[s])
  <2>1. m \in SocketMessages
    <3>1. broadcast.known[s] \in Maps
      BY <1>2, BroadcastFields, BeliefsElements DEF BeginTick, TypeInv
    <3> QED
      BY <3>1, TickMessageTyped
  <2> HIDE DEF m
  <2>2. broadcast' = [broadcast EXCEPT !.todo = @ \ {s}, !.sending = [socket |-> s, msg |-> m]]
    BY <1>2 DEF BeginTick, m
  <2>3. /\ broadcast' \in Broadcasts /\ broadcast'.todo = broadcast.todo \ {s}
        /\ broadcast'.known = broadcast.known
    BY <2>1, <2>2 DEF TypeInv, Broadcasts
  <2> QED
    BY <1>2, <2>3 DEF BeginTick, TypeInv, pageVars
<1>3. ASSUME broadcast' = [broadcast EXCEPT !.sending = NotSending]
      PROVE  /\ broadcast' \in Broadcasts /\ broadcast'.todo = broadcast.todo
             /\ broadcast'.known = broadcast.known
  BY <1>3 DEF TypeInv, Broadcasts
<1>4. CASE TickSent
  <2> DEFINE s == broadcast.sending.socket
             m == broadcast.sending.msg
  <2>1. s \in Sockets /\ m \in SocketMessages
    BY <1>4, BroadcastFields DEF TickSent
  <2>2. chan' \in [Sockets -> Seq(SocketMessages)]
    <3>1. CASE s \in alive
      <4>1. chan' = [chan EXCEPT ![s] = Append(@, m)]
        BY <1>4, <3>1 DEF TickSent
      <4> QED
        BY <2>1, <4>1, Sent
    <3>2. CASE s \notin alive
      <4>1. chan' = [chan EXCEPT ![s] = @]
        BY <1>4, <3>2 DEF TickSent
      <4> QED
        BY <2>1, <4>1 DEF TypeInv
    <3> QED
      BY <3>1, <3>2
  <2>3. clients' \in Beliefs
    <3>1. snapshot \in Maps /\ DOMAIN clients \in SUBSET Sockets
      BY MapsElements, BeliefsElements DEF TypeInv
    <3>2. clients' = [c \in DOMAIN clients |-> IF c = s THEN snapshot ELSE clients[c]]
      BY <1>4 DEF TickSent
    <3> QED
      BY <3>1, <3>2, Believed
  <2> QED
    BY <1>3, <1>4, <2>2, <2>3 DEF TickSent, TypeInv
<1>5. CASE TickFails
  <2>1. broadcast.sending.socket \in Sockets
    BY <1>5, BroadcastFields DEF TickFails
  <2> QED
    BY <1>3, <1>5, <2>1, Untyped DEF TickFails, TypeInv, pageVars
<1>6. ASSUME NEW s \in Sockets, ReadInit(s) PROVE TypeInv'
  <2>1. [pc |-> "sending", msg |-> InitMessage, holds |-> snapshot] \in HandlerStates
    BY InitMessageTyped, MapsElements DEF HandlerStates, TypeInv
  <2> QED
    BY <1>6, <2>1, InitMessageTyped DEF ReadInit, TypeInv, pageVars
<1>7. ASSUME NEW s \in Sockets, InitSent(s) PROVE TypeInv'
  <2>1. handler[s].msg \in SocketMessages /\ handler[s].holds \in Maps
    BY <1>7 DEF InitSent, TypeInv, HandlerStates
  <2>2. chan' \in [Sockets -> Seq(SocketMessages)]
    BY <1>7, <2>1, Sent DEF InitSent
  <2>3. clients' \in Beliefs
    <3>1. DOMAIN clients \cup {s} \in SUBSET Sockets
      BY BeliefsElements DEF TypeInv
    <3> QED
      BY <1>7, <2>1, <3>1, Believed DEF InitSent
  <2>4. /\ handler' \in [Sockets -> HandlerStates]
        /\ \A c \in Sockets : handler'[c].pc = "sending" => handler'[c].msg \in SocketMessages
    BY <1>7, HandlerTyped DEF InitSent
  <2> QED
    BY <1>7, <2>2, <2>3, <2>4 DEF InitSent, TypeInv
<1>8. ASSUME NEW s \in Sockets, HandlerEnds(s) PROVE TypeInv'
  <2>1. /\ handler' \in [Sockets -> HandlerStates]
        /\ \A c \in Sockets : handler'[c].pc = "sending" => handler'[c].msg \in SocketMessages
    BY <1>8, HandlerTyped DEF HandlerEnds
  <2> QED
    BY <1>8, <2>1, Untyped DEF HandlerEnds, TypeInv, pageVars
<1>9. ASSUME NEW p \in Pages, NEW s \in Sockets \cup {NoSocket},
             page' = [page EXCEPT ![p].socket = s]
      PROVE  page' \in [Pages -> PageStates]
  <2>1. [page[p] EXCEPT !.socket = s] \in PageStates
    BY <1>9 DEF TypeInv, PageStates
  <2> QED
    BY <1>9, <2>1 DEF TypeInv
<1>10. ASSUME NEW p \in Pages, NEW s \in Sockets, Connect(p, s) PROVE TypeInv'
  <2>1. /\ handler' \in [Sockets -> HandlerStates]
        /\ \A c \in Sockets : handler'[c].pc = "sending" => handler'[c].msg \in SocketMessages
    BY <1>10, HandlerTyped DEF Connect
  <2> QED
    BY <1>9, <1>10, <2>1 DEF Connect, TypeInv
<1>11. ASSUME NEW p \in Pages, ConnectionLost(p) PROVE TypeInv'
  <2>1. page[p].socket \in Sockets
    BY <1>11 DEF ConnectionLost, TypeInv, PageStates
  <2>2. <<>> \in Seq(SocketMessages)
    OBVIOUS
  <2>3. chan' \in [Sockets -> Seq(SocketMessages)]
    BY <1>11, <2>1, <2>2 DEF ConnectionLost, TypeInv
  <2> QED
    BY <1>9, <1>11, <2>3 DEF ConnectionLost, TypeInv, serverVars
<1>12. ASSUME NEW p \in Pages, Receive(p) PROVE TypeInv'
  <2>1. page[p].socket \in Sockets
    BY <1>12 DEF Receive, TypeInv, PageStates
  <2>2. page' \in [Pages -> PageStates]
    BY <1>12, <2>1, Received
  <2>3. chan' \in [Sockets -> Seq(SocketMessages)]
    BY <1>12, <2>1, Taken DEF Receive
  <2> QED
    BY <1>12, <2>2, <2>3 DEF Receive, TypeInv, serverVars
<1>13. CASE UNCHANGED vars
  BY <1>13 DEF vars, serverVars, pageVars, TypeInv
<1> QED
  BY <1>1, <1>2, <1>4, <1>5, <1>6, <1>7, <1>8, <1>10, <1>11, <1>12, <1>13 DEF Next

-----------------------------------------------------------------------------
(* Each step keeps the snapshots by number, and sockets to their lives. *)
LEMMA SnapsHold ==
    ASSUME TypeInv, SnapsInv, [Next]_vars
    PROVE  /\ SnapsInv'
           /\ tick <= tick' /\ tick \in Nat
           /\ \A n \in 1 .. tick + 1 : snaps'[n] = snaps[n]
<1>1. tick \in Nat
  BY StreamAssumption DEF TypeInv
<1>2. ASSUME NEW snap \in Snapshots, Publish(snap)
      PROVE  /\ SnapsInv' /\ tick <= tick'
             /\ \A n \in 1 .. tick + 1 : snaps'[n] = snaps[n]
  <2>1. snap \in Maps /\ snaps \in Seq(Maps)
    BY MapsElements DEF TypeInv
  <2>2. /\ Len(snaps') = Len(snaps) + 1 /\ snaps'[Len(snaps) + 1] = snap
        /\ \A n \in 1 .. Len(snaps) : snaps'[n] = snaps[n]
    BY <1>2, <2>1, AppendProperties DEF Publish
  <2> QED
    BY <1>1, <1>2, <2>2 DEF Publish, SnapsInv
<1>3. CASE UNCHANGED <<tick, snapshot, snaps>>
  BY <1>1, <1>3 DEF SnapsInv
<1> QED
  BY <1>1, <1>2, <1>3 DEF Next, vars, serverVars, TickSent, TickFails, BeginTick, ReadInit,
     InitSent, HandlerEnds, ConnectionLost, Receive, Connect

LEMMA SocketsHold ==
    ASSUME TypeInv, SocketInv, [Next]_vars
    PROVE  SocketInv'
<1>1. DOMAIN clients \subseteq Sockets
  BY BeliefsElements DEF TypeInv
<1>2. ASSUME NEW snap \in Snapshots, Publish(snap) PROVE SocketInv'
  <2>1. broadcast'.todo = DOMAIN clients /\ broadcast'.sending = NotSending
    BY <1>2 DEF Publish
  <2>2. broadcast'.sending.socket \notin Sockets
    BY <2>1, StreamAssumption DEF NotSending
  <2>3. UNCHANGED <<clients, handler, chan, alive, page>>
    BY <1>2 DEF Publish, pageVars
  <2> QED
    BY <1>1, <2>1, <2>2, <2>3 DEF SocketInv, Life, Owned, Unregistered, Connected
<1>3. ASSUME NEW s \in Sockets, BeginTick(s) PROVE SocketInv'
  <2>1. broadcast'.todo = broadcast.todo \ {s} /\ broadcast'.sending.socket = s
    BY <1>3 DEF BeginTick, TypeInv, Broadcasts
  <2>2. s \in broadcast.todo /\ UNCHANGED <<clients, handler, chan, alive, page>>
    BY <1>3 DEF BeginTick, pageVars
  <2> QED
    BY <2>1, <2>2 DEF SocketInv, Life, Owned, Unregistered, Connected
<1>4. CASE TickSent
  <2> DEFINE s == broadcast.sending.socket
  <2>1. s \in Sockets
    BY <1>4, BroadcastFields DEF TickSent
  <2>2. \A c \in Sockets : c # s => chan'[c] = chan[c]
    BY <1>4 DEF TickSent, TypeInv
  <2>3. handler[s].pc \notin {"unused", "accepted", "sending"}
    BY <2>1 DEF SocketInv, Life, Unregistered
  <2>4. broadcast'.todo = broadcast.todo /\ broadcast'.sending.socket \notin Sockets
    BY <1>4, StreamAssumption DEF TickSent, TypeInv, Broadcasts, NotSending
  <2>5. broadcast.todo \subseteq Sockets
    BY BroadcastFields
  <2>6. DOMAIN clients' = DOMAIN clients /\ UNCHANGED <<handler, alive, page>>
    BY <1>4 DEF TickSent
  <2> QED
    BY <2>2, <2>3, <2>4, <2>5, <2>6 DEF SocketInv, Life, Owned, Unregistered, Connected
<1>5. CASE TickFails
  <2> DEFINE s == broadcast.sending.socket
  <2>1. s \in Sockets /\ s \notin alive
    BY <1>5, BroadcastFields DEF TickFails
  <2>2. broadcast'.todo = broadcast.todo /\ broadcast'.sending.socket \notin Sockets
    BY <1>5, StreamAssumption DEF TickFails, TypeInv, Broadcasts, NotSending
  <2>3. broadcast.todo \subseteq Sockets
    BY BroadcastFields
  <2>4. DOMAIN clients' = DOMAIN clients \ {s} /\ UNCHANGED <<handler, chan, alive, page>>
    BY <1>5, <2>1, Untyped DEF TickFails, pageVars
  <2> QED
    BY <2>1, <2>2, <2>3, <2>4 DEF SocketInv, Life, Owned, Unregistered, Connected
<1>6. ASSUME NEW s \in Sockets, ReadInit(s) PROVE SocketInv'
  <2>1. handler[s].pc = "accepted" /\ handler'[s].pc = "sending"
        /\ \A c \in Sockets : c # s => handler'[c] = handler[c]
    BY <1>6 DEF ReadInit, TypeInv
  <2>2. UNCHANGED <<clients, broadcast, chan, alive, page>>
    BY <1>6 DEF ReadInit, pageVars
  <2>3. ASSUME NEW c \in Sockets PROVE Life(c)'
    <3>1. Life(c)
      BY DEF SocketInv
    <3>2. CASE c = s
      BY <2>1, <2>2, <3>1, <3>2 DEF Life, Unregistered
    <3>3. CASE c # s
      BY <2>1, <2>2, <3>1, <3>3 DEF Life, Unregistered
    <3> QED
      BY <3>2, <3>3
  <2>4. Owned' /\ broadcast'.sending.socket \notin broadcast'.todo
    BY <2>1, <2>2 DEF SocketInv, Owned, Connected
  <2> QED
    BY <2>3, <2>4 DEF SocketInv
<1>7. ASSUME NEW s \in Sockets, InitSent(s) PROVE SocketInv'
  <2>1. handler[s].pc = "sending" /\ handler'[s].pc = "receiving"
        /\ \A c \in Sockets : c # s => handler'[c] = handler[c]
    BY <1>7, HandlerTyped DEF InitSent
  <2>2. DOMAIN clients' = DOMAIN clients \cup {s} /\ UNCHANGED <<broadcast, alive, page>>
    BY <1>7 DEF InitSent
  <2>3. \A c \in Sockets : c # s => chan'[c] = chan[c]
    BY <1>7 DEF InitSent, TypeInv
  <2>4. ASSUME NEW c \in Sockets PROVE Life(c)'
    <3>1. Life(c)
      BY DEF SocketInv
    <3>2. CASE c = s
      BY <2>1, <2>2, <2>3, <3>1, <3>2 DEF Life, Unregistered
    <3>3. CASE c # s
      BY <2>1, <2>2, <2>3, <3>1, <3>3 DEF Life, Unregistered
    <3> QED
      BY <3>2, <3>3
  <2>5. Owned' /\ broadcast'.sending.socket \notin broadcast'.todo
    BY <2>1, <2>2, <2>3 DEF SocketInv, Owned, Connected
  <2> QED
    BY <2>4, <2>5 DEF SocketInv
<1>8. ASSUME NEW s \in Sockets, HandlerEnds(s) PROVE SocketInv'
  <2>1. s \notin alive /\ handler'[s].pc = "ended"
        /\ \A c \in Sockets : c # s => handler'[c] = handler[c]
    BY <1>8, HandlerTyped DEF HandlerEnds
  <2>2. DOMAIN clients' = DOMAIN clients \ {s} /\ UNCHANGED <<broadcast, chan, alive, page>>
    BY <1>8, Untyped DEF HandlerEnds, pageVars
  <2>3. ASSUME NEW c \in Sockets PROVE Life(c)'
    <3>1. Life(c)
      BY DEF SocketInv
    <3>2. CASE c = s
      BY <2>1, <2>2, <3>1, <3>2 DEF Life, Unregistered
    <3>3. CASE c # s
      BY <2>1, <2>2, <3>1, <3>3 DEF Life, Unregistered
    <3> QED
      BY <3>2, <3>3
  <2>4. Owned' /\ broadcast'.sending.socket \notin broadcast'.todo
    BY <2>1, <2>2 DEF SocketInv, Owned, Connected
  <2> QED
    BY <2>3, <2>4 DEF SocketInv
<1>9. ASSUME NEW p \in Pages, NEW s \in Sockets, Connect(p, s) PROVE SocketInv'
  <2>1. handler[s].pc = "unused" /\ handler'[s].pc = "accepted"
        /\ \A c \in Sockets : c # s => handler'[c] = handler[c]
    BY <1>9, HandlerTyped DEF Connect
  <2>2. /\ page[p].socket = NoSocket /\ page'[p].socket = s
        /\ \A q \in Pages : q # p => page'[q] = page[q]
    BY <1>9 DEF Connect, TypeInv, PageStates
  <2>3. alive' = alive \cup {s} /\ UNCHANGED <<clients, broadcast, chan>>
    BY <1>9 DEF Connect
  <2>4. s \notin alive /\ s # NoSocket
    BY <2>1, StreamAssumption DEF SocketInv, Life
  <2>5. \A q \in Pages : Connected(q) => page[q].socket \in alive
    BY DEF SocketInv, Owned, Connected
  <2>6. alive' = {page'[q].socket : q \in {r \in Pages : Connected(r)'}}
    BY <2>2, <2>3, <2>4 DEF SocketInv, Owned, Connected
  <2>7. \A q, r \in Pages : Connected(q)' /\ page'[q].socket = page'[r].socket => q = r
    BY <2>2, <2>4, <2>5 DEF SocketInv, Owned, Connected
  <2>8. ASSUME NEW c \in Sockets PROVE Life(c)'
    <3>1. Life(c)
      BY DEF SocketInv
    <3>2. CASE c = s
      BY <2>1, <2>3, <2>4, <3>1, <3>2 DEF Life, Unregistered
    <3>3. CASE c # s
      BY <2>1, <2>3, <2>4, <3>1, <3>3 DEF Life, Unregistered
    <3> QED
      BY <3>2, <3>3
  <2>9. Owned' /\ broadcast'.sending.socket \notin broadcast'.todo
    BY <2>3, <2>6, <2>7 DEF SocketInv, Owned
  <2> QED
    BY <2>8, <2>9 DEF SocketInv
<1>10. ASSUME NEW p \in Pages, ConnectionLost(p) PROVE SocketInv'
  <2> DEFINE s == page[p].socket
  <2>1. s \in Sockets /\ s # NoSocket
    BY <1>10 DEF ConnectionLost, TypeInv, PageStates
  <2>2. page'[p].socket = NoSocket /\ \A q \in Pages : q # p => page'[q] = page[q]
    BY <1>10 DEF ConnectionLost, TypeInv, PageStates
  <2>3. /\ alive' = alive \ {s} /\ UNCHANGED <<clients, broadcast, handler>>
        /\ \A c \in Sockets : chan[c] = <<>> => chan'[c] = <<>>
    BY <1>10 DEF ConnectionLost, serverVars, TypeInv
  <2>4. alive' = {page'[q].socket : q \in {r \in Pages : Connected(r)'}}
    BY <2>1, <2>2, <2>3 DEF SocketInv, Owned, Connected
  <2>5. \A q, r \in Pages : Connected(q)' /\ page'[q].socket = page'[r].socket => q = r
    BY <2>2 DEF SocketInv, Owned, Connected
  <2> QED
    BY <2>3, <2>4, <2>5 DEF SocketInv, Life, Owned, Unregistered
<1>11. ASSUME NEW p \in Pages, Receive(p) PROVE SocketInv'
  <2> DEFINE s == page[p].socket
  <2>1. s \in Sockets
    BY <1>11 DEF Receive, TypeInv, PageStates
  <2>2. page'[p].socket = s /\ \A q \in Pages : q # p => page'[q] = page[q]
    BY <1>11, <2>1, Received
  <2>3. \A q \in Pages : page'[q].socket = page[q].socket
    BY <2>2
  <2>4. chan[s] # <<>> /\ \A c \in Sockets : c # s => chan'[c] = chan[c]
    BY <1>11, <2>1 DEF Receive, TypeInv
  <2>5. UNCHANGED <<clients, broadcast, handler, alive>>
    BY <1>11 DEF Receive, serverVars
  <2> QED
    BY <2>3, <2>4, <2>5 DEF SocketInv, Life, Owned, Unregistered, Connected
<1>12. CASE UNCHANGED vars
  BY <1>12 DEF vars, serverVars, pageVars, SocketInv, Life, Owned, Unregistered, Connected
<1> QED
  BY <1>2, <1>3, <1>4, <1>5, <1>6, <1>7, <1>8, <1>9, <1>10, <1>11, <1>12 DEF Next

-----------------------------------------------------------------------------
(* A message that fits goes on fitting as polls are made. *)
LEMMA FitsLater ==
    ASSUME NEW m \in SocketMessages, NEW n \in Nat, NEW t \in Nat, NEW u \in Nat, t <= u,
           NEW all, NEW more, \A k \in 1 .. t + 1 : more[k] = all[k],
           Fits(m, n, t, all)
    PROVE  Fits(m, n, u, more)
<1>1. m.tick \in Nat /\ m.tick <= t /\ n <= m.tick + 1
  BY MessageFields DEF Fits
<1>2. m.tick + 1 \in 1 .. t + 1 /\ (n # 0 => n \in 1 .. t + 1)
  BY <1>1
<1>3. more[m.tick + 1] = all[m.tick + 1] /\ ShownAt(n, more) = ShownAt(n, all)
  BY <1>2 DEF ShownAt
<1> QED
  BY <1>1, <1>3 DEF Fits

LEMMA PositionTyped ==
    ASSUME TypeInv, NEW p \in Pages, NEW s \in Sockets
    PROVE  /\ page[p].at \in Nat /\ page[p].points \in Seq(Nat)
           /\ Len(chan[s]) \in Nat /\ DOMAIN chan[s] = 1 .. Len(chan[s])
           /\ \A i \in DOMAIN chan[s] : chan[s][i] \in SocketMessages
           /\ \A i \in 0 .. Len(chan[s]) : PositionAfter(p, s, i) \in Nat
           /\ Position(p, s) \in Nat
<1>1. page[p].at \in Nat /\ page[p].points \in Seq(Nat)
  BY DEF TypeInv, PageStates
<1>2. /\ Len(chan[s]) \in Nat /\ DOMAIN chan[s] = 1 .. Len(chan[s])
      /\ \A i \in DOMAIN chan[s] : chan[s][i] \in SocketMessages
  BY SeqElements DEF TypeInv
<1>3. \A i \in DOMAIN chan[s] : chan[s][i].tick \in Nat
  BY <1>2, MessageFields
<1>4. \A i \in 0 .. Len(chan[s]) : PositionAfter(p, s, i) \in Nat
  BY <1>1, <1>2, <1>3 DEF PositionAfter
<1>5. Position(p, s) \in Nat
  BY <1>2, <1>4 DEF Position
<1> QED
  BY <1>1, <1>2, <1>4, <1>5

(* No client is further than the current snapshot. *)
LEMMA PositionBound ==
    ASSUME TypeInv, NEW p \in Pages, NEW s \in Sockets, ShowsInv(p), ChannelInv(p, s)
    PROVE  Position(p, s) <= tick + 1
<1>1. CASE Len(chan[s]) = 0
  BY <1>1 DEF Position, PositionAfter, ShowsInv
<1>2. CASE Len(chan[s]) # 0
  <2>1. Len(chan[s]) \in DOMAIN chan[s] /\ Position(p, s) = chan[s][Len(chan[s])].tick + 1
    BY <1>2, PositionTyped DEF Position, PositionAfter
  <2>2. chan[s][Len(chan[s])].tick <= tick
    BY <2>1 DEF ChannelInv, Fits
  <2>3. chan[s][Len(chan[s])].tick \in Nat /\ tick \in Nat
    <3>1. chan[s][Len(chan[s])] \in SocketMessages
      BY <2>1, PositionTyped
    <3>2. chan[s][Len(chan[s])].tick \in Nat
      BY <3>1, MessageFields
    <3>3. tick \in Nat
      BY StreamAssumption DEF TypeInv
    <3> QED
      BY <3>2, <3>3
  <2> QED
    BY <2>1, <2>2, <2>3
<1> QED
  BY <1>1, <1>2

(* What a step leaves alone goes on as it was. *)
LEMMA ShowsStay ==
    ASSUME TypeInv, SnapsInv, [Next]_vars, NEW p \in Pages, ShowsInv(p), page'[p] = page[p]
    PROVE  ShowsInv(p)'
<1>1. tick \in Nat /\ tick' \in Nat /\ tick <= tick' /\ \A n \in 1 .. tick + 1 : snaps'[n] = snaps[n]
  BY SnapsHold, TypesHold, StreamAssumption DEF TypeInv
<1>2. page[p].at \in Nat /\ page[p].at <= tick + 1
  BY DEF TypeInv, PageStates, ShowsInv
<1>3. ShownAt(page[p].at, snaps') = ShownAt(page[p].at, snaps)
  BY <1>1, <1>2 DEF ShownAt
<1>4. page'[p].at <= tick' + 1
  BY <1>1, <1>2
<1>5. page'[p].shows = ShownAt(page'[p].at, snaps')
  BY <1>3 DEF ShowsInv
<1> QED
  BY <1>4, <1>5 DEF ShowsInv

LEMMA ChannelStays ==
    ASSUME TypeInv, SnapsInv, [Next]_vars, NEW p \in Pages, NEW s \in Sockets, ChannelInv(p, s),
           page'[p] = page[p], chan'[s] = chan[s]
    PROVE  ChannelInv(p, s)' /\ Position(p, s)' = Position(p, s)
<1>1. tick \in Nat /\ tick' \in Nat /\ tick <= tick' /\ \A n \in 1 .. tick + 1 : snaps'[n] = snaps[n]
  BY SnapsHold, TypesHold, StreamAssumption DEF TypeInv
<1>2. \A i \in 0 .. Len(chan[s]) : PositionAfter(p, s, i)' = PositionAfter(p, s, i)
  BY DEF PositionAfter
<1>3. ASSUME NEW i \in DOMAIN chan'[s]
      PROVE  Fits(chan'[s][i], PositionAfter(p, s, i - 1)', tick', snaps')
  <2>1. i \in DOMAIN chan[s] /\ chan[s][i] \in SocketMessages /\ i - 1 \in 0 .. Len(chan[s])
    BY <1>3, PositionTyped
  <2>2. PositionAfter(p, s, i - 1)' = PositionAfter(p, s, i - 1) /\ PositionAfter(p, s, i - 1) \in Nat
    BY <1>2, <2>1, PositionTyped
  <2>3. Fits(chan[s][i], PositionAfter(p, s, i - 1), tick, snaps)
    BY <2>1 DEF ChannelInv
  <2> QED
    BY <1>1, <2>1, <2>2, <2>3, FitsLater
<1>4. Position(p, s)' = Position(p, s)
  BY <1>2, PositionTyped DEF Position
<1> QED
  BY <1>3, <1>4 DEF ChannelInv

LEMMA BeliefStays ==
    ASSUME TypeInv, SnapsInv, [Next]_vars, NEW p \in Pages, NEW s \in Sockets,
           ShowsInv(p), ChannelInv(p, s), BeliefInv(p, s), page[p].socket = s,
           page'[p] = page[p], chan'[s] = chan[s],
           s \in DOMAIN clients' => s \in DOMAIN clients /\ clients'[s] = clients[s]
    PROVE  BeliefInv(p, s)'
<1> SUFFICES ASSUME s \in DOMAIN clients'
             PROVE  /\ clients'[s] = ShownAt(Position(p, s)', snaps')
                    /\ \A section \in Sections : WillShow(p, section, clients[s][section])'
  BY DEF BeliefInv
<1>1. /\ clients[s] = ShownAt(Position(p, s), snaps)
      /\ \A section \in Sections : WillShow(p, section, clients[s][section])
  BY DEF BeliefInv
<1>2. Position(p, s)' = Position(p, s) /\ Position(p, s) \in 0 .. tick + 1
  BY ChannelStays, PositionBound, PositionTyped, StreamAssumption DEF TypeInv
<1>3. \A n \in 1 .. tick + 1 : snaps'[n] = snaps[n]
  BY SnapsHold
<1>4. ShownAt(Position(p, s), snaps') = ShownAt(Position(p, s), snaps)
  BY <1>2, <1>3 DEF ShownAt
<1>5. ASSUME NEW section \in Sections, NEW v, WillShow(p, section, v) PROVE WillShow(p, section, v)'
  BY <1>5 DEF WillShow
<1> QED
  BY <1>1, <1>2, <1>4, <1>5

LEMMA InitStays ==
    ASSUME TypeInv, SnapsInv, [Next]_vars, NEW p \in Pages, NEW s \in Sockets, InitInv(p, s),
           page'[p] = page[p], handler'[s] = handler[s]
    PROVE  InitInv(p, s)'
<1> SUFFICES ASSUME handler[s].pc = "sending"
             PROVE  /\ Fits(handler[s].msg, page[p].at, tick', snaps')
                    /\ handler[s].msg.kept = {} /\ handler[s].msg.snap = handler[s].holds
                    /\ handler[s].holds = snaps'[handler[s].msg.tick + 1]
  BY DEF InitInv
<1>1. tick \in Nat /\ tick' \in Nat /\ tick <= tick' /\ \A n \in 1 .. tick + 1 : snaps'[n] = snaps[n]
  BY SnapsHold, TypesHold, StreamAssumption DEF TypeInv
<1>2. handler[s].msg \in SocketMessages /\ page[p].at \in Nat
  BY PositionTyped DEF TypeInv
<1>3. /\ Fits(handler[s].msg, page[p].at, tick, snaps)
      /\ handler[s].msg.kept = {} /\ handler[s].msg.snap = handler[s].holds
      /\ handler[s].holds = snaps[handler[s].msg.tick + 1]
  BY DEF InitInv
<1>4. handler[s].msg.tick + 1 \in 1 .. tick + 1
  <2>1. handler[s].msg.tick \in Nat
    BY <1>2, MessageFields
  <2>2. handler[s].msg.tick <= tick
    BY <1>3 DEF Fits
  <2> QED
    BY <1>1, <2>1, <2>2
<1> QED
  BY <1>1, <1>2, <1>3, <1>4, FitsLater

(* Nothing of the page, nor of the broadcast for it, has changed. *)
LEMMA PageStays ==
    ASSUME TypeInv, SnapsInv, [Next]_vars, UNCHANGED <<tick, snapshot, snaps>>,
           NEW p \in Pages, PageInv(p), page'[p] = page[p],
           \A s \in Sockets : page[p].socket = s =>
               /\ chan'[s] = chan[s] /\ handler'[s] = handler[s]
               /\ s \in DOMAIN clients' <=> s \in DOMAIN clients
               /\ s \in DOMAIN clients => clients'[s] = clients[s]
               /\ s \in broadcast'.todo => s \in broadcast.todo
               /\ broadcast'.known = broadcast.known
               /\ broadcast'.sending.socket = s => broadcast'.sending = broadcast.sending
    PROVE  PageInv(p)'
<1>1. ShowsInv(p)'
  BY ShowsStay DEF PageInv
<1>2. ASSUME NEW s \in Sockets, page[p].socket = s PROVE StreamInv(p, s)'
  <2>1. ShowsInv(p) /\ ChannelInv(p, s) /\ BeliefInv(p, s) /\ BroadcastInv(p, s) /\ InitInv(p, s)
    BY <1>2 DEF PageInv, StreamInv
  <2>2. ChannelInv(p, s)' /\ Position(p, s)' = Position(p, s)
    BY <1>2, <2>1, ChannelStays
  <2>3. BeliefInv(p, s)' /\ InitInv(p, s)'
    BY <1>2, <2>1, BeliefStays, InitStays
  <2>4. BroadcastInv(p, s)'
    BY <1>2, <2>1, <2>2 DEF BroadcastInv
  <2> QED
    BY <2>2, <2>3, <2>4 DEF StreamInv
<1> QED
  BY <1>1, <1>2 DEF PageInv

-----------------------------------------------------------------------------
(* A tick merged with a snapshot the client holds makes the current one.   *)
LEMMA TickFits ==
    ASSUME TypeInv, SnapsInv, NEW known \in Maps, NEW n \in Nat, n <= tick, ShownAt(n, snaps) = known
    PROVE  LET m == TickMessage(known)
           IN  /\ Fits(m, n, tick, snaps)
               /\ m.tick = tick
               /\ \A section \in Sections :
                     IF section \in m.kept THEN known[section] = snapshot[section]
                     ELSE m.snap[section] = snapshot[section]
<1> DEFINE kept == Kept(snapshot, known)
           m == TickMessage(known)
<1>1. snapshot \in Maps /\ tick \in Nat
  BY MapsElements, StreamAssumption DEF TypeInv
<1>2. /\ m.type = "tick" /\ m.tick = tick /\ m.points = <<tick>> /\ m.kept = kept
      /\ m.snap = [s \in Sections \ kept |-> snapshot[s]]
  BY DEF TickMessage
<1> HIDE DEF m
<1>3. \A s \in kept : known[s] = snapshot[s]
  BY DEF Kept
<1> HIDE DEF kept
<1>4. \A s \in Sections : IF s \in m.kept THEN known[s] = snapshot[s] ELSE m.snap[s] = snapshot[s]
  BY <1>2, <1>3
<1>5. MergeKept(m, known) = snapshot
  BY <1>1, <1>4 DEF MergeKept, Maps
<1>6. Ordered(m.points) /\ \A i \in DOMAIN m.points : m.points[i] <= m.tick
  BY <1>1, <1>2 DEF Ordered
<1>7. MergeKept(m, ShownAt(n, snaps)) = snaps[m.tick + 1]
  BY <1>2, <1>5 DEF SnapsInv
<1>8. Fits(m, n, tick, snaps)
  BY <1>1, <1>2, <1>6, <1>7 DEF Fits
<1> QED
  BY <1>2, <1>4, <1>8 DEF m

(* An init fits whatever the page shows. *)
LEMMA InitFits ==
    ASSUME TypeInv, SnapsInv, NEW n \in Nat, n <= tick + 1
    PROVE  Fits(InitMessage, n, tick, snaps)
<1> DEFINE m == InitMessage
<1>1. snapshot \in Maps /\ tick \in Nat /\ LivePoints \in Nat
  BY MapsElements, StreamAssumption DEF TypeInv
<1>2. /\ m.type = "init" /\ m.tick = tick /\ m.points = Newest(LivePoints, tick)
      /\ m.kept = {} /\ m.snap = snapshot
  BY DEF InitMessage
<1> HIDE DEF m
<1>3. MergeKept(m, ShownAt(n, snaps)) = snapshot
  BY <1>1, <1>2 DEF MergeKept, Maps
<1>4. Ordered(m.points) /\ \A i \in DOMAIN m.points : m.points[i] <= m.tick
  BY <1>1, <1>2, NewestTyped
<1>5. MergeKept(m, ShownAt(n, snaps)) = snaps[m.tick + 1]
  BY <1>2, <1>3 DEF SnapsInv
<1> QED
  BY <1>1, <1>2, <1>4, <1>5 DEF Fits, m

(* A fitting message put on the channel brings the client to its snapshot. *)
LEMMA SentFits ==
    ASSUME TypeInv, SnapsInv, [Next]_vars, UNCHANGED <<tick, snaps>>,
           NEW p \in Pages, NEW s \in Sockets, page[p].socket = s, page'[p] = page[p], ChannelInv(p, s),
           NEW m \in SocketMessages, Fits(m, Position(p, s), tick, snaps),
           chan' = [chan EXCEPT ![s] = Append(@, m)]
    PROVE  ChannelInv(p, s)' /\ Position(p, s)' = m.tick + 1
<1>1. /\ Len(chan[s]) \in Nat /\ Len(chan'[s]) = Len(chan[s]) + 1
      /\ DOMAIN chan[s] = 1 .. Len(chan[s])
      /\ DOMAIN chan'[s] = 1 .. Len(chan[s]) + 1
      /\ \A i \in DOMAIN chan[s] : chan'[s][i] = chan[s][i]
      /\ chan'[s][Len(chan[s]) + 1] = m
  BY Sent
<1>2. \A i \in 0 .. Len(chan[s]) : PositionAfter(p, s, i)' = PositionAfter(p, s, i)
  BY <1>1 DEF PositionAfter
<1>3. ASSUME NEW i \in DOMAIN chan'[s]
      PROVE  Fits(chan'[s][i], PositionAfter(p, s, i - 1)', tick', snaps')
  <2>1. i - 1 \in 0 .. Len(chan[s])
    BY <1>1, <1>3
  <2>2. PositionAfter(p, s, i - 1)' = PositionAfter(p, s, i - 1)
    BY <1>2, <2>1
  <2>3. CASE i \in DOMAIN chan[s]
    BY <1>1, <2>2, <2>3 DEF ChannelInv
  <2>4. CASE i = Len(chan[s]) + 1
    <3>1. i - 1 = Len(chan[s])
      BY <1>1, <2>4
    <3> QED
      BY <1>1, <2>2, <2>4, <3>1 DEF Position
  <2> QED
    BY <1>1, <1>3, <2>3, <2>4
<1>4. Position(p, s)' = m.tick + 1
  BY <1>1 DEF Position, PositionAfter
<1> QED
  BY <1>3, <1>4 DEF ChannelInv

(* A section the message brings will show as it brings it; one it keeps    *)
(* will show as it would have without it.                                  *)
LEMMA SentShows ==
    ASSUME TypeInv, NEW p \in Pages, NEW s \in Sockets, page[p].socket = s, page'[p] = page[p],
           NEW m \in SocketMessages, chan' = [chan EXCEPT ![s] = Append(@, m)],
           NEW section \in Sections, NEW v,
           IF section \in m.kept THEN WillShow(p, section, v) ELSE m.snap[section] = v
    PROVE  WillShow(p, section, v)'
<1>1. /\ Len(chan[s]) \in Nat /\ Len(chan'[s]) = Len(chan[s]) + 1
      /\ DOMAIN chan[s] = 1 .. Len(chan[s])
      /\ DOMAIN chan'[s] = 1 .. Len(chan[s]) + 1
      /\ \A i \in DOMAIN chan[s] : chan'[s][i] = chan[s][i]
      /\ chan'[s][Len(chan[s]) + 1] = m
  BY Sent
<1>2. CASE section \notin m.kept
  <2>1. Len(chan[s]) + 1 \in DOMAIN chan'[s]
    BY <1>1
  <2>2. \A j \in DOMAIN chan'[s] : ~(Len(chan[s]) + 1 < j)
    BY <1>1
  <2> QED
    BY <1>1, <1>2, <2>1, <2>2 DEF WillShow
<1>3. CASE section \in m.kept
  <2>1. \A j \in DOMAIN chan'[s] : j \in DOMAIN chan[s] \/ chan'[s][j] = m
    BY <1>1
  <2>2. \A j \in DOMAIN chan[s] : j \in DOMAIN chan'[s]
    BY <1>1
  <2>3. WillShow(p, section, v)
    BY <1>3
  <2> QED
    BY <1>1, <1>3, <2>1, <2>2, <2>3 DEF WillShow
<1> QED
  BY <1>2, <1>3

(* Receiving a message moves the page to its position, and the rest of the *)
(* channel goes on from there.                                             *)
LEMMA ReceivedPositions ==
    ASSUME TypeInv, NEW p \in Pages, NEW s \in Sockets, page[p].socket = s, Receive(p)
    PROVE  /\ \A i \in 0 .. Len(chan'[s]) : PositionAfter(p, s, i)' = PositionAfter(p, s, i + 1)
           /\ \A i \in DOMAIN chan'[s] :
                 \E j \in DOMAIN chan[s] :
                    /\ chan'[s][i] = chan[s][j]
                    /\ PositionAfter(p, s, i - 1)' = PositionAfter(p, s, j - 1)
           /\ Position(p, s)' = Position(p, s)
<1>1. chan[s] # <<>> /\ chan' = [chan EXCEPT ![s] = Tail(@)]
  BY DEF Receive
<1>2. /\ Len(chan[s]) \in Nat \ {0} /\ Len(chan'[s]) = Len(chan[s]) - 1
      /\ DOMAIN chan[s] = 1 .. Len(chan[s])
      /\ DOMAIN chan'[s] = 1 .. Len(chan[s]) - 1
      /\ Head(chan[s]) = chan[s][1]
      /\ \A i \in DOMAIN chan'[s] : chan'[s][i] = chan[s][i + 1]
  BY <1>1, Taken
<1>3. page'[p].at = Head(chan[s]).tick + 1
  BY Received
<1>4. ASSUME NEW i \in 0 .. Len(chan'[s])
      PROVE  PositionAfter(p, s, i)' = PositionAfter(p, s, i + 1)
  <2>1. CASE i = 0
    BY <1>2, <1>3, <2>1 DEF PositionAfter
  <2>2. CASE i # 0
    <3>1. i \in DOMAIN chan'[s] /\ i + 1 # 0
      BY <1>2, <2>2
    <3> QED
      BY <1>2, <2>2, <3>1 DEF PositionAfter
  <2> QED
    BY <2>1, <2>2
<1>5. ASSUME NEW i \in DOMAIN chan'[s]
      PROVE  \E j \in DOMAIN chan[s] :
                /\ chan'[s][i] = chan[s][j]
                /\ PositionAfter(p, s, i - 1)' = PositionAfter(p, s, j - 1)
  <2>1. i - 1 \in 0 .. Len(chan'[s]) /\ i + 1 \in DOMAIN chan[s] /\ i + 1 - 1 = i - 1 + 1
    BY <1>2
  <2>2. PositionAfter(p, s, i - 1)' = PositionAfter(p, s, i + 1 - 1)
    BY <1>4, <2>1
  <2> QED
    BY <1>2, <2>1, <2>2
<1>6. Position(p, s)' = Position(p, s)
  <2>1. Len(chan'[s]) \in 0 .. Len(chan'[s]) /\ Len(chan'[s]) + 1 = Len(chan[s])
    BY <1>2
  <2> QED
    BY <1>4, <2>1 DEF Position
<1> QED
  BY <1>4, <1>5, <1>6

LEMMA ReceivedFits ==
    ASSUME TypeInv, NEW p \in Pages, NEW s \in Sockets, page[p].socket = s,
           ChannelInv(p, s), Receive(p)
    PROVE  ChannelInv(p, s)' /\ Position(p, s)' = Position(p, s)
<1>1. UNCHANGED serverVars
  BY DEF Receive
<1>2. ASSUME NEW i \in DOMAIN chan'[s]
      PROVE  Fits(chan'[s][i], PositionAfter(p, s, i - 1)', tick', snaps')
  <2>1. PICK j \in DOMAIN chan[s] :
            /\ chan'[s][i] = chan[s][j]
            /\ PositionAfter(p, s, i - 1)' = PositionAfter(p, s, j - 1)
    BY ReceivedPositions
  <2>2. Fits(chan[s][j], PositionAfter(p, s, j - 1), tick, snaps)
    BY DEF ChannelInv
  <2> QED
    BY <1>1, <2>1, <2>2 DEF serverVars
<1> QED
  BY <1>2, ReceivedPositions DEF ChannelInv

(* What the page will show once all is received stays as it is. *)
LEMMA ReceivedShows ==
    ASSUME TypeInv, NEW p \in Pages, NEW s \in Sockets, page[p].socket = s, Receive(p),
           NEW section \in Sections, NEW v, WillShow(p, section, v)
    PROVE  WillShow(p, section, v)'
<1> DEFINE m == Head(chan[s])
<1>1. chan[s] # <<>> /\ chan' = [chan EXCEPT ![s] = Tail(@)]
  BY DEF Receive
<1>2. /\ Len(chan[s]) \in Nat \ {0}
      /\ DOMAIN chan[s] = 1 .. Len(chan[s])
      /\ DOMAIN chan'[s] = 1 .. Len(chan[s]) - 1
      /\ m = chan[s][1]
      /\ \A i \in DOMAIN chan'[s] : chan'[s][i] = chan[s][i + 1]
  BY <1>1, Taken
<1>3. page'[p].socket = s /\ page'[p].shows = MergeKept(m, page[p].shows)
  BY Received
<1>4. page'[p].shows[section]
          = IF section \in m.kept THEN page[p].shows[section] ELSE m.snap[section]
  BY <1>3 DEF MergeKept
<1>5. \A i \in DOMAIN chan'[s] : i + 1 \in DOMAIN chan[s]
  BY <1>2
<1> HIDE DEF m
<1>6. ASSUME NEW i \in DOMAIN chan[s], section \notin chan[s][i].kept, chan[s][i].snap[section] = v,
             \A j \in DOMAIN chan[s] : i < j => section \in chan[s][j].kept
      PROVE  WillShow(p, section, v)'
  <2>1. CASE i = 1
    <3>1. \A j \in DOMAIN chan'[s] : 1 < j + 1
      BY <1>2
    <3>2. \A j \in DOMAIN chan'[s] : section \in chan'[s][j].kept
      BY <1>2, <1>5, <1>6, <2>1, <3>1
    <3>3. page'[p].shows[section] = v
      BY <1>2, <1>4, <1>6, <2>1
    <3> QED
      BY <1>3, <3>2, <3>3 DEF WillShow
  <2>2. CASE i # 1
    <3>1. i - 1 \in DOMAIN chan'[s] /\ i - 1 + 1 = i
      BY <1>2, <2>2
    <3>2. chan'[s][i - 1] = chan[s][i]
      BY <1>2, <3>1
    <3>3. \A j \in DOMAIN chan'[s] : i - 1 < j => i < j + 1
      BY <1>2
    <3>4. \A j \in DOMAIN chan'[s] : i - 1 < j => section \in chan'[s][j].kept
      BY <1>2, <1>5, <1>6, <3>3
    <3> QED
      BY <1>3, <1>6, <3>1, <3>2, <3>4 DEF WillShow
  <2> QED
    BY <2>1, <2>2
<1>7. ASSUME \A i \in DOMAIN chan[s] : section \in chan[s][i].kept, page[p].shows[section] = v
      PROVE  WillShow(p, section, v)'
  <2>1. page'[p].shows[section] = v
    BY <1>2, <1>4, <1>7
  <2>2. \A i \in DOMAIN chan'[s] : section \in chan'[s][i].kept
    BY <1>2, <1>5, <1>7
  <2> QED
    BY <1>3, <2>1, <2>2 DEF WillShow
<1> QED
  BY <1>6, <1>7 DEF WillShow

(* And the page shows the snapshot of its new position. *)
LEMMA ReceivedShown ==
    ASSUME TypeInv, SnapsInv, NEW p \in Pages, NEW s \in Sockets, page[p].socket = s,
           ShowsInv(p), ChannelInv(p, s), Receive(p)
    PROVE  ShowsInv(p)' /\ page[p].at <= page'[p].at
<1> DEFINE m == Head(chan[s])
<1>1. chan[s] # <<>> /\ chan' = [chan EXCEPT ![s] = Tail(@)] /\ UNCHANGED serverVars
  BY DEF Receive
<1>2. m \in SocketMessages /\ 1 \in DOMAIN chan[s] /\ m = chan[s][1]
  <2>1. /\ Len(chan[s]) \in Nat \ {0} /\ DOMAIN chan[s] = 1 .. Len(chan[s])
        /\ m = chan[s][1] /\ m \in SocketMessages
    BY <1>1, Taken
  <2>2. 1 \in 1 .. Len(chan[s])
    BY <2>1
  <2> QED
    BY <2>1, <2>2
<1>3. Fits(m, page[p].at, tick, snaps)
  <2>1. Fits(m, PositionAfter(p, s, 1 - 1), tick, snaps)
    BY <1>2 DEF ChannelInv
  <2> QED
    BY <2>1 DEF PositionAfter
<1>4. /\ page'[p].at = m.tick + 1
      /\ page'[p].shows = MergeKept(m, page[p].shows)
      /\ page'[p].points = IF m.type = "init" THEN m.points
                           ELSE Trimmed(page[p].points \o m.points, m.tick)
  BY Received
<1>5. m.tick \in Nat /\ m.type \in {"init", "tick"} /\ m.points \in Seq(Nat)
  BY <1>2, MessageFields
<1>6. page[p].at \in Nat /\ page[p].points \in Seq(Nat) /\ tick \in Nat
  BY PositionTyped, StreamAssumption DEF TypeInv
<1> HIDE DEF m
<1>7. page'[p].at <= tick' + 1 /\ page[p].at <= page'[p].at
  BY <1>1, <1>3, <1>4, <1>5, <1>6 DEF Fits, serverVars
<1>8. page'[p].shows = ShownAt(page'[p].at, snaps')
  <2>1. page'[p].shows = snaps[m.tick + 1]
    BY <1>3, <1>4 DEF Fits, ShowsInv
  <2>2. page'[p].at # 0
    BY <1>4, <1>5
  <2> QED
    BY <1>1, <1>4, <2>1, <2>2 DEF ShownAt, serverVars
<1>9. Ordered(page'[p].points) /\ \A i \in DOMAIN page'[p].points : page'[p].points[i] < page'[p].at
  <2>1. CASE m.type = "init"
    <3>1. \A i \in DOMAIN m.points : m.points[i] \in Nat /\ m.points[i] <= m.tick
      BY <1>3, <1>5, SeqElements DEF Fits
    <3> QED
      BY <1>3, <1>4, <1>5, <2>1, <3>1 DEF Fits
  <2>2. CASE m.type = "tick"
    <3> DEFINE all == page[p].points \o <<m.tick>>
               len == Len(page[p].points)
    <3>1. m.points = <<m.tick>> /\ page[p].at <= m.tick
      BY <1>3, <2>2 DEF Fits
    <3>2. /\ len \in Nat /\ DOMAIN page[p].points = 1 .. len
          /\ \A i \in 1 .. len : page[p].points[i] \in Nat
      BY <1>6, SeqElements
    <3>3. /\ all \in Seq(Nat) /\ DOMAIN all = 1 .. len + 1
          /\ \A i \in 1 .. len : all[i] = page[p].points[i]
          /\ all[len + 1] = m.tick
      <4>1. all = Append(page[p].points, m.tick)
        BY <1>5, <1>6, AppendIsConcat
      <4> QED
        BY <1>5, <1>6, <4>1, AppendProperties, SeqElements
    <3> HIDE DEF all
    <3>4. \A i \in 1 .. len : all[i] \in Nat /\ all[i] < m.tick
      <4>1. \A i \in 1 .. len : page[p].points[i] < page[p].at
        BY <3>2 DEF ShowsInv
      <4> HIDE DEF len
      <4> QED
        BY <1>5, <1>6, <3>1, <3>2, <3>3, <4>1
    <3>5. Ordered(all)
      <4>1. \A i, j \in 1 .. len : i < j => all[i] < all[j]
        BY <3>2, <3>3 DEF ShowsInv, Ordered
      <4> HIDE DEF len
      <4>2. \A i, j \in DOMAIN all : i < j => i \in 1 .. len /\ (j \in 1 .. len \/ j = len + 1)
        BY <3>2, <3>3
      <4> QED
        BY <3>3, <3>4, <4>1, <4>2 DEF Ordered
    <3>6. \A i \in DOMAIN all : all[i] \in Nat /\ all[i] < m.tick + 1
      <4> HIDE DEF len
      <4>1. \A i \in DOMAIN all : i \in 1 .. len \/ i = len + 1
        BY <3>2, <3>3
      <4> QED
        BY <1>5, <3>3, <3>4, <4>1
    <3>7. page'[p].points = Trimmed(all, m.tick)
      BY <1>4, <2>2, <3>1 DEF all
    <3>8. Ordered(page'[p].points)
      BY <1>5, <3>3, <3>5, <3>7, TrimmedTyped
    <3>9. \A i \in DOMAIN page'[p].points : \E j \in DOMAIN all : page'[p].points[i] = all[j]
      <4>1. \A i \in DOMAIN Trimmed(all, m.tick) :
                \E j \in DOMAIN all : Trimmed(all, m.tick)[i] = all[j]
        BY <1>5, <3>3, TrimmedTyped
      <4> QED
        BY <3>7, <4>1
    <3> QED
      BY <1>4, <3>6, <3>8, <3>9
  <2> QED
    BY <1>5, <2>1, <2>2
<1> QED
  BY <1>7, <1>8, <1>9 DEF ShowsInv

-----------------------------------------------------------------------------
(* Each step keeps what is so of every page. *)
LEMMA SocketsDiffer ==
    ASSUME SocketInv, NEW p \in Pages, NEW q \in Pages, p # q, NEW s \in Sockets, page[p].socket = s
    PROVE  page[q].socket # s /\ s \in alive
BY StreamAssumption DEF SocketInv, Owned, Connected

(* While a page is connected and its init sent, it is a client. *)
LEMMA ClientOfPage ==
    ASSUME TypeInv, SocketInv, NEW p \in Pages, NEW s \in Sockets, page[p].socket = s
    PROVE  /\ s \in alive /\ handler[s].pc \in {"accepted", "sending", "receiving"}
           /\ s \in broadcast.todo \/ broadcast.sending.socket = s => s \in DOMAIN clients
           /\ s \in DOMAIN clients => handler[s].pc = "receiving"
<1>1. s \in alive
  BY StreamAssumption DEF SocketInv, Owned, Connected
<1> QED
  BY <1>1 DEF SocketInv, Life, Unregistered

LEMMA PublishKeeps ==
    ASSUME TypeInv, SnapsInv, SocketInv, NEW p \in Pages, PageInv(p), [Next]_vars,
           NEW snap \in Snapshots, Publish(snap)
    PROVE  PageInv(p)'
<1>1. /\ broadcast' = [todo |-> DOMAIN clients, known |-> clients, sending |-> NotSending]
      /\ tick' = tick + 1 /\ UNCHANGED <<clients, handler, chan, alive, page>>
  BY DEF Publish, pageVars
<1>2. ShowsInv(p)'
  BY <1>1, ShowsStay DEF PageInv
<1>3. ASSUME NEW s \in Sockets, page[p].socket = s PROVE StreamInv(p, s)'
  <2>1. ShowsInv(p) /\ ChannelInv(p, s) /\ BeliefInv(p, s) /\ InitInv(p, s)
    BY <1>3 DEF PageInv, StreamInv
  <2>2. ChannelInv(p, s)' /\ Position(p, s)' = Position(p, s)
    BY <1>1, <2>1, ChannelStays
  <2>3. BeliefInv(p, s)' /\ InitInv(p, s)'
    BY <1>1, <1>3, <2>1, BeliefStays, InitStays
  <2>4. Position(p, s)' <= tick'
    BY <1>1, <2>1, <2>2, PositionBound
  <2>5. broadcast'.sending.socket # s
    BY <1>1, StreamAssumption DEF NotSending
  <2>6. BroadcastInv(p, s)'
    BY <1>1, <2>4, <2>5 DEF BroadcastInv
  <2> QED
    BY <2>2, <2>3, <2>6 DEF StreamInv
<1> QED
  BY <1>1, <1>2, <1>3 DEF PageInv

LEMMA BeginTickKeeps ==
    ASSUME TypeInv, SnapsInv, SocketInv, NEW p \in Pages, PageInv(p), [Next]_vars,
           NEW s \in Sockets, BeginTick(s)
    PROVE  PageInv(p)'
<1> DEFINE m == TickMessage(broadcast.known[s])
<1>1. s \in broadcast.todo /\ UNCHANGED <<tick, snapshot, clients, handler, snaps, chan, alive, page>>
  BY DEF BeginTick, pageVars
<1>2. /\ broadcast'.todo = broadcast.todo \ {s} /\ broadcast'.known = broadcast.known
      /\ broadcast'.sending.socket = s /\ broadcast'.sending.msg = m
  BY DEF BeginTick, TypeInv, Broadcasts
<1>3. CASE page[p].socket # s
  BY <1>1, <1>2, <1>3, PageStays
<1>4. CASE page[p].socket = s
  <2>1. ShowsInv(p) /\ ChannelInv(p, s) /\ BeliefInv(p, s) /\ BroadcastInv(p, s) /\ InitInv(p, s)
    BY <1>4 DEF PageInv, StreamInv
  <2>2. ChannelInv(p, s)' /\ Position(p, s)' = Position(p, s)
    BY <1>1, <2>1, ChannelStays
  <2>3. ShowsInv(p)' /\ BeliefInv(p, s)' /\ InitInv(p, s)'
    BY <1>1, <1>4, <2>1, ShowsStay, BeliefStays, InitStays
  <2>4. /\ Position(p, s) <= tick /\ s \in DOMAIN clients /\ broadcast.known[s] = clients[s]
        /\ clients[s] = ShownAt(Position(p, s), snaps)
    BY <1>1, <2>1 DEF BroadcastInv, BeliefInv
  <2>5. /\ Fits(m, Position(p, s), tick, snaps) /\ m.tick = tick
        /\ \A section \in Sections :
              IF section \in m.kept THEN clients[s][section] = snapshot[section]
              ELSE m.snap[section] = snapshot[section]
    <3>1. clients[s] \in Maps /\ Position(p, s) \in Nat
      BY <2>4, BeliefsElements, PositionTyped DEF TypeInv
    <3> QED
      BY <2>4, <3>1, TickFits
  <2> HIDE DEF m
  <2>6. BroadcastInv(p, s)'
    BY <1>1, <1>2, <2>2, <2>4, <2>5 DEF BroadcastInv
  <2> QED
    BY <1>1, <1>4, <2>2, <2>3, <2>6 DEF PageInv, StreamInv
<1> QED
  BY <1>3, <1>4

LEMMA TickSentKeeps ==
    ASSUME TypeInv, SnapsInv, SocketInv, NEW p \in Pages, PageInv(p), [Next]_vars, TickSent
    PROVE  PageInv(p)'
<1>1. PICK s \in Sockets, m \in SocketMessages :
          s = broadcast.sending.socket /\ m = broadcast.sending.msg
  BY BroadcastFields DEF TickSent
<1>2. /\ broadcast'.todo = broadcast.todo /\ broadcast'.known = broadcast.known
      /\ broadcast'.sending.socket \notin Sockets
  BY StreamAssumption DEF TickSent, TypeInv, Broadcasts, NotSending
<1>3. UNCHANGED <<tick, snapshot, handler, snaps, alive, page>>
  BY DEF TickSent
<1>4. /\ DOMAIN clients' = DOMAIN clients
      /\ s \in DOMAIN clients => clients'[s] = snapshot
      /\ \A c \in DOMAIN clients : c # s => clients'[c] = clients[c]
  BY <1>1 DEF TickSent
<1>5. CASE page[p].socket # s
  <2>1. \A c \in Sockets : c # s => chan'[c] = chan[c]
    BY <1>1 DEF TickSent, TypeInv
  <2> QED
    BY <1>2, <1>3, <1>4, <1>5, <2>1, PageStays
<1>6. CASE page[p].socket = s
  <2>1. ShowsInv(p) /\ ChannelInv(p, s) /\ BeliefInv(p, s) /\ BroadcastInv(p, s) /\ InitInv(p, s)
    BY <1>6 DEF PageInv, StreamInv
  <2>2. s \in alive /\ s \in DOMAIN clients
    BY <1>1, <1>6, ClientOfPage
  <2>3. chan' = [chan EXCEPT ![s] = Append(@, m)]
    BY <1>1, <2>2 DEF TickSent
  <2>4. /\ Fits(m, Position(p, s), tick, snaps) /\ m.tick = tick
        /\ \A section \in Sections :
              IF section \in m.kept THEN clients[s][section] = snapshot[section]
              ELSE m.snap[section] = snapshot[section]
    BY <1>1, <2>1 DEF BroadcastInv
  <2>5. ChannelInv(p, s)' /\ Position(p, s)' = m.tick + 1
    BY <1>3, <1>6, <2>1, <2>3, <2>4, SentFits
  <2>6. ASSUME NEW section \in Sections PROVE WillShow(p, section, snapshot[section])'
    <3>1. IF section \in m.kept THEN WillShow(p, section, snapshot[section])
          ELSE m.snap[section] = snapshot[section]
      BY <2>1, <2>2, <2>4 DEF BeliefInv
    <3>2. ASSUME NEW v, v = snapshot[section] PROVE WillShow(p, section, v)'
      BY <1>3, <1>6, <2>3, <3>1, <3>2, SentShows
    <3> QED
      BY <1>3, <3>2
  <2>7. BeliefInv(p, s)'
    <3>1. snapshot = snaps[tick + 1] /\ tick \in Nat
      BY StreamAssumption DEF SnapsInv, TypeInv
    <3>2. clients'[s] = ShownAt(Position(p, s)', snaps')
      BY <1>3, <1>4, <2>2, <2>4, <2>5, <3>1 DEF ShownAt
    <3> QED
      BY <1>3, <1>4, <2>2, <2>6, <3>2 DEF BeliefInv
  <2>8. BroadcastInv(p, s)'
    <3>1. s \notin broadcast.todo
      BY <1>1 DEF SocketInv
    <3> QED
      BY <1>2, <3>1 DEF BroadcastInv
  <2>9. ShowsInv(p)' /\ InitInv(p, s)'
    BY <1>3, <1>6, <2>1, ShowsStay, InitStays
  <2> QED
    BY <1>3, <1>6, <2>5, <2>7, <2>8, <2>9 DEF PageInv, StreamInv
<1> QED
  BY <1>5, <1>6

(* A send that raised, and a handler that ends, are of a dead socket. *)
LEMMA DropKeeps ==
    ASSUME TypeInv, SnapsInv, SocketInv, NEW p \in Pages, PageInv(p), [Next]_vars,
           TickFails \/ \E s \in Sockets : HandlerEnds(s)
    PROVE  PageInv(p)'
<1>1. ASSUME NEW s \in Sockets, s \notin alive, clients' = Without(clients, s),
             UNCHANGED <<tick, snapshot, snaps, chan, alive, page>>,
             \A c \in Sockets : c # s => handler'[c] = handler[c],
             broadcast'.todo = broadcast.todo, broadcast'.known = broadcast.known,
             broadcast'.sending = broadcast.sending \/ broadcast'.sending.socket \notin Sockets
      PROVE  PageInv(p)'
  <2>1. page[p].socket # s
    BY <1>1, ClientOfPage
  <2>2. /\ DOMAIN clients' = DOMAIN clients \ {s}
        /\ \A c \in DOMAIN clients \ {s} : clients'[c] = clients[c]
    BY <1>1, Untyped
  <2> QED
    BY <1>1, <2>1, <2>2, PageStays
<1>2. CASE TickFails
  <2>1. PICK s \in Sockets : s = broadcast.sending.socket
    BY <1>2, BroadcastFields DEF TickFails
  <2>2. /\ broadcast'.todo = broadcast.todo /\ broadcast'.known = broadcast.known
        /\ broadcast'.sending.socket \notin Sockets
    BY <1>2, StreamAssumption DEF TickFails, TypeInv, Broadcasts, NotSending
  <2> QED
    BY <1>1, <1>2, <2>1, <2>2 DEF TickFails, pageVars
<1>3. ASSUME NEW s \in Sockets, HandlerEnds(s) PROVE PageInv(p)'
  <2>1. \A c \in Sockets : c # s => handler'[c] = handler[c]
    BY <1>3, HandlerTyped DEF HandlerEnds
  <2> QED
    BY <1>1, <1>3, <2>1 DEF HandlerEnds, pageVars
<1> QED
  BY <1>2, <1>3

LEMMA ReadInitKeeps ==
    ASSUME TypeInv, SnapsInv, SocketInv, NEW p \in Pages, PageInv(p), [Next]_vars,
           NEW s \in Sockets, ReadInit(s)
    PROVE  PageInv(p)'
<1>1. UNCHANGED <<tick, snapshot, clients, broadcast, snaps, chan, alive, page>>
  BY DEF ReadInit, pageVars
<1>2. /\ handler'[s] = [pc |-> "sending", msg |-> InitMessage, holds |-> snapshot]
      /\ \A c \in Sockets : c # s => handler'[c] = handler[c]
  BY DEF ReadInit, TypeInv
<1>3. CASE page[p].socket # s
  BY <1>1, <1>2, <1>3, PageStays
<1>4. CASE page[p].socket = s
  <2>1. ShowsInv(p) /\ ChannelInv(p, s) /\ BeliefInv(p, s) /\ BroadcastInv(p, s)
    BY <1>4 DEF PageInv, StreamInv
  <2>2. ChannelInv(p, s)' /\ Position(p, s)' = Position(p, s)
    BY <1>1, <2>1, ChannelStays
  <2>3. ShowsInv(p)' /\ BeliefInv(p, s)'
    BY <1>1, <1>4, <2>1, ShowsStay, BeliefStays
  <2>4. BroadcastInv(p, s)'
    BY <1>1, <2>1, <2>2 DEF BroadcastInv
  <2>5. InitInv(p, s)'
    <3>1. Fits(InitMessage, page[p].at, tick, snaps)
      BY <2>1, InitFits, PositionTyped DEF ShowsInv
    <3>2. InitMessage.kept = {} /\ InitMessage.snap = snapshot /\ InitMessage.tick = tick
      BY DEF InitMessage
    <3> QED
      BY <1>1, <1>2, <3>1, <3>2 DEF InitInv, SnapsInv
  <2> QED
    BY <1>1, <1>4, <2>2, <2>3, <2>4, <2>5 DEF PageInv, StreamInv
<1> QED
  BY <1>3, <1>4

LEMMA InitSentKeeps ==
    ASSUME TypeInv, SnapsInv, SocketInv, NEW p \in Pages, PageInv(p), [Next]_vars,
           NEW s \in Sockets, InitSent(s)
    PROVE  PageInv(p)'
<1>1. UNCHANGED <<tick, snapshot, broadcast, snaps, alive, page>> /\ handler[s].pc = "sending"
  BY DEF InitSent
<1>2. PICK m \in SocketMessages : m = handler[s].msg
  BY <1>1 DEF TypeInv
<1>3. chan' = [chan EXCEPT ![s] = Append(@, m)]
  BY <1>2 DEF InitSent
<1>4. /\ DOMAIN clients' = DOMAIN clients \cup {s} /\ clients'[s] = handler[s].holds
      /\ \A c \in DOMAIN clients : c # s => clients'[c] = clients[c]
  BY DEF InitSent
<1>5. handler'[s].pc = "receiving" /\ \A c \in Sockets : c # s => handler'[c] = handler[c]
  BY HandlerTyped DEF InitSent
<1>6. CASE page[p].socket # s
  <2>1. \A c \in Sockets : c # s => chan'[c] = chan[c]
    BY <1>3, Sent
  <2> QED
    BY <1>1, <1>4, <1>5, <1>6, <2>1, PageStays
<1>7. CASE page[p].socket = s
  <2>1. ShowsInv(p) /\ ChannelInv(p, s)
    BY <1>7 DEF PageInv, StreamInv
  <2>2. /\ Fits(m, page[p].at, tick, snaps) /\ m.kept = {} /\ m.snap = handler[s].holds
        /\ handler[s].holds = snaps[m.tick + 1]
    BY <1>1, <1>2, <1>7 DEF PageInv, StreamInv, InitInv
  <2>3. Unregistered(s)
    BY <1>1 DEF SocketInv, Life
  <2>4. Position(p, s) = page[p].at
    <3>1. Len(chan[s]) = 0
      BY <2>3 DEF Unregistered
    <3> QED
      BY <3>1 DEF Position, PositionAfter
  <2>5. ChannelInv(p, s)' /\ Position(p, s)' = m.tick + 1
    BY <1>1, <1>3, <1>7, <2>1, <2>2, <2>4, SentFits
  <2>6. ASSUME NEW section \in Sections PROVE WillShow(p, section, clients[s][section])'
    <3>1. ASSUME NEW v, v = m.snap[section] PROVE WillShow(p, section, v)'
      BY <1>1, <1>3, <1>7, <2>2, <3>1, SentShows
    <3> QED
      BY <1>4, <2>2, <3>1
  <2>7. BeliefInv(p, s)'
    <3>1. m.tick + 1 # 0
      <4>1. m.tick \in Nat
        BY MessageFields
      <4> QED
        BY <4>1
    <3>2. clients'[s] = ShownAt(Position(p, s)', snaps')
      BY <1>1, <1>4, <2>2, <2>5, <3>1 DEF ShownAt
    <3> QED
      BY <2>6, <3>2 DEF BeliefInv
  <2>8. BroadcastInv(p, s)'
    BY <1>1, <2>3 DEF BroadcastInv, Unregistered
  <2>9. ShowsInv(p)' /\ InitInv(p, s)'
    BY <1>1, <1>5, <2>1, ShowsStay DEF InitInv
  <2> QED
    BY <1>1, <1>7, <2>5, <2>7, <2>8, <2>9 DEF PageInv, StreamInv
<1> QED
  BY <1>6, <1>7

LEMMA ConnectKeeps ==
    ASSUME TypeInv, SnapsInv, SocketInv, NEW p \in Pages, PageInv(p), [Next]_vars,
           NEW q \in Pages, NEW s \in Sockets, Connect(q, s)
    PROVE  PageInv(p)'
<1>1. handler[s].pc = "unused" /\ UNCHANGED <<tick, snapshot, clients, broadcast, snaps, chan>>
  BY DEF Connect
<1>2. handler'[s].pc = "accepted" /\ \A c \in Sockets : c # s => handler'[c] = handler[c]
  BY HandlerTyped DEF Connect
<1>3. /\ page'[q].socket = s /\ page'[q].at = page[q].at
      /\ page'[q].shows = page[q].shows /\ page'[q].points = page[q].points
      /\ \A r \in Pages : r # q => page'[r] = page[r]
  BY DEF Connect, TypeInv, PageStates
<1>4. page[p].socket # s
  BY <1>1, ClientOfPage
<1>5. CASE p # q
  BY <1>1, <1>2, <1>3, <1>4, <1>5, PageStays
<1>6. CASE p = q
  <2>1. ShowsInv(p)'
    BY <1>1, <1>3, <1>6 DEF PageInv, ShowsInv
  <2>2. Unregistered(s) /\ s \notin DOMAIN clients
    BY <1>1 DEF SocketInv, Life
  <2>3. ChannelInv(p, s)'
    <3>1. chan'[s] = <<>>
      BY <1>1, <2>2 DEF Unregistered
    <3> QED
      BY <3>1 DEF ChannelInv
  <2>4. BeliefInv(p, s)' /\ BroadcastInv(p, s)' /\ InitInv(p, s)'
    BY <1>1, <1>2, <2>2 DEF BeliefInv, BroadcastInv, InitInv, Unregistered
  <2> QED
    BY <1>3, <1>6, <2>1, <2>3, <2>4 DEF PageInv, StreamInv
<1> QED
  BY <1>5, <1>6

LEMMA ConnectionLostKeeps ==
    ASSUME TypeInv, SnapsInv, SocketInv, NEW p \in Pages, PageInv(p), [Next]_vars,
           NEW q \in Pages, ConnectionLost(q)
    PROVE  PageInv(p)'
<1>1. PICK s \in Sockets : s = page[q].socket
  BY DEF ConnectionLost, TypeInv, PageStates
<1>2. /\ UNCHANGED <<tick, snapshot, clients, handler, broadcast, snaps>>
      /\ \A c \in Sockets : c # s => chan'[c] = chan[c]
  BY <1>1 DEF ConnectionLost, serverVars, TypeInv
<1>3. /\ page'[q].socket = NoSocket /\ page'[q].at = page[q].at
      /\ page'[q].shows = page[q].shows /\ page'[q].points = page[q].points
      /\ \A r \in Pages : r # q => page'[r] = page[r]
  BY DEF ConnectionLost, TypeInv, PageStates
<1>4. CASE p # q
  <2>1. page[p].socket # s
    BY <1>1, <1>4, SocketsDiffer
  <2> QED
    BY <1>2, <1>3, <1>4, <2>1, PageStays
<1>5. CASE p = q
  <2>1. ShowsInv(p)'
    BY <1>2, <1>3, <1>5 DEF PageInv, ShowsInv
  <2> QED
    BY <1>3, <1>5, <2>1, StreamAssumption DEF PageInv
<1> QED
  BY <1>4, <1>5

LEMMA ReceiveKeeps ==
    ASSUME TypeInv, SnapsInv, SocketInv, NEW p \in Pages, PageInv(p), [Next]_vars,
           NEW q \in Pages, Receive(q)
    PROVE  PageInv(p)'
<1>1. PICK s \in Sockets : s = page[q].socket
  BY DEF Receive, TypeInv, PageStates
<1>2. /\ UNCHANGED <<tick, snapshot, clients, handler, broadcast, snaps, alive>>
      /\ \A c \in Sockets : c # s => chan'[c] = chan[c]
  BY <1>1 DEF Receive, serverVars, TypeInv
<1>3. page'[q].socket = s /\ \A r \in Pages : r # q => page'[r] = page[r]
  BY <1>1, Received
<1>4. CASE p # q
  <2>1. page[p].socket # s
    BY <1>1, <1>4, SocketsDiffer
  <2> QED
    BY <1>2, <1>3, <1>4, <2>1, PageStays
<1>5. CASE p = q
  <2>1. ShowsInv(p) /\ ChannelInv(p, s) /\ BeliefInv(p, s) /\ BroadcastInv(p, s) /\ InitInv(p, s)
    BY <1>1, <1>5 DEF PageInv, StreamInv
  <2>2. ShowsInv(p)' /\ ChannelInv(p, s)' /\ Position(p, s)' = Position(p, s)
    BY <1>1, <1>5, <2>1, ReceivedFits, ReceivedShown
  <2>3. BeliefInv(p, s)'
    <3>1. ASSUME NEW section \in Sections, s \in DOMAIN clients
          PROVE  WillShow(p, section, clients[s][section])'
      <4>1. WillShow(p, section, clients[s][section])
        BY <2>1, <3>1 DEF BeliefInv
      <4>2. ASSUME NEW v, v = clients[s][section] PROVE WillShow(p, section, v)'
        BY <1>1, <1>5, <4>1, <4>2, ReceivedShows
      <4> QED
        BY <1>2, <4>2
    <3> QED
      BY <1>2, <2>1, <2>2, <3>1 DEF BeliefInv
  <2>4. BroadcastInv(p, s)'
    BY <1>2, <2>1, <2>2 DEF BroadcastInv
  <2>5. InitInv(p, s)'
    <3>1. chan[s] # <<>>
      BY <1>1 DEF Receive
    <3>2. handler[s].pc # "sending"
      BY <3>1 DEF SocketInv, Life, Unregistered
    <3> QED
      BY <1>2, <3>2 DEF InitInv
  <2> QED
    BY <1>3, <1>5, <2>2, <2>3, <2>4, <2>5 DEF PageInv, StreamInv
<1> QED
  BY <1>4, <1>5

LEMMA StreamInductive ==
    /\ Init => WholeInv
    /\ WholeInv /\ [Next]_vars => WholeInv'
<1>1. ASSUME Init PROVE WholeInv
  <2>1. /\ Booting \in Maps /\ <<Booting>> \in Seq(Maps) /\ Len(<<Booting>>) = 1
        /\ <<Booting>>[1] = Booting /\ <<>> \in Seq(SocketMessages) /\ <<>> \in Seq(Nat)
    BY MapsElements
  <2>2. <<>> \in Beliefs /\ DOMAIN <<>> = {}
    <3>1. <<>> \in [{} -> Maps]
      OBVIOUS
    <3> QED
      BY <3>1, BeliefsElements
  <2>3. TypeInv
    <3>1. /\ tick = 0 /\ 0 \in 0 .. MaxTick /\ snapshot = Booting /\ snaps = <<Booting>>
          /\ clients = <<>> /\ alive = {}
      BY <1>1, StreamAssumption DEF Init
    <3>2. /\ handler \in [Sockets -> HandlerStates]
          /\ \A s \in Sockets : handler[s].pc = "unused"
      BY <1>1, <2>1 DEF Init, HandlerStates
    <3>3. /\ broadcast \in Broadcasts /\ broadcast.todo = {}
      BY <1>1, <2>2 DEF Init, Broadcasts
    <3>4. chan \in [Sockets -> Seq(SocketMessages)]
      BY <1>1, <2>1 DEF Init
    <3>5. page \in [Pages -> PageStates]
      BY <1>1, <2>1 DEF Init, PageStates
    <3> QED
      BY <2>1, <2>2, <3>1, <3>2, <3>3, <3>4, <3>5 DEF TypeInv
  <2>4. SnapsInv
    BY <1>1, <2>1 DEF Init, SnapsInv
  <2>5. SocketInv
    <3>1. /\ alive = {} /\ DOMAIN clients = {}
          /\ \A p \in Pages : page[p].socket = NoSocket
          /\ \A s \in Sockets : handler[s].pc = "unused" /\ chan[s] = <<>>
          /\ broadcast.todo = {} /\ broadcast.sending.socket = NoSocket
      BY <1>1, <2>2 DEF Init, NotSending
    <3> QED
      BY <3>1, StreamAssumption DEF SocketInv, Owned, Life, Unregistered, Connected
  <2>6. ASSUME NEW p \in Pages PROVE PageInv(p)
    <3>1. /\ page[p].socket = NoSocket /\ page[p].at = 0 /\ page[p].shows = Booting
          /\ page[p].points = <<>> /\ tick = 0
      BY <1>1 DEF Init
    <3>2. ShowsInv(p)
      BY <3>1 DEF ShowsInv, ShownAt, Ordered
    <3> QED
      BY <3>1, <3>2, StreamAssumption DEF PageInv
  <2> QED
    BY <2>3, <2>4, <2>5, <2>6 DEF WholeInv
<1>2. ASSUME WholeInv, [Next]_vars PROVE WholeInv'
  <2> USE DEF WholeInv
  <2>1. TypeInv' /\ SnapsInv' /\ SocketInv'
    BY <1>2, TypesHold, SnapsHold, SocketsHold
  <2>2. ASSUME NEW p \in Pages PROVE PageInv(p)'
    <3>1. TypeInv /\ SnapsInv /\ SocketInv /\ PageInv(p) /\ [Next]_vars
      BY <1>2
    <3>2. ASSUME NEW snap \in Snapshots, Publish(snap) PROVE PageInv(p)'
      BY <3>1, <3>2, PublishKeeps
    <3>3. CASE TickSent
      BY <3>1, <3>3, TickSentKeeps
    <3>4. CASE TickFails
      BY <3>1, <3>4, DropKeeps
    <3>5. ASSUME NEW s \in Sockets, BeginTick(s) \/ ReadInit(s) \/ InitSent(s) \/ HandlerEnds(s)
          PROVE  PageInv(p)'
      BY <3>1, <3>5, BeginTickKeeps, ReadInitKeeps, InitSentKeeps, DropKeeps
    <3>6. ASSUME NEW q \in Pages, ConnectionLost(q) \/ Receive(q) \/ \E s \in Sockets : Connect(q, s)
          PROVE  PageInv(p)'
      BY <3>1, <3>6, ConnectionLostKeeps, ReceiveKeeps, ConnectKeeps
    <3>7. CASE UNCHANGED vars
      BY <3>1, <3>7, PageStays DEF vars, serverVars, pageVars
    <3> QED
      BY <1>2, <3>2, <3>3, <3>4, <3>5, <3>6, <3>7 DEF Next
  <2> QED
    BY <2>1, <2>2
<1> QED
  BY <1>1, <1>2

-----------------------------------------------------------------------------
LEMMA StreamInvariant == Spec => []WholeInv
BY StreamInductive, PTL DEF Spec

(* The variables have their types, every client is a socket whose handler  *)
(* runs, and exactly the pages' sockets are connected.                     *)
THEOREM StreamTypes == Spec => []TypeOK
<1>1. WholeInv => TypeOK
  <2> SUFFICES ASSUME WholeInv PROVE TypeOK
    OBVIOUS
  <2>1. DOMAIN clients \subseteq {s \in Sockets : handler[s].pc = "receiving"}
    BY BeliefsElements DEF WholeInv, TypeInv, SocketInv, Life
  <2>2. \A p \in Pages : page[p].at \in 0 .. tick + 1
    BY StreamAssumption DEF WholeInv, TypeInv, PageStates, PageInv, ShowsInv
  <2>3. broadcast.todo \subseteq Sockets
    BY BroadcastFields DEF WholeInv
  <2> QED
    BY <2>1, <2>2, <2>3 DEF TypeOK, WholeInv, TypeInv, SocketInv, Owned
<1> QED
  BY <1>1, StreamInvariant, PTL

(* snapshot.slim_snapshot, Monitor.broadcast_tick: what the server leaves  *)
(* out because the client holds it, the client will have, whatever sends   *)
(* were awaited, failed or overtaken by polls and reconnects.              *)
THEOREM StreamBelieved == Spec => []HoldsWhatServerBelieves
<1>1. WholeInv => HoldsWhatServerBelieves
  <2> SUFFICES ASSUME WholeInv, NEW p \in Pages, page[p].socket \in DOMAIN clients
               PROVE  \A section \in Sections :
                          WillShow(p, section, clients[page[p].socket][section])
    BY DEF HoldsWhatServerBelieves
  <2>1. page[p].socket \in Sockets
    BY BeliefsElements DEF WholeInv, TypeInv
  <2> QED
    BY <2>1 DEF WholeInv, PageInv, StreamInv, BeliefInv
<1> QED
  BY <1>1, StreamInvariant, PTL

(* data.js, connect: the points a page draws are in order, each once.      *)
THEOREM StreamPoints == Spec => []PointsInOrder
<1>1. WholeInv => PointsInOrder
  BY DEF WholeInv, PageInv, ShowsInv, Ordered, PointsInOrder
<1> QED
  BY <1>1, StreamInvariant, PTL

(* The stream implements its abstract view: a poll publishes, receiving a  *)
(* message moves the page to a published snapshot that is whole and no     *)
(* older, and every other step changes nothing a page shows.               *)
THEOREM StreamImplementsView == Spec => ImplementsView
<1> DEFINE shown == [p \in Pages |-> [at |-> page[p].at, snap |-> page[p].shows]]
<1>1. Init => View!Init
  <2> SUFFICES ASSUME Init PROVE View!Init
    OBVIOUS
  <2>1. snaps \in [{1} -> Snapshots \cup {Booting}]
    BY DEF Init
  <2>2. shown = [p \in Pages |-> [at |-> 0, snap |-> Booting]]
    BY DEF Init
  <2> QED
    BY <2>1, <2>2 DEF View!Init
<1>2. WholeInv /\ WholeInv' /\ [Next]_vars => [View!Next]_(View!viewVars)
  <2> SUFFICES ASSUME WholeInv, [Next]_vars PROVE View!Next \/ UNCHANGED View!viewVars
    OBVIOUS
  <2>1. TypeInv /\ SnapsInv /\ SocketInv
    BY DEF WholeInv
  <2>2. ASSUME NEW snap \in Snapshots, Publish(snap) PROVE View!Publish
    <3>1. snaps' = Append(snaps, snap) /\ page' = page
      BY <2>2 DEF Publish, pageVars
    <3> QED
      BY <3>1 DEF View!Publish
  <2>3. ASSUME NEW p \in Pages, Receive(p) PROVE View!Show(p)
    <3>1. PICK s \in Sockets : s = page[p].socket
      BY <2>1, <2>3 DEF Receive, TypeInv, PageStates
    <3>2. ShowsInv(p) /\ ChannelInv(p, s)
      BY <3>1 DEF WholeInv, PageInv, StreamInv
    <3>3. ShowsInv(p)' /\ page[p].at <= page'[p].at
      BY <2>1, <2>3, <3>1, <3>2, ReceivedShown
    <3>4. UNCHANGED <<tick, snaps>>
      BY <2>3 DEF Receive, serverVars
    <3>5. page'[p].at = Head(chan[s]).tick + 1 /\ \A q \in Pages : q # p => page'[q] = page[q]
      BY <2>1, <2>3, <3>1, Received
    <3>6. page'[p].at \in Nat /\ page[p].at \in Nat /\ page'[p].at # 0
      <4>1. Head(chan[s]) \in SocketMessages
        BY <2>1, <2>3, <3>1, Taken DEF Receive
      <4>2. Head(chan[s]).tick \in Nat
        BY <4>1, MessageFields
      <4> QED
        BY <2>1, <3>5, <4>2, PositionTyped DEF TypeInv, PageStates
    <3>7. page'[p].at \in DOMAIN snaps /\ page'[p].shows = snaps[page'[p].at]
      <4>1. DOMAIN snaps = 1 .. tick + 1 /\ tick \in Nat
        BY <2>1, SeqElements, StreamAssumption DEF TypeInv, SnapsInv
      <4> QED
        BY <3>3, <3>4, <3>6, <4>1 DEF ShowsInv, ShownAt
    <3>8. shown' = [shown EXCEPT ![p] = [at |-> page'[p].at, snap |-> snaps[page'[p].at]]]
      BY <3>5, <3>7
    <3> QED
      BY <3>3, <3>4, <3>7, <3>8 DEF View!Show
  <2>4. ASSUME snaps' = snaps,
               \A p \in Pages : page'[p].at = page[p].at /\ page'[p].shows = page[p].shows
        PROVE  UNCHANGED View!viewVars
    BY <2>4 DEF View!viewVars
  <2>5. ASSUME NEW p \in Pages, ConnectionLost(p) \/ \E s \in Sockets : Connect(p, s)
        PROVE  UNCHANGED View!viewVars
    <3>1. PICK s \in Sockets \cup {NoSocket} : page' = [page EXCEPT ![p].socket = s]
      BY <2>5 DEF ConnectionLost, Connect
    <3>2. \A q \in Pages : page'[q].at = page[q].at /\ page'[q].shows = page[q].shows
      BY <2>1, <3>1 DEF TypeInv, PageStates
    <3>3. snaps' = snaps
      BY <2>5 DEF ConnectionLost, Connect, serverVars
    <3> QED
      BY <2>4, <3>2, <3>3
  <2>6. ASSUME TickSent \/ TickFails
               \/ \E s \in Sockets : BeginTick(s) \/ ReadInit(s) \/ InitSent(s) \/ HandlerEnds(s)
        PROVE  UNCHANGED View!viewVars
    <3>1. UNCHANGED <<snaps, page>>
      BY <2>6 DEF TickSent, TickFails, BeginTick, ReadInit, InitSent, HandlerEnds, pageVars
    <3> QED
      BY <2>4, <3>1
  <2>7. CASE UNCHANGED vars
    BY <2>4, <2>7 DEF vars, serverVars, pageVars
  <2> QED
    BY <2>2, <2>3, <2>5, <2>6, <2>7 DEF Next, View!Next
<1> QED
  BY <1>1, <1>2, StreamInvariant, PTL DEF Spec, ImplementsView, View!Spec

-----------------------------------------------------------------------------
(* A client's points have no hole up to poll t, the newest. *)
Unbroken(points, t) ==
    /\ points # <<>> => points[Len(points)] = t
    /\ \A i \in 2 .. Len(points) : points[i] <= points[i - 1] + 1

(* A message leaves no hole in what a page at position n shows. *)
Joins(m, n) == Unbroken(m.points, m.tick) /\ (m.type = "tick" => m.tick = n)

(* The running broadcast has a tick for the client yet. *)
Pending(s) == s \in broadcast.todo \/ broadcast.sending.socket = s

(* A client is sent every poll from its init on, one after the other. *)
JoinInv(p, s) ==
    /\ \A i \in DOMAIN chan[s] : Joins(chan[s][i], PositionAfter(p, s, i - 1))
    /\ s \in DOMAIN clients => Position(p, s) = IF Pending(s) THEN tick ELSE tick + 1
    /\ broadcast.sending.socket = s => Joins(broadcast.sending.msg, Position(p, s))
    /\ handler[s].pc = "sending" =>
          /\ handler[s].msg.type = "init" /\ handler[s].msg.tick = tick
          /\ Unbroken(handler[s].msg.points, tick)

HolesInv(p) ==
    /\ Unbroken(page[p].points, page[p].at - 1)
    /\ \A s \in Sockets : page[p].socket = s => JoinInv(p, s)

(* An init's points, and a tick's after them; and of both from the front  *)
(* some may be dropped.                                                    *)
LEMMA NewestUnbroken ==
    ASSUME NEW n \in Nat, NEW t \in Nat
    PROVE  Unbroken(Newest(n, t), t)
<1> DEFINE many == IF n <= t THEN n ELSE t
<1>1. many \in Nat /\ many <= t
  OBVIOUS
<1> HIDE DEF many
<1>2. Newest(n, t) = [i \in 1 .. many |-> t - many + i]
  BY DEF Newest, many
<1>3. Newest(n, t) \in Seq(Nat) /\ Len(Newest(n, t)) = many
  <2>1. Newest(n, t) \in Seq(Nat)
    BY NewestTyped
  <2>2. 1 .. Len(Newest(n, t)) = 1 .. many /\ Len(Newest(n, t)) \in Nat
    BY <1>2, <2>1, SeqElements
  <2> HIDE DEF Newest
  <2> DEFINE len == Len(Newest(n, t))
  <2>3. len \in Nat /\ 1 .. len = 1 .. many
    BY <2>2
  <2> HIDE DEF len
  <2>4. len = many
    <3>1. ASSUME len # 0 PROVE len \in 1 .. many
      <4>1. len \in 1 .. len
        BY <2>3, <3>1
      <4> QED
        BY <2>3, <4>1
    <3>2. ASSUME many # 0 PROVE many \in 1 .. len
      <4>1. many \in 1 .. many
        BY <1>1, <3>2
      <4> QED
        BY <2>3, <4>1
    <3> QED
      BY <1>1, <2>3, <3>1, <3>2
  <2> QED
    BY <2>1, <2>4 DEF len
<1>4. Newest(n, t) # <<>> => many # 0
  BY <1>3, EmptySeq
<1> QED
  BY <1>1, <1>2, <1>3, <1>4 DEF Unbroken

LEMMA TrimmedUnbroken ==
    ASSUME NEW points \in Seq(Nat), NEW t \in Nat, Unbroken(points, t)
    PROVE  Unbroken(Trimmed(points, t), t)
<1> DEFINE kept == Trimmed(points, t)
<1>1. PICK c \in Nat :
          /\ \A i \in DOMAIN kept : i \in Nat /\ c + i \in DOMAIN points /\ kept[i] = points[c + i]
          /\ kept # <<>> => c + Len(kept) = Len(points)
  BY TrimmedIs
<1>2. kept \in Seq(Nat)
  BY TrimmedIs
<1>3. Len(points) \in Nat /\ DOMAIN points = 1 .. Len(points)
      /\ (points = <<>> => Len(points) = 0)
  BY SeqElements, EmptySeq
<1> HIDE DEF kept
<1>4. Len(kept) \in Nat /\ DOMAIN kept = 1 .. Len(kept) /\ (kept # <<>> => Len(kept) # 0)
  BY <1>2, SeqElements, EmptySeq
<1>5. ASSUME kept # <<>> PROVE kept[Len(kept)] = t
  <2>1. Len(kept) \in DOMAIN kept
    BY <1>4, <1>5
  <2>2. kept[Len(kept)] = points[Len(points)] /\ Len(points) \in DOMAIN points
    BY <1>1, <1>5, <2>1
  <2> QED
    BY <1>3, <2>2 DEF Unbroken
<1>6. ASSUME NEW i \in 2 .. Len(kept) PROVE kept[i] <= kept[i - 1] + 1
  <2>1. i \in DOMAIN kept /\ i - 1 \in DOMAIN kept
    BY <1>4
  <2>2. kept[i] = points[c + i] /\ kept[i - 1] = points[c + (i - 1)] /\ c + i \in DOMAIN points
    BY <1>1, <2>1
  <2>3. c + i \in 2 .. Len(points) /\ c + (i - 1) = (c + i) - 1
    BY <1>3, <2>2
  <2> QED
    BY <2>2, <2>3 DEF Unbroken
<1> QED
  BY <1>5, <1>6 DEF Unbroken, kept

(* A tick's point after points without a hole up to the poll before. *)
LEMMA ExtendedUnbroken ==
    ASSUME NEW points \in Seq(Nat), NEW t \in Nat, Unbroken(points, t - 1)
    PROVE  Unbroken(points \o <<t>>, t)
<1> DEFINE all == points \o <<t>>
           len == Len(points)
<1>1. len \in Nat /\ \A i \in 1 .. len : points[i] \in Nat
  BY SeqElements
<1>2. /\ Len(all) = len + 1 /\ all[len + 1] = t
      /\ \A i \in 1 .. len : all[i] = points[i]
  <2>1. all = Append(points, t)
    BY AppendIsConcat
  <2> QED
    BY <2>1, AppendProperties
<1>3. len # 0 => points[len] = t - 1
  BY EmptySeq DEF Unbroken
<1>4. \A i \in 2 .. len : points[i] <= points[i - 1] + 1
  BY DEF Unbroken
<1> HIDE DEF all, len
<1>5. ASSUME NEW i \in 2 .. len + 1 PROVE all[i] <= all[i - 1] + 1
  <2>1. CASE i = len + 1
    <3>1. i - 1 = len /\ len # 0 /\ len \in 1 .. len
      BY <1>1, <2>1
    <3> QED
      BY <1>2, <1>3, <2>1, <3>1
  <2>2. CASE i # len + 1
    <3>1. i \in 2 .. len /\ i \in 1 .. len /\ i - 1 \in 1 .. len
      BY <1>1, <2>2
    <3> QED
      BY <1>2, <1>4, <3>1
  <2> QED
    BY <2>1, <2>2
<1>6. Unbroken(all, t)
  BY <1>2, <1>5 DEF Unbroken
<1> QED
  BY <1>6 DEF all

(* What a step leaves alone goes on as it was. *)
LEMMA HolesStay ==
    ASSUME WholeInv, NEW p \in Pages, HolesInv(p), tick' = tick, page'[p] = page[p],
           \A s \in Sockets : page[p].socket = s =>
               /\ chan'[s] = chan[s] /\ handler'[s] = handler[s]
               /\ s \in DOMAIN clients' => s \in DOMAIN clients
               /\ Pending(s)' <=> Pending(s)
               /\ broadcast'.sending.socket = s => broadcast'.sending = broadcast.sending
    PROVE  HolesInv(p)'
<1>1. Unbroken(page[p].points, page[p].at - 1)'
  BY DEF HolesInv, Unbroken
<1>2. ASSUME NEW s \in Sockets, page[p].socket = s PROVE JoinInv(p, s)'
  <2>1. JoinInv(p, s)
    BY <1>2 DEF HolesInv
  <2>2. \A i : PositionAfter(p, s, i)' = PositionAfter(p, s, i)
    BY <1>2 DEF PositionAfter
  <2>3. Position(p, s)' = Position(p, s)
    BY <1>2, <2>2 DEF Position
  <2>4. \A i \in DOMAIN chan'[s] : Joins(chan'[s][i], PositionAfter(p, s, i - 1)')
    BY <1>2, <2>1, <2>2 DEF JoinInv
  <2>5. broadcast'.sending.socket = s => Joins(broadcast'.sending.msg, Position(p, s)')
    BY <1>2, <2>1, <2>3 DEF JoinInv
  <2>6. s \in DOMAIN clients' => Position(p, s)' = IF Pending(s)' THEN tick' ELSE tick' + 1
    BY <1>2, <2>1, <2>3 DEF JoinInv
  <2>7. handler'[s].pc = "sending" =>
          /\ handler'[s].msg.type = "init" /\ handler'[s].msg.tick = tick'
          /\ Unbroken(handler'[s].msg.points, tick')
    BY <1>2, <2>1 DEF JoinInv
  <2> QED
    BY <2>4, <2>5, <2>6, <2>7 DEF JoinInv
<1> QED
  BY <1>1, <1>2 DEF HolesInv

(* A message that leaves no hole is put on the channel. *)
LEMMA SentJoins ==
    ASSUME WholeInv, NEW p \in Pages, NEW s \in Sockets, page[p].socket = s, page'[p] = page[p],
           NEW m \in SocketMessages, chan' = [chan EXCEPT ![s] = Append(@, m)],
           \A i \in DOMAIN chan[s] : Joins(chan[s][i], PositionAfter(p, s, i - 1)),
           Joins(m, Position(p, s))
    PROVE  /\ \A i \in DOMAIN chan'[s] : Joins(chan'[s][i], PositionAfter(p, s, i - 1)')
           /\ Position(p, s)' = m.tick + 1
<1>1. /\ Len(chan[s]) \in Nat /\ Len(chan'[s]) = Len(chan[s]) + 1
      /\ DOMAIN chan[s] = 1 .. Len(chan[s])
      /\ DOMAIN chan'[s] = 1 .. Len(chan[s]) + 1
      /\ \A i \in DOMAIN chan[s] : chan'[s][i] = chan[s][i]
      /\ chan'[s][Len(chan[s]) + 1] = m
  BY Sent DEF WholeInv
<1>2. \A i \in 0 .. Len(chan[s]) : PositionAfter(p, s, i)' = PositionAfter(p, s, i)
  BY <1>1 DEF PositionAfter
<1>3. ASSUME NEW i \in DOMAIN chan'[s]
      PROVE  Joins(chan'[s][i], PositionAfter(p, s, i - 1)')
  <2>1. i - 1 \in 0 .. Len(chan[s])
    BY <1>1, <1>3
  <2>2. PositionAfter(p, s, i - 1)' = PositionAfter(p, s, i - 1)
    BY <1>2, <2>1
  <2>3. CASE i \in DOMAIN chan[s]
    BY <1>1, <2>2, <2>3
  <2>4. CASE i = Len(chan[s]) + 1
    <3>1. i - 1 = Len(chan[s])
      BY <1>1, <2>4
    <3> QED
      BY <1>1, <2>2, <2>4, <3>1 DEF Position
  <2> QED
    BY <1>1, <1>3, <2>3, <2>4
<1>4. Position(p, s)' = m.tick + 1
  BY <1>1 DEF Position, PositionAfter
<1> QED
  BY <1>3, <1>4

-----------------------------------------------------------------------------
(* A poll: every client had the one before, and no init is being sent. *)
LEMMA PublishJoins ==
    ASSUME WholeInv, NEW p \in Pages, HolesInv(p), NEW snap \in Snapshots, Publish(snap),
           \A s \in alive : handler[s].pc # "sending"
    PROVE  HolesInv(p)'
<1>1. /\ broadcast'.todo = DOMAIN clients /\ broadcast'.sending = NotSending
      /\ broadcast.todo = {} /\ broadcast.sending = NotSending
      /\ tick' = tick + 1 /\ UNCHANGED <<clients, handler, chan, alive, page>>
  BY DEF Publish, pageVars
<1>2. \A s \in Sockets : ~Pending(s) /\ broadcast'.sending.socket # s
                         /\ (Pending(s)' <=> s \in DOMAIN clients)
  BY <1>1, StreamAssumption DEF Pending, NotSending
<1>3. ASSUME NEW s \in Sockets, page[p].socket = s PROVE JoinInv(p, s)'
  <2>1. JoinInv(p, s) /\ s \in alive
    BY <1>3, ClientOfPage DEF HolesInv, WholeInv
  <2>2. handler'[s].pc # "sending"
    BY <1>1, <2>1
  <2>3. \A i : PositionAfter(p, s, i)' = PositionAfter(p, s, i)
    BY <1>1 DEF PositionAfter
  <2>4. Position(p, s)' = Position(p, s)
    BY <1>1, <2>3 DEF Position
  <2>5. s \in DOMAIN clients' => Position(p, s)' = IF Pending(s)' THEN tick' ELSE tick' + 1
    BY <1>1, <1>2, <2>1, <2>4 DEF JoinInv
  <2>6. \A i \in DOMAIN chan'[s] : Joins(chan'[s][i], PositionAfter(p, s, i - 1)')
    BY <1>1, <2>1, <2>3 DEF JoinInv
  <2> QED
    BY <1>2, <2>2, <2>5, <2>6 DEF JoinInv
<1> QED
  BY <1>1, <1>3 DEF HolesInv

LEMMA BeginTickJoins ==
    ASSUME WholeInv, NEW p \in Pages, HolesInv(p), NEW s \in Sockets, BeginTick(s)
    PROVE  HolesInv(p)'
<1> DEFINE m == TickMessage(broadcast.known[s])
<1>1. /\ s \in broadcast.todo /\ broadcast.sending = NotSending
      /\ UNCHANGED <<tick, snapshot, clients, handler, snaps, chan, alive, page>>
  BY DEF BeginTick, pageVars
<1>2. /\ broadcast'.todo = broadcast.todo \ {s}
      /\ broadcast'.sending.socket = s /\ broadcast'.sending.msg = m
  BY DEF BeginTick, WholeInv, TypeInv, Broadcasts
<1>3. \A c \in Sockets : Pending(c)' <=> Pending(c)
  BY <1>1, <1>2, StreamAssumption DEF Pending, NotSending
<1>4. CASE page[p].socket # s
  BY <1>1, <1>2, <1>3, <1>4, HolesStay
<1>5. CASE page[p].socket = s
  <2>1. JoinInv(p, s) /\ s \in DOMAIN clients
    BY <1>1, <1>5, ClientOfPage DEF HolesInv, WholeInv
  <2>2. Position(p, s) = tick
    BY <1>1, <2>1 DEF JoinInv, Pending
  <2>3. \A i : PositionAfter(p, s, i)' = PositionAfter(p, s, i)
    BY <1>1 DEF PositionAfter
  <2>4. Position(p, s)' = Position(p, s)
    BY <1>1, <2>3 DEF Position
  <2>5. m.points = <<tick>> /\ m.tick = tick
    BY DEF TickMessage
  <2> HIDE DEF m
  <2>6. Joins(m, Position(p, s))
    <3>1. Len(<<tick>>) = 1 /\ <<tick>>[1] = tick
      OBVIOUS
    <3> QED
      BY <2>2, <2>5, <3>1 DEF Joins, Unbroken
  <2>7. JoinInv(p, s)'
    <3>1. \A i \in DOMAIN chan'[s] : Joins(chan'[s][i], PositionAfter(p, s, i - 1)')
      BY <1>1, <2>1, <2>3 DEF JoinInv
    <3>2. s \in DOMAIN clients' => Position(p, s)' = IF Pending(s)' THEN tick' ELSE tick' + 1
      BY <1>1, <1>3, <2>1, <2>4 DEF JoinInv
    <3>3. Joins(broadcast'.sending.msg, Position(p, s)')
      BY <1>2, <2>4, <2>6
    <3>4. handler'[s].pc = "sending" =>
            /\ handler'[s].msg.type = "init" /\ handler'[s].msg.tick = tick'
            /\ Unbroken(handler'[s].msg.points, tick')
      BY <1>1, <2>1 DEF JoinInv
    <3> QED
      BY <3>1, <3>2, <3>3, <3>4 DEF JoinInv
  <2> QED
    BY <1>1, <1>5, <2>7 DEF HolesInv
<1> QED
  BY <1>4, <1>5

LEMMA TickSentJoins ==
    ASSUME WholeInv, NEW p \in Pages, HolesInv(p), TickSent
    PROVE  HolesInv(p)'
<1>1. PICK s \in Sockets, m \in SocketMessages :
          s = broadcast.sending.socket /\ m = broadcast.sending.msg
  BY BroadcastFields DEF TickSent, WholeInv
<1>2. broadcast'.todo = broadcast.todo /\ broadcast'.sending.socket \notin Sockets
  BY StreamAssumption DEF TickSent, WholeInv, TypeInv, Broadcasts, NotSending
<1>3. UNCHANGED <<tick, snapshot, handler, snaps, alive, page>> /\ DOMAIN clients' = DOMAIN clients
  BY DEF TickSent
<1>4. \A c \in Sockets : Pending(c)' <=> Pending(c) /\ c # s
  BY <1>1, <1>2 DEF Pending, WholeInv, SocketInv
<1>5. CASE page[p].socket # s
  <2>1. \A c \in Sockets : c # s => chan'[c] = chan[c]
    BY <1>1 DEF TickSent, WholeInv, TypeInv
  <2> QED
    BY <1>2, <1>3, <1>4, <1>5, <2>1, HolesStay
<1>6. CASE page[p].socket = s
  <2>1. /\ JoinInv(p, s) /\ s \in alive /\ s \in DOMAIN clients
        /\ handler[s].pc = "receiving" /\ BroadcastInv(p, s)
    BY <1>1, <1>6, ClientOfPage DEF HolesInv, WholeInv, PageInv, StreamInv
  <2>2. m.tick = tick /\ Joins(m, Position(p, s))
    BY <1>1, <2>1 DEF BroadcastInv, JoinInv
  <2>3. chan' = [chan EXCEPT ![s] = Append(@, m)]
    BY <1>1, <2>1 DEF TickSent
  <2>4. /\ \A i \in DOMAIN chan'[s] : Joins(chan'[s][i], PositionAfter(p, s, i - 1)')
        /\ Position(p, s)' = m.tick + 1
    <3>1. page'[p] = page[p] /\ \A i \in DOMAIN chan[s] : Joins(chan[s][i], PositionAfter(p, s, i - 1))
      BY <1>3, <2>1 DEF JoinInv
    <3> QED
      BY <1>6, <2>2, <2>3, <3>1, SentJoins
  <2>5. JoinInv(p, s)'
    BY <1>2, <1>3, <1>4, <2>1, <2>2, <2>4 DEF JoinInv
  <2> QED
    BY <1>3, <1>6, <2>5 DEF HolesInv
<1> QED
  BY <1>5, <1>6

(* A send that raised, and a handler that ends, are of a dead socket. *)
LEMMA DropJoins ==
    ASSUME WholeInv, NEW p \in Pages, HolesInv(p),
           TickFails \/ \E s \in Sockets : HandlerEnds(s)
    PROVE  HolesInv(p)'
<1>1. ASSUME NEW s \in Sockets, s \notin alive, clients' = Without(clients, s),
             UNCHANGED <<tick, chan, alive, page>>,
             \A c \in Sockets : c # s => handler'[c] = handler[c] /\ (Pending(c)' <=> Pending(c)),
             broadcast'.sending = broadcast.sending \/ broadcast'.sending.socket \notin Sockets
      PROVE  HolesInv(p)'
  <2>1. page[p].socket # s
    BY <1>1, ClientOfPage DEF WholeInv
  <2>2. DOMAIN clients' = DOMAIN clients \ {s}
    BY <1>1, Untyped DEF WholeInv
  <2> QED
    BY <1>1, <2>1, <2>2, HolesStay
<1>2. CASE TickFails
  <2>1. PICK s \in Sockets : s = broadcast.sending.socket
    BY <1>2, BroadcastFields DEF TickFails, WholeInv
  <2>2. broadcast'.todo = broadcast.todo /\ broadcast'.sending.socket \notin Sockets
    BY <1>2, StreamAssumption DEF TickFails, WholeInv, TypeInv, Broadcasts, NotSending
  <2>3. \A c \in Sockets : c # s => (Pending(c)' <=> Pending(c))
    BY <2>1, <2>2 DEF Pending
  <2> QED
    BY <1>1, <1>2, <2>1, <2>2, <2>3 DEF TickFails, pageVars
<1>3. ASSUME NEW s \in Sockets, HandlerEnds(s) PROVE HolesInv(p)'
  <2>1. \A c \in Sockets : c # s => handler'[c] = handler[c]
    BY <1>3, HandlerTyped DEF HandlerEnds, WholeInv
  <2>2. broadcast' = broadcast
    BY <1>3 DEF HandlerEnds
  <2>3. \A c \in Sockets : Pending(c)' <=> Pending(c)
    BY <2>2 DEF Pending
  <2> QED
    BY <1>1, <1>3, <2>1, <2>2, <2>3 DEF HandlerEnds, pageVars
<1> QED
  BY <1>2, <1>3

LEMMA ReadInitJoins ==
    ASSUME WholeInv, NEW p \in Pages, HolesInv(p), NEW s \in Sockets, ReadInit(s)
    PROVE  HolesInv(p)'
<1>1. UNCHANGED <<tick, clients, broadcast, chan, alive, page>> /\ handler[s].pc = "accepted"
  BY DEF ReadInit, pageVars
<1>2. /\ handler'[s].pc = "sending" /\ handler'[s].msg = InitMessage
      /\ \A c \in Sockets : c # s => handler'[c] = handler[c]
  BY DEF ReadInit, WholeInv, TypeInv
<1>3. \A c \in Sockets : Pending(c)' <=> Pending(c)
  BY <1>1 DEF Pending
<1>4. CASE page[p].socket # s
  BY <1>1, <1>2, <1>3, <1>4, HolesStay
<1>5. CASE page[p].socket = s
  <2>1. /\ JoinInv(p, s) /\ s \notin DOMAIN clients /\ broadcast.sending.socket # s
    BY <1>1, <1>5 DEF HolesInv, WholeInv, SocketInv, Life, Unregistered
  <2>2. /\ InitMessage.type = "init" /\ InitMessage.tick = tick
        /\ InitMessage.points = Newest(LivePoints, tick)
    BY DEF InitMessage
  <2>3. Unbroken(Newest(LivePoints, tick), tick)
    BY NewestUnbroken, StreamAssumption DEF WholeInv, TypeInv
  <2>4. \A i : PositionAfter(p, s, i)' = PositionAfter(p, s, i)
    BY <1>1 DEF PositionAfter
  <2>5. \A i \in DOMAIN chan'[s] : Joins(chan'[s][i], PositionAfter(p, s, i - 1)')
    BY <1>1, <2>1, <2>4 DEF JoinInv
  <2>6. JoinInv(p, s)'
    BY <1>1, <1>2, <2>1, <2>2, <2>3, <2>5 DEF JoinInv
  <2> QED
    BY <1>1, <1>5, <2>6 DEF HolesInv
<1> QED
  BY <1>4, <1>5

LEMMA InitSentJoins ==
    ASSUME WholeInv, NEW p \in Pages, HolesInv(p), NEW s \in Sockets, InitSent(s)
    PROVE  HolesInv(p)'
<1>1. /\ UNCHANGED <<tick, broadcast, alive, page>> /\ handler[s].pc = "sending"
      /\ DOMAIN clients' = DOMAIN clients \cup {s}
  BY DEF InitSent
<1>2. PICK m \in SocketMessages : m = handler[s].msg
  BY <1>1 DEF WholeInv, TypeInv
<1>3. chan' = [chan EXCEPT ![s] = Append(@, m)]
  BY <1>2 DEF InitSent
<1>4. handler'[s].pc = "receiving" /\ \A c \in Sockets : c # s => handler'[c] = handler[c]
  BY HandlerTyped DEF InitSent, WholeInv
<1>5. \A c \in Sockets : Pending(c)' <=> Pending(c)
  BY <1>1 DEF Pending
<1>6. CASE page[p].socket # s
  <2>1. \A c \in Sockets : c # s => chan'[c] = chan[c]
    BY <1>3, Sent DEF WholeInv
  <2> QED
    BY <1>1, <1>4, <1>5, <1>6, <2>1, HolesStay
<1>7. CASE page[p].socket = s
  <2>1. JoinInv(p, s) /\ ~Pending(s)
    BY <1>1, <1>7 DEF HolesInv, WholeInv, SocketInv, Life, Unregistered, Pending
  <2>2. m.type = "init" /\ m.tick = tick /\ Joins(m, Position(p, s))
    BY <1>1, <1>2, <2>1 DEF JoinInv, Joins
  <2>3. /\ \A i \in DOMAIN chan'[s] : Joins(chan'[s][i], PositionAfter(p, s, i - 1)')
        /\ Position(p, s)' = m.tick + 1
    <3>1. page'[p] = page[p] /\ \A i \in DOMAIN chan[s] : Joins(chan[s][i], PositionAfter(p, s, i - 1))
      BY <1>1, <2>1 DEF JoinInv
    <3> QED
      BY <1>3, <1>7, <2>2, <3>1, SentJoins
  <2>4. JoinInv(p, s)'
    BY <1>1, <1>4, <1>5, <2>1, <2>2, <2>3 DEF JoinInv, Pending
  <2> QED
    BY <1>1, <1>7, <2>4 DEF HolesInv
<1> QED
  BY <1>6, <1>7

LEMMA ConnectJoins ==
    ASSUME WholeInv, NEW p \in Pages, HolesInv(p), NEW q \in Pages, NEW s \in Sockets, Connect(q, s)
    PROVE  HolesInv(p)'
<1>1. handler[s].pc = "unused" /\ UNCHANGED <<tick, snapshot, clients, broadcast, snaps, chan>>
  BY DEF Connect
<1>2. handler'[s].pc = "accepted" /\ \A c \in Sockets : c # s => handler'[c] = handler[c]
  BY HandlerTyped DEF Connect, WholeInv
<1>3. /\ page'[q].socket = s /\ page'[q].at = page[q].at /\ page'[q].points = page[q].points
      /\ \A r \in Pages : r # q => page'[r] = page[r]
  BY DEF Connect, WholeInv, TypeInv, PageStates
<1>4. page[p].socket # s
  BY <1>1, ClientOfPage DEF WholeInv
<1>5. CASE p # q
  <2>1. \A c \in Sockets : Pending(c)' <=> Pending(c)
    BY <1>1 DEF Pending
  <2> QED
    BY <1>1, <1>2, <1>3, <1>4, <1>5, <2>1, HolesStay
<1>6. CASE p = q
  <2>1. Unregistered(s) /\ s \notin DOMAIN clients
    BY <1>1 DEF WholeInv, SocketInv, Life
  <2>2. chan'[s] = <<>>
    BY <1>1, <2>1 DEF Unregistered
  <2>3. JoinInv(p, s)'
    BY <1>1, <1>2, <2>1, <2>2 DEF JoinInv, Unregistered
  <2> QED
    BY <1>3, <1>6, <2>3 DEF HolesInv
<1> QED
  BY <1>5, <1>6

LEMMA ConnectionLostJoins ==
    ASSUME WholeInv, NEW p \in Pages, HolesInv(p), NEW q \in Pages, ConnectionLost(q)
    PROVE  HolesInv(p)'
<1>1. PICK s \in Sockets : s = page[q].socket
  BY DEF ConnectionLost, WholeInv, TypeInv, PageStates
<1>2. /\ UNCHANGED <<tick, snapshot, clients, handler, broadcast, snaps>>
      /\ \A c \in Sockets : c # s => chan'[c] = chan[c]
  BY <1>1 DEF ConnectionLost, serverVars, WholeInv, TypeInv
<1>3. /\ page'[q].socket = NoSocket /\ page'[q].at = page[q].at /\ page'[q].points = page[q].points
      /\ \A r \in Pages : r # q => page'[r] = page[r]
  BY DEF ConnectionLost, WholeInv, TypeInv, PageStates
<1>4. CASE p # q
  <2>1. page[p].socket # s
    BY <1>1, <1>4, SocketsDiffer DEF WholeInv
  <2>2. \A c \in Sockets : Pending(c)' <=> Pending(c)
    BY <1>2 DEF Pending
  <2> QED
    BY <1>2, <1>3, <1>4, <2>1, <2>2, HolesStay
<1>5. CASE p = q
  BY <1>3, <1>5, StreamAssumption DEF HolesInv
<1> QED
  BY <1>4, <1>5

LEMMA ReceiveJoins ==
    ASSUME WholeInv, NEW p \in Pages, HolesInv(p), NEW q \in Pages, Receive(q)
    PROVE  HolesInv(p)'
<1>1. PICK s \in Sockets : s = page[q].socket
  BY DEF Receive, WholeInv, TypeInv, PageStates
<1>2. /\ UNCHANGED <<tick, snapshot, clients, handler, broadcast, snaps, alive>>
      /\ chan[s] # <<>> /\ chan' = [chan EXCEPT ![s] = Tail(@)]
      /\ \A c \in Sockets : c # s => chan'[c] = chan[c]
  BY <1>1 DEF Receive, serverVars, WholeInv, TypeInv
<1>3. /\ page'[q].socket = s /\ page'[q].at = Head(chan[s]).tick + 1
      /\ page'[q].points = IF Head(chan[s]).type = "init" THEN Head(chan[s]).points
                           ELSE Trimmed(page[q].points \o Head(chan[s]).points, Head(chan[s]).tick)
      /\ \A r \in Pages : r # q => page'[r] = page[r]
  BY <1>1, Received DEF WholeInv
<1>4. \A c \in Sockets : Pending(c)' <=> Pending(c)
  BY <1>2 DEF Pending
<1>5. CASE p # q
  <2>1. page[p].socket # s
    BY <1>1, <1>5, SocketsDiffer DEF WholeInv
  <2> QED
    BY <1>2, <1>3, <1>4, <1>5, <2>1, HolesStay
<1>6. CASE p = q
  <2> DEFINE m == Head(chan[s])
  <2>1. JoinInv(p, s) /\ handler[s].pc # "sending" /\ ChannelInv(p, s)
    BY <1>1, <1>2, <1>6
    DEF HolesInv, WholeInv, PageInv, StreamInv, SocketInv, Life, Unregistered
  <2>2. m \in SocketMessages /\ m = chan[s][1] /\ 1 \in DOMAIN chan[s]
    <3>1. /\ Len(chan[s]) \in Nat \ {0} /\ DOMAIN chan[s] = 1 .. Len(chan[s])
          /\ m = chan[s][1] /\ m \in SocketMessages
      BY <1>2, Taken DEF WholeInv
    <3>2. 1 \in 1 .. Len(chan[s])
      BY <3>1
    <3> QED
      BY <3>1, <3>2
  <2>3. Joins(m, page[p].at) /\ Fits(m, page[p].at, tick, snaps)
    <3>1. Joins(m, PositionAfter(p, s, 1 - 1)) /\ Fits(m, PositionAfter(p, s, 1 - 1), tick, snaps)
      BY <2>1, <2>2 DEF JoinInv, ChannelInv
    <3> QED
      BY <3>1 DEF PositionAfter
  <2>4. m.tick \in Nat /\ m.type \in {"init", "tick"} /\ page[p].points \in Seq(Nat)
    BY <2>2, MessageFields, PositionTyped DEF WholeInv
  <2>5. Unbroken(page'[p].points, page'[p].at - 1)
    <3> HIDE DEF m
    <3>1. page'[p].at - 1 = m.tick
      BY <1>3, <1>6, <2>4 DEF m
    <3>2. CASE m.type = "init"
      BY <1>3, <1>6, <2>3, <3>1, <3>2 DEF Joins, m
    <3>3. CASE m.type = "tick"
      <4>1. m.tick = page[p].at /\ m.points = <<m.tick>>
        BY <2>3, <3>3 DEF Joins, Fits
      <4>2. Unbroken(page[p].points, m.tick - 1)
        BY <4>1 DEF HolesInv
      <4>3. Unbroken(page[p].points \o <<m.tick>>, m.tick)
        BY <2>4, <4>2, ExtendedUnbroken
      <4>4. page[p].points \o <<m.tick>> \in Seq(Nat)
        <5>1. <<m.tick>> \in Seq(Nat)
          BY <2>4
        <5> QED
          BY <2>4, <5>1, ConcatProperties
      <4>5. Unbroken(Trimmed(page[p].points \o <<m.tick>>, m.tick), m.tick)
        BY <2>4, <4>3, <4>4, TrimmedUnbroken
      <4>6. page'[p].points = Trimmed(page[p].points \o m.points, m.tick)
        BY <1>3, <1>6, <3>3 DEF m
      <4> QED
        BY <3>1, <4>1, <4>5, <4>6
    <3> QED
      BY <2>4, <3>2, <3>3
  <2>6. JoinInv(p, s)'
    <3>1. Position(p, s)' = Position(p, s)
      BY <1>1, <1>6, ReceivedPositions DEF WholeInv
    <3>2. ASSUME NEW i \in DOMAIN chan'[s]
          PROVE  Joins(chan'[s][i], PositionAfter(p, s, i - 1)')
      <4>1. PICK j \in DOMAIN chan[s] :
                /\ chan'[s][i] = chan[s][j]
                /\ PositionAfter(p, s, i - 1)' = PositionAfter(p, s, j - 1)
        BY <1>1, <1>6, ReceivedPositions DEF WholeInv
      <4>2. Joins(chan[s][j], PositionAfter(p, s, j - 1))
        BY <2>1 DEF JoinInv
      <4> QED
        BY <4>1, <4>2
    <3>3. s \in DOMAIN clients' => Position(p, s)' = IF Pending(s)' THEN tick' ELSE tick' + 1
      BY <1>2, <1>4, <2>1, <3>1 DEF JoinInv
    <3> QED
      BY <1>2, <2>1, <3>1, <3>2, <3>3 DEF JoinInv
  <2> QED
    BY <1>3, <1>6, <2>5, <2>6 DEF HolesInv
<1> QED
  BY <1>5, <1>6

-----------------------------------------------------------------------------
(* No poll is made while the init of a connected page is being sent. *)
InitsAreQuick == [][\A s \in alive : handler[s].pc # "sending"]_tick

(* api.ws_endpoint: "nothing is lost" (main.js) if no poll is made between   *)
(* the read of the buffer and the client's registration: then every client *)
(* is sent each poll from its init on, whatever sends fail and however late *)
(* messages arrive, so a page's points have no hole.                       *)
THEOREM QuickInitsLoseNothing == Spec /\ InitsAreQuick => []NoPointLost
<1> DEFINE Holes == \A p \in Pages : HolesInv(p)
           Quick == \A s \in alive : handler[s].pc # "sending"
<1>1. Init => Holes
  <2> SUFFICES ASSUME Init, NEW p \in Pages PROVE HolesInv(p)
    OBVIOUS
  <2>1. page[p].socket = NoSocket /\ page[p].points = <<>> /\ Len(<<>>) = 0
    BY DEF Init
  <2>2. Unbroken(page[p].points, page[p].at - 1)
    BY <2>1 DEF Unbroken
  <2> QED
    BY <2>1, <2>2, StreamAssumption DEF HolesInv
<1>2. WholeInv /\ Holes /\ [Next]_vars /\ [Quick]_tick => Holes'
  <2> SUFFICES ASSUME WholeInv, Holes, [Next]_vars, [Quick]_tick, NEW p \in Pages
               PROVE  HolesInv(p)'
    OBVIOUS
  <2>1. HolesInv(p)
    OBVIOUS
  <2>2. ASSUME NEW snap \in Snapshots, Publish(snap) PROVE HolesInv(p)'
    <3>1. tick \in Nat /\ tick' = tick + 1
      BY <2>2, StreamAssumption DEF Publish, WholeInv, TypeInv
    <3>2. tick' # tick
      BY <3>1
    <3>3. Quick
      BY <3>2
    <3> QED
      BY <2>1, <2>2, <3>3, PublishJoins
  <2>3. CASE TickSent
    BY <2>1, <2>3, TickSentJoins
  <2>4. CASE TickFails
    BY <2>1, <2>4, DropJoins
  <2>5. ASSUME NEW s \in Sockets, BeginTick(s) \/ ReadInit(s) \/ InitSent(s) \/ HandlerEnds(s)
        PROVE  HolesInv(p)'
    BY <2>1, <2>5, BeginTickJoins, ReadInitJoins, InitSentJoins, DropJoins
  <2>6. ASSUME NEW q \in Pages, ConnectionLost(q) \/ Receive(q) \/ \E s \in Sockets : Connect(q, s)
        PROVE  HolesInv(p)'
    BY <2>1, <2>6, ConnectionLostJoins, ReceiveJoins, ConnectJoins
  <2>7. CASE UNCHANGED vars
    BY <2>1, <2>7, HolesStay DEF vars, serverVars, pageVars, Pending
  <2> QED
    BY <2>2, <2>3, <2>4, <2>5, <2>6, <2>7 DEF Next
<1>3. Holes => NoPointLost
  BY DEF HolesInv, Unbroken, NoPointLost
<1> QED
  BY <1>1, <1>2, <1>3, StreamInvariant, PTL DEF Spec, InitsAreQuick

-----------------------------------------------------------------------------
(* The forwarder.  What the log's rows, the alerts and the dates are.      *)
LogRows == [ts : Nat, key : Conditions, rank : 1 .. 3, state : {"raised", "cleared"}]

FileKeys == {"known", "since", "fail", "open", "last", "down", "stall"}

Dated(f) == f = [k \in DOMAIN f |-> f[k]] /\ \A k \in DOMAIN f : f[k] \in Nat

ForwarderTypeInv ==
    /\ now \in Nat
    /\ alerts \in Shows
    /\ rows \in Seq(LogRows)
    /\ DOMAIN fwd = FileKeys
    /\ fwd.fail \in Nat /\ fwd.down \in BOOLEAN /\ fwd.stall \in BOOLEAN
    /\ Dated(fwd.last)
    /\ misses \in Nat /\ unsent \in BOOLEAN /\ doubtful \in BOOLEAN

(* As long as nothing was heard of a run that was not saved, the state     *)
(* file is what the recipient knows; and it counts no fewer failed fetches *)
(* than there were.                                                        *)
KnowsInv ==
    /\ ~doubtful =>
          /\ belief = [on |-> DOMAIN fwd.open, dark |-> fwd.down, stalled |-> fwd.stall]
          /\ spoken = fwd.last
          /\ misses >= DownTrip => fwd.down \/ unsent
    /\ misses <= fwd.fail

(* As long as no answer was cut, what is owed is in the log behind since.  *)
OwedInv ==
    /\ ~cut => \A k \in owed : \E r \in ToSet(rows) : r.key = k /\ PushesRaise(r)
    /\ ShortLogIsDelivered

-----------------------------------------------------------------------------
(* A run's messages, as sets.                                              *)
LEMMA ToSetOfConcat ==
    ASSUME NEW S, NEW s \in Seq(S), NEW u \in Seq(S)
    PROVE  s \o u \in Seq(S) /\ ToSet(s \o u) = ToSet(s) \cup ToSet(u)
<1>1. /\ s \o u \in Seq(S) /\ Len(s) \in Nat /\ Len(u) \in Nat
      /\ DOMAIN s = 1 .. Len(s) /\ DOMAIN u = 1 .. Len(u)
      /\ DOMAIN (s \o u) = 1 .. Len(s) + Len(u)
      /\ \A i \in 1 .. Len(s) : (s \o u)[i] = s[i]
      /\ \A i \in 1 .. Len(u) : (s \o u)[Len(s) + i] = u[i]
  OBVIOUS
<1>2. ASSUME NEW x \in ToSet(s \o u) PROVE x \in ToSet(s) \cup ToSet(u)
  <2>1. PICK i \in 1 .. Len(s) + Len(u) : x = (s \o u)[i]
    BY <1>1, <1>2 DEF ToSet
  <2>2. CASE i <= Len(s)
    BY <1>1, <2>1, <2>2 DEF ToSet
  <2>3. CASE ~(i <= Len(s))
    <3>1. i - Len(s) \in 1 .. Len(u) /\ Len(s) + (i - Len(s)) = i
      BY <1>1, <2>1, <2>3
    <3> QED BY <1>1, <2>1, <3>1 DEF ToSet
  <2> QED BY <2>2, <2>3
<1>3. ASSUME NEW x \in ToSet(s) PROVE x \in ToSet(s \o u)
  <2>1. PICK i \in 1 .. Len(s) : x = s[i]
    BY <1>1, <1>3 DEF ToSet
  <2>2. i \in 1 .. Len(s) + Len(u)
    BY <1>1, <2>1
  <2> QED BY <1>1, <2>1, <2>2 DEF ToSet
<1>4. ASSUME NEW x \in ToSet(u) PROVE x \in ToSet(s \o u)
  <2>1. PICK i \in 1 .. Len(u) : x = u[i]
    BY <1>1, <1>4 DEF ToSet
  <2>2. Len(s) + i \in 1 .. Len(s) + Len(u)
    BY <1>1, <2>1
  <2> QED BY <1>1, <2>1, <2>2 DEF ToSet
<1> QED BY <1>1, <1>2, <1>3, <1>4

LEMMA ToSetOfOne == ASSUME NEW x PROVE ToSet(<<x>>) = {x} /\ ToSet(<<>>) = {}
BY DEF ToSet

(* dash-alerts.py: what the messages of a run say.                         *)
News(st, t) ==
    [says |-> "alerts", gone |-> CameAndWent(st, t), on |-> NowOn(st, t), off |-> NowOff(st)]

Tells(st, t) == CameAndWent(st, t) \cup NowOn(st, t) \cup NowOff(st) # {}

LEMMA MessagesSaid ==
    ASSUME NEW st, NEW t
    PROVE  ToSet(Messages(st, t)) =
              {m \in {[says |-> "reachable"]} : st.down}
              \cup {m \in {[says |-> "stalled"]} : Stalled(t) /\ ~st.stall}
              \cup {m \in {[says |-> "polling"]} : ~Stalled(t) /\ st.stall}
              \cup {m \in {News(st, t)} : Tells(st, t)}
<1> DEFINE A == IF st.down THEN <<[says |-> "reachable"]>> ELSE <<>>
           B == IF Stalled(t) /\ ~st.stall THEN <<[says |-> "stalled"]>>
                ELSE IF st.stall /\ ~Stalled(t) THEN <<[says |-> "polling"]>> ELSE <<>>
           C == IF ~Tells(st, t) THEN <<>> ELSE <<News(st, t)>>
           S == {[says |-> "reachable"], [says |-> "stalled"], [says |-> "polling"],
                 News(st, t)}
<1>1. Messages(st, t) = A \o B \o C
  BY DEF Messages, Tells, News
<1>2. A \in Seq(S) /\ ToSet(A) = {m \in {[says |-> "reachable"]} : st.down}
  <2> HIDE DEF S
  <2>1. [says |-> "reachable"] \in S
    BY DEF S
  <2> QED BY <2>1, ToSetOfOne
<1>3. /\ B \in Seq(S)
      /\ ToSet(B) = {m \in {[says |-> "stalled"]} : Stalled(t) /\ ~st.stall}
                    \cup {m \in {[says |-> "polling"]} : ~Stalled(t) /\ st.stall}
  <2> HIDE DEF S
  <2>1. [says |-> "stalled"] \in S /\ [says |-> "polling"] \in S
    BY DEF S
  <2> QED BY <2>1, ToSetOfOne
<1>4. C \in Seq(S) /\ ToSet(C) = {m \in {News(st, t)} : Tells(st, t)}
  <2> HIDE DEF S
  <2>1. News(st, t) \in S
    BY DEF S
  <2> QED BY <2>1, ToSetOfOne
<1> HIDE DEF A, B, C, S
<1>5. A \o B \in Seq(S) /\ ToSet(A \o B) = ToSet(A) \cup ToSet(B)
  BY <1>2, <1>3, ToSetOfConcat
<1>6. ToSet((A \o B) \o C) = ToSet(A \o B) \cup ToSet(C)
  <2> DEFINE AB == A \o B
  <2>1. AB \in Seq(S)
    BY <1>5
  <2> HIDE DEF AB
  <2>2. ToSet(AB \o C) = ToSet(AB) \cup ToSet(C)
    BY <1>4, <2>1, ToSetOfConcat
  <2> QED BY <2>2 DEF AB
<1> QED BY <1>1, <1>2, <1>3, <1>4, <1>5, <1>6

(* What the recipient makes of them all.                                   *)
LEMMA WholeRunHeard ==
    ASSUME NEW st, NEW t, st.down \in BOOLEAN, st.stall \in BOOLEAN, Hear(Messages(st, t), t)
    PROVE  LET raised == CameAndWent(st, t) \cup NowOn(st, t)
               over == CameAndWent(st, t) \cup NowOff(st)
           IN  /\ belief' = [on |-> (belief.on \cup raised) \ over,
                             dark |-> belief.dark /\ ~st.down,
                             stalled |-> (belief.stalled \/ (Stalled(t) /\ ~st.stall))
                                         /\ ~(~Stalled(t) /\ st.stall)]
               /\ spoken' = [k \in DOMAIN spoken \cup raised |->
                                IF k \in raised THEN t ELSE spoken[k]]
<1> DEFINE msgs == ToSet(Messages(st, t))
           raised == CameAndWent(st, t) \cup NowOn(st, t)
           over == CameAndWent(st, t) \cup NowOff(st)
           N == News(st, t)
           lines == Lines(Messages(st, t))
<1>1. /\ N.says = "alerts" /\ N.gone = CameAndWent(st, t) /\ N.on = NowOn(st, t)
      /\ N.off = NowOff(st)
  BY DEF News
<1>2. msgs = {m \in {[says |-> "reachable"]} : st.down}
              \cup {m \in {[says |-> "stalled"]} : Stalled(t) /\ ~st.stall}
              \cup {m \in {[says |-> "polling"]} : ~Stalled(t) /\ st.stall}
              \cup {m \in {N} : Tells(st, t)}
  BY MessagesSaid
<1>3. lines = {m \in {N} : Tells(st, t)}
  <2> HIDE DEF N
  <2>1. lines = {m \in msgs : m.says = "alerts"}
    BY DEF Lines
  <2> HIDE DEF msgs, lines
  <2> QED BY <1>1, <1>2, <2>1
<1>4. UNION {m.gone \cup m.on : m \in lines} = raised
  <2> HIDE DEF N, lines
  <2>1. CASE Tells(st, t)
    <3>1. lines = {N}
      BY <1>3, <2>1
    <3> QED BY <1>1, <3>1
  <2>2. CASE ~Tells(st, t)
    <3>1. lines = {} /\ raised = {}
      BY <1>3, <2>2 DEF Tells
    <3> QED BY <3>1
  <2> QED BY <2>1, <2>2
<1>5. UNION {m.gone \cup m.off : m \in lines} = over
  <2> HIDE DEF N, lines
  <2>1. CASE Tells(st, t)
    <3>1. lines = {N}
      BY <1>3, <2>1
    <3> QED BY <1>1, <3>1
  <2>2. CASE ~Tells(st, t)
    <3>1. lines = {} /\ over = {}
      BY <1>3, <2>2 DEF Tells
    <3> QED BY <3>1
  <2> QED BY <2>1, <2>2
<1>6. /\ (\E m \in msgs : m.says = "reachable") <=> st.down
      /\ (\E m \in msgs : m.says = "stalled") <=> Stalled(t) /\ ~st.stall
      /\ (\E m \in msgs : m.says = "polling") <=> ~Stalled(t) /\ st.stall
  <2> DEFINE note(what) == [says |-> what]
  <2> HIDE DEF N, msgs
  <2>1. ASSUME NEW m \in msgs
        PROVE  \/ m = note("reachable") /\ st.down
               \/ m = note("stalled") /\ Stalled(t) /\ ~st.stall
               \/ m = note("polling") /\ ~Stalled(t) /\ st.stall
               \/ m = N
    BY <1>2, <2>1
  <2>2. /\ st.down => note("reachable") \in msgs
        /\ Stalled(t) /\ ~st.stall => note("stalled") \in msgs
        /\ ~Stalled(t) /\ st.stall => note("polling") \in msgs
    BY <1>2
  <2>3. \A what : note(what).says = what
    OBVIOUS
  <2> HIDE DEF note
  <2>4. /\ (\E m \in msgs : m.says = "reachable") => st.down
        /\ (\E m \in msgs : m.says = "stalled") => Stalled(t) /\ ~st.stall
        /\ (\E m \in msgs : m.says = "polling") => ~Stalled(t) /\ st.stall
    BY <1>1, <2>1, <2>3
  <2>5. /\ st.down => (\E m \in msgs : m.says = "reachable")
        /\ Stalled(t) /\ ~st.stall => (\E m \in msgs : m.says = "stalled")
        /\ ~Stalled(t) /\ st.stall => (\E m \in msgs : m.says = "polling")
    BY <2>2, <2>3
  <2> QED BY <2>4, <2>5
<1>7. /\ belief' = [on |-> (belief.on \cup UNION {m.gone \cup m.on : m \in lines})
                           \ UNION {m.gone \cup m.off : m \in lines},
                    dark |-> belief.dark /\ ~(\E m \in msgs : m.says = "reachable"),
                    stalled |-> (belief.stalled \/ (\E m \in msgs : m.says = "stalled"))
                                /\ ~(\E m \in msgs : m.says = "polling")]
      /\ spoken' = [k \in DOMAIN spoken \cup UNION {m.gone \cup m.on : m \in lines} |->
                       IF k \in UNION {m.gone \cup m.on : m \in lines} THEN t
                       ELSE spoken[k]]
  BY DEF Hear
<1> HIDE DEF msgs, lines, raised, over
<1> QED BY <1>4, <1>5, <1>6, <1>7, Zenon DEF raised, over

-----------------------------------------------------------------------------
(* The log's rows of a poll, and those behind a time, are rows.            *)
LEMMA SetToSeqIsSeq ==
    ASSUME NEW S, IsFiniteSet(S) PROVE SetToSeq(S) \in Seq(S)
<1> DEFINE n == Cardinality(S)
           P(f) == IsInjective(f)
<1>1. n \in Nat
  BY FS_CardinalityType
<1>2. PICK f \in Bijection(1 .. n, S) : TRUE
  <2>1. ExistsBijection(1 .. n, S)
    BY FS_CardinalityType
  <2> QED BY <2>1 DEF ExistsBijection
<1>3. f \in [1 .. n -> S] /\ P(f)
  BY <1>2 DEF Bijection, Injection, IsInjective
<1>4. SetToSeq(S) = CHOOSE g \in [1 .. n -> S] : P(g)
  BY DEF SetToSeq
<1> HIDE DEF P, n
<1>5. SetToSeq(S) \in [1 .. n -> S]
  BY <1>3, <1>4
<1> QED BY <1>1, <1>5

LEMMA ShowsAre ==
    ASSUME NEW f \in Shows
    PROVE  /\ DOMAIN f \subseteq Conditions /\ IsFiniteSet(DOMAIN f)
           /\ \A k \in DOMAIN f : f[k] \in 1 .. 3
<1>1. PICK D \in SUBSET Conditions : f \in [D -> 1 .. 3]
  BY DEF Shows
<1> QED BY <1>1, ForwarderAssumption, FS_Subset

LEMMA RowsAreLogRows ==
    ASSUME NEW t \in Nat, NEW from \in Shows, NEW to \in Shows
    PROVE  Rows(t, from, to) \in Seq(LogRows)
<1> DEFINE edge(k, state, rank) == [ts |-> t, key |-> k, rank |-> rank, state |-> state]
           raised == {edge(k, "raised", to[k]) : k \in DOMAIN to \ DOMAIN from}
           cleared == {edge(k, "cleared", from[k]) : k \in DOMAIN from \ DOMAIN to}
<1>1. IsFiniteSet(raised) /\ IsFiniteSet(cleared)
  <2>1. IsFiniteSet(DOMAIN to \ DOMAIN from) /\ IsFiniteSet(DOMAIN from \ DOMAIN to)
    BY ShowsAre, FS_Difference
  <2>2. ASSUME NEW D, NEW f, IsFiniteSet(D), DOMAIN f = D, f = [k \in D |-> f[k]]
        PROVE  IsFiniteSet({f[k] : k \in D})
    <3>1. f \in Surjection(D, {f[k] : k \in D})
      BY <2>2 DEF Surjection
    <3> QED BY <2>2, <3>1, FS_Surjection
  <2> DEFINE f == [k \in DOMAIN to \ DOMAIN from |-> edge(k, "raised", to[k])]
             g == [k \in DOMAIN from \ DOMAIN to |-> edge(k, "cleared", from[k])]
  <2>3. raised = {f[k] : k \in DOMAIN to \ DOMAIN from}
        /\ cleared = {g[k] : k \in DOMAIN from \ DOMAIN to}
    OBVIOUS
  <2>4. /\ DOMAIN f = DOMAIN to \ DOMAIN from /\ f = [k \in DOMAIN f |-> f[k]]
        /\ DOMAIN g = DOMAIN from \ DOMAIN to /\ g = [k \in DOMAIN g |-> g[k]]
    OBVIOUS
  <2> HIDE DEF f, g, raised, cleared
  <2>5. IsFiniteSet({f[k] : k \in DOMAIN to \ DOMAIN from})
    BY <2>1, <2>2, <2>4
  <2>6. IsFiniteSet({g[k] : k \in DOMAIN from \ DOMAIN to})
    BY <2>1, <2>2, <2>4
  <2> QED BY <2>3, <2>5, <2>6
<1>2. raised \subseteq LogRows /\ cleared \subseteq LogRows
  BY ShowsAre DEF LogRows
<1>3. SetToSeq(raised) \in Seq(LogRows) /\ SetToSeq(cleared) \in Seq(LogRows)
  <2> HIDE DEF raised, cleared
  <2>1. SetToSeq(raised) \in Seq(raised) /\ SetToSeq(cleared) \in Seq(cleared)
    BY <1>1, SetToSeqIsSeq
  <2> QED BY <1>2, <2>1
<1>4. Rows(t, from, to) = SetToSeq(raised) \o SetToSeq(cleared)
  BY DEF Rows
<1> HIDE DEF raised, cleared
<1> QED BY <1>3, <1>4

LEMMA RowsBehindAre ==
    ASSUME rows \in Seq(LogRows), NEW seen PROVE RowsBehind(seen) \in Seq(LogRows)
<1> DEFINE old == {i \in DOMAIN rows : rows[i].ts <= seen}
           c == Cardinality(old)
<1>1. c \in Nat
  <2>1. DOMAIN rows = 1 .. Len(rows) /\ Len(rows) \in Nat
    OBVIOUS
  <2>2. IsFiniteSet(1 .. Len(rows))
    BY <2>1, FS_Interval
  <2>3. IsFiniteSet(old)
    BY <2>1, <2>2, FS_Subset
  <2> QED BY <2>3, FS_CardinalityType
<1>2. RowsBehind(seen) = SubSeq(rows, 1 + c, Len(rows))
  BY DEF RowsBehind
<1> HIDE DEF c
<1> QED BY <1>1, <1>2

-----------------------------------------------------------------------------
LEMMA ForwarderInitInv == ForwarderInit => ForwarderTypeInv /\ KnowsInv /\ OwedInv
<1> SUFFICES ASSUME ForwarderInit PROVE ForwarderTypeInv /\ KnowsInv /\ OwedInv
  OBVIOUS
<1>1. alerts \in Shows
  <2>1. <<>> \in [{} -> 1 .. 3]
    OBVIOUS
  <2> QED BY <2>1 DEF ForwarderInit, Shows
<1>2. Dated(<<>>)
  BY DEF Dated
<1>3. ForwarderTypeInv
  <2>1. /\ DOMAIN NoFile = FileKeys /\ NoFile.fail = 0 /\ NoFile.down = FALSE
        /\ NoFile.stall = FALSE /\ NoFile.last = <<>>
    BY DEF NoFile, FileKeys
  <2>2. fwd = NoFile /\ now = 0 /\ rows = <<>> /\ misses = 0 /\ unsent = FALSE
        /\ doubtful = FALSE
    BY DEF ForwarderInit
  <2>3. rows \in Seq(LogRows)
    BY <2>2
  <2>4. /\ fwd.down \in BOOLEAN /\ fwd.stall \in BOOLEAN
        /\ unsent \in BOOLEAN /\ doubtful \in BOOLEAN
    BY <2>1, <2>2, Zenon
  <2>5. fwd.fail \in Nat /\ misses \in Nat /\ now \in Nat
    BY <2>1, <2>2
  <2> QED BY <1>1, <1>2, <2>1, <2>2, <2>3, <2>4, <2>5 DEF ForwarderTypeInv
<1>4. KnowsInv
  BY ForwarderAssumption DEF ForwarderInit, KnowsInv, NoFile
<1>5. OwedInv
  BY DEF ForwarderInit, OwedInv, ShortLogIsDelivered
<1> QED BY <1>3, <1>4, <1>5

(* The state a run starts from is the file's, but for the first run.       *)
LEMMA LoadedIs ==
    ASSUME ForwarderTypeInv, NEW t
    PROVE  /\ Loaded(t).open = fwd.open /\ Loaded(t).last = fwd.last
           /\ Loaded(t).fail = fwd.fail /\ Loaded(t).down = fwd.down
           /\ Loaded(t).stall = fwd.stall
           /\ DOMAIN Loaded(t) = FileKeys
BY DEF ForwarderTypeInv, Loaded, FileKeys

(* What a run that ends well writes in it.                                 *)
LEMMA AfterRunIs ==
    ASSUME NEW st, NEW t, DOMAIN st = FileKeys
    PROVE  LET said == CameAndWent(st, t) \cup NowOn(st, t)
           IN  /\ DOMAIN AfterRun(st, t) = FileKeys
               /\ AfterRun(st, t).fail = 0 /\ AfterRun(st, t).down = FALSE
               /\ AfterRun(st, t).stall = Stalled(t)
               /\ DOMAIN AfterRun(st, t).open = (DOMAIN st.open \cup NowOn(st, t)) \ NowOff(st)
               /\ AfterRun(st, t).last = [k \in DOMAIN st.last \cup said |->
                                             IF k \in said THEN t ELSE st.last[k]]
<1> DEFINE said == CameAndWent(st, t) \cup NowOn(st, t)
           open == [k \in (DOMAIN st.open \cup NowOn(st, t)) \ NowOff(st) |->
                       IF k \in NowOn(st, t) THEN Notified[k] ELSE st.open[k]]
           last == [k \in DOMAIN st.last \cup said |-> IF k \in said THEN t ELSE st.last[k]]
<1>1. AfterRun(st, t) =
          [st EXCEPT !.fail = 0, !.down = FALSE, !.stall = Stalled(t),
                     !.since = SinceAfter(st), !.open = open, !.last = last]
  BY DEF AfterRun
<1>2. DOMAIN open = (DOMAIN st.open \cup NowOn(st, t)) \ NowOff(st)
  OBVIOUS
<1> HIDE DEF open, last
<1>3. /\ DOMAIN AfterRun(st, t) = FileKeys
      /\ AfterRun(st, t).fail = 0 /\ AfterRun(st, t).down = FALSE
      /\ AfterRun(st, t).stall = Stalled(t)
      /\ AfterRun(st, t).open = open /\ AfterRun(st, t).last = last
  BY <1>1 DEF FileKeys
<1> QED BY <1>2, <1>3 DEF last

(* dash-alerts.py: a failed fetch is counted, and told of when it is due.   *)
LEMMA FetchFailsDoes ==
    ASSUME ForwarderTypeInv, NEW t \in Readings, FetchFails(t)
    PROVE  \E sent, heard \in BOOLEAN :
              /\ sent \/ heard => fwd.fail + 1 >= DownTrip /\ ~fwd.down
              /\ sent => heard
              /\ DOMAIN fwd' = FileKeys
              /\ fwd'.fail = IF fwd.fail < DownTrip THEN fwd.fail + 1 ELSE fwd.fail
              /\ fwd'.down = (fwd.down \/ sent)
              /\ fwd'.stall = fwd.stall /\ fwd'.open = fwd.open /\ fwd'.last = fwd.last
              /\ belief' = [belief EXCEPT !.dark = @ \/ heard]
              /\ doubtful' = (doubtful \/ (heard /\ ~sent))
              /\ unsent' = ((fwd.fail + 1 >= DownTrip /\ ~fwd.down) /\ ~sent)
<1> DEFINE st == Loaded(t)
<1>1. /\ st.open = fwd.open /\ st.last = fwd.last /\ st.fail = fwd.fail
      /\ st.down = fwd.down /\ st.stall = fwd.stall /\ DOMAIN st = FileKeys
  BY LoadedIs
<1>2. PICK sent \in BOOLEAN, heard \in BOOLEAN :
         /\ sent \/ heard => st.fail + 1 >= DownTrip /\ ~st.down
         /\ sent => heard
         /\ fwd' = [st EXCEPT !.fail = IF @ < DownTrip THEN @ + 1 ELSE @,
                              !.down = @ \/ sent]
         /\ belief' = [belief EXCEPT !.dark = @ \/ heard]
         /\ doubtful' = (doubtful \/ (heard /\ ~sent))
         /\ unsent' = ((st.fail + 1 >= DownTrip /\ ~st.down) /\ ~sent)
  BY DEF FetchFails
<1> HIDE DEF st
<1>3. /\ DOMAIN fwd' = FileKeys
      /\ fwd'.fail = IF fwd.fail < DownTrip THEN fwd.fail + 1 ELSE fwd.fail
      /\ fwd'.down = (fwd.down \/ sent)
      /\ fwd'.stall = fwd.stall /\ fwd'.open = fwd.open /\ fwd'.last = fwd.last
  BY <1>1, <1>2 DEF FileKeys
<1> QED BY <1>1, <1>2, <1>3

LEMMA ForwarderTypesHold ==
    ForwarderTypeInv /\ [ForwarderNext]_forwarderVars => ForwarderTypeInv'
<1> SUFFICES ASSUME ForwarderTypeInv, [ForwarderNext]_forwarderVars PROVE ForwarderTypeInv'
  OBVIOUS
<1>1. \A t \in Readings : t \in Nat
  BY GapsAssumption DEF Readings, ForwarderTypeInv
<1>2. ASSUME NEW t \in Readings, Raise(t) PROVE ForwarderTypeInv'
  <2>1. PICK shows \in Shows :
           alerts' = shows /\ rows' = IF fwd.known THEN rows \o Rows(t, alerts, shows) ELSE <<>>
    BY <1>2 DEF Raise
  <2>2. rows' \in Seq(LogRows)
    <3>1. Rows(t, alerts, shows) \in Seq(LogRows) /\ rows \in Seq(LogRows)
      BY <1>1, RowsAreLogRows DEF ForwarderTypeInv
    <3> QED BY <2>1, <3>1
  <2> QED BY <1>1, <1>2, <2>1, <2>2 DEF Raise, Reads, ForwarderTypeInv
<1>3. ASSUME NEW t \in Readings, DashboardRestarts(t) PROVE ForwarderTypeInv'
  <2>1. <<>> \in Shows
    <3>1. <<>> \in [{} -> 1 .. 3]
      OBVIOUS
    <3> QED BY <3>1 DEF Shows
  <2> QED BY <1>1, <1>3, <2>1 DEF DashboardRestarts, Reads, ForwarderTypeInv, fwdHistory
<1>4. ASSUME NEW t \in Readings, RunSaved(t) PROVE ForwarderTypeInv'
  <2> DEFINE st == Loaded(t)
             said == CameAndWent(st, t) \cup NowOn(st, t)
  <2>1. rows' \in Seq(LogRows)
    BY <1>4, RowsBehindAre DEF RunSaved, ForwarderTypeInv
  <2>2. /\ DOMAIN fwd' = FileKeys /\ fwd'.fail = 0 /\ fwd'.down = FALSE
        /\ fwd'.stall = Stalled(t)
        /\ fwd'.last = [k \in DOMAIN fwd.last \cup said |->
                           IF k \in said THEN t ELSE fwd.last[k]]
    <3>1. fwd' = AfterRun(st, t) /\ DOMAIN st = FileKeys /\ st.last = fwd.last
      BY <1>4, LoadedIs DEF RunSaved
    <3>2. /\ DOMAIN AfterRun(st, t) = FileKeys
          /\ AfterRun(st, t).fail = 0 /\ AfterRun(st, t).down = FALSE
          /\ AfterRun(st, t).stall = Stalled(t)
          /\ AfterRun(st, t).last = [k \in DOMAIN st.last \cup said |->
                                        IF k \in said THEN t ELSE st.last[k]]
      BY <3>1, AfterRunIs, Zenon
    <3> HIDE DEF st, said
    <3> QED BY <3>1, <3>2
  <2>3. Dated(fwd'.last)
    <3> HIDE DEF st, said
    <3> QED BY <1>1, <2>2 DEF Dated, ForwarderTypeInv
  <2>4. Stalled(t) \in BOOLEAN
    BY DEF Stalled
  <2> HIDE DEF st, said
  <2>5. /\ now' \in Nat /\ alerts' \in Shows /\ misses' \in Nat
        /\ unsent' \in BOOLEAN /\ doubtful' \in BOOLEAN
    BY <1>1, <1>4 DEF RunSaved, Reads, ForwarderTypeInv
  <2>6. fwd'.fail \in Nat /\ fwd'.down \in BOOLEAN /\ fwd'.stall \in BOOLEAN
    <3>1. fwd'.fail \in Nat
      BY <2>2
    <3>2. fwd'.down \in BOOLEAN /\ fwd'.stall \in BOOLEAN
      BY <2>2, <2>4, Zenon
    <3> QED BY <3>1, <3>2
  <2> QED BY <2>1, <2>2, <2>3, <2>5, <2>6 DEF ForwarderTypeInv
<1>5. ASSUME NEW t \in Readings, RunFails(t) PROVE ForwarderTypeInv'
  BY <1>1, <1>5 DEF RunFails, Reads, ForwarderTypeInv, dashVars
<1>6. ASSUME NEW t \in Readings, FetchFails(t) PROVE ForwarderTypeInv'
  <2>1. /\ DOMAIN fwd' = FileKeys /\ fwd'.fail \in Nat /\ fwd'.down \in BOOLEAN
        /\ fwd'.stall = fwd.stall /\ fwd'.last = fwd.last
        /\ unsent' \in BOOLEAN /\ doubtful' \in BOOLEAN
    <3>1. PICK sent \in BOOLEAN, heard \in BOOLEAN :
             /\ DOMAIN fwd' = FileKeys
             /\ fwd'.fail = IF fwd.fail < DownTrip THEN fwd.fail + 1 ELSE fwd.fail
             /\ fwd'.down = (fwd.down \/ sent)
             /\ fwd'.stall = fwd.stall /\ fwd'.last = fwd.last
             /\ doubtful' = (doubtful \/ (heard /\ ~sent))
             /\ unsent' = ((fwd.fail + 1 >= DownTrip /\ ~fwd.down) /\ ~sent)
      BY <1>6, FetchFailsDoes, Zenon
    <3>2. fwd'.down \in BOOLEAN /\ unsent' \in BOOLEAN /\ doubtful' \in BOOLEAN
      BY <3>1 DEF ForwarderTypeInv
    <3>3. fwd'.fail \in Nat
      BY <3>1 DEF ForwarderTypeInv
    <3> QED BY <3>1, <3>2, <3>3
  <2>2. /\ now' \in Nat /\ misses' \in Nat /\ alerts' = alerts /\ rows' = rows
    BY <1>1, <1>6 DEF FetchFails, Reads, ForwarderTypeInv, dashVars
  <2> QED BY <2>1, <2>2 DEF ForwarderTypeInv
<1>7. CASE UNCHANGED forwarderVars
  BY <1>7 DEF forwarderVars, dashVars, fwdHistory, ForwarderTypeInv
<1> QED BY <1>2, <1>3, <1>4, <1>5, <1>6, <1>7 DEF ForwarderNext

(* What a saved run says is what it writes.                                *)
LEMMA RunSavedKnows ==
    ASSUME ForwarderTypeInv, KnowsInv, NEW t \in Readings, RunSaved(t), ~doubtful
    PROVE  /\ belief' = [on |-> DOMAIN fwd'.open, dark |-> fwd'.down, stalled |-> fwd'.stall]
           /\ spoken' = fwd'.last
           /\ \A k \in CameAndWent(Loaded(t), t) \cup NowOn(Loaded(t), t) :
                 k \in DOMAIN spoken' /\ spoken'[k] = t
           /\ \A k \in DOMAIN spoken \ (CameAndWent(Loaded(t), t) \cup NowOn(Loaded(t), t)) :
                 k \in DOMAIN spoken' /\ spoken'[k] = spoken[k]
<1> DEFINE st == Loaded(t)
           gone == CameAndWent(st, t)
           on == NowOn(st, t)
           off == NowOff(st)
           b == belief'
<1>1. /\ DOMAIN st = FileKeys /\ st.open = fwd.open /\ st.last = fwd.last
      /\ st.down = fwd.down /\ st.stall = fwd.stall
  BY LoadedIs
<1>2. st.down \in BOOLEAN /\ st.stall \in BOOLEAN
  <2> HIDE DEF st
  <2> QED BY <1>1 DEF ForwarderTypeInv
<1>3. /\ b = [on |-> (belief.on \cup (gone \cup on)) \ (gone \cup off),
              dark |-> belief.dark /\ ~st.down,
              stalled |-> (belief.stalled \/ (Stalled(t) /\ ~st.stall))
                          /\ ~(~Stalled(t) /\ st.stall)]
      /\ spoken' = [k \in DOMAIN spoken \cup (gone \cup on) |->
                       IF k \in gone \cup on THEN t ELSE spoken[k]]
  <2>1. Hear(Messages(st, t), t)
    BY DEF RunSaved
  <2>2. LET raised == gone \cup on
            over == gone \cup off
        IN  /\ belief' = [on |-> (belief.on \cup raised) \ over,
                          dark |-> belief.dark /\ ~st.down,
                          stalled |-> (belief.stalled \/ (Stalled(t) /\ ~st.stall))
                                      /\ ~(~Stalled(t) /\ st.stall)]
            /\ spoken' = [k \in DOMAIN spoken \cup raised |->
                             IF k \in raised THEN t ELSE spoken[k]]
    <3>1. st.down \in BOOLEAN /\ st.stall \in BOOLEAN
      BY <1>2
    <3> QED BY <2>1, <3>1, WholeRunHeard
  <2> QED BY <2>2, Zenon DEF b
<1>4. /\ fwd' = AfterRun(st, t)
      /\ fwd'.down = FALSE /\ fwd'.stall = Stalled(t)
      /\ DOMAIN fwd'.open = (DOMAIN st.open \cup on) \ off
      /\ fwd'.last = [k \in DOMAIN st.last \cup (gone \cup on) |->
                         IF k \in gone \cup on THEN t ELSE st.last[k]]
  <2>1. fwd' = AfterRun(st, t)
    BY DEF RunSaved
  <2>2. LET said == gone \cup on
        IN  /\ AfterRun(st, t).down = FALSE /\ AfterRun(st, t).stall = Stalled(t)
            /\ DOMAIN AfterRun(st, t).open = (DOMAIN st.open \cup on) \ off
            /\ AfterRun(st, t).last = [k \in DOMAIN st.last \cup said |->
                                          IF k \in said THEN t ELSE st.last[k]]
    BY <1>1, AfterRunIs, Zenon
  <2> HIDE DEF st, gone, on, off
  <2> QED BY <2>1, <2>2, Zenon
<1>5. /\ gone \cap (DOMAIN Notified \cup DOMAIN st.open) = {} /\ on \subseteq DOMAIN Notified
  <2> HIDE DEF st
  <2>1. on \subseteq DOMAIN Notified
    BY DEF NowOn
  <2>2. ASSUME NEW k \in gone PROVE k \notin DOMAIN Notified \cup DOMAIN st.open
    BY <2>2 DEF CameAndWent
  <2> QED BY <2>1, <2>2
<1>6. /\ belief = [on |-> DOMAIN fwd.open, dark |-> fwd.down, stalled |-> fwd.stall]
      /\ spoken = fwd.last
  BY DEF KnowsInv
<1>7. Stalled(t) \in BOOLEAN
  BY DEF Stalled
<1> HIDE DEF st, gone, on, off
<1>8. b.on = DOMAIN fwd'.open
  <2>1. belief.on = DOMAIN st.open /\ b.on = (belief.on \cup (gone \cup on)) \ (gone \cup off)
    BY <1>1, <1>3, <1>6
  <2> HIDE DEF b
  <2> QED BY <1>4, <1>5, <2>1
<1>9. b.dark = fwd'.down
  <2>1. belief.dark = st.down /\ b.dark = (belief.dark /\ ~st.down)
    BY <1>1, <1>3, <1>6, Zenon
  <2> HIDE DEF b
  <2> QED BY <1>2, <1>4, <2>1, Zenon
<1>10. b.stalled = fwd'.stall
  <2>1. /\ belief.stalled = st.stall
        /\ b.stalled = ((belief.stalled \/ (Stalled(t) /\ ~st.stall))
                        /\ ~(~Stalled(t) /\ st.stall))
    BY <1>1, <1>3, <1>6, Zenon
  <2> HIDE DEF b
  <2> QED BY <1>2, <1>4, <1>7, <2>1, Zenon
<1>11. b = [on |-> b.on, dark |-> b.dark, stalled |-> b.stalled]
  BY <1>3
<1>12. spoken' = fwd'.last
  BY <1>1, <1>3, <1>4, <1>6
<1>13. /\ \A k \in gone \cup on : k \in DOMAIN spoken' /\ spoken'[k] = t
       /\ \A k \in DOMAIN spoken \ (gone \cup on) :
             k \in DOMAIN spoken' /\ spoken'[k] = spoken[k]
  BY <1>3
<1> QED BY <1>8, <1>9, <1>10, <1>11, <1>12, <1>13, Zenon DEF b, gone, on, st


LEMMA KnowsHolds ==
    ForwarderTypeInv /\ KnowsInv /\ [ForwarderNext]_forwarderVars => KnowsInv'
<1> SUFFICES ASSUME ForwarderTypeInv, KnowsInv, [ForwarderNext]_forwarderVars PROVE KnowsInv'
  OBVIOUS
<1>1. CASE UNCHANGED <<fwd, belief, spoken, doubtful, misses, unsent>>
  BY <1>1 DEF KnowsInv
<1>2. ASSUME NEW t \in Readings, RunSaved(t) PROVE KnowsInv'
  <2>1. misses' = 0 /\ doubtful' = doubtful
    BY <1>2 DEF RunSaved
  <2>2. fwd'.fail \in Nat
    BY <1>2, ForwarderTypesHold DEF ForwarderTypeInv
  <2>3. ~(misses' >= DownTrip) /\ misses' <= fwd'.fail
    BY <2>1, <2>2, ForwarderAssumption
  <2> QED BY <1>2, <2>1, <2>3, RunSavedKnows DEF KnowsInv
<1>3. ASSUME NEW t \in Readings, RunFails(t) PROVE KnowsInv'
  <2> DEFINE msgs == Messages(Loaded(t), t)
  <2>1. PICK n \in 0 .. Len(msgs) :
           Hear(SubSeq(msgs, 1, n), t) /\ doubtful' = (doubtful \/ n > 0)
    BY <1>3 DEF RunFails
  <2>2. misses' = 0 /\ fwd' = fwd
    BY <1>3 DEF RunFails
  <2>3. ASSUME ~doubtful' PROVE ~doubtful /\ belief' = belief /\ spoken' = spoken
    <3>1. ~doubtful /\ n = 0
      <4>1. ~doubtful /\ ~(n > 0)
        BY <2>1, <2>3
      <4> QED BY <4>1
    <3>2. SubSeq(msgs, 1, 0) = <<>>
      OBVIOUS
    <3>3. Hear(<<>>, t)
      BY <2>1, <3>1, <3>2
    <3>4. Lines(<<>>) = {} /\ ToSet(<<>>) = {}
      BY ToSetOfOne DEF Lines
    <3>5. /\ belief' = [on |-> (belief.on \cup {}) \ {}, dark |-> belief.dark /\ TRUE,
                        stalled |-> (belief.stalled \/ FALSE) /\ TRUE]
          /\ spoken' = [k \in DOMAIN spoken \cup {} |-> IF k \in {} THEN t ELSE spoken[k]]
      <4>1. /\ UNION {m.gone \cup m.on : m \in Lines(<<>>)} = {}
            /\ UNION {m.gone \cup m.off : m \in Lines(<<>>)} = {}
            /\ \A what : (\E m \in ToSet(<<>>) : m.says = what) = FALSE
        BY <3>4
      <4> QED BY <3>3, <4>1 DEF Hear
    <3>6. /\ belief = [on |-> DOMAIN fwd.open, dark |-> fwd.down, stalled |-> fwd.stall]
          /\ spoken = [k \in DOMAIN spoken |-> spoken[k]]
      BY <3>1 DEF KnowsInv, ForwarderTypeInv, Dated
    <3>7. belief' = [on |-> belief.on, dark |-> belief.dark, stalled |-> belief.stalled]
      <4>1. belief.dark \in BOOLEAN /\ belief.stalled \in BOOLEAN
        BY <3>6 DEF ForwarderTypeInv
      <4>2. (belief.dark /\ TRUE) = belief.dark
            /\ ((belief.stalled \/ FALSE) /\ TRUE) = belief.stalled
        BY <4>1, Zenon
      <4>3. (belief.on \cup {}) \ {} = belief.on
        OBVIOUS
      <4> QED BY <3>5, <4>2, <4>3, Zenon
    <3>8. spoken' = spoken
      BY <3>5, <3>6
    <3>9. belief' = belief
      BY <3>6, <3>7
    <3> QED BY <3>1, <3>8, <3>9
  <2>4. ~(misses' >= DownTrip) /\ misses' <= fwd'.fail
    BY <2>2, ForwarderAssumption DEF ForwarderTypeInv
  <2> QED BY <2>2, <2>3, <2>4 DEF KnowsInv
<1>4. ASSUME NEW t \in Readings, FetchFails(t) PROVE KnowsInv'
  <2>1. PICK sent \in BOOLEAN, heard \in BOOLEAN :
           /\ sent => heard
           /\ fwd'.fail = IF fwd.fail < DownTrip THEN fwd.fail + 1 ELSE fwd.fail
           /\ fwd'.down = (fwd.down \/ sent)
           /\ fwd'.stall = fwd.stall /\ fwd'.open = fwd.open /\ fwd'.last = fwd.last
           /\ belief' = [belief EXCEPT !.dark = @ \/ heard]
           /\ doubtful' = (doubtful \/ (heard /\ ~sent))
           /\ unsent' = ((fwd.fail + 1 >= DownTrip /\ ~fwd.down) /\ ~sent)
    BY <1>4, FetchFailsDoes, Zenon
  <2>2. misses' = (IF misses < DownTrip THEN misses + 1 ELSE misses) /\ spoken' = spoken
    BY <1>4 DEF FetchFails
  <2>3. misses' <= fwd'.fail /\ (misses' >= DownTrip => fwd.fail + 1 >= DownTrip)
    <3>1. misses \in Nat /\ fwd.fail \in Nat /\ DownTrip \in Nat /\ misses <= fwd.fail
      BY ForwarderAssumption DEF ForwarderTypeInv, KnowsInv
    <3>2. fwd'.fail = IF fwd.fail < DownTrip THEN fwd.fail + 1 ELSE fwd.fail
      BY <2>1
    <3> QED BY <2>2, <3>1, <3>2
  <2>4. misses' >= DownTrip => fwd'.down \/ unsent'
    <3>1. fwd.down \in BOOLEAN
      BY DEF ForwarderTypeInv
    <3> QED BY <2>1, <2>3, <3>1, Zenon
  <2>5. ASSUME ~doubtful'
        PROVE  /\ belief' = [on |-> DOMAIN fwd'.open, dark |-> fwd'.down, stalled |-> fwd'.stall]
               /\ spoken' = fwd'.last
    <3>1. ~doubtful /\ (sent <=> heard)
      BY <2>1, <2>5
    <3>2. /\ belief = [on |-> DOMAIN fwd.open, dark |-> fwd.down, stalled |-> fwd.stall]
          /\ spoken = fwd.last
      BY <3>1 DEF KnowsInv
    <3>3. belief' = [on |-> belief.on, dark |-> belief.dark \/ heard,
                     stalled |-> belief.stalled]
      BY <2>1, <3>2
    <3>4. (belief.dark \/ heard) = fwd'.down
      BY <2>1, <3>1, <3>2, Zenon
    <3> QED BY <2>1, <2>2, <3>2, <3>3, <3>4
  <2> QED BY <2>3, <2>4, <2>5 DEF KnowsInv
<1>5. ASSUME NEW t \in Readings, Raise(t) \/ DashboardRestarts(t) PROVE KnowsInv'
  BY <1>1, <1>5 DEF Raise, DashboardRestarts, fwdHistory
<1>6. CASE UNCHANGED forwarderVars
  BY <1>1, <1>6 DEF forwarderVars, fwdHistory
<1> QED BY <1>2, <1>3, <1>4, <1>5, <1>6 DEF ForwarderNext

(* dash-alerts.py: on a failed send "the next run retries the same edges   *)
(* rather than dropping them", for any conditions, ranks and limits.       *)
THEOREM ForwarderRecipient == ForwarderSpec => []RecipientKnows
<1>1. KnowsInv => RecipientKnows
  <2> SUFFICES ASSUME KnowsInv, ~doubtful
               PROVE  /\ belief = [on |-> DOMAIN fwd.open, dark |-> fwd.down,
                                   stalled |-> fwd.stall]
                      /\ misses >= DownTrip => belief.dark \/ unsent
    BY DEF RecipientKnows
  <2>1. belief = [on |-> DOMAIN fwd.open, dark |-> fwd.down, stalled |-> fwd.stall]
        /\ (misses >= DownTrip => fwd.down \/ unsent)
    BY DEF KnowsInv
  <2>2. belief.dark = fwd.down
    BY <2>1
  <2> QED BY <2>1, <2>2, Zenon
<1> QED
  BY <1>1, ForwarderInitInv, ForwarderTypesHold, KnowsHolds, PTL DEF ForwarderSpec


-----------------------------------------------------------------------------
(* A run that was given all of the log speaks of everything that is owed,  *)
(* unless it is on for the recipient or was spoken of within the cooldown. *)
LEMMA OwedIsSpoken ==
    ASSUME ForwarderTypeInv, KnowsInv, NEW t \in Readings, RunSaved(t), ~doubtful,
           Len(rows) <= RowLimit, NEW k, NEW r \in ToSet(rows), r.key = k, PushesRaise(r)
    PROVE  SpokenFor(k, t)
<1> DEFINE st == Loaded(t)
           raised == {i \in Fetched : /\ rows[i].state = "raised"
                                      /\ rows[i].key \notin DOMAIN Notified \cup DOMAIN st.open}
           first == rows[Min({i \in raised : rows[i].key = k})]
           gone == CameAndWent(st, t)
           on == NowOn(st, t)
<1>1. /\ st.open = fwd.open /\ st.last = fwd.last
      /\ belief.on = DOMAIN fwd.open /\ spoken = fwd.last
      /\ t \in Nat /\ AnnounceEvery \in Nat
  <2>1. t \in Nat
    BY GapsAssumption DEF Readings, ForwarderTypeInv
  <2>2. belief = [on |-> DOMAIN fwd.open, dark |-> fwd.down, stalled |-> fwd.stall]
        /\ spoken = fwd.last
    BY DEF KnowsInv
  <2> QED BY <2>1, <2>2, LoadedIs, ForwarderAssumption
<1>2. PICK i \in Fetched : rows[i] = r
  <2>1. rows \in Seq(LogRows) /\ Len(rows) \in Nat /\ RowLimit \in Nat
    BY ForwarderAssumption DEF ForwarderTypeInv
  <2>2. PICK i \in 1 .. Len(rows) : rows[i] = r
    BY <2>1 DEF ToSet
  <2>3. EventsSince = 1 .. Len(rows)
    <3> DEFINE two == {Len(rows), RowLimit}
    <3>1. Len(rows) \in two /\ \A y \in two : Len(rows) <= y
      BY <2>1
    <3>2. \A x \in two : (\A y \in two : x <= y) => x = Len(rows)
      BY <2>1
    <3>3. Min(two) = Len(rows)
      <4> HIDE DEF two
      <4> QED BY <3>1, <3>2 DEF Min
    <3> QED BY <3>3 DEF EventsSince
  <2> QED BY <2>2, <2>3 DEF Fetched, PushesRaise
<1>3. \A j \in gone \cup on : j \in DOMAIN spoken' /\ spoken'[j] = t
  BY RunSavedKnows
<1>4. k \in gone \cup on => SpokenFor(k, t)
  <2> HIDE DEF gone, on
  <2> QED BY <1>3 DEF SpokenFor
<1>5. ASSUME NEW rank, ~MayTell(st, k, rank, t), k \notin gone \cup on PROVE SpokenFor(k, t)
  <2>1. k \in DOMAIN spoken /\ ~(t - spoken[k] >= AnnounceEvery)
    <3> HIDE DEF st
    <3> QED BY <1>1, <1>5 DEF MayTell
  <2>2. spoken[k] \in Nat
    BY <1>1, <2>1 DEF ForwarderTypeInv, Dated
  <2>3. k \in DOMAIN spoken' /\ spoken'[k] = spoken[k]
    BY <1>5, <2>1, RunSavedKnows
  <2> QED BY <1>1, <2>1, <2>2, <2>3 DEF SpokenFor
<1>6. CASE k \in DOMAIN fwd.open
  BY <1>1, <1>6 DEF SpokenFor
<1>7. CASE k \notin DOMAIN fwd.open /\ k \in DOMAIN Notified
  <2>1. MayTell(st, k, Notified[k], t) => k \in on
    <3> HIDE DEF st
    <3> QED BY <1>1, <1>7 DEF NowOn
  <2> QED BY <1>4, <1>5, <2>1
<1>8. CASE k \notin DOMAIN fwd.open /\ k \notin DOMAIN Notified
  <2>1. i \in raised /\ rows[i].key = k
    <3> HIDE DEF st
    <3> QED BY <1>1, <1>2, <1>8 DEF PushesRaise
  <2>2. MayTell(st, k, first.rank, t) => k \in gone
    <3> HIDE DEF st
    <3>1. k \in {rows[j].key : j \in raised}
      BY <2>1
    <3>2. gone = {j \in {rows[x].key : x \in raised} :
                     MayTell(st, j, rows[Min({x \in raised : rows[x].key = j})].rank, t)}
      BY DEF CameAndWent
    <3> HIDE DEF raised, gone
    <3> QED BY <3>1, <3>2
  <2> HIDE DEF first, st, gone, on
  <2> QED BY <1>4, <1>5, <2>2
<1> QED BY <1>6, <1>7, <1>8

LEMMA OwedHolds ==
    ForwarderTypeInv /\ KnowsInv /\ OwedInv /\ [ForwarderNext]_forwarderVars => OwedInv'
<1> SUFFICES ASSUME ForwarderTypeInv, KnowsInv, OwedInv, [ForwarderNext]_forwarderVars
             PROVE  OwedInv'
  OBVIOUS
<1>1. CASE UNCHANGED <<rows, owed, missed, cut>> /\ (doubtful => doubtful')
  BY <1>1 DEF OwedInv, ShortLogIsDelivered, PushesRaise
<1>2. ASSUME NEW t \in Readings, Raise(t) PROVE OwedInv'
  <2>1. PICK shows \in Shows :
           /\ rows' = IF fwd.known THEN rows \o Rows(t, alerts, shows) ELSE <<>>
           /\ owed' = IF fwd.known
                      THEN owed \cup {r.key : r \in {x \in ToSet(Rows(t, alerts, shows)) :
                                                       PushesRaise(x)}}
                      ELSE {}
    BY <1>2 DEF Raise
  <2>2. cut' = cut /\ missed' = missed /\ doubtful' = doubtful
    BY <1>2 DEF Raise
  <2>3. ASSUME ~cut, NEW k \in owed'
        PROVE  \E r \in ToSet(rows') : r.key = k /\ PushesRaise(r)
    <3> DEFINE new == Rows(t, alerts, shows)
    <3>1. rows \in Seq(LogRows) /\ new \in Seq(LogRows)
      <4>1. t \in Nat
        BY GapsAssumption DEF Readings, ForwarderTypeInv
      <4> QED BY <4>1, RowsAreLogRows DEF ForwarderTypeInv
    <3>2. fwd.known
      BY <2>1, <2>3
    <3>3. ToSet(rows') = ToSet(rows) \cup ToSet(new)
      <4>1. rows' = rows \o new
        BY <2>1, <3>2
      <4> HIDE DEF new
      <4> QED BY <3>1, <4>1, ToSetOfConcat
    <3>4. CASE k \in owed
      BY <2>3, <3>3, <3>4 DEF OwedInv
    <3>5. CASE k \notin owed
      <4>1. k \in {r.key : r \in {x \in ToSet(new) : PushesRaise(x)}}
        BY <2>1, <2>3, <3>2, <3>5
      <4> HIDE DEF new
      <4> QED BY <3>3, <4>1
    <3> QED BY <3>4, <3>5
  <2> QED BY <2>2, <2>3 DEF OwedInv, ShortLogIsDelivered, PushesRaise
<1>3. ASSUME NEW t \in Readings, RunSaved(t) PROVE OwedInv'
  <2>1. /\ cut' = (cut \/ Len(rows) > RowLimit)
        /\ owed' = {k \in owed : StillToCome(k)}
        /\ missed' = {k \in owed \ owed' : ~SpokenFor(k, t)}
        /\ doubtful' = doubtful
    BY <1>3 DEF RunSaved
  <2>2. \A k \in owed' : \E r \in ToSet(rows') : r.key = k /\ PushesRaise(r)
    BY <2>1 DEF StillToCome
  <2>3. ASSUME ~cut', ~doubtful', NEW k \in missed' PROVE FALSE
    <3>1. k \in owed /\ ~cut /\ ~(Len(rows) > RowLimit) /\ ~SpokenFor(k, t) /\ ~doubtful
      BY <2>1, <2>3
    <3>2. PICK r \in ToSet(rows) : r.key = k /\ PushesRaise(r)
      BY <3>1 DEF OwedInv
    <3>3. Len(rows) <= RowLimit
      <4>1. rows \in Seq(LogRows) /\ RowLimit \in Nat
        BY ForwarderAssumption DEF ForwarderTypeInv
      <4>2. Len(rows) \in Nat
        BY <4>1
      <4> QED BY <3>1, <4>1, <4>2
    <3> QED BY <1>3, <3>1, <3>2, <3>3, OwedIsSpoken
  <2> QED BY <2>2, <2>3 DEF OwedInv, ShortLogIsDelivered, PushesRaise
<1>4. ASSUME NEW t \in Readings,
             RunFails(t) \/ FetchFails(t) \/ DashboardRestarts(t)
      PROVE  OwedInv'
  BY <1>1, <1>4 DEF RunFails, FetchFails, DashboardRestarts, dashVars, fwdHistory
<1>5. CASE UNCHANGED forwarderVars
  BY <1>1, <1>5 DEF forwarderVars, dashVars, fwdHistory
<1> QED BY <1>2, <1>3, <1>4, <1>5 DEF ForwarderNext

(* api.py: "a condition that came and went between two polls is still      *)
(* delivered", as long as no answer was cut short, for any conditions,     *)
(* ranks and limits.                                                       *)
THEOREM ForwarderDelivers == ForwarderSpec => []ShortLogIsDelivered
<1>1. OwedInv => ShortLogIsDelivered
  BY DEF OwedInv
<1> QED
  BY <1>1, ForwarderInitInv, ForwarderTypesHold, KnowsHolds, OwedHolds, PTL
  DEF ForwarderSpec

==============================================================================
