----------------------------- MODULE TickStream ------------------------------
(***************************************************************************)
(* The live stream: a poll makes its snapshot current (Monitor._publish)   *)
(* and sends every registered client a tick (broadcast_tick) without the   *)
(* sections that client already holds (slim_snapshot); a new client is     *)
(* first sent the whole state and registered after (api.ws_endpoint); the  *)
(* page puts the left-out sections back from what it shows (data.js,       *)
(* mergeKept).                                                             *)
(*                                                                         *)
(* All of the server runs on one event loop: another coroutine runs only   *)
(* where one awaits a send, so each action below is what happens between   *)
(* two awaits.  A digest stands for the section's content: sections that   *)
(* differ are taken to have different digests.                             *)
(***************************************************************************)
EXTENDS Naturals, SequencesExt

CONSTANTS
    Sections,    \* the slimmable sections (snapshot.SLIM_PATHS)
    Contents,    \* what a section can hold
    Absent,      \* a section the snapshot does not have
    Snapshots,   \* the snapshots a poll may make
    Pages,       \* the pages that are open
    Sockets,     \* the connections they may make, each used once
    LivePoints,  \* config.LIVE_POINTS: the points the server keeps
    MaxTick      \* bound of the model: polls

(* A page that is not connected. *)
NoSocket == "none"

ASSUME StreamAssumption ==
    /\ Absent \notin Contents
    /\ Snapshots \subseteq [Sections -> Contents \cup {Absent}]
    /\ LivePoints \in Nat \ {0}
    /\ MaxTick \in Nat
    /\ NoSocket \notin Sockets

VARIABLES
    \* The server.
    tick,       \* Monitor.tick, which numbers the snapshots and the points
    snapshot,   \* Monitor.snapshot: section |-> content or Absent
    clients,    \* Monitor.clients: socket |-> the sections it holds
    handler,    \* socket |-> where its ws_endpoint is, and the init it read
    broadcast,  \* the ticks still to send of the poll's broadcast
    \* The network and the pages.
    chan,       \* socket |-> messages on their way
    alive,      \* the sockets that are connected
    page,       \* page |-> its socket, the points and the snapshot it shows
    \* History.
    snaps       \* every snapshot, by tick + 1

serverVars == <<tick, snapshot, clients, handler, broadcast, snaps>>
pageVars == <<chan, alive, page>>
vars == <<serverVars, pageVars>>

Booting == [s \in Sections |-> Absent]

NotSending == [socket |-> NoSocket, msg |-> <<>>]

(* Polls are numbered, and so are the points they record: the newest n of  *)
(* the points recorded by poll t, oldest first.                            *)
Newest(n, t) ==
    LET many == IF n <= t THEN n ELSE t
    IN  [i \in 1 .. many |-> t - many + i]

(* The page drops from the front the points too old for its live window.   *)
Trimmed(points, t) ==
    LET old == {i \in DOMAIN points : \A j \in 1 .. i : points[j] + LivePoints <= t}
    IN  SubSeq(points, Cardinality(old) + 1, Len(points))

-----------------------------------------------------------------------------
(* Mutant: a section both have is left out, whatever it holds. *)
KeptUnchecked(snap, known) == {s \in Sections : snap[s] # Absent /\ known[s] # Absent}

(* slim_snapshot: the sections of the snapshot that the client does not    *)
(* hold, and the names of those it does.                                   *)
Kept(snap, known) == {s \in Sections : snap[s] # Absent /\ known[s] = snap[s]}

TickMessage(known) ==
    LET kept == Kept(snapshot, known)
    IN  [type |-> "tick", tick |-> tick, points |-> <<tick>>,
         snap |-> [s \in Sections \ kept |-> snapshot[s]], kept |-> kept]

InitMessage ==
    [type |-> "init", tick |-> tick, points |-> Newest(LivePoints, tick),
     snap |-> snapshot, kept |-> {}]

(* mergeKept: the sections left out carry over from what the page shows. *)
MergeKept(msg, shows) ==
    [s \in Sections |-> IF s \in msg.kept THEN shows[s] ELSE msg.snap[s]]

-----------------------------------------------------------------------------
(* The poll loop.  One poll is current at a time: the next begins when the *)
(* broadcast of this one is done.                                          *)
Publish(snap) ==
    /\ tick < MaxTick
    /\ broadcast.todo = {} /\ broadcast.sending = NotSending
    /\ tick' = tick + 1
    /\ snapshot' = snap
    /\ snaps' = Append(snaps, snap)
    /\ broadcast' = [todo |-> DOMAIN clients, known |-> clients, sending |-> NotSending]
    /\ UNCHANGED <<clients, handler, pageVars>>

(* The next client of the list broadcast_tick took when it began, with     *)
(* what the list says it holds; the send is awaited.                       *)
BeginTick(s) ==
    /\ broadcast.sending = NotSending
    /\ s \in broadcast.todo
    /\ broadcast' = [broadcast EXCEPT
                        !.todo = @ \ {s},
                        !.sending = [socket |-> s, msg |-> TickMessage(broadcast.known[s])]]
    /\ UNCHANGED <<tick, snapshot, clients, handler, snaps, pageVars>>

(* Mutant: the client is put back though it went while the send was awaited. *)
TickSentReadds ==
    LET s == broadcast.sending.socket
    IN  /\ broadcast.sending # NotSending
        /\ chan' = [chan EXCEPT ![s] = IF s \in alive THEN Append(@, broadcast.sending.msg)
                                       ELSE @]
        /\ clients' = [c \in DOMAIN clients \cup {s} |->
                          IF c = s THEN snapshot ELSE clients[c]]
        /\ broadcast' = [broadcast EXCEPT !.sending = NotSending]
        /\ UNCHANGED <<tick, snapshot, handler, snaps, alive, page>>

(* The send is done; the client may have gone while it was awaited. *)
TickSent ==
    LET s == broadcast.sending.socket
    IN  /\ broadcast.sending # NotSending
        /\ chan' = [chan EXCEPT ![s] = IF s \in alive THEN Append(@, broadcast.sending.msg)
                                       ELSE @]
        /\ clients' = [c \in DOMAIN clients |-> IF c = s THEN snapshot ELSE clients[c]]
        /\ broadcast' = [broadcast EXCEPT !.sending = NotSending]
        /\ UNCHANGED <<tick, snapshot, handler, snaps, alive, page>>

Without(f, s) == [c \in DOMAIN f \ {s} |-> f[c]]

(* The send raised: the client is dropped from the list. *)
TickFails ==
    LET s == broadcast.sending.socket
    IN  /\ broadcast.sending # NotSending
        /\ s \notin alive
        /\ clients' = Without(clients, s)
        /\ broadcast' = [broadcast EXCEPT !.sending = NotSending]
        /\ UNCHANGED <<tick, snapshot, handler, snaps, pageVars>>

-----------------------------------------------------------------------------
(* ws_endpoint.  What init says is read at once, and its send awaited. *)
ReadInit(s) ==
    /\ s \in alive
    /\ handler[s].pc = "accepted"
    /\ handler' = [handler EXCEPT
                      ![s] = [pc |-> "sending", msg |-> InitMessage, holds |-> snapshot]]
    /\ UNCHANGED <<tick, snapshot, clients, broadcast, snaps, pageVars>>

(* Mutant: registered with the signatures of the snapshot that is current  *)
(* once the send is done.                                                  *)
InitSentStale(s) ==
    /\ handler[s].pc = "sending"
    /\ s \in alive
    /\ chan' = [chan EXCEPT ![s] = Append(@, handler[s].msg)]
    /\ clients' = [c \in DOMAIN clients \cup {s} |->
                      IF c = s THEN snapshot ELSE clients[c]]
    /\ handler' = [handler EXCEPT ![s].pc = "receiving"]
    /\ UNCHANGED <<tick, snapshot, broadcast, snaps, alive, page>>

(* Sent: the client is registered with the sections it was sent. *)
InitSent(s) ==
    /\ handler[s].pc = "sending"
    /\ s \in alive
    /\ chan' = [chan EXCEPT ![s] = Append(@, handler[s].msg)]
    /\ clients' = [c \in DOMAIN clients \cup {s} |->
                      IF c = s THEN handler[s].holds ELSE clients[c]]
    /\ handler' = [handler EXCEPT ![s].pc = "receiving"]
    /\ UNCHANGED <<tick, snapshot, broadcast, snaps, alive, page>>

(* The connection's end reaches the handler, whatever it was awaiting. *)
HandlerEnds(s) ==
    /\ s \notin alive
    /\ handler[s].pc \in {"accepted", "sending", "receiving"}
    /\ handler' = [handler EXCEPT ![s].pc = "ended"]
    /\ clients' = Without(clients, s)
    /\ UNCHANGED <<tick, snapshot, broadcast, snaps, pageVars>>

-----------------------------------------------------------------------------
(* The page: connect() opens a socket, once the one before it has closed. *)
Connect(p, s) ==
    /\ page[p].socket = NoSocket
    /\ handler[s].pc = "unused"
    /\ handler' = [handler EXCEPT ![s].pc = "accepted"]
    /\ alive' = alive \cup {s}
    /\ page' = [page EXCEPT ![p].socket = s]
    /\ UNCHANGED <<tick, snapshot, clients, broadcast, snaps, chan>>

(* onclose: the connection is lost, with what was on its way. *)
ConnectionLost(p) ==
    LET s == page[p].socket
    IN  /\ s # NoSocket
        /\ alive' = alive \ {s}
        /\ chan' = [chan EXCEPT ![s] = <<>>]
        /\ page' = [page EXCEPT ![p].socket = NoSocket]
        /\ UNCHANGED serverVars

(* Mutant: the points of an init are added to those the page has. *)
ReceiveAppends(p) ==
    LET s == page[p].socket
        msg == Head(chan[s])
    IN  /\ s # NoSocket /\ chan[s] # <<>>
        /\ chan' = [chan EXCEPT ![s] = Tail(@)]
        /\ page' = [page EXCEPT
               ![p].at = msg.tick + 1,
               ![p].shows = MergeKept(msg, page[p].shows),
               ![p].points = Trimmed(@ \o msg.points, msg.tick)]
        /\ UNCHANGED <<serverVars, alive>>

(* onmessage: init replaces what the page shows and its points; a tick is  *)
(* merged into both.                                                       *)
Receive(p) ==
    LET s == page[p].socket
        msg == Head(chan[s])
    IN  /\ s # NoSocket /\ chan[s] # <<>>
        /\ chan' = [chan EXCEPT ![s] = Tail(@)]
        /\ page' = [page EXCEPT
               ![p].at = msg.tick + 1,
               ![p].shows = MergeKept(msg, page[p].shows),
               ![p].points = IF msg.type = "init" THEN msg.points
                             ELSE Trimmed(@ \o msg.points, msg.tick)]
        /\ UNCHANGED <<serverVars, alive>>

Init ==
    /\ tick = 0
    /\ snapshot = Booting
    /\ snaps = <<Booting>>
    /\ clients = <<>>
    /\ handler = [s \in Sockets |-> [pc |-> "unused", msg |-> <<>>, holds |-> Booting]]
    /\ broadcast = [todo |-> {}, known |-> <<>>, sending |-> NotSending]
    /\ chan = [s \in Sockets |-> <<>>]
    /\ alive = {}
    /\ page = [p \in Pages |->
                  [socket |-> NoSocket, at |-> 0, shows |-> Booting, points |-> <<>>]]

Next ==
    \/ \E snap \in Snapshots : Publish(snap)
    \/ TickSent \/ TickFails
    \/ \E s \in Sockets :
          BeginTick(s) \/ ReadInit(s) \/ InitSent(s) \/ HandlerEnds(s)
    \/ \E p \in Pages :
          \/ ConnectionLost(p) \/ Receive(p)
          \/ \E s \in Sockets : Connect(p, s)

Spec == Init /\ [][Next]_vars

-----------------------------------------------------------------------------
Connected(p) == page[p].socket # NoSocket

(* The type invariant; and the server never holds a closed handler's       *)
(* socket as a client.                                                     *)
TypeOK ==
    /\ tick \in 0 .. MaxTick
    /\ snapshot \in Snapshots \cup {Booting}
    /\ DOMAIN clients \subseteq {s \in Sockets : handler[s].pc = "receiving"}
    /\ broadcast.todo \subseteq Sockets
    /\ alive = {page[p].socket : p \in {q \in Pages : Connected(q)}}
    /\ \A p \in Pages : page[p].at \in 0 .. tick + 1

(* The page shows one published snapshot, whole, and never an older one    *)
(* than before.                                                            *)
View == INSTANCE SnapshotView
            WITH Snapshots <- Snapshots \cup {Booting}, Blank <- Booting, published <- snaps,
                 view <- [p \in Pages |-> [at |-> page[p].at, snap |-> page[p].shows]]

ImplementsView == View!Spec

(* A page that has received all that is on its way shows v as the section: *)
(* the last message that brings the section brings v, or no message brings *)
(* it and v is shown already.                                              *)
WillShow(p, section, v) ==
    LET msgs == chan[page[p].socket]
    IN  \/ \E i \in DOMAIN msgs :
              /\ section \notin msgs[i].kept
              /\ msgs[i].snap[section] = v
              /\ \A j \in DOMAIN msgs : i < j => section \in msgs[j].kept
        \/ /\ \A i \in DOMAIN msgs : section \in msgs[i].kept
           /\ page[p].shows[section] = v

(* snapshot.py: "named kept, the page keeps its own copy".  What the       *)
(* server believes a client holds is what the client will show once it has *)
(* received all that was sent to it.                                       *)
HoldsWhatServerBelieves ==
    \A p \in Pages :
        LET s == page[p].socket
        IN  s \in DOMAIN clients /\ broadcast.sending.socket # s
            => \A section \in Sections : WillShow(p, section, clients[s][section])

(* The page draws each point once and in order, whatever reconnects and    *)
(* broadcasts overlap: none a tick brings is one its init had.             *)
PointsInOrder ==
    \A p \in Pages : \A i, j \in DOMAIN page[p].points :
        i < j => page[p].points[i] < page[p].points[j]

(* main.js: on return the init "message carries the whole live buffer, so  *)
(* nothing is lost".  From the first point a page holds to the last, it    *)
(* has every point the server recorded.                                    *)
NoPointLost ==
    \A p \in Pages : \A i \in 2 .. Len(page[p].points) :
        page[p].points[i] <= page[p].points[i - 1] + 1

==============================================================================
