----------------------------- MODULE DocSession -----------------------------
(***************************************************************************)
(* The path of an update through one node: from a client's frame           *)
(* (conn.acceptUpdate) over the session's incoming channel, its loop and   *)
(* the update log of the database to the outbound buffers of the clients   *)
(* (loop, broadcast, enqueue), and the replay a new connection gets        *)
(* (replayYjsInto).  Extends Hub: sessions come and go underneath.         *)
(* Retention (store/retention.go), which takes rows of old updates away,   *)
(* is in History; here nothing is deleted and a replay is of all there is. *)
(*                                                                         *)
(* Updates are numbered in the order clients send them.  The frames put in *)
(* conn.send are kept for ever in stream[c]; the first written[c] of them  *)
(* were written to the socket, the others are in the channel.  The upd     *)
(* field of an ack is history: the code's ack has no payload.              *)
(***************************************************************************)
EXTENDS Hub, Sequences

CONSTANTS
    Writer,       \* connections whose canWrite is true
    NoItem,       \* a loop that has taken nothing from its channel
    MaxUpdates,   \* bound on the updates clients send
    IncomingCap,  \* capacity of docSession.incoming
    OutboundCap,  \* outboundBuffer
    StoreFaults   \* whether the database may fail an append by itself

ASSUME DocSessionAssumption ==
    /\ Writer \subseteq Conn
    /\ MaxUpdates \in Nat
    /\ IncomingCap \in Nat \ {0}
    /\ OutboundCap \in Nat \ {0}
    /\ StoreFaults \in BOOLEAN

VARIABLES
    store,     \* document_updates of the document, in seq order
    incoming,  \* docSession.incoming
    loop,      \* what a session's loop is doing
    stream,    \* the frames put in conn.send
    written,   \* how many of them were written to the socket
    sock,      \* the socket of a connection, as the server sees it
    loaded,    \* what LoadUpdates returned to the handler
    sent       \* updates sent by clients so far

dataVars == <<store, incoming, loop, stream, written, sock, loaded, sent>>
vars == <<hubVars, dataVars>>

Update == 1..MaxUpdates
Item   == [from : Conn, upd : Update]

\* by and ok are history: whose loop ran the insert and what it was told.
Row == [from : Conn, upd : Update, by : Session, ok : BOOLEAN]

Frame == [kind : {"update", "ack"}, upd : Update]
            \cup [kind : {"step1", "readonly"}]

UpdateFrame(u) == [kind |-> "update", upd |-> u]
AckFrame(u)    == [kind |-> "ack", upd |-> u]
Step1Frame     == [kind |-> "step1"]
ReadonlyFrame  == [kind |-> "readonly"]

IdleLoop   == [stage |-> "idle", item |-> NoItem, base |-> 0]
ExitedLoop == [stage |-> "exited", item |-> NoItem, base |-> 0]

TypeOK ==
    /\ HubTypeOK
    /\ store \in Seq(Row)
    /\ incoming \in [Session -> Seq(Item)]
    /\ loop \in [Session ->
                    [stage : {"idle", "appending", "persisted", "exited"},
                     item : Item \cup {NoItem}, base : Nat]]
    /\ stream \in [Conn -> Seq(Frame)]
    /\ written \in [Conn -> Nat]
    /\ sock \in [Conn -> {"open", "closed"}]
    /\ loaded \in [Conn -> Seq(Update) \cup {NoItem}]
    /\ sent \in 0..MaxUpdates
    /\ \A s \in Session : Len(incoming[s]) <= IncomingCap
    /\ \A c \in Conn : /\ written[c] <= Len(stream[c])
                       /\ Len(stream[c]) - written[c] <= OutboundCap

Init ==
    /\ HubInit
    /\ store = <<>>
    /\ incoming = [s \in Session |-> <<>>]
    /\ loop = [s \in Session |-> IdleLoop]
    /\ stream = [c \in Conn |-> <<>>]
    /\ written = [c \in Conn |-> 0]
    /\ sock = [c \in Conn |-> "open"]
    /\ loaded = [c \in Conn |-> NoItem]
    /\ sent = 0

(***************************************************************************)
(* conn.enqueue: a full buffer drops the frame and closes the socket with  *)
(* RESYNC.  Enqueue(fs) gives the frames of fs[c] to every c, in order.    *)
(***************************************************************************)
Room(c) == OutboundCap - (Len(stream[c]) - written[c])

Enqueue(fs) ==
    /\ stream' = [c \in Conn |->
                    IF Len(fs[c]) <= Room(c) THEN stream[c] \o fs[c]
                    ELSE stream[c] \o SubSeq(fs[c], 1, Room(c))]
    /\ sock' = [c \in Conn |->
                    IF Len(fs[c]) <= Room(c) THEN sock[c] ELSE "closed"]

EnqueueTo(c, f) == Enqueue([d \in Conn |-> IF d = c THEN f ELSE <<>>])

(***************************************************************************)
(* The handler between join and pumps.                                     *)
(***************************************************************************)
LoadBeforeJoin(c) ==
    /\ pc[c] = "authorizing"
    /\ loaded[c] = NoItem
    /\ loaded' = [loaded EXCEPT ![c] = [i \in DOMAIN store |-> store[i].upd]]
    /\ UNCHANGED <<hubVars, store, incoming, loop, stream, written, sock, sent>>

LoadUpdates(c) ==
    /\ pc[c] = "joined"
    /\ loaded[c] = NoItem
    /\ loaded' = [loaded EXCEPT ![c] = [i \in DOMAIN store |-> store[i].upd]]
    /\ UNCHANGED <<hubVars, store, incoming, loop, stream, written, sock, sent>>

Replay(c) ==
    /\ loaded[c] # NoItem
    /\ StartPumps(c)
    /\ EnqueueTo(c, [i \in DOMAIN loaded[c] |-> UpdateFrame(loaded[c][i])]
                    \o <<Step1Frame>>
                    \o IF c \in Writer THEN <<>> ELSE <<ReadonlyFrame>>)
    /\ UNCHANGED <<store, incoming, loop, written, loaded, sent>>

(***************************************************************************)
(* The pumps of a connection.                                              *)
(***************************************************************************)
WritePump(c) ==
    /\ pc[c] = "serving" /\ sock[c] = "open"
    /\ written[c] < Len(stream[c])
    /\ written' = [written EXCEPT ![c] = @ + 1]
    /\ UNCHANGED <<hubVars, store, incoming, loop, stream, sock, loaded, sent>>

\* A frame with the next update arrives: conn.acceptUpdate.
Arrives(c) ==
    /\ pc[c] = "serving" /\ sock[c] = "open"
    /\ sent < MaxUpdates
    /\ sent' = sent + 1
    /\ UNCHANGED <<hubVars, store, loop, written, loaded>>

AcceptWithoutLimit(c) ==
    /\ Arrives(c)
    /\ c \in Writer
    /\ incoming' = [incoming EXCEPT ![sessionOf[c]] =
                        Append(@, [from |-> c, upd |-> sent + 1])]
    /\ UNCHANGED <<stream, sock>>

AcceptUpdate(c) ==
    LET s == sessionOf[c] IN
    /\ Arrives(c)
    /\ c \in Writer
    /\ Len(incoming[s]) < IncomingCap
    /\ incoming' = [incoming EXCEPT ![s] =
                        Append(@, [from |-> c, upd |-> sent + 1])]
    /\ UNCHANGED <<stream, sock>>

DropOnFullIncoming(c) ==
    /\ Arrives(c)
    /\ c \in Writer
    /\ Len(incoming[sessionOf[c]]) = IncomingCap
    /\ UNCHANGED <<incoming, stream, sock>>

CloseRateLimited(c) ==
    /\ Arrives(c)
    /\ c \in Writer
    /\ sock' = [sock EXCEPT ![c] = "closed"]
    /\ UNCHANGED <<incoming, stream>>

RefuseReadonly(c) ==
    /\ Arrives(c)
    /\ c \notin Writer
    /\ EnqueueTo(c, <<ReadonlyFrame>>)
    /\ UNCHANGED incoming

(***************************************************************************)
(* docSession.loop.  AppendUpdate is one statement that reads MAX(seq) and *)
(* inserts the next number; two of them for one document collide on the    *)
(* primary key if the second one read before the first one committed.      *)
(***************************************************************************)
LoopTakes(s) ==
    /\ loop[s].stage = "idle"
    /\ incoming[s] # <<>>
    /\ loop' = [loop EXCEPT ![s] = [stage |-> "appending",
                                    item |-> Head(incoming[s]),
                                    base |-> Len(store)]]
    /\ incoming' = [incoming EXCEPT ![s] = Tail(@)]
    /\ UNCHANGED <<hubVars, store, stream, written, sock, loaded, sent>>

RowOf(s, ok) == [from |-> loop[s].item.from, upd |-> loop[s].item.upd,
                 by |-> s, ok |-> ok]

AppendOverwrites(s) ==
    /\ loop[s].stage = "appending"
    /\ store' = Append(SubSeq(store, 1, loop[s].base), RowOf(s, TRUE))
                    \o SubSeq(store, loop[s].base + 2, Len(store))
    /\ loop' = [loop EXCEPT ![s].stage = "persisted"]
    /\ UNCHANGED <<hubVars, incoming, stream, written, sock, loaded, sent>>

AppendCommits(s) ==
    /\ loop[s].stage = "appending"
    /\ loop[s].base = Len(store)
    /\ store' = Append(store, RowOf(s, TRUE))
    /\ loop' = [loop EXCEPT ![s].stage = "persisted"]
    /\ UNCHANGED <<hubVars, incoming, stream, written, sock, loaded, sent>>

AppendFailsFallingThrough(s) ==
    /\ loop[s].stage = "appending"
    /\ loop[s].base # Len(store) \/ StoreFaults
    /\ loop' = [loop EXCEPT ![s].stage = "persisted"]
    /\ UNCHANGED <<hubVars, store, incoming, stream, written, sock, loaded, sent>>

\* The error branch: log and continue, no ack and no broadcast.
AppendFails(s) ==
    /\ loop[s].stage = "appending"
    /\ loop[s].base # Len(store) \/ StoreFaults
    /\ loop' = [loop EXCEPT ![s] = IdleLoop]
    /\ UNCHANGED <<hubVars, store, incoming, stream, written, sock, loaded, sent>>

\* The insert commits and the 5 s timeout or the connection hides it.
AppendCommitsUnseen(s) ==
    /\ loop[s].stage = "appending"
    /\ loop[s].base = Len(store)
    /\ StoreFaults
    /\ store' = Append(store, RowOf(s, FALSE))
    /\ loop' = [loop EXCEPT ![s] = IdleLoop]
    /\ UNCHANGED <<hubVars, incoming, stream, written, sock, loaded, sent>>

FanOutWithoutAck(s) ==
    LET from == loop[s].item.from
        upd  == loop[s].item.upd
    IN  /\ loop[s].stage = "persisted"
        /\ Enqueue([c \in Conn |-> IF c \in clients[s] \ {from}
                                    THEN <<UpdateFrame(upd)>> ELSE <<>>])
        /\ loop' = [loop EXCEPT ![s] = IdleLoop]
        /\ UNCHANGED <<hubVars, store, incoming, written, loaded, sent>>

\* Ack to the origin (even if it left), then broadcast to the others.
FanOut(s) ==
    LET from == loop[s].item.from
        upd  == loop[s].item.upd
    IN  /\ loop[s].stage = "persisted"
        /\ Enqueue([c \in Conn |->
                IF c = from THEN <<AckFrame(upd)>>
                ELSE IF c \in clients[s] THEN <<UpdateFrame(upd)>> ELSE <<>>])
        /\ loop' = [loop EXCEPT ![s] = IdleLoop]
        /\ UNCHANGED <<hubVars, store, incoming, written, loaded, sent>>

\* select picks among its ready cases: what is queued may be left behind.
LoopExits(s) ==
    /\ loop[s].stage = "idle"
    /\ status[s] = "closed"
    /\ loop' = [loop EXCEPT ![s] = ExitedLoop]
    /\ UNCHANGED <<hubVars, store, incoming, stream, written, sock, loaded, sent>>

(***************************************************************************)
(* The steps of Hub: most leave the data alone.                            *)
(***************************************************************************)
LoseMemory ==
    /\ incoming' = [s \in Session |-> <<>>]
    /\ loop' = [s \in Session |->
                    IF status[s] = "unused" THEN IdleLoop ELSE ExitedLoop]
    /\ stream' = [c \in Conn |-> SubSeq(stream[c], 1, written[c])]
    /\ sock' = [c \in Conn |-> IF pc[c] = "idle" THEN "open" ELSE "closed"]
    /\ loaded' = [c \in Conn |-> NoItem]
    /\ UNCHANGED <<store, written, sent>>

Disconnect(c) ==
    /\ ReadPumpEnds(c)
    /\ sock' = [sock EXCEPT ![c] = "closed"]
    /\ UNCHANGED <<store, incoming, loop, stream, written, loaded, sent>>

HubStep(c) ==
    /\ \/ Acquire(c) \/ Refuse(c) \/ Reject(c) \/ Join(c)
       \/ loaded[c] = NoItem /\ LoadFails(c)
       \/ DetachBusy(c) \/ DetachLast(c) \/ DetachAgainInHandler(c)
       \/ Release(c)
    /\ UNCHANGED dataVars

Restart ==
    /\ ProcessRestarts \/ \E c \in Conn : DetachAgainInPump(c)
    /\ LoseMemory

LoopStep(s) ==
    \/ LoopTakes(s) \/ AppendCommits(s) \/ AppendFails(s)
    \/ AppendCommitsUnseen(s) \/ FanOut(s)

Next ==
    \/ \E c \in Conn :
        \/ HubStep(c) \/ Disconnect(c)
        \/ LoadUpdates(c) \/ Replay(c) \/ WritePump(c)
        \/ AcceptUpdate(c) \/ DropOnFullIncoming(c)
        \/ CloseRateLimited(c) \/ RefuseReadonly(c)
    \/ \E s \in Session : LoopStep(s) \/ LoopExits(s)
    \/ Restart

Spec == Init /\ [][Next]_vars

\* The loop goroutine and the write pump are always runnable, and a database
\* call ends within its 5 s timeout one way or the other.
FairSpec ==
    /\ Spec
    /\ \A s \in Session : WF_vars(LoopStep(s))
    /\ \A c \in Conn : WF_vars(WritePump(c))
-----------------------------------------------------------------------------
Durable == {store[i].upd : i \in DOMAIN store}

\* The updates among the first n frames put in a connection's buffer.
UpdatesUpTo(c, n) ==
    {stream[c][i].upd : i \in {j \in 1..n : stream[c][j].kind = "update"}}

\* What the socket of a connection has carried.
Told(c) ==
    {stream[c][i].upd :
        i \in {j \in 1..written[c] : stream[c][j].kind \in {"update", "ack"}}}

\* The whole node, through faults, overflows and restarts, keeps the promise
\* of DurableLog, until retention deletes rows (retention.go 96-136).
Durability == INSTANCE DurableLog
    WITH Client <- Conn,
         log    <- [i \in DOMAIN store |-> store[i].upd],
         told   <- [c \in Conn |-> Told(c)]

KeepsDurableLog == Durability!Spec

\* A client hears of an update, by broadcast, replay or ack, only when it is
\* in the database, whatever fails or restarts in between.
NothingBeforeDurable ==
    \A c \in Conn : \A i \in DOMAIN stream[c] :
        stream[c][i].kind \in {"update", "ack"} => stream[c][i].upd \in Durable

\* A connection registers before it loads the history, so between the two no
\* update its own session persists can slip through: it is in the replay, in
\* the buffer, or about to be fanned out, unless the socket was closed.
FanOutReachesAll ==
    \A c \in Conn, i \in DOMAIN store :
        LET s == sessionOf[c] IN
        (/\ pc[c] = "serving" \/ (pc[c] = "joined" /\ loaded[c] # NoItem)
         /\ sock[c] = "open"
         /\ store[i].by = s /\ store[i].ok /\ store[i].from # c)
        => \/ store[i].upd \in UpdatesUpTo(c, Len(stream[c]))
           \/ pc[c] = "joined" /\ \E j \in DOMAIN loaded[c] : loaded[c][j] = store[i].upd
           \/ loop[s].stage = "persisted" /\ loop[s].item.upd = store[i].upd

\* An update queued by a client that stays connected is acked, if the
\* database works and no second loop runs for the document.
Queued(c, s, u) == \E i \in DOMAIN incoming[s] : incoming[s][i] = [from |-> c, upd |-> u]
Acked(c, u) == \E i \in DOMAIN stream[c] : stream[c][i] = AckFrame(u)
RunsLoop(s) == status[s] # "unused" /\ loop[s].stage # "exited"

QueuedIsAcked ==
    \A c \in Conn, s \in Session, u \in Update :
        Queued(c, s, u) ~>
            \/ Acked(c, u)
            \/ pc[c] # "serving" \/ sock[c] = "closed"
            \/ \E t \in Session \ {s} : RunsLoop(t)

\* What the contract of replayYjsInto says of a client it has turned live:
\* its document is caught up with what the server has persisted, but for
\* frames still in its buffer or in its session's loop.
LiveIsCaughtUp ==
    \A c \in Conn, i \in DOMAIN store :
        (/\ pc[c] = "serving" /\ sock[c] = "open" /\ store[i].from # c
         /\ loop[sessionOf[c]].stage = "idle")
        => store[i].upd \in UpdatesUpTo(c, Len(stream[c]))
=============================================================================
