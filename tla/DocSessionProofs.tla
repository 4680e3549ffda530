-------------------------- MODULE DocSessionProofs --------------------------
(***************************************************************************)
(* Proofs about DocSession, for any connections, sessions, capacities and  *)
(* number of updates, whatever fails or restarts: types with the           *)
(* capacities of the channels; nothing is sent to a client that is not in  *)
(* the database; to the clients, all of it looks like DurableLog, one log  *)
(* that grows and is told of; and the fan-out of a session misses nobody.  *)
(***************************************************************************)
EXTENDS DocSession, HubProofs, SequenceTheorems

\* A frame that tells a client only of what the set D contains.
TellsOf(D) == {f \in Frame : f.kind \in {"update", "ack"} => f.upd \in D}

\* The frames in a buffer, what was loaded for a replay and what a loop is
\* about to fan out are all in the log: the three places an update comes from.
BuffersAreDurable == stream \in [Conn -> Seq(TellsOf(Durable))]
LoadsAreDurable   == loaded \in [Conn -> Seq(Durable) \cup {NoItem}]
FanOutIsDurable   ==
    \A s \in Session : loop[s].stage = "persisted" => loop[s].item.upd \in Durable

LogTypeOK == store \in Seq(Row)

LoopTypeOK ==
    /\ loop \in [Session ->
                    [stage : {"idle", "appending", "persisted", "exited"},
                     item : Item \cup {NoItem}, base : Nat]]
    /\ \A s \in Session :
          loop[s].stage \in {"appending", "persisted"} => loop[s].item \in Item

ChannelTypeOK ==
    /\ incoming \in [Session -> Seq(Item)]
    /\ \A s \in Session : Len(incoming[s]) <= IncomingCap
    /\ sent \in 0..MaxUpdates

BufferTypeOK ==
    /\ written \in [Conn -> Nat]
    /\ sock \in [Conn -> {"open", "closed"}]
    /\ \A c \in Conn : /\ written[c] <= Len(stream[c])
                       /\ Len(stream[c]) - written[c] <= OutboundCap

DataInv ==
    /\ LogTypeOK /\ LoopTypeOK /\ ChannelTypeOK /\ BufferTypeOK
    /\ BuffersAreDurable /\ LoadsAreDurable /\ FanOutIsDurable

\* What a socket has carried is never taken back.
WrittenStays ==
    /\ UNCHANGED written
    /\ \A c \in Conn : \A i \in 1..written[c] : stream'[c][i] = stream[c][i]
OnlyPumpsWrite == WrittenStays \/ \E c \in Conn : WritePump(c)

USE DocSessionAssumption

(***************************************************************************)
(* The hub underneath: a step of DocSession is one of Hub or leaves it.    *)
(***************************************************************************)
LEMMA DocSpecImpliesHubSpec == Spec => HubSpec
<1>1. Init => HubInit
  BY DEF Init
<1>2. [Next]_vars => [HubNext]_hubVars
  <2>. SUFFICES ASSUME [Next]_vars PROVE [HubNext]_hubVars
    OBVIOUS
  <2>1. CASE UNCHANGED vars
    BY <2>1 DEF vars
  <2>2. ASSUME NEW c \in Conn,
               \/ HubStep(c) \/ Disconnect(c) \/ LoadUpdates(c) \/ Replay(c)
               \/ WritePump(c) \/ AcceptUpdate(c) \/ DropOnFullIncoming(c)
               \/ CloseRateLimited(c) \/ RefuseReadonly(c)
        PROVE  [HubNext]_hubVars
    BY <2>2 DEF HubStep, Disconnect, LoadUpdates, Replay, WritePump, AcceptUpdate,
                DropOnFullIncoming, CloseRateLimited, RefuseReadonly, Arrives, HubNext, Leave
  <2>3. ASSUME NEW s \in Session, LoopStep(s) \/ LoopExits(s)
        PROVE  [HubNext]_hubVars
    BY <2>3 DEF LoopStep, LoopExits, LoopTakes, AppendCommits, AppendFails,
                AppendCommitsUnseen, FanOut
  <2>4. CASE Restart
    BY <2>4 DEF Restart, HubNext, Leave
  <2>. QED  BY <2>1, <2>2, <2>3, <2>4 DEF Next
<1>. QED  BY <1>1, <1>2, PTL DEF Spec, HubSpec

(***************************************************************************)
(* Operators.                                                              *)
(***************************************************************************)
\* The log holds updates; an insert adds its own.
LEMMA DurableIsUpdates ==
    LogTypeOK => /\ Durable \subseteq Update
                 /\ \A r \in Row : store' = Append(store, r)
                                  => LogTypeOK' /\ Durable' = Durable \cup {r.upd}
<1>. SUFFICES ASSUME LogTypeOK
              PROVE  /\ Durable \subseteq Update
                     /\ \A r \in Row : store' = Append(store, r)
                                      => LogTypeOK' /\ Durable' = Durable \cup {r.upd}
  OBVIOUS
<1>1. ASSUME NEW i \in DOMAIN store PROVE store[i].upd \in Update
  <2>1. i \in 1..Len(store)
    BY LenProperties DEF LogTypeOK
  <2>2. store[i] \in Row
    BY <2>1, ElementOfSeq DEF LogTypeOK
  <2>. QED  BY <2>2 DEF Row
<1>2. ASSUME NEW r \in Row, store' = Append(store, r)
      PROVE  LogTypeOK' /\ Durable' = Durable \cup {r.upd}
  <2>1. /\ store' \in Seq(Row) /\ Len(store') = Len(store) + 1
        /\ \A i \in 1..Len(store) : store'[i] = store[i]
        /\ store'[Len(store) + 1] = r
    BY <1>2 DEF LogTypeOK
  <2>2. DOMAIN store = 1..Len(store) /\ DOMAIN store' = 1..(Len(store) + 1) /\ Len(store) \in Nat
    BY <2>1, LenProperties DEF LogTypeOK
  <2>3. 1..(Len(store) + 1) = (1..Len(store)) \cup {Len(store) + 1}
    BY <2>2
  <2>. QED  BY <2>1, <2>2, <2>3 DEF LogTypeOK, Durable
<1>. QED  BY <1>1, <1>2 DEF Durable

(***************************************************************************)
(* Theorems.                                                               *)
(***************************************************************************)
\* The inductive invariant of a node's data; and what is written on a socket only
\* changes when the write pump writes (conn.go writePump).
THEOREM DataInvariant == Spec => /\ [](HubInv /\ DataInv)
                                 /\ [][OnlyPumpsWrite]_vars
\* What says nothing of buffers and loads survives a step that leaves both
\* the log and the loops alone.
<1>1. ASSUME DataInv, UNCHANGED <<store, loop>>
      PROVE  LogTypeOK' /\ LoopTypeOK' /\ FanOutIsDurable' /\ Durable' = Durable
  BY <1>1 DEF DataInv, LogTypeOK, LoopTypeOK, FanOutIsDurable, Durable
\* A step that only puts frames that the log justifies in the buffers, and may
\* end a loop's fan-out.
<1>2. ASSUME DataInv, NEW fs, \A c \in Conn : fs[c] \in Seq(TellsOf(Durable)), Enqueue(fs),
             UNCHANGED <<store, incoming, written, loaded>>, sent' \in 0..MaxUpdates,
             LoopTypeOK' /\ FanOutIsDurable'
      PROVE  DataInv' /\ WrittenStays
  <2>. USE <1>2
  <2>1. Durable' = Durable /\ LogTypeOK'
    BY DEF Durable, LogTypeOK, DataInv
  <2>. DEFINE Grown(F) ==
          /\ stream' \in [Conn -> Seq(F)]
          /\ sock' \in [Conn -> {"open", "closed"}]
          /\ \A c \in Conn : /\ written[c] <= Len(stream'[c])
                             /\ Len(stream'[c]) - written[c] <= OutboundCap
                             /\ \A i \in 1..written[c] : stream'[c][i] = stream[c][i]
  \* Whatever frames they are.
  <2>2. ASSUME NEW F, stream \in [Conn -> Seq(F)], \A c \in Conn : fs[c] \in Seq(F)
        PROVE  Grown(F)
    <3>. DEFINE cut(c) == SubSeq(fs[c], 1, Room(c))
    <3>1. ASSUME NEW c \in Conn
          PROVE  /\ stream'[c] \in Seq(F)
                 /\ written[c] <= Len(stream'[c])
                 /\ Len(stream'[c]) - written[c] <= OutboundCap
                 /\ \A i \in 1..written[c] : stream'[c][i] = stream[c][i]
      <4>1. /\ stream[c] \in Seq(F) /\ fs[c] \in Seq(F) /\ Len(stream[c]) \in Nat /\ Len(fs[c]) \in Nat
            /\ written[c] \in Nat /\ Room(c) \in Nat /\ Room(c) = OutboundCap - (Len(stream[c]) - written[c])
            /\ written[c] <= Len(stream[c])
        BY <2>2, LenProperties DEF DataInv, BufferTypeOK, Room
      <4>2. CASE Len(fs[c]) <= Room(c)
        <5>1. stream'[c] = stream[c] \o fs[c]
          BY <4>2 DEF Enqueue
        <5>2. /\ stream[c] \o fs[c] \in Seq(F) /\ Len(stream[c] \o fs[c]) = Len(stream[c]) + Len(fs[c])
              /\ \A i \in 1..Len(stream[c]) : (stream[c] \o fs[c])[i] = stream[c][i]
          <6>1. ASSUME NEW f \in Seq(F), NEW g \in Seq(F)
                PROVE  /\ f \o g \in Seq(F) /\ Len(f \o g) = Len(f) + Len(g)
                       /\ \A i \in 1..Len(f) : (f \o g)[i] = f[i]
            BY ConcatProperties, LenProperties
          <6>. QED  BY <4>1, <6>1
        <5>3. \A i \in 1..written[c] : i \in 1..Len(stream[c])
          BY <4>1
        <5>4. written[c] <= Len(stream'[c]) /\ Len(stream'[c]) - written[c] <= OutboundCap
          <6>1. Len(stream'[c]) = Len(stream[c]) + Len(fs[c])
            BY <5>1, <5>2, Zenon
          <6>2. /\ Len(stream[c]) \in Nat /\ Len(fs[c]) \in Nat /\ written[c] \in Nat
                /\ Room(c) = OutboundCap - (Len(stream[c]) - written[c])
                /\ written[c] <= Len(stream[c]) /\ Len(fs[c]) <= Room(c)
            BY <4>1, <4>2
          <6>3. ASSUME NEW l \in Nat, NEW k \in Nat, NEW w \in Nat,
                       w <= l, k <= OutboundCap - (l - w)
                PROVE  w <= l + k /\ (l + k) - w <= OutboundCap
            BY <6>3 DEF DocSessionAssumption
          <6>4. Len(fs[c]) <= OutboundCap - (Len(stream[c]) - written[c])
            BY <6>2, Zenon
          <6>. QED  BY <6>1, <6>2, <6>3, <6>4, Zenon
        <5>5. stream'[c] \in Seq(F)
          BY <5>1, <5>2, Zenon
        <5>6. \A i \in 1..Len(stream[c]) : stream'[c][i] = stream[c][i]
          BY <5>1, <5>2, Zenon
        <5>. QED  BY <5>3, <5>4, <5>5, <5>6, Zenon
      <4>3. CASE ~(Len(fs[c]) <= Room(c))
        <5>1. stream'[c] = stream[c] \o cut(c)
          BY <4>3 DEF Enqueue
        <5>2. \A i \in 1..Room(c) : fs[c][i] \in F
          BY <4>1, <4>3, ElementOfSeq
        <5>3. cut(c) \in Seq(F) /\ Len(cut(c)) = Room(c)
          BY <4>1, <5>2, SubSeqProperties
        <5>4. /\ stream[c] \o cut(c) \in Seq(F) /\ Len(stream[c] \o cut(c)) = Len(stream[c]) + Room(c)
              /\ \A i \in 1..Len(stream[c]) : (stream[c] \o cut(c))[i] = stream[c][i]
          BY <4>1, <5>3, ConcatProperties
        <5>5. written[c] <= Len(stream'[c]) /\ Len(stream'[c]) - written[c] <= OutboundCap
          <6>1. ASSUME NEW l \in Nat, NEW w \in Nat, w <= l
                PROVE  /\ w <= l + (OutboundCap - (l - w))
                       /\ (l + (OutboundCap - (l - w))) - w <= OutboundCap
            BY <6>1 DEF DocSessionAssumption
          <6>2. Len(stream'[c]) = Len(stream[c]) + (OutboundCap - (Len(stream[c]) - written[c]))
            BY <4>1, <5>1, <5>4, Zenon
          <6>3. Len(stream[c]) \in Nat
            BY <4>1, LenProperties
          <6>. QED  BY <4>1, <6>1, <6>2, <6>3, Zenon
        <5>6. \A i \in 1..written[c] : i \in 1..Len(stream[c])
          BY <4>1
        <5>7. stream'[c] \in Seq(F) /\ \A i \in 1..Len(stream[c]) : stream'[c][i] = stream[c][i]
          BY <5>1, <5>4, Zenon
        <5>. QED  BY <5>5, <5>6, <5>7, Zenon
      <4>. QED  BY <4>2, <4>3
    <3>2. sock' \in [Conn -> {"open", "closed"}]
      BY DEF Enqueue, DataInv, BufferTypeOK
    <3>3. stream' = [c \in Conn |-> stream'[c]]
      BY DEF Enqueue
    <3>. QED  BY <3>1, <3>2, <3>3
  <2>3. Grown(TellsOf(Durable))
    <3>1. stream \in [Conn -> Seq(TellsOf(Durable))]
      BY DEF DataInv, BuffersAreDurable
    <3>. QED  BY <2>2, <3>1
  <2>4. BuffersAreDurable' /\ BufferTypeOK'
    BY <2>1, <2>3 DEF DataInv, BuffersAreDurable, BufferTypeOK
  <2>5. LoadsAreDurable' /\ ChannelTypeOK'
    BY <2>1 DEF DataInv, LoadsAreDurable, ChannelTypeOK
  <2>. QED  BY <2>1, <2>3, <2>4, <2>5 DEF DataInv, WrittenStays
\* Every step keeps the invariant.
<1>3. HubInv /\ DataInv /\ [Next]_vars => DataInv' /\ OnlyPumpsWrite
  <2>. DEFINE Good == DataInv' /\ (WrittenStays \/ \E c \in Conn : WritePump(c))
  <2>. SUFFICES ASSUME HubInv, DataInv, [Next]_vars PROVE Good
    BY DEF OnlyPumpsWrite
  <2>0. ASSUME UNCHANGED <<store, incoming, loop, stream, written, loaded, sent>>,
               sock' \in [Conn -> {"open", "closed"}]
        PROVE  Good
    BY <2>0, <1>1
       DEF DataInv, BufferTypeOK, ChannelTypeOK, BuffersAreDurable, LoadsAreDurable, WrittenStays
  <2>1. ASSUME NEW c \in Conn, HubStep(c) \/ Disconnect(c) PROVE Good
    BY <2>0, <2>1 DEF HubStep, Disconnect, dataVars, DataInv, BufferTypeOK
  \* The history is loaded from the log.
  <2>2. ASSUME NEW c \in Conn, LoadUpdates(c) PROVE Good
    <3>. USE <2>2
    <3>. DEFINE history == [i \in DOMAIN store |-> store[i].upd]
    <3>1. /\ loaded' = [loaded EXCEPT ![c] = history]
          /\ UNCHANGED <<store, incoming, loop, stream, written, sock, sent>>
      BY DEF LoadUpdates
    <3>2. history \in Seq(Durable)
      <4>1. DOMAIN store = 1..Len(store) /\ Len(store) \in Nat
        BY LenProperties DEF DataInv, LogTypeOK
      <4>2. \A i \in 1..Len(store) : store[i].upd \in Durable
        BY <4>1 DEF Durable
      <4>. QED  BY <4>1, <4>2
    <3>3. LoadsAreDurable'
      BY <3>1, <3>2, <1>1 DEF DataInv, LoadsAreDurable
    <3>. QED
      BY <3>1, <3>3, <1>1
         DEF DataInv, ChannelTypeOK, BufferTypeOK, BuffersAreDurable, WrittenStays
  \* The replay: what was loaded, then a step-1 frame and perhaps a readonly.
  <2>3. ASSUME NEW c \in Conn, Replay(c) PROVE Good
    <3>. USE <2>3
    <3>. DEFINE H == TellsOf(Durable)
                old == [i \in DOMAIN loaded[c] |-> UpdateFrame(loaded[c][i])]
                last == IF c \in Writer THEN <<>> ELSE <<ReadonlyFrame>>
                new == old \o <<Step1Frame>> \o last
                fs == [d \in Conn |-> IF d = c THEN new ELSE <<>>]
    <3>1. loaded[c] \in Seq(Durable)
      BY DEF Replay, DataInv, LoadsAreDurable
    <3>2. old \in Seq(H)
      <4>1. DOMAIN loaded[c] = 1..Len(loaded[c]) /\ Len(loaded[c]) \in Nat
        BY <3>1, LenProperties
      <4>2. \A i \in 1..Len(loaded[c]) : loaded[c][i] \in Durable /\ loaded[c][i] \in Update
        BY <3>1, ElementOfSeq, DurableIsUpdates DEF DataInv
      <4>3. \A i \in 1..Len(loaded[c]) : UpdateFrame(loaded[c][i]) \in H
        BY <4>2 DEF UpdateFrame, TellsOf, Frame
      <4>. QED  BY <4>1, <4>3
    <3>3. Step1Frame \in H /\ ReadonlyFrame \in H
      BY DEF Step1Frame, ReadonlyFrame, TellsOf, Frame
    <3>4. <<Step1Frame>> \in Seq(H) /\ last \in Seq(H) /\ <<>> \in Seq(H)
      BY <3>3
    <3>5. new \in Seq(H)
      BY <3>2, <3>4, ConcatProperties
    <3>6. \A d \in Conn : fs[d] \in Seq(H)
      BY <3>4, <3>5
    <3>7. Enqueue(fs) /\ UNCHANGED <<store, incoming, loop, written, loaded, sent>>
      BY DEF Replay, EnqueueTo
    <3>. QED
      BY <3>6, <3>7, <1>2, <1>1 DEF DataInv, ChannelTypeOK
  <2>4. ASSUME NEW c \in Conn,
               \/ WritePump(c) \/ AcceptUpdate(c) \/ DropOnFullIncoming(c) \/ CloseRateLimited(c)
        PROVE  Good
    <3>1. DataInv'
      <4>. USE <2>4
      <4>1. UNCHANGED <<store, loop, stream, loaded>>
        BY DEF WritePump, AcceptUpdate, DropOnFullIncoming, CloseRateLimited, Arrives
      <4>2. BuffersAreDurable' /\ LoadsAreDurable'
        BY <4>1, <1>1 DEF DataInv, BuffersAreDurable, LoadsAreDurable
      <4>3. \A d \in Conn : Len(stream[d]) \in Nat
        BY LenProperties DEF DataInv, BuffersAreDurable
      <4>4. BufferTypeOK'
        <5>1. CASE WritePump(c)
          BY <4>1, <4>3, <5>1 DEF WritePump, DataInv, BufferTypeOK
        <5>2. CASE AcceptUpdate(c) \/ DropOnFullIncoming(c) \/ CloseRateLimited(c)
          BY <4>1, <5>2 DEF AcceptUpdate, DropOnFullIncoming, CloseRateLimited, Arrives, DataInv, BufferTypeOK
        <5>. QED  BY <5>1, <5>2
      <4>5. ChannelTypeOK'
        <5>1. CASE AcceptUpdate(c)
          <6>. DEFINE s == sessionOf[c]
                      x == [from |-> c, upd |-> sent + 1]
          <6>1. s \in Session /\ incoming[s] \in Seq(Item) /\ Len(incoming[s]) \in Nat
            BY <5>1, LenProperties DEF AcceptUpdate, Arrives, HubInv, SessionsAreKnown, DataInv, ChannelTypeOK
          <6>2. x \in Item /\ sent' \in 0..MaxUpdates
            BY <5>1 DEF AcceptUpdate, Arrives, DataInv, ChannelTypeOK, Item, Update
          <6>3. Append(incoming[s], x) \in Seq(Item) /\ Len(Append(incoming[s], x)) = Len(incoming[s]) + 1
            BY <6>1, <6>2
          <6>4. incoming' = [incoming EXCEPT ![s] = Append(@, x)] /\ Len(incoming[s]) < IncomingCap
            BY <5>1 DEF AcceptUpdate
          <6>. QED  BY <6>1, <6>2, <6>3, <6>4 DEF DataInv, ChannelTypeOK
        <5>2. CASE WritePump(c)
          BY <5>2 DEF WritePump, DataInv, ChannelTypeOK
        <5>3. CASE DropOnFullIncoming(c) \/ CloseRateLimited(c)
          BY <5>3 DEF DropOnFullIncoming, CloseRateLimited, Arrives, DataInv, ChannelTypeOK
        <5>. QED  BY <5>1, <5>2, <5>3
      <4>. QED  BY <4>1, <4>2, <4>4, <4>5, <1>1 DEF DataInv
    <3>. QED
      BY <2>4, <3>1 DEF AcceptUpdate, DropOnFullIncoming, CloseRateLimited, Arrives, WrittenStays
  <2>5. ASSUME NEW c \in Conn, RefuseReadonly(c) PROVE Good
    <3>. DEFINE fs == [d \in Conn |-> IF d = c THEN <<ReadonlyFrame>> ELSE <<>>]
    <3>1. ReadonlyFrame \in TellsOf(Durable)
      BY DEF ReadonlyFrame, TellsOf, Frame
    <3>2. \A d \in Conn : fs[d] \in Seq(TellsOf(Durable))
      BY <3>1
    <3>3. Enqueue(fs) /\ UNCHANGED <<store, incoming, loop, written, loaded>>
      BY <2>5 DEF RefuseReadonly, Arrives, EnqueueTo
    <3>4. sent' \in 0..MaxUpdates
      BY <2>5 DEF RefuseReadonly, Arrives, DataInv, ChannelTypeOK
    <3>. QED  BY <3>2, <3>3, <3>4, <1>2, <1>1
  \* The loop takes an update, gives one up, or ends.
  <2>6. ASSUME NEW s \in Session, LoopTakes(s) \/ AppendFails(s) \/ LoopExits(s) PROVE Good
    <3>. USE <2>6
    <3>1. UNCHANGED <<store, stream, written, sock, loaded, sent>>
      BY DEF LoopTakes, AppendFails, LoopExits
    <3>2. LogTypeOK' /\ BufferTypeOK' /\ BuffersAreDurable' /\ LoadsAreDurable' /\ Durable' = Durable
      BY <3>1 DEF DataInv, LogTypeOK, BufferTypeOK, BuffersAreDurable, LoadsAreDurable, Durable
    <3>3. ASSUME LoopTakes(s) PROVE LoopTypeOK' /\ FanOutIsDurable' /\ ChannelTypeOK'
      <4>. DEFINE x == Head(incoming[s])
                  rest == Tail(incoming[s])
      <4>1. incoming[s] \in Seq(Item) /\ incoming[s] # <<>>
        BY <3>3 DEF LoopTakes, DataInv, ChannelTypeOK
      <4>2. x \in Item /\ rest \in Seq(Item) /\ Len(rest) = Len(incoming[s]) - 1 /\ Len(rest) \in Nat
        BY <4>1, HeadTailProperties, LenProperties
      <4>3. Len(store) \in Nat
        BY LenProperties DEF DataInv, LogTypeOK
      <4>4. loop' = [loop EXCEPT ![s] = [stage |-> "appending", item |-> x, base |-> Len(store)]]
        BY <3>3 DEF LoopTakes
      <4>5. LoopTypeOK'
        BY <4>2, <4>3, <4>4 DEF DataInv, LoopTypeOK
      <4>6. FanOutIsDurable'
        BY <3>2, <4>4 DEF DataInv, LoopTypeOK, FanOutIsDurable
      <4>7. incoming' = [incoming EXCEPT ![s] = rest]
        BY <3>3 DEF LoopTakes
      <4>8. ChannelTypeOK'
        BY <3>1, <4>2, <4>7 DEF DataInv, ChannelTypeOK
      <4>. QED  BY <4>5, <4>6, <4>8
    <3>4. ASSUME AppendFails(s) \/ LoopExits(s) PROVE LoopTypeOK' /\ FanOutIsDurable' /\ ChannelTypeOK'
      <4>1. loop' = [loop EXCEPT ![s] = IdleLoop] \/ loop' = [loop EXCEPT ![s] = ExitedLoop]
        BY <3>4 DEF AppendFails, LoopExits
      <4>2. LoopTypeOK'
        BY <4>1 DEF DataInv, LoopTypeOK, IdleLoop, ExitedLoop
      <4>3. FanOutIsDurable'
        BY <3>2, <4>1 DEF DataInv, LoopTypeOK, FanOutIsDurable, IdleLoop, ExitedLoop
      <4>4. ChannelTypeOK'
        BY <3>1, <3>4 DEF AppendFails, LoopExits, DataInv, ChannelTypeOK
      <4>. QED  BY <4>2, <4>3, <4>4
    <3>. QED  BY <3>1, <3>2, <3>3, <3>4 DEF DataInv, WrittenStays
  \* An insert that commits, seen or not: the log has more than before.
  <2>7. ASSUME NEW s \in Session, AppendCommits(s) \/ AppendCommitsUnseen(s) PROVE Good
    <3>. USE <2>7
    <3>. DEFINE u == loop[s].item.upd
    <3>1. PICK ok \in BOOLEAN : store' = Append(store, RowOf(s, ok))
      BY DEF AppendCommits, AppendCommitsUnseen
    <3>2. loop[s].item \in Item
      BY DEF AppendCommits, AppendCommitsUnseen, DataInv, LoopTypeOK
    <3>3. RowOf(s, ok) \in Row /\ RowOf(s, ok).upd = u
      BY <3>2 DEF RowOf, Row, Item
    <3>4. LogTypeOK' /\ Durable' = Durable \cup {u}
      BY <3>1, <3>3, DurableIsUpdates DEF DataInv
    <3>5. UNCHANGED <<incoming, stream, written, sock, loaded, sent>>
      BY DEF AppendCommits, AppendCommitsUnseen
    <3>6. BuffersAreDurable'
      <4>1. TellsOf(Durable) \subseteq TellsOf(Durable')
        BY <3>4 DEF TellsOf
      <4>2. Seq(TellsOf(Durable)) \subseteq Seq(TellsOf(Durable'))
        BY <4>1, SeqMonotonic
      <4>. QED  BY <3>5, <4>2 DEF DataInv, BuffersAreDurable
    <3>7. LoadsAreDurable'
      <4>1. Seq(Durable) \subseteq Seq(Durable')
        BY <3>4, SeqMonotonic
      <4>. QED  BY <3>5, <4>1 DEF DataInv, LoadsAreDurable
    <3>8. PICK d \in [stage : {"idle", "persisted"}, item : Item \cup {NoItem},
                        base : Nat] :
            /\ loop' = [loop EXCEPT ![s] = d]
            /\ d.stage = "persisted" => d.item = loop[s].item
      <4>1. loop \in [Session -> [stage : {"idle", "appending", "persisted", "exited"},
                                 item : Item \cup {NoItem}, base : Nat]]
        BY DEF DataInv, LoopTypeOK
      <4>2. CASE AppendCommits(s)
        <5>. DEFINE d == [loop[s] EXCEPT !.stage = "persisted"]
        <5>1. d \in [stage : {"idle", "persisted"}, item : Item \cup {NoItem},
                    base : Nat] /\ d.item = loop[s].item
          BY <4>1
        <5>2. loop' = [loop EXCEPT ![s] = d]
          BY <4>1, <4>2 DEF AppendCommits
        <5>. QED  BY <5>1, <5>2
      <4>3. CASE AppendCommitsUnseen(s)
        <5>1. /\ IdleLoop \in [stage : {"idle", "persisted"},
                              item : Item \cup {NoItem}, base : Nat]
              /\ IdleLoop.stage # "persisted"
          BY DEF IdleLoop
        <5>2. loop' = [loop EXCEPT ![s] = IdleLoop]
          BY <4>3 DEF AppendCommitsUnseen
        <5>. QED  BY <5>1, <5>2
      <4>. QED  BY <4>2, <4>3
    <3>9. FanOutIsDurable'
      BY <3>4, <3>8 DEF DataInv, FanOutIsDurable
    <3>10. LoopTypeOK'
      BY <3>2, <3>8 DEF DataInv, LoopTypeOK
    <3>11. BufferTypeOK' /\ ChannelTypeOK'
      BY <3>5 DEF DataInv, BufferTypeOK, ChannelTypeOK
    <3>. QED  BY <3>4, <3>5, <3>6, <3>7, <3>9, <3>10, <3>11 DEF DataInv, WrittenStays
  \* The ack to the origin and the broadcast tell of the update just stored.
  <2>8. ASSUME NEW s \in Session, FanOut(s) PROVE Good
    <3>. USE <2>8
    <3>. DEFINE u == loop[s].item.upd
                fs == [c \in Conn |->
                         IF c = loop[s].item.from THEN <<AckFrame(u)>>
                         ELSE IF c \in clients[s] THEN <<UpdateFrame(u)>> ELSE <<>>]
    <3>1. u \in Durable /\ u \in Update
      BY DurableIsUpdates DEF FanOut, DataInv, FanOutIsDurable
    <3>2. AckFrame(u) \in TellsOf(Durable) /\ UpdateFrame(u) \in TellsOf(Durable)
      BY <3>1 DEF AckFrame, UpdateFrame, TellsOf, Frame
    <3>3. \A c \in Conn : fs[c] \in Seq(TellsOf(Durable))
      BY <3>2
    <3>4. /\ Enqueue(fs) /\ loop' = [loop EXCEPT ![s] = IdleLoop]
          /\ UNCHANGED <<store, incoming, written, loaded, sent>>
      BY DEF FanOut
    <3>5. LoopTypeOK'
      BY <3>4 DEF DataInv, LoopTypeOK, IdleLoop
    <3>6. Durable' = Durable
      BY <3>4 DEF Durable
    <3>7. FanOutIsDurable'
      BY <3>4, <3>6 DEF DataInv, FanOutIsDurable, LoopTypeOK, IdleLoop
    <3>8. sent' \in 0..MaxUpdates
      BY <3>4 DEF DataInv, ChannelTypeOK
    <3>. QED  BY <3>3, <3>4, <3>5, <3>7, <3>8, <1>2
  \* A restart empties the channels and cuts the buffers at what was written.
  <2>9. ASSUME LoseMemory PROVE Good
    <3>. USE <2>9
    <3>1. UNCHANGED <<store, written, sent>> /\ Durable' = Durable
      BY DEF LoseMemory, Durable
    <3>2. ASSUME NEW c \in Conn
          PROVE  /\ stream'[c] \in Seq(TellsOf(Durable))
                 /\ Len(stream'[c]) = written[c]
                 /\ \A i \in 1..written[c] : stream'[c][i] = stream[c][i]
      <4>1. /\ stream[c] \in Seq(TellsOf(Durable)) /\ Len(stream[c]) \in Nat
            /\ written[c] \in Nat /\ written[c] <= Len(stream[c])
        BY <3>2, LenProperties DEF DataInv, BuffersAreDurable, BufferTypeOK
      <4>2. \A i \in 1..written[c] : stream[c][i] \in TellsOf(Durable)
        BY <4>1, ElementOfSeq
      <4>3. stream'[c] = SubSeq(stream[c], 1, written[c])
        BY <3>2 DEF LoseMemory
      <4>. QED  BY <4>1, <4>2, <4>3, SubSeqProperties
    <3>3. stream' = [c \in Conn |-> stream'[c]] /\ sock' \in [Conn -> {"open", "closed"}]
      BY DEF LoseMemory
    <3>4. BuffersAreDurable' /\ BufferTypeOK'
      BY <3>1, <3>2, <3>3 DEF DataInv, BuffersAreDurable, BufferTypeOK
    <3>5. LoopTypeOK' /\ FanOutIsDurable'
      BY DEF LoseMemory, LoopTypeOK, FanOutIsDurable, IdleLoop, ExitedLoop
    <3>6. ChannelTypeOK'
      BY EmptySeq, <3>1 DEF LoseMemory, DataInv, ChannelTypeOK
    <3>7. LogTypeOK' /\ LoadsAreDurable'
      BY <3>1 DEF LoseMemory, DataInv, LogTypeOK, LoadsAreDurable
    <3>. QED  BY <3>1, <3>2, <3>4, <3>5, <3>6, <3>7 DEF DataInv, WrittenStays
  <2>10. CASE UNCHANGED vars
    BY <2>0, <2>10 DEF vars, dataVars, DataInv, BufferTypeOK
  <2>. QED
    BY <2>1, <2>2, <2>3, <2>4, <2>5, <2>6, <2>7, <2>8, <2>9, <2>10 DEF Next, LoopStep, Restart
<1>4. Spec => []HubInv
  BY DocSpecImpliesHubSpec, HubInvariant, PTL
<1>5. Init => DataInv
  BY EmptySeq DEF Init, DataInv, LogTypeOK, LoopTypeOK, ChannelTypeOK, BufferTypeOK, IdleLoop,
                  BuffersAreDurable, LoadsAreDurable, FanOutIsDurable
<1>. QED  BY <1>3, <1>4, <1>5, PTL DEF Spec

\* With every buffer and channel within its capacity, the whole state of a node
\* is well typed: AcceptUpdate, Enqueue and the loops respect the bounds the
\* code makes its channels with.
THEOREM DocSessionTypeCorrect == Spec => []TypeOK
<1>1. HubInv /\ DataInv => TypeOK
  <2>. SUFFICES ASSUME HubInv, DataInv PROVE TypeOK
    OBVIOUS
  <2>1. TellsOf(Durable) \subseteq Frame
    BY DEF TellsOf
  <2>2. stream \in [Conn -> Seq(Frame)]
    BY <2>1, SeqMonotonic DEF DataInv, BuffersAreDurable
  <2>3. loaded \in [Conn -> Seq(Update) \cup {NoItem}]
    <3>1. Seq(Durable) \subseteq Seq(Update)
      BY DurableIsUpdates, SeqMonotonic DEF DataInv
    <3>. QED  BY <3>1 DEF DataInv, LoadsAreDurable
  <2>. QED
    BY <2>2, <2>3 DEF TypeOK, HubInv, DataInv, LogTypeOK, LoopTypeOK, ChannelTypeOK, BufferTypeOK
<1>. QED  BY <1>1, DataInvariant, PTL

\* hub.go persists, then acks and broadcasts: no client ever hears, by replay,
\* broadcast or ack, of an update that is not in the database, through failing
\* and unseen commits, full buffers, a second session's loop and restarts.
THEOREM NothingIsToldBeforeDurable == Spec => []NothingBeforeDurable
<1>1. DataInv => NothingBeforeDurable
  <2>. SUFFICES ASSUME DataInv, NEW c \in Conn, NEW i \in DOMAIN stream[c],
                       stream[c][i].kind \in {"update", "ack"}
                PROVE  stream[c][i].upd \in Durable
    BY DEF NothingBeforeDurable
  <2>1. stream[c] \in Seq(TellsOf(Durable))
    BY DEF DataInv, BuffersAreDurable
  <2>2. i \in 1..Len(stream[c])
    BY <2>1, LenProperties
  <2>3. stream[c][i] \in TellsOf(Durable)
    BY <2>1, <2>2, ElementOfSeq
  <2>. QED  BY <2>3 DEF TellsOf
<1>. QED  BY <1>1, DataInvariant, PTL

\* The composition keeps what Hub promises.
THEOREM DocSessionsStayEmpty == Spec => []ClosedSessionsAreEmpty
BY DocSpecImpliesHubSpec, ClosedSessionsStayEmpty, PTL
-----------------------------------------------------------------------------
(***************************************************************************)
(* DocSession implements DurableLog, and its fan-out reaches everybody.    *)
(* Both rest on one fact: an update is in one place.                       *)
(***************************************************************************)
Appending(s) == loop[s].stage = "appending"

\* An update is in one place: one slot of one channel, one loop that is about
\* to insert it, or the log.  DurableLog never logs an update twice, and this
\* is why DocSession does not, though two sessions may insert at once.
QueuedOnce ==
    \A s, t \in Session : \A i \in DOMAIN incoming[s], j \in DOMAIN incoming[t] :
        incoming[s][i].upd = incoming[t][j].upd => s = t /\ i = j
QueuedIsNew ==
    \A s \in Session : \A i \in DOMAIN incoming[s] :
        incoming[s][i].upd \in (1..sent) \ Durable
AppendedOnce ==
    \A s \in Session : Appending(s) =>
        /\ loop[s].item.upd \in (1..sent) \ Durable
        /\ \A t \in Session : \A j \in DOMAIN incoming[t] :
              incoming[t][j].upd # loop[s].item.upd
        /\ \A t \in Session : Appending(t) /\ loop[t].item.upd = loop[s].item.upd => t = s
LogIsSent == Durable \subseteq 1..sent

PlacesInv == QueuedOnce /\ QueuedIsNew /\ AppendedOnce /\ LogIsSent

LEMMA NextPlaces == HubInv /\ DataInv /\ PlacesInv /\ [Next]_vars => PlacesInv'
<1>. SUFFICES ASSUME HubInv, DataInv, PlacesInv, [Next]_vars PROVE PlacesInv'
  OBVIOUS
<1>. USE DEF PlacesInv
<1>1. sent \in Nat /\ \A s \in Session : incoming[s] \in Seq(Item)
  BY DEF DataInv, ChannelTypeOK
<1>2. ASSUME UNCHANGED <<store, incoming>>, sent' \in {sent, sent + 1},
             \A s \in Session : loop'[s] = loop[s] \/ loop'[s].stage # "appending"
      PROVE  PlacesInv'
  <2>1. Durable' = Durable /\ 1..sent \subseteq 1..sent'
    BY <1>1, <1>2 DEF Durable
  <2>2. QueuedOnce' /\ QueuedIsNew' /\ LogIsSent'
    BY <1>2, <2>1 DEF QueuedOnce, QueuedIsNew, LogIsSent
  <2>3. \A s \in Session : Appending(s)' => Appending(s) /\ loop'[s].item = loop[s].item
    BY <1>2 DEF Appending
  <2>4. AppendedOnce'
    BY <1>2, <2>1, <2>3 DEF AppendedOnce
  <2>. QED  BY <2>2, <2>4
<1>3. ASSUME NEW c \in Conn, AcceptUpdate(c) PROVE PlacesInv'
  <2>. DEFINE s == sessionOf[c]
              new == [from |-> c, upd |-> sent + 1]
  <2>1. /\ incoming' = [incoming EXCEPT ![s] = Append(@, new)] /\ sent' = sent + 1
        /\ UNCHANGED <<store, loop>> /\ Durable' = Durable
    BY <1>3 DEF AcceptUpdate, Arrives, Durable
  <2>2. s \in Session
    BY <1>3 DEF AcceptUpdate, Arrives, HubInv, SessionsAreKnown
  <2>3. new \in Item
    <3>1. sent < MaxUpdates
      BY <1>3 DEF AcceptUpdate, Arrives
    <3>2. sent + 1 \in Update
      BY <1>1, <3>1, DocSessionAssumption DEF Update
    <3>. QED  BY <3>2 DEF Item
  <2>4. /\ DOMAIN incoming[s] = 1..Len(incoming[s]) /\ Len(incoming[s]) \in Nat
        /\ DOMAIN incoming'[s] = (1..Len(incoming[s])) \cup {Len(incoming[s]) + 1}
        /\ \A i \in 1..Len(incoming[s]) : incoming'[s][i] = incoming[s][i]
        /\ incoming'[s][Len(incoming[s]) + 1] = new
    <3>1. incoming'[s] = Append(incoming[s], new)
      BY <2>1, <2>2 DEF DataInv, ChannelTypeOK
    <3>. QED  BY <1>1, <2>2, <2>3, <3>1, AppendProperties, LenProperties
  <2>5. \A t \in Session \ {s} : incoming'[t] = incoming[t]
    BY <2>1, <2>2 DEF DataInv, ChannelTypeOK
  <2>6. sent + 1 \notin 1..sent /\ sent + 1 \in 1..sent' /\ 1..sent \subseteq 1..sent'
    BY <1>1, <2>1
  <2>7. \A t \in Session : \A i \in DOMAIN incoming'[t] :
           \/ i \in DOMAIN incoming[t] /\ incoming'[t][i] = incoming[t][i]
           \/ /\ t = s /\ i = Len(incoming[s]) + 1
              /\ incoming'[t][i].upd = sent + 1
    BY <2>4, <2>5
  <2>8. \A t \in Session : \A i \in DOMAIN incoming[t] : incoming[t][i].upd \in 1..sent
    BY DEF QueuedIsNew
  <2>9. QueuedOnce'
    BY <2>6, <2>7, <2>8 DEF QueuedOnce
  <2>10. QueuedIsNew' /\ LogIsSent'
    BY <2>1, <2>6, <2>7 DEF QueuedIsNew, LogIsSent
  <2>11. AppendedOnce'
    BY <2>1, <2>6, <2>7 DEF AppendedOnce, Appending
  <2>. QED  BY <2>9, <2>10, <2>11
<1>4. ASSUME NEW s \in Session, LoopTakes(s) PROVE PlacesInv'
  <2>. DEFINE h == Head(incoming[s])
  <2>1. /\ incoming[s] # <<>> /\ incoming' = [incoming EXCEPT ![s] = Tail(@)]
        /\ loop' = [loop EXCEPT ![s] = [stage |-> "appending", item |-> h, base |-> Len(store)]]
        /\ UNCHANGED <<store, sent>> /\ Durable' = Durable
    BY <1>4 DEF LoopTakes, Durable
  <2>2. /\ h = incoming[s][1] /\ 1 \in DOMAIN incoming[s]
        /\ \A i \in DOMAIN Tail(incoming[s]) :
              /\ i + 1 \in DOMAIN incoming[s] /\ i \in Nat \ {0}
              /\ Tail(incoming[s])[i] = incoming[s][i + 1]
    BY <1>1, <2>1, HeadTailProperties, LenProperties, EmptySeq
  <2>3. \A t \in Session \ {s} : incoming'[t] = incoming[t] /\ loop'[t] = loop[t]
    BY <2>1 DEF DataInv, ChannelTypeOK, LoopTypeOK
  <2>4. incoming'[s] = Tail(incoming[s]) /\ loop'[s].stage = "appending" /\ loop'[s].item = h
    BY <2>1 DEF DataInv, ChannelTypeOK, LoopTypeOK
  <2>5. \A t \in Session : \A i \in DOMAIN incoming'[t] :
           \/ t # s /\ i \in DOMAIN incoming[t] /\ incoming'[t][i] = incoming[t][i]
           \/ /\ t = s /\ i + 1 \in DOMAIN incoming[s] /\ i \in Nat \ {0}
              /\ incoming'[s][i] = incoming[s][i + 1]
    BY <2>2, <2>3, <2>4
  <2>6. QueuedOnce'
    BY <2>5 DEF QueuedOnce
  <2>7. QueuedIsNew' /\ LogIsSent'
    BY <2>1, <2>5 DEF QueuedIsNew, LogIsSent
  <2>8. \A t \in Session : \A i \in DOMAIN incoming'[t] : incoming'[t][i].upd # h.upd
    BY <2>2, <2>5 DEF QueuedOnce
  <2>9. h.upd \in (1..sent) \ Durable
    BY <2>2 DEF QueuedIsNew
  <2>10. \A t \in Session : Appending(t) => loop[t].item.upd # h.upd
    BY <2>2 DEF AppendedOnce
  <2>11. \A t \in Session : Appending(t) => \A u \in Session : \A i \in DOMAIN incoming'[u] :
            incoming'[u][i].upd # loop[t].item.upd
    BY <2>5 DEF AppendedOnce
  <2>12. \A t \in Session \ {s} : Appending(t)' => Appending(t) /\ loop'[t].item = loop[t].item
    BY <2>3 DEF Appending
  <2>13. AppendedOnce'
    BY <2>1, <2>4, <2>8, <2>9, <2>10, <2>11, <2>12 DEF AppendedOnce
  <2>. QED  BY <2>6, <2>7, <2>13
<1>5. ASSUME NEW s \in Session, AppendCommits(s) \/ AppendCommitsUnseen(s) PROVE PlacesInv'
  <2>. DEFINE u == loop[s].item.upd
  <2>1. /\ Appending(s) /\ UNCHANGED <<incoming, sent>>
        /\ \E ok \in BOOLEAN : store' = Append(store, RowOf(s, ok))
    BY <1>5 DEF AppendCommits, AppendCommitsUnseen, Appending
  <2>2. Durable' = Durable \cup {u}
    <3>1. loop[s].item \in Item
      BY <2>1 DEF Appending, DataInv, LoopTypeOK
    <3>2. \A ok \in BOOLEAN : RowOf(s, ok) \in Row /\ RowOf(s, ok).upd = u
      BY <3>1 DEF RowOf, Row, Item
    <3>. QED  BY <2>1, <3>2, DurableIsUpdates DEF DataInv
  <2>3. \A t \in Session \ {s} : loop'[t] = loop[t]
    BY <1>5 DEF AppendCommits, AppendCommitsUnseen, DataInv, LoopTypeOK
  <2>4. loop'[s].stage # "appending"
    <3>1. CASE AppendCommitsUnseen(s)
      BY <3>1 DEF AppendCommitsUnseen, IdleLoop, DataInv, LoopTypeOK
    <3>2. CASE AppendCommits(s)
      <4>. DEFINE d == [loop[s] EXCEPT !.stage = "persisted"]
      <4>1. d.stage = "persisted"
        BY DEF DataInv, LoopTypeOK
      <4>2. loop' = [loop EXCEPT ![s] = d]
        BY <3>2 DEF AppendCommits, DataInv, LoopTypeOK
      <4>3. loop'[s] = d
        BY <4>2 DEF DataInv, LoopTypeOK
      <4>. QED  BY <4>1, <4>3
    <3>. QED  BY <1>5, <3>1, <3>2
  <2>5. QueuedOnce'
    BY <2>1 DEF QueuedOnce
  <2>6. QueuedIsNew' /\ LogIsSent'
    BY <2>1, <2>2 DEF QueuedIsNew, LogIsSent, AppendedOnce
  <2>7. AppendedOnce'
    BY <2>1, <2>2, <2>3, <2>4 DEF AppendedOnce, Appending
  <2>. QED  BY <2>5, <2>6, <2>7
<1>6. ASSUME LoseMemory PROVE PlacesInv'
  <2>1. /\ \A s \in Session : incoming'[s] = <<>> /\ loop'[s].stage # "appending"
        /\ UNCHANGED <<store, sent>> /\ Durable' = Durable
    BY <1>6 DEF LoseMemory, Durable, IdleLoop, ExitedLoop
  <2>. QED
    BY <2>1 DEF QueuedOnce, QueuedIsNew, AppendedOnce, Appending, LogIsSent
<1>7. ASSUME NEW c \in Conn,
             \/ HubStep(c) \/ Disconnect(c) \/ LoadUpdates(c) \/ Replay(c) \/ WritePump(c)
             \/ DropOnFullIncoming(c) \/ CloseRateLimited(c) \/ RefuseReadonly(c)
      PROVE  PlacesInv'
  <2>1. UNCHANGED <<store, incoming, loop>> /\ sent' \in {sent, sent + 1}
    BY <1>7 DEF HubStep, dataVars, Disconnect, LoadUpdates, Replay, WritePump, DropOnFullIncoming,
                CloseRateLimited, RefuseReadonly, Arrives
  <2>. QED  BY <1>2, <2>1
<1>8. ASSUME NEW s \in Session, AppendFails(s) \/ FanOut(s) \/ LoopExits(s) PROVE PlacesInv'
  <2>1. /\ UNCHANGED <<store, incoming, sent>>
        /\ \E d \in {IdleLoop, ExitedLoop} : loop' = [loop EXCEPT ![s] = d]
    BY <1>8 DEF AppendFails, FanOut, LoopExits
  <2>2. \A t \in Session : loop'[t] = loop[t] \/ loop'[t].stage # "appending"
    BY <2>1 DEF IdleLoop, ExitedLoop, DataInv, LoopTypeOK
  <2>. QED  BY <1>2, <2>1, <2>2
<1>9. CASE UNCHANGED vars
  BY <1>2, <1>9 DEF vars, dataVars
<1>. QED
  BY <1>3, <1>4, <1>5, <1>6, <1>7, <1>8, <1>9 DEF Next, LoopStep, Restart

-----------------------------------------------------------------------------
\* The mapping of DurableLog's state.
LogBar  == [i \in DOMAIN store |-> store[i].upd]
ToldBar == [c \in Conn |-> Told(c)]

\* hub.go, conn.go and updates.go together keep the promise of DurableLog: but
\* for retention, the log only grows, holds no update twice and outlives the
\* process, and a client is told only of what is in it and is never untold.
THEOREM DocSessionKeepsDurableLog == Spec => KeepsDurableLog
<1>1. Init => PlacesInv /\ Durability!Init
  <2>. SUFFICES ASSUME Init PROVE PlacesInv /\ Durability!Init
    OBVIOUS
  <2>1. /\ store = <<>> /\ DOMAIN store = {}
        /\ \A s \in Session : incoming[s] = <<>> /\ DOMAIN incoming[s] = {}
        /\ \A s \in Session : ~Appending(s)
    BY DEF Init, Appending, IdleLoop
  <2>2. PlacesInv
    BY <2>1 DEF PlacesInv, QueuedOnce, QueuedIsNew, AppendedOnce, LogIsSent, Durable
  <2>3. [i \in DOMAIN store |-> store[i].upd] = <<>>
    BY <2>1
  <2>4. \A c \in Conn : Told(c) = {}
    BY DEF Init, Told
  <2>. QED  BY <2>2, <2>3, <2>4 DEF Durability!Init
<1>2. Spec => [](HubInv /\ DataInv /\ PlacesInv)
  BY <1>1, DataInvariant, NextPlaces, PTL DEF Spec
\* An insert is a Persist, a write to a socket a Tell or nothing, and every
\* other step of the node is nothing at all.
<1>3. HubInv /\ DataInv /\ PlacesInv /\ [Next]_vars /\ [OnlyPumpsWrite]_vars
        => [Durability!Next]_<<LogBar, ToldBar>>
  <2>. SUFFICES ASSUME HubInv, DataInv, PlacesInv, [Next]_vars, [OnlyPumpsWrite]_vars
                PROVE  [Durability!Next]_<<LogBar, ToldBar>>
    OBVIOUS
  <2>0. WrittenStays \/ \E c \in Conn : WritePump(c)
    <3>1. UNCHANGED vars => UNCHANGED <<written, stream>>
      BY DEF vars, dataVars
    <3>. QED  BY <3>1 DEF OnlyPumpsWrite, WrittenStays
  <2>1. Durability!Logged = Durable
    BY DEF Durability!Logged, Durable
  <2>2. CASE \E c \in Conn : WritePump(c)
    <3>1. PICK c \in Conn : WritePump(c)
      BY <2>2
    <3>. DEFINE f == stream[c][written[c] + 1]
    <3>2. /\ written' = [written EXCEPT ![c] = @ + 1] /\ UNCHANGED <<store, stream>>
          /\ written[c] \in Nat /\ written[c] < Len(stream[c])
      BY <3>1 DEF WritePump, DataInv, BufferTypeOK
    <3>3. f \in TellsOf(Durable)
      <4>1. stream[c] \in Seq(TellsOf(Durable)) /\ Len(stream[c]) \in Nat
        BY LenProperties DEF DataInv, BuffersAreDurable
      <4>2. written[c] + 1 \in 1..Len(stream[c])
        BY <3>2, <4>1
      <4>. QED  BY <4>1, <4>2, ElementOfSeq
    <3>4. \A d \in Conn \ {c} : Told(d)' = Told(d)
      BY <3>2 DEF Told, DataInv, BufferTypeOK
    <3>5. Told(c)' = Told(c) \cup (IF f.kind \in {"update", "ack"} THEN {f.upd} ELSE {})
      <4>1. /\ stream' = stream /\ written'[c] = written[c] + 1
            /\ 1..(written[c] + 1) = (1..written[c]) \cup {written[c] + 1}
        BY <3>2 DEF DataInv, BufferTypeOK
      <4>. QED  BY <4>1 DEF Told
    <3>6. LogBar' = LogBar
      BY <3>2 DEF LogBar
    <3>7. CASE f.kind \in {"update", "ack"}
      <4>1. f.upd \in Durable
        BY <3>3, <3>7 DEF TellsOf
      <4>2. ToldBar' = [ToldBar EXCEPT ![c] = @ \cup {f.upd}]
        BY <3>4, <3>5, <3>7 DEF ToldBar
      <4>. QED
        BY <2>1, <3>6, <4>1, <4>2 DEF Durability!Next, Durability!Tell, LogBar, ToldBar
    <3>8. CASE f.kind \notin {"update", "ack"}
      <4>1. ToldBar' = ToldBar
        BY <3>4, <3>5, <3>8 DEF ToldBar
      <4>. QED  BY <3>6, <4>1
    <3>. QED  BY <3>7, <3>8
  <2>3. CASE WrittenStays
    <3>1. \A c \in Conn : Told(c)' = Told(c)
      BY <2>3 DEF WrittenStays, Told
    <3>2. ToldBar' = ToldBar
      BY <3>1 DEF ToldBar
    <3>3. CASE UNCHANGED store
      BY <3>2, <3>3 DEF LogBar
    <3>4. ASSUME NEW s \in Session, AppendCommits(s) \/ AppendCommitsUnseen(s)
          PROVE  Durability!Persist
      <4>. DEFINE u == loop[s].item.upd
      <4>1. PICK ok \in BOOLEAN : store' = Append(store, RowOf(s, ok))
        BY <3>4 DEF AppendCommits, AppendCommitsUnseen
      <4>2. loop[s].item \in Item /\ Appending(s)
        BY <3>4 DEF AppendCommits, AppendCommitsUnseen, Appending, DataInv, LoopTypeOK
      <4>3. RowOf(s, ok) \in Row /\ RowOf(s, ok).upd = u /\ u \in Update
        BY <4>2 DEF RowOf, Row, Item
      <4>4. u \notin Durable
        BY <4>2 DEF PlacesInv, AppendedOnce
      <4>5. LogBar' = Append(LogBar, u)
        <5>1. /\ Len(store) \in Nat /\ DOMAIN store = 1..Len(store)
              /\ \A i \in 1..Len(store) : store[i].upd \in Update
          <6>1. Len(store) \in Nat /\ DOMAIN store = 1..Len(store)
            BY LenProperties DEF DataInv, LogTypeOK
          <6>2. \A i \in 1..Len(store) : store[i] \in Row
            BY ElementOfSeq DEF DataInv, LogTypeOK
          <6>. QED  BY <6>1, <6>2 DEF Row
        <5>2. /\ DOMAIN store' = 1..(Len(store) + 1)
              /\ \A i \in 1..Len(store) : store'[i] = store[i]
              /\ store'[Len(store) + 1].upd = u
          BY <4>1, <4>3, <5>1, AppendProperties, LenProperties DEF DataInv, LogTypeOK
        <5>3. LogBar \in Seq(Update) /\ Len(LogBar) = Len(store)
          BY <5>1 DEF LogBar
        <5>. QED  BY <4>3, <5>1, <5>2, <5>3, AppendProperties, LenProperties DEF LogBar
      <4>. QED
        BY <2>1, <3>2, <4>3, <4>4, <4>5 DEF Durability!Persist, LogBar, ToldBar
    <3>5. \/ UNCHANGED store
          \/ \E s \in Session : AppendCommits(s) \/ AppendCommitsUnseen(s)
      BY DEF Next, vars, dataVars, HubStep, Disconnect, LoadUpdates, Replay, WritePump,
             AcceptUpdate, DropOnFullIncoming, CloseRateLimited, RefuseReadonly, Arrives,
             LoopStep, LoopTakes, AppendFails, FanOut, LoopExits, Restart, LoseMemory
    <3>. QED  BY <3>3, <3>4, <3>5 DEF Durability!Next
  <2>. QED  BY <2>0, <2>2, <2>3
<1>4. Spec => Durability!Init /\ [][Durability!Next]_<<LogBar, ToldBar>>
  BY <1>1, <1>2, <1>3, DataInvariant, PTL DEF Spec
<1>. QED  BY <1>4, PTL DEF KeepsDurableLog, Durability!Spec, LogBar, ToldBar
-----------------------------------------------------------------------------
\* The history is read by the handler that has joined.
LoadedAfterJoin == \A c \in Conn : loaded[c] # NoItem => pc[c] \notin {"idle", "authorizing"}

\* The row a loop has inserted and is about to fan out names the client the
\* update came from: the broadcast leaves out nobody else.
RowsKeepOrigin ==
    \A s \in Session, i \in DOMAIN store :
        loop[s].stage = "persisted" /\ store[i].upd = loop[s].item.upd
            => store[i].from = loop[s].item.from

ReachInv == LoadedAfterJoin /\ RowsKeepOrigin /\ FanOutReachesAll

\* The two sides of FanOutReachesAll.
InBuffer(c) == UpdatesUpTo(c, Len(stream[c]))
Owed(c, i) ==
    /\ pc[c] = "serving" \/ (pc[c] = "joined" /\ loaded[c] # NoItem)
    /\ sock[c] = "open"
    /\ store[i].by = sessionOf[c] /\ store[i].ok /\ store[i].from # c
Reached(c, i) ==
    \/ store[i].upd \in InBuffer(c)
    \/ pc[c] = "joined" /\ \E j \in DOMAIN loaded[c] : loaded[c][j] = store[i].upd
    \/ loop[sessionOf[c]].stage = "persisted" /\ loop[sessionOf[c]].item.upd = store[i].upd

\* A connection registers before it loads the history, so no update its session
\* persists can slip through in between, whatever joins, leaves, fails and
\* restarts: it is in the buffer, in the replay to come, or about to be fanned
\* out, or the socket was closed.
THEOREM FanOutReaches == Spec => []FanOutReachesAll
\* A connection whose socket survives an enqueue has all frames it was given.
<1>a. ASSUME DataInv, NEW fs, \A c \in Conn : fs[c] \in Seq(Frame), Enqueue(fs),
             NEW c \in Conn, sock'[c] = "open"
      PROVE  /\ sock[c] = "open" /\ InBuffer(c) \subseteq InBuffer(c)'
             /\ \A j \in DOMAIN fs[c] : fs[c][j].kind = "update" => fs[c][j].upd \in InBuffer(c)'
  <2>. USE <1>a
  <2>1. sock[c] = "open" /\ stream'[c] = stream[c] \o fs[c]
    BY DEF Enqueue
  <2>2. stream[c] \in Seq(Frame) /\ fs[c] \in Seq(Frame)
    <3>1. stream[c] \in Seq(TellsOf(Durable))
      BY DEF DataInv, BuffersAreDurable
    <3>2. TellsOf(Durable) \subseteq Frame
      BY DEF TellsOf
    <3>. QED  BY <3>1, <3>2, SeqMonotonic
  <2>3. /\ Len(stream[c]) \in Nat /\ Len(fs[c]) \in Nat /\ DOMAIN fs[c] = 1..Len(fs[c])
        /\ Len(stream'[c]) = Len(stream[c]) + Len(fs[c])
    BY <2>1, <2>2, ConcatProperties, LenProperties
  <2>4. \A j \in 1..Len(stream'[c]) :
           stream'[c][j] = IF j <= Len(stream[c]) THEN stream[c][j] ELSE fs[c][j - Len(stream[c])]
    BY <2>1, <2>2, <2>3, ConcatProperties
  <2>5. \A j \in 1..Len(stream[c]) : j \in 1..Len(stream'[c]) /\ stream'[c][j] = stream[c][j]
    <3>1. \A n, m \in Nat : \A j \in 1..n : j \in 1..(n + m) /\ j <= n
      OBVIOUS
    <3>2. \A j \in 1..Len(stream[c]) : j \in 1..Len(stream'[c]) /\ j <= Len(stream[c])
      BY <2>3, <3>1, Zenon
    <3>. QED  BY <2>4, <3>2
  <2>6. ASSUME NEW j \in DOMAIN fs[c], fs[c][j].kind = "update" PROVE fs[c][j].upd \in InBuffer(c)'
    <3>1. \A n, m \in Nat : \A l \in 1..m : \E k \in 1..(n + m) : ~(k <= n) /\ k - n = l
      <4>1. ASSUME NEW n \in Nat, NEW m \in Nat, NEW l \in 1..m
            PROVE  n + l \in 1..(n + m) /\ ~(n + l <= n) /\ n + l - n = l
        OBVIOUS
      <4>. QED  BY <4>1
    <3>2. PICK k \in 1..Len(stream'[c]) : ~(k <= Len(stream[c])) /\ k - Len(stream[c]) = j
      <4>1. j \in 1..Len(fs[c])
        BY <2>3
      <4>2. \E k \in 1..(Len(stream[c]) + Len(fs[c])) : ~(k <= Len(stream[c])) /\ k - Len(stream[c]) = j
        BY <2>3, <3>1, <4>1, Zenon
      <4>. QED  BY <2>3, <4>2
    <3>3. stream'[c][k] = fs[c][j]
      BY <2>4, <3>2
    <3>. QED  BY <2>6, <3>2, <3>3 DEF InBuffer, UpdatesUpTo
  <2>7. InBuffer(c) \subseteq InBuffer(c)'
    BY <2>5 DEF InBuffer, UpdatesUpTo
  <2>. QED  BY <2>1, <2>6, <2>7
<1>1. Init => PlacesInv /\ ReachInv
  <2>. SUFFICES ASSUME Init PROVE PlacesInv /\ ReachInv
    OBVIOUS
  <2>1. /\ DOMAIN store = {} /\ \A s \in Session : incoming[s] = <<>> /\ ~Appending(s)
        /\ \A c \in Conn : pc[c] = "idle" /\ loaded[c] = NoItem
        /\ \A s \in Session : loop[s].stage = "idle"
    BY DEF Init, HubInit, Appending, IdleLoop
  <2>2. PlacesInv
    BY <2>1 DEF PlacesInv, QueuedOnce, QueuedIsNew, AppendedOnce, LogIsSent, Durable
  <2>3. ReachInv
    BY <2>1 DEF ReachInv, LoadedAfterJoin, RowsKeepOrigin, FanOutReachesAll
  <2>. QED  BY <2>2, <2>3
<1>2. HubInv /\ MembersInv /\ DataInv /\ PlacesInv /\ ReachInv /\ [Next]_vars => ReachInv'
  <2>. SUFFICES ASSUME HubInv, MembersInv, DataInv, PlacesInv, ReachInv, [Next]_vars
                PROVE  ReachInv'
    OBVIOUS
  <2>. DEFINE Out(c) == HubStep(c) \/ Disconnect(c)
  <2>1. LoadedAfterJoin'
    <3>1. ASSUME NEW c \in Conn, Out(c) PROVE LoadedAfterJoin'
      <4>1. loaded' = loaded
        BY <3>1 DEF HubStep, Disconnect, dataVars
      <4>2. \A d \in Conn : pc'[d] \in {"idle", "authorizing"} => pc[d] \in {"idle", "authorizing"}
        BY <3>1 DEF HubStep, Disconnect, Acquire, Refuse, Reject, Join, LoadFails, ReadPumpEnds, Unregister,
                    DetachBusy, DetachLast, DetachAgainInHandler, Release, Goto, HubInv, HubTypeOK
      <4>. QED  BY <4>1, <4>2 DEF ReachInv, LoadedAfterJoin
    <3>2. ASSUME NEW c \in Conn, LoadUpdates(c) PROVE LoadedAfterJoin'
      BY <3>2 DEF LoadUpdates, hubVars, DataInv, LoadsAreDurable, ReachInv, LoadedAfterJoin
    <3>3. ASSUME NEW c \in Conn, Replay(c) PROVE LoadedAfterJoin'
      BY <3>3 DEF Replay, StartPumps, Goto, HubInv, HubTypeOK, ReachInv, LoadedAfterJoin
    <3>4. CASE UNCHANGED <<pc, loaded>>
      BY <3>4 DEF ReachInv, LoadedAfterJoin
    <3>5. CASE Restart
      BY <3>5 DEF Restart, LoseMemory, LoadedAfterJoin
    <3>. QED
      BY <3>1, <3>2, <3>3, <3>4, <3>5
         DEF Next, vars, hubVars, dataVars, WritePump, AcceptUpdate, DropOnFullIncoming, CloseRateLimited,
             RefuseReadonly, Arrives, LoopStep, LoopTakes, AppendCommits, AppendFails,
             AppendCommitsUnseen, FanOut, LoopExits
  <2>2. RowsKeepOrigin'
    <3>1. ASSUME NEW s \in Session, AppendCommits(s) \/ AppendCommitsUnseen(s) PROVE RowsKeepOrigin'
      <4>. DEFINE x == loop[s].item
      <4>1. PICK ok \in BOOLEAN : store' = Append(store, RowOf(s, ok))
        BY <3>1 DEF AppendCommits, AppendCommitsUnseen
      <4>2. Appending(s) /\ x \in Item /\ x.upd \notin Durable
        BY <3>1 DEF AppendCommits, AppendCommitsUnseen, Appending, DataInv, LoopTypeOK, PlacesInv,
                    AppendedOnce
      <4>3. \A i \in DOMAIN store' :
              \/ i \in DOMAIN store /\ store'[i] = store[i]
              \/ store'[i].from = x.from /\ store'[i].upd = x.upd
        BY <4>1, <4>2, AppendProperties, LenProperties DEF DataInv, LogTypeOK, RowOf, Row, Item
      <4>4. \A t \in Session \ {s} : loop'[t] = loop[t]
        BY <3>1 DEF AppendCommits, AppendCommitsUnseen, DataInv, LoopTypeOK
      <4>5. loop'[s].stage # "persisted" \/ loop'[s].item = x
        <5>1. CASE AppendCommitsUnseen(s)
          BY <5>1 DEF AppendCommitsUnseen, IdleLoop, DataInv, LoopTypeOK
        <5>2. CASE AppendCommits(s)
          <6>1. loop' = [loop EXCEPT ![s] = [loop[s] EXCEPT !.stage = "persisted"]]
            BY <5>2 DEF AppendCommits, DataInv, LoopTypeOK
          <6>2. loop'[s] = [loop[s] EXCEPT !.stage = "persisted"]
            BY <6>1 DEF DataInv, LoopTypeOK
          <6>. QED  BY <6>2 DEF DataInv, LoopTypeOK
        <5>. QED  BY <3>1, <5>1, <5>2
      <4>6. \A t \in Session : loop[t].stage = "persisted" => loop[t].item.upd \in Durable
        BY DEF DataInv, FanOutIsDurable
      <4>7. \A i \in DOMAIN store : store[i].upd \in Durable
        BY DEF Durable
      <4>. QED
        BY <4>2, <4>3, <4>4, <4>5, <4>6, <4>7 DEF ReachInv, RowsKeepOrigin
    <3>2. ASSUME UNCHANGED store,
                 \A s \in Session : loop'[s] = loop[s] \/ loop'[s].stage # "persisted"
          PROVE  RowsKeepOrigin'
      BY <3>2 DEF ReachInv, RowsKeepOrigin
    <3>3. ASSUME NEW s \in Session, LoopTakes(s) \/ AppendFails(s) \/ FanOut(s) \/ LoopExits(s)
          PROVE  RowsKeepOrigin'
      BY <3>2, <3>3 DEF LoopTakes, AppendFails, FanOut, LoopExits, IdleLoop, ExitedLoop, DataInv, LoopTypeOK
    <3>4. CASE Restart
      BY <3>2, <3>4 DEF Restart, LoseMemory, IdleLoop, ExitedLoop
    <3>5. CASE UNCHANGED <<store, loop>>
      BY <3>2, <3>5
    <3>. QED
      BY <3>1, <3>3, <3>4, <3>5
         DEF Next, vars, dataVars, HubStep, Disconnect, LoadUpdates, Replay, WritePump, AcceptUpdate,
             DropOnFullIncoming, CloseRateLimited, RefuseReadonly, Arrives, LoopStep
  <2>3. SUFFICES ASSUME NEW c \in Conn, NEW i \in DOMAIN store', Owed(c, i)' PROVE Reached(c, i)'
    BY <2>1, <2>2 DEF ReachInv, FanOutReachesAll, Owed, Reached, InBuffer
  <2>4. i \in DOMAIN store /\ Owed(c, i) => Reached(c, i)
    BY DEF ReachInv, FanOutReachesAll, Owed, Reached, InBuffer
  <2>5. /\ sessionOf \in [Conn -> Session \cup {NoSession}]
        /\ pc[c] \in {"joined", "serving"} => sessionOf[c] \in Session
    BY DEF HubInv, HubTypeOK, SessionsAreKnown
  \* Steps that change neither the log nor what the connection sees of it.
  <2>6. ASSUME UNCHANGED <<store, loaded>>, sessionOf'[c] = sessionOf[c], pc'[c] = pc[c],
               sock[c] = "open", InBuffer(c) \subseteq InBuffer(c)',
               \A s \in Session : loop[s].stage = "persisted" => loop'[s] = loop[s]
        PROVE  Reached(c, i)'
    BY <2>3, <2>4, <2>5, <2>6 DEF Owed, Reached
  <2>7. ASSUME NEW d \in Conn, HubStep(d) \/ Disconnect(d) PROVE Reached(c, i)'
    <3>1. /\ UNCHANGED <<store, incoming, loop, stream, loaded>>
          /\ InBuffer(c) = InBuffer(c)'
          /\ sock'[c] = "open" => sock[c] = "open"
      BY <2>7 DEF HubStep, Disconnect, dataVars, DataInv, BufferTypeOK, InBuffer, UpdatesUpTo
    <3>2. CASE Join(d)
      <4>1. loaded[d] = NoItem
        BY <3>2 DEF Join, ReachInv, LoadedAfterJoin
      <4>2. pc'[d] = "joined"
        BY <3>2 DEF Join, Goto, HubInv, HubTypeOK
      <4>3. d # c
        BY <2>3, <3>1, <4>1, <4>2 DEF Owed
      <4>4. pc'[c] = pc[c] /\ sessionOf'[c] = sessionOf[c]
        BY <3>2, <4>3 DEF Join, Goto, HubInv, HubTypeOK
      <4>. QED  BY <2>3, <2>6, <3>1, <4>4 DEF Owed
    <3>3. CASE ~Join(d)
      <4>1. sessionOf' = sessionOf /\ (pc'[c] = pc[c] \/ pc'[c] \notin {"joined", "serving"})
        BY <2>7, <3>3 DEF HubStep, Disconnect, Acquire, Refuse, Reject, LoadFails, ReadPumpEnds, Unregister,
                    DetachBusy, DetachLast, DetachAgainInHandler, Release, Goto, HubInv, HubTypeOK
      <4>. QED  BY <2>3, <2>6, <3>1, <4>1 DEF Owed
    <3>. QED  BY <3>2, <3>3
  <2>8. ASSUME NEW d \in Conn, LoadUpdates(d) PROVE Reached(c, i)'
    <3>1. /\ UNCHANGED <<hubVars, store, loop, stream, sock>>
          /\ loaded' = [loaded EXCEPT ![d] = [j \in DOMAIN store |-> store[j].upd]]
          /\ InBuffer(c) = InBuffer(c)'
      BY <2>8 DEF LoadUpdates, InBuffer, UpdatesUpTo
    <3>2. CASE d = c
      <4>1. pc[c] = "joined" /\ loaded'[c] = [j \in DOMAIN store |-> store[j].upd]
        BY <2>8, <3>1, <3>2 DEF LoadUpdates, DataInv, LoadsAreDurable
      <4>. QED  BY <2>3, <3>1, <4>1 DEF Reached, hubVars
    <3>3. CASE d # c
      <4>1. loaded'[c] = loaded[c]
        BY <3>1, <3>3 DEF DataInv, LoadsAreDurable
      <4>. QED  BY <2>3, <2>4, <3>1, <4>1 DEF Owed, Reached, hubVars
    <3>. QED  BY <3>2, <3>3
  <2>9. ASSUME NEW d \in Conn, Replay(d) PROVE Reached(c, i)'
    <3>. DEFINE old == [j \in DOMAIN loaded[d] |-> UpdateFrame(loaded[d][j])]
                last == IF d \in Writer THEN <<>> ELSE <<ReadonlyFrame>>
                new == old \o <<Step1Frame>> \o last
                fs == [e \in Conn |-> IF e = d THEN new ELSE <<>>]
    <3>1. /\ UNCHANGED <<store, loop, loaded>> /\ sessionOf' = sessionOf /\ Enqueue(fs)
          /\ pc' = [pc EXCEPT ![d] = "serving"] /\ loaded[d] # NoItem
      BY <2>9 DEF Replay, EnqueueTo, StartPumps, Goto
    <3>2. loaded[d] \in Seq(Update) /\ DOMAIN loaded[d] = 1..Len(loaded[d]) /\ Len(loaded[d]) \in Nat
      BY <3>1, DurableIsUpdates, SeqMonotonic, LenProperties DEF DataInv, LoadsAreDurable
    <3>3. \A j \in 1..Len(loaded[d]) : UpdateFrame(loaded[d][j]) \in Frame
      BY <3>2, ElementOfSeq DEF UpdateFrame, Frame
    <3>4. old \in Seq(Frame) /\ Len(old) = Len(loaded[d])
      BY <3>2, <3>3
    <3>5. <<Step1Frame>> \in Seq(Frame) /\ last \in Seq(Frame) /\ <<>> \in Seq(Frame)
      <4>1. Step1Frame \in Frame /\ ReadonlyFrame \in Frame
        BY DEF Step1Frame, ReadonlyFrame, Frame
      <4>. QED  BY <4>1
    <3>6. /\ new \in Seq(Frame) /\ Len(new) \in Nat /\ Len(new) >= Len(old)
          /\ \A j \in 1..Len(old) : new[j] = old[j]
      <4>. DEFINE front == old \o <<Step1Frame>>
      <4>1. /\ front \in Seq(Frame) /\ Len(front) = Len(old) + Len(<<Step1Frame>>)
            /\ \A j \in 1..Len(old) + Len(<<Step1Frame>>) :
                 front[j] = IF j <= Len(old) THEN old[j] ELSE <<Step1Frame>>[j - Len(old)]
        BY <3>4, <3>5, ConcatProperties
      <4>2. /\ new \in Seq(Frame) /\ Len(new) = Len(front) + Len(last)
            /\ \A j \in 1..Len(front) + Len(last) :
                 new[j] = IF j <= Len(front) THEN front[j] ELSE last[j - Len(front)]
        BY <3>5, <4>1, ConcatProperties
      <4>3. Len(last) \in Nat /\ Len(old) \in Nat /\ Len(<<Step1Frame>>) = 1
        BY <3>4, <3>5, LenProperties
      <4>4. Len(front) = Len(old) + 1 /\ Len(new) = Len(old) + 1 + Len(last)
        BY <4>1, <4>2, <4>3
      <4>5. \A j \in 1..Len(old) : new[j] = front[j] /\ front[j] = old[j]
        BY <4>1, <4>2, <4>3, <4>4
      <4>. QED  BY <4>2, <4>3, <4>4, <4>5
    <3>7. \A e \in Conn : fs[e] \in Seq(Frame)
      BY <3>5, <3>6
    <3>8. /\ sock[c] = "open" /\ InBuffer(c) \subseteq InBuffer(c)'
          /\ \A j \in DOMAIN fs[c] : fs[c][j].kind = "update" => fs[c][j].upd \in InBuffer(c)'
      BY <2>3, <3>1, <3>7, <1>a DEF Owed
    <3>9. CASE d # c
      BY <2>6, <3>1, <3>8, <3>9 DEF HubInv, HubTypeOK
    <3>10. CASE d = c
      <4>1. pc[c] = "joined"
        BY <2>9, <3>10 DEF Replay, StartPumps
      <4>2. \A j \in DOMAIN loaded[c] : loaded[c][j] \in InBuffer(c)'
        <5>1. ASSUME NEW j \in DOMAIN loaded[c] PROVE loaded[c][j] \in InBuffer(c)'
          <6>1. j \in 1..Len(old) /\ new[j] = UpdateFrame(loaded[c][j])
            BY <3>2, <3>4, <3>6, <3>10, <5>1
          <6>2. j \in DOMAIN new
            BY <3>4, <3>6, <6>1, LenProperties
          <6>. QED  BY <3>8, <3>10, <6>1, <6>2 DEF UpdateFrame
        <5>. QED  BY <5>1
      <4>. QED  BY <2>3, <2>4, <3>1, <3>8, <4>1, <4>2 DEF Owed, Reached
    <3>. QED  BY <3>9, <3>10
  <2>10. ASSUME NEW s \in Session, FanOut(s) PROVE Reached(c, i)'
    <3>. DEFINE from == loop[s].item.from
                u == loop[s].item.upd
                fs == [d \in Conn |-> IF d = from THEN <<AckFrame(u)>>
                                      ELSE IF d \in clients[s] THEN <<UpdateFrame(u)>> ELSE <<>>]
    <3>1. /\ UNCHANGED <<hubVars, store, loaded>> /\ Enqueue(fs)
          /\ loop' = [loop EXCEPT ![s] = IdleLoop] /\ loop[s].stage = "persisted"
      BY <2>10 DEF FanOut
    <3>2. u \in Update
      BY <3>1 DEF DataInv, LoopTypeOK, Item
    <3>3. \A d \in Conn : fs[d] \in Seq(Frame)
      <4>1. AckFrame(u) \in Frame /\ UpdateFrame(u) \in Frame
        BY <3>2 DEF AckFrame, UpdateFrame, Frame
      <4>. QED  BY <4>1
    <3>4. /\ sock[c] = "open" /\ InBuffer(c) \subseteq InBuffer(c)'
          /\ \A j \in DOMAIN fs[c] : fs[c][j].kind = "update" => fs[c][j].upd \in InBuffer(c)'
      BY <2>3, <3>1, <3>3, <1>a DEF Owed
    <3>5. Owed(c, i) /\ Reached(c, i) /\ i \in DOMAIN store
      BY <2>3, <2>4, <3>1, <3>4 DEF Owed, hubVars
    <3>6. CASE sessionOf[c] = s /\ u = store[i].upd
      <4>1. store[i].from = from
        BY <3>1, <3>5, <3>6 DEF ReachInv, RowsKeepOrigin
      <4>2. c # from /\ c \in clients[s]
        BY <3>5, <3>6, <4>1 DEF Owed, MembersInv
      <4>3. fs[c] = <<UpdateFrame(u)>>
        BY <4>2
      <4>4. u \in InBuffer(c)'
        <5>1. /\ <<UpdateFrame(u)>>[1] = UpdateFrame(u) /\ 1 \in DOMAIN <<UpdateFrame(u)>>
              /\ UpdateFrame(u).kind = "update" /\ UpdateFrame(u).upd = u
          BY DEF UpdateFrame
        <5>2. 1 \in DOMAIN fs[c] /\ fs[c][1] = UpdateFrame(u)
          BY <4>3, <5>1
        <5>. QED  BY <3>4, <5>1, <5>2
      <4>. QED  BY <3>1, <3>6, <4>4 DEF Reached
    <3>7. CASE ~(sessionOf[c] = s /\ u = store[i].upd)
      BY <3>1, <3>4, <3>5, <3>7 DEF Reached, hubVars, DataInv, LoopTypeOK
    <3>. QED  BY <3>6, <3>7
  <2>11. ASSUME NEW s \in Session, AppendCommits(s) \/ AppendCommitsUnseen(s) PROVE Reached(c, i)'
    <3>1. /\ UNCHANGED <<hubVars, stream, sock, loaded>> /\ loop[s].stage = "appending"
          /\ InBuffer(c) = InBuffer(c)'
      <4>1. UNCHANGED <<hubVars, stream, sock, loaded>> /\ loop[s].stage = "appending"
        BY <2>11 DEF AppendCommits, AppendCommitsUnseen
      <4>. QED  BY <4>1 DEF InBuffer, UpdatesUpTo
    <3>2. PICK ok \in BOOLEAN :
            /\ store' = Append(store, RowOf(s, ok))
            /\ ok => loop' = [loop EXCEPT ![s].stage = "persisted"]
      BY <2>11 DEF AppendCommits, AppendCommitsUnseen
    <3>3. /\ loop[s].item \in Item /\ RowOf(s, ok) \in Row
          /\ RowOf(s, ok).by = s /\ RowOf(s, ok).ok = ok /\ RowOf(s, ok).upd = loop[s].item.upd
      <4>1. loop[s].item \in Item
        BY <3>1 DEF DataInv, LoopTypeOK
      <4>. QED  BY <4>1 DEF RowOf, Row, Item
    <3>4. CASE i \in DOMAIN store
      <4>1. store'[i] = store[i]
        BY <3>2, <3>3, <3>4, AppendProperties, LenProperties DEF DataInv, LogTypeOK
      <4>2. Reached(c, i)
        BY <2>3, <2>4, <3>1, <3>4, <4>1 DEF Owed, hubVars
      <4>3. \A t \in Session \ {s} : loop'[t] = loop[t]
        BY <2>11 DEF AppendCommits, AppendCommitsUnseen, DataInv, LoopTypeOK
      <4>4. sessionOf[c] \in Session
        BY <2>3, <2>5, <3>1 DEF Owed, hubVars
      <4>. QED  BY <3>1, <4>1, <4>2, <4>3, <4>4 DEF Reached, hubVars
    <3>5. CASE i \notin DOMAIN store
      <4>1. store'[i] = RowOf(s, ok)
        BY <3>2, <3>3, <3>5, AppendProperties, LenProperties DEF DataInv, LogTypeOK
      <4>2. sessionOf'[c] = s /\ ok
        BY <2>3, <3>3, <4>1 DEF Owed
      <4>3. loop' = [loop EXCEPT ![s] = [loop[s] EXCEPT !.stage = "persisted"]]
        BY <3>2, <4>2 DEF DataInv, LoopTypeOK
      <4>4. loop'[s] = [loop[s] EXCEPT !.stage = "persisted"]
        BY <4>3 DEF DataInv, LoopTypeOK
      <4>5. loop'[s].stage = "persisted" /\ loop'[s].item.upd = loop[s].item.upd
        BY <4>4 DEF DataInv, LoopTypeOK
      <4>. QED  BY <3>3, <4>1, <4>2, <4>5 DEF Reached
    <3>. QED  BY <3>4, <3>5
  <2>12. ASSUME NEW s \in Session, LoopTakes(s) \/ AppendFails(s) \/ LoopExits(s) PROVE Reached(c, i)'
    <3>1. UNCHANGED <<hubVars, store, stream, sock, loaded>> /\ loop[s].stage # "persisted"
      BY <2>12 DEF LoopTakes, AppendFails, LoopExits
    <3>2. \A t \in Session : loop[t].stage = "persisted" => loop'[t] = loop[t]
      BY <2>12, <3>1 DEF LoopTakes, AppendFails, LoopExits, DataInv, LoopTypeOK
    <3>. QED  BY <2>3, <2>6, <3>1, <3>2 DEF Owed, InBuffer, UpdatesUpTo, hubVars
  <2>13. ASSUME NEW d \in Conn, RefuseReadonly(d) PROVE Reached(c, i)'
    <3>. DEFINE fs == [e \in Conn |-> IF e = d THEN <<ReadonlyFrame>> ELSE <<>>]
    <3>1. UNCHANGED <<hubVars, store, loop, loaded>> /\ Enqueue(fs)
      BY <2>13 DEF RefuseReadonly, Arrives, EnqueueTo
    <3>2. \A e \in Conn : fs[e] \in Seq(Frame)
      <4>1. ReadonlyFrame \in Frame
        BY DEF ReadonlyFrame, Frame
      <4>. QED  BY <4>1
    <3>3. sock[c] = "open" /\ InBuffer(c) \subseteq InBuffer(c)'
      BY <2>3, <3>1, <3>2, <1>a DEF Owed
    <3>. QED  BY <2>6, <3>1, <3>3 DEF hubVars
  <2>14. ASSUME NEW d \in Conn,
                WritePump(d) \/ AcceptUpdate(d) \/ DropOnFullIncoming(d) \/ CloseRateLimited(d)
         PROVE  Reached(c, i)'
    <3>1. /\ UNCHANGED <<hubVars, store, loop, stream, loaded>>
          /\ sock'[c] = "open" => sock[c] = "open"
      BY <2>14 DEF WritePump, AcceptUpdate, DropOnFullIncoming, CloseRateLimited, Arrives, DataInv,
                   BufferTypeOK
    <3>. QED  BY <2>3, <2>6, <3>1 DEF Owed, InBuffer, UpdatesUpTo, hubVars
  <2>15. CASE Restart
    <3>1. sock'[c] = "closed" \/ pc'[c] = "idle"
      BY <2>15 DEF Restart, LoseMemory, ProcessRestarts, DetachAgainInPump
    <3>. QED  BY <2>3, <3>1 DEF Owed
  <2>16. CASE UNCHANGED vars
    BY <2>3, <2>6, <2>16 DEF vars, hubVars, dataVars, Owed, InBuffer, UpdatesUpTo
  <2>. QED
    BY <2>7, <2>8, <2>9, <2>10, <2>11, <2>12, <2>13, <2>14, <2>15, <2>16 DEF Next, LoopStep
<1>3. Spec => []ReachInv
  BY <1>1, DataInvariant, NextPlaces, <1>2, DocSpecImpliesHubSpec, MembersStayRegistered, PTL
     DEF Spec
<1>. QED  BY <1>3, PTL DEF ReachInv
=============================================================================
