--------------------------- MODULE PresenceProofs ---------------------------
(***************************************************************************)
(* Proofs about Presence, for any number of clients, connections, renewals *)
(* and faults: clocks stay close, two new states are enough to be seen,    *)
(* and whoever has gone is removed everywhere.                             *)
(***************************************************************************)
EXTENDS Presence, FiniteSetTheorems, WellFoundedInduction, SequenceTheorems, TLAPS

USE PresenceAssumption

\* What is in a queue, whatever its order.
In(queue) == {queue[i] : i \in DOMAIN queue}

Sent == [from : Conn, frame : Frame]
-----------------------------------------------------------------------------
(***************************************************************************)
(* Clocks.                                                                 *)
(***************************************************************************)

\* A client that has a connection has one the node holds, and nothing waits
\* for one; a client that has none receives nothing.
LinksOK ==
    /\ \A c \in Client : link[c] # 0 => Here(c) \in open /\ outbox[c] = <<>> /\ c \notin gone
    /\ \A c \in Client : link[c] = 0 => down[c] = <<>>
    /\ \A k \in open : k[2] <= made

\* A client sends states of itself only, and what waits for a connection is
\* not ahead of its subject, removals included.
SentByOwner ==
    /\ \A c \in Client : \A f \in In(outbox[c]) :
          /\ f.here => About(f) \subseteq {c}
          /\ \A p \in Client : f.clock[p] <= clock[p][p]
    /\ \A m \in In(channel) : m.frame.here => About(m.frame) \subseteq {m.from[1]}

\* The last word of a client on itself that waits is its newest, so that the
\* node remembers the newest clock when it has read them all.
LastIsNewest ==
    \A c \in Client : \A i \in DOMAIN outbox[c] :
        /\ c \in About(outbox[c][i])
        /\ \A j \in DOMAIN outbox[c] : j > i => c \notin About(outbox[c][j])
        => outbox[c][i].clock[c] = clock[c][c]

\* Who is shown is shown with a clock of its own making: a removal may be one
\* ahead, but it hides.
ShownIsKnown ==
    \A c \in Client :
        clock[c][c] > 0 /\ \A p \in shown[c] : clock[c][p] > 0 /\ clock[c][p] <= clock[p][p]

\* ClocksStayClose, with the queues as sets.
FramesAreClose ==
    \A p \in Client :
        /\ \A c \in Client : clock[c][p] <= clock[p][p] + 1
        /\ \A k \in open : memory[k][p] <= clock[p][p]
        /\ \A c \in Client : \A f \in In(down[c]) :
              f.clock[p] <= clock[p][p] + (IF f.here THEN 0 ELSE 1)
        /\ \A m \in In(channel) :
              m.frame.clock[p] <= clock[p][p] + (IF m.frame.here THEN 0 ELSE 1)

ClockInv ==
    /\ PresenceTypeOK /\ LinksOK /\ SentByOwner /\ LastIsNewest /\ ShownIsKnown
    /\ FramesAreClose

\* A queue that grows by one and that loses its first.
LEMMA Queues ==
    ASSUME NEW S, NEW q \in Seq(S)
    PROVE  /\ In(<<>>) = {} /\ In(q) \subseteq S
           /\ \A e \in S : Append(q, e) \in Seq(S) /\ In(Append(q, e)) = In(q) \cup {e}
           /\ q # <<>> => /\ Tail(q) \in Seq(S) /\ Head(q) \in S
                          /\ In(q) = {Head(q)} \cup In(Tail(q))
<1>1. DOMAIN q = 1..Len(q) /\ Len(q) \in Nat /\ \A i \in 1..Len(q) : q[i] \in S
  OBVIOUS
<1>2. ASSUME NEW e \in S PROVE Append(q, e) \in Seq(S) /\ In(Append(q, e)) = In(q) \cup {e}
  <2>1. /\ Append(q, e) \in Seq(S) /\ DOMAIN Append(q, e) = 1..(Len(q) + 1)
        /\ \A i \in 1..Len(q) : Append(q, e)[i] = q[i]
        /\ Append(q, e)[Len(q) + 1] = e
    OBVIOUS
  <2>. QED  BY <1>1, <2>1 DEF In
<1>3. ASSUME q # <<>>
      PROVE  Tail(q) \in Seq(S) /\ Head(q) \in S /\ In(q) = {Head(q)} \cup In(Tail(q))
  <2>1. /\ Tail(q) \in Seq(S) /\ Head(q) = q[1] /\ Len(q) > 0
        /\ DOMAIN Tail(q) = 1..(Len(q) - 1)
        /\ \A i \in 1..(Len(q) - 1) : Tail(q)[i] = q[i + 1]
    BY <1>3
  <2>2. In(Tail(q)) \subseteq In(q) /\ Head(q) \in In(q)
    BY <1>1, <2>1 DEF In
  <2>3. ASSUME NEW i \in 1..Len(q) PROVE q[i] \in {Head(q)} \cup In(Tail(q))
    <3>1. CASE i = 1
      BY <2>1, <3>1
    <3>2. CASE i # 1
      <4>1. i - 1 \in 1..(Len(q) - 1) /\ Tail(q)[i - 1] = q[i]
        BY <1>1, <2>1, <3>2
      <4>. QED  BY <2>1, <4>1 DEF In
    <3>. QED  BY <3>1, <3>2
  <2>4. In(q) \subseteq {Head(q)} \cup In(Tail(q))
    BY <1>1, <2>3 DEF In
  <2>. QED  BY <1>1, <2>1, <2>2, <2>4
<1>4. In(<<>>) = {} /\ In(q) \subseteq S
  BY <1>1 DEF In
<1>. QED  BY <1>2, <1>3, <1>4

\* A frame about one client.
LEMMA OnlyAboutOne ==
    ASSUME NEW p \in Client, NEW n \in Nat, NEW here \in BOOLEAN
    PROVE  /\ Only(p, n, here) \in Frame /\ Only(p, n, here).here = here
           /\ Only(p, n, here).clock[p] = n
           /\ \A q \in Client : q # p => Only(p, n, here).clock[q] = 0
           /\ About(Only(p, n, here)) = IF n = 0 THEN {} ELSE {p}
BY DEF Only, Frame, About, Nobody

\* A connection's frames are taken up to the capacity.
LEMMA QueuedFrames ==
    ASSUME PresenceTypeOK, NEW k \in Conn, NEW fs \in Seq(Frame)
    PROVE  /\ Queued(k, fs) \in Seq(Sent)
           /\ In(Queued(k, fs)) \subseteq
                 In(channel) \cup {[from |-> k, frame |-> f] : f \in In(fs)}
<1>. DEFINE room == Waiting - Len(channel)
            n == IF room < Len(fs) THEN room ELSE Len(fs)
            more == [i \in 1..n |-> [from |-> k, frame |-> fs[i]]]
<1>1. channel \in Seq(Sent) /\ Len(channel) \in Nat /\ Len(fs) \in Nat /\ n \in Int /\ n <= Len(fs)
  BY DEF PresenceTypeOK, Sent
<1>2. \A i \in 1..n : fs[i] \in In(fs) /\ fs[i] \in Frame
  BY <1>1, ElementOfSeq DEF In
<1>3. more \in Seq(Sent) /\ In(more) \subseteq {[from |-> k, frame |-> f] : f \in In(fs)}
  <2>1. \A i \in 1..n : more[i] \in Sent
    BY <1>2 DEF Sent
  <2>2. more \in Seq(Sent)
    <3>1. CASE n < 0
      BY <1>1, <3>1
    <3>2. CASE n >= 0
      <4>1. n \in Nat
        BY <1>1, <3>2
      <4>. HIDE DEF n
      <4>. QED  BY <2>1, <4>1
    <3>. QED  BY <1>1, <3>1, <3>2
  <2>. QED  BY <1>2, <2>2 DEF In
<1>. HIDE DEF more
<1>4. Queued(k, fs) = channel \o more
  BY DEF Queued, more
<1>5. In(channel \o more) \subseteq In(channel) \cup In(more)
  BY <1>1, <1>3 DEF In
<1>. QED  BY <1>1, <1>3, <1>4, <1>5

\* Where a frame goes, and what the node remembers of it.
LEMMA SendKeeps ==
    ASSUME PresenceTypeOK, LinksOK, NEW c \in Client, NEW f \in Frame, Send(c, f)
    PROVE  /\ open' = open
           /\ outbox' \in [Client -> Seq(Frame)] /\ channel' \in Seq(Sent)
           /\ memory' \in [Conn -> [Client -> Nat]]
           /\ link[c] = 0 => /\ outbox' = [outbox EXCEPT ![c] = Append(@, f)]
                             /\ UNCHANGED <<memory, channel>>
           /\ link[c] # 0 =>
                 /\ outbox' = outbox /\ Here(c) \in open /\ Here(c)[1] = c
                 /\ In(channel') \subseteq In(channel) \cup {[from |-> Here(c), frame |-> f]}
                 /\ \A k \in Conn, p \in Client :
                       memory'[k][p] = IF k = Here(c) /\ p \in About(f) THEN f.clock[p]
                                       ELSE memory[k][p]
<1>1. CASE link[c] = 0
  <2>1. outbox' = [outbox EXCEPT ![c] = Append(@, f)] /\ UNCHANGED nodeVars
    BY <1>1 DEF Send
  <2>2. Append(outbox[c], f) \in Seq(Frame)
    BY DEF PresenceTypeOK
  <2>. QED  BY <1>1, <2>1, <2>2 DEF nodeVars, PresenceTypeOK, Sent
<1>2. CASE link[c] # 0
  <2>1. /\ memory' = Remembered(Here(c), f) /\ channel' = Queued(Here(c), <<f>>)
        /\ UNCHANGED <<outbox, open>>
    BY <1>2 DEF Send
  <2>2. Here(c) \in open /\ Here(c) \in Conn /\ Here(c)[1] = c
    BY <1>2 DEF LinksOK, PresenceTypeOK, Here
  <2>3. <<f>> \in Seq(Frame) /\ In(<<f>>) = {f}
    BY DEF In
  <2>4. /\ channel' \in Seq(Sent)
        /\ In(channel') \subseteq In(channel) \cup {[from |-> Here(c), frame |-> f]}
    <3>. DEFINE from == Here(c)
    <3>1. from \in Conn
      BY <2>2
    <3>. HIDE DEF from
    <3>2. /\ Queued(from, <<f>>) \in Seq(Sent)
          /\ In(Queued(from, <<f>>)) \subseteq
                In(channel) \cup {[from |-> from, frame |-> g] : g \in In(<<f>>)}
      BY <2>3, <3>1, QueuedFrames
    <3>3. {[from |-> from, frame |-> g] : g \in In(<<f>>)} = {[from |-> from, frame |-> f]}
      BY <2>3
    <3>. QED  BY <2>1, <3>2, <3>3 DEF from
  <2>5. \A p \in Client : f.clock[p] \in Nat
    BY DEF Frame
  <2>6. /\ memory' \in [Conn -> [Client -> Nat]]
        /\ \A k \in Conn, p \in Client :
              memory'[k][p] = IF k = Here(c) /\ p \in About(f) THEN f.clock[p]
                              ELSE memory[k][p]
    BY <2>1, <2>2, <2>5 DEF Remembered, PresenceTypeOK
  <2>. QED  BY <1>2, <2>1, <2>2, <2>4, <2>6 DEF PresenceTypeOK
<1>. QED  BY <1>1, <1>2

\* What a client says first.
Greeting(c) == Only(c, clock[c][c], TRUE)

\* A new connection sends the client's state and what has waited; the node, which
\* remembers the last word on everybody, then has the client's newest clock.
LEMMA ConnectKeeps ==
    ASSUME ClockInv, NEW c \in Client, Connect(c), NEW k, k = <<c, made + 1>>
    PROVE  /\ k \in Conn \ open /\ open' = open \cup {k} /\ channel' \in Seq(Sent)
           /\ In(channel') \subseteq In(channel) \cup
                {[from |-> k, frame |-> f] : f \in {Greeting(c)} \cup In(outbox[c])}
           /\ \A f \in {Greeting(c)} \cup In(outbox[c]) :
                 /\ f \in Frame
                 /\ f.here => About(f) \subseteq {c}
                 /\ \A p \in Client : f.clock[p] \in Nat /\ f.clock[p] <= clock[p][p]
           /\ memory' \in [Conn -> [Client -> Nat]]
           /\ \A j \in Conn : j # k => memory'[j] = memory[j]
           /\ \A p \in Client : memory'[k][p] <= clock[p][p]
           /\ memory'[k][c] = clock[c][c]
<1>. DEFINE state == Only(c, clock[c][c], TRUE)
            fs == <<state>> \o outbox[c]
            last(p) == {i \in DOMAIN fs : p \in About(fs[i])}
            newest(p) == CHOOSE i \in last(p) : \A j \in last(p) : j <= i
            read(p) == IF last(p) = {} THEN 0 ELSE fs[newest(p)].clock[p]
<1>. USE DEF ClockInv
<1>1. /\ outbox[c] \in Seq(Frame) /\ In(outbox[c]) \subseteq Frame /\ clock[c][c] \in Nat
      /\ clock[c][c] > 0
  BY Queues DEF PresenceTypeOK, ShownIsKnown
<1>2. /\ state \in Frame /\ state.here /\ About(state) = {c} /\ state.clock[c] = clock[c][c]
      /\ \A p \in Client : p # c => state.clock[p] = 0
  <2>. DEFINE n == clock[c][c]
  <2>1. n \in Nat /\ n # 0
    BY <1>1
  <2>. HIDE DEF n
  <2>2. /\ Only(c, n, TRUE) \in Frame /\ Only(c, n, TRUE).here = TRUE
        /\ Only(c, n, TRUE).clock[c] = n
        /\ \A q \in Client : q # c => Only(c, n, TRUE).clock[q] = 0
        /\ About(Only(c, n, TRUE)) = IF n = 0 THEN {} ELSE {c}
    BY <2>1, OnlyAboutOne
  <2>. QED  BY <2>1, <2>2 DEF n
<1>. HIDE DEF state
<1>3. k \in Conn \ open
  <2>. HIDE DEF fs, last, newest, read, ClockInv
  <2>a. made \in 0..MaxLinks /\ made < MaxLinks /\ MaxLinks \in Nat
    <3>1. made < MaxLinks
      BY Zenon DEF Connect
    <3>2. made \in 0..MaxLinks
      BY Zenon DEF ClockInv, PresenceTypeOK
    <3>. QED  BY <3>1, <3>2, PresenceAssumption
  <2>b. ASSUME NEW m \in Nat, NEW n \in Nat, n < m PROVE n + 1 \in 1..m /\ ~(n + 1 <= n)
    BY <2>b
  <2>1. made + 1 \in 1..MaxLinks /\ ~(made + 1 <= made)
    BY <2>a, <2>b
  <2>2. k \in Conn /\ k[2] = made + 1
    BY <2>1 DEF Conn
  <2>. QED  BY <2>1, <2>2 DEF ClockInv, LinksOK
<1>4. /\ fs \in Seq(Frame) /\ Len(fs) = Len(outbox[c]) + 1 /\ Len(outbox[c]) \in Nat
      /\ DOMAIN fs = 1..Len(fs) /\ fs[1] = state
      /\ \A i \in 2..Len(fs) : i - 1 \in DOMAIN outbox[c] /\ fs[i] = outbox[c][i - 1]
      /\ \A i \in DOMAIN outbox[c] : i + 1 \in 2..Len(fs) /\ fs[i + 1] = outbox[c][i]
  BY <1>1, <1>2
<1>. HIDE DEF fs
<1>5. In(fs) \subseteq {state} \cup In(outbox[c])
  <2>1. ASSUME NEW i \in 1..Len(fs) PROVE fs[i] \in {state} \cup In(outbox[c])
    <3>1. i = 1 \/ i \in 2..Len(fs)
      BY <1>4
    <3>. QED  BY <1>4, <3>1 DEF In
  <2>. QED  BY <1>4, <2>1 DEF In
<1>6. /\ open' = open \cup {k} /\ channel' = Queued(k, fs)
      /\ memory' = [memory EXCEPT ![k] = [p \in Client |-> read(p)]]
  BY DEF Connect, fs, state
<1>7. channel' \in Seq(Sent) /\ In(channel') \subseteq In(channel) \cup
        {[from |-> k, frame |-> f] : f \in {state} \cup In(outbox[c])}
  <2>1. /\ channel' \in Seq(Sent)
        /\ In(channel') \subseteq In(channel) \cup {[from |-> k, frame |-> f] : f \in In(fs)}
    BY <1>3, <1>4, <1>6, QueuedFrames
  <2>. QED  BY <1>5, <2>1
<1>8. \A p \in Client : \A f \in {state} \cup In(outbox[c]) :
        f.clock[p] \in Nat /\ f.clock[p] <= clock[p][p]
  <2>1. ASSUME NEW p \in Client, NEW f \in In(outbox[c])
        PROVE  f.clock[p] \in Nat /\ f.clock[p] <= clock[p][p]
    BY <1>1, <2>1 DEF SentByOwner, Frame
  <2>2. ASSUME NEW p \in Client PROVE state.clock[p] \in Nat /\ state.clock[p] <= clock[p][p]
    <3>1. clock[p][p] \in Nat
      BY DEF PresenceTypeOK
    <3>. QED  BY <1>2, <3>1
  <2>. QED  BY <2>1, <2>2
<1>8f. ASSUME NEW f \in {state} \cup In(outbox[c])
       PROVE  /\ f \in Frame
              /\ f.here => About(f) \subseteq {c}
  <2>1. CASE f \in In(outbox[c])
    BY <1>1, <2>1 DEF SentByOwner
  <2>2. CASE f = state
    BY <1>2, <2>2
  <2>. QED  BY <2>1, <2>2
<1>9. ASSUME NEW p \in Client, last(p) # {}
      PROVE  newest(p) \in last(p) /\ \A j \in last(p) : j <= newest(p)
  <2>1. last(p) \in SUBSET Nat /\ Len(fs) \in Nat /\ \A j \in last(p) : j <= Len(fs)
    BY <1>4
  <2>. HIDE DEF last
  <2>2. \E i \in last(p) : \A j \in last(p) : j <= i
    \* The least upper bound of what is not empty.
    <3>. HIDE DEF ClockInv
    <3>. DEFINE Less == {q \in Nat \X Nat : q[1] < q[2]}
                Bounds == {m \in Nat : \A j \in last(p) : j <= m}
    <3>1. IsWellFoundedOn(Less, Nat)
      BY NatLessThanWellFounded DEF OpToRel
    <3>2. Len(fs) \in Bounds /\ Bounds \subseteq Nat
      BY <2>1
    <3>. HIDE DEF Less, Bounds
    <3>3. PICK m \in Bounds : \A b \in Bounds : <<b, m>> \notin Less
      BY <3>1, <3>2, WFMin
    <3>4. ASSUME NEW b \in Bounds PROVE b \in Nat /\ m \in Nat /\ ~(b < m)
      BY <3>2, <3>3 DEF Less
    <3>5. m - 1 \notin Bounds /\ m \in Nat
      BY <3>3, <3>4
    <3>6. \A j \in last(p) : j \in Nat /\ j <= m
      BY <2>1, <3>3 DEF Bounds
    <3>7. \E i \in last(p) : ~(i <= m - 1)
      <4>1. CASE m = 0
        <5>1. PICK i \in last(p) : i \in Nat
          BY <1>9, <3>6
        <5>2. ~(i <= 0 - 1)
          BY <5>1
        <5>. QED  BY <4>1, <5>1, <5>2
      <4>2. CASE m # 0
        <5>1. m - 1 \in Nat
          BY <3>5, <4>2
        <5>. QED  BY <3>5, <5>1 DEF Bounds
      <4>. QED  BY <4>1, <4>2
    <3>8. ASSUME NEW i \in Nat, i <= m, ~(i <= m - 1) PROVE i = m
      BY <3>5, <3>8
    <3>. QED  BY <3>6, <3>7, <3>8
  <2>. QED  BY <2>2
<1>10. ASSUME NEW p \in Client PROVE read(p) \in Nat /\ read(p) <= clock[p][p]
  <2>1. CASE last(p) = {}
    BY <2>1 DEF PresenceTypeOK
  <2>2. CASE last(p) # {}
    <3>1. newest(p) \in DOMAIN fs
      BY <1>9, <2>2
    <3>2. fs[newest(p)] \in {state} \cup In(outbox[c])
      BY <1>5, <3>1 DEF In
    <3>. HIDE DEF newest
    <3>. QED  BY <1>8, <2>2, <3>2
  <2>. QED  BY <2>1, <2>2
<1>11. read(c) = clock[c][c]
  <2>1. 1 \in last(c)
    BY <1>2, <1>4
  <2>2. newest(c) \in last(c) /\ \A j \in last(c) : j <= newest(c)
    BY <1>9, <2>1
  <2>3. read(c) = fs[newest(c)].clock[c]
    BY <2>1
  <2>. HIDE DEF newest
  <2>4. CASE newest(c) = 1
    BY <1>2, <1>4, <2>3, <2>4
  <2>5. CASE newest(c) # 1
    <3>. DEFINE i == newest(c) - 1
    <3>1. i \in DOMAIN outbox[c] /\ fs[newest(c)] = outbox[c][i] /\ c \in About(outbox[c][i])
      <4>1. newest(c) \in 2..Len(fs)
        BY <1>4, <2>2, <2>5
      <4>. QED  BY <1>4, <2>2, <4>1
    <3>2. ASSUME NEW j \in DOMAIN outbox[c], j > i PROVE c \notin About(outbox[c][j])
      <4>1. j + 1 \in DOMAIN fs /\ fs[j + 1] = outbox[c][j]
        BY <1>4
      <4>2. ~(j + 1 <= newest(c))
        BY <1>1, <1>4, <2>2, <3>2
      <4>3. j + 1 \notin last(c)
        BY <2>2, <4>2
      <4>. QED  BY <4>1, <4>3
    <3>3. outbox[c][i].clock[c] = clock[c][c]
      BY <3>1, <3>2 DEF LastIsNewest
    <3>. QED  BY <2>3, <3>1, <3>3
  <2>. QED  BY <2>4, <2>5
<1>. HIDE DEF read
<1>12. /\ memory' \in [Conn -> [Client -> Nat]]
       /\ \A j \in Conn : j # k => memory'[j] = memory[j]
       /\ \A p \in Client : memory'[k][p] = read(p)
  BY <1>3, <1>6, <1>10 DEF PresenceTypeOK
<1>. QED  BY <1>3, <1>6, <1>7, <1>8, <1>8f, <1>10, <1>11, <1>12 DEF state, Greeting

\* What the node and a client do to the queues, as sets.
DeliveredTo(c, f) ==
    /\ f \in Frame /\ In(down[c]) = {f} \cup In(down'[c]) /\ link[c] # 0
    /\ clock' \in [Client -> [Client -> Nat]]
    /\ \A d, p \in Client : clock'[d][p] =
         IF d # c \/ p \notin Takes(c, f) THEN clock[d][p]
         ELSE IF p = c /\ ~f.here THEN f.clock[p] + 1 ELSE f.clock[p]
    /\ shown' \in [Client -> SUBSET Client] /\ down' \in [Client -> Seq(Frame)]
    /\ shown'[c] = IF f.here THEN shown[c] \cup Takes(c, f) ELSE shown[c] \ (Takes(c, f) \ {c})
    /\ \A d \in Client : d # c => shown'[d] = shown[d] /\ down'[d] = down[d]
    /\ UNCHANGED <<gone, link, made, outbox, open, memory, channel, renewals, faults, news, missed>>

RelayedOne(m) ==
    /\ m \in Sent /\ In(channel) = {m} \cup In(channel') /\ channel' \in Seq(Sent)
    /\ down' \in [Client -> Seq(Frame)]
    /\ \A d \in Client : IF Hears(d, m.from) THEN In(down'[d]) = In(down[d]) \cup {m.frame}
                         ELSE down'[d] = down[d]
    /\ news' \in [Client -> [mark : Nat, heard : Nat]]
    /\ \A p \in Client : news'[p] =
         IF m.frame.here
         THEN IF m.frame.clock[p] <= news[p].heard THEN news[p]
              ELSE [mark |-> news[p].mark, heard |-> m.frame.clock[p]]
         ELSE IF p \in About(m.frame) THEN [mark |-> clock[p][p], heard |-> 0] ELSE news[p]
    /\ UNCHANGED <<clock, shown, gone, link, made, outbox, open, memory, renewals, faults, missed>>

Ended(k, f) ==
    /\ f \in Frame /\ ~f.here
    /\ \A p \in Client : f.clock[p] = IF memory[k][p] = 0 THEN 0 ELSE memory[k][p] + 1
    /\ open' = open \ {k} /\ faults' \in 0..MaxFaults
    /\ down' \in [Client -> Seq(Frame)] /\ link' \in [Client -> 0..MaxLinks]
    /\ \A d \in Client :
         IF Here(d) = k THEN link'[d] = 0 /\ down'[d] = <<>> /\ missed'[d] = Client
         ELSE /\ link'[d] = link[d]
              /\ IF link[d] = 0 THEN down'[d] = down[d] /\ missed'[d] = missed[d] \cup {k[1]}
                 ELSE In(down'[d]) = In(down[d]) \cup {f} /\ missed'[d] = missed[d]
    /\ missed' \in [Client -> SUBSET Client]
    /\ news' \in [Client -> [mark : Nat, heard : Nat]]
    /\ \A p \in Client : \/ news'[p] = [mark |-> clock[p][p], heard |-> 0]
                         \/ news'[p] = news[p] /\ p \notin About(f)
    /\ UNCHANGED <<clock, shown, gone, made, outbox, memory, channel, renewals>>

LEMMA QueuesChange ==
    ASSUME PresenceTypeOK, LinksOK
    PROVE  /\ \A c \in Client : Deliver(c) => \E f \in Frame : DeliveredTo(c, f)
           /\ LoopRelays => \E m \in Sent : RelayedOne(m)
           /\ \A k \in open : Dropped(k) => \E f \in Frame : Ended(k, f)
<1>1. /\ \A c \in Client : /\ outbox[c] \in Seq(Frame) /\ down[c] \in Seq(Frame)
                           /\ shown[c] \subseteq Client
      /\ \A c, p \in Client : clock[c][p] \in Nat
      /\ \A k \in Conn, p \in Client : memory[k][p] \in Nat
      /\ \A f \in Frame, p \in Client : f.clock[p] \in Nat
      /\ \A m \in Sent : m.from \in Conn /\ m.frame \in Frame
      /\ channel \in Seq(Sent)
  <2>1. /\ \A c \in Client : /\ outbox[c] \in Seq(Frame) /\ down[c] \in Seq(Frame)
                             /\ shown[c] \subseteq Client
        /\ \A c, p \in Client : clock[c][p] \in Nat
        /\ \A k \in Conn, p \in Client : memory[k][p] \in Nat
    BY DEF PresenceTypeOK
  <2>2. channel \in Seq(Sent)
    BY DEF PresenceTypeOK, Sent
  <2>3. /\ \A f \in Frame, p \in Client : f.clock[p] \in Nat
        /\ \A m \in Sent : m.from \in Conn /\ m.frame \in Frame
    BY DEF Sent, Frame
  <2>. QED  BY <2>1, <2>2, <2>3
<1>2. ASSUME NEW ps PROVE Disturbed(ps) \in [Client -> [mark : Nat, heard : Nat]]
  BY <1>1 DEF Disturbed, PresenceTypeOK
<1>3. ASSUME NEW k \in Conn, NEW f \in Frame, NEW to, to = Relayed(k, f)
      PROVE  /\ to \in [Client -> Seq(Frame)]
             /\ \A d \in Client : IF Hears(d, k) THEN In(to[d]) = In(down[d]) \cup {f}
                                  ELSE to[d] = down[d]
  <2>1. \A d \in Client : /\ Append(down[d], f) \in Seq(Frame)
                          /\ In(Append(down[d], f)) = In(down[d]) \cup {f}
    BY <1>1, Queues
  <2>. QED  BY <1>1, <1>3, <2>1 DEF Relayed
<1>4. ASSUME NEW c \in Client, Deliver(c) PROVE \E f \in Frame : DeliveredTo(c, f)
  <2>f. PICK f : f = Head(down[c])
    OBVIOUS
  <2>t. PICK taken : taken = Takes(c, f)
    OBVIOUS
  <2>0. /\ down[c] # <<>> /\ down' = [down EXCEPT ![c] = Tail(@)]
        /\ clock' = [clock EXCEPT ![c] = [p \in Client |->
             IF p \notin taken THEN @[p]
             ELSE IF p = c /\ ~f.here THEN f.clock[p] + 1 ELSE f.clock[p]]]
        /\ shown' = [shown EXCEPT ![c] =
             IF f.here THEN @ \cup taken ELSE @ \ (taken \ {c})]
        /\ UNCHANGED <<gone, link, made, outbox, open, memory, channel, renewals, faults, news,
                       missed>>
    BY <1>4, <2>f, <2>t DEF Deliver, linkVars, nodeVars, bounds
  <2>1. /\ f \in Frame /\ In(down[c]) = {f} \cup In(Tail(down[c])) /\ Tail(down[c]) \in Seq(Frame)
        /\ link[c] # 0
    BY <1>1, <2>0, <2>f, Queues DEF LinksOK
  <2>2. taken \subseteq Client
    BY <2>t DEF Takes, About
  <2>3. /\ clock' \in [Client -> [Client -> Nat]]
        /\ \A d, p \in Client : clock'[d][p] =
             IF d # c \/ p \notin taken THEN clock[d][p]
             ELSE IF p = c /\ ~f.here THEN f.clock[p] + 1 ELSE f.clock[p]
    <3>1. ASSUME NEW p \in Client
          PROVE  (IF p \notin taken THEN clock[c][p]
                  ELSE IF p = c /\ ~f.here THEN f.clock[p] + 1 ELSE f.clock[p]) \in Nat
      BY <1>1, <2>1
    <3>2. clock \in [Client -> [Client -> Nat]]
      BY DEF PresenceTypeOK
    <3>. QED  BY <2>0, <3>1, <3>2
  <2>4. /\ shown' \in [Client -> SUBSET Client] /\ down' \in [Client -> Seq(Frame)]
        /\ shown'[c] = IF f.here THEN shown[c] \cup taken ELSE shown[c] \ (taken \ {c})
        /\ \A d \in Client : d # c => shown'[d] = shown[d] /\ down'[d] = down[d]
        /\ down'[c] = Tail(down[c])
    <3>1. shown \in [Client -> SUBSET Client] /\ down \in [Client -> Seq(Frame)]
      BY DEF PresenceTypeOK
    <3>2. (IF f.here THEN shown[c] \cup taken ELSE shown[c] \ (taken \ {c})) \in SUBSET Client
      BY <1>1, <2>2
    <3>. QED  BY <2>0, <2>1, <3>1, <3>2
  <2>. QED  BY <2>t, <2>0, <2>1, <2>3, <2>4 DEF DeliveredTo
<1>5. ASSUME LoopRelays PROVE \E m \in Sent : RelayedOne(m)
  <2>m. PICK m : m = Head(channel)
    OBVIOUS
  <2>0. /\ channel # <<>> /\ channel' = Tail(channel) /\ down' = Relayed(m.from, m.frame)
        /\ news' = IF m.frame.here
                   THEN [p \in Client |->
                           IF m.frame.clock[p] <= news[p].heard THEN news[p]
                           ELSE [news[p] EXCEPT !.heard = m.frame.clock[p]]]
                   ELSE Disturbed(About(m.frame))
        /\ UNCHANGED <<clock, shown, gone, link, made, outbox, open, memory, renewals, faults,
                       missed>>
    BY <1>5, <2>m DEF LoopRelays, linkVars, bounds
  <2>1. /\ m \in Sent /\ m.from \in Conn /\ m.frame \in Frame /\ channel' \in Seq(Sent)
        /\ In(channel) = {m} \cup In(channel')
    BY <1>1, <2>0, <2>m, Queues
  <2>2. /\ down' \in [Client -> Seq(Frame)]
        /\ \A d \in Client : IF Hears(d, m.from) THEN In(down'[d]) = In(down[d]) \cup {m.frame}
                             ELSE down'[d] = down[d]
    <3>1. down' \in [Client -> Seq(Frame)]
      BY <1>3, <2>0, <2>1
    <3>2. ASSUME NEW d \in Client
          PROVE  IF Hears(d, m.from) THEN In(down'[d]) = In(down[d]) \cup {m.frame}
                 ELSE down'[d] = down[d]
      <4>1. PICK k \in Conn, f \in Frame : k = m.from /\ f = m.frame
        BY <2>1
      <4>2. PICK to : to = Relayed(k, f)
        OBVIOUS
      <4>3. IF Hears(d, k) THEN In(to[d]) = In(down[d]) \cup {f} ELSE to[d] = down[d]
        BY <1>3, <4>2
      <4>4. down' = to
        BY <2>0, <4>1, <4>2
      <4>. QED  BY <4>1, <4>3, <4>4
    <3>. QED  BY <3>1, <3>2
  <2>3. /\ news' \in [Client -> [mark : Nat, heard : Nat]]
        /\ \A p \in Client : news'[p] =
             IF m.frame.here
             THEN IF m.frame.clock[p] <= news[p].heard THEN news[p]
                  ELSE [mark |-> news[p].mark, heard |-> m.frame.clock[p]]
             ELSE IF p \in About(m.frame) THEN [mark |-> clock[p][p], heard |-> 0] ELSE news[p]
    <3>0. news \in [Client -> [mark : Nat, heard : Nat]]
      BY DEF PresenceTypeOK
    <3>1. CASE m.frame.here
      <4>1. \A p \in Client :
              /\ m.frame.clock[p] \in Nat
              /\ [news[p] EXCEPT !.heard = m.frame.clock[p]]
                   = [mark |-> news[p].mark, heard |-> m.frame.clock[p]]
        BY <1>1, <2>1, <3>0
      <4>. QED  BY <2>0, <3>0, <3>1, <4>1
    <3>2. CASE ~m.frame.here
      <4>1. news' = Disturbed(About(m.frame))
        BY <2>0, <3>2
      <4>. QED  BY <1>2, <3>2, <4>1 DEF Disturbed
    <3>. QED  BY <3>1, <3>2
  <2>. QED  BY <2>0, <2>1, <2>2, <2>3 DEF RelayedOne
<1>6. ASSUME NEW k \in open, Dropped(k) PROVE \E f \in Frame : Ended(k, f)
  <2>f. PICK f : f = Removal(k)
    OBVIOUS
  <2>r. PICK to : to = Relayed(k, f)
    OBVIOUS
  <2>0. /\ open' = open \ {k}
        /\ down' = IF link[k[1]] = k[2] THEN [to EXCEPT ![k[1]] = <<>>] ELSE to
        /\ link' = IF link[k[1]] = k[2] THEN [link EXCEPT ![k[1]] = 0] ELSE link
        /\ missed' = [d \in Client |-> IF d = k[1] /\ link[k[1]] = k[2] THEN Client
                        ELSE IF Hears(d, k) THEN missed[d] ELSE missed[d] \cup {k[1]}]
        /\ news' = IF link[k[1]] = k[2] THEN Disturbed(Client) ELSE Disturbed(About(f))
        /\ UNCHANGED <<clock, shown, gone, made, outbox, memory, channel, renewals>>
    BY <1>6, <2>f, <2>r DEF Dropped
  <2>1. faults' \in 0..MaxFaults
    <3>1. (faults < MaxFaults /\ faults' = faults + 1) \/ faults' = faults
      BY <1>6 DEF Dropped, Fault
    <3>2. faults \in 0..MaxFaults
      BY Zenon DEF PresenceTypeOK
    <3>3. ASSUME NEW m \in Nat, NEW n \in 0..m, n < m PROVE n + 1 \in 0..m
      BY <3>3
    <3>. QED  BY <3>1, <3>2, <3>3, PresenceAssumption
  <2>2. /\ k \in Conn /\ k[1] \in Client /\ k[2] # 0
        /\ \A d \in Client : Here(d) = k <=> (d = k[1] /\ link[k[1]] = k[2])
    <3>1. k \in Conn
      BY DEF PresenceTypeOK
    <3>2. k[1] \in Client /\ k[2] # 0 /\ k = <<k[1], k[2]>>
      BY <3>1 DEF Conn
    <3>3. ASSUME NEW d \in Client PROVE Here(d) = k <=> (d = k[1] /\ link[k[1]] = k[2])
      BY <3>2 DEF Here
    <3>. QED  BY <3>1, <3>2, <3>3
  <2>3. /\ f \in Frame /\ ~f.here
        /\ \A p \in Client : f.clock[p] = IF memory[k][p] = 0 THEN 0 ELSE memory[k][p] + 1
    BY <1>1, <2>f, <2>2 DEF Removal, Frame
  <2>4. /\ to \in [Client -> Seq(Frame)]
        /\ \A d \in Client : IF Hears(d, k) THEN In(to[d]) = In(down[d]) \cup {f}
                             ELSE to[d] = down[d]
    <3>1. to \in [Client -> Seq(Frame)]
      BY <1>3, <2>r, <2>2, <2>3
    <3>2. ASSUME NEW d \in Client
          PROVE  IF Hears(d, k) THEN In(to[d]) = In(down[d]) \cup {f} ELSE to[d] = down[d]
      <4>1. k \in Conn /\ f \in Frame
        BY <2>2, <2>3
      <4>2. IF Hears(d, k) THEN In(Relayed(k, f)[d]) = In(down[d]) \cup {f}
            ELSE Relayed(k, f)[d] = down[d]
        BY <1>3, <4>1, Zenon
      <4>. QED  BY <2>r, <4>2, Zenon
    <3>. QED  BY <3>1, <3>2
  <2>5. /\ down' \in [Client -> Seq(Frame)] /\ link' \in [Client -> 0..MaxLinks]
        /\ \A d \in Client : Here(d) = k => link'[d] = 0 /\ down'[d] = <<>>
        /\ \A d \in Client : Here(d) # k => link'[d] = link[d] /\ down'[d] = to[d]
    <3>1. link \in [Client -> 0..MaxLinks] /\ 0 \in 0..MaxLinks /\ <<>> \in Seq(Frame)
      BY DEF PresenceTypeOK
    <3>2. CASE link[k[1]] = k[2]
      BY <2>0, <2>2, <2>4, <3>1, <3>2
    <3>3. CASE link[k[1]] # k[2]
      BY <2>0, <2>2, <2>4, <3>1, <3>3
    <3>. QED  BY <3>2, <3>3
  <2>6. /\ missed' \in [Client -> SUBSET Client]
        /\ \A d \in Client : Here(d) = k => missed'[d] = Client
        /\ \A d \in Client : Here(d) # k => missed'[d] = IF link[d] # 0 THEN missed[d]
                                                          ELSE missed[d] \cup {k[1]}
    <3>1. missed \in [Client -> SUBSET Client]
      BY DEF PresenceTypeOK
    <3>. QED  BY <2>0, <2>2, <3>1 DEF Hears
  <2>7. /\ news' \in [Client -> [mark : Nat, heard : Nat]]
        /\ \A p \in Client : \/ news'[p] = [mark |-> clock[p][p], heard |-> 0]
                             \/ news'[p] = news[p] /\ p \notin About(f)
    <3>1. PICK ps : news' = Disturbed(ps) /\ (ps = Client \/ ps = About(f))
      BY <2>0
    <3>. QED  BY <1>2, <3>1 DEF Disturbed
  <2>8. ASSUME NEW d \in Client
        PROVE  IF Here(d) = k THEN link'[d] = 0 /\ down'[d] = <<>> /\ missed'[d] = Client
               ELSE /\ link'[d] = link[d]
                    /\ IF link[d] = 0 THEN down'[d] = down[d] /\ missed'[d] = missed[d] \cup {k[1]}
                       ELSE In(down'[d]) = In(down[d]) \cup {f} /\ missed'[d] = missed[d]
    BY <2>4, <2>5, <2>6 DEF Hears
  <2>. QED  BY <2>0, <2>1, <2>3, <2>5, <2>6, <2>7, <2>8 DEF Ended
<1>. QED  BY <1>4, <1>5, <1>6

\* The clocks of ClockInv hold, whoever connects, forgets, leaves and is removed.
THEOREM ClocksAreKept == PresenceSpec => [](ClockInv /\ ClocksStayClose)
<1>1. ASSUME PresenceInit PROVE ClockInv
  <2>. USE <1>1 DEF PresenceInit
  <2>1. /\ \A c \in Client : outbox[c] = <<>> /\ down[c] = <<>>
        /\ channel = <<>> /\ In(<<>>) = {}
    BY DEF In
  <2>2. \A c, p \in Client : clock[c][p] = IF c = p THEN 1 ELSE 0
    BY DEF Nobody
  <2>3. PresenceTypeOK
    <3>1. /\ clock \in [Client -> [Client -> Nat]] /\ shown \in [Client -> SUBSET Client]
          /\ memory \in [Conn -> [Client -> Nat]]
      BY DEF Nobody
    <3>2. /\ outbox \in [Client -> Seq(Frame)] /\ down \in [Client -> Seq(Frame)]
          /\ channel \in Seq([from : Conn, frame : Frame])
      OBVIOUS
    <3>. QED  BY <3>1, <3>2 DEF PresenceTypeOK
  <2>4. LinksOK /\ SentByOwner /\ LastIsNewest
    BY <2>1 DEF LinksOK, SentByOwner, LastIsNewest
  <2>5. ShownIsKnown /\ FramesAreClose
    BY <2>1, <2>2 DEF ShownIsKnown, FramesAreClose
  <2>. QED  BY <2>3, <2>4, <2>5 DEF ClockInv
<1>2. ASSUME ClockInv, [PresenceNext]_presenceVars PROVE ClockInv'
  <2>. USE <1>2
  <2>. USE DEF ClockInv
  <2>1. /\ \A c \in Client : /\ outbox[c] \in Seq(Frame) /\ In(outbox[c]) \subseteq Frame
                             /\ down[c] \in Seq(Frame) /\ In(down[c]) \subseteq Frame
                             /\ shown[c] \subseteq Client
        /\ \A c, p \in Client : clock[c][p] \in Nat
        /\ \A k \in Conn, p \in Client : memory[k][p] \in Nat
        /\ \A f \in Frame : f.here \in BOOLEAN /\ \A p \in Client : f.clock[p] \in Nat
        /\ \A m \in Sent : m.from \in Conn /\ m.frame \in Frame
        /\ channel \in Seq(Sent) /\ In(channel) \subseteq Sent /\ In(<<>>) = {}
    <3>1. \A c \in Client : outbox[c] \in Seq(Frame) /\ down[c] \in Seq(Frame)
      BY DEF PresenceTypeOK
    <3>2. channel \in Seq(Sent)
      BY DEF PresenceTypeOK, Sent
    <3>3. \A c \in Client : In(outbox[c]) \subseteq Frame /\ In(down[c]) \subseteq Frame
      BY <3>1, Queues
    <3>4. In(channel) \subseteq Sent /\ In(<<>>) = {}
      BY <3>2, Queues
    <3>5. /\ \A c \in Client : shown[c] \subseteq Client
          /\ \A c, p \in Client : clock[c][p] \in Nat
          /\ \A k \in Conn, p \in Client : memory[k][p] \in Nat
      BY DEF PresenceTypeOK
    <3>6. /\ \A f \in Frame : f.here \in BOOLEAN /\ \A p \in Client : f.clock[p] \in Nat
          /\ \A m \in Sent : m.from \in Conn /\ m.frame \in Frame
      BY DEF Frame, Sent
    <3>. QED  BY <3>1, <3>2, <3>3, <3>4, <3>5, <3>6
  \* A client sends something that is not ahead of its subject.
  <2>2. ASSUME PresenceTypeOK', NEW c \in Client, NEW f \in Frame, Send(c, f),
               \A d, p \in Client : d # p => clock'[d][p] = clock[d][p],
               \A p \in Client : p # c => clock'[p][p] = clock[p][p],
               clock'[c][c] \in {clock[c][c], clock[c][c] + 1},
               f.here => About(f) \subseteq {c},
               \A p \in Client : f.clock[p] <= clock'[p][p],
               c \in About(f) => f.clock[c] = clock'[c][c],
               c \notin About(f) => clock'[c][c] = clock[c][c],
               \A d \in Client : shown'[d] \subseteq shown[d],
               \A d \in Client : /\ link'[d] = link[d] \/ link'[d] = 0
                                 /\ down'[d] = down[d] \/ down'[d] = <<>>
                                 /\ link'[d] = 0 => down'[d] = <<>>
                                 /\ link'[d] # 0 => d \notin gone',
               made' = made
        PROVE  ClockInv'
    <3>1. ASSUME NEW d \in Client, NEW p \in Client
          PROVE  /\ clock[d][p] \in Nat /\ clock'[d][p] \in Nat
                 /\ clock[d][p] <= clock'[d][p]
                 /\ d # p => clock'[d][p] = clock[d][p]
      <4>1. clock[d][p] \in Nat
        BY <2>1
      <4>2. clock'[d][p] = clock[d][p] \/ (d = p /\ clock'[d][p] = clock[d][p] + 1)
        BY <2>2
      <4>. HIDE <1>2
      <4>. QED  BY <4>1, <4>2
    <3>2. ASSUME NEW d \in Client PROVE In(down'[d]) \subseteq In(down[d])
      <4>1. down'[d] = down[d] \/ down'[d] = <<>>
        BY <2>2
      <4>2. In(<<>>) = {}
        BY DEF In
      <4>. QED  BY <4>1, <4>2
    <3>2k. ShownIsKnown'
      <4>1. ASSUME NEW d \in Client, NEW p \in shown'[d]
            PROVE  clock'[d][p] > 0 /\ clock'[d][p] <= clock'[p][p]
        <5>1. p \in Client /\ clock[d][p] > 0 /\ clock[d][p] <= clock[p][p]
          BY <2>1, <2>2, <4>1 DEF ShownIsKnown
        <5>. QED  BY <3>1, <5>1
      <4>. QED  BY <3>1, <4>1 DEF ShownIsKnown
    <3>2c. ASSUME NEW d \in Client, NEW p \in Client
           PROVE  /\ clock'[d][p] <= clock'[p][p] + 1
                  /\ \A g \in In(down'[d]) :
                        g.clock[p] <= clock'[p][p] + (IF g.here THEN 0 ELSE 1)
      <4>1. clock[d][p] <= clock[p][p] + 1
        BY DEF FramesAreClose
      <4>2. ASSUME NEW g \in In(down'[d])
            PROVE  g.clock[p] <= clock'[p][p] + (IF g.here THEN 0 ELSE 1)
        <5>1. /\ g.clock[p] \in Nat
              /\ g.clock[p] <= clock[p][p] + (IF g.here THEN 0 ELSE 1)
          BY <2>1, <3>2 DEF FramesAreClose
        <5>. QED  BY <3>1, <5>1
      <4>. QED  BY <3>1, <4>1, <4>2
    <3>2m. ASSUME NEW p \in Client, NEW m \in In(channel)
           PROVE  m.frame.clock[p] <= clock'[p][p] + (IF m.frame.here THEN 0 ELSE 1)
      <4>1. /\ m.frame.clock[p] \in Nat
            /\ m.frame.clock[p] <= clock[p][p] + (IF m.frame.here THEN 0 ELSE 1)
        BY <2>1 DEF FramesAreClose
      <4>. QED  BY <3>1, <4>1
    <3>2o. ASSUME NEW d \in Client, NEW g \in In(outbox[d])
           PROVE  /\ g.here => About(g) \subseteq {d}
                  /\ \A p \in Client : g.clock[p] <= clock'[p][p]
      <4>1. \A p \in Client : g.clock[p] \in Nat /\ g.clock[p] <= clock[p][p]
        BY <2>1 DEF SentByOwner
      <4>. QED  BY <3>1, <4>1 DEF SentByOwner
    <3>2k2. ASSUME NEW p \in Client, NEW k \in open
            PROVE  memory[k][p] \in Nat /\ memory[k][p] <= clock'[p][p]
      <4>1. memory[k][p] \in Nat /\ memory[k][p] <= clock[p][p]
        BY DEF FramesAreClose, PresenceTypeOK
      <4>. QED  BY <3>1, <4>1
    <3>3. CASE link[c] = 0
      <4>1. /\ outbox' = [outbox EXCEPT ![c] = Append(@, f)] /\ outbox' \in [Client -> Seq(Frame)]
            /\ UNCHANGED <<memory, channel, open>>
        BY <2>2, <3>3, SendKeeps
      <4>2. /\ \A d \in Client : d # c => outbox'[d] = outbox[d]
            /\ outbox'[c] = Append(outbox[c], f) /\ In(outbox'[c]) = In(outbox[c]) \cup {f}
        BY <2>1, <4>1, Queues DEF PresenceTypeOK
      <4>3. LinksOK'
        BY <2>2, <3>3, <4>1, <4>2 DEF LinksOK, Here
      <4>4. SentByOwner'
        <5>1. ASSUME NEW m \in In(channel), m.frame.here
              PROVE  \A p \in Client : p \in About(m.frame) => p = m.from[1]
          BY <5>1 DEF SentByOwner
        <5>2. ASSUME NEW d \in Client, NEW g \in In(outbox'[d])
              PROVE  /\ g.here => About(g) \subseteq {d}
                     /\ \A p \in Client : g.clock[p] <= clock'[p][p]
          BY <2>2, <3>2o, <4>2
        <5>. QED  BY <4>1, <5>1, <5>2 DEF SentByOwner, About
      <4>5. LastIsNewest'
        <5>1. ASSUME NEW d \in Client, d # c, NEW i \in DOMAIN outbox'[d],
                     d \in About(outbox'[d][i]),
                     \A j \in DOMAIN outbox'[d] : j > i => d \notin About(outbox'[d][j])
              PROVE  outbox'[d][i].clock[d] = clock'[d][d]
          BY <2>2, <4>2, <5>1 DEF LastIsNewest
        <5>2. ASSUME NEW i \in DOMAIN outbox'[c], c \in About(outbox'[c][i]),
                     \A j \in DOMAIN outbox'[c] : j > i => c \notin About(outbox'[c][j])
              PROVE  outbox'[c][i].clock[c] = clock'[c][c]
          <6>1. /\ Len(outbox[c]) \in Nat /\ DOMAIN outbox[c] = 1..Len(outbox[c])
                /\ DOMAIN outbox'[c] = 1..(Len(outbox[c]) + 1)
                /\ \A j \in 1..Len(outbox[c]) : outbox'[c][j] = outbox[c][j]
                /\ outbox'[c][Len(outbox[c]) + 1] = f
            BY <2>1, <4>2
          <6>2. CASE i = Len(outbox[c]) + 1
            BY <2>2, <5>2, <6>1, <6>2
          <6>3. CASE i # Len(outbox[c]) + 1
            <7>1. i \in 1..Len(outbox[c]) /\ c \notin About(f)
              BY <5>2, <6>1, <6>3
            <7>2. \A j \in DOMAIN outbox[c] : j > i => c \notin About(outbox[c][j])
              BY <5>2, <6>1
            <7>3. outbox[c][i].clock[c] = clock[c][c]
              BY <5>2, <6>1, <7>1, <7>2 DEF LastIsNewest
            <7>. QED  BY <2>2, <6>1, <7>1, <7>3
          <6>. QED  BY <6>2, <6>3
        <5>. QED  BY <5>1, <5>2 DEF LastIsNewest, About
      <4>6. FramesAreClose'
        BY <3>2c, <3>2m, <3>2k2, <4>1 DEF FramesAreClose
      <4>. QED  BY <2>2, <4>3, <4>4, <3>2k, <4>5, <4>6
    <3>4. CASE link[c] # 0
      <4>1. /\ outbox' = outbox /\ open' = open /\ Here(c)[1] = c /\ Here(c) \in open
            /\ In(channel') \subseteq In(channel) \cup {[from |-> Here(c), frame |-> f]}
            /\ \A k \in Conn, p \in Client :
                  memory'[k][p] = IF k = Here(c) /\ p \in About(f) THEN f.clock[p]
                                  ELSE memory[k][p]
        BY <2>2, <3>4, SendKeeps
      <4>2. outbox[c] = <<>> /\ open \subseteq Conn
        BY <3>4 DEF LinksOK, PresenceTypeOK
      <4>3. LinksOK'
        BY <2>2, <4>1 DEF LinksOK, Here
      <4>4. SentByOwner'
        <5>1. ASSUME NEW m \in In(channel'), m.frame.here
              PROVE  \A p \in Client : p \in About(m.frame) => p = m.from[1]
          <6>1. CASE m \in In(channel)
            BY <5>1, <6>1 DEF SentByOwner
          <6>2. CASE m = [from |-> Here(c), frame |-> f]
            BY <2>2, <4>1, <5>1, <6>2
          <6>. QED  BY <4>1, <6>1, <6>2
        <5>2. ASSUME NEW d \in Client, NEW g \in In(outbox[d])
              PROVE  /\ g.here => About(g) \subseteq {d}
                     /\ \A p \in Client : g.clock[p] <= clock'[p][p]
          BY <3>2o
        <5>. QED  BY <4>1, <5>1, <5>2 DEF SentByOwner, About
      <4>5. LastIsNewest'
        BY <2>2, <4>1, <4>2 DEF LastIsNewest, About
      <4>6. FramesAreClose'
        <5>1. ASSUME NEW p \in Client, NEW m \in In(channel')
              PROVE  m.frame.clock[p] <= clock'[p][p] + (IF m.frame.here THEN 0 ELSE 1)
          <6>1. CASE m \in In(channel)
            BY <3>2m, <6>1
          <6>2. CASE m = [from |-> Here(c), frame |-> f]
            BY <2>1, <2>2, <3>1, <6>2
          <6>. QED  BY <4>1, <6>1, <6>2
        <5>2. ASSUME NEW p \in Client, NEW k \in open PROVE memory'[k][p] <= clock'[p][p]
          <6>1. k \in Conn /\ (k = Here(c) /\ p \in About(f) => memory'[k][p] <= clock'[p][p])
            BY <2>2, <4>1, <4>2
          <6>. QED  BY <3>2k2, <4>1, <6>1
        <5>. QED  BY <3>2c, <4>1, <5>1, <5>2 DEF FramesAreClose
      <4>. QED  BY <2>2, <4>3, <4>4, <3>2k, <4>5, <4>6
    <3>. QED  BY <3>3, <3>4
  <2>3. ASSUME NEW ps PROVE Disturbed(ps) \in [Client -> [mark : Nat, heard : Nat]]
    BY <2>1 DEF Disturbed, PresenceTypeOK
  \* A client raises its own clock and says so.
  <2>5. ASSUME NEW c \in Client, NEW here \in BOOLEAN, NEW n, n = clock[c][c] + 1,
               clock' = [clock EXCEPT ![c][c] = n], Send(c, Only(c, n, here)),
               link' \in [Client -> 0..MaxLinks], down' \in [Client -> Seq(Frame)],
               shown' \in [Client -> SUBSET Client], gone' \subseteq Client,
               \A d \in Client : /\ shown'[d] \subseteq shown[d]
                                 /\ link'[d] = link[d] \/ link'[d] = 0
                                 /\ down'[d] = down[d] \/ down'[d] = <<>>
                                 /\ link'[d] = 0 => down'[d] = <<>>
                                 /\ link'[d] # 0 => d \notin gone',
               UNCHANGED <<made, faults, news, missed>>, renewals' \in 0..MaxRenewals
        PROVE  ClockInv'
    <3>1. n \in Nat /\ n # 0 /\ clock[c][c] \in Nat
      BY <2>1, <2>5
    <3>2. /\ Only(c, n, here) \in Frame /\ Only(c, n, here).here = here
          /\ Only(c, n, here).clock[c] = n
          /\ \A p \in Client : p # c => Only(c, n, here).clock[p] = 0
          /\ About(Only(c, n, here)) = {c}
      BY <3>1, OnlyAboutOne
    <3>3. /\ clock' \in [Client -> [Client -> Nat]]
          /\ \A d, p \in Client : clock'[d][p] = IF d = c /\ p = c THEN n ELSE clock[d][p]
      BY <2>5, <3>1 DEF PresenceTypeOK
    <3>4. PresenceTypeOK'
      <4>1. /\ outbox' \in [Client -> Seq(Frame)] /\ channel' \in Seq(Sent) /\ open' = open
            /\ memory' \in [Conn -> [Client -> Nat]]
        BY <2>5, <3>2, SendKeeps
      <4>. QED  BY <2>5, <3>3, <4>1 DEF PresenceTypeOK, Sent
    <3>5. \A p \in Client : Only(c, n, here).clock[p] <= clock'[p][p]
      <4>1. \A p \in Client : clock[p][p] \in Nat
        BY <2>1
      <4>. QED  BY <3>1, <3>2, <3>3, <4>1
    <3>. DEFINE f == Only(c, n, here)
    <3>6. /\ f \in Frame /\ Send(c, f)
          /\ \A d, p \in Client : d # p => clock'[d][p] = clock[d][p]
          /\ \A p \in Client : p # c => clock'[p][p] = clock[p][p]
          /\ clock'[c][c] \in {clock[c][c], clock[c][c] + 1}
          /\ f.here => About(f) \subseteq {c}
          /\ \A p \in Client : f.clock[p] <= clock'[p][p]
          /\ c \in About(f) => f.clock[c] = clock'[c][c]
          /\ c \notin About(f) => clock'[c][c] = clock[c][c]
      BY <2>5, <3>2, <3>3, <3>5
    <3>. HIDE DEF f
    <3>. QED  BY <2>2, <2>5, <3>4, <3>6
  <2>6. ASSUME NEW c \in Client, Renew(c) PROVE ClockInv'
    <3>1. /\ clock' = [clock EXCEPT ![c][c] = clock[c][c] + 1]
          /\ Send(c, Only(c, clock[c][c] + 1, TRUE))
          /\ UNCHANGED <<shown, gone, link, made, down, faults, news, missed>>
          /\ renewals < MaxRenewals /\ renewals' = renewals + 1
      BY <2>6 DEF Renew, linkVars
    <3>2. /\ link \in [Client -> 0..MaxLinks] /\ down \in [Client -> Seq(Frame)]
          /\ shown \in [Client -> SUBSET Client] /\ gone \subseteq Client
          /\ renewals' \in 0..MaxRenewals
      BY <3>1 DEF PresenceTypeOK
    <3>3. \A d \in Client : /\ link[d] = 0 => down[d] = <<>>
                            /\ link[d] # 0 => d \notin gone
      BY DEF LinksOK
    <3>. QED  BY <2>5, <3>1, <3>2, <3>3
  <2>7. ASSUME NEW c \in Client, ClosePage(c) PROVE ClockInv'
    <3>1. /\ clock' = [clock EXCEPT ![c][c] = clock[c][c] + 1]
          /\ Send(c, Only(c, clock[c][c] + 1, FALSE))
          /\ UNCHANGED <<made, faults, news, missed, renewals>>
          /\ link' = [link EXCEPT ![c] = 0] /\ down' = [down EXCEPT ![c] = <<>>]
          /\ shown' = [shown EXCEPT ![c] = @ \ {c}] /\ gone' = gone \cup {c}
      BY <2>7 DEF ClosePage, bounds
    <3>2. /\ link' \in [Client -> 0..MaxLinks] /\ down' \in [Client -> Seq(Frame)]
          /\ shown' \in [Client -> SUBSET Client] /\ gone' \subseteq Client
          /\ renewals' \in 0..MaxRenewals
      BY <3>1 DEF PresenceTypeOK
    <3>3. \A d \in Client : /\ shown'[d] \subseteq shown[d]
                            /\ link'[d] = link[d] \/ link'[d] = 0
                            /\ down'[d] = down[d] \/ down'[d] = <<>>
                            /\ link'[d] = 0 => down'[d] = <<>>
                            /\ link'[d] # 0 => d \notin gone'
      BY <3>1 DEF LinksOK, PresenceTypeOK
    <3>. QED  BY <2>5, <3>1, <3>2, <3>3
  <2>8. ASSUME NEW c \in Client, NEW p \in Client, Forget(c, p) PROVE ClockInv'
    <3>0. /\ Send(c, Only(p, clock[c][p], FALSE)) /\ p # c /\ p \in shown[c] /\ clock' = clock
          /\ UNCHANGED <<gone, link, made, down, renewals, missed>>
          /\ news' = Disturbed({p})
          /\ shown' = [shown EXCEPT ![c] = @ \ {p}]
          /\ faults < MaxFaults /\ faults' = faults + 1
      BY <2>8 DEF Forget, Fault, linkVars
    <3>n. PICK n : n = clock[c][p]
      OBVIOUS
    <3>1. n \in Nat /\ n # 0 /\ n <= clock[p][p]
      BY <2>1, <3>0, <3>n DEF ShownIsKnown
    <3>1s. Send(c, Only(p, n, FALSE))
      BY <3>0, <3>n
    <3>f. PICK f : f = Only(p, n, FALSE)
      OBVIOUS
    <3>2. /\ f \in Frame /\ About(f) = {p} /\ ~f.here /\ f.clock[p] = n
          /\ \A q \in Client : q # p => f.clock[q] = 0
      <4>1. /\ Only(p, n, FALSE) \in Frame /\ Only(p, n, FALSE).here = FALSE
            /\ Only(p, n, FALSE).clock[p] = n
            /\ \A q \in Client : q # p => Only(p, n, FALSE).clock[q] = 0
            /\ About(Only(p, n, FALSE)) = IF n = 0 THEN {} ELSE {p}
        BY <3>1, OnlyAboutOne, Zenon
      <4>. QED  BY <3>1, <3>f, <4>1
    <3>2s. Send(c, f)
      BY <3>1s, <3>f
    <3>3. shown' \in [Client -> SUBSET Client] /\ \A d \in Client : shown'[d] \subseteq shown[d]
      BY <3>0 DEF PresenceTypeOK
    <3>4. PresenceTypeOK'
      <4>1. /\ outbox' \in [Client -> Seq(Frame)] /\ channel' \in Seq(Sent) /\ open' = open
            /\ memory' \in [Conn -> [Client -> Nat]]
        BY <3>2s, <3>2, SendKeeps
      <4>2. faults' \in 0..MaxFaults
        BY <3>0 DEF PresenceTypeOK
      <4>3. UNCHANGED <<clock, gone, link, made, down, renewals, missed>>
        BY <3>0
      <4>4. news' \in [Client -> [mark : Nat, heard : Nat]]
        BY <2>3, <3>0
      <4>. QED  BY <3>3, <4>1, <4>2, <4>3, <4>4 DEF PresenceTypeOK, Sent
    <3>5. \A q \in Client : f.clock[q] <= clock'[q][q]
      <4>1. \A q \in Client : clock[q][q] \in Nat
        BY <2>1
      <4>2. ASSUME NEW q \in Client PROVE f.clock[q] <= clock[q][q]
        <5>1. CASE q = p
          BY <3>1, <3>2, <5>1
        <5>2. CASE q # p
          BY <3>2, <4>1, <5>2
        <5>. QED  BY <5>1, <5>2
      <4>. QED  BY <3>0, <4>2
    <3>6. c \notin About(f)
      BY <3>0, <3>2
    <3>7. \A d \in Client : /\ link[d] = 0 => down[d] = <<>>
                            /\ link[d] # 0 => d \notin gone
      BY DEF LinksOK
    <3>. QED  BY <2>2, <3>0, <3>2, <3>2s, <3>3, <3>4, <3>5, <3>6, <3>7
  <2>9. ASSUME NEW c \in Client, Connect(c) PROVE ClockInv'
    <3>0. PICK k : k = <<c, made + 1>>
      OBVIOUS
    <3>s. PICK fresh : fresh = {Greeting(c)} \cup In(outbox[c])
      OBVIOUS
    <3>1. /\ link[c] = 0 /\ made' = made + 1 /\ made + 1 \in 1..MaxLinks /\ c \notin gone
          /\ link' = [link EXCEPT ![c] = made + 1] /\ outbox' = [outbox EXCEPT ![c] = <<>>]
          /\ news' = Disturbed(Client)
          /\ UNCHANGED <<clock, shown, gone, down, renewals, faults, missed>>
      <4>1. /\ link[c] = 0 /\ made' = made + 1 /\ made < MaxLinks /\ c \notin gone
            /\ link' = [link EXCEPT ![c] = made + 1] /\ outbox' = [outbox EXCEPT ![c] = <<>>]
            /\ news' = Disturbed(Client)
            /\ UNCHANGED <<clock, shown, gone, down, renewals, faults, missed>>
        BY <2>9, Zenon DEF Connect, bounds
      <4>2. made \in 0..MaxLinks
        BY Zenon DEF ClockInv, PresenceTypeOK
      <4>3. ASSUME NEW m \in Nat, NEW n \in 0..m, n < m PROVE n + 1 \in 1..m
        BY <4>3
      <4>. QED  BY <4>1, <4>2, <4>3, PresenceAssumption
    <3>2. /\ k \in Conn \ open /\ open' = open \cup {k} /\ channel' \in Seq(Sent)
          /\ In(channel') \subseteq In(channel) \cup {[from |-> k, frame |-> f] : f \in fresh}
          /\ memory' \in [Conn -> [Client -> Nat]]
          /\ \A j \in Conn : j # k => memory'[j] = memory[j]
          /\ \A p \in Client : memory'[k][p] <= clock[p][p]
          /\ \A f \in fresh :
                /\ f \in Frame
                /\ f.here => About(f) \subseteq {c}
                /\ \A p \in Client : f.clock[p] \in Nat /\ f.clock[p] <= clock[p][p]
      <4>. HIDE DEF ClockInv
      <4>. QED  BY <2>9, <3>0, <3>s, ConnectKeeps
    <3>3. PresenceTypeOK'
      <4>1. /\ link' \in [Client -> 0..MaxLinks] /\ outbox' \in [Client -> Seq(Frame)]
            /\ made' \in 0..MaxLinks
        BY <3>1 DEF PresenceTypeOK
      <4>3. open' \subseteq Conn
        BY <3>2 DEF PresenceTypeOK
      <4>2. news' \in [Client -> [mark : Nat, heard : Nat]]
        BY <2>3, <3>1
      <4>. QED  BY <3>1, <3>2, <4>1, <4>2, <4>3 DEF PresenceTypeOK, Sent
    <3>4. LinksOK'
      <4>1. ASSUME NEW d \in Client, link'[d] # 0
            PROVE  <<d, link'[d]>> \in open' /\ outbox'[d] = <<>> /\ d \notin gone'
        <5>1. CASE d = c
          BY <3>0, <3>1, <3>2, <5>1 DEF PresenceTypeOK
        <5>2. CASE d # c
          BY <3>1, <3>2, <4>1, <5>2 DEF LinksOK, Here, PresenceTypeOK
        <5>. QED  BY <5>1, <5>2
      <4>2. ASSUME NEW d \in Client, link'[d] = 0 PROVE down'[d] = <<>>
        BY <3>1, <4>2 DEF LinksOK, PresenceTypeOK
      <4>3. ASSUME NEW j \in open' PROVE j[2] <= made'
        <5>1. CASE j \in open
          <6>1. j[2] \in Nat /\ j[2] <= made /\ made \in Nat
            BY <5>1 DEF LinksOK, PresenceTypeOK, Conn
          <6>. QED  BY <3>1, <6>1
        <5>2. CASE j = k
          BY <3>0, <3>1, <5>2 DEF PresenceTypeOK
        <5>. QED  BY <3>2, <5>1, <5>2
      <4>. QED  BY <4>1, <4>2, <4>3 DEF LinksOK, Here
    <3>5. ASSUME NEW f \in fresh
          PROVE  /\ f \in Frame
                 /\ f.here => About(f) \subseteq {c}
                 /\ \A p \in Client : f.clock[p] \in Nat /\ f.clock[p] <= clock[p][p]
      BY <3>2
    <3>6. \A m \in In(channel') :
            /\ m.frame.here => About(m.frame) \subseteq {m.from[1]}
            /\ \A p \in Client : m.frame.clock[p] <= clock[p][p] + (IF m.frame.here THEN 0 ELSE 1)
      <4>1. ASSUME NEW m \in In(channel)
            PROVE  /\ m.frame.here => About(m.frame) \subseteq {m.from[1]}
                   /\ \A p \in Client :
                        m.frame.clock[p] <= clock[p][p] + (IF m.frame.here THEN 0 ELSE 1)
        BY DEF SentByOwner, FramesAreClose
      <4>2. ASSUME NEW m, NEW f \in fresh, m = [from |-> k, frame |-> f]
            PROVE  /\ m.frame.here => About(m.frame) \subseteq {m.from[1]}
                   /\ \A p \in Client :
                        m.frame.clock[p] <= clock[p][p] + (IF m.frame.here THEN 0 ELSE 1)
        <5>1. m.frame = f /\ m.from[1] = c
          BY <3>0, <4>2
        <5>2. ASSUME NEW p \in Client
              PROVE  f.clock[p] <= clock[p][p] + (IF f.here THEN 0 ELSE 1)
          <6>1. f.clock[p] \in Nat /\ f.clock[p] <= clock[p][p] /\ clock[p][p] \in Nat
            BY <2>1, <3>5
          <6>. QED  BY <6>1
        <5>3. f.here => About(f) \subseteq {c}
          BY <3>5, Zenon
        <5>. QED  BY <5>1, <5>2, <5>3
      <4>3. ASSUME NEW m \in In(channel')
            PROVE  m \in In(channel) \/ \E f \in fresh : m = [from |-> k, frame |-> f]
        BY <3>2
      <4>. QED  BY <4>1, <4>2, <4>3
    <3>7. SentByOwner' /\ LastIsNewest'
      <4>1. outbox'[c] = <<>> /\ \A d \in Client : d # c => outbox'[d] = outbox[d]
        BY <3>1 DEF PresenceTypeOK
      <4>2. SentByOwner'
        BY <2>1, <3>1, <3>6, <4>1 DEF SentByOwner, About
      <4>3. LastIsNewest'
        BY <3>1, <4>1 DEF LastIsNewest, About
      <4>. QED  BY <4>2, <4>3
    <3>8. ShownIsKnown' /\ FramesAreClose'
      <4>1. ASSUME NEW p \in Client, NEW j \in open' PROVE memory'[j][p] <= clock[p][p]
        <5>1. CASE j \in open
          BY <3>2, <5>1 DEF FramesAreClose, PresenceTypeOK
        <5>. QED  BY <3>2, <5>1
      <4>. QED  BY <3>1, <3>6, <4>1 DEF ShownIsKnown, FramesAreClose
    <3>. QED  BY <3>3, <3>4, <3>7, <3>8
  \* Connections end and frames are relayed.
  <2>10. ASSUME PresenceTypeOK', UNCHANGED <<clock, shown, gone, made, outbox, memory>>,
                In(channel') \subseteq In(channel), open' \subseteq open,
                \A d \in Client : /\ link'[d] # 0 => link'[d] = link[d] /\ Here(d) \in open'
                                  /\ link'[d] = 0 => down'[d] = <<>>,
                \A d \in Client : \A g \in In(down'[d]) :
                   g \in In(down[d]) \/ \A p \in Client :
                       g.clock[p] <= clock[p][p] + (IF g.here THEN 0 ELSE 1)
         PROVE  ClockInv'
    <3>1. LinksOK'
      BY <2>10 DEF LinksOK, Here
    <3>2. SentByOwner' /\ ShownIsKnown'
      BY <2>10 DEF SentByOwner, ShownIsKnown, About
    <3>3. LastIsNewest'
      BY <2>10 DEF LastIsNewest, About
    <3>4. FramesAreClose'
      <4>1. ASSUME NEW p \in Client, NEW d \in Client, NEW g \in In(down'[d])
            PROVE  g.clock[p] <= clock[p][p] + (IF g.here THEN 0 ELSE 1)
        BY <2>10 DEF FramesAreClose
      <4>. QED  BY <2>10, <4>1 DEF FramesAreClose
    <3>. QED  BY <2>10, <3>1, <3>2, <3>3, <3>4
  <2>11. ASSUME NEW c \in Client, Lose(c) PROVE ClockInv'
    <3>1. /\ link' = [link EXCEPT ![c] = 0] /\ down' = [down EXCEPT ![c] = <<>>]
          /\ missed' = [missed EXCEPT ![c] = Client] /\ news' = Disturbed(Client)
          /\ UNCHANGED <<clock, shown, gone, made, outbox, open, memory, channel, renewals>>
          /\ faults < MaxFaults /\ faults' = faults + 1
      BY <2>11 DEF Lose, Fault, nodeVars
    <3>2. PresenceTypeOK'
      <4>1. /\ link' \in [Client -> 0..MaxLinks] /\ down' \in [Client -> Seq(Frame)]
            /\ missed' \in [Client -> SUBSET Client] /\ faults' \in 0..MaxFaults
        BY <3>1 DEF PresenceTypeOK
      <4>2. news' \in [Client -> [mark : Nat, heard : Nat]]
        BY <2>3, <3>1
      <4>. QED  BY <3>1, <4>1, <4>2 DEF PresenceTypeOK
    <3>3. ASSUME NEW d \in Client
          PROVE  /\ link'[d] # 0 => link'[d] = link[d] /\ Here(d) \in open'
                 /\ link'[d] = 0 => down'[d] = <<>>
                 /\ In(down'[d]) \subseteq In(down[d])
      <4>1. CASE d = c
        BY <2>1, <3>1, <4>1 DEF PresenceTypeOK
      <4>2. CASE d # c
        BY <3>1, <4>2 DEF PresenceTypeOK, LinksOK
      <4>. QED  BY <4>1, <4>2
    <3>. QED  BY <2>10, <3>1, <3>2, <3>3
  <2>12. CASE LoopRelays
    <3>0. PICK m \in Sent : RelayedOne(m)
      BY <2>12, QueuesChange
    <3>1. \A p \in Client : m.frame.clock[p] <= clock[p][p] + (IF m.frame.here THEN 0 ELSE 1)
      BY <3>0 DEF FramesAreClose, RelayedOne
    <3>2. ASSUME NEW d \in Client
          PROVE  /\ link[d] # 0 => Here(d) \in open
                 /\ link[d] = 0 => down'[d] = <<>>
                 /\ In(down'[d]) \subseteq In(down[d]) \cup {m.frame}
      BY <3>0 DEF LinksOK, RelayedOne, Hears
    <3>3. PresenceTypeOK'
      BY <3>0 DEF PresenceTypeOK, RelayedOne, Sent
    <3>4. /\ UNCHANGED <<clock, shown, gone, link, made, outbox, open, memory>>
          /\ In(channel') \subseteq In(channel)
      BY <3>0 DEF RelayedOne
    <3>. QED  BY <2>10, <3>1, <3>2, <3>3, <3>4
  <2>13. ASSUME NEW k \in open, Dropped(k) PROVE ClockInv'
    <3>0. PICK f \in Frame : Ended(k, f)
      BY <2>13, QueuesChange
    <3>1. \A p \in Client : f.clock[p] <= clock[p][p] + (IF f.here THEN 0 ELSE 1)
      <4>1. \A p \in Client : /\ memory[k][p] \in Nat /\ memory[k][p] <= clock[p][p]
                              /\ clock[p][p] \in Nat
        BY <2>1 DEF FramesAreClose, PresenceTypeOK
      <4>2. ASSUME NEW p \in Client PROVE f.clock[p] <= clock[p][p] + 1
        <5>1. f.clock[p] = IF memory[k][p] = 0 THEN 0 ELSE memory[k][p] + 1
          BY <3>0 DEF Ended
        <5>. QED  BY <4>1, <5>1
      <4>. QED  BY <3>0, <4>2 DEF Ended
    <3>2. ASSUME NEW d \in Client
          PROVE  /\ link'[d] # 0 => link'[d] = link[d] /\ Here(d) \in open'
                 /\ link'[d] = 0 => down'[d] = <<>>
                 /\ In(down'[d]) \subseteq In(down[d]) \cup {f}
      BY <2>1, <3>0 DEF LinksOK, Ended
    <3>3. PresenceTypeOK'
      <4>1. open' \subseteq Conn
        BY <3>0 DEF PresenceTypeOK, Ended
      <4>. QED  BY <3>0, <4>1 DEF PresenceTypeOK, Ended
    <3>4. /\ UNCHANGED <<clock, shown, gone, made, outbox, memory, channel>> /\ open' \subseteq open
      BY <3>0 DEF Ended
    <3>. QED  BY <2>10, <3>1, <3>2, <3>3, <3>4
  \* A frame arrives.  Only a removal raises the client's own clock.
  <2>14. ASSUME NEW c \in Client, Deliver(c) PROVE ClockInv'
    <3>f. PICK f \in Frame : DeliveredTo(c, f)
      BY <2>14, QueuesChange
    <3>t. PICK taken : taken = Takes(c, f)
      OBVIOUS
    <3>0. UNCHANGED <<gone, link, made, outbox, open, memory, channel, renewals, faults, news,
                      missed>>
      BY <3>f DEF DeliveredTo
    <3>1. f \in In(down[c]) /\ In(down'[c]) \subseteq In(down[c]) /\ link[c] # 0
      BY <3>f DEF DeliveredTo
    <3>2. ASSUME NEW p \in Client
          PROVE  /\ f.clock[p] \in Nat
                 /\ f.clock[p] <= clock[p][p] + (IF f.here THEN 0 ELSE 1)
      BY <2>1, <3>1 DEF FramesAreClose
    <3>3. ASSUME NEW p \in Client
          PROVE  p \in taken <=>
                   /\ f.clock[p] # 0
                   /\ \/ clock[c][p] < f.clock[p]
                      \/ clock[c][p] = f.clock[p] /\ ~f.here /\ p \in shown[c]
      BY <3>t DEF Takes, About
    <3>5. /\ clock' \in [Client -> [Client -> Nat]]
          /\ \A d, p \in Client : clock'[d][p] =
               IF d # c \/ p \notin taken THEN clock[d][p]
               ELSE IF p = c /\ ~f.here THEN f.clock[p] + 1 ELSE f.clock[p]
      BY <3>f, <3>t DEF DeliveredTo
    <3>6. /\ shown' \in [Client -> SUBSET Client] /\ down' \in [Client -> Seq(Frame)]
          /\ shown'[c] = IF f.here THEN shown[c] \cup taken ELSE shown[c] \ (taken \ {c})
          /\ \A d \in Client : d # c => shown'[d] = shown[d] /\ down'[d] = down[d]
      BY <3>f, <3>t DEF DeliveredTo
    <3>7. PresenceTypeOK'
      BY <3>0, <3>5, <3>6 DEF PresenceTypeOK
    <3>8. \A p \in Client : /\ clock[p][p] \in Nat /\ clock'[p][p] \in Nat
                            /\ clock[p][p] <= clock'[p][p]
                            /\ p # c => clock'[p][p] = clock[p][p]
      <4>1. clock[c][c] <= clock'[c][c]
        <5>1. clock[c][c] \in Nat /\ f.clock[c] \in Nat
          BY <2>1, <3>2
        <5>2. CASE c \in taken
          BY <3>3, <3>5, <5>1, <5>2
        <5>3. CASE c \notin taken
          BY <3>5, <5>1, <5>3
        <5>. QED  BY <5>2, <5>3
      <4>2. \A p \in Client : clock[p][p] \in Nat /\ clock'[p][p] \in Nat
        BY <2>1, <3>5
      <4>3. \A p \in Client : p # c => clock'[p][p] = clock[p][p]
        BY <3>5
      <4>4. \A p \in Client : p # c => clock[p][p] <= clock'[p][p]
        BY <4>2, <4>3
      <4>. QED  BY <4>1, <4>2, <4>3, <4>4
    <3>9. ASSUME NEW p \in Client PROVE clock'[c][p] \in Nat /\ clock'[c][p] <= clock'[p][p] + 1
      <4>1. /\ clock[c][p] \in Nat /\ clock[c][p] <= clock[p][p] + 1
            /\ clock[p][p] \in Nat /\ clock'[p][p] \in Nat /\ clock[p][p] <= clock'[p][p]
        BY <2>1, <3>8 DEF FramesAreClose
      <4>2. CASE p = c
        BY <4>1, <4>2
      <4>3. CASE p # c
        BY <3>2, <3>5, <4>1, <4>3
      <4>. QED  BY <4>2, <4>3, <3>5
    <3>10. LinksOK'
      <4>1. \A d \in Client : /\ link[d] # 0 => <<d, link[d]>> \in open /\ outbox[d] = <<>>
                                                /\ d \notin gone
                              /\ link[d] = 0 => down[d] = <<>>
        BY DEF LinksOK, Here
      <4>2. \A d \in Client : link[d] = 0 => down'[d] = <<>>
        BY <3>1, <3>6, <4>1
      <4>3. \A k \in open : k[2] <= made
        BY DEF LinksOK
      <4>. QED  BY <3>0, <4>1, <4>2, <4>3 DEF LinksOK, Here
    <3>11. SentByOwner'
      <4>1. ASSUME NEW d \in Client, NEW g \in In(outbox[d])
            PROVE  /\ g.here => About(g) \subseteq {d}
                   /\ \A p \in Client : g.clock[p] <= clock'[p][p]
        <5>1. /\ g.here => About(g) \subseteq {d}
              /\ \A p \in Client : g.clock[p] \in Nat /\ g.clock[p] <= clock[p][p]
          BY <2>1 DEF SentByOwner
        <5>. QED  BY <3>8, <5>1
      <4>2. ASSUME NEW m \in In(channel), m.frame.here PROVE About(m.frame) \subseteq {m.from[1]}
        BY <4>2 DEF SentByOwner
      <4>. QED  BY <3>0, <4>1, <4>2 DEF SentByOwner, About
    <3>12. LastIsNewest'
      <4>1. outbox[c] = <<>>
        BY <3>1 DEF LinksOK
      <4>2. \A d \in Client : d # c => clock'[d][d] = clock[d][d]
        BY <3>8
      <4>3. outbox' = outbox
        BY <3>0
      <4>. QED  BY <4>1, <4>2, <4>3 DEF LastIsNewest, About
    <3>13. ShownIsKnown'
      <4>1. ASSUME NEW d \in Client PROVE clock'[d][d] > 0
        BY <3>8 DEF ShownIsKnown
      <4>2. ASSUME NEW d \in Client, NEW p \in shown'[d]
            PROVE  clock'[d][p] > 0 /\ clock'[d][p] <= clock'[p][p]
        <5>1. p \in Client
          BY <3>6
        <5>2. clock[p][p] \in Nat /\ clock'[p][p] \in Nat /\ clock[p][p] <= clock'[p][p]
          BY <3>8, <5>1
        <5>3. CASE d = p
          BY <4>1, <5>2, <5>3
        <5>4. CASE d # p /\ p \in shown[d] /\ (d # c \/ p \notin taken)
          <6>1. clock'[d][p] = clock[d][p] /\ clock[d][p] \in Nat
            BY <2>1, <3>5, <5>1, <5>4
          <6>2. clock[d][p] > 0 /\ clock[d][p] <= clock[p][p]
            BY <5>4 DEF ShownIsKnown
          <6>. QED  BY <5>2, <6>1, <6>2
        <5>5. CASE d = c /\ d # p /\ p \in taken
          <6>1. f.here
            BY <3>6, <4>2, <5>5
          <6>2. clock'[c][p] = f.clock[p] /\ f.clock[p] # 0
            BY <3>3, <3>5, <5>1, <5>5
          <6>3. f.clock[p] \in Nat /\ f.clock[p] <= clock[p][p]
            BY <3>2, <5>1, <5>2, <6>1
          <6>. QED  BY <5>2, <5>5, <6>2, <6>3
        <5>6. p \in shown[d] \/ (d = c /\ p \in taken)
          <6>1. CASE f.here
            BY <3>6, <4>2, <6>1
          <6>2. CASE ~f.here
            BY <3>6, <4>2, <6>2
          <6>. QED  BY <6>1, <6>2
        <5>. QED  BY <5>3, <5>4, <5>5, <5>6
      <4>. QED  BY <4>1, <4>2 DEF ShownIsKnown
    <3>14. FramesAreClose'
      <4>1. ASSUME NEW p \in Client, NEW d \in Client
            PROVE  /\ clock'[d][p] <= clock'[p][p] + 1
                   /\ \A g \in In(down'[d]) :
                         g.clock[p] <= clock'[p][p] + (IF g.here THEN 0 ELSE 1)
        <5>1. clock[p][p] \in Nat /\ clock'[p][p] \in Nat /\ clock[p][p] <= clock'[p][p]
          BY <3>8
        <5>2. ASSUME NEW g \in In(down'[d])
              PROVE  g.clock[p] <= clock'[p][p] + (IF g.here THEN 0 ELSE 1)
          <6>1. g \in In(down[d])
            BY <3>1, <3>6
          <6>2. /\ g.clock[p] \in Nat
                /\ g.clock[p] <= clock[p][p] + (IF g.here THEN 0 ELSE 1)
            BY <2>1, <6>1 DEF FramesAreClose
          <6>. QED  BY <5>1, <6>2
        <5>3. CASE d = c
          BY <3>9, <5>2, <5>3
        <5>4. CASE d # c
          <6>1. clock'[d][p] = clock[d][p] /\ clock[d][p] \in Nat /\ clock[d][p] <= clock[p][p] + 1
            BY <2>1, <3>5, <5>4 DEF FramesAreClose
          <6>. QED  BY <5>1, <5>2, <6>1
        <5>. QED  BY <5>3, <5>4
      <4>2. ASSUME NEW p \in Client, NEW m \in In(channel)
            PROVE  m.frame.clock[p] <= clock'[p][p] + (IF m.frame.here THEN 0 ELSE 1)
        <5>1. /\ m.frame.clock[p] \in Nat /\ clock[p][p] \in Nat /\ clock'[p][p] \in Nat
              /\ clock[p][p] <= clock'[p][p]
              /\ m.frame.clock[p] <= clock[p][p] + (IF m.frame.here THEN 0 ELSE 1)
          BY <2>1, <3>8 DEF FramesAreClose
        <5>. QED  BY <5>1
      <4>3. ASSUME NEW p \in Client, NEW k \in open PROVE memory[k][p] <= clock'[p][p]
        <5>1. /\ memory[k][p] \in Nat /\ clock[p][p] \in Nat /\ clock'[p][p] \in Nat
              /\ clock[p][p] <= clock'[p][p] /\ memory[k][p] <= clock[p][p]
          BY <2>1, <3>8 DEF FramesAreClose, PresenceTypeOK
        <5>. QED  BY <5>1
      <4>. QED  BY <3>0, <4>1, <4>2, <4>3 DEF FramesAreClose
    <3>. QED  BY <3>7, <3>10, <3>11, <3>12, <3>13, <3>14
  <2>15. CASE UNCHANGED presenceVars
    BY <2>15 DEF presenceVars, PresenceTypeOK, LinksOK, SentByOwner, LastIsNewest, ShownIsKnown,
                 FramesAreClose, Here, About
  <2>. HIDE DEF ClockInv
  <2>. QED  BY <1>2, <2>6, <2>7, <2>8, <2>9, <2>11, <2>12, <2>13, <2>14, <2>15 DEF PresenceNext
<1>3. ASSUME ClockInv PROVE ClocksStayClose
  <2>. USE <1>3 DEF ClockInv
  <2>1. ASSUME NEW p \in Client, NEW f \in AllFrames
        PROVE  f.clock[p] <= clock[p][p] + (IF f.here THEN 0 ELSE 1)
    <3>1. CASE \E c \in Client : f \in In(outbox[c])
      <4>1. f.clock[p] <= clock[p][p]
        BY <3>1 DEF SentByOwner
      <4>2. f.clock[p] \in Nat /\ clock[p][p] \in Nat
        <5>1. \A c \in Client : outbox[c] \in Seq(Frame)
          BY DEF PresenceTypeOK
        <5>2. f \in Frame /\ clock[p][p] \in Nat
          BY <3>1, <5>1, Queues DEF PresenceTypeOK
        <5>. QED  BY <5>2 DEF Frame
      <4>. QED  BY <4>1, <4>2
    <3>2. CASE \E c \in Client : f \in In(down[c])
      BY <3>2 DEF FramesAreClose
    <3>3. CASE \E m \in In(channel) : f = m.frame
      BY <3>3 DEF FramesAreClose
    <3>4. \/ \E c \in Client : f \in In(outbox[c]) \/ f \in In(down[c])
          \/ \E m \in In(channel) : f = m.frame
      <4>1. CASE f \in UNION {{outbox[c][i] : i \in DOMAIN outbox[c]}
                               \cup {down[c][i] : i \in DOMAIN down[c]} : c \in Client}
        <5>1. PICK c \in Client : f \in {outbox[c][i] : i \in DOMAIN outbox[c]}
                                        \cup {down[c][i] : i \in DOMAIN down[c]}
          BY <4>1
        <5>. QED  BY <5>1 DEF In
      <4>2. CASE f \in {channel[i].frame : i \in DOMAIN channel}
        BY <4>2 DEF In
      <4>. QED  BY <4>1, <4>2 DEF AllFrames
    <3>. QED  BY <3>1, <3>2, <3>3, <3>4
  <2>. QED  BY <2>1 DEF ClocksStayClose, FramesAreClose
<1>. QED  BY <1>1, <1>2, <1>3, PTL DEF PresenceSpec
-----------------------------------------------------------------------------
(***************************************************************************)
(* Being seen.                                                             *)
(***************************************************************************)

\* A removal on its way is ahead of the clock its subject had when it was last
\* disturbed by one, no more.
RemovalsAreNear(c, p) == \A f \in In(down[c]) : ~f.here => f.clock[p] <= news[p].mark + 1

\* So is what a client knows of one it does not show, when both are connected.
UnseenIsNear(c, p) ==
    c # p /\ link[c] # 0 /\ link[p] # 0 /\ p \notin shown[c] => clock[c][p] <= news[p].mark + 1

\* The newest state relayed since has come to everyone connected, or will.
HeardIsComing(c, p) ==
    c # p /\ link[c] # 0 =>
        \/ clock[c][p] >= news[p].heard
        \/ \E f \in In(down[c]) : f.here /\ f.clock[p] = news[p].heard

SeenInv ==
    \A c, p \in Client : RemovalsAreNear(c, p) /\ UnseenIsNear(c, p) /\ HeardIsComing(c, p)

\* A client is shown to everyone connected, once two of its states were relayed
\* and received, whatever was lost, forgotten or made up before.
THEOREM StatesAreSeen == PresenceSpec => []TwoStatesAreEnough
<1>. USE DEF RemovalsAreNear, UnseenIsNear, HeardIsComing
<1>1. PresenceInit => SeenInv
  <2>. SUFFICES ASSUME PresenceInit PROVE SeenInv
    OBVIOUS
  <2>1. /\ \A c \in Client : down[c] = <<>> /\ link[c] = 0
        /\ In(<<>>) = {}
    BY DEF PresenceInit, In
  <2>. QED  BY <2>1 DEF SeenInv
<1>2. ASSUME ClockInv, ClockInv', SeenInv, [PresenceNext]_presenceVars PROVE SeenInv'
  <2>. USE <1>2
  <2>1. /\ \A c, p \in Client : /\ clock[c][p] \in Nat /\ clock'[c][p] \in Nat
                                /\ clock'[c][p] <= clock'[p][p] + 1
        /\ \A p \in Client : news[p].mark \in Nat /\ news[p].heard \in Nat
        /\ \A c, p \in Client : \A f \in In(down'[c]) :
              ~f.here => f.clock[p] <= clock'[p][p] + 1
        /\ PresenceTypeOK /\ LinksOK
    <3>1. PresenceTypeOK /\ LinksOK /\ PresenceTypeOK' /\ FramesAreClose'
      BY DEF ClockInv
    <3>2. /\ \A c, p \in Client : clock[c][p] \in Nat /\ clock'[c][p] \in Nat
          /\ \A p \in Client : news[p].mark \in Nat /\ news[p].heard \in Nat
      <4>1. /\ clock \in [Client -> [Client -> Nat]] /\ clock' \in [Client -> [Client -> Nat]]
            /\ news \in [Client -> [mark : Nat, heard : Nat]]
        BY <3>1, Zenon DEF PresenceTypeOK
      <4>. QED  BY <4>1
    <3>3. /\ \A c, p \in Client : clock'[c][p] <= clock'[p][p] + 1
          /\ \A c, p \in Client : \A f \in In(down'[c]) : ~f.here => f.clock[p] <= clock'[p][p] + 1
      BY <3>1 DEF FramesAreClose
    <3>. QED  BY <3>1, <3>2, <3>3
  <2>1f. \A f \in Frame, p \in Client : f.clock[p] \in Nat /\ (p \notin About(f) => f.clock[p] = 0)
    BY DEF Frame, About
  \* News that start anew say nothing of the past.
  <2>2. ASSUME NEW p \in Client, news'[p] = [mark |-> clock'[p][p], heard |-> 0], NEW c \in Client
        PROVE  RemovalsAreNear(c, p)' /\ UnseenIsNear(c, p)' /\ HeardIsComing(c, p)'
    BY <2>1, <2>2
  <2>3. ASSUME UNCHANGED <<clock, news>>, NEW c \in Client, NEW p \in Client,
               \A f \in In(down'[c]) :
                  ~f.here => f \in In(down[c]) \/ (f \in Frame /\ p \notin About(f)),
               link'[c] # 0 => link[c] # 0 /\ In(down[c]) \subseteq In(down'[c]),
               link'[p] # 0 => link[p] # 0,
               c # p /\ link[c] # 0 /\ link[p] # 0 /\ p \in shown[c] => p \in shown'[c]
        PROVE  RemovalsAreNear(c, p)' /\ UnseenIsNear(c, p)' /\ HeardIsComing(c, p)'
    <3>1. RemovalsAreNear(c, p) /\ UnseenIsNear(c, p) /\ HeardIsComing(c, p)
      BY DEF SeenInv
    <3>2. RemovalsAreNear(c, p)'
      BY <2>1, <2>1f, <2>3, <3>1
    <3>3. UnseenIsNear(c, p)' /\ HeardIsComing(c, p)'
      BY <2>3, <3>1
    <3>. QED  BY <3>2, <3>3
  <2>f. ASSUME NEW s \in Client, NEW p \in Client, Forget(s, p), NEW c \in Client
        PROVE  RemovalsAreNear(c, p)' /\ UnseenIsNear(c, p)' /\ HeardIsComing(c, p)'
    <3>1. news' = Disturbed({p}) /\ clock' = clock
      BY <2>f DEF Forget
    <3>2. news'[p] = [mark |-> clock'[p][p], heard |-> 0]
      BY <3>1 DEF Disturbed
    <3>. QED  BY <2>2, <3>2
  \* Nobody else's news are about what a client sends before it is relayed.
  <2>4. ASSUME NEW s \in Client, NEW p \in Client, NEW c \in Client,
               Renew(s) \/ ClosePage(s) \/ (\E q \in Client : q # p /\ Forget(s, q))
        PROVE  RemovalsAreNear(c, p)' /\ UnseenIsNear(c, p)' /\ HeardIsComing(c, p)'
    <3>1. /\ news'[p] = news[p]
          /\ \A d \in Client : \/ link'[d] = link[d] /\ down'[d] = down[d]
                               \/ link'[d] = 0 /\ down'[d] = <<>>
          /\ c # p => clock'[c][p] = clock[c][p]
          /\ c # p /\ link[c] # 0 /\ link[p] # 0 /\ p \in shown[c] => p \in shown'[c]
      <4>0. /\ clock \in [Client -> [Client -> Nat]] /\ shown \in [Client -> SUBSET Client]
            /\ link \in [Client -> 0..MaxLinks] /\ down \in [Client -> Seq(Frame)]
        BY <2>1 DEF PresenceTypeOK
      <4>1. CASE Renew(s)
        BY <4>0, <4>1 DEF Renew, linkVars
      <4>2. CASE ClosePage(s)
        <5>1. /\ news' = news
              /\ link' = [link EXCEPT ![s] = 0] /\ down' = [down EXCEPT ![s] = <<>>]
              /\ clock' = [clock EXCEPT ![s][s] = @ + 1]
              /\ shown' = [shown EXCEPT ![s] = @ \ {s}]
          BY <4>2, Zenon DEF ClosePage
        <5>2. \A d \in Client : /\ link'[d] = IF d = s THEN 0 ELSE link[d]
                               /\ down'[d] = IF d = s THEN <<>> ELSE down[d]
          BY <4>0, <5>1
        <5>3. c # p => clock'[c][p] = clock[c][p]
          BY <4>0, <5>1
        <5>4. c # p /\ p \in shown[c] => p \in shown'[c]
          BY <4>0, <5>1
        <5>. QED  BY <5>1, <5>2, <5>3, <5>4, Zenon
      <4>3. ASSUME NEW q \in Client, Forget(s, q), q # p
            PROVE  /\ UNCHANGED <<link, down, clock>> /\ news'[p] = news[p]
                   /\ link[c] # 0 /\ link[p] # 0 /\ p \in shown[c] => p \in shown'[c]
        BY <4>0, <4>3 DEF Forget, linkVars, Disturbed
      <4>. QED  BY <2>4, <4>1, <4>2, <4>3
    <3>2. RemovalsAreNear(c, p) /\ UnseenIsNear(c, p) /\ HeardIsComing(c, p)
      BY DEF SeenInv
    <3>3. In(<<>>) = {}
      BY DEF In
    <3>. QED  BY <3>1, <3>2, <3>3
  <2>5. ASSUME NEW s \in Client, Connect(s) \/ Lose(s), NEW p \in Client, NEW c \in Client
        PROVE  RemovalsAreNear(c, p)' /\ UnseenIsNear(c, p)' /\ HeardIsComing(c, p)'
    <3>1. news' = Disturbed(Client) /\ clock' = clock
      BY <2>5 DEF Connect, Lose
    <3>2. news'[p] = [mark |-> clock'[p][p], heard |-> 0]
      BY <3>1 DEF Disturbed
    <3>. QED  BY <2>2, <3>2
  <2>6. ASSUME LoopRelays, NEW p \in Client, NEW c \in Client
        PROVE  RemovalsAreNear(c, p)' /\ UnseenIsNear(c, p)' /\ HeardIsComing(c, p)'
    <3>0. PICK m \in Sent : RelayedOne(m)
      BY <2>1, <2>6, QueuesChange
    <3>f. PICK f \in Frame : f = m.frame
      BY DEF Sent
    <3>1. /\ UNCHANGED <<clock, shown, link>>
          /\ IF Hears(c, m.from) THEN In(down'[c]) = In(down[c]) \cup {f} ELSE down'[c] = down[c]
      BY <3>0, <3>f DEF RelayedOne
    <3>2. RemovalsAreNear(c, p) /\ UnseenIsNear(c, p) /\ HeardIsComing(c, p)
      BY DEF SeenInv
    <3>3. CASE f.here
      <4>1. news'[p] = IF f.clock[p] <= news[p].heard THEN news[p]
                       ELSE [mark |-> news[p].mark, heard |-> f.clock[p]]
        BY <3>0, <3>3, <3>f DEF RelayedOne
      <4>2. news'[p].mark = news[p].mark
        BY <4>1
      <4>3. RemovalsAreNear(c, p)' /\ UnseenIsNear(c, p)'
        BY <3>1, <3>2, <3>3, <4>2
      <4>4. CASE f.clock[p] <= news[p].heard
        BY <3>1, <3>2, <4>1, <4>3, <4>4
      <4>5. CASE ~(f.clock[p] <= news[p].heard)
        <5>1. p \in About(f)
          BY <2>1, <2>1f, <4>5
        <5>2. p = m.from[1]
          BY <3>0, <3>f, <3>3, <5>1 DEF ClockInv, SentByOwner, RelayedOne
        <5>3. c # p /\ link[c] # 0 => Hears(c, m.from)
          BY <5>2 DEF Hears, Here
        <5>4. c # p /\ link[c] # 0 => f \in In(down'[c])
          BY <3>1, <5>3
        <5>5. news'[p].heard = f.clock[p]
          BY <4>1, <4>5
        <5>. QED  BY <3>1, <3>3, <4>3, <5>4, <5>5
      <4>. QED  BY <4>4, <4>5
    <3>4. CASE ~f.here /\ p \in About(f)
      <4>1. news'[p] = [mark |-> clock'[p][p], heard |-> 0]
        BY <3>0, <3>1, <3>4, <3>f DEF RelayedOne
      <4>. QED  BY <2>2, <4>1
    <3>5. CASE ~f.here /\ p \notin About(f)
      <4>1. news'[p] = news[p]
        BY <3>0, <3>5, <3>f DEF RelayedOne
      <4>2. f.clock[p] = 0
        BY <2>1f, <3>5
      <4>3. RemovalsAreNear(c, p)'
        BY <2>1, <3>1, <3>2, <4>1, <4>2
      <4>. QED  BY <3>1, <3>2, <4>1, <4>3
    <3>. QED  BY <3>3, <3>4, <3>5
  <2>7. ASSUME NEW k \in open, Dropped(k), NEW p \in Client, NEW c \in Client
        PROVE  RemovalsAreNear(c, p)' /\ UnseenIsNear(c, p)' /\ HeardIsComing(c, p)'
    <3>0. PICK f \in Frame : Ended(k, f)
      BY <2>1, <2>7, QueuesChange
    <3>1. CASE news'[p] = [mark |-> clock[p][p], heard |-> 0]
      BY <2>2, <3>0, <3>1 DEF Ended
    <3>2. CASE news'[p] = news[p] /\ p \notin About(f)
      <4>1. /\ UNCHANGED <<clock, shown>> /\ f.clock[p] = 0
            /\ \A d \in Client : \/ link'[d] = 0 /\ down'[d] = <<>>
                                 \/ link'[d] = 0 /\ down'[d] = down[d]
                                 \/ link'[d] = link[d] /\ In(down'[d]) = In(down[d]) \cup {f}
        BY <2>1f, <3>0, <3>2 DEF Ended
      <4>2. RemovalsAreNear(c, p) /\ UnseenIsNear(c, p) /\ HeardIsComing(c, p) /\ In(<<>>) = {}
        BY DEF SeenInv, In
      <4>3. RemovalsAreNear(c, p)'
        <5>1. ASSUME NEW g \in In(down'[c]), ~g.here PROVE g.clock[p] <= news[p].mark + 1
          <6>1. g = f \/ g \in In(down[c])
            BY <4>1, <4>2
          <6>. QED  BY <2>1, <4>1, <4>2, <5>1, <6>1
        <5>. QED  BY <3>2, <5>1
      <4>. QED  BY <3>2, <4>1, <4>2, <4>3
    <3>. QED  BY <3>0, <3>1, <3>2 DEF Ended
  <2>8. ASSUME NEW d \in Client, Deliver(d), NEW p \in Client, NEW c \in Client
        PROVE  RemovalsAreNear(c, p)' /\ UnseenIsNear(c, p)' /\ HeardIsComing(c, p)'
    <3>0. PICK f \in Frame : DeliveredTo(d, f)
      BY <2>1, <2>8, QueuesChange
    <3>1. RemovalsAreNear(c, p) /\ UnseenIsNear(c, p) /\ HeardIsComing(c, p) /\ In(<<>>) = {}
      BY DEF SeenInv, In
    <3>2. UNCHANGED <<link, news>>
      BY <3>0 DEF DeliveredTo
    <3>3. CASE c # d
      <4>1. clock'[c][p] = clock[c][p] /\ shown'[c] = shown[c] /\ down'[c] = down[c]
        BY <3>0, <3>3 DEF DeliveredTo
      <4>. QED  BY <3>1, <3>2, <4>1
    <3>4. CASE c = d
      <4>1. /\ In(down[c]) = {f} \cup In(down'[c])
            /\ shown'[c] = IF f.here THEN shown[c] \cup Takes(c, f)
                           ELSE shown[c] \ (Takes(c, f) \ {c})
            /\ p # c => clock'[c][p] = IF p \in Takes(c, f) THEN f.clock[p] ELSE clock[c][p]
        BY <3>0, <3>4 DEF DeliveredTo
      <4>2. RemovalsAreNear(c, p)'
        BY <3>1, <3>2, <4>1
      <4>3. UnseenIsNear(c, p)'
        <5>1. SUFFICES ASSUME c # p, link[c] # 0, link[p] # 0, p \notin shown'[c]
                       PROVE  clock'[c][p] <= news[p].mark + 1
          BY <3>2
        <5>2. CASE p \in Takes(c, f)
          <6>1. ~f.here
            BY <4>1, <5>1, <5>2
          <6>. QED  BY <3>1, <4>1, <5>1, <5>2, <6>1
        <5>3. CASE p \notin Takes(c, f)
          <6>1. p \notin shown[c]
            BY <4>1, <5>1, <5>3
          <6>. QED  BY <3>1, <4>1, <5>1, <5>3, <6>1
        <5>. QED  BY <5>2, <5>3
      <4>4. HeardIsComing(c, p)'
        <5>1. SUFFICES ASSUME c # p, link[c] # 0
                       PROVE  \/ clock'[c][p] >= news[p].heard
                              \/ \E g \in In(down'[c]) : g.here /\ g.clock[p] = news[p].heard
          BY <3>2
        <5>2. clock'[c][p] >= clock[c][p] /\ (p \in About(f) => clock'[c][p] >= f.clock[p])
          BY <2>1, <2>1f, <4>1, <5>1 DEF Takes
        <5>3. CASE clock[c][p] >= news[p].heard
          BY <2>1, <5>2, <5>3
        <5>4. CASE \E g \in In(down'[c]) : g.here /\ g.clock[p] = news[p].heard
          BY <5>4
        <5>5. CASE f.here /\ f.clock[p] = news[p].heard
          <6>1. CASE p \in About(f)
            BY <5>2, <5>5, <6>1
          <6>2. CASE p \notin About(f)
            BY <2>1, <2>1f, <5>5, <6>2
          <6>. QED  BY <6>1, <6>2
        <5>. QED  BY <3>1, <4>1, <5>1, <5>3, <5>4, <5>5
      <4>. QED  BY <4>2, <4>3, <4>4
    <3>. QED  BY <3>3, <3>4
  <2>9. CASE UNCHANGED presenceVars
    BY <2>9 DEF presenceVars, SeenInv
  <2>10. CASE PresenceNext
    BY <2>f, <2>4, <2>5, <2>6, <2>7, <2>8, <2>10 DEF PresenceNext, SeenInv
  <2>. QED  BY <2>9, <2>10
<1>3. ASSUME ClockInv, SeenInv PROVE TwoStatesAreEnough
  <2>. SUFFICES ASSUME NEW c \in Client, NEW p \in Client, c # p, link[c] # 0, link[p] # 0,
                       down[c] = <<>>, news[p].heard >= news[p].mark + 2
                PROVE  p \in shown[c]
    BY DEF TwoStatesAreEnough
  <2>1. In(down[c]) = {}
    BY DEF In
  <2>2. clock[c][p] >= news[p].heard
    BY <1>3, <2>1 DEF SeenInv
  <2>3. clock[c][p] \in Nat /\ news[p].heard \in Nat /\ news[p].mark \in Nat
    BY <1>3 DEF ClockInv, PresenceTypeOK
  <2>4. ~(clock[c][p] <= news[p].mark + 1)
    BY <2>2, <2>3
  <2>. QED  BY <1>3, <2>4 DEF SeenInv
<1>. QED  BY <1>1, <1>2, <1>3, ClocksAreKept, PTL DEF PresenceSpec
-----------------------------------------------------------------------------
(***************************************************************************)
(* Going.                                                                  *)
(***************************************************************************)

\* A state of p with clock n is not the last that c hears of p: c knows a newer
\* clock, a newer removal is on its way, or the node makes one up when it ends
\* the connection the state came over; but c may miss that one.
Outdated(c, p, n) ==
    \/ p \in missed[c] \/ clock[c][p] > n
    \/ \E k \in open : k[1] = p /\ n <= memory[k][p]
    \/ \E f \in In(down[c]) : ~f.here /\ f.clock[p] > n

\* So it is with every state that c shows or is yet to show.
StatesEnd(c, p) ==
    /\ p \in shown[c] => Outdated(c, p, clock[c][p])
    /\ \A f \in In(down[c]) : f.here /\ p \in About(f) => Outdated(c, p, f.clock[p])
    /\ \A m \in In(channel) :
          m.frame.here /\ p \in About(m.frame) => Outdated(c, p, m.frame.clock[p])

EndInv == \A c \in Client \ gone : \A p \in Client \ {c} : StatesEnd(c, p)

\* Nobody who has gone is shown to anyone who was connected when the last of its
\* connections ended, in whatever order the removals overtook its states.
THEOREM GhostsLeave == PresenceSpec => []NoGhosts
<1>1. PresenceInit => EndInv
  <2>. SUFFICES ASSUME PresenceInit PROVE EndInv
    OBVIOUS
  <2>1. /\ \A c \in Client : down[c] = <<>> /\ shown[c] = {c}
        /\ channel = <<>> /\ In(<<>>) = {}
    BY DEF PresenceInit, In
  <2>. QED  BY <2>1 DEF EndInv, StatesEnd
<1>2. ASSUME ClockInv, EndInv, [PresenceNext]_presenceVars PROVE EndInv'
  <2>. USE <1>2
  <2>1. /\ \A c, p \in Client : clock[c][p] \in Nat
        /\ \A c \in Client : \A p \in shown[c] : p \in Client /\ clock[c][p] # 0
        /\ \A k \in Conn, p \in Client : memory[k][p] \in Nat
        /\ \A k \in open : k \in Conn /\ \A p \in Client : memory[k][p] <= clock[p][p]
        /\ PresenceTypeOK /\ LinksOK
    BY DEF ClockInv, PresenceTypeOK, FramesAreClose, ShownIsKnown
  <2>2. /\ \A f \in Frame, p \in Client :
              f.clock[p] \in Nat /\ (p \in About(f) <=> f.clock[p] # 0)
        /\ \A m \in Sent : m.frame \in Frame
        /\ \A c \in Client : In(down[c]) \subseteq Frame
        /\ In(channel) \subseteq Sent /\ In(<<>>) = {}
    <3>1. /\ \A c \in Client : down[c] \in Seq(Frame)
          /\ channel \in Seq(Sent)
      BY <2>1 DEF PresenceTypeOK, Sent
    <3>2. /\ \A f \in Frame, p \in Client :
                f.clock[p] \in Nat /\ (p \in About(f) <=> f.clock[p] # 0)
          /\ \A m \in Sent : m.frame \in Frame
      BY DEF Frame, Sent, About
    <3>. QED  BY <3>1, <3>2, Queues
  <2>3. ASSUME NEW c \in Client, NEW p \in Client, c # p, c \notin gone PROVE StatesEnd(c, p)
    BY <2>3 DEF EndInv
  \* What is outdated stays so, and whatever else is sent is.
  <2>4. ASSUME NEW c \in Client, NEW p \in Client, StatesEnd(c, p),
               \A n \in Nat : n # 0 /\ Outdated(c, p, n) => Outdated(c, p, n)',
               clock'[c][p] = clock[c][p], shown'[c] \subseteq shown[c],
               \A f \in In(down'[c]) : f.here => f \in In(down[c])
                  \/ \E m \in In(channel) : f = m.frame,
               \A m \in In(channel') : m \in In(channel) \/
                  (m.frame.here /\ p \in About(m.frame) => Outdated(c, p, m.frame.clock[p])')
        PROVE  StatesEnd(c, p)'
    <3>1. ASSUME p \in shown'[c] PROVE Outdated(c, p, clock[c][p])'
      <4>1. PICK n : n = clock[c][p]
        OBVIOUS
      <4>2. n \in Nat /\ n # 0 /\ Outdated(c, p, n)
        BY <2>1, <2>4, <3>1, <4>1 DEF StatesEnd
      <4>3. Outdated(c, p, n)' /\ clock'[c][p] = n
        BY <2>4, <4>1, <4>2
      <4>. QED  BY <4>3
    <3>2. ASSUME NEW f, f \in In(down[c]) \/ (\E m \in In(channel) : f = m.frame),
                 f.here, p \in About(f)
          PROVE  Outdated(c, p, f.clock[p])'
      <4>1. PICK n : n = f.clock[p]
        OBVIOUS
      <4>2. f \in Frame
        BY <2>2, <3>2
      <4>3. n \in Nat /\ n # 0
        BY <2>2, <3>2, <4>1, <4>2
      <4>4. Outdated(c, p, n)
        BY <2>4, <3>2, <4>1 DEF StatesEnd
      <4>5. Outdated(c, p, n)'
        BY <2>4, <4>3, <4>4
      <4>. QED  BY <4>1, <4>5
    <3>3. ASSUME NEW f \in In(down'[c]), f.here, p \in About(f) PROVE Outdated(c, p, f.clock[p])'
      <4>1. f \in In(down[c]) \/ (\E m \in In(channel) : f = m.frame)
        BY <2>4, <3>3
      <4>. QED  BY <3>2, <3>3, <4>1
    <3>4. ASSUME NEW m \in In(channel'), m.frame.here, p \in About(m.frame)
          PROVE  Outdated(c, p, m.frame.clock[p])'
      <4>1. CASE m \in In(channel)
        BY <3>2, <3>4, <4>1
      <4>2. CASE m.frame.here /\ p \in About(m.frame) => Outdated(c, p, m.frame.clock[p])'
        BY <3>4, <4>2
      <4>. QED  BY <2>4, <4>1, <4>2
    <3>. QED  BY <3>1, <3>3, <3>4 DEF StatesEnd, About
  \* A client sends: what the node then remembers of it is not older.
  <2>5. ASSUME NEW s \in Client, NEW f \in Frame, Send(s, f),
               f.here => About(f) \subseteq {s},
               s \in About(f) => f.clock[s] >= clock[s][s], missed' = missed,
               NEW c \in Client, NEW p \in Client, StatesEnd(c, p), clock'[c][p] = clock[c][p],
               shown'[c] \subseteq shown[c], down'[c] = down[c]
        PROVE  StatesEnd(c, p)'
    <3>0. PICK k : k = Here(s)
      OBVIOUS
    <3>1. CASE link[s] = 0
      <4>1. UNCHANGED <<open, memory, channel>>
        BY <2>1, <2>5, <3>1, SendKeeps
      <4>2. \A n \in Nat : Outdated(c, p, n) => Outdated(c, p, n)'
        BY <2>5, <4>1 DEF Outdated
      <4>. QED  BY <2>4, <2>5, <4>1, <4>2
    <3>2. CASE link[s] # 0
      <4>1. /\ open' = open /\ k \in open /\ k[1] = s
            /\ In(channel') \subseteq In(channel) \cup {[from |-> k, frame |-> f]}
            /\ \A j \in Conn, q \in Client :
                  memory'[j][q] = IF j = k /\ q \in About(f) THEN f.clock[q] ELSE memory[j][q]
        <5>1. /\ open' = open /\ Here(s) \in open /\ Here(s)[1] = s
              /\ In(channel') \subseteq In(channel) \cup {[from |-> Here(s), frame |-> f]}
              /\ \A j \in Conn, q \in Client :
                    memory'[j][q] = IF j = Here(s) /\ q \in About(f) THEN f.clock[q]
                                    ELSE memory[j][q]
          BY <2>1, <2>5, <3>2, SendKeeps, Zenon
        <5>. QED  BY <3>0, <5>1, Zenon
      <4>2. \A j \in open : j[1] = p => memory'[j][p] >= memory[j][p] /\ memory'[j][p] \in Nat
        <5>1. ASSUME NEW j \in open, j[1] = p
              PROVE  memory'[j][p] >= memory[j][p] /\ memory'[j][p] \in Nat
          <6>1. /\ j \in Conn /\ memory[j][p] \in Nat /\ memory[j][p] <= clock[p][p]
                /\ clock[p][p] \in Nat /\ f.clock[p] \in Nat
            BY <2>1, <2>2
          <6>2. CASE j = k /\ p \in About(f)
            BY <2>5, <4>1, <5>1, <6>1, <6>2
          <6>3. CASE ~(j = k /\ p \in About(f))
            BY <4>1, <6>1, <6>3
          <6>. QED  BY <6>2, <6>3
        <5>. QED  BY <5>1
      <4>3. ASSUME NEW n \in Nat, Outdated(c, p, n) PROVE Outdated(c, p, n)'
        <5>1. ASSUME NEW j \in open, j[1] = p, n <= memory[j][p]
              PROVE  n <= memory'[j][p]
          BY <2>1, <4>2, <5>1
        <5>. QED  BY <2>5, <4>1, <4>3, <5>1 DEF Outdated
      <4>4. ASSUME f.here, p \in About(f) PROVE Outdated(c, p, f.clock[p])'
        <5>1. p = s /\ memory'[k][p] = f.clock[p] /\ f.clock[p] \in Nat
          BY <2>1, <2>2, <2>5, <4>1, <4>4
        <5>. QED  BY <4>1, <5>1 DEF Outdated
      <4>5. ASSUME NEW m \in In(channel')
            PROVE  m \in In(channel) \/
                     (m.frame.here /\ p \in About(m.frame) => Outdated(c, p, m.frame.clock[p])')
        <5>1. CASE m = [from |-> k, frame |-> f]
          <6>1. m.frame = f
            BY <5>1
          <6>. QED  BY <4>4, <6>1
        <5>. QED  BY <4>1, <5>1
      <4>. QED  BY <2>4, <2>5, <4>3, <4>5
    <3>. QED  BY <3>1, <3>2
  <2>6. ASSUME NEW s \in Client, Renew(s) \/ ClosePage(s), NEW c \in Client, NEW p \in Client,
               c # p, c \notin gone'
        PROVE  StatesEnd(c, p)'
    <3>n. PICK n : n = clock[s][s] + 1
      OBVIOUS
    <3>b. PICK b \in BOOLEAN : Send(s, Only(s, n, b))
      BY <2>6, <3>n DEF Renew, ClosePage
    <3>1. n \in Nat /\ n >= clock[s][s]
      BY <2>1, <3>n
    <3>f. PICK f \in Frame : /\ f = Only(s, n, b) /\ f.clock[s] = n
                             /\ About(f) \subseteq {s}
      BY <3>1, OnlyAboutOne
    <3>2. Send(s, f)
      BY <3>b, <3>f
    <3>3. /\ clock'[c][p] = clock[c][p] /\ shown'[c] \subseteq shown[c] /\ down'[c] = down[c]
          /\ missed' = missed /\ c \notin gone
      <4>0. /\ clock \in [Client -> [Client -> Nat]] /\ shown \in [Client -> SUBSET Client]
            /\ down \in [Client -> Seq(Frame)]
        BY <2>1 DEF PresenceTypeOK
      <4>1. CASE Renew(s)
        BY <2>6, <4>0, <4>1 DEF Renew
      <4>2. CASE ClosePage(s)
        BY <2>6, <4>0, <4>2 DEF ClosePage
      <4>. QED  BY <2>6, <4>1, <4>2
    <3>4. StatesEnd(c, p)
      BY <2>3, <2>6, <3>3
    <3>. QED  BY <2>5, <3>1, <3>2, <3>3, <3>4, <3>f
  <2>7. ASSUME NEW s \in Client, NEW q \in Client, Forget(s, q), NEW c \in Client, NEW p \in Client,
               c # p, c \notin gone'
        PROVE  StatesEnd(c, p)'
    <3>n. PICK n : n = clock[s][q]
      OBVIOUS
    <3>b. PICK b \in BOOLEAN : b = FALSE
      OBVIOUS
    <3>0. Send(s, Only(q, n, b))
      BY <2>7, <3>n, <3>b, Zenon DEF Forget
    <3>1. n \in Nat /\ q # s
      BY <2>1, <2>7, <3>n DEF Forget
    <3>f. PICK f \in Frame : f = Only(q, n, b) /\ f.here = b /\ About(f) \subseteq {q}
      BY <3>1, OnlyAboutOne
    <3>2. Send(s, f) /\ ~f.here /\ s \notin About(f)
      BY <3>0, <3>1, <3>b, <3>f
    <3>3. /\ clock'[c][p] = clock[c][p] /\ shown'[c] \subseteq shown[c] /\ down'[c] = down[c]
          /\ missed' = missed /\ c \notin gone
      <4>1. shown \in [Client -> SUBSET Client]
        BY <2>1 DEF PresenceTypeOK
      <4>. QED  BY <2>7, <4>1 DEF Forget
    <3>4. StatesEnd(c, p)
      BY <2>3, <2>7, <3>3
    <3>. QED  BY <2>5, <3>2, <3>3, <3>4
  \* The new connection's memory of its client is newer than all it sends.
  <2>8. ASSUME NEW s \in Client, Connect(s), NEW c \in Client, NEW p \in Client,
               c # p, c \notin gone'
        PROVE  StatesEnd(c, p)'
    <3>k. PICK k : k = <<s, made + 1>>
      OBVIOUS
    <3>g. PICK fresh : fresh = {Greeting(s)} \cup In(outbox[s])
      OBVIOUS
    <3>1. /\ k \notin open /\ open' = open \cup {k}
          /\ In(channel') \subseteq In(channel) \cup {[from |-> k, frame |-> f] : f \in fresh}
          /\ \A j \in Conn : j # k => memory'[j] = memory[j]
          /\ memory'[k][s] = clock[s][s]
      BY <2>8, <3>k, <3>g, ConnectKeeps
    <3>2. ASSUME NEW f \in fresh
          PROVE  /\ f.here => About(f) \subseteq {s}
                 /\ f.clock[s] <= clock[s][s]
      BY <2>8, <3>k, <3>g, ConnectKeeps
    <3>3. UNCHANGED <<clock, shown, gone, down, missed>>
      BY <2>8 DEF Connect
    <3>4. ASSUME NEW n \in Nat, Outdated(c, p, n) PROVE Outdated(c, p, n)'
      <4>1. \A j \in open : j \in open' /\ memory'[j] = memory[j]
        BY <2>1, <3>1
      <4>. QED  BY <3>3, <3>4, <4>1 DEF Outdated
    <3>5. ASSUME NEW f \in fresh, f.here, p \in About(f) PROVE Outdated(c, p, f.clock[p])'
      <4>1. p = s /\ f.clock[p] <= memory'[k][p] /\ k[1] = p
        BY <3>k, <3>1, <3>2, <3>5
      <4>. QED  BY <3>1, <4>1 DEF Outdated
    <3>6. ASSUME NEW m \in In(channel')
          PROVE  m \in In(channel) \/
                   (m.frame.here /\ p \in About(m.frame) => Outdated(c, p, m.frame.clock[p])')
      <4>1. CASE \E f \in fresh : m = [from |-> k, frame |-> f]
        <5>1. PICK f \in fresh : m = [from |-> k, frame |-> f]
          BY <4>1
        <5>2. m.frame = f
          BY <5>1
        <5>. QED  BY <3>5, <5>2
      <4>. QED  BY <3>1, <4>1
    <3>7. StatesEnd(c, p)
      BY <2>3, <2>8, <3>3
    <3>. QED  BY <2>4, <3>3, <3>4, <3>6, <3>7
  <2>9. ASSUME NEW s \in Client, Lose(s), NEW c \in Client, NEW p \in Client, c # p, c \notin gone'
        PROVE  StatesEnd(c, p)'
    <3>1. /\ UNCHANGED <<clock, shown, gone, open, memory, channel>>
          /\ down' = [down EXCEPT ![s] = <<>>] /\ missed' = [missed EXCEPT ![s] = Client]
      BY <2>9 DEF Lose, nodeVars
    <3>2. down \in [Client -> Seq(Frame)] /\ missed \in [Client -> SUBSET Client]
      BY <2>1 DEF PresenceTypeOK
    <3>3. CASE c = s
      <4>1. p \in missed'[c]
        BY <3>1, <3>2, <3>3
      <4>. QED  BY <4>1 DEF StatesEnd, Outdated
    <3>4. CASE c # s
      <4>1. down'[c] = down[c] /\ missed'[c] = missed[c] /\ StatesEnd(c, p)
        BY <2>3, <2>9, <3>1, <3>2, <3>4
      <4>. QED  BY <3>1, <4>1 DEF StatesEnd, Outdated, About
    <3>. QED  BY <3>3, <3>4
  <2>10. ASSUME LoopRelays, NEW c \in Client, NEW p \in Client, c # p, c \notin gone'
         PROVE  StatesEnd(c, p)'
    <3>0. PICK m \in Sent : RelayedOne(m)
      BY <2>1, <2>10, QueuesChange
    <3>1. /\ UNCHANGED <<clock, shown, gone, open, memory, missed>>
          /\ In(down[c]) \subseteq In(down'[c]) /\ In(down'[c]) \subseteq In(down[c]) \cup {m.frame}
          /\ m \in In(channel) /\ In(channel') \subseteq In(channel)
      BY <3>0 DEF RelayedOne
    <3>2. \A n \in Nat : Outdated(c, p, n) => Outdated(c, p, n)'
      BY <3>1 DEF Outdated
    <3>3. StatesEnd(c, p)
      BY <2>3, <2>10, <3>1
    <3>. QED  BY <2>4, <3>1, <3>2, <3>3
  \* What a connection's memory covered, the removal made up from it does.
  <2>11. ASSUME NEW k \in open, Dropped(k), NEW c \in Client, NEW p \in Client, c # p, c \notin gone'
         PROVE  StatesEnd(c, p)'
    <3>0. PICK f \in Frame : Ended(k, f)
      BY <2>1, <2>11, QueuesChange
    <3>1. /\ UNCHANGED <<clock, shown, gone, memory, channel>> /\ open' = open \ {k} /\ ~f.here
          /\ f.clock[p] = IF memory[k][p] = 0 THEN 0 ELSE memory[k][p] + 1
      BY <3>0 DEF Ended
    <3>2. CASE Here(c) = k \/ p \in missed'[c]
      <4>1. p \in missed'[c]
        BY <3>0, <3>2 DEF Ended
      <4>. QED  BY <4>1 DEF StatesEnd, Outdated
    <3>3. CASE Here(c) # k /\ p \notin missed'[c]
      <4>1. IF link[c] = 0 THEN down'[c] = down[c] /\ missed'[c] = missed[c] \cup {k[1]}
            ELSE In(down'[c]) = In(down[c]) \cup {f} /\ missed'[c] = missed[c]
        BY <3>0, <3>3 DEF Ended
      <4>2. /\ In(down[c]) \subseteq In(down'[c]) /\ In(down'[c]) \subseteq In(down[c]) \cup {f}
            /\ p \notin missed[c]
            /\ k[1] = p => f \in In(down'[c])
        BY <3>3, <4>1
      <4>3. ASSUME NEW n \in Nat, n # 0, Outdated(c, p, n) PROVE Outdated(c, p, n)'
        <5>1. CASE k[1] = p /\ n <= memory[k][p]
          <6>1. memory[k][p] \in Nat /\ f.clock[p] > n
            BY <2>1, <3>1, <4>3, <5>1
          <6>. QED  BY <3>1, <4>2, <5>1, <6>1 DEF Outdated
        <5>2. CASE ~(k[1] = p /\ n <= memory[k][p])
          BY <3>1, <4>2, <4>3, <5>2 DEF Outdated
        <5>. QED  BY <5>1, <5>2
      <4>4. StatesEnd(c, p)
        BY <2>3, <2>11, <3>1
      <4>. QED  BY <2>4, <3>1, <4>2, <4>3, <4>4
    <3>. QED  BY <3>2, <3>3
  \* A frame that arrives leaves its clock behind.
  <2>12. ASSUME NEW d \in Client, Deliver(d), NEW c \in Client, NEW p \in Client, c # p,
                c \notin gone'
         PROVE  StatesEnd(c, p)'
    <3>0. PICK f \in Frame : DeliveredTo(d, f)
      BY <2>1, <2>12, QueuesChange
    <3>1. UNCHANGED <<gone, open, memory, channel, missed>>
      BY <3>0 DEF DeliveredTo
    <3>2. StatesEnd(c, p)
      BY <2>3, <2>12, <3>1
    <3>3. CASE c # d
      <4>1. clock'[c][p] = clock[c][p] /\ shown'[c] = shown[c] /\ down'[c] = down[c]
        BY <3>0, <3>3 DEF DeliveredTo
      <4>. QED  BY <3>1, <3>2, <4>1 DEF StatesEnd, Outdated, About
    <3>4. CASE c = d
      <4>1. /\ In(down[c]) = {f} \cup In(down'[c])
            /\ shown'[c] = IF f.here THEN shown[c] \cup Takes(c, f)
                           ELSE shown[c] \ (Takes(c, f) \ {c})
            /\ clock'[c][p] = IF p \in Takes(c, f) THEN f.clock[p] ELSE clock[c][p]
        BY <2>12, <3>0, <3>4 DEF DeliveredTo
      <4>2. /\ clock[c][p] \in Nat /\ f.clock[p] \in Nat /\ clock'[c][p] \in Nat
            /\ clock'[c][p] >= clock[c][p] /\ clock'[c][p] >= f.clock[p]
        BY <2>1, <2>2, <4>1 DEF Takes
      <4>3. ASSUME NEW n \in Nat, Outdated(c, p, n) PROVE Outdated(c, p, n)'
        <5>1. CASE f.clock[p] > n \/ clock[c][p] > n
          <6>1. clock'[c][p] > n
            BY <4>2, <5>1
          <6>. QED  BY <6>1 DEF Outdated
        <5>2. CASE ~(f.clock[p] > n) /\ ~(clock[c][p] > n)
          BY <3>1, <4>1, <4>3, <5>2 DEF Outdated
        <5>. QED  BY <5>1, <5>2
      <4>4. ASSUME NEW g \in In(down[c]), g.here, p \in About(g) PROVE Outdated(c, p, g.clock[p])'
        <5>1. PICK n : n = g.clock[p]
          OBVIOUS
        <5>2. n \in Nat
          BY <2>2, <5>1
        <5>3. Outdated(c, p, n)
          BY <3>2, <4>4, <5>1 DEF StatesEnd
        <5>4. Outdated(c, p, n)'
          BY <4>3, <5>2, <5>3
        <5>. QED  BY <5>1, <5>4
      <4>5. ASSUME p \in shown'[c] PROVE Outdated(c, p, clock[c][p])'
        <5>1. CASE p \in Takes(c, f)
          <6>1. f.here /\ p \in About(f) /\ f \in In(down[c])
            BY <2>12, <4>1, <4>5, <5>1 DEF Takes
          <6>2. Outdated(c, p, f.clock[p])'
            BY <4>4, <6>1
          <6>3. clock'[c][p] = f.clock[p]
            BY <4>1, <5>1
          <6>. QED  BY <6>2, <6>3
        <5>2. CASE p \notin Takes(c, f)
          <6>1. PICK n : n = clock[c][p]
            OBVIOUS
          <6>2. n \in Nat /\ p \in shown[c] /\ clock'[c][p] = n
            BY <4>1, <4>2, <4>5, <5>2, <6>1
          <6>3. Outdated(c, p, n)
            BY <3>2, <6>1, <6>2 DEF StatesEnd
          <6>4. Outdated(c, p, n)'
            BY <4>3, <6>2, <6>3
          <6>. QED  BY <6>2, <6>4
        <5>. QED  BY <5>1, <5>2
      <4>6. ASSUME NEW m \in In(channel), m.frame.here, p \in About(m.frame)
            PROVE  Outdated(c, p, m.frame.clock[p])'
        <5>1. PICK n : n = m.frame.clock[p]
          OBVIOUS
        <5>2. n \in Nat
          BY <2>2, <5>1
        <5>3. Outdated(c, p, n)
          BY <3>2, <4>6, <5>1 DEF StatesEnd
        <5>4. Outdated(c, p, n)'
          BY <4>3, <5>2, <5>3
        <5>. QED  BY <5>1, <5>4
      <4>. QED  BY <3>1, <4>1, <4>4, <4>5, <4>6 DEF StatesEnd, About
    <3>. QED  BY <3>3, <3>4
  <2>13. CASE UNCHANGED presenceVars
    BY <2>13 DEF presenceVars, EndInv, StatesEnd, Outdated, About
  <2>14. CASE PresenceNext
    BY <2>6, <2>7, <2>8, <2>9, <2>10, <2>11, <2>12, <2>14 DEF PresenceNext, EndInv
  <2>. QED  BY <2>13, <2>14
<1>3. ASSUME ClockInv, EndInv PROVE NoGhosts
  <2>. SUFFICES ASSUME NEW c \in Client, NEW p \in gone, link[c] # 0, p \notin missed[c],
                       down[c] = <<>>, \A k \in open : k[1] # p, p \in shown[c]
                PROVE  FALSE
    BY DEF NoGhosts
  <2>1. In(down[c]) = {} /\ p \in Client /\ c \notin gone /\ clock[c][p] \in Nat
    BY <1>3 DEF In, ClockInv, PresenceTypeOK, LinksOK
  <2>2. Outdated(c, p, clock[c][p])
    BY <1>3, <2>1 DEF EndInv, StatesEnd
  <2>. QED  BY <2>1, <2>2 DEF Outdated
<1>. QED  BY <1>1, <1>2, <1>3, ClocksAreKept, PTL DEF PresenceSpec
=============================================================================
