-------------------------------- MODULE Relay --------------------------------
(***************************************************************************)
(* Updates of one document between API nodes: internal/sync/hub.go (loop,  *)
(* brokerLoop) and broker.go (ValkeyBroker).  Each node has its own        *)
(* registry; what joins them is the update log of the database and a       *)
(* publish/subscribe server (external) that promises nothing.              *)
(*                                                                         *)
(* DocSession has the path inside a node.  Here a node's incoming channel  *)
(* is left out and a connection's buffer is the set of updates put in it.  *)
(* Who leaves unregisters and, if nobody was left, detaches, two steps, as *)
(* in Hub; of two who both saw nobody left the second one detaches again.  *)
(***************************************************************************)
EXTENDS Naturals, FiniteSets, Sequences

CONSTANTS
    Node,
    Peer,         \* connections; each joins once
    NodeOf,       \* the node the load balancer chose for it
    MaxSent,      \* bounds on the updates sent,
    MaxSessions,  \* the sessions of a node
    MaxRestarts,  \* and the restarts
    ReceiveCap    \* capacity of ValkeyBroker.ch

ASSUME RelayAssumption ==
    /\ NodeOf \in [Peer -> Node]
    /\ MaxSent \in Nat /\ MaxSessions \in Nat \ {0} /\ MaxRestarts \in Nat
    /\ ReceiveCap \in Nat \ {0}

VARIABLES
    log,        \* document_updates, in seq order
    current,    \* per node, its session of the document, 0 when there is none
    used,       \* per node, the sessions it has had
    closed,     \* the sessions whose loop was told to stop, or that are lost
    at,         \* per connection, where it stands and in which session
    buffer,     \* the updates replayed or broadcast to it
    work,       \* what the loop of a session is doing
    wire,       \* published updates on their way to a node
    received,   \* ValkeyBroker.ch
    held,       \* brokerLoop: an update and the session it is for
    produced, restarts,
    lost,       \* history: per node, updates whose publication did not get
                \* there, or was never made
    twice,      \* history: nodes on which a session was detached again
    missed      \* history: per connection, updates looked up while its session
                \* was not the one of the registry

relayVars == <<log, current, used, closed, at, buffer, work, wire, received, held,
               produced, restarts, lost, twice, missed>>

Published == 1..MaxSent
Sess == Node \X (1..MaxSessions)
NoWork == [stage |-> "idle"]
NoFrame == [session |-> 0]

Stored == {log[i].upd : i \in DOMAIN log}
SessionOf(c) == <<NodeOf[c], at[c].session>>
InSession(s) == {c \in Peer : at[c].phase \in {"joined", "serving"} /\ SessionOf(c) = s}
Give(cs, u) == buffer' = [c \in Peer |-> IF c \in cs THEN buffer[c] \cup {u} ELSE buffer[c]]

RelayTypeOK ==
    /\ Len(log) <= MaxSent
    /\ current \in [Node -> 0..MaxSessions] /\ used \in [Node -> 0..MaxSessions]
    /\ closed \subseteq Sess /\ twice \subseteq Node
    /\ at \in [Peer -> [phase : {"away", "joined", "serving",
                                  "handlerDetaches", "pumpDetaches", "left"},
                          session : 0..MaxSessions]]
    /\ buffer \in [Peer -> SUBSET Published]
    /\ wire \subseteq [upd : Published, from : Node, to : Node]
    /\ \A n \in Node : Len(received[n]) <= ReceiveCap
    /\ lost \in [Node -> SUBSET Published]
    /\ missed \in [Peer -> SUBSET Published]

RelayIdle ==
    /\ log = <<>> /\ current = [n \in Node |-> 0] /\ used = [n \in Node |-> 0]
    /\ closed = {} /\ twice = {} /\ missed = [c \in Peer |-> {}]
    /\ at = [c \in Peer |-> [phase |-> "away", session |-> 0]]
    /\ buffer = [c \in Peer |-> {}] /\ work = [s \in Sess |-> NoWork]
    /\ wire = {} /\ received = [n \in Node |-> <<>>] /\ held = [n \in Node |-> NoFrame]
    /\ produced = 0 /\ restarts = 0 /\ lost = [n \in Node |-> {}]

RelayInit == RelayIdle

registryVars == <<current, used, closed, twice>>
brokerVars == <<wire, received, held>>
countVars == <<produced, restarts, lost, missed>>

(***************************************************************************)
(* Connections: join, load and replay, leave.                              *)
(***************************************************************************)
JoinNode(c) ==
    LET n == NodeOf[c]
        s == IF current[n] = 0 THEN used[n] + 1 ELSE current[n]
    IN /\ at[c].phase = "away" /\ s <= MaxSessions
       /\ current' = [current EXCEPT ![n] = s]
       /\ used' = [used EXCEPT ![n] = IF @ < s THEN s ELSE @]
       /\ at' = [at EXCEPT ![c] = [phase |-> "joined", session |-> s]]
       /\ UNCHANGED <<log, closed, twice, buffer, work, brokerVars, countVars>>

\* Mutant: the history is read before the connection is registered.
LoadThenJoin(c) ==
    /\ at[c].phase \in {"away", "joined"}
    /\ IF at[c].phase = "away"
         THEN buffer' = [buffer EXCEPT ![c] = Stored] /\ UNCHANGED at
         ELSE at' = [at EXCEPT ![c].phase = "serving"] /\ UNCHANGED buffer
    /\ UNCHANGED <<log, registryVars, work, brokerVars, countVars>>

LoadAndReplay(c) ==
    /\ at[c].phase = "joined"
    /\ at' = [at EXCEPT ![c].phase = "serving"]
    /\ buffer' = [buffer EXCEPT ![c] = @ \cup Stored]
    /\ UNCHANGED <<log, registryVars, work, brokerVars, countVars>>

\* The history cannot be loaded, or the socket ends.  Whether anybody is left
\* is computed here and acted on in Detach.
UnregisterFrom(c) ==
    /\ at[c].phase \in {"joined", "serving"}
    /\ at' = [at EXCEPT ![c].phase =
                IF InSession(SessionOf(c)) # {c} THEN "left"
                ELSE IF @ = "joined" THEN "handlerDetaches" ELSE "pumpDetaches"]
    /\ UNCHANGED <<log, registryVars, buffer, work, brokerVars, countVars>>

Detaching(c) == at[c].phase \in {"handlerDetaches", "pumpDetaches"}

\* Somebody has joined meanwhile, or the entry is deleted, by document, and the
\* session closed.
Detach(c) ==
    LET n == NodeOf[c]
        s == SessionOf(c)
    IN /\ Detaching(c) /\ (InSession(s) # {} \/ s \notin closed)
       /\ IF InSession(s) # {} THEN UNCHANGED <<current, closed>>
          ELSE current' = [current EXCEPT ![n] = 0] /\ closed' = closed \cup {s}
       /\ at' = [at EXCEPT ![c].phase = "left"]
       /\ UNCHANGED <<log, used, twice, buffer, work, brokerVars, countVars>>

\* The session was closed by another leaver: the entry is deleted, whatever
\* session it holds by now, and the close panics.  The panic of a handler is
\* caught.
DetachAgain(c) ==
    /\ at[c].phase = "handlerDetaches"
    /\ InSession(SessionOf(c)) = {} /\ SessionOf(c) \in closed
    /\ current' = [current EXCEPT ![NodeOf[c]] = 0]
    /\ twice' = twice \cup {NodeOf[c]}
    /\ at' = [at EXCEPT ![c].phase = "left"]
    /\ UNCHANGED <<log, used, closed, buffer, work, brokerVars, countVars>>

(***************************************************************************)
(* The loop of a session: append, fan out, publish.  Each node numbers     *)
(* from the log, so the inserts of two nodes collide like those of two     *)
(* sessions.  The goroutine that publishes is not waited for.              *)
(***************************************************************************)
TakeUpdate(c) ==
    LET s == SessionOf(c)
    IN /\ at[c].phase = "serving" /\ work[s] = NoWork /\ produced < MaxSent
       /\ produced' = produced + 1
       /\ work' = [work EXCEPT ![s] = [stage |-> "appending", upd |-> produced + 1,
                                       from |-> c, base |-> Len(log)]]
       /\ UNCHANGED <<log, registryVars, at, buffer, brokerVars, restarts, lost, missed>>

RowOf(s) == [upd |-> work[s].upd, node |-> s[1]]

AppendToLog(s) ==
    /\ work[s].stage = "appending" /\ work[s].base = Len(log)
    /\ log' = Append(log, RowOf(s))
    /\ work' = [work EXCEPT ![s].stage = "persisted"]
    /\ UNCHANGED <<registryVars, at, buffer, brokerVars, countVars>>

\* The numbers collide, or the database refuses or does not answer.
AppendIsRefused(s) ==
    /\ work[s].stage = "appending"
    /\ work' = [work EXCEPT ![s] = NoWork]
    /\ UNCHANGED <<log, registryVars, at, buffer, brokerVars, countVars>>

\* The row is there and the answer is not: the loop goes on to the next update,
\* and this one is neither fanned out nor published.
AppendIsUnseen(s) ==
    /\ work[s].stage = "appending" /\ work[s].base = Len(log)
    /\ log' = Append(log, RowOf(s))
    /\ work' = [work EXCEPT ![s] = NoWork]
    /\ lost' = [n \in Node |-> lost[n] \cup {work[s].upd}]
    /\ UNCHANGED <<registryVars, at, buffer, brokerVars, produced, restarts, missed>>

BroadcastAndPublish(s) ==
    /\ work[s].stage = "persisted"
    /\ Give(InSession(s) \ {work[s].from}, work[s].upd)
    /\ wire' = wire \cup [upd : {work[s].upd}, from : {s[1]}, to : Node]
    /\ work' = [work EXCEPT ![s] = NoWork]
    /\ UNCHANGED <<log, registryVars, at, received, held, countVars>>

(***************************************************************************)
(* The broker.  Messages come in any order or, for all the code knows, not *)
(* at all; receiveLoop skips its own and drops what its channel cannot     *)
(* hold; brokerLoop looks the session up and then, without the lock of the *)
(* registry, broadcasts.                                                   *)
(***************************************************************************)
MessageLost(m) ==
    /\ wire' = wire \ {m}
    /\ lost' = [lost EXCEPT ![m.to] = @ \cup {m.upd}]
    /\ UNCHANGED <<log, registryVars, at, buffer, work, received, held,
                   produced, restarts, missed>>

ReceiveMessage(m) ==
    /\ wire' = wire \ {m}
    /\ IF m.from = m.to THEN UNCHANGED <<received, lost>>
       ELSE IF Len(received[m.to]) < ReceiveCap
       THEN received' = [received EXCEPT ![m.to] = Append(@, m.upd)] /\ UNCHANGED lost
       ELSE lost' = [lost EXCEPT ![m.to] = @ \cup {m.upd}] /\ UNCHANGED received
    /\ UNCHANGED <<log, registryVars, at, buffer, work, held, produced, restarts, missed>>

\* The connections a lookup on n cannot find.
Orphans(n) == {c \in Peer : /\ NodeOf[c] = n /\ at[c].phase = "serving"
                            /\ at[c].session # current[n]}

LookUpSession(n) ==
    LET u == Head(received[n])
    IN /\ held[n] = NoFrame /\ received[n] # <<>>
       /\ received' = [received EXCEPT ![n] = Tail(@)]
       /\ held' = IF current[n] = 0 THEN held
                  ELSE [held EXCEPT ![n] = [session |-> current[n], upd |-> u]]
       /\ missed' = [c \in Peer |-> IF c \in Orphans(n) THEN missed[c] \cup {u}
                                     ELSE missed[c]]
       /\ UNCHANGED <<log, registryVars, at, buffer, work, wire, produced, restarts, lost>>

BroadcastHeld(n) ==
    /\ held[n] # NoFrame
    /\ Give(InSession(<<n, held[n].session>>), held[n].upd)
    /\ held' = [held EXCEPT ![n] = NoFrame]
    /\ UNCHANGED <<log, registryVars, at, work, wire, received, countVars>>

\* The process is ended, or ends when a read pump detaches again.  Its memory
\* is lost, with what its goroutines had still to publish and had received.
NodeRestarts(n) ==
    LET mine(m) == m.from = n \/ m.to = n
        unpublished == {work[s].upd : s \in {t \in Sess : t[1] = n /\ work[t].stage = "persisted"}}
    IN /\ restarts < MaxRestarts /\ restarts' = restarts + 1
       /\ current' = [current EXCEPT ![n] = 0]
       /\ closed' = closed \cup {s \in Sess : s[1] = n /\ s[2] <= used[n]}
       /\ twice' = twice \ {n}
       /\ at' = [c \in Peer |-> IF NodeOf[c] = n /\ at[c].phase # "away"
                                THEN [at[c] EXCEPT !.phase = "left"] ELSE at[c]]
       /\ work' = [s \in Sess |-> IF s[1] = n THEN NoWork ELSE work[s]]
       /\ wire' = {m \in wire : ~mine(m)}
       /\ lost' = [k \in Node |-> lost[k] \cup unpublished
                                  \cup {m.upd : m \in {w \in wire : mine(w) /\ w.to = k}}]
       /\ received' = [received EXCEPT ![n] = <<>>] /\ held' = [held EXCEPT ![n] = NoFrame]
       /\ UNCHANGED <<log, used, buffer, produced, missed>>

RelayNext ==
    \/ \E c \in Peer :
        \/ JoinNode(c) \/ LoadAndReplay(c) \/ TakeUpdate(c)
        \/ UnregisterFrom(c) \/ Detach(c) \/ DetachAgain(c)
    \/ \E s \in Sess :
        \/ AppendToLog(s) \/ AppendIsRefused(s) \/ AppendIsUnseen(s)
        \/ BroadcastAndPublish(s)
    \/ \E m \in wire : MessageLost(m) \/ ReceiveMessage(m)
    \/ \E n \in Node : LookUpSession(n) \/ BroadcastHeld(n) \/ NodeRestarts(n)

RelaySpec == RelayInit /\ [][RelayNext]_relayVars

\* A stored update of another node reaches every connection that is served: by
\* the replay, by the relay, or it is still under way.  Two things may keep it
\* away: its publication was lost or never made, or the receiving node looked
\* it up while the connection was in a session that its registry had lost,
\* which takes a session detached twice.  In particular the session brokerLoop
\* has looked up may close and be succeeded before the broadcast: who joins the
\* successor registers later than the update was stored, and finds it in the
\* log.
RelayReachesAll ==
    \A c \in Peer, i \in DOMAIN log :
        LET u == log[i].upd
            n == NodeOf[c]
        IN (at[c].phase = "serving" /\ log[i].node # n) =>
             \/ u \in buffer[c] \/ u \in lost[n]
             \/ u \in missed[c] /\ n \in twice
             \/ \E s \in Sess : work[s].stage = "persisted" /\ work[s].upd = u
             \/ \E m \in wire : m.upd = u /\ m.to = n
             \/ \E j \in DOMAIN received[n] : received[n][j] = u
             \/ held[n].session = at[c].session /\ held[n].upd = u
=============================================================================
