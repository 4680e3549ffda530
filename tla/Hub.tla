-------------------------------- MODULE Hub --------------------------------
(***************************************************************************)
(* The registry of per-document sessions and the life of the WebSocket     *)
(* connections that use it: apps/api/internal/sync/hub.go (join, detach,   *)
(* register, unregister), handler.go (ServeHTTP) and limits.go             *)
(* (ipRegistry).                                                           *)
(*                                                                         *)
(* The registry maps a document to its session and no step reads the entry *)
(* of another document, so one document is modelled: h.sessions[docID] is  *)
(* the variable registry.  A session is an object, so each has an identity *)
(* and a document has several over time.  An action is a critical section  *)
(* of h.mu or s.mu: unregister computes `left' under s.mu, releases it and *)
(* only then takes h.mu in detach, so those are two actions.               *)
(***************************************************************************)
EXTENDS Naturals, FiniteSets

CONSTANTS
    Conn,       \* WebSocket requests; each is accepted at most once
    Session,    \* identities of docSession objects
    NoSession,  \* a document without an entry in h.sessions
    Ip,         \* source addresses
    IpOf,       \* the address a request comes from
    ConnsPerIP  \* ipRegistry.cap

ASSUME HubAssumption ==
    /\ NoSession \notin Session
    /\ IpOf \in [Conn -> Ip]
    /\ IsFiniteSet(Conn)
    /\ ConnsPerIP \in Nat \ {0}

VARIABLES
    registry,   \* h.sessions[docID]
    status,     \* a session: not yet created, its done channel open or closed
    clients,    \* docSession.clients
    sessionOf,  \* the session a handler or read pump holds a pointer to
    pc,         \* how far the goroutine that owns a connection has come
    pumping,    \* connections whose read pump was started
    slots       \* ipRegistry.conns

hubVars == <<registry, status, clients, sessionOf, pc, pumping, slots>>

Phase == {"idle", "authorizing", "joined", "serving", "detaching",
          "releasing", "aborted", "gone"}

HubTypeOK ==
    /\ registry \in Session \cup {NoSession}
    /\ status \in [Session -> {"unused", "open", "closed"}]
    /\ clients \in [Session -> SUBSET Conn]
    /\ sessionOf \in [Conn -> Session \cup {NoSession}]
    /\ pc \in [Conn -> Phase]
    /\ pumping \subseteq Conn
    /\ slots \in [Ip -> Nat]

HubInit ==
    /\ registry = NoSession
    /\ status = [s \in Session |-> "unused"]
    /\ clients = [s \in Session |-> {}]
    /\ sessionOf = [c \in Conn |-> NoSession]
    /\ pc = [c \in Conn |-> "idle"]
    /\ pumping = {}
    /\ slots = [i \in Ip |-> 0]

Goto(c, phase) == pc' = [pc EXCEPT ![c] = phase]

(***************************************************************************)
(* ServeHTTP up to the join.                                               *)
(***************************************************************************)
Acquire(c) ==
    /\ pc[c] = "idle"
    /\ slots[IpOf[c]] < ConnsPerIP
    /\ slots' = [slots EXCEPT ![IpOf[c]] = @ + 1]
    /\ Goto(c, "authorizing")
    /\ UNCHANGED <<registry, status, clients, sessionOf, pumping>>

Refuse(c) ==
    /\ pc[c] = "idle"
    /\ slots[IpOf[c]] >= ConnsPerIP
    /\ Goto(c, "gone")
    /\ UNCHANGED <<registry, status, clients, sessionOf, pumping, slots>>

\* ipRegistry.release: the entry is deleted at zero and never negative.
Released(c) ==
    [slots EXCEPT ![IpOf[c]] = IF @ > 0 THEN @ - 1 ELSE 0]

\* Every error return between the acquisition and the join: authentication,
\* authorization, upgrade and subprotocol.  releaseOnError frees the slot.
Reject(c) ==
    /\ pc[c] = "authorizing"
    /\ slots' = Released(c)
    /\ Goto(c, "gone")
    /\ UNCHANGED <<registry, status, clients, sessionOf, pumping>>

(***************************************************************************)
(* Hub.join: look up or create, and register, in one section of h.mu.      *)
(***************************************************************************)
Join(c) ==
    /\ pc[c] = "authorizing"
    /\ \E s \in Session :
        /\ IF registry = NoSession THEN status[s] = "unused" ELSE s = registry
        /\ registry' = s
        /\ status' = IF registry = NoSession
                     THEN [status EXCEPT ![s] = "open"] ELSE status
        /\ clients' = [clients EXCEPT ![s] = @ \cup {c}]
        /\ sessionOf' = [sessionOf EXCEPT ![c] = s]
    /\ Goto(c, "joined")
    /\ UNCHANGED <<pumping, slots>>

\* The history was loaded and replayed; both pumps start.
StartPumps(c) ==
    /\ pc[c] = "joined"
    /\ pumping' = pumping \cup {c}
    /\ Goto(c, "serving")
    /\ UNCHANGED <<registry, status, clients, sessionOf, slots>>

(***************************************************************************)
(* docSession.unregister.  The caller is the handler when LoadUpdates      *)
(* fails ("joined") and the read pump's deferred call when the socket ends *)
(* ("serving").  `left' is computed under s.mu only.                       *)
(***************************************************************************)
UnregisterLeftTooEarly(c) ==
    LET s    == sessionOf[c]
        left == clients[s] = {}
    IN  /\ clients' = [clients EXCEPT ![s] = @ \ {c}]
        /\ Goto(c, IF left THEN "detaching" ELSE "releasing")
        /\ UNCHANGED <<registry, status, sessionOf, pumping, slots>>

Unregister(c) ==
    LET s    == sessionOf[c]
        left == clients[s] \ {c} = {}
    IN  /\ clients' = [clients EXCEPT ![s] = @ \ {c}]
        /\ Goto(c, IF left THEN "detaching" ELSE "releasing")
        /\ UNCHANGED <<registry, status, sessionOf, pumping, slots>>

LoadFailsReleasingTwice(c) ==
    LET s    == sessionOf[c]
        left == clients[s] \ {c} = {}
    IN  /\ pc[c] = "joined"
        /\ clients' = [clients EXCEPT ![s] = @ \ {c}]
        /\ Goto(c, IF left THEN "detaching" ELSE "releasing")
        /\ slots' = Released(c)
        /\ UNCHANGED <<registry, status, sessionOf, pumping>>

LoadFails(c)    == pc[c] = "joined" /\ Unregister(c)
ReadPumpEnds(c) == pc[c] = "serving" /\ Unregister(c)

(***************************************************************************)
(* The process ends (a panic outside a handler, a kill, a deploy) and a    *)
(* new one starts: all of the above is memory.  Accepted connections are   *)
(* lost, requests not yet accepted reach the new process.                  *)
(***************************************************************************)
ProcessRestarts ==
    /\ registry' = NoSession
    /\ status' = [s \in Session |->
                    IF status[s] = "open" THEN "closed" ELSE status[s]]
    /\ clients' = [s \in Session |-> {}]
    /\ sessionOf' = [c \in Conn |-> NoSession]
    /\ pc' = [c \in Conn |-> IF pc[c] = "idle" THEN "idle" ELSE "gone"]
    /\ pumping' = {}
    /\ slots' = [i \in Ip |-> 0]

(***************************************************************************)
(* Hub.detach, in one section of h.mu.                                     *)
(***************************************************************************)
\* Somebody joined between the unregister and the detach.
DetachBusy(c) ==
    /\ pc[c] = "detaching"
    /\ clients[sessionOf[c]] # {}
    /\ Goto(c, "releasing")
    /\ UNCHANGED <<registry, status, clients, sessionOf, pumping, slots>>

DetachUnchecked(c) ==
    /\ pc[c] = "detaching"
    /\ status[sessionOf[c]] = "open"
    /\ registry' = NoSession
    /\ status' = [status EXCEPT ![sessionOf[c]] = "closed"]
    /\ Goto(c, "releasing")
    /\ UNCHANGED <<clients, sessionOf, pumping, slots>>

\* The entry is deleted by document, whatever session it holds by now.
DetachLast(c) ==
    /\ pc[c] = "detaching"
    /\ clients[sessionOf[c]] = {}
    /\ status[sessionOf[c]] = "open"
    /\ registry' = NoSession
    /\ status' = [status EXCEPT ![sessionOf[c]] = "closed"]
    /\ Goto(c, "releasing")
    /\ UNCHANGED <<clients, sessionOf, pumping, slots>>

\* Two leavers of one session both saw `left': the second one's close(s.done)
\* panics, after it has deleted the entry.  httpx.Recoverer catches the panic
\* of a handler, whose slot is never released; nothing catches a read pump's.
DetachAgainInHandler(c) ==
    /\ pc[c] = "detaching" /\ c \notin pumping
    /\ clients[sessionOf[c]] = {}
    /\ status[sessionOf[c]] = "closed"
    /\ registry' = NoSession
    /\ Goto(c, "aborted")
    /\ UNCHANGED <<status, clients, sessionOf, pumping, slots>>

DetachAgainInPump(c) ==
    /\ pc[c] = "detaching" /\ c \in pumping
    /\ clients[sessionOf[c]] = {}
    /\ status[sessionOf[c]] = "closed"
    /\ ProcessRestarts

ReleaseTwiceWithoutFloor(c) ==
    /\ pc[c] = "releasing"
    /\ slots' = [slots EXCEPT ![IpOf[c]] = @ - 2]
    /\ Goto(c, "gone")
    /\ UNCHANGED <<registry, status, clients, sessionOf, pumping>>

\* conn.onClose or the handler's releaseIP.
Release(c) ==
    /\ pc[c] = "releasing"
    /\ slots' = Released(c)
    /\ Goto(c, "gone")
    /\ UNCHANGED <<registry, status, clients, sessionOf, pumping>>

\* Steps a connection's own goroutine is sure to take.
Leave(c) ==
    \/ DetachBusy(c) \/ DetachLast(c)
    \/ DetachAgainInHandler(c) \/ DetachAgainInPump(c)
    \/ Release(c)

HubNext ==
    \/ \E c \in Conn :
        \/ Acquire(c) \/ Refuse(c) \/ Reject(c)
        \/ Join(c) \/ StartPumps(c)
        \/ LoadFails(c) \/ ReadPumpEnds(c)
        \/ Leave(c)
    \/ ProcessRestarts

HubSpec == HubInit /\ [][HubNext]_hubVars

\* Goroutines are scheduled and the mutexes are held for a few statements,
\* so what follows an unregister is weakly fair.  Requests, disconnects and
\* database answers are the environment's and are not.
HubFairSpec == HubSpec /\ \A c \in Conn : WF_hubVars(Leave(c))

-----------------------------------------------------------------------------
HoldsSlot(c) ==
    pc[c] \in {"authorizing", "joined", "serving", "detaching", "releasing",
               "aborted"}

Holders(i) == {c \in Conn : IpOf[c] = i /\ HoldsSlot(c)}

\* No connection ever sits in a session whose loop was told to stop, and the
\* registry never hands one out: join (under h.mu) and the last leaver's
\* unregister and detach (s.mu, then h.mu) may interleave in any order.
ClosedSessionsAreEmpty ==
    \A s \in Session :
        status[s] = "closed" => clients[s] = {} /\ registry # s

\* Whoever empties a session knows it and is on the way to detach it, even
\* when others join and leave in between: no session is left running unused.
EmptySessionsHaveLeaver ==
    \A s \in Session :
        status[s] = "open" /\ clients[s] = {}
            => \E c \in Conn : pc[c] = "detaching" /\ sessionOf[c] = s

\* The slots counted for an address are those of its live connections, on
\* every way out of ServeHTTP and of the read pump but one: the handler whose
\* detach panics ("aborted") keeps its slot for the life of the process.  So
\* the cap bounds real connections and only those panics can lock one out.
SlotsAreExact ==
    \A i \in Ip :
        /\ slots[i] = Cardinality(Holders(i))
        /\ slots[i] <= ConnsPerIP

\* A session nobody uses is closed in the end, or used again: the last leaver
\* cannot miss that it is the last.
EmptySessionsClose ==
    \A s \in Session :
        (status[s] = "open" /\ clients[s] = {})
            ~> (status[s] = "closed" \/ clients[s] # {})

\* What the comment of Hub and TestHub_OnlyOneSessionPerDoc say: a document
\* has one session at a time, here: sessions with clients.
OneSessionPerDoc ==
    \A s, t \in Session : clients[s] # {} /\ clients[t] # {} => s = t
=============================================================================
