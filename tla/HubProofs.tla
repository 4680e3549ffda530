----------------------------- MODULE HubProofs -----------------------------
(***************************************************************************)
(* Proofs about Hub: types, the emptiness of closed sessions, the leavers  *)
(* of empty ones and the exact count of slots, for any set of connections  *)
(* and addresses and any cap.                                              *)
(***************************************************************************)
EXTENDS Hub, FiniteSetTheorems, TLAPS

\* A connection whose goroutine is about to use its session points to one.
SessionsAreKnown ==
    \A c \in Conn : pc[c] \in {"joined", "serving", "detaching"}
                        => sessionOf[c] \in Session

\* The registry only hands out sessions whose loop runs.
RegistryIsOpen == \A s \in Session : registry = s => status[s] = "open"

\* Neither part of ClosedSessionsAreEmpty survives a join without the
\* registry being open, and DetachLast closes a session of Session only if
\* the leaver's pointer is known: together they are inductive.
HubInv ==
    /\ HubTypeOK
    /\ SessionsAreKnown
    /\ RegistryIsOpen
    /\ ClosedSessionsAreEmpty

USE HubAssumption

\* The strengthening is inductive: the registry only ever points to sessions
\* whose loop was not told to stop, and a closed session has lost its clients.
THEOREM HubInvariant == HubSpec => []HubInv
<1>1. HubInit => HubInv
  BY DEF HubInit, HubInv, HubTypeOK, SessionsAreKnown, RegistryIsOpen,
         ClosedSessionsAreEmpty, Phase
<1>2. HubInv /\ [HubNext]_hubVars => HubInv'
  <2>. SUFFICES ASSUME HubInv, [HubNext]_hubVars PROVE HubInv'
    OBVIOUS
  \* The steps that leave the registry and the sessions alone.
  <2>1. ASSUME NEW c \in Conn,
               \/ Acquire(c) \/ Refuse(c) \/ Reject(c)
               \/ StartPumps(c) \/ Release(c)
        PROVE  HubInv'
    <3>. USE <2>1
    <3>1. /\ UNCHANGED <<registry, status, clients, sessionOf>>
          /\ \E p \in Phase : /\ pc' = [pc EXCEPT ![c] = p]
                              /\ p \in {"joined", "serving", "detaching"} =>
                                    pc[c] \in {"joined", "serving", "detaching"}
      BY DEF Acquire, Refuse, Reject, StartPumps, Release, Goto, Phase
    <3>2. pumping' \subseteq Conn
      BY DEF Acquire, Refuse, Reject, StartPumps, Release, HubInv, HubTypeOK
    <3>3. slots' \in [Ip -> Nat]
      <4>1. IpOf[c] \in Ip /\ slots \in [Ip -> Nat]
        BY DEF HubInv, HubTypeOK
      <4>2. Released(c) \in [Ip -> Nat]
        BY <4>1 DEF Released
      <4>. QED
        BY <4>1, <4>2 DEF Acquire, Refuse, Reject, StartPumps, Release
    <3>4. HubTypeOK'
      BY <3>1, <3>2, <3>3 DEF HubInv, HubTypeOK
    <3>5. SessionsAreKnown'
      BY <3>1 DEF HubInv, HubTypeOK, SessionsAreKnown
    <3>6. RegistryIsOpen' /\ ClosedSessionsAreEmpty'
      BY <3>1 DEF HubInv, RegistryIsOpen, ClosedSessionsAreEmpty
    <3>. QED  BY <3>4, <3>5, <3>6 DEF HubInv
  \* A join adds a client to the session the registry holds, or to a new one.
  <2>2. ASSUME NEW c \in Conn, Join(c) PROVE HubInv'
    <3>. USE <2>2
    <3>1. PICK s \in Session :
            /\ IF registry = NoSession THEN status[s] = "unused" ELSE s = registry
            /\ registry' = s
            /\ status' = IF registry = NoSession
                         THEN [status EXCEPT ![s] = "open"] ELSE status
            /\ clients' = [clients EXCEPT ![s] = @ \cup {c}]
            /\ sessionOf' = [sessionOf EXCEPT ![c] = s]
      BY DEF Join
    <3>2. pc' = [pc EXCEPT ![c] = "joined"] /\ UNCHANGED <<pumping, slots>>
      BY DEF Join, Goto
    <3>3. HubTypeOK'
      BY <3>1, <3>2 DEF HubInv, HubTypeOK, Phase
    <3>4. SessionsAreKnown'
      BY <3>1, <3>2 DEF HubInv, HubTypeOK, SessionsAreKnown
    <3>5. status'[s] = "open"
      BY <3>1 DEF HubInv, HubTypeOK, RegistryIsOpen
    <3>6. RegistryIsOpen'
      BY <3>1, <3>5 DEF HubInv, RegistryIsOpen
    <3>7. ClosedSessionsAreEmpty'
      BY <3>1, <3>5 DEF HubInv, HubTypeOK, ClosedSessionsAreEmpty
    <3>. QED  BY <3>3, <3>4, <3>6, <3>7 DEF HubInv
  \* unregister, whichever goroutine calls it.
  <2>3. ASSUME NEW c \in Conn, pc[c] \in {"joined", "serving"}, Unregister(c) PROVE HubInv'
    <3>. USE <2>3
    <3> DEFINE s == sessionOf[c]
               left == clients[s] \ {c} = {}
    <3>1. s \in Session
      BY DEF HubInv, SessionsAreKnown
    <3>2. /\ clients' = [clients EXCEPT ![s] = @ \ {c}]
          /\ pc' = [pc EXCEPT ![c] = IF left THEN "detaching" ELSE "releasing"]
          /\ UNCHANGED <<registry, status, sessionOf, pumping, slots>>
      BY DEF Unregister, Goto
    <3>3. HubTypeOK'
      BY <3>1, <3>2 DEF HubInv, HubTypeOK, Phase
    <3>4. SessionsAreKnown'
      BY <3>1, <3>2 DEF HubInv, HubTypeOK, SessionsAreKnown
    <3>5. RegistryIsOpen' /\ ClosedSessionsAreEmpty'
      BY <3>1, <3>2 DEF HubInv, HubTypeOK, RegistryIsOpen, ClosedSessionsAreEmpty
    <3>. QED  BY <3>3, <3>4, <3>5 DEF HubInv
  \* A new process has no session to hand out and no client.
  <2>4. CASE ProcessRestarts
    <3>. USE <2>4
    <3>1. HubTypeOK'
      BY DEF HubInv, HubTypeOK, ProcessRestarts, Phase
    <3>2. SessionsAreKnown'
      BY DEF HubInv, HubTypeOK, SessionsAreKnown, ProcessRestarts
    <3>3. RegistryIsOpen' /\ ClosedSessionsAreEmpty'
      BY DEF RegistryIsOpen, ClosedSessionsAreEmpty, ProcessRestarts
    <3>. QED  BY <3>1, <3>2, <3>3 DEF HubInv
  \* The four ways Hub.detach can go.
  <2>5. ASSUME NEW c \in Conn,
               \/ DetachBusy(c) \/ DetachLast(c)
               \/ DetachAgainInHandler(c) \/ DetachAgainInPump(c)
        PROVE  HubInv'
    <3>. USE <2>5
    <3>1. sessionOf[c] \in Session
      BY DEF HubInv, SessionsAreKnown, DetachBusy, DetachLast,
             DetachAgainInHandler, DetachAgainInPump
    <3>2. CASE DetachBusy(c)
      BY <3>2 DEF DetachBusy, Goto, HubInv, HubTypeOK, SessionsAreKnown, Phase,
                  RegistryIsOpen, ClosedSessionsAreEmpty
    <3>3. CASE DetachLast(c)
      <4>1. HubTypeOK'
        BY <3>3 DEF DetachLast, Goto, HubInv, HubTypeOK, Phase
      <4>2. SessionsAreKnown'
        BY <3>3 DEF DetachLast, Goto, HubInv, HubTypeOK, SessionsAreKnown
      <4>3. RegistryIsOpen' /\ ClosedSessionsAreEmpty'
        BY <3>1, <3>3 DEF DetachLast, HubInv, HubTypeOK, RegistryIsOpen,
                          ClosedSessionsAreEmpty
      <4>. QED  BY <4>1, <4>2, <4>3 DEF HubInv
    <3>4. CASE DetachAgainInHandler(c)
      <4>1. HubTypeOK'
        BY <3>4 DEF DetachAgainInHandler, Goto, HubInv, HubTypeOK, Phase
      <4>2. SessionsAreKnown'
        BY <3>4 DEF DetachAgainInHandler, Goto, HubInv, HubTypeOK, SessionsAreKnown
      <4>3. RegistryIsOpen' /\ ClosedSessionsAreEmpty'
        BY <3>4 DEF DetachAgainInHandler, HubInv, RegistryIsOpen,
                    ClosedSessionsAreEmpty
      <4>. QED  BY <4>1, <4>2, <4>3 DEF HubInv
    <3>5. CASE DetachAgainInPump(c)
      BY <2>4, <3>5 DEF DetachAgainInPump
    <3>. QED  BY <3>2, <3>3, <3>4, <3>5
  <2>6. CASE UNCHANGED hubVars
    BY <2>6 DEF hubVars, HubInv, HubTypeOK, SessionsAreKnown, RegistryIsOpen,
                ClosedSessionsAreEmpty
  <2>. QED
    BY <2>1, <2>2, <2>3, <2>4, <2>5, <2>6 DEF HubNext, Leave, LoadFails, ReadPumpEnds
<1>. QED  BY <1>1, <1>2, PTL DEF HubSpec

\* Every reachable state is well typed, whatever the connections do.
THEOREM HubTypeCorrect == HubSpec => []HubTypeOK
<1>1. HubInv => HubTypeOK
  BY DEF HubInv
<1>. QED  BY <1>1, HubInvariant, PTL

\* Hub.join against unregister and detach: nobody is ever served by a session
\* whose loop was told to stop, with any number of connections.
THEOREM ClosedSessionsStayEmpty == HubSpec => []ClosedSessionsAreEmpty
<1>1. HubInv => ClosedSessionsAreEmpty
  BY DEF HubInv
<1>. QED  BY <1>1, HubInvariant, PTL

-----------------------------------------------------------------------------
(***************************************************************************)
(* The accounting of slots.                                                *)
(***************************************************************************)
HoldingPhase == {"authorizing", "joined", "serving", "detaching",
                 "releasing", "aborted"}

\* The count kept for an address is the number of its live connections, and
\* so the cap bounds them, on every path through ServeHTTP and the read pump.
THEOREM SlotsStayExact == HubSpec => []SlotsAreExact
\* A connection that moves between two phases of the same kind, or gives its slot
\* back.
<1>0. ASSUME HubTypeOK, NEW c \in Conn, NEW p \in Phase, pc' = [pc EXCEPT ![c] = p], SlotsAreExact,
             \/ (p \in HoldingPhase <=> pc[c] \in HoldingPhase) /\ UNCHANGED slots
             \/ pc[c] \in HoldingPhase /\ p \notin HoldingPhase /\ slots' = Released(c)
      PROVE  SlotsAreExact'
  <2>. USE <1>0
  <2>. SUFFICES ASSUME NEW i \in Ip
                PROVE  slots'[i] = Cardinality(Holders(i)') /\ slots'[i] <= ConnsPerIP
    BY DEF SlotsAreExact
  <2>1. /\ slots[i] = Cardinality(Holders(i)) /\ slots[i] <= ConnsPerIP
        /\ slots[i] \in Nat
    BY DEF SlotsAreExact, HubTypeOK
  <2>2. CASE (p \in HoldingPhase <=> pc[c] \in HoldingPhase) /\ UNCHANGED slots
    <3>1. Holders(i)' = Holders(i)
      BY <2>2 DEF Holders, HoldsSlot, HubTypeOK, HoldingPhase
    <3>. QED  BY <2>1, <2>2, <3>1
  <2>3. CASE pc[c] \in HoldingPhase /\ p \notin HoldingPhase /\ slots' = Released(c) /\ IpOf[c] = i
    <3>1. Holders(i)' = Holders(i) \ {c} /\ c \in Holders(i)
      BY <2>3 DEF Holders, HoldsSlot, HubTypeOK, HoldingPhase
    <3>2. /\ Cardinality(Holders(i)') = Cardinality(Holders(i)) - 1
          /\ Cardinality(Holders(i)') \in Nat
      <4>1. PICK S : S = Holders(i)
        OBVIOUS
      <4>2. S \subseteq Conn
        BY <4>1 DEF Holders
      <4>3. IsFiniteSet(S) /\ c \in S /\ Holders(i)' = S \ {c}
        BY <3>1, <4>1, <4>2, FS_Subset
      <4>4. /\ IsFiniteSet(S \ {c}) /\ Cardinality(S \ {c}) = Cardinality(S) - 1
        BY <4>3, FS_RemoveElement
      <4>5. Cardinality(S \ {c}) \in Nat
        BY <4>4, FS_CardinalityType
      <4>. QED  BY <4>1, <4>3, <4>4, <4>5, Zenon
    <3>4. slots'[i] = slots[i] - 1
      BY <2>1, <2>3, <3>2 DEF Released, HubTypeOK
    <3>. QED  BY <2>1, <3>2, <3>4
  <2>4. CASE pc[c] \in HoldingPhase /\ p \notin HoldingPhase /\ slots' = Released(c) /\ IpOf[c] # i
    <3>1. Holders(i)' = Holders(i)
      BY <2>4 DEF Holders, HoldsSlot, HubTypeOK, HoldingPhase
    <3>2. slots'[i] = slots[i]
      BY <2>4 DEF Released, HubTypeOK
    <3>. QED  BY <2>1, <3>1, <3>2
  <2>. QED  BY <2>2, <2>3, <2>4
<1>1. HubInit => SlotsAreExact
  <2>. SUFFICES ASSUME HubInit, NEW i \in Ip
                PROVE  slots[i] = Cardinality(Holders(i)) /\ slots[i] <= ConnsPerIP
    BY DEF SlotsAreExact
  <2>1. Holders(i) = {}
    BY DEF HubInit, Holders, HoldsSlot
  <2>. QED  BY <2>1, FS_EmptySet DEF HubInit
<1>2. HubTypeOK /\ SlotsAreExact /\ [HubNext]_hubVars => SlotsAreExact'
  <2>. SUFFICES ASSUME HubTypeOK, SlotsAreExact, [HubNext]_hubVars
                PROVE  SlotsAreExact'
    OBVIOUS
  <2>. USE DEF Phase, HoldingPhase, Goto
  \* A request that passed the cap takes a slot.
  <2>1. ASSUME NEW c \in Conn, Acquire(c) PROVE SlotsAreExact'
    <3>. SUFFICES ASSUME NEW i \in Ip
                  PROVE  slots'[i] = Cardinality(Holders(i)') /\ slots'[i] <= ConnsPerIP
      BY DEF SlotsAreExact
    <3>1. /\ slots[i] = Cardinality(Holders(i)) /\ slots[i] <= ConnsPerIP
          /\ slots[i] \in Nat
      BY DEF SlotsAreExact, HubTypeOK
    <3>2. CASE IpOf[c] = i
      <4>1. Holders(i)' = Holders(i) \cup {c} /\ c \notin Holders(i)
        BY <2>1, <3>2 DEF Acquire, Goto, Holders, HoldsSlot, HubTypeOK
      <4>2. Cardinality(Holders(i)') = Cardinality(Holders(i)) + 1
        <5>1. Holders(i) \subseteq Conn
          BY DEF Holders
        <5>. QED  BY <4>1, <5>1, FS_Subset, FS_AddElement
      <4>3. slots'[i] = slots[i] + 1 /\ slots[i] < ConnsPerIP
        BY <2>1, <3>2 DEF Acquire, HubTypeOK
      <4>. QED  BY <3>1, <4>2, <4>3
    <3>3. CASE IpOf[c] # i
      <4>1. Holders(i)' = Holders(i)
        BY <2>1, <3>3 DEF Acquire, Goto, Holders, HoldsSlot, HubTypeOK
      <4>2. slots'[i] = slots[i]
        BY <2>1, <3>3 DEF Acquire, HubTypeOK
      <4>. QED  BY <3>1, <4>1, <4>2
    <3>. QED  BY <3>2, <3>3
  <2>2. ASSUME NEW c \in Conn, Refuse(c) PROVE SlotsAreExact'
    BY <2>2, <1>0 DEF Refuse
  <2>3. ASSUME NEW c \in Conn, Reject(c) PROVE SlotsAreExact'
    BY <2>3, <1>0 DEF Reject
  <2>4. ASSUME NEW c \in Conn, Join(c) PROVE SlotsAreExact'
    BY <2>4, <1>0 DEF Join
  <2>5. ASSUME NEW c \in Conn, StartPumps(c) PROVE SlotsAreExact'
    BY <2>5, <1>0 DEF StartPumps
  <2>6. ASSUME NEW c \in Conn, LoadFails(c) \/ ReadPumpEnds(c)
        PROVE  SlotsAreExact'
    BY <2>6, <1>0 DEF LoadFails, ReadPumpEnds, Unregister
  <2>7. ASSUME NEW c \in Conn, DetachBusy(c) PROVE SlotsAreExact'
    BY <2>7, <1>0 DEF DetachBusy
  <2>8. ASSUME NEW c \in Conn, DetachLast(c) PROVE SlotsAreExact'
    BY <2>8, <1>0 DEF DetachLast
  <2>9. ASSUME NEW c \in Conn, DetachAgainInHandler(c) PROVE SlotsAreExact'
    BY <2>9, <1>0 DEF DetachAgainInHandler
  \* Everything of a process is gone with it, its connections included.
  <2>10. CASE ProcessRestarts
    <3>. USE <2>10
    <3>. SUFFICES ASSUME NEW i \in Ip
                  PROVE  slots'[i] = Cardinality(Holders(i)') /\ slots'[i] <= ConnsPerIP
      BY DEF SlotsAreExact
    <3>1. Holders(i)' = {}
      BY DEF ProcessRestarts, Holders, HoldsSlot
    <3>. QED  BY <3>1, FS_EmptySet DEF ProcessRestarts
  <2>11. ASSUME NEW c \in Conn, Release(c) PROVE SlotsAreExact'
    BY <2>11, <1>0 DEF Release
  <2>12. CASE UNCHANGED hubVars
    BY <2>12 DEF hubVars, SlotsAreExact, Holders, HoldsSlot
  <2>. QED
    BY <2>1, <2>2, <2>3, <2>4, <2>5, <2>6, <2>7, <2>8, <2>9, <2>10, <2>11,
       <2>12 DEF HubNext, Leave, DetachAgainInPump
<1>. QED  BY <1>1, <1>2, HubTypeCorrect, PTL DEF HubSpec
-----------------------------------------------------------------------------
(***************************************************************************)
(* Empty sessions have a leaver.  Relative to HubInv this is inductive: a  *)
(* session becomes empty only by the unregister that computes `left', and  *)
(* a leaver stops being one only in a detach that finds the session busy,  *)
(* closes it or finds it closed.                                           *)
(***************************************************************************)

\* Whoever empties a session is on the way to detach it until the session is
\* closed or used again, in every interleaving of any number of connections.
THEOREM EmptySessionsAlwaysHaveLeaver == HubSpec => []EmptySessionsHaveLeaver
<1>1. HubInit => EmptySessionsHaveLeaver
  BY DEF HubInit, EmptySessionsHaveLeaver
<1>2. HubInv /\ EmptySessionsHaveLeaver /\ [HubNext]_hubVars => EmptySessionsHaveLeaver'
  <2>. SUFFICES ASSUME HubInv, EmptySessionsHaveLeaver, [HubNext]_hubVars
                PROVE  EmptySessionsHaveLeaver'
    OBVIOUS
  <2>1. ASSUME NEW c \in Conn,
               \/ Acquire(c) \/ Refuse(c) \/ Reject(c)
               \/ StartPumps(c) \/ Release(c)
        PROVE  EmptySessionsHaveLeaver'
    <3>1. /\ UNCHANGED <<status, clients, sessionOf>>
          /\ pc[c] # "detaching" /\ \A d \in Conn : d # c => pc'[d] = pc[d]
      BY <2>1 DEF Acquire, Refuse, Reject, StartPumps, Release, Goto, HubInv,
                  HubTypeOK
    <3>. QED  BY <3>1 DEF EmptySessionsHaveLeaver
  \* The session that is used is not empty, the others keep their leavers.
  <2>2. ASSUME NEW c \in Conn, Join(c),
               NEW s \in Session, status'[s] = "open", clients'[s] = {}
        PROVE  \E d \in Conn : pc'[d] = "detaching" /\ sessionOf'[d] = s
    <3>1. PICK t \in Session :
            /\ status' = IF registry = NoSession
                         THEN [status EXCEPT ![t] = "open"] ELSE status
            /\ clients' = [clients EXCEPT ![t] = @ \cup {c}]
            /\ sessionOf' = [sessionOf EXCEPT ![c] = t]
      BY <2>2 DEF Join
    <3>2. pc[c] = "authorizing" /\ pc' = [pc EXCEPT ![c] = "joined"] /\ HubTypeOK
      BY <2>2 DEF Join, Goto, HubInv
    <3>3. s # t /\ clients[s] = {} /\ status[s] = "open"
      BY <2>2, <3>1, <3>2 DEF HubTypeOK
    <3>4. PICK d \in Conn : pc[d] = "detaching" /\ sessionOf[d] = s
      BY <3>3 DEF EmptySessionsHaveLeaver
    <3>. QED  BY <3>1, <3>2, <3>4 DEF HubTypeOK
  \* unregister: the one who empties the session is the leaver.
  <2>3. ASSUME NEW c \in Conn, pc[c] \in {"joined", "serving"}, Unregister(c)
        PROVE  EmptySessionsHaveLeaver'
    <3>. USE <2>3
    <3>. SUFFICES ASSUME NEW s \in Session, status'[s] = "open", clients'[s] = {}
                  PROVE  \E d \in Conn : pc'[d] = "detaching" /\ sessionOf'[d] = s
      BY DEF EmptySessionsHaveLeaver
    <3>1. /\ clients' = [clients EXCEPT ![sessionOf[c]] = @ \ {c}]
          /\ pc' = [pc EXCEPT ![c] = IF clients[sessionOf[c]] \ {c} = {}
                                     THEN "detaching" ELSE "releasing"]
          /\ UNCHANGED <<status, sessionOf>>
          /\ HubTypeOK /\ sessionOf[c] \in Session
      BY DEF Unregister, Goto, HubInv, SessionsAreKnown
    <3>2. CASE s = sessionOf[c]
      BY <3>1, <3>2 DEF HubTypeOK
    <3>3. CASE s # sessionOf[c]
      <4>1. clients[s] = {} /\ status[s] = "open"
        BY <3>1, <3>3 DEF HubTypeOK
      <4>2. PICK d \in Conn : pc[d] = "detaching" /\ sessionOf[d] = s
        BY <4>1 DEF EmptySessionsHaveLeaver
      <4>. QED  BY <3>1, <4>2 DEF HubTypeOK
    <3>. QED  BY <3>2, <3>3
  \* A busy session, an empty one or a closed one is detached.
  <2>4. ASSUME NEW c \in Conn,
               DetachBusy(c) \/ DetachLast(c) \/ DetachAgainInHandler(c),
               NEW s \in Session, status'[s] = "open", clients'[s] = {}
        PROVE  \E d \in Conn : pc'[d] = "detaching" /\ sessionOf'[d] = s
    <3>1. /\ UNCHANGED <<clients, sessionOf>> /\ HubTypeOK
          /\ sessionOf[c] \in Session
          /\ \A d \in Conn : d # c => pc'[d] = pc[d]
      BY <2>4 DEF DetachBusy, DetachLast, DetachAgainInHandler, Goto, HubInv, HubTypeOK,
                  SessionsAreKnown
    <3>2. s # sessionOf[c] /\ status[s] = "open" /\ clients[s] = {}
      BY <2>4, <3>1 DEF DetachBusy, DetachLast, DetachAgainInHandler, HubTypeOK
    <3>3. PICK d \in Conn : pc[d] = "detaching" /\ sessionOf[d] = s
      BY <3>2 DEF EmptySessionsHaveLeaver
    <3>. QED  BY <3>1, <3>2, <3>3
  <2>5. ASSUME ProcessRestarts PROVE EmptySessionsHaveLeaver'
    BY <2>5 DEF ProcessRestarts, EmptySessionsHaveLeaver
  <2>6. CASE UNCHANGED hubVars
    BY <2>6 DEF hubVars, EmptySessionsHaveLeaver
  <2>7. ASSUME NEW c \in Conn,
               Join(c) \/ DetachBusy(c) \/ DetachLast(c) \/ DetachAgainInHandler(c)
        PROVE  EmptySessionsHaveLeaver'
    BY <2>2, <2>4, <2>7 DEF EmptySessionsHaveLeaver
  <2>. QED
    BY <2>1, <2>3, <2>5, <2>6, <2>7 DEF HubNext, Leave, LoadFails, ReadPumpEnds, DetachAgainInPump
<1>. QED  BY <1>1, <1>2, HubInvariant, PTL DEF HubSpec
-----------------------------------------------------------------------------
\* A connection is in the client set of the session its goroutine points to,
\* and that session was created, from the join to the unregister, and at no
\* other time, and in no other set.
MembersInv ==
    /\ \A c \in Conn : pc[c] \in {"joined", "serving"} =>
            c \in clients[sessionOf[c]] /\ status[sessionOf[c]] # "unused"
    /\ \A s \in Session : \A c \in clients[s] :
            pc[c] \in {"joined", "serving"} /\ sessionOf[c] = s

\* The pointer of a handler or a read pump never outlives its registration, so
\* who asks the session for its clients finds every connection that uses it.
THEOREM MembersStayRegistered == HubSpec => []MembersInv
<1>1. HubInit => MembersInv
  BY DEF HubInit, MembersInv
<1>2. HubInv /\ MembersInv /\ [HubNext]_hubVars => MembersInv'
  <2>. SUFFICES ASSUME HubInv, MembersInv, [HubNext]_hubVars PROVE MembersInv'
    OBVIOUS
  <2>. USE DEF HubInv, HubTypeOK, SessionsAreKnown, MembersInv, Goto
  <2>1. ASSUME NEW c \in Conn, Join(c) PROVE MembersInv'
    BY <2>1 DEF Join, RegistryIsOpen
  <2>2. ASSUME NEW c \in Conn, pc[c] \in {"joined", "serving"}, Unregister(c) PROVE MembersInv'
    BY <2>2 DEF Unregister
  <2>3. ASSUME NEW c \in Conn, DetachLast(c) PROVE MembersInv'
    BY <2>3 DEF DetachLast
  <2>4. ASSUME NEW c \in Conn,
               \/ Acquire(c) \/ Refuse(c) \/ Reject(c) \/ StartPumps(c)
               \/ DetachBusy(c) \/ DetachAgainInHandler(c) \/ Release(c)
        PROVE  MembersInv'
    BY <2>4 DEF Acquire, Refuse, Reject, StartPumps, DetachBusy, DetachAgainInHandler, Release
  <2>5. CASE ProcessRestarts
    BY <2>5 DEF ProcessRestarts
  <2>6. CASE UNCHANGED hubVars
    BY <2>6 DEF hubVars
  <2>. QED
    BY <2>1, <2>2, <2>3, <2>4, <2>5, <2>6
       DEF HubNext, Leave, LoadFails, ReadPumpEnds, DetachAgainInPump
<1>. QED  BY <1>1, <1>2, HubInvariant, PTL DEF HubSpec
=============================================================================
