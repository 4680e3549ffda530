-------------------------- MODULE WriteAccessProofs --------------------------
(***************************************************************************)
(* The proof that a live connection's right to write goes stale for the    *)
(* four reasons WriteAccess names and for no other, with any number of     *)
(* connections, users and changes.                                         *)
(***************************************************************************)
EXTENDS WriteAccess, HubProofs

AccessTypeOK ==
    /\ role \in [User -> Role]
    /\ resolved \in [Conn -> {"unknown", "write", "read"}]
    /\ canWrite \in [Conn -> BOOLEAN]
    /\ change \in [Change -> ChangeState]
    /\ stale \in [Conn -> SUBSET Reason]

MayWrite(c) == CanRoleWrite(role[UserOf[c]])

\* A connection whose right can only have been taken by a refusal.
Followed(c) == stale[c] \subseteq {"refused"}

\* A change that the hub has still to apply sets what the database says.
ChangesAreCurrent ==
    \A c \in Asked : \A k \in Pending(UserOf[c]) :
        Followed(c) => change[k].write = MayWrite(c)

\* A handler that has read the role holds what the database says, or a change
\* will be looked up, and find nobody unless the handler joins first.
ResolvedIsCurrent ==
    \A c \in Asked :
        pc[c] = "authorizing" /\ Followed(c) =>
            \/ (resolved[c] = "write") = MayWrite(c)
            \/ \E k \in Pending(UserOf[c]) : change[k].stage = "committed"
IdleIsUnresolved == \A c \in Conn : pc[c] = "idle" => resolved[c] = "unknown"
MembersAsked == \A c \in Conn : pc[c] \in {"joined", "serving"} => c \in Asked

\* A session that was looked up is one.
FoundSessions == \A k \in Change : change[k].stage = "found" => change[k].session \in Session

\* A live connection is current, was refused, or a change is about to look its
\* session up or has done so and not walked it yet.
LiveIsCurrent ==
    \A c \in Live : Followed(c) =>
        \/ canWrite[c] = MayWrite(c)
        \/ stale[c] # {} /\ ~canWrite[c]
        \/ \E k \in Pending(UserOf[c]) :
              change[k].stage = "committed" \/ change[k].session = registry

AccessInv ==
    /\ AccessTypeOK /\ ChangesAreCurrent
    /\ ResolvedIsCurrent /\ IdleIsUnresolved /\ MembersAsked /\ FoundSessions
    /\ LiveIsCurrent

USE WriteAccessAssumption

\* handler.go reads the role before it joins and hub.go applies a change in two
\* sections, and a live connection ends up with the right its user has: only a
\* change that tells nobody, two at once for one user, a lookup that falls
\* between the role check and the join, or a refused update whose unlocked
\* store undoes a promotion can leave it stale, and the last never writable.
THEOREM NothingElseMakesStale == Spec => []StaleOnlyForKnownReasons
<1>1. ASSUME Init PROVE AccessInv
  <2>1. /\ \A c \in Conn : pc[c] = "idle" /\ resolved[c] = "unknown"
        /\ \A k \in Change : change[k].stage = "new"
    BY <1>1 DEF Init, HubInit
  <2>2. Live = {} /\ Asked = {} /\ \A v : Pending(v) = {}
    BY <2>1 DEF Live, Asked, Pending
  <2>3. AccessTypeOK
    <3>1. role \in [User -> Role]
      BY <1>1 DEF Init, Role
    <3>2. change \in [Change -> ChangeState]
      <4>. DEFINE Fresh == {[stage |-> "new", user |-> u, write |-> FALSE,
                             session |-> NoSession] : u \in User}
      <4>1. Fresh \subseteq ChangeState
        <5>1. ASSUME NEW u \in User
              PROVE  [stage |-> "new", user |-> u, write |-> FALSE, session |-> NoSession]
                        \in ChangeState
          BY DEF ChangeState
        <5>. QED  BY <5>1
      <4>2. change \in [Change -> Fresh]
        BY <1>1 DEF Init
      <4>. HIDE DEF Fresh
      <4>. QED  BY <4>1, <4>2
    <3>. QED  BY <1>1, <3>1, <3>2 DEF Init, AccessTypeOK
  <2>4. ChangesAreCurrent /\ LiveIsCurrent
    BY <2>2 DEF ChangesAreCurrent, LiveIsCurrent
  <2>5. ResolvedIsCurrent /\ IdleIsUnresolved /\ MembersAsked /\ FoundSessions
    BY <2>1, <2>2 DEF ResolvedIsCurrent, IdleIsUnresolved, MembersAsked, FoundSessions
  <2>. QED  BY <2>3, <2>4, <2>5 DEF AccessInv
<1>2. AccessInv => StaleOnlyForKnownReasons
  BY DEF AccessInv, LiveIsCurrent, StaleOnlyForKnownReasons, MayWrite, Followed
\* This specification keeps the hub's.
<1>3. Spec => HubSpec
  <2>1. Init => HubInit
    BY DEF Init
  <2>2. [Next]_vars => [HubNext]_hubVars
    <3>1. ASSUME NEW c \in Conn,
                 \/ ResolveRole(c) \/ Forbid(c) \/ Admit(c) \/ HubStep(c)
                 \/ LoadCanWrite(c) \/ StoreReadonly(c)
          PROVE  [HubNext]_hubVars
      BY <3>1 DEF ResolveRole, Forbid, Admit, HubStep, HubNext, Leave,
                  LoadCanWrite, StoreReadonly
    <3>2. ASSUME NEW k \in Change, ChangeStep(k) PROVE UNCHANGED hubVars
      BY <3>2 DEF ChangeStep, Commit, Lookup, Apply, WalkOver
    <3>3. CASE Restart
      BY <3>3 DEF Restart, HubNext, Leave
    <3>4. CASE ChangeSilently \/ UNCHANGED vars
      BY <3>4 DEF ChangeSilently, vars
    <3>. QED  BY <3>1, <3>2, <3>3, <3>4 DEF Next
  <2>. QED  BY <2>1, <2>2, PTL DEF Spec, HubSpec
<1>5. Spec => [](HubInv /\ MembersInv)
  BY <1>3, HubInvariant, MembersStayRegistered, PTL
<1>4. HubInv /\ MembersInv /\ AccessInv /\ [Next]_vars => AccessInv'
  <2>. SUFFICES ASSUME HubInv, MembersInv, AccessInv, [Next]_vars PROVE AccessInv'
    OBVIOUS
  <2>. USE DEF HubInv, HubTypeOK, AccessInv, AccessTypeOK
  \* Steps of the hub that leave changes, roles and rights alone.
  <2>1. ASSUME UNCHANGED accessVars,
               \A c \in Live' : c \in Live /\ registry' = registry,
               \A c \in Conn : pc'[c] \in {"idle", "authorizing"} =>
                  pc[c] = pc'[c] \/ resolved[c] = "unknown",
               \A c \in Conn : pc'[c] \in {"joined", "serving"} =>
                  pc[c] \in {"joined", "serving"}
        PROVE  AccessInv'
    <3>1. \A u : Pending(u)' = Pending(u)
      BY <2>1 DEF accessVars, Pending
    <3>2. /\ \A c : MayWrite(c)' = MayWrite(c)
          /\ \A c : Followed(c)' = Followed(c)
          /\ Asked' = Asked
      BY <2>1 DEF accessVars, MayWrite, Followed, Asked
    <3>3. AccessTypeOK' /\ MembersAsked' /\ FoundSessions'
      BY <2>1, <3>2 DEF accessVars, MembersAsked, FoundSessions
    <3>4. ChangesAreCurrent'
      BY <2>1, <3>1, <3>2 DEF accessVars, ChangesAreCurrent
    <3>5. ResolvedIsCurrent' /\ IdleIsUnresolved'
      BY <2>1, <3>1, <3>2 DEF accessVars, ResolvedIsCurrent, IdleIsUnresolved, Asked
    <3>6. LiveIsCurrent'
      BY <2>1, <3>1, <3>2 DEF accessVars, LiveIsCurrent
    <3>. QED  BY <3>3, <3>4, <3>5, <3>6
  <2>2. ASSUME NEW c \in Conn, Forbid(c) \/ HubStep(c) PROVE AccessInv'
    <3>1. UNCHANGED accessVars
      BY <2>2 DEF Forbid, HubStep
    <3>2. CASE Acquire(c)
      BY <2>1, <3>1, <3>2 DEF Acquire, Goto, Live, IdleIsUnresolved
    <3>3. CASE Reject(c) \/ Refuse(c) \/ StartPumps(c) \/ DetachBusy(c) \/ Release(c)
      BY <2>1, <3>1, <3>3 DEF Reject, Refuse, StartPumps, DetachBusy, Release, Goto, Live
    <3>4. CASE LoadFails(c) \/ ReadPumpEnds(c)
      BY <2>1, <3>1, <3>4 DEF LoadFails, ReadPumpEnds, Unregister, Goto, Live
    <3>5. CASE DetachLast(c) \/ DetachAgainInHandler(c)
      <4>1. Live' = {}
        BY <3>5, HubAssumption DEF DetachLast, DetachAgainInHandler, Goto, Live, SessionsAreKnown
      <4>. QED
        BY <2>1, <3>1, <3>5, <4>1 DEF DetachLast, DetachAgainInHandler, Goto
    <3>. QED  BY <2>2, <3>2, <3>3, <3>4, <3>5 DEF Forbid, HubStep
  <2>3. ASSUME NEW c \in Conn, ResolveRole(c) PROVE AccessInv'
    <3>1. /\ UNCHANGED <<hubVars, role, canWrite, change>>
          /\ resolved' = [resolved EXCEPT ![c] = IF MayWrite(c) THEN "write" ELSE "read"]
          /\ stale' = Marked({d \in {c} : \E k \in Pending(UserOf[d]) :
                                change[k].write # MayWrite(d)}, "overlap")
          /\ pc[c] = "authorizing"
      BY <2>3 DEF ResolveRole, MayWrite
    <3>2. /\ \A u : Pending(u)' = Pending(u)
          /\ \A d : MayWrite(d)' = MayWrite(d)
          /\ Live' = Live
          /\ Asked' = Asked \cup {c}
      BY <3>1 DEF hubVars, Pending, MayWrite, Live, Asked
    <3>3. AccessTypeOK'
      BY <3>1 DEF Marked, Reason
    <3>4. MayWrite(c) \in BOOLEAN
      BY DEF MayWrite, CanRoleWrite
    <3>5. \A d \in Conn : d # c => stale'[d] = stale[d] /\ Followed(d)' = Followed(d)
      BY <3>1 DEF Marked, Followed
    <3>6. Followed(c)' => \A k \in Pending(UserOf[c]) : change[k].write = MayWrite(c)
      <4>1. CASE \E k \in Pending(UserOf[c]) : change[k].write # MayWrite(c)
        <5>1. "overlap" \in stale'[c] /\ "overlap" \notin {"refused"}
          BY <3>1, <4>1 DEF Marked
        <5>. QED  BY <5>1 DEF Followed
      <4>. QED  BY <4>1
    <3>7. ChangesAreCurrent'
      BY <3>1, <3>2, <3>5, <3>6 DEF hubVars, ChangesAreCurrent, Asked
    <3>8. LiveIsCurrent'
      <4>1. c \notin Live
        BY <3>1 DEF Live
      <4>2. Live \subseteq Conn /\ canWrite' = canWrite /\ registry' = registry /\ change' = change
        BY <3>1 DEF Live, hubVars
      <4>. QED  BY <3>2, <3>5, <4>1, <4>2 DEF LiveIsCurrent
    <3>9. ResolvedIsCurrent' /\ IdleIsUnresolved' /\ MembersAsked' /\ FoundSessions'
      BY <3>1, <3>2, <3>4, <3>5
         DEF hubVars, ResolvedIsCurrent, IdleIsUnresolved, MembersAsked, FoundSessions, Asked
    <3>. QED  BY <3>3, <3>7, <3>8, <3>9
  \* Who joins while a change is committed and not looked up will be found.
  <2>4. ASSUME NEW c \in Conn, Admit(c) PROVE AccessInv'
    <3>1. PICK s \in Session :
            /\ IF registry = NoSession THEN status[s] = "unused" ELSE s = registry
            /\ registry' = s
            /\ sessionOf' = [sessionOf EXCEPT ![c] = s]
      BY <2>4 DEF Admit, Join
    <3>2. /\ pc[c] = "authorizing" /\ resolved[c] # "unknown"
          /\ pc' = [pc EXCEPT ![c] = "joined"]
          /\ canWrite' = [canWrite EXCEPT ![c] = resolved[c] = "write"]
          /\ UNCHANGED <<role, resolved, change, stale>>
      BY <2>4 DEF Admit, Join, Goto
    <3>3. /\ \A u : Pending(u)' = Pending(u)
          /\ \A d : MayWrite(d)' = MayWrite(d)
          /\ \A d : Followed(d)' = Followed(d)
          /\ Asked' = Asked /\ c \in Asked
      BY <3>2 DEF Pending, MayWrite, Followed, Asked
    <3>4. AccessTypeOK' /\ ChangesAreCurrent'
      BY <3>2, <3>3 DEF ChangesAreCurrent
    <3>5. ResolvedIsCurrent' /\ IdleIsUnresolved' /\ MembersAsked' /\ FoundSessions'
      BY <3>2, <3>3 DEF ResolvedIsCurrent, IdleIsUnresolved, MembersAsked, FoundSessions, Asked
    <3>6. \A d \in Live' : d # c => d \in Live /\ registry' = registry
      BY <3>1, <3>2 DEF Live, MembersInv
    <3>7. LiveIsCurrent'
      BY <3>2, <3>3, <3>6 DEF LiveIsCurrent, ResolvedIsCurrent, Asked
    <3>. QED  BY <3>4, <3>5, <3>7
  \* A commit is the only change of its user under way, or all are marked.
  <2>5. ASSUME NEW k \in Change, Commit(k) PROVE AccessInv'
    <3>. DEFINE u == change[k].user
    <3>1. PICK r \in Role :
            /\ role' = [role EXCEPT ![u] = r]
            /\ change' = [change EXCEPT ![k].stage = "committed", ![k].write = CanRoleWrite(r)]
      BY <2>5 DEF Commit
    <3>2. /\ change[k].stage = "new" /\ u \in User
          /\ stale' = Marked({c \in Asked : UserOf[c] = u /\ Pending(u) # {}}, "overlap")
          /\ UNCHANGED <<hubVars, resolved, canWrite>>
      BY <2>5 DEF Commit, ChangeState
    <3>3. change' = [change EXCEPT ![k] = [change[k] EXCEPT !.stage = "committed",
                                                            !.write = CanRoleWrite(r)]]
      BY <3>1
    <3>4. /\ change'[k].stage = "committed" /\ change'[k].write = CanRoleWrite(r)
          /\ change'[k].user = u /\ change'[k] \in ChangeState
          /\ \A l \in Change \ {k} : change'[l] = change[l]
      <4>1. change[k] \in ChangeState /\ CanRoleWrite(r) \in BOOLEAN
        BY DEF CanRoleWrite
      <4>2. change'[k] = [change[k] EXCEPT !.stage = "committed", !.write = CanRoleWrite(r)]
        BY <3>3
      <4>3. \A l \in Change \ {k} : change'[l] = change[l]
        BY <3>3
      <4>. QED  BY <4>1, <4>2, <4>3 DEF ChangeState
    <3>5. AccessTypeOK'
      <4>1. change' \in [Change -> ChangeState]
        BY <3>3, <3>4
      <4>. QED  BY <3>1, <3>2, <4>1 DEF Marked, Reason
    <3>6. \A c \in Asked : Followed(c)' =>
            /\ Followed(c) /\ stale'[c] = stale[c]
            /\ UserOf[c] = u => Pending(u) = {}
      <4>1. ASSUME NEW c \in Asked, Followed(c)'
            PROVE  /\ Followed(c) /\ stale'[c] = stale[c]
                   /\ UserOf[c] = u => Pending(u) = {}
        <5>1. c \in Conn
          BY DEF Asked
        <5>2. CASE UserOf[c] = u /\ Pending(u) # {}
          <6>1. "overlap" \in stale'[c] /\ "overlap" \notin {"refused"}
            BY <3>2, <5>1, <5>2 DEF Marked
          <6>. QED  BY <4>1, <6>1 DEF Followed
        <5>3. CASE ~(UserOf[c] = u /\ Pending(u) # {})
          <6>1. stale'[c] = stale[c]
            BY <3>2, <5>1, <5>3 DEF Marked
          <6>. QED  BY <4>1, <5>3, <6>1 DEF Followed
        <5>. QED  BY <5>2, <5>3
      <4>. QED  BY <4>1
    <3>7. /\ Pending(u)' = Pending(u) \cup {k}
          /\ \A v \in User \ {u} : Pending(v)' = Pending(v)
      BY <3>4 DEF Pending
    <3>8. \A c \in Conn : IF UserOf[c] = u THEN MayWrite(c)' = CanRoleWrite(r)
                          ELSE MayWrite(c)' = MayWrite(c)
      BY <3>1, <3>2 DEF MayWrite
    <3>9. /\ \A c \in Conn : UserOf[c] \in User
          /\ Asked' = Asked /\ Asked \subseteq Conn
          /\ Live \subseteq Asked /\ Live' = Live
      BY <3>2 DEF hubVars, Asked, Live, MembersAsked
    <3>10. ChangesAreCurrent'
      <4>1. \A v : \A l \in Pending(v) : l # k /\ change'[l] = change[l]
        BY <3>2, <3>4 DEF Pending
      <4>. QED  BY <3>4, <3>6, <3>7, <3>8, <3>9, <4>1 DEF ChangesAreCurrent
    <3>11. \A v : \A l \in Pending(v) : l # k /\ change'[l] = change[l]
      BY <3>2, <3>4 DEF Pending
    <3>12. FoundSessions' /\ IdleIsUnresolved' /\ MembersAsked'
      BY <3>2, <3>4, <3>9 DEF hubVars, FoundSessions, IdleIsUnresolved, MembersAsked
    <3>14. \A c \in Asked : UserOf[c] = u =>
              k \in Pending(UserOf[c])' /\ change'[k].stage = "committed"
      BY <3>4, <3>7
    <3>15. \A c \in Asked : UserOf[c] # u =>
              /\ MayWrite(c)' = MayWrite(c)
              /\ Pending(UserOf[c])' = Pending(UserOf[c])
              /\ \A l \in Pending(UserOf[c]) : change'[l] = change[l]
      BY <3>7, <3>8, <3>9, <3>11
    <3>16. ResolvedIsCurrent'
      <4>1. ASSUME NEW c \in Asked, pc[c] = "authorizing", Followed(c)'
            PROVE  \/ (resolved[c] = "write") = MayWrite(c)'
                   \/ \E l \in Pending(UserOf[c])' : change'[l].stage = "committed"
        BY <3>6, <3>14, <3>15, <4>1 DEF ResolvedIsCurrent
      <4>. QED  BY <3>2, <3>9, <4>1 DEF hubVars, ResolvedIsCurrent
    <3>13. LiveIsCurrent'
      <4>1. ASSUME NEW c \in Live, Followed(c)'
            PROVE  \/ canWrite[c] = MayWrite(c)'
                   \/ stale'[c] # {} /\ ~canWrite[c]
                   \/ \E l \in Pending(UserOf[c])' :
                        change'[l].stage = "committed" \/ change'[l].session = registry
        BY <3>6, <3>9, <3>14, <3>15, <4>1 DEF LiveIsCurrent
      <4>. QED  BY <3>2, <3>9, <4>1 DEF hubVars, LiveIsCurrent
    <3>. QED  BY <3>5, <3>10, <3>12, <3>13, <3>16
  \* A lookup finds the session of every live connection, and marks who holds a
  \* role and has not joined.
  <2>6. ASSUME NEW k \in Change, Lookup(k) PROVE AccessInv'
    <3>. DEFINE u == change[k].user
                next == IF registry = NoSession THEN "done" ELSE "found"
    <3>1. /\ change[k].stage = "committed"
          /\ change' = [change EXCEPT ![k].stage = next, ![k].session = registry]
          /\ stale' = Marked({c \in Asked : /\ UserOf[c] = u /\ pc[c] = "authorizing"
                                            /\ (resolved[c] = "write") # change[k].write},
                             "window")
          /\ UNCHANGED <<hubVars, role, resolved, canWrite>>
      BY <2>6 DEF Lookup
    <3>2. change' = [change EXCEPT ![k] = [change[k] EXCEPT !.stage = next, !.session = registry]]
      BY <3>1
    <3>3. /\ change'[k].stage = next /\ change'[k].session = registry
          /\ change'[k].user = u /\ change'[k].write = change[k].write
          /\ change'[k] \in ChangeState
          /\ \A l \in Change \ {k} : change'[l] = change[l]
      <4>1. change[k] \in ChangeState /\ next \in {"done", "found"}
        OBVIOUS
      <4>2. change'[k] = [change[k] EXCEPT !.stage = next, !.session = registry]
        BY <3>2
      <4>3. \A l \in Change \ {k} : change'[l] = change[l]
        BY <3>2
      <4>. HIDE DEF next
      <4>. QED  BY <4>1, <4>2, <4>3 DEF ChangeState
    <3>4. AccessTypeOK'
      <4>1. change' \in [Change -> ChangeState]
        BY <3>2, <3>3
      <4>. QED  BY <3>1, <4>1 DEF Marked, Reason
    <3>5. \A c \in Asked : Followed(c)' =>
            /\ Followed(c) /\ stale'[c] = stale[c]
            /\ UserOf[c] = u /\ pc[c] = "authorizing" => (resolved[c] = "write") = change[k].write
      <4>1. ASSUME NEW c \in Asked, Followed(c)'
            PROVE  /\ Followed(c) /\ stale'[c] = stale[c]
                   /\ UserOf[c] = u /\ pc[c] = "authorizing" => (resolved[c] = "write") = change[k].write
        <5>. DEFINE Late == /\ UserOf[c] = u /\ pc[c] = "authorizing"
                            /\ (resolved[c] = "write") # change[k].write
        <5>1. c \in Conn
          BY DEF Asked
        <5>2. CASE Late
          <6>1. "window" \in stale'[c] /\ "window" \notin {"refused"}
            BY <3>1, <5>1, <5>2 DEF Marked
          <6>. QED  BY <4>1, <6>1 DEF Followed
        <5>3. CASE ~Late
          <6>1. stale'[c] = stale[c]
            BY <3>1, <5>1, <5>3 DEF Marked
          <6>. QED  BY <4>1, <5>3, <6>1 DEF Followed
        <5>. QED  BY <5>2, <5>3
      <4>. QED  BY <4>1
    <3>6. /\ \A c \in Conn : MayWrite(c)' = MayWrite(c)
          /\ Asked' = Asked /\ Asked \subseteq Conn
          /\ Live \subseteq Asked /\ Live' = Live
      BY <3>1 DEF hubVars, MayWrite, Asked, Live, MembersAsked
    <3>7. /\ \A v : Pending(v)' \subseteq Pending(v)
          /\ \A v : \A l \in Pending(v) : l # k => l \in Pending(v)' /\ change'[l] = change[l]
          /\ \A v : k \in Pending(v) => v = u
          /\ registry # NoSession => k \in Pending(u)'
      BY <3>1, <3>3 DEF Pending
    <3>8. ChangesAreCurrent'
      <4>1. \A l \in Change : change'[l].write = change[l].write
        BY <3>3
      <4>2. \A v : Pending(v) \subseteq Change
        BY DEF Pending
      <4>. QED  BY <3>5, <3>6, <3>7, <4>1, <4>2 DEF ChangesAreCurrent
    <3>13. FoundSessions'
      <4>1. next = "found" => registry \in Session
        BY DEF HubTypeOK
      <4>. QED  BY <3>3, <4>1 DEF FoundSessions
    <3>9. ResolvedIsCurrent' /\ IdleIsUnresolved' /\ MembersAsked'
      <4>1. ASSUME NEW c \in Asked, pc[c] = "authorizing", Followed(c)'
            PROVE  \/ (resolved[c] = "write") = MayWrite(c)
                   \/ \E l \in Pending(UserOf[c])' : change'[l].stage = "committed"
        <5>1. CASE k \in Pending(UserOf[c])
          <6>1. change[k].write = MayWrite(c)
            BY <3>5, <4>1, <5>1 DEF ChangesAreCurrent
          <6>. QED  BY <3>5, <3>7, <4>1, <5>1, <6>1
        <5>2. CASE k \notin Pending(UserOf[c])
          BY <3>5, <3>7, <4>1, <5>2 DEF ResolvedIsCurrent
        <5>. QED  BY <5>1, <5>2
      <4>. QED  BY <3>1, <3>6, <4>1 DEF hubVars, ResolvedIsCurrent, IdleIsUnresolved, MembersAsked
    <3>10. registry = NoSession => Live' = {}
      BY <3>1, HubAssumption DEF hubVars, Live, SessionsAreKnown
    <3>11. ASSUME NEW c \in Live', Followed(c)'
           PROVE  \/ canWrite[c] = MayWrite(c)
                  \/ stale'[c] # {} /\ ~canWrite[c]
                  \/ \E l \in Pending(UserOf[c])' :
                        change'[l].stage = "committed" \/ change'[l].session = registry
      <4>1. /\ c \in Live /\ c \in Conn /\ registry # NoSession
            /\ Followed(c) /\ stale'[c] = stale[c]
        BY <3>1, <3>5, <3>6, <3>10, <3>11
      <4>2. CASE k \in Pending(UserOf[c])
        BY <3>3, <3>7, <4>1, <4>2
      <4>3. CASE k \notin Pending(UserOf[c])
        BY <3>7, <4>1, <4>3 DEF LiveIsCurrent
      <4>. QED  BY <4>2, <4>3
    <3>12. LiveIsCurrent'
      <4>1. registry' = registry /\ canWrite' = canWrite
        BY <3>1 DEF hubVars
      <4>2. \A c \in Live' : MayWrite(c)' = MayWrite(c)
        BY <3>6 DEF Live
      <4>. QED  BY <3>11, <4>1, <4>2 DEF LiveIsCurrent
    <3>. QED  BY <3>4, <3>8, <3>9, <3>12, <3>13
  \* The walk reaches every live connection of the user if it walks their session.
  <2>7. ASSUME NEW k \in Change, Apply(k) PROVE AccessInv'
    <3>. DEFINE u == change[k].user
                reached == {c \in clients[change[k].session] : UserOf[c] = u}
                current == Pending(u) = {k} /\ change[k].write = CanRoleWrite(role[u])
    <3>1. /\ change[k].stage = "found"
          /\ canWrite' = [c \in Conn |-> IF c \in reached THEN change[k].write ELSE canWrite[c]]
          /\ stale' = [c \in Conn |-> IF c \in reached /\ current THEN {} ELSE stale[c]]
          /\ change' = [change EXCEPT ![k].stage = "done"]
          /\ UNCHANGED <<hubVars, role, resolved>>
      BY <2>7 DEF Apply, WalkOver
    <3>2. change' = [change EXCEPT ![k] = [change[k] EXCEPT !.stage = "done"]]
      BY <3>1
    <3>3. /\ change'[k].stage = "done" /\ change'[k] \in ChangeState
          /\ \A l \in Change \ {k} : change'[l] = change[l]
      <4>1. change[k] \in ChangeState
        OBVIOUS
      <4>2. change'[k] = [change[k] EXCEPT !.stage = "done"]
        BY <3>2
      <4>3. \A l \in Change \ {k} : change'[l] = change[l]
        BY <3>2
      <4>. QED  BY <4>1, <4>2, <4>3 DEF ChangeState
    <3>4. AccessTypeOK'
      <4>1. change' \in [Change -> ChangeState]
        BY <3>2, <3>3
      <4>2. change[k].write \in BOOLEAN
        BY DEF ChangeState
      <4>. QED  BY <3>1, <4>1, <4>2
    <3>5. /\ \A c \in Conn : MayWrite(c)' = MayWrite(c)
          /\ Asked' = Asked /\ Asked \subseteq Conn
          /\ Live \subseteq Asked /\ Live' = Live
      BY <3>1 DEF hubVars, MayWrite, Asked, Live, MembersAsked
    <3>6. /\ \A v : Pending(v)' \subseteq Pending(v)
          /\ \A v : \A l \in Pending(v)' : l # k /\ change'[l] = change[l]
          /\ \A v : \A l \in Pending(v) : l # k => l \in Pending(v)'
          /\ k \in Pending(u) /\ \A v : k \in Pending(v) => v = u
      BY <3>1, <3>3 DEF Pending
    \* Who is not followed any more but was not is reached by the only change
    \* of its user, which is done.
    <3>7. \A c \in Conn :
            \/ stale'[c] = stale[c] /\ Followed(c)' = Followed(c)
            \/ /\ c \in reached /\ Pending(UserOf[c])' = {}
               /\ stale'[c] = {} /\ change[k].write = MayWrite(c)
      <4>1. ASSUME NEW c \in Conn, ~(c \in reached /\ current)
            PROVE  stale'[c] = stale[c] /\ Followed(c)' = Followed(c)
        <5>1. stale'[c] = stale[c]
          BY <3>1, <4>1
        <5>. QED  BY <5>1 DEF Followed
      <4>2. ASSUME NEW c \in Conn, c \in reached, current
            PROVE  /\ Pending(UserOf[c])' = {}
                   /\ stale'[c] = {} /\ change[k].write = MayWrite(c)
        <5>1. UserOf[c] = u /\ stale'[c] = {}
          BY <3>1, <4>2
        <5>. QED  BY <3>6, <4>2, <5>1 DEF MayWrite
      <4>. QED  BY <4>1, <4>2
    <3>8. ChangesAreCurrent'
      BY <3>1, <3>5, <3>6, <3>7 DEF ChangesAreCurrent
    <3>9. ResolvedIsCurrent' /\ IdleIsUnresolved' /\ MembersAsked' /\ FoundSessions'
      <4>1. \A c \in Conn : pc[c] = "authorizing" => c \notin reached
        BY <3>1 DEF MembersInv, FoundSessions
      <4>. HIDE DEF reached
      <4>. QED
        BY <3>1, <3>5, <3>6, <3>7, <4>1
           DEF hubVars, ResolvedIsCurrent, IdleIsUnresolved, MembersAsked, FoundSessions
    <3>10. ASSUME NEW c \in Live', Followed(c)'
           PROVE  \/ canWrite'[c] = MayWrite(c)
                  \/ stale'[c] # {} /\ ~canWrite'[c]
                  \/ \E l \in Pending(UserOf[c])' :
                       change'[l].stage = "committed" \/ change'[l].session = registry
      <4>1. c \in Live /\ c \in Asked /\ c \in Conn /\ c \in clients[registry]
        BY <3>1, <3>5 DEF hubVars, Live, MembersInv
      <4>2. CASE c \in reached
        <5>1. k \in Pending(UserOf[c]) /\ canWrite'[c] = change[k].write
          BY <3>1, <3>6, <4>1, <4>2
        <5>. QED  BY <3>7, <3>10, <4>1, <5>1 DEF ChangesAreCurrent
      <4>3. CASE c \notin reached
        <5>1. canWrite'[c] = canWrite[c] /\ stale'[c] = stale[c] /\ Followed(c)
          BY <3>1, <3>7, <3>10, <4>1, <4>3
        <5>2. ~(UserOf[c] = u /\ change[k].session = registry)
          BY <4>1, <4>3
        <5>. QED  BY <3>1, <3>3, <3>6, <4>1, <5>1, <5>2 DEF LiveIsCurrent
      <4>. QED  BY <4>2, <4>3
    <3>11. LiveIsCurrent'
      <4>1. registry' = registry
        BY <3>1 DEF hubVars
      <4>2. \A c \in Live' : MayWrite(c)' = MayWrite(c)
        BY <3>5 DEF Live
      <4>. QED  BY <3>10, <4>1, <4>2 DEF LiveIsCurrent
    <3>. QED  BY <3>4, <3>8, <3>9, <3>11
  \* A silent change marks all connections that asked for a role it sets.
  <2>8. CASE ChangeSilently
    <3>1. UNCHANGED <<hubVars, resolved, canWrite, change>>
      BY <2>8 DEF ChangeSilently
    <3>2. PICK users \in SUBSET User :
            /\ \A v \in User \ users : role'[v] = role[v]
            /\ role' \in [User -> Role]
            /\ stale' = Marked({c \in Asked : UserOf[c] \in users}, "silent")
      <4>1. ASSUME NEW v \in User, NEW r \in Role,
                   role' = [role EXCEPT ![v] = r],
                   stale' = Marked({c \in Asked : UserOf[c] = v}, "silent")
            PROVE  \E users \in SUBSET User :
                      /\ \A w \in User \ users : role'[w] = role[w]
                      /\ role' \in [User -> Role]
                      /\ stale' = Marked({c \in Asked : UserOf[c] \in users}, "silent")
        <5>1. {c \in Asked : UserOf[c] = v} = {c \in Asked : UserOf[c] \in {v}}
          OBVIOUS
        <5>2. /\ \A w \in User \ {v} : role'[w] = role[w]
              /\ role' \in [User -> Role]
          BY <4>1
        <5>3. stale' = Marked({c \in Asked : UserOf[c] \in {v}}, "silent")
          BY <4>1, <5>1
        <5>. WITNESS {v} \in SUBSET User
        <5>. QED  BY <5>2, <5>3
      <4>2. ASSUME role' = [v \in User |-> "none"], stale' = Marked(Asked, "silent")
            PROVE  /\ \A w \in User \ User : role'[w] = role[w]
                   /\ role' \in [User -> Role]
                   /\ stale' = Marked({c \in Asked : UserOf[c] \in User}, "silent")
        <5>1. {c \in Asked : UserOf[c] \in User} = Asked
          BY DEF Asked
        <5>. QED  BY <4>2, <5>1 DEF Role
      <4>3. CASE \E u \in User \ Guest, r \in {"viewer", "editor"} :
                    /\ role' = [role EXCEPT ![u] = r]
                    /\ stale' = Marked({c \in Asked : UserOf[c] = u}, "silent")
        BY <4>1, <4>3 DEF Role
      <4>4. CASE \E u \in Guest :
                    /\ role' = [role EXCEPT ![u] = "none"]
                    /\ stale' = Marked({c \in Asked : UserOf[c] = u}, "silent")
        BY <4>1, <4>4 DEF Role
      <4>. QED  BY <2>8, <4>2, <4>3, <4>4 DEF ChangeSilently
    <3>3. /\ \A v : Pending(v)' = Pending(v)
          /\ Asked' = Asked /\ Asked \subseteq Conn
          /\ Live \subseteq Asked /\ Live' = Live
      BY <3>1 DEF hubVars, Pending, Asked, Live, MembersAsked
    <3>4. AccessTypeOK' /\ MembersAsked' /\ FoundSessions'
      BY <3>1, <3>2, <3>3 DEF hubVars, Marked, Reason, MembersAsked, FoundSessions
    <3>5. \A c \in Asked : Followed(c)' =>
            Followed(c) /\ stale'[c] = stale[c] /\ MayWrite(c)' = MayWrite(c)
      <4>1. ASSUME NEW c \in Asked, Followed(c)'
            PROVE  Followed(c) /\ stale'[c] = stale[c] /\ MayWrite(c)' = MayWrite(c)
        <5>1. c \in Conn /\ UserOf[c] \in User
          BY <3>3
        <5>2. CASE UserOf[c] \in users
          <6>1. "silent" \in stale'[c] /\ "silent" \notin {"refused"}
            BY <3>2, <5>1, <5>2 DEF Marked
          <6>. QED  BY <4>1, <6>1 DEF Followed
        <5>3. CASE UserOf[c] \notin users
          <6>1. stale'[c] = stale[c] /\ role'[UserOf[c]] = role[UserOf[c]]
            BY <3>2, <5>1, <5>3 DEF Marked
          <6>. QED  BY <4>1, <6>1 DEF Followed, MayWrite
        <5>. QED  BY <5>2, <5>3
      <4>. QED  BY <4>1
    <3>6. ChangesAreCurrent'
      BY <3>1, <3>3, <3>5 DEF ChangesAreCurrent
    <3>7. ResolvedIsCurrent' /\ IdleIsUnresolved'
      BY <3>1, <3>3, <3>5 DEF hubVars, ResolvedIsCurrent, IdleIsUnresolved
    <3>8. LiveIsCurrent'
      BY <3>1, <3>3, <3>5 DEF hubVars, LiveIsCurrent
    <3>. QED  BY <3>4, <3>6, <3>7, <3>8
  <2>9. CASE Restart
    <3>1. ProcessRestarts
      BY <2>9 DEF Restart, DetachAgainInPump
    <3>2. /\ change' = [k \in Change |->
                          IF change[k].stage \in {"committed", "found"}
                          THEN [change[k] EXCEPT !.stage = "done"] ELSE change[k]]
          /\ resolved' = [c \in Conn |-> "unknown"]
          /\ stale' = [c \in Conn |-> {}]
          /\ UNCHANGED <<role, canWrite>>
      BY <2>9 DEF Restart
    <3>3. Live' = {} /\ Asked' = {}
      BY <3>1, <3>2 DEF ProcessRestarts, Live, Asked
    <3>4. AccessTypeOK'
      <4>1. ASSUME NEW k \in Change
            PROVE  (IF change[k].stage \in {"committed", "found"}
                    THEN [change[k] EXCEPT !.stage = "done"] ELSE change[k]) \in ChangeState
        BY DEF ChangeState
      <4>2. change' \in [Change -> ChangeState]
        BY <3>2, <4>1
      <4>. QED  BY <3>2, <4>2
    <3>5. ChangesAreCurrent' /\ LiveIsCurrent' /\ ResolvedIsCurrent'
      BY <3>3 DEF ChangesAreCurrent, LiveIsCurrent, ResolvedIsCurrent
    <3>6. IdleIsUnresolved' /\ MembersAsked' /\ FoundSessions'
      BY <3>1, <3>2 DEF ProcessRestarts, IdleIsUnresolved, MembersAsked, FoundSessions
    <3>. QED  BY <3>4, <3>5, <3>6
  \* The load of acceptUpdate changes nothing a right depends on; its store takes
  \* a right away and says so.
  <2>11. ASSUME NEW c \in Conn, LoadCanWrite(c) \/ StoreReadonly(c) PROVE AccessInv'
    <3>1. /\ UNCHANGED <<hubVars, role, resolved, change>>
          /\ \A d \in Conn :
                \/ canWrite'[d] = canWrite[d] /\ stale'[d] = stale[d]
                \/ ~canWrite'[d] /\ stale'[d] = stale[d] \cup {"refused"}
          /\ canWrite' \in [Conn -> BOOLEAN] /\ stale' \in [Conn -> SUBSET Reason]
      <4>1. CASE LoadCanWrite(c)
        BY <4>1 DEF LoadCanWrite
      <4>2. CASE StoreReadonly(c)
        <5>1. \A d \in Conn : d # c => canWrite'[d] = canWrite[d] /\ stale'[d] = stale[d]
          BY <4>2 DEF StoreReadonly, Marked
        <5>2. ~canWrite'[c] /\ stale'[c] = IF canWrite[c] THEN stale[c] \cup {"refused"} ELSE stale[c]
          BY <4>2 DEF StoreReadonly, Marked
        <5>3. canWrite' \in [Conn -> BOOLEAN] /\ stale' \in [Conn -> SUBSET Reason]
          BY <4>2 DEF StoreReadonly, Marked, Reason
        <5>4. canWrite[c] = FALSE => canWrite'[c] = canWrite[c]
          BY <5>2, <5>3
        <5>. QED  BY <4>2, <5>1, <5>2, <5>3, <5>4 DEF StoreReadonly
      <4>. QED  BY <2>11, <4>1, <4>2
    <3>2. /\ \A v : Pending(v)' = Pending(v)
          /\ \A d : MayWrite(d)' = MayWrite(d)
          /\ Asked' = Asked /\ Asked \subseteq Conn
          /\ Live \subseteq Asked /\ Live' = Live
      BY <3>1 DEF hubVars, Pending, MayWrite, Asked, Live, MembersAsked
    <3>3. \A d \in Conn : Followed(d)' => Followed(d)
      BY <3>1 DEF Followed
    <3>4. AccessTypeOK' /\ MembersAsked' /\ FoundSessions' /\ IdleIsUnresolved'
      BY <3>1, <3>2 DEF hubVars, MembersAsked, FoundSessions, IdleIsUnresolved
    <3>5. ChangesAreCurrent' /\ ResolvedIsCurrent'
      BY <3>1, <3>2, <3>3 DEF hubVars, ChangesAreCurrent, ResolvedIsCurrent
    <3>6. LiveIsCurrent'
      BY <3>1, <3>2, <3>3 DEF hubVars, LiveIsCurrent
    <3>. QED  BY <3>4, <3>5, <3>6
  <2>10. CASE UNCHANGED vars
    BY <2>1, <2>10 DEF vars, hubVars, Live, accessVars
  <2>. QED
    BY <2>2, <2>3, <2>4, <2>5, <2>6, <2>7, <2>8, <2>9, <2>10, <2>11 DEF Next, ChangeStep
<1>. QED  BY <1>1, <1>2, <1>5, <1>4, PTL DEF Spec
==============================================================================
