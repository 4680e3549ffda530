---------------------------- MODULE WriteAccess ----------------------------
(***************************************************************************)
(* Whether a live connection may write, against the role the database has  *)
(* for its user.  The role is read once, before the connection joins       *)
(* (handler.go), and kept in conn.canWrite; a handler that changes a role  *)
(* commits first and then calls Hub.SetWriteAccess, which looks the        *)
(* session up under h.mu and walks its clients under s.mu, two steps.      *)
(* The read pump of a connection stores to canWrite too, under no lock: it *)
(* loads false for an update it refuses, and then stores false.            *)
(* Extends Hub: connections join and leave in between.                     *)
(***************************************************************************)
EXTENDS Hub

CONSTANTS
    User,       \* principals; a share-link guest is a principal of its own
    Guest,      \* the share-link ones
    UserOf,     \* the principal of a connection
    Change,     \* identities of calls that change a role
    MaxSilent   \* bound on the role changes that do not tell the hub

ASSUME WriteAccessAssumption ==
    /\ Guest \subseteq User
    /\ UserOf \in [Conn -> User]
    /\ MaxSilent \in Nat

VARIABLES
    role,      \* ResolveDocumentRole or LookupShareLink, per principal
    resolved,  \* the handler's local canWrite
    canWrite,  \* conn.canWrite
    change,    \* the handlers that call SetWriteAccess
    silent,    \* how many changes did not tell the hub
    refusing,  \* read pumps between the load and the store of acceptUpdate
    stale      \* history: why a connection's canWrite may be out of date

accessVars == <<role, resolved, canWrite, change, silent, refusing, stale>>
vars == <<hubVars, accessVars>>

Role == {"none", "viewer", "editor"}
Reason == {"silent", "overlap", "window", "refused"}
CanRoleWrite(r) == r = "editor"

\* "new": not called yet; "committed": the database has it; "found": the
\* session was looked up; "done".
ChangeState ==
    [stage : {"new", "committed", "found", "done"},
     user : User, write : BOOLEAN, session : Session \cup {NoSession}]

TypeOK ==
    /\ HubTypeOK
    /\ role \in [User -> Role]
    /\ resolved \in [Conn -> {"unknown", "write", "read"}]
    /\ canWrite \in [Conn -> BOOLEAN]
    /\ change \in [Change -> ChangeState]
    /\ silent \in 0..MaxSilent
    /\ refusing \subseteq Conn
    /\ stale \in [Conn -> SUBSET Reason]
    /\ \A k \in Change : change[k].stage = "found" => change[k].session # NoSession

Init ==
    /\ HubInit
    /\ role \in [User -> {"viewer", "editor"}]
    /\ resolved = [c \in Conn |-> "unknown"]
    /\ canWrite = [c \in Conn |-> FALSE]
    /\ change \in [Change -> {[stage |-> "new", user |-> u, write |-> FALSE,
                               session |-> NoSession] : u \in User}]
    /\ silent = 0
    /\ refusing = {}
    /\ stale = [c \in Conn |-> {}]

\* The changes of u that the hub has not applied yet.
Pending(u) == {k \in Change : change[k].user = u
                                /\ change[k].stage \in {"committed", "found"}}

\* The connections whose handler has read the role.
Asked == {c \in Conn : resolved[c] # "unknown"}

Marked(which, why) ==
    [c \in Conn |-> IF c \in which THEN stale[c] \cup {why} ELSE stale[c]]

(***************************************************************************)
(* The connection's side.                                                  *)
(***************************************************************************)
ResolveRole(c) ==
    /\ pc[c] = "authorizing" /\ resolved[c] = "unknown"
    /\ role[UserOf[c]] # "none"
    /\ resolved' = [resolved EXCEPT ![c] =
                        IF CanRoleWrite(role[UserOf[c]]) THEN "write" ELSE "read"]
    /\ stale' = Marked({d \in {c} : \E k \in Pending(UserOf[d]) :
                            change[k].write # CanRoleWrite(role[UserOf[d]])}, "overlap")
    /\ UNCHANGED <<hubVars, role, canWrite, change, silent, refusing>>

Forbid(c) ==
    /\ resolved[c] = "unknown" /\ role[UserOf[c]] = "none"
    /\ Reject(c)
    /\ UNCHANGED accessVars

\* newConn takes the resolved role, join makes the connection reachable.
Admit(c) ==
    /\ resolved[c] # "unknown"
    /\ Join(c)
    /\ canWrite' = [canWrite EXCEPT ![c] = resolved[c] = "write"]
    /\ UNCHANGED <<role, resolved, change, silent, refusing, stale>>

\* conn.acceptUpdate, of a connection that may not write: the load ...
LoadCanWrite(c) ==
    /\ pc[c] = "serving" /\ c \notin refusing /\ ~canWrite[c]
    /\ refusing' = refusing \cup {c}
    /\ UNCHANGED <<hubVars, role, resolved, canWrite, change, silent, stale>>

\* ... and setCanWrite(false), which undoes a promotion that ran in between.
StoreReadonly(c) ==
    /\ c \in refusing
    /\ refusing' = refusing \ {c}
    /\ canWrite' = [canWrite EXCEPT ![c] = FALSE]
    /\ stale' = Marked({d \in {c} : canWrite[d]}, "refused")
    /\ UNCHANGED <<hubVars, role, resolved, change, silent>>

HubStep(c) ==
    /\ \/ Acquire(c) \/ Refuse(c) \/ Reject(c) \/ StartPumps(c)
       \/ LoadFails(c)
       \/ c \notin refusing /\ ReadPumpEnds(c)
       \/ DetachBusy(c) \/ DetachLast(c) \/ DetachAgainInHandler(c)
       \/ Release(c)
    /\ UNCHANGED accessVars

\* The handlers of the new process know of no change that was under way.
Restart ==
    /\ ProcessRestarts \/ \E c \in Conn : DetachAgainInPump(c)
    /\ change' = [k \in Change |->
                    IF change[k].stage \in {"committed", "found"}
                    THEN [change[k] EXCEPT !.stage = "done"] ELSE change[k]]
    /\ resolved' = [c \in Conn |-> "unknown"]
    /\ refusing' = {}
    /\ stale' = [c \in Conn |-> {}]
    /\ UNCHANGED <<role, canWrite, silent>>

(***************************************************************************)
(* The changes.                                                            *)
(***************************************************************************)
\* upsertAccess, deleteAccess, createInvite and resolveAccessRequest commit.
Commit(k) ==
    LET u == change[k].user IN
    /\ change[k].stage = "new" /\ u \notin Guest
    /\ \E r \in Role :
        /\ role' = [role EXCEPT ![u] = r]
        /\ change' = [change EXCEPT ![k].stage = "committed",
                                    ![k].write = CanRoleWrite(r)]
    /\ stale' = Marked({c \in Asked : UserOf[c] = u /\ Pending(u) # {}}, "overlap")
    /\ UNCHANGED <<hubVars, resolved, canWrite, silent, refusing>>

\* Hub.SetWriteAccess, the section of h.mu.  A handler that has read the role
\* and not yet joined cannot be found.
Lookup(k) ==
    LET u == change[k].user IN
    /\ change[k].stage = "committed"
    /\ change' = [change EXCEPT
                    ![k].stage = IF registry = NoSession THEN "done" ELSE "found",
                    ![k].session = registry]
    /\ stale' = Marked({c \in Asked :
                            /\ UserOf[c] = u /\ pc[c] = "authorizing"
                            /\ (resolved[c] = "write") # change[k].write}, "window")
    /\ UNCHANGED <<hubVars, role, resolved, canWrite, silent, refusing>>

\* What a walk that reaches these connections does.  If no other change of the
\* user is under way, it sets what the database says, whatever was before.
WalkOver(reached, k) ==
    LET u == change[k].user
        current == Pending(u) = {k} /\ change[k].write = CanRoleWrite(role[u])
    IN  /\ change[k].stage = "found"
        /\ canWrite' = [c \in Conn |-> IF c \in reached THEN change[k].write
                                       ELSE canWrite[c]]
        /\ stale' = [c \in Conn |-> IF c \in reached /\ current THEN {} ELSE stale[c]]
        /\ change' = [change EXCEPT ![k].stage = "done"]
        /\ UNCHANGED <<hubVars, role, resolved, silent, refusing>>

ApplyToServing(k) ==
    WalkOver({c \in clients[change[k].session] :
                 UserOf[c] = change[k].user /\ pc[c] = "serving"}, k)

\* docSession.setWriteAccess, the section of s.mu.
Apply(k) ==
    WalkOver({c \in clients[change[k].session] : UserOf[c] = change[k].user}, k)

\* claimInvite for a member, revokeShareLink for a guest and deleteDocument
\* for everybody change roles and leave the hub alone.
ChangeSilently ==
    /\ silent < MaxSilent
    /\ silent' = silent + 1
    /\ \/ \E u \in User \ Guest, r \in {"viewer", "editor"} :
            /\ role' = [role EXCEPT ![u] = r]
            /\ stale' = Marked({c \in Asked : UserOf[c] = u}, "silent")
       \/ \E u \in Guest :
            /\ role' = [role EXCEPT ![u] = "none"]
            /\ stale' = Marked({c \in Asked : UserOf[c] = u}, "silent")
       \/ /\ role' = [u \in User |-> "none"]
          /\ stale' = Marked(Asked, "silent")
    /\ UNCHANGED <<hubVars, resolved, canWrite, change, refusing>>

ChangeStep(k) == Commit(k) \/ Lookup(k) \/ Apply(k)

Next ==
    \/ \E c \in Conn :
        \/ ResolveRole(c) \/ Forbid(c) \/ Admit(c) \/ HubStep(c)
        \/ LoadCanWrite(c) \/ StoreReadonly(c)
    \/ \E k \in Change : ChangeStep(k)
    \/ ChangeSilently
    \/ Restart

Spec == Init /\ [][Next]_vars

-----------------------------------------------------------------------------
\* The registered connections the registry knows of.
Live == {c \in Conn : pc[c] \in {"joined", "serving"} /\ sessionOf[c] = registry}

\* Once no change of its user is under way, a live connection writes exactly
\* if its user may, unless since the last change that reached it alone a change
\* was silent, two changes of the user overlapped, one looked the session up
\* between the role check and the join, or the read pump refused an update
\* while one promoted the connection.  Nothing else makes a connection's right
\* stale: not a join between commit and lookup, not one between lookup and
\* walk, not a new session.  A refusal alone never leaves a right to write that
\* the user does not have.
StaleOnlyForKnownReasons ==
    \A c \in Live :
        Pending(UserOf[c]) = {} /\ stale[c] \subseteq {"refused"} =>
            \/ canWrite[c] = CanRoleWrite(role[UserOf[c]])
            \/ stale[c] # {} /\ ~canWrite[c]

\* What PLAN.md says of revocation: when the call has returned, a writer whose
\* role cannot write any more is readonly, without a reload.  Checked where no
\* change is silent and only one is ever made.
RevokedWritersGoReadonly ==
    \A c \in Live :
        Pending(UserOf[c]) = {} /\ ~CanRoleWrite(role[UserOf[c]]) => ~canWrite[c]
=============================================================================
