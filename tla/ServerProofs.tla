---------------------------- MODULE ServerProofs ----------------------------
(***************************************************************************)
(* Proofs about the three parts of Server, and from them about Server:     *)
(* for any number of people, invites and requests that run at once, one    *)
(* invite at most is open of each line of resends, and an invite that is   *)
(* used up has given its role; for any nodes and connections, a stored     *)
(* update is, for every connection that is served on another node, in its  *)
(* buffer, on the way to it or counted as lost, or was looked up on a node *)
(* where a session was detached twice; a stream of events skips only those *)
(* that commit late.                                                       *)
(***************************************************************************)
EXTENDS Server, FiniteSetTheorems, WellFoundedInduction, SequenceTheorems, TLAPS

USE SharingAssumption, RelayAssumption, ActivityAssumption

-----------------------------------------------------------------------------
(***************************************************************************)
(* Invites.                                                                *)
(***************************************************************************)
InviteStatus == Unused \cup {"claimed", "revoked"}
InviteRow == [who : Person, status : InviteStatus, origin : Nat]

RowsOK ==
    /\ invites \in Seq(InviteRow)
    /\ \A t \in DOMAIN invites : invites[t].origin \in 1..Len(invites)

\* A request works on rows that exist: no statement deletes an invite.
OnRow(ops) == [op : ops, token : DOMAIN invites]
Task ==
    [op : {"done"}] \cup OnRow({"grant", "mark", "resend", "recreate"})
    \cup [op : {"user"}, who : Person, where : {"app", "page"}]
    \cup [op : {"claim"}, who : Person, where : {"app", "page"}, pending : SUBSET DOMAIN invites]

HandlersOK == handlers \in [Handler -> Task]

GrantsOK ==
    /\ known \subseteq Person
    /\ granted \subseteq DOMAIN invites
    /\ \A h \in Of("mark") : handlers[h].token \in granted

SameOrigin(t, u) == invites[t].origin = invites[u].origin

\* Between the two statements of a resend nothing of its line is open, and no
\* other resend of that line has got as far: to get there a request must
\* revoke an open invite.  This is what OneSuccessor lacks to be inductive.
ResendsAreAlone ==
    \A h \in Of("recreate") :
        /\ \A t \in DOMAIN invites :
              SameOrigin(t, handlers[h].token) => invites[t].status \notin Unused
        /\ \A g \in Of("recreate") :
              SameOrigin(handlers[g].token, handlers[h].token) => g = h

SharingInv ==
    /\ RowsOK /\ HandlersOK /\ GrantsOK
    /\ OneSuccessor /\ ResendsAreAlone /\ ClaimedWasGranted

\* The lines of resends stay as they are through every statement of every
\* request (store/invites.go, store/users.go).
THEOREM SharingInvariant == SharingSpec => []SharingInv
\* UPDATE changes the status of the rows it selects and nothing else.
<1>a. ASSUME RowsOK, NEW T, NEW status \in InviteStatus, Mark(T, status)
      PROVE  /\ RowsOK' /\ DOMAIN invites' = DOMAIN invites
             /\ \A t \in DOMAIN invites :
                   invites'[t] = [who |-> invites[t].who, origin |-> invites[t].origin,
                                  status |-> IF t \in T THEN status ELSE invites[t].status]
  <2>. USE <1>a
  <2>1. DOMAIN invites = 1..Len(invites) /\ Len(invites) \in Nat
    BY LenProperties DEF RowsOK
  <2>2. \A t \in DOMAIN invites : invites[t] \in InviteRow
    BY <2>1, ElementOfSeq DEF RowsOK
  <2>3. /\ DOMAIN invites' = 1..Len(invites)
        /\ \A t \in DOMAIN invites :
              invites'[t] = [who |-> invites[t].who, origin |-> invites[t].origin,
                             status |-> IF t \in T THEN status ELSE invites[t].status]
    BY <2>1, <2>2 DEF Mark, InviteRow
  <2>4. \A t \in 1..Len(invites) : invites'[t] \in InviteRow
    BY <2>1, <2>2, <2>3 DEF InviteRow
  <2>5. invites' = [t \in 1..Len(invites) |-> invites'[t]]
    BY <2>1 DEF Mark
  <2>6. invites' \in Seq(InviteRow)
    BY <2>1, <2>4, <2>5, IsASeq
  <2>7. Len(invites') = Len(invites)
    BY <2>1, <2>3, <2>6, LenProperties
  <2>. QED  BY <2>1, <2>3, <2>6, <2>7 DEF RowsOK
\* A step that opens no invite and lets no request into the middle of a resend
\* keeps the lines as they are.
<1>b. ASSUME OneSuccessor, ResendsAreAlone, HandlersOK,
             DOMAIN invites' = DOMAIN invites,
             \A t \in DOMAIN invites :
                /\ invites'[t].origin = invites[t].origin
                /\ invites'[t].status \in Unused => invites[t].status \in Unused,
             \A h \in Handler : handlers'[h].op = "recreate" => handlers'[h] = handlers[h]
      PROVE  OneSuccessor' /\ ResendsAreAlone'
  <2>. USE <1>b
  <2>1. OneSuccessor'
    BY DEF OneSuccessor
  <2>2. \A h \in Handler : handlers'[h].op = "recreate" =>
           /\ h \in Of("recreate") /\ handlers'[h].token = handlers[h].token
           /\ handlers[h].token \in DOMAIN invites
    BY DEF Of, HandlersOK, Task, OnRow
  <2>. QED  BY <2>1, <2>2 DEF ResendsAreAlone, SameOrigin, Of
<1>1. SharingInit => SharingInv
  <2>. SUFFICES ASSUME SharingInit PROVE SharingInv
    OBVIOUS
  <2>1. invites = <<>> /\ DOMAIN invites = {} /\ invites \in Seq(InviteRow)
    BY EmptySeq DEF SharingInit, SharingIdle
  <2>. QED
    BY <2>1 DEF SharingInit, SharingIdle, SharingInv, RowsOK, HandlersOK, Task, GrantsOK,
                OneSuccessor, ResendsAreAlone, ClaimedWasGranted, Of, Done
\* A step of the invites' owner: create, give the role, mark, revoke, resend.
<1>2. ASSUME SharingInv, InviteStep PROVE SharingInv'
  <2>. USE <1>2
  <2>. USE DEF SharingInv
  \* INSERT adds a pending row, of a line of its own or of the one it resends.
  <2>. DEFINE new == Len(invites) + 1
  <2>0. ASSUME NEW w \in Person, NEW origin \in 0..Len(invites), Insert(w, origin)
        PROVE  /\ RowsOK'
               /\ DOMAIN invites' = DOMAIN invites \cup {new} /\ new \notin DOMAIN invites
               /\ \A t \in DOMAIN invites : invites'[t] = invites[t]
               /\ invites'[new] = [who |-> w, status |-> "pending",
                                   origin |-> IF origin = 0 THEN new ELSE origin]
    <3>. DEFINE row == [who |-> w, status |-> "pending",
                        origin |-> IF origin = 0 THEN Len(invites) + 1 ELSE origin]
    <3>1. /\ invites \in Seq(InviteRow) /\ Len(invites) \in Nat
          /\ DOMAIN invites = 1..Len(invites)
      BY LenProperties DEF RowsOK
    <3>2. row \in InviteRow
      BY <3>1 DEF InviteRow, InviteStatus, Unused
    <3>3. invites' = Append(invites, row)
      BY <2>0 DEF Insert
    <3>4. /\ invites' \in Seq(InviteRow) /\ Len(invites') = Len(invites) + 1
          /\ DOMAIN invites' = 1..(Len(invites) + 1)
          /\ \A t \in 1..Len(invites) : invites'[t] = invites[t]
          /\ invites'[Len(invites) + 1] = row
      BY <3>1, <3>2, <3>3, AppendProperties, LenProperties
    <3>. QED  BY <3>1, <3>4 DEF RowsOK
  <2>1. CASE CreateInvite
    <3>1. PICK w \in Person :
             /\ Insert(w, 0)
             /\ IF w \in known THEN Start(GrantNext) ELSE UNCHANGED handlers
      BY <2>1 DEF CreateInvite
    <3>2. UNCHANGED <<known, granted>>
      BY <2>1 DEF CreateInvite
    <3>3. /\ RowsOK'
          /\ DOMAIN invites' = DOMAIN invites \cup {new} /\ new \notin DOMAIN invites
          /\ \A t \in DOMAIN invites : invites'[t] = invites[t]
          /\ invites'[new] = [who |-> w, status |-> "pending", origin |-> new]
      <4>1. 0 \in 0..Len(invites)
        BY LenProperties DEF RowsOK
      <4>. QED  BY <3>1, <4>1, <2>0
    <3>4. \A t \in DOMAIN invites : invites[t].origin # new
      BY LenProperties DEF RowsOK
    <3>5. \/ handlers' = handlers
          \/ \E h \in Handler : /\ handlers[h].op = "done"
                                /\ handlers' = [handlers EXCEPT ![h] = [op |-> "grant", token |-> new]]
      BY <3>1 DEF Start, Of, Continue, GrantNext
    <3>6. HandlersOK' /\ GrantsOK'
      BY <3>2, <3>3, <3>5 DEF HandlersOK, Task, OnRow, GrantsOK, Of
    <3>7. OneSuccessor' /\ ClaimedWasGranted'
      BY <3>2, <3>3, <3>4 DEF OneSuccessor, ClaimedWasGranted
    <3>8. \A h \in Handler : handlers'[h].op = "recreate" =>
             /\ h \in Of("recreate") /\ handlers'[h].token = handlers[h].token
             /\ handlers[h].token \in DOMAIN invites
      BY <3>5 DEF HandlersOK, Task, OnRow, Of
    <3>9. ResendsAreAlone'
      BY <3>3, <3>4, <3>8 DEF ResendsAreAlone, SameOrigin, Of
    <3>. QED  BY <3>3, <3>6, <3>7, <3>9
  <2>2. CASE GrantThenMark
    <3>1. ASSUME NEW h \in Of("grant"), UNCHANGED <<invites, known>>,
                 granted' = granted \cup {handlers[h].token},
                 handlers' = [handlers EXCEPT ![h] = [handlers[h] EXCEPT !.op = "mark"]]
          PROVE  SharingInv'
      <4>1. handlers[h] \in OnRow({"grant"})
        BY DEF HandlersOK, Task, OnRow, Of
      <4>2. [handlers[h] EXCEPT !.op = "mark"] = [op |-> "mark", token |-> handlers[h].token]
        BY <4>1 DEF OnRow
      <4>3. handlers' = [handlers EXCEPT ![h] = [op |-> "mark", token |-> handlers[h].token]]
        BY <3>1, <4>2
      <4>4. HandlersOK' /\ GrantsOK' /\ RowsOK' /\ ClaimedWasGranted'
        BY <3>1, <4>1, <4>3
           DEF HandlersOK, Task, OnRow, GrantsOK, Of, RowsOK, ClaimedWasGranted
      <4>5. \A g \in Handler : handlers'[g].op = "recreate" => handlers'[g] = handlers[g]
        BY <4>3 DEF HandlersOK, Of
      <4>6. OneSuccessor' /\ ResendsAreAlone'
        BY <3>1, <4>5, <1>b
      <4>. QED  BY <4>4, <4>6
    <3>2. ASSUME NEW h \in Of("mark"), UNCHANGED <<granted, known>>,
                 Mark({handlers[h].token}, "claimed"), Finish(h)
          PROVE  SharingInv'
      <4>1. handlers' = [handlers EXCEPT ![h] = [op |-> "done"]]
        BY <3>2 DEF Finish, Continue, Done
      <4>2. /\ RowsOK' /\ DOMAIN invites' = DOMAIN invites
            /\ \A u \in DOMAIN invites :
                  invites'[u] = [who |-> invites[u].who, origin |-> invites[u].origin,
                                 status |-> IF u \in {handlers[h].token} THEN "claimed"
                                            ELSE invites[u].status]
        BY <3>2, <1>a DEF InviteStatus
      <4>3. HandlersOK' /\ GrantsOK'
        BY <3>2, <4>1, <4>2 DEF HandlersOK, Task, OnRow, GrantsOK, Of
      <4>4. ClaimedWasGranted'
        BY <3>2, <4>2 DEF ClaimedWasGranted, GrantsOK
      <4>5. \A g \in Handler : handlers'[g].op = "recreate" => handlers'[g] = handlers[g]
        BY <4>1 DEF HandlersOK, Of
      <4>6. OneSuccessor' /\ ResendsAreAlone'
        BY <4>2, <4>5, <1>b DEF Unused
      <4>. QED  BY <4>2, <4>3, <4>4, <4>6
    <3>. QED  BY <2>2, <3>1, <3>2 DEF GrantThenMark, Grant, Continue
  <2>3. CASE RevokeInvite \/ Expires
    <3>1. PICK t \in DOMAIN invites, status \in {"revoked", "expired"} :
             invites[t].status \in Unused /\ Mark({t}, status)
      BY <2>3 DEF RevokeInvite, Expires, Unused
    <3>2. UNCHANGED <<known, handlers, granted>>
      BY <2>3 DEF RevokeInvite, Expires
    <3>3. /\ RowsOK' /\ DOMAIN invites' = DOMAIN invites
          /\ \A u \in DOMAIN invites :
                invites'[u] = [who |-> invites[u].who, origin |-> invites[u].origin,
                               status |-> IF u \in {t} THEN status ELSE invites[u].status]
      BY <3>1, <1>a DEF InviteStatus, Unused
    <3>4. HandlersOK' /\ GrantsOK'
      BY <3>2, <3>3 DEF HandlersOK, Task, OnRow, GrantsOK, Of
    <3>5. ClaimedWasGranted'
      BY <3>1, <3>2, <3>3 DEF ClaimedWasGranted
    <3>6. OneSuccessor' /\ ResendsAreAlone'
      BY <3>1, <3>2, <3>3, <1>b DEF Unused
    <3>. QED  BY <3>3, <3>4, <3>5, <3>6
  <2>4. CASE ResendInvite
    <3>1. PICK t \in DOMAIN invites, h \in Of("done") :
             handlers' = [handlers EXCEPT ![h] = [op |-> "resend", token |-> t]]
      BY <2>4 DEF ResendInvite, Start, Continue
    <3>2. UNCHANGED <<known, invites, granted>>
      BY <2>4 DEF ResendInvite
    <3>3. HandlersOK' /\ GrantsOK' /\ RowsOK' /\ ClaimedWasGranted'
      BY <3>1, <3>2 DEF HandlersOK, Task, OnRow, GrantsOK, Of, RowsOK, ClaimedWasGranted
    <3>4. OneSuccessor' /\ ResendsAreAlone'
      <4>1. \A g \in Handler : handlers'[g].op = "recreate" => handlers'[g] = handlers[g]
        BY <3>1 DEF HandlersOK, Of
      <4>. QED  BY <3>2, <4>1, <1>b
    <3>. QED  BY <3>3, <3>4
  <2>5. CASE Resend
    <3>1. ASSUME NEW h \in Of("resend"), RevokeForResend(h, handlers[h].token),
                 UNCHANGED <<known, granted>>
          PROVE  SharingInv'
      <4>. DEFINE t == handlers[h].token
      <4>1. handlers[h] \in OnRow({"resend"}) /\ t \in DOMAIN invites
        BY DEF HandlersOK, Task, OnRow, Of
      <4>2. CASE invites[t].status \notin Unused
        <5>1. handlers' = [handlers EXCEPT ![h] = [op |-> "done"]] /\ UNCHANGED invites
          BY <3>1, <4>2 DEF RevokeForResend, Finish, Continue, Done
        <5>2. HandlersOK' /\ GrantsOK' /\ RowsOK' /\ ClaimedWasGranted'
          BY <3>1, <5>1 DEF HandlersOK, Task, OnRow, GrantsOK, Of, RowsOK, ClaimedWasGranted
        <5>3. \A g \in Handler : handlers'[g].op = "recreate" => handlers'[g] = handlers[g]
          BY <5>1 DEF HandlersOK, Of
        <5>4. OneSuccessor' /\ ResendsAreAlone'
          BY <5>1, <5>3, <1>b
        <5>. QED  BY <5>2, <5>4
      <4>3. CASE invites[t].status \in Unused
        <5>1. [handlers[h] EXCEPT !.op = "recreate"] = [op |-> "recreate", token |-> t]
          BY <4>1 DEF OnRow
        <5>2. /\ handlers' = [handlers EXCEPT ![h] = [op |-> "recreate", token |-> t]]
              /\ Mark({t}, "revoked")
          BY <3>1, <4>3, <5>1 DEF RevokeForResend, Continue
        <5>3. /\ RowsOK' /\ DOMAIN invites' = DOMAIN invites
              /\ \A u \in DOMAIN invites :
                    invites'[u] = [who |-> invites[u].who, origin |-> invites[u].origin,
                                   status |-> IF u \in {t} THEN "revoked" ELSE invites[u].status]
          BY <5>2, <1>a DEF InviteStatus
        <5>4. HandlersOK' /\ GrantsOK' /\ ClaimedWasGranted'
          BY <3>1, <4>1, <5>2, <5>3
             DEF HandlersOK, Task, OnRow, GrantsOK, Of, ClaimedWasGranted
        <5>5. OneSuccessor'
          BY <5>3 DEF OneSuccessor, Unused
        <5>6. \A u \in DOMAIN invites :
                 SameOrigin(u, t) => invites'[u].status \notin Unused
          BY <4>1, <4>3, <5>3 DEF OneSuccessor, SameOrigin, Unused
        <5>7. \A g \in Of("recreate") : /\ handlers[g].token \in DOMAIN invites
                                        /\ ~SameOrigin(handlers[g].token, t)
          <6>1. \A g \in Of("recreate") : handlers[g].token \in DOMAIN invites
            BY DEF HandlersOK, Task, OnRow, Of
          <6>. QED  BY <4>1, <4>3, <6>1 DEF ResendsAreAlone, SameOrigin
        <5>8. ResendsAreAlone'
          <6>1. Of("recreate")' \subseteq Of("recreate") \cup {h}
            BY <5>2 DEF Of, HandlersOK
          <6>2. /\ handlers'[h].token = t
                /\ \A g \in Of("recreate") : handlers'[g].token = handlers[g].token
            BY <3>1, <5>2 DEF Of, HandlersOK
          <6>3. \A u, v \in DOMAIN invites : SameOrigin(u, v)' <=> SameOrigin(u, v)
            BY <5>3 DEF SameOrigin
          <6>4. \A u \in DOMAIN invites :
                   invites'[u].status \in Unused => invites[u].status \in Unused
            BY <5>3 DEF Unused
          <6>5. ASSUME NEW g \in Of("recreate")', NEW u \in DOMAIN invites',
                       SameOrigin(u, handlers[g].token)'
                PROVE  invites'[u].status \notin Unused
            BY <4>1, <5>3, <5>6, <5>7, <6>1, <6>2, <6>3, <6>4, <6>5
               DEF ResendsAreAlone, SameOrigin
          <6>6. ASSUME NEW g \in Of("recreate")', NEW f \in Of("recreate")',
                       SameOrigin(handlers[f].token, handlers[g].token)'
                PROVE  f = g
            BY <4>1, <5>3, <5>7, <6>1, <6>2, <6>3, <6>6 DEF ResendsAreAlone, SameOrigin
          <6>. QED  BY <6>5, <6>6 DEF ResendsAreAlone
        <5>. QED  BY <5>3, <5>4, <5>5, <5>8
      <4>. QED  BY <4>2, <4>3
    <3>2. ASSUME NEW h \in Of("recreate"), NEW old, old = invites[handlers[h].token],
                 Insert(old.who, old.origin),
                 IF old.who \in known THEN Continue(h, GrantNext) ELSE Finish(h),
                 UNCHANGED <<known, granted>>
          PROVE  SharingInv'
      <4>1. handlers[h].token \in DOMAIN invites
        BY DEF HandlersOK, Task, OnRow, Of
      <4>2. old.who \in Person /\ old.origin \in 1..Len(invites)
        <5>1. old \in InviteRow
          BY <3>2, <4>1, ElementOfSeq, LenProperties DEF RowsOK
        <5>. QED  BY <3>2, <4>1, <5>1 DEF RowsOK, InviteRow
      <4>3. /\ RowsOK'
            /\ DOMAIN invites' = DOMAIN invites \cup {new} /\ new \notin DOMAIN invites
            /\ \A t \in DOMAIN invites : invites'[t] = invites[t]
            /\ invites'[new] = [who |-> old.who, status |-> "pending", origin |-> old.origin]
        <5>1. Len(invites) \in Nat
          BY LenProperties DEF RowsOK
        <5>2. old.origin \in 0..Len(invites) /\ old.origin # 0
          BY <4>2, <5>1
        <5>. QED  BY <3>2, <4>2, <5>2, <2>0
      <4>4. \E d \in {[op |-> "done"], [op |-> "grant", token |-> new]} :
               handlers' = [handlers EXCEPT ![h] = d]
        BY <3>2 DEF Continue, Finish, Done, GrantNext
      <4>5. HandlersOK' /\ GrantsOK' /\ ClaimedWasGranted'
        BY <3>2, <4>3, <4>4 DEF HandlersOK, Task, OnRow, GrantsOK, Of, ClaimedWasGranted
      <4>6. \A t \in DOMAIN invites :
               invites[t].origin = old.origin => invites[t].status \notin Unused
        BY <3>2 DEF ResendsAreAlone, SameOrigin
      <4>7. OneSuccessor'
        BY <4>3, <4>6 DEF OneSuccessor
      <4>8. \A g \in Handler : handlers'[g].op = "recreate" =>
               /\ g \in Of("recreate") /\ g # h /\ handlers'[g].token = handlers[g].token
               /\ handlers[g].token \in DOMAIN invites
               /\ invites[handlers[g].token].origin # old.origin
        <5>1. \A g \in Handler : handlers'[g].op = "recreate" =>
                 g # h /\ handlers'[g] = handlers[g] /\ g \in Of("recreate")
          BY <4>4 DEF HandlersOK, Of
        <5>2. \A g \in Of("recreate") : handlers[g].token \in DOMAIN invites
          BY DEF HandlersOK, Task, OnRow, Of
        <5>3. \A g \in Of("recreate") :
                 invites[handlers[g].token].origin = old.origin => g = h
          BY <3>2 DEF ResendsAreAlone, SameOrigin
        <5>. QED  BY <5>1, <5>2, <5>3
      <4>9. ResendsAreAlone'
        BY <4>3, <4>8 DEF ResendsAreAlone, SameOrigin, Of
      <4>. QED  BY <4>3, <4>5, <4>7, <4>9
    <3>. QED  BY <2>5, <3>1, <3>2 DEF Resend
  <2>. QED  BY <2>1, <2>2, <2>3, <2>4, <2>5 DEF InviteStep
\* A step of the invited: sign-in, with its two statements, and the page; or a
\* request that ends early.
<1>3. ASSUME SharingInv, PersonStep \/ HandlerFails PROVE SharingInv'
  <2>. USE <1>3
  <2>. USE DEF SharingInv
  <2>1. ASSUME UNCHANGED <<invites, granted>>, known' \subseteq Person,
               NEW h \in Handler, NEW d \in Task, d.op \notin {"mark", "recreate"},
               handlers' = [handlers EXCEPT ![h] = d]
        PROVE  SharingInv'
    <3>1. HandlersOK' /\ GrantsOK' /\ RowsOK' /\ ClaimedWasGranted'
      BY <2>1 DEF HandlersOK, Task, OnRow, GrantsOK, Of, RowsOK, ClaimedWasGranted
    <3>2. \A g \in Handler : handlers'[g].op = "recreate" => handlers'[g] = handlers[g]
      BY <2>1 DEF HandlersOK
    <3>3. OneSuccessor' /\ ResendsAreAlone'
      BY <2>1, <3>2, <1>b
    <3>. QED  BY <3>1, <3>3
  <2>2. ASSUME UNCHANGED <<known, invites, granted, handlers>> PROVE SharingInv'
    <3>1. HandlersOK' /\ GrantsOK' /\ RowsOK' /\ ClaimedWasGranted'
      BY <2>2 DEF HandlersOK, Task, OnRow, GrantsOK, Of, RowsOK, ClaimedWasGranted
    <3>2. OneSuccessor' /\ ResendsAreAlone'
      BY <2>2, <1>b
    <3>. QED  BY <3>1, <3>2
  <2>3. ASSUME NEW T \in SUBSET DOMAIN invites, NEW T2 \in SUBSET T,
               Grant(T), Mark(T2, "claimed"), UNCHANGED known,
               \/ UNCHANGED handlers
               \/ \E h \in Handler : handlers' = [handlers EXCEPT ![h] = [op |-> "done"]]
        PROVE  SharingInv'
    <3>1. /\ RowsOK' /\ DOMAIN invites' = DOMAIN invites
          /\ \A u \in DOMAIN invites :
                invites'[u] = [who |-> invites[u].who, origin |-> invites[u].origin,
                               status |-> IF u \in T2 THEN "claimed" ELSE invites[u].status]
      BY <2>3, <1>a DEF InviteStatus
    <3>2. HandlersOK' /\ GrantsOK' /\ ClaimedWasGranted'
      BY <2>3, <3>1 DEF HandlersOK, Task, OnRow, Grant, GrantsOK, Of, ClaimedWasGranted
    <3>3. \A g \in Handler : handlers'[g].op = "recreate" => handlers'[g] = handlers[g]
      BY <2>3 DEF HandlersOK
    <3>4. OneSuccessor' /\ ResendsAreAlone'
      BY <3>1, <3>3, <1>b DEF Unused
    <3>. QED  BY <3>1, <3>2, <3>4
  <2>4. \A T : Pending(T) \subseteq DOMAIN invites
    BY DEF Pending
  <2>5. CASE CallMe
    <3>1. PICK w \in Person, h \in Handler :
             handlers' = [handlers EXCEPT ![h] = Me(w, "app")]
      BY <2>5 DEF CallMe, Start, Of, Continue
    <3>. QED  BY <2>1, <2>5, <3>1 DEF CallMe, Me, Task, GrantsOK
  <2>6. CASE OpenInvitePage
    <3>1. PICK w \in Person, h \in Handler :
             handlers' = [handlers EXCEPT ![h] = Me(w, "page")]
      BY <2>6 DEF OpenInvitePage, Start, Of, Continue
    <3>. QED  BY <2>1, <2>6, <3>1 DEF OpenInvitePage, Me, Task, GrantsOK
  <2>7. CASE UpsertUser
    <3>1. PICK h \in Of("user") :
             /\ known' = known \cup {handlers[h].who}
             /\ handlers' = [handlers EXCEPT ![h] =
                   [op |-> "claim", who |-> handlers[h].who, where |-> handlers[h].where,
                    pending |-> Pending(handlers[h].who)]]
             /\ UNCHANGED <<invites, granted>>
      BY <2>7 DEF UpsertUser, Continue
    <3>2. handlers[h] \in [op : {"user"}, who : Person, where : {"app", "page"}]
      BY DEF HandlersOK, Task, OnRow, Of
    <3>3. [op |-> "claim", who |-> handlers[h].who, where |-> handlers[h].where,
           pending |-> Pending(handlers[h].who)] \in Task
      BY <2>4, <3>2 DEF Task
    <3>4. known' \subseteq Person /\ h \in Handler
      BY <3>1, <3>2 DEF GrantsOK, Of
    <3>. QED  BY <2>1, <3>1, <3>3, <3>4
  <2>8. CASE ClaimPendingInvites
    <3>1. PICK h \in Of("claim") :
             /\ Finish(h)
             /\ IF Cardinality(handlers[h].pending) > 1 THEN UNCHANGED <<invites, granted>>
                ELSE /\ Grant(handlers[h].pending)
                     /\ Mark(handlers[h].pending \cap Pending(handlers[h].who), "claimed")
             /\ UNCHANGED known
      BY <2>8 DEF ClaimPendingInvites
    <3>2. handlers[h].pending \in SUBSET DOMAIN invites /\ h \in Handler
      BY DEF HandlersOK, Task, OnRow, Of
    <3>3. handlers' = [handlers EXCEPT ![h] = [op |-> "done"]]
      BY <3>1 DEF Finish, Continue, Done
    <3>4. [op |-> "done"] \in Task
      BY DEF Task
    <3>5. CASE UNCHANGED <<invites, granted>>
      BY <2>1, <3>1, <3>2, <3>3, <3>4, <3>5 DEF GrantsOK
    <3>6. CASE ~ UNCHANGED <<invites, granted>>
      <4>. DEFINE T  == handlers[h].pending
                  T2 == handlers[h].pending \cap Pending(handlers[h].who)
      <4>1. Grant(T) /\ Mark(T2, "claimed") /\ UNCHANGED known
        BY <3>1, <3>6
      <4>. QED  BY <2>3, <3>2, <3>3, <4>1
    <3>. QED  BY <3>5, <3>6
  <2>9. CASE ClaimInvite
    <3>. DEFINE T == {invited.token}
    <3>1. CASE invited.token \in Pending(invited.who)
      BY <2>3, <2>4, <2>9, <3>1 DEF ClaimInvite
    <3>2. CASE invited.token \notin Pending(invited.who)
      BY <2>2, <2>9, <3>2 DEF ClaimInvite
    <3>. QED  BY <3>1, <3>2
  <2>10. CASE LeaveInvitePage
    BY <2>2, <2>10 DEF LeaveInvitePage
  <2>11. CASE HandlerFails
    <3>1. PICK h \in Handler : handlers' = [handlers EXCEPT ![h] = [op |-> "done"]]
      BY <2>11 DEF HandlerFails, Finish, Continue, Done
    <3>2. [op |-> "done"] \in Task
      BY DEF Task
    <3>. QED  BY <2>1, <2>11, <3>1, <3>2 DEF HandlerFails, GrantsOK
  <2>. QED  BY <2>5, <2>6, <2>7, <2>8, <2>9, <2>10, <2>11 DEF PersonStep
<1>4. ASSUME SharingInv, UNCHANGED sharingVars PROVE SharingInv'
  <2>1. OneSuccessor' /\ ResendsAreAlone'
    BY <1>4, <1>b DEF sharingVars, SharingInv
  <2>. QED
    BY <1>4, <2>1 DEF sharingVars, SharingInv, RowsOK, HandlersOK, Task, OnRow, GrantsOK,
                      Of, ClaimedWasGranted
<1>5. SharingInv /\ [SharingNext]_sharingVars => SharingInv'
  BY <1>2, <1>3, <1>4 DEF SharingNext
<1>. QED  BY <1>1, <1>5, PTL DEF SharingSpec

\* invites.go revokes before it creates: however many tabs, owners and people
\* resend, revoke, claim and sign in at once, and wherever a request dies, an
\* invite has one open successor at most.
THEOREM InvitesHaveOneSuccessor == SharingSpec => []OneSuccessor
BY SharingInvariant, PTL DEF SharingInv

\* Each path that uses an invite up gives the role first or in the same
\* statement, so no invite is ever used up for nothing.
THEOREM ClaimedInvitesGaveTheirRole == SharingSpec => []ClaimedWasGranted
BY SharingInvariant, PTL DEF SharingInv

-----------------------------------------------------------------------------
(***************************************************************************)
(* Updates between nodes.                                                  *)
(***************************************************************************)
Working == [stage : {"appending", "persisted"}, upd : Nat, from : Peer, base : Nat]

Place == [phase : {"away", "joined", "serving", "handlerDetaches", "pumpDetaches", "left"},
          session : Nat]

RelayTypes ==
    /\ log \in Seq([upd : Nat, node : Node])
    /\ current \in [Node -> Nat] /\ used \in [Node -> 0..MaxSessions]
    /\ at \in [Peer -> Place]
    /\ buffer \in [Peer -> SUBSET Nat]
    /\ work \in [Sess -> {NoWork} \cup Working]
    /\ wire \subseteq [upd : Nat, from : Node, to : Node]
    /\ received \in [Node -> Seq(Nat)]
    /\ held \in [Node -> {NoFrame} \cup [session : Nat \ {0}, upd : Nat]]
    /\ produced \in Nat
    /\ lost \in [Node -> SUBSET Nat]
    /\ missed \in [Peer -> SUBSET Nat]

\* The registry of a node holds its one open session, unless a session of it
\* was detached twice; who is in a session, or leaves it, has joined it, and
\* nobody is in a closed one.
EntryIsOpen ==
    \A n \in Node : /\ current[n] <= used[n]
                    /\ current[n] # 0 => <<n, current[n]>> \notin closed
OpenIsEntry ==
    \A n \in Node, k \in Nat :
        k # 0 /\ k <= used[n] /\ <<n, k>> \notin closed => current[n] = k \/ n \in twice
ClosedWereUsed == \A n \in Node, k \in Nat : <<n, k>> \in closed => k <= used[n]
MembersAreIn ==
    \A c \in Peer :
        /\ at[c].phase \in {"joined", "serving", "handlerDetaches", "pumpDetaches"} =>
              at[c].session # 0 /\ at[c].session <= used[NodeOf[c]]
        /\ at[c].phase \in {"joined", "serving"} => SessionOf(c) \notin closed
Registry == EntryIsOpen /\ OpenIsEntry /\ ClosedWereUsed /\ MembersAreIn

\* Something that still bears the update says that it was sent on node n.
SentOn(u, n) ==
    \/ \E i \in DOMAIN log : log[i].upd = u /\ log[i].node = n
    \/ \E s \in Sess : work[s] # NoWork /\ work[s].upd = u /\ s[1] = n
    \/ \E m \in wire : m.upd = u /\ m.from = n
OriginsAgree == \A u, n, k : SentOn(u, n) /\ SentOn(u, k) => n = k
OriginsAreSent == \A u, n : SentOn(u, n) => u <= produced

\* What RelayReachesAll promises a connection for one update.
Relayed(c, u) ==
    \/ u \in buffer[c] \/ u \in lost[NodeOf[c]]
    \/ u \in missed[c] /\ NodeOf[c] \in twice
    \/ \E s \in Sess : work[s].stage = "persisted" /\ work[s].upd = u
    \/ \E m \in wire : m.upd = u /\ m.to = NodeOf[c]
    \/ \E j \in DOMAIN received[NodeOf[c]] : received[NodeOf[c]][j] = u
    \/ held[NodeOf[c]].session = at[c].session /\ held[NodeOf[c]].upd = u
AllAreRelayed ==
    \A c \in Peer, i \in DOMAIN log :
        at[c].phase = "serving" /\ log[i].node # NodeOf[c] => Relayed(c, log[i].upd)

RelayInv ==
    /\ RelayTypes /\ Registry
    /\ OriginsAgree /\ OriginsAreSent /\ AllAreRelayed

\* An update stored by a loop of one node is, for every connection served on
\* another, in its buffer or still under way to it, however connections come
\* and go, messages overtake one another and nodes restart between any two
\* steps; or its publication was lost or, after a commit the loop did not see,
\* never made; or it was looked up while the connection was in a session that
\* a second detach had taken out of its node's registry.
THEOREM RelayKeepsItsPromise == RelaySpec => []RelayReachesAll
<1>1. ASSUME RelayInit PROVE RelayInv
  <2>1. RelayTypes /\ log = <<>> /\ wire = {} /\ \A s \in Sess : work[s] = NoWork
    BY <1>1 DEF RelayInit, RelayIdle, RelayTypes, Place
  <2>2. Registry
    BY <1>1 DEF RelayInit, RelayIdle, Registry, EntryIsOpen, OpenIsEntry, ClosedWereUsed,
                MembersAreIn
  <2>3. OriginsAgree /\ OriginsAreSent /\ AllAreRelayed
    BY <2>1 DEF OriginsAgree, OriginsAreSent, SentOn, AllAreRelayed
  <2>. QED  BY <2>1, <2>2, <2>3 DEF RelayInv
<1>2. ASSUME RelayInv, [RelayNext]_relayVars PROVE RelayInv'
  <2>. USE <1>2
  <2>. USE DEF RelayInv
  <2>0. /\ RelayTypes /\ Registry /\ OriginsAgree /\ OriginsAreSent /\ AllAreRelayed
        /\ \A c \in Peer : NodeOf[c] \in Node
    OBVIOUS
  <2>a. /\ log \in Seq([upd : Nat, node : Node]) /\ Stored \subseteq Nat
        /\ \A i \in DOMAIN log : log[i].upd \in Nat /\ log[i].upd \in Stored
        /\ \A s \in Sess : work[s] # NoWork => work[s] \in Working /\ work[s].upd \in Nat
        /\ \A m \in wire : m.upd \in Nat /\ m.from \in Node /\ m.to \in Node
    <3>1. \A i \in DOMAIN log : log[i] \in [upd : Nat, node : Node]
      <4>1. log \in Seq([upd : Nat, node : Node])
        BY DEF RelayTypes
      <4>2. ASSUME NEW i \in DOMAIN log PROVE log[i] \in [upd : Nat, node : Node]
        <5>1. i \in 1..Len(log)
          BY <4>1
        <5>. QED  BY <4>1, <5>1, ElementOfSeq
      <4>. QED  BY <4>2
    <3>2. \A i \in DOMAIN log : log[i].upd \in Nat /\ log[i].upd \in Stored
      BY <3>1 DEF Stored
    <3>3. Stored \subseteq Nat
      BY <3>2 DEF Stored
    <3>4. \A s \in Sess : work[s] # NoWork => work[s] \in Working /\ work[s].upd \in Nat
      BY DEF RelayTypes, Working
    <3>. QED  BY <3>2, <3>3, <3>4 DEF RelayTypes
  <2>b. ASSUME UNCHANGED <<current, used, closed, twice, at>> PROVE Registry'
    BY <2>0, <2>b DEF Registry, EntryIsOpen, OpenIsEntry, ClosedWereUsed, MembersAreIn, SessionOf
  \* Steps that store nothing and serve nobody anew.
  <2>1. ASSUME RelayTypes', Registry', log' = log, produced' = produced,
               \A u, n : SentOn(u, n)' => SentOn(u, n),
               \A c \in Peer : at'[c].phase = "serving" => at[c].phase = "serving",
               \A c \in Peer, i \in DOMAIN log :
                  at[c].phase = "serving" /\ at'[c].phase = "serving"
                      /\ log[i].node # NodeOf[c] /\ Relayed(c, log[i].upd)
                      => Relayed(c, log[i].upd)'
        PROVE  RelayInv'
    <3>1. OriginsAgree' /\ OriginsAreSent'
      BY <2>1 DEF OriginsAgree, OriginsAreSent
    <3>2. AllAreRelayed'
      BY <2>1 DEF AllAreRelayed
    <3>. QED  BY <2>1, <3>1, <3>2
  <2>2. ASSUME NEW c \in Peer, JoinNode(c) PROVE RelayInv'
    <3>. DEFINE n == NodeOf[c]
                s == IF current[n] = 0 THEN used[n] + 1 ELSE current[n]
    <3>1. /\ at[c].phase = "away" /\ s \in 1..MaxSessions
          /\ current' = [current EXCEPT ![n] = s]
          /\ used' = [used EXCEPT ![n] = IF used[n] < s THEN s ELSE used[n]]
          /\ at' = [at EXCEPT ![c] = [phase |-> "joined", session |-> s]]
          /\ UNCHANGED <<log, closed, twice, buffer, work, brokerVars, countVars>>
      BY <2>2 DEF JoinNode, RelayTypes
    <3>a. at'[c] = [phase |-> "joined", session |-> s] /\ \A d \in Peer : d # c => at'[d] = at[d]
      BY <3>1 DEF RelayTypes
    <3>b. /\ current'[n] = s /\ \A k \in Node : k # n => current'[k] = current[k]
          /\ used'[n] = (IF used[n] < s THEN s ELSE used[n])
          /\ \A k \in Node : k # n => used'[k] = used[k]
          /\ n \in Node /\ used \in [Node -> 0..MaxSessions] /\ current \in [Node -> Nat]
      BY <3>1 DEF RelayTypes
    <3>2. RelayTypes'
      <4>1. [phase |-> "joined", session |-> s] \in Place
        BY <3>1 DEF Place
      <4>2. at' \in [Peer -> Place]
        BY <3>1, <4>1 DEF RelayTypes
      <4>3. current' \in [Node -> Nat] /\ used' \in [Node -> 0..MaxSessions]
        BY <3>1, <3>b
      <4>. QED  BY <3>1, <4>2, <4>3 DEF RelayTypes, brokerVars, countVars
    <3>3. Registry'
      <4>. HIDE DEF s
      <4>0. s = IF current[n] = 0 THEN used[n] + 1 ELSE current[n]
        BY DEF s
      <4>1. /\ <<n, s>> \notin closed
            /\ used[n] <= used'[n] /\ s <= used'[n]
            /\ \A k \in Nat : k <= used'[n] => k <= used[n] \/ k = s
        BY <2>0, <3>1, <3>b, <4>0 DEF Registry, EntryIsOpen, ClosedWereUsed
      <4>2. EntryIsOpen'
        BY <2>0, <3>1, <3>b, <4>1 DEF Registry, EntryIsOpen
      <4>3. OpenIsEntry'
        <5>1. ASSUME NEW m \in Node, NEW k \in Nat, k # 0, k <= used'[m], <<m, k>> \notin closed
              PROVE  current'[m] = k \/ m \in twice
          <6>1. CASE m # n
            BY <2>0, <3>b, <5>1, <6>1 DEF Registry, OpenIsEntry
          <6>2. CASE m = n /\ k # s
            <7>1. current[n] = k \/ n \in twice
              BY <2>0, <4>1, <5>1, <6>2 DEF Registry, OpenIsEntry
            <7>. QED  BY <4>0, <5>1, <6>2, <7>1
          <6>. QED  BY <3>b, <6>1, <6>2
        <5>. QED  BY <3>1, <5>1 DEF OpenIsEntry
      <4>4. ClosedWereUsed'
        <5>1. ASSUME NEW m \in Node, NEW k \in Nat, <<m, k>> \in closed PROVE k <= used'[m]
          <6>1. k <= used[m]
            BY <2>0, <5>1 DEF Registry, ClosedWereUsed
          <6>2. used[m] <= used'[m] /\ used[m] \in Nat /\ used'[m] \in Nat
            <7>1. used'[m] \in 0..MaxSessions /\ used[m] \in 0..MaxSessions
              BY <3>b, <3>2 DEF RelayTypes
            <7>2. m = n \/ used'[m] = used[m]
              BY <3>b
            <7>. QED  BY <4>1, <7>1, <7>2
          <6>. QED  BY <6>1, <6>2
        <5>. QED  BY <3>1, <5>1 DEF ClosedWereUsed
      <4>5. MembersAreIn'
        <5>1. ASSUME NEW d \in Peer, d # c
              PROVE  /\ at'[d].phase \in {"joined", "serving", "handlerDetaches", "pumpDetaches"} =>
                           at'[d].session # 0 /\ at'[d].session <= used'[NodeOf[d]]
                     /\ at'[d].phase \in {"joined", "serving"} => SessionOf(d)' \notin closed'
          <6>1. at'[d] = at[d] /\ closed' = closed /\ used[NodeOf[d]] <= used'[NodeOf[d]]
            BY <3>1, <3>a, <3>b, <4>1, <5>1
          <6>2. at[d].session \in Nat /\ used[NodeOf[d]] \in Nat /\ used'[NodeOf[d]] \in Nat
            BY <3>b, <3>2 DEF RelayTypes, Place
          <6>. QED  BY <2>0, <6>1, <6>2 DEF Registry, MembersAreIn, SessionOf
        <5>2. at'[c].session # 0 /\ at'[c].session <= used'[n] /\ SessionOf(c)' \notin closed'
          BY <3>1, <3>a, <4>1 DEF SessionOf
        <5>. QED  BY <5>1, <5>2 DEF MembersAreIn
      <4>. QED  BY <4>2, <4>3, <4>4, <4>5 DEF Registry
    <3>4. \A d \in Peer : d # c => at'[d] = at[d]
      BY <3>1 DEF RelayTypes
    <3>5. at'[c].phase = "joined"
      BY <3>1 DEF RelayTypes
    <3>6. \A d \in Peer : \A u : d # c /\ Relayed(d, u) => Relayed(d, u)'
      BY <3>1, <3>4 DEF Relayed, brokerVars, countVars
    <3>7. \A u, k : SentOn(u, k)' => SentOn(u, k)
      BY <3>1 DEF SentOn, brokerVars
    <3>. QED  BY <2>1, <3>1, <3>2, <3>3, <3>4, <3>5, <3>6, <3>7 DEF countVars
  \* The replay holds everything stored.
  <2>3. ASSUME NEW c \in Peer, LoadAndReplay(c) PROVE RelayInv'
    <3>1. /\ at[c].phase = "joined"
          /\ at' = [at EXCEPT ![c] = [at[c] EXCEPT !.phase = "serving"]]
          /\ buffer' = [buffer EXCEPT ![c] = buffer[c] \cup Stored]
          /\ UNCHANGED <<log, registryVars, work, brokerVars, countVars>>
      BY <2>3 DEF LoadAndReplay
    <3>3. RelayTypes'
      <4>1. /\ at \in [Peer -> Place]
            /\ buffer \in [Peer -> SUBSET Nat]
        BY DEF RelayTypes
      <4>2. [at[c] EXCEPT !.phase = "serving"] \in Place
        BY <4>1 DEF Place
      <4>3. at' \in [Peer -> Place]
        BY <3>1, <4>1, <4>2
      <4>4. buffer' \in [Peer -> SUBSET Nat]
        BY <2>a, <3>1, <4>1
      <4>. QED  BY <3>1, <4>3, <4>4 DEF RelayTypes, registryVars, brokerVars, countVars
    <3>4. /\ \A d \in Peer : at'[d].session = at[d].session
          /\ \A d \in Peer : d # c => at'[d] = at[d] /\ buffer'[d] = buffer[d]
          /\ at'[c].phase = "serving" /\ buffer'[c] = buffer[c] \cup Stored
      BY <3>1 DEF RelayTypes, Place
    <3>5. Registry'
      <4>1. MembersAreIn'
        BY <2>0, <3>1, <3>4 DEF Registry, MembersAreIn, SessionOf, registryVars
      <4>. QED  BY <2>0, <3>1, <4>1 DEF Registry, EntryIsOpen, OpenIsEntry, ClosedWereUsed,
                                         registryVars
    <3>6. \A u, k : SentOn(u, k)' => SentOn(u, k)
      BY <3>1 DEF SentOn, brokerVars
    <3>7. OriginsAgree' /\ OriginsAreSent'
      BY <3>1, <3>6 DEF OriginsAgree, OriginsAreSent, countVars
    <3>8. \A i \in DOMAIN log : Relayed(c, log[i].upd)'
      BY <2>a, <3>1, <3>4 DEF Relayed
    <3>9. \A d \in Peer : \A u : d # c /\ Relayed(d, u) => Relayed(d, u)'
      BY <3>1, <3>4 DEF Relayed, registryVars, brokerVars, countVars
    <3>10. AllAreRelayed'
      BY <3>1, <3>4, <3>8, <3>9 DEF AllAreRelayed
    <3>. QED  BY <3>3, <3>5, <3>7, <3>10
  \* Who leaves holds on to his session until he has detached.
  <2>4. ASSUME NEW c \in Peer, UnregisterFrom(c) PROVE RelayInv'
    <3>1. PICK p \in {"left", "handlerDetaches", "pumpDetaches"} :
              at' = [at EXCEPT ![c] = [at[c] EXCEPT !.phase = p]]
      BY <2>4 DEF UnregisterFrom
    <3>a. /\ at[c].phase \in {"joined", "serving"}
          /\ UNCHANGED <<log, registryVars, buffer, work, brokerVars, countVars>>
      BY <2>4 DEF UnregisterFrom
    <3>2. at' \in [Peer -> Place] /\ at'[c].session = at[c].session
          /\ \A d \in Peer : d # c => at'[d] = at[d]
      <4>1. at \in [Peer -> Place] /\ at' = [at EXCEPT ![c] = [at[c] EXCEPT !.phase = p]]
        BY <3>1 DEF RelayTypes
      <4>2. /\ [at[c] EXCEPT !.phase = p] \in Place
            /\ [at[c] EXCEPT !.phase = p].session = at[c].session
        BY <4>1 DEF Place
      <4>. QED  BY <4>1, <4>2
    <3>3. RelayTypes'
      BY <3>a, <3>2 DEF RelayTypes, registryVars, brokerVars, countVars
    <3>b. at'[c].phase = p
      BY <3>1 DEF RelayTypes, Place
    <3>4. Registry'
      <4>1. MembersAreIn'
        BY <2>0, <3>a, <3>2, <3>b DEF Registry, MembersAreIn, SessionOf, registryVars
      <4>. QED  BY <2>0, <3>a, <4>1 DEF Registry, EntryIsOpen, OpenIsEntry, ClosedWereUsed,
                                         registryVars
    <3>6. \A u, k : SentOn(u, k)' => SentOn(u, k)
      BY <3>a DEF SentOn, brokerVars
    <3>7. \A d \in Peer : \A u : d # c /\ Relayed(d, u) => Relayed(d, u)'
      BY <3>a, <3>2 DEF Relayed, registryVars, brokerVars, countVars
    <3>. QED  BY <2>1, <3>a, <3>2, <3>3, <3>4, <3>b, <3>6, <3>7 DEF countVars
  \* A session closed once is the one the registry has, unless another was
  \* detached again before; who joined it meanwhile keeps it open.
  <2>14. ASSUME NEW c \in Peer, Detach(c) PROVE RelayInv'
    <3>. DEFINE s == SessionOf(c)
                n == NodeOf[c]
    <3>1. /\ at[c].phase \in {"handlerDetaches", "pumpDetaches"}
          /\ InSession(s) # {} \/ s \notin closed
          /\ \/ InSession(s) # {} /\ UNCHANGED <<current, closed>>
             \/ InSession(s) = {} /\ current' = [current EXCEPT ![n] = 0]
                                   /\ closed' = closed \cup {s}
          /\ at' = [at EXCEPT ![c] = [at[c] EXCEPT !.phase = "left"]]
          /\ UNCHANGED <<log, used, twice, buffer, work, brokerVars, countVars>>
      BY <2>14 DEF Detach, Detaching
    <3>2. at' \in [Peer -> Place] /\ at'[c].session = at[c].session
          /\ \A d \in Peer : d # c => at'[d] = at[d]
      <4>1. at \in [Peer -> Place] /\ at' = [at EXCEPT ![c] = [at[c] EXCEPT !.phase = "left"]]
        BY <3>1 DEF RelayTypes
      <4>2. /\ [at[c] EXCEPT !.phase = "left"] \in Place
            /\ [at[c] EXCEPT !.phase = "left"].session = at[c].session
        BY <4>1 DEF Place
      <4>. QED  BY <4>1, <4>2
    <3>b. at'[c].phase = "left"
      BY <3>1 DEF RelayTypes, Place
    <3>3. RelayTypes'
      <4>1. current \in [Node -> Nat] /\ n \in Node
        BY DEF RelayTypes
      <4>2. current' \in [Node -> Nat]
        BY <3>1, <4>1
      <4>. QED  BY <3>1, <3>2, <4>2 DEF RelayTypes, brokerVars, countVars
    <3>4. Registry'
      <4>1. CASE InSession(s) # {} /\ UNCHANGED <<current, closed>>
        <5>1. MembersAreIn'
          BY <2>0, <3>1, <3>2, <3>b, <4>1 DEF Registry, MembersAreIn, SessionOf
        <5>. QED  BY <2>0, <3>1, <4>1, <5>1 DEF Registry, EntryIsOpen, OpenIsEntry, ClosedWereUsed
      <4>2. CASE InSession(s) = {} /\ current' = [current EXCEPT ![n] = 0] /\ closed' = closed \cup {s}
        <5>1. /\ s = <<n, at[c].session>> /\ s \notin closed
              /\ at[c].session \in Nat \ {0} /\ at[c].session <= used[n]
          BY <2>0, <3>1, <4>2 DEF SessionOf, Registry, MembersAreIn, RelayTypes, Place
        <5>2. current[n] = at[c].session \/ n \in twice
          BY <2>0, <5>1 DEF Registry, OpenIsEntry
        <5>3. current'[n] = 0 /\ \A m \in Node : m # n => current'[m] = current[m]
          BY <4>2 DEF RelayTypes
        <5>4. EntryIsOpen'
          BY <2>0, <3>1, <4>2, <5>1, <5>3 DEF Registry, EntryIsOpen, RelayTypes
        <5>5. OpenIsEntry'
          <6>1. ASSUME NEW m \in Node, NEW k \in Nat, k # 0, k <= used[m], <<m, k>> \notin closed'
                PROVE  current'[m] = k \/ m \in twice
            <7>1. <<m, k>> \notin closed /\ <<m, k>> # s
              BY <4>2, <6>1
            <7>2. current[m] = k \/ m \in twice
              BY <2>0, <6>1, <7>1 DEF Registry, OpenIsEntry
            <7>. QED  BY <5>1, <5>2, <5>3, <7>1, <7>2
          <6>. QED  BY <3>1, <6>1 DEF OpenIsEntry
        <5>6. ClosedWereUsed'
          BY <2>0, <3>1, <4>2, <5>1 DEF Registry, ClosedWereUsed
        <5>7. MembersAreIn'
          <6>1. ASSUME NEW d \in Peer, at'[d].phase \in {"joined", "serving"}
                PROVE  SessionOf(d)' \notin closed'
            <7>1. d # c /\ at'[d] = at[d]
              BY <3>2, <3>b, <6>1
            <7>2. SessionOf(d)' = SessionOf(d) /\ SessionOf(d) \notin closed
              BY <2>0, <6>1, <7>1 DEF SessionOf, Registry, MembersAreIn
            <7>3. d \notin InSession(s)
              BY <4>2
            <7>4. SessionOf(d) # s
              BY <6>1, <7>1, <7>3 DEF InSession
            <7>. QED  BY <4>2, <7>2, <7>4
          <6>2. \A d \in Peer : at'[d].phase \in {"joined", "serving", "handlerDetaches", "pumpDetaches"} =>
                    at'[d].session # 0 /\ at'[d].session <= used'[NodeOf[d]]
            BY <2>0, <3>1, <3>2, <3>b DEF Registry, MembersAreIn
          <6>. QED  BY <6>1, <6>2 DEF MembersAreIn
        <5>. QED  BY <5>4, <5>5, <5>6, <5>7 DEF Registry
      <4>. QED  BY <3>1, <4>1, <4>2
    <3>6. \A u, k : SentOn(u, k)' => SentOn(u, k)
      BY <3>1 DEF SentOn, brokerVars
    <3>7. \A d \in Peer : \A u : d # c /\ Relayed(d, u) => Relayed(d, u)'
      BY <3>1, <3>2 DEF Relayed, brokerVars, countVars
    <3>. QED  BY <2>1, <3>1, <3>2, <3>3, <3>4, <3>b, <3>6, <3>7 DEF countVars
  \* From a second detach on, the node counts as one with sessions that its
  \* registry has lost.
  <2>15. ASSUME NEW c \in Peer, DetachAgain(c) PROVE RelayInv'
    <3>. DEFINE n == NodeOf[c]
    <3>1. /\ at[c].phase = "handlerDetaches"
          /\ current' = [current EXCEPT ![n] = 0] /\ twice' = twice \cup {n}
          /\ at' = [at EXCEPT ![c] = [at[c] EXCEPT !.phase = "left"]]
          /\ UNCHANGED <<log, used, closed, buffer, work, brokerVars, countVars>>
      BY <2>15 DEF DetachAgain
    <3>2. at' \in [Peer -> Place] /\ at'[c].session = at[c].session
          /\ \A d \in Peer : d # c => at'[d] = at[d]
      <4>1. at \in [Peer -> Place] /\ at' = [at EXCEPT ![c] = [at[c] EXCEPT !.phase = "left"]]
        BY <3>1 DEF RelayTypes
      <4>2. /\ [at[c] EXCEPT !.phase = "left"] \in Place
            /\ [at[c] EXCEPT !.phase = "left"].session = at[c].session
        BY <4>1 DEF Place
      <4>. QED  BY <4>1, <4>2
    <3>b. at'[c].phase = "left"
      BY <3>1 DEF RelayTypes, Place
    <3>c. current'[n] = 0 /\ \A m \in Node : m # n => current'[m] = current[m]
      BY <3>1 DEF RelayTypes
    <3>3. RelayTypes'
      <4>1. current' \in [Node -> Nat]
        BY <3>1 DEF RelayTypes
      <4>. QED  BY <3>1, <3>2, <4>1 DEF RelayTypes, brokerVars, countVars
    <3>4. Registry'
      <4>1. EntryIsOpen' /\ ClosedWereUsed'
        BY <2>0, <3>1, <3>c DEF Registry, EntryIsOpen, ClosedWereUsed, RelayTypes
      <4>2. OpenIsEntry'
        BY <2>0, <3>1, <3>c DEF Registry, OpenIsEntry
      <4>3. MembersAreIn'
        BY <2>0, <3>1, <3>2, <3>b DEF Registry, MembersAreIn, SessionOf
      <4>. QED  BY <4>1, <4>2, <4>3 DEF Registry
    <3>6. \A u, k : SentOn(u, k)' => SentOn(u, k)
      BY <3>1 DEF SentOn, brokerVars
    <3>7. \A d \in Peer : \A u : d # c /\ Relayed(d, u) => Relayed(d, u)'
      BY <3>1, <3>2 DEF Relayed, brokerVars, countVars
    <3>. QED  BY <2>1, <3>1, <3>2, <3>3, <3>4, <3>b, <3>6, <3>7 DEF countVars
  \* The number of a new update is new.
  <2>5. ASSUME NEW c \in Peer, TakeUpdate(c) PROVE RelayInv'
    <3>. DEFINE s == SessionOf(c)
                w == [stage |-> "appending", upd |-> produced + 1, from |-> c, base |-> Len(log)]
    <3>1. /\ work[s] = NoWork /\ produced' = produced + 1
          /\ work' = [work EXCEPT ![s] = w]
          /\ UNCHANGED <<log, registryVars, at, buffer, brokerVars, restarts, lost, missed>>
      BY <2>5 DEF TakeUpdate
    <3>2. /\ \A t \in Sess : t # s => work'[t] = work[t]
          /\ s \in Sess => work'[s] = w
      BY <3>1 DEF RelayTypes
    <3>3. RelayTypes'
      <4>1. w \in Working
        BY LenProperties DEF RelayTypes, Working
      <4>2. work' \in [Sess -> {NoWork} \cup Working]
        <5>1. work \in [Sess -> {NoWork} \cup Working]
          BY DEF RelayTypes
        <5>2. work' = [work EXCEPT ![s] = w]
          BY <3>1
        <5>. HIDE DEF w, s
        <5>3. ASSUME NEW W, NEW g \in [Sess -> W], NEW i, NEW y \in W
              PROVE  [g EXCEPT ![i] = y] \in [Sess -> W]
          OBVIOUS
        <5>. QED  BY <4>1, <5>1, <5>2, <5>3
      <4>3. produced' \in Nat
        BY <3>1 DEF RelayTypes
      <4>4. UNCHANGED <<log, current, used, at, buffer, wire, received, held, lost, missed>>
        BY <3>1 DEF registryVars, brokerVars
      <4>. QED  BY <4>2, <4>3, <4>4 DEF RelayTypes
    <3>4. \A u, n : SentOn(u, n)' => SentOn(u, n) \/ (u = produced + 1 /\ n = s[1])
      BY <3>1, <3>2 DEF SentOn, brokerVars
    <3>5. ~\E n : SentOn(produced + 1, n)
      BY DEF OriginsAreSent, RelayTypes
    <3>6. \A u, n : SentOn(u, n) => u \in Nat
      BY <2>a DEF SentOn
    <3>7. OriginsAgree'
      BY <3>4, <3>5 DEF OriginsAgree
    <3>8. OriginsAreSent'
      <4>1. \A u \in Nat : u <= produced => u <= produced + 1
        BY DEF RelayTypes
      <4>2. produced \in Nat
        BY DEF RelayTypes
      <4>. QED  BY <3>1, <3>4, <3>6, <4>1, <4>2 DEF OriginsAreSent
    <3>9. Registry'
      BY <2>b, <3>1 DEF registryVars
    <3>10. \A d \in Peer : \A u : Relayed(d, u) => Relayed(d, u)'
      <4>1. \A t \in Sess : work[t].stage = "persisted" => work'[t] = work[t]
        BY <3>1, <3>2 DEF NoWork
      <4>. QED  BY <3>1, <4>1 DEF Relayed, registryVars, brokerVars
    <3>11. AllAreRelayed'
      BY <3>1, <3>10 DEF AllAreRelayed
    <3>. QED  BY <3>3, <3>7, <3>8, <3>9, <3>11
  \* A stored update is with its loop, which has still to publish it, or is
  \* one the loop does not know to be stored.
  <2>6. ASSUME NEW s \in Sess,
               \/ AppendToLog(s) /\ UNCHANGED lost
               \/ AppendIsUnseen(s)
        PROVE RelayInv'
    <3>1. /\ work[s].stage = "appending"
          /\ log' = Append(log, [upd |-> work[s].upd, node |-> s[1]])
          /\ UNCHANGED <<registryVars, at, buffer, brokerVars, produced, missed>>
      BY <2>6 DEF AppendToLog, AppendIsUnseen, RowOf, countVars
    <3>2. work[s] # NoWork /\ work[s].upd \in Nat /\ s[1] \in Node
      BY <2>a, <3>1 DEF NoWork, Sess
    <3>3. Registry'
      BY <2>b, <3>1 DEF registryVars
    <3>4. \/ /\ work' = [work EXCEPT ![s].stage = "persisted"]
             /\ UNCHANGED lost
          \/ /\ work' = [work EXCEPT ![s] = NoWork]
             /\ lost' = [n \in Node |-> lost[n] \cup {work[s].upd}]
      BY <2>6 DEF AppendToLog, AppendIsUnseen
    <3>5. /\ \A t \in Sess : t # s => work'[t] = work[t]
          /\ work'[s] = NoWork \/ (work'[s] \in Working /\ work'[s].upd = work[s].upd)
      <4>1. CASE work' = [work EXCEPT ![s].stage = "persisted"]
        <5>1. /\ \A t \in Sess : t # s => work'[t] = work[t]
              /\ work'[s] = [work[s] EXCEPT !.stage = "persisted"]
          BY <4>1 DEF RelayTypes
        <5>. QED  BY <2>a, <3>2, <5>1 DEF Working
      <4>2. CASE work' = [work EXCEPT ![s] = NoWork]
        BY <4>2 DEF RelayTypes
      <4>. QED  BY <3>4, <4>1, <4>2
    <3>6. work' \in [Sess -> {NoWork} \cup Working]
      <4>1. work' = [t \in Sess |-> work'[t]]
        BY <3>4 DEF RelayTypes
      <4>2. \A t \in Sess : work'[t] \in {NoWork} \cup Working
        BY <3>5 DEF RelayTypes
      <4>. QED  BY <4>1, <4>2
    <3>7. /\ lost' \in [Node -> SUBSET Nat]
          /\ \A n \in Node : lost[n] \subseteq lost'[n]
      <4>1. lost \in [Node -> SUBSET Nat]
        BY DEF RelayTypes
      <4>2. lost' = lost \/ lost' = [n \in Node |-> lost[n] \cup {work[s].upd}]
        BY <3>4
      <4>3. {work[s].upd} \subseteq Nat
        BY <3>2
      <4>. QED  BY <4>1, <4>2, <4>3
    <3>. DEFINE row == [upd |-> work[s].upd, node |-> s[1]]
    <3>a. row \in [upd : Nat, node : Node] /\ row.upd = work[s].upd /\ row.node = s[1]
      BY <3>2
    <3>b. log' = Append(log, row)
      BY <3>1
    <3>. HIDE DEF row
    <3>8. RelayTypes'
      BY <3>1, <3>6, <3>7, <3>a, <3>b DEF RelayTypes, registryVars, brokerVars
    <3>9. /\ DOMAIN log' = DOMAIN log \cup {Len(log) + 1}
          /\ \A i \in DOMAIN log : log'[i] = log[i]
          /\ log'[Len(log) + 1] = row
      BY <2>a, <3>a, <3>b
    <3>10. SentOn(work[s].upd, s[1])
      BY <3>2 DEF SentOn
    <3>11. \A u, k : SentOn(u, k)' => SentOn(u, k)
      <4>1. ASSUME NEW u, NEW k, NEW i \in DOMAIN log', log'[i].upd = u, log'[i].node = k
            PROVE  SentOn(u, k)
        BY <3>9, <3>10, <3>a, <4>1 DEF SentOn
      <4>2. ASSUME NEW u, NEW k, NEW t \in Sess, work'[t] # NoWork, work'[t].upd = u, t[1] = k
            PROVE  SentOn(u, k)
        BY <3>5, <3>10, <4>2 DEF SentOn
      <4>3. UNCHANGED wire
        BY <3>1 DEF brokerVars
      <4>. QED  BY <4>1, <4>2, <4>3 DEF SentOn
    <3>12. OriginsAgree' /\ OriginsAreSent'
      BY <3>1, <3>11 DEF OriginsAgree, OriginsAreSent
    <3>c. PICK u : u = work[s].upd
      OBVIOUS
    <3>13. \A d \in Peer : Relayed(d, u)'
      <4>1. CASE work' = [work EXCEPT ![s].stage = "persisted"]
        <5>1. work'[s].stage = "persisted" /\ work'[s].upd = u
          BY <2>a, <3>2, <3>c, <4>1 DEF Working, RelayTypes
        <5>. QED  BY <5>1 DEF Relayed
      <4>2. CASE lost' = [n \in Node |-> lost[n] \cup {work[s].upd}]
        <5>1. \A d \in Peer : u \in lost'[NodeOf[d]]
          BY <2>0, <3>c, <4>2
        <5>. QED  BY <5>1 DEF Relayed
      <4>. QED  BY <3>4, <4>1, <4>2
    <3>14. \A d \in Peer : \A x : Relayed(d, x) => Relayed(d, x)'
      <4>1. \A t \in Sess : work[t].stage = "persisted" => work'[t] = work[t]
        BY <3>1, <3>5
      <4>. QED  BY <3>1, <3>7, <4>1 DEF Relayed, registryVars, brokerVars
    <3>15. AllAreRelayed'
      <4>1. ASSUME NEW d \in Peer, NEW i \in DOMAIN log', at'[d].phase = "serving",
                   log'[i].node # NodeOf[d]
            PROVE  Relayed(d, log[i].upd)'
        <5>1. CASE i \in DOMAIN log
          BY <3>1, <3>9, <3>14, <4>1, <5>1 DEF AllAreRelayed
        <5>2. CASE i = Len(log) + 1
          <6>1. log'[i].upd = u
            BY <3>9, <3>a, <3>c, <5>2
          <6>. QED  BY <3>13, <6>1
        <5>. QED  BY <3>9, <5>1, <5>2
      <4>. QED  BY <4>1 DEF AllAreRelayed
    <3>. QED  BY <3>3, <3>8, <3>12, <3>15
  <2>16. ASSUME NEW s \in Sess, AppendIsRefused(s) PROVE RelayInv'
    <3>1. /\ work[s].stage = "appending" /\ work' = [work EXCEPT ![s] = NoWork]
          /\ UNCHANGED <<log, registryVars, at, buffer, brokerVars, countVars>>
      BY <2>16 DEF AppendIsRefused
    <3>2. work'[s] = NoWork /\ \A t \in Sess : t # s => work'[t] = work[t]
      BY <3>1 DEF RelayTypes
    <3>3. RelayTypes'
      BY <3>1 DEF RelayTypes, registryVars, brokerVars, countVars
    <3>4. Registry'
      BY <2>b, <3>1 DEF registryVars
    <3>5. \A u, k : SentOn(u, k)' => SentOn(u, k)
      BY <3>1, <3>2 DEF SentOn, brokerVars
    <3>6. \A d \in Peer : \A u : Relayed(d, u) => Relayed(d, u)'
      BY <3>1, <3>2 DEF Relayed, registryVars, brokerVars, countVars
    <3>. QED  BY <2>1, <3>1, <3>3, <3>4, <3>5, <3>6 DEF countVars
  \* It is then on the wire to every node.
  <2>7. ASSUME NEW s \in Sess, BroadcastAndPublish(s) PROVE RelayInv'
    <3>0. PICK u : u = work[s].upd
      OBVIOUS
    <3>1. /\ work[s].stage = "persisted"
          /\ buffer' = [c \in Peer |-> IF c \in InSession(s) \ {work[s].from}
                                       THEN buffer[c] \cup {u} ELSE buffer[c]]
          /\ wire' = wire \cup [upd : {u}, from : {s[1]}, to : Node]
          /\ work' = [work EXCEPT ![s] = NoWork]
          /\ UNCHANGED <<log, registryVars, at, received, held, countVars>>
      BY <2>7, <3>0 DEF BroadcastAndPublish, Give
    <3>2. work[s] # NoWork /\ u \in Nat /\ s[1] \in Node
      BY <2>a, <3>0, <3>1 DEF NoWork, Sess
    <3>3. /\ \A t \in Sess : t # s => work'[t] = work[t]
          /\ work'[s] = NoWork
      BY <3>1 DEF RelayTypes
    <3>4. RelayTypes'
      <4>1. buffer' \in [Peer -> SUBSET Nat]
        BY <3>1, <3>2 DEF RelayTypes
      <4>2. wire' \subseteq [upd : Nat, from : Node, to : Node]
        BY <3>1, <3>2 DEF RelayTypes
      <4>. QED  BY <3>1, <4>1, <4>2 DEF RelayTypes, registryVars, countVars
    <3>5. Registry'
      BY <2>b, <3>1 DEF registryVars
    <3>6. SentOn(u, s[1])
      BY <3>0, <3>2 DEF SentOn
    <3>7. \A v, k : SentOn(v, k)' => SentOn(v, k)
      <4>1. ASSUME NEW v, NEW k, NEW m \in wire', m.upd = v, m.from = k PROVE SentOn(v, k)
        BY <3>1, <3>6, <4>1 DEF SentOn
      <4>2. ASSUME NEW v, NEW k, NEW t \in Sess, work'[t] # NoWork, work'[t].upd = v, t[1] = k
            PROVE  SentOn(v, k)
        BY <3>3, <4>2 DEF SentOn
      <4>. QED  BY <3>1, <4>1, <4>2 DEF SentOn
    <3>8. \A d \in Peer : \A v : Relayed(d, v) => Relayed(d, v)'
      <4>1. \A d \in Peer : buffer[d] \subseteq buffer'[d]
        BY <3>1
      <4>2. \A d \in Peer : [upd |-> u, from |-> s[1], to |-> NodeOf[d]] \in wire'
        BY <3>1
      <4>3. ASSUME NEW d \in Peer PROVE Relayed(d, u)'
        <5>. DEFINE m == [upd |-> u, from |-> s[1], to |-> NodeOf[d]]
        <5>1. m \in wire' /\ m.upd = u /\ m.to = NodeOf[d]
          BY <4>2
        <5>. HIDE DEF m
        <5>. QED  BY <5>1 DEF Relayed
      <4>4. ASSUME NEW d \in Peer, NEW v, v # u, Relayed(d, v) PROVE Relayed(d, v)'
        <5>1. \A t \in Sess : work[t].upd = v => work'[t] = work[t]
          BY <3>0, <3>3, <4>4
        <5>2. wire \subseteq wire'
          BY <3>1
        <5>. QED  BY <3>1, <4>1, <4>4, <5>1, <5>2 DEF Relayed, registryVars, countVars
      <4>. QED  BY <4>3, <4>4
    <3>. QED  BY <2>1, <3>1, <3>4, <3>5, <3>7, <3>8 DEF countVars
  <2>8. ASSUME NEW m \in wire, MessageLost(m) PROVE RelayInv'
    <3>1. /\ wire' = wire \ {m}
          /\ lost' = [lost EXCEPT ![m.to] = lost[m.to] \cup {m.upd}]
          /\ UNCHANGED <<log, registryVars, at, buffer, work, received, held, produced, restarts,
                         missed>>
      BY <2>8 DEF MessageLost
    <3>2. m.to \in Node /\ m.upd \in Nat
      BY DEF RelayTypes
    <3>3. RelayTypes'
      <4>1. lost' \in [Node -> SUBSET Nat]
        BY <3>1, <3>2 DEF RelayTypes
      <4>. QED  BY <3>1, <4>1 DEF RelayTypes, registryVars
    <3>4. Registry' /\ \A u, k : SentOn(u, k)' => SentOn(u, k)
      BY <2>b, <3>1 DEF registryVars, SentOn
    <3>5. \A d \in Peer : \A v : Relayed(d, v) => Relayed(d, v)'
      <4>1. m.upd \in lost'[m.to] /\ \A n \in Node : lost[n] \subseteq lost'[n]
        BY <3>1, <3>2 DEF RelayTypes
      <4>. QED  BY <3>1, <4>1 DEF Relayed, registryVars
    <3>. QED  BY <2>1, <3>1, <3>3, <3>4, <3>5
  \* A node skips only its own messages, and those who are on it did not get
  \* their updates from another.
  <2>9. ASSUME NEW m \in wire, ReceiveMessage(m) PROVE RelayInv'
    <3>1. /\ wire' = wire \ {m}
          /\ UNCHANGED <<log, registryVars, at, buffer, work, held, produced, restarts, missed>>
      BY <2>9 DEF ReceiveMessage
    <3>2. m.to \in Node /\ m.upd \in Nat /\ SentOn(m.upd, m.from)
      BY DEF RelayTypes, SentOn
    <3>3. Registry' /\ \A u, k : SentOn(u, k)' => SentOn(u, k)
      BY <2>b, <3>1 DEF registryVars, SentOn
    <3>4. CASE m.from = m.to /\ UNCHANGED <<received, lost>>
      <4>1. RelayTypes'
        BY <3>1, <3>4 DEF RelayTypes, registryVars
      <4>2. ASSUME NEW c \in Peer, NEW i \in DOMAIN log, log[i].node # NodeOf[c],
                   Relayed(c, log[i].upd)
            PROVE  Relayed(c, log[i].upd)'
        <5>1. ~(m.upd = log[i].upd /\ m.to = NodeOf[c])
          <6>1. SentOn(log[i].upd, log[i].node)
            BY DEF SentOn
          <6>. QED  BY <3>2, <3>4, <4>2, <6>1 DEF OriginsAgree
        <5>. QED  BY <3>1, <3>4, <4>2, <5>1 DEF Relayed, registryVars
      <4>. QED  BY <2>1, <3>1, <3>3, <4>1, <4>2
    <3>5. CASE received' = [received EXCEPT ![m.to] = Append(received[m.to], m.upd)] /\ UNCHANGED lost
      <4>1. RelayTypes'
        <5>1. received' \in [Node -> Seq(Nat)]
          BY <3>2, <3>5 DEF RelayTypes
        <5>. QED  BY <3>1, <3>5, <5>1 DEF RelayTypes, registryVars
      <4>2. \E j \in DOMAIN received'[m.to] : received'[m.to][j] = m.upd
        <5>1. received'[m.to] = Append(received[m.to], m.upd) /\ received[m.to] \in Seq(Nat)
          BY <3>2, <3>5 DEF RelayTypes
        <5>2. Len(received[m.to]) + 1 \in DOMAIN received'[m.to]
              /\ received'[m.to][Len(received[m.to]) + 1] = m.upd
          BY <3>2, <5>1
        <5>. QED  BY <5>2
      <4>3. \A n \in Node : \A j \in DOMAIN received[n] :
               j \in DOMAIN received'[n] /\ received'[n][j] = received[n][j]
        <5>1. received \in [Node -> Seq(Nat)]
          BY DEF RelayTypes
        <5>2. ASSUME NEW q \in Seq(Nat), NEW v \in Nat, NEW j \in DOMAIN q
              PROVE  j \in DOMAIN Append(q, v) /\ Append(q, v)[j] = q[j]
          OBVIOUS
        <5>3. ASSUME NEW n \in Node, NEW j \in DOMAIN received[n]
              PROVE  j \in DOMAIN received'[n] /\ received'[n][j] = received[n][j]
          <6>1. received'[n] = received[n] \/ received'[n] = Append(received[n], m.upd)
            BY <3>5, <5>1
          <6>2. received[n] \in Seq(Nat) /\ m.upd \in Nat
            BY <3>2, <5>1
          <6>. QED  BY <5>2, <6>1, <6>2
        <5>. QED  BY <5>3
      <4>4. \A d \in Peer : \A v : Relayed(d, v) => Relayed(d, v)'
        BY <3>1, <3>5, <4>2, <4>3 DEF Relayed, registryVars
      <4>. QED  BY <2>1, <3>1, <3>3, <4>1, <4>4
    <3>6. CASE lost' = [lost EXCEPT ![m.to] = lost[m.to] \cup {m.upd}] /\ UNCHANGED received
      <4>1. RelayTypes'
        <5>1. lost' \in [Node -> SUBSET Nat]
          BY <3>2, <3>6 DEF RelayTypes
        <5>. QED  BY <3>1, <3>6, <5>1 DEF RelayTypes, registryVars
      <4>2. m.upd \in lost'[m.to] /\ \A n \in Node : lost[n] \subseteq lost'[n]
        BY <3>2, <3>6 DEF RelayTypes
      <4>3. \A d \in Peer : \A v : Relayed(d, v) => Relayed(d, v)'
        BY <3>1, <3>6, <4>2 DEF Relayed, registryVars
      <4>. QED  BY <2>1, <3>1, <3>3, <4>1, <4>3
    <3>. QED  BY <2>9, <3>4, <3>5, <3>6 DEF ReceiveMessage
  \* A frame is not kept for those who are served in a session that the
  \* registry does not have: it was detached twice.
  <2>10. ASSUME NEW n \in Node, LookUpSession(n) PROVE RelayInv'
    <3>0. PICK u : u = Head(received[n])
      OBVIOUS
    <3>. DEFINE h == [session |-> current[n], upd |-> u]
    <3>1. /\ held[n] = NoFrame /\ received[n] # <<>>
          /\ received' = [received EXCEPT ![n] = Tail(received[n])]
          /\ held' = IF current[n] = 0 THEN held ELSE [held EXCEPT ![n] = h]
          /\ missed' = [c \in Peer |-> IF c \in Orphans(n) THEN missed[c] \cup {u} ELSE missed[c]]
          /\ UNCHANGED <<log, registryVars, at, buffer, work, wire, produced, lost>>
      BY <2>10, <3>0 DEF LookUpSession
    <3>2. received[n] \in Seq(Nat) /\ u \in Nat /\ Tail(received[n]) \in Seq(Nat)
      BY <3>0, <3>1 DEF RelayTypes
    <3>3. RelayTypes'
      <4>1. received' \in [Node -> Seq(Nat)]
        BY <3>1, <3>2 DEF RelayTypes
      <4>2. held' \in [Node -> {NoFrame} \cup [session : Nat \ {0}, upd : Nat]]
        BY <3>1, <3>2 DEF RelayTypes
      <4>3. missed' \in [Peer -> SUBSET Nat]
        BY <3>1, <3>2 DEF RelayTypes
      <4>. QED  BY <3>1, <4>1, <4>2, <4>3 DEF RelayTypes, registryVars
    <3>4. Registry' /\ \A v, k : SentOn(v, k)' => SentOn(v, k)
      BY <2>b, <3>1 DEF registryVars, SentOn
    <3>a. \A d \in Peer : missed[d] \subseteq missed'[d]
      BY <3>1
    <3>5. ASSUME NEW d \in Peer, NEW v, at[d].phase = "serving", Relayed(d, v)
          PROVE  Relayed(d, v)'
      <4>1. CASE NodeOf[d] # n
        <5>1. received'[NodeOf[d]] = received[NodeOf[d]] /\ held'[NodeOf[d]] = held[NodeOf[d]]
          BY <3>1, <4>1 DEF RelayTypes
        <5>. QED  BY <3>1, <3>a, <3>5, <5>1 DEF Relayed, registryVars
      <4>2. CASE NodeOf[d] = n
        <5>1. ~(held[n].session = at[d].session)
          <6>1. at[d].session # 0
            BY <2>0, <3>5 DEF Registry, MembersAreIn
          <6>. QED  BY <3>1, <6>1 DEF NoFrame
        <5>2. Relayed(d, u)'
          <6>1. CASE d \in Orphans(n)
            <7>1. /\ at[d].session # current[n] /\ at[d].session \in Nat \ {0}
                  /\ at[d].session <= used[n] /\ <<n, at[d].session>> \notin closed
              BY <2>0, <3>5, <4>2, <6>1
                 DEF Orphans, Registry, MembersAreIn, SessionOf, RelayTypes, Place
            <7>2. n \in twice
              BY <2>0, <7>1 DEF Registry, OpenIsEntry
            <7>. QED  BY <3>1, <4>2, <6>1, <7>2 DEF Relayed, registryVars
          <6>2. CASE d \notin Orphans(n)
            <7>1. at[d].session = current[n] /\ current[n] # 0
              BY <2>0, <3>5, <4>2, <6>2 DEF Orphans, Registry, MembersAreIn
            <7>2. held'[n].session = at[d].session /\ held'[n].upd = u
              BY <3>1, <7>1 DEF RelayTypes
            <7>. QED  BY <3>1, <4>2, <7>2 DEF Relayed
          <6>. QED  BY <6>1, <6>2
        <5>4. received'[n] = Tail(received[n])
          BY <3>1 DEF RelayTypes
        <5>5. ASSUME NEW j \in DOMAIN received[n], received[n][j] = v, v # u
              PROVE  \E k \in DOMAIN received'[n] : received'[n][k] = v
          <6>1. j \in 1..Len(received[n]) /\ j # 1
            BY <3>0, <3>1, <3>2, <5>5
          <6>2. j - 1 \in DOMAIN Tail(received[n]) /\ Tail(received[n])[j - 1] = v
            <7>1. ASSUME NEW q \in Seq(Nat), q # <<>>, NEW i \in 1..Len(q), i # 1
                  PROVE  i - 1 \in DOMAIN Tail(q) /\ Tail(q)[i - 1] = q[i]
              BY <7>1
            <7>. QED  BY <3>1, <3>2, <5>5, <6>1, <7>1
          <6>. QED  BY <5>4, <6>2
        <5>6. CASE v # u
          BY <3>1, <3>a, <3>5, <4>2, <5>1, <5>5, <5>6 DEF Relayed, registryVars
        <5>. QED  BY <5>2, <5>6
      <4>. QED  BY <4>1, <4>2
    <3>. QED  BY <2>1, <3>1, <3>3, <3>4, <3>5
  \* Who is served is in the session that was looked up, if it is the one now.
  <2>11. ASSUME NEW n \in Node, BroadcastHeld(n) PROVE RelayInv'
    <3>. DEFINE u == held[n].upd
                given == InSession(<<n, held[n].session>>)
    <3>1. /\ held[n] # NoFrame
          /\ buffer' = [c \in Peer |-> IF c \in given THEN buffer[c] \cup {u} ELSE buffer[c]]
          /\ held' = [held EXCEPT ![n] = NoFrame]
          /\ UNCHANGED <<log, registryVars, at, work, wire, received, countVars>>
      BY <2>11 DEF BroadcastHeld, Give
    <3>2. u \in Nat
      BY <3>1 DEF RelayTypes
    <3>3. RelayTypes'
      <4>1. buffer' \in [Peer -> SUBSET Nat]
        BY <3>1, <3>2 DEF RelayTypes
      <4>. QED  BY <3>1, <4>1 DEF RelayTypes, registryVars, countVars
    <3>4. Registry' /\ \A v, k : SentOn(v, k)' => SentOn(v, k)
      BY <2>b, <3>1 DEF registryVars, SentOn
    <3>5. ASSUME NEW d \in Peer, NEW v, at[d].phase = "serving", Relayed(d, v)
          PROVE  Relayed(d, v)'
      <4>1. buffer[d] \subseteq buffer'[d]
        BY <3>1
      <4>2. CASE NodeOf[d] = n /\ held[n].session = at[d].session /\ u = v
        <5>1. d \in given
          BY <3>5, <4>2 DEF InSession, SessionOf
        <5>2. v \in buffer'[d]
          BY <3>1, <4>2, <5>1
        <5>. QED  BY <5>2 DEF Relayed
      <4>3. CASE ~(NodeOf[d] = n /\ held[n].session = at[d].session /\ u = v)
        <5>1. NodeOf[d] # n => held'[NodeOf[d]] = held[NodeOf[d]]
          BY <3>1 DEF RelayTypes
        <5>. QED  BY <3>1, <3>5, <4>1, <4>3, <5>1 DEF Relayed, registryVars, countVars
      <4>. QED  BY <4>2, <4>3
    <3>. QED  BY <2>1, <3>1, <3>3, <3>4, <3>5 DEF countVars
  \* What a node forgets was lost to the others; it serves nobody any more.
  <2>12. ASSUME NEW n \in Node, NodeRestarts(n) PROVE RelayInv'
    <3>. DEFINE mine(m) == m.from = n \/ m.to = n
                unpublished == {work[s].upd : s \in {t \in Sess : t[1] = n /\ work[t].stage = "persisted"}}
    <3>1. /\ current' = [current EXCEPT ![n] = 0]
          /\ at' = [c \in Peer |-> IF NodeOf[c] = n /\ at[c].phase # "away"
                                   THEN [at[c] EXCEPT !.phase = "left"] ELSE at[c]]
          /\ work' = [s \in Sess |-> IF s[1] = n THEN NoWork ELSE work[s]]
          /\ wire' = {m \in wire : ~mine(m)}
          /\ lost' = [k \in Node |-> lost[k] \cup unpublished
                                     \cup {m.upd : m \in {w \in wire : mine(w) /\ w.to = k}}]
          /\ received' = [received EXCEPT ![n] = <<>>]
          /\ held' = [held EXCEPT ![n] = NoFrame]
          /\ closed' = closed \cup {s \in Sess : s[1] = n /\ s[2] <= used[n]}
          /\ twice' = twice \ {n}
          /\ UNCHANGED <<log, used, buffer, produced, missed>>
      BY <2>12 DEF NodeRestarts
    <3>2. unpublished \subseteq Nat
      BY <2>a DEF NoWork
    <3>3. RelayTypes'
      <4>1. at' \in [Peer -> Place]
        <5>1. ASSUME NEW c \in Peer PROVE [at[c] EXCEPT !.phase = "left"] \in Place
          <6>1. at[c] \in Place
            BY DEF RelayTypes
          <6>. QED  BY <6>1 DEF Place
        <5>. QED  BY <3>1, <5>1 DEF RelayTypes
      <4>2. lost' \in [Node -> SUBSET Nat]
        BY <3>1, <3>2 DEF RelayTypes
      <4>3. work' \in [Sess -> {NoWork} \cup Working]
        BY <3>1 DEF RelayTypes
      <4>4. held' \in [Node -> {NoFrame} \cup [session : Nat \ {0}, upd : Nat]]
        BY <3>1 DEF RelayTypes
      <4>5. received' \in [Node -> Seq(Nat)]
        BY <3>1 DEF RelayTypes
      <4>. QED  BY <3>1, <4>1, <4>2, <4>3, <4>4, <4>5 DEF RelayTypes
    <3>4. \A c \in Peer : at'[c].phase \notin {"away", "left"} => at'[c] = at[c] /\ NodeOf[c] # n
      BY <3>1 DEF RelayTypes, Place
    <3>5. Registry'
      <4>1. current'[n] = 0 /\ \A m \in Node : m # n => current'[m] = current[m]
        BY <3>1 DEF RelayTypes
      <4>2. \A m \in Node, k \in Nat :
                m # n => (<<m, k>> \in closed' <=> <<m, k>> \in closed)
        BY <3>1
      <4>3. \A k \in Nat : k # 0 /\ k <= used[n] => <<n, k>> \in closed'
        <5>1. ASSUME NEW k \in Nat, k # 0, k <= used[n] PROVE <<n, k>> \in closed'
          <6>1. <<n, k>> \in Sess
            BY <5>1 DEF Sess, RelayTypes
          <6>. QED  BY <3>1, <5>1, <6>1
        <5>. QED  BY <5>1
      <4>4. \A k \in Nat : <<n, k>> \in closed' => k <= used[n]
        BY <2>0, <3>1 DEF Registry, ClosedWereUsed
      <4>5. EntryIsOpen'
        <5>1. ASSUME NEW m \in Node
              PROVE  /\ current'[m] <= used'[m]
                     /\ current'[m] # 0 => <<m, current'[m]>> \notin closed'
          <6>1. CASE m = n
            BY <3>1, <4>1, <6>1 DEF RelayTypes
          <6>2. CASE m # n
            <7>1. current[m] \in Nat
              BY DEF RelayTypes
            <7>. QED  BY <2>0, <3>1, <4>1, <4>2, <6>2, <7>1 DEF Registry, EntryIsOpen
          <6>. QED  BY <6>1, <6>2
        <5>. QED  BY <5>1 DEF EntryIsOpen
      <4>6. OpenIsEntry'
        <5>1. ASSUME NEW m \in Node, NEW k \in Nat, k # 0, k <= used[m], <<m, k>> \notin closed'
              PROVE  current'[m] = k \/ m \in twice'
          <6>1. m # n
            BY <4>3, <5>1
          <6>. QED  BY <2>0, <3>1, <4>1, <4>2, <5>1, <6>1 DEF Registry, OpenIsEntry
        <5>. QED  BY <3>1, <5>1 DEF OpenIsEntry
      <4>7. ClosedWereUsed'
        <5>1. ASSUME NEW m \in Node, NEW k \in Nat, <<m, k>> \in closed' PROVE k <= used[m]
          BY <2>0, <4>2, <4>4, <5>1 DEF Registry, ClosedWereUsed
        <5>. QED  BY <3>1, <5>1 DEF ClosedWereUsed
      <4>8. MembersAreIn'
        <5>1. ASSUME NEW c \in Peer,
                     at'[c].phase \in {"joined", "serving", "handlerDetaches", "pumpDetaches"}
              PROVE  /\ at'[c].session # 0 /\ at'[c].session <= used'[NodeOf[c]]
                     /\ at'[c].phase \in {"joined", "serving"} => SessionOf(c)' \notin closed'
          <6>1. at'[c] = at[c] /\ NodeOf[c] # n /\ used' = used
            BY <3>1, <3>4, <5>1
          <6>2. at[c].session \in Nat /\ SessionOf(c) = <<NodeOf[c], at[c].session>>
                /\ SessionOf(c)' = SessionOf(c)
            BY <6>1 DEF SessionOf, RelayTypes, Place
          <6>3. SessionOf(c)' \in closed' <=> SessionOf(c) \in closed
            BY <2>0, <4>2, <6>1, <6>2
          <6>. QED  BY <2>0, <5>1, <6>1, <6>3 DEF Registry, MembersAreIn
        <5>. QED  BY <5>1 DEF MembersAreIn
      <4>. QED  BY <4>5, <4>6, <4>7, <4>8 DEF Registry
    <3>6. \A u, k : SentOn(u, k)' => SentOn(u, k)
      BY <3>1 DEF SentOn
    <3>7. ASSUME NEW d \in Peer, NEW v, at'[d].phase = "serving", Relayed(d, v)
          PROVE  Relayed(d, v)'
      <4>1. at'[d] = at[d] /\ NodeOf[d] # n
        BY <3>4, <3>7
      <4>2. /\ received'[NodeOf[d]] = received[NodeOf[d]]
            /\ held'[NodeOf[d]] = held[NodeOf[d]]
        BY <3>1, <4>1 DEF RelayTypes
      <4>3. CASE \/ v \in buffer[d] \/ v \in lost[NodeOf[d]]
                 \/ v \in missed[d] /\ NodeOf[d] \in twice
        BY <3>1, <4>1, <4>3 DEF Relayed
      <4>4. ASSUME NEW s \in Sess, work[s].stage = "persisted", work[s].upd = v
            PROVE  Relayed(d, v)'
        <5>1. CASE s[1] = n
          <6>1. v \in unpublished
            BY <4>4, <5>1
          <6>. QED  BY <3>1, <6>1 DEF Relayed
        <5>2. CASE s[1] # n
          BY <3>1, <4>4, <5>2 DEF Relayed
        <5>. QED  BY <5>1, <5>2
      <4>5. ASSUME NEW m \in wire, m.upd = v, m.to = NodeOf[d] PROVE Relayed(d, v)'
        <5>1. CASE mine(m)
          <6>1. v \in lost'[NodeOf[d]]
            BY <3>1, <4>5, <5>1
          <6>. QED  BY <6>1 DEF Relayed
        <5>2. CASE ~mine(m)
          BY <3>1, <4>5, <5>2 DEF Relayed
        <5>. QED  BY <5>1, <5>2
      <4>6. CASE \/ \E j \in DOMAIN received[NodeOf[d]] : received[NodeOf[d]][j] = v
                 \/ held[NodeOf[d]].session = at[d].session /\ held[NodeOf[d]].upd = v
        BY <4>1, <4>2, <4>6 DEF Relayed
      <4>. QED  BY <3>7, <4>3, <4>4, <4>5, <4>6 DEF Relayed
    <3>8. \A d \in Peer : at'[d].phase = "serving" => at[d].phase = "serving"
      BY <3>4
    <3>. QED  BY <2>1, <3>1, <3>3, <3>5, <3>6, <3>7, <3>8
  <2>13. CASE UNCHANGED relayVars
    <3>1. RelayTypes' /\ Registry' /\ \A u, k : SentOn(u, k)' => SentOn(u, k)
      BY <2>b, <2>13 DEF relayVars, RelayTypes, SentOn
    <3>2. \A d \in Peer : \A v : Relayed(d, v) => Relayed(d, v)'
      BY <2>13 DEF relayVars, Relayed
    <3>. QED  BY <2>1, <2>13, <3>1, <3>2 DEF relayVars
  <2>. QED
    <3>1. ASSUME NEW c \in Peer,
                 \/ JoinNode(c) \/ LoadAndReplay(c) \/ TakeUpdate(c)
                 \/ UnregisterFrom(c) \/ Detach(c) \/ DetachAgain(c)
          PROVE  RelayInv'
      BY <2>2, <2>3, <2>4, <2>5, <2>14, <2>15, <3>1
    <3>2. ASSUME NEW s \in Sess,
                 \/ AppendToLog(s) \/ AppendIsRefused(s) \/ AppendIsUnseen(s)
                 \/ BroadcastAndPublish(s)
          PROVE  RelayInv'
      <4>1. AppendToLog(s) => UNCHANGED lost
        BY DEF AppendToLog, countVars
      <4>. QED  BY <2>6, <2>7, <2>16, <3>2, <4>1
    <3>. QED  BY <2>8, <2>9, <2>10, <2>11, <2>12, <2>13, <3>1, <3>2 DEF RelayNext
<1>3. RelayInv => RelayReachesAll
  BY DEF RelayInv, AllAreRelayed, Relayed, RelayReachesAll
<1>. QED  BY <1>1, <1>2, <1>3, PTL DEF RelaySpec

-----------------------------------------------------------------------------
(***************************************************************************)
(* Streams of events.                                                      *)
(***************************************************************************)
ActivityInv ==
    /\ recording \subseteq Event /\ recorded \subseteq Event
    /\ seen \subseteq recorded /\ after \in {0} \cup seen
    /\ lastId \in Nat
    /\ StreamSkipsOnlyLateEvents

\* events.go asks for what follows the highest id it has seen: an event that the
\* stream has passed without sending it is one that committed after one with a
\* higher id (the serial is given at INSERT), for any batches and polls.
THEOREM StreamsSkipNothingElse == ActivitySpec => []StreamSkipsOnlyLateEvents
\* Highest returns 0 or a member, and nothing is higher.
<1>a. ASSUME NEW S \in SUBSET (0..MaxEvents)
      PROVE  /\ Highest(S) \in {0} \cup S /\ Highest(S) \in Nat
             /\ \A e \in S : e <= Highest(S)
  <2>. USE <1>a
  <2>1. CASE S = {}
    BY <2>1 DEF Highest
  <2>2. CASE S # {}
    <3>1. \E m \in S : \A n \in S : n <= m
      \* The least of its upper bounds.
      <4>. DEFINE Less == {p \in Nat \X Nat : p[1] < p[2]}
                  Bounds == {m \in Nat : \A n \in S : n <= m}
      <4>1. IsWellFoundedOn(Less, Nat)
        BY NatLessThanWellFounded DEF OpToRel
      <4>2. MaxEvents \in Bounds /\ Bounds \subseteq Nat
        OBVIOUS
      <4>. HIDE DEF Less, Bounds
      <4>3. PICK m \in Bounds : \A k \in Bounds : <<k, m>> \notin Less
        BY <4>1, <4>2, WFMin
      <4>4. ASSUME NEW b \in Bounds PROVE b \in Nat /\ m \in Nat /\ ~(b < m)
        BY <4>2, <4>3 DEF Less
      <4>5. m - 1 \notin Bounds /\ m \in Nat
        BY <4>3, <4>4
      <4>6. \A n \in S : n \in Nat /\ n <= m
        BY <4>3 DEF Bounds
      <4>7. \E n \in S : ~(n <= m - 1)
        <5>1. CASE m = 0
          <6>1. PICK n \in S : n \in Nat
            BY <2>2, <4>6
          <6>2. ~(n <= 0 - 1)
            BY <6>1
          <6>. QED  BY <5>1, <6>1, <6>2
        <5>2. CASE m # 0
          <6>1. m - 1 \in Nat
            BY <4>5, <5>2
          <6>. QED  BY <4>5, <6>1 DEF Bounds
        <5>. QED  BY <5>1, <5>2
      <4>8. ASSUME NEW n \in Nat, n <= m, ~(n <= m - 1) PROVE n = m
        BY <4>5, <4>8
      <4>. QED  BY <4>6, <4>7, <4>8
    <3>2. \E m \in S : \A n \in S : m >= n
      BY <3>1
    <3>3. Highest(S) \in S /\ \A n \in S : Highest(S) >= n
      <4>1. Highest(S) = CHOOSE m \in S : \A n \in S : m >= n
        BY <2>2 DEF Highest, Max
      <4>. QED  BY <3>2, <4>1
    <3>4. \A n \in S : n \in Nat
      OBVIOUS
    <3>. QED  BY <3>3, <3>4
  <2>. QED  BY <2>1, <2>2
<1>1. ActivityInit => ActivityInv
  BY DEF ActivityInit, ActivityIdle, ActivityInv, StreamSkipsOnlyLateEvents
<1>2. ActivityInv /\ [ActivityNext]_activityVars => ActivityInv'
  <2>. SUFFICES ASSUME ActivityInv, [ActivityNext]_activityVars PROVE ActivityInv'
    OBVIOUS
  <2>. USE DEF ActivityInv
  <2>. DEFINE H == Highest(seen)
  <2>1. H \in {0} \cup seen /\ H \in Nat /\ \A e \in seen : e <= H
    <3>1. seen \subseteq 0..MaxEvents
      BY DEF Event
    <3>. QED  BY <3>1, <1>a
  <2>2. CASE RecordActivity
    BY <2>2 DEF RecordActivity, streamVars, Event, StreamSkipsOnlyLateEvents, Highest
  \* What becomes visible below the cursor is marked.
  <2>3. ASSUME NEW e \in recording, ActivityCommits(e) PROVE ActivityInv'
    <3>1. /\ recording' = recording \ {e} /\ recorded' = recorded \cup {e}
          /\ late' = IF e < Highest({after} \cup seen) THEN late \cup {e} ELSE late
          /\ UNCHANGED <<lastId, streamVars>>
      BY <2>3 DEF ActivityCommits
    <3>2. H <= Highest({after} \cup seen) /\ Highest({after} \cup seen) \in Nat
      <4>1. {after} \cup seen \subseteq 0..MaxEvents
        BY DEF Event
      <4>2. /\ Highest({after} \cup seen) \in Nat
            /\ \A n \in {after} \cup seen : n <= Highest({after} \cup seen)
        BY <4>1, <1>a
      <4>. QED  BY <2>1, <4>2
    <3>3. e \in Nat /\ e > 0
      BY DEF Event
    <3>4. e <= H => e \in seen \cup late'
      BY <2>1, <3>1, <3>2, <3>3
    <3>5. StreamSkipsOnlyLateEvents'
      BY <3>1, <3>4 DEF StreamSkipsOnlyLateEvents, streamVars
    <3>. QED  BY <3>1, <3>5 DEF streamVars
  <2>4. ASSUME NEW e \in recording, ActivityFails(e) PROVE ActivityInv'
    BY <2>4 DEF ActivityFails, streamVars, StreamSkipsOnlyLateEvents
  \* A batch leaves out nothing below what it holds.
  <2>5. ASSUME NEW id \in {0} \cup seen, SendAfter(id), UNCHANGED <<recording, recorded, lastId, late>>
        PROVE  ActivityInv'
    <3>. DEFINE batch == ListActivityAfter(id)
                rank(e) == {d \in recorded : d \in id + 1 .. e}
    <3>1. PICK to \in {id} \cup batch : WriteEvents(id, batch, to)
      BY <2>5 DEF SendAfter
    <3>2. /\ seen' = seen \cup {e \in batch : e <= to}
          /\ after' = to
      BY <3>1 DEF WriteEvents
    <3>3. /\ id \in Nat /\ id <= H
          /\ recorded \subseteq Nat /\ batch \subseteq recorded
      BY <2>1 DEF Event, ListActivityAfter
    <3>4. seen' \subseteq recorded' /\ after' \in {0} \cup seen'
      <4>1. to \in batch => to \in seen'
        BY <3>2, <3>3
      <4>2. id \in {0} \cup seen'
        BY <3>2
      <4>. HIDE DEF batch
      <4>. QED  BY <2>5, <3>1, <3>2, <3>3, <4>1, <4>2
    <3>5. Highest(seen') \in {0} \cup seen' /\ Highest(seen') \in Nat
      <4>1. seen' \subseteq 0..MaxEvents
        BY <2>5, <3>4 DEF Event
      <4>. QED  BY <4>1, <1>a
    <3>6. ASSUME NEW e \in recorded, e <= Highest(seen') PROVE e \in seen' \cup late
      <4>0. PICK h \in Nat : h = Highest(seen')
        BY <3>5
      <4>1. CASE e <= H
        BY <3>2, <4>1 DEF StreamSkipsOnlyLateEvents
      <4>2. CASE ~(e <= H)
        <5>1. e \in Nat /\ e > H /\ e > id /\ h > H /\ h > 0
          BY <2>1, <3>3, <3>5, <3>6, <4>0, <4>2
        <5>2. h \in batch /\ h <= to
          BY <2>1, <3>2, <3>5, <4>0, <5>1
        <5>3. Cardinality(rank(h)) <= BatchSize
          BY <5>2 DEF ListActivityAfter
        <5>4. rank(e) \subseteq rank(h) /\ IsFiniteSet(rank(h))
          <6>1. IsFiniteSet(id + 1 .. h) /\ rank(h) \in SUBSET (id + 1 .. h)
            <7>1. id + 1 \in Int /\ h \in Int
              BY <3>3
            <7>2. IsFiniteSet(id + 1 .. h)
              BY <7>1, FS_Interval
            <7>. QED  BY <7>2
          <6>2. IsFiniteSet(rank(h))
            BY <6>1, FS_Subset
          <6>3. rank(e) \subseteq rank(h)
            <7>1. e <= h
              BY <3>6, <4>0
            <7>2. \A d \in recorded : d \in id + 1 .. e => d \in id + 1 .. h
              BY <3>3, <5>1, <7>1
            <7>. QED  BY <7>2
          <6>. QED  BY <6>2, <6>3
        <5>5. /\ Cardinality(rank(e)) <= Cardinality(rank(h))
              /\ Cardinality(rank(e)) \in Nat /\ Cardinality(rank(h)) \in Nat
          BY <5>4, FS_Subset, FS_CardinalityType
        <5>6. e \in batch
          <6>1. Cardinality(rank(e)) <= BatchSize
            BY <5>3, <5>5
          <6>. QED  BY <5>1, <6>1 DEF ListActivityAfter
        <5>7. e <= to
          <6>1. e <= h /\ to \in Nat
            BY <3>1, <3>3, <3>6, <4>0
          <6>. QED  BY <5>1, <5>2, <6>1
        <5>. QED  BY <3>2, <5>6, <5>7
      <4>. QED  BY <4>1, <4>2
    <3>7. StreamSkipsOnlyLateEvents'
      BY <2>5, <3>6 DEF StreamSkipsOnlyLateEvents
    <3>. QED  BY <2>5, <3>4, <3>7
  <2>6. CASE OpenStream
    <3>1. PICK query \in {0} \cup seen : SendAfter(Cursor(query))
      BY <2>6 DEF OpenStream
    <3>2. Cursor(query) \in {0} \cup seen
      BY <2>1 DEF Cursor
    <3>. QED  BY <2>5, <2>6, <3>1, <3>2 DEF OpenStream
  <2>7. CASE SendBatch
    BY <2>5, <2>7 DEF SendBatch
  <2>8. CASE EndStream \/ UNCHANGED activityVars
    BY <2>8 DEF EndStream, activityVars, streamVars, StreamSkipsOnlyLateEvents
  <2>. QED  BY <2>2, <2>3, <2>4, <2>6, <2>7, <2>8 DEF ActivityNext
<1>. QED  BY <1>1, <1>2, PTL DEF ActivitySpec, ActivityInv

-----------------------------------------------------------------------------
(***************************************************************************)
(* The server.                                                             *)
(***************************************************************************)
\* The parts do not touch one another, so a behaviour of the server is one of
\* each, and what each promises holds of the server.
THEOREM ServerKeepsPromises ==
    ServerSpec => /\ SharingSpec /\ RelaySpec /\ ActivitySpec
                  /\ [](OneSuccessor /\ ClaimedWasGranted)
                  /\ [](RelayReachesAll /\ StreamSkipsOnlyLateEvents)
<1>1. ServerInit => SharingInit /\ RelayInit /\ ActivityInit
  BY DEF ServerInit
<1>2. [ServerNext]_serverVars =>
        /\ [SharingNext]_sharingVars
        /\ [RelayNext]_relayVars
        /\ [ActivityNext]_activityVars
  BY DEF ServerNext, Invites, Nodes, Events, serverVars
<1>3. ServerSpec => SharingSpec /\ RelaySpec /\ ActivitySpec
  BY <1>1, <1>2, PTL DEF ServerSpec, SharingSpec, RelaySpec, ActivitySpec
<1>. QED
  BY <1>3, InvitesHaveOneSuccessor, ClaimedInvitesGaveTheirRole, RelayKeepsItsPromise,
     StreamsSkipNothingElse, PTL
=============================================================================
