------------------------------- MODULE Sharing -------------------------------
(***************************************************************************)
(* Invites to one document by email, and the page an invite link opens.    *)
(* An invite is a position in the table document_invites; a person is      *)
(* known once the table users has a row for them.  Handlers run one        *)
(* statement at a time.  That an invite gives a role is kept, which role a *)
(* member has in the end is WriteAccess's subject.                         *)
(***************************************************************************)
EXTENDS Integers, FiniteSets, Sequences

CONSTANTS
    Person,
    MaxInvites,   \* bound on the rows of document_invites
    Handler       \* the requests that may run at once

ASSUME SharingAssumption == MaxInvites \in Nat

VARIABLES
    known,     \* the people with a row in users
    invites,   \* [who, status, origin]; a resend keeps its origin
    handlers,  \* what each request is about to do
    granted,   \* the invites that gave a role
    invited    \* the page /invites/[token]

sharingVars == <<known, invites, handlers, granted, invited>>

Unused == {"pending", "expired"}   \* claimed_at and revoked_at are null
NoPage == [phase |-> "closed"]
Done == [op |-> "done"]

Pending(w) == {t \in DOMAIN invites : invites[t].who = w /\ invites[t].status = "pending"}

SharingTypeOK ==
    /\ known \subseteq Person
    /\ \A t \in DOMAIN invites : invites[t] \in
          [who : Person, status : Unused \cup {"claimed", "revoked"}, origin : 1..Len(invites)]
    /\ granted \subseteq DOMAIN invites

SharingIdle ==
    /\ known = {} /\ invites = <<>>
    /\ handlers = [h \in Handler |-> Done] /\ granted = {} /\ invited = NoPage

SharingInit == SharingIdle

Of(op) == {h \in Handler : handlers[h].op = op}
Continue(h, next) == handlers' = [handlers EXCEPT ![h] = next]
Finish(h) == Continue(h, Done)
Start(next) == \E h \in Of("done") : Continue(h, next)

\* INSERT INTO document_access ... ON CONFLICT DO UPDATE.
Grant(T) == granted' = granted \cup T
Mark(T, status) ==
    invites' = [t \in DOMAIN invites |-> IF t \in T THEN [invites[t] EXCEPT !.status = status]
                                         ELSE invites[t]]

(***************************************************************************)
(* CreateInvite.  For a person who is known it goes on to give the role    *)
(* and to mark its own invite, each a statement of its own.  Looking the   *)
(* person up and the insert are one step here: a row of users written in   *)
(* between leaves what a handler that fails after the insert leaves.       *)
(***************************************************************************)
Insert(w, origin) ==
    /\ Len(invites) < MaxInvites
    /\ invites' = Append(invites, [who |-> w, status |-> "pending",
                                   origin |-> IF origin = 0 THEN Len(invites) + 1 ELSE origin])

GrantNext == [op |-> "grant", token |-> Len(invites) + 1]

CreateInvite ==
    /\ \E w \in Person :
          /\ Insert(w, 0)
          /\ IF w \in known THEN Start(GrantNext) ELSE UNCHANGED handlers
    /\ UNCHANGED <<known, granted, invited>>

\* Mutant: the invite is marked before the role is given.
MarkThenGrant ==
    \/ /\ \E h \in Of("grant") :
             Mark({handlers[h].token}, "claimed") /\ Continue(h, [handlers[h] EXCEPT !.op = "mark"])
       /\ UNCHANGED <<granted, known, invited>>
    \/ /\ \E h \in Of("mark") : Grant({handlers[h].token}) /\ Finish(h)
       /\ UNCHANGED <<invites, known, invited>>

GrantThenMark ==
    \/ /\ \E h \in Of("grant") :
             Grant({handlers[h].token}) /\ Continue(h, [handlers[h] EXCEPT !.op = "mark"])
       /\ UNCHANGED <<invites, known, invited>>
    \/ /\ \E h \in Of("mark") : Mark({handlers[h].token}, "claimed") /\ Finish(h)
       /\ UNCHANGED <<granted, known, invited>>

(***************************************************************************)
(* Revoking and resending.  A resend reads the invite, revokes it and only *)
(* then creates another; the revocation of an invite that is used or gone  *)
(* fails and ends it.                                                      *)
(***************************************************************************)
RevokeInvite ==
    /\ \E t \in DOMAIN invites : invites[t].status \in Unused /\ Mark({t}, "revoked")
    /\ UNCHANGED <<known, handlers, granted, invited>>

ResendInvite ==
    /\ \E t \in DOMAIN invites :
          invites[t].status \in Unused /\ Start([op |-> "resend", token |-> t])
    /\ UNCHANGED <<known, invites, granted, invited>>

\* Mutant: the rows the revocation affected are not counted.
RevokeBlindly(h, t) ==
    /\ IF invites[t].status \in Unused THEN Mark({t}, "revoked") ELSE UNCHANGED invites
    /\ Continue(h, [handlers[h] EXCEPT !.op = "recreate"])

RevokeForResend(h, t) ==
    IF invites[t].status \in Unused
      THEN Mark({t}, "revoked") /\ Continue(h, [handlers[h] EXCEPT !.op = "recreate"])
      ELSE Finish(h) /\ UNCHANGED invites

Resend ==
    /\ \/ \E h \in Of("resend") : RevokeForResend(h, handlers[h].token)
       \/ \E h \in Of("recreate") :
             LET old == invites[handlers[h].token]
             IN /\ Insert(old.who, old.origin)
                /\ IF old.who \in known THEN Continue(h, GrantNext) ELSE Finish(h)
    /\ UNCHANGED <<known, granted, invited>>

Expires ==
    /\ \E t \in DOMAIN invites : invites[t].status = "pending" /\ Mark({t}, "expired")
    /\ UNCHANGED <<known, handlers, granted, invited>>

(***************************************************************************)
(* UpsertUser: a row for the person, then one statement that gives the     *)
(* role of every pending invite of theirs and marks those still pending    *)
(* when it reaches them.  Its INSERT ... ON CONFLICT DO UPDATE fails when  *)
(* two of the rows it proposes are for one member.                         *)
(***************************************************************************)
Me(w, where) == [op |-> "user", who |-> w, where |-> where]

CallMe ==
    /\ \E w \in Person : Start(Me(w, "app"))
    /\ UNCHANGED <<known, invites, granted, invited>>

\* What fetchMe comes back with matters to the invite page alone.
PageAfterMe(h, ok) ==
    IF handlers[h].where = "page" /\ invited.phase = "checking"
      THEN [invited EXCEPT !.phase = IF ok THEN "claiming" ELSE "login"]
      ELSE invited

UpsertUser ==
    \E h \in Of("user") :
        /\ known' = known \cup {handlers[h].who}
        /\ Continue(h, [op |-> "claim", who |-> handlers[h].who, where |-> handlers[h].where,
                        pending |-> Pending(handlers[h].who)])
        /\ UNCHANGED <<invites, granted, invited>>

ClaimPendingInvites ==
    \E h \in Of("claim") :
        LET w == handlers[h].who
            pending == handlers[h].pending
        IN /\ Finish(h)
           /\ invited' = PageAfterMe(h, Cardinality(pending) <= 1)
           /\ IF Cardinality(pending) > 1 THEN UNCHANGED <<invites, granted>>
              ELSE Grant(pending) /\ Mark(pending \cap Pending(w), "claimed")
           /\ UNCHANGED known

(***************************************************************************)
(* The page of an invite link: who am I, then claim.  Asking who one is    *)
(* runs UpsertUser; ClaimInvite is one transaction that locks the invite.  *)
(***************************************************************************)
OpenInvitePage ==
    /\ invited.phase = "closed"
    /\ \E w \in Person, t \in DOMAIN invites :
          /\ Start(Me(w, "page"))
          /\ invited' = [phase |-> "checking", who |-> w, token |-> t, live |-> t \in Pending(w)]
    /\ UNCHANGED <<known, invites, granted>>

ClaimInvite ==
    /\ invited.phase = "claiming"
    /\ IF invited.token \in Pending(invited.who)
         THEN /\ Grant({invited.token})
              /\ Mark({invited.token}, "claimed")
              /\ invited' = [invited EXCEPT !.phase = "claimed"]
         ELSE /\ invited' = [invited EXCEPT !.phase = "error"]
              /\ UNCHANGED <<granted, invites>>
    /\ UNCHANGED <<known, handlers>>

\* The request or its answer is lost, or the page is left.
LeaveInvitePage ==
    /\ invited.phase # "closed"
    /\ invited' = NoPage
    /\ UNCHANGED <<known, invites, handlers, granted>>

\* The database or the caller goes away between two statements.
HandlerFails ==
    /\ \E h \in Handler \ Of("done") :
          /\ Finish(h)
          /\ invited' = IF handlers[h].op \in {"user", "claim"} THEN PageAfterMe(h, FALSE) ELSE invited
    /\ UNCHANGED <<known, invites, granted>>

InviteStep ==
    CreateInvite \/ GrantThenMark \/ RevokeInvite \/ ResendInvite \/ Resend \/ Expires
PersonStep ==
    CallMe \/ UpsertUser \/ ClaimPendingInvites \/ OpenInvitePage \/ ClaimInvite \/ LeaveInvitePage

SharingNext == InviteStep \/ PersonStep \/ HandlerFails

SharingSpec == SharingInit /\ [][SharingNext]_sharingVars

(***************************************************************************)
(* Properties.                                                             *)
(***************************************************************************)

\* However often and from wherever an invite is resent, claimed and revoked,
\* one invite at most is open of all that come from it: two owners' tabs that
\* resend at once do not leave two.
OneSuccessor ==
    \A t, u \in DOMAIN invites :
        (/\ invites[t].origin = invites[u].origin
         /\ invites[t].status \in Unused /\ invites[u].status \in Unused) => t = u

\* An invite that is used up has given its role, whichever statement of
\* CreateInvite, ClaimInvite or the sign-in was the last to succeed.
ClaimedWasGranted ==
    \A t \in DOMAIN invites : invites[t].status = "claimed" => t \in granted

\* What users.go says of UpsertUser, that it may be called on every request:
\* its statement never proposes two rows for one member.
UpsertIsIdempotent == \A h \in Of("claim") : Cardinality(handlers[h].pending) <= 1

\* Somebody who follows an open invite of their own, signed in, is let into
\* the document and not told that the invite is used.
InvitePageAccepts ==
    (invited.phase = "error" /\ invited.live) => invites[invited.token].status # "claimed"
=============================================================================
