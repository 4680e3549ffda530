---------------------------- MODULE ShareDialog ----------------------------
(***************************************************************************)
(* The share dialog of the editor page (app/d/[id]/components/             *)
(* ShareModal.tsx).  Opening it fetches access list, invites and requests  *)
(* one after the other, and so does every refresh.  The tag of a fetch is  *)
(* the opening it belongs to, 0 for a refresh.  ShareLinks has the panel   *)
(* of the share links, which the dialog mounts anew each time.             *)
(***************************************************************************)
EXTENDS Calls

CONSTANTS MaxOpens   \* bound on openings of the dialog

VARIABLES
    dialog,       \* it is open
    opens,        \* how often it was opened
    owner,        \* the user owns the document
    inviteState, requestState,   \* "idle", "sending", "sent" or "error"
    accessLoading,
    accessBusy,   \* the member, and
    requestBusy   \* the request, whose buttons are disabled; 0 for none

shareVars == <<dialog, opens, owner, inviteState, requestState,
               accessLoading, accessBusy, requestBusy>>

SendState == {"idle", "sending", "sent", "error"}

ShareTypeOK ==
    /\ dialog \in BOOLEAN /\ owner \in BOOLEAN
    /\ opens \in 0..MaxOpens
    /\ inviteState \in SendState /\ requestState \in SendState
    /\ accessLoading \in BOOLEAN
    /\ accessBusy \in Id \cup {0} /\ requestBusy \in Id \cup {0}

ShareIdle ==
    /\ dialog = FALSE /\ opens = 0
    /\ inviteState = "idle" /\ requestState = "idle"
    /\ accessLoading = TRUE /\ accessBusy = 0 /\ requestBusy = 0

ShareInit ==
    /\ \E t \in {"access", "invites", "requests"} :
         CallsInit([Empty EXCEPT ![t] = [id : Existing, st : {"low"}]])
    /\ owner \in BOOLEAN
    /\ ShareIdle

busy == <<accessBusy, requestBusy>>
states == <<inviteState, requestState>>

(***************************************************************************)
(* Opening and closing.  Closing keeps the lists; they are hidden until    *)
(* the fetch of the next opening has ended.                                *)
(***************************************************************************)
OpenShare ==
    /\ ~dialog /\ opens < MaxOpens
    /\ dialog' = TRUE /\ opens' = opens + 1
    /\ IF owner THEN Send("list", "access", NoRow, opens') ELSE UNCHANGED callVars
    /\ UNCHANGED <<owner, states, accessLoading, busy>>

CloseShare ==
    /\ dialog /\ dialog' = FALSE
    /\ inviteState' = "idle" /\ requestState' = "idle"
    /\ accessLoading' = (owner \/ accessLoading)
    /\ UNCHANGED <<callVars, opens, owner, busy>>

Manage == dialog /\ owner
Current(c) == c.tag = 0 \/ (dialog /\ c.tag = opens)

\* Typing an address.  It enables the button again, also while the invite to
\* another address is under way.
TypeEmail ==
    /\ Manage /\ inviteState # "idle" /\ inviteState' = "idle"
    /\ UNCHANGED <<callVars, dialog, opens, owner, requestState, accessLoading, busy>>

\* An account of that address gets access at once, another one an invite.  The
\* field is empty after a success, so the next address must be typed first.
SendInvite ==
    /\ Manage /\ inviteState \in {"idle", "error"}
    /\ \E t \in {"access", "invites"} :
         /\ SendWith(calls, "create", t, [NoRow EXCEPT !.st = "high"], 0)
         /\ unsure' = unsure \cup {t}
    /\ inviteState' = "sending"
    /\ UNCHANGED <<rows, list, dialog, opens, owner, requestState, accessLoading, busy>>

RefreshAccessList ==
    /\ Manage
    /\ Send("list", "access", NoRow, 0)
    /\ accessLoading' = TRUE
    /\ UNCHANGED <<dialog, opens, owner, states, busy>>

RevokeInvite(r) ==
    /\ Manage /\ Send("remove", "invites", r, 0)
    /\ UNCHANGED shareVars

ResendInvite(r) ==
    /\ Manage /\ Send("renew", "invites", r, 0)
    /\ UNCHANGED shareVars

UpdateAccessRole(r, role) ==
    /\ Manage /\ ~accessLoading /\ accessBusy # r.id /\ role # r.st
    /\ Send("change", "access", [r EXCEPT !.st = role], 0)
    /\ accessBusy' = r.id
    /\ UNCHANGED <<dialog, opens, owner, states, accessLoading, requestBusy>>

RevokeAccess(r) ==
    /\ Manage /\ ~accessLoading /\ accessBusy # r.id
    /\ Send("remove", "access", r, 0)
    /\ accessBusy' = r.id
    /\ UNCHANGED <<dialog, opens, owner, states, accessLoading, requestBusy>>

ResolveAccessRequest(r, op) ==
    /\ Manage /\ requestBusy # r.id
    /\ Send(op, "requests", r, 0)
    /\ requestBusy' = r.id
    /\ UNCHANGED <<dialog, opens, owner, states, accessLoading, accessBusy>>

RequestEditAccess ==
    /\ dialog /\ ~owner /\ requestState \notin {"sending", "sent"}
    /\ Send("ask", "requests", NoRow, 0)
    /\ requestState' = "sending"
    /\ UNCHANGED <<dialog, opens, owner, inviteState, accessLoading, busy>>

(***************************************************************************)
(* Answers.                                                                *)
(***************************************************************************)
NextList == [access |-> "invites", invites |-> "requests"]

\* An answer to the chain of fetches.  The chain of an opening ends with the
\* dialog, if that closes before the first answer; a refresh goes on.
AccessListed(c) ==
    /\ c.op = "list" /\ c.table \in {"access", "invites", "requests"} /\ c.state # "sent"
    /\ LET over == ~Current(c)
           stop == c.state = "failed" \/ (over /\ c.table = "access")
       IN /\ IF stop THEN Ignored(c)
             ELSE IF c.table = "requests" THEN Handled(c, c.answer)
             ELSE HandledThen(c, c.answer, "list", NextList[c.table])
          /\ accessLoading' = (accessLoading /\ (over \/ ~(stop \/ c.table = "requests")))
    /\ UNCHANGED <<dialog, opens, owner, states, busy>>

InviteSent(c) ==
    /\ c.op = "create" /\ c.table \in {"access", "invites"} /\ c.state # "sent"
    /\ IF c.state = "served"
       THEN /\ HandledThen(c, list[c.table], "list", "access")
            /\ inviteState' = "sent" /\ accessLoading' = TRUE
       ELSE /\ Ignored(c)
            /\ inviteState' = "error" /\ UNCHANGED accessLoading
    /\ UNCHANGED <<dialog, opens, owner, requestState, busy>>

InviteChanged(c) ==
    /\ c.table = "invites" /\ c.op \in {"remove", "renew"} /\ c.state # "sent"
    /\ IF c.state = "failed" THEN Ignored(c)
       ELSE LET rest == Without(list["invites"], c.row.id)
            IN Handled(c, IF c.op = "renew" THEN c.answer \o rest ELSE rest)
    /\ UNCHANGED shareVars

AccessChanged(c) ==
    /\ c.table = "access" /\ c.op \in {"change", "remove"} /\ c.state # "sent"
    /\ IF c.state = "failed" THEN Ignored(c)
       ELSE Handled(c, IF c.op = "change" THEN Replaced(list["access"], c.row)
                       ELSE Without(list["access"], c.row.id))
    /\ accessBusy' = 0
    /\ UNCHANGED <<dialog, opens, owner, states, accessLoading, requestBusy>>

\* The buttons of an approved request stay disabled until the refresh ends;
\* here, until its first answer is asked for.
RequestResolved(c) ==
    /\ c.table = "requests" /\ c.op \in {"approve", "remove"} /\ c.state # "sent"
    /\ requestBusy' = 0
    /\ LET rest == Without(list["requests"], c.row.id)
       IN IF c.state = "failed" THEN Ignored(c) /\ UNCHANGED accessLoading
          ELSE IF c.op = "approve"
          THEN HandledThen(c, rest, "list", "access") /\ accessLoading' = TRUE
          ELSE Handled(c, rest) /\ UNCHANGED accessLoading
    /\ UNCHANGED <<dialog, opens, owner, states, accessBusy>>

AccessRequested(c) ==
    /\ c.op = "ask" /\ c.state # "sent" /\ Ignored(c)
    /\ requestState' = IF c.state = "served" THEN "sent" ELSE "error"
    /\ UNCHANGED <<dialog, opens, owner, inviteState, accessLoading, busy>>

Shown(table) == {list[table][i] : i \in DOMAIN list[table]}

ShareNext ==
    \/ OpenShare \/ CloseShare \/ TypeEmail \/ SendInvite \/ RefreshAccessList
    \/ \E r \in Shown("invites") : RevokeInvite(r) \/ ResendInvite(r)
    \/ \E r \in Shown("access") :
         RevokeAccess(r) \/ \E role \in {"low", "high"} : UpdateAccessRole(r, role)
    \/ \E r \in Shown("requests"), op \in {"approve", "remove"} : ResolveAccessRequest(r, op)
    \/ RequestEditAccess
    \/ \E c \in calls : (Serve(c) \/ Refuse(c)) /\ UNCHANGED shareVars
    \/ \E c \in calls :
         \/ AccessListed(c) \/ InviteSent(c) \/ InviteChanged(c) \/ AccessChanged(c)
         \/ RequestResolved(c) \/ AccessRequested(c)

ShareSpec == ShareInit /\ [][ShareNext]_<<callVars, shareVars>>

ShareSettled == \A t \in {"access", "invites", "requests"} : Settled(t)
=============================================================================
