----------------------------- MODULE ShareLinks -----------------------------
(***************************************************************************)
(* The panel of the share links in the share dialog                        *)
(* (app/components/ShareLinksPanel.tsx).  The dialog mounts it anew each   *)
(* time it opens: the tag of a call is the opening it was made in, and the *)
(* answers of earlier ones go nowhere.                                     *)
(***************************************************************************)
EXTENDS Calls

CONSTANTS MaxMounts  \* bound on openings of the dialog

VARIABLES
    mounted,   \* the panel is shown
    mounts,    \* how often it was
    minting   \* "Create link" is disabled

linkVars == <<mounted, mounts, minting>>

LinksTypeOK == mounted \in BOOLEAN /\ mounts \in 0..MaxMounts /\ minting \in BOOLEAN

LinksIdle == mounted = FALSE /\ mounts = 0 /\ minting = FALSE

LinksInit ==
    /\ CallsInit([Empty EXCEPT !["links"] = [id : Existing, st : {"low"}]])
    /\ LinksIdle

links == list["links"]

MountLinks ==
    /\ ~mounted /\ mounts < MaxMounts
    /\ SendWith(calls, "list", "links", NoRow, mounts + 1)
    /\ list' = [list EXCEPT !["links"] = <<>>] /\ unsure' = unsure \cup {"links"}
    /\ mounted' = TRUE /\ mounts' = mounts + 1 /\ minting' = FALSE
    /\ UNCHANGED rows

UnmountLinks ==
    /\ mounted /\ mounted' = FALSE
    /\ UNCHANGED <<callVars, mounts, minting>>

\* The button does not wait for the list.
CreateLink ==
    /\ mounted /\ ~minting
    /\ Send("create", "links", [NoRow EXCEPT !.st = "low"], mounts)
    /\ minting' = TRUE
    /\ UNCHANGED <<mounted, mounts>>

RevokeLink(i) ==
    /\ mounted /\ Send("remove", "links", links[i], mounts)
    /\ UNCHANGED linkVars

LinksAnswered(c) ==
    /\ c.state # "sent"
    /\ LET here == mounted /\ c.tag = mounts
       IN /\ IF ~here \/ c.state = "failed" THEN Ignored(c)
             ELSE Handled(c, CASE c.op = "list"   -> c.answer
                               [] c.op = "create" -> c.answer \o links
                               [] c.op = "remove" -> Without(links, c.row.id))
          /\ minting' = (minting /\ ~(here /\ c.op = "create"))
    /\ UNCHANGED <<mounted, mounts>>

LinksNext ==
    \/ MountLinks \/ UnmountLinks \/ CreateLink
    \/ \E i \in DOMAIN links : RevokeLink(i)
    \/ \E c \in calls : (Serve(c) \/ Refuse(c)) /\ UNCHANGED linkVars
    \/ \E c \in calls : LinksAnswered(c)

LinksSpec == LinksInit /\ [][LinksNext]_<<callVars, linkVars>>

LinksSettled == mounted => Settled("links")
=============================================================================
