------------------------------- MODULE Panels -------------------------------
(***************************************************************************)
(* The four panels that show a list of the database and change it: the     *)
(* comments, the share dialog with its links, and the dashboard.  They     *)
(* differ in what they send and in what they do with an answer; the calls  *)
(* and the lists are those of Calls.                                       *)
(***************************************************************************)
EXTENDS Comments, ShareDialog, ShareLinks, Dashboard

PanelsTypeOK ==
    /\ CallsTypeOK
    /\ CommentsTypeOK /\ ShareTypeOK /\ LinksTypeOK /\ DashTypeOK

PanelsAssumption == CallsAssumption /\ CommentsAssumption /\ DashAssumption
=============================================================================
