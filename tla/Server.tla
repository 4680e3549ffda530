------------------------------- MODULE Server -------------------------------
(***************************************************************************)
(* Three parts of the API server that do not touch one another: invites    *)
(* (Sharing), updates between nodes (Relay) and the activity log           *)
(* (Activity).  `part' says which of them a behaviour is about, the others *)
(* stand still.                                                            *)
(***************************************************************************)
EXTENDS Sharing, Relay, Activity

VARIABLE part

serverVars == <<part, sharingVars, relayVars, activityVars>>

ServerInit ==
    /\ part \in {"invites", "relay", "activity"}
    /\ SharingInit /\ RelayInit /\ ActivityInit

Invites == part = "invites" /\ SharingNext /\ UNCHANGED <<part, relayVars, activityVars>>
Nodes   == part = "relay" /\ RelayNext /\ UNCHANGED <<part, sharingVars, activityVars>>
Events  == part = "activity" /\ ActivityNext /\ UNCHANGED <<part, sharingVars, relayVars>>

ServerNext == Invites \/ Nodes \/ Events

ServerSpec == ServerInit /\ [][ServerNext]_serverVars

\* Every value of the three parts has its type (store/invites.go, sync/broker.go,
\* store/activity.go).
ServerTypeOK == SharingTypeOK /\ RelayTypeOK /\ ActivityTypeOK
=============================================================================
