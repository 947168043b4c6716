--------------------------- MODULE MCHubAdmission ---------------------------
(***************************************************************************)
(* Small hubs for TLC: who connects, and what two administrators do.         *)
(***************************************************************************)
EXTENDS HubAdmission, TLC

CONSTANTS s1, s2, s3, a1, a2   \* model values: sessions and admin threads

SameUser == [s \in Sessions |-> "user"]
OffOnAndStop == a1 :> <<"offline", "online">> @@ a2 :> <<"stop">>
OffAndOffOn == a1 :> <<"offline">> @@ a2 :> <<"offline", "online">>
NoCalls == [a \in Admins |-> <<>>]
=============================================================================
