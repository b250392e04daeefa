------------------------- MODULE MCBuildVerification -------------------------
(* One helper and one direct launch in a workspace; four runs in all. *)
EXTENDS BuildVerification
H == {"h"}
D == {"d"}
==============================================================================
