------------------------- MODULE MCProspectOutreach -------------------------
(* Instances of ProspectOutreach for TLC. *)
EXTENDS ProspectOutreach, TLC

CONSTANTS d1, w1, c1, c2, to, cc

TwoAddresses == <<cc, to>>
=============================================================================
