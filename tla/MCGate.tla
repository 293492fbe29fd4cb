-------------------------------- MODULE MCGate --------------------------------
(* Clients with the token and without it. *)
EXTENDS Gate

CONSTANTS secret, other
MCPresented == {Missing, BearerOf(secret)}
MCWords == {secret, other, Blank}
=============================================================================
