------------------------- MODULE MCLoginCredentials -------------------------
(* A few init tasks of one client around the expiry of its token.          *)
EXTENDS LoginCredentials
=============================================================================
