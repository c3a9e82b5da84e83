------------------------------ MODULE MCSession ------------------------------
EXTENDS Session

(* The orders of addresses are checked with the connector alone. *)
MCLookups == {<<"IPv6">>}

=============================================================================
