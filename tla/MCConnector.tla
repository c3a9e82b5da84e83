------------------------------ MODULE MCConnector ------------------------------
EXTENDS Connector

(* No address; none that is used; and a list that has to be reordered. *)
MCLookups == {<<>>, <<"other">>, <<"IPv4", "other", "IPv6", "IPv6">>}

=============================================================================
