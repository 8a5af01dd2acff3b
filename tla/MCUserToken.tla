----------------------------- MODULE MCUserToken ----------------------------
(* UserToken with two delegations and a click or two. *)
EXTENDS UserToken
=============================================================================
