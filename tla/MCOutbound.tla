------------------------------ MODULE MCOutbound ------------------------------
(* A relay, and Bedrock behind it.                                            *)
EXTENDS Outbound

MCModelOf == <<"relay", "profile">>

=============================================================================
