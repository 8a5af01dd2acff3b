------------------------------ MODULE MCToolLoop ------------------------------
(* Three tools: a read, a call that changes the agent's own state and shares  *)
(* its group with the write, and a write.                                     *)
EXTENDS Bedrock

MCTools   == {"look", "note", "write"}
MCEffect  == [t \in MCTools |-> CASE t = "look" -> "read" [] t = "note" -> "self" [] t = "write" -> "world"]
MCGroup   == [t \in MCTools |-> IF t = "look" THEN NoGroup ELSE "g"]
MCWidth   == [n \in 0 .. MaxTurns |-> IF n = 0 THEN 3 ELSE 1]

=============================================================================
