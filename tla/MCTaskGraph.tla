----------------------------- MODULE MCTaskGraph -----------------------------
(* TaskGraph on small instances: agents a1, a2 dispatched by the tech-lead  *)
(* bot, two tasks of one concurrency group where the second depends on the  *)
(* first, or not.                                                           *)
EXTENDS TaskGraph

CONSTANTS tl, pm, a1, a2, t1, t2, g1

MCHome       == [a \in Agents |-> tl]
MCDeps       == [t \in Tasks |-> IF t = t2 THEN {t1} ELSE {}]
MCGroup      == [t \in Tasks |-> g1]
MCRank       == [t \in Tasks |-> IF t = t1 THEN 1 ELSE 2]
=============================================================================
