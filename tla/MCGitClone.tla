----------------------------- MODULE MCGitClone -----------------------------
EXTENDS GitClone

\* Two messages of one thread of the tech lead and one of the product manager.
MCHome   == [m \in Messages |-> IF m = "pm1" THEN PM ELSE TL]

=============================================================================
