-------------------------------- MODULE Session --------------------------------
(***************************************************************************)
(* A tool session as the model at the other end sees it: it is asked, it   *)
(* answers with tool calls, and it is asked again only when every call has *)
(* got its result, in the order of the calls.  How the calls are run, side *)
(* by side or not, does not show.                                          *)
(***************************************************************************)
EXTENDS Naturals, Sequences

CONSTANTS
  Calls,    \* tool calls
  MaxTurns  \* max_tool_turns

VARIABLES
  turn,  \* responses whose calls have all been answered
  due,   \* the calls of the last response that wait for their result
  stop   \* why the session ended, "none" while it has not

vars == <<turn, due, stop>>

Init == turn = 0 /\ due = <<>> /\ stop = "none"

\* The model asks for tools.
Call ==
  /\ stop = "none" /\ due = <<>> /\ turn < MaxTurns
  /\ due' \in Seq(Calls) /\ due' # <<>>
  /\ UNCHANGED <<turn, stop>>

\* The first call that waits gets its result.
Answer ==
  /\ stop = "none" /\ due # <<>>
  /\ due' = Tail(due)
  /\ turn' = IF due' = <<>> THEN turn + 1 ELSE turn
  /\ UNCHANGED stop

\* A session ends between two turns, except that a cancellation and the breaker may
\* end it between two results.
End ==
  /\ stop = "none"
  /\ \/ due = <<>> /\ turn < MaxTurns /\ stop' \in {"complete", "timeout", "error", "cancelled"}
     \/ due = <<>> /\ turn = MaxTurns /\ stop' = "max_turns"
     \/ due # <<>> /\ stop' \in {"cancelled", "tool_arg_loop"}
  /\ UNCHANGED <<turn, due>>

Next == Call \/ Answer \/ End

Spec == Init /\ [][Next]_vars

=============================================================================
