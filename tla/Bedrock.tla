-------------------------------- MODULE Bedrock --------------------------------
(***************************************************************************)
(* The fallback provider speaks another language: bedrock_transport.py    *)
(* rewrites the messages of the tool loop, and the response on the way     *)
(* back.  This module is the rewriting of the messages ToolLoop builds; a  *)
(* turn has the calls it makes, the calls it answers, or just text.        *)
(***************************************************************************)
EXTENDS ToolLoop

Turn(role, uses, answers) == [role |-> role, uses |-> uses, answers |-> answers]

\* The turns written so far, and the results not written yet.
Empty == [turns |-> <<>>, held |-> <<>>]

\* Faulty variant: results are kept for a later turn once there is one.
FlushOnce(acc) ==
  IF acc.held = <<>> \/ \E k \in 1 .. Len(acc.turns) : acc.turns[k].answers # <<>> THEN acc
  ELSE [turns |-> Append(acc.turns, Turn("user", <<>>, acc.held)), held |-> <<>>]

\* _flush_tool_results: the results held become one user turn.
FlushResults(acc) ==
  IF acc.held = <<>> THEN acc
  ELSE [turns |-> Append(acc.turns, Turn("user", <<>>, acc.held)), held |-> <<>>]

\* One message: a result is held, a system message goes elsewhere, anything else is a
\* turn of its own.
Rewrite(acc, m) ==
  LET flushed == FlushResults(acc)
      turned(t) == [flushed EXCEPT !.turns = Append(@, t)]
  IN  CASE m.role = "tool"      -> [acc EXCEPT !.held = Append(@, m.id)]
        [] m.role = "system"    -> flushed
        [] m.role = "user"      -> turned(Turn("user", <<>>, <<>>))
        [] m.role = "assistant" -> turned(Turn("assistant", m.calls, <<>>))

\* openai_payload_to_anthropic.
ToAnthropic(ms) ==
  LET acc[n \in 0 .. Len(ms)] == IF n = 0 THEN Empty ELSE Rewrite(acc[n - 1], ms[n])
  IN  FlushResults(acc[Len(ms)]).turns

\* anthropic_message_to_openai: the response of a turn, as the loop appends it.
FromAnthropic(t) == [System EXCEPT !.role = "assistant", !.calls = t.uses]

\* What the assistant said, in the messages of either language.
SaidIn(ms) == Picked(ms, {k \in 1 .. Len(ms) : ms[k].role = "assistant"})

\* What a request carries: the messages, with a reminder behind them or without.
Requests == {messages, Append(messages, User)}

-----------------------------------------------------------------------------
(* Properties.                                                             *)

\* The rewritten conversation opens with a user turn, a turn that makes calls is followed
\* by one user turn with exactly their results, results stand nowhere else, and no call of
\* the history is lost or changed.
Accepted(ms) ==
  LET ts    == ToAnthropic(ms)
      calls == SaidIn(ms)
      made  == SaidIn(ts)
  IN  /\ ts[1].role = "user"
      /\ \A k \in 1 .. Len(ts) :
           /\ ts[k].uses # <<>> => k < Len(ts) /\ ts[k + 1].answers = ts[k].uses
           /\ ts[k].answers # <<>> => k > 1 /\ ts[k - 1].uses = ts[k].answers
      /\ Len(made) = Len(calls)
      /\ \A k \in 1 .. Len(made) : FromAnthropic(made[k]) = calls[k]

\* The fallback can take over any request of the loop, with a reminder or without: every
\* request is accepted as it is rewritten, whatever was prefetched, skipped or compressed
\* before it (bedrock_transport.py:153-165).
FallbackAccepts == pc = "asking" => \A ms \in Requests : Accepted(ms)

=============================================================================
