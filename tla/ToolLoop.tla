------------------------------- MODULE ToolLoop -------------------------------
(***************************************************************************)
(* One session of the tool loop: _run_tool_loop and _prefetch_tool_calls   *)
(* of core/llm_agent_adapter.py, with the compression of the messages      *)
(* (core/context_compression.py), the cancel token it polls, and the       *)
(* breaker for calls that keep missing arguments.                          *)
(*                                                                         *)
(* A response carries calls.  With fan-out on they are all run first, group*)
(* by group (Fanout), and their results looked up by call id afterwards;   *)
(* without it each is run when its turn comes.  The token may be set, and  *)
(* the coroutine cancelled, at any await.                                  *)
(***************************************************************************)
EXTENDS Fanout, Picking

CONSTANTS
  Caps,       \* values of max_parallel_tool_calls, 0 for None
  UniqueIds,  \* does the model give every call of a response an id of its own?
  MaxTurns,   \* max_tool_turns
  Budget,     \* TOOL_ARG_MISSING_LOOP_BUDGET
  Gaps,       \* which required arguments a call may be found to miss
  KeepTail,   \* keep_tail_turns of the compressor
  HardMin,    \* hard_min_messages of the compressor
  Width       \* bound: Width[n], the most calls a response of turn n has

Turns == 0 .. MaxTurns
Slots == 1 .. Width[0]    \* positions in a response, and the ids of its calls

ASSUME LoopAssumption ==
  /\ Caps \subseteq Nat /\ UniqueIds \in BOOLEAN
  /\ {"fine", "none", "running"} \cap Gaps = {}
  /\ MaxTurns \in Nat \ {0} /\ Budget \in Nat \ {0}
  /\ KeepTail \in Nat \ {0} /\ HardMin \in Nat
  /\ Width \in [Turns -> Nat] /\ \A n \in Turns : Width[n] <= Width[0]

Call     == [id : Slots, tool : Tools]
Outcomes == {"fine"} \cup Gaps     \* what came of a call
None     == "none"
Reasons  == {"complete", "timeout", "error", "cancelled", "tool_arg_loop", "max_turns"}

VARIABLES
  cap,        \* _max_parallel_tool_calls
  pc,         \* where the loop is
  turn,
  batch,      \* the calls of the response being worked on
  result,     \* result[i]: "none", "running", or the outcome of call i
  prefetched, \* prefetched[id]: the call whose result is kept under id, or 0
  front,      \* the first call of the group being prefetched
  here,       \* the call whose turn it is
  messages,   \* what the next request carries
  streak,     \* last_loop_key and its count
  told,       \* the tool.result events of the task log, the newest Budget of them
  cancelled,  \* the token is set
  stop        \* stop_reason of the result

vars == <<cap, pc, turn, batch, result, prefetched, front, here, messages, streak,
          told, cancelled, stop>>

\* A message: of an assistant the ids of its calls, of a tool the id it answers and
\* the call whose result it carries.
System       == [role |-> "system", calls |-> <<>>, id |-> 0, of |-> 0]
User         == [System EXCEPT !.role = "user"]
Asst(b)      == [System EXCEPT !.role = "assistant", !.calls = [i \in 1 .. Len(b) |-> b[i].id]]
Answer(id, i) == [System EXCEPT !.role = "tool", !.id = id, !.of = i]

NoResults == [i \in Slots |-> None]
NoStreak  == [tool |-> None, gap |-> None, n |-> 0]

Init ==
  /\ cap \in Caps
  /\ pc = "top" /\ turn = 0
  /\ batch = <<>> /\ result = NoResults /\ prefetched = [id \in Slots |-> 0]
  /\ front = 1 /\ here = 1
  /\ messages = <<System, User>>
  /\ streak = NoStreak /\ told = <<>>
  /\ cancelled = FALSE
  /\ stop = None

-----------------------------------------------------------------------------
(* The compressor.                                                         *)

\* The assistant message that a tool message at k comes after.
IsAskedAt(ms, a, k) ==
  /\ a < k /\ ms[a].role = "assistant"
  /\ \A j \in a + 1 .. k - 1 : ms[j].role # "assistant"

\* Faulty variant: what lost its assistant message is sent all the same.
DropNothing(ms) == ms

\* _drop_orphan_tool_messages: a tool message stays if the last assistant message
\* has a call of its id that no tool message in between has answered.
DropOrphans(ms) ==
  LET kept(k) ==
        ms[k].role = "tool" =>
          \E a \in 1 .. k - 1 :
            /\ IsAskedAt(ms, a, k)
            /\ \E n \in 1 .. Len(ms[a].calls) : ms[a].calls[n] = ms[k].id
            /\ \A j \in a + 1 .. k - 1 : ms[j].role = "tool" => ms[j].id # ms[k].id
  IN  Picked(ms, {k \in 1 .. Len(ms) : kept(k)})

\* compress: the head, a summary in place of the middle, and the tail.
Compressed(ms) ==
  LET tail == IF Len(ms) - KeepTail < 2 THEN 2 ELSE Len(ms) - KeepTail
  IN  IF Len(ms) < HardMin \/ tail = 2 THEN ms
      ELSE DropOrphans(<<ms[1], ms[2], User>> \o SubSeq(ms, tail + 1, Len(ms)))

-----------------------------------------------------------------------------
(* The top of a turn, and the request.                                     *)

End(reason) ==
  /\ pc' = "over" /\ stop' = reason
  /\ UNCHANGED <<cap, turn, batch, result, prefetched, front, here, messages, streak,
                 told, cancelled>>

\* The for loop is through, or the token is set, or the time is up.
StopAtTop ==
  /\ pc = "top"
  /\ \/ turn = MaxTurns /\ End("max_turns")
     \/ turn < MaxTurns /\ cancelled /\ End("cancelled")
     \/ turn < MaxTurns /\ ~cancelled /\ End("timeout")

Begin ==
  /\ pc = "top" /\ turn < MaxTurns /\ ~cancelled
  /\ pc' = "composing"
  /\ UNCHANGED <<cap, turn, batch, result, prefetched, front, here, messages, streak,
                 told, cancelled, stop>>

\* Compression, reminder, hooks, and the request goes out.  The reminder is not
\* kept in the messages.
Ask ==
  /\ pc = "composing"
  /\ messages' \in {messages, Compressed(messages)}
  /\ pc' = "asking"
  /\ UNCHANGED <<cap, turn, batch, result, prefetched, front, here, streak, told, cancelled, stop>>

\* The request fails, or the response is the last word, or holds nothing; a set token
\* comes before what the response says.
Answered ==
  /\ pc = "asking"
  /\ \/ End("timeout") \/ End("error")
     \/ cancelled /\ End("cancelled")
     \/ ~cancelled /\ End("complete")

\* The response makes calls.
CallTools ==
  /\ pc = "asking" /\ ~cancelled
  /\ \E n \in 1 .. Width[turn] : \E b \in [1 .. n -> Call] :
       /\ UniqueIds => \A i \in 1 .. n : b[i].id = i
       /\ batch' = b
       /\ messages' = Append(messages, Asst(b))
  /\ result' = NoResults
  /\ prefetched' = [id \in Slots |-> 0]
  /\ pc' = IF cap > 0 THEN "prefetching" ELSE "answering"
  /\ front' = 1 /\ here' = 1
  /\ UNCHANGED <<cap, turn, streak, told, cancelled, stop>>

-----------------------------------------------------------------------------
(* The prefetch.                                                           *)

Positions == 1 .. Len(batch)
Running   == {i \in Positions : result[i] = "running"}
Has(i)    == result[i] \in Outcomes

\* A single call is checked against the token, a gathered group is not; a group's
\* calls enter the semaphore in order.
Start(i) ==
  /\ pc = "prefetching"
  /\ i \in Group(batch, front) /\ result[i] = None
  /\ \A j \in Group(batch, front) : j < i => result[j] # None
  /\ Cardinality(Running) < cap
  /\ cancelled => Group(batch, front) # {i}
  /\ result' = [result EXCEPT ![i] = "running"]
  /\ UNCHANGED <<cap, pc, turn, batch, prefetched, front, here, messages, streak,
                 told, cancelled, stop>>

\* The tool returns or raises; its result is kept under the id of the call.
Finish(i) ==
  /\ pc = "prefetching" /\ i \in Running
  /\ \E kind \in Outcomes : result' = [result EXCEPT ![i] = kind]
  /\ prefetched' = [prefetched EXCEPT ![batch[i].id] = i]
  /\ UNCHANGED <<cap, pc, turn, batch, front, here, messages, streak, told, cancelled, stop>>

\* Leaving the group at front for the next, or for the answers.
LeaveGroup ==
  LET after == front + Cardinality(Group(batch, front))
  IN  /\ front' = after
      /\ pc' = IF after > Len(batch) THEN "answering" ELSE pc
      /\ UNCHANGED <<cap, turn, batch, result, prefetched, here, messages, streak,
                     told, cancelled, stop>>

\* Faulty variant: a single call that the token forbids is waited for.
NextGroupWhenRun ==
  /\ pc = "prefetching"
  /\ \A j \in Group(batch, front) : Has(j)
  /\ LeaveGroup

\* Faulty variant: the group is started and not waited for.
NextGroupWhenStarted ==
  /\ pc = "prefetching"
  /\ \/ \A j \in Group(batch, front) : result[j] # None
     \/ cancelled /\ Group(batch, front) = {front} /\ result[front] = None
  /\ LeaveGroup

\* The group has been run, or a single call was skipped because the token is set: the
\* break leaves the loop over this group only.
NextGroup ==
  /\ pc = "prefetching"
  /\ \/ \A j \in Group(batch, front) : Has(j)
     \/ cancelled /\ Group(batch, front) = {front} /\ result[front] = None
  /\ LeaveGroup

-----------------------------------------------------------------------------
(* The results, in the order of the calls.                                 *)

IsPrefetched(i) == prefetched[batch[i].id] # 0

\* The checkpoint between two calls.
StopBetween == pc = "answering" /\ cancelled /\ End("cancelled")

\* A call that was not prefetched is run now.
Execute ==
  /\ pc = "answering" /\ ~cancelled /\ ~IsPrefetched(here)
  /\ result' = [result EXCEPT ![here] = "running"]
  /\ pc' = "executing"
  /\ UNCHANGED <<cap, turn, batch, prefetched, front, here, messages, streak,
                 told, cancelled, stop>>

\* Faulty variant: a good call in between does not end the streak.
NextStreakLoose(tool, kind) ==
  IF kind \notin Gaps THEN streak
  ELSE [tool |-> tool, gap |-> kind,
        n |-> IF streak.tool = tool /\ streak.gap = kind THEN streak.n + 1 ELSE 1]

\* The breaker counts calls in a row of one tool that miss the same arguments.
NextStreak(tool, kind) ==
  IF kind \notin Gaps THEN NoStreak
  ELSE [tool |-> tool, gap |-> kind,
        n |-> IF streak.tool = tool /\ streak.gap = kind THEN streak.n + 1 ELSE 1]

\* Faulty variant: the breaker leaves the loop over the calls only.
TripTurnOnly ==
  /\ pc' = "top" /\ turn' = turn + 1
  /\ UNCHANGED <<messages, here, stop>>

Trip ==
  /\ pc' = "over" /\ stop' = "tool_arg_loop"
  /\ UNCHANGED <<messages, here, turn>>

\* Verifier, hooks, observer, and the message; then the next call or the next turn.
Report(c, r) ==
  /\ messages' = Append(messages, Answer(c.id, r))
  /\ here' = here + 1
  /\ IF here = Len(batch) THEN pc' = "top" /\ turn' = turn + 1
     ELSE pc' = "answering" /\ UNCHANGED turn
  /\ UNCHANGED stop

\* The result of call r, of outcome kind, is taken for call here: the event, the
\* breaker, and the rest unless it trips.
Take(r, kind) ==
  LET c == batch[here]
      s == NextStreak(c.tool, kind)
      all == Append(told, [tool |-> c.tool, kind |-> kind])
  IN  /\ streak' = s
      /\ told' = IF Len(all) > Budget THEN Tail(all) ELSE all
      /\ \/ s.n >= Budget /\ Trip
         \/ s.n < Budget /\ Report(c, r)
      /\ UNCHANGED <<cap, batch, prefetched, front, cancelled>>

TakePrefetched ==
  /\ pc = "answering" /\ ~cancelled /\ IsPrefetched(here)
  /\ LET r == prefetched[batch[here].id] IN Take(r, result[r])
  /\ UNCHANGED result

TakeExecuted ==
  /\ pc = "executing"
  /\ \E kind \in Outcomes :
       /\ result' = [result EXCEPT ![here] = kind]
       /\ Take(here, kind)

-----------------------------------------------------------------------------
(* The world around.                                                       *)

\* Someone sets the token.
Cancel ==
  /\ pc \notin {"over", "gone"} /\ ~cancelled
  /\ cancelled' = TRUE
  /\ UNCHANGED <<cap, pc, turn, batch, result, prefetched, front, here, messages, streak,
                 told, stop>>

\* CancelledError at an await, or an error that no clause of the request catches: the
\* coroutine is gone without a result.
Escape ==
  /\ pc \in {"composing", "asking", "prefetching", "answering", "executing"}
  /\ pc' = "gone"
  /\ UNCHANGED <<cap, turn, batch, result, prefetched, front, here, messages, streak,
                 told, cancelled, stop>>

\* What the loop does by itself, or the end of a request.
Step ==
  \/ StopAtTop \/ Begin \/ Ask \/ Answered \/ CallTools
  \/ (\E i \in Slots : Start(i)) \/ NextGroup
  \/ StopBetween \/ Execute \/ TakePrefetched

ToolReturns == (\E i \in Slots : Finish(i)) \/ TakeExecuted

Next == Step \/ ToolReturns \/ Cancel \/ Escape

Spec == Init /\ [][Next]_vars

\* The loop runs on, and requests have a time limit.  Tools have none.
FairSpec == Spec /\ WF_vars(Step)

-----------------------------------------------------------------------------
(* Properties.                                                             *)

\* Types, and what each place in the loop goes with.
TypeOK ==
  /\ cap \in Caps
  /\ pc \in {"top", "composing", "asking", "prefetching", "answering", "executing", "over", "gone"}
  /\ turn \in Turns
  /\ batch \in UNION {[1 .. n -> Call] : n \in 0 .. Width[0]}
  /\ result \in [Slots -> Outcomes \cup {None, "running"}]
  /\ prefetched \in [Slots -> {0} \cup Slots]
  /\ front \in 1 .. Width[0] + 1 /\ here \in 1 .. Width[0] + 1
  /\ streak \in [tool : Tools \cup {None}, gap : Gaps \cup {None}, n : 0 .. Budget]
  /\ told \in Seq([tool : Tools, kind : Outcomes]) /\ Len(told) <= Budget
  /\ cancelled \in BOOLEAN
  /\ stop \in Reasons \cup {None}
  /\ pc = "over" <=> stop # None
  /\ pc \notin {"top", "over", "gone"} => turn < MaxTurns
  /\ pc \in {"prefetching", "answering", "executing"} => here \in Positions
  /\ pc = "prefetching" => front \in Positions

\* Calls that run at one time do not disturb each other: none of them touches the
\* world, no two have one concurrency group, and there are no more than the semaphore
\* lets in (tool_fanout.py:23-26, llm_agent_adapter.py:1266-1301).
NoConflict ==
  /\ Cardinality(Running) <= IF cap = 0 THEN 1 ELSE cap
  /\ \A i, j \in Running :
       i # j => /\ ~IsWorld(batch[i])
                /\ GroupKey(batch[i]) = NoGroup \/ GroupKey(batch[i]) # GroupKey(batch[j])

\* Prefetched or not, a call that touches the world runs after every call before it
\* has ended, and every call after it runs after it has: fan-out does not change what
\* the model's calls see (llm_agent_adapter.py:938-949).
WorldInOrder ==
  \A i, j \in Positions :
    i < j => /\ IsWorld(batch[j]) /\ result[j] # None => Has(i)
             /\ IsWorld(batch[i]) /\ result[j] # None => result[i] # "running"

\* Every request is one a provider accepts: each call of an assistant message is
\* followed by its own result, in order, and no result stands alone, whatever was
\* compressed (context_compression.py:288-299, 389-396).
TranscriptAnswered ==
  pc = "asking" =>
    \A k \in 1 .. Len(messages) :
      /\ messages[k].role = "assistant" =>
           \A n \in 1 .. Len(messages[k].calls) :
             /\ k + n <= Len(messages)
             /\ messages[k + n].role = "tool"
             /\ messages[k + n].id = messages[k].calls[n]
             /\ messages[k + n].of = n
      /\ messages[k].role = "tool" => \E a \in 1 .. k - 1 : IsAskedAt(messages, a, k)

\* The session is stopped by the breaker when, and only when, the task log shows
\* Budget results running of one tool that missed the same arguments, in one response
\* or over several (llm_agent_adapter.py:1084-1124).
BreakerIsExact ==
  stop = "tool_arg_loop" <=>
    /\ Len(told) = Budget
    /\ told[1].kind \in Gaps
    /\ \A k \in 1 .. Budget : told[k] = told[1]

\* Unless a tool hangs, the session comes to an end (llm_agent_adapter.py:668, 1182).
SessionEnds == []<>(Running = {}) => <>(pc \in {"over", "gone"})

\* The builder and the call by call definition cut every response alike: each group takes
\* up where the one before it ended, the last ends with the response, and a group is what
\* its calls reach (tool_fanout.py:128-129).
PartitionAgrees ==
  LET groups == PartitionByEffect(batch)
      end(k) == IF k = 0 THEN 0 ELSE Last(groups[k].calls)
  IN  /\ \A k \in 1 .. Len(groups) :
           LET g == groups[k]
           IN  /\ g.calls # <<>>
               /\ g.calls = [n \in 1 .. end(k) - end(k - 1) |-> end(k - 1) + n]
               /\ \A i \in ToSet(g.calls) :
                    /\ Group(batch, i) = ToSet(g.calls)
                    /\ g.mode = "serial" <=> Alone(batch, i)
      /\ end(Len(groups)) = Len(batch)

\* What the prefetch does once the token is set: "Leave this and subsequent calls
\* unpopulated" (llm_agent_adapter.py:1319-1321): no call is run that comes after one
\* which was skipped.
SkippedStaySkipped == \A i, j \in Positions : i < j /\ result[j] # None => result[i] # None

\* The session as the model sees it.
Due == SubSeq(batch, here, Len(batch))

S == INSTANCE Session WITH Calls <- Call, due <- Due

\* Fan-out, compression and cancellation do not show: the loop implements the session
\* in which calls are answered one after the other (llm_agent_adapter.py:938-949).
ImplementsSession == S!Spec

=============================================================================
