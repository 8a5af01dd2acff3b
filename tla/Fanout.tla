-------------------------------- MODULE Fanout --------------------------------
(***************************************************************************)
(* core/tool_fanout.py: how the tool calls of one response are cut into    *)
(* groups that may run side by side.  PartitionByEffect is the builder of  *)
(* the code; Group says the same without a builder, and is what ToolLoop   *)
(* runs by and what is proved about.                                       *)
(***************************************************************************)
EXTENDS Integers, Sequences, SequencesExt

CONSTANTS
  Tools,     \* a tool with the arguments that decide its group
  EffectOf,  \* EffectOf[t]: the effect its spec advertises; none counts as "world"
  GroupOf,   \* GroupOf[t]: its concurrency_group, or NoGroup
  NoGroup

Effects == {"self", "read", "world"}

ASSUME ToolAssumption == EffectOf \in [Tools -> Effects]

\* A call of a response: the id the model gave it, and the tool.
IsWorld(c) == EffectOf[c.tool] = "world"
GroupKey(c) == GroupOf[c.tool]

-----------------------------------------------------------------------------
(* The builder.                                                            *)

EmptyBuilder == [buf |-> <<>>, groups |-> <<>>, seen |-> {}]

\* Faulty variant: the buffer is emitted and kept.
FlushAndKeep(b) ==
  IF b.buf = <<>> THEN b
  ELSE [b EXCEPT !.groups = Append(@, [calls |-> b.buf, mode |-> "concurrent"])]

\* flush_concurrent: what was seen stays seen.
Flush(b) ==
  IF b.buf = <<>> THEN b
  ELSE [b EXCEPT !.buf = <<>>,
                 !.groups = Append(@, [calls |-> b.buf, mode |-> "concurrent"])]

EmitSerial(b, i) ==
  [b EXCEPT !.groups = Append(@, [calls |-> <<i>>, mode |-> "serial"])]

Seeing(b, key) == IF key = NoGroup THEN b ELSE [b EXCEPT !.seen = @ \cup {key}]

\* The body of the loop over the calls.
Place(b, batch, i) ==
  LET c == batch[i]
      key == GroupKey(c)
  IN  IF IsWorld(c) THEN Seeing(EmitSerial(Flush(b), i), key)
      ELSE IF key # NoGroup /\ key \in b.seen THEN EmitSerial(Flush(b), i)
      ELSE [Seeing(b, key) EXCEPT !.buf = Append(@, i)]

\* The groups as sequences of positions in the batch.
PartitionByEffect(batch) ==
  LET built[i \in 0 .. Len(batch)] ==
        IF i = 0 THEN EmptyBuilder ELSE Place(built[i - 1], batch, i)
  IN  Flush(built[Len(batch)]).groups

-----------------------------------------------------------------------------
(* The same, call by call.                                                 *)

\* Faulty variant: only world-effecting calls are kept apart.
WorldAlone(batch, i) == IsWorld(batch[i])

\* A call runs alone if it touches the world or if its key occurred before it.
Alone(batch, i) ==
  \/ IsWorld(batch[i])
  \/ /\ GroupKey(batch[i]) # NoGroup
     /\ \E j \in 1 .. i - 1 : GroupKey(batch[j]) = GroupKey(batch[i])

\* The calls that run side by side with call i: those it reaches without passing
\* one that runs alone.
Group(batch, i) ==
  IF Alone(batch, i) THEN {i}
  ELSE {j \in 1 .. Len(batch) :
          \A k \in 1 .. Len(batch) : (i <= k /\ k <= j) \/ (j <= k /\ k <= i) => ~Alone(batch, k)}

=============================================================================
