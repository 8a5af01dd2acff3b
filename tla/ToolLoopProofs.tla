---------------------------- MODULE ToolLoopProofs ----------------------------
(***************************************************************************)
(* Proofs about ToolLoop: its types, that calls which run side by side do  *)
(* not disturb each other, that a call which touches the world keeps its   *)
(* place, that the breaker trips exactly when the log shows the loop, that *)
(* a session in which calls are answered in turn is implemented, that      *)
(* every request is well formed whatever was compressed, and that the      *)
(* builder cuts a response as Group says, for any tools, any width of      *)
(* fan-out and any number of calls and turns; about Bedrock: that every    *)
(* request can be taken over by the fallback; and about TaskState: that a  *)
(* task resumes from any snapshot, and that the model is told what it said *)
(* itself, for any todos, plans and lengths of the log.                    *)
(***************************************************************************)
EXTENDS Bedrock, TaskState, SequenceTheorems, FiniteSetTheorems, WellFoundedInduction, TLAPS

-----------------------------------------------------------------------------
(* The groups: Fanout by itself, for any response b.                          *)

\* A set of positions that is not empty has a last one.
LEMMA LastPosition ==
  ASSUME NEW n \in Nat, NEW G, G \subseteq 1 .. n, G # {}
  PROVE  \E m \in G : \A j \in G : j <= m
<1> DEFINE T == {n - j : j \in G}
<1>1. T \subseteq Nat /\ T # {}
  <2>1. \A j \in G : n - j \in Nat
    OBVIOUS
  <2>2. PICK j \in G : TRUE
    OBVIOUS
  <2>3. n - j \in T
    OBVIOUS
  <2> QED
    BY <2>1, <2>3
<1>2. PICK x \in T : \A y \in T : ~(<<y, x>> \in OpToRel(<, Nat))
  BY <1>1, NatLessThanWellFounded, WFMin
<1>3. \A y \in T : ~(y < x)
  BY <1>1, <1>2 DEF OpToRel
<1>4. PICK m \in G : x = n - m
  BY <1>2
<1>5. ASSUME NEW j \in G PROVE j <= m
  <2>1. n - j \in T
    BY <1>5
  <2>2. ~(n - j < n - m)
    BY <2>1, <1>3, <1>4
  <2> QED
    BY <2>2, <1>4, <1>5
<1> QED
  BY <1>5

\* Where the loop over the groups may stand: at the first call, at one that runs
\* alone, or after one.
Starts(b, f) == f = 1 \/ Alone(b, f) \/ Alone(b, f - 1)

\* The group at f is the interval from f to its last call, and what comes after it
\* starts a group: the loop over the groups passes over no call.
THEOREM GroupIsInterval ==
  ASSUME NEW b, Len(b) \in Nat,
         NEW f \in 1 .. Len(b), Starts(b, f)
  PROVE  LET size == Cardinality(Group(b, f))
         IN  /\ size \in Nat \ {0}
             /\ f + size <= Len(b) + 1
             /\ Group(b, f) = f .. f + size - 1
             /\ Starts(b, f + size) \/ f + size = Len(b) + 1
<1> DEFINE n == Len(b)
           G == Group(b, f)
           A(k) == Alone(b, k)
<1> USE DEF Starts
<1>1. CASE A(f)
  <2>1. G = {f}
    BY <1>1 DEF Group
  <2>2. Cardinality(G) = 1
    BY <2>1, FS_Singleton
  <2>3. G = f .. f
    BY <2>1
  <2> QED
    BY <1>1, <2>2, <2>3
<1>2. CASE ~A(f)
  <2> DEFINE Clear(i, j) == \A k \in 1 .. n : (i <= k /\ k <= j) \/ (j <= k /\ k <= i) => ~A(k)
  <2>1. G = {j \in 1 .. n : Clear(f, j)}
    BY <1>2 DEF Group
  <2>2. f \in G
    BY <2>1, <1>2
  <2>3. PICK m \in G : \A j \in G : j <= m
    BY <2>1, <2>2, LastPosition, n \in Nat
  <2>4. \A j \in G : f <= j
    <3> SUFFICES ASSUME NEW j \in 1 .. n, Clear(f, j), j < f PROVE FALSE
      BY <2>1
    <3>1. f - 1 \in 1 .. n /\ j <= f - 1 /\ f - 1 <= f
      OBVIOUS
    <3>2. A(f - 1)
      BY <1>2, <3>1
    <3> QED
      BY <3>1, <3>2
  <2>5. m \in 1 .. n /\ f <= m /\ Clear(f, m)
    BY <2>1, <2>3, <2>4
  <2>6. G = f .. m
    <3>1. ASSUME NEW j \in f .. m PROVE j \in G
      BY <2>5, <2>1
    <3>2. ASSUME NEW j \in G PROVE j \in f .. m
      BY <2>3, <2>4, <2>1, <2>5
    <3> QED
      BY <3>1, <3>2
  <2>7. Cardinality(G) = m - f + 1
    BY <2>5, <2>6, FS_Interval
  <2>8. m < n => A(m + 1)
    <3> SUFFICES ASSUME m < n, ~A(m + 1) PROVE FALSE
      OBVIOUS
    <3>1. m + 1 \in 1 .. n /\ Clear(f, m + 1)
      BY <2>5
    <3>2. m + 1 \in G
      BY <2>1, <3>1
    <3> QED
      BY <2>3, <2>5, <3>2
  <2> QED
    BY <2>5, <2>6, <2>7, <2>8
<1> QED
  BY <1>1, <1>2

\* Two calls of one group do not touch the world and have no concurrency group in
\* common.
THEOREM GroupIsCompatible ==
  ASSUME NEW b, Len(b) \in Nat,
         NEW f \in 1 .. Len(b),
         NEW i \in Group(b, f), NEW j \in Group(b, f), i # j
  PROVE  /\ ~IsWorld(b[i])
         /\ GroupKey(b[i]) = NoGroup \/ GroupKey(b[i]) # GroupKey(b[j])
<1>1. ~Alone(b, f) /\ i \in 1 .. Len(b) /\ j \in 1 .. Len(b)
  BY DEF Group
<1>2. ~Alone(b, i) /\ ~Alone(b, j)
  BY <1>1 DEF Group
<1>3. j < i => j \in 1 .. i - 1
  BY <1>1
<1>4. i < j => i \in 1 .. j - 1
  BY <1>1
<1>5. i < j \/ j < i
  BY <1>1
<1> QED
  BY <1>2, <1>3, <1>4, <1>5 DEF Alone

-----------------------------------------------------------------------------
(* The invariant.                                                             *)

\* Nothing runs but the group at front, or the call at here.
Working ==
  /\ pc \in {"top", "composing", "asking", "answering", "over"} => Running = {}
  /\ pc = "executing" => Running = {here}
  /\ pc = "prefetching" => Running \subseteq Group(batch, front)

\* The prefetch stands where a group starts.  What is before it has been run unless
\* the token is set, and what is after the group has not been started.
Cutting ==
  pc = "prefetching" =>
    /\ cap > 0 /\ Starts(batch, front)
    /\ \A i \in Positions : i < front => Has(i) \/ cancelled
    /\ \A i \in Positions : i >= front /\ i \notin Group(batch, front) => result[i] = None
    /\ \A i \in Positions : i < front => result[i] # "running"

\* Results are taken after the prefetch, or as the calls are run.
Serving ==
  pc \in {"answering", "executing"} =>
    /\ cap > 0 => pc = "answering" /\ \A i \in Positions : Has(i) \/ cancelled
    /\ cap = 0 => /\ \A i \in Positions : i < here => Has(i)
                  /\ \A i \in Positions : i > here => result[i] = None
                  /\ pc = "answering" => result[here] = None

\* What has been prefetched can be found under its id.
Kept ==
  /\ cap > 0 => \A i \in Positions : Has(i) => IsPrefetched(i)
  /\ cap = 0 => \A id \in Slots : prefetched[id] = 0
  /\ \A id \in Slots : prefetched[id] # 0 => prefetched[id] \in Positions /\ Has(prefetched[id])

\* The streak is the end of the log.
Streaks ==
  LET n   == streak.n
      key == [tool |-> streak.tool, kind |-> streak.gap]
      L   == Len(told)
  IN  /\ n <= L
      /\ \A k \in 1 .. L : k > L - n => told[k] = key
      /\ n > 0 <=> streak.gap \in Gaps
      /\ n > 0 /\ n < L => told[L - n] # key
      /\ n = 0 /\ L > 0 => told[L].kind \notin Gaps
      /\ n = Budget <=> stop = "tool_arg_loop"

Inv ==
  /\ TypeOK /\ Working /\ Cutting /\ Serving /\ Kept /\ Streaks
  /\ NoConflict /\ WorldInOrder

-----------------------------------------------------------------------------
LEMMA BatchType ==
  ASSUME TypeOK
  PROVE  /\ Len(batch) \in Nat /\ Len(batch) <= Width[0]
         /\ Positions \subseteq Slots
         /\ \A i \in Positions : batch[i] \in Call /\ batch[i].id \in Slots /\ batch[i].tool \in Tools
<1>1. PICK n \in 0 .. Width[0] : batch \in [1 .. n -> Call]
  BY DEF TypeOK
<1>2. Width[0] \in Nat
  BY LoopAssumption DEF Turns
<1>3. batch \in Seq(Call) /\ n \in Nat
  BY <1>1, <1>2, SeqDef
<1>4. Len(batch) = n
  BY <1>1, <1>3, LenProperties
<1> QED
  BY <1>1, <1>2, <1>4 DEF Positions, Slots, Call

\* At the start nothing has been asked yet.
LEMMA InitInv == Init => Inv
<1> SUFFICES ASSUME Init PROVE Inv
  OBVIOUS
<1> USE LoopAssumption DEF Init, Turns
<1>0. 0 \in 0 .. MaxTurns /\ Width[0] \in Nat
  OBVIOUS
<1>1. Len(batch) = 0 /\ Positions = {} /\ Running = {}
  BY DEF Positions, Running
<1>2. TypeOK
  <2>1. batch \in UNION {[1 .. n -> Call] : n \in 0 .. Width[0]}
    <3>1. batch \in [1 .. 0 -> Call]
      BY DEF Call
    <3> QED
      BY <1>0, <3>1, SMTT(30)
  <2>2. told \in Seq([tool : Tools, kind : Outcomes]) /\ Len(told) <= Budget
    OBVIOUS
  <2>3. result \in [Slots -> Outcomes \cup {None, "running"}]
    BY DEF NoResults
  <2>4. prefetched \in [Slots -> {0} \cup Slots]
    OBVIOUS
  <2>5. streak \in [tool : Tools \cup {None}, gap : Gaps \cup {None}, n : 0 .. Budget]
    BY DEF NoStreak
  <2>6. front \in 1 .. Width[0] + 1 /\ here \in 1 .. Width[0] + 1
    BY <1>0
  <2>7. turn \in Turns
    BY <1>0
  <2>8. cancelled \in BOOLEAN /\ cap \in Caps /\ stop = None /\ pc = "top"
    OBVIOUS
  <2> QED
    BY <2>1, <2>2, <2>3, <2>4, <2>5, <2>6, <2>7, <2>8 DEF TypeOK
<1>3. Working /\ Cutting /\ Serving /\ Kept
  BY <1>1 DEF Working, Cutting, Serving, Kept
<1>4. Streaks
  BY <1>1 DEF Streaks, NoStreak, None
<1>5. NoConflict /\ WorldInOrder
  BY <1>1, FS_EmptySet DEF NoConflict, WorldInOrder
<1> QED
  BY <1>2, <1>3, <1>4, <1>5 DEF Inv

\* The session ends with a result, and not by the breaker.
LEMMA EndInv ==
  ASSUME Inv, NEW reason \in Reasons \ {"tool_arg_loop"},
         pc \in {"top", "asking", "answering"}, End(reason)
  PROVE  Inv'
<1> USE DEF Inv, End
<1>1. /\ pc' = "over" /\ stop' = reason /\ reason # None /\ stop = None
      /\ UNCHANGED <<cap, turn, batch, result, prefetched, front, here, streak, told, cancelled>>
  BY DEF TypeOK, Reasons, None
<1>2. UNCHANGED <<Positions, Running>> /\ Running = {}
  BY <1>1 DEF Positions, Running, Working
<1>3. TypeOK'
  BY <1>1, <1>2 DEF TypeOK, Call, Reasons, None
<1>4. Working' /\ Cutting' /\ Serving' /\ Kept'
  BY <1>1, <1>2 DEF Working, Cutting, Serving, Kept, Has, IsPrefetched
<1>5. Streaks'
  BY <1>1 DEF Streaks, None
<1>6. NoConflict' /\ WorldInOrder'
  BY <1>1, <1>2 DEF NoConflict, WorldInOrder, Has
<1> QED
  BY <1>3, <1>4, <1>5, <1>6

\* Steps that only move on between two requests, set the token, or lose the coroutine.
LEMMA QuietInv ==
  ASSUME Inv, Begin \/ Ask \/ Cancel \/ Escape
  PROVE  Inv'
<1> USE DEF Inv
<1>1. /\ UNCHANGED <<cap, turn, batch, result, prefetched, front, here, streak, told, stop>>
      /\ pc' \in {"composing", "asking", "gone", pc}
      /\ pc' = "composing" => pc \in {"top", "composing"}
      /\ pc' = "asking" => pc \in {"composing", "asking"}
      /\ pc' # "over" <=> pc # "over"
      /\ pc' = "composing" => turn < MaxTurns
      /\ cancelled' \in BOOLEAN /\ (cancelled => cancelled')
  BY DEF TypeOK, Begin, Ask, Cancel, Escape
<1>2. UNCHANGED <<Positions, Running>>
  BY <1>1 DEF Positions, Running
<1>3. TypeOK'
  BY <1>1, <1>2 DEF TypeOK, Call
<1>4. Working' /\ Cutting' /\ Serving' /\ Kept'
  BY <1>1, <1>2 DEF Working, Cutting, Serving, Kept, Has, IsPrefetched
<1>5. Streaks'
  BY <1>1 DEF Streaks
<1>6. NoConflict' /\ WorldInOrder'
  BY <1>1, <1>2 DEF NoConflict, WorldInOrder, Has
<1> QED
  BY <1>3, <1>4, <1>5, <1>6

\* A response brings new calls.
LEMMA CallToolsInv == ASSUME Inv, CallTools PROVE Inv'
<1> USE DEF Inv
<1>1. PICK n \in 1 .. Width[turn] : batch' \in [1 .. n -> Call]
  BY DEF CallTools
<1>2. /\ pc = "asking" /\ pc' \in {"prefetching", "answering"}
      /\ pc' = "prefetching" <=> cap > 0
      /\ result' = NoResults /\ prefetched' = [id \in Slots |-> 0]
      /\ front' = 1 /\ here' = 1
      /\ UNCHANGED <<cap, turn, streak, told, cancelled, stop>>
  BY DEF CallTools
<1>3. n \in 1 .. Width[0] /\ Width[0] \in Nat
  <2>1. turn \in Turns /\ 0 \in Turns /\ Width[turn] \in Nat /\ Width[0] \in Nat /\ Width[turn] <= Width[0]
    BY LoopAssumption DEF TypeOK, Turns
  <2> QED
    BY <1>1, <2>1
<1>4. Len(batch') = n
  <2>1. batch' \in Seq(Call)
    BY <1>1, <1>3, SeqDef
  <2> QED
    BY <1>1, <1>3, <2>1, LenProperties
<1>5. Positions' = 1 .. n /\ Positions' \subseteq Slots /\ Running' = {}
  BY <1>2, <1>3, <1>4 DEF Positions, Running, Slots, NoResults, None
<1>6. TypeOK'
  <2>1. batch' \in UNION {[1 .. m -> Call'] : m \in 0 .. Width[0]}
    BY <1>1, <1>3 DEF Call
  <2>2. result' \in [Slots -> Outcomes \cup {None, "running"}]
    BY <1>2 DEF NoResults
  <2>3. /\ 1 \in Positions' /\ front' \in 1 .. Width[0] + 1 /\ here' \in 1 .. Width[0] + 1
    BY <1>2, <1>3, <1>5
  <2>4. turn < MaxTurns /\ stop = None
    BY <1>2 DEF TypeOK
  <2> QED
    BY <1>2, <2>1, <2>2, <2>3, <2>4 DEF TypeOK
<1>7. \A i \in Positions' : result'[i] = None /\ ~Has(i)'
  BY <1>2, <1>5, LoopAssumption DEF NoResults, Has, Outcomes, None
<1>8. cap \in Nat /\ Len(batch') \in Nat
  BY <1>3, <1>4, LoopAssumption DEF TypeOK
<1>9. Working' /\ Cutting' /\ Serving' /\ Kept'
  BY <1>2, <1>5, <1>7, <1>8 DEF Working, Cutting, Serving, Kept, Starts
<1>10. Streaks'
  BY <1>2 DEF Streaks
<1>11. NoConflict' /\ WorldInOrder'
  BY <1>2, <1>5, <1>7, <1>8, FS_EmptySet DEF NoConflict, WorldInOrder
<1> QED
  BY <1>6, <1>9, <1>10, <1>11

\* The calls that run are finitely many.
LEMMA RunningFinite ==
  ASSUME TypeOK
  PROVE  IsFiniteSet(Running) /\ Cardinality(Running) \in Nat
<1>1. Running \subseteq Positions /\ Len(batch) \in Nat
  BY BatchType DEF Running
<1>2. IsFiniteSet(Positions)
  BY <1>1, FS_Interval DEF Positions
<1> QED
  BY <1>1, <1>2, FS_Subset, FS_CardinalityType

\* A call of the group at front is started.
LEMMA StartInv == ASSUME Inv, NEW i \in Slots, Start(i) PROVE Inv'
<1> USE DEF Inv
<1> DEFINE G == Group(batch, front)
<1>1. /\ pc = "prefetching" /\ i \in G /\ result[i] = None
      /\ Cardinality(Running) < cap /\ (cancelled => G # {i})
      /\ result' = [result EXCEPT ![i] = "running"]
      /\ UNCHANGED <<cap, pc, turn, batch, prefetched, front, here, streak, told, cancelled, stop>>
  BY DEF Start
<1>2. /\ front \in Positions /\ Starts(batch, front) /\ Len(batch) \in Nat /\ cap \in Nat
      /\ Running \subseteq G /\ Positions \subseteq Nat
  BY <1>1, BatchType, LoopAssumption DEF TypeOK, Cutting, Working, Positions
<1>3. /\ front \in G /\ G \subseteq Positions /\ Positions \subseteq Slots
      /\ \A j \in G : front <= j
      /\ \A j \in Positions : j < front \/ j \in G \/ \A k \in G : k < j
  <2>1. LET size == Cardinality(G) IN size \in Nat \ {0} /\ front + size <= Len(batch) + 1 /\ G = front .. front + size - 1
    BY <1>2, GroupIsInterval DEF Positions
  <2> QED
    BY <1>2, <2>1, BatchType, SMTT(30) DEF Positions
<1>4. /\ Positions' = Positions /\ Running' = Running \cup {i} /\ i \notin Running
      /\ \A j \in Positions : j # i => result'[j] = result[j]
      /\ result'[i] = "running" /\ ~Has(i) /\ ~Has(i)'
  BY <1>1, <1>3, LoopAssumption DEF TypeOK, Positions, Running, Has, Outcomes, None
<1>5. TypeOK'
  <2>1. result' \in [Slots -> Outcomes \cup {None, "running"}]
    BY <1>1 DEF TypeOK
  <2> QED
    BY <1>1, <1>4, <2>1 DEF TypeOK, Call
<1>6. Working' /\ Cutting' /\ Serving'
  <2>1. Working'
    BY <1>1, <1>2, <1>4 DEF Working
  <2>2. Serving'
    BY <1>1 DEF Serving
  <2>3. \A j \in Positions : j < front => j # i
    BY <1>1, <1>2, <1>3
  <2>4. Cutting'
    BY <1>1, <1>4, <2>3 DEF Cutting, Has
  <2> QED
    BY <2>1, <2>2, <2>4
<1>7. Kept'
  BY <1>1, <1>4, BatchType DEF Kept, Has, IsPrefetched
<1>8. Streaks'
  BY <1>1 DEF Streaks
<1>9. NoConflict'
  <2>1. Cardinality(Running') <= cap
    <3>1. Cardinality(Running \cup {i}) = Cardinality(Running) + 1
      BY <1>4, RunningFinite, FS_AddElement
    <3> QED
      BY <1>1, <1>2, <1>4, <3>1, RunningFinite
  <2>2. ASSUME NEW j \in Running', NEW k \in Running', j # k
        PROVE  /\ ~IsWorld(batch[j])
               /\ GroupKey(batch[j]) = NoGroup \/ GroupKey(batch[j]) # GroupKey(batch[k])
    BY <1>1, <1>2, <1>4, <2>2, GroupIsCompatible DEF Positions
  <2>3. cap # 0
    BY <1>1 DEF Cutting
  <2> QED
    BY <1>1, <2>1, <2>2, <2>3 DEF NoConflict
<1>10. WorldInOrder'
  <2> SUFFICES ASSUME NEW j \in Positions, NEW k \in Positions, j < k
               PROVE  /\ IsWorld(batch[k]) /\ result'[k] # None => Has(j)'
                      /\ IsWorld(batch[j]) /\ result'[k] # None => result'[j] # "running"
    BY <1>1, <1>4 DEF WorldInOrder
  <2>1. ASSUME NEW g \in G, IsWorld(batch[g]) PROVE G = {g}
    BY <1>2, <2>1, GroupIsCompatible DEF Positions
  <2>2. CASE j = i
    <3>1. k # i /\ k >= front
      BY <1>1, <1>2, <1>3, <2>2
    <3>2. ~IsWorld(batch[i]) \/ k \notin G
      BY <1>1, <2>1, <3>1
    <3>3. ~IsWorld(batch[k]) \/ k \notin G
      BY <1>1, <2>1, <3>1
    <3>4. k \notin G => result'[k] = None
      BY <1>1, <1>4, <3>1 DEF Cutting
    <3> QED
      BY <2>2, <3>2, <3>3, <3>4
  <2>3. CASE k = i
    <3>1. j # i /\ result'[j] = result[j]
      BY <1>2, <1>4, <2>3
    <3>2. ASSUME IsWorld(batch[i]) PROVE Has(j)
      <4>1. G = {i}
        BY <1>1, <2>1, <3>2
      <4>2. front = i /\ ~cancelled /\ j < front
        BY <1>1, <1>3, <2>3, <4>1
      <4> QED
        BY <1>1, <4>2 DEF Cutting
    <3>3. ASSUME IsWorld(batch[j]) PROVE result[j] # "running"
      <4>1. j \notin G
        BY <1>1, <2>1, <3>1, <3>3
      <4> QED
        BY <1>2, <4>1 DEF Running
    <3> QED
      BY <2>3, <3>1, <3>2, <3>3 DEF Has
  <2>4. CASE j # i /\ k # i
    BY <1>4, <2>4 DEF WorldInOrder, Has
  <2> QED
    BY <2>2, <2>3, <2>4
<1> QED
  BY <1>5, <1>6, <1>7, <1>8, <1>9, <1>10

\* A prefetched call comes to its end.
LEMMA FinishInv == ASSUME Inv, NEW i \in Slots, Finish(i) PROVE Inv'
<1> USE DEF Inv
<1>1. PICK kind \in Outcomes : result' = [result EXCEPT ![i] = kind]
  BY DEF Finish
<1>2. /\ pc = "prefetching" /\ i \in Running /\ i \in Positions /\ cap \in Nat
      /\ prefetched' = [prefetched EXCEPT ![batch[i].id] = i]
      /\ UNCHANGED <<cap, pc, turn, batch, front, here, streak, told, cancelled, stop>>
  BY LoopAssumption DEF Finish, Running, TypeOK
<1>3. kind # None /\ kind # "running"
  BY LoopAssumption DEF Outcomes, None
<1>4. /\ Positions' = Positions /\ Running' = Running \ {i}
      /\ \A j \in Positions : j # i => result'[j] = result[j] /\ Has(j)' = Has(j)
      /\ result'[i] = kind /\ Has(i)' /\ result[i] = "running"
  BY <1>1, <1>2, <1>3, BatchType DEF TypeOK, Positions, Running, Has
<1>5. /\ batch[i].id \in Slots /\ prefetched' \in [Slots -> {0} \cup Slots] /\ i # 0
      /\ \A id \in Slots : prefetched'[id] = IF id = batch[i].id THEN i ELSE prefetched[id]
  BY <1>2, BatchType DEF TypeOK, Slots
<1>6. TypeOK'
  <2>1. result' \in [Slots -> Outcomes \cup {None, "running"}]
    BY <1>1 DEF TypeOK
  <2> QED
    BY <1>2, <1>4, <1>5, <2>1 DEF TypeOK, Call
<1>7. Working' /\ Cutting' /\ Serving'
  <2>1. Working'
    BY <1>2, <1>4 DEF Working
  <2>2. Serving'
    BY <1>2 DEF Serving
  <2>3. i \in Group(batch, front) /\ ~(i < front)
    BY <1>2, <1>4 DEF Working, Cutting
  <2>4. Cutting'
    BY <1>2, <1>4, <2>3 DEF Cutting
  <2> QED
    BY <2>1, <2>2, <2>4
<1>8. Kept'
  <2>1. cap > 0
    BY <1>2 DEF Cutting
  <2>2. \A j \in Positions : Has(j)' => prefetched'[batch[j].id] # 0
    BY <1>4, <1>5, <2>1, BatchType DEF Kept, IsPrefetched
  <2>3. ASSUME NEW id \in Slots, prefetched'[id] # 0
        PROVE  prefetched'[id] \in Positions /\ result'[prefetched'[id]] \in Outcomes
    BY <1>1, <1>2, <1>4, <1>5, <2>3 DEF Kept, Has
  <2> QED
    BY <1>2, <1>4, <2>1, <2>2, <2>3 DEF Kept, IsPrefetched, Has
<1>9. Streaks'
  BY <1>2 DEF Streaks
<1>10. NoConflict'
  <2>1. Cardinality(Running \ {i}) <= Cardinality(Running)
    <3>1. Running \ {i} \in SUBSET Running
      OBVIOUS
    <3> QED
      BY <3>1, RunningFinite, FS_Subset
  <2>2. Cardinality(Running \ {i}) \in Nat
    BY RunningFinite, FS_RemoveElement, FS_CardinalityType
  <2> QED
    BY <1>2, <1>4, <2>1, <2>2, RunningFinite DEF NoConflict
<1>11. WorldInOrder'
  BY <1>2, <1>3, <1>4, None # "running" DEF WorldInOrder, None
<1> QED
  BY <1>6, <1>7, <1>8, <1>9, <1>10, <1>11

\* The prefetch leaves a group.
LEMMA NextGroupInv == ASSUME Inv, NextGroup PROVE Inv'
<1> USE DEF Inv
<1> DEFINE G == Group(batch, front)
           after == front + Cardinality(G)
<1>1. /\ pc = "prefetching" /\ front' = after
      /\ pc' = IF after > Len(batch) THEN "answering" ELSE pc
      /\ (\A j \in G : Has(j)) \/ (cancelled /\ G = {front} /\ result[front] = None)
      /\ UNCHANGED <<cap, turn, batch, result, prefetched, here, streak, told, cancelled, stop>>
  BY DEF NextGroup, LeaveGroup
<1>2. /\ front \in Positions /\ Starts(batch, front) /\ Len(batch) \in Nat /\ Len(batch) <= Width[0]
      /\ Running \subseteq G /\ Positions = 1 .. Len(batch) /\ cap \in Nat /\ cap > 0
  BY <1>1, BatchType, LoopAssumption DEF TypeOK, Cutting, Working, Positions
<1>3. /\ Cardinality(G) \in Nat \ {0} /\ after <= Len(batch) + 1
      /\ G = front .. after - 1
      /\ Starts(batch, after) \/ after = Len(batch) + 1
  BY <1>2, GroupIsInterval
<1>4. after \in Nat /\ front < after /\ front \in Nat
  BY <1>2, <1>3
<1>5. UNCHANGED <<Positions, Running>> /\ \A j \in Positions : Has(j)' = Has(j)
  BY <1>1 DEF Positions, Running, Has
<1>6. Running = {}
  <2>1. \A j \in G : result[j] # "running"
    BY <1>1, LoopAssumption DEF Has, Outcomes, None
  <2> QED
    BY <1>2, <2>1 DEF Running
<1>7. TypeOK'
  <2>1. front' \in 1 .. Width[0] + 1 /\ (pc' = "prefetching" => front' \in Positions)
    <3>1. Width[0] \in Nat
      BY LoopAssumption DEF Turns
    <3> QED
      BY <1>1, <1>2, <1>3, <1>4, <3>1
  <2> QED
    BY <1>1, <1>5, <2>1 DEF TypeOK, Call
<1>8. \A j \in Positions : j < after => Has(j) \/ cancelled
  <2> SUFFICES ASSUME NEW j \in Positions, j < after PROVE Has(j) \/ cancelled
    OBVIOUS
  <2>1. CASE j < front
    BY <1>1, <2>1 DEF Cutting
  <2>2. CASE j >= front
    <3>1. j \in G
      BY <1>2, <1>3, <1>4, <2>2
    <3> QED
      BY <1>1, <3>1
  <2> QED
    BY <1>2, <1>4, <2>1, <2>2
<1>9. Working'
  BY <1>1, <1>5, <1>6 DEF Working
<1>10. Cutting'
  <2> SUFFICES ASSUME pc' = "prefetching" PROVE Cutting'
    BY DEF Cutting
  <2>1. Starts(batch, after)
    BY <1>1, <1>2, <1>3, <1>4
  <2>2. \A j \in Positions : j >= after => result[j] = None
    <3> SUFFICES ASSUME NEW j \in Positions, j >= after PROVE result[j] = None
      OBVIOUS
    <3>1. j >= front /\ j \notin G
      BY <1>2, <1>3, <1>4
    <3> QED
      BY <1>1, <3>1 DEF Cutting
  <2>3. \A j \in Positions : result[j] # "running"
    BY <1>6 DEF Running
  <2> QED
    BY <1>1, <1>2, <1>5, <1>8, <2>1, <2>2, <2>3 DEF Cutting
<1>11. Serving'
  <2> SUFFICES ASSUME pc' = "answering" PROVE Serving'
    BY <1>1 DEF Serving
  <2>1. \A j \in Positions : Has(j) \/ cancelled
    <3>1. \A j \in Positions : j < after
      BY <1>1, <1>2, <1>4
    <3> QED
      BY <1>8, <3>1
  <2> QED
    BY <1>1, <1>2, <1>5, <2>1 DEF Serving
<1>12. Kept' /\ Streaks'
  BY <1>1, <1>5 DEF Kept, Streaks, IsPrefetched, Has
<1>13. NoConflict' /\ WorldInOrder'
  BY <1>1, <1>5 DEF NoConflict, WorldInOrder
<1> QED
  BY <1>7, <1>9, <1>10, <1>11, <1>12, <1>13

\* Without fan-out a call is run when its turn comes; with it, never.
LEMMA ExecuteInv == ASSUME Inv, Execute PROVE Inv'
<1> USE DEF Inv
<1>1. /\ pc = "answering" /\ pc' = "executing" /\ ~cancelled /\ ~IsPrefetched(here)
      /\ result' = [result EXCEPT ![here] = "running"]
      /\ UNCHANGED <<cap, turn, batch, prefetched, front, here, streak, told, cancelled, stop>>
  BY DEF Execute
<1>2. here \in Positions /\ here \in Slots /\ Positions \subseteq Nat
  BY <1>1, BatchType DEF TypeOK, Positions
<1>3. cap = 0
  <2>1. cap \in Nat
    BY LoopAssumption DEF TypeOK
  <2> QED
    BY <1>1, <1>2, <2>1 DEF Serving, Kept
<1>4. /\ Positions' = Positions /\ Running' = {here}
      /\ \A j \in Positions : j # here => result'[j] = result[j] /\ Has(j)' = Has(j)
      /\ result'[here] = "running" /\ result[here] = None
      /\ \A j \in Positions : ~Has(j) \/ j # here
  BY <1>1, <1>2, <1>3, BatchType, LoopAssumption
     DEF TypeOK, Positions, Running, Has, Working, Serving, Outcomes, None
<1>5. TypeOK'
  <2>1. result' \in [Slots -> Outcomes \cup {None, "running"}]
    BY <1>1 DEF TypeOK
  <2> QED
    BY <1>1, <1>4, <2>1 DEF TypeOK, Call
<1>6. Working' /\ Cutting'
  BY <1>1, <1>4 DEF Working, Cutting
<1>7. Serving'
  BY <1>1, <1>2, <1>3, <1>4 DEF Serving
<1>8. Kept'
  BY <1>1, <1>3, <1>4 DEF Kept
<1>9. Streaks'
  BY <1>1 DEF Streaks
<1>10. NoConflict'
  BY <1>1, <1>3, <1>4, FS_Singleton DEF NoConflict
<1>11. WorldInOrder'
  <2>1. \A j \in Positions : j < here => Has(j) /\ result[j] # "running"
    BY <1>1, <1>3, LoopAssumption DEF Serving, Has, Outcomes
  <2>2. \A j \in Positions : j > here => result[j] = None
    BY <1>1, <1>3 DEF Serving
  <2> QED
    BY <1>1, <1>2, <1>4, <2>1, <2>2 DEF WorldInOrder
<1> QED
  BY <1>5, <1>6, <1>7, <1>8, <1>9, <1>10, <1>11

-----------------------------------------------------------------------------
\* What the log and the streak are after a result has been taken.
LEMMA TakeStreaks ==
  ASSUME Inv, pc \in {"answering", "executing"}, here \in Positions,
         NEW r, NEW kind \in Outcomes, Take(r, kind)
  PROVE  /\ streak' \in [tool : Tools \cup {None}, gap : Gaps \cup {None}, n : 0 .. Budget]
         /\ told' \in Seq([tool : Tools, kind : Outcomes]) /\ Len(told') <= Budget
         /\ Streaks'
<1> USE DEF Inv
<1> DEFINE tool == batch[here].tool
           key  == [tool |-> tool, kind |-> kind]
           all  == Append(told, key)
           L    == Len(told)
           same == streak.tool = tool /\ streak.gap = kind
           Log  == [tool : Tools, kind : Outcomes]
<1>1. /\ streak' = NextStreak(tool, kind)
      /\ told' = IF Len(all) > Budget THEN Tail(all) ELSE all
      /\ stop' = IF streak'.n >= Budget THEN "tool_arg_loop" ELSE stop
      /\ stop = None
  <2>1. stop = None
    BY DEF TypeOK
  <2>2. LET s == NextStreak(tool, kind) IN s.n \in Nat
    BY LoopAssumption DEF NextStreak, NoStreak, TypeOK
  <2> QED
    BY <2>1, <2>2, LoopAssumption DEF Take, Trip, Report
<1>2. /\ tool \in Tools /\ told \in Seq(Log) /\ L \in Nat /\ L <= Budget /\ key \in Log
      /\ Budget \in Nat \ {0}
      /\ streak.tool \in Tools \cup {None} /\ streak.gap \in Gaps \cup {None}
      /\ streak.n \in Nat /\ streak.n < Budget
  <2>1. tool \in Tools /\ key \in Log
    BY BatchType
  <2>2. streak.n # Budget /\ streak.n \in 0 .. Budget
    BY <1>1 DEF Streaks, TypeOK, None
  <2> QED
    BY <2>1, <2>2, LoopAssumption DEF TypeOK
<1>3. /\ all \in Seq(Log) /\ Len(all) = L + 1
      /\ \A k \in 1 .. L : all[k] = told[k]
      /\ all[L + 1] = key
  BY <1>2
<1>4. \E d \in {0, 1} :
        /\ told' \in Seq(Log) /\ Len(told') = L + 1 - d /\ Len(told') <= Budget
        /\ \A k \in 1 .. L + 1 - d : told'[k] = all[k + d]
        /\ d = 1 => L = Budget
  <2>1. CASE L + 1 > Budget
    <3>1. told' = Tail(all) /\ L = Budget
      BY <1>1, <1>2, <1>3, <2>1
    <3>2. all # <<>>
      BY <1>2, <1>3
    <3>3. /\ Tail(all) \in Seq(Log) /\ Len(Tail(all)) = L
          /\ \A k \in 1 .. L : Tail(all)[k] = all[k + 1]
      BY <1>2, <1>3, <3>2, HeadTailProperties
    <3> QED
      BY <1>2, <3>1, <3>3
  <2>2. CASE ~(L + 1 > Budget)
    BY <1>1, <1>2, <1>3, <2>2
  <2> QED
    BY <2>1, <2>2
<1>5. PICK d \in {0, 1} :
        /\ told' \in Seq(Log) /\ Len(told') = L + 1 - d /\ Len(told') <= Budget
        /\ \A k \in 1 .. L + 1 - d : told'[k] = all[k + d]
        /\ d = 1 => L = Budget
  BY <1>4
<1>6. Len(told') \in Nat /\ Len(told') >= 1 /\ told'[Len(told')] = key
  BY <1>2, <1>3, <1>5
<1>7. CASE kind \notin Gaps
  <2>1. streak' = NoStreak /\ NoStreak.n = 0 /\ NoStreak.gap = None /\ NoStreak.tool = None
    BY <1>1, <1>7 DEF NextStreak, NoStreak
  <2>2. None \notin Gaps
    BY LoopAssumption DEF None
  <2>3. Streaks'
    BY <1>1, <1>2, <1>6, <1>7, <2>1, <2>2 DEF Streaks, None
  <2> QED
    BY <1>2, <1>5, <2>1, <2>3 DEF NoStreak
<1>8. CASE kind \in Gaps
  <2> DEFINE n == IF same THEN streak.n + 1 ELSE 1
  <2>1. streak' = [tool |-> tool, gap |-> kind, n |-> n] /\ n \in 1 .. Budget
    BY <1>1, <1>2, <1>8 DEF NextStreak
  <2>2. streak'.n = n /\ streak'.tool = tool /\ streak'.gap = kind
    BY <2>1
  <2>3. n <= Len(told') /\ \A k \in 1 .. Len(told') : k > Len(told') - n => told'[k] = key
    <3>1. CASE same
      <4>1. streak.n <= L /\ \A k \in 1 .. L : k > L - streak.n => told[k] = key
        BY <3>1 DEF Streaks
      <4>2. n = streak.n + 1 /\ n <= Len(told')
        BY <1>2, <1>5, <3>1, <4>1
      <4>3. ASSUME NEW k \in 1 .. Len(told'), k > Len(told') - n PROVE told'[k] = key
        <5>1. told'[k] = all[k + d] /\ k + d \in 1 .. L + 1 /\ k + d > L - streak.n
          BY <1>2, <1>5, <4>2, <4>3, SMTT(30)
        <5>2. CASE k + d = L + 1
          BY <1>3, <5>1, <5>2
        <5>3. CASE k + d \in 1 .. L
          BY <1>3, <4>1, <5>1, <5>3
        <5> QED
          BY <1>2, <5>1, <5>2, <5>3
      <4> QED
        BY <4>2, <4>3
    <3>2. CASE ~same
      BY <1>6, <3>2
    <3> QED
      BY <3>1, <3>2
  <2>4. n < Len(told') => told'[Len(told') - n] # key
    <3> SUFFICES ASSUME n < Len(told') PROVE told'[Len(told') - n] # key
      OBVIOUS
    <3> DEFINE k == Len(told') - n
    <3>0. n \in Nat /\ n >= 1
      BY <1>2, <2>1
    <3> HIDE DEF n
    <3>1. k \in 1 .. Len(told') /\ k + d = L + 1 - n /\ k + d \in 1 .. L
      BY <1>2, <1>5, <3>0
    <3> USE DEF n
    <3>2. told'[k] = told[L + 1 - n]
      BY <1>3, <1>5, <3>1
    <3>3. CASE same
      <4>0. streak.n > 0
        BY <1>2, <1>8, <3>3 DEF Streaks
      <4>1. streak.n > 0 /\ streak.n < L /\ L + 1 - n = L - streak.n
        <5>1. n = streak.n + 1 /\ n < Len(told') /\ Len(told') = L + 1 - d
          BY <1>5, <3>3
        <5>2. d \in {0, 1} /\ L \in Nat /\ streak.n \in Nat /\ n \in Nat
          BY <1>2, <3>0
        <5> HIDE DEF n, L, same
        <5> QED
          BY ONLY <4>0, <5>1, <5>2
      <4>2. told[L - streak.n] # key
        BY <3>3, <4>1 DEF Streaks
      <4> QED
        BY <3>2, <4>1, <4>2
    <3>4. CASE ~same
      <4>1. n = 1 /\ L \in 1 .. L /\ told'[k] = told[L]
        BY <1>2, <3>1, <3>2, <3>4
      <4>2. CASE streak.n = 0
        <5>1. told[L].kind \notin Gaps
          BY <4>1, <4>2 DEF Streaks
        <5> QED
          BY <1>8, <4>1, <5>1
      <4>3. CASE streak.n > 0
        <5>1. told[L] = [tool |-> streak.tool, kind |-> streak.gap]
          BY <1>2, <4>1, <4>3 DEF Streaks
        <5> QED
          BY <3>4, <4>1, <5>1
      <4> QED
        BY <1>2, <4>2, <4>3
    <3> QED
      BY <3>3, <3>4
  <2>5. n = Budget <=> stop' = "tool_arg_loop"
    BY <1>1, <1>2, <2>1, <2>2 DEF None
  <2>6. Streaks'
    BY <1>8, <2>1, <2>2, <2>3, <2>4, <2>5 DEF Streaks
  <2>7. streak' \in [tool : Tools \cup {None}, gap : Gaps \cup {None}, n : 0 .. Budget]
    BY <1>2, <1>8, <2>1
  <2> QED
    BY <1>5, <2>6, <2>7
<1> QED
  BY <1>7, <1>8

\* A result is taken for the call whose turn it is.
LEMMA TakeInv ==
  ASSUME Inv, here \in Positions, NEW r, NEW kind \in Outcomes, Take(r, kind),
         \/ pc = "answering" /\ ~cancelled /\ IsPrefetched(here) /\ UNCHANGED result
         \/ pc = "executing" /\ result' = [result EXCEPT ![here] = kind]
  PROVE  Inv'
<1> USE DEF Inv
<1>1. /\ pc \in {"answering", "executing"} /\ turn < MaxTurns /\ turn \in Nat /\ MaxTurns \in Nat
      /\ stop = None
      /\ UNCHANGED <<cap, batch, prefetched, front, cancelled>>
      /\ \/ pc' = "over" /\ stop' = "tool_arg_loop" /\ UNCHANGED <<here, turn>>
         \/ /\ UNCHANGED stop /\ here' = here + 1
            /\ \/ here = Len(batch) /\ pc' = "top" /\ turn' = turn + 1
               \/ here # Len(batch) /\ pc' = "answering" /\ UNCHANGED turn
  BY LoopAssumption, SMTT(30) DEF Take, Trip, Report, TypeOK, Turns
<1>2. /\ Len(batch) \in Nat /\ Len(batch) <= Width[0] /\ Width[0] \in Nat
      /\ Positions = 1 .. Len(batch) /\ here \in Slots
  <2>1. Width[0] \in Nat
    <3>1. 0 \in Turns
      BY LoopAssumption DEF Turns
    <3> QED
      BY <3>1, LoopAssumption
  <2>2. Len(batch) \in Nat /\ Len(batch) <= Width[0] /\ Positions \subseteq Slots
    BY BatchType
  <2> QED
    BY <2>1, <2>2 DEF Positions
<1>3. /\ Positions' = Positions /\ Running' = {}
      /\ \A j \in Positions : (j # here => result'[j] = result[j]) /\ (Has(j) => Has(j)')
      /\ result'[here] \in Outcomes \/ pc = "answering"
      /\ result' \in [Slots -> Outcomes \cup {None, "running"}]
  <2>1. CASE pc = "answering"
    BY <1>1, <2>1 DEF Working, Positions, Running, Has, TypeOK
  <2>2. CASE pc = "executing"
    <3>1. result' = [result EXCEPT ![here] = kind] /\ kind # "running"
      BY <2>2, LoopAssumption DEF Outcomes
    <3>2. Positions' = Positions
      BY <1>1 DEF Positions
    <3>3. /\ result' \in [Slots -> Outcomes \cup {None, "running"}]
          /\ result'[here] = kind
          /\ \A j \in Positions : j # here => result'[j] = result[j]
      BY <1>2, <3>1, BatchType DEF TypeOK
    <3>4. Running' = {}
      BY <2>2, <3>1, <3>2, <3>3 DEF Working, Running
    <3>5. \A j \in Positions : j = here => Has(j)'
      BY <3>3 DEF Has
    <3>6. \A j \in Positions : j # here => (Has(j) => Has(j)')
      BY <3>3 DEF Has
    <3> QED
      BY <3>2, <3>3, <3>4, <3>5, <3>6
  <2> QED
    BY <1>1, <2>1, <2>2
<1>4. /\ streak' \in [tool : Tools \cup {None}, gap : Gaps \cup {None}, n : 0 .. Budget]
      /\ told' \in Seq([tool : Tools, kind : Outcomes]) /\ Len(told') <= Budget
      /\ Streaks'
  BY <1>1, TakeStreaks
<1>5. TypeOK'
  <2>1. here' \in 1 .. Width[0] + 1 /\ (pc' = "answering" => here' \in Positions)
    BY <1>1, <1>2
  <2>2. turn' \in Turns /\ (pc' \notin {"top", "over", "gone"} => turn' < MaxTurns)
    BY <1>1 DEF Turns
  <2>3. stop' \in Reasons \cup {None} /\ (pc' = "over" <=> stop' # None)
    BY <1>1 DEF Reasons, None
  <2>4. pc' \in {"top", "answering", "over"}
    BY <1>1
  <2>5. batch' \in UNION {[1 .. n -> Call'] : n \in 0 .. Width[0]} /\ cap' \in Caps
    BY <1>1 DEF TypeOK, Call
  <2>6. /\ prefetched' \in [Slots -> {0} \cup Slots] /\ front' \in 1 .. Width[0] + 1
        /\ cancelled' \in BOOLEAN
    BY <1>1 DEF TypeOK
  <2> QED
    BY <1>3, <1>4, <2>1, <2>2, <2>3, <2>4, <2>5, <2>6 DEF TypeOK
<1>6. Working' /\ Cutting'
  BY <1>1, <1>3 DEF Working, Cutting
<1>7. Serving'
  <2> SUFFICES ASSUME pc' = "answering" PROVE Serving'
    BY <1>1 DEF Serving
  <2>1. here' = here + 1 /\ here' \in Positions
    BY <1>1, <1>2
  <2>2. cap > 0 => \A j \in Positions : Has(j)' \/ cancelled
    BY <1>1, <1>3 DEF Serving
  <2>3. ASSUME cap = 0
        PROVE  /\ \A j \in Positions : j < here' => Has(j)'
               /\ \A j \in Positions : j >= here' => result'[j] = None
    <3>1. pc = "executing"
      BY <1>1, <1>2, <2>3, BatchType DEF Kept, IsPrefetched
    <3>2. result'[here] \in Outcomes
      BY <1>3, <3>1
    <3>3. ASSUME NEW j \in Positions, j < here' PROVE Has(j)'
      <4>1. j = here \/ j < here
        BY <1>2, <2>1, <3>3
      <4>2. j < here => Has(j)
        BY <1>1, <2>3 DEF Serving
      <4> QED
        BY <1>3, <3>2, <4>1, <4>2 DEF Has
    <3>4. ASSUME NEW j \in Positions, j >= here' PROVE result'[j] = None
      <4>1. j > here /\ j # here
        BY <1>2, <2>1, <3>4
      <4> QED
        BY <1>1, <1>3, <2>3, <4>1 DEF Serving
    <3> QED
      BY <3>3, <3>4
  <2> QED
    BY <1>1, <1>2, <1>3, <2>1, <2>2, <2>3 DEF Serving
<1>8. Kept'
  <2>1. CASE pc = "answering"
    BY <1>1, <1>3, <2>1 DEF Kept, IsPrefetched, Has
  <2>2. CASE pc = "executing"
    <3>1. cap \in Nat /\ ~(cap > 0)
      BY <2>2, LoopAssumption DEF Serving, TypeOK
    <3>2. cap = 0
      BY <3>1
    <3> QED
      BY <1>1, <3>1, <3>2 DEF Kept
  <2> QED
    BY <1>1, <2>1, <2>2
<1>9. NoConflict'
  BY <1>1, <1>3, FS_EmptySet, LoopAssumption DEF NoConflict, TypeOK
<1>10. WorldInOrder'
  <2> SUFFICES ASSUME NEW i \in Positions, NEW j \in Positions, i < j,
                      IsWorld(batch[j]), result'[j] # None
               PROVE  Has(i)'
    BY <1>1, <1>3 DEF WorldInOrder, Running
  <2>1. CASE result[j] # None
    BY <1>3, <2>1 DEF WorldInOrder
  <2>2. CASE result[j] = None
    <3>1. j = here /\ pc = "executing"
      BY <1>1, <1>3, <2>2
    <3>2. result[j] = "running"
      BY <3>1 DEF Working, Running
    <3> QED
      BY <2>2, <3>2 DEF None
  <2> QED
    BY <2>1, <2>2
<1> QED
  BY <1>4, <1>5, <1>6, <1>7, <1>8, <1>9, <1>10

-----------------------------------------------------------------------------
LEMMA StepInv == Inv /\ [Next]_vars => Inv'
<1> SUFFICES ASSUME Inv, [Next]_vars PROVE Inv'
  OBVIOUS
<1>1. CASE StopAtTop
  <2>1. pc = "top" /\ \E reason \in {"max_turns", "cancelled", "timeout"} : End(reason)
    BY <1>1 DEF StopAtTop
  <2> QED
    BY <2>1, EndInv DEF Reasons
<1>2. CASE Begin \/ Ask \/ Cancel \/ Escape
  BY <1>2, QuietInv
<1>3. CASE Answered
  <2>1. pc = "asking" /\ \E reason \in {"timeout", "error", "cancelled", "complete"} : End(reason)
    BY <1>3 DEF Answered
  <2> QED
    BY <2>1, EndInv DEF Reasons
<1>4. CASE CallTools
  BY <1>4, CallToolsInv
<1>5. CASE \E i \in Slots : Start(i)
  BY <1>5, StartInv
<1>6. CASE NextGroup
  BY <1>6, NextGroupInv
<1>7. CASE StopBetween
  BY <1>7, EndInv DEF StopBetween, Reasons
<1>8. CASE Execute
  BY <1>8, ExecuteInv
<1>9. CASE \E i \in Slots : Finish(i)
  BY <1>9, FinishInv
<1>10. CASE TakePrefetched
  <2> DEFINE r == prefetched[batch[here].id]
  <2>1. /\ pc = "answering" /\ ~cancelled /\ IsPrefetched(here) /\ UNCHANGED result
        /\ Take(r, result[r])
    BY <1>10 DEF TakePrefetched
  <2>2. here \in Positions
    BY <2>1 DEF Inv, TypeOK
  <2>3. result[r] \in Outcomes
    BY <2>1, <2>2, BatchType DEF Inv, Kept, IsPrefetched, Has
  <2> QED
    BY <2>1, <2>2, <2>3, TakeInv
<1>11. CASE TakeExecuted
  <2>1. pc = "executing" /\ here \in Positions
    BY <1>11 DEF TakeExecuted, Inv, TypeOK
  <2>2. PICK kind \in Outcomes : result' = [result EXCEPT ![here] = kind] /\ Take(here, kind)
    BY <1>11 DEF TakeExecuted
  <2> QED
    BY <2>1, <2>2, TakeInv
<1>12. CASE UNCHANGED vars
  BY <1>12 DEF vars, Inv, TypeOK, Working, Cutting, Serving, Kept, Streaks, NoConflict, WorldInOrder,
               Positions, Running, Has, IsPrefetched, Call
<1> QED
  BY <1>1, <1>2, <1>3, <1>4, <1>5, <1>6, <1>7, <1>8, <1>9, <1>10, <1>11, <1>12
     DEF Next, Step, ToolReturns

THEOREM InvHolds == Spec => []Inv
<1> QED
  BY InitInv, StepInv, PTL DEF Spec

\* The variables keep their types, and each place in the loop goes with what it needs,
\* for any number of calls and turns.
THEOREM TypesHold == Spec => []TypeOK
<1>1. Inv => TypeOK
  BY DEF Inv
<1> QED
  BY <1>1, InvHolds, PTL

\* Calls that run side by side never touch the world and never share a concurrency
\* group, whatever the tools and however wide the fan-out (partition_by_effect and
\* the semaphore of _prefetch_tool_calls).
THEOREM NoConflictHolds == Spec => []NoConflict
<1>1. Inv => NoConflict
  BY DEF Inv
<1> QED
  BY <1>1, InvHolds, PTL

\* A call that touches the world keeps its place among the calls of its response,
\* with fan-out as without, and whenever the token is set.
THEOREM WorldInOrderHolds == Spec => []WorldInOrder
<1>1. Inv => WorldInOrder
  BY DEF Inv
<1> QED
  BY <1>1, InvHolds, PTL

\* The streak the breaker counts is the end of the log, so that it trips when the log
\* shows the loop and at no other time, for every budget and any key.
THEOREM BreakerHolds == Spec => []BreakerIsExact
<1>1. Inv => BreakerIsExact
  <2> SUFFICES ASSUME Inv PROVE BreakerIsExact
    OBVIOUS
  <2> DEFINE n == streak.n
             key == [tool |-> streak.tool, kind |-> streak.gap]
  <2>1. /\ told \in Seq([tool : Tools, kind : Outcomes]) /\ Len(told) \in Nat /\ Len(told) <= Budget
        /\ n \in 0 .. Budget /\ Budget \in Nat \ {0} /\ n <= Len(told)
    BY LoopAssumption DEF Inv, TypeOK, Streaks
  <2>2. ASSUME stop = "tool_arg_loop"
        PROVE  Len(told) = Budget /\ told[1].kind \in Gaps /\ \A k \in 1 .. Budget : told[k] = told[1]
    <3>1. n = Budget /\ Len(told) = Budget /\ streak.gap \in Gaps
      BY <2>1, <2>2 DEF Inv, Streaks
    <3>2. \A k \in 1 .. Budget : told[k] = key
      BY <2>1, <3>1 DEF Inv, Streaks
    <3>3. told[1] = key
      BY <2>1, <3>2
    <3> QED
      BY <3>1, <3>2, <3>3
  <2>3. ASSUME Len(told) = Budget, told[1].kind \in Gaps, \A k \in 1 .. Budget : told[k] = told[1]
        PROVE  stop = "tool_arg_loop"
    <3>1. n # 0
      BY <2>1, <2>3 DEF Inv, Streaks
    <3>2. ASSUME n < Budget PROVE FALSE
      <4>1. told[Budget] = key /\ told[Budget - n] # key
        BY <2>1, <2>3, <3>1, <3>2 DEF Inv, Streaks
      <4>2. told[Budget] = told[1] /\ told[Budget - n] = told[1]
        BY <2>1, <2>3, <3>1, <3>2
      <4> QED
        BY <4>1, <4>2
    <3> QED
      BY <2>1, <3>1, <3>2 DEF Inv, Streaks
  <2> QED
    BY <2>2, <2>3 DEF BreakerIsExact
<1> QED
  BY <1>1, InvHolds, PTL

-----------------------------------------------------------------------------
(* The loop implements the session.                                        *)

\* Between two responses no call waits.
NothingDue == pc \in {"top", "composing", "asking"} => here = Len(batch) + 1

\* Between two responses no call waits.
LEMMA NothingDueHolds == Spec => []NothingDue
<1>1. Init => NothingDue
  BY DEF Init, NothingDue
<1>2. Inv /\ NothingDue /\ [Next]_vars => NothingDue'
  BY DEF NothingDue, Next, Step, ToolReturns, vars, StopAtTop, Begin, Ask, Answered, CallTools, Start,
         NextGroup, LeaveGroup, StopBetween, Execute, TakePrefetched, TakeExecuted, Take, Trip, Report,
         Finish, Cancel, Escape, End
<1> QED
  BY <1>1, <1>2, InvHolds, PTL DEF Spec

\* The calls that wait are those from here on.
LEMMA DueType ==
  ASSUME TypeOK
  PROVE  /\ batch \in Seq(Call) /\ Due \in Seq(Call)
         /\ Due = <<>> <=> here > Len(batch)
         /\ here <= Len(batch) => Tail(Due) = SubSeq(batch, here + 1, Len(batch))
<1>1. /\ Len(batch) \in Nat /\ here \in Nat /\ here >= 1
      /\ \A i \in 1 .. Len(batch) : batch[i] \in Call
  <2>1. Width[0] \in Nat
    <3>1. 0 \in Turns
      BY LoopAssumption DEF Turns
    <3> QED
      BY <3>1, LoopAssumption
  <2>2. here \in 1 .. Width[0] + 1
    BY DEF TypeOK
  <2> QED
    BY <2>1, <2>2, BatchType DEF Positions
<1>2. batch \in Seq(Call)
  <2>1. PICK n \in 0 .. Width[0] : batch \in [1 .. n -> Call]
    BY DEF TypeOK
  <2>2. Width[0] \in Nat
    BY LoopAssumption DEF Turns
  <2> QED
    BY <2>1, <2>2, SeqDef
<1>3. /\ Due \in Seq(Call)
      /\ Len(Due) = IF here <= Len(batch) THEN Len(batch) - here + 1 ELSE 0
  BY <1>1, SubSeqProperties DEF Due
<1>4. Due = <<>> <=> here > Len(batch)
  BY <1>1, <1>3, EmptySeq
<1>5. here <= Len(batch) => Tail(Due) = SubSeq(batch, here + 1, Len(batch))
  <2> SUFFICES ASSUME here <= Len(batch) PROVE Tail(Due) = SubSeq(batch, here + 1, Len(batch))
    OBVIOUS
  <2>1. here \in 1 .. Len(batch) /\ Len(batch) \in here .. Len(batch)
    BY <1>1
  <2> QED
    BY <1>2, <2>1, HeadTailOfSubSeq DEF Due
<1> QED
  BY <1>2, <1>3, <1>4, <1>5

\* A result taken is an answer of the session, or the breaker ends it.
LEMMA TakeAnswers ==
  ASSUME Inv, here \in Positions, NEW r, NEW kind, Take(r, kind), stop = None
  PROVE  S!Next
<1>1. /\ here <= Len(batch) /\ Len(batch) \in Nat /\ here \in Nat /\ TypeOK /\ batch' = batch
  BY BatchType DEF Inv, Positions, Take
<1>2. Due # <<>> /\ Tail(Due) = SubSeq(batch, here + 1, Len(batch))
  BY <1>1, DueType
<1>3. CASE Trip
  <2>1. Due' = Due
    BY <1>1, <1>3 DEF Due, Trip
  <2> QED
    BY <1>2, <1>3, <2>1 DEF Trip, S!Next, S!End, None
<1>4. CASE Report(batch[here], r)
  <2>1. here' = here + 1 /\ stop' = stop
    BY <1>4 DEF Report
  <2>2. Due' = SubSeq(batch, here + 1, Len(batch))
    BY <1>1, <2>1 DEF Due
  <2>3. turn' = IF here = Len(batch) THEN turn + 1 ELSE turn
    BY <1>4 DEF Report
  <2>4. Due' = <<>> <=> here = Len(batch)
    <3>1. /\ \A i \in here + 1 .. Len(batch) : batch[i] \in Call
      BY <1>1, BatchType DEF Positions
    <3>2. Len(Due') = IF here + 1 <= Len(batch) THEN Len(batch) - here ELSE 0
      BY <1>1, <2>2, <3>1, SubSeqProperties
    <3>3. Due' \in Seq(Call)
      BY <1>1, <2>2, <3>1, SubSeqProperties
    <3> QED
      BY <1>1, <3>2, <3>3, EmptySeq
  <2> QED
    BY <1>2, <2>1, <2>2, <2>3, <2>4 DEF S!Next, S!Answer, None
<1> QED
  BY <1>3, <1>4 DEF Take

\* Every step of the loop is one of the session, or a stutter.
LEMMA StepImplements == Inv /\ Inv' /\ NothingDue /\ [Next]_vars => [S!Next]_(S!vars)
<1> SUFFICES ASSUME Inv, Inv', NothingDue, [Next]_vars PROVE S!Next \/ UNCHANGED <<turn, Due, stop>>
  BY DEF S!vars
<1> USE DEF Inv
<1>1. /\ stop = None <=> pc # "over"
      /\ Len(batch) \in Nat
      /\ pc \in {"top", "composing", "asking"} => Due = <<>>
      /\ pc \in {"answering", "executing"} => Due # <<>> /\ here \in Positions
  <2>1. Due = <<>> <=> here > Len(batch)
    BY DueType
  <2> QED
    BY <2>1, BatchType DEF TypeOK, NothingDue, Positions
<1>2. ASSUME UNCHANGED <<turn, batch, here, stop>> PROVE UNCHANGED <<turn, Due, stop>>
  BY <1>2 DEF Due
<1>3. CASE StopAtTop
  BY <1>1, <1>3, LoopAssumption DEF StopAtTop, End, Due, S!Next, S!End, TypeOK, Turns, None
<1>4. CASE Begin \/ Ask \/ (\E i \in Slots : Start(i)) \/ NextGroup \/ Execute \/ (\E i \in Slots : Finish(i))
           \/ Cancel \/ Escape
  BY <1>2, <1>4 DEF Begin, Ask, Start, NextGroup, LeaveGroup, Execute, Finish, Cancel, Escape
<1>5. CASE Answered
  <2>1. pc = "asking" /\ turn < MaxTurns
    BY <1>5 DEF Answered, TypeOK
  <2> QED
    BY <1>1, <1>5, <2>1 DEF Answered, End, Due, S!Next, S!End, None
<1>6. CASE CallTools
  <2>1. /\ pc = "asking" /\ turn < MaxTurns /\ UNCHANGED <<turn, stop>> /\ here' = 1
        /\ pc' \in {"prefetching", "answering"}
    BY <1>6 DEF CallTools, TypeOK
  <2>2. here' \in Positions'
    BY <2>1 DEF TypeOK
  <2>3. Due' \in Seq(Call) /\ Due' # <<>>
    <3>1. TypeOK'
      OBVIOUS
    <3>2. (Due \in Seq(Call) /\ (Due = <<>> <=> here > Len(batch)) /\ Len(batch) \in Nat)'
      BY <3>1, DueType, BatchType, PTL
    <3> QED
      BY <2>2, <3>2 DEF Positions, Call
  <2> QED
    BY <1>1, <2>1, <2>3 DEF S!Next, S!Call, None
<1>7. CASE StopBetween
  BY <1>1, <1>7 DEF StopBetween, End, Due, S!Next, S!End, None
<1>8. CASE TakePrefetched
  BY <1>1, <1>8, TakeAnswers DEF TakePrefetched
<1>9. CASE TakeExecuted
  BY <1>1, <1>9, TakeAnswers DEF TakeExecuted
<1>10. CASE UNCHANGED vars
  BY <1>2, <1>10 DEF vars
<1> QED
  BY <1>3, <1>4, <1>5, <1>6, <1>7, <1>8, <1>9, <1>10 DEF Next, Step, ToolReturns

\* Whatever is prefetched, compressed or cancelled, the model sees a session in which
\* the calls of a response are answered one after the other, and is asked again only
\* when none waits.
THEOREM LoopImplementsSession == Spec => ImplementsSession
<1>1. Init => S!Init
  BY SubSeqEmpty DEF Init, S!Init, Due, None
<1>2. Spec => []Inv /\ []NothingDue
  BY InvHolds, NothingDueHolds
<1> QED
  BY <1>1, <1>2, StepImplements, PTL DEF Spec, ImplementsSession, S!Spec

-----------------------------------------------------------------------------
(* What stands at some places of a sequence, in their order.               *)

Rank(K, k) == Cardinality({j \in K : j <= k})

\* Ranks are the numbers from one on: each place has one of its own.
LEMMA Ranks ==
  ASSUME NEW L \in Nat, NEW K \in SUBSET (1 .. L)
  PROVE  /\ IsFiniteSet(K) /\ Cardinality(K) \in Nat
         /\ \A k \in 1 .. L : IsFiniteSet({j \in K : j <= k}) /\ Rank(K, k) \in Nat
         /\ \A k \in K : Rank(K, k) \in 1 .. Cardinality(K)
         /\ \A j, k \in K : j < k => Rank(K, j) < Rank(K, k)
         /\ \A n \in 1 .. Cardinality(K) : \E k \in K : Rank(K, k) = n
<1> DEFINE Below(k) == {j \in K : j <= k}
           C == Cardinality(K)
<1>1. IsFiniteSet(K) /\ C \in Nat
  <2>1. IsFiniteSet(1 .. L)
    BY FS_Interval
  <2>2. IsFiniteSet(K)
    BY <2>1, FS_Subset
  <2> QED
    BY <2>2, FS_CardinalityType
<1>2. \A k : IsFiniteSet(Below(k)) /\ Cardinality(Below(k)) \in Nat /\ Cardinality(Below(k)) <= C
  <2> TAKE k
  <2>1. Below(k) \in SUBSET K
    OBVIOUS
  <2> HIDE DEF Below
  <2>2. IsFiniteSet(Below(k)) /\ Cardinality(Below(k)) <= C
    BY <1>1, <2>1, FS_Subset
  <2> QED
    BY <2>2, FS_CardinalityType
<1>3. ASSUME NEW k \in K PROVE Rank(K, k) \in 1 .. C
  <2>1. k \in Below(k)
    OBVIOUS
  <2> HIDE DEF Below
  <2>2. Cardinality(Below(k)) # 0
    BY <1>2, <2>1, FS_EmptySet
  <2> QED
    BY <1>1, <1>2, <2>2 DEF Rank, Below
<1>4. ASSUME NEW j \in K, NEW k \in K, j < k PROVE Rank(K, j) < Rank(K, k)
  <2>0. k \in Nat /\ j \in Nat /\ K \subseteq Nat
    OBVIOUS
  <2>1. Below(j) \subseteq Below(k)
    <3>1. \A i \in Nat : i <= j => i <= k
      BY <1>4, <2>0
    <3> QED
      BY <2>0, <3>1
  <2>2. k \in Below(k) /\ k \notin Below(j)
    BY <1>4, <2>0
  <2> HIDE DEF Below
  <2>3. /\ Cardinality(Below(j)) <= Cardinality(Below(k))
        /\ Cardinality(Below(j)) # Cardinality(Below(k))
    BY <1>2, <2>1, <2>2, FS_Subset
  <2>4. Cardinality(Below(j)) < Cardinality(Below(k))
    BY <1>2, <2>3
  <2> QED
    BY <2>4 DEF Rank, Below
<1>5. \A n \in 1 .. C : \E k \in K : Rank(K, k) = n
  <2> DEFINE f == [k \in K |-> Rank(K, k)]
             T == 1 .. C
  <2>1. f \in [K -> T]
    BY <1>3
  <2>2. \A j, k \in K : f[j] = f[k] => j = k
    <3> SUFFICES ASSUME NEW j \in K, NEW k \in K, f[j] = f[k], j # k PROVE FALSE
      OBVIOUS
    <3>1. j < k \/ k < j
      OBVIOUS
    <3>2. Rank(K, j) \in Nat /\ Rank(K, k) \in Nat /\ Rank(K, j) = Rank(K, k)
      BY <1>3
    <3> QED
      BY <1>4, <3>1, <3>2
  <2>3. IsFiniteSet(T) /\ Cardinality(T) = C
    BY <1>1, FS_Interval
  <2>4. f \in Injection(K, T)
    BY <2>1, <2>2 DEF Injection, IsInjective
  <2> HIDE DEF f, T
  <2>5. f \in Surjection(K, T)
    BY <2>3, <2>4, FS_Injection
  <2>6. \A n \in T : \E k \in K : f[k] = n
    BY <2>5 DEF Surjection
  <2> QED
    BY <2>6 DEF f, T
<1> QED
  BY <1>1, <1>2, <1>3, <1>4, <1>5 DEF Rank

\* Places that follow one another follow one another in the outcome.
LEMMA RankOfRun ==
  ASSUME NEW L \in Nat, NEW K \in SUBSET (1 .. L), NEW k \in 1 .. L, NEW n \in Nat, k + n <= L,
         k + 1 .. k + n \subseteq K
  PROVE  Rank(K, k + n) = Rank(K, k) + n
<1> DEFINE A == {j \in K : j <= k}
           B == k + 1 .. k + n
<1>1. {j \in K : j <= k + n} = A \cup B /\ A \cap B = {}
  <2>1. \A j \in K : j <= k + n <=> j <= k \/ j \in B
    OBVIOUS
  <2>2. \A j \in K : ~(j <= k /\ j \in B)
    OBVIOUS
  <2>3. B \subseteq K
    OBVIOUS
  <2> HIDE DEF B
  <2> QED
    BY <2>1, <2>2, <2>3
<1>2. IsFiniteSet(A) /\ Cardinality(A) \in Nat
  BY Ranks DEF Rank
<1>3. IsFiniteSet(B) /\ Cardinality(B) = n
  BY FS_Interval
<1> HIDE DEF A, B
<1>4. Cardinality(A \cup B) = Cardinality(A) + Cardinality(B) - Cardinality(A \cap B)
  BY <1>2, <1>3, FS_Union
<1>5. Cardinality(A \cap B) = 0
  BY <1>1, FS_EmptySet
<1>6. Cardinality(A \cup B) = Cardinality(A) + n
  BY <1>2, <1>3, <1>4, <1>5
<1> QED
  BY <1>1, <1>6 DEF Rank, A

\* The n-th of what is picked is what has rank n.
LEMMA PickedFacts ==
  ASSUME NEW M, NEW ms \in Seq(M), NEW K \in SUBSET (1 .. Len(ms))
  PROVE  /\ Picked(ms, K) \in Seq(M)
         /\ Len(Picked(ms, K)) = Cardinality(K) /\ Cardinality(K) \in Nat
         /\ \A k \in K : Rank(K, k) \in 1 .. Cardinality(K) /\ Picked(ms, K)[Rank(K, k)] = ms[k]
         /\ \A n \in 1 .. Cardinality(K) : \E k \in K : Rank(K, k) = n
<1> DEFINE C == Cardinality(K)
           e(n) == CHOOSE k \in K : Rank(K, k) = n
           p == [n \in 1 .. C |-> ms[e(n)]]
<1>1. Len(ms) \in Nat /\ \A k \in 1 .. Len(ms) : ms[k] \in M
  BY ElementOfSeq
<1>2. /\ C \in Nat
      /\ \A k \in K : Rank(K, k) \in 1 .. C
      /\ \A j, k \in K : j < k => Rank(K, j) < Rank(K, k)
      /\ \A n \in 1 .. C : \E k \in K : Rank(K, k) = n
  BY <1>1, Ranks
<1>3. Picked(ms, K) = p
  BY DEF Picked, Rank
<1>4. \A n \in 1 .. C : e(n) \in K /\ Rank(K, e(n)) = n
  BY <1>2
<1>5. ASSUME NEW k \in K PROVE e(Rank(K, k)) = k
  <2> DEFINE h == e(Rank(K, k))
  <2>1. h \in K /\ Rank(K, h) = Rank(K, k) /\ Rank(K, k) \in Nat
    BY <1>2, <1>4
  <2> HIDE DEF h
  <2>2. ~(h < k) /\ ~(k < h)
    BY <1>2, <2>1
  <2>3. h = k
    BY <1>1, <2>1, <2>2
  <2> QED
    BY <2>3 DEF h
<1> HIDE DEF e
<1>6. \A n \in 1 .. C : ms[e(n)] \in M
  BY <1>1, <1>4
<1>7. p \in [1 .. C -> M]
  BY <1>6
<1>8. p \in Seq(M) /\ Len(p) = C
  <2>1. p \in Seq(M)
    BY <1>2, <1>7, SeqDef
  <2> QED
    BY <1>2, <1>7, <2>1, LenProperties
<1>9. \A k \in K : p[Rank(K, k)] = ms[k]
  BY <1>2, <1>5
<1> QED
  BY <1>2, <1>3, <1>8, <1>9

-----------------------------------------------------------------------------
(* The messages.                                                           *)

\* A message; the assistant's is nothing but its calls.
Message ==
  {m \in [role : {"system", "user", "assistant", "tool"}, calls : Seq(Slots), id : {0} \cup Slots, of : {0} \cup Slots] :
     m.role = "assistant" => m.id = 0 /\ m.of = 0}

\* Messages a provider accepts, once the last response has the answers it still waits for:
\* each call of an assistant is followed by its answer, and each answer stands among those.
Answering(ms, open) ==
  /\ ms \in Seq(Message) /\ Len(ms) >= 2 /\ ms[1].role = "system" /\ ms[2].role = "user"
  /\ \A k \in 1 .. Len(ms) : ms[k].role = "assistant" =>
       \A n \in 1 .. Len(ms[k].calls) :
         /\ ms[k].calls[n] = n
         /\ k + n <= Len(ms) + open
         /\ k + n <= Len(ms) => ms[k + n] = Answer(n, n)
  /\ \A k \in 1 .. Len(ms) : ms[k].role = "tool" =>
       \E a \in 1 .. k - 1 : IsAskedAt(ms, a, k) /\ k - a <= Len(ms[a].calls)

\* The messages the loop writes.
LEMMA MessageTypes ==
  /\ System \in Message /\ System.role = "system"
  /\ User \in Message /\ User.role = "user"
  /\ \A n, i \in Slots : Answer(n, i) \in Message
  /\ \A n, i : Answer(n, i).role = "tool" /\ Answer(n, i).id = n /\ Answer(n, i).of = i
<1>1. <<>> \in Seq(Slots)
  BY EmptySeq
<1> QED
  BY <1>1 DEF System, User, Answer, Message

\* The message of a response.
LEMMA AsstType ==
  ASSUME NEW b \in Seq(Call)
  PROVE  /\ Asst(b) \in Message /\ Asst(b).role = "assistant"
         /\ Len(Asst(b).calls) = Len(b) /\ \A n \in 1 .. Len(b) : Asst(b).calls[n] = b[n].id
<1> DEFINE c == [i \in 1 .. Len(b) |-> b[i].id]
<1>1. Len(b) \in Nat /\ \A i \in 1 .. Len(b) : b[i].id \in Slots
  <2>1. Len(b) \in Nat /\ \A i \in 1 .. Len(b) : b[i] \in Call
    BY ElementOfSeq
  <2> QED
    BY <2>1 DEF Call
<1>2. c \in [1 .. Len(b) -> Slots]
  BY <1>1
<1>3. c \in Seq(Slots) /\ Len(c) = Len(b)
  <2>1. c \in Seq(Slots)
    BY <1>1, <1>2, SeqDef
  <2> QED
    BY <1>1, <1>2, <2>1, LenProperties
<1>4. \A n \in 1 .. Len(b) : c[n] = b[n].id
  OBVIOUS
<1>5. Asst(b) = [System EXCEPT !.role = "assistant", !.calls = c]
  BY DEF Asst
<1> HIDE DEF c
<1>6. Asst(b) = [role |-> "assistant", calls |-> c, id |-> 0, of |-> 0]
  BY <1>5 DEF System
<1>7. Asst(b) \in Message
  BY <1>3, <1>6 DEF Message
<1>8. Asst(b).role = "assistant" /\ Asst(b).calls = c
  BY <1>6
<1> QED
  BY <1>3, <1>4, <1>7, <1>8

\* What is answered is a list of messages.
LEMMA MessageFacts ==
  ASSUME NEW open, NEW ms, Answering(ms, open)
  PROVE  Len(ms) \in Nat /\ \A k \in 1 .. Len(ms) : ms[k] \in Message /\ Len(ms[k].calls) \in Nat
<1>1. Len(ms) \in Nat /\ \A k \in 1 .. Len(ms) : ms[k] \in Message
  BY ElementOfSeq DEF Answering
<1>2. \A m \in Message : Len(m.calls) \in Nat
  BY LenProperties DEF Message
<1> QED
  BY <1>1, <1>2

\* A response is appended: all its calls wait.
LEMMA AskedKeeps ==
  ASSUME NEW ms, Answering(ms, 0), NEW b \in Seq(Call), \A i \in 1 .. Len(b) : b[i].id = i
  PROVE  Answering(Append(ms, Asst(b)), Len(b))
<1> DEFINE new == Append(ms, Asst(b))
           L == Len(ms)
<1>1. ms \in Seq(Message) /\ L \in Nat /\ Len(b) \in Nat /\ \A k \in 1 .. L : Len(ms[k].calls) \in Nat
  BY MessageFacts DEF Answering
<1>2. /\ new \in Seq(Message) /\ Len(new) = L + 1 /\ new[L + 1] = Asst(b)
      /\ \A k \in 1 .. L : new[k] = ms[k]
  BY <1>1, AsstType, AppendProperties
<1>3. /\ Asst(b).role = "assistant" /\ Len(Asst(b).calls) = Len(b)
      /\ \A n \in 1 .. Len(b) : Asst(b).calls[n] = n
  BY AsstType
<1> HIDE DEF new
<1>4. Len(new) >= 2 /\ new[1].role = "system" /\ new[2].role = "user"
  <2>1. L >= 2 /\ ms[1].role = "system" /\ ms[2].role = "user"
    BY DEF Answering
  <2>2. 1 \in 1 .. L /\ 2 \in 1 .. L /\ L + 1 >= 2
    BY <1>1, <2>1
  <2> QED
    BY <1>2, <2>1, <2>2
<1>5. ASSUME NEW k \in 1 .. Len(new), new[k].role = "assistant", NEW n \in 1 .. Len(new[k].calls)
      PROVE  new[k].calls[n] = n /\ k + n <= Len(new) + Len(b) /\ (k + n <= Len(new) => new[k + n] = Answer(n, n))
  <2>1. CASE k \in 1 .. L
    <3>1. new[k] = ms[k] /\ Len(ms[k].calls) \in Nat
      BY <1>1, <1>2, <2>1
    <3>2. ms[k].calls[n] = n /\ k + n <= L /\ ms[k + n] = Answer(n, n)
      BY <1>1, <1>5, <2>1, <3>1 DEF Answering
    <3> QED
      BY <1>1, <1>2, <2>1, <3>1, <3>2
  <2>2. CASE k = L + 1
    BY <1>1, <1>2, <1>3, <1>5, <2>2
  <2>3. k \in 1 .. L \/ k = L + 1
    <3>1. L \in Nat /\ Len(new) = L + 1 /\ k \in 1 .. Len(new)
      BY <1>1, <1>2
    <3> QED
      BY ONLY <3>1
  <2> QED
    BY <2>1, <2>2, <2>3
<1>6. ASSUME NEW k \in 1 .. Len(new), new[k].role = "tool"
      PROVE  \E a \in 1 .. k - 1 : IsAskedAt(new, a, k) /\ k - a <= Len(new[a].calls)
  <2>1. k \in 1 .. L
    BY <1>1, <1>2, <1>3, <1>6
  <2>2. PICK a \in 1 .. k - 1 : IsAskedAt(ms, a, k) /\ k - a <= Len(ms[a].calls)
    BY <1>2, <1>6, <2>1 DEF Answering
  <2>3. a \in 1 .. L /\ \A j \in a + 1 .. k - 1 : j \in 1 .. L
    BY <1>1, <2>1
  <2>4. IsAskedAt(new, a, k)
    BY <1>2, <2>2, <2>3 DEF IsAskedAt
  <2> QED
    BY <1>2, <2>2, <2>3, <2>4
<1>7. Answering(new, Len(b))
  BY <1>2, <1>4, <1>5, <1>6 DEF Answering
<1> QED
  BY <1>7 DEF new

\* Within the answers of the last response, all messages are answers.
LEMMA LastAsked ==
  ASSUME NEW ms, NEW open \in Nat, Answering(ms, open),
         NEW a \in 1 .. Len(ms), ms[a].role = "assistant", Len(ms) - a < Len(ms[a].calls)
  PROVE  /\ \A j \in a + 1 .. Len(ms) : ms[j].role = "tool"
         /\ \A k \in 1 .. a - 1 : ms[k].role = "assistant" => k + Len(ms[k].calls) < a
<1> DEFINE L == Len(ms)
<1>1. L \in Nat /\ \A k \in 1 .. L : Len(ms[k].calls) \in Nat
  BY MessageFacts
<1>2. \A k \in 1 .. L : ms[k].role = "assistant" =>
        \A n \in 1 .. Len(ms[k].calls) : k + n <= L => ms[k + n].role = "tool"
  <2>1. \A n, i : Answer(n, i).role = "tool"
    BY MessageTypes
  <2> QED
    BY <2>1, SMTT(30) DEF Answering
<1>3. ASSUME NEW j \in a + 1 .. L PROVE ms[j].role = "tool"
  <2> DEFINE n == j - a
  <2>1. n \in 1 .. Len(ms[a].calls) /\ a + n = j /\ j <= L
    BY <1>1
  <2> HIDE DEF n
  <2> QED
    BY <1>2, <2>1
<1>4. ASSUME NEW k \in 1 .. a - 1, ms[k].role = "assistant", ~(k + Len(ms[k].calls) < a) PROVE FALSE
  <2> DEFINE n == a - k
  <2>1. k \in 1 .. L /\ Len(ms[k].calls) \in Nat
    BY <1>1
  <2>2. n \in 1 .. Len(ms[k].calls) /\ k + n = a /\ a <= L
    BY <1>1, <1>4, <2>1
  <2> HIDE DEF n
  <2>3. ms[a].role = "tool"
    BY <1>2, <1>4, <2>1, <2>2
  <2> QED
    BY <2>3
<1> QED
  BY <1>3, <1>4

\* The next answer is appended.
LEMMA AnswerKeeps ==
  ASSUME NEW ms, NEW b \in Seq(Call), NEW h \in 1 .. Len(b), h \in Slots, h < Len(ms),
         Answering(ms, Len(b) - h + 1), ms[Len(ms) - h + 1] = Asst(b)
  PROVE  Answering(Append(ms, Answer(h, h)), Len(b) - h)
<1> DEFINE new == Append(ms, Answer(h, h))
           L == Len(ms)
           a == L - h + 1
<1>1. ms \in Seq(Message) /\ L \in Nat /\ Len(b) \in Nat /\ \A k \in 1 .. L : Len(ms[k].calls) \in Nat
  BY MessageFacts DEF Answering
<1>2. /\ new \in Seq(Message) /\ Len(new) = L + 1 /\ new[L + 1] = Answer(h, h)
      /\ \A k \in 1 .. L : new[k] = ms[k]
  BY <1>1, MessageTypes, AppendProperties
<1>3. /\ a \in 1 .. L /\ ms[a].role = "assistant" /\ Len(ms[a].calls) = Len(b) /\ L - a < Len(b)
      /\ a + h = L + 1
  BY <1>1, AsstType
<1> HIDE DEF new, a
<1>4. /\ \A j \in a + 1 .. L : ms[j].role = "tool"
      /\ \A k \in 1 .. a - 1 : ms[k].role = "assistant" => k + Len(ms[k].calls) < a
  BY <1>1, <1>3, LastAsked, Len(b) - h + 1 \in Nat
<1>5. Len(new) >= 2 /\ new[1].role = "system" /\ new[2].role = "user"
  <2>1. L >= 2 /\ ms[1].role = "system" /\ ms[2].role = "user"
    BY DEF Answering
  <2>2. 1 \in 1 .. L /\ 2 \in 1 .. L /\ L + 1 >= 2
    BY <1>1, <2>1
  <2> QED
    BY <1>2, <2>1, <2>2
<1>6. ASSUME NEW k \in 1 .. Len(new), new[k].role = "assistant", NEW n \in 1 .. Len(new[k].calls)
      PROVE  /\ new[k].calls[n] = n /\ k + n <= Len(new) + (Len(b) - h)
             /\ k + n <= Len(new) => new[k + n] = Answer(n, n)
  <2>1. k \in 1 .. L
    <3>1. new[L + 1].role = "tool"
      BY <1>2, MessageTypes
    <3>2. k # L + 1
      BY <1>6, <3>1
    <3> QED
      BY <1>1, <1>2, <3>2
  <2>2. new[k] = ms[k] /\ ms[k].role = "assistant" /\ Len(ms[k].calls) \in Nat /\ n \in 1 .. Len(ms[k].calls)
    BY <1>1, <1>2, <1>6, <2>1
  <2>3. /\ ms[k].calls[n] = n /\ k + n <= L + (Len(b) - h + 1)
        /\ k + n <= L => ms[k + n] = Answer(n, n)
    BY <2>1, <2>2 DEF Answering
  <2>4. k + n <= Len(new) + (Len(b) - h)
    BY <1>1, <1>2, <2>1, <2>2, <2>3
  <2>5. CASE k + n <= L
    <3>1. k + n \in 1 .. L
      BY <1>1, <2>1, <2>2, <2>5
    <3> QED
      BY <1>2, <2>2, <2>3, <2>4, <2>5, <3>1
  <2>6. CASE k + n = L + 1
    <3>1. ~(k < a)
      <4> SUFFICES ASSUME k < a PROVE FALSE
        OBVIOUS
      <4>1. k \in 1 .. a - 1
        BY <1>1, <1>3, <2>1
      <4>2. k + Len(ms[k].calls) < a
        BY <1>4, <2>2, <4>1
      <4> QED
        <5>1. n \in 1 .. Len(ms[k].calls) /\ Len(ms[k].calls) \in Nat /\ k \in Nat /\ a \in 1 .. L /\ L \in Nat
          BY <1>1, <1>3, <2>1, <2>2
        <5> QED
          BY ONLY <5>1, <2>6, <4>2
    <3>2. ~(k > a)
      <4> SUFFICES ASSUME k > a PROVE FALSE
        OBVIOUS
      <4>1. k \in a + 1 .. L
        BY <1>1, <1>3, <2>1
      <4> QED
        BY <1>4, <2>2, <4>1
    <3>3. n = h
      BY <1>1, <1>3, <2>1, <2>2, <2>6, <3>1, <3>2
    <3> QED
      BY <1>2, <2>2, <2>3, <2>4, <2>6, <3>3
  <2>7. CASE ~(k + n <= L + 1)
    BY <1>2, <2>2, <2>3, <2>4, <2>7
  <2>8. k \in Int /\ n \in Int /\ L \in Int
    BY <1>1, <2>1, <2>2
  <2> HIDE DEF L
  <2>9. k + n <= L \/ k + n = L + 1 \/ ~(k + n <= L + 1)
    BY <2>8
  <2> QED
    BY <2>5, <2>6, <2>7, <2>9
<1>7. ASSUME NEW k \in 1 .. Len(new), new[k].role = "tool"
      PROVE  \E c \in 1 .. k - 1 : IsAskedAt(new, c, k) /\ k - c <= Len(new[c].calls)
  <2>1. CASE k \in 1 .. L
    <3>1. PICK c \in 1 .. k - 1 : IsAskedAt(ms, c, k) /\ k - c <= Len(ms[c].calls)
      BY <1>2, <1>7, <2>1 DEF Answering
    <3>2. c \in 1 .. L /\ \A j \in c + 1 .. k - 1 : j \in 1 .. L
      BY <1>1, <2>1
    <3>3. IsAskedAt(new, c, k)
      BY <1>2, <3>1, <3>2 DEF IsAskedAt
    <3> QED
      BY <1>2, <3>1, <3>2, <3>3
  <2>2. CASE k = L + 1
    <3>1. a \in 1 .. k - 1 /\ k - a <= Len(new[a].calls)
      BY <1>1, <1>2, <1>3, <2>2
    <3>2. \A j \in a + 1 .. k - 1 : j \in 1 .. L /\ new[j].role # "assistant"
      <4>1. \A j \in a + 1 .. k - 1 : j \in a + 1 .. L /\ j \in 1 .. L
        BY ONLY <1>1, <1>3, <2>2
      <4> QED
        BY <1>2, <1>4, <4>1
    <3>3. IsAskedAt(new, a, k)
      BY <1>1, <1>2, <1>3, <2>2, <3>2 DEF IsAskedAt
    <3> QED
      BY <3>1, <3>3
  <2>3. k \in 1 .. L \/ k = L + 1
    <3>1. L \in Nat /\ Len(new) = L + 1 /\ k \in 1 .. Len(new)
      BY <1>1, <1>2
    <3> QED
      BY ONLY <3>1
  <2> QED
    BY <2>1, <2>2, <2>3
<1>8. Answering(new, Len(b) - h)
  BY <1>2, <1>5, <1>6, <1>7 DEF Answering
<1> QED
  BY <1>8 DEF new

\* Places in a response, and places of a transcript that is cut at its beginning.
LEMMA Places ==
  ASSUME NEW m \in Nat, NEW k \in Nat, NEW n \in 1 .. m
  PROVE  /\ n \in Nat \ {0} /\ 1 .. n \subseteq 1 .. m /\ 1 .. n \subseteq 0 .. m
         /\ \A j \in k + 1 .. k + n - 1 : j - k \in 1 .. m /\ j = k + (j - k)
OBVIOUS

\* Places before and after the cut.
LEMMA Shifts ==
  ASSUME NEW d \in Nat, NEW R \in Nat, NEW k \in 1 .. R, NEW a \in 1 .. k - 1, NEW c \in 1 .. (k + d) - 1
  PROVE  /\ c < a + d => a + d \in c + 1 .. (k + d) - 1
         /\ c > a + d => c - d \in a + 1 .. k - 1 /\ c - d \in a .. k /\ (c - d) + d = c
         /\ c < a + d \/ c > a + d \/ c = a + d
         /\ (k + d) - (a + d) = k - a /\ k - a \in Nat \ {0} /\ a + (k - a) = k
         /\ a \in a .. k /\ k \in a .. k /\ (a >= 4 => a .. k \subseteq 4 .. R)
         /\ k + d \in 1 .. R + d /\ a + d \in 1 .. R + d
         /\ a \in 1 .. R
OBVIOUS

\* Without its orphans, a cut transcript is one again: raw is the head, a summary and the
\* end of ms.
LEMMA OrphansDropped ==
  ASSUME NEW ms, Answering(ms, 0), NEW d \in Nat, NEW raw \in Seq(Message),
         Len(raw) >= 3, Len(raw) + d = Len(ms), raw[1] = ms[1], raw[2] = ms[2], raw[3] = User,
         \A k \in 4 .. Len(raw) : raw[k] = ms[k + d]
  PROVE  Answering(DropOrphans(raw), 0)
<1> DEFINE R == Len(raw)
           kept(k) == raw[k].role = "tool" =>
             \E a \in 1 .. k - 1 :
               /\ IsAskedAt(raw, a, k)
               /\ \E n \in 1 .. Len(raw[a].calls) : raw[a].calls[n] = raw[k].id
               /\ \A j \in a + 1 .. k - 1 : raw[j].role = "tool" => raw[j].id # raw[k].id
           K == {k \in 1 .. R : kept(k)}
           C == Cardinality(K)
           new == Picked(raw, K)
<1>1. /\ R \in Nat /\ K \in SUBSET (1 .. R) /\ \A k \in 1 .. R : Len(raw[k].calls) \in Nat
      /\ R >= 3 /\ Len(ms) \in Nat /\ R + d = Len(ms)
      /\ raw[1].role = "system" /\ raw[2].role = "user" /\ raw[3].role = "user"
  <2>1. R \in Nat /\ \A k \in 1 .. R : raw[k] \in Message
    BY ElementOfSeq
  <2>2. \A k \in 1 .. R : Len(raw[k].calls) \in Nat
    BY <2>1, LenProperties DEF Message
  <2> QED
    BY <2>1, <2>2, MessageTypes, MessageFacts DEF Answering
<1>2. DropOrphans(raw) = new
  BY DEF DropOrphans
<1>3. \A k \in 1 .. R : raw[k].role # "tool" => k \in K
  OBVIOUS
<1> HIDE DEF R
<1>4. ASSUME NEW k \in 1 .. R, raw[k].role = "assistant"
      PROVE  /\ k \in K /\ k >= 4
             /\ \A n \in 1 .. Len(raw[k].calls) :
                  raw[k].calls[n] = n /\ k + n \in K /\ raw[k + n] = Answer(n, n)
  <2>1. k \in K /\ k >= 4 /\ k \in 4 .. R /\ raw[k] = ms[k + d] /\ k + d \in 1 .. Len(ms)
    <3>1. k \in 4 .. R
      BY <1>1, <1>4
    <3> QED
      BY <1>1, <1>3, <1>4, <3>1 DEF R
  <2>2. ASSUME NEW n \in 1 .. Len(raw[k].calls)
        PROVE  raw[k].calls[n] = n /\ k + n \in 4 .. R /\ raw[k + n] = Answer(n, n)
    <3> DEFINE kd == k + d
    <3>1. kd \in 1 .. Len(ms) /\ raw[k] = ms[kd] /\ ms[kd].role = "assistant" /\ n \in 1 .. Len(ms[kd].calls)
      BY <1>4, <2>1
    <3> HIDE DEF kd
    <3>2. ms[kd].calls[n] = n /\ kd + n <= Len(ms) + 0 /\ (kd + n <= Len(ms) => ms[kd + n] = Answer(n, n))
      BY <3>1 DEF Answering
    <3>3. k + n \in 4 .. R /\ (k + n) + d = kd + n /\ kd + n <= Len(ms)
      <4>1. n \in Nat \ {0}
        BY <1>1
      <4>2. R \in Nat /\ R + d = Len(ms) /\ d \in Nat /\ k \in 4 .. R /\ (k + d) + n <= Len(ms) + 0
        BY <1>1, <2>1, <3>2 DEF kd
      <4> QED
        BY ONLY <4>1, <4>2 DEF kd
    <3>4. raw[k + n] = ms[(k + n) + d]
      BY <3>3 DEF R
    <3> QED
      BY <3>1, <3>2, <3>3, <3>4
  <2>3. ASSUME NEW n \in 1 .. Len(raw[k].calls) PROVE k + n \in K
    <3>1. n \in Nat /\ \A j \in k + 1 .. k + n - 1 : j - k \in 1 .. Len(raw[k].calls) /\ j = k + (j - k)
      <4>1. Len(raw[k].calls) \in Nat /\ k \in Nat /\ n \in 1 .. Len(raw[k].calls)
        BY <1>1
      <4> QED
        BY ONLY <4>1, Places
    <3>2. ASSUME NEW j \in k + 1 .. k + n - 1 PROVE raw[j].role = "tool" /\ raw[j].id = j - k
      <4>1. raw[k + (j - k)] = Answer(j - k, j - k)
        BY <2>2, <3>1
      <4>2. raw[j] = Answer(j - k, j - k)
        BY <3>1, <4>1
      <4> QED
        BY <4>2, MessageTypes
    <3>3. IsAskedAt(raw, k, k + n)
      <4>1. k < k + n
        <5>1. k \in Nat /\ n \in Nat \ {0}
          BY <1>1
        <5> QED
          BY ONLY <5>1
      <4>2. \A j \in k + 1 .. k + n - 1 : raw[j].role # "assistant"
        BY <3>2
      <4> QED
        BY <1>4, <4>1, <4>2 DEF IsAskedAt
    <3>4. raw[k].calls[n] = raw[k + n].id /\ raw[k + n].id = n
      BY <2>2, MessageTypes
    <3>5. \A j \in k + 1 .. k + n - 1 : raw[j].id # raw[k + n].id
      BY <3>1, <3>2, <3>4
    <3>6. k \in 1 .. (k + n) - 1
      BY <3>1
    <3>7. kept(k + n)
      BY <3>3, <3>4, <3>5, <3>6
    <3>8. k + n \in 1 .. R
      BY <1>1, <2>2
    <3> QED
      BY <3>7, <3>8
  <2> QED
    BY <2>1, <2>2, <2>3
<1>5. \A k \in K : k \in 1 .. R /\ kept(k)
  OBVIOUS
<1> HIDE DEF K, new
<1>6. /\ new \in Seq(Message) /\ Len(new) = C /\ C \in Nat
      /\ \A k \in K : Rank(K, k) \in 1 .. C /\ new[Rank(K, k)] = raw[k]
      /\ \A p \in 1 .. C : \E k \in K : Rank(K, k) = p
  BY <1>1, PickedFacts DEF new
<1>7. C >= 2 /\ new[1].role = "system" /\ new[2].role = "user"
  <2>1. 1 \in K /\ 2 \in K
    <3>1. R \in Nat /\ R >= 3
      BY <1>1
    <3>2. 1 \in 1 .. R /\ 2 \in 1 .. R
      BY ONLY <3>1
    <3>3. raw[1].role # "tool" /\ raw[2].role # "tool"
      BY <1>1
    <3> QED
      BY <1>3, <3>2, <3>3
  <2>2. {j \in K : j <= 1} = {1}
    <3>1. R \in Nat /\ K \in SUBSET (1 .. R)
      BY <1>1
    <3>2. \A j \in K : j <= 1 <=> j = 1
      BY ONLY <3>1
    <3> QED
      BY ONLY <2>1, <3>2
  <2>3. Rank(K, 1) = 1
    BY <2>2, FS_Singleton DEF Rank
  <2>4. Rank(K, 1 + 1) = Rank(K, 1) + 1
    <3>1. 1 + 1 .. 1 + 1 \subseteq K
      BY <2>1
    <3>2. 1 \in 1 .. R /\ 1 \in Nat /\ 1 + 1 <= R
      BY <1>1
    <3> HIDE DEF Rank
    <3> QED
      BY ONLY <1>1, <3>1, <3>2, RankOfRun
  <2> QED
    BY <1>1, <1>6, <2>1, <2>3, <2>4
<1>8. ASSUME NEW k \in 1 .. R, raw[k].role = "assistant", NEW n \in 0 .. Len(raw[k].calls)
      PROVE  k + n \in K /\ Rank(K, k + n) = Rank(K, k) + n
  <2>1. k \in K /\ \A i \in 1 .. Len(raw[k].calls) : k + i \in K
    BY <1>4, <1>8
  <2>2. n \in Nat /\ Len(raw[k].calls) \in Nat
    BY <1>1
  <2>3. k + n \in K
    <3>1. n = 0 \/ n \in 1 .. Len(raw[k].calls)
      BY <2>2
    <3>2. k + 0 = k
      OBVIOUS
    <3> QED
      BY <2>1, <3>1, <3>2
  <2>4. \A j \in k + 1 .. k + n : j - k \in 1 .. Len(raw[k].calls) /\ j = k + (j - k)
    BY <2>2
  <2>5. k + 1 .. k + n \subseteq K
    BY <2>1, <2>4
  <2>6. k + n <= R
    BY <1>1, <1>5, <2>3
  <2>7. Rank(K, k + n) = Rank(K, k) + n
    BY <1>1, <2>2, <2>5, <2>6, RankOfRun
  <2> QED
    BY <2>3, <2>7
<1>9. ASSUME NEW p \in 1 .. C, new[p].role = "assistant", NEW n \in 1 .. Len(new[p].calls)
      PROVE  new[p].calls[n] = n /\ p + n <= C + 0 /\ (p + n <= C => new[p + n] = Answer(n, n))
  <2>1. PICK k \in K : Rank(K, k) = p
    BY <1>6
  <2>2. k \in 1 .. R /\ new[p] = raw[k] /\ raw[k].role = "assistant" /\ n \in 1 .. Len(raw[k].calls)
    BY <1>5, <1>6, <1>9, <2>1
  <2>3. n \in 0 .. Len(raw[k].calls)
    <3>1. Len(raw[k].calls) \in Nat
      BY <1>1, <2>2
    <3> QED
      BY ONLY <2>2, <3>1
  <2>4. k + n \in K /\ Rank(K, k + n) = p + n
    BY <1>8, <2>1, <2>2, <2>3
  <2>5. p + n \in 1 .. C /\ new[p + n] = raw[k + n]
    BY <1>6, <2>4
  <2>6. raw[k].calls[n] = n /\ raw[k + n] = Answer(n, n)
    BY <1>4, <2>2
  <2>7. p + n <= C + 0
    BY <1>6, <2>5
  <2> QED
    BY <2>2, <2>5, <2>6, <2>7
<1>10. ASSUME NEW p \in 1 .. C, new[p].role = "tool"
       PROVE  \E q \in 1 .. p - 1 : IsAskedAt(new, q, p) /\ p - q <= Len(new[q].calls)
  <2>1. PICK k \in K : Rank(K, k) = p
    BY <1>6
  <2>2. k \in 1 .. R /\ new[p] = raw[k] /\ raw[k].role = "tool"
    BY <1>5, <1>6, <1>10, <2>1
  <2>3. PICK a \in 1 .. k - 1 : IsAskedAt(raw, a, k)
    BY <1>5, <2>2
  <2>4. a \in 1 .. R /\ raw[a].role = "assistant" /\ Len(raw[a].calls) \in Nat
    BY <1>1, <2>2, <2>3 DEF IsAskedAt
  <2>5. a >= 4 /\ a \in K
    BY <1>4, <2>4
  <2>6. /\ \A j \in a .. k : j \in 4 .. R /\ raw[j] = ms[j + d]
        /\ k + d \in 1 .. Len(ms) /\ a + d \in 1 .. Len(ms)
    BY <1>1, <2>2, <2>3, <2>5
  <2>7. ms[k + d].role = "tool" /\ ms[a + d].role = "assistant"
    <3>1. a \in a .. k /\ k \in a .. k
      BY <2>2
    <3>2. raw[a] = ms[a + d] /\ raw[k] = ms[k + d]
      BY <2>6, <3>1
    <3> QED
      BY <2>2, <2>4, <3>2
  <2>8. PICK c \in 1 .. (k + d) - 1 : IsAskedAt(ms, c, k + d) /\ (k + d) - c <= Len(ms[c].calls)
    BY <2>6, <2>7 DEF Answering
  <2> DEFINE P == (k + d) - 1
  <2>0. /\ c < a + d => a + d \in c + 1 .. P
        /\ c > a + d => c - d \in a + 1 .. k - 1 /\ c - d \in a .. k /\ (c - d) + d = c
        /\ c < a + d \/ c > a + d \/ c = a + d
        /\ (k + d) - (a + d) = k - a /\ k - a \in Nat \ {0} /\ a + (k - a) = k
    <3>1. d \in Nat /\ R \in Nat /\ k \in 1 .. R /\ a \in 1 .. k - 1 /\ c \in 1 .. (k + d) - 1
      BY <1>1, <2>2
    <3> QED
      BY ONLY <3>1, Shifts DEF P
  <2> HIDE DEF P
  <2>9. ~(c < a + d)
    <3> SUFFICES ASSUME c < a + d PROVE FALSE
      OBVIOUS
    <3>1. a + d \in c + 1 .. (k + d) - 1
      BY <2>0 DEF P
    <3> QED
      BY <2>7, <2>8, <3>1 DEF IsAskedAt
  <2>10. ~(c > a + d)
    <3> SUFFICES ASSUME c > a + d PROVE FALSE
      OBVIOUS
    <3>1. c - d \in a + 1 .. k - 1 /\ (c - d) + d = c
      BY <2>0
    <3>2. raw[c - d] = ms[c]
      BY ONLY <2>0, <2>6, c > a + d
    <3> QED
      BY <2>3, <2>8, <3>1, <3>2 DEF IsAskedAt
  <2>11. c = a + d
    BY <2>0, <2>9, <2>10
  <2> DEFINE n == k - a
             q == Rank(K, a)
  <2>12. n \in 1 .. Len(raw[a].calls) /\ a + n = k
    <3>1. (k + d) - c = n /\ n \in Nat \ {0} /\ a + n = k
      BY <2>0, <2>11
    <3>2. raw[a] = ms[c]
      <4>1. a \in a .. k
        BY <2>2
      <4> QED
        BY <2>6, <2>11, <4>1
    <3>3. n <= Len(raw[a].calls)
      BY <2>8, <3>1, <3>2
    <3> QED
      BY ONLY <2>4, <3>1, <3>3
  <2>13. q \in 1 .. C /\ new[q] = raw[a]
    BY <1>6, <2>5
  <2> HIDE DEF n, q
  <2>14. ASSUME NEW i \in 1 .. n PROVE a + i \in K /\ Rank(K, a + i) = q + i /\ raw[a + i].role = "tool"
    <3>1. i \in 1 .. Len(raw[a].calls) /\ i \in 0 .. Len(raw[a].calls)
      <4>1. i \in 1 .. n
        OBVIOUS
      <4> QED
        BY ONLY <2>4, <2>12, <4>1
    <3>2. a + i \in K /\ Rank(K, a + i) = Rank(K, a) + i
      BY <1>8, <2>4, <3>1
    <3>3. raw[a + i] = Answer(i, i)
      BY <1>4, <2>4, <3>1
    <3> QED
      BY <3>2, <3>3, MessageTypes DEF q
  <2>15. p = q + n /\ n \in Nat \ {0} /\ q \in Nat \ {0}
    <3>1. n \in Nat \ {0} /\ q \in Nat \ {0}
      <4>1. n \in 1 .. Len(raw[a].calls) /\ Len(raw[a].calls) \in Nat /\ q \in 1 .. C /\ C \in Nat
        BY <1>6, <2>4, <2>12, <2>13
      <4> QED
        BY ONLY <4>1
    <3>2. Rank(K, a + n) = q + n
      BY <2>14, <3>1
    <3> QED
      BY <2>1, <2>12, <3>1, <3>2
  <2>16. ASSUME NEW j \in q + 1 .. p - 1 PROVE new[j].role # "assistant"
    <3>1. j - q \in 1 .. n /\ q + (j - q) = j
      BY <2>15
    <3>2. a + (j - q) \in K /\ Rank(K, a + (j - q)) = j /\ raw[a + (j - q)].role = "tool"
      BY <2>14, <3>1
    <3>3. new[j] = raw[a + (j - q)]
      BY <1>6, <3>2
    <3> QED
      BY <3>2, <3>3
  <2>17. q \in 1 .. p - 1 /\ p - q <= Len(new[q].calls)
    <3>1. p - q = n
      BY <2>15
    <3>2. n <= Len(new[q].calls)
      BY <2>4, <2>12, <2>13
    <3> QED
      BY <2>15, <3>1, <3>2
  <2>18. IsAskedAt(new, q, p)
    BY <2>4, <2>13, <2>15, <2>16, <2>17 DEF IsAskedAt
  <2> QED
    BY <2>17, <2>18
<1>11. Answering(new, 0)
  <2>1. new \in Seq(Message) /\ Len(new) = C
    BY <1>6
  <2>2. \A p \in 1 .. C : new[p].role = "assistant" =>
          \A n \in 1 .. Len(new[p].calls) :
            new[p].calls[n] = n /\ p + n <= C + 0 /\ (p + n <= C => new[p + n] = Answer(n, n))
    BY <1>9
  <2>3. \A p \in 1 .. C : new[p].role = "tool" =>
          \E a \in 1 .. p - 1 : IsAskedAt(new, a, p) /\ p - a <= Len(new[a].calls)
    BY <1>10
  <2> HIDE DEF C, kept
  <2> QED
    BY ONLY <1>7, <2>1, <2>2, <2>3 DEF Answering
<1> QED
  BY <1>2, <1>11

\* Compression leaves every call answered.
LEMMA CompressedKeeps == ASSUME NEW ms, Answering(ms, 0) PROVE Answering(Compressed(ms), 0)
<1> DEFINE L == Len(ms)
           t == L - KeepTail
           head == <<ms[1], ms[2], User>>
           end == SubSeq(ms, t + 1, L)
           raw == head \o end
<1>1. ms \in Seq(Message) /\ L \in Nat /\ L >= 2 /\ \A k \in 1 .. L : ms[k] \in Message
  BY MessageFacts DEF Answering
<1>2. KeepTail \in Nat \ {0} /\ t \in Int /\ t < L
  BY <1>1, LoopAssumption
<1>3. Compressed(ms) = ms \/ (t >= 3 /\ Compressed(ms) = DropOrphans(raw))
  BY <1>1, <1>2 DEF Compressed
<1>4. ASSUME t >= 3 PROVE Answering(DropOrphans(raw), 0)
  <2>1. head \in Seq(Message) /\ Len(head) = 3 /\ head[1] = ms[1] /\ head[2] = ms[2] /\ head[3] = User
    BY <1>1, MessageTypes
  <2>2. /\ end \in Seq(Message) /\ Len(end) = L - t
        /\ \A i \in 1 .. L - t : end[i] = ms[t + i]
    <3>1. \A i \in t + 1 .. L : ms[i] \in Message
      <4>1. \A i \in t + 1 .. L : i \in 1 .. L
        BY <1>1, <1>2, <1>4
      <4> QED
        BY <1>1, <4>1
    <3>2. /\ end \in Seq(Message) /\ Len(end) = IF t + 1 <= L THEN L - (t + 1) + 1 ELSE 0
          /\ \A i \in 1 .. L - (t + 1) + 1 : end[i] = ms[(t + 1) + i - 1]
      BY <1>1, <1>2, <3>1, SubSeqProperties
    <3>3. \A i \in 1 .. L - t : (t + 1) + i - 1 = t + i
      BY <1>1, <1>2
    <3> QED
      BY <1>1, <1>2, <3>2, <3>3
  <2> HIDE DEF head, end
  <2>3. /\ raw \in Seq(Message) /\ Len(raw) = 3 + (L - t)
        /\ \A i \in 1 .. 3 + (L - t) : raw[i] = IF i <= 3 THEN head[i] ELSE end[i - 3]
    <3>1. /\ raw \in Seq(Message) /\ Len(raw) = Len(head) + Len(end)
          /\ \A i \in 1 .. Len(head) + Len(end) : raw[i] = IF i <= Len(head) THEN head[i] ELSE end[i - Len(head)]
      BY <2>1, <2>2, ConcatProperties
    <3> HIDE DEF raw
    <3> QED
      BY <2>1, <2>2, <3>1
  <2> DEFINE d == t - 3
  <2>4. d \in Nat /\ Len(raw) >= 3 /\ Len(raw) + d = L
    BY <1>1, <1>2, <1>4, <2>3
  <2>5. raw[1] = ms[1] /\ raw[2] = ms[2] /\ raw[3] = User
    <3>1. \A i \in {1, 2, 3} : i \in 1 .. 3 + (L - t) /\ i <= 3
      BY ONLY <1>1, <1>2
    <3> QED
      BY ONLY <2>1, <2>3, <3>1
  <2>6. ASSUME NEW k \in 4 .. Len(raw) PROVE raw[k] = ms[k + d]
    <3>1. k - 3 \in 1 .. L - t /\ ~(k <= 3) /\ k \in 1 .. 3 + (L - t) /\ t + (k - 3) = k + d
      BY <1>1, <1>2, <2>3
    <3> QED
      BY <2>2, <2>3, <3>1
  <2> HIDE DEF raw, d
  <2> QED
    BY <2>3, <2>4, <2>5, <2>6, OrphansDropped
<1> QED
  BY <1>3, <1>4

-----------------------------------------------------------------------------
(* The transcript of a model that gives every call of a response an id of its own. *)

\* The ids are the positions, and what is kept under an id is the call of that id.
Named ==
  /\ \A i \in Positions : batch[i].id = i
  /\ \A id \in Slots : prefetched[id] \in {0, id}

\* Between two responses every call has its answer.  While the results are taken, those
\* from here on are still missing, and the response stands where they belong.
Transcript ==
  /\ pc \in {"top", "composing", "asking"} => Answering(messages, 0)
  /\ pc \in {"prefetching", "answering", "executing"} =>
       /\ Answering(messages, Len(batch) - here + 1)
       /\ here < Len(messages)
       /\ messages[Len(messages) - here + 1] = Asst(batch)

\* At the start there are no calls.
LEMMA InitTranscript == Init => Named /\ Transcript
<1> SUFFICES ASSUME Init PROVE Named /\ Transcript
  OBVIOUS
<1>1. Named
  BY DEF Init, Named, Positions
<1>2. Answering(messages, 0)
  <2>1. messages = <<System, User>> /\ messages \in Seq(Message) /\ Len(messages) = 2
    BY MessageTypes DEF Init
  <2>2. \A k \in 1 .. 2 : k = 1 \/ k = 2
    OBVIOUS
  <2>3. \A k \in 1 .. Len(messages) : messages[k].role \in {"system", "user"}
    BY <2>1, <2>2, MessageTypes
  <2> QED
    BY <2>1, <2>3, MessageTypes DEF Answering
<1> QED
  BY <1>1, <1>2 DEF Init, Transcript

\* The answer to the call at here is its own result.
LEMMA TakeTranscript ==
  ASSUME Inv, Named, Transcript, here \in Positions, pc \in {"answering", "executing"},
         NEW kind, Take(here, kind)
  PROVE  Transcript'
<1>1. CASE Trip
  BY <1>1 DEF Trip, Transcript
<1>2. CASE Report(batch[here], here)
  <2> DEFINE new == Append(messages, Answer(here, here))
  <2>1. /\ messages' = new /\ batch' = batch /\ here' = here + 1
        /\ pc' = IF here = Len(batch) THEN "top" ELSE "answering"
    BY <1>2 DEF Report, Take, Named
  <2>2. /\ Answering(messages, Len(batch) - here + 1) /\ here < Len(messages)
        /\ messages[Len(messages) - here + 1] = Asst(batch)
    BY DEF Transcript
  <2>3. batch \in Seq(Call) /\ here \in 1 .. Len(batch) /\ here \in Slots /\ Len(batch) \in Nat
    BY DueType, BatchType DEF Inv, Positions
  <2>4. Answering(new, Len(batch) - here)
    BY <2>2, <2>3, AnswerKeeps
  <2>5. Len(new) = Len(messages) + 1 /\ Len(messages) \in Nat
        /\ \A k \in 1 .. Len(messages) : new[k] = messages[k]
    <3>1. messages \in Seq(Message)
      BY <2>2 DEF Answering
    <3> QED
      BY <2>3, <3>1, MessageTypes, AppendProperties, LenProperties
  <2> HIDE DEF new
  <2>6. CASE here = Len(batch)
    <3>1. Len(batch) - here = 0 /\ pc' = "top"
      BY <2>1, <2>3, <2>6
    <3> QED
      BY <2>1, <2>4, <3>1 DEF Transcript
  <2>7. CASE here # Len(batch)
    <3>1. /\ pc' = "answering" /\ Len(batch) - (here + 1) + 1 = Len(batch) - here
          /\ Len(new) - (here + 1) + 1 = Len(messages) - here + 1
          /\ here + 1 < Len(new) /\ Len(messages) - here + 1 \in 1 .. Len(messages)
      <4> DEFINE n == Len(messages)
                 w == Len(batch)
                 h == here
                 t == Len(new)
      <4>1. n \in Nat /\ w \in Nat /\ h \in 1 .. w /\ h < n /\ h # w /\ t = n + 1
        BY <2>2, <2>3, <2>5, <2>7
      <4>2. pc' = "answering"
        BY <2>1, <2>7
      <4> HIDE DEF n, w, h, t
      <4>3. /\ w - (h + 1) + 1 = w - h /\ t - (h + 1) + 1 = n - h + 1
            /\ h + 1 < t /\ n - h + 1 \in 1 .. n
        BY <4>1
      <4> QED
        BY <4>2, <4>3 DEF n, w, h, t
    <3>2. new[Len(new) - (here + 1) + 1] = Asst(batch)
      BY <2>2, <2>5, <3>1
    <3>3. Asst(batch)' = Asst(batch)
      BY <2>1 DEF Asst
    <3> QED
      BY <2>1, <2>4, <3>1, <3>2, <3>3 DEF Transcript
  <2> QED
    BY <2>6, <2>7
<1> QED
  BY <1>1, <1>2 DEF Take

\* Every step keeps the calls answered, but for those that still wait.
LEMMA StepTranscript ==
  ASSUME UniqueIds, Inv, Inv', Named, Transcript, [Next]_vars
  PROVE  Named' /\ Transcript'
<1>1. CASE StopAtTop \/ Answered \/ StopBetween
  BY <1>1 DEF StopAtTop, Answered, StopBetween, End, Named, Transcript, Positions
<1>2. CASE Begin \/ Cancel \/ Escape
  <2>1. UNCHANGED <<batch, prefetched, here, messages>> /\ Asst(batch)' = Asst(batch)
    BY <1>2 DEF Begin, Cancel, Escape, Asst
  <2>2. Named'
    BY <2>1 DEF Named, Positions
  <2>3. Transcript'
    BY <1>2, <2>1 DEF Begin, Cancel, Escape, Transcript
  <2> QED
    BY <2>2, <2>3
<1>3. CASE Ask
  <2>1. Answering(messages, 0)
    BY <1>3 DEF Ask, Transcript
  <2>2. Answering(messages', 0)
    BY <1>3, <2>1, CompressedKeeps DEF Ask
  <2>3. pc' = "asking" /\ UNCHANGED <<batch, prefetched>>
    BY <1>3 DEF Ask
  <2> QED
    BY <2>2, <2>3 DEF Named, Transcript, Positions
<1>4. CASE CallTools
  <2>1. PICK n \in 1 .. Width[turn] : \E b \in [1 .. n -> Call] :
          /\ UniqueIds => \A i \in 1 .. n : b[i].id = i
          /\ batch' = b /\ messages' = Append(messages, Asst(b))
    BY <1>4 DEF CallTools
  <2>2. PICK b \in [1 .. n -> Call] :
          /\ \A i \in 1 .. n : b[i].id = i
          /\ batch' = b /\ messages' = Append(messages, Asst(b))
    BY <2>1
  <2>3. pc = "asking" /\ pc' \in {"prefetching", "answering"} /\ here' = 1 /\ prefetched' = [id \in Slots |-> 0]
    BY <1>4 DEF CallTools
  <2>4. n \in Nat /\ n >= 1 /\ b \in Seq(Call) /\ Len(b) = n
    <3>1. Width[turn] \in Nat
      BY LoopAssumption DEF Inv, TypeOK
    <3>2. n \in Nat /\ n >= 1
      BY <3>1
    <3>3. b \in Seq(Call)
      BY <3>2, SeqDef
    <3> QED
      BY <3>2, <3>3, LenProperties
  <2>5. Named'
    BY <2>2, <2>3, <2>4 DEF Named, Positions
  <2>6. Answering(messages, 0)
    BY <2>3 DEF Transcript
  <2>7. Answering(messages', Len(b))
    BY <2>2, <2>4, <2>6, AskedKeeps
  <2>8. Len(messages) \in Nat /\ Len(messages) >= 2 /\ messages \in Seq(Message)
    BY <2>6, MessageFacts DEF Answering
  <2>9. Len(messages') = Len(messages) + 1 /\ messages'[Len(messages) + 1] = Asst(b)
    BY <2>2, <2>4, <2>8, AsstType, AppendProperties
  <2>10. Len(batch') - here' + 1 = Len(b) /\ here' < Len(messages') /\ Len(messages') - here' + 1 = Len(messages) + 1
    BY <2>2, <2>3, <2>4, <2>8, <2>9
  <2>11. Asst(batch)' = Asst(b)
    BY <2>2 DEF Asst
  <2>12. Transcript'
    BY <2>2, <2>3, <2>7, <2>9, <2>10, <2>11 DEF Transcript
  <2> QED
    BY <2>5, <2>12
<1>5. CASE (\E i \in Slots : Start(i)) \/ NextGroup \/ Execute
  <2>1. UNCHANGED <<batch, prefetched, here, messages>> /\ Asst(batch)' = Asst(batch)
        /\ pc \in {"prefetching", "answering"} /\ pc' \in {"prefetching", "answering", "executing"}
    BY <1>5 DEF Start, NextGroup, LeaveGroup, Execute, Asst
  <2>2. Named'
    BY <2>1 DEF Named, Positions
  <2>3. Transcript'
    BY <2>1 DEF Transcript
  <2> QED
    BY <2>2, <2>3
<1>6. CASE \E i \in Slots : Finish(i)
  <2>1. PICK i \in Slots : Finish(i)
    BY <1>6
  <2>2. /\ UNCHANGED <<pc, batch, here, messages>> /\ Asst(batch)' = Asst(batch)
        /\ prefetched' = [prefetched EXCEPT ![batch[i].id] = i] /\ i \in Positions
    BY <2>1 DEF Finish, Asst, Running
  <2>3. batch[i].id = i
    BY <2>2 DEF Named
  <2>4. Named'
    BY <2>2, <2>3 DEF Named, Positions, Inv, TypeOK
  <2>5. Transcript'
    BY <2>2 DEF Transcript
  <2> QED
    BY <2>4, <2>5
<1>7. CASE TakePrefetched
  <2>1. here \in Positions /\ pc = "answering"
    BY <1>7 DEF TakePrefetched, Inv, TypeOK
  <2>2. here \in Slots /\ batch[here].id = here
    BY <2>1, BatchType DEF Named, Inv
  <2>3. prefetched[here] = here
    BY <1>7, <2>2 DEF TakePrefetched, IsPrefetched, Named
  <2>4. Take(here, result[here]) /\ UNCHANGED <<batch, prefetched>>
    BY <1>7, <2>2, <2>3 DEF TakePrefetched, Take
  <2>5. Transcript'
    BY <2>1, <2>4, TakeTranscript
  <2> QED
    BY <2>4, <2>5 DEF Named, Positions
<1>8. CASE TakeExecuted
  <2>1. here \in Positions /\ pc = "executing"
    BY <1>8 DEF TakeExecuted, Inv, TypeOK
  <2>2. PICK kind \in Outcomes : Take(here, kind)
    BY <1>8 DEF TakeExecuted
  <2>3. UNCHANGED <<batch, prefetched>>
    BY <2>2 DEF Take
  <2>4. Transcript'
    BY <2>1, <2>2, TakeTranscript
  <2> QED
    BY <2>3, <2>4 DEF Named, Positions
<1>9. CASE UNCHANGED vars
  <2>1. UNCHANGED <<pc, batch, prefetched, here, messages>> /\ Asst(batch)' = Asst(batch)
    BY <1>9 DEF vars, Asst
  <2>2. Named'
    BY <2>1 DEF Named, Positions
  <2>3. Transcript'
    BY <2>1 DEF Transcript
  <2> QED
    BY <2>2, <2>3
<1> QED
  BY <1>1, <1>2, <1>3, <1>4, <1>5, <1>6, <1>7, <1>8, <1>9 DEF Next, Step, ToolReturns

\* A request shows every call of every response answered by its own result, in order,
\* and no answer by itself, whatever was prefetched, skipped or compressed before it and
\* for any settings of the compressor (TranscriptAnswered; context_compression.py:137-180,
\* llm_agent_adapter.py:938-1182).
THEOREM TranscriptHolds == UniqueIds => (Spec => []TranscriptAnswered)
<1> SUFFICES ASSUME UniqueIds PROVE Spec => []TranscriptAnswered
  OBVIOUS
<1>1. Inv /\ Transcript => TranscriptAnswered
  <2> SUFFICES ASSUME Transcript, pc = "asking" PROVE TranscriptAnswered
    BY DEF TranscriptAnswered
  <2>1. Answering(messages, 0) /\ Len(messages) \in Nat
    BY MessageFacts DEF Transcript
  <2>2. ASSUME NEW k \in 1 .. Len(messages), messages[k].role = "assistant",
               NEW n \in 1 .. Len(messages[k].calls)
        PROVE  /\ k + n <= Len(messages) /\ messages[k + n].role = "tool"
               /\ messages[k + n].id = messages[k].calls[n] /\ messages[k + n].of = n
    <3>1. Len(messages) + 0 = Len(messages)
      BY <2>1
    <3>2. messages[k].calls[n] = n /\ k + n <= Len(messages) /\ messages[k + n] = Answer(n, n)
      BY <2>1, <2>2, <3>1 DEF Answering
    <3> QED
      BY <3>2, MessageTypes
  <2>3. ASSUME NEW k \in 1 .. Len(messages), messages[k].role = "tool"
        PROVE  \E a \in 1 .. k - 1 : IsAskedAt(messages, a, k)
    BY <2>1, <2>3 DEF Answering
  <2> QED
    BY <2>2, <2>3 DEF TranscriptAnswered
<1>2. Init => Named /\ Transcript
  BY InitTranscript
<1>3. Inv /\ Inv' /\ Named /\ Transcript /\ [Next]_vars => Named' /\ Transcript'
  BY StepTranscript
<1> QED
  BY <1>1, <1>2, <1>3, InvHolds, PTL DEF Spec

-----------------------------------------------------------------------------
(* The builder cuts a response bt into the groups.                         *)

Segment == [calls : Seq(Nat), mode : {"serial", "concurrent"}]

\* g is the group of the calls after lo up to hi.
IsSegment(bt, g, lo, hi) ==
  /\ lo < hi /\ g \in Segment /\ g.calls = [n \in 1 .. hi - lo |-> lo + n]
  /\ Starts(bt, lo + 1)
  /\ \/ g.mode = "serial" /\ hi = lo + 1 /\ Alone(bt, hi)
     \/ g.mode = "concurrent" /\ \A j \in lo + 1 .. hi : ~Alone(bt, j)

\* The groups end at the calls ends[1], ends[2], and so on.
CutAt(bt, groups, ends) ==
  /\ groups \in Seq(Segment) /\ ends \in [0 .. Len(groups) -> Nat] /\ ends[0] = 0
  /\ \A k \in 1 .. Len(groups) : IsSegment(bt, groups[k], ends[k - 1], ends[k])

\* A builder by its fields.
Builder(buf, groups, seen) == [buf |-> buf, groups |-> groups, seen |-> seen]

\* The builder after i calls: the groups, and the calls since that wait for theirs.
BuiltTo(bt, b, i) ==
  \E ends :
    LET from == ends[Len(b.groups)]
    IN  /\ CutAt(bt, b.groups, ends)
        /\ from <= i /\ b.buf = [n \in 1 .. i - from |-> from + n]
        /\ Starts(bt, from + 1) /\ \A j \in from + 1 .. i : ~Alone(bt, j)
        /\ b.seen = {GroupKey(bt[j]) : j \in 1 .. i} \ {NoGroup}
        /\ b = Builder(b.buf, b.groups, b.seen)

\* The calls of a segment: consecutive places.
LEMMA SegmentCalls ==
  ASSUME NEW lo \in Nat, NEW hi \in Nat, lo <= hi
  PROVE  LET c == [n \in 1 .. hi - lo |-> lo + n]
         IN  /\ c \in Seq(Nat) /\ Len(c) = hi - lo
             /\ c = <<>> <=> lo = hi
             /\ lo < hi => c[Len(c)] = hi
             /\ \A i : i \in lo + 1 .. hi <=> \E n \in 1 .. Len(c) : i = c[n]
<1> DEFINE c == [n \in 1 .. hi - lo |-> lo + n]
<1>1. hi - lo \in Nat
  OBVIOUS
<1>2. c \in [1 .. hi - lo -> Nat]
  OBVIOUS
<1>3. c \in Seq(Nat) /\ Len(c) = hi - lo
  <2>1. c \in Seq(Nat)
    BY <1>1, <1>2, SeqDef
  <2> QED
    BY <1>1, <1>2, <2>1, LenProperties
<1>4. c = <<>> <=> lo = hi
  BY <1>3, EmptySeq
<1>5. lo < hi => c[hi - lo] = hi
  OBVIOUS
<1>6. ASSUME NEW i PROVE i \in lo + 1 .. hi <=> \E n \in 1 .. hi - lo : i = c[n]
  <2>1. ASSUME i \in lo + 1 .. hi PROVE \E n \in 1 .. hi - lo : i = c[n]
    <3>1. i - lo \in 1 .. hi - lo /\ lo + (i - lo) = i
      BY <2>1
    <3> QED
      BY <3>1
  <2>2. ASSUME NEW n \in 1 .. hi - lo, i = c[n] PROVE i \in lo + 1 .. hi
    BY <2>2
  <2> QED
    BY <2>1, <2>2
<1> HIDE DEF c
<1>7. /\ c \in Seq(Nat) /\ Len(c) = hi - lo /\ (c = <<>> <=> lo = hi)
      /\ lo < hi => c[Len(c)] = hi
      /\ \A i : i \in lo + 1 .. hi <=> \E n \in 1 .. Len(c) : i = c[n]
  BY <1>3, <1>4, <1>5, <1>6
<1> QED
  BY <1>7 DEF c

\* One group more.
LEMMA CutMore ==
  ASSUME NEW bt, NEW groups, NEW ends, CutAt(bt, groups, ends),
         NEW hi \in Nat, NEW g, IsSegment(bt, g, ends[Len(groups)], hi)
  PROVE  \E more : CutAt(bt, Append(groups, g), more) /\ more[Len(Append(groups, g))] = hi
<1> DEFINE m == Len(groups)
           new == Append(groups, g)
           more == [k \in 0 .. m + 1 |-> IF k = m + 1 THEN hi ELSE ends[k]]
<1>1. m \in Nat /\ groups \in Seq(Segment) /\ ends \in [0 .. m -> Nat] /\ ends[0] = 0
  BY LenProperties DEF CutAt
<1>2. g \in Segment
  BY DEF IsSegment
<1>3. /\ new \in Seq(Segment) /\ Len(new) = m + 1 /\ new[m + 1] = g
      /\ \A k \in 1 .. m : new[k] = groups[k]
  BY <1>1, <1>2, AppendProperties
<1> HIDE DEF new
<1>4. more \in [0 .. m + 1 -> Nat] /\ more[m + 1] = hi /\ \A k \in 0 .. m : more[k] = ends[k]
  BY <1>1
<1> HIDE DEF more
<1>5. more[0] = 0
  BY <1>1, <1>4
<1>6. ASSUME NEW k \in 1 .. m + 1 PROVE IsSegment(bt, new[k], more[k - 1], more[k])
  <2>1. CASE k = m + 1
    <3>1. k - 1 = m /\ m \in 0 .. m
      BY <1>1, <2>1
    <3>2. more[k - 1] = ends[m]
      BY <1>4, <3>1
    <3> QED
      BY <1>3, <1>4, <2>1, <3>2
  <2>2. CASE k \in 1 .. m
    <3>1. k - 1 \in 0 .. m /\ k \in 0 .. m
      BY <1>1, <2>2
    <3>2. more[k - 1] = ends[k - 1] /\ more[k] = ends[k] /\ new[k] = groups[k]
      BY <1>3, <1>4, <2>2, <3>1
    <3> QED
      BY <2>2, <3>2 DEF CutAt
  <2>3. k = m + 1 \/ k \in 1 .. m
    BY <1>1
  <2> QED
    BY <2>1, <2>2, <2>3
<1>7. CutAt(bt, new, more)
  BY <1>3, <1>4, <1>5, <1>6 DEF CutAt
<1> QED
  BY <1>3, <1>4, <1>7 DEF new

\* flush_concurrent: what waits becomes a group.
LEMMA FlushCuts ==
  ASSUME NEW bt, NEW b, NEW i \in Nat, BuiltTo(bt, b, i)
  PROVE  /\ Flush(b).buf = <<>> /\ Flush(b).seen = b.seen
         /\ Flush(b) = Builder(Flush(b).buf, Flush(b).groups, Flush(b).seen)
         /\ \E ends : CutAt(bt, Flush(b).groups, ends) /\ ends[Len(Flush(b).groups)] = i
<1>1. PICK ends :
        LET from == ends[Len(b.groups)]
        IN  /\ CutAt(bt, b.groups, ends)
            /\ from <= i /\ b.buf = [n \in 1 .. i - from |-> from + n]
            /\ Starts(bt, from + 1) /\ \A j \in from + 1 .. i : ~Alone(bt, j)
            /\ b = Builder(b.buf, b.groups, b.seen)
  BY DEF BuiltTo
<1> DEFINE m == Len(b.groups)
           from == ends[m]
<1>2. m \in Nat /\ from \in Nat
  <2>1. b.groups \in Seq(Segment) /\ ends \in [0 .. m -> Nat]
    BY <1>1 DEF CutAt
  <2>2. m \in Nat
    BY <2>1, LenProperties
  <2> QED
    BY <2>1, <2>2
<1>3. CASE b.buf = <<>>
  <2>1. Flush(b) = b
    BY <1>3 DEF Flush
  <2>2. from = i
    BY <1>1, <1>2, <1>3, SegmentCalls
  <2>3. CutAt(bt, b.groups, ends) /\ ends[Len(b.groups)] = i
    BY <1>1, <2>2
  <2> QED
    BY ONLY <1>1, <1>3, <2>1, <2>3
<1>4. CASE b.buf # <<>>
  <2> DEFINE g == [calls |-> b.buf, mode |-> "concurrent"]
  <2>1. /\ Flush(b).buf = <<>> /\ Flush(b).seen = b.seen /\ Flush(b).groups = Append(b.groups, g)
        /\ Flush(b) = Builder(Flush(b).buf, Flush(b).groups, Flush(b).seen)
    <3>1. Flush(b) = [b EXCEPT !.buf = <<>>, !.groups = Append(b.groups, g)]
      BY <1>4 DEF Flush
    <3>2. Flush(b) = Builder(<<>>, Append(b.groups, g), b.seen)
      BY <1>1, <3>1 DEF Builder
    <3> QED
      BY <3>2 DEF Builder
  <2>2. from < i /\ b.buf \in Seq(Nat)
    <3>1. from # i /\ b.buf \in Seq(Nat)
      <4>1. from <= i /\ from \in Nat /\ i \in Nat /\ b.buf = [n \in 1 .. i - from |-> from + n]
        BY <1>1, <1>2
      <4> HIDE DEF from
      <4> QED
        BY ONLY <1>4, <4>1, SegmentCalls
    <3> QED
      BY <1>1, <1>2, <3>1
  <2>3. IsSegment(bt, g, from, i)
    BY <1>1, <2>2 DEF IsSegment, Segment
  <2> HIDE DEF g
  <2>4. CutAt(bt, b.groups, ends) /\ i \in Nat
    BY <1>1
  <2>5. \E more : CutAt(bt, Append(b.groups, g), more) /\ more[Len(Append(b.groups, g))] = i
    BY ONLY <2>3, <2>4, CutMore
  <2> QED
    BY <2>1, <2>5
<1> QED
  BY <1>3, <1>4

\* A group of one call that runs alone, and nothing that waits.
LEMMA EmitCuts ==
  ASSUME NEW bt, NEW i \in Nat \ {0}, NEW b, NEW groups, NEW ends,
         CutAt(bt, groups, ends), ends[Len(groups)] = i - 1, Alone(bt, i),
         b = Builder(<<>>, Append(groups, [calls |-> <<i>>, mode |-> "serial"]), b.seen),
         b.seen = {GroupKey(bt[j]) : j \in 1 .. i} \ {NoGroup}
  PROVE  BuiltTo(bt, b, i)
<1> DEFINE g == [calls |-> <<i>>, mode |-> "serial"]
           new == Append(groups, g)
<1>1. IsSegment(bt, g, i - 1, i)
  <2>1. <<i>> = [n \in 1 .. i - (i - 1) |-> (i - 1) + n]
    <3>1. i - (i - 1) = 1 /\ (i - 1) + 1 = i
      BY ONLY i \in Nat \ {0}
    <3>2. [n \in 1 .. 1 |-> (i - 1) + n] = [n \in 1 .. 1 |-> i]
      <4>1. \A n \in 1 .. 1 : (i - 1) + n = i
        BY ONLY i \in Nat \ {0}
      <4> QED
        BY <4>1
    <3> QED
      BY <3>1, <3>2
  <2>2. <<i>> \in Seq(Nat)
    OBVIOUS
  <2>3. (i - 1) + 1 = i /\ i - 1 < i
    BY ONLY i \in Nat \ {0}
  <2> QED
    BY <2>1, <2>2, <2>3 DEF IsSegment, Segment, Starts
<1>2. PICK more : CutAt(bt, new, more) /\ more[Len(new)] = i
  BY <1>1, CutMore
<1>3. b.buf = <<>> /\ b.groups = new
  BY DEF Builder
<1>4. <<>> = [n \in 1 .. i - i |-> i + n]
  BY SegmentCalls
<1>5. Starts(bt, i + 1)
  <2>1. (i + 1) - 1 = i
    OBVIOUS
  <2> QED
    BY <2>1 DEF Starts
<1>6. i <= i /\ \A j \in i + 1 .. i : ~Alone(bt, j)
  <2>1. i <= i /\ i + 1 .. i = {}
    BY ONLY i \in Nat \ {0}
  <2> QED
    BY <2>1
<1> HIDE DEF new
<1>7. b = Builder(b.buf, b.groups, b.seen)
  BY <1>3 DEF new
<1>8. CutAt(bt, b.groups, more) /\ more[Len(b.groups)] = i
  BY <1>2, <1>3
<1> QED
  BY ONLY <1>3, <1>4, <1>5, <1>6, <1>7, <1>8, b.seen = {GroupKey(bt[j]) : j \in 1 .. i} \ {NoGroup} DEF BuiltTo

\* What the builder's operations do to its fields.
LEMMA EmitFields ==
  \A x, y, z, i : EmitSerial(Builder(x, y, z), i) = Builder(x, Append(y, [calls |-> <<i>>, mode |-> "serial"]), z)
<1> TAKE x, y, z, i
<1> DEFINE g == [calls |-> <<i>>, mode |-> "serial"]
<1> HIDE DEF g
<1>1. [Builder(x, y, z) EXCEPT !.groups = Append(@, g)] = Builder(x, Append(y, g), z)
  BY DEF Builder
<1>2. EmitSerial(Builder(x, y, z), i) = [Builder(x, y, z) EXCEPT !.groups = Append(@, g)]
  BY DEF EmitSerial, g
<1> QED
  BY <1>1, <1>2 DEF g

\* What seeing a key leaves of a builder.
LEMMA SeeingFields ==
  \A x, y, z, key : Seeing(Builder(x, y, z), key) = Builder(x, y, z \cup ({key} \ {NoGroup}))
<1> TAKE x, y, z, key
<1>1. CASE key = NoGroup
  <2>1. z \cup ({key} \ {NoGroup}) = z
    BY <1>1
  <2> QED
    BY <1>1, <2>1 DEF Seeing
<1>2. CASE key # NoGroup
  <2>1. {key} \ {NoGroup} = {key}
    BY <1>2
  <2> QED
    BY <1>2, <2>1 DEF Seeing, Builder
<1> QED
  BY <1>1, <1>2

\* The loop body keeps the cut: the call is placed.
LEMMA PlaceCuts ==
  ASSUME NEW bt, NEW b, NEW i \in Nat \ {0}, BuiltTo(bt, b, i - 1)
  PROVE  BuiltTo(bt, Place(b, bt, i), i)
<1> DEFINE key == GroupKey(bt[i])
           K(n) == {GroupKey(bt[j]) : j \in 1 .. n} \ {NoGroup}
           f == Flush(b)
           g == [calls |-> <<i>>, mode |-> "serial"]
<1>1. /\ b.seen = K(i - 1) /\ b = Builder(b.buf, b.groups, b.seen)
  BY DEF BuiltTo
<1>2. /\ f.seen = b.seen /\ f.buf = <<>> /\ f = Builder(<<>>, f.groups, b.seen)
      /\ \E ends : CutAt(bt, f.groups, ends) /\ ends[Len(f.groups)] = i - 1
  BY FlushCuts, i - 1 \in Nat
<1>3. K(i) = K(i - 1) \cup ({key} \ {NoGroup})
  <2>1. \A j : j \in 1 .. i <=> j \in 1 .. i - 1 \/ j = i
    BY ONLY i \in Nat \ {0}
  <2>2. \A x : x \in K(i) <=> x \in K(i - 1) \/ (x = key /\ x # NoGroup)
    BY ONLY <2>1
  <2> QED
    BY ONLY <2>2
<1>4. Alone(bt, i) <=> IsWorld(bt[i]) \/ (key # NoGroup /\ key \in b.seen)
  BY <1>1 DEF Alone
<1> HIDE DEF K, f
<1>5. CASE IsWorld(bt[i])
  <2> DEFINE p == Place(b, bt, i)
  <2>1. p = Seeing(EmitSerial(f, i), key)
    BY <1>5 DEF Place, f
  <2> DEFINE e == EmitSerial(f, i)
  <2>2. e = Builder(<<>>, Append(f.groups, g), b.seen)
    <3>1. f = Builder(<<>>, f.groups, b.seen)
      BY <1>2
    <3> QED
      BY ONLY <3>1, EmitFields
  <2> HIDE DEF e
  <2>3. p = Builder(<<>>, Append(f.groups, g), K(i))
    <3>1. e = Builder(<<>>, Append(f.groups, g), K(i - 1))
      BY <1>1, <2>2
    <3>2. Seeing(e, key) = Builder(<<>>, Append(f.groups, g), K(i - 1) \cup ({key} \ {NoGroup}))
      BY ONLY <3>1, SeeingFields
    <3> QED
      BY ONLY <1>3, <2>1, <3>2 DEF e
  <2> HIDE DEF p
  <2>4. p.seen = K(i) /\ p = Builder(<<>>, Append(f.groups, g), p.seen)
    BY <2>3 DEF Builder
  <2>5. BuiltTo(bt, p, i)
    BY <1>2, <1>4, <1>5, <2>4, EmitCuts DEF K
  <2> QED
    BY <2>5 DEF p
<1>6. CASE ~IsWorld(bt[i]) /\ key # NoGroup /\ key \in b.seen
  <2> DEFINE p == Place(b, bt, i)
  <2>1. p = EmitSerial(f, i)
    BY <1>6 DEF Place, f
  <2>2. EmitSerial(f, i) = Builder(<<>>, Append(f.groups, g), b.seen)
    <3>1. f = Builder(<<>>, f.groups, b.seen)
      BY <1>2
    <3> QED
      BY ONLY <3>1, EmitFields
  <2>3. K(i) = b.seen
    BY <1>1, <1>3, <1>6
  <2> HIDE DEF p
  <2>4. p.seen = K(i) /\ p = Builder(<<>>, Append(f.groups, g), p.seen)
    BY <2>1, <2>2, <2>3 DEF Builder
  <2>5. BuiltTo(bt, p, i)
    BY <1>2, <1>4, <1>6, <2>4, EmitCuts DEF K
  <2> QED
    BY <2>5 DEF p
<1>7. CASE ~Alone(bt, i)
  <2> DEFINE p == Place(b, bt, i)
  <2>1. PICK ends :
          LET from == ends[Len(b.groups)]
          IN  /\ CutAt(bt, b.groups, ends)
              /\ from <= i - 1 /\ b.buf = [n \in 1 .. (i - 1) - from |-> from + n]
              /\ Starts(bt, from + 1) /\ \A j \in from + 1 .. i - 1 : ~Alone(bt, j)
    BY DEF BuiltTo
  <2> DEFINE from == ends[Len(b.groups)]
  <2>2. from \in Nat
    <3>1. b.groups \in Seq(Segment) /\ ends \in [0 .. Len(b.groups) -> Nat]
      BY <2>1 DEF CutAt
    <3> QED
      BY <3>1, LenProperties
  <2>3. p = [Seeing(b, key) EXCEPT !.buf = Append(@, i)]
    BY <1>4, <1>7 DEF Place
  <2>4. Seeing(b, key) = Builder(b.buf, b.groups, K(i))
    <3>1. b = Builder(b.buf, b.groups, K(i - 1))
      BY <1>1
    <3>2. Seeing(b, key) = Builder(b.buf, b.groups, K(i - 1) \cup ({key} \ {NoGroup}))
      BY ONLY <3>1, SeeingFields
    <3> QED
      BY ONLY <1>3, <3>2
  <2> HIDE DEF p
  <2>5. p = Builder(Append(b.buf, i), b.groups, K(i))
    <3> DEFINE last == K(i)
               c == Seeing(b, key)
    <3> HIDE DEF last, c
    <3>1. c = Builder(b.buf, b.groups, last)
      BY ONLY <2>4 DEF last, c
    <3>2. p = [c EXCEPT !.buf = Append(@, i)]
      BY ONLY <2>3 DEF c
    <3>3. p = Builder(Append(b.buf, i), b.groups, last)
      BY ONLY <3>1, <3>2 DEF Builder
    <3> QED
      BY ONLY <3>3 DEF last
  <2>6. p.buf = Append(b.buf, i) /\ p.groups = b.groups /\ p.seen = K(i) /\ p = Builder(p.buf, p.groups, p.seen)
    BY <2>5 DEF Builder
  <2>7. Append(b.buf, i) = [n \in 1 .. i - from |-> from + n]
    <3> HIDE DEF from
    <3> DEFINE c == [n \in 1 .. (i - 1) - from |-> from + n]
               L == (i - 1) - from
    <3>1. c \in Seq(Nat) /\ Len(c) = L /\ L \in Nat
      <4>1. from \in Nat /\ i - 1 \in Nat /\ from <= i - 1
        BY <2>1, <2>2 DEF from
      <4>2. L \in Nat
        BY <4>1
      <4> QED
        BY <4>1, <4>2, SegmentCalls
    <3>2. Append(c, i) \in Seq(Nat) /\ Len(Append(c, i)) = L + 1 /\ Append(c, i)[L + 1] = i
          /\ \A n \in 1 .. L : Append(c, i)[n] = c[n]
      BY <3>1, AppendProperties
    <3>3. L + 1 = i - from /\ from + (L + 1) = i /\ \A n \in 1 .. L + 1 : n \in 1 .. L \/ n = L + 1
      BY <2>2, <3>1
    <3>4. \A n \in 1 .. L : c[n] = from + n
      OBVIOUS
    <3>5. Append(c, i) = [n \in 1 .. L + 1 |-> Append(c, i)[n]]
      <4>1. Append(c, i) \in [1 .. L + 1 -> Nat]
        BY <3>2, LenProperties
      <4> QED
        BY ONLY <4>1
    <3> HIDE DEF c, L
    <3>6. \A n \in 1 .. L + 1 : Append(c, i)[n] = from + n
      BY <3>2, <3>3, <3>4
    <3>7. Append(c, i) = [n \in 1 .. L + 1 |-> from + n]
      BY <3>5, <3>6
    <3>8. b.buf = c
      BY <2>1 DEF c, from
    <3> QED
      BY <3>3, <3>7, <3>8
  <2>8. from <= i /\ \A j \in from + 1 .. i : ~Alone(bt, j)
    <3>1. \A j \in from + 1 .. i : j \in from + 1 .. i - 1 \/ j = i
      BY <2>2
    <3> QED
      BY <1>7, <2>1, <2>2, <3>1
  <2>9. BuiltTo(bt, p, i)
    BY <2>1, <2>6, <2>7, <2>8 DEF BuiltTo, K
  <2> QED
    BY <2>9 DEF p
<1> QED
  BY <1>4, <1>5, <1>6, <1>7
\* A set of numbers that is not empty has a first.
LEMMA FirstNumber == ASSUME NEW T \in SUBSET Nat, T # {} PROVE \E x \in T : \A y \in T : x <= y
<1>1. PICK x \in T : \A y \in T : ~(<<y, x>> \in OpToRel(<, Nat))
  BY NatLessThanWellFounded, WFMin
<1>2. \A y \in T : ~(y < x)
  BY <1>1 DEF OpToRel
<1> QED
  BY <1>2

\* The builders of the loop, one for each number of calls placed.
Chain(bt, n, g) ==
  g = [i \in 0 .. n |-> IF i = 0 THEN EmptyBuilder ELSE Place(g[i - 1], bt, i)]

\* A chain is continued by one call.
LEMMA ChainMore ==
  ASSUME NEW bt, NEW n \in Nat, NEW g, Chain(bt, n, g)
  PROVE  \E h : Chain(bt, n + 1, h)
<1> DEFINE h == [i \in 0 .. n + 1 |-> IF i = n + 1 THEN Place(g[n], bt, i) ELSE g[i]]
<1>1. \A i \in 0 .. n + 1 : (i = n + 1 \/ i \in 0 .. n) /\ (i # 0 => i - 1 \in 0 .. n /\ i - 1 \in 0 .. n + 1 /\ i - 1 # n + 1)
  OBVIOUS
<1>2. /\ \A i \in 0 .. n : h[i] = g[i] /\ i # n + 1
      /\ h[n + 1] = Place(g[n], bt, n + 1)
  OBVIOUS
<1>3. \A i \in 0 .. n : g[i] = IF i = 0 THEN EmptyBuilder ELSE Place(g[i - 1], bt, i)
  BY DEF Chain
<1>4. h = [i \in 0 .. n + 1 |-> h[i]]
  OBVIOUS
<1> HIDE DEF h
<1>5. ASSUME NEW i \in 0 .. n + 1 PROVE h[i] = IF i = 0 THEN EmptyBuilder ELSE Place(h[i - 1], bt, i)
  <2>1. CASE i = n + 1
    <3>1. i # 0 /\ i - 1 = n /\ n \in 0 .. n
      BY <2>1
    <3> QED
      BY <1>2, <2>1, <3>1
  <2>2. CASE i \in 0 .. n
    <3>1. i # 0 => i - 1 \in 0 .. n
      BY <1>1
    <3> QED
      BY <1>2, <1>3, <2>2, <3>1
  <2> QED
    BY <1>1, <2>1, <2>2
<1>6. Chain(bt, n + 1, h)
  BY ONLY <1>4, <1>5 DEF Chain
<1> QED
  BY <1>6

\* There is a chain of any length.
LEMMA ChainExists == ASSUME NEW bt, NEW N \in Nat PROVE \E g : Chain(bt, N, g)
<1> DEFINE Bad == {n \in Nat : ~ \E g : Chain(bt, n, g)}
<1> SUFFICES ASSUME Bad # {} PROVE FALSE
  OBVIOUS
<1>1. PICK n \in Bad : \A m \in Bad : n <= m
  <2> HIDE DEF Bad
  <2>1. Bad \in SUBSET Nat
    BY DEF Bad
  <2> QED
    BY <2>1, FirstNumber
<1>2. n # 0
  <2> DEFINE g == [i \in 0 .. 0 |-> EmptyBuilder]
  <2>1. g = [i \in 0 .. 0 |-> IF i = 0 THEN EmptyBuilder ELSE Place(g[i - 1], bt, i)]
    <3>1. \A i \in 0 .. 0 : i = 0
      OBVIOUS
    <3> QED
      BY <3>1
  <2>2. Chain(bt, 0, g)
    BY ONLY <2>1 DEF Chain
  <2> QED
    BY <2>2
<1>3. n - 1 \in Nat /\ n = (n - 1) + 1 /\ ~(n <= n - 1)
  BY <1>2
<1>4. n - 1 \notin Bad
  BY <1>1, <1>3
<1>5. PICK g : Chain(bt, n - 1, g)
  BY <1>3, <1>4
<1>6. \E h : Chain(bt, (n - 1) + 1, h)
  BY <1>3, <1>5, ChainMore
<1> QED
  BY <1>3, <1>6

\* Every builder of the loop has cut what it was given.
LEMMA ChainCuts ==
  ASSUME NEW bt, NEW N \in Nat, NEW g, Chain(bt, N, g)
  PROVE  BuiltTo(bt, g[N], N)
<1> DEFINE Bad == {n \in 0 .. N : ~BuiltTo(bt, g[n], n)}
<1>0. \A n \in 0 .. N : g[n] = IF n = 0 THEN EmptyBuilder ELSE Place(g[n - 1], bt, n)
  BY DEF Chain
<1>1. BuiltTo(bt, EmptyBuilder, 0)
  <2> DEFINE ends == [k \in 0 .. 0 |-> 0]
             b == EmptyBuilder
  <2>1. b.groups = <<>> /\ b.buf = <<>> /\ b.seen = {} /\ b = Builder(b.buf, b.groups, b.seen)
    BY DEF EmptyBuilder, Builder
  <2>2. <<>> \in Seq(Segment) /\ Len(<<>>) = 0 /\ 1 .. 0 = {} /\ 0 - 0 = 0 /\ 0 + 1 .. 0 = {} /\ 0 <= 0 /\ 0 + 1 = 1
    BY EmptySeq
  <2>3. ends \in [0 .. 0 -> Nat] /\ ends[0] = 0
    OBVIOUS
  <2> HIDE DEF ends, b
  <2>4. CutAt(bt, b.groups, ends) /\ ends[Len(b.groups)] = 0
    BY ONLY <2>1, <2>2, <2>3 DEF CutAt
  <2>5. b.buf = [n \in 1 .. 0 - 0 |-> 0 + n]
    BY <2>1, SegmentCalls
  <2>6. Starts(bt, 0 + 1)
    BY <2>2 DEF Starts
  <2>7. b.seen = {GroupKey(bt[j]) : j \in 1 .. 0} \ {NoGroup}
    BY ONLY <2>1, <2>2
  <2>8. BuiltTo(bt, b, 0)
    BY ONLY <2>1, <2>2, <2>4, <2>5, <2>6, <2>7 DEF BuiltTo
  <2> QED
    BY <2>8 DEF b
<1>2. SUFFICES ASSUME Bad # {} PROVE FALSE
  <2>1. N \in 0 .. N
    OBVIOUS
  <2> QED
    BY <2>1
<1>3. PICK n \in Bad : \A m \in Bad : n <= m
  <2>1. Bad \in SUBSET Nat
    OBVIOUS
  <2> HIDE DEF Bad
  <2> QED
    BY <1>2, <2>1, FirstNumber
<1>4. n \in 0 .. N /\ ~BuiltTo(bt, g[n], n)
  OBVIOUS
<1>5. n # 0
  BY <1>0, <1>1, <1>4
<1>6. n - 1 \in 0 .. N /\ ~(n <= n - 1) /\ n \in Nat \ {0}
  BY <1>4, <1>5
<1>7. BuiltTo(bt, g[n - 1], n - 1)
  BY <1>3, <1>6
<1>8. BuiltTo(bt, Place(g[n - 1], bt, n), n)
  BY <1>6, <1>7, PlaceCuts
<1> QED
  BY <1>0, <1>4, <1>5, <1>8

\* After the last call the builder has cut the response.
LEMMA BuilderCuts ==
  ASSUME NEW bt, Len(bt) \in Nat
  PROVE  \E ends : LET groups == PartitionByEffect(bt)
                   IN  CutAt(bt, groups, ends) /\ ends[Len(groups)] = Len(bt)
<1> DEFINE N == Len(bt)
           built == CHOOSE g : Chain(bt, N, g)
<1>1. Chain(bt, N, built)
  BY ChainExists
<1>2. PartitionByEffect(bt) = Flush(built[N]).groups
  BY DEF PartitionByEffect, Chain
<1> HIDE DEF built
<1>3. BuiltTo(bt, built[N], N)
  BY <1>1, ChainCuts
<1> QED
  BY <1>2, <1>3, FlushCuts

\* No end of a cut is behind the last one.
LEMMA EndsGrow ==
  ASSUME NEW bt, NEW groups, NEW ends, CutAt(bt, groups, ends)
  PROVE  \A k \in 0 .. Len(groups) : ends[k] <= ends[Len(groups)]
<1> DEFINE m == Len(groups)
           Bad == {d \in 0 .. m : ~(ends[m - d] <= ends[m])}
<1>1. m \in Nat /\ ends \in [0 .. m -> Nat]
  BY LenProperties DEF CutAt
<1>2. \A k \in 1 .. m : ends[k - 1] < ends[k]
  BY DEF CutAt, IsSegment
<1>3. ASSUME Bad # {} PROVE FALSE
  <2>1. PICK d \in Bad : \A e \in Bad : d <= e
    <3>1. Bad \in SUBSET Nat
      BY <1>1
    <3> HIDE DEF Bad
    <3> QED
      BY <1>3, <3>1, FirstNumber
  <2>2. d \in 0 .. m /\ ~(ends[m - d] <= ends[m])
    OBVIOUS
  <2>3. d # 0
    <3>1. m - 0 = m /\ m \in 0 .. m
      BY <1>1
    <3>2. ends[m] \in Nat
      BY <1>1, <3>1
    <3> QED
      BY <2>2, <3>1, <3>2
  <2>4. d - 1 \in 0 .. m /\ ~(d <= d - 1) /\ m - (d - 1) \in 1 .. m /\ m - d = (m - (d - 1)) - 1
    BY <1>1, <2>2, <2>3
  <2>5. ends[m - (d - 1)] <= ends[m]
    BY <2>1, <2>4
  <2>6. ends[m - d] < ends[m - (d - 1)]
    BY <1>2, <2>4
  <2>7. ends[m - d] \in Nat /\ ends[m - (d - 1)] \in Nat /\ ends[m] \in Nat
    BY <1>1, <2>2, <2>4
  <2> QED
    BY <2>2, <2>5, <2>6, <2>7
<1>4. ASSUME NEW k \in 0 .. m PROVE ends[k] <= ends[m]
  <2>1. m - k \in 0 .. m /\ m - (m - k) = k
    BY <1>1
  <2> QED
    BY <1>3, <2>1
<1> QED
  BY <1>4

\* A segment whose successor may start is what its calls reach.
LEMMA SegmentReaches ==
  ASSUME NEW bt, Len(bt) \in Nat, NEW g, NEW lo \in Nat, NEW hi \in Nat, hi <= Len(bt),
         IsSegment(bt, g, lo, hi), hi = Len(bt) \/ Starts(bt, hi + 1)
  PROVE  \A i \in lo + 1 .. hi :
           Group(bt, i) = lo + 1 .. hi /\ (g.mode = "serial" <=> Alone(bt, i))
<1> SUFFICES ASSUME NEW i \in lo + 1 .. hi
             PROVE  Group(bt, i) = lo + 1 .. hi /\ (g.mode = "serial" <=> Alone(bt, i))
  OBVIOUS
<1>1. CASE g.mode = "serial" /\ hi = lo + 1 /\ Alone(bt, hi)
  <2>1. i = hi /\ lo + 1 .. hi = {hi}
    BY <1>1
  <2> QED
    BY ONLY <1>1, <2>1 DEF Group
<1>2. CASE g.mode = "concurrent" /\ \A j \in lo + 1 .. hi : ~Alone(bt, j)
  <2>1. lo = 0 \/ Alone(bt, lo)
    <3>1. lo + 1 \in lo + 1 .. hi /\ (lo + 1) - 1 = lo /\ (lo + 1 = 1 => lo = 0)
      OBVIOUS
    <3> QED
      BY <1>2, <3>1 DEF IsSegment, Starts
  <2>2. hi = Len(bt) \/ Alone(bt, hi + 1)
    <3>1. hi \in lo + 1 .. hi /\ (hi + 1) - 1 = hi /\ hi + 1 # 1
      OBVIOUS
    <3> QED
      BY <1>2, <3>1 DEF Starts
  <2>3. ~Alone(bt, i)
    BY <1>2
  <2>4. ASSUME NEW j \in lo + 1 .. hi PROVE j \in Group(bt, i)
    <3>1. j \in 1 .. Len(bt)
      OBVIOUS
    <3>2. ASSUME NEW k \in 1 .. Len(bt), (i <= k /\ k <= j) \/ (j <= k /\ k <= i)
          PROVE  ~Alone(bt, k)
      <4>1. k \in lo + 1 .. hi
        BY <3>2
      <4> QED
        BY <1>2, <4>1
    <3> QED
      BY <2>3, <3>1, <3>2 DEF Group
  <2>5. ASSUME NEW j \in Group(bt, i) PROVE j \in lo + 1 .. hi
    <3>1. /\ j \in 1 .. Len(bt)
          /\ \A k \in 1 .. Len(bt) : (i <= k /\ k <= j) \/ (j <= k /\ k <= i) => ~Alone(bt, k)
      BY <2>3 DEF Group
    <3>2. ~(j <= lo)
      <4>1. j <= lo => lo \in 1 .. Len(bt) /\ lo # 0 /\ j <= lo /\ lo <= i
        BY <3>1
      <4> QED
        BY <2>1, <3>1, <4>1
    <3>3. ~(hi + 1 <= j)
      <4>1. hi + 1 <= j => hi + 1 \in 1 .. Len(bt) /\ hi # Len(bt) /\ i <= hi + 1 /\ hi + 1 <= j
        BY <3>1
      <4> QED
        BY <2>2, <3>1, <4>1
    <3> QED
      BY <3>1, <3>2, <3>3
  <2>6. Group(bt, i) = lo + 1 .. hi
    BY <2>4, <2>5
  <2> QED
    BY <1>2, <2>3, <2>6
<1> QED
  BY <1>1, <1>2 DEF IsSegment

\* The builder and the call by call definition cut every response alike.
THEOREM PartitionHolds == Spec => []PartitionAgrees
<1>1. TypeOK => PartitionAgrees
  <2> SUFFICES ASSUME TypeOK PROVE PartitionAgrees
    OBVIOUS
  <2> DEFINE groups == PartitionByEffect(batch)
             m == Len(groups)
             end(k) == IF k = 0 THEN 0 ELSE Last(groups[k].calls)
  <2>1. Len(batch) \in Nat
    BY BatchType
  <2>2. PICK ends : CutAt(batch, groups, ends) /\ ends[m] = Len(batch)
    BY <2>1, BuilderCuts
  <2> HIDE DEF groups
  <2>3. /\ m \in Nat /\ ends \in [0 .. m -> Nat] /\ ends[0] = 0
        /\ \A k \in 1 .. m : IsSegment(batch, groups[k], ends[k - 1], ends[k])
    BY <2>2, LenProperties DEF CutAt
  <2>4. ASSUME NEW k \in 1 .. m
        PROVE  /\ k - 1 \in 0 .. m /\ k \in 0 .. m /\ ends[k - 1] \in Nat /\ ends[k] \in Nat
               /\ ends[k - 1] < ends[k] /\ ends[k - 1] <= ends[k] /\ ends[k - 1] # ends[k]
               /\ ends[k] <= Len(batch)
    <3>1. k - 1 \in 0 .. m /\ k \in 0 .. m
      BY <2>3
    <3>2. ends[k] <= ends[m]
      BY <2>2, <3>1, EndsGrow
    <3>3. ends[k - 1] < ends[k]
      BY <2>3 DEF IsSegment
    <3>4. ends[k - 1] \in Nat /\ ends[k] \in Nat
      BY <2>3, <3>1
    <3> QED
      BY <2>2, <3>1, <3>2, <3>3, <3>4
  <2>4a. \A k \in 1 .. m :
           groups[k].calls = [n \in 1 .. ends[k] - ends[k - 1] |-> ends[k - 1] + n]
    BY <2>3 DEF IsSegment
  <2>5. \A k \in 1 .. m : groups[k].calls # <<>> /\ Last(groups[k].calls) = ends[k]
    <3> SUFFICES ASSUME NEW k \in 1 .. m
                 PROVE  groups[k].calls # <<>> /\ Last(groups[k].calls) = ends[k]
      OBVIOUS
    <3>1. /\ ends[k - 1] \in Nat /\ ends[k] \in Nat /\ ends[k - 1] < ends[k]
          /\ ends[k - 1] <= ends[k] /\ ends[k - 1] # ends[k]
      BY <2>4
    <3> DEFINE lo == ends[k - 1]
               hi == ends[k]
               c == groups[k].calls
    <3>2. c = [n \in 1 .. hi - lo |-> lo + n]
      BY <2>4a
    <3> HIDE DEF lo, hi, c
    <3>3. lo \in Nat /\ hi \in Nat /\ lo < hi /\ lo <= hi /\ lo # hi
      BY <3>1 DEF lo, hi
    <3>4. c # <<>> /\ c[Len(c)] = hi
      BY <3>2, <3>3, SegmentCalls
    <3> QED
      BY <3>4 DEF Last, hi, c
  <2>6. \A k \in 0 .. m : end(k) = ends[k]
    <3>1. \A k \in 0 .. m : k = 0 \/ k \in 1 .. m
      BY <2>3
    <3> QED
      BY <2>3, <2>5, <3>1
  <2>7. end(m) = Len(batch)
    <3>1. m \in 0 .. m
      BY <2>3
    <3> QED
      BY <2>2, <2>6, <3>1
  <2>8. ASSUME NEW k \in 1 .. m
        PROVE  LET g == groups[k]
               IN  /\ g.calls # <<>>
                   /\ g.calls = [n \in 1 .. end(k) - end(k - 1) |-> end(k - 1) + n]
                   /\ \A i \in ToSet(g.calls) :
                        /\ Group(batch, i) = ToSet(g.calls)
                        /\ g.mode = "serial" <=> Alone(batch, i)
    <3> DEFINE g == groups[k]
               lo == ends[k - 1]
               hi == ends[k]
    <3>1. end(k) = hi /\ end(k - 1) = lo
      BY <2>4, <2>6
    <3>2. lo \in Nat /\ hi \in Nat /\ lo < hi /\ hi <= Len(batch) /\ lo <= hi
      BY <2>4
    <3>3. g.calls = [n \in 1 .. hi - lo |-> lo + n]
      BY <2>4a
    <3>4. ToSet(g.calls) = lo + 1 .. hi
      <4> DEFINE c == g.calls
      <4> HIDE DEF lo, hi, c
      <4>1. c = [n \in 1 .. hi - lo |-> lo + n]
        BY <3>3 DEF c
      <4>2. c \in Seq(Nat) /\ \A i : i \in lo + 1 .. hi <=> \E n \in 1 .. Len(c) : i = c[n]
        <5> DEFINE d == [n \in 1 .. hi - lo |-> lo + n]
        <5>1. d \in Seq(Nat) /\ \A i : i \in lo + 1 .. hi <=> \E n \in 1 .. Len(d) : i = d[n]
          BY <3>2, SegmentCalls
        <5> HIDE DEF d
        <5>2. c = d
          BY <4>1 DEF d
        <5> QED
          BY <5>1, <5>2
      <4>3. ToSet(c) = {c[n] : n \in 1 .. Len(c)}
        BY <4>2, LenProperties DEF ToSet
      <4>4. ToSet(c) = lo + 1 .. hi
        BY ONLY <4>2, <4>3
      <4> QED
        BY <4>4 DEF lo, hi, c
    <3>5. IsSegment(batch, g, lo, hi)
      BY <2>3
    <3>6. hi = Len(batch) \/ Starts(batch, hi + 1)
      <4>1. CASE k = m
        BY <2>2, <4>1
      <4>2. CASE k # m
        <5>1. k + 1 \in 1 .. m /\ (k + 1) - 1 = k
          BY <2>3, <4>2
        <5>2. IsSegment(batch, groups[k + 1], hi, ends[k + 1])
          BY <2>3, <5>1
        <5> QED
          BY <5>2 DEF IsSegment
      <4> QED
        BY <4>1, <4>2
    <3>7. \A i \in lo + 1 .. hi :
            Group(batch, i) = lo + 1 .. hi /\ (g.mode = "serial" <=> Alone(batch, i))
      BY <2>1, <3>2, <3>5, <3>6, SegmentReaches
    <3> QED
      BY <2>5, <3>1, <3>3, <3>4, <3>7
  <2> HIDE DEF end
  <2>9. \A k \in 1 .. m :
          LET g == groups[k]
          IN  /\ g.calls # <<>>
              /\ g.calls = [n \in 1 .. end(k) - end(k - 1) |-> end(k - 1) + n]
              /\ \A i \in ToSet(g.calls) :
                   /\ Group(batch, i) = ToSet(g.calls)
                   /\ g.mode = "serial" <=> Alone(batch, i)
    BY <2>8
  <2> QED
    BY ONLY <2>7, <2>9 DEF PartitionAgrees, groups, end
<1> QED
  BY <1>1, TypesHold, PTL

-----------------------------------------------------------------------------
(* The state: a fold of the log.                                           *)

\* What holds of 0, and of a number if it does of the one before, holds of all up to N.
LEMMA UpTo ==
  ASSUME NEW N \in Nat, NEW G, 0 \in G, \A n \in 1 .. N : n - 1 \in G => n \in G
  PROVE  \A n \in 0 .. N : n \in G
<1> DEFINE Bad == {n \in 0 .. N : n \notin G}
<1> SUFFICES ASSUME Bad # {} PROVE FALSE
  OBVIOUS
<1>1. PICK n \in Bad : \A k \in Bad : n <= k
  <2>1. Bad \in SUBSET Nat
    OBVIOUS
  <2> HIDE DEF Bad
  <2> QED
    BY <2>1, FirstNumber
<1>2. n \in 1 .. N /\ n - 1 \in 0 .. N /\ ~(n <= n - 1)
  OBVIOUS
<1> QED
  BY <1>1, <1>2

\* g runs through what is projected of the first n events.
RunTo(base, events, n, g) == g = [i \in 0 .. n |-> IF i = 0 THEN base ELSE Apply(g[i - 1], events[i])]

\* Such a run begins with base, and each next one is the one before with its event applied.
LEMMA RunSteps ==
  ASSUME NEW base, NEW events, NEW n \in Nat, NEW g
  PROVE  RunTo(base, events, n, g) <=>
           g = [i \in 0 .. n |-> g[i]] /\ g[0] = base /\ \A i \in 1 .. n : g[i] = Apply(g[i - 1], events[i])
<1>1. 0 \in 0 .. n /\ \A i \in 0 .. n : i = 0 \/ i \in 1 .. n
  OBVIOUS
<1>2. ASSUME RunTo(base, events, n, g)
      PROVE  g = [i \in 0 .. n |-> g[i]] /\ g[0] = base /\ \A i \in 1 .. n : g[i] = Apply(g[i - 1], events[i])
  <2>1. \A i \in 0 .. n : g[i] = IF i = 0 THEN base ELSE Apply(g[i - 1], events[i])
    BY <1>2 DEF RunTo
  <2>2. \A i \in 1 .. n : i \in 0 .. n /\ i # 0
    OBVIOUS
  <2>3. g = [i \in 0 .. n |-> g[i]]
    BY <1>2 DEF RunTo
  <2> QED
    BY <1>1, <2>1, <2>2, <2>3
<1>3. ASSUME g = [i \in 0 .. n |-> g[i]], g[0] = base, \A i \in 1 .. n : g[i] = Apply(g[i - 1], events[i])
      PROVE  RunTo(base, events, n, g)
  <2>1. \A i \in 0 .. n : g[i] = IF i = 0 THEN base ELSE Apply(g[i - 1], events[i])
    BY <1>1, <1>3
  <2> QED
    BY <1>3, <2>1 DEF RunTo
<1> QED
  BY <1>2, <1>3

\* There is one of any length.
LEMMA RunExists == ASSUME NEW base, NEW events, NEW N \in Nat PROVE \E g : RunTo(base, events, N, g)
<1> DEFINE G == {n \in 0 .. N : \E g : RunTo(base, events, n, g)}
<1>1. 0 \in G
  <2> DEFINE g == [i \in 0 .. 0 |-> base]
  <2>1. g = [i \in 0 .. 0 |-> g[i]] /\ g[0] = base /\ \A i \in 1 .. 0 : g[i] = Apply(g[i - 1], events[i])
    OBVIOUS
  <2> HIDE DEF g
  <2>2. RunTo(base, events, 0, g)
    BY <2>1, RunSteps
  <2> QED
    BY <2>2
<1>2. ASSUME NEW n \in 1 .. N, n - 1 \in G PROVE n \in G
  <2>1. PICK g : RunTo(base, events, n - 1, g)
    BY <1>2
  <2> HIDE DEF G
  <2>2. n - 1 \in Nat /\ n \in Nat /\ n \in 0 .. N
    OBVIOUS
  <2>3. g[0] = base /\ \A i \in 1 .. n - 1 : g[i] = Apply(g[i - 1], events[i])
    <3>1. \A i \in 0 .. n - 1 : g[i] = IF i = 0 THEN base ELSE Apply(g[i - 1], events[i])
      BY <2>1 DEF RunTo
    <3>2. 0 \in 0 .. n - 1 /\ \A i \in 1 .. n - 1 : i \in 0 .. n - 1 /\ i # 0
      BY <2>2
    <3> QED
      BY <3>1, <3>2
  <2> DEFINE h == [i \in 0 .. n |-> IF i = n THEN Apply(g[n - 1], events[n]) ELSE g[i]]
  <2>4. h = [i \in 0 .. n |-> h[i]] /\ h[n] = Apply(g[n - 1], events[n]) /\ \A i \in 0 .. n - 1 : h[i] = g[i]
    BY <2>2
  <2> HIDE DEF h
  <2>5. ASSUME NEW i \in 1 .. n PROVE h[i] = Apply(h[i - 1], events[i])
    <3>1. i - 1 \in 0 .. n - 1 /\ (i = n \/ (i \in 1 .. n - 1 /\ i \in 0 .. n - 1))
      BY <2>2
    <3>2. h[i - 1] = g[i - 1]
      BY <2>4, <3>1
    <3>3. CASE i = n
      BY <2>4, <3>2, <3>3
    <3>4. CASE i \in 1 .. n - 1 /\ i \in 0 .. n - 1
      BY <2>3, <2>4, <3>2, <3>4
    <3> QED
      BY <3>1, <3>3, <3>4
  <2>6. h[0] = base
    <3>1. 0 \in 0 .. n - 1
      BY <2>2
    <3> QED
      BY <2>3, <2>4, <3>1
  <2>7. RunTo(base, events, n, h)
    BY <2>2, <2>4, <2>5, <2>6, RunSteps
  <2> QED
    BY <2>2, <2>7 DEF G
<1>3. \A n \in 0 .. N : n \in G
  <2> HIDE DEF G
  <2> QED
    BY <1>1, <1>2, UpTo
<1> QED
  BY <1>3

\* What is projected is the end of a run.
LEMMA ProjectedRun ==
  ASSUME NEW base, NEW events, Len(events) \in Nat
  PROVE  \E g : /\ ProjectOnto(base, events) = g[Len(events)] /\ g[0] = base
                /\ \A i \in 1 .. Len(events) : g[i] = Apply(g[i - 1], events[i])
<1> DEFINE N == Len(events)
           C == CHOOSE g : RunTo(base, events, N, g)
<1>1. RunTo(base, events, N, C)
  BY RunExists
<1>2. ProjectOnto(base, events) = C[N]
  BY DEF ProjectOnto, RunTo
<1> HIDE DEF C
<1> QED
  BY <1>1, <1>2, RunSteps

\* One event more is one step more.
LEMMA ProjectMore ==
  ASSUME NEW E, NEW events \in Seq(E), NEW e \in E, NEW base
  PROVE  /\ ProjectOnto(base, <<>>) = base
         /\ ProjectOnto(base, Append(events, e)) = Apply(ProjectOnto(base, events), e)
<1> DEFINE N == Len(events)
           more == Append(events, e)
<1>1. N \in Nat /\ Len(more) = N + 1 /\ more[N + 1] = e /\ \A i \in 1 .. N : more[i] = events[i]
  BY AppendProperties, LenProperties
<1>2. PICK g : /\ ProjectOnto(base, events) = g[N] /\ g[0] = base
               /\ \A i \in 1 .. N : g[i] = Apply(g[i - 1], events[i])
  BY <1>1, ProjectedRun
<1>3. PICK h : /\ ProjectOnto(base, more) = h[N + 1] /\ h[0] = base
               /\ \A i \in 1 .. N + 1 : h[i] = Apply(h[i - 1], more[i])
  <2> HIDE DEF more
  <2> QED
    BY <1>1, ProjectedRun
<1> HIDE DEF more
<1> DEFINE G == {n \in 0 .. N : h[n] = g[n]}
<1>4. 0 \in G
  BY <1>1, <1>2, <1>3
<1>5. ASSUME NEW n \in 1 .. N, n - 1 \in G PROVE n \in G
  <2>1. n \in 1 .. N + 1 /\ n \in 0 .. N /\ h[n - 1] = g[n - 1] /\ more[n] = events[n]
    BY <1>1, <1>5
  <2> QED
    BY <1>2, <1>3, <2>1
<1>6. N \in G
  <2>1. \A n \in 0 .. N : n \in G
    <3> HIDE DEF G
    <3> QED
      BY <1>1, <1>4, <1>5, UpTo
  <2> QED
    BY <1>1, <2>1
<1>7. h[N + 1] = Apply(h[N], e)
  <2>1. N + 1 \in 1 .. N + 1 /\ (N + 1) - 1 = N
    BY <1>1
  <2> QED
    BY <1>1, <1>3, <2>1
<1>8. ProjectOnto(base, more) = Apply(ProjectOnto(base, events), e)
  BY <1>2, <1>3, <1>6, <1>7
<1>9. ProjectOnto(base, <<>>) = base
  <2>1. Len(<<>>) = 0
    OBVIOUS
  <2> QED
    BY <2>1, ProjectedRun
<1> QED
  BY <1>8, <1>9 DEF more

\* One more place picked at the end is one more of what was picked.
LEMMA PickedMore ==
  ASSUME NEW M, NEW ms \in Seq(M), NEW m \in M, NEW K \in SUBSET (1 .. Len(ms))
  PROVE  /\ Picked(Append(ms, m), K \cup {Len(ms) + 1}) = Append(Picked(ms, K), m)
         /\ Picked(ms, {}) = <<>>
<1> DEFINE N == Len(ms)
           more == Append(ms, m)
           K1 == K \cup {N + 1}
<1>1. N \in Nat /\ Len(more) = N + 1 /\ more[N + 1] = m /\ more \in Seq(M) /\ \A i \in 1 .. N : more[i] = ms[i]
  BY AppendProperties, LenProperties
<1>2. K1 \in SUBSET (1 .. Len(more)) /\ N + 1 \notin K /\ N + 1 \in K1 /\ \A k \in K : k \in 1 .. N /\ k \in K1
  <2>1. \A k \in K : k \in 1 .. N
    OBVIOUS
  <2> HIDE DEF N, more
  <2>2. N + 1 \notin 1 .. N /\ N + 1 \in 1 .. N + 1 /\ \A k \in 1 .. N : k \in 1 .. N + 1
    BY <1>1
  <2>3. K1 \in SUBSET (1 .. N + 1)
    BY <2>1, <2>2
  <2> QED
    BY <1>1, <2>1, <2>2, <2>3
<1>3. IsFiniteSet(K) /\ Cardinality(K1) = Cardinality(K) + 1 /\ Cardinality(K) \in Nat
  <2>1. IsFiniteSet(K) /\ Cardinality(K) \in Nat
    BY <1>1, Ranks
  <2> QED
    BY <1>2, <2>1, FS_AddElement
<1>4. /\ Picked(ms, K) \in Seq(M) /\ Len(Picked(ms, K)) = Cardinality(K)
      /\ \A k \in K : Rank(K, k) \in 1 .. Cardinality(K) /\ Picked(ms, K)[Rank(K, k)] = ms[k]
      /\ \A n \in 1 .. Cardinality(K) : \E k \in K : Rank(K, k) = n
  BY PickedFacts
<1>5. /\ Picked(more, K1) \in Seq(M) /\ Len(Picked(more, K1)) = Cardinality(K1)
      /\ \A k \in K1 : Rank(K1, k) \in 1 .. Cardinality(K1) /\ Picked(more, K1)[Rank(K1, k)] = more[k]
  <2> HIDE DEF K1, more
  <2> QED
    BY <1>1, <1>2, PickedFacts
<1>6. ASSUME NEW k \in K PROVE Rank(K1, k) = Rank(K, k)
  <2>1. {j \in K1 : j <= k} = {j \in K : j <= k}
    BY <1>1, <1>2
  <2> QED
    BY <2>1 DEF Rank
<1>7. Rank(K1, N + 1) = Cardinality(K) + 1
  <2>1. {j \in K1 : j <= N + 1} = K1
    BY <1>1, <1>2
  <2> QED
    BY <1>3, <2>1 DEF Rank
<1> DEFINE a == Append(Picked(ms, K), m)
           b == Picked(more, K1)
           C == Cardinality(K)
<1>8. a \in Seq(M) /\ Len(a) = C + 1 /\ a[C + 1] = m /\ \A n \in 1 .. C : a[n] = Picked(ms, K)[n]
  BY <1>4, AppendProperties
<1>9. ASSUME NEW n \in 1 .. C + 1 PROVE a[n] = b[n]
  <2> HIDE DEF a, b, C, K1, more
  <2>1. CASE n = C + 1
    <3>1. b[Rank(K1, N + 1)] = more[N + 1]
      BY <1>2, <1>5 DEF b
    <3> QED
      BY <1>1, <1>7, <1>8, <2>1, <3>1 DEF C
  <2>2. CASE n \in 1 .. C
    <3>1. PICK k \in K : Rank(K, k) = n
      BY <1>4, <2>2 DEF C
    <3>2. b[Rank(K1, k)] = more[k] /\ more[k] = ms[k]
      BY <1>1, <1>2, <1>5 DEF b
    <3>3. a[n] = ms[k]
      BY <1>4, <1>8, <2>2, <3>1
    <3> QED
      BY <1>6, <3>1, <3>2, <3>3
  <2> QED
    BY <1>3, <2>1, <2>2 DEF C
<1>10. a = b
  <2> HIDE DEF a, b, C
  <2>1. b \in Seq(M) /\ Len(b) = C + 1
    BY <1>3, <1>5 DEF b, C
  <2> QED
    BY <1>8, <1>9, <2>1, SeqEqual
<1>11. Picked(ms, {}) = <<>>
  <2>1. {} \in SUBSET (1 .. Len(ms)) /\ Cardinality({}) = 0
    BY FS_EmptySet
  <2>2. Picked(ms, {}) \in Seq(M) /\ Len(Picked(ms, {})) = 0
    BY <2>1, PickedFacts
  <2> QED
    BY <2>2, EmptySeq
<1> QED
  BY <1>10, <1>11

-----------------------------------------------------------------------------
(* The types of an event and of the state.                                 *)

TodoKinds == {"todo_added", "todo_updated", "todo_done"}

Kinds == {"opened", "mode", "plan", "step", "compression"} \cup TodoKinds

Words == {"", "title", "open", "pending", "in_progress", "done", "cancelled", "plan", "act"} \cup Statuses

LogEvent == [kind : Kinds, key : TodoIds \cup Nat \cup Seq(Statuses), val : Words, seq : Nat, at : Nat]

\* The key and the value of an event are what its kind calls for.
Fits(e) ==
  /\ e.kind = "plan" => e.key \in Seq(Statuses)
  /\ e.kind = "step" => e.key \in StepIndices
  /\ e.kind \in TodoKinds => e.key \in TodoIds
  /\ e.kind = "todo_added" => e.val # ""
  /\ e.kind = "compression" => e.key = 0

Todo == [key : TodoIds, status : Words, at : Nat]

State ==
  [lastSeq : Int, mode : Words, planned : BOOLEAN, steps : Seq(Words), todos : Seq(Todo), compressions : Nat]

\* What the handlers make of the todos.
LEMMA PutType ==
  ASSUME NEW d \in Seq(Todo), NEW r \in Todo
  PROVE  Put(d, r) \in Seq(Todo)
<1> DEFINE p == [i \in 1 .. Len(d) |-> IF d[i].key = r.key THEN r ELSE d[i]]
<1>1. Len(d) \in Nat /\ p \in [1 .. Len(d) -> Todo]
  BY ElementOfSeq, LenProperties
<1>2. p \in Seq(Todo) /\ Append(d, r) \in Seq(Todo)
  BY <1>1, SeqDef, AppendProperties
<1> QED
  BY <1>2 DEF Put

\* A todo that is touched keeps its type.
LEMMA TouchType ==
  ASSUME NEW d \in Seq(Todo), NEW e \in LogEvent
  PROVE  Touch(d, e) \in Seq(Todo)
<1>1. Len(d) \in Nat /\ \A i \in 1 .. Len(d) : d[i] \in Todo
  BY ElementOfSeq, LenProperties
<1>2. ASSUME NEW i \in 1 .. Len(d)
      PROVE  [d[i] EXCEPT !.status = IF e.val = "" THEN @ ELSE e.val, !.at = e.at] \in Todo
  BY <1>1 DEF LogEvent, Todo
<1>3. Touch(d, e) \in [1 .. Len(d) -> Todo]
  BY <1>1, <1>2 DEF Touch
<1> QED
  BY <1>1, <1>3, SeqDef

\* What a plan gives its steps.
LEMMA GivenType ==
  ASSUME NEW p \in Seq(Statuses)
  PROVE  /\ Len(p) \in Nat /\ (p # <<>> => Len(p) # 0)
         /\ [i \in 1 .. Len(p) |-> StepGiven(p[i])] \in Seq(Words)
         /\ Len([i \in 1 .. Len(p) |-> StepGiven(p[i])]) = Len(p)
<1> DEFINE n == Len(p)
           g == [i \in 1 .. n |-> StepGiven(p[i])]
<1>1. n \in Nat /\ \A i \in 1 .. n : p[i] \in Statuses
  BY ElementOfSeq, LenProperties
<1>2. "pending" \in Words /\ \A w \in Statuses : w \in Words
  BY DEF Words
<1>3. \A i \in 1 .. n : StepGiven(p[i]) \in Words
  BY <1>1, <1>2 DEF StepGiven
<1>4. p # <<>> => n # 0
  BY EmptySeq
<1> HIDE DEF n
<1>5. g \in [1 .. n -> Words]
  BY <1>3
<1>6. g \in Seq(Words)
  BY <1>1, <1>5, SeqDef
<1>7. Len(g) = n
  BY <1>1, <1>5, <1>6, LenProperties
<1> QED
  BY <1>1, <1>4, <1>6, <1>7 DEF n

\* An event leaves a state, which has seen it.
LEMMA ApplyType ==
  ASSUME NEW s \in State, NEW e \in LogEvent, Fits(e)
  PROVE  Apply(s, e) \in State /\ Apply(s, e).lastSeq = IF e.seq > s.lastSeq THEN e.seq ELSE s.lastSeq
<1> DEFINE q == IF e.seq > s.lastSeq THEN e.seq ELSE s.lastSeq
           t == [s EXCEPT !.lastSeq = IF e.seq > @ THEN e.seq ELSE @]
<1>1. t \in State /\ t.lastSeq = q
  BY DEF State, LogEvent
<1>2. Apply(s, e) = Handle(t, e)
  BY DEF Apply
<1> HIDE DEF t
<1>3. CASE e.kind = "mode"
  <2>1. Handle(t, e) = [t EXCEPT !.mode = e.val]
    BY <1>3 DEF Handle
  <2>2. [t EXCEPT !.mode = e.val] \in State /\ [t EXCEPT !.mode = e.val].lastSeq = t.lastSeq
    BY <1>1 DEF State, LogEvent
  <2> QED
    BY <1>1, <1>2, <2>1, <2>2
<1>4. CASE e.kind = "plan"
  <2>1. Handle(t, e) = SetPlan(t, e)
    BY <1>4 DEF Handle
  <2> DEFINE st == IF e.key # <<>> THEN [i \in 1 .. Len(e.key) |-> StepGiven(e.key[i])] ELSE t.steps
  <2>2. st \in Seq(Words)
    <3>1. e.key \in Seq(Statuses) /\ t.steps \in Seq(Words)
      BY <1>1, <1>4 DEF Fits, State
    <3>2. [i \in 1 .. Len(e.key) |-> StepGiven(e.key[i])] \in Seq(Words)
      BY <3>1, GivenType
    <3> QED
      BY <3>1, <3>2
  <2>3. SetPlan(t, e) = [t EXCEPT !.planned = @ \/ e.key # <<>> \/ e.val # "", !.steps = st]
    BY <1>1 DEF SetPlan, State
  <2> HIDE DEF st
  <2> DEFINE pl == t.planned \/ e.key # <<>> \/ e.val # ""
  <2>4. SetPlan(t, e) = [t EXCEPT !.planned = pl, !.steps = st] /\ pl \in BOOLEAN
    BY <1>1, <2>3 DEF State
  <2> HIDE DEF pl
  <2>5. SetPlan(t, e) \in State /\ SetPlan(t, e).lastSeq = t.lastSeq
    BY <1>1, <2>2, <2>4 DEF State
  <2> QED
    BY <1>1, <1>2, <2>1, <2>5
<1>5. CASE e.kind = "step"
  <2>1. Handle(t, e) = UpdateStep(t, e)
    BY <1>5 DEF Handle
  <2> DEFINE st == [i \in 1 .. Len(t.steps) |-> IF i = e.key + 1 THEN e.val ELSE t.steps[i]]
  <2>2. st \in Seq(Words)
    <3>1. t.steps \in Seq(Words) /\ e.val \in Words
      BY <1>1 DEF State, LogEvent
    <3>2. Len(t.steps) \in Nat /\ st \in [1 .. Len(t.steps) -> Words]
      BY <3>1, ElementOfSeq, LenProperties
    <3> QED
      BY <3>2, SeqDef
  <2>3. UpdateStep(t, e) = [t EXCEPT !.steps = st]
    BY <1>1 DEF UpdateStep, State
  <2> HIDE DEF st
  <2>4. UpdateStep(t, e) \in State /\ UpdateStep(t, e).lastSeq = t.lastSeq
    BY <1>1, <2>2, <2>3 DEF State
  <2> QED
    BY <1>1, <1>2, <2>1, <2>4
<1>6. CASE e.kind = "todo_added"
  <2>1. Handle(t, e) = AddTodo(t, e)
    BY <1>6 DEF Handle
  <2> DEFINE d == Put(t.todos, [key |-> e.key, status |-> e.val, at |-> e.at])
  <2>2. d \in Seq(Todo)
    <3>1. t.todos \in Seq(Todo)
      BY <1>1 DEF State
    <3>2. [key |-> e.key, status |-> e.val, at |-> e.at] \in Todo
      BY <1>6 DEF Fits, TodoKinds, LogEvent, Todo
    <3> QED
      BY <3>1, <3>2, PutType
  <2>3. AddTodo(t, e) = [t EXCEPT !.todos = d]
    BY <1>1 DEF AddTodo, State
  <2> HIDE DEF d
  <2>4. AddTodo(t, e) \in State /\ AddTodo(t, e).lastSeq = t.lastSeq
    BY <1>1, <2>2, <2>3 DEF State
  <2> QED
    BY <1>1, <1>2, <2>1, <2>4
<1>7. CASE e.kind \in {"todo_updated", "todo_done"}
  <2>1. Handle(t, e) = UpdateTodo(t, e)
    BY <1>7 DEF Handle
  <2> DEFINE d == Touch(t.todos, e)
  <2>2. d \in Seq(Todo)
    <3>1. t.todos \in Seq(Todo)
      BY <1>1 DEF State
    <3> QED
      BY <3>1, TouchType
  <2>3. UpdateTodo(t, e) = [t EXCEPT !.todos = d]
    BY <1>1 DEF UpdateTodo, State
  <2> HIDE DEF d
  <2>4. UpdateTodo(t, e) \in State /\ UpdateTodo(t, e).lastSeq = t.lastSeq
    BY <1>1, <2>2, <2>3 DEF State
  <2> QED
    BY <1>1, <1>2, <2>1, <2>4
<1>8. CASE e.kind = "compression"
  <2>1. Handle(t, e) = [t EXCEPT !.compressions = @ + 1]
    BY <1>8 DEF Handle
  <2> DEFINE n == t.compressions + 1
  <2>2. Handle(t, e) = [t EXCEPT !.compressions = n] /\ n \in Nat
    BY <1>1, <2>1 DEF State
  <2> HIDE DEF n
  <2>3. Handle(t, e) \in State /\ Handle(t, e).lastSeq = t.lastSeq
    BY <1>1, <2>2 DEF State
  <2> QED
    BY <1>1, <1>2, <2>3
<1>9. CASE e.kind \notin {"mode", "plan", "step", "todo_added", "todo_updated", "todo_done", "compression"}
  <2>1. Handle(t, e) = t
    BY <1>9 DEF Handle
  <2> QED
    BY <1>1, <1>2, <2>1
<1> HIDE DEF q
<1> QED
  BY <1>3, <1>4, <1>5, <1>6, <1>7, <1>8, <1>9 DEF q

\* The log: opened, then numbered events that fit their kinds.
LogOK ==
  /\ log \in Seq(LogEvent) /\ Len(log) >= 1 /\ clock \in Nat
  /\ log[1].kind = "opened"
  /\ \A i \in 1 .. Len(log) : log[i].seq = i - 1 /\ Fits(log[i])

\* A state is a snapshot of each part of the log, up to that part's last event.
SnapshotsTyped ==
  \A k \in 1 .. Len(log) : Project(SubSeq(log, 1, k)) \in State /\ Project(SubSeq(log, 1, k)).lastSeq = k - 1

Opened == [kind |-> "opened", key |-> 0, val |-> "", seq |-> 0, at |-> 0]

\* The state before any event.
LEMMA FreshType == Fresh \in State
<1>1. <<>> \in Seq(Words) /\ <<>> \in Seq(Todo)
  BY EmptySeq
<1>2. "act" \in Words
  BY DEF Words
<1> QED
  BY <1>1, <1>2 DEF Fresh, State

\* The first event of a log.
LEMMA OpenedType == Opened \in LogEvent /\ Fits(Opened)
BY DEF Opened, LogEvent, Kinds, Words, Fits, TodoKinds

\* What an event is stamped with.
LEMMA StampType ==
  ASSUME LogOK, NEW e \in Told \cup {Event("compression", 0, "")}
  PROVE  Stamp(e) \in LogEvent /\ Fits(Stamp(e)) /\ Stamp(e).seq = Len(log)
<1>1. Len(log) \in Nat /\ clock \in Nat
  BY LenProperties DEF LogOK
<1>2. /\ e.kind \in Kinds /\ e.key \in TodoIds \cup Nat \cup Seq(Statuses) /\ e.val \in Words
      /\ e.kind = "plan" => e.key \in Seq(Statuses)
      /\ e.kind = "step" => e.key \in StepIndices
      /\ e.kind \in TodoKinds => e.key \in TodoIds
      /\ e.kind = "todo_added" => e.val # ""
      /\ e.kind = "compression" => e.key = 0
  <2>1. CASE e = Event("compression", 0, "")
    <3>2. e.kind = "compression" /\ e.key = 0 /\ e.key \in Nat /\ e.val = ""
      BY <2>1 DEF Event
    <3> QED
      BY <3>2 DEF Kinds, Words, TodoKinds
  <2>2. CASE e \in {Event("mode", 0, m) : m \in {"plan", "act"}}
    <3>1. PICK m \in {"plan", "act"} : e = Event("mode", 0, m)
      BY <2>2
    <3>2. e.kind = "mode" /\ e.key \in Nat /\ e.val = m
      BY <3>1 DEF Event
    <3> QED
      BY <3>2 DEF Kinds, Words, TodoKinds
  <2>3. CASE e \in {Event("plan", p, "") : p \in Plans}
    <3>1. PICK p \in Plans : e = Event("plan", p, "")
      BY <2>3
    <3>2. e.kind = "plan" /\ e.key \in Seq(Statuses) /\ e.val = ""
      BY <3>1, TaskStateAssumption DEF Event
    <3> QED
      BY <3>2 DEF Kinds, Words, TodoKinds
  <2>4. CASE e = Event("plan", <<>>, "title")
    <3>1. <<>> \in Seq(Statuses)
      BY EmptySeq
    <3>2. e.kind = "plan" /\ e.key \in Seq(Statuses) /\ e.val = "title"
      BY <2>4, <3>1 DEF Event
    <3> QED
      BY <3>2 DEF Kinds, Words, TodoKinds
  <2>5. CASE e \in {Event("step", p[1], p[2]) : p \in StepIndices \X (Statuses \ {""})}
    <3>1. PICK p \in StepIndices \X (Statuses \ {""}) : e = Event("step", p[1], p[2])
      BY <2>5
    <3>2. e.kind = "step" /\ e.key \in StepIndices /\ e.val \in Statuses
      BY <3>1 DEF Event
    <3>3. e.key \in Nat
      BY <3>2, TaskStateAssumption
    <3> QED
      BY <3>2, <3>3 DEF Kinds, Words, TodoKinds
  <2>6. CASE e \in {Event("todo_added", t, "open") : t \in TodoIds}
    <3>1. PICK t \in TodoIds : e = Event("todo_added", t, "open")
      BY <2>6
    <3>2. e.kind = "todo_added" /\ e.key = t /\ e.val = "open"
      BY <3>1 DEF Event
    <3> QED
      BY <3>2 DEF Kinds, Words, TodoKinds
  <2>7. CASE e \in {Event("todo_updated", p[1], p[2]) : p \in TodoIds \X {"", "open", "cancelled"}}
    <3>1. PICK p \in TodoIds \X {"", "open", "cancelled"} : e = Event("todo_updated", p[1], p[2])
      BY <2>7
    <3>2. e.kind = "todo_updated" /\ e.key \in TodoIds /\ e.val \in {"", "open", "cancelled"}
      BY <3>1 DEF Event
    <3> QED
      BY <3>2 DEF Kinds, Words, TodoKinds
  <2>8. CASE e \in {Event("todo_done", t, "done") : t \in TodoIds}
    <3>1. PICK t \in TodoIds : e = Event("todo_done", t, "done")
      BY <2>8
    <3>2. e.kind = "todo_done" /\ e.key = t /\ e.val = "done"
      BY <3>1 DEF Event
    <3> QED
      BY <3>2 DEF Kinds, Words, TodoKinds
  <2> QED
    BY <2>1, <2>2, <2>3, <2>4, <2>5, <2>6, <2>7, <2>8 DEF Told
<1> QED
  BY <1>1, <1>2 DEF Stamp, LogEvent, Fits

\* The log of one event.
LEMMA OneElement ==
  ASSUME NEW X, NEW x \in X
  PROVE  <<x>> \in Seq(X) /\ Len(<<x>>) = 1 /\ <<x>>[1] = x /\ <<x>> = Append(<<>>, x) /\ SubSeq(<<x>>, 1, 1) = <<x>>
<1>1. <<x>> \in Seq(X)
  OBVIOUS
<1>2. Len(<<x>>) = 1 /\ <<x>>[1] = x
  OBVIOUS
<1>3. <<x>> = Append(<<>>, x)
  OBVIOUS
<1>4. SubSeq(<<x>>, 1, 1) = <<x>>
  BY <1>1, <1>2, SubSeqFull
<1> QED
  BY <1>1, <1>2, <1>3, <1>4

\* A task starts with the one event, and with what is projected of it.
LEMMA StartsTyped ==
  ASSUME TaskStateInit
  PROVE  LogOK /\ SnapshotsTyped /\ SnapshotResumes
<1>1. log = <<Opened>> /\ clock = 0
  BY DEF TaskStateInit, Opened
<1>2. Len(log) = 1 /\ log[1] = Opened /\ log \in Seq(LogEvent)
  BY <1>1, OpenedType, OneElement
<1>3. LogOK
  <2>1. \A i \in 1 .. Len(log) : i = 1
    BY <1>2
  <2>2. Opened.kind = "opened" /\ Opened.seq = 0 /\ 0 \in Nat
    BY DEF Opened
  <2> QED
    BY <1>1, <1>2, <2>1, <2>2, OpenedType DEF LogOK
<1>4. log = Append(<<>>, Opened) /\ SubSeq(log, 1, 1) = log /\ <<>> \in Seq(LogEvent)
  BY <1>1, <1>2, OpenedType, EmptySeq, OneElement
<1> DEFINE s == Project(log)
<1> HIDE DEF s
<1>5. s = Apply(Fresh, Opened) /\ s = [Fresh EXCEPT !.lastSeq = 0]
  <2>1. s = Apply(Fresh, Opened) /\ ProjectOnto(Fresh, <<>>) = Fresh
    <3>1. /\ ProjectOnto(Fresh, <<>>) = Fresh
          /\ ProjectOnto(Fresh, Append(<<>>, Opened)) = Apply(ProjectOnto(Fresh, <<>>), Opened)
      BY <1>4, OpenedType, ProjectMore
    <3> QED
      BY <1>4, <3>1 DEF Project, s
  <2>2. Apply(Fresh, Opened) = [Fresh EXCEPT !.lastSeq = 0]
    BY DEF Apply, Handle, Opened, Fresh
  <2> QED
    BY <2>1, <2>2
<1>6. s \in State /\ s.lastSeq = 0
  BY <1>5, FreshType DEF State
<1>7. SnapshotsTyped
  <2>1. \A k \in 1 .. Len(log) : k = 1
    BY <1>2
  <2>2. Project(SubSeq(log, 1, 1)) = s
    BY <1>4 DEF s
  <2> QED
    BY <1>6, <2>1, <2>2 DEF SnapshotsTyped
<1>8. Restored(s) = Fresh
  BY <1>5 DEF Restored, Fresh
<1>9. EventsAfter(log, -1) = log
  <2>1. {i \in 1 .. Len(log) : log[i].seq >= (-1) + 1} = {1}
    <3>1. Opened.seq = 0
      BY DEF Opened
    <3>2. \A i \in 1 .. Len(log) : i = 1 /\ log[i].seq >= (-1) + 1
      BY <1>2, <3>1
    <3> QED
      BY <1>2, <3>2
  <2>2. {} \in SUBSET (1 .. Len(<<>>)) /\ {} \cup {Len(<<>>) + 1} = {1}
    OBVIOUS
  <2>3. /\ Picked(Append(<<>>, Opened), {} \cup {Len(<<>>) + 1}) = Append(Picked(<<>>, {}), Opened)
        /\ Picked(<<>>, {}) = <<>>
    BY <1>4, <2>2, OpenedType, PickedMore
  <2> QED
    BY <1>4, <2>1, <2>2, <2>3 DEF EventsAfter
<1>10. Resumed(s, log) = s
  <2>1. Fresh.lastSeq = -1
    BY DEF Fresh
  <2> QED
    BY <1>8, <1>9, <2>1 DEF Resumed, Project, s
<1>11. SnapshotResumes
  <2>1. \A k \in 1 .. Len(log) : k = 1
    BY <1>2
  <2> QED
    BY <1>4, <1>10, <2>1 DEF SnapshotResumes, s
<1> QED
  BY <1>3, <1>7, <1>11

\* One event more.
LEMMA LogGrows ==
  ASSUME LogOK, NEW e \in LogEvent, Fits(e), e.seq = Len(log), log' = Append(log, e), clock' = clock
  PROVE  /\ LogOK'
         /\ Project(log') = Apply(Project(log), e)
         /\ Len(log) \in Nat /\ Len(log') = Len(log) + 1 /\ log'[Len(log) + 1] = e
         /\ \A i \in 1 .. Len(log) : log'[i] = log[i]
         /\ \A k \in 1 .. Len(log) : SubSeq(log', 1, k) = SubSeq(log, 1, k)
         /\ SubSeq(log, 1, Len(log)) = log /\ SubSeq(log', 1, Len(log')) = log'
<1>1. /\ Len(log) \in Nat /\ Len(log') = Len(log) + 1 /\ log'[Len(log) + 1] = e
      /\ \A i \in 1 .. Len(log) : log'[i] = log[i]
      /\ log' \in Seq(LogEvent) /\ log \in Seq(LogEvent)
  BY AppendProperties, LenProperties DEF LogOK
<1>2. LogOK'
  <2>1. ASSUME NEW i \in 1 .. Len(log')
        PROVE  log'[i].seq = i - 1 /\ Fits(log'[i])
    <3>1. i = Len(log) + 1 \/ i \in 1 .. Len(log)
      BY <1>1
    <3> QED
      BY <1>1, <3>1 DEF LogOK
  <2>2. Len(log') >= 1 /\ clock' \in Nat /\ 1 \in 1 .. Len(log)
    BY <1>1 DEF LogOK
  <2>3. log'[1].kind = "opened"
    BY <1>1, <2>2 DEF LogOK
  <2> QED
    BY <1>1, <2>1, <2>2, <2>3 DEF LogOK
<1>3. Project(log') = Apply(Project(log), e)
  BY <1>1, ProjectMore DEF Project
<1>4. ASSUME NEW k \in 1 .. Len(log) PROVE SubSeq(log', 1, k) = SubSeq(log, 1, k)
  <2>1. k \in Nat /\ \A i \in 1 .. k : i \in 1 .. Len(log) /\ i \in 1 .. Len(log')
    BY <1>1
  <2>2. \A sq \in Seq(LogEvent) : (\A i \in 1 .. k : i \in 1 .. Len(sq)) => SubSeq(sq, 1, k) = [i \in 1 .. k |-> sq[i]]
    BY <2>1, SubSeqProperties
  <2> QED
    BY <1>1, <2>1, <2>2
<1>5. \A sq \in Seq(LogEvent) : SubSeq(sq, 1, Len(sq)) = sq
  OBVIOUS
<1> QED
  BY <1>1, <1>2, <1>3, <1>4, <1>5

\* What a snapshot is read back as: the state, unless it has seen nothing.
LEMMA RestoredType ==
  ASSUME NEW s \in State
  PROVE  /\ Restored(s).lastSeq = IF s.lastSeq = 0 THEN -1 ELSE s.lastSeq
         /\ s.lastSeq # 0 => Restored(s) = s
BY DEF Restored, State

\* Resuming from any snapshot gives what the whole log gives, and does so one event later.
LEMMA SnapshotsStep ==
  ASSUME LogOK, SnapshotsTyped, SnapshotResumes,
         NEW e \in LogEvent, Fits(e), e.seq = Len(log), log' = Append(log, e), clock' = clock
  PROVE  SnapshotsTyped' /\ SnapshotResumes'
<1> DEFINE N == Len(log)
           s == Project(log)
           t == Project(log')
<1>1. /\ t = Apply(s, e) /\ N \in Nat /\ Len(log') = N + 1 /\ log'[N + 1] = e
      /\ \A i \in 1 .. N : log'[i] = log[i]
      /\ \A k \in 1 .. N : SubSeq(log', 1, k) = SubSeq(log, 1, k)
      /\ SubSeq(log, 1, N) = log /\ SubSeq(log', 1, N + 1) = log'
      /\ LogOK'
  <2>1. /\ Project(log') = Apply(Project(log), e)
        /\ Len(log) \in Nat /\ Len(log') = Len(log) + 1 /\ log'[Len(log) + 1] = e
        /\ \A i \in 1 .. Len(log) : log'[i] = log[i]
        /\ \A k \in 1 .. Len(log) : SubSeq(log', 1, k) = SubSeq(log, 1, k)
        /\ SubSeq(log, 1, Len(log)) = log /\ SubSeq(log', 1, Len(log')) = log'
        /\ LogOK'
    BY LogGrows
  <2> QED
    BY <2>1
<1>0. Len(log) = N /\ e.seq = N /\ Len(log) \in Nat
  BY <1>1
<1> HIDE DEF N, s, t
<1>2. N \in 1 .. N /\ s \in State /\ s.lastSeq = N - 1
  <2>1. N \in 1 .. N
    BY <1>0, <1>1 DEF LogOK
  <2>2. Project(SubSeq(log, 1, N)) = s
    BY <1>1 DEF s
  <2> QED
    BY <1>0, <1>1, <2>1, <2>2 DEF SnapshotsTyped
<1>3. t \in State /\ t.lastSeq = N
  <2>1. Apply(s, e) \in State /\ Apply(s, e).lastSeq = IF e.seq > s.lastSeq THEN e.seq ELSE s.lastSeq
    BY <1>2, ApplyType
  <2> QED
    BY <1>0, <1>1, <1>2, <2>1
<1>4. \A k \in 1 .. N + 1 : k \in 1 .. N \/ k = N + 1
  BY <1>1
<1>5. ASSUME NEW k \in 1 .. N + 1
      PROVE  Project(SubSeq(log', 1, k)) \in State /\ Project(SubSeq(log', 1, k)).lastSeq = k - 1
  <2>1. CASE k \in 1 .. N
    <3>1. SubSeq(log', 1, k) = SubSeq(log, 1, k)
      BY <1>1, <2>1
    <3> QED
      BY <1>0, <2>1, <3>1 DEF SnapshotsTyped
  <2>2. CASE k = N + 1
    <3>1. SubSeq(log', 1, k) = log' /\ k - 1 = N
      BY <1>0, <1>1, <2>2
    <3>2. Project(SubSeq(log', 1, k)) = t
      BY <3>1 DEF t
    <3> QED
      BY <1>3, <3>1, <3>2
  <2> QED
    BY <1>4, <2>1, <2>2
<1>6. SnapshotsTyped'
  BY <1>1, <1>5 DEF SnapshotsTyped
<1>7. ASSUME NEW k \in 1 .. N
      PROVE  Resumed(Project(SubSeq(log', 1, k)), log') = t
  <2> DEFINE snap == Project(SubSeq(log, 1, k))
             base == Restored(snap)
             K == {i \in 1 .. N : log[i].seq >= base.lastSeq + 1}
  <2>1. snap \in State /\ snap.lastSeq = k - 1 /\ Resumed(snap, log) = s
    BY <1>0 DEF SnapshotsTyped, SnapshotResumes, s
  <2>2. base.lastSeq \in Int /\ base.lastSeq + 1 <= N
    <3>1. base.lastSeq = IF snap.lastSeq = 0 THEN -1 ELSE snap.lastSeq
      BY <2>1, RestoredType
    <3> HIDE DEF base, snap
    <3> QED
      BY <1>0, <1>1, <2>1, <3>1
  <2> HIDE DEF base
  <2>3. {i \in 1 .. Len(log') : log'[i].seq >= base.lastSeq + 1} = K \cup {N + 1}
    <3>1. \A i \in 1 .. N : i \in 1 .. N + 1 /\ log'[i] = log[i]
      BY <1>0, <1>1
    <3>2. e.seq >= base.lastSeq + 1 /\ N + 1 \in 1 .. N + 1
      BY <1>0, <1>1, <2>2
    <3> QED
      BY <1>0, <1>1, <1>4, <3>1, <3>2
  <2>4. EventsAfter(log', base.lastSeq) = Append(EventsAfter(log, base.lastSeq), e)
    <3>1. K \in SUBSET (1 .. Len(log)) /\ log \in Seq(LogEvent)
      BY <1>0 DEF LogOK
    <3>2. Picked(Append(log, e), K \cup {Len(log) + 1}) = Append(Picked(log, K), e)
      <4> HIDE DEF K
      <4> QED
        BY <3>1, PickedMore
    <3> QED
      BY <1>0, <1>1, <2>3, <3>2 DEF EventsAfter
  <2>5. EventsAfter(log, base.lastSeq) \in Seq(LogEvent)
    <3>1. K \in SUBSET (1 .. Len(log)) /\ log \in Seq(LogEvent)
      BY <1>0 DEF LogOK
    <3>2. Picked(log, K) \in Seq(LogEvent)
      <4> HIDE DEF K
      <4> QED
        BY <3>1, PickedFacts
    <3> QED
      BY <1>0, <3>2 DEF EventsAfter
  <2>6. ProjectOnto(base, Append(EventsAfter(log, base.lastSeq), e)) = Apply(ProjectOnto(base, EventsAfter(log, base.lastSeq)), e)
    BY <2>5, ProjectMore
  <2>7. ProjectOnto(base, EventsAfter(log, base.lastSeq)) = s
    BY <2>1 DEF Resumed, base
  <2>8. Resumed(snap, log') = t
    BY <1>0, <1>1, <2>4, <2>6, <2>7 DEF Resumed, base
  <2> QED
    BY <1>0, <1>1, <2>8
<1>8. Resumed(t, log') = t
  <2>1. Restored(t) = t
    BY <1>0, <1>1, <1>2, <1>3, RestoredType
  <2>2. {i \in 1 .. Len(log') : log'[i].seq >= N + 1} = {}
    <3>1. ASSUME NEW i \in 1 .. Len(log') PROVE ~(log'[i].seq >= N + 1)
      <4>1. log'[i].seq = i - 1
        BY <1>0, <1>1 DEF LogOK
      <4> QED
        BY <1>0, <1>1, <4>1
    <3> QED
      BY <3>1
  <2>3. EventsAfter(log', N) = <<>>
    <3>1. log' \in Seq(LogEvent)
      BY <1>0, <1>1 DEF LogOK
    <3>2. {} \in SUBSET (1 .. Len(log')) /\ e \in LogEvent
      OBVIOUS
    <3>3. Picked(log', {}) = <<>>
      BY <3>1, <3>2, PickedMore
    <3> QED
      BY <2>2, <3>3 DEF EventsAfter
  <2>4. ProjectOnto(t, <<>>) = t
    <3>1. <<>> \in Seq(LogEvent)
      BY EmptySeq
    <3> QED
      BY <3>1, ProjectMore
  <2> QED
    BY <1>3, <2>1, <2>3, <2>4 DEF Resumed
<1>9. ASSUME NEW k \in 1 .. N + 1 PROVE Resumed(Project(SubSeq(log', 1, k)), log') = t
  <2>1. CASE k \in 1 .. N
    BY <1>7, <2>1
  <2>2. CASE k = N + 1
    BY <1>0, <1>1, <1>8, <2>2 DEF t
  <2> QED
    BY <1>4, <2>1, <2>2
<1>10. SnapshotResumes'
  BY <1>0, <1>1, <1>9 DEF SnapshotResumes, t
<1> QED
  BY <1>6, <1>10

\* What a step of the agent does: an event more, or time passes.
LEMMA TaskStateSteps ==
  ASSUME LogOK, TaskStateNext
  PROVE  \/ \E e \in LogEvent : Fits(e) /\ e.seq = Len(log) /\ log' = Append(log, e) /\ clock' = clock
         \/ log' = log /\ clock' = clock + 1
<1>1. CASE \E e \in Told : Tell(e)
  <2>1. PICK e \in Told : Tell(e)
    BY <1>1
  <2>2. Stamp(e) \in LogEvent /\ Fits(Stamp(e)) /\ Stamp(e).seq = Len(log)
    BY StampType
  <2> QED
    BY <2>1, <2>2 DEF Tell
<1>2. CASE Compress
  <2> DEFINE e == Event("compression", 0, "")
  <2>1. Stamp(e) \in LogEvent /\ Fits(Stamp(e)) /\ Stamp(e).seq = Len(log)
    <3> HIDE DEF e
    <3>1. e \in Told \cup {Event("compression", 0, "")}
      BY DEF e
    <3> QED
      BY <3>1, StampType
  <2> QED
    BY <1>2, <2>1 DEF Compress
<1>3. CASE Tick
  BY <1>3 DEF Tick
<1> QED
  BY <1>1, <1>2, <1>3 DEF TaskStateNext

\* The log is well formed in every state.
LEMMA LogTyped == TaskStateSpec => []LogOK
<1>1. TaskStateInit => LogOK
  BY StartsTyped
<1>2. LogOK /\ [TaskStateNext]_taskStateVars => LogOK'
  <2> SUFFICES ASSUME LogOK, [TaskStateNext]_taskStateVars PROVE LogOK'
    OBVIOUS
  <2>1. CASE UNCHANGED taskStateVars
    BY <2>1 DEF LogOK, taskStateVars
  <2>2. CASE log' = log /\ clock' = clock + 1
    BY <2>2 DEF LogOK
  <2>3. CASE \E e \in LogEvent : Fits(e) /\ e.seq = Len(log) /\ log' = Append(log, e) /\ clock' = clock
    BY <2>3, LogGrows
  <2> QED
    BY <2>1, <2>2, <2>3, TaskStateSteps
<1> QED
  BY <1>1, <1>2, PTL DEF TaskStateSpec

\* Whatever was told: a state projected of part of the log, once read back from the snapshot
\* and brought up to date with the events after it, is the state projected of the whole log
\* (test_task_state.py:119-140, task_event_log.py:253-256).
THEOREM SnapshotHolds == TaskStateSpec => []SnapshotResumes
<1>1. TaskStateInit => SnapshotsTyped /\ SnapshotResumes
  BY StartsTyped
<1>2. LogOK /\ SnapshotsTyped /\ SnapshotResumes /\ [TaskStateNext]_taskStateVars => SnapshotsTyped' /\ SnapshotResumes'
  <2> SUFFICES ASSUME LogOK, SnapshotsTyped, SnapshotResumes, [TaskStateNext]_taskStateVars
               PROVE  SnapshotsTyped' /\ SnapshotResumes'
    OBVIOUS
  <2>1. CASE log' = log
    BY <2>1 DEF SnapshotsTyped, SnapshotResumes
  <2>2. CASE \E e \in LogEvent : Fits(e) /\ e.seq = Len(log) /\ log' = Append(log, e) /\ clock' = clock
    BY <2>2, SnapshotsStep
  <2> QED
    BY <2>1, <2>2, TaskStateSteps DEF taskStateVars
<1> QED
  BY <1>1, <1>2, LogTyped, PTL DEF TaskStateSpec

-----------------------------------------------------------------------------
(* What a log says: the last event of a sort, the first, and how many.     *)

\* Where the events of G stand in the log l.
Those(l, G) == {i \in 1 .. Len(l) : l[i] \in G}

LastOf(l, G) == l[Latest(Those(l, G))]

\* The last of the events of a sort is one of them, and none of them is later.
LEMMA LatestFacts ==
  ASSUME NEW n \in Nat, NEW T \in SUBSET (1 .. n)
  PROVE  /\ Latest(T) \in 0 .. n
         /\ T = {} => Latest(T) = 0
         /\ T # {} => Latest(T) \in T
         /\ \A x \in T : x <= Latest(T)
         /\ \A x \in T : (\A y \in T : y <= x) => Latest(T) = x
<1> DEFINE Z == T \cup {0}
<1>1. \A x \in Z : x \in Nat /\ x <= n
  OBVIOUS
<1>2. \E x \in Z : \A y \in Z : x >= y
  <2>1. CASE T = {}
    BY <2>1
  <2>2. CASE T # {}
    <3>1. PICK x \in T : \A y \in T : y <= x
      BY <2>2, LastPosition
    <3>2. x \in Z /\ \A y \in Z : y \in T \/ y = 0
      BY <3>1
    <3> HIDE DEF Z
    <3>3. ASSUME NEW y \in Z PROVE x >= y
      <4>1. CASE y = 0
        BY <1>1, <3>2, <4>1
      <4>2. CASE y \in T
        BY <1>1, <3>1, <3>2, <4>2
      <4> QED
        BY <3>2, <4>1, <4>2
    <3> QED
      BY <3>2, <3>3
  <2> QED
    BY <2>1, <2>2
<1>3. Latest(T) \in Z /\ \A y \in Z : Latest(T) >= y
  BY <1>2 DEF Latest, Max
<1>4. \A x \in T : x \in Z /\ x >= 1
  OBVIOUS
<1> DEFINE m == Latest(T)
<1> HIDE DEF m
<1>5. m \in Z /\ m \in Nat /\ m <= n /\ \A y \in Z : m >= y
  BY <1>1, <1>3 DEF m
<1>6. T # {} => m \in T
  <2> SUFFICES ASSUME NEW x \in T PROVE m \in T
    OBVIOUS
  <2>1. m >= 1
    <3>1. m >= x /\ x >= 1 /\ x \in Nat
      BY <1>1, <1>4, <1>5
    <3> QED
      BY <1>5, <3>1
  <2> QED
    BY <1>5, <2>1
<1>7. T = {} => m = 0
  BY <1>5
<1>8. \A x \in T : x <= m
  BY <1>1, <1>4, <1>5
<1>9. \A x \in T : (\A y \in T : y <= x) => m = x
  <2> SUFFICES ASSUME NEW x \in T, \A y \in T : y <= x PROVE m = x
    OBVIOUS
  <2>1. m <= x /\ x <= m /\ x \in Nat
    BY <1>1, <1>4, <1>6, <1>8
  <2> QED
    BY <1>5, <2>1
<1> QED
  BY <1>5, <1>6, <1>7, <1>8, <1>9 DEF m

\* The first one, likewise.
LEMMA FirstFacts ==
  ASSUME NEW T \in SUBSET Nat, T # {}
  PROVE  Min(T) \in T /\ \A x \in T : Min(T) <= x
<1>1. \E x \in T : \A y \in T : x =< y
  BY FirstNumber
<1> QED
  BY <1>1 DEF Min

\* The places of the events of a sort, the last of them, and what a place is.
LEMMA ThoseAre ==
  ASSUME NEW l \in Seq(LogEvent), NEW G
  PROVE  /\ Len(l) \in Nat /\ Those(l, G) \in SUBSET (1 .. Len(l)) /\ Those(l, G) \in SUBSET Nat
         /\ IsFiniteSet(Those(l, G)) /\ Cardinality(Those(l, G)) \in Nat
         /\ Latest(Those(l, G)) \in 0 .. Len(l)
         /\ Those(l, G) # {} => /\ Latest(Those(l, G)) \in Those(l, G) /\ LastOf(l, G) \in G
                                /\ LastOf(l, G) \in LogEvent
         /\ Those(l, G) = {} => Latest(Those(l, G)) = 0
         /\ \A i \in Those(l, G) : i <= Latest(Those(l, G))
<1>1. Len(l) \in Nat /\ Those(l, G) \in SUBSET (1 .. Len(l)) /\ \A i \in 1 .. Len(l) : l[i] \in LogEvent
  BY LenProperties, ElementOfSeq DEF Those
<1>2. Those(l, G) \in SUBSET Nat
  BY <1>1
<1>3. IsFiniteSet(Those(l, G)) /\ Cardinality(Those(l, G)) \in Nat
  BY <1>1, Ranks
<1>4. /\ Latest(Those(l, G)) \in 0 .. Len(l)
      /\ Those(l, G) # {} => Latest(Those(l, G)) \in Those(l, G)
      /\ Those(l, G) = {} => Latest(Those(l, G)) = 0
      /\ \A i \in Those(l, G) : i <= Latest(Those(l, G))
  BY <1>1, LatestFacts
<1>5. \A i \in Those(l, G) : l[i] \in G /\ l[i] \in LogEvent
  BY <1>1 DEF Those
<1> QED
  BY <1>1, <1>2, <1>3, <1>4, <1>5 DEF LastOf

\* One event more.
LEMMA ThoseMore ==
  ASSUME NEW l \in Seq(LogEvent), NEW e \in LogEvent, NEW G
  PROVE  /\ e \notin G => Those(Append(l, e), G) = Those(l, G)
         /\ e \notin G /\ Those(l, G) # {} => LastOf(Append(l, e), G) = LastOf(l, G)
         /\ e \in G => /\ Those(Append(l, e), G) = Those(l, G) \cup {Len(l) + 1}
                       /\ Latest(Those(Append(l, e), G)) = Len(l) + 1
                       /\ LastOf(Append(l, e), G) = e
                       /\ Cardinality(Those(Append(l, e), G)) = Cardinality(Those(l, G)) + 1
         /\ Those(l, G) # {} => Min(Those(Append(l, e), G)) = Min(Those(l, G)) /\ Min(Those(l, G)) \in 1 .. Len(l)
         /\ Those(l, G) = {} /\ e \in G => Min(Those(Append(l, e), G)) = Len(l) + 1
<1> DEFINE m == Append(l, e)
           N == Len(l)
           T == Those(l, G)
           U == Those(m, G)
<1>1. /\ N \in Nat /\ Len(m) = N + 1 /\ m \in Seq(LogEvent) /\ m[N + 1] = e
      /\ \A i \in 1 .. N : m[i] = l[i]
  BY AppendProperties, LenProperties
<1>2. \A i \in 1 .. N + 1 : i \in 1 .. N \/ i = N + 1
  BY <1>1
<1>3. \A i \in 1 .. N : i \in 1 .. N + 1 /\ i # N + 1
  BY <1>1
<1>4. /\ T \in SUBSET (1 .. N) /\ T \in SUBSET Nat
      /\ IsFiniteSet(T) /\ Cardinality(T) \in Nat
      /\ T # {} => Latest(T) \in T
  BY ThoseAre
<1>5. T = {i \in 1 .. N : l[i] \in G} /\ U = {i \in 1 .. N + 1 : m[i] \in G}
  BY <1>1 DEF Those
<1>6. N + 1 \in 1 .. N + 1 /\ N + 1 \in Nat
  BY <1>1
<1> HIDE DEF m, N, T, U
<1>7. e \notin G => U = T
  BY <1>1, <1>2, <1>3, <1>5
<1>8. e \in G => U = T \cup {N + 1}
  BY <1>1, <1>2, <1>3, <1>5, <1>6
<1>9. e \notin G /\ T # {} => LastOf(m, G) = LastOf(l, G)
  <2> SUFFICES ASSUME e \notin G, T # {} PROVE LastOf(m, G) = LastOf(l, G)
    OBVIOUS
  <2>1. LastOf(m, G) = m[Latest(T)] /\ LastOf(l, G) = l[Latest(T)]
    BY <1>7 DEF LastOf, T, U
  <2>2. Latest(T) \in 1 .. N
    BY <1>4
  <2> QED
    BY <1>1, <2>1, <2>2
<1>10. e \in G => Latest(U) = N + 1 /\ LastOf(m, G) = e
  <2> SUFFICES ASSUME e \in G PROVE Latest(U) = N + 1 /\ LastOf(m, G) = e
    OBVIOUS
  <2>1. U \in SUBSET (1 .. N + 1) /\ N + 1 \in U /\ \A x \in U : x <= N + 1
    BY <1>1, <1>5, <1>6, <1>8
  <2>2. Latest(U) = N + 1
    BY <1>6, <2>1, LatestFacts
  <2> QED
    BY <1>1, <2>2 DEF LastOf, U
<1>11. e \in G => Cardinality(U) = Cardinality(T) + 1
  <2>1. N + 1 \notin T
    BY <1>3, <1>4
  <2> QED
    BY <1>4, <1>8, <2>1, FS_AddElement
<1>12. T # {} => Min(U) = Min(T) /\ Min(T) \in 1 .. N
  <2> SUFFICES ASSUME T # {} PROVE Min(U) = Min(T) /\ Min(T) \in 1 .. N
    OBVIOUS
  <2>1. Min(T) \in T /\ \A x \in T : Min(T) <= x
    BY <1>4, FirstFacts
  <2>2. U \in SUBSET Nat /\ U # {} /\ Min(T) \in U /\ \A x \in U : x \in T \/ x = N + 1
    BY <1>4, <1>6, <1>7, <1>8, <2>1
  <2>3. Min(U) \in U /\ \A x \in U : Min(U) <= x
    BY <2>2, FirstFacts
  <2>4. Min(T) \in 1 .. N
    BY <1>4, <2>1
  <2>5. Min(T) <= Min(U)
    <3>1. CASE Min(U) \in T
      BY <2>1, <3>1
    <3>2. CASE Min(U) = N + 1
      BY <1>1, <2>4, <3>2
    <3> QED
      BY <2>2, <2>3, <3>1, <3>2
  <2>6. Min(U) \in Nat /\ Min(T) \in Nat /\ Min(U) <= Min(T)
    BY <2>2, <2>3, <2>4
  <2> QED
    BY <2>4, <2>5, <2>6
<1>13. T = {} /\ e \in G => Min(U) = N + 1
  <2> SUFFICES ASSUME T = {}, e \in G PROVE Min(U) = N + 1
    OBVIOUS
  <2>1. U = {N + 1} /\ U \in SUBSET Nat /\ U # {}
    BY <1>6, <1>8
  <2> QED
    BY <2>1, FirstFacts
<1> QED
  BY <1>7, <1>8, <1>9, <1>10, <1>11, <1>12, <1>13 DEF m, N, T, U

ModeEvents == {x \in LogEvent : x.kind = "mode"}
PlanEvents == {x \in LogEvent : x.kind = "plan" /\ x.key # <<>>}
Keyed(kinds, key) == {x \in LogEvent : x.kind \in kinds /\ x.key = key}
Added(t) == Keyed({"todo_added"}, t)
Touching(t) == Keyed(TodoKinds, t)
Voiced(t) == {x \in Touching(t) : x.val # ""}
Compressions == Keyed({"compression"}, 0)

\* The updates of step i since the last plan.
Updates(l, i) == {k \in Those(l, Keyed({"step"}, i)) : k > Latest(Those(l, PlanEvents))}

\* Its last update, or what that plan gave it.
StepWord(l, i) ==
  IF Updates(l, i) = {} THEN StepGiven(LastOf(l, PlanEvents).key[i + 1]) ELSE l[Latest(Updates(l, i))].val

\* The state says, part by part, what the last event of a sort says.
ModeSaid(l, s) == s.mode = IF Those(l, ModeEvents) = {} THEN "act" ELSE LastOf(l, ModeEvents).val

PlanSaid(l, s) == s.planned <=> \E i \in 1 .. Len(l) : l[i].kind = "plan" /\ (l[i].key # <<>> \/ l[i].val # "")

StepsSaid(l, s) ==
  /\ Len(s.steps) = IF Those(l, PlanEvents) = {} THEN 0 ELSE Len(LastOf(l, PlanEvents).key)
  /\ \A i \in 1 .. Len(s.steps) : s.steps[i] = StepWord(l, i - 1)

CompressionsSaid(l, s) == s.compressions = Cardinality(Those(l, Compressions))

TodosSaid(l, d) ==
  /\ \A t \in TodoIds : Those(l, Added(t)) # {} => HasKey(d, t)
  /\ \A i \in 1 .. Len(d) : /\ Those(l, Added(d[i].key)) # {} /\ Those(l, Voiced(d[i].key)) # {}
                            /\ Those(l, Touching(d[i].key)) # {}
                            /\ d[i].status = LastOf(l, Voiced(d[i].key)).val
                            /\ d[i].at = LastOf(l, Touching(d[i].key)).at
  /\ \A i, j \in 1 .. Len(d) : i < j => Min(Those(l, Added(d[i].key))) < Min(Those(l, Added(d[j].key)))

SaidBy(l, s) == ModeSaid(l, s) /\ PlanSaid(l, s) /\ StepsSaid(l, s) /\ CompressionsSaid(l, s) /\ TodosSaid(l, s.todos)

\* What becomes of each part of a state.
LEMMA ApplyParts ==
  ASSUME NEW s \in State, NEW e \in LogEvent, Fits(e)
  PROVE  /\ Apply(s, e).mode = IF e.kind = "mode" THEN e.val ELSE s.mode
         /\ Apply(s, e).planned <=> s.planned \/ (e.kind = "plan" /\ (e.key # <<>> \/ e.val # ""))
         /\ Apply(s, e).steps =
              IF e.kind = "plan" /\ e.key # <<>> THEN [i \in 1 .. Len(e.key) |-> StepGiven(e.key[i])]
              ELSE IF e.kind = "step" THEN [i \in 1 .. Len(s.steps) |-> IF i = e.key + 1 THEN e.val ELSE s.steps[i]]
              ELSE s.steps
         /\ Apply(s, e).compressions = IF e.kind = "compression" THEN s.compressions + 1 ELSE s.compressions
         /\ Apply(s, e).todos =
              IF e.kind = "todo_added" THEN Put(s.todos, [key |-> e.key, status |-> e.val, at |-> e.at])
              ELSE IF e.kind \in {"todo_updated", "todo_done"} THEN Touch(s.todos, e)
              ELSE s.todos
<1> DEFINE t == [s EXCEPT !.lastSeq = IF e.seq > @ THEN e.seq ELSE @]
           a == Apply(s, e)
<1>1. t \in State /\ t.mode = s.mode /\ t.planned = s.planned /\ t.steps = s.steps /\ t.todos = s.todos
      /\ t.compressions = s.compressions
  BY DEF State, LogEvent
<1>2. a = Handle(t, e)
  BY DEF Apply
<1> HIDE DEF t, a
<1>3. CASE e.kind = "mode"
  <2>1. a = [t EXCEPT !.mode = e.val]
    BY <1>2, <1>3 DEF Handle
  <2>2. a.mode = e.val /\ a.planned = t.planned /\ a.steps = t.steps /\ a.compressions = t.compressions /\ a.todos = t.todos
    BY <1>1, <2>1 DEF State
  <2> QED
    BY <1>1, <1>3, <2>2 DEF a
<1>4. CASE e.kind = "plan"
  <2> DEFINE st == IF e.key # <<>> THEN [i \in 1 .. Len(e.key) |-> StepGiven(e.key[i])] ELSE t.steps
             pl == t.planned \/ e.key # <<>> \/ e.val # ""
  <2>1. a = [t EXCEPT !.planned = pl, !.steps = st]
    BY <1>1, <1>2, <1>4 DEF Handle, SetPlan, State
  <2> HIDE DEF st, pl
  <2>2. a.mode = t.mode /\ a.planned = pl /\ a.steps = st /\ a.compressions = t.compressions /\ a.todos = t.todos
    BY <1>1, <2>1 DEF State
  <2>3. a.planned <=> s.planned \/ (e.kind = "plan" /\ (e.key # <<>> \/ e.val # ""))
    BY <1>1, <1>4, <2>2 DEF pl
  <2> QED
    BY <1>1, <1>4, <2>2, <2>3 DEF a, st
<1>5. CASE e.kind = "step"
  <2> DEFINE st == [i \in 1 .. Len(s.steps) |-> IF i = e.key + 1 THEN e.val ELSE s.steps[i]]
  <2>1. a = [t EXCEPT !.steps = st]
    BY <1>1, <1>2, <1>5 DEF Handle, UpdateStep, State
  <2> HIDE DEF st
  <2>2. a.mode = t.mode /\ a.planned = t.planned /\ a.steps = st /\ a.compressions = t.compressions /\ a.todos = t.todos
    BY <1>1, <2>1 DEF State
  <2> QED
    BY <1>1, <1>5, <2>2 DEF a, st
<1>6. CASE e.kind = "todo_added"
  <2> DEFINE d == Put(s.todos, [key |-> e.key, status |-> e.val, at |-> e.at])
  <2>1. a = [t EXCEPT !.todos = d]
    BY <1>1, <1>2, <1>6 DEF Handle, AddTodo, State
  <2> HIDE DEF d
  <2>2. a.mode = t.mode /\ a.planned = t.planned /\ a.steps = t.steps /\ a.compressions = t.compressions /\ a.todos = d
    BY <1>1, <2>1 DEF State
  <2> QED
    BY <1>1, <1>6, <2>2 DEF a, d
<1>7. CASE e.kind \in {"todo_updated", "todo_done"}
  <2> DEFINE d == Touch(s.todos, e)
  <2>1. a = [t EXCEPT !.todos = d]
    BY <1>1, <1>2, <1>7 DEF Handle, UpdateTodo, State
  <2> HIDE DEF d
  <2>2. a.mode = t.mode /\ a.planned = t.planned /\ a.steps = t.steps /\ a.compressions = t.compressions /\ a.todos = d
    BY <1>1, <2>1 DEF State
  <2> QED
    BY <1>1, <1>7, <2>2 DEF a, d
<1>8. CASE e.kind = "compression"
  <2> DEFINE n == t.compressions + 1
  <2>1. a = [t EXCEPT !.compressions = n]
    BY <1>1, <1>2, <1>8 DEF Handle, State
  <2> HIDE DEF n
  <2>2. a.mode = t.mode /\ a.planned = t.planned /\ a.steps = t.steps /\ a.compressions = n /\ a.todos = t.todos
    BY <1>1, <2>1 DEF State
  <2> QED
    BY <1>1, <1>8, <2>2 DEF a, n
<1>9. CASE e.kind \notin {"mode", "plan", "step", "todo_added", "todo_updated", "todo_done", "compression"}
  <2>1. a = t
    BY <1>2, <1>9 DEF Handle
  <2> QED
    BY <1>1, <1>9, <2>1 DEF a
<1> QED
  BY <1>3, <1>4, <1>5, <1>6, <1>7, <1>8, <1>9

\* One event more: the mode,
LEMMA ModeMore ==
  ASSUME NEW l \in Seq(LogEvent), NEW e \in LogEvent, Fits(e), NEW s \in State, ModeSaid(l, s)
  PROVE  ModeSaid(Append(l, e), Apply(s, e))
<1> DEFINE m == Append(l, e)
           a == Apply(s, e)
<1>1. a.mode = IF e.kind = "mode" THEN e.val ELSE s.mode
  BY ApplyParts
<1>2. e \in ModeEvents <=> e.kind = "mode"
  BY DEF ModeEvents
<1>3. /\ e \notin ModeEvents => Those(m, ModeEvents) = Those(l, ModeEvents)
      /\ e \notin ModeEvents /\ Those(l, ModeEvents) # {} => LastOf(m, ModeEvents) = LastOf(l, ModeEvents)
      /\ e \in ModeEvents => Those(m, ModeEvents) = Those(l, ModeEvents) \cup {Len(l) + 1} /\ LastOf(m, ModeEvents) = e
  BY ThoseMore
<1> HIDE DEF m, a
<1>4. CASE e.kind = "mode"
  <2>1. a.mode = e.val /\ Those(m, ModeEvents) # {} /\ LastOf(m, ModeEvents) = e
    BY <1>1, <1>2, <1>3, <1>4
  <2> QED
    BY <2>1 DEF ModeSaid, a, m
<1>5. CASE e.kind # "mode"
  <2>1. a.mode = s.mode /\ Those(m, ModeEvents) = Those(l, ModeEvents)
    BY <1>1, <1>2, <1>3, <1>5
  <2>2. Those(l, ModeEvents) # {} => LastOf(m, ModeEvents) = LastOf(l, ModeEvents)
    BY <1>2, <1>3, <1>5
  <2> QED
    BY <2>1, <2>2 DEF ModeSaid, a, m
<1> QED
  BY <1>4, <1>5

\* whether there is a plan,
LEMMA PlanMore ==
  ASSUME NEW l \in Seq(LogEvent), NEW e \in LogEvent, Fits(e), NEW s \in State, PlanSaid(l, s)
  PROVE  PlanSaid(Append(l, e), Apply(s, e))
<1> DEFINE m == Append(l, e)
           a == Apply(s, e)
           N == Len(l)
           Sets(x) == x.kind = "plan" /\ (x.key # <<>> \/ x.val # "")
<1>1. a.planned <=> s.planned \/ Sets(e)
  BY ApplyParts
<1>2. /\ N \in Nat /\ Len(m) = N + 1 /\ m[N + 1] = e /\ \A i \in 1 .. N : m[i] = l[i]
  BY AppendProperties, LenProperties
<1>3. N + 1 \in 1 .. N + 1 /\ (\A i \in 1 .. N + 1 : i \in 1 .. N \/ i = N + 1) /\ \A i \in 1 .. N : i \in 1 .. N + 1
  BY <1>2
<1>4. s.planned <=> \E i \in 1 .. N : Sets(l[i])
  BY DEF PlanSaid
<1> HIDE DEF m, a, N, Sets
<1>5. a.planned <=> \E i \in 1 .. Len(m) : Sets(m[i])
  BY <1>1, <1>2, <1>3, <1>4
<1> QED
  BY <1>5 DEF PlanSaid, Sets, a, m

\* how often the conversation was compressed,
LEMMA CompressionsMore ==
  ASSUME NEW l \in Seq(LogEvent), NEW e \in LogEvent, Fits(e), NEW s \in State, CompressionsSaid(l, s)
  PROVE  CompressionsSaid(Append(l, e), Apply(s, e))
<1> DEFINE m == Append(l, e)
           a == Apply(s, e)
<1>1. a.compressions = IF e.kind = "compression" THEN s.compressions + 1 ELSE s.compressions
  BY ApplyParts
<1>2. e \in Compressions <=> e.kind = "compression"
  BY DEF Compressions, Keyed, Fits
<1>3. /\ e \notin Compressions => Those(m, Compressions) = Those(l, Compressions)
      /\ e \in Compressions => Cardinality(Those(m, Compressions)) = Cardinality(Those(l, Compressions)) + 1
  BY ThoseMore
<1> HIDE DEF m, a
<1> QED
  BY <1>1, <1>2, <1>3 DEF CompressionsSaid, a, m

\* The updates of a step, one event later.
LEMMA UpdatesMore ==
  ASSUME NEW l \in Seq(LogEvent), NEW e \in LogEvent, NEW i
  PROVE  /\ e \in PlanEvents => Updates(Append(l, e), i) = {}
         /\ e \in Keyed({"step"}, i) => /\ Updates(Append(l, e), i) # {}
                                        /\ StepWord(Append(l, e), i) = e.val
         /\ e \notin PlanEvents \cup Keyed({"step"}, i) /\ Those(l, PlanEvents) # {} =>
              StepWord(Append(l, e), i) = StepWord(l, i)
<1> DEFINE m == Append(l, e)
           N == Len(l)
           Q == Keyed({"step"}, i)
           p == Latest(Those(l, PlanEvents))
           q == Latest(Those(m, PlanEvents))
<1>1. /\ N \in Nat /\ Len(m) = N + 1 /\ m \in Seq(LogEvent) /\ m[N + 1] = e
      /\ \A k \in 1 .. N : m[k] = l[k]
  BY AppendProperties, LenProperties
<1>2. Those(l, Q) \in SUBSET (1 .. N) /\ p \in 0 .. N
  BY ThoseAre
<1>3. /\ e \in PlanEvents => q = N + 1
      /\ e \notin PlanEvents => q = p
      /\ e \notin PlanEvents /\ Those(l, PlanEvents) # {} => LastOf(m, PlanEvents) = LastOf(l, PlanEvents)
  BY ThoseMore
<1>4. /\ e \in Q => Those(m, Q) = Those(l, Q) \cup {N + 1}
      /\ e \notin Q => Those(m, Q) = Those(l, Q)
  BY ThoseMore
<1>5. ~(e \in PlanEvents /\ e \in Q)
  BY DEF PlanEvents, Keyed
<1>6. Updates(m, i) = {k \in Those(m, Q) : k > q} /\ Updates(l, i) = {k \in Those(l, Q) : k > p}
  BY DEF Updates
<1>7. StepWord(m, i) = (IF Updates(m, i) = {} THEN StepGiven(LastOf(m, PlanEvents).key[i + 1])
                        ELSE m[Latest(Updates(m, i))].val)
  BY DEF StepWord
<1> HIDE DEF m, N, Q, p, q
<1>8. ASSUME e \in PlanEvents PROVE Updates(m, i) = {}
  <2>1. \A k \in Those(m, Q) : k \in 1 .. N
    BY <1>2, <1>4, <1>5, <1>8
  <2>2. \A k \in 1 .. N : ~(k > N + 1)
    BY <1>1
  <2> QED
    BY <1>3, <1>6, <1>8, <2>1, <2>2
<1>9. ASSUME e \in Q PROVE Updates(m, i) # {} /\ StepWord(m, i) = e.val
  <2>1. q = p /\ Those(m, Q) = Those(l, Q) \cup {N + 1} /\ N + 1 > p
    BY <1>1, <1>2, <1>3, <1>4, <1>5, <1>9
  <2>2. N + 1 \in Updates(m, i)
    BY <1>6, <2>1
  <2>3. Updates(m, i) \in SUBSET (1 .. N + 1) /\ \A k \in Updates(m, i) : k <= N + 1
    <3>1. \A k \in Updates(m, i) : k \in 1 .. N \/ k = N + 1
      BY <1>2, <1>6, <2>1
    <3>2. \A k : k \in 1 .. N \/ k = N + 1 => k \in 1 .. N + 1 /\ k <= N + 1
      BY <1>1
    <3> QED
      BY <3>1, <3>2
  <2>4. Latest(Updates(m, i)) = N + 1
    <3>1. N + 1 \in Nat
      BY <1>1
    <3> QED
      BY <2>2, <2>3, <3>1, LatestFacts
  <2> QED
    BY <1>1, <1>7, <2>2, <2>4
<1>10. ASSUME e \notin PlanEvents \cup Q, Those(l, PlanEvents) # {} PROVE StepWord(m, i) = StepWord(l, i)
  <2>1. Updates(m, i) = Updates(l, i)
    BY <1>3, <1>4, <1>6, <1>10
  <2>2. Updates(l, i) # {} => Latest(Updates(l, i)) \in 1 .. N
    <3>1. Updates(l, i) \in SUBSET (1 .. N)
      BY <1>2, <1>6
    <3> QED
      BY <1>1, <3>1, LatestFacts
  <2> QED
    BY <1>1, <1>3, <1>7, <1>10, <2>1, <2>2 DEF StepWord
<1> QED
  BY <1>8, <1>9, <1>10 DEF m, Q

\* and the steps of the plan.
LEMMA StepsMore ==
  ASSUME NEW l \in Seq(LogEvent), NEW e \in LogEvent, Fits(e), NEW s \in State, StepsSaid(l, s)
  PROVE  StepsSaid(Append(l, e), Apply(s, e))
<1> DEFINE m == Append(l, e)
           a == Apply(s, e).steps
           old == s.steps
<1>1. a = IF e.kind = "plan" /\ e.key # <<>> THEN [i \in 1 .. Len(e.key) |-> StepGiven(e.key[i])]
          ELSE IF e.kind = "step" THEN [i \in 1 .. Len(old) |-> IF i = e.key + 1 THEN e.val ELSE old[i]]
          ELSE old
  BY ApplyParts
<1>2. e \in PlanEvents <=> e.kind = "plan" /\ e.key # <<>>
  BY DEF PlanEvents
<1>3. /\ e \notin PlanEvents => Those(m, PlanEvents) = Those(l, PlanEvents)
      /\ e \notin PlanEvents /\ Those(l, PlanEvents) # {} => LastOf(m, PlanEvents) = LastOf(l, PlanEvents)
      /\ e \in PlanEvents => Those(m, PlanEvents) = Those(l, PlanEvents) \cup {Len(l) + 1} /\ LastOf(m, PlanEvents) = e
  BY ThoseMore
<1>4. old \in Seq(Words) /\ Len(old) \in Nat
  BY LenProperties DEF State
<1>5. /\ Len(old) = IF Those(l, PlanEvents) = {} THEN 0 ELSE Len(LastOf(l, PlanEvents).key)
      /\ \A i \in 1 .. Len(old) : old[i] = StepWord(l, i - 1)
  BY DEF StepsSaid
<1>6. \A i : /\ e \in PlanEvents => Updates(m, i) = {}
             /\ e \in Keyed({"step"}, i) => StepWord(m, i) = e.val
             /\ e \notin PlanEvents \cup Keyed({"step"}, i) /\ Those(l, PlanEvents) # {} =>
                  StepWord(m, i) = StepWord(l, i)
  BY UpdatesMore
<1>7. \A i : e \in Keyed({"step"}, i) <=> e.kind = "step" /\ e.key = i
  BY DEF Keyed
<1> HIDE DEF m, a, old
<1> DEFINE some == Those(l, PlanEvents) # {}
<1>a. \A i \in 1 .. Len(old) : some
  BY <1>4, <1>5
<1>8. CASE e \in PlanEvents
  <2> DEFINE p == e.key
             g == [i \in 1 .. Len(p) |-> StepGiven(p[i])]
  <2>1. p \in Seq(Statuses)
    BY <1>2, <1>8 DEF Fits
  <2>2. a = g /\ Those(m, PlanEvents) # {} /\ LastOf(m, PlanEvents).key = p
    BY <1>1, <1>2, <1>3, <1>8
  <2>3. Len(a) = Len(p) /\ Len(p) \in Nat
    BY <2>1, <2>2, GivenType
  <2>4. \A i \in 1 .. Len(p) : a[i] = StepGiven(p[i])
    BY <2>2
  <2> HIDE DEF p, g
  <2>5. ASSUME NEW i \in 1 .. Len(a) PROVE a[i] = StepWord(m, i - 1)
    <3>1. (i - 1) + 1 = i /\ i \in 1 .. Len(p)
      BY <2>3
    <3>2. StepWord(m, i - 1) = StepGiven(p[(i - 1) + 1])
      BY <1>6, <1>8, <2>2 DEF StepWord
    <3> QED
      BY <2>4, <3>1, <3>2
  <2> QED
    BY <2>2, <2>3, <2>5 DEF StepsSaid, a, m
<1>9. CASE e.kind = "step"
  <2>1. e \notin PlanEvents /\ e.key \in Nat
    BY <1>2, <1>9, TaskStateAssumption DEF Fits
  <2>2. a = [i \in 1 .. Len(old) |-> IF i = e.key + 1 THEN e.val ELSE old[i]]
    BY <1>1, <1>9
  <2>3. Len(a) = Len(old) /\ \A i \in 1 .. Len(old) : a[i] = IF i = e.key + 1 THEN e.val ELSE old[i]
    BY <1>4, <2>2
  <2>4. ASSUME NEW i \in 1 .. Len(old) PROVE a[i] = StepWord(m, i - 1)
    <3>1. CASE i = e.key + 1
      <4>1. i - 1 = e.key
        BY <2>1, <3>1
      <4> QED
        BY <1>6, <1>7, <1>9, <2>3, <3>1, <4>1
    <3>2. CASE i # e.key + 1
      <4>1. i - 1 # e.key
        BY <1>4, <2>1, <3>2
      <4> QED
        BY <1>a, <1>5, <1>6, <1>7, <2>1, <2>3, <3>2, <4>1
    <3> QED
      BY <3>1, <3>2
  <2> QED
    BY <1>3, <1>5, <2>1, <2>3, <2>4 DEF StepsSaid, a, m
<1>10. CASE e \notin PlanEvents /\ e.kind # "step"
  <2>1. a = old
    BY <1>1, <1>2, <1>10
  <2>2. \A i \in 1 .. Len(old) : StepWord(m, i - 1) = StepWord(l, i - 1)
    BY <1>a, <1>6, <1>7, <1>10
  <2> QED
    BY <1>3, <1>5, <1>10, <2>1, <2>2 DEF StepsSaid, a, m
<1> QED
  BY <1>8, <1>9, <1>10

\* What of a todo an event changes.
LEMMA TodoSets ==
  ASSUME NEW l \in Seq(LogEvent), NEW e \in LogEvent, Fits(e), NEW t
  PROVE  /\ e \in Added(t) <=> e.kind = "todo_added" /\ e.key = t
         /\ e \in Touching(t) <=> e.kind \in TodoKinds /\ e.key = t
         /\ e \in Voiced(t) <=> e \in Touching(t) /\ e.val # ""
         /\ e \in Added(t) => e \in Voiced(t) /\ e \in Touching(t)
<1>1. /\ e \in Added(t) <=> e.kind = "todo_added" /\ e.key = t
      /\ e \in Touching(t) <=> e.kind \in TodoKinds /\ e.key = t
  BY DEF Added, Touching, Keyed
<1>2. e \in Voiced(t) <=> e \in Touching(t) /\ e.val # ""
  BY DEF Voiced
<1>3. e.kind = "todo_added" => e.kind \in TodoKinds /\ e.val # ""
  BY DEF TodoKinds, Fits
<1> QED
  BY <1>1, <1>2, <1>3

\* A todo the event is not about keeps what was said of it.
LEMMA OtherTodos ==
  ASSUME NEW l \in Seq(LogEvent), NEW e \in LogEvent, Fits(e), NEW t, e \notin Touching(t)
  PROVE  /\ Those(Append(l, e), Added(t)) = Those(l, Added(t))
         /\ Those(Append(l, e), Voiced(t)) = Those(l, Voiced(t))
         /\ Those(Append(l, e), Touching(t)) = Those(l, Touching(t))
         /\ Those(l, Voiced(t)) # {} => LastOf(Append(l, e), Voiced(t)) = LastOf(l, Voiced(t))
         /\ Those(l, Touching(t)) # {} => LastOf(Append(l, e), Touching(t)) = LastOf(l, Touching(t))
<1>1. e \notin Added(t) /\ e \notin Voiced(t)
  BY TodoSets
<1> QED
  BY <1>1, ThoseMore

\* An event is the last of its sort.
LEMMA IsLast ==
  ASSUME NEW l \in Seq(LogEvent), NEW e \in LogEvent, NEW G, e \in G
  PROVE  Those(Append(l, e), G) # {} /\ LastOf(Append(l, e), G) = e
<1>1. /\ Those(Append(l, e), G) = Those(l, G) \cup {Len(l) + 1}
      /\ LastOf(Append(l, e), G) = e
  BY ThoseMore
<1> QED
  BY <1>1

\* The records of a sequence that keeps its keys in place, each as the longer log says.
LEMMA SameKeys ==
  ASSUME NEW l \in Seq(LogEvent), NEW e \in LogEvent, NEW d \in Seq(Todo), TodosSaid(l, d),
         NEW f \in Seq(Todo), Len(f) = Len(d),
         \A t : e \in Added(t) => HasKey(d, t),
         \A i \in 1 .. Len(d) : /\ f[i].key = d[i].key
                                /\ Those(Append(l, e), Voiced(d[i].key)) # {}
                                /\ Those(Append(l, e), Touching(d[i].key)) # {}
                                /\ f[i].status = LastOf(Append(l, e), Voiced(d[i].key)).val
                                /\ f[i].at = LastOf(Append(l, e), Touching(d[i].key)).at
  PROVE  TodosSaid(Append(l, e), f)
<1> DEFINE m == Append(l, e)
<1>1. Len(d) \in Nat
  BY LenProperties
<1>2. \A t : /\ e \notin Added(t) => Those(m, Added(t)) = Those(l, Added(t))
             /\ Those(l, Added(t)) # {} => Min(Those(m, Added(t))) = Min(Those(l, Added(t)))
             /\ e \in Added(t) => Those(m, Added(t)) = Those(l, Added(t)) \cup {Len(l) + 1}
  BY ThoseMore
<1>3. \A t : Those(l, Added(t)) # {} => Those(m, Added(t)) # {}
  BY <1>2
<1> HIDE DEF m
<1>4. ASSUME NEW t \in TodoIds, Those(m, Added(t)) # {} PROVE HasKey(f, t)
  <2>1. HasKey(d, t)
    BY <1>2, <1>4 DEF TodosSaid
  <2> QED
    BY <2>1 DEF HasKey
<1>5. ASSUME NEW i \in 1 .. Len(f)
      PROVE  /\ Those(m, Added(f[i].key)) # {} /\ Those(m, Voiced(f[i].key)) # {} /\ Those(m, Touching(f[i].key)) # {}
             /\ f[i].status = LastOf(m, Voiced(f[i].key)).val
             /\ f[i].at = LastOf(m, Touching(f[i].key)).at
  <2>1. i \in 1 .. Len(d) /\ f[i].key = d[i].key
    OBVIOUS
  <2>2. Those(m, Added(d[i].key)) # {}
    BY <1>3, <2>1 DEF TodosSaid
  <2> QED
    BY <2>1, <2>2 DEF m
<1>6. ASSUME NEW i \in 1 .. Len(f), NEW j \in 1 .. Len(f), i < j
      PROVE  Min(Those(m, Added(f[i].key))) < Min(Those(m, Added(f[j].key)))
  <2>1. i \in 1 .. Len(d) /\ j \in 1 .. Len(d) /\ f[i].key = d[i].key /\ f[j].key = d[j].key
    OBVIOUS
  <2>2. /\ Those(l, Added(d[i].key)) # {} /\ Those(l, Added(d[j].key)) # {}
        /\ Min(Those(l, Added(d[i].key))) < Min(Those(l, Added(d[j].key)))
    BY <1>6, <2>1 DEF TodosSaid
  <2> QED
    BY <1>2, <2>1, <2>2
<1> QED
  BY <1>4, <1>5, <1>6 DEF TodosSaid, m

\* A todo is updated or done,
LEMMA TouchMore ==
  ASSUME NEW l \in Seq(LogEvent), NEW e \in LogEvent, Fits(e), NEW d \in Seq(Todo), TodosSaid(l, d),
         e.kind \in {"todo_updated", "todo_done"}
  PROVE  TodosSaid(Append(l, e), Touch(d, e))
<1> DEFINE m == Append(l, e)
           f == Touch(d, e)
<1>1. f \in Seq(Todo) /\ Len(d) \in Nat /\ \A i \in 1 .. Len(d) : d[i] \in Todo
  BY TouchType, LenProperties, ElementOfSeq
<1> DEFINE rec(i) == IF d[i].key # e.key THEN d[i]
                     ELSE [d[i] EXCEPT !.status = IF e.val = "" THEN @ ELSE e.val, !.at = e.at]
<1>2. f = [i \in 1 .. Len(d) |-> rec(i)]
  BY DEF Touch
<1>3. e.kind \in TodoKinds /\ \A t : e \notin Added(t)
  <2>1. e.kind \in TodoKinds /\ e.kind # "todo_added"
    BY DEF TodoKinds
  <2> QED
    BY <2>1, TodoSets
<1> HIDE DEF m, f, rec
<1>4. Len(f) = Len(d) /\ \A i \in 1 .. Len(d) : f[i] = rec(i)
  BY <1>1, <1>2
<1>5. ASSUME NEW i \in 1 .. Len(d)
      PROVE  /\ f[i].key = d[i].key
             /\ Those(m, Voiced(d[i].key)) # {} /\ Those(m, Touching(d[i].key)) # {}
             /\ f[i].status = LastOf(m, Voiced(d[i].key)).val
             /\ f[i].at = LastOf(m, Touching(d[i].key)).at
  <2> DEFINE t == d[i].key
  <2>1. /\ Those(l, Voiced(t)) # {} /\ Those(l, Touching(t)) # {}
        /\ d[i].status = LastOf(l, Voiced(t)).val /\ d[i].at = LastOf(l, Touching(t)).at
    BY DEF TodosSaid
  <2>2. d[i] \in Todo
    BY <1>1
  <2>3. CASE t # e.key
    <3>1. f[i] = d[i]
      BY <1>4, <2>3 DEF rec
    <3>2. e \notin Touching(t)
      BY <2>3, TodoSets
    <3> HIDE DEF t
    <3>3. /\ Those(m, Voiced(t)) = Those(l, Voiced(t)) /\ Those(m, Touching(t)) = Those(l, Touching(t))
          /\ LastOf(m, Voiced(t)) = LastOf(l, Voiced(t)) /\ LastOf(m, Touching(t)) = LastOf(l, Touching(t))
      BY <2>1, <3>2, OtherTodos DEF m
    <3> QED
      BY <2>1, <3>1, <3>3 DEF t
  <2>4. CASE t = e.key
    <3>1. f[i] = [d[i] EXCEPT !.status = IF e.val = "" THEN @ ELSE e.val, !.at = e.at]
      BY <1>4, <2>4 DEF rec
    <3>2. f[i].key = t /\ f[i].status = (IF e.val = "" THEN d[i].status ELSE e.val) /\ f[i].at = e.at
      BY <2>2, <3>1 DEF Todo
    <3>3. e \in Touching(t) /\ (e \in Voiced(t) <=> e.val # "")
      BY <1>3, <2>4, TodoSets
    <3> HIDE DEF t
    <3>0. \A G : e \in G => Those(m, G) # {} /\ LastOf(m, G) = e
      BY IsLast DEF m
    <3>4. Those(m, Touching(t)) # {} /\ LastOf(m, Touching(t)) = e
      BY <3>0, <3>3
    <3>5. CASE e.val = ""
      <4>1. Those(m, Voiced(t)) = Those(l, Voiced(t)) /\ LastOf(m, Voiced(t)) = LastOf(l, Voiced(t))
        BY <2>1, <3>3, <3>5, ThoseMore DEF m
      <4> QED
        BY <2>1, <3>2, <3>4, <3>5, <4>1 DEF t
    <3>6. CASE e.val # ""
      <4>1. Those(m, Voiced(t)) # {} /\ LastOf(m, Voiced(t)) = e
        BY <3>0, <3>3, <3>6
      <4> QED
        BY <3>2, <3>4, <3>6, <4>1 DEF t
    <3> QED
      BY <3>5, <3>6
  <2> QED
    BY <2>3, <2>4
<1>6. TodosSaid(m, f)
  BY <1>1, <1>3, <1>4, <1>5, SameKeys DEF m
<1> QED
  BY <1>6 DEF m, f

\* or added, unless it is there already.
LEMMA AddMore ==
  ASSUME NEW l \in Seq(LogEvent), NEW e \in LogEvent, Fits(e), NEW d \in Seq(Todo), TodosSaid(l, d),
         e.kind = "todo_added"
  PROVE  TodosSaid(Append(l, e), Put(d, [key |-> e.key, status |-> e.val, at |-> e.at]))
<1> DEFINE m == Append(l, e)
           r == [key |-> e.key, status |-> e.val, at |-> e.at]
           f == Put(d, r)
           N == Len(l)
<1>1. Len(d) \in Nat /\ (\A i \in 1 .. Len(d) : d[i] \in Todo) /\ N \in Nat
  BY LenProperties, ElementOfSeq
<1>2. r \in Todo /\ r.key = e.key /\ r.status = e.val /\ r.at = e.at
  BY DEF Todo, LogEvent, Fits, TodoKinds
<1> HIDE DEF r
<1>3. f \in Seq(Todo)
  BY <1>2, PutType
<1>4. /\ e \in Added(e.key) /\ e \in Voiced(e.key) /\ e \in Touching(e.key)
      /\ \A t : t # e.key => e \notin Touching(t) /\ e \notin Added(t)
  BY TodoSets
<1>5. /\ Those(m, Voiced(e.key)) # {} /\ Those(m, Touching(e.key)) # {} /\ Those(m, Added(e.key)) # {}
      /\ LastOf(m, Voiced(e.key)) = e /\ LastOf(m, Touching(e.key)) = e
  <2> HIDE DEF r, f
  <2>1. \A G : e \in G => Those(m, G) # {} /\ LastOf(m, G) = e
    BY IsLast
  <2> QED
    BY <1>4, <2>1
<1>6. \A t : t # e.key => /\ Those(m, Added(t)) = Those(l, Added(t))
                          /\ Those(m, Voiced(t)) = Those(l, Voiced(t))
                          /\ Those(m, Touching(t)) = Those(l, Touching(t))
                          /\ Those(l, Voiced(t)) # {} => LastOf(m, Voiced(t)) = LastOf(l, Voiced(t))
                          /\ Those(l, Touching(t)) # {} => LastOf(m, Touching(t)) = LastOf(l, Touching(t))
  BY <1>4, OtherTodos
<1>7. \A t : /\ Those(l, Added(t)) # {} => Min(Those(m, Added(t))) = Min(Those(l, Added(t))) /\ Min(Those(l, Added(t))) \in 1 .. N
             /\ Those(l, Added(t)) = {} /\ e \in Added(t) => Min(Those(m, Added(t))) = N + 1
  BY ThoseMore
<1> HIDE DEF m, f, N
<1>8. ASSUME NEW i \in 1 .. Len(d)
      PROVE  /\ Those(l, Added(d[i].key)) # {}
             /\ Those(l, Voiced(d[i].key)) # {} /\ Those(l, Touching(d[i].key)) # {}
             /\ d[i].status = LastOf(l, Voiced(d[i].key)).val /\ d[i].at = LastOf(l, Touching(d[i].key)).at
  BY DEF TodosSaid
<1>9. CASE HasKey(d, r.key)
  <2>1. f = [i \in 1 .. Len(d) |-> IF d[i].key = r.key THEN r ELSE d[i]]
    BY <1>9 DEF Put, f
  <2>2. Len(f) = Len(d) /\ \A i \in 1 .. Len(d) : f[i] = IF d[i].key = e.key THEN r ELSE d[i]
    BY <1>1, <1>2, <2>1
  <2>3. ASSUME NEW i \in 1 .. Len(d)
        PROVE  /\ f[i].key = d[i].key
               /\ Those(m, Voiced(d[i].key)) # {} /\ Those(m, Touching(d[i].key)) # {}
               /\ f[i].status = LastOf(m, Voiced(d[i].key)).val
               /\ f[i].at = LastOf(m, Touching(d[i].key)).at
    <3>1. CASE d[i].key = e.key
      BY <1>2, <1>5, <2>2, <3>1
    <3>2. CASE d[i].key # e.key
      BY <1>6, <1>8, <2>2, <3>2
    <3> QED
      BY <3>1, <3>2
  <2>4. \A t : e \in Added(t) => HasKey(d, t)
    BY <1>2, <1>4, <1>9
  <2>5. TodosSaid(m, f)
    BY <1>3, <2>2, <2>3, <2>4, SameKeys DEF m
  <2> QED
    BY <2>5 DEF m, f, r
<1>10. CASE ~HasKey(d, r.key)
  <2>1. f = Append(d, r)
    BY <1>10 DEF Put, f
  <2>2. Len(f) = Len(d) + 1 /\ f[Len(d) + 1] = r /\ \A i \in 1 .. Len(d) : f[i] = d[i]
    BY <1>2, <2>1, AppendProperties
  <2>3. \A i \in 1 .. Len(d) : d[i].key # e.key
    BY <1>2, <1>10 DEF HasKey
  <2>4. Those(l, Added(e.key)) = {}
    <3>1. e.key \in TodoIds
      BY DEF Fits, TodoKinds
    <3> QED
      BY <1>2, <1>10, <3>1 DEF TodosSaid
  <2>5. \A i \in 1 .. Len(f) : i \in 1 .. Len(d) \/ i = Len(d) + 1
    BY <1>1, <2>2
  <2>6. ASSUME NEW t \in TodoIds, Those(m, Added(t)) # {} PROVE HasKey(f, t)
    <3>1. CASE t = e.key
      <4>1. Len(d) + 1 \in 1 .. Len(f)
        BY <1>1, <2>2
      <4> QED
        BY <1>2, <2>2, <3>1, <4>1 DEF HasKey
    <3>2. CASE t # e.key
      <4>1. HasKey(d, t)
        BY <1>6, <2>6, <3>2 DEF TodosSaid
      <4>2. \A i \in 1 .. Len(d) : i \in 1 .. Len(f)
        BY <1>1, <2>2
      <4> QED
        BY <2>2, <4>1, <4>2 DEF HasKey
    <3> QED
      BY <3>1, <3>2
  <2>7. ASSUME NEW i \in 1 .. Len(f)
        PROVE  /\ Those(m, Added(f[i].key)) # {} /\ Those(m, Voiced(f[i].key)) # {} /\ Those(m, Touching(f[i].key)) # {}
               /\ f[i].status = LastOf(m, Voiced(f[i].key)).val
               /\ f[i].at = LastOf(m, Touching(f[i].key)).at
    <3>1. CASE i = Len(d) + 1
      BY <1>2, <1>5, <2>2, <3>1
    <3>2. CASE i \in 1 .. Len(d)
      BY <1>6, <1>8, <2>2, <2>3, <3>2
    <3> QED
      BY <2>5, <3>1, <3>2
  <2>8. ASSUME NEW i \in 1 .. Len(f), NEW j \in 1 .. Len(f), i < j
        PROVE  Min(Those(m, Added(f[i].key))) < Min(Those(m, Added(f[j].key)))
    <3>1. i \in 1 .. Len(d)
      BY <1>1, <2>2, <2>8
    <3>2. Min(Those(m, Added(f[i].key))) = Min(Those(l, Added(d[i].key))) /\ Min(Those(l, Added(d[i].key))) \in 1 .. N
      BY <1>7, <1>8, <2>2, <3>1
    <3>3. CASE j = Len(d) + 1
      <4>1. Min(Those(m, Added(f[j].key))) = N + 1
        BY <1>2, <1>4, <1>7, <2>2, <2>4, <3>3
      <4> QED
        BY <1>1, <3>2, <4>1
    <3>4. CASE j \in 1 .. Len(d)
      <4>1. Min(Those(m, Added(f[j].key))) = Min(Those(l, Added(d[j].key)))
        BY <1>7, <1>8, <2>2, <3>4
      <4>2. Min(Those(l, Added(d[i].key))) < Min(Those(l, Added(d[j].key)))
        BY <2>8, <3>1, <3>4 DEF TodosSaid
      <4> QED
        BY <3>2, <4>1, <4>2
    <3> QED
      BY <2>5, <3>3, <3>4
  <2>9. TodosSaid(m, f)
    BY <2>6, <2>7, <2>8 DEF TodosSaid
  <2> QED
    BY <2>9 DEF m, f, r
<1> QED
  BY <1>9, <1>10

\* The todos after one event more.
LEMMA TodosMore ==
  ASSUME NEW l \in Seq(LogEvent), NEW e \in LogEvent, Fits(e), NEW s \in State, TodosSaid(l, s.todos)
  PROVE  TodosSaid(Append(l, e), Apply(s, e).todos)
<1>1. s.todos \in Seq(Todo)
  BY DEF State
<1>2. Apply(s, e).todos = IF e.kind = "todo_added" THEN Put(s.todos, [key |-> e.key, status |-> e.val, at |-> e.at])
                          ELSE IF e.kind \in {"todo_updated", "todo_done"} THEN Touch(s.todos, e)
                          ELSE s.todos
  BY ApplyParts
<1>3. CASE e.kind = "todo_added"
  BY <1>1, <1>2, <1>3, AddMore
<1>4. CASE e.kind \in {"todo_updated", "todo_done"}
  <2>1. TodosSaid(Append(l, e), Touch(s.todos, e))
    BY <1>1, <1>4, TouchMore
  <2> QED
    BY <1>2, <1>4, <2>1
<1>5. CASE e.kind \notin TodoKinds
  <2> DEFINE d == s.todos
             m == Append(l, e)
  <2>1. Apply(s, e).todos = d
    BY <1>2, <1>5 DEF TodoKinds
  <2>2. \A t : e \notin Touching(t) /\ e \notin Added(t)
    BY <1>5, TodoSets DEF TodoKinds
  <2>3. \A i \in 1 .. Len(d) :
          /\ Those(l, Voiced(d[i].key)) # {} /\ Those(l, Touching(d[i].key)) # {}
          /\ d[i].status = LastOf(l, Voiced(d[i].key)).val /\ d[i].at = LastOf(l, Touching(d[i].key)).at
    BY DEF TodosSaid
  <2> HIDE DEF d, m
  <2>4. \A t : /\ Those(m, Voiced(t)) = Those(l, Voiced(t)) /\ Those(m, Touching(t)) = Those(l, Touching(t))
               /\ Those(l, Voiced(t)) # {} => LastOf(m, Voiced(t)) = LastOf(l, Voiced(t))
               /\ Those(l, Touching(t)) # {} => LastOf(m, Touching(t)) = LastOf(l, Touching(t))
    BY <2>2, OtherTodos DEF m
  <2>5. \A i \in 1 .. Len(d) : /\ Those(m, Voiced(d[i].key)) # {}
                               /\ Those(m, Touching(d[i].key)) # {}
                               /\ d[i].status = LastOf(m, Voiced(d[i].key)).val
                               /\ d[i].at = LastOf(m, Touching(d[i].key)).at
    BY <2>3, <2>4
  <2>6. TodosSaid(m, d)
    BY <1>1, <2>2, <2>5, SameKeys DEF m, d
  <2> QED
    BY <2>1, <2>6 DEF m, d
<1> QED
  BY <1>3, <1>4, <1>5 DEF TodoKinds

\* All of the state after one event more.
LEMMA SaidMore ==
  ASSUME NEW l \in Seq(LogEvent), NEW e \in LogEvent, Fits(e), NEW s \in State, SaidBy(l, s)
  PROVE  SaidBy(Append(l, e), Apply(s, e))
BY ModeMore, PlanMore, StepsMore, CompressionsMore, TodosMore DEF SaidBy

\* Nothing is said before the first event.
LEMMA NothingSaid == SaidBy(<<>>, Fresh)
<1>1. <<>> \in Seq(LogEvent) /\ Len(<<>>) = 0
  BY EmptySeq
<1>2. \A G : Those(<<>>, G) = {}
  BY <1>1 DEF Those
<1>3. Cardinality({}) = 0
  BY FS_EmptySet
<1>4. /\ Fresh.mode = "act" /\ Fresh.planned = FALSE /\ Fresh.steps = <<>> /\ Fresh.todos = <<>>
      /\ Fresh.compressions = 0
  BY DEF Fresh
<1>5. ModeSaid(<<>>, Fresh) /\ CompressionsSaid(<<>>, Fresh)
  BY <1>2, <1>3, <1>4 DEF ModeSaid, CompressionsSaid
<1>6. PlanSaid(<<>>, Fresh)
  <2>1. \A i \in 1 .. Len(<<>>) : FALSE
    BY <1>1
  <2> QED
    BY <1>4, <2>1 DEF PlanSaid
<1>7. StepsSaid(<<>>, Fresh)
  <2>1. Those(<<>>, PlanEvents) = {} /\ \A i \in 1 .. Len(<<>>) : FALSE
    BY <1>1, <1>2
  <2> QED
    BY <1>1, <1>4, <2>1 DEF StepsSaid
<1>8. TodosSaid(<<>>, Fresh.todos)
  <2>1. (\A t : Those(<<>>, Added(t)) = {}) /\ \A i \in 1 .. Len(<<>>) : FALSE
    BY <1>1, <1>2
  <2> QED
    BY <1>4, <2>1 DEF TodosSaid
<1> QED
  BY <1>5, <1>6, <1>7, <1>8 DEF SaidBy

\* The log's own words for its events.
LEMMA LogWords ==
  ASSUME LogOK
  PROVE  /\ \A kinds, key : At(kinds, key) = Those(log, Keyed(kinds, key))
         /\ {i \in 1 .. Len(log) : log[i].kind = "mode"} = Those(log, ModeEvents)
         /\ {k \in 1 .. Len(log) : log[k].kind = "plan" /\ log[k].key # <<>>} = Those(log, PlanEvents)
<1>1. \A i \in 1 .. Len(log) : log[i] \in LogEvent
  BY ElementOfSeq DEF LogOK
<1> QED
  BY <1>1 DEF At, Those, Keyed, ModeEvents, PlanEvents

\* The steps of the state are those the log tells of, each as it was told last.
LEMMA StepsTold ==
  ASSUME LogOK, NEW s \in State, StepsSaid(log, s), NEW i \in Nat
  PROVE  /\ Len(StepsGiven) = Len(s.steps)
         /\ StepSaid(i) = IF i < Len(s.steps) THEN s.steps[i + 1] ELSE "none"
<1> DEFINE P == Those(log, PlanEvents)
           p == Latest(P)
           n == Len(s.steps)
<1>0. log \in Seq(LogEvent) /\ n \in Nat
  BY LenProperties DEF LogOK, State
<1>1. /\ Len(log) \in Nat /\ p \in 0 .. Len(log)
      /\ P # {} => p \in P
      /\ P = {} => p = 0
      /\ P \in SUBSET (1 .. Len(log))
      /\ Those(log, Keyed({"step"}, i)) \in SUBSET (1 .. Len(log))
  BY <1>0, ThoseAre
<1>2. n = (IF P = {} THEN 0 ELSE Len(log[p].key)) /\ \A k \in 1 .. n : s.steps[k] = StepWord(log, k - 1)
  BY DEF StepsSaid, LastOf
<1>3. /\ {k \in 1 .. Len(log) : log[k].kind = "plan" /\ log[k].key # <<>>} = P
      /\ At({"step"}, i) = Those(log, Keyed({"step"}, i))
  BY LogWords
<1>4. {k \in At({"step"}, i) : k > p} = Updates(log, i)
  BY <1>3 DEF Updates
<1>5. LastPlan = p
  BY <1>3 DEF LastPlan
<1>6. StepsGiven = (IF P = {} THEN <<>> ELSE log[p].key) /\ Len(<<>>) = 0
  BY <1>1, <1>5 DEF StepsGiven
<1>7. P # {} => StepSaid(i) = IF i >= Len(log[p].key) THEN "none" ELSE StepWord(log, i)
  <2> SUFFICES ASSUME P # {} PROVE StepSaid(i) = IF i >= Len(log[p].key) THEN "none" ELSE StepWord(log, i)
    OBVIOUS
  <2>1. StepsGiven = LastOf(log, PlanEvents).key /\ StepsGiven = log[p].key
    BY <1>6 DEF LastOf
  <2> QED
    BY <1>4, <1>5, <2>1 DEF StepSaid, StepWord
<1> HIDE DEF P, p, n
<1>8. StepSaid(i) = IF i < n THEN s.steps[i + 1] ELSE "none"
  <2>1. CASE P = {}
    <3>0. n = 0 /\ Len(StepsGiven) = 0
      BY <1>2, <1>6, <2>1
    <3>1. StepSaid(i) = "none" /\ ~(i < n)
      BY <3>0 DEF StepSaid
    <3> QED
      BY <3>1
  <2>2. CASE P # {}
    <3>1. p # 0 /\ n = Len(log[p].key)
      BY <1>1, <1>2, <2>2
    <3>2. StepSaid(i) = IF i >= n THEN "none" ELSE StepWord(log, i)
      BY <1>7, <2>2, <3>1
    <3>3. CASE i < n
      <4>1. i + 1 \in 1 .. n /\ (i + 1) - 1 = i /\ ~(i >= n)
        BY <1>0, <3>3
      <4>2. s.steps[i + 1] = StepWord(log, (i + 1) - 1)
        BY <1>2, <4>1
      <4>3. s.steps[i + 1] = StepWord(log, i)
        BY <4>1, <4>2
      <4> QED
        BY <3>2, <3>3, <4>1, <4>3
    <3>4. CASE ~(i < n)
      <4>1. i >= n
        BY <1>0, <3>4
      <4> QED
        BY <3>2, <3>4, <4>1
    <3> QED
      BY <3>3, <3>4
  <2> QED
    BY <2>1, <2>2
<1>9. Len(StepsGiven) = n
  BY <1>2, <1>6
<1> QED
  BY <1>8, <1>9 DEF n

\* A todo that was added has the status and the time of its last events: those before
\* it was added last are none of them.
LEMMA TodoTold ==
  ASSUME LogOK, NEW t, Those(log, Added(t)) # {}
  PROVE  /\ StatusSaid(t) = LastOf(log, Voiced(t)).val
         /\ log[Latest(Touches(t))].at = LastOf(log, Touching(t)).at
<1> DEFINE N == Len(log)
           A == Those(log, Added(t))
           U == Those(log, Touching(t))
           V == Those(log, Voiced(t))
           a == Latest(A)
           T == Touches(t)
           TV == {i \in T : log[i].val # ""}
<1>1. log \in Seq(LogEvent) /\ \A i \in 1 .. Len(log) : Fits(log[i]) /\ log[i] \in LogEvent
  BY ElementOfSeq DEF LogOK
<1>2. /\ N \in Nat /\ A \in SUBSET (1 .. N) /\ U \in SUBSET (1 .. N) /\ V \in SUBSET (1 .. N)
      /\ a \in A /\ a \in 0 .. N
      /\ U # {} => Latest(U) \in U
      /\ V # {} => Latest(V) \in V
      /\ \A i \in U : i <= Latest(U)
      /\ \A i \in V : i <= Latest(V)
  BY <1>1, ThoseAre
<1>3. At({"todo_added"}, t) = A /\ At({"todo_added", "todo_updated", "todo_done"}, t) = U
  <2>1. At({"todo_added"}, t) = A
    BY LogWords DEF Added
  <2>2. {"todo_added", "todo_updated", "todo_done"} = TodoKinds
    BY DEF TodoKinds
  <2>3. At(TodoKinds, t) = U
    BY LogWords DEF Touching
  <2> QED
    BY <2>1, <2>2, <2>3
<1>4. T = {i \in U : i >= a}
  BY <1>3 DEF Touches
<1>5. a \in U /\ a \in V
  <2>1. log[a] \in Added(t) /\ Fits(log[a]) /\ a \in 1 .. N
    BY <1>1, <1>2 DEF Those
  <2>2. log[a] \in Voiced(t) /\ log[a] \in Touching(t)
    BY <2>1 DEF Added, Voiced, Touching, Keyed, Fits, TodoKinds
  <2> QED
    BY <2>1, <2>2 DEF Those
<1>6. V = {i \in U : log[i].val # ""}
  BY DEF Those, Voiced
<1>7. TV = {i \in V : i >= a}
  BY <1>4, <1>6
<1> HIDE DEF A, U, V, a, T, TV
<1>8. Latest(T) = Latest(U)
  <2>1. Latest(U) \in T /\ \A y \in T : y <= Latest(U)
    BY <1>2, <1>4, <1>5
  <2>2. T \in SUBSET (1 .. N)
    BY <1>2, <1>4
  <2> QED
    BY <1>2, <2>1, <2>2, LatestFacts
<1>9. Latest(TV) = Latest(V)
  <2>1. Latest(V) \in TV /\ \A y \in TV : y <= Latest(V)
    BY <1>2, <1>5, <1>7
  <2>2. TV \in SUBSET (1 .. N)
    BY <1>2, <1>7
  <2> QED
    BY <1>2, <2>1, <2>2, LatestFacts
<1>10. log[Latest(Touches(t))].at = LastOf(log, Touching(t)).at
  BY <1>8 DEF T, U, LastOf
<1>11. StatusSaid(t) = LastOf(log, Voiced(t)).val
  BY <1>9 DEF T, TV, V, LastOf, StatusSaid
<1> QED
  BY <1>10, <1>11

\* The todos of the state are those the log tells of.
LEMMA TodosTold ==
  ASSUME LogOK, NEW d \in Seq(Todo), TodosSaid(log, d)
  PROVE  /\ \A i \in 1 .. Len(d) : /\ d[i].key \in TodoIds
                                   /\ d[i].status = StatusSaid(d[i].key)
                                   /\ d[i].at = log[Latest(Touches(d[i].key))].at
         /\ \A i, j \in 1 .. Len(d) : i < j => Min(At({"todo_added"}, d[i].key)) < Min(At({"todo_added"}, d[j].key))
         /\ \A i, j \in 1 .. Len(d) : d[i].key = d[j].key => i = j
         /\ \A t \in OpenSaid : \E i \in 1 .. Len(d) : d[i].key = t /\ d[i].status \notin Closed
         /\ \A i \in 1 .. Len(d) : d[i].status \notin Closed => d[i].key \in OpenSaid
<1>1. Len(d) \in Nat /\ \A i \in 1 .. Len(d) : d[i] \in Todo
  BY LenProperties, ElementOfSeq
<1>2. \A t : At({"todo_added"}, t) = Those(log, Added(t))
  BY LogWords DEF Added
<1>3. \A i \in 1 .. Len(d) : d[i].key \in TodoIds
  BY <1>1 DEF Todo
<1>4. ASSUME NEW i \in 1 .. Len(d)
      PROVE  /\ d[i].status = StatusSaid(d[i].key)
             /\ d[i].at = log[Latest(Touches(d[i].key))].at
             /\ Those(log, Added(d[i].key)) # {}
  <2> DEFINE t == d[i].key
  <2>1. /\ Those(log, Added(t)) # {}
        /\ d[i].status = LastOf(log, Voiced(t)).val /\ d[i].at = LastOf(log, Touching(t)).at
    BY DEF TodosSaid
  <2> HIDE DEF t
  <2>2. /\ StatusSaid(t) = LastOf(log, Voiced(t)).val
        /\ log[Latest(Touches(t))].at = LastOf(log, Touching(t)).at
    BY <2>1, TodoTold
  <2> QED
    BY <2>1, <2>2 DEF t
<1>5. ASSUME NEW i \in 1 .. Len(d), NEW j \in 1 .. Len(d), i < j
      PROVE  /\ Min(At({"todo_added"}, d[i].key)) < Min(At({"todo_added"}, d[j].key))
             /\ d[i].key # d[j].key
  <2> DEFINE x == Min(Those(log, Added(d[i].key)))
             y == Min(Those(log, Added(d[j].key)))
  <2>1. x < y
    BY <1>5 DEF TodosSaid
  <2>2. x \in Nat
    <3> DEFINE T == Those(log, Added(d[i].key))
    <3>1. T \in SUBSET Nat
      BY ThoseAre DEF LogOK
    <3>2. T # {}
      BY <1>4
    <3> HIDE DEF T
    <3>3. Min(T) \in Nat
      BY <3>1, <3>2, FirstFacts
    <3> QED
      BY <3>3 DEF T
  <2>3. d[i].key = d[j].key => x = y
    OBVIOUS
  <2>4. x = Min(At({"todo_added"}, d[i].key)) /\ y = Min(At({"todo_added"}, d[j].key))
    BY <1>2
  <2> HIDE DEF x, y
  <2> QED
    BY <2>1, <2>2, <2>3, <2>4
<1>6. \A i, j \in 1 .. Len(d) : d[i].key = d[j].key => i = j
  <2> SUFFICES ASSUME NEW i \in 1 .. Len(d), NEW j \in 1 .. Len(d), d[i].key = d[j].key, i # j PROVE FALSE
    OBVIOUS
  <2>1. i < j \/ j < i
    BY <1>1
  <2> QED
    BY <1>5, <2>1
<1>7. ASSUME NEW t \in OpenSaid
      PROVE  \E i \in 1 .. Len(d) : d[i].key = t /\ d[i].status \notin Closed
  <2>1. t \in TodoIds /\ Those(log, Added(t)) # {} /\ StatusSaid(t) \notin Closed
    BY <1>2 DEF OpenSaid
  <2>2. PICK i \in 1 .. Len(d) : d[i].key = t
    BY <2>1 DEF TodosSaid, HasKey
  <2> QED
    BY <1>4, <2>1, <2>2
<1>8. ASSUME NEW i \in 1 .. Len(d), d[i].status \notin Closed
      PROVE  d[i].key \in OpenSaid
  BY <1>2, <1>3, <1>4, <1>8 DEF OpenSaid
<1> QED
  BY <1>3, <1>4, <1>5, <1>6, <1>7, <1>8

-----------------------------------------------------------------------------
(* What is said to the model.                                              *)

\* Which notices are spoken of a state.
LEMMA RemindersAre ==
  ASSUME NEW s, NEW now
  PROVE  /\ <<"plan_mode", 0>> \in Reminders(s, now) <=> s.mode = "plan"
         /\ <<"empty_plan", 0>> \in Reminders(s, now) <=> s.mode = "plan" /\ ~s.planned
         /\ \A t : <<"stale_todos", t>> \in Reminders(s, now) <=>
                     \E r \in ToSet(s.todos) : r.key = t /\ r.status \notin Closed /\ now - r.at >= Threshold
         /\ {m \in Reminders(s, now) : m[1] = "compression"}
              = When(s.compressions > 0, {<<"compression", s.compressions>>})
<1> DEFINE A == When(s.mode = "plan", {<<"plan_mode", 0>>})
           B == When(s.mode = "plan" /\ ~s.planned, {<<"empty_plan", 0>>})
           C == When(s.compressions > 0, {<<"compression", s.compressions>>})
           Old == {r \in ToSet(s.todos) : r.status \notin Closed /\ now - r.at >= Threshold}
           D == {<<"stale_todos", r.key>> : r \in Old}
<1>1. Reminders(s, now) = A \cup B \cup C \cup D
  BY DEF Reminders
<1>2. A = IF s.mode = "plan" THEN {<<"plan_mode", 0>>} ELSE {}
  BY DEF When
<1>3. B = IF s.mode = "plan" /\ ~s.planned THEN {<<"empty_plan", 0>>} ELSE {}
  BY DEF When
<1>4. C = IF s.compressions > 0 THEN {<<"compression", s.compressions>>} ELSE {}
  BY DEF When
<1> HIDE DEF Old
<1>5. \A m \in D : \E r \in Old : m = <<"stale_todos", r.key>>
  OBVIOUS
<1>6. \A r \in Old : <<"stale_todos", r.key>> \in D
  OBVIOUS
<1> HIDE DEF A, B, C, D
<1>7. /\ \A m \in A : m[1] = "plan_mode"
      /\ \A m \in B : m[1] = "empty_plan"
      /\ \A m \in C : m[1] = "compression"
      /\ \A m \in D : m[1] = "stale_todos"
  BY <1>2, <1>3, <1>4, <1>5
<1>8. <<"plan_mode", 0>> \in Reminders(s, now) <=> s.mode = "plan"
  <2>1. <<"plan_mode", 0>>[1] = "plan_mode"
    OBVIOUS
  <2>2. <<"plan_mode", 0>> \notin B \cup C \cup D
    BY <1>7, <2>1
  <2> QED
    BY <1>1, <1>2, <2>2
<1>9. <<"empty_plan", 0>> \in Reminders(s, now) <=> s.mode = "plan" /\ ~s.planned
  <2>1. <<"empty_plan", 0>>[1] = "empty_plan"
    OBVIOUS
  <2>2. <<"empty_plan", 0>> \notin A \cup C \cup D
    BY <1>7, <2>1
  <2> QED
    BY <1>1, <1>3, <2>2
<1>10. ASSUME NEW t
       PROVE  <<"stale_todos", t>> \in Reminders(s, now) <=> \E r \in Old : r.key = t
  <2>1. <<"stale_todos", t>>[1] = "stale_todos" /\ <<"stale_todos", t>>[2] = t
    OBVIOUS
  <2>2. <<"stale_todos", t>> \notin A \cup B \cup C
    BY <1>7, <2>1
  <2>3. <<"stale_todos", t>> \in Reminders(s, now) <=> <<"stale_todos", t>> \in D
    BY <1>1, <2>2
  <2>4. <<"stale_todos", t>> \in D => \E r \in Old : r.key = t
    <3> SUFFICES ASSUME <<"stale_todos", t>> \in D PROVE \E r \in Old : r.key = t
      OBVIOUS
    <3>1. PICK r \in Old : <<"stale_todos", t>> = <<"stale_todos", r.key>>
      BY <1>5
    <3> QED
      BY <3>1
  <2> QED
    BY <1>6, <2>3, <2>4
<1>11. {m \in Reminders(s, now) : m[1] = "compression"} = C
  <2>1. \A m \in Reminders(s, now) : m[1] = "compression" <=> m \in C
    BY <1>1, <1>7
  <2>2. C \subseteq Reminders(s, now)
    BY <1>1
  <2> QED
    BY <2>1, <2>2
<1> QED
  BY <1>8, <1>9, <1>10, <1>11 DEF Old, C

\* The open steps and todos.
OpenSteps(s) == {i \in 1 .. Len(s.steps) : s.steps[i] \in {"in_progress", "blocked"}}
OpenTodos(s) == {i \in 1 .. Len(s.todos) : s.todos[i].status \notin Closed}

\* The lines are those of the open steps and then of the open todos, as far as they go.
LEMMA LoopsAre ==
  ASSUME NEW s \in State
  PROVE  LET c == Cardinality(OpenSteps(s))
             n == c + Cardinality(OpenTodos(s))
         IN  /\ c \in Nat /\ n \in Nat
             /\ Len(OpenLoops(s)) = IF n < MaxLoops THEN n ELSE MaxLoops
             /\ \A k \in 1 .. Len(OpenLoops(s)) :
                  \/ k <= c /\ \E i \in OpenSteps(s) : /\ Rank(OpenSteps(s), i) = k
                                                       /\ OpenLoops(s)[k] = <<"step", i - 1, s.steps[i]>>
                  \/ k > c /\ \E i \in OpenTodos(s) :
                                /\ Rank(OpenTodos(s), i) = k - c
                                /\ OpenLoops(s)[k] = <<"todo", s.todos[i].key, s.todos[i].status>>
<1> DEFINE K1 == OpenSteps(s)
           K2 == OpenTodos(s)
           c == Cardinality(K1)
           c2 == Cardinality(K2)
           n == c + c2
           q1 == [i \in 1 .. Len(s.steps) |-> <<"step", i - 1, s.steps[i]>>]
           q2 == [i \in 1 .. Len(s.todos) |-> <<"todo", s.todos[i].key, s.todos[i].status>>]
           M1 == {q1[i] : i \in 1 .. Len(s.steps)}
           M2 == {q2[i] : i \in 1 .. Len(s.todos)}
           M == M1 \cup M2
           p1 == Picked(q1, K1)
           p2 == Picked(q2, K2)
           all == p1 \o p2
           L == IF Len(all) < MaxLoops THEN Len(all) ELSE MaxLoops
           loops == OpenLoops(s)
<1>1. Len(s.steps) \in Nat /\ Len(s.todos) \in Nat
  BY LenProperties DEF State
<1>2. loops = SubSeq(all, 1, L)
  BY DEF OpenLoops, OpenSteps, OpenTodos
<1>3. K1 \in SUBSET (1 .. Len(s.steps)) /\ K2 \in SUBSET (1 .. Len(s.todos))
  BY DEF OpenSteps, OpenTodos
<1>4. /\ \A i \in K1 : q1[i] = <<"step", i - 1, s.steps[i]>>
      /\ \A i \in K2 : q2[i] = <<"todo", s.todos[i].key, s.todos[i].status>>
  BY <1>3
<1>5. q1 \in Seq(M) /\ Len(q1) = Len(s.steps)
  <2>1. q1 \in [1 .. Len(s.steps) -> M]
    <3>1. q1 = [i \in 1 .. Len(s.steps) |-> q1[i]]
      OBVIOUS
    <3>2. \A i \in 1 .. Len(s.steps) : q1[i] \in M1
      OBVIOUS
    <3> HIDE DEF q1, q2, M1, M2
    <3> QED
      BY <3>1, <3>2
  <2> HIDE DEF q1, M
  <2> QED
    BY <1>1, <2>1, SeqDef
<1>6. q2 \in Seq(M) /\ Len(q2) = Len(s.todos)
  <2>1. q2 \in [1 .. Len(s.todos) -> M]
    <3>1. q2 = [i \in 1 .. Len(s.todos) |-> q2[i]]
      OBVIOUS
    <3>2. \A i \in 1 .. Len(s.todos) : q2[i] \in M2
      OBVIOUS
    <3> HIDE DEF q1, q2, M1, M2
    <3> QED
      BY <3>1, <3>2
  <2> HIDE DEF q2, M
  <2> QED
    BY <1>1, <2>1, SeqDef
<1> HIDE DEF K1, K2, q1, q2, M1, M2, M
<1>7. /\ p1 \in Seq(M) /\ Len(p1) = c /\ c \in Nat
      /\ \A i \in K1 : Rank(K1, i) \in 1 .. c /\ p1[Rank(K1, i)] = q1[i]
      /\ \A k \in 1 .. c : \E i \in K1 : Rank(K1, i) = k
  BY <1>3, <1>5, PickedFacts
<1>8. /\ p2 \in Seq(M) /\ Len(p2) = c2 /\ c2 \in Nat
      /\ \A i \in K2 : Rank(K2, i) \in 1 .. c2 /\ p2[Rank(K2, i)] = q2[i]
      /\ \A k \in 1 .. c2 : \E i \in K2 : Rank(K2, i) = k
  BY <1>3, <1>6, PickedFacts
<1> HIDE DEF p1, p2, c, c2
<1>9. /\ all \in Seq(M) /\ Len(all) = c + c2
      /\ \A k \in 1 .. c + c2 : all[k] = IF k <= c THEN p1[k] ELSE p2[k - c]
  <2>1. p1 \in Seq(M) /\ p2 \in Seq(M) /\ Len(p1) = c /\ Len(p2) = c2
    BY <1>7, <1>8
  <2>2. /\ p1 \o p2 \in Seq(M) /\ Len(p1 \o p2) = Len(p1) + Len(p2)
        /\ \A k \in 1 .. Len(p1) + Len(p2) : (p1 \o p2)[k] = IF k <= Len(p1) THEN p1[k] ELSE p2[k - Len(p1)]
    BY <2>1, ConcatProperties
  <2> QED
    BY <2>1, <2>2
<1> HIDE DEF all
<1>10. n \in Nat /\ L \in Nat /\ L <= n /\ L = IF n < MaxLoops THEN n ELSE MaxLoops
  <2>1. MaxLoops \in Nat
    BY TaskStateAssumption
  <2>2. c \in Nat /\ c2 \in Nat /\ Len(all) = c + c2
    BY <1>7, <1>8, <1>9
  <2> QED
    BY <2>1, <2>2
<1> HIDE DEF L
<1>11. Len(loops) = L /\ \A k \in 1 .. L : loops[k] = all[k]
  <2>1. \A k \in 1 .. L : all[k] \in M
    <3>1. \A k \in 1 .. L : k \in 1 .. Len(all)
      BY <1>9, <1>10
    <3> QED
      BY <1>9, <3>1, ElementOfSeq
  <2>2. /\ Len(SubSeq(all, 1, L)) = IF 1 <= L THEN L - 1 + 1 ELSE 0
        /\ \A k \in 1 .. L - 1 + 1 : SubSeq(all, 1, L)[k] = all[1 + k - 1]
    BY <1>10, <2>1, SubSeqProperties
  <2>3. L - 1 + 1 = L /\ \A k \in 1 .. L : 1 + k - 1 = k
    BY <1>10
  <2>4. 1 <= L \/ L = 0
    BY <1>10
  <2> QED
    BY <1>2, <2>2, <2>3, <2>4
<1> HIDE DEF loops, n
<1>12. ASSUME NEW k \in 1 .. L
       PROVE  \/ k <= c /\ \E i \in K1 : Rank(K1, i) = k /\ loops[k] = <<"step", i - 1, s.steps[i]>>
              \/ k > c /\ \E i \in K2 : Rank(K2, i) = k - c /\ loops[k] = <<"todo", s.todos[i].key, s.todos[i].status>>
  <2>1. k \in 1 .. c + c2
    BY <1>10 DEF n
  <2>2. loops[k] = IF k <= c THEN p1[k] ELSE p2[k - c]
    BY <1>9, <1>11, <2>1
  <2>3. CASE k <= c
    <3>1. k \in 1 .. c
      BY <1>7, <2>3
    <3>2. PICK i \in K1 : Rank(K1, i) = k
      BY <1>7, <3>1
    <3>3. loops[k] = q1[i]
      BY <1>7, <2>2, <2>3, <3>2
    <3> QED
      BY <1>4, <2>3, <3>2, <3>3
  <2>4. CASE ~(k <= c)
    <3>1. k - c \in 1 .. c2 /\ k > c
      BY <1>7, <1>8, <2>1, <2>4
    <3>2. PICK i \in K2 : Rank(K2, i) = k - c
      BY <1>8, <3>1
    <3>3. loops[k] = q2[i]
      BY <1>8, <2>2, <2>4, <3>2
    <3> QED
      BY <1>4, <3>1, <3>2, <3>3
  <2> QED
    BY <2>3, <2>4
<1>13. /\ c \in Nat /\ n \in Nat
       /\ Len(loops) = IF n < MaxLoops THEN n ELSE MaxLoops
       /\ \A k \in 1 .. Len(loops) :
            \/ k <= c /\ \E i \in K1 : Rank(K1, i) = k /\ loops[k] = <<"step", i - 1, s.steps[i]>>
            \/ k > c /\ \E i \in K2 : Rank(K2, i) = k - c /\ loops[k] = <<"todo", s.todos[i].key, s.todos[i].status>>
  BY <1>7, <1>10, <1>11, <1>12
<1> QED
  BY <1>13 DEF n, c, c2, K1, K2, loops

\* One line for each: sets that map onto each other have as many elements.
LEMMA SameNumber ==
  ASSUME NEW K, IsFiniteSet(K), NEW f, NEW T, f \in [K -> T],
         \A i, j \in K : f[i] = f[j] => i = j, \A t \in T : \E i \in K : f[i] = t
  PROVE  Cardinality(T) = Cardinality(K)
<1>1. f \in Bijection(K, T)
  BY DEF Bijection, Injection, Surjection, IsInjective
<1>2. ExistsBijection(K, T)
  BY <1>1 DEF ExistsBijection
<1> QED
  BY <1>2, FS_Bijection

\* There are as many lines as the log tells of open steps and open todos.
LEMMA LinesCounted ==
  ASSUME LogOK, NEW s \in State, SaidBy(log, s)
  PROVE  /\ Cardinality(StepsInHand) = Cardinality(OpenSteps(s))
         /\ Cardinality(OpenSaid) = Cardinality(OpenTodos(s))
         /\ \A i \in OpenSteps(s) : s.steps[i] = StepSaid(i - 1)
<1> DEFINE K1 == OpenSteps(s)
           K2 == OpenTodos(s)
           T == StepsInHand
           d == s.todos
           len == Len(s.steps)
<1>1. len \in Nat /\ d \in Seq(Todo) /\ Len(d) \in Nat
  BY LenProperties DEF State
<1>2. \A i \in Nat : Len(StepsGiven) = len /\ StepSaid(i) = IF i < len THEN s.steps[i + 1] ELSE "none"
  BY StepsTold DEF SaidBy
<1>3. K1 = {i \in 1 .. len : s.steps[i] \in {"in_progress", "blocked"}} /\ K2 = {i \in 1 .. Len(d) : d[i].status \notin Closed}
  BY DEF OpenSteps, OpenTodos
<1>4. IsFiniteSet(K1) /\ IsFiniteSet(K2)
  <2>1. K1 \in SUBSET (1 .. len) /\ K2 \in SUBSET (1 .. Len(d))
    BY <1>3
  <2> HIDE DEF K1, K2, len, d
  <2> QED
    BY <1>1, <2>1, Ranks
<1>5. /\ \A i \in 1 .. Len(d) : d[i].key \in TodoIds
      /\ \A i, j \in 1 .. Len(d) : d[i].key = d[j].key => i = j
      /\ \A t \in OpenSaid : \E i \in 1 .. Len(d) : d[i].key = t /\ d[i].status \notin Closed
      /\ \A i \in 1 .. Len(d) : d[i].status \notin Closed => d[i].key \in OpenSaid
  <2>1. TodosSaid(log, d)
    BY DEF SaidBy
  <2> HIDE DEF d
  <2> QED
    BY <1>1, <2>1, TodosTold
<1> HIDE DEF K1, K2, T, d, len
<1>a. T = {i \in 0 .. len - 1 : StepSaid(i) \in {"in_progress", "blocked"}}
  BY <1>2 DEF T, StepsInHand
<1>6. ASSUME NEW i \in K1
      PROVE  i \in 1 .. len /\ i - 1 \in Nat /\ s.steps[i] = StepSaid(i - 1) /\ i - 1 \in T
  <2>1. i \in 1 .. len /\ s.steps[i] \in {"in_progress", "blocked"}
    BY <1>3
  <2>2. i - 1 \in Nat /\ i - 1 < len /\ (i - 1) + 1 = i /\ i - 1 \in 0 .. len - 1
    BY <1>1, <2>1
  <2>3. s.steps[i] = StepSaid(i - 1)
    BY <1>2, <2>2
  <2> QED
    BY <1>a, <2>1, <2>2, <2>3
<1>7. Cardinality(T) = Cardinality(K1)
  <2> DEFINE f == [i \in K1 |-> i - 1]
  <2>1. f \in [K1 -> T]
    BY <1>6
  <2>2. \A i, j \in K1 : f[i] = f[j] => i = j
    <3>1. \A i \in K1 : i \in Nat
      BY <1>1, <1>6
    <3> QED
      BY <3>1
  <2>3. ASSUME NEW t \in T PROVE \E i \in K1 : f[i] = t
    <3>1. t \in 0 .. len - 1 /\ StepSaid(t) \in {"in_progress", "blocked"}
      BY <1>a
    <3>2. t \in Nat /\ t < len /\ t + 1 \in 1 .. len /\ (t + 1) - 1 = t
      BY <1>1, <3>1
    <3>3. s.steps[t + 1] \in {"in_progress", "blocked"}
      BY <1>2, <3>1, <3>2
    <3>4. t + 1 \in K1
      BY <1>3, <3>2, <3>3
    <3> QED
      BY <3>2, <3>4
  <2> HIDE DEF f
  <2> QED
    BY <1>4, <2>1, <2>2, <2>3, SameNumber
<1>8. Cardinality(OpenSaid) = Cardinality(K2)
  <2> DEFINE f == [i \in K2 |-> d[i].key]
  <2>1. f \in [K2 -> OpenSaid]
    BY <1>3, <1>5
  <2>2. \A i, j \in K2 : f[i] = f[j] => i = j
    BY <1>3, <1>5
  <2>3. \A t \in OpenSaid : \E i \in K2 : f[i] = t
    BY <1>3, <1>5
  <2> HIDE DEF f
  <2> QED
    BY <1>4, <2>1, <2>2, <2>3, SameNumber
<1> QED
  BY <1>6, <1>7, <1>8 DEF K1, K2, T

\* The lines are those of the open steps and todos the log tells of, no more than MaxLoops.
LEMMA LoopsTold ==
  ASSUME LogOK, NEW s \in State, SaidBy(log, s)
  PROVE  LET loops == OpenLoops(s)
             lines == Cardinality(StepsInHand) + Cardinality(OpenSaid)
         IN  /\ Len(loops) = IF lines < MaxLoops THEN lines ELSE MaxLoops
             /\ \A k \in 1 .. Len(loops) :
                  /\ loops[k][1] = "todo" => loops[k][2] \in OpenSaid /\ loops[k][3] = StatusSaid(loops[k][2])
                  /\ loops[k][1] = "step" => loops[k][3] = StepSaid(loops[k][2])
                  /\ \A j \in 1 .. k - 1 :
                       /\ loops[j][1] = "todo" => loops[k][1] = "todo"
                       /\ loops[j][1] = loops[k][1] =>
                            IF loops[j][1] = "step" THEN loops[j][2] < loops[k][2]
                            ELSE Min(At({"todo_added"}, loops[j][2])) < Min(At({"todo_added"}, loops[k][2]))
<1> DEFINE loops == OpenLoops(s)
           K1 == OpenSteps(s)
           K2 == OpenTodos(s)
           c == Cardinality(K1)
           d == s.todos
           n == Len(loops)
           StepLine(k) == k <= c /\ \E i \in K1 : Rank(K1, i) = k /\ loops[k] = <<"step", i - 1, s.steps[i]>>
           TodoLine(k) == k > c /\ \E i \in K2 : Rank(K2, i) = k - c /\ loops[k] = <<"todo", d[i].key, d[i].status>>
<1>1. /\ c \in Nat /\ c + Cardinality(K2) \in Nat
      /\ n = IF c + Cardinality(K2) < MaxLoops THEN c + Cardinality(K2) ELSE MaxLoops
      /\ \A k \in 1 .. n : StepLine(k) \/ TodoLine(k)
  BY LoopsAre
<1>2. /\ Cardinality(StepsInHand) = c
      /\ Cardinality(OpenSaid) = Cardinality(K2)
      /\ \A i \in K1 : s.steps[i] = StepSaid(i - 1)
  BY LinesCounted
<1>3. Len(s.steps) \in Nat /\ d \in Seq(Todo) /\ Len(d) \in Nat
  BY LenProperties DEF State
<1>4. /\ \A i \in 1 .. Len(d) : d[i].status = StatusSaid(d[i].key)
      /\ \A i, j \in 1 .. Len(d) : i < j => Min(At({"todo_added"}, d[i].key)) < Min(At({"todo_added"}, d[j].key))
      /\ \A i \in 1 .. Len(d) : d[i].status \notin Closed => d[i].key \in OpenSaid
  <2>1. TodosSaid(log, d)
    BY DEF SaidBy
  <2> HIDE DEF d
  <2> QED
    BY <1>3, <2>1, TodosTold
<1>5. K1 \in SUBSET (1 .. Len(s.steps)) /\ K2 \in SUBSET (1 .. Len(d)) /\ \A i \in K2 : d[i].status \notin Closed
  BY DEF OpenSteps, OpenTodos
<1> HIDE DEF K1, K2, c, d, n, loops
<1>6. /\ \A i, j \in K1 : Rank(K1, i) < Rank(K1, j) => i < j
      /\ \A i, j \in K2 : Rank(K2, i) < Rank(K2, j) => i < j
  <2>1. ASSUME NEW N \in Nat, NEW K \in SUBSET (1 .. N), NEW i \in K, NEW j \in K, Rank(K, i) < Rank(K, j)
        PROVE  i < j
    <3>1. Rank(K, i) \in Nat /\ Rank(K, j) \in Nat /\ (j < i => Rank(K, j) < Rank(K, i))
      BY Ranks
    <3>2. i \in Nat /\ j \in Nat /\ (i = j => Rank(K, i) = Rank(K, j))
      OBVIOUS
    <3>3. ~(j < i)
      BY <2>1, <3>1
    <3>4. i # j
      BY <2>1, <3>1, <3>2
    <3> QED
      BY <3>2, <3>3, <3>4
  <2> QED
    BY <1>3, <1>5, <2>1
<1>7. ASSUME NEW k \in 1 .. n
      PROVE  /\ loops[k][1] \in {"step", "todo"}
             /\ loops[k][1] = "step" => StepLine(k)
             /\ loops[k][1] = "todo" => TodoLine(k)
  <2>1. CASE StepLine(k)
    BY <2>1
  <2>2. CASE TodoLine(k)
    BY <2>2
  <2> QED
    BY <1>1, <2>1, <2>2
<1>8. ASSUME NEW k \in 1 .. n, loops[k][1] = "todo"
      PROVE  loops[k][2] \in OpenSaid /\ loops[k][3] = StatusSaid(loops[k][2])
  <2>1. PICK i \in K2 : loops[k] = <<"todo", d[i].key, d[i].status>>
    BY <1>7, <1>8
  <2>2. loops[k][2] = d[i].key /\ loops[k][3] = d[i].status
    BY <2>1
  <2> QED
    BY <1>4, <1>5, <2>2
<1>9. ASSUME NEW k \in 1 .. n, loops[k][1] = "step"
      PROVE  loops[k][3] = StepSaid(loops[k][2])
  <2>1. PICK i \in K1 : loops[k] = <<"step", i - 1, s.steps[i]>>
    BY <1>7, <1>9
  <2>2. loops[k][2] = i - 1 /\ loops[k][3] = s.steps[i]
    BY <2>1
  <2> QED
    BY <1>2, <2>2
<1>10. ASSUME NEW k \in 1 .. n, NEW j \in 1 .. k - 1
       PROVE  /\ loops[j][1] = "todo" => loops[k][1] = "todo"
              /\ loops[j][1] = loops[k][1] =>
                   IF loops[j][1] = "step" THEN loops[j][2] < loops[k][2]
                   ELSE Min(At({"todo_added"}, loops[j][2])) < Min(At({"todo_added"}, loops[k][2]))
  <2>0. n \in Nat
    BY <1>1, TaskStateAssumption
  <2>1. j \in 1 .. n /\ j < k /\ j \in Nat /\ k \in Nat
    BY <2>0
  <2>2. loops[j][1] = "todo" => loops[k][1] = "todo"
    <3> SUFFICES ASSUME loops[j][1] = "todo", loops[k][1] = "step" PROVE FALSE
      BY <1>7
    <3>1. j > c /\ k <= c
      BY <1>7, <2>1
    <3> QED
      BY <1>1, <2>1, <3>1
  <2>3. ASSUME loops[j][1] = "step", loops[k][1] = "step"
        PROVE  loops[j][2] < loops[k][2]
    <3>1. PICK a \in K1 : Rank(K1, a) = j /\ loops[j] = <<"step", a - 1, s.steps[a]>>
      BY <1>7, <2>1, <2>3
    <3>2. PICK b \in K1 : Rank(K1, b) = k /\ loops[k] = <<"step", b - 1, s.steps[b]>>
      BY <1>7, <2>3
    <3>3. a < b /\ a \in Nat /\ b \in Nat
      BY <1>3, <1>5, <1>6, <2>1, <3>1, <3>2
    <3>4. loops[j][2] = a - 1 /\ loops[k][2] = b - 1
      BY <3>1, <3>2
    <3> QED
      BY <3>3, <3>4
  <2>4. ASSUME loops[j][1] = "todo", loops[k][1] = "todo"
        PROVE  Min(At({"todo_added"}, loops[j][2])) < Min(At({"todo_added"}, loops[k][2]))
    <3>1. PICK a \in K2 : Rank(K2, a) = j - c /\ loops[j] = <<"todo", d[a].key, d[a].status>>
      BY <1>7, <2>1, <2>4
    <3>2. PICK b \in K2 : Rank(K2, b) = k - c /\ loops[k] = <<"todo", d[b].key, d[b].status>>
      BY <1>7, <2>4
    <3>3. Rank(K2, a) < Rank(K2, b)
      BY <1>1, <2>1, <3>1, <3>2
    <3>4. a < b /\ a \in 1 .. Len(d) /\ b \in 1 .. Len(d)
      BY <1>5, <1>6, <3>3
    <3>5. loops[j][2] = d[a].key /\ loops[k][2] = d[b].key
      BY <3>1, <3>2
    <3> QED
      BY <1>4, <3>4, <3>5
  <2>5. /\ loops[j][1] \in {"step", "todo"} /\ loops[k][1] \in {"step", "todo"}
    BY <1>7, <2>1
  <2> QED
    BY <2>2, <2>3, <2>4, <2>5
<1> QED
  BY <1>1, <1>2, <1>8, <1>9, <1>10 DEF loops, n

\* What the state says is what the model is told.
LEMMA SaidIsTold ==
  ASSUME LogOK, Project(log) \in State, SaidBy(log, Project(log))
  PROVE  ToldTruly
<1> DEFINE s == Project(log)
           spoken == Reminders(s, clock)
           modes == {i \in 1 .. Len(log) : log[i].kind = "mode"}
           plan == modes # {} /\ log[Latest(modes)].val = "plan"
           d == s.todos
           folded == At({"compression"}, 0)
<1>1. s \in State /\ SaidBy(log, s)
  OBVIOUS
<1> HIDE DEF s
<1>2. /\ <<"plan_mode", 0>> \in spoken <=> s.mode = "plan"
      /\ <<"empty_plan", 0>> \in spoken <=> s.mode = "plan" /\ ~s.planned
      /\ \A t : <<"stale_todos", t>> \in spoken <=>
                  \E r \in ToSet(d) : r.key = t /\ r.status \notin Closed /\ clock - r.at >= Threshold
      /\ {m \in spoken : m[1] = "compression"} = When(s.compressions > 0, {<<"compression", s.compressions>>})
  BY RemindersAre
<1>3. s.mode = "plan" <=> plan
  <2>1. modes = Those(log, ModeEvents)
    BY LogWords
  <2>2. s.mode = IF modes = {} THEN "act" ELSE log[Latest(modes)].val
    BY <1>1, <2>1 DEF SaidBy, ModeSaid, LastOf
  <2> QED
    BY <2>2
<1>4. s.planned <=> \E i \in 1 .. Len(log) : log[i].kind = "plan" /\ (log[i].key # <<>> \/ log[i].val # "")
  BY <1>1 DEF SaidBy, PlanSaid
<1>5. s.compressions > 0 <=> folded # {}
  <2>1. folded = Those(log, Compressions) /\ log \in Seq(LogEvent)
    BY LogWords DEF Compressions, LogOK
  <2>2. s.compressions = Cardinality(folded)
    BY <1>1, <2>1 DEF SaidBy, CompressionsSaid
  <2>3. IsFiniteSet(folded) /\ Cardinality(folded) \in Nat
    BY <2>1, ThoseAre
  <2>4. Cardinality(folded) = 0 <=> folded = {}
    BY <2>3, FS_EmptySet
  <2> QED
    BY <2>2, <2>3, <2>4
<1>6. s.compressions = Cardinality(folded)
  BY <1>1, LogWords DEF SaidBy, CompressionsSaid, Compressions
<1>7. d \in Seq(Todo) /\ Len(d) \in Nat /\ DOMAIN d = 1 .. Len(d)
  <2>1. d \in Seq(Todo)
    BY <1>1 DEF State
  <2> QED
    BY <2>1, LenProperties
<1>8. /\ \A i \in 1 .. Len(d) : d[i].at = log[Latest(Touches(d[i].key))].at
      /\ \A t \in OpenSaid : \E i \in 1 .. Len(d) : d[i].key = t /\ d[i].status \notin Closed
      /\ \A i \in 1 .. Len(d) : d[i].status \notin Closed => d[i].key \in OpenSaid
  <2>1. TodosSaid(log, d)
    BY <1>1 DEF SaidBy
  <2> HIDE DEF d
  <2> QED
    BY <1>7, <2>1, TodosTold
<1> HIDE DEF spoken, modes, plan, d, folded
<1>9. ASSUME NEW t \in TodoIds
      PROVE  <<"stale_todos", t>> \in spoken <=> t \in OpenSaid /\ clock - log[Latest(Touches(t))].at >= Threshold
  <2>1. <<"stale_todos", t>> \in spoken <=>
          \E i \in 1 .. Len(d) : d[i].key = t /\ d[i].status \notin Closed /\ clock - d[i].at >= Threshold
    <3>1. ToSet(d) = {d[i] : i \in 1 .. Len(d)}
      BY <1>7 DEF ToSet
    <3> QED
      BY <1>2, <3>1
  <2>2. \A i \in 1 .. Len(d) : d[i].key = t => d[i].at = log[Latest(Touches(t))].at
    BY <1>8
  <2> QED
    BY <1>8, <2>1, <2>2
<1>10. {m \in spoken : m[1] = "compression"} = When(folded # {}, {<<"compression", Cardinality(folded)>>})
  BY <1>2, <1>5, <1>6 DEF When
<1>11. ToldTruly <=>
         LET loops == OpenLoops(s)
             lines == Cardinality(StepsInHand) + Cardinality(OpenSaid)
         IN  /\ <<"plan_mode", 0>> \in spoken <=> plan
             /\ <<"empty_plan", 0>> \in spoken <=>
                  plan /\ ~\E i \in 1 .. Len(log) : log[i].kind = "plan" /\ (log[i].key # <<>> \/ log[i].val # "")
             /\ \A t \in TodoIds :
                  <<"stale_todos", t>> \in spoken <=>
                    t \in OpenSaid /\ clock - log[Latest(Touches(t))].at >= Threshold
             /\ {m \in spoken : m[1] = "compression"} = When(folded # {}, {<<"compression", Cardinality(folded)>>})
             /\ Len(loops) = IF lines < MaxLoops THEN lines ELSE MaxLoops
             /\ \A k \in 1 .. Len(loops) :
                  /\ loops[k][1] = "todo" => loops[k][2] \in OpenSaid /\ loops[k][3] = StatusSaid(loops[k][2])
                  /\ loops[k][1] = "step" => loops[k][3] = StepSaid(loops[k][2])
                  /\ \A j \in 1 .. k - 1 :
                       /\ loops[j][1] = "todo" => loops[k][1] = "todo"
                       /\ loops[j][1] = loops[k][1] =>
                            IF loops[j][1] = "step" THEN loops[j][2] < loops[k][2]
                            ELSE Min(At({"todo_added"}, loops[j][2])) < Min(At({"todo_added"}, loops[k][2]))
  BY DEF ToldTruly, spoken, modes, plan, folded, s
<1>12. LET loops == OpenLoops(s)
           lines == Cardinality(StepsInHand) + Cardinality(OpenSaid)
       IN  /\ Len(loops) = IF lines < MaxLoops THEN lines ELSE MaxLoops
           /\ \A k \in 1 .. Len(loops) :
                /\ loops[k][1] = "todo" => loops[k][2] \in OpenSaid /\ loops[k][3] = StatusSaid(loops[k][2])
                /\ loops[k][1] = "step" => loops[k][3] = StepSaid(loops[k][2])
                /\ \A j \in 1 .. k - 1 :
                     /\ loops[j][1] = "todo" => loops[k][1] = "todo"
                     /\ loops[j][1] = loops[k][1] =>
                          IF loops[j][1] = "step" THEN loops[j][2] < loops[k][2]
                          ELSE Min(At({"todo_added"}, loops[j][2])) < Min(At({"todo_added"}, loops[k][2]))
  BY <1>1, LoopsTold
<1> QED
  BY <1>2, <1>3, <1>4, <1>9, <1>10, <1>11, <1>12

\* In every state, what is projected says what the log says.
LEMMA SaidByLog ==
  TaskStateSpec => [](LogOK /\ SnapshotsTyped /\ SaidBy(log, Project(log)))
<1> DEFINE I == LogOK /\ SnapshotsTyped /\ SnapshotResumes /\ SaidBy(log, Project(log))
<1>1. TaskStateInit => I
  <2> SUFFICES ASSUME TaskStateInit PROVE I
    OBVIOUS
  <2>1. LogOK /\ SnapshotsTyped /\ SnapshotResumes
    BY StartsTyped
  <2>2. log = Append(<<>>, Opened) /\ <<>> \in Seq(LogEvent)
    BY OpenedType, OneElement, EmptySeq DEF TaskStateInit, Opened
  <2>3. Project(log) = Apply(Fresh, Opened)
    <3>1. /\ ProjectOnto(Fresh, <<>>) = Fresh
          /\ ProjectOnto(Fresh, Append(<<>>, Opened)) = Apply(ProjectOnto(Fresh, <<>>), Opened)
      BY <2>2, OpenedType, ProjectMore
    <3> QED
      BY <2>2, <3>1 DEF Project
  <2>4. SaidBy(Append(<<>>, Opened), Apply(Fresh, Opened))
    BY <2>2, OpenedType, FreshType, NothingSaid, SaidMore
  <2> QED
    BY <2>1, <2>2, <2>3, <2>4
<1>2. I /\ [TaskStateNext]_taskStateVars => I'
  <2> SUFFICES ASSUME I, [TaskStateNext]_taskStateVars PROVE I'
    OBVIOUS
  <2>1. CASE log' = log /\ clock' \in Nat
    BY <2>1 DEF LogOK, SnapshotsTyped, SnapshotResumes
  <2>2. CASE \E e \in LogEvent : Fits(e) /\ e.seq = Len(log) /\ log' = Append(log, e) /\ clock' = clock
    <3>1. PICK e \in LogEvent : Fits(e) /\ e.seq = Len(log) /\ log' = Append(log, e) /\ clock' = clock
      BY <2>2
    <3>2. LogOK' /\ Project(log') = Apply(Project(log), e) /\ SubSeq(log, 1, Len(log)) = log
      BY <3>1, LogGrows
    <3>3. Project(log) \in State /\ log \in Seq(LogEvent)
      <4>1. Len(log) \in 1 .. Len(log)
        BY LenProperties DEF LogOK
      <4> QED
        BY <3>2, <4>1 DEF SnapshotsTyped, LogOK
    <3>4. SnapshotsTyped' /\ SnapshotResumes'
      BY <3>1, SnapshotsStep
    <3>5. SaidBy(Append(log, e), Apply(Project(log), e))
      BY <3>1, <3>3, SaidMore
    <3> QED
      BY <3>1, <3>2, <3>4, <3>5
  <2>3. CASE UNCHANGED taskStateVars
    BY <2>1, <2>3 DEF taskStateVars, LogOK
  <2>4. CASE log' = log /\ clock' = clock + 1
    BY <2>1, <2>4 DEF LogOK
  <2> QED
    BY <2>2, <2>3, <2>4, TaskStateSteps
<1> QED
  BY <1>1, <1>2, PTL DEF TaskStateSpec

\* Whatever was told, and however long the log: what the reminders say of the mode, the plan, the
\* open steps and todos, the stale ones and the compressions is what the log last said of each
\* (task_state.py:226-423, reminder_bus.py:119-290, session_summary_service.py:227-243).
THEOREM ToldTrulyHolds == TaskStateSpec => []ToldTruly
<1>1. LogOK /\ SnapshotsTyped /\ SaidBy(log, Project(log)) => ToldTruly
  <2> SUFFICES ASSUME LogOK, SnapshotsTyped, SaidBy(log, Project(log)) PROVE ToldTruly
    OBVIOUS
  <2>1. SubSeq(log, 1, Len(log)) = log /\ Len(log) \in 1 .. Len(log)
    BY SubSeqFull, LenProperties DEF LogOK
  <2>2. Project(log) \in State
    BY <2>1 DEF SnapshotsTyped
  <2> QED
    BY <2>2, SaidIsTold
<1> QED
  BY <1>1, SaidByLog, PTL

-----------------------------------------------------------------------------
(* The other provider: what is picked, then the rewriting, message by message. *)

\* What is picked depends on what stands at the places.
LEMMA PickedSame ==
  ASSUME NEW n \in Nat, NEW K \in SUBSET (1 .. n), NEW x, NEW y, \A k \in K : x[k] = y[k]
  PROVE  Picked(x, K) = Picked(y, K)
<1> DEFINE C == Cardinality(K)
           e(i) == CHOOSE k \in K : Rank(K, k) = i
<1>1. \A i \in 1 .. C : \E k \in K : Rank(K, k) = i
  BY Ranks
<1>2. \A i \in 1 .. C : e(i) \in K
  BY <1>1
<1>3. Picked(x, K) = [i \in 1 .. C |-> x[e(i)]] /\ Picked(y, K) = [i \in 1 .. C |-> y[e(i)]]
  BY DEF Picked, Rank
<1> HIDE DEF e, C
<1>4. \A i \in 1 .. C : x[e(i)] = y[e(i)]
  BY <1>2
<1> QED
  BY <1>3, <1>4

\* One place more, behind those picked so far.
LEMMA PickedNext ==
  ASSUME NEW M, NEW ms \in Seq(M), NEW i \in 1 .. Len(ms), NEW K \in SUBSET (1 .. i - 1)
  PROVE  Picked(ms, K \cup {i}) = Append(Picked(ms, K), ms[i])
<1> DEFINE pre == SubSeq(ms, 1, i - 1)
           more == Append(pre, ms[i])
<1>1. Len(ms) \in Nat /\ i \in Nat /\ i - 1 \in Nat /\ i - 1 <= Len(ms) /\ ms[i] \in M
  BY ElementOfSeq, LenProperties
<1>2. pre \in Seq(M) /\ Len(pre) = i - 1 /\ \A k \in 1 .. i - 1 : pre[k] = ms[k]
  <2>1. \A k \in 1 .. i - 1 : ms[k] \in M
    <3>1. \A k \in 1 .. i - 1 : k \in 1 .. Len(ms)
      BY <1>1
    <3> QED
      BY <3>1, ElementOfSeq
  <2>2. /\ pre \in Seq(M) /\ Len(pre) = IF 1 <= i - 1 THEN (i - 1) - 1 + 1 ELSE 0
        /\ \A k \in 1 .. (i - 1) - 1 + 1 : pre[k] = ms[1 + k - 1]
    BY <1>1, <2>1, SubSeqProperties
  <2> HIDE DEF pre
  <2>3. \A k \in 1 .. i - 1 : k \in 1 .. (i - 1) - 1 + 1 /\ 1 + k - 1 = k
    BY <1>1
  <2> QED
    BY <1>1, <2>2, <2>3
<1> HIDE DEF pre
<1>3. /\ Len(more) = i /\ more[i] = ms[i] /\ \A k \in 1 .. i - 1 : more[k] = ms[k]
  BY <1>1, <1>2, AppendProperties
<1>4. Picked(more, K \cup {i}) = Append(Picked(pre, K), ms[i])
  <2>1. K \in SUBSET (1 .. Len(pre)) /\ Len(pre) + 1 = i
    BY <1>1, <1>2
  <2>2. Picked(Append(pre, ms[i]), K \cup {Len(pre) + 1}) = Append(Picked(pre, K), ms[i])
    <3>1. pre \in Seq(M) /\ ms[i] \in M
      BY <1>1, <1>2
    <3>2. \A J \in SUBSET (1 .. Len(pre)) :
            Picked(Append(pre, ms[i]), J \cup {Len(pre) + 1}) = Append(Picked(pre, J), ms[i])
      BY <3>1, PickedMore
    <3> QED
      BY <2>1, <3>2
  <2> QED
    BY <2>1, <2>2
<1>5. Picked(pre, K) = Picked(ms, K)
  BY <1>1, <1>2, PickedSame
<1>6. Picked(more, K \cup {i}) = Picked(ms, K \cup {i})
  <2> HIDE DEF more
  <2>1. K \cup {i} \in SUBSET (1 .. i) /\ \A k \in K \cup {i} : k = i \/ k \in 1 .. i - 1
    BY <1>1
  <2>2. \A k \in K \cup {i} : more[k] = ms[k]
    BY <1>3, <2>1
  <2> QED
    BY <1>1, <2>1, <2>2, PickedSame
<1> QED
  BY <1>4, <1>5, <1>6

Ids == Seq(Slots)

AnyTurn == [role : {"user", "assistant"}, uses : Ids, answers : Ids]

\* The calls the last turn makes.
LastUses(ts) == IF ts = <<>> THEN <<>> ELSE ts[Len(ts)].uses

\* Calls and results stand side by side, but for the last turn's calls.
Coupled(ts) ==
  /\ ts \in Seq(AnyTurn)
  /\ \A k \in 1 .. Len(ts) :
       /\ ts[k].uses # <<>> /\ k < Len(ts) => ts[k + 1].answers = ts[k].uses
       /\ ts[k].answers # <<>> => k > 1 /\ ts[k - 1].uses = ts[k].answers

\* One turn more.
LEMMA TurnMore ==
  ASSUME NEW ts, Coupled(ts), NEW t \in AnyTurn, t.answers = LastUses(ts)
  PROVE  /\ Coupled(Append(ts, t)) /\ LastUses(Append(ts, t)) = t.uses
         /\ Append(ts, t) # <<>> /\ Append(ts, t)[1] = IF ts = <<>> THEN t ELSE ts[1]
         /\ SaidIn(Append(ts, t)) = IF t.role = "assistant" THEN Append(SaidIn(ts), t) ELSE SaidIn(ts)
<1> DEFINE L == Len(ts)
           more == Append(ts, t)
<1>1. ts \in Seq(AnyTurn) /\ L \in Nat
  BY LenProperties DEF Coupled
<1>2. /\ more \in Seq(AnyTurn) /\ more # <<>> /\ Len(more) = L + 1 /\ more[L + 1] = t
      /\ \A k \in 1 .. L : more[k] = ts[k]
  BY <1>1, AppendProperties
<1>3. ts = <<>> <=> L = 0
  BY <1>1, EmptySeq
<1> HIDE DEF more
<1>4. LastUses(more) = t.uses
  BY <1>2 DEF LastUses
<1>5. ASSUME NEW k \in 1 .. Len(more)
      PROVE  /\ more[k].uses # <<>> /\ k < Len(more) => more[k + 1].answers = more[k].uses
             /\ more[k].answers # <<>> => k > 1 /\ more[k - 1].uses = more[k].answers
  <2>1. CASE k = L + 1
    <3>1. more[k] = t /\ ~(k < Len(more)) /\ k - 1 = L
      BY <1>1, <1>2, <2>1
    <3>2. ASSUME t.answers # <<>> PROVE k > 1 /\ more[k - 1].uses = t.answers
      <4>1. ts # <<>> /\ ts[L].uses = t.answers
        BY <3>2 DEF LastUses
      <4>2. L \in 1 .. L /\ L >= 1
        BY <1>1, <1>3, <4>1
      <4> QED
        BY <1>1, <1>2, <2>1, <3>1, <4>1, <4>2
    <3> QED
      BY <3>1, <3>2
  <2>2. CASE k = L /\ k >= 1
    <3>1. k \in 1 .. L /\ more[k] = ts[k] /\ k + 1 = L + 1 /\ more[k + 1] = t /\ ts # <<>>
      BY <1>1, <1>2, <1>3, <2>2
    <3>2. t.answers = ts[k].uses
      BY <2>2, <3>1 DEF LastUses
    <3>3. ts[k].answers # <<>> => k > 1 /\ ts[k - 1].uses = ts[k].answers
      BY <3>1 DEF Coupled
    <3>4. k > 1 => more[k - 1] = ts[k - 1]
      BY <1>1, <1>2, <3>1
    <3> QED
      BY <3>1, <3>2, <3>3, <3>4
  <2>3. CASE k < L
    <3>1. k \in 1 .. L /\ k + 1 \in 1 .. L /\ (k > 1 => k - 1 \in 1 .. L)
      BY <1>1, <1>2, <2>3
    <3>2. more[k] = ts[k] /\ more[k + 1] = ts[k + 1] /\ (k > 1 => more[k - 1] = ts[k - 1])
      BY <1>2, <3>1
    <3>3. /\ ts[k].uses # <<>> => ts[k + 1].answers = ts[k].uses
          /\ ts[k].answers # <<>> => k > 1 /\ ts[k - 1].uses = ts[k].answers
      BY <2>3, <3>1 DEF Coupled
    <3> QED
      BY <3>2, <3>3
  <2> QED
    BY <1>1, <1>2, <2>1, <2>2, <2>3
<1>6. Coupled(more)
  BY <1>2, <1>5 DEF Coupled
<1>7. more[1] = IF ts = <<>> THEN t ELSE ts[1]
  <2>1. L = 0 \/ 1 \in 1 .. L
    BY <1>1
  <2> QED
    BY <1>2, <1>3, <2>1
<1>8. SaidIn(more) = IF t.role = "assistant" THEN Append(SaidIn(ts), t) ELSE SaidIn(ts)
  <2> DEFINE A == {k \in 1 .. L : ts[k].role = "assistant"}
             B == {k \in 1 .. Len(more) : more[k].role = "assistant"}
  <2>1. \A k : k \in 1 .. Len(more) <=> k \in 1 .. L \/ k = L + 1
    BY <1>1, <1>2
  <2>2. A \in SUBSET (1 .. L)
    OBVIOUS
  <2>3. SaidIn(ts) = Picked(ts, A) /\ SaidIn(more) = Picked(more, B)
    BY DEF SaidIn
  <2>4. CASE t.role = "assistant"
    <3>1. B = A \cup {L + 1}
      BY <1>2, <2>1, <2>4
    <3>2. Picked(more, A \cup {L + 1}) = Append(Picked(ts, A), t)
      BY <1>1, <2>2, PickedMore DEF more
    <3> QED
      BY <2>3, <2>4, <3>1, <3>2
  <2>5. CASE t.role # "assistant"
    <3>1. B = A
      BY <1>2, <2>1, <2>5
    <3>2. Picked(more, A) = Picked(ts, A)
      <4>1. \A k \in A : more[k] = ts[k]
        BY <1>2, <2>2
      <4> QED
        BY <1>1, <2>2, <4>1, PickedSame
    <3> QED
      BY <2>3, <2>5, <3>1, <3>2
  <2> QED
    BY <2>4, <2>5
<1> QED
  BY <1>2, <1>4, <1>6, <1>7, <1>8 DEF more

\* g runs through what is written of the first n messages.
WroteTo(ms, n, g) == g = [i \in 0 .. n |-> IF i = 0 THEN Empty ELSE Rewrite(g[i - 1], ms[i])]

\* Such a run begins with Empty, and each next one is the one before with its message written.
LEMMA WroteSteps ==
  ASSUME NEW ms, NEW n \in Nat, NEW g
  PROVE  WroteTo(ms, n, g) <=>
           g = [i \in 0 .. n |-> g[i]] /\ g[0] = Empty /\ \A i \in 1 .. n : g[i] = Rewrite(g[i - 1], ms[i])
<1>1. 0 \in 0 .. n /\ \A i \in 0 .. n : i = 0 \/ i \in 1 .. n
  OBVIOUS
<1>2. ASSUME WroteTo(ms, n, g)
      PROVE  g = [i \in 0 .. n |-> g[i]] /\ g[0] = Empty /\ \A i \in 1 .. n : g[i] = Rewrite(g[i - 1], ms[i])
  <2>1. \A i \in 0 .. n : g[i] = IF i = 0 THEN Empty ELSE Rewrite(g[i - 1], ms[i])
    BY <1>2 DEF WroteTo
  <2>2. \A i \in 1 .. n : i \in 0 .. n /\ i # 0
    OBVIOUS
  <2>3. g = [i \in 0 .. n |-> g[i]]
    BY <1>2 DEF WroteTo
  <2> QED
    BY <1>1, <2>1, <2>2, <2>3
<1>3. ASSUME g = [i \in 0 .. n |-> g[i]], g[0] = Empty, \A i \in 1 .. n : g[i] = Rewrite(g[i - 1], ms[i])
      PROVE  WroteTo(ms, n, g)
  <2>1. \A i \in 0 .. n : g[i] = IF i = 0 THEN Empty ELSE Rewrite(g[i - 1], ms[i])
    BY <1>1, <1>3
  <2> QED
    BY <1>3, <2>1 DEF WroteTo
<1> QED
  BY <1>2, <1>3

\* There is one of any length.
LEMMA WroteExists == ASSUME NEW ms, NEW N \in Nat PROVE \E g : WroteTo(ms, N, g)
<1> DEFINE G == {n \in 0 .. N : \E g : WroteTo(ms, n, g)}
<1>1. 0 \in G
  <2> DEFINE g == [i \in 0 .. 0 |-> Empty]
  <2>1. g = [i \in 0 .. 0 |-> g[i]] /\ g[0] = Empty /\ \A i \in 1 .. 0 : g[i] = Rewrite(g[i - 1], ms[i])
    OBVIOUS
  <2> HIDE DEF g
  <2>2. WroteTo(ms, 0, g)
    BY <2>1, WroteSteps
  <2> QED
    BY <2>2
<1>2. ASSUME NEW n \in 1 .. N, n - 1 \in G PROVE n \in G
  <2>1. PICK g : WroteTo(ms, n - 1, g)
    BY <1>2
  <2> HIDE DEF G
  <2>2. n - 1 \in Nat /\ n \in Nat /\ n \in 0 .. N
    OBVIOUS
  <2>3. g[0] = Empty /\ \A i \in 1 .. n - 1 : g[i] = Rewrite(g[i - 1], ms[i])
    <3>1. \A i \in 0 .. n - 1 : g[i] = IF i = 0 THEN Empty ELSE Rewrite(g[i - 1], ms[i])
      BY <2>1 DEF WroteTo
    <3>2. 0 \in 0 .. n - 1 /\ \A i \in 1 .. n - 1 : i \in 0 .. n - 1 /\ i # 0
      BY <2>2
    <3> QED
      BY <3>1, <3>2
  <2> DEFINE h == [i \in 0 .. n |-> IF i = n THEN Rewrite(g[n - 1], ms[n]) ELSE g[i]]
  <2>4. h = [i \in 0 .. n |-> h[i]] /\ h[n] = Rewrite(g[n - 1], ms[n]) /\ \A i \in 0 .. n - 1 : h[i] = g[i]
    BY <2>2
  <2> HIDE DEF h
  <2>5. ASSUME NEW i \in 1 .. n PROVE h[i] = Rewrite(h[i - 1], ms[i])
    <3>1. i - 1 \in 0 .. n - 1 /\ (i = n \/ (i \in 1 .. n - 1 /\ i \in 0 .. n - 1))
      BY <2>2
    <3>2. h[i - 1] = g[i - 1]
      BY <2>4, <3>1
    <3>3. CASE i = n
      BY <2>4, <3>2, <3>3
    <3>4. CASE i \in 1 .. n - 1 /\ i \in 0 .. n - 1
      BY <2>3, <2>4, <3>2, <3>4
    <3> QED
      BY <3>1, <3>3, <3>4
  <2>6. h[0] = Empty
    <3>1. 0 \in 0 .. n - 1
      BY <2>2
    <3> QED
      BY <2>3, <2>4, <3>1
  <2>7. WroteTo(ms, n, h)
    BY <2>2, <2>4, <2>5, <2>6, WroteSteps
  <2> QED
    BY <2>2, <2>7 DEF G
<1>3. \A n \in 0 .. N : n \in G
  <2> HIDE DEF G
  <2> QED
    BY <1>1, <1>2, UpTo
<1> QED
  BY <1>3

\* The rewritten conversation is the end of a run, flushed.
LEMMA WrittenRun ==
  ASSUME NEW ms, Len(ms) \in Nat
  PROVE  \E g : /\ ToAnthropic(ms) = FlushResults(g[Len(ms)]).turns /\ g[0] = Empty
                /\ \A i \in 1 .. Len(ms) : g[i] = Rewrite(g[i - 1], ms[i])
<1> DEFINE N == Len(ms)
           C == CHOOSE g : WroteTo(ms, N, g)
<1>1. WroteTo(ms, N, C)
  BY WroteExists
<1>2. ToAnthropic(ms) = FlushResults(C[N]).turns
  BY DEF ToAnthropic, WroteTo
<1> HIDE DEF C
<1>3. C[0] = Empty /\ \A i \in 1 .. N : C[i] = Rewrite(C[i - 1], ms[i])
  <2>1. N \in Nat
    OBVIOUS
  <2> HIDE DEF N
  <2> QED
    BY <1>1, <2>1, WroteSteps
<1> QED
  BY <1>2, <1>3


\* What the assistant said is the same in both languages.
SameSaid(made, calls) ==
  /\ made \in Seq(AnyTurn) /\ calls \in Seq(Message) /\ Len(made) = Len(calls)
  /\ \A k \in 1 .. Len(made) : FromAnthropic(made[k]) = calls[k]

\* One turn more, of the assistant.
LEMMA SameMore ==
  ASSUME NEW made, NEW calls, SameSaid(made, calls), NEW t \in AnyTurn, NEW m \in Message, FromAnthropic(t) = m
  PROVE  SameSaid(Append(made, t), Append(calls, m))
<1> DEFINE L == Len(made)
           x == Append(made, t)
           y == Append(calls, m)
<1>1. L \in Nat /\ L = Len(calls) /\ made \in Seq(AnyTurn) /\ calls \in Seq(Message)
  BY LenProperties DEF SameSaid
<1>2. x \in Seq(AnyTurn) /\ Len(x) = L + 1 /\ x[L + 1] = t /\ \A k \in 1 .. L : x[k] = made[k]
  BY <1>1, AppendProperties
<1>3. y \in Seq(Message) /\ Len(y) = L + 1 /\ y[L + 1] = m /\ \A k \in 1 .. L : y[k] = calls[k]
  BY <1>1, AppendProperties
<1> HIDE DEF x, y
<1>4. \A k \in 1 .. Len(x) : k = L + 1 \/ k \in 1 .. L
  BY <1>1, <1>2
<1>5. \A k \in 1 .. L : FromAnthropic(made[k]) = calls[k]
  BY DEF SameSaid
<1>6. \A k \in 1 .. Len(x) : FromAnthropic(x[k]) = y[k]
  BY <1>2, <1>3, <1>4, <1>5
<1> QED
  BY <1>2, <1>3, <1>6 DEF SameSaid, x, y

\* What is held after i messages: nothing, or the results so far of the last response.
Awaits(ms, i, uses, held) ==
  \/ uses = <<>> /\ held = <<>> /\ (i = 0 \/ ms[i].role \notin {"assistant", "tool"})
  \/ \E a \in 1 .. i :
       /\ ms[a].role = "assistant" /\ \A j \in a + 1 .. i : ms[j].role = "tool"
       /\ uses = ms[a].calls /\ i - a <= Len(uses)
       /\ held = [n \in 1 .. i - a |-> n]

\* The calls of a message are ids.
LEMMA CallsTyped ==
  ASSUME NEW ms, Answering(ms, 0)
  PROVE  /\ ms \in Seq(Message) /\ Len(ms) \in Nat
         /\ \A k \in 1 .. Len(ms) : ms[k] \in Message /\ ms[k].calls \in Ids /\ Len(ms[k].calls) \in Nat
<1>1. ms \in Seq(Message) /\ Len(ms) \in Nat /\ \A k \in 1 .. Len(ms) : ms[k] \in Message /\ Len(ms[k].calls) \in Nat
  BY MessageFacts DEF Answering
<1>2. \A m \in Message : m.calls \in Ids
  BY DEF Message, Ids
<1> QED
  BY <1>1, <1>2

\* Behind the last result of a response, and where none is open, all that is called is held.
LEMMA HeldComplete ==
  ASSUME NEW ms, Answering(ms, 0), NEW i \in 0 .. Len(ms), i = Len(ms) \/ ms[i + 1].role # "tool",
         NEW uses, NEW held, Awaits(ms, i, uses, held)
  PROVE  held = uses /\ uses \in Ids
<1>1. Len(ms) \in Nat /\ \A k \in 1 .. Len(ms) : ms[k] \in Message /\ ms[k].calls \in Ids /\ Len(ms[k].calls) \in Nat
  BY CallsTyped
<1>2. CASE uses = <<>> /\ held = <<>>
  BY <1>2, EmptySeq DEF Ids
<1>3. ASSUME NEW a \in 1 .. i, ms[a].role = "assistant", uses = ms[a].calls, i - a <= Len(uses),
             held = [n \in 1 .. i - a |-> n]
      PROVE  held = uses /\ uses \in Ids
  <2>1. a \in 1 .. Len(ms) /\ uses \in Ids /\ Len(uses) \in Nat /\ i \in Nat
    BY <1>1, <1>3
  <2>2. \A n \in 1 .. Len(uses) :
          uses[n] = n /\ a + n <= Len(ms) + 0 /\ (a + n <= Len(ms) => ms[a + n] = Answer(n, n))
    BY <1>3, <2>1 DEF Answering
  <2>3. i - a = Len(uses)
    <3> SUFFICES ASSUME i - a # Len(uses) PROVE FALSE
      OBVIOUS
    <3> DEFINE n == i - a + 1
    <3>1. n \in 1 .. Len(uses) /\ a + n = i + 1
      BY <1>3, <2>1
    <3>2. i + 1 <= Len(ms) /\ ms[i + 1] = Answer(n, n)
      <4> HIDE DEF n
      <4> QED
        BY <1>1, <2>2, <3>1
    <3> HIDE DEF n
    <3> QED
      BY <1>1, <2>1, <3>2, MessageTypes
  <2>4. uses = [n \in 1 .. Len(uses) |-> uses[n]]
    BY <2>1, LenProperties DEF Ids
  <2>5. uses = [n \in 1 .. Len(uses) |-> n]
    BY <2>2, <2>4
  <2> QED
    BY <1>3, <2>1, <2>3, <2>5
<1> QED
  BY <1>2, <1>3 DEF Awaits

\* What is held goes out behind the turn that called for it.
LEMMA FlushedTurns ==
  ASSUME NEW acc, acc = [turns |-> acc.turns, held |-> acc.held], acc.held \in Ids,
         Coupled(acc.turns), acc.held = LastUses(acc.turns)
  PROVE  LET f == FlushResults(acc)
         IN  /\ f = [turns |-> f.turns, held |-> <<>>] /\ Coupled(f.turns) /\ LastUses(f.turns) = <<>>
             /\ SaidIn(f.turns) = SaidIn(acc.turns)
             /\ acc.turns = <<>> => f.turns = <<>>
             /\ acc.turns # <<>> => f.turns # <<>> /\ f.turns[1] = acc.turns[1]
<1> DEFINE turns == acc.turns
           held == acc.held
           t == Turn("user", <<>>, held)
<1>0. acc = [turns |-> turns, held |-> held] /\ acc.turns = turns /\ held \in Ids /\ Coupled(turns) /\ held = LastUses(turns)
  OBVIOUS
<1> HIDE DEF turns, held
<1>1. CASE held = <<>>
  <2>1. FlushResults(acc) = [turns |-> turns, held |-> <<>>]
    BY <1>0, <1>1 DEF FlushResults
  <2> DEFINE f == FlushResults(acc)
  <2>2. f = [turns |-> f.turns, held |-> <<>>] /\ f.turns = turns
    BY <2>1
  <2> HIDE DEF f
  <2>3. /\ f = [turns |-> f.turns, held |-> <<>>] /\ Coupled(f.turns) /\ LastUses(f.turns) = <<>>
        /\ SaidIn(f.turns) = SaidIn(turns)
        /\ turns = <<>> => f.turns = <<>>
        /\ turns # <<>> => f.turns # <<>> /\ f.turns[1] = turns[1]
    BY <1>0, <1>1, <2>2
  <2> QED
    BY <2>3 DEF f, turns
<1>2. CASE held # <<>>
  <2>1. FlushResults(acc) = [turns |-> Append(turns, t), held |-> <<>>]
    BY <1>0, <1>2 DEF FlushResults
  <2>2. t \in AnyTurn /\ t.answers = held /\ t.uses = <<>> /\ t.role = "user"
    BY <1>0, EmptySeq DEF Turn, AnyTurn, Ids
  <2>3. turns # <<>>
    BY <1>0, <1>2 DEF LastUses
  <2> HIDE DEF t
  <2>4. /\ Coupled(Append(turns, t)) /\ LastUses(Append(turns, t)) = <<>>
        /\ Append(turns, t) # <<>> /\ Append(turns, t)[1] = turns[1]
        /\ SaidIn(Append(turns, t)) = SaidIn(turns)
    BY <1>0, <2>2, <2>3, TurnMore
  <2> DEFINE f == FlushResults(acc)
             more == Append(turns, t)
  <2>5. f = [turns |-> f.turns, held |-> <<>>] /\ f.turns = more
    BY <2>1
  <2> HIDE DEF f, more
  <2>6. /\ Coupled(more) /\ LastUses(more) = <<>> /\ more # <<>> /\ more[1] = turns[1]
        /\ SaidIn(more) = SaidIn(turns)
    BY <2>4 DEF more
  <2>7. /\ f = [turns |-> f.turns, held |-> <<>>] /\ Coupled(f.turns) /\ LastUses(f.turns) = <<>>
        /\ SaidIn(f.turns) = SaidIn(turns)
        /\ turns = <<>> => f.turns = <<>>
        /\ turns # <<>> => f.turns # <<>> /\ f.turns[1] = turns[1]
    BY <2>3, <2>5, <2>6
  <2> QED
    BY <2>7 DEF f, turns
<1> QED
  BY <1>1, <1>2

\* What is written of the first i messages.
WrittenTo(ms, i, acc) ==
  /\ acc = [turns |-> acc.turns, held |-> acc.held]
  /\ Coupled(acc.turns) /\ acc.held \in Ids
  /\ Awaits(ms, i, LastUses(acc.turns), acc.held)
  /\ IF i < 2 THEN acc.turns = <<>> ELSE acc.turns # <<>> /\ acc.turns[1].role = "user"
  /\ SameSaid(SaidIn(acc.turns), Picked(ms, {k \in 1 .. i : ms[k].role = "assistant"}))

\* One message more, of the assistant or not.
LEMMA SaidUpTo ==
  ASSUME NEW ms \in Seq(Message), NEW i \in 1 .. Len(ms)
  PROVE  Picked(ms, {k \in 1 .. i : ms[k].role = "assistant"})
           = LET said == Picked(ms, {k \in 1 .. i - 1 : ms[k].role = "assistant"})
             IN  IF ms[i].role = "assistant" THEN Append(said, ms[i]) ELSE said
<1> DEFINE A == {k \in 1 .. i - 1 : ms[k].role = "assistant"}
           B == {k \in 1 .. i : ms[k].role = "assistant"}
<1>1. Len(ms) \in Nat /\ \A k : k \in 1 .. i <=> k \in 1 .. i - 1 \/ k = i
  BY LenProperties
<1>2. A \in SUBSET (1 .. i - 1)
  OBVIOUS
<1>3. ms[i].role = "assistant" => B = A \cup {i}
  BY <1>1
<1>4. ms[i].role # "assistant" => B = A
  BY <1>1
<1> HIDE DEF A, B
<1>5. Picked(ms, A \cup {i}) = Append(Picked(ms, A), ms[i])
  BY <1>2, PickedNext
<1>6. Picked(ms, B) = IF ms[i].role = "assistant" THEN Append(Picked(ms, A), ms[i]) ELSE Picked(ms, A)
  BY <1>3, <1>4, <1>5
<1> QED
  BY <1>6 DEF A, B

\* A result is held.
LEMMA ResultHeld ==
  ASSUME NEW ms, Answering(ms, 0), NEW i \in 1 .. Len(ms), NEW acc, WrittenTo(ms, i - 1, acc), ms[i].role = "tool"
  PROVE  WrittenTo(ms, i, Rewrite(acc, ms[i]))
<1> DEFINE T == acc.turns
           H == acc.held
           new == [turns |-> T, held |-> Append(H, ms[i].id)]
<1>1. /\ ms \in Seq(Message) /\ Len(ms) \in Nat /\ i \in Nat
      /\ \A k \in 1 .. Len(ms) : ms[k] \in Message /\ ms[k].calls \in Ids /\ Len(ms[k].calls) \in Nat
  BY CallsTyped
<1>2. i > 2 /\ i - 1 \in Nat
  <2>1. i # 1 /\ i # 2
    BY DEF Answering
  <2> QED
    BY <1>1, <2>1
<1>3. Rewrite(acc, ms[i]) = new
  <2>1. acc = [turns |-> T, held |-> H]
    BY DEF WrittenTo
  <2> HIDE DEF T, H
  <2>2. Rewrite(acc, ms[i]) = [acc EXCEPT !.held = Append(@, ms[i].id)]
    BY DEF Rewrite
  <2> QED
    BY <2>1, <2>2
<1>4. PICK a \in 1 .. i - 1 : IsAskedAt(ms, a, i) /\ i - a <= Len(ms[a].calls)
  BY DEF Answering
<1>5. a \in 1 .. Len(ms) /\ ms[a].role = "assistant" /\ \A j \in a + 1 .. i - 1 : ms[j].role # "assistant"
  BY <1>1, <1>4 DEF IsAskedAt
<1>6. \A n \in 1 .. Len(ms[a].calls) :
        ms[a].calls[n] = n /\ a + n <= Len(ms) + 0 /\ (a + n <= Len(ms) => ms[a + n] = Answer(n, n))
  BY <1>5 DEF Answering
<1>7. ASSUME NEW j \in a + 1 .. i PROVE ms[j] = Answer(j - a, j - a)
  <2> DEFINE n == j - a
  <2>1. n \in 1 .. Len(ms[a].calls) /\ a + n = j /\ j <= Len(ms)
    <3> DEFINE c == Len(ms[a].calls)
               N == Len(ms)
    <3>1. c \in Nat /\ N \in Nat /\ i \in 1 .. N /\ a \in 1 .. i - 1 /\ i - a <= c /\ j \in a + 1 .. i
      BY <1>1, <1>4, <1>5
    <3> HIDE DEF c, N
    <3>2. j - a \in 1 .. c /\ a + (j - a) = j /\ j <= N
      BY ONLY <3>1
    <3> QED
      BY <3>2 DEF c, N
  <2> HIDE DEF n
  <2>2. ms[j] = Answer(n, n)
    BY <1>6, <2>1
  <2> QED
    BY <2>2 DEF n
<1>8. LastUses(T) = ms[a].calls /\ H = [n \in 1 .. (i - 1) - a |-> n]
  <2>1. \/ ms[i - 1].role \notin {"assistant", "tool"}
        \/ \E b \in 1 .. i - 1 :
             /\ ms[b].role = "assistant" /\ \A j \in b + 1 .. i - 1 : ms[j].role = "tool"
             /\ LastUses(T) = ms[b].calls /\ H = [n \in 1 .. (i - 1) - b |-> n]
    BY <1>2 DEF WrittenTo, Awaits
  <2>2. ms[i - 1].role \in {"assistant", "tool"}
    <3>1. a = i - 1 \/ i - 1 \in a + 1 .. i
      BY <1>1, <1>4
    <3> QED
      BY <1>5, <1>7, <3>1, MessageTypes
  <2>3. PICK b \in 1 .. i - 1 :
          /\ ms[b].role = "assistant" /\ \A j \in b + 1 .. i - 1 : ms[j].role = "tool"
          /\ LastUses(T) = ms[b].calls /\ H = [n \in 1 .. (i - 1) - b |-> n]
    BY <2>1, <2>2
  <2>4. a = b
    <3>1. a = b \/ a \in b + 1 .. i - 1 \/ b \in a + 1 .. i - 1
      BY <1>1, <1>4, <2>3
    <3> QED
      BY <1>5, <2>3, <3>1
  <2> QED
    BY <2>3, <2>4
<1> DEFINE n == i - a
<1>9. n \in Nat /\ n >= 1 /\ (i - 1) - a = n - 1 /\ n \in 1 .. Len(ms[a].calls) /\ Len(ms[a].calls) \in Nat
  <2> DEFINE c == Len(ms[a].calls)
  <2>1. c \in Nat /\ i \in Nat /\ a \in 1 .. i - 1 /\ i - a <= c
    BY <1>1, <1>4, <1>5
  <2> HIDE DEF c
  <2>2. i - a \in 1 .. c /\ i - a >= 1 /\ (i - 1) - a = (i - a) - 1 /\ i - a \in Nat
    BY ONLY <2>1
  <2> QED
    BY <2>1, <2>2 DEF c
<1>10. ms[i].id = n /\ n \in Slots
  <2>1. i \in a + 1 .. i
    BY <1>1, <1>4
  <2>2. ms[i] = Answer(n, n)
    BY <1>7, <2>1
  <2>3. ms[a].calls \in Seq(Slots) /\ ms[a].calls[n] = n
    BY <1>1, <1>5, <1>6, <1>9 DEF Ids
  <2>4. n \in Slots
    <3> HIDE DEF n
    <3> QED
      BY <1>9, <2>3, ElementOfSeq
  <2> HIDE DEF n
  <2> QED
    BY <2>2, <2>4, MessageTypes
<1> HIDE DEF n
<1>11. Append(H, n) = [k \in 1 .. n |-> k] /\ Append(H, n) \in Ids
  <2>1. H \in Seq(Slots) /\ H = [k \in 1 .. n - 1 |-> k]
    BY <1>8, <1>9 DEF WrittenTo, Ids
  <2> HIDE DEF H
  <2>2. Len(H) = n - 1
    BY <1>9, <2>1, LenProperties
  <2> DEFINE x == Append(H, n)
  <2>3. x \in Seq(Slots) /\ Len(x) = n /\ x[n] = n /\ \A k \in 1 .. n - 1 : x[k] = k
    <3>1. x \in Seq(Slots) /\ Len(x) = (n - 1) + 1 /\ x[(n - 1) + 1] = n /\ \A k \in 1 .. n - 1 : x[k] = H[k]
      <4>1. H \in Seq(Slots) /\ n \in Slots
        BY <1>10, <2>1
      <4>2. x \in Seq(Slots) /\ Len(x) = Len(H) + 1 /\ x[Len(H) + 1] = n /\ \A k \in 1 .. Len(H) : x[k] = H[k]
        BY <4>1, AppendProperties
      <4> QED
        BY <2>2, <4>2
    <3> HIDE DEF x
    <3>2. (n - 1) + 1 = n /\ \A k \in 1 .. n - 1 : H[k] = k
      BY <1>9, <2>1
    <3> QED
      BY <3>1, <3>2
  <2> HIDE DEF x
  <2>4. \A k \in 1 .. n : x[k] = k
    <3>1. \A k \in 1 .. n : k = n \/ k \in 1 .. n - 1
      BY <1>9
    <3> QED
      BY <2>3, <3>1
  <2>5. x = [k \in 1 .. n |-> x[k]]
    BY <2>3, LenProperties
  <2> QED
    BY <2>3, <2>4, <2>5 DEF x, Ids
<1>12. Awaits(ms, i, LastUses(T), Append(H, n))
  <2>1. a \in 1 .. i /\ \A j \in a + 1 .. i : ms[j].role = "tool"
    BY <1>1, <1>4, <1>7, MessageTypes
  <2>2. i - a <= Len(LastUses(T)) /\ Append(H, n) = [k \in 1 .. i - a |-> k]
    BY <1>4, <1>8, <1>11 DEF n
  <2> HIDE DEF T, H
  <2> QED
    BY <1>5, <1>8, <2>1, <2>2 DEF Awaits
<1>13. SameSaid(SaidIn(T), Picked(ms, {k \in 1 .. i : ms[k].role = "assistant"}))
  <2>1. Picked(ms, {k \in 1 .. i : ms[k].role = "assistant"}) = Picked(ms, {k \in 1 .. i - 1 : ms[k].role = "assistant"})
    BY <1>1, SaidUpTo
  <2> QED
    BY <2>1 DEF WrittenTo
<1>14. ~(i < 2) /\ ~(i - 1 < 2) /\ Coupled(T) /\ T # <<>> /\ T[1].role = "user"
  <2>1. ~(i < 2) /\ ~(i - 1 < 2)
    BY <1>1, <1>2
  <2> QED
    BY <2>1 DEF WrittenTo
<1>15. new.turns = T /\ new.held = Append(H, n)
  BY <1>10
<1> HIDE DEF T, H
<1>16. new = [turns |-> new.turns, held |-> new.held]
  OBVIOUS
<1> HIDE DEF new
<1> QED
  BY <1>3, <1>11, <1>12, <1>13, <1>14, <1>15, <1>16 DEF WrittenTo

\* A turn of the assistant, back in the language of the loop.
LEMMA BackIs ==
  ASSUME NEW t
  PROVE  FromAnthropic(t) = [role |-> "assistant", calls |-> t.uses, id |-> 0, of |-> 0]
<1> DEFINE u == t.uses
           s == [role |-> "system", calls |-> <<>>, id |-> 0, of |-> 0]
<1>1. FromAnthropic(t) = [s EXCEPT !.role = "assistant", !.calls = u]
  BY DEF FromAnthropic, System
<1> HIDE DEF u
<1>2. FromAnthropic(t) = [role |-> "assistant", calls |-> u, id |-> 0, of |-> 0]
  BY <1>1
<1> QED
  BY <1>1, <1>2 DEF u

\* Any other message finds all results held, and they go out first.
LEMMA OthersWritten ==
  ASSUME NEW ms, Answering(ms, 0), NEW i \in 1 .. Len(ms), NEW acc, WrittenTo(ms, i - 1, acc), ms[i].role # "tool"
  PROVE  WrittenTo(ms, i, Rewrite(acc, ms[i]))
<1> DEFINE T == acc.turns
           H == acc.held
           m == ms[i]
           f == FlushResults(acc)
           F == f.turns
           said == Picked(ms, {k \in 1 .. i - 1 : ms[k].role = "assistant"})
           more == Picked(ms, {k \in 1 .. i : ms[k].role = "assistant"})
<1>1. /\ ms \in Seq(Message) /\ Len(ms) \in Nat /\ i \in Nat /\ i - 1 \in 0 .. Len(ms) /\ (i - 1) + 1 = i
      /\ m \in Message /\ m.calls \in Ids /\ Len(m.calls) \in Nat
      /\ ms[1].role = "system" /\ ms[2].role = "user"
  BY MessageFacts DEF Answering, Message, Ids
<1>2. /\ acc = [turns |-> T, held |-> H] /\ Coupled(T) /\ H \in Ids
      /\ Awaits(ms, i - 1, LastUses(T), H) /\ SameSaid(SaidIn(T), said)
      /\ IF i - 1 < 2 THEN T = <<>> ELSE T # <<>> /\ T[1].role = "user"
  BY DEF WrittenTo
<1>3. more = IF m.role = "assistant" THEN Append(said, m) ELSE said
  BY <1>1, SaidUpTo
<1> HIDE DEF T, H
<1>4. H = LastUses(T)
  <2>1. i - 1 = Len(ms) \/ ms[(i - 1) + 1].role # "tool"
    BY <1>1
  <2> QED
    BY <1>1, <1>2, <2>1, HeldComplete
<1>5. /\ f = [turns |-> F, held |-> <<>>] /\ Coupled(F) /\ LastUses(F) = <<>> /\ SaidIn(F) = SaidIn(T)
      /\ T = <<>> => F = <<>>
      /\ T # <<>> => F # <<>> /\ F[1] = T[1]
  <2>1. acc.turns = T /\ acc.held = H
    BY DEF T, H
  <2> QED
    BY <1>2, <1>4, <2>1, FlushedTurns
<1> HIDE DEF said, more, F, f
<1>6. CASE m.role = "system"
  <2>1. Rewrite(acc, m) = f
    BY <1>6 DEF Rewrite, f
  <2>2. Awaits(ms, i, <<>>, <<>>)
    BY <1>1, <1>6 DEF Awaits
  <2>3. IF i < 2 THEN F = <<>> ELSE F # <<>> /\ F[1].role = "user"
    <3>1. i = 1 \/ i >= 3
      BY <1>1, <1>6
    <3>2. CASE i = 1
      BY <1>2, <1>5, <3>2
    <3>3. CASE i >= 3
      BY <1>1, <1>2, <1>5, <3>3
    <3> QED
      BY <3>1, <3>2, <3>3
  <2>4. SameSaid(SaidIn(F), more)
    BY <1>2, <1>3, <1>5, <1>6
  <2>5. f.turns = F /\ f.held = <<>> /\ <<>> \in Ids
    BY <1>5, EmptySeq DEF Ids
  <2>6. WrittenTo(ms, i, f)
    BY <1>5, <2>2, <2>3, <2>4, <2>5 DEF WrittenTo, more
  <2> QED
    BY <2>1, <2>6 DEF m
<1>7. ASSUME NEW t \in AnyTurn, t.answers = <<>>, t.role = m.role, m.role \in {"user", "assistant"},
             t.uses = IF m.role = "assistant" THEN m.calls ELSE <<>>,
             Rewrite(acc, m) = [f EXCEPT !.turns = Append(@, t)]
      PROVE  WrittenTo(ms, i, Rewrite(acc, m))
  <2> DEFINE new == Append(F, t)
  <2>1. Rewrite(acc, m) = [turns |-> new, held |-> <<>>]
    BY <1>5, <1>7
  <2>2. /\ Coupled(new) /\ LastUses(new) = t.uses /\ new # <<>>
        /\ new[1] = IF F = <<>> THEN t ELSE F[1]
        /\ SaidIn(new) = IF t.role = "assistant" THEN Append(SaidIn(F), t) ELSE SaidIn(F)
    <3>1. Coupled(F) /\ t \in AnyTurn /\ t.answers = LastUses(F)
      BY <1>5, <1>7
    <3> QED
      BY ONLY <3>1, TurnMore
  <2> HIDE DEF new
  <2>3. Awaits(ms, i, t.uses, <<>>)
    <3>1. CASE m.role = "user"
      BY <1>1, <1>7, <3>1 DEF Awaits
    <3>2. CASE m.role = "assistant"
      <4>1. i \in 1 .. i /\ i - i = 0 /\ i - i <= Len(m.calls) /\ i + 1 .. i = {}
        BY <1>1
      <4>2. <<>> = [n \in 1 .. i - i |-> n]
        BY <4>1
      <4> QED
        BY <1>7, <3>2, <4>1, <4>2 DEF Awaits, m
    <3> QED
      BY <1>7, <3>1, <3>2
  <2>4. ~(i < 2) /\ new[1].role = "user"
    <3>1. i >= 2
      BY <1>1, <1>7
    <3>2. CASE F = <<>>
      <4>1. i = 2
        <5>1. i - 1 < 2
          BY <1>2, <1>5, <3>2
        <5> QED
          BY <1>1, <3>1, <5>1
      <4> QED
        BY <1>1, <1>7, <2>2, <3>1, <3>2, <4>1
    <3>3. CASE F # <<>>
      <4>1. T # <<>>
        BY <1>5, <3>3
      <4>2. T[1].role = "user"
        BY <1>2, <4>1
      <4> QED
        BY <1>1, <1>5, <2>2, <3>1, <3>3, <4>1, <4>2
    <3> QED
      BY <3>2, <3>3
  <2>5. SameSaid(SaidIn(new), more)
    <3>1. SameSaid(SaidIn(F), said)
      BY <1>2, <1>5
    <3>2. CASE m.role = "assistant"
      <4>1. m.id = 0 /\ m.of = 0 /\ m = [role |-> m.role, calls |-> m.calls, id |-> m.id, of |-> m.of]
        <5> HIDE DEF m
        <5>1. m.id = 0 /\ m.of = 0
          BY <1>1, <3>2 DEF Message
        <5>2. m \in [role : {"system", "user", "assistant", "tool"}, calls : Seq(Slots), id : {0} \cup Slots,
                     of : {0} \cup Slots]
          BY <1>1 DEF Message
        <5>3. m = [role |-> m.role, calls |-> m.calls, id |-> m.id, of |-> m.of]
          BY <5>2
        <5> QED
          BY <5>1, <5>3
      <4>2. FromAnthropic(t) = [role |-> "assistant", calls |-> t.uses, id |-> 0, of |-> 0]
        BY BackIs
      <4>3. FromAnthropic(t) = m
        BY <1>7, <3>2, <4>1, <4>2
      <4> QED
        BY <1>1, <1>3, <1>7, <2>2, <3>1, <3>2, <4>3, SameMore
    <3>3. CASE m.role = "user"
      BY <1>3, <1>7, <2>2, <3>1, <3>3
    <3> QED
      BY <1>7, <3>2, <3>3
  <2> DEFINE r == [turns |-> new, held |-> <<>>]
  <2>6. r.turns = new /\ r.held = <<>> /\ <<>> \in Ids /\ r = [turns |-> r.turns, held |-> r.held]
    BY EmptySeq DEF Ids
  <2> HIDE DEF r
  <2>7. WrittenTo(ms, i, r)
    BY <2>2, <2>3, <2>4, <2>5, <2>6 DEF WrittenTo, more
  <2> QED
    BY <2>1, <2>7 DEF r
<1>8. CASE m.role = "user"
  <2> DEFINE t == Turn("user", <<>>, <<>>)
  <2>1. t \in AnyTurn /\ t.answers = <<>> /\ t.role = "user" /\ t.uses = <<>>
    BY EmptySeq DEF Turn, AnyTurn, Ids
  <2>2. Rewrite(acc, m) = [f EXCEPT !.turns = Append(@, t)]
    BY <1>8 DEF Rewrite, f
  <2> HIDE DEF t, m
  <2> QED
    BY <1>7, <1>8, <2>1, <2>2 DEF m
<1>9. CASE m.role = "assistant"
  <2> DEFINE t == Turn("assistant", m.calls, <<>>)
  <2>1. t \in AnyTurn /\ t.answers = <<>> /\ t.role = "assistant" /\ t.uses = m.calls
    BY <1>1, EmptySeq DEF Turn, AnyTurn, Ids
  <2>2. Rewrite(acc, m) = [f EXCEPT !.turns = Append(@, t)]
    BY <1>9 DEF Rewrite, f
  <2> HIDE DEF t, m
  <2> QED
    BY <1>7, <1>9, <2>1, <2>2 DEF m
<1>10. m.role \in {"system", "user", "assistant"}
  BY <1>1 DEF Message
<1> QED
  BY <1>6, <1>8, <1>9, <1>10

\* Before the first message nothing is written.
LEMMA NothingWritten == ASSUME NEW ms PROVE WrittenTo(ms, 0, Empty)
<1>1. Empty.turns = <<>> /\ Empty.held = <<>> /\ Empty = [turns |-> Empty.turns, held |-> Empty.held]
  BY DEF Empty
<1>2. Coupled(<<>>) /\ LastUses(<<>>) = <<>> /\ <<>> \in Ids
  BY EmptySeq DEF Coupled, LastUses, Ids
<1>3. SaidIn(<<>>) = <<>>
  <2>1. {k \in 1 .. Len(<<>>) : (<<>>)[k].role = "assistant"} = {}
    OBVIOUS
  <2>2. <<>> \in Seq(AnyTurn)
    BY EmptySeq
  <2>3. Picked(<<>>, {}) = <<>>
    <3>1. \E x : x \in AnyTurn
      <4>1. Turn("user", <<>>, <<>>) \in AnyTurn
        BY EmptySeq DEF Turn, AnyTurn, Ids
      <4> QED
        BY <4>1
    <3>2. {} \in SUBSET (1 .. Len(<<>>))
      OBVIOUS
    <3> QED
      BY <2>2, <3>1, <3>2, PickedMore
  <2> QED
    BY <2>1, <2>3 DEF SaidIn
<1>4. Picked(ms, {k \in 1 .. 0 : ms[k].role = "assistant"}) = <<>>
  <2>1. {k \in 1 .. 0 : ms[k].role = "assistant"} = {}
    OBVIOUS
  <2>2. Picked(ms, {}) = Picked(<<>>, {})
    <3>1. 0 \in Nat /\ {} \in SUBSET (1 .. 0) /\ \A k \in {} : ms[k] = (<<>>)[k]
      OBVIOUS
    <3> QED
      BY <3>1, PickedSame
  <2>3. Picked(<<>>, {}) = <<>>
    <3>1. System \in Message /\ {} \in SUBSET (1 .. Len(<<>>)) /\ <<>> \in Seq(Message)
      BY MessageTypes, EmptySeq
    <3> QED
      BY <3>1, PickedMore
  <2> QED
    BY <2>1, <2>2, <2>3
<1>5. SameSaid(<<>>, <<>>)
  BY EmptySeq DEF SameSaid
<1>6. Awaits(ms, 0, <<>>, <<>>)
  BY DEF Awaits
<1> QED
  BY <1>1, <1>2, <1>3, <1>4, <1>5, <1>6 DEF WrittenTo

\* A conversation in which every call is answered is one the fallback takes.
LEMMA AnsweredIsAccepted == ASSUME NEW ms, Answering(ms, 0) PROVE Accepted(ms)
<1> DEFINE N == Len(ms)
           ts == ToAnthropic(ms)
<1>1. N \in Nat /\ N >= 2
  BY MessageFacts DEF Answering
<1>2. PICK g : /\ ts = FlushResults(g[N]).turns /\ g[0] = Empty
               /\ \A i \in 1 .. N : g[i] = Rewrite(g[i - 1], ms[i])
  BY <1>1, WrittenRun
<1> HIDE DEF ts
<1> DEFINE G == {n \in 0 .. N : WrittenTo(ms, n, g[n])}
<1>3. 0 \in G
  BY <1>1, <1>2, NothingWritten
<1>4. ASSUME NEW n \in 1 .. N, n - 1 \in G PROVE n \in G
  <2>1. WrittenTo(ms, n - 1, g[n - 1]) /\ n \in 1 .. Len(ms) /\ n \in 0 .. N /\ g[n] = Rewrite(g[n - 1], ms[n])
    BY <1>1, <1>2, <1>4
  <2> HIDE DEF N
  <2>2. WrittenTo(ms, n, g[n])
    BY <2>1, ResultHeld, OthersWritten
  <2> QED
    BY <2>1, <2>2
<1>5. WrittenTo(ms, N, g[N])
  <2>1. \A n \in 0 .. N : n \in G
    <3> HIDE DEF G, N
    <3> QED
      BY <1>1, <1>3, <1>4, UpTo
  <2>2. N \in 0 .. N
    BY <1>1
  <2> QED
    BY <2>1, <2>2
<1> DEFINE acc == g[N]
           T == acc.turns
           H == acc.held
<1>6. /\ acc = [turns |-> T, held |-> H] /\ Coupled(T) /\ H \in Ids /\ Awaits(ms, N, LastUses(T), H)
      /\ T # <<>> /\ T[1].role = "user"
      /\ SameSaid(SaidIn(T), SaidIn(ms))
  <2> HIDE DEF acc
  <2>1. ~(N < 2)
    BY <1>1
  <2> QED
    BY <1>5, <2>1 DEF WrittenTo, SaidIn, acc
<1> HIDE DEF T, H, acc
<1>7. H = LastUses(T)
  <2>1. N \in 0 .. Len(ms)
    BY <1>1
  <2> QED
    BY <1>6, <2>1, HeldComplete
<1>8. /\ Coupled(ts) /\ LastUses(ts) = <<>> /\ SaidIn(ts) = SaidIn(T) /\ ts # <<>> /\ ts[1] = T[1]
  <2>1. acc.turns = T /\ acc.held = H /\ ts = FlushResults(acc).turns
    BY <1>2 DEF acc, T, H
  <2> QED
    BY <1>6, <1>7, <2>1, FlushedTurns
<1>9. ASSUME NEW k \in 1 .. Len(ts)
      PROVE  /\ ts[k].uses # <<>> => k < Len(ts) /\ ts[k + 1].answers = ts[k].uses
             /\ ts[k].answers # <<>> => k > 1 /\ ts[k - 1].uses = ts[k].answers
  <2>1. Len(ts) \in Nat /\ ts[Len(ts)].uses = <<>>
    BY <1>8, LenProperties DEF Coupled, LastUses
  <2>2. k = Len(ts) \/ k < Len(ts)
    BY <2>1
  <2> QED
    BY <1>8, <1>9, <2>1, <2>2 DEF Coupled
<1>10. /\ Len(SaidIn(ts)) = Len(SaidIn(ms))
       /\ \A k \in 1 .. Len(SaidIn(ts)) : FromAnthropic(SaidIn(ts)[k]) = SaidIn(ms)[k]
  BY <1>6, <1>8 DEF SameSaid
<1> HIDE DEF N
<1> QED
  BY <1>6, <1>8, <1>9, <1>10 DEF Accepted, ts

\* A reminder behind the messages keeps them answered.
LEMMA RemindedKeeps == ASSUME NEW ms, Answering(ms, 0) PROVE Answering(Append(ms, User), 0)
<1> DEFINE new == Append(ms, User)
           L == Len(ms)
<1>1. ms \in Seq(Message) /\ L \in Nat /\ \A k \in 1 .. L : Len(ms[k].calls) \in Nat
  BY MessageFacts DEF Answering
<1>2. /\ new \in Seq(Message) /\ Len(new) = L + 1 /\ new[L + 1] = User
      /\ \A k \in 1 .. L : new[k] = ms[k]
  BY <1>1, MessageTypes, AppendProperties
<1> HIDE DEF new
<1>3. Len(new) >= 2 /\ new[1].role = "system" /\ new[2].role = "user"
  <2>1. L >= 2 /\ ms[1].role = "system" /\ ms[2].role = "user"
    BY DEF Answering
  <2>2. 1 \in 1 .. L /\ 2 \in 1 .. L /\ L + 1 >= 2
    BY <1>1, <2>1
  <2> QED
    BY <1>2, <2>1, <2>2
<1>4. ASSUME NEW k \in 1 .. Len(new), new[k].role \in {"assistant", "tool"}
      PROVE  k \in 1 .. L /\ new[k] = ms[k] /\ k \in Nat /\ Len(ms[k].calls) \in Nat
  <2>1. k # L + 1
    BY <1>2, <1>4, MessageTypes
  <2>2. k \in 1 .. L
    BY <1>1, <1>2, <2>1
  <2> QED
    BY <1>1, <1>2, <2>2
<1>5. ASSUME NEW k \in 1 .. Len(new), new[k].role = "assistant", NEW n \in 1 .. Len(new[k].calls)
      PROVE  new[k].calls[n] = n /\ k + n <= Len(new) + 0 /\ (k + n <= Len(new) => new[k + n] = Answer(n, n))
  <2>1. k \in 1 .. L /\ new[k] = ms[k] /\ Len(ms[k].calls) \in Nat
    BY <1>4, <1>5
  <2>2. ms[k].calls[n] = n /\ k + n <= L + 0 /\ (k + n <= L => ms[k + n] = Answer(n, n))
    BY <1>5, <2>1 DEF Answering
  <2>3. n \in Nat /\ k + n \in 1 .. L /\ k + n <= L + 1
    BY <1>1, <1>5, <2>1, <2>2
  <2> QED
    BY <1>1, <1>2, <2>1, <2>2, <2>3
<1>6. ASSUME NEW k \in 1 .. Len(new), new[k].role = "tool"
      PROVE  \E a \in 1 .. k - 1 : IsAskedAt(new, a, k) /\ k - a <= Len(new[a].calls)
  <2>1. k \in 1 .. L /\ new[k] = ms[k]
    BY <1>4, <1>6
  <2>2. PICK a \in 1 .. k - 1 : IsAskedAt(ms, a, k) /\ k - a <= Len(ms[a].calls)
    BY <1>6, <2>1 DEF Answering
  <2>3. a \in 1 .. L /\ \A j \in a + 1 .. k - 1 : j \in 1 .. L
    BY <1>1, <2>1
  <2>4. IsAskedAt(new, a, k)
    BY <1>2, <2>2, <2>3 DEF IsAskedAt
  <2> QED
    BY <1>2, <2>2, <2>3, <2>4
<1>7. Answering(new, 0)
  BY <1>2, <1>3, <1>5, <1>6 DEF Answering
<1> QED
  BY <1>7 DEF new

\* The fallback provider can take over any request of any session, reminded or not, whatever
\* was prefetched, skipped or compressed before it: user first, calls and results side by side, and
\* every call of the history as it was made (FallbackAccepts; bedrock_transport.py:153-165).
THEOREM FallbackHolds == UniqueIds => (Spec => []FallbackAccepts)
<1> SUFFICES ASSUME UniqueIds PROVE Spec => []FallbackAccepts
  OBVIOUS
<1>1. Transcript => FallbackAccepts
  <2> SUFFICES ASSUME Transcript, pc = "asking" PROVE \A ms \in Requests : Accepted(ms)
    BY DEF FallbackAccepts
  <2>1. Answering(messages, 0)
    BY DEF Transcript
  <2>2. Answering(Append(messages, User), 0)
    BY <2>1, RemindedKeeps
  <2>3. \A ms \in Requests : Answering(ms, 0)
    BY <2>1, <2>2 DEF Requests
  <2> QED
    BY <2>3, AnsweredIsAccepted
<1>2. Init => Named /\ Transcript
  BY InitTranscript
<1>3. Inv /\ Inv' /\ Named /\ Transcript /\ [Next]_vars => Named' /\ Transcript'
  BY StepTranscript
<1> QED
  BY <1>1, <1>2, <1>3, InvHolds, PTL DEF Spec

===============================================================================
