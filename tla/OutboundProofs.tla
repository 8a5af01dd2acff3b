---------------------------- MODULE OutboundProofs ----------------------------
(***************************************************************************)
(* Proofs about what a session of the tech lead sets going outside itself. *)
(* Outbound and the two modules it is composed of: a caller of the MCP     *)
(* server is given its own answer, and a provider is left only for cause;  *)
(* for any number of providers, retries, requests and turns.  Dispatch:    *)
(* claims are those of the lease table, a task is completed by its owner,  *)
(* and a dispatch that has returned has given back.  Delivery: pull        *)
(* requests are of checked branches, and verdicts are earned.              *)
(***************************************************************************)
EXTENDS Outbound, Dispatch, Delivery, SequenceTheorems, WellFoundedInduction, TLAPS

Stages == {"none", "writing", "waiting", "expired"} \cup Settled

\* The number a request goes by on the wire is that of its call, on both sides of the pipe.
McpInv ==
  /\ nextId \in 1 .. MaxId + 1
  /\ pending \subseteq Ids
  /\ owed \subseteq [id : Ids, call : Ids]
  /\ \A o \in owed : o.id = o.call
  /\ flight \in [id : 0 .. MaxId, call : 0 .. MaxId, stage : Stages, got : 0 .. MaxId]
  /\ flight.id = flight.call
  /\ flight.stage # "none" => flight.id \in Ids
  /\ AnswerIsOwn

Try == [provider : 1 .. Count, attempt : 0 .. MaxRetries, failure : Failures]

Spent(r) == ~Transient(r.failure) \/ r.attempt = MaxRetries

\* After the failed attempt r, it is attempt a against provider p.
Follows(r, p, a) ==
  IF Spent(r) THEN p = r.provider + 1 /\ a = 0 ELSE p = r.provider /\ a = r.attempt + 1

\* What is about to be tried follows from the last failure, and so did every attempt before.
PoolInv ==
  /\ at \in {"rest", "sending", "sleeping", "answered", "exhausted"}
  /\ provider \in 1 .. Count /\ attempt \in 0 .. MaxRetries
  /\ trail \in Seq(Try)
  /\ \A k \in 1 .. Len(trail) - 1 : Follows(trail[k], trail[k + 1].provider, trail[k + 1].attempt)
  /\ at = "sending" /\ Len(trail) > 0 => Follows(trail[Len(trail)], provider, attempt)
  /\ at = "sleeping" =>
       /\ Len(trail) > 0 /\ ~Spent(trail[Len(trail)])
       /\ trail[Len(trail)].provider = provider /\ trail[Len(trail)].attempt = attempt
  /\ at = "exhausted" =>
       /\ Len(trail) > 0 /\ Spent(trail[Len(trail)])
       /\ trail[Len(trail)].provider = Count

-----------------------------------------------------------------------------
(* The connection.                                                         *)

\* A step that leaves the numbers alone, but may forget what was asked.
LEMMA Quiet ==
  ASSUME McpInv, nextId' = nextId, pending' \subseteq pending, owed' \subseteq owed,
         \/ flight' = flight
         \/ flight' = Idle
         \/ /\ flight.stage # "none"
            /\ \E s \in Stages \ {"result", "error"} : flight' = [flight EXCEPT !.stage = s]
  PROVE  McpInv'
<1>1. CASE flight' = flight
  BY <1>1 DEF McpInv, AnswerIsOwn
<1>2. CASE flight' = Idle
  BY <1>2, MaxIdAssumption DEF McpInv, AnswerIsOwn, Idle, Stages
<1>3. ASSUME NEW s \in Stages \ {"result", "error"}, flight.stage # "none", flight' = [flight EXCEPT !.stage = s]
      PROVE  McpInv'
  BY <1>3 DEF McpInv, AnswerIsOwn
<1> QED
  BY <1>1, <1>2, <1>3

LEMMA SendKeeps == McpInv /\ Send => McpInv'
<1> SUFFICES ASSUME McpInv, Send PROVE McpInv'
  OBVIOUS
<1>1. nextId \in Ids /\ nextId' \in 1 .. MaxId + 1
  BY MaxIdAssumption DEF McpInv, Send, Ids
<1>2. flight' = [id |-> nextId, call |-> nextId, stage |-> "writing", got |-> 0]
  BY DEF Send, Fresh
<1>3. flight' \in [id : 0 .. MaxId, call : 0 .. MaxId, stage : Stages, got : 0 .. MaxId]
  BY <1>1, <1>2, MaxIdAssumption DEF Ids, Stages
<1>4. pending' \subseteq Ids
  BY <1>1 DEF McpInv, Send, Fresh
<1> QED
  BY <1>1, <1>2, <1>3, <1>4 DEF McpInv, Send, AnswerIsOwn

\* What is handed to the server carries the number of its call.
LEMMA WrittenKeeps == McpInv /\ Written => McpInv'
<1> SUFFICES ASSUME McpInv, Written PROVE McpInv'
  OBVIOUS
<1> DEFINE o == [id |-> flight.id, call |-> flight.call]
<1>1. flight.id \in Ids /\ o \in [id : Ids, call : Ids] /\ o.id = o.call
  BY DEF McpInv, Written
<1>2. owed' \subseteq owed \cup {o}
  BY DEF Written
<1>3. flight' = [flight EXCEPT !.stage = "waiting"] /\ nextId' = nextId /\ pending' = pending
  BY DEF Written
<1> HIDE DEF o
<1> QED
  BY <1>1, <1>2, <1>3 DEF McpInv, AnswerIsOwn, Stages

\* An answer reaches the request of its own number, if any.
LEMMA DeliverKeeps == ASSUME McpInv, NEW o, Deliver(o) PROVE McpInv'
<1>1. nextId' = nextId /\ pending' \subseteq pending /\ owed' \subseteq owed /\ o \in owed
  BY DEF Deliver
<1>2. CASE UNCHANGED flight
  BY <1>1, <1>2, Quiet
<1>3. CASE ~UNCHANGED flight
  <2>1. PICK s \in {"result", "error"} : flight' = [flight EXCEPT !.stage = s, !.got = o.call]
    BY <1>3 DEF Deliver
  <2>2. flight.id = o.id
    BY <1>3 DEF Deliver
  <2>3. o.call = flight.call /\ o.call \in 0 .. MaxId /\ flight.id \in Ids
    BY <1>1, <2>2 DEF McpInv, Ids
  <2> QED
    BY <1>1, <2>1, <2>3 DEF McpInv, AnswerIsOwn, Stages, Settled
<1> QED
  BY <1>2, <1>3

LEMMA ServerSideKeeps == McpInv /\ ServerSide => McpInv'
<1> SUFFICES ASSUME McpInv, ServerSide PROVE McpInv'
  OBVIOUS
<1>1. ASSUME NEW o \in owed, Deliver(o) PROVE McpInv'
  BY <1>1, DeliverKeeps
<1>2. ASSUME NEW o \in owed, DeliverLong(o) PROVE McpInv'
  BY <1>2, Quiet DEF DeliverLong
<1>3. CASE ServerExits
  BY <1>3, Quiet DEF ServerExits
<1>4. CASE ReadEof
  BY <1>4, Quiet DEF ReadEof, Stages, Settled
<1> QED
  BY <1>1, <1>2, <1>3, <1>4 DEF ServerSide

-----------------------------------------------------------------------------
(* The pool.                                                               *)

\* An attempt that fails: the trail grows by what was being tried.
LEMMA FailKeeps == ASSUME PoolInv, NEW f \in Failures, Fail(f) PROVE PoolInv'
<1> DEFINE r == [provider |-> provider, attempt |-> attempt, failure |-> f]
           n == Len(trail)
<1>1. r \in Try
  BY DEF PoolInv, Try
<1>2. trail' = Append(trail, r) /\ at = "sending"
  BY DEF Fail
<1>3. /\ trail' \in Seq(Try) /\ n \in Nat /\ Len(trail') = n + 1
      /\ \A k \in 1 .. n : trail'[k] = trail[k]
      /\ trail'[n + 1] = r
  BY <1>1, <1>2, AppendProperties DEF PoolInv
<1>4. Spent(r) <=> GivesUp(f)
  BY PoolAssumption DEF PoolInv, Spent, GivesUp
<1>5. ASSUME NEW k \in 1 .. Len(trail') - 1
      PROVE  Follows(trail'[k], trail'[k + 1].provider, trail'[k + 1].attempt)
  <2>1. CASE k < n
    <3>1. trail'[k] = trail[k] /\ trail'[k + 1] = trail[k + 1] /\ k \in 1 .. n - 1
      BY <1>3, <2>1
    <3> QED
      BY <3>1 DEF PoolInv
  <2>2. CASE k = n
    <3>1. trail'[k] = trail[n] /\ trail'[k + 1].provider = provider /\ trail'[k + 1].attempt = attempt
      BY <1>3, <2>2
    <3>2. n > 0
      BY <1>3, <2>2
    <3> QED
      BY <1>2, <3>1, <3>2 DEF PoolInv
  <2> QED
    BY <1>3, <2>1, <2>2
<1>6. Len(trail') > 0 /\ trail'[Len(trail')] = r
  BY <1>3
<1>7. r.provider = provider /\ r.attempt = attempt
  OBVIOUS
<1> HIDE DEF r, n
<1>8. CASE ~GivesUp(f) /\ at' = "sleeping" /\ UNCHANGED <<provider, attempt>>
  BY <1>3, <1>4, <1>5, <1>6, <1>7, <1>8 DEF PoolInv
<1>9. CASE GivesUp(f) /\ provider < Count /\ provider' = provider + 1 /\ attempt' = 0 /\ UNCHANGED at
  <2>1. provider' \in 1 .. Count /\ attempt' \in 0 .. MaxRetries
    BY <1>9, PoolAssumption DEF PoolInv
  <2>2. Follows(r, provider', attempt')
    BY <1>4, <1>7, <1>9 DEF Follows
  <2> QED
    BY <1>2, <1>3, <1>5, <1>6, <1>9, <2>1, <2>2 DEF PoolInv
<1>10. CASE GivesUp(f) /\ provider = Count /\ at' = "exhausted" /\ UNCHANGED <<provider, attempt>>
  BY <1>3, <1>4, <1>5, <1>6, <1>7, <1>10 DEF PoolInv
<1> QED
  BY <1>8, <1>9, <1>10 DEF Fail

\* The pause is over: the next attempt follows from the failure before it.
LEMMA WakeKeeps == PoolInv /\ Wake => PoolInv'
<1> SUFFICES ASSUME PoolInv, Wake PROVE PoolInv'
  OBVIOUS
<1> DEFINE r == trail[Len(trail)]
<1>1. ~Spent(r) /\ r.provider = provider /\ r.attempt = attempt
  BY DEF PoolInv, Wake
<1>2. attempt < MaxRetries
  BY <1>1, PoolAssumption DEF PoolInv, Spent
<1>3. Follows(r, provider, attempt + 1)
  BY <1>1 DEF Follows
<1> HIDE DEF r
<1>4. attempt + 1 \in 0 .. MaxRetries
  BY <1>2, PoolAssumption DEF PoolInv
<1> QED
  BY <1>3, <1>4 DEF PoolInv, Wake, r

\* A request begins, ends, or is answered.
LEMMA RestKeeps == PoolInv /\ (Request \/ Done) => PoolInv'
<1> SUFFICES ASSUME PoolInv, Request \/ Done PROVE PoolInv'
  OBVIOUS
<1>1. trail' = <<>> /\ trail' \in Seq(Try) /\ Len(trail') = 0
  BY EmptySeq DEF Request, Done
<1>2. provider' \in 1 .. Count /\ attempt' \in 0 .. MaxRetries /\ at' \in {"rest", "sending"}
  BY PoolAssumption DEF Request, Done
<1> QED
  BY <1>1, <1>2 DEF PoolInv

LEMMA AttemptKeeps == PoolInv /\ (Attempt \/ Wake) => PoolInv'
<1> SUFFICES ASSUME PoolInv, Attempt \/ Wake PROVE PoolInv'
  OBVIOUS
<1>1. CASE Answered
  BY <1>1 DEF PoolInv, Answered
<1>2. ASSUME NEW f \in Failures, Fail(f) PROVE PoolInv'
  BY <1>2, FailKeeps
<1> QED
  BY <1>1, <1>2, WakeKeeps DEF Attempt

-----------------------------------------------------------------------------
(* The session.                                                            *)

LEMMA McpInitInv == Init => McpInv
BY MaxIdAssumption DEF Init, McpInit, McpInv, AnswerIsOwn, Idle, Stages

LEMMA PoolInitInv == Init => PoolInv
<1> SUFFICES ASSUME Init PROVE PoolInv
  OBVIOUS
<1>1. trail \in Seq(Try) /\ Len(trail) = 0
  BY EmptySeq DEF Init, PoolInit
<1> QED
  BY <1>1, PoolAssumption DEF Init, PoolInit, PoolInv

LEMMA PoolStutters == PoolInv /\ UNCHANGED <<at, provider, attempt, trail>> => PoolInv'
BY DEF PoolInv

LEMMA McpStutters == McpInv /\ UNCHANGED mcpVars => McpInv'
BY Quiet DEF mcpVars

\* stop forgets what waits; no request is in flight then, or the one that was has been refused.
LEMMA StoppedKeeps == McpInv /\ Stopped => McpInv'
BY Quiet DEF Stopped

LEMMA McpKept == McpInv /\ [Next]_vars => McpInv'
<1> SUFFICES ASSUME McpInv, [Next]_vars PROVE McpInv'
  OBVIOUS
<1>1. CASE Connect
  BY <1>1, Quiet DEF Connect, Start
<1>2. CASE SendRequest
  BY <1>2, SendKeeps DEF SendRequest
<1>3. CASE Initialized \/ Listed \/ CallEnds
  BY <1>3, Quiet DEF Initialized, Listed, CallEnds
<1>4. CASE Rejected
  BY <1>4, StoppedKeeps DEF Rejected
<1>5. CASE StopAtTop \/ LastWord
  BY <1>5, StoppedKeeps, McpStutters DEF StopAtTop, LastWord, Finish
<1>6. CASE StartFails \/ ConnectFails \/ Ask \/ Wait \/ UseTool \/ Cut
  BY <1>6, McpStutters DEF StartFails, ConnectFails, Ask, Wait, UseTool, Cut
<1>7. CASE TimeIsUp
  BY <1>7, Quiet DEF TimeIsUp, Expire, Stages
<1>8. CASE Pipe
  <2>1. CASE Written
    BY <2>1, WrittenKeeps
  <2>2. CASE WriteFails \/ Forget
    BY <2>2, Quiet DEF WriteFails, Forget, Stages, Settled
  <2> QED
    BY <1>8, <2>1, <2>2 DEF Pipe
<1>9. CASE Outside
  BY <1>9, ServerSideKeeps DEF Outside
<1>10. CASE UNCHANGED vars
  BY <1>10, McpStutters DEF vars
<1> QED
  BY <1>1, <1>2, <1>3, <1>4, <1>5, <1>6, <1>7, <1>8, <1>9, <1>10 DEF Next, Step

LEMMA PoolKept == PoolInv /\ [Next]_vars => PoolInv'
<1> SUFFICES ASSUME PoolInv, [Next]_vars PROVE PoolInv'
  OBVIOUS
<1>1. CASE Ask \/ LastWord \/ UseTool
  BY <1>1, RestKeeps DEF Ask, LastWord, UseTool
<1>2. CASE Wait
  BY <1>2, AttemptKeeps DEF Wait
<1>3. CASE Cut
  <2>1. "cut" \in Failures
    BY DEF Failures
  <2>2. CASE Fail("cut")
    BY <2>1, <2>2, FailKeeps
  <2>3. CASE UNCHANGED poolVars
    BY <2>3, PoolStutters DEF poolVars
  <2> QED
    BY <1>3, <2>2, <2>3 DEF Cut
<1>4. CASE \/ StartFails \/ Connect \/ SendRequest \/ Initialized \/ Rejected \/ ConnectFails
           \/ Listed \/ StopAtTop \/ CallEnds \/ TimeIsUp \/ Pipe \/ Outside
  BY <1>4, PoolStutters DEF StartFails, Connect, SendRequest, Initialized, Rejected, ConnectFails,
     Listed, StopAtTop, CallEnds, TimeIsUp, Pipe, Outside, poolVars
<1>5. CASE UNCHANGED vars
  BY <1>5, PoolStutters DEF vars, poolVars
<1> QED
  BY <1>1, <1>2, <1>3, <1>4, <1>5 DEF Next, Step

-----------------------------------------------------------------------------
(* The theorems.                                                           *)

\* Whatever is late, lost or out of order, and however often the caller has given up before,
\* the answer a caller of the MCP server is given is the one to its own request
\* (mcp_tool_adapter.py:148-151, 300-345).
THEOREM AnswersAreOwn == Spec => []AnswerIsOwn
<1>1. McpInv => AnswerIsOwn
  BY DEF McpInv
<1> QED
  BY <1>1, McpInitInv, McpKept, PTL DEF Spec

\* With any number of providers and retries, cut or not, the attempts of a request are
\* counted without a gap and a provider is left when and only when it is spent
\* (llm_provider_pool.py:467-511).
THEOREM ProvidersAreLeftForCause == Spec => []LeftForCause
<1>1. PoolInv => LeftForCause
  BY DEF PoolInv, LeftForCause, Follows, Spent
<1> QED
  BY <1>1, PoolInitInv, PoolKept, PTL DEF Spec

-----------------------------------------------------------------------------
(* Dispatches.                                                             *)

Lease == {None} \cup [trace_id : Dispatches, expires_at : Nat]
Claim == {None} \cup [task : Tasks, expires_at : Nat]

\* What a dispatch has of each kind, where it is.
DispatchOK(d) ==
  /\ place[d] \in {"ran", "ended", "released", "returned", "over"} => outcome[d] \in Outcomes
  /\ place[d] \in {"ended", "released", "returned", "over"} => node[d] \in {outcome[d], None}
  /\ place[d] \in {"released", "returned", "over"} => tree[d] = None
  /\ place[d] \in {"returned", "over"} => held[d] = None
  /\ artifact[d] \in {outcome[d], None}
  /\ place[d] = "over" => result[d] \in {outcome[d], "cut"}
  /\ place[d] \in {"new", "claimed", "acquired", "running"} => artifact[d] = None

DispatchInv ==
  /\ DispatchTypeOK
  /\ lease \in [Tasks -> Lease] /\ held \in [Dispatches -> Claim]
  /\ \A d \in Dispatches : DispatchOK(d)
  /\ \A d, e \in Dispatches : place[d] # "new" /\ e < d => place[e] # "new"

Completes ==
  /\ done \subseteq done'
  /\ \A t \in done' \ done : \E d \in Dispatches :
       outcome[d] = "ok" /\ lease[t] # None /\ lease[t].trace_id = d /\ lease'[t] = None

LEMMA FirstNumber == ASSUME NEW T \in SUBSET Nat, T # {} PROVE \E x \in T : \A y \in T : x <= y
<1>1. PICK x \in T : \A y \in T : ~(<<y, x>> \in OpToRel(<, Nat))
  BY NatLessThanWellFounded, WFMin
<1>2. \A y \in T : ~(y < x)
  BY <1>1 DEF OpToRel
<1> QED
  BY <1>2

\* Of the calls before the next one there is a last.
LEMMA LastCall ==
  ASSUME DispatchInv, NEW d \in Dispatches, NextUp(d), Calls # {}
  PROVE  Max(Calls) \in Calls
<1> DEFINE Left == {d - e : e \in Calls}
<1>1. \A e \in Calls : e \in Nat /\ e < d
  <2> SUFFICES ASSUME NEW e \in Calls PROVE e \in Nat /\ e < d
    OBVIOUS
  <2>1. e \in Dispatches /\ place[e] # "new" /\ e \in Nat /\ d \in Nat
    BY DispatchAssumption DEF Calls, Started
  <2>2. ~(d < e) /\ e # d
    BY <2>1 DEF DispatchInv, NextUp
  <2> QED
    BY <2>1, <2>2
<1>2. d \in Nat
  BY DispatchAssumption
<1>3. Left \in SUBSET Nat /\ Left # {}
  BY <1>1, <1>2
<1>4. PICK x \in Left : \A y \in Left : x <= y
  <2> HIDE DEF Left
  <2> QED
    BY <1>3, FirstNumber
<1>5. PICK m \in Calls : x = d - m
  OBVIOUS
<1>6. \A e \in Calls : m >= e
  BY <1>1, <1>2, <1>4, <1>5
<1> QED
  BY <1>6 DEF Max

LEMMA InitDispatch == DispatchInit => DispatchInv
BY DispatchAssumption
   DEF DispatchInit, DispatchInv, DispatchTypeOK, DispatchOK, Loans!Init, Lease, Claim, PCs, Alive, Busy

\* A step in which one dispatch moves and the others keep what they have.
LEMMA OneMoves ==
  ASSUME DispatchInv, NEW d \in Dispatches, NEW from, NEW to \in PCs \ {"new"}, Go(d, from, to),
         from # "new" \/ NextUp(d),
         place' \in [Dispatches -> PCs] => DispatchTypeOK',
         lease' \in [Tasks -> Lease], held' \in [Dispatches -> Claim],
         \A k \in Dispatches : k # d =>
           /\ outcome'[k] = outcome[k] /\ node'[k] = node[k] /\ tree'[k] = tree[k]
           /\ held'[k] = held[k] /\ artifact'[k] = artifact[k] /\ result'[k] = result[k],
         place'[d] = to => DispatchOK(d)'
  PROVE  DispatchInv'
<1>1. place' \in [Dispatches -> PCs] /\ place'[d] = to
      /\ \A k \in Dispatches : k # d => place'[k] = place[k]
  BY DEF DispatchInv, DispatchTypeOK, Go
<1>2. ASSUME NEW k \in Dispatches PROVE DispatchOK(k)'
  <2>1. CASE k # d
    BY <1>1, <2>1 DEF DispatchInv, DispatchOK
  <2> QED
    BY <1>1, <2>1
<1>3. ASSUME NEW k \in Dispatches, NEW e \in Dispatches, place'[k] # "new", e < k
      PROVE  place'[e] # "new"
  <2>1. CASE k = d /\ from = "new"
    BY <1>1, <1>3, <2>1 DEF NextUp
  <2>2. CASE ~(k = d /\ from = "new")
    BY <1>1, <1>3, <2>2 DEF DispatchInv, Go
  <2> QED
    BY <2>1, <2>2
<1> QED
  BY <1>1, <1>2, <1>3 DEF DispatchInv

LEMMA CalledType ==
  ASSUME DispatchInv, NEW d \in Dispatches, Called(d)
  PROVE  NextUp(d) /\ of' \in [Dispatches -> Dispatches]
<1>1. NextUp(d)
  BY DEF Called
<1>2. CASE of' = of
  BY <1>1, <1>2 DEF DispatchInv, DispatchTypeOK
<1>3. CASE Calls # {} /\ of' = [of EXCEPT ![d] = Max(Calls)]
  <2>1. Max(Calls) \in Dispatches
    BY <1>1, <1>3, LastCall DEF Calls, Started
  <2> QED
    BY <1>1, <1>3, <2>1 DEF DispatchInv, DispatchTypeOK
<1> QED
  BY <1>1, <1>2, <1>3 DEF Called

LEMMA LendType ==
  ASSUME DispatchInv, NEW d \in Dispatches, NEW t \in Tasks, Loans!Lend(d, t)
  PROVE  /\ lease' \in [Tasks -> Lease] /\ held' \in [Dispatches -> Claim] /\ now' = now
         /\ \A k \in Dispatches : k # d => held'[k] = held[k]
<1>1. now + Ttl \in Nat
  BY DispatchAssumption DEF DispatchInv, DispatchTypeOK
<1> QED
  BY <1>1 DEF DispatchInv, Lease, Claim, Loans!Lend

LEMMA BeginsInv ==
  ASSUME DispatchInv, NEW d \in Dispatches, BeginDispatch(d)
  PROVE  DispatchInv' /\ done' = done
<1>1. ASSUME Refuse(d) PROVE DispatchInv' /\ done' = done
  <2>1. NextUp(d) /\ of' \in [Dispatches -> Dispatches] /\ Go(d, "new", "refused")
    BY <1>1, CalledType DEF Refuse
  <2>2. UNCHANGED <<lease, held, now, done, tree, disk, outcome, node, artifact>>
        /\ result' = [result EXCEPT ![d] = "failed"]
    BY <1>1 DEF Refuse, taken
  <2>3. place' \in [Dispatches -> PCs] => DispatchTypeOK'
    BY <2>1, <2>2 DEF DispatchInv, DispatchTypeOK, Outcomes
  <2>4. place'[d] = "refused" => DispatchOK(d)'
    BY <2>1, <2>2 DEF DispatchInv, DispatchOK, Go
  <2>5. DispatchInv'
    BY <2>1, <2>2, <2>3, <2>4, OneMoves DEF DispatchInv, DispatchTypeOK, PCs
  <2> QED
    BY <2>2, <2>5
<1>2. ASSUME SkipClaim(d) PROVE DispatchInv' /\ done' = done
  <2>1. NextUp(d) /\ of' \in [Dispatches -> Dispatches] /\ Go(d, "new", "claimed")
    BY <1>2, CalledType DEF SkipClaim
  <2>2. UNCHANGED <<lease, held, now, done, tree, disk, outcome, node, artifact, result>>
    BY <1>2 DEF SkipClaim, taken
  <2>3. place' \in [Dispatches -> PCs] => DispatchTypeOK'
    BY <2>1, <2>2 DEF DispatchInv, DispatchTypeOK
  <2>4. place'[d] = "claimed" => DispatchOK(d)'
    BY <2>1, <2>2 DEF DispatchInv, DispatchOK, Go
  <2>5. DispatchInv'
    BY <2>1, <2>2, <2>3, <2>4, OneMoves DEF DispatchInv, PCs, Alive, Busy
  <2> QED
    BY <2>2, <2>5
<1>3. ASSUME NEW t \in Tasks, ClaimTask(d, t) PROVE DispatchInv' /\ done' = done
  <2>1. NextUp(d) /\ of' \in [Dispatches -> Dispatches] /\ Go(d, "new", "claimed")
    BY <1>3, CalledType DEF ClaimTask
  <2>2. UNCHANGED <<done, tree, disk, outcome, node, artifact, result>> /\ Loans!Lend(d, t)
    BY <1>3 DEF ClaimTask
  <2>3. /\ lease' \in [Tasks -> Lease] /\ held' \in [Dispatches -> Claim] /\ now' = now
        /\ \A k \in Dispatches : k # d => held'[k] = held[k]
    BY <2>2, LendType
  <2>4. place' \in [Dispatches -> PCs] => DispatchTypeOK'
    BY <2>1, <2>2, <2>3 DEF DispatchInv, DispatchTypeOK
  <2>5. place'[d] = "claimed" => DispatchOK(d)'
    BY <2>1, <2>2 DEF DispatchInv, DispatchOK, Go
  <2>6. DispatchInv'
    BY <2>1, <2>2, <2>3, <2>4, <2>5, OneMoves DEF PCs, Alive, Busy
  <2> QED
    BY <2>2, <2>6
<1> QED
  BY <1>1, <1>2, <1>3 DEF BeginDispatch

\* A step of d on its way that leaves the claims alone.
LEMMA WayInv ==
  ASSUME DispatchInv, NEW d \in Dispatches,
         AcquireTree(d) \/ Spawn(d) \/ Run(d) \/ EndHook(d) \/ ReleaseTree(d) \/ Conclude(d)
  PROVE  DispatchInv' /\ UNCHANGED <<lease, held, now, done>>
<1>1. UNCHANGED <<lease, held, now, done, of>>
  BY DEF AcquireTree, Spawn, Run, EndHook, ReleaseTree, Conclude, taken
<1>2. ASSUME NEW from \in PCs \ {"new"}, NEW to \in PCs \ {"new"}, Go(d, from, to),
             tree' \in [Dispatches -> {None, "own", "main"}],
             disk' \in [Dispatches -> {None} \cup Nat],
             outcome' \in [Dispatches -> {None} \cup Outcomes],
             node' \in [Dispatches -> {None, "open"} \cup Outcomes],
             artifact' \in [Dispatches -> {None} \cup Outcomes],
             result' \in [Dispatches -> {None, "cut"} \cup Outcomes],
             \A k \in Dispatches : k # d =>
               /\ outcome'[k] = outcome[k] /\ node'[k] = node[k] /\ tree'[k] = tree[k]
               /\ artifact'[k] = artifact[k] /\ result'[k] = result[k],
             place'[d] = to => DispatchOK(d)'
      PROVE  DispatchInv'
  <2>1. place' \in [Dispatches -> PCs] => DispatchTypeOK'
    BY <1>1, <1>2 DEF DispatchInv, DispatchTypeOK
  <2> QED
    BY <1>1, <1>2, <2>1, OneMoves DEF DispatchInv
<1>3. place[d] \in PCs /\ DispatchOK(d) /\ DispatchTypeOK
  BY DEF DispatchInv, DispatchTypeOK
<1>4. CASE AcquireTree(d)
  <2>1. Go(d, "claimed", "acquired") /\ UNCHANGED <<outcome, node, artifact, result>>
    BY <1>4 DEF AcquireTree
  <2>2. /\ tree' \in [Dispatches -> {None, "own", "main"}] /\ disk' \in [Dispatches -> {None} \cup Nat]
        /\ \A k \in Dispatches : k # d => tree'[k] = tree[k]
    BY <1>3, <1>4 DEF AcquireTree, MakeTree, DispatchTypeOK
  <2>3. place'[d] = "acquired" => DispatchOK(d)'
    BY <1>1, <1>3, <2>1 DEF DispatchOK, Go
  <2> QED
    BY <1>1, <1>2, <1>3, <2>1, <2>2, <2>3 DEF DispatchTypeOK, PCs, Alive, Busy
<1>5. CASE Spawn(d)
  <2>1. Go(d, "acquired", "running") /\ UNCHANGED <<outcome, tree, disk, artifact, result>>
        /\ node' = [node EXCEPT ![d] = "open"]
    BY <1>5 DEF Spawn, OpenNode
  <2>2. place'[d] = "running" => DispatchOK(d)'
    BY <1>1, <1>3, <2>1 DEF DispatchOK, Go
  <2> QED
    BY <1>1, <1>2, <1>3, <2>1, <2>2 DEF DispatchTypeOK, PCs, Alive, Busy
<1>6. CASE Run(d)
  <2>1. Go(d, "running", "ran") /\ UNCHANGED <<tree, disk, artifact, result>>
    BY <1>6 DEF Run
  <2>2. PICK o \in Outcomes : /\ outcome' = [outcome EXCEPT ![d] = o]
                              /\ \/ node' = [node EXCEPT ![d] = IF @ = None THEN None ELSE o]
                                 \/ node' = node
    BY <1>6 DEF Run, CloseNode
  <2>3. /\ outcome' \in [Dispatches -> {None} \cup Outcomes] /\ outcome'[d] = o
        /\ node' \in [Dispatches -> {None, "open"} \cup Outcomes]
        /\ \A k \in Dispatches : k # d => outcome'[k] = outcome[k] /\ node'[k] = node[k]
    BY <1>3, <2>2 DEF DispatchTypeOK
  <2>4. place'[d] = "ran" => DispatchOK(d)'
    BY <1>1, <1>3, <2>1, <2>2, <2>3 DEF DispatchOK, Go
  <2> QED
    BY <1>1, <1>2, <1>3, <2>1, <2>3, <2>4 DEF DispatchTypeOK, PCs, Alive, Busy
<1>7. CASE EndHook(d)
  <2>1. /\ Go(d, "ran", "ended") /\ UNCHANGED <<outcome, tree, disk, artifact, result>>
        /\ node' = [node EXCEPT ![d] = IF @ = None THEN None ELSE outcome[d]]
    BY <1>7 DEF EndHook, CloseNode
  <2>2. outcome[d] \in Outcomes
    BY <1>3, <2>1 DEF DispatchOK, Go
  <2>3. /\ node' \in [Dispatches -> {None, "open"} \cup Outcomes] /\ node'[d] \in {None, outcome[d]}
        /\ \A k \in Dispatches : k # d => node'[k] = node[k]
    BY <1>3, <2>1, <2>2 DEF DispatchTypeOK
  <2>4. place'[d] = "ended" => DispatchOK(d)'
    BY <1>1, <1>3, <2>1, <2>2, <2>3 DEF DispatchOK, Go
  <2> QED
    BY <1>1, <1>2, <1>3, <2>1, <2>3, <2>4 DEF DispatchTypeOK, PCs, Alive, Busy
<1>8. CASE ReleaseTree(d)
  <2>1. /\ Go(d, "ended", "released") /\ UNCHANGED <<outcome, node, artifact, result>>
        /\ tree' = [tree EXCEPT ![d] = None]
    BY <1>8 DEF ReleaseTree
  <2>2. /\ tree' \in [Dispatches -> {None, "own", "main"}] /\ disk' \in [Dispatches -> {None} \cup Nat]
        /\ tree'[d] = None /\ \A k \in Dispatches : k # d => tree'[k] = tree[k]
    BY <1>3, <1>8, <2>1 DEF ReleaseTree, RemoveTree, DispatchTypeOK
  <2>3. place'[d] = "released" => DispatchOK(d)'
    BY <1>1, <1>3, <2>1, <2>2 DEF DispatchOK, Go
  <2> QED
    BY <1>1, <1>2, <1>3, <2>1, <2>2, <2>3 DEF DispatchTypeOK, PCs, Alive, Busy
<1>9. CASE Conclude(d)
  <2>1. Go(d, "returned", "over") /\ UNCHANGED <<outcome, node, tree, disk>>
    BY <1>9 DEF Conclude
  <2>2. outcome[d] \in Outcomes
    BY <1>3, <2>1 DEF DispatchOK, Go
  <2>3. PICK r \in {outcome[d], "cut"} : result' = [result EXCEPT ![d] = r]
    BY <1>9 DEF Conclude
  <2>4. /\ result' \in [Dispatches -> {None, "cut"} \cup Outcomes] /\ result'[d] = r
        /\ \A k \in Dispatches : k # d => result'[k] = result[k]
    BY <1>3, <2>2, <2>3 DEF DispatchTypeOK
  <2>5. /\ artifact' \in [Dispatches -> {None} \cup Outcomes] /\ artifact'[d] \in {artifact[d], outcome[d]}
        /\ \A k \in Dispatches : k # d => artifact'[k] = artifact[k]
    BY <1>3, <1>9, <2>2 DEF Conclude, StoreArtifact, DispatchTypeOK
  <2>6. place'[d] = "over" => DispatchOK(d)'
    BY <1>1, <1>3, <2>1, <2>2, <2>3, <2>4, <2>5 DEF DispatchOK, Go
  <2> QED
    BY <1>1, <1>2, <1>3, <2>1, <2>4, <2>5, <2>6 DEF DispatchTypeOK, PCs, Alive, Busy
<1> QED
  BY <1>1, <1>4, <1>5, <1>6, <1>7, <1>8, <1>9

\* The claim is given back, or it was lost before.
LEMMA GivesBack ==
  ASSUME DispatchInv, NEW d \in Dispatches, GiveBack(d)
  PROVE  DispatchInv' /\ Completes
<1>1. /\ Go(d, "released", "returned") /\ UNCHANGED <<tree, disk, outcome, node, artifact, result, of>>
      /\ DispatchTypeOK /\ DispatchOK(d) /\ lease \in [Tasks -> Lease] /\ held \in [Dispatches -> Claim]
  BY DEF GiveBack, DispatchInv
<1>2. ASSUME now' = now, done' \subseteq Tasks, lease' \in [Tasks -> Lease], held' \in [Dispatches -> Claim],
             held'[d] = None, \A k \in Dispatches : k # d => held'[k] = held[k]
      PROVE  DispatchInv'
  <2>1. place' \in [Dispatches -> PCs] => DispatchTypeOK'
    BY <1>1, <1>2 DEF DispatchTypeOK
  <2>2. place'[d] = "returned" => DispatchOK(d)'
    BY <1>1, <1>2 DEF DispatchOK, Go
  <2> QED
    BY <1>1, <1>2, <2>1, <2>2, OneMoves DEF PCs, Alive, Busy
<1>3. CASE held[d] = None /\ UNCHANGED <<taken, done>>
  BY <1>1, <1>2, <1>3 DEF taken, Completes, DispatchTypeOK
<1>4. CASE Loans!Return(d) /\ done' = IF outcome[d] = "ok" THEN done \cup {held[d].task} ELSE done
  <2> DEFINE t == held[d].task
  <2>1. held[d] # None /\ t \in Tasks
    BY <1>1, <1>4 DEF Loans!Return, Claim
  <2>2. /\ lease[t] # None /\ lease[t].trace_id = d /\ lease' = [lease EXCEPT ![t] = None]
        /\ held' = [held EXCEPT ![d] = None] /\ now' = now
    BY <1>4 DEF Loans!Return
  <2>3. lease'[t] = None /\ lease' \in [Tasks -> Lease] /\ held' \in [Dispatches -> Claim]
        /\ held'[d] = None /\ \A k \in Dispatches : k # d => held'[k] = held[k]
    BY <1>1, <2>1, <2>2 DEF Lease, Claim
  <2>4. Completes
    BY <1>4, <2>2, <2>3 DEF Completes
  <2>5. DispatchInv'
    BY <1>1, <1>2, <1>4, <2>1, <2>2, <2>3 DEF DispatchTypeOK
  <2> QED
    BY <1>4, <2>4, <2>5
<1>5. CASE Loans!Leave(d) /\ done' = done
  <2>1. lease' = lease /\ now' = now /\ held' \in [Dispatches -> Claim]
        /\ held'[d] = None /\ \A k \in Dispatches : k # d => held'[k] = held[k]
    BY <1>1, <1>5 DEF Loans!Leave, Claim
  <2>2. DispatchInv'
    BY <1>1, <1>2, <1>5, <2>1 DEF DispatchTypeOK
  <2> QED
    BY <1>5, <2>2 DEF Completes
<1> QED
  BY <1>3, <1>4, <1>5 DEF GiveBack

LEMMA CancelInv ==
  ASSUME DispatchInv, NEW d \in Dispatches, Cancel(d)
  PROVE  DispatchInv' /\ done' = done
<1>1. /\ Go(d, "running", "cancelled") /\ UNCHANGED <<done, disk, outcome, node, artifact, result, of>>
      /\ tree' = [tree EXCEPT ![d] = None] /\ Loans!Leave(d)
      /\ DispatchTypeOK /\ DispatchOK(d) /\ lease \in [Tasks -> Lease] /\ held \in [Dispatches -> Claim]
  BY DEF Cancel, DispatchInv
<1>2. lease' = lease /\ now' = now /\ held' \in [Dispatches -> Claim]
      /\ \A k \in Dispatches : k # d => held'[k] = held[k] /\ tree'[k] = tree[k]
  BY <1>1 DEF Loans!Leave, Claim
<1>3. tree' \in [Dispatches -> {None, "own", "main"}]
  BY <1>1 DEF DispatchTypeOK
<1>4. place' \in [Dispatches -> PCs] => DispatchTypeOK'
  BY <1>1, <1>2, <1>3 DEF DispatchTypeOK
<1>5. place'[d] = "cancelled" => DispatchOK(d)'
  BY <1>1 DEF DispatchOK, Go
<1>6. DispatchInv'
  BY <1>1, <1>2, <1>4, <1>5, OneMoves DEF PCs, Alive, Busy
<1> QED
  BY <1>1, <1>6

\* What comes from outside.
LEMMA WorldInv ==
  ASSUME DispatchInv, Crash \/ Lapse \/ Cleanup \/ Tick
  PROVE  DispatchInv' /\ done' = done
<1>1. DispatchTypeOK /\ lease \in [Tasks -> Lease] /\ held \in [Dispatches -> Claim]
      /\ (\A d \in Dispatches : DispatchOK(d))
      /\ \A d, e \in Dispatches : place[d] # "new" /\ e < d => place[e] # "new"
  BY DEF DispatchInv
<1>2. CASE Crash
  <2>1. /\ place' = [d \in Dispatches |-> IF place[d] \in Alive THEN "lost" ELSE place[d]]
        /\ tree' = [d \in Dispatches |-> None] /\ node' = [d \in Dispatches |-> None]
        /\ Loans!HostLost /\ UNCHANGED <<done, disk, outcome, artifact, result, of>>
    BY <1>2 DEF Crash
  <2>2. lease' \in [Tasks -> Lease] /\ held' \in [Dispatches -> Claim] /\ now' = now
        /\ \A d \in Dispatches : held'[d] = None
    BY <1>1, <2>1 DEF Loans!HostLost, Lease, Claim
  <2>3. place' \in [Dispatches -> PCs]
        /\ \A d \in Dispatches : /\ place'[d] = place[d] \/ place'[d] = "lost"
                                 /\ place'[d] = "new" <=> place[d] = "new"
    BY <1>1, <2>1 DEF DispatchTypeOK, PCs, Alive, Busy
  <2>4. DispatchTypeOK'
    BY <1>1, <2>1, <2>2, <2>3 DEF DispatchTypeOK
  <2>5. ASSUME NEW d \in Dispatches PROVE DispatchOK(d)'
    BY <1>1, <2>1, <2>2, <2>3 DEF DispatchOK
  <2>6. DispatchInv'
    BY <1>1, <2>2, <2>3, <2>4, <2>5 DEF DispatchInv
  <2> QED
    BY <2>1, <2>6
<1>3. CASE Lapse
  <2>1. UNCHANGED <<place, done, tree, disk, outcome, node, artifact, result, of>> /\ Loans!Recall
    BY <1>3 DEF Lapse
  <2>2. lease' \in [Tasks -> Lease] /\ UNCHANGED <<held, now>>
    BY <1>1, <2>1 DEF Loans!Recall, Lease
  <2>3. DispatchInv'
    BY <1>1, <2>1, <2>2 DEF DispatchInv, DispatchTypeOK, DispatchOK
  <2> QED
    BY <2>1, <2>3
<1>4. CASE Cleanup
  <2>1. /\ disk' = [d \in Dispatches |-> IF Stale(d) THEN None ELSE disk[d]]
        /\ UNCHANGED <<lease, held, now, place, done, tree, outcome, node, artifact, result, of>>
    BY <1>4 DEF Cleanup, taken
  <2>2. disk' \in [Dispatches -> {None} \cup Nat]
    BY <1>1, <2>1 DEF DispatchTypeOK
  <2>3. DispatchInv'
    BY <1>1, <2>1, <2>2 DEF DispatchInv, DispatchTypeOK, DispatchOK
  <2> QED
    BY <2>1, <2>3
<1>5. CASE Tick
  <2>1. UNCHANGED <<place, done, tree, disk, outcome, node, artifact, result, of>> /\ Loans!Tick
    BY <1>5 DEF Tick
  <2>2. now' \in Nat /\ UNCHANGED <<lease, held>>
    BY <1>1, <2>1 DEF Loans!Tick, DispatchTypeOK
  <2>3. DispatchInv'
    BY <1>1, <2>1, <2>2 DEF DispatchInv, DispatchTypeOK, DispatchOK
  <2> QED
    BY <2>1, <2>3
<1> QED
  BY <1>2, <1>3, <1>4, <1>5

LEMMA StepDispatch ==
  DispatchInv /\ [DispatchNext]_dispatchVars => DispatchInv' /\ Completes
<1> SUFFICES ASSUME DispatchInv, [DispatchNext]_dispatchVars
             PROVE  DispatchInv' /\ Completes
  OBVIOUS
<1>1. done' = done => Completes
  BY DEF Completes
<1>2. CASE UNCHANGED dispatchVars
  <2>1. DispatchInv'
    BY <1>2 DEF dispatchVars, DispatchInv, DispatchTypeOK, DispatchOK
  <2> QED
    BY <1>1, <1>2, <2>1 DEF dispatchVars
<1>3. ASSUME NEW d \in Dispatches, BeginDispatch(d) \/ DispatchStep(d) \/ Cancel(d)
      PROVE  DispatchInv' /\ Completes
  <2>1. CASE BeginDispatch(d)
    BY <1>1, <2>1, BeginsInv
  <2>2. CASE GiveBack(d)
    BY <2>2, GivesBack
  <2>3. CASE AcquireTree(d) \/ Spawn(d) \/ Run(d) \/ EndHook(d) \/ ReleaseTree(d) \/ Conclude(d)
    BY <1>1, <2>3, WayInv
  <2>4. CASE Cancel(d)
    BY <1>1, <2>4, CancelInv
  <2> QED
    BY <1>3, <2>1, <2>2, <2>3, <2>4 DEF DispatchStep
<1>4. CASE Crash \/ Lapse \/ Cleanup \/ Tick
  BY <1>1, <1>4, WorldInv
<1> QED
  BY <1>2, <1>3, <1>4 DEF DispatchNext

THEOREM DispatchInvHolds == DispatchSpec => []DispatchInv
BY InitDispatch, StepDispatch, PTL DEF DispatchSpec

\* The types of the dispatches.
THEOREM DispatchTypesHold == DispatchSpec => []DispatchTypeOK
<1>1. DispatchInv => DispatchTypeOK
  BY DEF DispatchInv
<1> QED
  BY <1>1, DispatchInvHolds, PTL

\* Whatever it took, a dispatch that has returned has given back, and all accounts of it agree
\* (tech_lead_executor.py:1338-1405, 1419-1423).
THEOREM DispatchesSettle == DispatchSpec => []DispatchSettled
<1>1. DispatchInv => DispatchSettled
  BY DEF DispatchInv, DispatchOK, DispatchSettled
<1> QED
  BY <1>1, DispatchInvHolds, PTL

\* A task is completed by a dispatch that succeeded and whose claim is still on record.
THEOREM OwnersComplete == DispatchSpec => CompletedByOwner
<1>1. DispatchInv /\ [DispatchNext]_dispatchVars =>
        [/\ done \subseteq done'
         /\ \A t \in done' \ done : \E d \in Dispatches :
              /\ outcome[d] = "ok"
              /\ lease[t] # None
              /\ lease[t].trace_id = d
              /\ lease'[t] = None]_dispatchVars
  BY StepDispatch DEF Completes
<1> QED
  BY <1>1, DispatchInvHolds, PTL DEF DispatchSpec, CompletedByOwner

\* What a step does to the claims and to the tasks that are done.
Moves ==
  \/ UNCHANGED <<lease, held, now, done>>
  \/ \E d \in Dispatches, t \in Tasks : Loans!Lend(d, t) /\ t \notin done /\ done' = done
  \/ \E d \in Dispatches : Loans!Return(d) /\ done' \subseteq done \cup {held[d].task}
  \/ \E d \in Dispatches : Loans!Leave(d) /\ done' = done
  \/ (Loans!Recall \/ Loans!HostLost \/ Loans!Tick) /\ done' = done

LEMMA DispatchMoves == ASSUME [DispatchNext]_dispatchVars PROVE Moves
<1>1. ASSUME NEW d \in Dispatches, BeginDispatch(d) PROVE Moves
  BY <1>1 DEF BeginDispatch, Refuse, SkipClaim, ClaimTask, Moves, taken
<1>2. ASSUME NEW d \in Dispatches, GiveBack(d) PROVE Moves
  BY <1>2 DEF GiveBack, Moves, taken
<1>3. ASSUME NEW d \in Dispatches, DispatchStep(d), ~GiveBack(d) PROVE Moves
  BY <1>3 DEF DispatchStep, AcquireTree, Spawn, Run, EndHook, ReleaseTree, Conclude, Moves, taken
<1>4. ASSUME NEW d \in Dispatches, Cancel(d) PROVE Moves
  BY <1>4 DEF Cancel, Moves
<1>5. ASSUME Crash \/ Lapse \/ Cleanup \/ Tick PROVE Moves
  BY <1>5 DEF Crash, Lapse, Cleanup, Tick, Moves, taken
<1>6. CASE UNCHANGED dispatchVars
  BY <1>6 DEF dispatchVars, Moves
<1> QED
  BY <1>1, <1>2, <1>3, <1>4, <1>5, <1>6 DEF DispatchNext

LEMMA OwnKept == ASSUME DispatchInv, TaskIsOwn, Moves PROVE TaskIsOwn'
<1>1. /\ lease \in [Tasks -> Lease] /\ held \in [Dispatches -> Claim]
      /\ now \in Nat /\ now + Ttl \in Nat /\ None \notin [trace_id : Dispatches, expires_at : Nat]
  BY DispatchAssumption DEF DispatchInv, DispatchTypeOK
<1>2. ASSUME NEW d \in Dispatches, held[d] # None
      PROVE  held[d].task \in Tasks /\ held[d].expires_at \in Nat
  BY <1>1, <1>2 DEF Claim
<1>3. CASE UNCHANGED <<lease, held, now, done>>
  BY <1>3 DEF TaskIsOwn
<1>4. ASSUME NEW e \in Dispatches, NEW t \in Tasks, Loans!Lend(e, t), t \notin done, done' = done
      PROVE  TaskIsOwn'
  <2>1. /\ held' = [held EXCEPT ![e] = [task |-> t, expires_at |-> now + Ttl]]
        /\ lease' = [lease EXCEPT ![t] = [trace_id |-> e, expires_at |-> now + Ttl]]
        /\ lease[t] = None /\ now' = now
    BY <1>4 DEF Loans!Lend
  <2>2. ASSUME NEW d \in Dispatches, held'[d] # None, now' < held'[d].expires_at
        PROVE  /\ lease'[held'[d].task] = [trace_id |-> d, expires_at |-> held'[d].expires_at]
               /\ held'[d].task \notin done'
    <3>1. CASE d = e
      BY <1>1, <1>4, <2>1, <3>1
    <3>2. CASE d # e
      <4>1. held'[d] = held[d]
        BY <1>1, <2>1, <3>2
      <4>2. /\ lease[held[d].task] = [trace_id |-> d, expires_at |-> held[d].expires_at]
            /\ held[d].task \notin done
        BY <2>1, <2>2, <4>1 DEF TaskIsOwn
      <4>3. lease[held[d].task] # None
        BY <1>1, <1>2, <2>2, <4>1, <4>2 DEF Lease
      <4> QED
        BY <1>1, <1>2, <1>4, <2>1, <2>2, <4>1, <4>2, <4>3
    <3> QED
      BY <3>1, <3>2
  <2> QED
    BY <2>2 DEF TaskIsOwn
<1>5. ASSUME NEW e \in Dispatches, Loans!Return(e), done' \subseteq done \cup {held[e].task}
      PROVE  TaskIsOwn'
  <2>1. /\ held[e] # None /\ lease[held[e].task].trace_id = e
        /\ held' = [held EXCEPT ![e] = None]
        /\ lease' = [lease EXCEPT ![held[e].task] = None] /\ now' = now
    BY <1>5 DEF Loans!Return
  <2>2. ASSUME NEW d \in Dispatches, held'[d] # None, now' < held'[d].expires_at
        PROVE  /\ lease'[held'[d].task] = [trace_id |-> d, expires_at |-> held'[d].expires_at]
               /\ held'[d].task \notin done'
    <3>1. d # e /\ held'[d] = held[d]
      BY <1>1, <2>1, <2>2
    <3>2. /\ lease[held[d].task] = [trace_id |-> d, expires_at |-> held[d].expires_at]
          /\ held[d].task \notin done
      BY <2>1, <2>2, <3>1 DEF TaskIsOwn
    <3>3. held[d].task # held[e].task
      BY <2>1, <3>1, <3>2
    <3> QED
      BY <1>1, <1>2, <1>5, <2>1, <2>2, <3>1, <3>2, <3>3
  <2> QED
    BY <2>2 DEF TaskIsOwn
<1>6. ASSUME NEW e \in Dispatches, Loans!Leave(e), done' = done PROVE TaskIsOwn'
  <2>1. held' = [held EXCEPT ![e] = None] /\ UNCHANGED <<lease, now>>
    BY <1>6 DEF Loans!Leave
  <2>2. \A d \in Dispatches : held'[d] # None => held'[d] = held[d]
    BY <1>1, <2>1
  <2> QED
    BY <1>6, <2>1, <2>2 DEF TaskIsOwn
<1>7. CASE Loans!Recall /\ done' = done
  <2>1. PICK S \in SUBSET {t \in Tasks : lease[t] # None /\ now >= lease[t].expires_at} :
          lease' = [t \in Tasks |-> IF t \in S THEN None ELSE lease[t]] /\ UNCHANGED <<held, now>>
    BY <1>7 DEF Loans!Recall
  <2>2. ASSUME NEW d \in Dispatches, held[d] # None, now < held[d].expires_at
        PROVE  lease'[held[d].task] = lease[held[d].task]
    <3>1. lease[held[d].task] = [trace_id |-> d, expires_at |-> held[d].expires_at]
      BY <2>2 DEF TaskIsOwn
    <3>2. ~(now >= lease[held[d].task].expires_at)
      BY <1>1, <1>2, <2>2, <3>1
    <3> QED
      BY <1>2, <2>1, <2>2, <3>2
  <2> QED
    BY <1>7, <2>1, <2>2 DEF TaskIsOwn
<1>8. CASE Loans!HostLost
  BY <1>8 DEF Loans!HostLost, TaskIsOwn
<1>9. CASE Loans!Tick /\ done' = done
  <2>1. now' = now + 1 /\ UNCHANGED <<lease, held>>
    BY <1>9 DEF Loans!Tick
  <2>2. \A d \in Dispatches : held[d] # None /\ now' < held[d].expires_at => now < held[d].expires_at
    BY <1>1, <1>2, <2>1
  <2> QED
    BY <1>9, <2>1, <2>2 DEF TaskIsOwn
<1> QED
  BY <1>3, <1>4, <1>5, <1>6, <1>7, <1>8, <1>9 DEF Moves

\* While a dispatch has a claim within its term, the task is its own: nobody else is on record
\* for it or completes it, late, lost or dead as the earlier ones may be
\* (tech_lead_executor.py:1021-1060, 1457-1491).
THEOREM TasksAreOwn == DispatchSpec => []TaskIsOwn
<1>1. DispatchInit => TaskIsOwn
  BY DEF DispatchInit, Loans!Init, TaskIsOwn
<1>2. TaskIsOwn /\ DispatchInv /\ [DispatchNext]_dispatchVars => TaskIsOwn'
  BY DispatchMoves, OwnKept
<1> QED
  BY <1>1, <1>2, DispatchInvHolds, PTL DEF DispatchSpec

-----------------------------------------------------------------------------
(* Deliveries.                                                             *)

Coroutine == [pc : {"idle", "tools", "docs", "create", "watch", "jobs", "await"},
              branch : Branches \cup {None}, warned : BOOLEAN]

\* A job has its fields; one that waits has a limit that was asked for, one that has been
\* started has a limit of its own.
JobOK(j) ==
  /\ {"pc", "seen", "script", "limit", "shared"} = DOMAIN j
  /\ j.pc = "queued" => j.limit \in Requests /\ j.script = None
  /\ j.script # None => j.limit \in 1 .. Cap

\* Who is about to open a pull request has passed the gates, and they still hold.
CoroutineOK(m) ==
  session[m].pc \in {"docs", "create"} => session[m].branch \in pushed \ Protected

DeliveryInv ==
  /\ branch \in Branches /\ loop \in Messages \cup {None}
  /\ opened \subseteq Branches /\ pushed \subseteq Branches
  /\ session \in [Messages -> Coroutine]
  /\ told \in [Messages -> Verdicts \cup {"nothing"}]
  /\ job = [m \in Messages |-> job[m]]
  /\ \A m \in Messages : JobOK(job[m])
  /\ \A m \in Messages : CoroutineOK(m)
  /\ PrOfCheckedBranch

LEMMA AtRestType == AtRest \in Coroutine /\ [AtRest EXCEPT !.pc = "tools"] \in Coroutine
BY DEF AtRest, Coroutine

LEMMA NoJobOK ==
  /\ JobOK(NoJob) /\ JobOK([NoJob EXCEPT !.pc = "done"])
  /\ \A files : \A request \in Requests :
       JobOK([Wired(files) EXCEPT !.limit = request])
<1>1. JobOK(NoJob)
  BY DEF NoJob, JobOK
<1>2. JobOK([NoJob EXCEPT !.pc = "done"])
  <2> DEFINE j == [NoJob EXCEPT !.pc = "done"]
  <2>1. DOMAIN j = DOMAIN NoJob /\ j.pc = "done" /\ j.script = NoJob.script
    BY DEF NoJob
  <2>2. j.script = None
    BY <2>1 DEF NoJob
  <2> HIDE DEF j
  <2>3. JobOK(j)
    BY <1>1, <2>1, <2>2 DEF JobOK
  <2> QED
    BY <2>3 DEF j
<1>3. ASSUME NEW files, NEW request \in Requests
      PROVE  JobOK([Wired(files) EXCEPT !.limit = request])
  <2> DEFINE j == [Wired(files) EXCEPT !.limit = request]
  <2>1. /\ DOMAIN j = DOMAIN NoJob /\ j.pc = "queued" /\ j.limit = request
        /\ j.script = NoJob.script
    BY DEF NoJob, Wired
  <2>2. NoJob.script = None
    BY DEF NoJob
  <2> HIDE DEF j
  <2>3. JobOK(j)
    BY <1>1, <2>1, <2>2 DEF JobOK
  <2> QED
    BY <2>3 DEF j
<1> QED
  BY <1>1, <1>2, <1>3

\* A step of m in which only the coroutine of m moves.
LEMMA CoroutineMoves ==
  ASSUME DeliveryInv, NEW m \in Messages, NEW c \in Coroutine,
         session' = [session EXCEPT ![m] = c], host' = host, pushed \subseteq pushed',
         c.pc \in {"docs", "create"} => c.branch \in pushed' \ Protected
  PROVE  session' \in [Messages -> Coroutine] /\ \A k \in Messages : CoroutineOK(k)'
<1>1. session' \in [Messages -> Coroutine] /\ session'[m] = c
      /\ \A k \in Messages : k # m => session'[k] = session[k]
  BY DEF DeliveryInv
<1>2. ASSUME NEW k \in Messages PROVE CoroutineOK(k)'
  <2>1. CASE k = m
    BY <1>1, <2>1 DEF CoroutineOK
  <2>2. CASE k # m
    BY <1>1, <2>2 DEF DeliveryInv, CoroutineOK
  <2> QED
    BY <2>1, <2>2
<1> QED
  BY <1>1, <1>2

LEMMA Returns ==
  ASSUME DeliveryInv, NEW m \in Messages, NEW o \in Verdicts \cup {"nothing"}, Return(m, o),
         host' = host, pushed' = pushed
  PROVE  /\ session' \in [Messages -> Coroutine] /\ \A k \in Messages : CoroutineOK(k)'
         /\ told' \in [Messages -> Verdicts \cup {"nothing"}] /\ loop' \in Messages \cup {None}
<1>1. [AtRest EXCEPT !.pc = "tools"].pc = "tools"
  BY DEF AtRest
<1>2. session' \in [Messages -> Coroutine] /\ \A k \in Messages : CoroutineOK(k)'
  BY <1>1, AtRestType, CoroutineMoves DEF Return
<1> QED
  BY <1>2 DEF Return, Tell, DeliveryInv

LEMMA Tells ==
  ASSUME DeliveryInv, NEW m \in Messages, NEW o \in Verdicts \cup {"nothing"}, Tell(m, o)
  PROVE  /\ told' \in [Messages -> Verdicts \cup {"nothing"}]
BY DEF Tell, DeliveryInv

\* A coroutine goes to another place where nothing is asked of it.
LEMMA Going ==
  ASSUME DeliveryInv, NEW m \in Messages, NEW to \in {"tools", "watch", "jobs", "await"}, Goes(m, to),
         host' = host, pushed' = pushed
  PROVE  session' \in [Messages -> Coroutine] /\ \A k \in Messages : CoroutineOK(k)'
<1> DEFINE c == [session[m] EXCEPT !.pc = to]
<1>1. c \in Coroutine /\ c.pc = to
  BY DEF DeliveryInv, Coroutine
<1>2. session' = [session EXCEPT ![m] = c]
  BY DEF Goes
<1> HIDE DEF c
<1> QED
  BY <1>1, <1>2, CoroutineMoves

LEMMA InitDelivery == DeliveryInit => DeliveryInv
<1> SUFFICES ASSUME DeliveryInit PROVE DeliveryInv
  OBVIOUS
<1>1. session \in [Messages -> Coroutine] /\ \A m \in Messages : session[m] = AtRest
  BY AtRestType DEF DeliveryInit
<1>2. \A m \in Messages : CoroutineOK(m)
  BY <1>1 DEF CoroutineOK, AtRest
<1>3. \A m \in Messages : job[m] = NoJob /\ JobOK(job[m])
  BY NoJobOK DEF DeliveryInit
<1>4. job = [m \in Messages |-> job[m]]
  BY DEF DeliveryInit
<1> QED
  BY <1>1, <1>2, <1>3, <1>4, DeliveryAssumption DEF DeliveryInit, DeliveryInv, PrOfCheckedBranch

\* The steps that leave the jobs alone.
LEMMA CoroutineStep ==
  ASSUME DeliveryInv, NEW m \in Messages,
         \/ Begin(m) \/ OpenStart(m) \/ Acts(m) \/ \E b \in Branches : WatchStart(m, b)
  PROVE  DeliveryInv'
<1>1. branch' = branch /\ host' = host /\ job' = job /\ pushed' = pushed
  BY DEF Begin, OpenStart, Acts, WatchStart, Warn, Create, WatchEnds, WatchTimesOut, Judge, github
<1>2. ASSUME opened' = opened,
             session' \in [Messages -> Coroutine], \A k \in Messages : CoroutineOK(k)',
             told' \in [Messages -> Verdicts \cup {"nothing"}], loop' \in Messages \cup {None}
      PROVE  DeliveryInv'
  BY <1>1, <1>2 DEF DeliveryInv, PrOfCheckedBranch, JobOK, Protected
<1>4. CASE Begin(m)
  <2>1. Goes(m, "tools") /\ told' = told /\ loop' = loop /\ opened' = opened
    BY <1>4 DEF Begin, github
  <2>2. session' \in [Messages -> Coroutine] /\ \A k \in Messages : CoroutineOK(k)'
    BY <1>1, <2>1, Going
  <2> QED
    BY <1>2, <2>1, <2>2 DEF DeliveryInv
<1>5. CASE OpenStart(m)
  <2>1. opened' = opened /\ Tell(m, "nothing")
    BY <1>5 DEF OpenStart, github
  <2>2. told' \in [Messages -> Verdicts \cup {"nothing"}]
    BY <2>1, Tells
  <2>3. CASE branch \in Protected \/ branch \notin pushed
    <3>1. session' = session /\ loop' = loop
      BY <1>5, <2>3 DEF OpenStart
    <3>2. \A k \in Messages : CoroutineOK(k)'
      BY <1>1, <3>1 DEF DeliveryInv, CoroutineOK, Protected
    <3> QED
      BY <1>2, <2>1, <2>2, <3>1, <3>2 DEF DeliveryInv
  <2>4. CASE ~(branch \in Protected \/ branch \notin pushed)
    <3> DEFINE c == [session[m] EXCEPT !.pc = "docs", !.branch = branch]
    <3>1. session' = [session EXCEPT ![m] = c] /\ loop' = m
      BY <1>5, <2>4 DEF OpenStart
    <3>2. c \in Coroutine /\ c.pc = "docs" /\ c.branch = branch
      BY DEF DeliveryInv, Coroutine
    <3> HIDE DEF c
    <3>3. session' \in [Messages -> Coroutine] /\ \A k \in Messages : CoroutineOK(k)'
      BY <1>1, <2>4, <3>1, <3>2, CoroutineMoves
    <3> QED
      BY <1>2, <2>1, <2>2, <3>1, <3>3
  <2> QED
    BY <2>3, <2>4
<1>6. CASE Warn(m)
  <2> DEFINE w == branch \notin Documented
             c == [session[m] EXCEPT !.pc = "create", !.warned = w]
  <2>1. /\ session[m].pc = "docs" /\ session' = [session EXCEPT ![m] = c]
        /\ told' = told /\ loop' = loop /\ opened' = opened
    BY <1>6 DEF Warn, Runs, github
  <2>2. c \in Coroutine /\ c.pc = "create" /\ c.branch = session[m].branch
    <3>1. w \in BOOLEAN
      OBVIOUS
    <3> HIDE DEF w
    <3> QED
      BY <3>1 DEF DeliveryInv, Coroutine
  <2> HIDE DEF c
  <2>3. session[m].branch \in pushed \ Protected
    BY <2>1 DEF DeliveryInv, CoroutineOK
  <2>4. session' \in [Messages -> Coroutine] /\ \A k \in Messages : CoroutineOK(k)'
    BY <1>1, <2>1, <2>2, <2>3, CoroutineMoves DEF Protected
  <2> QED
    BY <1>2, <2>1, <2>4 DEF DeliveryInv
<1>7. CASE Create(m)
  <2>1. Return(m, "nothing") /\ session[m].pc = "create"
    BY <1>7 DEF Create, Runs
  <2>2. /\ session' \in [Messages -> Coroutine] /\ \A k \in Messages : CoroutineOK(k)'
        /\ told' \in [Messages -> Verdicts \cup {"nothing"}] /\ loop' \in Messages \cup {None}
    BY <1>1, <2>1, Returns
  <2>3. session[m].branch \in pushed \ Protected
    BY <2>1 DEF DeliveryInv, CoroutineOK
  <2>4. opened' \subseteq opened \cup {session[m].branch}
    BY <1>7 DEF Create, PrHead
  <2>5. opened' \subseteq Branches /\ PrOfCheckedBranch'
    BY <1>1, <2>3, <2>4 DEF DeliveryInv, PrOfCheckedBranch, Protected
  <2>6. DeliveryInv'
    BY <1>1, <2>2, <2>5 DEF DeliveryInv, JobOK
  <2> QED
    BY <2>6
<1>8. ASSUME NEW b \in Branches, WatchStart(m, b) PROVE DeliveryInv'
  <2> DEFINE c == [session[m] EXCEPT !.pc = "watch", !.branch = b]
  <2>1. session' = [session EXCEPT ![m] = c] /\ loop' = m /\ opened' = opened /\ Tell(m, "nothing")
    BY <1>8 DEF WatchStart, github
  <2>2. c \in Coroutine /\ c.pc = "watch"
    BY DEF DeliveryInv, Coroutine
  <2> HIDE DEF c
  <2>3. session' \in [Messages -> Coroutine] /\ \A k \in Messages : CoroutineOK(k)'
    BY <1>1, <2>1, <2>2, CoroutineMoves
  <2>4. told' \in [Messages -> Verdicts \cup {"nothing"}]
    BY <2>1, Tells
  <2> QED
    BY <1>2, <2>1, <2>3, <2>4
<1>9. ASSUME NEW o \in Verdicts, Return(m, o), opened' = opened PROVE DeliveryInv'
  BY <1>1, <1>2, <1>9, Returns
<1>10. CASE WatchEnds(m)
  <2>1. opened' = opened
    BY <1>10 DEF WatchEnds, github
  <2>2. CASE Goes(m, "jobs") /\ told' = told /\ loop' = loop
    <3>1. session' \in [Messages -> Coroutine] /\ \A k \in Messages : CoroutineOK(k)'
      BY <1>1, <2>2, Going
    <3> QED
      BY <1>2, <2>1, <2>2, <3>1 DEF DeliveryInv
  <2> QED
    BY <1>9, <1>10, <2>1, <2>2 DEF WatchEnds, Verdicts
<1>11. CASE WatchTimesOut(m)
  BY <1>9, <1>11 DEF WatchTimesOut, Verdicts, github
<1>12. CASE Judge(m)
  <2>1. opened' = opened /\ \E o \in {"timeout", "failure"} : Return(m, o)
    BY <1>12 DEF Judge, github
  <2> QED
    BY <1>9, <2>1 DEF Verdicts
<1> QED
  BY <1>4, <1>5, <1>6, <1>7, <1>8, <1>10, <1>11, <1>12 DEF Acts

\* The job of m becomes j.
LEMMA JobMoves ==
  ASSUME DeliveryInv, NEW m \in Messages, NEW j, JobOK(j), job' = [job EXCEPT ![m] = j]
  PROVE  job' = [k \in Messages |-> job'[k]] /\ \A k \in Messages : JobOK(job'[k])
<1>1. job = [k \in Messages |-> job[k]] /\ \A k \in Messages : JobOK(job[k])
  BY DEF DeliveryInv
<1>2. job' = [k \in Messages |-> IF k = m THEN j ELSE job[k]]
  BY <1>1
<1> QED
  BY <1>1, <1>2

LEMMA LimitWithinCap ==
  ASSUME NEW request \in Requests, request = None \/ ~(request <= 0)
  PROVE  TimeLimit(request) \in 1 .. Cap
<1> DEFINE base == IF request = None THEN Default ELSE request
<1>1. Default \in Nat \ {0} /\ Cap \in Nat \ {0} /\ request \in Int \cup {None}
  BY DeliveryAssumption
<1>2. base \in Int /\ base > 0
  BY <1>1
<1> QED
  BY <1>1, <1>2 DEF TimeLimit

\* The steps of the threads and those that start or end one.
LEMMA JobStep ==
  ASSUME DeliveryInv, NEW m \in Messages,
         \/ End(m) \/ Answer(m) \/ Thread(m) \/ Exit(m)
         \/ \E request \in Requests, files \in Listings : DeployCall(m, request, files)
  PROVE  DeliveryInv'
<1>1. branch' = branch /\ host' = host /\ pushed' = pushed /\ opened' = opened
  BY DEF End, Answer, Thread, DeployCall, Exit, Launch, TimesOut, github
<1>2. ASSUME session' \in [Messages -> Coroutine], \A k \in Messages : CoroutineOK(k)',
             told' \in [Messages -> Verdicts \cup {"nothing"}], loop' \in Messages \cup {None},
             job' = [k \in Messages |-> job'[k]], \A k \in Messages : JobOK(job'[k])
      PROVE  DeliveryInv'
  BY <1>1, <1>2 DEF DeliveryInv, PrOfCheckedBranch, JobOK, Protected
<1>4. ASSUME session' = session, told' = told, loop' = loop
      PROVE  /\ session' \in [Messages -> Coroutine] /\ \A k \in Messages : CoroutineOK(k)'
             /\ told' \in [Messages -> Verdicts \cup {"nothing"}] /\ loop' \in Messages \cup {None}
  BY <1>1, <1>4 DEF DeliveryInv, CoroutineOK, Protected
<1>5. JobOK(job[m]) /\ JobOK(NoJob)
  BY NoJobOK DEF DeliveryInv
<1>6. CASE End(m)
  <2> DEFINE j == IF job[m].pc \in {"queued", "done"} THEN NoJob ELSE job[m]
  <2>1. /\ session' = [session EXCEPT ![m] = AtRest] /\ Tell(m, "nothing") /\ loop' = loop
        /\ job' = [job EXCEPT ![m] = j]
    BY <1>6 DEF End
  <2>2. JobOK(j)
    BY <1>5
  <2> HIDE DEF j
  <2>3. job' = [k \in Messages |-> job'[k]] /\ \A k \in Messages : JobOK(job'[k])
    BY <2>1, <2>2, JobMoves
  <2>4. AtRest.pc = "idle"
    BY DEF AtRest
  <2>5. session' \in [Messages -> Coroutine] /\ \A k \in Messages : CoroutineOK(k)'
    BY <1>1, <2>1, <2>4, AtRestType, CoroutineMoves
  <2>6. told' \in [Messages -> Verdicts \cup {"nothing"}]
    BY <2>1, Tells
  <2> QED
    BY <1>2, <2>1, <2>3, <2>5, <2>6 DEF DeliveryInv
<1>7. CASE Answer(m)
  <2>1. job' = [k \in Messages |-> job'[k]] /\ \A k \in Messages : JobOK(job'[k])
    BY <1>5, <1>7, JobMoves DEF Answer
  <2>2. CASE Return(m, "nothing")
    <3>1. /\ session' \in [Messages -> Coroutine] /\ \A k \in Messages : CoroutineOK(k)'
          /\ told' \in [Messages -> Verdicts \cup {"nothing"}] /\ loop' \in Messages \cup {None}
      BY <1>1, <2>2, Returns
    <3> QED
      BY <1>2, <2>1, <3>1
  <2>3. CASE session' = session /\ told' = told /\ loop' = loop
    BY <1>2, <1>4, <2>1, <2>3
  <2> QED
    BY <1>7, <2>2, <2>3 DEF Answer
<1>8. ASSUME NEW request \in Requests, NEW files \in Listings, DeployCall(m, request, files)
      PROVE  DeliveryInv'
  <2> DEFINE j == [Wired(files) EXCEPT !.limit = request]
  <2>1. Goes(m, "await") /\ Tell(m, "nothing") /\ loop' = loop /\ job' = [job EXCEPT ![m] = j]
    BY <1>8 DEF DeployCall
  <2>2. JobOK(j)
    BY NoJobOK
  <2> HIDE DEF j
  <2>3. job' = [k \in Messages |-> job'[k]] /\ \A k \in Messages : JobOK(job'[k])
    BY <2>1, <2>2, JobMoves
  <2>4. session' \in [Messages -> Coroutine] /\ \A k \in Messages : CoroutineOK(k)'
    BY <1>1, <2>1, Going
  <2>5. told' \in [Messages -> Verdicts \cup {"nothing"}]
    BY <2>1, Tells
  <2> QED
    BY <1>2, <2>1, <2>3, <2>4, <2>5 DEF DeliveryInv
<1>9. ASSUME Exit(m) PROVE DeliveryInv'
  <2> DEFINE j == [job[m] EXCEPT !.pc = "done"]
  <2>1. job' = [job EXCEPT ![m] = j] /\ session' = session /\ told' = told /\ loop' = loop
    BY <1>9 DEF Exit, DeliveryInv
  <2>2. JobOK(j)
    <3>1. /\ DOMAIN j = DOMAIN job[m] /\ j.pc = "done"
          /\ j.script = job[m].script /\ j.limit = job[m].limit
      BY <1>5 DEF JobOK
    <3> HIDE DEF j
    <3> QED
      BY <1>5, <3>1 DEF JobOK
  <2> HIDE DEF j
  <2>3. job' = [k \in Messages |-> job'[k]] /\ \A k \in Messages : JobOK(job'[k])
    BY <2>1, <2>2, JobMoves
  <2> QED
    BY <1>2, <1>4, <2>1, <2>3
<1>10. CASE TimesOut(m)
  BY <1>9, <1>10 DEF TimesOut
<1>12. ASSUME NEW who \in Callers, NEW argsOk \in BOOLEAN, Launch(m, who, argsOk)
       PROVE  DeliveryInv'
  <2> DEFINE script == Load(job[m].seen)
             asked == job[m].limit
  <2>1. job[m].pc = "queued" /\ asked \in Requests /\ session' = session /\ told' = told /\ loop' = loop
    BY <1>5, <1>12 DEF Launch, JobOK
  <2>2. job' = [k \in Messages |-> job'[k]] /\ \A k \in Messages : JobOK(job'[k])
    <3>1. CASE job' = [job EXCEPT ![m] = [NoJob EXCEPT !.pc = "done"]]
      <4>1. JobOK([NoJob EXCEPT !.pc = "done"])
        BY NoJobOK
      <4> QED
        BY <3>1, <4>1, JobMoves
    <3>2. CASE /\ ~(asked # None /\ asked <= 0)
               /\ \E same \in SUBSET Deploying :
                    job' = [k \in Messages |->
                      IF k = m THEN [NoJob EXCEPT !.pc = "running", !.script = script,
                                       !.limit = TimeLimit(asked), !.shared = same # {}]
                      ELSE [job[k] EXCEPT !.shared = @ \/ k \in same]]
      <4>1. PICK same \in SUBSET Deploying :
              job' = [k \in Messages |->
                IF k = m THEN [NoJob EXCEPT !.pc = "running", !.script = script,
                                 !.limit = TimeLimit(asked), !.shared = same # {}]
                ELSE [job[k] EXCEPT !.shared = @ \/ k \in same]]
        BY <3>2
      <4>2. TimeLimit(asked) \in 1 .. Cap
        BY <2>1, <3>2, LimitWithinCap
      <4>3. ASSUME NEW k \in Messages, k = m PROVE JobOK(job'[k])
        <5> DEFINE sh == same # {}
        <5>1. job'[k] = [NoJob EXCEPT !.pc = "running", !.script = script,
                           !.limit = TimeLimit(asked), !.shared = sh]
          BY <4>1, <4>3
        <5> HIDE DEF sh, script, asked
        <5>2. /\ DOMAIN job'[k] = DOMAIN NoJob /\ job'[k].pc = "running"
              /\ job'[k].limit = TimeLimit(asked)
          BY <5>1 DEF NoJob
        <5> QED
          BY <1>5, <4>2, <5>2 DEF JobOK
      <4>4. ASSUME NEW k \in Messages, k # m PROVE JobOK(job'[k])
        <5> DEFINE sh == job[k].shared \/ k \in same
        <5>1. job'[k] = [job[k] EXCEPT !.shared = sh]
          BY <4>1, <4>4
        <5> HIDE DEF sh
        <5>2. JobOK(job[k])
          BY DEF DeliveryInv
        <5>3. /\ DOMAIN job'[k] = DOMAIN job[k] /\ job'[k].pc = job[k].pc /\ job'[k].script = job[k].script
              /\ job'[k].limit = job[k].limit
          BY <5>1, <5>2 DEF JobOK
        <5> QED
          BY <5>2, <5>3 DEF JobOK
      <4>5. \A k \in Messages : JobOK(job'[k])
        BY <4>3, <4>4
      <4>6. job' = [k \in Messages |-> job'[k]]
        BY <4>1
      <4> QED
        BY <4>5, <4>6
    <3> QED
      BY <1>12, <3>1, <3>2 DEF Launch
  <2> QED
    BY <1>2, <1>4, <2>1, <2>2
<1> QED
  BY <1>6, <1>7, <1>8, <1>9, <1>10, <1>12 DEF Thread

LEMMA StepDelivery ==
  DeliveryInv /\ [DeliveryNext]_deliveryVars => DeliveryInv'
<1> SUFFICES ASSUME DeliveryInv, [DeliveryNext]_deliveryVars
             PROVE  DeliveryInv'
  OBVIOUS
<1>1. ASSUME UNCHANGED <<opened, host, session, told, loop, job>>, pushed \subseteq pushed',
             pushed' \subseteq Branches, branch' \in Branches
      PROVE  DeliveryInv'
  <2>2. \A m \in Messages : CoroutineOK(m)'
    BY <1>1 DEF DeliveryInv, CoroutineOK, Protected
  <2>3. PrOfCheckedBranch'
    BY <1>1 DEF DeliveryInv, PrOfCheckedBranch, Protected
  <2> QED
    BY <1>1, <2>2, <2>3 DEF DeliveryInv, JobOK
<1>2. CASE UNCHANGED deliveryVars
  BY <1>1, <1>2 DEF deliveryVars, github, DeliveryInv
<1>3. CASE Elsewhere
  BY <1>1, <1>3 DEF Elsewhere, github, DeliveryInv
<1>4. ASSUME NEW b \in Branches, Pushed(b) \/ Checked(b)
      PROVE  DeliveryInv'
  BY <1>1, <1>4 DEF Pushed, Checked, DeliveryInv
<1>5. ASSUME NEW m \in Messages,
             \/ Begin(m) \/ OpenStart(m) \/ Acts(m) \/ \E b \in Branches : WatchStart(m, b)
      PROVE  DeliveryInv'
  BY <1>5, CoroutineStep
<1>6. ASSUME NEW m \in Messages,
             \/ End(m) \/ Answer(m) \/ Thread(m) \/ Exit(m)
             \/ \E request \in Requests, files \in Listings : DeployCall(m, request, files)
      PROVE  DeliveryInv'
  BY <1>6, JobStep
<1> QED
  BY <1>2, <1>3, <1>4, <1>5, <1>6 DEF DeliveryNext

THEOREM DeliveryInvHolds == DeliverySpec => []DeliveryInv
BY InitDelivery, StepDelivery, PTL DEF DeliverySpec

\* The types, and that a script is never started without a limit, nor with one above the cap
\* (deploy_service.py:804-815).
THEOREM DeliveryTypesHold == DeliverySpec => []DeliveryTypeOK
<1>1. DeliveryInv => DeliveryTypeOK
  BY DEF DeliveryInv, DeliveryTypeOK, JobOK
<1> QED
  BY <1>1, DeliveryInvHolds, PTL

\* A pull request is of a branch that has passed the gates, whatever is checked out meanwhile.
THEOREM PrOfCheckedBranchHolds == DeliverySpec => []PrOfCheckedBranch
<1>1. DeliveryInv => PrOfCheckedBranch
  BY DEF DeliveryInv
<1> QED
  BY <1>1, DeliveryInvHolds, PTL

===============================================================================
