----------------------------- MODULE LeaseTable -----------------------------
(***************************************************************************)
(* What the claim lease of team/task_graph.py promises, with no file, lock *)
(* or process in sight: a task is lent to one agent at a time, and a loan  *)
(* ends only because its term is over, because the agent that has it gives *)
(* it back, or because the host lost everything.  TaskGraph is shown to    *)
(* implement this specification when one process does the scheduling.      *)
(***************************************************************************)
EXTENDS Naturals

CONSTANTS Agents, Tasks, Ttl, Horizon, None

VARIABLES
  lease,  \* lease[t]: the loan of task t on record, or None
  held,   \* held[a]: the loan agent a was told it has, or None
  now

vars == <<lease, held, now>>

Init ==
  /\ lease = [t \in Tasks |-> None]
  /\ held = [a \in Agents |-> None]
  /\ now = 0

Lend(a, t) ==
  /\ held[a] = None
  /\ lease[t] = None
  /\ now + Ttl <= Horizon
  /\ lease' = [lease EXCEPT ![t] = [trace_id |-> a, expires_at |-> now + Ttl]]
  /\ held' = [held EXCEPT ![a] = [task |-> t, expires_at |-> now + Ttl]]
  /\ UNCHANGED now

\* Loans whose term is over are called in, any number at a time.
Recall ==
  \E S \in SUBSET {t \in Tasks : lease[t] # None /\ now >= lease[t].expires_at} :
    /\ lease' = [t \in Tasks |-> IF t \in S THEN None ELSE lease[t]]
    /\ UNCHANGED <<held, now>>

\* The agent gives back a loan that is still on record as its own.
Return(a) ==
  LET t == held[a].task IN
  /\ held[a] # None
  /\ lease[t] # None
  /\ lease[t].trace_id = a
  /\ lease' = [lease EXCEPT ![t] = None]
  /\ held' = [held EXCEPT ![a] = None]
  /\ UNCHANGED now

\* The agent goes away without giving anything back.
Leave(a) ==
  /\ held' = [held EXCEPT ![a] = None]
  /\ UNCHANGED <<lease, now>>

\* The host dies: every agent is gone, and perhaps the record as well.
HostLost ==
  /\ held' = [a \in Agents |-> None]
  /\ lease' \in {lease, [t \in Tasks |-> None]}
  /\ UNCHANGED now

Tick ==
  /\ now < Horizon
  /\ now' = now + 1
  /\ UNCHANGED <<lease, held>>

Next ==
  \/ \E a \in Agents, t \in Tasks : Lend(a, t)
  \/ \E a \in Agents : Return(a) \/ Leave(a)
  \/ Recall
  \/ HostLost
  \/ Tick

Spec == Init /\ [][Next]_vars

=============================================================================
