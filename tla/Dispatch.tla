------------------------------ MODULE Dispatch ------------------------------
(***************************************************************************)
(* Dispatches of role agents by the tech lead: what one takes (the claim   *)
(* of a task, a worktree, a node in the session lineage), what it leaves   *)
(* (an artifact, a result in the event log) and how it gives things back   *)
(* when the sub-agent ends, fails, is cancelled or dies with its process.  *)
(* roles/tech_lead_executor.py, team/worktree_manager.py,                  *)
(* team/artifact_store.py and core/session_lineage.py.                     *)
(*                                                                         *)
(* Claims are taken from LeaseTable, the specification that TaskGraph      *)
(* implements: this module composes the two.  A process runs its sessions  *)
(* on one event loop, so between two awaits a dispatch runs alone; other   *)
(* processes, the clock, the cleanup script and a crash still come in.     *)
(***************************************************************************)
EXTENDS Naturals, FiniteSetsExt, Absent

CONSTANTS
  Dispatches,  \* calls of dispatch_role_agent in one thread, in their order: 1, 2, ...
  Tasks,       \* tasks a dispatch may claim
  Ttl,         \* the sub-agent's budget, which is the term of the claim too
  StaleAge,    \* what cleanup-stale-worktrees.sh takes for old
  Horizon      \* bound: time stops here

ASSUME DispatchAssumption ==
  /\ Dispatches \subseteq Nat
  /\ Ttl \in Nat
  /\ StaleAge \in Nat
  /\ Horizon \in Nat
  /\ None \notin Dispatches \cup Tasks \cup Nat \cup [trace_id : Dispatches, expires_at : Nat]

VARIABLES
  lease,     \* the claims on record, as in LeaseTable
  held,      \* _active_task_claims: the claim of each dispatch
  now,
  place,     \* where each dispatch is
  done,      \* tasks that were completed
  tree,      \* _active_worktrees: "own", "main" (a fallback handle) or None
  disk,      \* when the worktree directory of a dispatch was made, or None
  outcome,   \* how the sub-agent ended, once it has
  node,      \* the dispatch in the session lineage: "open", then its outcome
  artifact,  \* what the artifact on disk says of the outcome
  result,    \* what the event log has as the result of the call
  of         \* the dispatch a dispatch is a resumption of, itself at first

taken        == <<lease, held, now>>
dispatchVars == <<lease, held, now, place, done, tree, disk, outcome, node, artifact, result, of>>

Loans == INSTANCE LeaseTable WITH Agents <- Dispatches

Outcomes == {"ok", "failed"}

\* Steps a dispatch does without an await in between.
Busy == {"claimed", "acquired", "ran", "ended", "released", "returned"}
Alive == Busy \cup {"running"}

Alone(d) == \A e \in Dispatches \ {d} : place[e] \notin Busy

Go(d, from, to) ==
  /\ place[d] = from
  /\ Alone(d)
  /\ place' = [place EXCEPT ![d] = to]

DispatchInit ==
  /\ Loans!Init
  /\ place = [d \in Dispatches |-> "new"]
  /\ done = {}
  /\ tree = [d \in Dispatches |-> None]
  /\ disk = [d \in Dispatches |-> None]
  /\ outcome = [d \in Dispatches |-> None]
  /\ node = [d \in Dispatches |-> None]
  /\ artifact = [d \in Dispatches |-> None]
  /\ result = [d \in Dispatches |-> None]
  /\ of = [d \in Dispatches |-> d]

-----------------------------------------------------------------------------
(* What a dispatch takes and leaves *)

\* A worktree of its own or, when git refuses or isolation is off, a handle to
\* the main copy.
MakeTree(d) ==
  \/ /\ tree' = [tree EXCEPT ![d] = "own"]
     /\ disk' = [disk EXCEPT ![d] = now]
  \/ /\ tree' = [tree EXCEPT ![d] = "main"]
     /\ UNCHANGED disk

\* A worktree is removed after a success, if git manages to; after a failure
\* it is kept for a look at it.
RemoveTree(d) ==
  \/ UNCHANGED disk
  \/ /\ tree[d] = "own"
     /\ outcome[d] = "ok"
     /\ disk' = [disk EXCEPT ![d] = None]

OpenNode(d) == node' = [node EXCEPT ![d] = "open"]

\* Every report of an end overwrites the ones before it; a node that is not
\* in memory stays away.
CloseNode(d, o) == node' = [node EXCEPT ![d] = IF @ = None THEN None ELSE o]

\* Written whole under its name, or not at all.
StoreArtifact(d) == artifact' \in {artifact, [artifact EXCEPT ![d] = outcome[d]]}

-----------------------------------------------------------------------------
(* The call *)

Started == {d \in Dispatches : place[d] # "new"}

\* Calls are numbered as they are made.
NextUp(d) == place[d] = "new" /\ \A e \in Dispatches : e < d => place[e] # "new"

\* The latest dispatch_role_agent call of the log.  A resumption is logged
\* under a name of its own and is not found.
Calls == {d \in Started : of[d] = d}

\* A result of which the log has no sign of a failure counts as a success:
\* "cut" is one whose preview ends before the outcome is mentioned.
CountsAsDone(d) == result[d] \in {"ok", "cut"}

\* A new call, or resume_last_dispatch without force.
Called(d) ==
  /\ NextUp(d)
  /\ \/ of' = of
     \/ /\ Calls # {}
        /\ ~CountsAsDone(Max(Calls))
        /\ of' = [of EXCEPT ![d] = Max(Calls)]

\* An unknown role, or a budget too small for a sub-agent.
Refuse(d) ==
  /\ Called(d)
  /\ Go(d, "new", "refused")
  /\ result' = [result EXCEPT ![d] = "failed"]
  /\ UNCHANGED <<taken, done, tree, disk, outcome, node, artifact>>

\* A resumption names no task.
ClaimTask(d, t) ==
  /\ Called(d)
  /\ of'[d] = d
  /\ t \notin done
  /\ Go(d, "new", "claimed")
  /\ Loans!Lend(d, t)
  /\ UNCHANGED <<done, tree, disk, outcome, node, artifact, result>>

\* No task, a task that another agent has or that does not exist, an error:
\* the dispatch goes on without a claim.
SkipClaim(d) ==
  /\ Called(d)
  /\ Go(d, "new", "claimed")
  /\ UNCHANGED <<taken, done, tree, disk, outcome, node, artifact, result>>

\* For a role that needs a worktree, if there is a manager for them.
AcquireTree(d) ==
  /\ Go(d, "claimed", "acquired")
  /\ MakeTree(d) \/ UNCHANGED <<tree, disk>>
  /\ UNCHANGED <<taken, done, outcome, node, artifact, result, of>>

Spawn(d) ==
  /\ Go(d, "acquired", "running")
  /\ OpenNode(d)
  /\ UNCHANGED <<taken, done, tree, disk, outcome, artifact, result, of>>

\* The sub-agent ends, its own loop telling the lineage or not.  "failed" is a
\* result without success, a TimeoutError or another exception.
Run(d) ==
  /\ Go(d, "running", "ran")
  /\ \E o \in Outcomes :
       /\ outcome' = [outcome EXCEPT ![d] = o]
       /\ CloseNode(d, o) \/ UNCHANGED node
  /\ UNCHANGED <<taken, done, tree, disk, artifact, result, of>>

EndHook(d) ==
  /\ Go(d, "ran", "ended")
  /\ CloseNode(d, outcome[d])
  /\ UNCHANGED <<taken, done, tree, disk, outcome, artifact, result, of>>

ReleaseTree(d) ==
  /\ Go(d, "ended", "released")
  /\ tree' = [tree EXCEPT ![d] = None]
  /\ RemoveTree(d)
  /\ UNCHANGED <<taken, done, outcome, node, artifact, result, of>>

\* The variant that does not expect its claim to be another's.
GiveBackOwned(d) ==
  /\ Go(d, "released", "returned")
  /\ \/ /\ held[d] = None
        /\ UNCHANGED <<taken, done>>
     \/ /\ Loans!Return(d)
        /\ done' = IF outcome[d] = "ok" THEN done \cup {held[d].task} ELSE done
  /\ UNCHANGED <<tree, disk, outcome, node, artifact, result, of>>

\* The variant that completes the task whoever has it.
GiveBackUnchecked(d) ==
  /\ Go(d, "released", "returned")
  /\ IF held[d] = None
     THEN UNCHANGED <<taken, done>>
     ELSE /\ Loans!Leave(d)
          /\ done' = IF outcome[d] = "ok" THEN done \cup {held[d].task} ELSE done
  /\ UNCHANGED <<tree, disk, outcome, node, artifact, result, of>>

\* The variant that gives back a task whoever has it.
GiveBackOthers(d) ==
  /\ Go(d, "released", "returned")
  /\ \/ /\ held[d] = None
        /\ UNCHANGED <<taken, done>>
     \/ /\ held[d] # None
        /\ lease' = [lease EXCEPT ![held[d].task] = None]
        /\ held' = [held EXCEPT ![d] = None]
        /\ now' = now
        /\ done' = done
  /\ UNCHANGED <<tree, disk, outcome, node, artifact, result, of>>

\* complete() or release(); the claim may be another's by now
\* (ClaimOwnershipError), and the board may not be writable: swallowed both.
GiveBack(d) ==
  /\ Go(d, "released", "returned")
  /\ \/ /\ held[d] = None
        /\ UNCHANGED <<taken, done>>
     \/ /\ Loans!Return(d)
        /\ done' = IF outcome[d] = "ok" THEN done \cup {held[d].task} ELSE done
     \/ /\ held[d] # None
        /\ Loans!Leave(d)
        /\ UNCHANGED done
  /\ UNCHANGED <<tree, disk, outcome, node, artifact, result, of>>

\* The artifact is written, or that fails; the loop logs the result.
Conclude(d) ==
  /\ Go(d, "returned", "over")
  /\ StoreArtifact(d)
  /\ \E r \in {outcome[d], "cut"} : result' = [result EXCEPT ![d] = r]
  /\ UNCHANGED <<taken, done, tree, disk, outcome, node, of>>

\* Cancelled while it waits for the model: CancelledError passes both except
\* clauses, and the executor with its registries is dropped.
Cancel(d) ==
  /\ Go(d, "running", "cancelled")
  /\ tree' = [tree EXCEPT ![d] = None]
  /\ Loans!Leave(d)
  /\ UNCHANGED <<done, disk, outcome, node, artifact, result, of>>

-----------------------------------------------------------------------------
(* The world *)

Crash ==
  /\ \E d \in Dispatches : place[d] \in Alive
  /\ place' = [d \in Dispatches |-> IF place[d] \in Alive THEN "lost" ELSE place[d]]
  /\ tree' = [d \in Dispatches |-> None]
  /\ node' = [d \in Dispatches |-> None]
  /\ Loans!HostLost
  /\ UNCHANGED <<done, disk, outcome, artifact, result, of>>

\* Another process, or the next claim, calls in what has expired.
Lapse ==
  /\ Loans!Recall
  /\ UNCHANGED <<place, done, tree, disk, outcome, node, artifact, result, of>>

Stale(d) == disk[d] # None /\ now - disk[d] > StaleAge

\* cleanup-stale-worktrees.sh, started by a person or by cron.
Cleanup ==
  /\ \E d \in Dispatches : Stale(d)
  /\ disk' = [d \in Dispatches |-> IF Stale(d) THEN None ELSE disk[d]]
  /\ UNCHANGED <<taken, place, done, tree, outcome, node, artifact, result, of>>

\* A session has minutes, a stale worktree is a day old.
WithinADay == \A d \in Dispatches :
  tree[d] = "own" /\ disk[d] # None => now - disk[d] < StaleAge

Tick ==
  /\ WithinADay
  /\ Loans!Tick
  /\ UNCHANGED <<place, done, tree, disk, outcome, node, artifact, result, of>>

BeginDispatch(d) == Refuse(d) \/ SkipClaim(d) \/ \E t \in Tasks : ClaimTask(d, t)

DispatchStep(d) ==
  \/ AcquireTree(d)
  \/ Spawn(d)
  \/ Run(d)
  \/ EndHook(d)
  \/ ReleaseTree(d)
  \/ GiveBack(d)
  \/ Conclude(d)

DispatchNext ==
  \/ \E d \in Dispatches : BeginDispatch(d) \/ DispatchStep(d) \/ Cancel(d)
  \/ Crash
  \/ Lapse
  \/ Cleanup
  \/ Tick

DispatchSpec == DispatchInit /\ [][DispatchNext]_dispatchVars

\* A process goes on with what it has begun; a sub-agent has a time limit.
DispatchFairSpec == DispatchSpec /\ \A d \in Dispatches : WF_dispatchVars(DispatchStep(d))

-----------------------------------------------------------------------------
(* Properties *)

PCs == Alive \cup {"new", "refused", "cancelled", "lost", "over"}

DispatchTypeOK ==
  /\ place \in [Dispatches -> PCs]
  /\ done \subseteq Tasks
  /\ tree \in [Dispatches -> {None, "own", "main"}]
  /\ disk \in [Dispatches -> {None} \cup Nat]
  /\ outcome \in [Dispatches -> {None} \cup Outcomes]
  /\ node \in [Dispatches -> {None, "open"} \cup Outcomes]
  /\ artifact \in [Dispatches -> {None} \cup Outcomes]
  /\ result \in [Dispatches -> {None, "cut"} \cup Outcomes]
  /\ of \in [Dispatches -> Dispatches]
  /\ now \in Nat

\* "Called from every exit path" holds of every path but cancellation and
\* death: a dispatch that has returned holds no claim and no handle, lineage
\* and artifact say how its sub-agent ended.
DispatchSettled == \A d \in Dispatches : place[d] = "over" =>
  /\ held[d] = None
  /\ tree[d] = None
  /\ node[d] \in {outcome[d], None}
  /\ artifact[d] \in {outcome[d], None}
  /\ result[d] \in {outcome[d], "cut"}

\* A task is completed once, by a dispatch whose sub-agent succeeded and whose
\* claim was still the one on record: never by one that lost it meanwhile.
CompletedByOwner == [][
  /\ done \subseteq done'
  /\ \A t \in done' \ done : \E d \in Dispatches :
       /\ outcome[d] = "ok"
       /\ lease[t] # None
       /\ lease[t].trace_id = d
       /\ lease'[t] = None]_dispatchVars

\* A dispatch that has a claim has its task to itself until the claim's term is over: the
\* record names it, and nobody completes the task, not even one that had it before, was
\* swept and comes back late.
TaskIsOwn == \A d \in Dispatches : held[d] # None /\ now < held[d].expires_at =>
  /\ lease[held[d].task] = [trace_id |-> d, expires_at |-> held[d].expires_at]
  /\ held[d].task \notin done

\* A dispatch that has begun comes to an end, whatever became of its claim.
EveryDispatchEnds == \A d \in Dispatches : (place[d] \in Alive) ~> (place[d] \notin Alive)

\* resume_last_dispatch: "Re-dispatch the most recent sub-agent in THIS
\* thread"; after a success "there is nothing to resume".
ResumesLatest == [][\A d \in Dispatches :
  of'[d] # of[d] => of'[of'[d]] = of'[d] /\ ~\E e \in Started :
    of[e] = of'[d] /\ result[e] = "ok"]_dispatchVars

=============================================================================
