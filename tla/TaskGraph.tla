------------------------------ MODULE TaskGraph ------------------------------
(***************************************************************************)
(* The sprint task board: team/task_graph.py (TaskGraph, the claim lease)  *)
(* on top of team/sprint_state_service.py (SprintStateService, the file).  *)
(*                                                                         *)
(* The board is one YAML file.  Its "tasks" block holds the status and the *)
(* claim of every task, its legacy lists the story status of every task.   *)
(* Writers hold the flock on .task-graph.lock for their read-modify-write; *)
(* load_tasks, and therefore the scan of release_expired and the load of   *)
(* advance, takes no lock.  Saving truncates the file and then writes it,  *)
(* so an unlocked reader may find it empty.                                *)
(*                                                                         *)
(* Procs are operating system processes: one bot runs one event loop, and  *)
(* every operation below is synchronous, so a process executes one at a    *)
(* time, while two processes interleave at every step.  Agents are         *)
(* dispatches (child trace ids): each claims at most one task, once.       *)
(***************************************************************************)
EXTENDS Naturals, FiniteSets

CONSTANTS
  Procs,      \* bot processes sharing the file
  Agents,     \* child trace ids
  Tasks,      \* ids in the tasks block, which are also the story keys
  Home,       \* Home[a]: the process that dispatches agent a
  Advancers,  \* processes in which advance_sprint_state is called
  Stories,    \* bound: the tasks whose story is advanced
  DepsOf,     \* DepsOf[t]: blockedBy of t
  GroupOf,    \* GroupOf[t]: concurrency_group of t, or None
  RankOf,     \* RankOf[t]: position in the order of _priority_key
  Ttl,        \* ttl_seconds of every claim
  Horizon,    \* bound: the clock stops here, and no claim outlives it
  EmptyFile,  \* the file truncated and not yet rewritten
  None

Statuses      == {"pending", "in-progress", "done", "blocked"}
StoryStatuses == {"planned", "in-progress", "review", "done", "blocked"}
Times  == 0 .. Horizon
Lease  == [trace_id : Agents, expires_at : Times]
Task   == [status : Statuses, claim : Lease \cup {None}]
Job    == [task : Tasks, expires_at : Times]
Board  == [tasks : [Tasks -> Task], story : [Tasks -> StoryStatuses]]

ASSUME BoardAssumption ==
  /\ Home \in [Agents -> Procs]
  /\ Advancers \subseteq Procs
  /\ Stories \subseteq Tasks
  /\ DepsOf \in [Tasks -> SUBSET Tasks]
  /\ RankOf \in [Tasks -> Nat]
  /\ Ttl \in Nat \ {0}
  /\ Horizon \in Nat
  /\ None \notin Procs \cup Agents \cup Tasks \cup Lease \cup Job
  /\ EmptyFile \notin Board

VARIABLES
  disk,     \* the file: a Board, or EmptyFile while it is being rewritten
  flock,    \* the process that holds .task-graph.lock, or None
  op,       \* op[p]: the operation process p is executing
  phase,    \* phase[a]: where agent a is in its life
  job,      \* job[a]: the claim agent a was given, None outside "working"
  now       \* unix seconds, time.time()

vars == <<disk, flock, op, phase, job, now>>

\* then: what the operation does once the save in progress has ended.
Pcs    == {"idle", "sweep", "cas", "list", "advance", "upsert", "saving"}
Op     == [pc : Pcs, then : Pcs, agent : Agents \cup {None},
           task : Tasks \cup {None}, to : StoryStatuses,
           stale : SUBSET Tasks, data : Board \cup {EmptyFile}]
IdleOp == [pc |-> "idle", then |-> "idle", agent |-> None, task |-> None,
           to |-> "planned", stale |-> {}, data |-> EmptyFile]

Init ==
  /\ disk = [tasks |-> [t \in Tasks |-> [status |-> "pending", claim |-> None]],
             story |-> [t \in Tasks |-> "planned"]]
  /\ flock = None
  /\ op = [p \in Procs |-> IdleOp]
  /\ phase = [a \in Agents |-> "new"]
  /\ job = [a \in Agents |-> None]
  /\ now = 0

-----------------------------------------------------------------------------
(* Pure helpers.                                                           *)

\* Faulty variant: a second too early.
IsExpiredEarly(claim) == now + 1 >= claim.expires_at

\* ClaimLease.is_expired: closed on the expired side.
IsExpired(claim) == now >= claim.expires_at

\* The ids release_expired collects from a board it loaded without the lock.
ExpiredIn(b) ==
  IF b = EmptyFile THEN {}
  ELSE {t \in Tasks : b.tasks[t].claim # None /\ IsExpired(b.tasks[t].claim)}

\* Faulty variant: the status is reset and the claim forgotten in place.
DropStatusOnly(b, ids) ==
  IF b = EmptyFile THEN EmptyFile
  ELSE [tasks |-> [t \in Tasks |-> IF t \in ids
                                   THEN [status |-> "pending", claim |-> b.tasks[t].claim]
                                   ELSE b.tasks[t]],
        story |-> b.story]

\* _mutate_all: every collected id goes back to pending, whatever it is by now.
DropClaims(b, ids) ==
  IF b = EmptyFile THEN EmptyFile
  ELSE [tasks |-> [t \in Tasks |-> IF t \in ids
                                   THEN [status |-> "pending", claim |-> None]
                                   ELSE b.tasks[t]],
        story |-> b.story]

\* One task rewritten, as update_task writes the list back.
SetTask(b, t, status, claim) ==
  [tasks |-> [b.tasks EXCEPT ![t] = [status |-> status, claim |-> claim]],
   story |-> b.story]

\* One story moved in the legacy lists, as apply_transition leaves them.
SetStory(b, t, to) == [tasks |-> b.tasks, story |-> [b.story EXCEPT ![t] = to]]

\* Faulty variant: any task that is still open may be taken.
OpenSuffices(b, t) == b # EmptyFile /\ b.tasks[t].status # "done"

\* What the CAS of claim() requires of the task it finds.
Claimable(b, t) ==
  /\ b # EmptyFile
  /\ b.tasks[t].status = "pending"
  /\ b.tasks[t].claim = None

\* Faulty variant: any claim will do.
SomeoneOwns(b, a, t) == b # EmptyFile /\ b.tasks[t].claim # None

\* The ownership test of release() and complete().
Owns(b, a, t) ==
  /\ b # EmptyFile
  /\ b.tasks[t].claim # None
  /\ b.tasks[t].claim.trace_id = a

\* Task.is_runnable: pending, unclaimed, every dependency done.
IsRunnable(b, t) ==
  /\ Claimable(b, t)
  /\ \A d \in DepsOf[t] : b.tasks[d].status = "done"

\* list_runnable: the first runnable task of each concurrency group.
Runnable(b) ==
  {t \in Tasks :
     /\ IsRunnable(b, t)
     /\ \A u \in Tasks :
          (IsRunnable(b, u) /\ GroupOf[u] = GroupOf[t] /\ GroupOf[t] # None)
             => RankOf[t] <= RankOf[u]}

\* _coerce_status: story vocabulary to task vocabulary.
CoerceStatus(s) ==
  CASE s = "planned" -> "pending" [] s = "review" -> "in-progress" [] OTHER -> s

\* ALLOWED_TRANSITIONS.
Allowed(from) ==
  CASE from = "planned"     -> {"in-progress", "blocked"}
    [] from = "in-progress" -> {"review", "done", "blocked"}
    [] from = "review"      -> {"done", "in-progress", "blocked"}
    [] from = "blocked"     -> {"planned", "in-progress"}
    [] from = "done"        -> {}

\* _pick_status_for_auto_advance: a story that is blocked or done is refused even if a
\* status is asked for, so two rows of the table above are never used.
AutoAdvanceable == {"review", "in-progress", "planned"}

\* apply_transition, once the story is found.
Transitions(b, t) == IF b.story[t] \in AutoAdvanceable THEN Allowed(b.story[t]) ELSE {}

-----------------------------------------------------------------------------
(* The file.  A save truncates it; SaveEnd writes it and, at the end of    *)
(* the critical section, unlocks.                                          *)

LockFree == flock = None

BeginSave(p, data, then) ==
  /\ disk' = EmptyFile
  /\ flock' = p
  /\ op' = [op EXCEPT ![p] =
             [pc |-> "saving", then |-> then, agent |-> op[p].agent, task |-> op[p].task,
              to |-> op[p].to, stale |-> {}, data |-> data]]

SaveEnd(p) ==
  /\ op[p].pc = "saving"
  /\ disk' = op[p].data
  /\ flock' = IF op[p].then = "upsert" THEN p ELSE None
  /\ op' = [op EXCEPT ![p] =
             IF op[p].then = "idle" THEN IdleOp
             ELSE [pc |-> op[p].then, then |-> "idle", agent |-> op[p].agent,
                   task |-> op[p].task, to |-> op[p].to, stale |-> {},
                   data |-> EmptyFile]]
  /\ UNCHANGED <<phase, job, now>>

-----------------------------------------------------------------------------
(* release_expired: scan without the lock, reset under it.  It opens every *)
(* claim() and every read of the board.                                    *)

BeginScan(p, a, t, then) ==
  /\ op[p].pc = "idle"
  /\ LET stale == ExpiredIn(disk) IN
     op' = [op EXCEPT ![p] =
             [pc |-> IF stale = {} THEN then ELSE "sweep", then |-> then,
              agent |-> a, task |-> t, to |-> "planned", stale |-> stale,
              data |-> EmptyFile]]

Sweep(p) ==
  /\ op[p].pc = "sweep"
  /\ LockFree
  /\ BeginSave(p, DropClaims(disk, op[p].stale), op[p].then)
  /\ UNCHANGED <<phase, job, now>>

ListStart(p) ==
  /\ BeginScan(p, None, None, "list")
  /\ UNCHANGED <<disk, flock, phase, job, now>>

\* What it returns, Runnable(disk), is not kept: list_all and list_runnable
\* change the board only through the sweep.
ListEnd(p) ==
  /\ op[p].pc = "list"
  /\ op' = [op EXCEPT ![p] = IdleOp]
  /\ UNCHANGED <<disk, flock, phase, job, now>>

-----------------------------------------------------------------------------
(* claim(): scan, sweep, then compare-and-set under the lock.              *)

ClaimStart(a, t) ==
  /\ phase[a] = "new"
  /\ BeginScan(Home[a], a, t, "cas")
  /\ phase' = [phase EXCEPT ![a] = "claiming"]
  /\ UNCHANGED <<disk, flock, job, now>>

Grant(p) ==
  LET a == op[p].agent
      t == op[p].task
      lease == [trace_id |-> a, expires_at |-> now + Ttl]
  IN
  /\ op[p].pc = "cas"
  /\ LockFree
  /\ now + Ttl <= Horizon
  /\ Claimable(disk, t)
  /\ BeginSave(p, SetTask(disk, t, "in-progress", lease), "idle")
  /\ phase' = [phase EXCEPT ![a] = "working"]
  /\ job' = [job EXCEPT ![a] = [task |-> t, expires_at |-> now + Ttl]]
  /\ UNCHANGED now

\* ClaimConflictError or TaskNotFoundError: nothing is written, and the
\* dispatch goes on without a claim.  The last disjunct is the bound of the clock.
Refuse(p) ==
  /\ op[p].pc = "cas"
  /\ LockFree
  /\ ~Claimable(disk, op[p].task) \/ now + Ttl > Horizon
  /\ phase' = [phase EXCEPT ![op[p].agent] = "ended"]
  /\ op' = [op EXCEPT ![p] = IdleOp]
  /\ UNCHANGED <<disk, flock, job, now>>

-----------------------------------------------------------------------------
(* complete() and release(), as _release_task_claim_for calls them when    *)
(* the dispatch exits; ClaimOwnershipError is swallowed there.             *)

End(a) ==
  /\ phase' = [phase EXCEPT ![a] = "ended"]
  /\ job' = [job EXCEPT ![a] = None]

GiveBack(a, status) ==
  LET p == Home[a]
      t == job[a].task
  IN
  /\ phase[a] = "working"
  /\ op[p].pc = "idle"
  /\ LockFree
  /\ \/ /\ Owns(disk, a, t)
        /\ BeginSave(p, SetTask(disk, t, status, None), "idle")
     \/ /\ ~Owns(disk, a, t)
        /\ UNCHANGED <<disk, flock, op>>
  /\ End(a)
  /\ UNCHANGED now

Complete(a) == GiveBack(a, "done")
Release(a)  == GiveBack(a, "pending")

\* The dispatch coroutine is cancelled: neither method is called.
Abandon(a) ==
  /\ phase[a] = "working"
  /\ op[Home[a]].pc = "idle"
  /\ End(a)
  /\ UNCHANGED <<disk, flock, op, now>>

-----------------------------------------------------------------------------
(* advance(): the whole file is loaded before the lock is taken; under it, *)
(* that copy is saved with the story moved, and the tasks block upserted.  *)

AdvanceLoad(p, t, to) ==
  /\ p \in Advancers
  /\ op[p].pc = "idle"
  /\ disk # EmptyFile
  /\ to \in Transitions(disk, t)
  /\ op' = [op EXCEPT ![p] =
             [pc |-> "advance", then |-> "idle", agent |-> None, task |-> t,
              to |-> to, stale |-> {}, data |-> SetStory(disk, t, to)]]
  /\ UNCHANGED <<disk, flock, phase, job, now>>

AdvanceSave(p) ==
  /\ op[p].pc = "advance"
  /\ LockFree
  /\ BeginSave(p, op[p].data, "upsert")
  /\ UNCHANGED <<phase, job, now>>

\* _apply_changes_to_tasks_block: the status changes, the claim stays.
Upsert(p) ==
  /\ op[p].pc = "upsert"
  /\ LET t == op[p].task IN
     BeginSave(p, SetTask(disk, t, CoerceStatus(op[p].to), disk.tasks[t].claim), "idle")
  /\ UNCHANGED <<phase, job, now>>

-----------------------------------------------------------------------------
(* The environment: the clock, and a process that dies and restarts.  The  *)
(* kernel drops its flock; a save it had begun leaves the file empty.      *)

Crash(p) ==
  /\ op' = [op EXCEPT ![p] = IdleOp]
  /\ flock' = IF flock = p THEN None ELSE flock
  /\ phase' = [a \in Agents |->
                 IF Home[a] = p /\ phase[a] \in {"claiming", "working"}
                 THEN "ended" ELSE phase[a]]
  /\ job' = [a \in Agents |-> IF Home[a] = p THEN None ELSE job[a]]
  /\ UNCHANGED <<disk, now>>

Tick ==
  /\ now < Horizon
  /\ now' = now + 1
  /\ UNCHANGED <<disk, flock, op, phase, job>>

OpStep(p) ==
  \/ Sweep(p) \/ ListEnd(p) \/ Grant(p) \/ Refuse(p)
  \/ AdvanceSave(p) \/ Upsert(p) \/ SaveEnd(p)

Next ==
  \/ \E p \in Procs : OpStep(p) \/ ListStart(p) \/ Crash(p)
  \/ \E p \in Procs, t \in Stories, to \in StoryStatuses : AdvanceLoad(p, t, to)
  \/ \E a \in Agents, t \in Tasks : ClaimStart(a, t)
  \/ \E a \in Agents : Complete(a) \/ Release(a) \/ Abandon(a)
  \/ Tick

Spec == Init /\ [][Next]_vars

\* Time passes; nothing else is assumed to happen.
FairSpec == Spec /\ WF_vars(Tick)

-----------------------------------------------------------------------------
(* Properties.                                                             *)

\* Types of every variable; a save in progress is the only holder of the lock
\* besides the second half of advance.
TypeOK ==
  /\ disk \in Board \cup {EmptyFile}
  /\ flock \in Procs \cup {None}
  /\ op \in [Procs -> Op]
  /\ phase \in [Agents -> {"new", "claiming", "working", "ended"}]
  /\ job \in [Agents -> Job \cup {None}]
  /\ now \in Times

\* The board as its writers see it: what is being written, else what is there.
CommittedBoard ==
  IF flock # None /\ op[flock].pc = "saving" THEN op[flock].data ELSE disk

ClaimOf(t) ==
  IF CommittedBoard = EmptyFile THEN None ELSE CommittedBoard.tasks[t].claim

\* An agent whose lease term still runs is on record as the holder of its task:
\* no sweep, no other claim and no advance took it away (task_graph.py:343-364,
\* 415-443).  Two agents are then never inside their terms on one task.
OwnLeaseIntact ==
  \A a \in Agents :
    (phase[a] = "working" /\ now < job[a].expires_at)
      => ClaimOf(job[a].task) = [trace_id |-> a, expires_at |-> job[a].expires_at]

DropIsDue(t) ==
  (ClaimOf(t) # None /\ ClaimOf(t)' # ClaimOf(t))
    => \/ now >= ClaimOf(t).expires_at
       \/ /\ phase[ClaimOf(t).trace_id] = "working"
          /\ phase'[ClaimOf(t).trace_id] = "ended"
       \/ CommittedBoard' = EmptyFile

\* A claim leaves the record only when its term is over, when its own agent gives
\* it back or dies, or when a crash in the middle of a save loses the whole file:
\* "Drop every expired claim" (task_graph.py:416) drops nothing else.
ClaimDropsAreDue == [][\A t \in Tasks : DropIsDue(t)]_vars

\* A concurrency group "shows up as 1 runnable until the current holder
\* finishes" (task_graph.py:11-13): list_runnable offers no task of a group while
\* another task of that group is in progress under a claim.
RunnableRespectsHolder ==
  \A t, u \in Tasks :
    (/\ disk # EmptyFile /\ t \in Runnable(disk)
     /\ GroupOf[u] = GroupOf[t] /\ GroupOf[t] # None)
      => ~(disk.tasks[u].status = "in-progress" /\ disk.tasks[u].claim # None)

\* "Close out a task permanently" (task_graph.py:393): once done, always done.
DoneIsPermanent ==
  [][\A t \in Tasks :
       (CommittedBoard # EmptyFile /\ CommittedBoard' # EmptyFile
          /\ CommittedBoard.tasks[t].status = "done")
         => CommittedBoard'.tasks[t].status = "done"]_vars

\* The claim of an agent that is gone.
Dangling(t) == ClaimOf(t) # None /\ phase[ClaimOf(t).trace_id] = "ended"

\* "A dead agent can't monopolise a task forever" (task_graph.py:19-20): as long
\* as the board keeps being read, the claim of a dead agent is dropped.
DeadClaimReleased ==
  (\E p \in Procs : []<><<ListEnd(p)>>_vars)
    => \A t \in Tasks : Dangling(t) ~> ~Dangling(t)

\* The lease as its callers may think of it.
LeaseView == [t \in Tasks |-> ClaimOf(t)]

LT == INSTANCE LeaseTable WITH lease <- LeaseView, held <- job

\* The board implements the lease table (task_graph.py:1-38): with one
\* scheduling process every step is a step of the abstract lease or none.
ImplementsLeaseTable == LT!Spec

=============================================================================
