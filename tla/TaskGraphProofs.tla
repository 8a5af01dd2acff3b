--------------------------- MODULE TaskGraphProofs ---------------------------
(***************************************************************************)
(* Proofs about TaskGraph: its types for any number of processes, and the  *)
(* lease for one scheduling process.                                       *)
(***************************************************************************)
EXTENDS TaskGraph, TLAPS

LEMMA DropClaimsType ==
  ASSUME NEW b \in Board \cup {EmptyFile}, NEW ids \in SUBSET Tasks
  PROVE  DropClaims(b, ids) \in Board \cup {EmptyFile}
BY DEF DropClaims, Board, Task, Statuses

LEMMA SetTaskType ==
  ASSUME NEW b \in Board, NEW t \in Tasks, NEW status \in Statuses,
         NEW claim \in Lease \cup {None}
  PROVE  SetTask(b, t, status, claim) \in Board
BY DEF Board, SetTask, Task

LEMMA SetStoryType ==
  ASSUME NEW b \in Board, NEW t \in Tasks, NEW to \in StoryStatuses
  PROVE  SetStory(b, t, to) \in Board
BY DEF Board, SetStory

LEMMA CoerceType ==
  ASSUME NEW s \in StoryStatuses
  PROVE  CoerceStatus(s) \in Statuses
BY DEF CoerceStatus, StoryStatuses, Statuses

\* The well-formedness of the operation records that the typing of a step needs:
\* a compare-and-set has an agent and a task, an advance has a task and a board,
\* and the second half of an advance reads the file its first half wrote.
OpOK(p) ==
  /\ op[p].pc = "cas" \/ (op[p].pc \in {"sweep", "saving"} /\ op[p].then = "cas")
       => /\ op[p].agent \in Agents
          /\ op[p].task \in Tasks
          /\ phase[op[p].agent] = "claiming"
          /\ Home[op[p].agent] = p
  /\ op[p].pc = "advance" => op[p].task \in Tasks /\ op[p].data \in Board
  /\ op[p].pc = "saving" /\ op[p].then = "upsert"
       => op[p].task \in Tasks /\ op[p].data \in Board
  /\ op[p].pc = "upsert" => op[p].task \in Tasks /\ disk \in Board
  /\ op[p].pc \in {"saving", "upsert"} <=> flock = p
  /\ op[p].pc = "sweep" => op[p].then \in {"cas", "list"}
  /\ op[p].pc = "saving" => op[p].then \in {"cas", "list", "upsert", "idle"}

JobOK == \A a \in Agents : phase[a] = "working" <=> job[a] # None

TypeInv == TypeOK /\ JobOK /\ \A p \in Procs : OpOK(p)

LEMMA IdleOpType == IdleOp \in Op
BY DEF IdleOp, Op, Pcs, StoryStatuses

LEMMA InitTypeInv == Init => TypeInv
<1> SUFFICES ASSUME Init PROVE TypeInv
  OBVIOUS
<1>1. disk \in Board
  BY DEF Init, Board, Task, Statuses, StoryStatuses
<1>2. TypeOK
  BY <1>1, IdleOpType, BoardAssumption DEF Init, TypeOK, Times
<1>3. JobOK
  BY DEF Init, JobOK
<1>4. ASSUME NEW p \in Procs PROVE OpOK(p)
  BY <1>4, BoardAssumption DEF Init, OpOK, IdleOp
<1> QED
  BY <1>2, <1>3, <1>4 DEF TypeInv

LEMMA SaveEndTypeInv ==
  ASSUME TypeInv, NEW p \in Procs, SaveEnd(p)
  PROVE  TypeInv'
<1> USE BoardAssumption DEF TypeInv
<1>1. op'[p] \in Op /\ disk' \in Board \cup {EmptyFile}
  BY IdleOpType DEF SaveEnd, TypeOK, OpOK, Op, Pcs
<1>2. TypeOK'
  BY <1>1 DEF SaveEnd, TypeOK
<1>3. JobOK'
  BY DEF SaveEnd, JobOK
<1>4. ASSUME NEW q \in Procs, q # p PROVE OpOK(q)'
  BY <1>4 DEF SaveEnd, TypeOK, OpOK
<1>5. OpOK(p)'
  BY DEF SaveEnd, TypeOK, OpOK, IdleOp
<1> QED
  BY <1>2, <1>3, <1>4, <1>5

\* Every action that begins a save: the caller holds the lock or finds it free.
LEMMA BeginSaveTypeInv ==
  ASSUME TypeInv, NEW p \in Procs, NEW data \in Board \cup {EmptyFile},
         NEW then \in {"cas", "list", "upsert", "idle"},
         BeginSave(p, data, then),
         flock \in {None, p},
         then = "cas" => op[p].pc = "sweep" /\ op[p].then = "cas" /\ UNCHANGED phase,
         then = "upsert" => op[p].task \in Tasks /\ data \in Board
  PROVE  /\ disk' \in Board \cup {EmptyFile}
         /\ flock' \in Procs \cup {None}
         /\ op' \in [Procs -> Op]
         /\ OpOK(p)'
         /\ \A q \in Procs \ {p} :
              (op[q].agent \in Agents => phase'[op[q].agent] = phase[op[q].agent])
                => OpOK(q)'
<1> USE BoardAssumption DEF TypeInv
<1>1. op'[p] \in Op
  BY DEF BeginSave, TypeOK, Op, Pcs
<1>2. op' \in [Procs -> Op]
  BY <1>1 DEF BeginSave, TypeOK
<1>3. OpOK(p)'
  BY DEF BeginSave, TypeOK, OpOK
<1>4. ASSUME NEW q \in Procs \ {p},
             op[q].agent \in Agents => phase'[op[q].agent] = phase[op[q].agent]
      PROVE  OpOK(q)'
  BY <1>4 DEF BeginSave, TypeOK, OpOK
<1> QED
  BY <1>2, <1>3, <1>4 DEF BeginSave

LEMMA SweepTypeInv ==
  ASSUME TypeInv, NEW p \in Procs, Sweep(p)
  PROVE  TypeInv'
<1> USE DEF TypeInv, Sweep, LockFree
<1>1. op[p].stale \in SUBSET Tasks /\ op[p].then \in {"cas", "list"}
  BY DEF TypeOK, OpOK, Op
<1>2. DropClaims(disk, op[p].stale) \in Board \cup {EmptyFile}
  BY <1>1, DropClaimsType DEF TypeOK
<1> QED
  BY <1>1, <1>2, BeginSaveTypeInv DEF TypeOK, JobOK

LEMMA GrantTypeInv ==
  ASSUME TypeInv, NEW p \in Procs, Grant(p)
  PROVE  TypeInv'
<1> USE BoardAssumption DEF TypeInv
<1> DEFINE a == op[p].agent
           t == op[p].task
           e == now + Ttl
<1>1. a \in Agents /\ t \in Tasks /\ phase[a] = "claiming" /\ Home[a] = p
  BY DEF Grant, OpOK
<1>2. e \in Times /\ [trace_id |-> a, expires_at |-> e] \in Lease
  BY <1>1 DEF Grant, TypeOK, Times, Lease
<1>3. SetTask(disk, t, "in-progress", [trace_id |-> a, expires_at |-> e]) \in Board
  BY <1>1, <1>2, SetTaskType DEF Grant, Claimable, TypeOK, Statuses
<1>4. /\ phase' = [phase EXCEPT ![a] = "working"]
      /\ job' = [job EXCEPT ![a] = [task |-> t, expires_at |-> e]]
      /\ UNCHANGED now
  BY DEF Grant
<1>5. [task |-> t, expires_at |-> e] \in Job /\ [task |-> t, expires_at |-> e] # None
  BY <1>1, <1>2 DEF Job
<1>6. ASSUME NEW q \in Procs \ {p}, op[q].agent \in Agents, op[q].agent = a
      PROVE  OpOK(q)'
  BY <1>1, <1>6 DEF Grant, BeginSave, LockFree, TypeOK, OpOK
<1>7. JobOK'
  BY <1>1, <1>4, <1>5 DEF JobOK, TypeOK
<1>8. TypeOK' /\ \A q \in Procs : OpOK(q)'
  BY <1>1, <1>3, <1>4, <1>5, <1>6, BeginSaveTypeInv DEF Grant, LockFree, TypeOK
<1> QED
  BY <1>7, <1>8

LEMMA ExpiredInType ==
  ASSUME NEW b PROVE ExpiredIn(b) \in SUBSET Tasks
BY DEF ExpiredIn

LEMMA ListStartTypeInv ==
  ASSUME TypeInv, NEW p \in Procs, ListStart(p)
  PROVE  TypeInv'
<1> USE BoardAssumption DEF TypeInv, ListStart, BeginScan
<1>1. op'[p] \in Op
  BY ExpiredInType DEF TypeOK, Op, Pcs, StoryStatuses
<1>2. ASSUME NEW q \in Procs PROVE OpOK(q)'
  BY DEF TypeOK, OpOK
<1> QED
  BY <1>1, <1>2 DEF TypeOK, JobOK

LEMMA ClaimStartTypeInv ==
  ASSUME TypeInv, NEW a \in Agents, NEW t \in Tasks, ClaimStart(a, t)
  PROVE  TypeInv'
<1> USE BoardAssumption DEF TypeInv, ClaimStart, BeginScan
<1>1. op'[Home[a]] \in Op
  BY ExpiredInType DEF TypeOK, Op, Pcs, StoryStatuses
<1>2. ASSUME NEW q \in Procs PROVE OpOK(q)'
  BY DEF TypeOK, OpOK
<1> QED
  BY <1>1, <1>2 DEF TypeOK, JobOK

LEMMA ListEndTypeInv ==
  ASSUME TypeInv, NEW p \in Procs, ListEnd(p)
  PROVE  TypeInv'
<1> USE BoardAssumption DEF TypeInv, ListEnd
<1>1. ASSUME NEW q \in Procs PROVE OpOK(q)'
  BY DEF TypeOK, OpOK, IdleOp
<1> QED
  BY <1>1, IdleOpType DEF TypeOK, JobOK

LEMMA RefuseTypeInv ==
  ASSUME TypeInv, NEW p \in Procs, Refuse(p)
  PROVE  TypeInv'
<1> USE BoardAssumption DEF TypeInv, Refuse
<1>1. op[p].agent \in Agents /\ phase[op[p].agent] = "claiming" /\ Home[op[p].agent] = p
  BY DEF OpOK
<1>2. ASSUME NEW q \in Procs PROVE OpOK(q)'
  BY <1>1 DEF TypeOK, OpOK, IdleOp
<1> QED
  BY <1>1, <1>2, IdleOpType DEF TypeOK, JobOK

LEMMA GiveBackTypeInv ==
  ASSUME TypeInv, NEW a \in Agents, NEW status \in {"done", "pending"}, GiveBack(a, status)
  PROVE  TypeInv'
<1> USE BoardAssumption DEF TypeInv
<1> DEFINE p == Home[a]
           t == job[a].task
<1>1. p \in Procs /\ t \in Tasks /\ phase[a] = "working" /\ op[p].pc = "idle"
  BY DEF GiveBack, TypeOK, JobOK, Job
<1>2. /\ phase' = [phase EXCEPT ![a] = "ended"]
      /\ job' = [job EXCEPT ![a] = None]
      /\ UNCHANGED now
  BY DEF GiveBack, End
<1>3. JobOK'
  BY <1>2 DEF JobOK, TypeOK
<1>4. CASE Owns(disk, a, t) /\ BeginSave(p, SetTask(disk, t, status, None), "idle")
  <2>1. SetTask(disk, t, status, None) \in Board
    BY <1>1, <1>4, SetTaskType DEF Owns, TypeOK, Statuses
  <2>2. ASSUME NEW q \in Procs \ {p}, op[q].agent \in Agents, op[q].agent = a
        PROVE  OpOK(q)'
    BY <1>1, <1>4, <2>2 DEF BeginSave, GiveBack, LockFree, TypeOK, OpOK
  <2>3. flock = None
    BY DEF GiveBack, LockFree
  <2> QED
    BY <1>1, <1>2, <1>3, <1>4, <2>1, <2>2, <2>3, BeginSaveTypeInv DEF TypeOK
<1>5. CASE UNCHANGED <<disk, flock, op>>
  <2>1. ASSUME NEW q \in Procs PROVE OpOK(q)'
    BY <1>1, <1>2, <1>5 DEF TypeOK, OpOK
  <2> QED
    BY <1>2, <1>3, <1>5, <2>1 DEF TypeOK
<1> QED
  BY <1>4, <1>5 DEF GiveBack

LEMMA AbandonTypeInv ==
  ASSUME TypeInv, NEW a \in Agents, Abandon(a)
  PROVE  TypeInv'
<1> USE BoardAssumption DEF TypeInv, Abandon, End
<1>1. ASSUME NEW q \in Procs PROVE OpOK(q)'
  BY DEF TypeOK, OpOK
<1> QED
  BY <1>1 DEF TypeOK, JobOK

LEMMA AdvanceLoadTypeInv ==
  ASSUME TypeInv, NEW p \in Procs, NEW t \in Tasks, NEW to \in StoryStatuses,
         AdvanceLoad(p, t, to)
  PROVE  TypeInv'
<1> USE BoardAssumption DEF TypeInv, AdvanceLoad
<1>1. SetStory(disk, t, to) \in Board
  BY SetStoryType DEF TypeOK
<1>2. op'[p] \in Op
  BY <1>1 DEF TypeOK, Op, Pcs
<1>3. ASSUME NEW q \in Procs PROVE OpOK(q)'
  BY <1>1 DEF TypeOK, OpOK
<1> QED
  BY <1>2, <1>3 DEF TypeOK, JobOK

LEMMA AdvanceSaveTypeInv ==
  ASSUME TypeInv, NEW p \in Procs, AdvanceSave(p)
  PROVE  TypeInv'
<1> USE BoardAssumption DEF TypeInv, AdvanceSave, LockFree
<1>1. op[p].task \in Tasks /\ op[p].data \in Board
  BY DEF OpOK
<1> QED
  BY <1>1, BeginSaveTypeInv DEF TypeOK, JobOK

LEMMA UpsertTypeInv ==
  ASSUME TypeInv, NEW p \in Procs, Upsert(p)
  PROVE  TypeInv'
<1> USE BoardAssumption DEF TypeInv, Upsert
<1> DEFINE t == op[p].task
<1>1. t \in Tasks /\ disk \in Board /\ flock = p
  BY DEF OpOK
<1>2. CoerceStatus(op[p].to) \in Statuses /\ disk.tasks[t].claim \in Lease \cup {None}
  BY <1>1, CoerceType DEF TypeOK, Op, Board, Task
<1>3. SetTask(disk, t, CoerceStatus(op[p].to), disk.tasks[t].claim) \in Board
  BY <1>1, <1>2, SetTaskType
<1> QED
  BY <1>1, <1>3, BeginSaveTypeInv DEF TypeOK, JobOK

LEMMA CrashTypeInv ==
  ASSUME TypeInv, NEW p \in Procs, Crash(p)
  PROVE  TypeInv'
<1> USE BoardAssumption DEF TypeInv, Crash
<1>1. TypeOK'
  BY IdleOpType DEF TypeOK
<1>2. JobOK'
  BY DEF TypeOK, JobOK
<1>3. ASSUME NEW q \in Procs PROVE OpOK(q)'
  BY DEF TypeOK, OpOK, IdleOp
<1> QED
  BY <1>1, <1>2, <1>3

LEMMA TickTypeInv == TypeInv /\ Tick => TypeInv'
BY BoardAssumption DEF TypeInv, TypeOK, JobOK, OpOK, Tick, Times

LEMMA NextTypeInv == TypeInv /\ [Next]_vars => TypeInv'
<1> SUFFICES ASSUME TypeInv, [Next]_vars PROVE TypeInv'
  OBVIOUS
<1>1. ASSUME NEW p \in Procs, OpStep(p) PROVE TypeInv'
  BY <1>1, SweepTypeInv, ListEndTypeInv, GrantTypeInv, RefuseTypeInv, AdvanceSaveTypeInv,
     UpsertTypeInv, SaveEndTypeInv DEF OpStep
<1>2. ASSUME NEW a \in Agents, Complete(a) \/ Release(a) \/ Abandon(a) PROVE TypeInv'
  BY <1>2, GiveBackTypeInv, AbandonTypeInv DEF Complete, Release
<1>3. ASSUME NEW p \in Procs, NEW t \in Stories, NEW to \in StoryStatuses,
             AdvanceLoad(p, t, to)
      PROVE  TypeInv'
  BY <1>3, BoardAssumption, AdvanceLoadTypeInv
<1>4. CASE UNCHANGED vars
  BY <1>4 DEF vars, TypeInv, TypeOK, JobOK, OpOK
<1> QED
  BY <1>1, <1>2, <1>3, <1>4, ListStartTypeInv, CrashTypeInv, ClaimStartTypeInv, TickTypeInv
  DEF Next

\* The board, the lock and every operation record keep their types, whatever the
\* number of processes, and a save in progress or the middle of an advance is
\* exactly what holds the lock (sprint_state_service.py:391-415).
THEOREM TypeCorrect == Spec => []TypeOK
<1>1. Spec => []TypeInv
  BY InitTypeInv, NextTypeInv, PTL DEF Spec
<1>2. TypeInv => TypeOK
  BY DEF TypeInv
<1> QED
  BY <1>1, <1>2, PTL

-----------------------------------------------------------------------------
(* One scheduling process.  Its operations do not interleave with each     *)
(* other, so what release_expired and advance read without the lock still  *)
(* holds when they write.                                                  *)

OneProcess == \A p, q \in Procs : p = q

\* What a sweep is about to reset has expired; what an advance is about to save
\* has the tasks of the file; a save leaves the file empty until it ends; and a lost
\* file leaves nobody working.
StaleReadsHold ==
  /\ \A p \in Procs :
       /\ op[p].pc = "sweep" /\ disk # EmptyFile =>
            \A t \in op[p].stale :
              disk.tasks[t].claim # None /\ now >= disk.tasks[t].claim.expires_at
       /\ op[p].pc = "advance" => disk # EmptyFile /\ op[p].data.tasks = disk.tasks
       /\ op[p].pc = "saving" => disk = EmptyFile
  /\ CommittedBoard = EmptyFile => \A a \in Agents : phase[a] # "working"

LeaseInv == TypeInv /\ StaleReadsHold /\ OwnLeaseIntact

\* The claims on record depend only on the board that is committed.
ClaimsIn(b) == [t \in Tasks |-> IF b = EmptyFile THEN None ELSE b.tasks[t].claim]

LEMMA LeaseViewIsClaims == LeaseView = ClaimsIn(CommittedBoard)
BY DEF LeaseView, ClaimOf, ClaimsIn

\* Starting a save commits its data; ending it changes nothing that is committed.
LEMMA CommittedAfterBegin ==
  ASSUME TypeInv, NEW p \in Procs, NEW data \in Board \cup {EmptyFile}, NEW then,
         BeginSave(p, data, then)
  PROVE  CommittedBoard' = data
BY BoardAssumption DEF TypeInv, TypeOK, BeginSave, CommittedBoard

LEMMA CommittedWhenIdle ==
  ASSUME TypeInv, NEW p \in Procs, OneProcess, op[p].pc # "saving"
  PROVE  CommittedBoard = disk
BY BoardAssumption DEF TypeInv, TypeOK, OneProcess, CommittedBoard

LEMMA CommittedAfterEnd ==
  ASSUME TypeInv, NEW p \in Procs, SaveEnd(p)
  PROVE  CommittedBoard' = CommittedBoard
BY BoardAssumption DEF TypeInv, TypeOK, OpOK, SaveEnd, CommittedBoard, IdleOp

\* When nothing the lease depends on changes, it is still intact.
LEMMA LeaseKept ==
  ASSUME TypeInv, OwnLeaseIntact, LeaseView' = LeaseView, now' \in {now, now + 1},
         \A a \in Agents : phase'[a] = "working" => phase[a] = "working" /\ job'[a] = job[a]
  PROVE  OwnLeaseIntact'
<1> SUFFICES ASSUME NEW a \in Agents, phase'[a] = "working", now' < job'[a].expires_at
             PROVE  (ClaimOf(job[a].task))' = [trace_id |-> a, expires_at |-> job'[a].expires_at]
  BY DEF OwnLeaseIntact
<1>1. phase[a] = "working" /\ job'[a] = job[a] /\ job[a] \in Job
  BY DEF TypeInv, TypeOK, JobOK
<1>2. now < job[a].expires_at
  BY <1>1 DEF Job, TypeInv, TypeOK, Times
<1>3. ClaimOf(job[a].task) = [trace_id |-> a, expires_at |-> job[a].expires_at]
  BY <1>1, <1>2 DEF OwnLeaseIntact
<1>4. PICK t \in Tasks : t = job[a].task
  BY <1>1 DEF Job
<1>5. LeaseView[t] = ClaimOf(t) /\ LeaseView'[t] = ClaimOf(t)'
  BY DEF LeaseView
<1> QED
  BY <1>1, <1>3, <1>4, <1>5

\* What every step of the single process is shown to do.
StepIsSound ==
  /\ StaleReadsHold'
  /\ OwnLeaseIntact'
  /\ \A t \in Tasks : DropIsDue(t)
  /\ [LT!Next]_(LT!vars)

\* Steps that leave the claims on record and the agents' loans alone.
LEMMA QuietStep ==
  ASSUME LeaseInv, LeaseView' = LeaseView, UNCHANGED <<job, now>>,
         \A a \in Agents : phase'[a] = "working" => phase[a] = "working",
         StaleReadsHold'
  PROVE  StepIsSound
<1>1. OwnLeaseIntact'
  BY LeaseKept DEF LeaseInv
<1>2. \A t \in Tasks : ClaimOf(t)' = ClaimOf(t)
  <2> SUFFICES ASSUME NEW t \in Tasks PROVE ClaimOf(t)' = ClaimOf(t)
    OBVIOUS
  <2>1. LeaseView[t] = ClaimOf(t) /\ LeaseView'[t] = ClaimOf(t)'
    BY DEF LeaseView
  <2> QED
    BY <2>1
<1>3. UNCHANGED LT!vars
  BY DEF LT!vars
<1> QED
  BY <1>1, <1>2, <1>3 DEF StepIsSound, DropIsDue

LEMMA SaveEndSound ==
  ASSUME LeaseInv, OneProcess, NEW p \in Procs, SaveEnd(p)
  PROVE  StepIsSound
<1> USE BoardAssumption DEF LeaseInv
<1>1. CommittedBoard' = CommittedBoard
  BY CommittedAfterEnd
<1>2. LeaseView' = LeaseView
  BY <1>1 DEF LeaseView, ClaimOf
<1>3. op'[p].pc \notin {"sweep", "advance", "saving"}
  BY DEF SaveEnd, TypeInv, TypeOK, OpOK, IdleOp
<1>4. StaleReadsHold'
  BY <1>1, <1>3 DEF StaleReadsHold, OneProcess, SaveEnd
<1> QED
  BY <1>2, <1>4, QuietStep DEF SaveEnd

LEMMA ScanIsStable ==
  ASSUME LeaseInv, OneProcess, NEW p \in Procs, NEW a, NEW t, NEW then \in {"cas", "list"},
         BeginScan(p, a, t, then), UNCHANGED <<disk, flock, now, job>>,
         \A b \in Agents : phase'[b] = "working" => phase[b] = "working"
  PROVE  StepIsSound
<1> USE BoardAssumption DEF LeaseInv
<1>1. CommittedBoard' = disk /\ CommittedBoard = disk
  BY DEF BeginScan, OneProcess, CommittedBoard, TypeInv, TypeOK, OpOK
<1>2. LeaseView' = LeaseView
  BY <1>1 DEF LeaseView, ClaimOf
<1>3. StaleReadsHold'
  BY <1>1 DEF StaleReadsHold, OneProcess, BeginScan, ExpiredIn, IsExpired, TypeInv, TypeOK
<1> QED
  BY <1>2, <1>3, QuietStep

\* An operation ends without touching the file.
LEMMA IdleAgainSound ==
  ASSUME LeaseInv, OneProcess, NEW p \in Procs, op[p].pc \in {"list", "cas"},
         op' = [op EXCEPT ![p] = IdleOp], UNCHANGED <<disk, flock, now, job>>,
         \A b \in Agents : phase'[b] = "working" => phase[b] = "working"
  PROVE  StepIsSound
<1> USE BoardAssumption DEF LeaseInv
<1>1. CommittedBoard' = disk /\ CommittedBoard = disk
  BY DEF OneProcess, CommittedBoard, TypeInv, TypeOK, OpOK, IdleOp
<1>2. LeaseView' = LeaseView
  BY <1>1 DEF LeaseView, ClaimOf
<1>3. StaleReadsHold'
  BY <1>1 DEF StaleReadsHold, OneProcess, IdleOp, TypeInv, TypeOK
<1> QED
  BY <1>2, <1>3, QuietStep

LEMMA RefuseSound ==
  ASSUME LeaseInv, OneProcess, NEW p \in Procs, Refuse(p)
  PROVE  StepIsSound
<1>1. \A b \in Agents : phase'[b] = "working" => phase[b] = "working"
  BY DEF Refuse, LeaseInv, TypeInv, TypeOK
<1> QED
  BY <1>1, IdleAgainSound DEF Refuse

LEMMA AdvanceLoadSound ==
  ASSUME LeaseInv, OneProcess, NEW p \in Procs, NEW t \in Tasks, NEW to \in StoryStatuses,
         AdvanceLoad(p, t, to)
  PROVE  StepIsSound
<1> USE BoardAssumption DEF LeaseInv
<1>1. CommittedBoard' = disk /\ CommittedBoard = disk
  BY DEF AdvanceLoad, OneProcess, CommittedBoard, TypeInv, TypeOK, OpOK
<1>2. LeaseView' = LeaseView
  BY <1>1 DEF LeaseView, ClaimOf
<1>3. op'[p].pc = "advance" /\ op'[p].data.tasks = disk.tasks /\ disk' = disk
  BY DEF AdvanceLoad, SetStory, TypeInv, TypeOK
<1>4. StaleReadsHold'
  BY <1>1, <1>3 DEF StaleReadsHold, OneProcess, AdvanceLoad
<1> QED
  BY <1>2, <1>4, QuietStep DEF AdvanceLoad

\* A save that keeps every claim.
LEMMA SameClaimsSaveSound ==
  ASSUME LeaseInv, OneProcess, NEW p \in Procs, NEW data \in Board, NEW then,
         BeginSave(p, data, then), op[p].pc # "saving", disk # EmptyFile,
         \A t \in Tasks : data.tasks[t].claim = disk.tasks[t].claim,
         UNCHANGED <<phase, job, now>>
  PROVE  StepIsSound
<1> USE BoardAssumption DEF LeaseInv
<1>1. CommittedBoard' = data /\ CommittedBoard = disk
  BY CommittedAfterBegin, CommittedWhenIdle
<1>2. LeaseView' = LeaseView
  BY <1>1 DEF LeaseView, ClaimOf
<1>3. op'[p].pc = "saving" /\ disk' = EmptyFile
  BY DEF BeginSave, TypeInv, TypeOK
<1>4. StaleReadsHold'
  BY <1>1, <1>3 DEF StaleReadsHold, OneProcess
<1> QED
  BY <1>2, <1>4, QuietStep

LEMMA AdvanceSaveSound ==
  ASSUME LeaseInv, OneProcess, NEW p \in Procs, AdvanceSave(p)
  PROVE  StepIsSound
<1>1. op[p].data \in Board /\ op[p].data.tasks = disk.tasks /\ disk # EmptyFile
  BY DEF AdvanceSave, LeaseInv, TypeInv, OpOK, StaleReadsHold
<1> QED
  BY <1>1, SameClaimsSaveSound DEF AdvanceSave

LEMMA UpsertSound ==
  ASSUME LeaseInv, OneProcess, NEW p \in Procs, Upsert(p)
  PROVE  StepIsSound
<1> DEFINE t == op[p].task
           data == SetTask(disk, t, CoerceStatus(op[p].to), disk.tasks[t].claim)
<1>1. t \in Tasks /\ disk \in Board
  BY DEF Upsert, LeaseInv, TypeInv, OpOK
<1>2. CoerceStatus(op[p].to) \in Statuses /\ disk.tasks[t].claim \in Lease \cup {None}
  BY <1>1, CoerceType DEF LeaseInv, TypeInv, TypeOK, Op, Board, Task
<1>3. data \in Board
  BY <1>1, <1>2, SetTaskType
<1>4. \A u \in Tasks : data.tasks[u].claim = disk.tasks[u].claim
  BY <1>1 DEF SetTask, Board
<1>5. disk # EmptyFile
  BY <1>1, BoardAssumption
<1> QED
  BY <1>3, <1>4, <1>5, SameClaimsSaveSound DEF Upsert

\* A sweep recalls loans that are over, and nothing else.
LEMMA SweepSound ==
  ASSUME LeaseInv, OneProcess, NEW p \in Procs, Sweep(p)
  PROVE  StepIsSound
<1> USE BoardAssumption DEF LeaseInv
<1> DEFINE S == IF disk = EmptyFile THEN {} ELSE op[p].stale
           data == DropClaims(disk, op[p].stale)
<1>1. data \in Board \cup {EmptyFile} /\ op[p].stale \in SUBSET Tasks
  BY DropClaimsType DEF TypeInv, TypeOK, Op
<1>2. CommittedBoard' = data /\ CommittedBoard = disk
  BY <1>1, CommittedAfterBegin, CommittedWhenIdle DEF Sweep
<1>3. \A t \in Tasks : ClaimOf(t)' = IF t \in S THEN None ELSE ClaimOf(t)
  <2>1. CASE disk = EmptyFile
    BY <1>2, <2>1 DEF ClaimOf, DropClaims
  <2>2. CASE disk # EmptyFile
    <3>1. data \in Board
      BY <2>2 DEF DropClaims, TypeInv, TypeOK, Board, Task, Statuses
    <3>2. \A t \in Tasks : data.tasks[t].claim = IF t \in S THEN None ELSE disk.tasks[t].claim
      BY <2>2 DEF DropClaims
    <3>3. data # EmptyFile
      BY <3>1
    <3> HIDE DEF data, S
    <3> QED
      BY <1>2, <2>2, <3>2, <3>3 DEF ClaimOf
  <2> QED
    BY <2>1, <2>2
<1>4. \A t \in S : ClaimOf(t) # None /\ now >= ClaimOf(t).expires_at
  <2> SUFFICES ASSUME NEW t \in S PROVE ClaimOf(t) # None /\ now >= ClaimOf(t).expires_at
    OBVIOUS
  <2>1. disk # EmptyFile /\ t \in op[p].stale /\ op[p].pc = "sweep"
    BY DEF Sweep
  <2>2. disk.tasks[t].claim # None /\ now >= disk.tasks[t].claim.expires_at
    BY <2>1 DEF StaleReadsHold
  <2> QED
    BY <1>2, <2>1, <2>2 DEF ClaimOf
<1>5. UNCHANGED <<phase, job, now>>
  BY DEF Sweep
<1>6. StaleReadsHold'
  <2>1. op'[p].pc = "saving" /\ disk' = EmptyFile
    BY DEF Sweep, BeginSave, TypeInv, TypeOK
  <2>2. data = EmptyFile => disk = EmptyFile
    <3> SUFFICES ASSUME disk # EmptyFile PROVE data # EmptyFile
      OBVIOUS
    <3>1. data \in Board
      BY DEF DropClaims, TypeInv, TypeOK, Board, Task, Statuses
    <3> QED
      BY <3>1
  <2> QED
    BY <1>2, <1>5, <2>1, <2>2 DEF StaleReadsHold, OneProcess
<1>7. OwnLeaseIntact'
  <2> SUFFICES ASSUME NEW a \in Agents, phase[a] = "working", now < job[a].expires_at
               PROVE  ClaimOf(job[a].task)' = [trace_id |-> a, expires_at |-> job[a].expires_at]
    BY <1>5 DEF OwnLeaseIntact
  <2>1. ClaimOf(job[a].task) = [trace_id |-> a, expires_at |-> job[a].expires_at]
    BY DEF OwnLeaseIntact
  <2>2. job[a] \in Job
    BY DEF TypeInv, TypeOK, JobOK
  <2>3. job[a].task \notin S
    BY <1>4, <2>1, <2>2 DEF Job, TypeInv, TypeOK, Times
  <2>4. PICK t \in Tasks : t = job[a].task
    BY <2>2 DEF Job
  <2>5. ClaimOf(t)' = ClaimOf(t)
    BY <1>3, <2>3, <2>4
  <2> QED
    BY <1>5, <2>1, <2>4, <2>5
<1>8. \A t \in Tasks : DropIsDue(t)
  BY <1>3, <1>4 DEF DropIsDue
<1>9. LT!Recall
  <2>1. LeaseView' = [t \in Tasks |-> IF t \in S THEN None ELSE LeaseView[t]]
    BY <1>3 DEF LeaseView
  <2>2. S \in SUBSET {t \in Tasks : LeaseView[t] # None /\ now >= LeaseView[t].expires_at}
    BY <1>1, <1>4 DEF LeaseView
  <2>3. \E R \in SUBSET {t \in Tasks : LeaseView[t] # None /\ now >= LeaseView[t].expires_at} :
          LeaseView' = [t \in Tasks |-> IF t \in R THEN None ELSE LeaseView[t]]
    <3> HIDE DEF S
    <3> QED
      BY <2>1, <2>2
  <2> QED
    BY <1>5, <2>3 DEF LT!Recall
<1> QED
  BY <1>6, <1>7, <1>8, <1>9 DEF StepIsSound, LT!Next

\* A grant lends a task that is on loan to nobody.
LEMMA GrantSound ==
  ASSUME LeaseInv, OneProcess, NEW p \in Procs, Grant(p)
  PROVE  StepIsSound
<1> USE BoardAssumption DEF LeaseInv
<1> DEFINE a == op[p].agent
           t == op[p].task
           lease == [trace_id |-> a, expires_at |-> now + Ttl]
           data == SetTask(disk, t, "in-progress", lease)
<1>1. a \in Agents /\ t \in Tasks /\ phase[a] = "claiming"
  BY DEF Grant, TypeInv, OpOK
<1>2. disk \in Board /\ disk.tasks[t].claim = None /\ now + Ttl <= Horizon
  BY DEF Grant, Claimable, TypeInv, TypeOK
<1>3. lease \in Lease
  BY <1>1, <1>2 DEF Lease, Times, TypeInv, TypeOK
<1>4. data \in Board
  BY <1>1, <1>2, <1>3, SetTaskType DEF Statuses
<1>5. CommittedBoard' = data /\ CommittedBoard = disk
  BY <1>4, CommittedAfterBegin, CommittedWhenIdle DEF Grant
<1>6. \A u \in Tasks : ClaimOf(u)' = IF u = t THEN lease ELSE ClaimOf(u)
  BY <1>1, <1>2, <1>4, <1>5 DEF ClaimOf, SetTask, Board
<1>7. ClaimOf(t) = None
  BY <1>1, <1>2, <1>5 DEF ClaimOf
<1>8. /\ phase' = [phase EXCEPT ![a] = "working"]
      /\ job' = [job EXCEPT ![a] = [task |-> t, expires_at |-> now + Ttl]]
      /\ UNCHANGED now
  BY DEF Grant
<1>9. StaleReadsHold'
  <2>1. op'[p].pc = "saving" /\ disk' = EmptyFile
    BY DEF Grant, BeginSave, TypeInv, TypeOK
  <2> QED
    BY <1>4, <1>5, <2>1 DEF StaleReadsHold, OneProcess
<1>10. OwnLeaseIntact'
  <2> SUFFICES ASSUME NEW b \in Agents, phase'[b] = "working", now' < job'[b].expires_at
               PROVE  (ClaimOf(job[b].task))' = [trace_id |-> b, expires_at |-> job'[b].expires_at]
    BY DEF OwnLeaseIntact
  <2>1. CASE b = a
    <3>1. job'[b] = [task |-> t, expires_at |-> now + Ttl]
      BY <1>1, <1>8, <2>1 DEF TypeInv, TypeOK
    <3>2. PICK u \in Tasks : u = t
      BY <1>1
    <3>3. ClaimOf(u)' = lease
      BY <1>6, <3>2
    <3> QED
      BY <2>1, <3>1, <3>2, <3>3
  <2>2. CASE b # a
    <3>1. phase[b] = "working" /\ job'[b] = job[b] /\ now < job[b].expires_at
      BY <1>1, <1>8, <2>2 DEF TypeInv, TypeOK
    <3>2. ClaimOf(job[b].task) = [trace_id |-> b, expires_at |-> job[b].expires_at]
      BY <3>1 DEF OwnLeaseIntact
    <3>3. job[b] \in Job
      BY <3>1 DEF TypeInv, TypeOK, JobOK
    <3>4. PICK u \in Tasks : u = job[b].task
      BY <3>3 DEF Job
    <3>5. [trace_id |-> b, expires_at |-> job[b].expires_at] \in Lease
      BY <3>3 DEF Lease, Job
    <3>6. ClaimOf(u)' = ClaimOf(u)
      BY <1>6, <1>7, <3>2, <3>4, <3>5
    <3> QED
      BY <3>1, <3>2, <3>4, <3>6
  <2> QED
    BY <2>1, <2>2
<1>11. \A u \in Tasks : DropIsDue(u)
  BY <1>6, <1>7 DEF DropIsDue
<1>12. LT!Lend(a, t)
  <2>1. LeaseView' = [LeaseView EXCEPT ![t] = lease]
    BY <1>1, <1>6 DEF LeaseView
  <2>2. job[a] = None
    BY <1>1 DEF TypeInv, JobOK
  <2> QED
    BY <1>1, <1>2, <1>7, <1>8, <2>1, <2>2 DEF LT!Lend, LeaseView
<1> QED
  BY <1>1, <1>9, <1>10, <1>11, <1>12 DEF StepIsSound, LT!Next

\* An agent that ends leaves its loan on record or returns it.
LEMMA LeaveSound ==
  ASSUME LeaseInv, OneProcess, NEW a \in Agents, phase[a] = "working", End(a),
         UNCHANGED <<disk, flock, op, now>>
  PROVE  StepIsSound
<1> USE BoardAssumption DEF LeaseInv
<1>1. CommittedBoard' = CommittedBoard
  BY DEF CommittedBoard
<1>2. LeaseView' = LeaseView /\ \A t \in Tasks : ClaimOf(t)' = ClaimOf(t)
  BY <1>1 DEF LeaseView, ClaimOf
<1>3. \A b \in Agents : phase'[b] = "working" => phase[b] = "working" /\ job'[b] = job[b]
  BY DEF End, TypeInv, TypeOK
<1>4. OwnLeaseIntact'
  BY <1>2, <1>3, LeaseKept
<1>5. StaleReadsHold'
  BY <1>1, <1>3 DEF StaleReadsHold
<1>6. LT!Leave(a)
  BY <1>2 DEF LT!Leave, End
<1> QED
  BY <1>2, <1>4, <1>5, <1>6 DEF StepIsSound, DropIsDue, LT!Next

LEMMA GiveBackSound ==
  ASSUME LeaseInv, OneProcess, NEW a \in Agents, NEW status \in {"done", "pending"},
         GiveBack(a, status)
  PROVE  StepIsSound
<1> USE BoardAssumption DEF LeaseInv
<1> DEFINE p == Home[a]
           data == SetTask(disk, job[a].task, status, None)
<1>1. p \in Procs /\ phase[a] = "working" /\ op[p].pc = "idle" /\ End(a) /\ UNCHANGED now
  BY DEF GiveBack
<1>2. job[a] \in Job /\ job[a] # None
  BY <1>1 DEF TypeInv, TypeOK, JobOK
<1>3. PICK t \in Tasks : t = job[a].task
  BY <1>2 DEF Job
<1>4. CASE UNCHANGED <<disk, flock, op>>
  BY <1>1, <1>4, LeaveSound
<1>5. CASE Owns(disk, a, t) /\ BeginSave(p, data, "idle")
  <2>1. disk \in Board /\ disk.tasks[t].claim # None /\ disk.tasks[t].claim.trace_id = a
    BY <1>5 DEF Owns, TypeInv, TypeOK
  <2>2. data \in Board
    BY <1>3, <2>1, SetTaskType DEF Statuses
  <2>3. CommittedBoard' = data /\ CommittedBoard = disk
    BY <1>1, <1>5, <2>2, CommittedAfterBegin, CommittedWhenIdle
  <2>4. \A u \in Tasks : ClaimOf(u)' = IF u = t THEN None ELSE ClaimOf(u)
    BY <1>3, <2>1, <2>2, <2>3 DEF ClaimOf, SetTask, Board
  <2>5. ClaimOf(t) # None /\ ClaimOf(t).trace_id = a
    BY <2>1, <2>3 DEF ClaimOf
  <2>6. phase'[a] = "ended" /\ job' = [job EXCEPT ![a] = None]
    BY <1>1 DEF End, TypeInv, TypeOK
  <2>7. StaleReadsHold'
    <3>1. op'[p].pc = "saving" /\ disk' = EmptyFile
      BY <1>1, <1>5 DEF BeginSave, TypeInv, TypeOK
    <3> QED
      BY <1>1, <2>2, <2>3, <3>1 DEF StaleReadsHold, OneProcess
  <2>8. OwnLeaseIntact'
    <3> SUFFICES ASSUME NEW b \in Agents, phase'[b] = "working", now' < job'[b].expires_at
                 PROVE  (ClaimOf(job[b].task))' = [trace_id |-> b, expires_at |-> job'[b].expires_at]
      BY DEF OwnLeaseIntact
    <3>1. b # a /\ phase[b] = "working" /\ job'[b] = job[b] /\ now < job[b].expires_at
      BY <1>1, <2>6 DEF End, TypeInv, TypeOK
    <3>2. ClaimOf(job[b].task) = [trace_id |-> b, expires_at |-> job[b].expires_at]
      BY <3>1 DEF OwnLeaseIntact
    <3>3. job[b] \in Job
      BY <3>1 DEF TypeInv, TypeOK, JobOK
    <3>4. PICK u \in Tasks : u = job[b].task
      BY <3>3 DEF Job
    <3>5. u # t
      BY <2>5, <3>1, <3>2, <3>4
    <3>6. ClaimOf(u)' = ClaimOf(u)
      BY <2>4, <3>5
    <3> QED
      BY <3>1, <3>2, <3>4, <3>6
  <2>9. \A u \in Tasks : DropIsDue(u)
    BY <1>1, <2>4, <2>5, <2>6 DEF DropIsDue
  <2>10. LT!Return(a)
    <3>1. LeaseView' = [LeaseView EXCEPT ![t] = None]
      BY <2>4 DEF LeaseView
    <3>2. LeaseView[t] # None /\ LeaseView[t].trace_id = a
      BY <2>5 DEF LeaseView
    <3> QED
      BY <1>1, <1>2, <1>3, <2>6, <3>1, <3>2 DEF LT!Return
  <2> QED
    BY <2>7, <2>8, <2>9, <2>10 DEF StepIsSound, LT!Next
<1> QED
  BY <1>3, <1>4, <1>5 DEF GiveBack

\* The death of the only process ends every agent; a save it had begun takes the
\* whole record with it.
LEMMA CrashSound ==
  ASSUME LeaseInv, OneProcess, NEW p \in Procs, Crash(p)
  PROVE  StepIsSound
<1> USE BoardAssumption DEF LeaseInv
<1>1. \A a \in Agents : Home[a] = p
  BY DEF OneProcess
<1>2. (\A a \in Agents : phase'[a] # "working") /\ job' = [a \in Agents |-> None] /\ UNCHANGED now
  BY <1>1 DEF Crash, TypeInv, TypeOK
<1>3. CommittedBoard' = disk /\ CommittedBoard' \in {CommittedBoard, EmptyFile}
  <2>1. op'[p].pc = "idle" /\ flock' = None /\ disk' = disk
    BY DEF Crash, OneProcess, TypeInv, TypeOK, IdleOp
  <2>2. CASE op[p].pc = "saving"
    <3>1. flock = p
      BY <2>2 DEF TypeInv, OpOK
    <3>2. disk = EmptyFile
      BY <2>2, <3>1 DEF StaleReadsHold
    <3> QED
      BY <2>1, <3>2 DEF CommittedBoard
  <2>3. CASE op[p].pc # "saving"
    BY <2>1, <2>3, CommittedWhenIdle DEF CommittedBoard
  <2> QED
    BY <2>2, <2>3
<1>4. LeaseView' \in {LeaseView, [t \in Tasks |-> None]}
  BY <1>3 DEF LeaseView, ClaimOf
<1>5. StaleReadsHold'
  BY <1>2 DEF Crash, StaleReadsHold, OneProcess, IdleOp, TypeInv, TypeOK
<1>6. OwnLeaseIntact'
  BY <1>2 DEF OwnLeaseIntact
<1>7. \A t \in Tasks : DropIsDue(t)
  BY <1>3 DEF DropIsDue, ClaimOf
<1>8. LT!HostLost
  BY <1>2, <1>4 DEF LT!HostLost
<1> QED
  BY <1>5, <1>6, <1>7, <1>8 DEF StepIsSound, LT!Next

LEMMA TickSound ==
  ASSUME LeaseInv, OneProcess, Tick
  PROVE  StepIsSound
<1> USE BoardAssumption DEF LeaseInv
<1>1. CommittedBoard' = CommittedBoard
  BY DEF Tick, CommittedBoard
<1>2. LeaseView' = LeaseView /\ \A t \in Tasks : ClaimOf(t)' = ClaimOf(t)
  BY <1>1 DEF LeaseView, ClaimOf
<1>3. OwnLeaseIntact'
  BY <1>2, LeaseKept DEF Tick
<1>4. StaleReadsHold'
  BY <1>1 DEF Tick, StaleReadsHold, TypeInv, TypeOK, Times, Board, Task, Lease, Op
<1>5. LT!Tick
  BY <1>2 DEF Tick, LT!Tick
<1> QED
  BY <1>2, <1>3, <1>4, <1>5 DEF StepIsSound, DropIsDue, LT!Next

LEMMA InitLeaseInv == Init => LeaseInv /\ LT!Init
<1> SUFFICES ASSUME Init PROVE LeaseInv /\ LT!Init
  OBVIOUS
<1> USE BoardAssumption
<1>1. TypeInv
  BY InitTypeInv
<1>2. disk \in Board
  BY <1>1 DEF Init, TypeInv, TypeOK, Board, Task, Statuses, StoryStatuses
<1>3. CommittedBoard = disk /\ disk # EmptyFile
  BY <1>2 DEF Init, CommittedBoard
<1>4. \A t \in Tasks : ClaimOf(t) = None
  BY <1>3 DEF Init, ClaimOf
<1>5. StaleReadsHold
  BY <1>3 DEF Init, StaleReadsHold, IdleOp
<1>6. OwnLeaseIntact
  BY DEF Init, OwnLeaseIntact
<1>7. LT!Init
  BY <1>4 DEF Init, LT!Init, LeaseView
<1> QED
  BY <1>1, <1>5, <1>6, <1>7 DEF LeaseInv

LEMMA NextSound == LeaseInv /\ OneProcess /\ [Next]_vars => LeaseInv' /\ StepIsSound
<1> SUFFICES ASSUME LeaseInv, OneProcess, [Next]_vars PROVE LeaseInv' /\ StepIsSound
  OBVIOUS
<1>1. TypeInv'
  BY NextTypeInv DEF LeaseInv
<1>2. ASSUME NEW p \in Procs, OpStep(p) PROVE StepIsSound
  <2>1. CASE ListEnd(p)
    BY <2>1, IdleAgainSound DEF ListEnd
  <2> QED
    BY <1>2, <2>1, SweepSound, GrantSound, RefuseSound, AdvanceSaveSound, UpsertSound,
       SaveEndSound DEF OpStep
<1>3. ASSUME NEW p \in Procs, ListStart(p) PROVE StepIsSound
  BY <1>3, ScanIsStable DEF ListStart
<1>4. ASSUME NEW a \in Agents, NEW t \in Tasks, ClaimStart(a, t) PROVE StepIsSound
  <2>1. \A b \in Agents : phase'[b] = "working" => phase[b] = "working"
    BY <1>4 DEF ClaimStart, LeaseInv, TypeInv, TypeOK
  <2>2. Home[a] \in Procs
    BY BoardAssumption
  <2> QED
    BY <1>4, <2>1, <2>2, ScanIsStable DEF ClaimStart
<1>5. ASSUME NEW a \in Agents, Complete(a) \/ Release(a) \/ Abandon(a) PROVE StepIsSound
  BY <1>5, GiveBackSound, LeaveSound DEF Complete, Release, Abandon
<1>6. ASSUME NEW p \in Procs, NEW t \in Stories, NEW to \in StoryStatuses, AdvanceLoad(p, t, to)
      PROVE  StepIsSound
  BY <1>6, AdvanceLoadSound, BoardAssumption
<1>7. ASSUME UNCHANGED vars PROVE StepIsSound
  <2>1. CommittedBoard' = CommittedBoard
    BY <1>7 DEF vars, CommittedBoard
  <2>2. LeaseView' = LeaseView
    BY <2>1 DEF LeaseView, ClaimOf
  <2>3. StaleReadsHold'
    BY <1>7, <2>1 DEF LeaseInv, StaleReadsHold, vars
  <2> QED
    BY <1>7, <2>2, <2>3, QuietStep DEF vars
<1>8. StepIsSound
  BY <1>2, <1>3, <1>4, <1>5, <1>6, <1>7, CrashSound, TickSound DEF Next
<1> QED
  BY <1>1, <1>8 DEF LeaseInv, StepIsSound

LEMMA LeaseInvHolds == OneProcess => (Spec => []LeaseInv)
<1> SUFFICES ASSUME OneProcess PROVE Spec => []LeaseInv
  OBVIOUS
<1>1. Init => LeaseInv
  BY InitLeaseInv
<1>2. LeaseInv /\ [Next]_vars => LeaseInv'
  BY NextSound
<1> QED
  BY <1>1, <1>2, PTL DEF Spec

\* With one scheduling process, an agent inside its term is on record as the
\* holder of its task, so no two agents are inside their terms on one task
\* (claim and release_expired, task_graph.py:329-364, 415-443).
THEOREM LeaseIsExclusive == OneProcess => (Spec => []OwnLeaseIntact)
<1> SUFFICES ASSUME OneProcess PROVE Spec => []OwnLeaseIntact
  OBVIOUS
<1>1. Spec => []LeaseInv
  BY LeaseInvHolds
<1>2. LeaseInv => OwnLeaseIntact
  BY DEF LeaseInv
<1> QED
  BY <1>1, <1>2, PTL

\* With one scheduling process, a claim leaves the record only when it is over,
\* given back by its agent, or lost with the whole file (task_graph.py:415-443).
THEOREM DropsAreDue == OneProcess => (Spec => ClaimDropsAreDue)
<1> SUFFICES ASSUME OneProcess PROVE Spec => ClaimDropsAreDue
  OBVIOUS
<1>1. Spec => []LeaseInv
  BY LeaseInvHolds
<1>2. LeaseInv /\ [Next]_vars => [\A t \in Tasks : DropIsDue(t)]_vars
  BY NextSound DEF StepIsSound
<1> QED
  BY <1>1, <1>2, PTL DEF Spec, ClaimDropsAreDue

\* With one scheduling process, the board implements the abstract lease: every
\* step of the file, the lock and the agents is one of its steps or none.
THEOREM RefinesLeaseTable == OneProcess => (Spec => ImplementsLeaseTable)
<1> SUFFICES ASSUME OneProcess PROVE Spec => ImplementsLeaseTable
  OBVIOUS
<1>1. Spec => []LeaseInv
  BY LeaseInvHolds
<1>2. Init => LT!Init
  BY InitLeaseInv
<1>3. LeaseInv /\ [Next]_vars => [LT!Next]_(LT!vars)
  BY NextSound DEF StepIsSound
<1> QED
  BY <1>1, <1>2, <1>3, PTL DEF Spec, ImplementsLeaseTable, LT!Spec

=============================================================================
