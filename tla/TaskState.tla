------------------------------ MODULE TaskState ------------------------------
(***************************************************************************)
(* What the agent knows of its own task: an event log (TaskLog) and        *)
(* everything that is a fold of it - the state (team/task_state.py), the   *)
(* reminders put before the model each turn (team/reminder_bus.py), the    *)
(* open loops a later session is told of (team/session_summary_service.py) *)
(* and the state resumed from a snapshot (task_event_log.py state.json).   *)
(* Events come from the tools of team/task_state_executor.py, which check  *)
(* nothing against the state, and from the tool loop.  The health of tools *)
(* is left out: no event the loop writes makes a tool offline.             *)
(***************************************************************************)
EXTENDS SequencesExt, Picking

CONSTANTS
  TodoIds,
  StepIndices, \* the steps the model reports on
  Statuses,    \* what the model says of a step; "" is nothing
  Plans,       \* the plans it sets: what it says of each step, in their order
  Threshold,   \* _stale_threshold_seconds, in ticks
  MaxLoops,    \* MAX_OPEN_LOOPS
  MaxEvents,   \* bound: events after task.opened
  Horizon      \* bound: time stops here

ASSUME TaskStateAssumption ==
  /\ StepIndices \subseteq Nat /\ Plans \subseteq Seq(Statuses)
  /\ {Threshold, MaxLoops, MaxEvents, Horizon} \subseteq Nat

VARIABLES log, clock

taskStateVars == <<log, clock>>

Closed == {"done", "cancelled"}

Event(kind, key, val) == [kind |-> kind, key |-> key, val |-> val]

\* Events of the self-state tools, as their input models admit them: a plan with the status
\* of each step and a title or none, and any status of a step but none.
Told ==
  {Event("mode", 0, m) : m \in {"plan", "act"}}
    \cup {Event("plan", p, "") : p \in Plans} \cup {Event("plan", <<>>, "title")}
    \cup {Event("step", p[1], p[2]) : p \in StepIndices \X (Statuses \ {""})}
    \cup {Event("todo_added", t, "open") : t \in TodoIds}
    \cup {Event("todo_updated", p[1], p[2]) : p \in TodoIds \X {"", "open", "cancelled"}}
    \cup {Event("todo_done", t, "done") : t \in TodoIds}

Stamp(e) == [kind |-> e.kind, key |-> e.key, val |-> e.val, seq |-> Len(log), at |-> clock]

-----------------------------------------------------------------------------
(* The fold.  A Python dict keeps its keys in the order they came in: the  *)
(* todos are a sequence.                                                   *)

Fresh == [lastSeq |-> -1, mode |-> "act", planned |-> FALSE, steps |-> <<>>, todos |-> <<>>, compressions |-> 0]

HasKey(dict, key) == \E i \in 1 .. Len(dict) : dict[i].key = key

\* dict[r.key] = r
Put(dict, r) ==
  IF HasKey(dict, r.key) THEN [i \in 1 .. Len(dict) |-> IF dict[i].key = r.key THEN r ELSE dict[i]]
  ELSE Append(dict, r)

\* The record under the event's key, if there is one: its time, and its status when the event has one.
Touch(dict, e) ==
  [i \in 1 .. Len(dict) |->
     IF dict[i].key # e.key THEN dict[i]
     ELSE [dict[i] EXCEPT !.status = IF e.val = "" THEN @ ELSE e.val, !.at = e.at]]

\* A step nothing is said of is pending.
StepGiven(status) == IF status = "" THEN "pending" ELSE status

\* A plan with steps replaces the steps; one without leaves them.
SetPlan(s, e) ==
  [s EXCEPT !.planned = @ \/ e.key # <<>> \/ e.val # "",
            !.steps = IF e.key # <<>> THEN [i \in 1 .. Len(e.key) |-> StepGiven(e.key[i])] ELSE @]

UpdateStep(s, e) ==
  [s EXCEPT !.steps = [i \in 1 .. Len(@) |-> IF i = e.key + 1 THEN e.val ELSE @[i]]]

\* Faulty variant: a todo that was there keeps its state.
AddTodoOnce(s, e) ==
  IF HasKey(s.todos, e.key) THEN s
  ELSE [s EXCEPT !.todos = Append(@, [key |-> e.key, status |-> e.val, at |-> e.at])]

AddTodo(s, e) == [s EXCEPT !.todos = Put(@, [key |-> e.key, status |-> e.val, at |-> e.at])]

UpdateTodo(s, e) == [s EXCEPT !.todos = Touch(@, e)]

\* The handler of an event's kind; other kinds have none.
Handle(s, e) ==
  CASE e.kind = "mode"         -> [s EXCEPT !.mode = e.val]
    [] e.kind = "plan"         -> SetPlan(s, e)
    [] e.kind = "step"         -> UpdateStep(s, e)
    [] e.kind = "todo_added"   -> AddTodo(s, e)
    [] e.kind \in {"todo_updated", "todo_done"} -> UpdateTodo(s, e)
    [] e.kind = "compression"  -> [s EXCEPT !.compressions = @ + 1]
    [] OTHER -> s

\* _apply
Apply(s, e) == Handle([s EXCEPT !.lastSeq = IF e.seq > @ THEN e.seq ELSE @], e)

\* TaskStateProjector.project
ProjectOnto(base, events) ==
  LET state[n \in 0 .. Len(events)] == IF n = 0 THEN base ELSE Apply(state[n - 1], events[n])
  IN  state[Len(events)]

Project(events) == ProjectOnto(Fresh, events)

-----------------------------------------------------------------------------
(* What the fold is used for.                                              *)

\* from_dict of to_dict: the number 0 counts as none.
Restored(s) == [s EXCEPT !.lastSeq = IF @ = 0 THEN -1 ELSE @]

\* Faulty variant: a snapshot is taken up from its last event.
EventsFromLast(events, seq) == Picked(events, {i \in 1 .. Len(events) : events[i].seq >= seq})

\* read_events(from_seq = seq + 1)
EventsAfter(events, seq) == Picked(events, {i \in 1 .. Len(events) : events[i].seq >= seq + 1})

\* The state of a log resumed from the snapshot of a part of it.
Resumed(snapshot, events) ==
  LET base == Restored(snapshot) IN ProjectOnto(base, EventsAfter(events, base.lastSeq))

When(cond, reminders) == IF cond THEN reminders ELSE {}

\* ReminderBus.evaluate: which rules speak, and about what.
Reminders(s, now) ==
  When(s.mode = "plan", {<<"plan_mode", 0>>})
    \cup When(s.mode = "plan" /\ ~s.planned, {<<"empty_plan", 0>>})
    \cup When(s.compressions > 0, {<<"compression", s.compressions>>})
    \cup {<<"stale_todos", r.key>> : r \in {r \in ToSet(s.todos) : r.status \notin Closed /\ now - r.at >= Threshold}}

\* _build_open_loops: steps, then todos, and no more than MAX_OPEN_LOOPS.
OpenLoops(s) ==
  LET steps == Picked([i \in 1 .. Len(s.steps) |-> <<"step", i - 1, s.steps[i]>>],
                      {i \in 1 .. Len(s.steps) : s.steps[i] \in {"in_progress", "blocked"}})
      todos == Picked([i \in 1 .. Len(s.todos) |-> <<"todo", s.todos[i].key, s.todos[i].status>>],
                      {i \in 1 .. Len(s.todos) : s.todos[i].status \notin Closed})
      all   == steps \o todos
  IN  SubSeq(all, 1, IF Len(all) < MaxLoops THEN Len(all) ELSE MaxLoops)

-----------------------------------------------------------------------------
(* The log grows.                                                          *)

TaskStateInit == log = <<[kind |-> "opened", key |-> 0, val |-> "", seq |-> 0, at |-> 0]>> /\ clock = 0

\* A tool of the model: acknowledged, whatever the state.
Tell(e) == Len(log) <= MaxEvents /\ log' = Append(log, Stamp(e)) /\ UNCHANGED clock

\* The tool loop has compressed the context.
Compress == Len(log) <= MaxEvents /\ log' = Append(log, Stamp(Event("compression", 0, ""))) /\ UNCHANGED clock

Tick == clock < Horizon /\ clock' = clock + 1 /\ UNCHANGED log

TaskStateNext == (\E e \in Told : Tell(e)) \/ Compress \/ Tick

TaskStateSpec == TaskStateInit /\ [][TaskStateNext]_taskStateVars

-----------------------------------------------------------------------------
(* Properties.                                                             *)

\* The positions of the events of the given kinds and key.
At(kinds, key) == {i \in 1 .. Len(log) : log[i].kind \in kinds /\ log[i].key = key}

Latest(S) == Max(S \cup {0})

\* What the log says of a todo: nothing before it was added last counts, and a change of
\* its text alone leaves its status.
Touches(t) == {i \in At({"todo_added", "todo_updated", "todo_done"}, t) : i >= Latest(At({"todo_added"}, t))}
StatusSaid(t) == log[Latest({i \in Touches(t) : log[i].val # ""})].val
OpenSaid == {t \in TodoIds : At({"todo_added"}, t) # {} /\ StatusSaid(t) \notin Closed}

\* The steps are those of the last plan that had any.
LastPlan == Latest({k \in 1 .. Len(log) : log[k].kind = "plan" /\ log[k].key # <<>>})
StepsGiven == IF LastPlan = 0 THEN <<>> ELSE log[LastPlan].key

\* The status of a step is that of its last update since, or the one the plan gave it.
StepSaid(i) ==
  LET said == {k \in At({"step"}, i) : k > LastPlan}
  IN  IF i >= Len(StepsGiven) THEN "none"
      ELSE IF said = {} THEN StepGiven(StepsGiven[i + 1]) ELSE log[Latest(said)].val
StepsInHand == {i \in 0 .. Len(StepsGiven) - 1 : StepSaid(i) \in {"in_progress", "blocked"}}

\* The model is told of its own task what it has said itself, last word first, through
\* any order of additions, changes and closings: in plan mode that it is, that a plan is
\* missing while none was ever set, of each open todo nobody touched for a while, of every
\* compression; and a later session of the open steps and todos, steps first, each once,
\* in the order in which they were first named (task_state.py:226-423,
\* reminder_bus.py:119-290, session_summary_service.py:227-243).
ToldTruly ==
  LET s     == Project(log)
      told  == Reminders(s, clock)
      loops == OpenLoops(s)
      modes == {i \in 1 .. Len(log) : log[i].kind = "mode"}
      plan  == modes # {} /\ log[Latest(modes)].val = "plan"
      lines == Cardinality(StepsInHand) + Cardinality(OpenSaid)
  IN  /\ <<"plan_mode", 0>> \in told <=> plan
      /\ <<"empty_plan", 0>> \in told <=>
           plan /\ ~\E i \in 1 .. Len(log) : log[i].kind = "plan" /\ (log[i].key # <<>> \/ log[i].val # "")
      /\ \A t \in TodoIds :
           <<"stale_todos", t>> \in told <=>
             t \in OpenSaid /\ clock - log[Latest(Touches(t))].at >= Threshold
      /\ {m \in told : m[1] = "compression"}
           = When(At({"compression"}, 0) # {}, {<<"compression", Cardinality(At({"compression"}, 0))>>})
      /\ Len(loops) = IF lines < MaxLoops THEN lines ELSE MaxLoops
      /\ \A k \in 1 .. Len(loops) :
           /\ loops[k][1] = "todo" => loops[k][2] \in OpenSaid /\ loops[k][3] = StatusSaid(loops[k][2])
           /\ loops[k][1] = "step" => loops[k][3] = StepSaid(loops[k][2])
           /\ \A j \in 1 .. k - 1 :
                /\ loops[j][1] = "todo" => loops[k][1] = "todo"
                /\ loops[j][1] = loops[k][1] =>
                     IF loops[j][1] = "step" THEN loops[j][2] < loops[k][2]
                     ELSE Min(At({"todo_added"}, loops[j][2])) < Min(At({"todo_added"}, loops[k][2]))

\* A state resumed from a snapshot of any part of the log is the state of the whole log:
\* no event counts twice or is passed over (test_task_state.py:119-140,
\* task_event_log.py:253-256).
SnapshotResumes == \A k \in 1 .. Len(log) : Resumed(Project(SubSeq(log, 1, k)), log) = Project(log)

=============================================================================
