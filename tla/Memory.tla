-------------------------------- MODULE Memory --------------------------------
(***************************************************************************)
(* What one session of the tech lead leaves for the next: project notes    *)
(* (team/agent_notes_service.py) and a digest of its run                   *)
(* (team/last_run_memory_service.py).  Both are files that are read,       *)
(* changed and replaced under a lock of their own.  The digest is made by  *)
(* a subscriber of the session's hook bus (core/hook_bus.py), which the    *)
(* session shares with the sub-agents it dispatches.                       *)
(*                                                                         *)
(* Each session stands for a process of its own: sessions of one process   *)
(* block its event loop while they write, so they interleave less.         *)
(***************************************************************************)
EXTENDS Naturals, SequencesExt, Absent

CONSTANTS
  Sessions,
  Cap,         \* max_notes_per_session
  MaxHistory,  \* MAX_HISTORY_RECORDS
  MaxCalls,    \* MAX_TOOL_CALLS_PER_DIGEST
  MaxTools     \* bound: tool calls of a session and its sub-agents

ASSUME MemoryAssumption ==
  /\ {Cap, MaxCalls, MaxTools} \subseteq Nat /\ MaxHistory \in Nat \ {0}
  /\ None \notin Sessions

VARIABLES
  notes,      \* AGENT_NOTES.md: who wrote each note, newest first
  history,    \* .feishu_run_history.jsonl: digests, newest last
  noteLock, historyLock,  \* the session that holds the lock of a file, or None
  pc,
  back,       \* where a session goes on when its digest is written
  read,       \* what a session read of the file it is about to replace
  blind,      \* it could not read it, and took it for empty
  used,       \* _session_counts
  digest,     \* the digest being collected
  persisted,  \* _persisted
  tools,      \* how many tool calls were seen on the bus
  how         \* how a session ended: its stop reason, "exception", "gone", or None

files == <<notes, history, noteLock, historyLock>>
vars == <<files, pc, back, read, blind, used, digest, persisted, tools, how>>

\* Stop reasons of a session or sub-agent; the first is a success.
Reasons == {"stop", "timeout"}
Success == {"stop"}

Empty(s) == [by |-> s, calls |-> 0, more |-> 0, failed |-> 0, reason |-> None]

\* An earlier run, which may be on record.
Earlier == [Empty(None) EXCEPT !.reason = "stop"]

Init ==
  /\ notes = <<>> /\ history \in {<<>>, <<Earlier>>} /\ noteLock = None /\ historyLock = None
  /\ pc = [s \in Sessions |-> "new"] /\ back = [s \in Sessions |-> "over"]
  /\ read = [s \in Sessions |-> <<>>] /\ blind = [s \in Sessions |-> FALSE]
  /\ used = [s \in Sessions |-> 0]
  /\ digest = [s \in Sessions |-> Empty(s)] /\ persisted = [s \in Sessions |-> FALSE]
  /\ tools = [s \in Sessions |-> 0]
  /\ how = [s \in Sessions |-> None]

Goto(s, place) == pc' = [pc EXCEPT ![s] = place]

\* load_inject_target: the newest digest, unless that run was a success.
InjectTarget == IF history = <<>> \/ Last(history).reason \in Success THEN None ELSE Last(history)

-----------------------------------------------------------------------------
(* A session and its hook bus.                                             *)

Start(s) ==
  /\ pc[s] = "new" /\ Goto(s, "turn")
  /\ UNCHANGED <<files, back, read, blind, used, digest, persisted, tools, how>>

\* _on_tool_call: what comes when the digest is full is only counted.
Collect(d, nth, ok) ==
  IF d.calls >= MaxCalls THEN [d EXCEPT !.more = @ + 1]
  ELSE [d EXCEPT !.calls = @ + 1, !.failed = IF ok THEN @ ELSE nth]

\* on_tool_call, of the session or of a sub-agent.
Seen(s, ok) ==
  /\ digest' = [digest EXCEPT ![s] = Collect(@, tools[s] + 1, ok)]
  /\ tools' = [tools EXCEPT ![s] = @ + 1]

Call(s, ok) ==
  /\ pc[s] \in {"turn", "sub"} /\ tools[s] < MaxTools
  /\ Seen(s, ok)
  /\ UNCHANGED <<files, pc, back, read, blind, used, persisted, how>>

Dispatch(s) ==
  /\ pc[s] = "turn" /\ tools[s] < MaxTools /\ Goto(s, "sub")
  /\ UNCHANGED <<files, back, read, blind, used, digest, persisted, tools, how>>

\* Faulty variant: a digest is written at every end.
PersistAlways(s, reason, then) ==
  /\ digest' = [digest EXCEPT ![s].reason = reason]
  /\ back' = [back EXCEPT ![s] = then]
  /\ Goto(s, "digest")

\* _on_session_end and flush_on_exception: the first to come writes the digest.
Persist(s, reason, then) ==
  \/ /\ persisted[s]
     /\ Goto(s, then) /\ UNCHANGED <<digest, back>>
  \/ /\ ~persisted[s]
     /\ digest' = [digest EXCEPT ![s].reason = reason]
     /\ back' = [back EXCEPT ![s] = then]
     /\ Goto(s, "digest")

\* A sub-agent ends: its loop fires on_session_end on the bus it was given, and its
\* dispatch is a tool call of the session.
SubEnds(s, reason) ==
  /\ pc[s] = "sub" /\ tools[s] < MaxTools
  /\ Persist(s, reason, "dispatched")
  /\ UNCHANGED <<files, read, blind, used, persisted, tools, how>>

\* A sub-agent without tools has no loop, and one whose loop raises fires nothing.
SubEndsUnheard(s) ==
  /\ pc[s] = "sub" /\ tools[s] < MaxTools /\ Goto(s, "dispatched")
  /\ UNCHANGED <<files, back, read, blind, used, digest, persisted, tools, how>>

Dispatched(s, ok) ==
  /\ pc[s] = "dispatched"
  /\ Seen(s, ok) /\ Goto(s, "turn")
  /\ UNCHANGED <<files, back, read, blind, used, persisted, how>>

\* The session ends by itself, or its adapter raises.
Ends(s, reason) ==
  /\ pc[s] = "turn" /\ how' = [how EXCEPT ![s] = reason]
  /\ Persist(s, reason, "over")
  /\ UNCHANGED <<files, read, blind, used, persisted, tools>>

\* What was read of a file was local to the write.
Forget(s) == read' = [read EXCEPT ![s] = <<>>] /\ blind' = [blind EXCEPT ![s] = FALSE]

\* The process dies, or the handler's time limit cuts the coroutine where it waits: a
\* CancelledError is no Exception, so flush_on_exception is not reached.
Gone(s) ==
  /\ pc[s] \notin {"new", "over"}
  /\ Goto(s, "over") /\ how' = [how EXCEPT ![s] = "gone"]
  /\ noteLock' = IF noteLock = s THEN None ELSE noteLock
  /\ historyLock' = IF historyLock = s THEN None ELSE historyLock
  /\ Forget(s)
  /\ UNCHANGED <<notes, history, back, used, digest, persisted, tools>>

-----------------------------------------------------------------------------
(* The two files.                                                          *)

\* append of a note, as far as the lock; over the quota it is refused.
Note(s) ==
  /\ pc[s] = "turn" /\ tools[s] < MaxTools
  /\ \/ /\ used[s] < Cap
        /\ Goto(s, "note") /\ UNCHANGED <<digest, tools>>
     \/ /\ used[s] >= Cap
        /\ Seen(s, FALSE) /\ UNCHANGED pc
  /\ UNCHANGED <<files, back, read, blind, used, persisted, how>>

\* Faulty variant: the lock is not looked at.
FreeAlways(lock) == TRUE

Free(lock) == lock = None

\* The file under the lock: a file that cannot be read counts as empty.
Look(s, file) ==
  \E fails \in BOOLEAN :
    /\ read' = [read EXCEPT ![s] = IF fails THEN <<>> ELSE file]
    /\ blind' = [blind EXCEPT ![s] = fails]

NoteRead(s) ==
  /\ pc[s] = "note" /\ Free(noteLock)
  /\ noteLock' = s /\ Look(s, notes) /\ Goto(s, "noting")
  /\ UNCHANGED <<notes, history, historyLock, back, used, digest, persisted, tools, how>>

\* _inject_entry, then the replacement.
NoteWritten(s) ==
  /\ pc[s] = "noting"
  /\ notes' = <<s>> \o read[s]
  /\ used' = [used EXCEPT ![s] = @ + 1]
  /\ noteLock' = None /\ Forget(s) /\ Seen(s, TRUE) /\ Goto(s, "turn")
  /\ UNCHANGED <<history, historyLock, back, persisted, how>>

\* The write raises: the lock is let go, the note is not counted.
NoteFails(s) ==
  /\ pc[s] = "noting"
  /\ noteLock' = None /\ Forget(s) /\ Seen(s, FALSE) /\ Goto(s, "turn")
  /\ UNCHANGED <<notes, history, historyLock, back, used, persisted, how>>

DigestRead(s) ==
  /\ pc[s] = "digest" /\ Free(historyLock)
  /\ historyLock' = s /\ Look(s, history) /\ Goto(s, "digesting")
  /\ UNCHANGED <<notes, noteLock, history, back, used, digest, persisted, tools, how>>

\* The newest records, as many as are kept.
Trimmed(records) == SubSeq(records, IF Len(records) > MaxHistory THEN Len(records) - MaxHistory + 1 ELSE 1, Len(records))

DigestWritten(s) ==
  /\ pc[s] = "digesting"
  /\ history' = Trimmed(Append(read[s], digest[s]))
  /\ historyLock' = None /\ Forget(s) /\ persisted' = [persisted EXCEPT ![s] = TRUE] /\ Goto(s, back[s])
  /\ UNCHANGED <<notes, noteLock, back, used, digest, tools, how>>

\* Faulty variant: the lock is kept.
DigestFailsLocked(s) ==
  /\ pc[s] = "digesting"
  /\ Forget(s) /\ persisted' = [persisted EXCEPT ![s] = TRUE] /\ Goto(s, back[s])
  /\ UNCHANGED <<notes, history, noteLock, historyLock, back, used, digest, tools, how>>

\* The write raises: it is logged, and not tried again.
DigestFails(s) ==
  /\ pc[s] = "digesting"
  /\ historyLock' = None /\ Forget(s) /\ persisted' = [persisted EXCEPT ![s] = TRUE] /\ Goto(s, back[s])
  /\ UNCHANGED <<notes, history, noteLock, back, used, digest, tools, how>>

\* What blocks the process until it is done.
Write(s) ==
  \/ NoteRead(s) \/ NoteWritten(s) \/ NoteFails(s)
  \/ DigestRead(s) \/ DigestWritten(s) \/ DigestFails(s)

Next ==
  \E s \in Sessions :
    \/ Start(s) \/ Dispatch(s) \/ SubEndsUnheard(s) \/ Note(s) \/ Gone(s) \/ Write(s)
    \/ \E ok \in BOOLEAN : Call(s, ok) \/ Dispatched(s, ok)
    \/ \E r \in Reasons : SubEnds(s, r)
    \/ \E r \in Reasons \cup {"exception"} : Ends(s, r)

Spec == Init /\ [][Next]_vars

FairSpec == Spec /\ \A s \in Sessions : WF_vars(Write(s))

-----------------------------------------------------------------------------
(* Properties.                                                             *)

Writing == {"note", "noting", "digest", "digesting"}

TypeOK ==
  /\ notes \in Seq(Sessions) /\ {noteLock, historyLock} \subseteq Sessions \cup {None}
  /\ pc \in [Sessions -> {"new", "turn", "sub", "dispatched", "over"} \cup Writing]
  /\ used \in [Sessions -> 0 .. Cap] /\ tools \in [Sessions -> 0 .. MaxTools]
  /\ persisted \in [Sessions -> BOOLEAN]

\* A write of one session never undoes one of another: a note goes on top of all there
\* were, a digest behind all there were, of which only the oldest may go.  Unless the
\* file could not be read ("the flock serializes the read-modify-write pair so nothing is
\* lost", agent_notes_service.py:315-331; last_run_memory_service.py:190-196).
NothingLost ==
  [][/\ notes' # notes /\ (\A s \in Sessions : ~blind[s]) =>
          notes' = <<Head(notes')>> \o notes
     /\ history' # history /\ (\A s \in Sessions : ~blind[s]) =>
          history' = Trimmed(Append(history, Last(history')))]_vars

\* However many sub-agents end on the session's bus, and whether the session ends, fails
\* or is cut while it writes, there is no second digest of it, and a session that was not
\* cut has written its digest or tried to (last_run_memory_service.py:23-26, 432-490).
OneDigest ==
  /\ \A i, j \in 1 .. Len(history) : history[i].by = history[j].by => i = j
  /\ \A s \in Sessions : pc[s] = "over" /\ how[s] # "gone" => persisted[s]

\* A write waits for others, but not for ever: locks are given back on every way out, by
\* a session that is cut or dies too (agent_notes_service.py:358-386,
\* last_run_memory_service.py:273-294).
WritersEnd == \A s \in Sessions : pc[s] \in Writing ~> pc[s] \notin Writing

\* The digest says how its own session ended ("one per Feishu session", "ok is the
\* canonical 'was this a success' flag", last_run_memory_service.py:100-106).
DigestIsOwn ==
  \A i \in 1 .. Len(history) :
    LET s == history[i].by
    IN  s \in Sessions /\ pc[s] = "over" => how[s] \in {history[i].reason, "gone"}

\* The session after one that failed is told of it, and one after a success is not
\* (last_run_memory_service.py:28-34).
FailureIsTold ==
  \A s \in Sessions :
    pc[s] = "over" /\ (\A t \in Sessions \ {s} : pc[t] = "new") =>
      (InjectTarget = None <=> how[s] \in Success)

=============================================================================
