------------------------------- MODULE TaskLog -------------------------------
(***************************************************************************)
(* The event log of one task: team/task_event_log.py (TaskEventLog) and    *)
(* the way TaskService.open_or_resume of team/task_service.py opens it.    *)
(*                                                                         *)
(* events.jsonl is appended to under an flock; the sequence number of the  *)
(* next event is read from the file once, when the log object is built,    *)
(* and counted in memory from then on.  A write may stop half way, because *)
(* the process dies or the disk is full: the line then has no newline, and *)
(* the next one is glued to it, so that readers skip both.  A write that   *)
(* stops inside a character leaves a file that cannot be decoded at all.   *)
(* (A scan that fails with an OSError, which starts at 0, is left out.)    *)
(***************************************************************************)
EXTENDS Integers, Sequences

CONSTANTS
  Procs,    \* processes that may open the task
  Overlap,  \* may a process start while another one is still alive?
  MaxSeq,   \* bound: no append takes a number above it
  MaxLines  \* bound: no append starts when the file has that many lines

Kinds == {"task.opened", "task.resumed", "event"}
Seqs  == 0 .. MaxSeq
None  == "none"

Event   == [seq : Seqs, kind : Kinds]
\* A line of the file: ok if it parses, utf8 if its bytes can be decoded.
Line    == [seq : Seqs, kind : Kinds, ok : BOOLEAN, utf8 : BOOLEAN]
Whole(l) == [seq |-> l.seq, kind |-> l.kind, ok |-> TRUE, utf8 |-> TRUE]
Garbled  == [seq |-> 0, kind |-> "event", ok |-> FALSE, utf8 |-> TRUE]
Cut      == [Garbled EXCEPT !.utf8 = FALSE]
NoEvent == [seq |-> 0, kind |-> "event"]

ASSUME LogAssumption ==
  /\ Overlap \in BOOLEAN
  /\ MaxSeq \in Nat
  /\ MaxLines \in Nat
  /\ None \notin Procs

VARIABLES
  file,    \* the lines of events.jsonl
  torn,    \* the last line has no newline
  meta,    \* meta.json exists
  flock,   \* the process that holds the file "lock", or None
  pc,      \* pc[p]: where process p is in opening the task or appending to it
  next,    \* next[p]: _next_seq of its log object
  line,    \* line[p]: the event it is appending
  spoilt,  \* spoilt[p]: a write has failed since the process started
  acked    \* events whose append returned to a caller whose log was not spoilt

vars == <<file, torn, meta, flock, pc, next, line, spoilt, acked>>

Pcs == {"dead", "up", "scanned", "fresh", "opening", "resuming", "ready", "writing"}

Init ==
  /\ file = <<>>
  /\ torn = FALSE
  /\ meta = FALSE
  /\ flock = None
  /\ pc = [p \in Procs |-> "dead"]
  /\ next = [p \in Procs |-> 0]
  /\ line = [p \in Procs |-> NoEvent]
  /\ spoilt = [p \in Procs |-> FALSE]
  /\ acked = {}

-----------------------------------------------------------------------------

\* Faulty variant: the numbers are taken from the count of lines.
IsLineCount(n) == n = Len(file) - 1

\* _scan_last_seq: the highest number among the lines that parse, -1 if none.
IsLastSeq(n) ==
  /\ \A i \in 1 .. Len(file) : file[i].ok => file[i].seq <= n
  /\ n = -1 \/ \E i \in 1 .. Len(file) : file[i].ok /\ file[i].seq = n

\* What a whole line does to the file: it is glued to a torn one.
Written(l) ==
  IF torn THEN [file EXCEPT ![Len(file)] = IF @.utf8 THEN Garbled ELSE Cut]
  ELSE Append(file, Whole(l))

\* What may be left when the write stops half way: bytes that do not parse, or
\* do not decode, or all of the line but its newline.
HalfWritten(l) ==
  IF torn
    THEN {[file EXCEPT ![Len(file)] = t] : t \in {Cut, IF file[Len(file)].utf8 THEN Garbled ELSE Cut}}
    ELSE {Append(file, t) : t \in {Garbled, Cut, Whole(l)}}

-----------------------------------------------------------------------------
(* open_or_resume: build the log object, look for meta.json, and announce. *)

Start(p) ==
  /\ pc[p] = "dead"
  /\ Overlap \/ \A q \in Procs : pc[q] = "dead"
  /\ pc' = [pc EXCEPT ![p] = "up"]
  /\ UNCHANGED <<file, torn, meta, flock, next, line, spoilt, acked>>

\* Building the log object.  On a line it cannot decode the scan raises, and the
\* message runs without a log: the process stays where it is.
Scan(p) ==
  /\ pc[p] = "up"
  /\ \A i \in 1 .. Len(file) : file[i].utf8
  /\ \E n \in -1 .. MaxSeq :
       IsLastSeq(n) /\ next' = [next EXCEPT ![p] = n + 1]
  /\ pc' = [pc EXCEPT ![p] = "scanned"]
  /\ UNCHANGED <<file, torn, meta, flock, line, spoilt, acked>>

\* Faulty variant: a resumed log is used without announcing it.
ReadMetaSilently(p) ==
  /\ pc[p] = "scanned"
  /\ pc' = [pc EXCEPT ![p] = IF meta THEN "ready" ELSE "fresh"]
  /\ UNCHANGED <<file, torn, meta, flock, next, line, spoilt, acked>>

ReadMeta(p) ==
  /\ pc[p] = "scanned"
  /\ pc' = [pc EXCEPT ![p] = IF meta THEN "resuming" ELSE "fresh"]
  /\ UNCHANGED <<file, torn, meta, flock, next, line, spoilt, acked>>

\* Faulty variant: task.opened goes out before meta.json does.
WriteMetaLast(p) ==
  /\ pc[p] = "fresh"
  /\ flock = None
  /\ pc' = [pc EXCEPT ![p] = "opening"]
  /\ UNCHANGED <<file, torn, meta, flock, next, line, spoilt, acked>>

\* write_meta: a temporary file and os.replace, so all or nothing; an error
\* fails the open.
WriteMeta(p) ==
  /\ pc[p] = "fresh"
  /\ flock = None
  /\ \/ meta' = TRUE /\ pc' = [pc EXCEPT ![p] = "opening"]
     \/ meta' = meta /\ pc' = [pc EXCEPT ![p] = "up"]
  /\ UNCHANGED <<file, torn, flock, next, line, spoilt, acked>>

-----------------------------------------------------------------------------
(* append: under the flock, take the number, then write.                   *)

KindAt(p) ==
  CASE pc[p] = "opening"  -> "task.opened"
    [] pc[p] = "resuming" -> "task.resumed"
    [] OTHER              -> "event"

AppendBegin(p) ==
  /\ pc[p] \in {"opening", "resuming", "ready"}
  /\ flock = None
  /\ next[p] <= MaxSeq /\ Len(file) < MaxLines
  /\ flock' = p
  /\ line' = [line EXCEPT ![p] = [seq |-> next[p], kind |-> KindAt(p)]]
  /\ next' = [next EXCEPT ![p] = @ + 1]
  /\ pc' = [pc EXCEPT ![p] = "writing"]
  /\ UNCHANGED <<file, torn, meta, spoilt, acked>>

AppendEnd(p) ==
  /\ pc[p] = "writing"
  /\ file' = Written(line[p])
  /\ torn' = FALSE
  /\ flock' = None
  /\ pc' = [pc EXCEPT ![p] = "ready"]
  /\ acked' = IF line[p].kind = "event" /\ ~spoilt[p] THEN acked \cup {line[p]} ELSE acked
  /\ line' = [line EXCEPT ![p] = NoEvent]
  /\ UNCHANGED <<meta, next, spoilt>>

\* The finally clauses of _locked_for_write.
Unlock == flock' = None

\* The write raises, with nothing or half of the line in the file; the number
\* is spent.  A failed task.opened fails the open, and the next message builds a
\* new log object; the other failures are swallowed by the callers, and the
\* handle of a failed task.resumed is already registered.
AppendFail(p) ==
  /\ pc[p] = "writing"
  /\ \/ UNCHANGED <<file, torn>>
     \/ /\ file' \in HalfWritten(line[p])
        /\ torn' = TRUE
  /\ spoilt' = [spoilt EXCEPT ![p] = TRUE]
  /\ Unlock
  /\ pc' = [pc EXCEPT ![p] = IF line[p].kind = "task.opened" THEN "up" ELSE "ready"]
  /\ line' = [line EXCEPT ![p] = NoEvent]
  /\ UNCHANGED <<meta, next, acked>>

\* The process dies; the kernel drops its flock.  A write may stop half way.
Die(p) ==
  /\ pc[p] # "dead"
  /\ \/ UNCHANGED <<file, torn>>
     \/ /\ pc[p] = "writing"
        /\ file' \in HalfWritten(line[p])
        /\ torn' = TRUE
  /\ flock' = IF flock = p THEN None ELSE flock
  /\ pc' = [pc EXCEPT ![p] = "dead"]
  /\ next' = [next EXCEPT ![p] = 0]
  /\ line' = [line EXCEPT ![p] = NoEvent]
  /\ spoilt' = [spoilt EXCEPT ![p] = FALSE]
  /\ UNCHANGED <<meta, acked>>

Next ==
  \E p \in Procs :
    \/ Start(p) \/ Scan(p) \/ ReadMeta(p) \/ WriteMeta(p)
    \/ AppendBegin(p) \/ AppendEnd(p) \/ AppendFail(p) \/ Die(p)

Spec == Init /\ [][Next]_vars

-----------------------------------------------------------------------------
(* Properties.                                                             *)

\* Types, and the lock is held exactly while a line is being written.
TypeOK ==
  /\ file \in Seq(Line)
  /\ torn \in BOOLEAN /\ meta \in BOOLEAN
  /\ flock \in Procs \cup {None}
  /\ pc \in [Procs -> Pcs]
  /\ next \in [Procs -> 0 .. MaxSeq + 1]
  /\ line \in [Procs -> Event]
  /\ spoilt \in [Procs -> BOOLEAN]
  /\ acked \in SUBSET Event
  /\ \A p \in Procs : pc[p] = "writing" <=> flock = p

\* "Each event carries a strictly-increasing integer" (task_event_log.py:28):
\* across crashes, failed writes and restarts, a reader of the file never sees a
\* number come back or go down.
SeqIncreases ==
  \A i, j \in 1 .. Len(file) :
    (i < j /\ file[i].ok /\ file[j].ok) => file[i].seq < file[j].seq

\* A crash costs no event that a caller was told is logged ("resumed after a
\* crash", task_event_log.py:12): what a torn line swallows after a restart is the
\* task.resumed marker that open_or_resume appends first (task_service.py:245-252).
\* Only a write that failed in the same process can swallow more.
AckedEventsSurvive ==
  \A e \in acked :
    \E i \in 1 .. Len(file) : file[i] = Whole(e)

\* A thread is one task: whatever crashes while it is opened, its log is opened
\* once and resumed afterwards (task_service.py:210-252).
OpenedOnce ==
  \A i, j \in 1 .. Len(file) :
    (/\ file[i].ok /\ file[i].kind = "task.opened"
     /\ file[j].ok /\ file[j].kind = "task.opened") => i = j

\* A thread can be "resumed after a crash" (task_event_log.py:11-12): whatever a
\* process left in the file, the next one gets through the scan.
CrashedTaskReopens ==
  \A p \in Procs : pc[p] = "up" => \A i \in 1 .. Len(file) : file[i].utf8

=============================================================================
