---------------------------- MODULE TaskLogProofs ----------------------------
(***************************************************************************)
(* Proofs about TaskLog.  Types hold for any number of overlapping         *)
(* processes; the numbering, the single task.opened and the survival of    *)
(* acknowledged events for processes that run one after the other.         *)
(***************************************************************************)
EXTENDS TaskLog, SequenceTheorems, TLAPS

\* A torn file has a last line.
TornTail == torn => Len(file) > 0

TypeInv == TypeOK /\ TornTail

\* Line i of the file ends with a newline: no later write can touch it.
Ended(i) == i \in 1 .. Len(file) /\ ~(torn /\ i = Len(file))

LEMMA ConstantTypes ==
  /\ NoEvent \in Event
  /\ Garbled \in Line /\ ~Garbled.ok
  /\ Cut \in Line /\ ~Cut.ok
  /\ \A l \in Event : Whole(l) \in Line
<1>1. Garbled \in Line /\ ~Garbled.ok /\ NoEvent \in Event
  BY LogAssumption DEF NoEvent, Garbled, Event, Line, Kinds, Seqs
<1>2. Cut \in Line /\ ~Cut.ok
  BY <1>1 DEF Cut, Garbled, Line
<1>3. \A l \in Event : Whole(l) \in Line
  BY DEF Whole, Event, Line
<1> QED
  BY <1>1, <1>2, <1>3

\* What a write of l may make of a file that ended with a newline: one more line.
LEMMA Appended ==
  ASSUME TypeInv, NEW t \in Line
  PROVE  LET f == Append(file, t)
         IN  /\ f \in Seq(Line) /\ Len(f) = Len(file) + 1 /\ Len(file) \in Nat
             /\ f[Len(file) + 1] = t
             /\ \A i \in 1 .. Len(file) : i \in 1 .. Len(f) /\ f[i] = file[i]
BY AppendProperties DEF TypeInv, TypeOK

\* ... and of a torn one: its last line no longer parses.
LEMMA Glued ==
  ASSUME TypeInv, torn, NEW t \in Line, NEW f, f = [file EXCEPT ![Len(file)] = t]
  PROVE  /\ f \in Seq(Line) /\ Len(f) = Len(file) /\ Len(file) \in Nat /\ Len(file) > 0
         /\ \A i \in 1 .. Len(file) : f[i] = IF i = Len(file) THEN t ELSE file[i]
<1>1. Len(file) \in 1 .. Len(file) /\ file \in Seq(Line)
  BY DEF TypeInv, TypeOK, TornTail
<1> QED
  BY <1>1, ExceptSeq

\* What any write of l, whole or not, does: lines that have ended stay, and what
\* parses afterwards parsed before, or is l on a line of its own.
LEMMA WrittenFile ==
  ASSUME TypeInv, NEW l \in Event, NEW f \in {Written(l)} \cup HalfWritten(l)
  PROVE  /\ f \in Seq(Line) /\ Len(f) > 0 /\ Len(file) \in Nat
         /\ \A i \in 1 .. Len(file) : Ended(i) => i \in 1 .. Len(f) /\ f[i] = file[i]
         /\ f \in HalfWritten(l) => \A i \in 1 .. Len(file) : Ended(i) => i # Len(f)
         /\ \A j \in 1 .. Len(f) :
              f[j].ok => \/ j \in 1 .. Len(file) /\ f[j] = file[j]
                         \/ j = Len(file) + 1 /\ f[j] = Whole(l)
         /\ ~torn /\ f = Written(l)
              => Len(file) + 1 \in 1 .. Len(f) /\ f[Len(file) + 1] = Whole(l)
<1>1. CASE torn
  <2>1. PICK t \in {Garbled, Cut} : f = [file EXCEPT ![Len(file)] = t]
    BY <1>1 DEF Written, HalfWritten
  <2>2. t \in Line /\ ~t.ok
    BY ConstantTypes
  <2>3. /\ f \in Seq(Line) /\ Len(f) = Len(file) /\ Len(file) \in Nat /\ Len(file) > 0
        /\ \A i \in 1 .. Len(file) : f[i] = IF i = Len(file) THEN t ELSE file[i]
    BY <1>1, <2>1, <2>2, Glued
  <2> QED
    BY <1>1, <2>2, <2>3 DEF Ended
<1>2. CASE ~torn
  <2>1. PICK t \in {Garbled, Cut, Whole(l)} : f = Append(file, t)
    BY <1>2 DEF Written, HalfWritten
  <2>2. t \in Line /\ Whole(l) \in Line /\ (t.ok => t = Whole(l))
    BY ConstantTypes
  <2>3. /\ f \in Seq(Line) /\ Len(f) = Len(file) + 1 /\ Len(file) \in Nat
        /\ f[Len(file) + 1] = t
        /\ \A i \in 1 .. Len(file) : i \in 1 .. Len(f) /\ f[i] = file[i]
    BY <2>1, <2>2, Appended
  <2>4. Written(l)[Len(file) + 1] = Whole(l)
    <3>1. Written(l) = Append(file, Whole(l))
      BY <1>2 DEF Written
    <3> QED
      BY <2>2, <3>1, Appended
  <2> QED
    BY <2>2, <2>3, <2>4 DEF Ended
<1> QED
  BY <1>1, <1>2

LEMMA InitTypeInv == Init => TypeInv
<1> SUFFICES ASSUME Init PROVE TypeInv
  OBVIOUS
<1>1. file \in Seq(Line) /\ torn = FALSE
  BY EmptySeq DEF Init
<1>2. \A p \in Procs : pc[p] # "writing" /\ flock # p
  BY LogAssumption DEF Init
<1>3. /\ flock \in Procs \cup {None} /\ pc \in [Procs -> Pcs] /\ acked \in SUBSET Event
      /\ next \in [Procs -> 0 .. MaxSeq + 1]
  BY LogAssumption DEF Init, Pcs
<1>4. line \in [Procs -> Event] /\ spoilt \in [Procs -> BOOLEAN] /\ meta \in BOOLEAN
  BY ConstantTypes DEF Init
<1> QED
  BY <1>1, <1>2, <1>3, <1>4 DEF TypeInv, TypeOK, TornTail

LEMMA NextTypeInv == TypeInv /\ [Next]_vars => TypeInv'
<1> SUFFICES ASSUME TypeInv, [Next]_vars PROVE TypeInv'
  OBVIOUS
<1> USE LogAssumption DEF TypeInv, TypeOK
<1>2. ASSUME NEW p \in Procs, Start(p) PROVE TypeInv'
  BY <1>2 DEF Start, TornTail, Pcs
<1>3. ASSUME NEW p \in Procs, Scan(p) PROVE TypeInv'
  BY <1>3 DEF Scan, TornTail, Pcs
<1>4. ASSUME NEW p \in Procs, ReadMeta(p) PROVE TypeInv'
  BY <1>4 DEF ReadMeta, TornTail, Pcs
<1>5. ASSUME NEW p \in Procs, WriteMeta(p) PROVE TypeInv'
  BY <1>5 DEF WriteMeta, TornTail, Pcs
<1>6. ASSUME NEW p \in Procs, AppendBegin(p) PROVE TypeInv'
  <2>1. next[p] \in Seqs /\ KindAt(p) \in Kinds
    BY <1>6 DEF AppendBegin, KindAt, Seqs, Kinds
  <2>2. line' \in [Procs -> Event]
    BY <1>6, <2>1 DEF AppendBegin, Event
  <2> QED
    BY <1>6, <2>1, <2>2 DEF AppendBegin, TornTail, Pcs, Seqs
<1>7. ASSUME NEW p \in Procs, AppendEnd(p) PROVE TypeInv'
  <2>1. line[p] \in Event /\ Written(line[p]) \in Seq(Line)
    BY WrittenFile
  <2> QED
    BY <1>7, <2>1, ConstantTypes DEF AppendEnd, TornTail, Pcs
<1>8. ASSUME NEW p \in Procs, AppendFail(p) PROVE TypeInv'
  <2>1. line[p] \in Event
    OBVIOUS
  <2>2. file' \in Seq(Line) /\ TornTail'
    BY <1>8, <2>1, WrittenFile DEF AppendFail, TornTail
  <2> QED
    BY <1>8, <2>2, ConstantTypes DEF AppendFail, Unlock, Pcs
<1>9. ASSUME NEW p \in Procs, Die(p) PROVE TypeInv'
  <2>0. line[p] \in Event
    OBVIOUS
  <2>1. file' \in Seq(Line) /\ TornTail'
    BY <1>9, <2>0, WrittenFile DEF Die, TornTail
  <2>2. \A q \in Procs : pc'[q] = "writing" <=> flock' = q
    BY <1>9 DEF Die
  <2>3. pc' \in [Procs -> Pcs] /\ flock' \in Procs \cup {None}
    BY <1>9 DEF Die, Pcs
  <2>4. /\ next' \in [Procs -> 0 .. MaxSeq + 1] /\ line' \in [Procs -> Event]
        /\ spoilt' \in [Procs -> BOOLEAN] /\ meta' \in BOOLEAN /\ acked' \in SUBSET Event
    BY <1>9, ConstantTypes DEF Die
  <2>5. torn' \in BOOLEAN
    BY <1>9, Zenon DEF Die
  <2> QED
    BY <2>1, <2>2, <2>3, <2>4, <2>5
<1>10. CASE UNCHANGED vars
  BY <1>10 DEF vars, TornTail
<1> QED
  BY <1>2, <1>3, <1>4, <1>5, <1>6, <1>7, <1>8, <1>9, <1>10 DEF Next

\* The file, the lock and the log objects keep their types, and the lock is held
\* exactly while a line is being written, with any number of processes
\* (_locked_for_write, task_event_log.py:420-440).
THEOREM TypeCorrect == Spec => []TypeOK
<1>1. Spec => []TypeInv
  BY InitTypeInv, NextTypeInv, PTL DEF Spec
<1>2. TypeInv => TypeOK
  BY DEF TypeInv
<1> QED
  BY <1>1, <1>2, PTL

-----------------------------------------------------------------------------
(* Processes that run one after the other.                                 *)

Alive(p) == pc[p] # "dead"

OneAlive == \A p, q \in Procs : Alive(p) /\ Alive(q) => p = q

\* What a process that has scanned the file knows about it.
KnowsFile(p) ==
  /\ pc[p] \in {"scanned", "fresh", "opening", "resuming", "ready"}
       => \A i \in 1 .. Len(file) : file[i].ok => file[i].seq < next[p]
  /\ pc[p] = "writing"
       => /\ line[p].seq = next[p] - 1
          /\ \A i \in 1 .. Len(file) : file[i].ok => file[i].seq < line[p].seq
  /\ (pc[p] = "ready" \/ (pc[p] = "writing" /\ line[p].kind = "event")) /\ torn
       => spoilt[p]

NoOpened == \A i \in 1 .. Len(file) : file[i].ok => file[i].kind # "task.opened"

\* task.opened is still to come only while the process that wrote meta.json has
\* not written it.
OpeningOK ==
  /\ ~meta => NoOpened /\ \A p \in Procs :
       pc[p] \in {"dead", "up", "scanned", "fresh"}
  /\ \A p \in Procs :
       /\ pc[p] = "fresh" => ~meta
       /\ pc[p] = "opening" \/ (pc[p] = "writing" /\ line[p].kind = "task.opened")
            => NoOpened

\* Acknowledged events are on lines that have ended.
AckedEnded == \A e \in acked : \E i \in 1 .. Len(file) : Ended(i) /\ file[i] = Whole(e)

LogInv ==
  /\ TypeInv
  /\ OneAlive
  /\ \A p \in Procs : KnowsFile(p)
  /\ OpeningOK
  /\ SeqIncreases
  /\ AckedEnded
  /\ OpenedOnce

LEMMA InitLogInv == Init => LogInv
<1> SUFFICES ASSUME Init PROVE LogInv
  OBVIOUS
<1>1. TypeInv
  BY InitTypeInv
<1>2. Len(file) = 0 /\ acked = {}
  BY DEF Init
<1>3. SeqIncreases /\ AckedEnded /\ OpenedOnce /\ NoOpened
  BY <1>2 DEF SeqIncreases, AckedEnded, OpenedOnce, NoOpened
<1>4. OneAlive /\ OpeningOK /\ \A p \in Procs : KnowsFile(p)
  BY <1>3 DEF Init, OneAlive, Alive, OpeningOK, KnowsFile
<1> QED
  BY <1>1, <1>3, <1>4 DEF LogInv

\* Steps that touch neither the file nor the acknowledged events, taken by p.
LEMMA QuietStep ==
  ASSUME LogInv, TypeInv', NEW p \in Procs, UNCHANGED <<file, torn, acked>>,
         \A q \in Procs \ {p} : pc'[q] = pc[q],
         \A q \in Procs \ {p} : ~Alive(q),
         KnowsFile(p)', OpeningOK'
  PROVE  LogInv'
<1>1. SeqIncreases' /\ AckedEnded' /\ OpenedOnce'
  BY DEF LogInv, SeqIncreases, AckedEnded, Ended, OpenedOnce
<1>2. \A q \in Procs \ {p} : pc'[q] = "dead"
  BY DEF Alive
<1>3. OneAlive'
  BY <1>2 DEF OneAlive, Alive
<1>4. \A q \in Procs : KnowsFile(q)'
  BY <1>2 DEF KnowsFile
<1> QED
  BY <1>1, <1>3, <1>4 DEF LogInv

LEMMA StartSound ==
  ASSUME LogInv, TypeInv', ~Overlap, NEW p \in Procs, Start(p)
  PROVE  LogInv'
<1>1. KnowsFile(p)'
  BY DEF Start, KnowsFile, LogInv, TypeInv, TypeOK
<1>2. OpeningOK'
  BY DEF Start, OpeningOK, LogInv, TypeInv, TypeOK, NoOpened
<1> QED
  BY <1>1, <1>2, QuietStep DEF Start, Alive, LogInv, TypeInv, TypeOK

LEMMA ScanSound ==
  ASSUME LogInv, TypeInv', NEW p \in Procs, Scan(p)
  PROVE  LogInv'
<1> USE DEF TypeInv, TypeOK
<1>1. KnowsFile(p)'
  <2>1. PICK n \in -1 .. MaxSeq : IsLastSeq(n) /\ next' = [next EXCEPT ![p] = n + 1]
    BY DEF Scan
  <2>2. \A i \in 1 .. Len(file) : file[i].ok => file[i].seq < n + 1
    <3> SUFFICES ASSUME NEW i \in 1 .. Len(file), file[i].ok PROVE file[i].seq < n + 1
      OBVIOUS
    <3>1. file[i].seq <= n /\ file[i] \in Line
      BY <2>1 DEF IsLastSeq, LogInv
    <3> QED
      BY <3>1, LogAssumption DEF Line, Seqs
  <2>3. pc'[p] = "scanned" /\ next'[p] = n + 1 /\ UNCHANGED file
    BY <2>1 DEF Scan, LogInv
  <2> QED
    BY <2>2, <2>3 DEF KnowsFile
<1>2. OpeningOK'
  BY DEF Scan, OpeningOK, LogInv, NoOpened
<1> QED
  BY <1>1, <1>2, QuietStep DEF Scan, Alive, LogInv, OneAlive

LEMMA ReadMetaSound ==
  ASSUME LogInv, TypeInv', NEW p \in Procs, ReadMeta(p)
  PROVE  LogInv'
<1> USE DEF TypeInv, TypeOK
<1>1. KnowsFile(p)'
  BY DEF ReadMeta, KnowsFile, LogInv
<1>2. OpeningOK'
  BY DEF ReadMeta, OpeningOK, LogInv, NoOpened
<1> QED
  BY <1>1, <1>2, QuietStep DEF ReadMeta, Alive, LogInv, OneAlive

LEMMA WriteMetaSound ==
  ASSUME LogInv, TypeInv', NEW p \in Procs, WriteMeta(p)
  PROVE  LogInv'
<1> USE DEF TypeInv, TypeOK
<1>1. KnowsFile(p)'
  BY DEF WriteMeta, KnowsFile, LogInv
<1>2. \A q \in Procs \ {p} : pc[q] = "dead"
  BY DEF WriteMeta, LogInv, OneAlive, Alive
<1>3. ~meta /\ NoOpened
  BY DEF WriteMeta, LogInv, OpeningOK
<1>4. OpeningOK'
  BY <1>2, <1>3 DEF WriteMeta, OpeningOK, LogInv, NoOpened
<1> QED
  BY <1>1, <1>4, QuietStep DEF WriteMeta, Alive, LogInv, OneAlive

LEMMA AppendBeginSound ==
  ASSUME LogInv, TypeInv', NEW p \in Procs, AppendBegin(p)
  PROVE  LogInv'
<1> USE DEF TypeInv, TypeOK
<1>1. /\ line'[p] = [seq |-> next[p], kind |-> KindAt(p)] /\ next'[p] = next[p] + 1
      /\ pc'[p] = "writing" /\ UNCHANGED <<file, torn, meta, spoilt, acked>>
  BY DEF AppendBegin, LogInv
<1>2. KnowsFile(p)
  BY DEF LogInv
<1>3. KindAt(p) = "event" => pc[p] = "ready"
  BY DEF AppendBegin, KindAt
<1>4. next[p] \in Nat
  BY LogAssumption DEF LogInv
<1>5. KnowsFile(p)'
  <2>1. pc[p] \in {"opening", "resuming", "ready"}
    BY DEF AppendBegin
  <2>2. \A i \in 1 .. Len(file) : file[i].ok => file[i].seq < next[p]
    BY <1>2, <2>1 DEF KnowsFile
  <2>3. line'[p].seq = next[p] /\ line'[p].kind = KindAt(p)
    BY <1>1
  <2>4. line'[p].seq = next'[p] - 1
    BY <1>1, <1>4, <2>3
  <2>5. KindAt(p) = "event" /\ torn => spoilt[p]
    BY <1>2, <1>3 DEF KnowsFile
  <2> QED
    BY <1>1, <2>2, <2>3, <2>4, <2>5 DEF KnowsFile
<1>6. \A q \in Procs \ {p} : pc[q] = "dead" /\ pc'[q] = "dead"
  BY DEF AppendBegin, LogInv, OneAlive, Alive
<1>7. KindAt(p) = "task.opened" => pc[p] = "opening"
  BY DEF KindAt
<1>8. OpeningOK'
  <2>1. meta
    BY DEF AppendBegin, LogInv, OpeningOK
  <2>2. KindAt(p) = "task.opened" => NoOpened
    BY <1>7 DEF LogInv, OpeningOK
  <2>3. line'[p].kind = KindAt(p)
    BY <1>1
  <2> QED
    BY <1>1, <1>6, <2>1, <2>2, <2>3 DEF OpeningOK, NoOpened
<1> QED
  BY <1>1, <1>5, <1>6, <1>8, QuietStep DEF Alive

\* The ways the write of p's line can go.
Wrote(p) ==
  \/ file' = Written(line[p]) /\ torn' = FALSE
  \/ file' \in HalfWritten(line[p]) /\ torn' = TRUE
  \/ UNCHANGED <<file, torn>>

\* However it goes: ended lines stay and have ended, and what parses afterwards
\* parsed before, or is p's line after all others.
LEMMA WroteFile ==
  ASSUME LogInv, NEW p \in Procs, Wrote(p)
  PROVE  /\ \A i \in 1 .. Len(file) :
              Ended(i) => i \in 1 .. Len(file') /\ file'[i] = file[i] /\ Ended(i)'
         /\ \A j \in 1 .. Len(file') :
              file'[j].ok => \/ j \in 1 .. Len(file) /\ file'[j] = file[j]
                             \/ j = Len(file) + 1 /\ file'[j] = Whole(line[p])
<1>1. line[p] \in Event /\ TypeInv
  BY DEF LogInv, TypeInv, TypeOK
<1>2. CASE file' = Written(line[p]) /\ torn' = FALSE
  BY <1>1, <1>2, WrittenFile DEF Ended
<1>3. CASE file' \in HalfWritten(line[p]) /\ torn' = TRUE
  BY <1>1, <1>3, WrittenFile DEF Ended
<1>4. CASE UNCHANGED <<file, torn>>
  BY <1>4 DEF Ended
<1> QED
  BY <1>2, <1>3, <1>4 DEF Wrote

\* So the file stays in order whatever becomes of the write.
LEMMA WroteSound ==
  ASSUME LogInv, NEW p \in Procs, pc[p] = "writing", Wrote(p)
  PROVE  /\ SeqIncreases' /\ OpenedOnce'
         /\ \A j \in 1 .. Len(file') : file'[j].ok => file'[j].seq < next[p]
         /\ \A e \in acked : \E i \in 1 .. Len(file') : Ended(i)' /\ file'[i] = Whole(e)
<1> USE DEF TypeInv, TypeOK
<1> DEFINE l == line[p]
<1>1. l \in Event /\ next[p] \in Nat /\ l.seq = next[p] - 1 /\ Len(file) \in Nat
  BY LogAssumption DEF LogInv, KnowsFile
<1>2. \A i \in 1 .. Len(file) : file[i].ok => file[i].seq < l.seq
  BY DEF LogInv, KnowsFile
<1>3. \A j \in 1 .. Len(file') :
        file'[j].ok => \/ j \in 1 .. Len(file) /\ file'[j] = file[j]
                       \/ j = Len(file) + 1 /\ file'[j] = Whole(l)
  BY WroteFile
<1>4. SeqIncreases'
  <2> SUFFICES ASSUME NEW i \in 1 .. Len(file'), NEW j \in 1 .. Len(file'),
                      i < j, file'[i].ok, file'[j].ok
               PROVE  file'[i].seq < file'[j].seq
    BY DEF SeqIncreases
  <2>1. CASE j \in 1 .. Len(file) /\ file'[j] = file[j]
    <3>1. i \in 1 .. Len(file) /\ file'[i] = file[i]
      BY <1>1, <1>3, <2>1
    <3> QED
      BY <2>1, <3>1 DEF LogInv, SeqIncreases
  <2>2. CASE j = Len(file) + 1 /\ file'[j] = Whole(l)
    <3>1. i \in 1 .. Len(file) /\ file'[i] = file[i]
      BY <1>1, <1>3, <2>2
    <3> QED
      BY <1>2, <2>2, <3>1 DEF Whole
  <2> QED
    BY <1>3, <2>1, <2>2
<1>5. OpenedOnce'
  <2> SUFFICES ASSUME NEW i \in 1 .. Len(file'), NEW j \in 1 .. Len(file'),
                      file'[i].ok, file'[i].kind = "task.opened",
                      file'[j].ok, file'[j].kind = "task.opened"
               PROVE  i = j
    BY DEF OpenedOnce
  <2>1. CASE l.kind = "task.opened"
    BY <1>3, <2>1 DEF LogInv, OpeningOK, NoOpened
  <2>2. CASE l.kind # "task.opened"
    <3>1. /\ i \in 1 .. Len(file) /\ file'[i] = file[i]
          /\ j \in 1 .. Len(file) /\ file'[j] = file[j]
      BY <1>3, <2>2 DEF Whole
    <3> QED
      BY <3>1 DEF LogInv, OpenedOnce
  <2> QED
    BY <2>1, <2>2
<1>6. \A j \in 1 .. Len(file') : file'[j].ok => file'[j].seq < next[p]
  <2> SUFFICES ASSUME NEW j \in 1 .. Len(file'), file'[j].ok PROVE file'[j].seq < next[p]
    OBVIOUS
  <2>1. CASE j \in 1 .. Len(file) /\ file'[j] = file[j]
    <3>1. file[j].seq < l.seq /\ file[j] \in Line
      BY <1>2, <2>1 DEF LogInv
    <3> QED
      BY <1>1, <2>1, <3>1 DEF Line, Seqs
  <2>2. CASE file'[j] = Whole(l)
    BY <1>1, <2>2 DEF Whole
  <2> QED
    BY <1>3, <2>1, <2>2
<1>7. ASSUME NEW e \in acked
      PROVE  \E i \in 1 .. Len(file') : Ended(i)' /\ file'[i] = Whole(e)
  <2>1. PICK i \in 1 .. Len(file) : Ended(i) /\ file[i] = Whole(e)
    BY DEF LogInv, AckedEnded
  <2> QED
    BY <2>1, WroteFile
<1> QED
  BY <1>4, <1>5, <1>6, <1>7

\* The end of an append, with the file as above and p back, dead or starting over.
LEMMA WriteDone ==
  ASSUME LogInv, TypeInv', NEW p \in Procs, pc[p] = "writing", Wrote(p), meta' = meta,
         \A q \in Procs \ {p} : pc'[q] = pc[q],
         pc'[p] \in {"dead", "up", "ready"},
         pc'[p] = "ready" => next'[p] = next[p] /\ (torn' => spoilt'[p]),
         AckedEnded'
  PROVE  LogInv'
<1> USE DEF TypeInv, TypeOK
<1>1. SeqIncreases' /\ OpenedOnce'
  BY WroteSound
<1>2. \A q \in Procs \ {p} : pc[q] = "dead" /\ pc'[q] = "dead"
  BY DEF LogInv, OneAlive, Alive
<1>3. OneAlive'
  BY <1>2 DEF OneAlive, Alive
<1>4. \A j \in 1 .. Len(file') : file'[j].ok => file'[j].seq < next[p]
  BY WroteSound
<1>5. \A q \in Procs : KnowsFile(q)'
  BY <1>2, <1>4 DEF KnowsFile
<1>6. meta
  BY DEF LogInv, OpeningOK
<1>7. OpeningOK'
  BY <1>2, <1>6 DEF OpeningOK
<1> QED
  BY <1>1, <1>3, <1>5, <1>7 DEF LogInv

LEMMA AppendEndSound ==
  ASSUME LogInv, TypeInv', NEW p \in Procs, AppendEnd(p)
  PROVE  LogInv'
<1> USE DEF TypeInv, TypeOK
<1>1. Wrote(p) /\ pc[p] = "writing" /\ meta' = meta /\ next' = next /\ torn' = FALSE
  BY DEF AppendEnd, Wrote
<1>2. pc'[p] = "ready" /\ \A q \in Procs \ {p} : pc'[q] = pc[q]
  BY DEF AppendEnd, LogInv
<1>3. ASSUME NEW e \in acked'
      PROVE  \E i \in 1 .. Len(file') : Ended(i)' /\ file'[i] = Whole(e)
  <2>1. CASE e \in acked
    BY <1>1, <2>1, WroteSound
  <2>2. CASE e = line[p] /\ line[p].kind = "event" /\ ~spoilt[p]
    <3>1. ~torn /\ line[p] \in Event /\ TypeInv
      BY <1>1, <2>2 DEF LogInv, KnowsFile
    <3>2. Len(file) + 1 \in 1 .. Len(file') /\ file'[Len(file) + 1] = Whole(line[p])
      BY <3>1, WrittenFile DEF AppendEnd
    <3> QED
      BY <1>1, <2>2, <3>2 DEF Ended
  <2> QED
    BY <2>1, <2>2 DEF AppendEnd
<1>4. AckedEnded'
  BY <1>3 DEF AckedEnded
<1> QED
  BY <1>1, <1>2, <1>4, WriteDone

LEMMA AppendFailSound ==
  ASSUME LogInv, TypeInv', NEW p \in Procs, AppendFail(p)
  PROVE  LogInv'
<1> USE DEF TypeInv, TypeOK
<1>1. Wrote(p) /\ pc[p] = "writing" /\ meta' = meta /\ next' = next /\ acked' = acked
  BY DEF AppendFail, Wrote
<1>2. pc'[p] \in {"up", "ready"} /\ \A q \in Procs \ {p} : pc'[q] = pc[q]
  BY DEF AppendFail, LogInv
<1>3. spoilt'[p]
  BY DEF AppendFail, LogInv
<1>4. AckedEnded'
  BY <1>1, WroteSound DEF AckedEnded
<1> QED
  BY <1>1, <1>2, <1>3, <1>4, WriteDone

LEMMA DieSound ==
  ASSUME LogInv, TypeInv', NEW p \in Procs, Die(p)
  PROVE  LogInv'
<1> USE DEF TypeInv, TypeOK
<1>1. Wrote(p) /\ meta' = meta /\ acked' = acked /\ pc[p] # "dead"
  BY DEF Die, Wrote
<1>2. pc'[p] = "dead" /\ \A q \in Procs \ {p} : pc'[q] = pc[q]
  BY DEF Die, LogInv
<1>3. CASE pc[p] = "writing"
  <2>1. AckedEnded'
    BY <1>1, <1>3, WroteSound DEF AckedEnded
  <2> QED
    BY <1>1, <1>2, <1>3, <2>1, WriteDone
<1>4. CASE pc[p] # "writing"
  <2>1. UNCHANGED <<file, torn, acked>>
    BY <1>1, <1>4 DEF Die
  <2>2. \A q \in Procs \ {p} : ~Alive(q)
    BY <1>1 DEF LogInv, OneAlive, Alive
  <2>3. KnowsFile(p)'
    BY <1>2 DEF KnowsFile
  <2>4. OpeningOK'
    BY <1>1, <1>2, <2>1, <2>2 DEF OpeningOK, LogInv, NoOpened, Alive
  <2> QED
    BY <1>2, <2>1, <2>2, <2>3, <2>4, QuietStep
<1> QED
  BY <1>3, <1>4

LEMMA NextSound ==
  ASSUME LogInv, ~Overlap, [Next]_vars PROVE LogInv'
<1>1. TypeInv'
  BY NextTypeInv DEF LogInv
<1>2. CASE UNCHANGED vars
  <2>1. OneAlive' /\ OpeningOK' /\ \A p \in Procs : KnowsFile(p)'
    BY <1>2 DEF vars, LogInv, OneAlive, Alive, OpeningOK, NoOpened, KnowsFile
  <2>2. SeqIncreases' /\ AckedEnded' /\ OpenedOnce'
    BY <1>2 DEF vars, LogInv, SeqIncreases, AckedEnded, Ended, OpenedOnce
  <2> QED
    BY <1>1, <2>1, <2>2 DEF LogInv
<1> QED
  BY <1>1, <1>2, StartSound, ScanSound, ReadMetaSound, WriteMetaSound, AppendBeginSound,
     AppendEndSound, AppendFailSound, DieSound DEF Next

LEMMA LogInvHolds == ~Overlap => (Spec => []LogInv)
<1> SUFFICES ASSUME ~Overlap PROVE Spec => []LogInv
  OBVIOUS
<1>1. LogInv /\ [Next]_vars => LogInv'
  BY NextSound
<1> QED
  BY <1>1, InitLogInv, PTL DEF Spec

\* Processes that follow one another, crashing and failing at will, never write
\* a sequence number twice or out of order (task_event_log.py:28), because each
\* scans the file before its first append.
THEOREM NumbersIncrease == ~Overlap => (Spec => []SeqIncreases)
<1> SUFFICES ASSUME ~Overlap PROVE Spec => []SeqIncreases
  OBVIOUS
<1>1. Spec => []LogInv
  BY LogInvHolds
<1>2. LogInv => SeqIncreases
  BY DEF LogInv
<1> QED
  BY <1>1, <1>2, PTL

\* What a torn line swallows after a restart is the marker open_or_resume appends
\* first (task_service.py:245-252), never an event that append() had returned.
THEOREM CrashCostsNothing == ~Overlap => (Spec => []AckedEventsSurvive)
<1> SUFFICES ASSUME ~Overlap PROVE Spec => []AckedEventsSurvive
  OBVIOUS
<1>1. Spec => []LogInv
  BY LogInvHolds
<1>2. LogInv => AckedEventsSurvive
  BY DEF LogInv, AckedEnded, AckedEventsSurvive
<1> QED
  BY <1>1, <1>2, PTL

\* meta.json goes to disk before task.opened does (task_service.py:210-243), so a
\* crash between the two may lose the marker but never double it.
THEOREM OpensOnce == ~Overlap => (Spec => []OpenedOnce)
<1> SUFFICES ASSUME ~Overlap PROVE Spec => []OpenedOnce
  OBVIOUS
<1>1. Spec => []LogInv
  BY LogInvHolds
<1>2. LogInv => OpenedOnce
  BY DEF LogInv
<1> QED
  BY <1>1, <1>2, PTL
=============================================================================
