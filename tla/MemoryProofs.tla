---------------------------- MODULE MemoryProofs ----------------------------
(***************************************************************************)
(* Proofs about Memory: its types, that a session is on record at most     *)
(* once and not forgotten, and that no write of one session undoes one of  *)
(* another; for any number of sessions, notes, records and tool calls.     *)
(*                                                                         *)
(* And about Project: what policies and status files come to, that source  *)
(* files hold what was accepted and the audit log speaks of it, and that   *)
(* the table follows the files; for any processes, files, lines and syncs. *)
(***************************************************************************)
EXTENDS Memory, Project, SequenceTheorems, WellFoundedInduction, TLAPS

Digest ==
  [by : Sessions \cup {None}, calls : Nat, more : Nat, failed : Nat,
   reason : Reasons \cup {"exception", None}]

\* The types TypeOK leaves out.
MoreTypes ==
  /\ history \in Seq(Digest)
  /\ digest \in [Sessions -> Digest]
  /\ back \in [Sessions -> {"dispatched", "over"}]
  /\ blind \in [Sessions -> BOOLEAN]
  /\ read \in [Sessions -> Seq(Sessions) \cup Seq(Digest)]
  /\ how \in [Sessions -> Reasons \cup {"exception", "gone", None}]

\* A session has room for the tool call it is in the middle of; while it writes it has the
\* lock, and what it read of the file is still there; it has not tried to write its digest
\* before it does, and has when it is over, unless it is gone.
SessionOK(s) ==
  /\ digest[s].by = s
  /\ pc[s] \in {"note", "noting"} => used[s] < Cap /\ tools[s] < MaxTools
  /\ pc[s] = "dispatched" => tools[s] < MaxTools
  /\ pc[s] \in {"digest", "digesting"} => ~persisted[s] /\ (back[s] = "dispatched" => tools[s] < MaxTools)
  /\ pc[s] = "noting" => noteLock = s /\ (read[s] = notes \/ (blind[s] /\ read[s] = <<>>))
  /\ pc[s] = "digesting" => historyLock = s /\ (read[s] = history \/ (blind[s] /\ read[s] = <<>>))
  /\ pc[s] = "over" /\ how[s] # "gone" => persisted[s]

\* Who is on record has tried to write, and is there once.
Listed ==
  /\ \A i \in 1 .. Len(history) : history[i].by \in Sessions => persisted[history[i].by]
  /\ \A i, j \in 1 .. Len(history) : history[i].by = history[j].by => i = j

Inv == TypeOK /\ MoreTypes /\ (\A s \in Sessions : SessionOK(s)) /\ Listed

-----------------------------------------------------------------------------
(* The operators.                                                          *)

LEMMA Bounds ==
  /\ Cap \in Nat /\ MaxTools \in Nat /\ MaxCalls \in Nat /\ MaxHistory \in Nat \ {0}
  /\ None \notin Sessions
BY MemoryAssumption

\* What is kept of the records: as many as there may be, the last ones, in their order.
LEMMA TrimmedFacts ==
  ASSUME NEW S, NEW r \in Seq(S), r # <<>>
  PROVE  LET n == Len(Trimmed(r))
         IN  /\ Trimmed(r) \in Seq(S)
             /\ n \in 1 .. Len(r) /\ n <= MaxHistory
             /\ \A i \in 1 .. n : Trimmed(r)[i] = r[Len(r) - n + i]
             /\ Last(Trimmed(r)) = Last(r)
<1> DEFINE L == Len(r)
           a == IF L > MaxHistory THEN L - MaxHistory + 1 ELSE 1
           t == SubSeq(r, a, L)
<1>1. L \in Nat \ {0} /\ \A i \in 1 .. L : r[i] \in S
  BY EmptySeq, ElementOfSeq
<1>2. a \in 1 .. L
  BY <1>1, Bounds
<1>3. t \in Seq(S) /\ Len(t) = L - a + 1 /\ \A i \in 1 .. L - a + 1 : t[i] = r[a + i - 1]
  BY <1>1, <1>2, SubSeqProperties
<1>4. Trimmed(r) = t
  BY DEF Trimmed
<1>5. Len(t) \in 1 .. L /\ Len(t) <= MaxHistory
  BY <1>1, <1>2, <1>3, Bounds
<1> HIDE DEF t, a
<1>6. \A i \in 1 .. Len(t) : t[i] = r[L - Len(t) + i]
  BY <1>1, <1>2, <1>3
<1>7. Last(t) = Last(r)
  BY <1>1, <1>5, <1>6 DEF Last
<1> QED
  BY <1>3, <1>4, <1>5, <1>6, <1>7

LEMMA CollectType ==
  ASSUME NEW d \in Digest, NEW nth \in Nat, NEW ok \in BOOLEAN
  PROVE  Collect(d, nth, ok) \in Digest /\ Collect(d, nth, ok).by = d.by
<1>1. CASE d.calls >= MaxCalls
  BY <1>1 DEF Collect, Digest
<1>2. CASE ~(d.calls >= MaxCalls)
  <2> DEFINE m == d.calls + 1
             n == IF ok THEN d.failed ELSE nth
  <2>1. Collect(d, nth, ok) = [d EXCEPT !.calls = m, !.failed = n]
    BY <1>2 DEF Collect
  <2>2. m \in Nat /\ n \in Nat
    BY DEF Digest
  <2> HIDE DEF m, n
  <2> QED
    BY <2>1, <2>2 DEF Digest
<1> QED
  BY <1>1, <1>2

-----------------------------------------------------------------------------
(* What most steps have in common.                                         *)

\* A step of one session that leaves the files alone.
LEMMA Frame ==
  ASSUME Inv, NEW s \in Sessions, UNCHANGED <<notes, history, persisted>>,
         TypeOK', MoreTypes', SessionOK(s)',
         \A t \in Sessions \ {s} :
           /\ pc'[t] = pc[t] /\ back'[t] = back[t] /\ read'[t] = read[t] /\ blind'[t] = blind[t]
           /\ used'[t] = used[t] /\ digest'[t] = digest[t] /\ tools'[t] = tools[t] /\ how'[t] = how[t],
         noteLock' = noteLock \/ (noteLock = s /\ noteLock' = None) \/ (noteLock = None /\ noteLock' = s),
         historyLock' = historyLock \/ (historyLock = s /\ historyLock' = None)
                          \/ (historyLock = None /\ historyLock' = s)
  PROVE  Inv'
<1>1. ASSUME NEW t \in Sessions, t # s PROVE SessionOK(t)'
  <2>1. SessionOK(t)
    BY DEF Inv
  <2>2. (noteLock = t => noteLock' = t) /\ (historyLock = t => historyLock' = t)
    BY <1>1, Bounds
  <2> QED
    BY <1>1, <2>1, <2>2 DEF SessionOK
<1>2. Listed'
  BY DEF Inv, Listed
<1> QED
  BY <1>1, <1>2 DEF Inv

\* A tool call that is seen.
LEMMA SeenFacts ==
  ASSUME Inv, NEW s \in Sessions, NEW ok \in BOOLEAN, Seen(s, ok), tools[s] < MaxTools
  PROVE  /\ tools' \in [Sessions -> 0 .. MaxTools] /\ digest' \in [Sessions -> Digest]
         /\ digest'[s].by = digest[s].by
         /\ \A t \in Sessions \ {s} : digest'[t] = digest[t] /\ tools'[t] = tools[t]
<1> DEFINE d == Collect(digest[s], tools[s] + 1, ok)
<1>1. digest[s] \in Digest /\ tools[s] + 1 \in Nat /\ tools[s] + 1 \in 0 .. MaxTools
  BY Bounds DEF Inv, TypeOK, MoreTypes
<1>2. d \in Digest /\ d.by = digest[s].by
  BY <1>1, CollectType
<1>3. digest' = [digest EXCEPT ![s] = d] /\ tools' = [tools EXCEPT ![s] = @ + 1]
  BY DEF Seen
<1> HIDE DEF d
<1> QED
  BY <1>1, <1>2, <1>3 DEF Inv, TypeOK, MoreTypes

-----------------------------------------------------------------------------
(* The session.                                                            *)

LEMMA InitInv == Init => Inv
<1> SUFFICES ASSUME Init PROVE Inv
  OBVIOUS
<1>1. Earlier \in Digest /\ \A s \in Sessions : Empty(s) \in Digest /\ Empty(s).by = s
  BY DEF Earlier, Empty, Digest, Reasons
<1>2. history \in Seq(Digest) /\ Len(history) \in {0, 1} /\ \A i \in 1 .. Len(history) : history[i].by = None
  <2>1. CASE history = <<>>
    BY <2>1
  <2>2. CASE history = <<Earlier>>
    <3>1. Earlier.by = None
      BY DEF Earlier, Empty
    <3> HIDE DEF Earlier
    <3> QED
      BY <1>1, <2>2, <3>1
  <2> QED
    BY <2>1, <2>2 DEF Init
<1>3. TypeOK
  BY Bounds DEF Init, TypeOK
<1>4. MoreTypes
  BY <1>1, <1>2 DEF Init, MoreTypes
<1>5. \A s \in Sessions : SessionOK(s)
  BY <1>1 DEF Init, SessionOK
<1>6. Listed
  BY <1>2, Bounds DEF Listed
<1> QED
  BY <1>3, <1>4, <1>5, <1>6 DEF Inv

LEMMA StartInv == ASSUME Inv, NEW s \in Sessions, Start(s) PROVE Inv'
<1>1. /\ pc' = [pc EXCEPT ![s] = "turn"]
      /\ UNCHANGED <<notes, history, noteLock, historyLock, back, read, blind, used, digest, persisted, tools, how>>
  BY DEF Start, Goto, files
<1>2. TypeOK' /\ MoreTypes'
  BY <1>1 DEF Inv, TypeOK, MoreTypes, Writing
<1>3. SessionOK(s)'
  BY <1>1 DEF Inv, SessionOK, TypeOK
<1> QED
  BY <1>1, <1>2, <1>3, Frame DEF Inv, TypeOK

LEMMA CallInv == ASSUME Inv, NEW s \in Sessions, NEW ok \in BOOLEAN, Call(s, ok) PROVE Inv'
<1>1. /\ pc[s] \in {"turn", "sub"} /\ tools[s] < MaxTools /\ Seen(s, ok)
      /\ UNCHANGED <<notes, history, noteLock, historyLock, pc, back, read, blind, used, persisted, how>>
  BY DEF Call, files
<1>2. /\ tools' \in [Sessions -> 0 .. MaxTools] /\ digest' \in [Sessions -> Digest]
      /\ digest'[s].by = digest[s].by
      /\ \A t \in Sessions \ {s} : digest'[t] = digest[t] /\ tools'[t] = tools[t]
  BY <1>1, SeenFacts
<1>3. TypeOK' /\ MoreTypes'
  BY <1>1, <1>2 DEF Inv, TypeOK, MoreTypes
<1>4. SessionOK(s)'
  BY <1>1, <1>2 DEF Inv, SessionOK
<1> QED
  BY <1>1, <1>2, <1>3, <1>4, Frame

LEMMA DispatchInv == ASSUME Inv, NEW s \in Sessions, Dispatch(s) PROVE Inv'
<1>1. /\ pc' = [pc EXCEPT ![s] = "sub"]
      /\ UNCHANGED <<notes, history, noteLock, historyLock, back, read, blind, used, digest, persisted, tools, how>>
  BY DEF Dispatch, Goto, files
<1>2. TypeOK' /\ MoreTypes'
  BY <1>1 DEF Inv, TypeOK, MoreTypes, Writing
<1>3. SessionOK(s)'
  BY <1>1 DEF Inv, SessionOK, TypeOK
<1> QED
  BY <1>1, <1>2, <1>3, Frame DEF Inv, TypeOK

\* Whoever comes first writes the digest, and it is written once.
LEMMA PersistFacts ==
  ASSUME Inv, NEW s \in Sessions, NEW reason \in Reasons \cup {"exception"},
         NEW then \in {"dispatched", "over"}, Persist(s, reason, then)
  PROVE  /\ pc' \in [Sessions -> {"new", "turn", "sub", "dispatched", "over"} \cup Writing]
         /\ digest' \in [Sessions -> Digest] /\ back' \in [Sessions -> {"dispatched", "over"}]
         /\ digest'[s].by = digest[s].by
         /\ \/ persisted[s] /\ pc'[s] = then
            \/ ~persisted[s] /\ pc'[s] = "digest" /\ back'[s] = then
         /\ \A t \in Sessions \ {s} : pc'[t] = pc[t] /\ digest'[t] = digest[t] /\ back'[t] = back[t]
<1>1. digest[s] \in Digest /\ [digest[s] EXCEPT !.reason = reason] \in Digest
  BY DEF Inv, MoreTypes, Digest
<1>2. CASE persisted[s] /\ Goto(s, then) /\ UNCHANGED <<digest, back>>
  BY <1>2 DEF Goto, Inv, TypeOK, MoreTypes
<1>3. CASE /\ ~persisted[s] /\ Goto(s, "digest")
           /\ digest' = [digest EXCEPT ![s].reason = reason] /\ back' = [back EXCEPT ![s] = then]
  <2> DEFINE d == [digest[s] EXCEPT !.reason = reason]
  <2>1. digest' = [digest EXCEPT ![s] = d] /\ d \in Digest /\ d.by = digest[s].by
    BY <1>1, <1>3 DEF Digest
  <2> HIDE DEF d
  <2>2. /\ digest \in [Sessions -> Digest] /\ back \in [Sessions -> {"dispatched", "over"}]
        /\ pc \in [Sessions -> {"new", "turn", "sub", "dispatched", "over"} \cup Writing]
    BY DEF Inv, TypeOK, MoreTypes
  <2>3. /\ digest' \in [Sessions -> Digest] /\ digest'[s] = d
        /\ \A t \in Sessions \ {s} : digest'[t] = digest[t]
    BY <2>1, <2>2
  <2>4. /\ back' \in [Sessions -> {"dispatched", "over"}] /\ back'[s] = then
        /\ \A t \in Sessions \ {s} : back'[t] = back[t]
    BY <1>3, <2>2
  <2>5. /\ pc' \in [Sessions -> {"new", "turn", "sub", "dispatched", "over"} \cup Writing]
        /\ pc'[s] = "digest" /\ \A t \in Sessions \ {s} : pc'[t] = pc[t]
    BY <1>3, <2>2 DEF Goto, Writing
  <2> QED
    BY <1>3, <2>1, <2>3, <2>4, <2>5
<1> QED
  BY <1>2, <1>3 DEF Persist

LEMMA SubEndsInv == ASSUME Inv, NEW s \in Sessions, NEW reason \in Reasons, SubEnds(s, reason) PROVE Inv'
<1>1. /\ pc[s] = "sub" /\ tools[s] < MaxTools /\ Persist(s, reason, "dispatched")
      /\ UNCHANGED <<notes, history, noteLock, historyLock, read, blind, used, persisted, tools, how>>
  BY DEF SubEnds, files
<1>2. /\ pc' \in [Sessions -> {"new", "turn", "sub", "dispatched", "over"} \cup Writing]
      /\ digest' \in [Sessions -> Digest] /\ back' \in [Sessions -> {"dispatched", "over"}]
      /\ digest'[s].by = digest[s].by
      /\ \/ persisted[s] /\ pc'[s] = "dispatched"
         \/ ~persisted[s] /\ pc'[s] = "digest" /\ back'[s] = "dispatched"
      /\ \A t \in Sessions \ {s} : pc'[t] = pc[t] /\ digest'[t] = digest[t] /\ back'[t] = back[t]
  BY <1>1, PersistFacts
<1>3. TypeOK' /\ MoreTypes'
  BY <1>1, <1>2 DEF Inv, TypeOK, MoreTypes
<1>4. SessionOK(s)'
  BY <1>1, <1>2 DEF Inv, SessionOK
<1> QED
  BY <1>1, <1>2, <1>3, <1>4, Frame

LEMMA SubEndsUnheardInv == ASSUME Inv, NEW s \in Sessions, SubEndsUnheard(s) PROVE Inv'
<1>1. /\ pc' = [pc EXCEPT ![s] = "dispatched"] /\ tools[s] < MaxTools
      /\ UNCHANGED <<notes, history, noteLock, historyLock, back, read, blind, used, digest, persisted, tools, how>>
  BY DEF SubEndsUnheard, Goto, files
<1>2. TypeOK' /\ MoreTypes'
  BY <1>1 DEF Inv, TypeOK, MoreTypes
<1>3. SessionOK(s)'
  BY <1>1 DEF Inv, SessionOK, TypeOK
<1> QED
  BY <1>1, <1>2, <1>3, Frame DEF Inv, TypeOK

LEMMA DispatchedInv == ASSUME Inv, NEW s \in Sessions, NEW ok \in BOOLEAN, Dispatched(s, ok) PROVE Inv'
<1>1. /\ pc[s] = "dispatched" /\ pc' = [pc EXCEPT ![s] = "turn"] /\ Seen(s, ok)
      /\ UNCHANGED <<notes, history, noteLock, historyLock, back, read, blind, used, persisted, how>>
  BY DEF Dispatched, Goto, files
<1>2. tools[s] < MaxTools
  BY <1>1 DEF Inv, SessionOK
<1>3. /\ tools' \in [Sessions -> 0 .. MaxTools] /\ digest' \in [Sessions -> Digest]
      /\ digest'[s].by = digest[s].by
      /\ \A t \in Sessions \ {s} : digest'[t] = digest[t] /\ tools'[t] = tools[t]
  BY <1>1, <1>2, SeenFacts
<1>4. TypeOK' /\ MoreTypes'
  BY <1>1, <1>3 DEF Inv, TypeOK, MoreTypes
<1>5. SessionOK(s)'
  BY <1>1, <1>3 DEF Inv, SessionOK, TypeOK
<1> QED
  BY <1>1, <1>3, <1>4, <1>5, Frame DEF Inv, TypeOK

LEMMA EndsInv ==
  ASSUME Inv, NEW s \in Sessions, NEW reason \in Reasons \cup {"exception"}, Ends(s, reason) PROVE Inv'
<1>1. /\ pc[s] = "turn" /\ how' = [how EXCEPT ![s] = reason] /\ Persist(s, reason, "over")
      /\ UNCHANGED <<notes, history, noteLock, historyLock, read, blind, used, persisted, tools>>
  BY DEF Ends, files
<1>2. /\ pc' \in [Sessions -> {"new", "turn", "sub", "dispatched", "over"} \cup Writing]
      /\ digest' \in [Sessions -> Digest] /\ back' \in [Sessions -> {"dispatched", "over"}]
      /\ digest'[s].by = digest[s].by
      /\ \/ persisted[s] /\ pc'[s] = "over"
         \/ ~persisted[s] /\ pc'[s] = "digest" /\ back'[s] = "over"
      /\ \A t \in Sessions \ {s} : pc'[t] = pc[t] /\ digest'[t] = digest[t] /\ back'[t] = back[t]
  BY <1>1, PersistFacts
<1>3. TypeOK' /\ MoreTypes'
  BY <1>1, <1>2 DEF Inv, TypeOK, MoreTypes
<1>4. SessionOK(s)'
  BY <1>1, <1>2 DEF Inv, SessionOK
<1> QED
  BY <1>1, <1>2, <1>3, <1>4, Frame DEF Inv, MoreTypes

\* A session that is gone gives its locks back, and owes no digest.
LEMMA GoneInv == ASSUME Inv, NEW s \in Sessions, Gone(s) PROVE Inv'
<1>1. /\ pc' = [pc EXCEPT ![s] = "over"] /\ how' = [how EXCEPT ![s] = "gone"]
      /\ noteLock' = noteLock \/ (noteLock = s /\ noteLock' = None)
      /\ historyLock' = historyLock \/ (historyLock = s /\ historyLock' = None)
      /\ read' = [read EXCEPT ![s] = <<>>] /\ blind' = [blind EXCEPT ![s] = FALSE]
      /\ UNCHANGED <<notes, history, back, used, digest, persisted, tools>>
  BY DEF Gone, Goto, Forget
<1>2. TypeOK' /\ MoreTypes'
  BY <1>1 DEF Inv, TypeOK, MoreTypes
<1>3. SessionOK(s)'
  BY <1>1 DEF Inv, SessionOK, TypeOK, MoreTypes
<1> QED
  BY <1>1, <1>2, <1>3, Frame DEF Inv, TypeOK, MoreTypes

-----------------------------------------------------------------------------
(* The two files.                                                          *)

LEMMA NoteInv == ASSUME Inv, NEW s \in Sessions, Note(s) PROVE Inv'
<1>1. /\ pc[s] = "turn" /\ tools[s] < MaxTools
      /\ UNCHANGED <<notes, history, noteLock, historyLock, back, read, blind, used, persisted, how>>
  BY DEF Note, files
<1>2. CASE used[s] < Cap /\ Goto(s, "note") /\ UNCHANGED <<digest, tools>>
  <2>1. pc' = [pc EXCEPT ![s] = "note"]
    BY <1>2 DEF Goto
  <2>2. TypeOK' /\ MoreTypes'
    BY <1>1, <1>2, <2>1 DEF Inv, TypeOK, MoreTypes, Writing
  <2>3. SessionOK(s)'
    BY <1>1, <1>2, <2>1 DEF Inv, SessionOK, TypeOK
  <2> QED
    BY <1>1, <1>2, <2>1, <2>2, <2>3, Frame DEF Inv, TypeOK
<1>3. CASE Seen(s, FALSE) /\ UNCHANGED pc
  <2>1. /\ tools' \in [Sessions -> 0 .. MaxTools] /\ digest' \in [Sessions -> Digest]
        /\ digest'[s].by = digest[s].by
        /\ \A t \in Sessions \ {s} : digest'[t] = digest[t] /\ tools'[t] = tools[t]
    BY <1>1, <1>3, SeenFacts
  <2>2. TypeOK' /\ MoreTypes'
    BY <1>1, <1>3, <2>1 DEF Inv, TypeOK, MoreTypes
  <2>3. SessionOK(s)'
    BY <1>1, <1>3, <2>1 DEF Inv, SessionOK
  <2> QED
    BY <1>1, <1>3, <2>1, <2>2, <2>3, Frame
<1> QED
  BY <1>2, <1>3 DEF Note

\* What is read under the lock is the file, or nothing.
LEMMA LookFacts ==
  ASSUME Inv, NEW s \in Sessions, NEW file \in Seq(Sessions) \cup Seq(Digest), Look(s, file)
  PROVE  /\ read' \in [Sessions -> Seq(Sessions) \cup Seq(Digest)] /\ blind' \in [Sessions -> BOOLEAN]
         /\ read'[s] = file \/ (blind'[s] /\ read'[s] = <<>>)
         /\ \A t \in Sessions \ {s} : read'[t] = read[t] /\ blind'[t] = blind[t]
<1>1. PICK fails \in BOOLEAN :
        /\ read' = [read EXCEPT ![s] = IF fails THEN <<>> ELSE file]
        /\ blind' = [blind EXCEPT ![s] = fails]
  BY DEF Look
<1>2. <<>> \in Seq(Sessions)
  OBVIOUS
<1> QED
  BY <1>1, <1>2 DEF Inv, MoreTypes

LEMMA NoteReadInv == ASSUME Inv, NEW s \in Sessions, NoteRead(s) PROVE Inv'
<1>1. /\ pc[s] = "note" /\ noteLock = None /\ noteLock' = s /\ Look(s, notes) /\ pc' = [pc EXCEPT ![s] = "noting"]
      /\ UNCHANGED <<notes, history, historyLock, back, used, digest, persisted, tools, how>>
  BY DEF NoteRead, Free, Goto
<1>2. notes \in Seq(Sessions)
  BY DEF Inv, TypeOK
<1>3. /\ read' \in [Sessions -> Seq(Sessions) \cup Seq(Digest)] /\ blind' \in [Sessions -> BOOLEAN]
      /\ read'[s] = notes \/ (blind'[s] /\ read'[s] = <<>>)
      /\ \A t \in Sessions \ {s} : read'[t] = read[t] /\ blind'[t] = blind[t]
  BY <1>1, <1>2, LookFacts
<1>4. TypeOK' /\ MoreTypes'
  BY <1>1, <1>3 DEF Inv, TypeOK, MoreTypes, Writing
<1>5. SessionOK(s)'
  BY <1>1, <1>3 DEF Inv, SessionOK, TypeOK
<1> QED
  BY <1>1, <1>3, <1>4, <1>5, Frame DEF Inv, TypeOK

LEMMA DigestReadInv == ASSUME Inv, NEW s \in Sessions, DigestRead(s) PROVE Inv'
<1>1. /\ pc[s] = "digest" /\ historyLock = None /\ historyLock' = s /\ Look(s, history)
      /\ pc' = [pc EXCEPT ![s] = "digesting"]
      /\ UNCHANGED <<notes, history, noteLock, back, used, digest, persisted, tools, how>>
  BY DEF DigestRead, Free, Goto
<1>2. history \in Seq(Digest)
  BY DEF Inv, MoreTypes
<1>3. /\ read' \in [Sessions -> Seq(Sessions) \cup Seq(Digest)] /\ blind' \in [Sessions -> BOOLEAN]
      /\ read'[s] = history \/ (blind'[s] /\ read'[s] = <<>>)
      /\ \A t \in Sessions \ {s} : read'[t] = read[t] /\ blind'[t] = blind[t]
  BY <1>1, <1>2, LookFacts
<1>4. TypeOK' /\ MoreTypes'
  BY <1>1, <1>3 DEF Inv, TypeOK, MoreTypes, Writing
<1>5. SessionOK(s)'
  BY <1>1, <1>3 DEF Inv, SessionOK, TypeOK
<1> QED
  BY <1>1, <1>3, <1>4, <1>5, Frame DEF Inv, TypeOK

LEMMA ForgetFacts ==
  ASSUME Inv, NEW s \in Sessions, Forget(s)
  PROVE  /\ read' \in [Sessions -> Seq(Sessions) \cup Seq(Digest)] /\ blind' \in [Sessions -> BOOLEAN]
         /\ \A t \in Sessions \ {s} : read'[t] = read[t] /\ blind'[t] = blind[t]
BY DEF Forget, Inv, MoreTypes

LEMMA NoteFailsInv == ASSUME Inv, NEW s \in Sessions, NoteFails(s) PROVE Inv'
<1>1. /\ pc[s] = "noting" /\ noteLock' = None /\ Forget(s) /\ Seen(s, FALSE) /\ pc' = [pc EXCEPT ![s] = "turn"]
      /\ UNCHANGED <<notes, history, historyLock, back, used, persisted, how>>
  BY DEF NoteFails, Goto
<1>2. tools[s] < MaxTools /\ noteLock = s
  BY <1>1 DEF Inv, SessionOK
<1>3. /\ read' \in [Sessions -> Seq(Sessions) \cup Seq(Digest)] /\ blind' \in [Sessions -> BOOLEAN]
      /\ \A t \in Sessions \ {s} : read'[t] = read[t] /\ blind'[t] = blind[t]
  BY <1>1, ForgetFacts
<1>4. /\ tools' \in [Sessions -> 0 .. MaxTools] /\ digest' \in [Sessions -> Digest]
      /\ digest'[s].by = digest[s].by
      /\ \A t \in Sessions \ {s} : digest'[t] = digest[t] /\ tools'[t] = tools[t]
  BY <1>1, <1>2, SeenFacts
<1>5. TypeOK' /\ MoreTypes'
  BY <1>1, <1>3, <1>4 DEF Inv, TypeOK, MoreTypes
<1>6. SessionOK(s)'
  BY <1>1, <1>4 DEF Inv, SessionOK, TypeOK
<1> QED
  BY <1>1, <1>2, <1>3, <1>4, <1>5, <1>6, Frame DEF Inv, TypeOK

\* Nobody else is replacing the notes.
LEMMA NoteWrittenInv == ASSUME Inv, NEW s \in Sessions, NoteWritten(s) PROVE Inv'
<1>1. /\ pc[s] = "noting" /\ notes' = <<s>> \o read[s] /\ used' = [used EXCEPT ![s] = @ + 1]
      /\ noteLock' = None /\ Forget(s) /\ Seen(s, TRUE) /\ pc' = [pc EXCEPT ![s] = "turn"]
      /\ UNCHANGED <<history, historyLock, back, persisted, how>>
  BY DEF NoteWritten, Goto
<1>2. tools[s] < MaxTools /\ used[s] < Cap /\ noteLock = s /\ (read[s] = notes \/ read[s] = <<>>)
  BY <1>1 DEF Inv, SessionOK
<1>3. /\ read' \in [Sessions -> Seq(Sessions) \cup Seq(Digest)] /\ blind' \in [Sessions -> BOOLEAN]
      /\ \A t \in Sessions \ {s} : read'[t] = read[t] /\ blind'[t] = blind[t]
  BY <1>1, ForgetFacts
<1>4. /\ tools' \in [Sessions -> 0 .. MaxTools] /\ digest' \in [Sessions -> Digest]
      /\ digest'[s].by = digest[s].by
      /\ \A t \in Sessions \ {s} : digest'[t] = digest[t] /\ tools'[t] = tools[t]
  BY <1>1, <1>2, SeenFacts
<1>5. notes' \in Seq(Sessions)
  <2>1. notes \in Seq(Sessions) /\ <<>> \in Seq(Sessions)
    BY EmptySeq DEF Inv, TypeOK
  <2>2. read[s] \in Seq(Sessions)
    BY <1>2, <2>1
  <2>3. <<s>> \in Seq(Sessions)
    OBVIOUS
  <2> QED
    BY <1>1, <2>2, <2>3, ConcatProperties
<1>6. used' \in [Sessions -> 0 .. Cap]
  BY <1>1, <1>2, Bounds, SMTT(30) DEF Inv, TypeOK
<1>7. TypeOK' /\ MoreTypes'
  BY <1>1, <1>3, <1>4, <1>5, <1>6 DEF Inv, TypeOK, MoreTypes
<1>8. SessionOK(s)'
  BY <1>1, <1>4 DEF Inv, SessionOK, TypeOK
<1>9. ASSUME NEW t \in Sessions, t # s PROVE SessionOK(t)'
  <2>1. SessionOK(t) /\ pc[t] # "noting"
    BY <1>2, <1>9 DEF Inv, SessionOK
  <2>2. pc'[t] = pc[t] /\ used'[t] = used[t]
    BY <1>1, <1>9 DEF Inv, TypeOK
  <2> QED
    BY <1>1, <1>3, <1>4, <1>9, <2>1, <2>2 DEF SessionOK
<1>10. Listed'
  BY <1>1 DEF Inv, Listed
<1> QED
  BY <1>7, <1>8, <1>9, <1>10 DEF Inv

\* The session's attempt to write its digest is over.
LEMMA DigestTried ==
  ASSUME Inv, NEW s \in Sessions, pc[s] = "digesting", historyLock' = None, Forget(s),
         persisted' = [persisted EXCEPT ![s] = TRUE], Goto(s, back[s]),
         UNCHANGED <<notes, noteLock, back, used, digest, tools, how>>, history' \in Seq(Digest)
  PROVE  TypeOK' /\ MoreTypes' /\ (\A t \in Sessions : SessionOK(t)')
<1>1. pc' = [pc EXCEPT ![s] = back[s]] /\ back[s] \in {"dispatched", "over"}
  BY DEF Goto, Inv, MoreTypes
<1>2. historyLock = s /\ SessionOK(s)
  BY DEF Inv, SessionOK
<1>3. /\ read' \in [Sessions -> Seq(Sessions) \cup Seq(Digest)] /\ blind' \in [Sessions -> BOOLEAN]
      /\ \A t \in Sessions \ {s} : read'[t] = read[t] /\ blind'[t] = blind[t]
  BY ForgetFacts
<1>4. TypeOK' /\ MoreTypes'
  BY <1>1, <1>3 DEF Inv, TypeOK, MoreTypes
<1>5. SessionOK(s)'
  BY <1>1, <1>2 DEF Inv, SessionOK, TypeOK
<1>6. ASSUME NEW t \in Sessions, t # s PROVE SessionOK(t)'
  <2>1. SessionOK(t) /\ pc[t] # "digesting"
    BY <1>2, <1>6 DEF Inv, SessionOK
  <2>2. pc'[t] = pc[t] /\ persisted'[t] = persisted[t]
    BY <1>1, <1>6 DEF Inv, TypeOK
  <2> QED
    BY <1>3, <1>6, <2>1, <2>2 DEF SessionOK
<1> QED
  BY <1>4, <1>5, <1>6

LEMMA DigestFailsInv == ASSUME Inv, NEW s \in Sessions, DigestFails(s) PROVE Inv'
<1>1. /\ pc[s] = "digesting" /\ historyLock' = None /\ Forget(s)
      /\ persisted' = [persisted EXCEPT ![s] = TRUE] /\ Goto(s, back[s])
      /\ UNCHANGED <<notes, history, noteLock, back, used, digest, tools, how>>
  BY DEF DigestFails
<1>2. history' \in Seq(Digest)
  BY <1>1 DEF Inv, MoreTypes
<1>3. TypeOK' /\ MoreTypes' /\ (\A t \in Sessions : SessionOK(t)')
  BY <1>1, <1>2, DigestTried
<1>4. Listed'
  BY <1>1 DEF Inv, Listed, TypeOK
<1> QED
  BY <1>3, <1>4 DEF Inv

\* A session that has not tried to write is not on record yet.
LEMMA DigestWrittenInv == ASSUME Inv, NEW s \in Sessions, DigestWritten(s) PROVE Inv'
<1> DEFINE d == digest[s]
           all == Append(read[s], d)
<1>1. /\ pc[s] = "digesting" /\ history' = Trimmed(all) /\ historyLock' = None /\ Forget(s)
      /\ persisted' = [persisted EXCEPT ![s] = TRUE] /\ Goto(s, back[s])
      /\ UNCHANGED <<notes, noteLock, back, used, digest, tools, how>>
  BY DEF DigestWritten
<1>2. ~persisted[s] /\ (read[s] = history \/ read[s] = <<>>) /\ d.by = s /\ d \in Digest
  BY <1>1 DEF Inv, SessionOK, MoreTypes
<1>3. read[s] \in Seq(Digest) /\ \A i \in 1 .. Len(read[s]) : i \in 1 .. Len(history) /\ read[s][i] = history[i]
  BY <1>2 DEF Inv, MoreTypes
<1>4. /\ all \in Seq(Digest) /\ all # <<>> /\ Len(all) = Len(read[s]) + 1
      /\ \A i \in 1 .. Len(read[s]) : all[i] = read[s][i]
      /\ all[Len(read[s]) + 1] = d
  BY <1>2, <1>3, AppendProperties
<1>5. Len(read[s]) \in Nat
  BY <1>3, LenProperties
<1>6. \A i \in 1 .. Len(all) : all[i].by \in Sessions => persisted'[all[i].by]
  <2> SUFFICES ASSUME NEW i \in 1 .. Len(all), all[i].by \in Sessions PROVE persisted'[all[i].by]
    OBVIOUS
  <2>1. CASE i = Len(read[s]) + 1
    BY <1>1, <1>2, <1>4, <2>1 DEF Inv, TypeOK
  <2>2. CASE i # Len(read[s]) + 1
    <3>1. i \in 1 .. Len(read[s])
      BY <1>4, <1>5, <2>2
    <3>2. all[i] = history[i] /\ i \in 1 .. Len(history)
      BY <1>3, <1>4, <3>1
    <3> QED
      BY <1>1, <3>2 DEF Inv, Listed, TypeOK
  <2> QED
    BY <2>1, <2>2
<1>7. \A i, j \in 1 .. Len(all) : all[i].by = all[j].by => i = j
  <2>1. \A i \in 1 .. Len(read[s]) : all[i].by # s /\ all[i] = history[i] /\ i \in 1 .. Len(history)
    BY <1>2, <1>3, <1>4 DEF Inv, Listed
  <2>2. \A i \in 1 .. Len(all) : i \in 1 .. Len(read[s]) \/ i = Len(read[s]) + 1
    BY <1>4, <1>5
  <2>3. \A i, j \in 1 .. Len(history) : history[i].by = history[j].by => i = j
    BY DEF Inv, Listed
  <2> SUFFICES ASSUME NEW i \in 1 .. Len(all), NEW j \in 1 .. Len(all), all[i].by = all[j].by PROVE i = j
    OBVIOUS
  <2>4. all[Len(read[s]) + 1].by = s
    BY <1>2, <1>4
  <2> HIDE DEF all, d
  <2>5. CASE i \in 1 .. Len(read[s]) /\ j \in 1 .. Len(read[s])
    BY <2>1, <2>3, <2>5
  <2> QED
    BY <2>1, <2>2, <2>4, <2>5
<1> HIDE DEF all, d
<1> DEFINE n == Len(history')
<1>8. /\ history' \in Seq(Digest) /\ n \in 1 .. Len(all)
      /\ \A i \in 1 .. n : history'[i] = all[Len(all) - n + i]
  BY <1>1, <1>4, TrimmedFacts
<1>9. Len(all) \in Nat /\ \A i \in 1 .. n : Len(all) - n + i \in 1 .. Len(all)
  BY <1>4, <1>5, <1>8
<1>10. Listed'
  <2>1. \A i \in 1 .. n : history'[i].by \in Sessions => persisted'[history'[i].by]
    BY <1>6, <1>8, <1>9
  <2>2. ASSUME NEW i \in 1 .. n, NEW j \in 1 .. n, history'[i].by = history'[j].by PROVE i = j
    <3>1. Len(all) - n + i = Len(all) - n + j
      BY <1>7, <1>8, <1>9, <2>2
    <3> QED
      BY <1>8, <1>9, <3>1
  <2> QED
    BY <2>1, <2>2 DEF Listed
<1>11. TypeOK' /\ MoreTypes' /\ (\A t \in Sessions : SessionOK(t)')
  BY <1>1, <1>8, DigestTried
<1> QED
  BY <1>10, <1>11 DEF Inv

-----------------------------------------------------------------------------
LEMMA StepInv == Inv /\ [Next]_vars => Inv'
<1> SUFFICES ASSUME Inv, [Next]_vars PROVE Inv'
  OBVIOUS
<1>1. ASSUME NEW s \in Sessions, Write(s) PROVE Inv'
  BY <1>1, NoteReadInv, NoteWrittenInv, NoteFailsInv, DigestReadInv, DigestWrittenInv, DigestFailsInv DEF Write
<1>2. ASSUME NEW s \in Sessions, Start(s) \/ Dispatch(s) \/ SubEndsUnheard(s) \/ Note(s) \/ Gone(s) PROVE Inv'
  BY <1>2, StartInv, DispatchInv, SubEndsUnheardInv, NoteInv, GoneInv
<1>3. CASE UNCHANGED vars
  BY <1>3 DEF vars, files, Inv, TypeOK, MoreTypes, SessionOK, Listed
<1> QED
  BY <1>1, <1>2, <1>3, CallInv, DispatchedInv, SubEndsInv, EndsInv DEF Next

\* The inductive invariant holds of every run.
LEMMA InvHolds == Spec => []Inv
BY InitInv, StepInv, PTL DEF Spec

\* Every variable keeps its type: no session has more notes than its quota.
THEOREM TypeCorrect == Spec => []TypeOK
<1>1. Inv => TypeOK
  BY DEF Inv
<1> QED
  BY <1>1, InvHolds, PTL

\* However many sub-agents end on its bus, a session is on record once, and one that was
\* not cut has written its digest or tried to.
THEOREM OneDigestHolds == Spec => []OneDigest
<1>1. Inv => OneDigest
  BY DEF Inv, Listed, SessionOK, OneDigest
<1> QED
  BY <1>1, InvHolds, PTL

\* A file that could be read when it was locked is replaced by itself with one entry more:
\* the lock keeps it as it was read, whatever other sessions do and wherever they die.
THEOREM NothingIsLost == Spec => NothingLost
<1> DEFINE Seeing == \A s \in Sessions : ~blind[s]
<1>1. ASSUME Inv, [Next]_vars, notes' # notes, Seeing PROVE notes' = <<Head(notes')>> \o notes
  <2>1. PICK s \in Sessions : NoteWritten(s)
    BY <1>1 DEF Next, Write, Start, Dispatch, SubEndsUnheard, Note, Gone, NoteRead, NoteFails, DigestRead,
       DigestWritten, DigestFails, Call, Dispatched, SubEnds, Ends, files, vars
  <2>2. notes' = <<s>> \o notes /\ notes \in Seq(Sessions)
    BY <1>1, <2>1 DEF NoteWritten, Inv, SessionOK, TypeOK
  <2>3. Head(notes') = s
    BY <2>2
  <2> QED
    BY <2>2, <2>3
<1>2. ASSUME Inv, [Next]_vars, history' # history, Seeing
      PROVE  history' = Trimmed(Append(history, Last(history')))
  <2>1. PICK s \in Sessions : DigestWritten(s)
    BY <1>2 DEF Next, Write, Start, Dispatch, SubEndsUnheard, Note, Gone, NoteRead, NoteWritten, NoteFails,
       DigestRead, DigestFails, Call, Dispatched, SubEnds, Ends, files, vars
  <2>2. history' = Trimmed(Append(history, digest[s])) /\ history \in Seq(Digest) /\ digest[s] \in Digest
    BY <1>2, <2>1 DEF DigestWritten, Inv, SessionOK, MoreTypes
  <2>3. /\ Append(history, digest[s]) \in Seq(Digest) /\ Append(history, digest[s]) # <<>>
        /\ Last(Append(history, digest[s])) = digest[s]
    BY <2>2, AppendProperties DEF Last
  <2>4. Last(history') = digest[s]
    BY <2>2, <2>3, TrimmedFacts
  <2> QED
    BY <2>2, <2>4
<1>3. ASSUME Inv, [Next]_vars
      PROVE  /\ notes' # notes /\ Seeing => notes' = <<Head(notes')>> \o notes
             /\ history' # history /\ Seeing => history' = Trimmed(Append(history, Last(history')))
  BY <1>1, <1>2, <1>3
<1> QED
  BY <1>3, InvHolds, PTL DEF Spec, NothingLost

-----------------------------------------------------------------------------
(* Project: what is merged line by line.                                   *)

LEMMA FirstNumber == ASSUME NEW T \in SUBSET Nat, T # {} PROVE \E x \in T : \A y \in T : x <= y
<1>1. PICK x \in T : \A y \in T : ~ <<y, x>> \in OpToRel(<, Nat)
  BY NatLessThanWellFounded, WFMin
<1>2. \A y \in T : ~(y < x)
  BY <1>1 DEF OpToRel
<1> QED
  BY <1>2

\* What holds of 0, and of a number if it does of the one before, holds of all up to N.
LEMMA UpTo ==
  ASSUME NEW N \in Nat, NEW G, 0 \in G, \A n \in 1 .. N : n - 1 \in G => n \in G
  PROVE  \A n \in 0 .. N : n \in G
<1> DEFINE Bad == {n \in 0 .. N : n \notin G}
<1> SUFFICES ASSUME Bad # {} PROVE FALSE
  OBVIOUS
<1>1. PICK n \in Bad : \A k \in Bad : n <= k
  <2>1. Bad \in SUBSET Nat
    OBVIOUS
  <2> HIDE DEF Bad
  <2> QED
    BY <2>1, FirstNumber
<1>2. n # 0
  OBVIOUS
<1>3. n - 1 \in 0 .. N /\ n \in 1 .. N /\ ~(n <= n - 1)
  BY <1>2
<1> QED
  BY <1>1, <1>3

\* Folding a step F over the first N numbers, from b.
IsFold(N, b, F, g) == g[0] = b /\ \A n \in 1 .. N : g[n] = F[<<g[n - 1], n>>]

LEMMA FoldExists ==
  ASSUME NEW N \in Nat, NEW S, NEW b \in S, NEW F \in [S \X (1 .. N) -> S]
  PROVE  \E g \in [0 .. N -> S] : IsFold(N, b, F, g)
<1> DEFINE G == {n \in 0 .. N : \E g \in [0 .. n -> S] : IsFold(n, b, F, g)}
<1>1. 0 \in G
  <2> DEFINE g == [k \in 0 .. 0 |-> b]
  <2>1. g \in [0 .. 0 -> S] /\ g[0] = b /\ 1 .. 0 = {}
    OBVIOUS
  <2> HIDE DEF g
  <2>2. \E h \in [0 .. 0 -> S] : IsFold(0, b, F, h)
    BY <2>1 DEF IsFold
  <2> QED
    BY <2>2
<1>2. ASSUME NEW n \in 1 .. N, n - 1 \in G PROVE n \in G
  <2>1. PICK g \in [0 .. n - 1 -> S] : IsFold(n - 1, b, F, g)
    BY <1>2
  <2> DEFINE h == [k \in 0 .. n |-> IF k = n THEN F[<<g[n - 1], n>>] ELSE g[k]]
  <2>2. F[<<g[n - 1], n>>] \in S
    <3>1. g[n - 1] \in S
      BY <2>1
    <3> QED
      BY <3>1
  <2>3. h \in [0 .. n -> S]
    <3>1. ASSUME NEW k \in 0 .. n PROVE h[k] \in S
      BY <2>1, <2>2
    <3> QED
      BY <3>1
  <2>4. h[0] = b
    BY <2>1 DEF IsFold
  <2>5. ASSUME NEW k \in 1 .. n PROVE h[k] = F[<<h[k - 1], k>>]
    <3>1. h[k - 1] = g[k - 1]
      <4>1. n \in Nat /\ k - 1 \in 0 .. n /\ k - 1 # n
        OBVIOUS
      <4> QED
        BY <4>1
    <3>2. CASE k = n
      <4>1. k \in 0 .. n /\ h[k] = F[<<g[k - 1], k>>]
        BY <3>2
      <4> QED
        BY ONLY <3>1, <4>1
    <3>3. CASE k # n
      <4>1. k \in 1 .. n - 1 /\ h[k] = g[k]
        BY <3>3
      <4> QED
        BY <2>1, <3>1, <4>1 DEF IsFold
    <3> QED
      BY <3>2, <3>3
  <2>6. IsFold(n, b, F, h)
    BY <2>4, <2>5 DEF IsFold
  <2> QED
    BY <2>3, <2>6
<1>3. \A n \in 0 .. N : n \in G
  <2> HIDE DEF G
  <2> QED
    BY <1>1, <1>2, UpTo
<1> QED
  BY <1>3

\* A dictionary as the lines before make it, line by line.
MergesTo(lines, dict) ==
  dict = [n \in 0 .. Len(lines) |-> IF n = 0 THEN <<>> ELSE PutLine(dict[n - 1], lines[n])]

LEMMA PutLineType ==
  ASSUME NEW S, NEW dict \in Seq(S), NEW e \in S PROVE PutLine(dict, e) \in Seq(S)
<1>1. Len(dict) \in Nat /\ \A i \in 1 .. Len(dict) : dict[i] \in S
  BY ElementOfSeq, LenProperties
<1>2. [i \in 1 .. Len(dict) |-> IF dict[i].project = e.project THEN e ELSE dict[i]] \in Seq(S)
  BY <1>1, IsASeq
<1>3. Append(dict, e) \in Seq(S)
  BY AppendProperties
<1> QED
  BY <1>2, <1>3 DEF PutLine

LEMMA MergedFolds ==
  ASSUME NEW S, NEW lines \in Seq(S)
  PROVE  \E dict \in [0 .. Len(lines) -> Seq(S)] :
           /\ Merged(lines) = dict[Len(lines)] /\ dict[0] = <<>>
           /\ \A n \in 1 .. Len(lines) : dict[n] = PutLine(dict[n - 1], lines[n])
<1> DEFINE N == Len(lines)
           F == [x \in Seq(S) \X (1 .. N) |-> PutLine(x[1], lines[x[2]])]
           C == CHOOSE dict : MergesTo(lines, dict)
<1>1. N \in Nat /\ \A n \in 1 .. N : lines[n] \in S
  BY ElementOfSeq, LenProperties
<1>2. F \in [Seq(S) \X (1 .. N) -> Seq(S)]
  <2>1. ASSUME NEW x \in Seq(S) \X (1 .. N) PROVE PutLine(x[1], lines[x[2]]) \in Seq(S)
    <3>1. x[1] \in Seq(S) /\ lines[x[2]] \in S
      BY <1>1
    <3> QED
      BY <3>1, PutLineType
  <2> QED
    BY <2>1
<1>3. <<>> \in Seq(S)
  BY EmptySeq
<1>4. PICK g \in [0 .. N -> Seq(S)] : IsFold(N, <<>>, F, g)
  <2> HIDE DEF F, N
  <2> QED
    BY <1>1, <1>2, <1>3, FoldExists
<1>5. ASSUME NEW n \in 1 .. N PROVE g[n] = PutLine(g[n - 1], lines[n])
  <2>1. n - 1 \in 0 .. N
    BY <1>1
  <2>2. <<g[n - 1], n>> \in Seq(S) \X (1 .. N)
    BY <1>4, <2>1
  <2>3. g[n] = F[<<g[n - 1], n>>]
    BY <1>4 DEF IsFold
  <2> QED
    BY <2>2, <2>3
<1>6. MergesTo(lines, g)
  <2>1. \A n \in 0 .. N : g[n] = IF n = 0 THEN <<>> ELSE PutLine(g[n - 1], lines[n])
    BY <1>1, <1>4, <1>5 DEF IsFold
  <2>2. g = [n \in 0 .. N |-> g[n]]
    BY <1>4
  <2> QED
    BY <2>1, <2>2 DEF MergesTo
<1>7. MergesTo(lines, C)
  BY <1>6
<1>8. Merged(lines) = C[N]
  BY DEF Merged, MergesTo
<1> HIDE DEF C
<1>9. C \in [0 .. N -> Seq(S)] /\ C[0] = <<>>
      /\ \A n \in 1 .. N : C[n] = PutLine(C[n - 1], lines[n])
  <2>0. \A n \in 0 .. N : C[n] = IF n = 0 THEN <<>> ELSE PutLine(C[n - 1], lines[n])
    BY <1>7 DEF MergesTo
  <2>1. C = [n \in 0 .. N |-> C[n]]
    BY <1>7 DEF MergesTo
  <2>2. C[0] = <<>> /\ \A n \in 1 .. N : C[n] = PutLine(C[n - 1], lines[n])
    <3>1. 0 \in 0 .. N /\ \A n \in 1 .. N : n \in 0 .. N /\ n # 0
      BY <1>1
    <3> QED
      BY <2>0, <3>1
  <2> DEFINE G == {n \in 0 .. N : C[n] \in Seq(S)}
  <2>3. 0 \in G
    <3>1. C[0] \in Seq(S) /\ 0 \in 0 .. N
      BY <1>1, <1>3, <2>2
    <3> QED
      BY <3>1
  <2>4. ASSUME NEW n \in 1 .. N, n - 1 \in G PROVE n \in G
    <3>1. C[n - 1] \in Seq(S) /\ lines[n] \in S /\ n \in 0 .. N
      BY <1>1, <2>4
    <3>2. C[n] \in Seq(S)
      <4>1. PutLine(C[n - 1], lines[n]) \in Seq(S)
        BY ONLY <3>1, PutLineType
      <4> QED
        BY <2>2, <4>1
    <3> QED
      BY <3>1, <3>2
  <2>5. \A n \in 0 .. N : n \in G
    <3> HIDE DEF G
    <3> QED
      BY <1>1, <2>3, <2>4, UpTo
  <2>6. \A n \in 0 .. N : C[n] \in Seq(S)
    BY <2>5
  <2> QED
    BY <2>1, <2>2, <2>6
<1> QED
  BY <1>8, <1>9

LEMMA PutLineLast ==
  ASSUME NEW S, NEW lines \in Seq(S), NEW n \in 1 .. Len(lines), NEW dict \in Seq(S),
         \A i \in 1 .. Len(dict) : \E k \in 1 .. n - 1 :
           dict[i] = lines[k] /\ \A j \in k + 1 .. n - 1 : lines[j].project # dict[i].project,
         NEW i \in 1 .. Len(PutLine(dict, lines[n]))
  PROVE  \E k \in 1 .. n : /\ PutLine(dict, lines[n])[i] = lines[k]
                           /\ \A j \in k + 1 .. n : lines[j].project # PutLine(dict, lines[n])[i].project
<1> DEFINE e == lines[n]
           m == Len(dict)
<1>0. SUFFICES ASSUME NEW put, put = PutLine(dict, e), i \in 1 .. Len(put)
      PROVE  \E k \in 1 .. n : put[i] = lines[k] /\ \A j \in k + 1 .. n : lines[j].project # put[i].project
  OBVIOUS
<1>1. n \in Nat \ {0} /\ m \in Nat /\ Len(lines) \in Nat /\ e \in S
  BY ElementOfSeq, LenProperties
<1>2. n \in 1 .. n /\ n + 1 .. n = {}
  BY <1>1
<1>3. ASSUME NEW h \in 1 .. m, dict[h].project # e.project
      PROVE  \E k \in 1 .. n : dict[h] = lines[k] /\ \A j \in k + 1 .. n : lines[j].project # dict[h].project
  <2>1. PICK k \in 1 .. n - 1 : dict[h] = lines[k] /\ \A j \in k + 1 .. n - 1 : lines[j].project # dict[h].project
    OBVIOUS
  <2>2. k \in 1 .. n /\ \A j \in k + 1 .. n : j = n \/ j \in k + 1 .. n - 1
    BY <1>1
  <2> QED
    BY <1>3, <2>1, <2>2
<1>4. CASE \E h \in 1 .. m : dict[h].project = e.project
  <2> HIDE DEF e
  <2>1. put = [h \in 1 .. m |-> IF dict[h].project = e.project THEN e ELSE dict[h]]
    BY <1>0, <1>4, Zenon DEF PutLine
  <2>2. Len(put) = m
    <3>1. put \in Seq(S) /\ DOMAIN put = 1 .. m
      BY <1>0, <1>1, <2>1, PutLineType
    <3> QED
      BY <1>1, <3>1, LenProperties
  <2>3. i \in 1 .. m
    BY <1>0, <2>2
  <2>4. put[i] = IF dict[i].project = e.project THEN e ELSE dict[i]
    BY <2>1, <2>3
  <2>5. CASE dict[i].project = e.project
    BY <1>2, <2>4, <2>5 DEF e
  <2>6. CASE dict[i].project # e.project
    <3>1. put[i] = dict[i]
      BY <2>4, <2>6
    <3> QED
      BY <1>3, <2>3, <2>6, <3>1
  <2> QED
    BY <2>5, <2>6
<1>5. CASE ~ \E h \in 1 .. m : dict[h].project = e.project
  <2>1. put = Append(dict, e)
    BY <1>0, <1>5 DEF PutLine
  <2>2. Len(put) = m + 1 /\ put[m + 1] = e /\ \A h \in 1 .. m : put[h] = dict[h]
    BY <1>1, <2>1, AppendProperties
  <2>3. i = m + 1 \/ i \in 1 .. m
    BY <1>0, <1>1, <2>2
  <2>4. CASE i = m + 1
    BY <1>2, <2>2, <2>4
  <2>5. CASE i \in 1 .. m
    <3>1. put[i] = dict[i] /\ dict[i].project # e.project
      BY <1>5, <2>2, <2>5
    <3> QED
      BY <1>3, <2>5, <3>1
  <2> QED
    BY <2>3, <2>4, <2>5
<1> QED
  BY <1>4, <1>5

\* Of a project it is the last line that counts.
LEMMA LastLineCounts ==
  ASSUME NEW S, NEW lines \in Seq(S), NEW e \in ToSet(Merged(lines))
  PROVE  \E k \in 1 .. Len(lines) :
           e = lines[k] /\ \A j \in k + 1 .. Len(lines) : lines[j].project # e.project
<1> DEFINE N == Len(lines)
<1>1. N \in Nat
  BY LenProperties
<1>2. PICK dict \in [0 .. N -> Seq(S)] :
        /\ Merged(lines) = dict[N] /\ dict[0] = <<>>
        /\ \A n \in 1 .. N : dict[n] = PutLine(dict[n - 1], lines[n])
  BY MergedFolds
<1> DEFINE OK(n) == \A i \in 1 .. Len(dict[n]) : \E k \in 1 .. n :
                      dict[n][i] = lines[k] /\ \A j \in k + 1 .. n : lines[j].project # dict[n][i].project
           G == {n \in 0 .. N : OK(n)}
<1>3. 0 \in G
  <2>1. Len(dict[0]) = 0 /\ 1 .. 0 = {}
    BY <1>2, EmptySeq
  <2> QED
    BY <1>1, <2>1
<1>4. ASSUME NEW n \in 1 .. N, n - 1 \in G PROVE n \in G
  <2>0. n - 1 \in 0 .. N /\ n \in 0 .. N
    BY <1>1
  <2>1. n - 1 \in 0 .. N /\ n \in 0 .. N /\ dict[n - 1] \in Seq(S) /\ OK(n - 1)
    <3>1. OK(n - 1)
      <4> HIDE DEF OK
      <4> QED
        BY <1>4
    <3> QED
      BY <1>2, <2>0, <3>1
  <2>2. dict[n] = PutLine(dict[n - 1], lines[n])
    BY <1>2
  <2>3. OK(n)
    <3>1. SUFFICES ASSUME NEW i \in 1 .. Len(PutLine(dict[n - 1], lines[n]))
          PROVE  \E k \in 1 .. n : /\ PutLine(dict[n - 1], lines[n])[i] = lines[k]
                                   /\ \A j \in k + 1 .. n : lines[j].project # PutLine(dict[n - 1], lines[n])[i].project
      BY <2>2
    <3> QED
      BY <2>1, PutLineLast
  <2> QED
    BY <2>1, <2>3
<1>5. OK(N)
  <2>1. \A n \in 0 .. N : n \in G
    <3> HIDE DEF G, N
    <3> QED
      BY <1>1, <1>3, <1>4, UpTo
  <2>2. N \in G
    <3> HIDE DEF G, N
    <3> QED
      BY <1>1, <2>1
  <2> HIDE DEF OK
  <2> QED
    BY <2>2
<1>6. PICK i \in 1 .. Len(dict[N]) : e = dict[N][i]
  <2>1. dict[N] \in Seq(S)
    BY <1>1, <1>2
  <2> QED
    BY <1>2, <2>1, LenProperties DEF ToSet
<1> QED
  BY <1>5, <1>6

\* What the service may write, the lines of the installation admit.
LEMMA WritableIsAdmitted ==
  ASSUME config \in Configs, NEW f \in Writable(config) PROVE Admitted(f)
<1> DEFINE lines == config.policies
           P == DefaultProject(Registered(config.projects))
           own == {i \in 1 .. Len(lines) : lines[i].project = P}
<1>1. lines \in Seq(ToSet(lines))
  BY WritesAssumption
<1>2. PICK e \in ToSet(Load(lines)) : e.project = P /\ f \in e.writes \ (Barred \cup e.denied)
  BY DEF Writable, InForce
<1>3. (\A i \in 1 .. Len(lines) : WellFormed(lines[i])) /\ Load(lines) = Merged(lines)
  <2>1. <<>> \in Seq({}) /\ ToSet(<<>>) = {}
    BY EmptySeq DEF ToSet
  <2> QED
    BY <1>2, <2>1 DEF Load
<1>4. PICK k \in 1 .. Len(lines) : e = lines[k] /\ \A j \in k + 1 .. Len(lines) : lines[j].project # e.project
  BY <1>1, <1>2, <1>3, LastLineCounts
<1>5. k \in own /\ \A j \in own : k >= j
  <2>1. Len(lines) \in Nat
    BY <1>1, LenProperties
  <2>2. ASSUME NEW j \in own PROVE k >= j
    <3>1. j \notin k + 1 .. Len(lines)
      BY <1>2, <1>4
    <3> QED
      BY <2>1, <3>1
  <2> QED
    BY <1>2, <1>4, <2>2
<1>6. Max(own) = k
  <2>1. own \subseteq Int
    OBVIOUS
  <2>2. \A x \in own : (\A y \in own : x >= y) => x = k
    BY <1>5, <2>1
  <2> HIDE DEF own
  <2> QED
    BY <1>5, <2>2 DEF Max
<1> QED
  BY <1>2, <1>3, <1>4, <1>5, <1>6 DEF Admitted

\* An entry of the status file, and a row of the table.
Leaf == [key : Keys, module : Modules \cup {None}, status : STRING]
TableRow == [key : Keys, module : Modules \cup {None}, status : STRING, title : Bodies \cup {None}]

\* What starts in S and never leaves it is in S.
LEMMA StaysTyped ==
  ASSUME NEW N \in Nat, NEW S, NEW C, C[0] \in S, \A n \in 1 .. N : C[n - 1] \in S => C[n] \in S
  PROVE  \A n \in 0 .. N : C[n] \in S
<1> DEFINE G == {n \in 0 .. N : C[n] \in S}
<1>1. 0 \in G
  OBVIOUS
<1>2. ASSUME NEW n \in 1 .. N, n - 1 \in G PROVE n \in G
  BY <1>2
<1>3. \A n \in 0 .. N : n \in G
  <2> HIDE DEF G
  <2> QED
    BY <1>1, <1>2, UpTo
<1> QED
  BY <1>3

-----------------------------------------------------------------------------
(* Project: one entry of a key is kept.                                    *)

KeptTo(entries, kept) ==
  kept = [n \in 0 .. Len(entries) |-> IF n = 0 THEN <<>> ELSE Take(kept[n - 1], entries[n])]

LEMMA TakeType ==
  ASSUME NEW S, NEW kept \in Seq(S), NEW e \in S PROVE Take(kept, e) \in Seq(S)
<1>1. Len(kept) \in Nat /\ \A i \in 1 .. Len(kept) : kept[i] \in S
  BY ElementOfSeq, LenProperties
<1>2. [i \in 1 .. Len(kept) |-> IF kept[i].key = e.key /\ Better(e, kept[i]) THEN e ELSE kept[i]] \in Seq(S)
  BY <1>1, IsASeq
<1>3. Append(kept, e) \in Seq(S)
  BY AppendProperties
<1> QED
  BY <1>2, <1>3 DEF Take

LEMMA DedupeFolds ==
  ASSUME NEW S, NEW entries \in Seq(S)
  PROVE  \E kept \in [0 .. Len(entries) -> Seq(S)] :
           /\ Dedupe(entries) = kept[Len(entries)] /\ kept[0] = <<>>
           /\ \A n \in 1 .. Len(entries) : kept[n] = Take(kept[n - 1], entries[n])
<1> DEFINE N == Len(entries)
           F == [x \in Seq(S) \X (1 .. N) |-> Take(x[1], entries[x[2]])]
           C == CHOOSE kept : KeptTo(entries, kept)
<1>1. N \in Nat /\ \A n \in 1 .. N : entries[n] \in S
  BY ElementOfSeq, LenProperties
<1>2. F \in [Seq(S) \X (1 .. N) -> Seq(S)]
  <2>1. ASSUME NEW x \in Seq(S) \X (1 .. N) PROVE Take(x[1], entries[x[2]]) \in Seq(S)
    <3>1. x[1] \in Seq(S) /\ entries[x[2]] \in S
      BY <1>1
    <3> QED
      BY <3>1, TakeType
  <2> QED
    BY <2>1
<1>3. <<>> \in Seq(S)
  BY EmptySeq
<1>4. \A c \in Seq(S), n \in 1 .. N : F[<<c, n>>] = Take(c, entries[n])
  OBVIOUS
<1>5. PICK g \in [0 .. N -> Seq(S)] : IsFold(N, <<>>, F, g)
  <2> HIDE DEF F, N
  <2> QED
    BY <1>1, <1>2, <1>3, FoldExists
<1> HIDE DEF F
<1>6. KeptTo(entries, g)
  <2>1. \A n \in 0 .. N : g[n] = IF n = 0 THEN <<>> ELSE Take(g[n - 1], entries[n])
    <3>1. ASSUME NEW n \in 1 .. N PROVE g[n] = Take(g[n - 1], entries[n])
      <4>1. n - 1 \in 0 .. N
        BY <1>1
      <4> QED
        BY <1>4, <1>5, <4>1 DEF IsFold
    <3> QED
      BY <1>1, <1>5, <3>1 DEF IsFold
  <2>2. g = [n \in 0 .. N |-> g[n]]
    BY <1>5
  <2> QED
    BY <2>1, <2>2 DEF KeptTo
<1>7. KeptTo(entries, C)
  BY <1>6
<1>8. Dedupe(entries) = C[N]
  BY DEF Dedupe, KeptTo
<1> HIDE DEF C
<1>9. /\ C = [n \in 0 .. N |-> C[n]]
      /\ C[0] = <<>> /\ \A n \in 1 .. N : C[n] = Take(C[n - 1], entries[n])
  <2>1. \A n \in 0 .. N : C[n] = IF n = 0 THEN <<>> ELSE Take(C[n - 1], entries[n])
    BY <1>7 DEF KeptTo
  <2>2. 0 \in 0 .. N /\ \A n \in 1 .. N : n \in 0 .. N /\ n # 0
    BY <1>1
  <2>3. C = [n \in 0 .. N |-> C[n]]
    BY <1>7 DEF KeptTo
  <2> QED
    BY <2>1, <2>2, <2>3
<1>10. C \in [0 .. N -> Seq(S)]
  <2>1. ASSUME NEW n \in 1 .. N, C[n - 1] \in Seq(S) PROVE C[n] \in Seq(S)
    <3>1. entries[n] \in S /\ C[n] = Take(C[n - 1], entries[n])
      BY <1>9, ElementOfSeq
    <3> QED
      BY <2>1, <3>1, TakeType
  <2>2. C[0] \in Seq(S)
    BY <1>9, EmptySeq
  <2> HIDE DEF N
  <2>3. \A n \in 0 .. N : C[n] \in Seq(S)
    BY ONLY <1>1, <2>1, <2>2, StaysTyped
  <2> QED
    BY <1>9, <2>3
<1> QED
  BY <1>8, <1>9, <1>10

\* Entry p is the first of its key with a module, or the first where none of the first n has one.
Tells(entries, n, p) ==
  LET same == {q \in 1 .. n : entries[q].key = entries[p].key}
  IN  /\ p \in 1 .. n
      /\ \/ entries[p].module # None /\ \A q \in same : q < p => entries[q].module = None
         \/ \A q \in same : entries[q].module = None /\ p <= q

\* Each key of the first n entries has one entry in kept, the one that tells.
KeepsOf(entries, n, kept) ==
  /\ kept \in Seq(Leaf)
  /\ \A i, j \in 1 .. Len(kept) : kept[i].key = kept[j].key => i = j
  /\ \A i \in 1 .. Len(kept) : \E p \in 1 .. n : kept[i] = entries[p] /\ Tells(entries, n, p)
  /\ \A q \in 1 .. n : \E i \in 1 .. Len(kept) : kept[i].key = entries[q].key

LEMMA TakeKeeps ==
  ASSUME NEW entries \in Seq(Leaf), NEW n \in 1 .. Len(entries), NEW kept, KeepsOf(entries, n - 1, kept),
         NEW took, took = Take(kept, entries[n])
  PROVE  KeepsOf(entries, n, took)
<1> DEFINE e == entries[n]
           m == Len(kept)
<1>1. /\ Len(entries) \in Nat /\ n \in Nat \ {0} /\ m \in Nat /\ kept \in Seq(Leaf)
      /\ \A q \in 1 .. n : entries[q] \in Leaf
      /\ 1 .. n = (1 .. n - 1) \cup {n}
  BY ElementOfSeq, LenProperties DEF KeepsOf
<1>2. took \in Seq(Leaf)
  BY <1>1, TakeType
<1>3. ASSUME NEW p \in 1 .. n - 1, Tells(entries, n - 1, p), entries[p].key # e.key \/ e.module = None \/ entries[p].module # None
      PROVE  Tells(entries, n, p)
  BY <1>1, <1>3 DEF Tells
<1>4. CASE \E i \in 1 .. m : kept[i].key = e.key
  <2> HIDE DEF e
  <2>1. took = [i \in 1 .. m |-> IF kept[i].key = e.key /\ Better(e, kept[i]) THEN e ELSE kept[i]]
    BY <1>4, Zenon DEF Take, e
  <2>2. Len(took) = m
    BY <1>1, <1>2, <2>1, LenProperties
  <2>3. \A i \in 1 .. m : took[i].key = kept[i].key
    BY <2>1
  <2>4. ASSUME NEW i \in 1 .. m PROVE \E p \in 1 .. n : took[i] = entries[p] /\ Tells(entries, n, p)
    <3>1. PICK p \in 1 .. n - 1 : kept[i] = entries[p] /\ Tells(entries, n - 1, p)
      BY DEF KeepsOf
    <3>2. CASE kept[i].key = e.key /\ Better(e, kept[i])
      <4>1. took[i] = e /\ e.module # None /\ entries[p].module = None /\ entries[p].key = e.key
        BY <2>1, <3>1, <3>2 DEF Better
      <4>2. Tells(entries, n, n)
        BY <1>1, <3>1, <4>1 DEF Tells, e
      <4> QED
        BY <1>1, <4>1, <4>2 DEF e
    <3>3. CASE ~(kept[i].key = e.key /\ Better(e, kept[i]))
      <4>1. took[i] = entries[p] /\ p \in 1 .. n
        BY <1>1, <2>1, <3>1, <3>3
      <4>2. Tells(entries, n, p)
        BY <1>3, <3>1, <3>3 DEF Better, e
      <4> QED
        BY <4>1, <4>2
    <3> QED
      BY <3>2, <3>3
  <2>5. ASSUME NEW q \in 1 .. n PROVE \E i \in 1 .. m : took[i].key = entries[q].key
    <3>1. CASE q = n
      BY <1>4, <2>3, <3>1 DEF e
    <3>2. CASE q \in 1 .. n - 1
      BY <2>3, <3>2 DEF KeepsOf
    <3> QED
      BY <1>1, <3>1, <3>2
  <2>6. \A i, j \in 1 .. m : took[i].key = took[j].key => i = j
    BY <2>3 DEF KeepsOf
  <2> QED
    BY <1>2, <2>2, <2>4, <2>5, <2>6 DEF KeepsOf
<1>5. CASE ~ \E i \in 1 .. m : kept[i].key = e.key
  <2>1. took = Append(kept, e)
    BY <1>5 DEF Take
  <2>2. Len(took) = m + 1 /\ took[m + 1] = e /\ \A i \in 1 .. m : took[i] = kept[i]
    BY <1>1, <2>1, AppendProperties
  <2> HIDE DEF m
  <2>3. \A i \in 1 .. Len(took) : i = m + 1 \/ i \in 1 .. m
    BY <1>1, <2>2
  <2>4. \A i \in 1 .. m : i \in 1 .. Len(took)
    BY <1>1, <2>2
  <2>5. m + 1 \in 1 .. Len(took)
    <3>1. m \in Nat /\ Len(took) = m + 1
      BY <1>1, <2>2
    <3> QED
      BY ONLY <3>1
  <2>6. ASSUME NEW q \in 1 .. n - 1 PROVE entries[q].key # e.key
    <3>1. PICK i \in 1 .. m : kept[i].key = entries[q].key
      BY DEF KeepsOf, m
    <3> QED
      BY <1>5, <3>1
  <2>7. ASSUME NEW i \in 1 .. Len(took) PROVE \E p \in 1 .. n : took[i] = entries[p] /\ Tells(entries, n, p)
    <3>1. CASE i = m + 1
      <4>1. Tells(entries, n, n)
        BY <1>1, <2>6 DEF Tells
      <4> QED
        BY <1>1, <2>2, <3>1, <4>1
    <3>2. CASE i \in 1 .. m
      <4>1. PICK p \in 1 .. n - 1 : kept[i] = entries[p] /\ Tells(entries, n - 1, p)
        BY <3>2 DEF KeepsOf, m
      <4> QED
        BY <1>1, <1>3, <2>2, <2>6, <3>2, <4>1
    <3> QED
      BY <2>3, <3>1, <3>2
  <2>8. ASSUME NEW q \in 1 .. n PROVE \E i \in 1 .. Len(took) : took[i].key = entries[q].key
    <3>1. CASE q = n
      <4>1. took[m + 1].key = entries[q].key
        BY <2>2, <3>1
      <4> QED
        BY ONLY <2>5, <4>1
    <3>2. CASE q \in 1 .. n - 1
      <4>1. PICK i \in 1 .. m : kept[i].key = entries[q].key
        BY <3>2 DEF KeepsOf, m
      <4>2. took[i] = kept[i] /\ i \in 1 .. Len(took)
        BY <2>2, <2>4
      <4> QED
        BY <4>1, <4>2
    <3> QED
      BY <1>1, <3>1, <3>2
  <2>9. ASSUME NEW i \in 1 .. Len(took), NEW j \in 1 .. Len(took), took[i].key = took[j].key PROVE i = j
    <3>1. \A i1, j1 \in 1 .. m : kept[i1].key = kept[j1].key => i1 = j1
      BY DEF KeepsOf, m
    <3>2. (i = m + 1 \/ i \in 1 .. m) /\ (j = m + 1 \/ j \in 1 .. m)
      BY <2>3
    <3> QED
      BY <1>5, <2>2, <2>9, <3>1, <3>2
  <2> QED
    BY <1>2, <2>7, <2>8, <2>9 DEF KeepsOf
<1> QED
  BY <1>4, <1>5

LEMMA DedupeKeeps ==
  ASSUME NEW entries \in Seq(Leaf) PROVE KeepsOf(entries, Len(entries), Dedupe(entries))
<1> DEFINE N == Len(entries)
<1>1. N \in Nat
  BY LenProperties
<1>2. PICK kept \in [0 .. N -> Seq(Leaf)] :
        /\ Dedupe(entries) = kept[N] /\ kept[0] = <<>>
        /\ \A n \in 1 .. N : kept[n] = Take(kept[n - 1], entries[n])
  BY DedupeFolds
<1> DEFINE G == {n \in 0 .. N : KeepsOf(entries, n, kept[n])}
<1>3. 0 \in G
  <2>1. Len(kept[0]) = 0 /\ 1 .. 0 = {} /\ kept[0] \in Seq(Leaf) /\ 0 \in 0 .. N
    BY <1>1, <1>2, EmptySeq
  <2>2. KeepsOf(entries, 0, kept[0])
    BY ONLY <2>1 DEF KeepsOf
  <2> QED
    BY <2>1, <2>2
<1>4. ASSUME NEW n \in 1 .. N, n - 1 \in G PROVE n \in G
  <2>1. KeepsOf(entries, n - 1, kept[n - 1]) /\ kept[n] = Take(kept[n - 1], entries[n]) /\ n \in 0 .. N
    BY <1>1, <1>2, <1>4
  <2>2. KeepsOf(entries, n, kept[n])
    BY <2>1, TakeKeeps
  <2> QED
    BY <2>1, <2>2
<1>5. N \in G
  <2>1. \A n \in 0 .. N : n \in G
    <3> HIDE DEF G, N
    <3> QED
      BY <1>1, <1>3, <1>4, UpTo
  <2> HIDE DEF G, N
  <2> QED
    BY <1>1, <2>1
<1> QED
  BY <1>2, <1>5

\* The entry that tells is the one the property speaks of.
LEMMA TellsSaid ==
  ASSUME NEW entries \in Seq(Leaf), NEW p, Tells(entries, Len(entries), p)
  PROVE  Said(entries, entries[p].key) = entries[p]
<1> DEFINE k == entries[p].key
           of == {i \in 1 .. Len(entries) : entries[i].key = k}
           placed == {i \in of : entries[i].module # None}
           those == IF placed = {} THEN of ELSE placed
<1>1. p \in those /\ \A q \in those : p <= q
  <2>1. Len(entries) \in Nat /\ p \in of
    BY LenProperties DEF Tells
  <2> QED
    BY <2>1 DEF Tells
<1>2. those \subseteq Int
  OBVIOUS
<1>3. Min(those) = p
  <2>1. \A x \in those : (\A y \in those : x <= y) => x = p
    <3> HIDE DEF those
    <3> QED
      BY <1>1, <1>2
  <2> HIDE DEF those
  <2> QED
    BY <1>1, <2>1 DEF Min
<1> QED
  BY <1>3 DEF Said

\* What a sync has read.
IsRead(got) == got.entries \in Seq(Leaf) /\ got.titles \in [Keys -> Bodies \cup {None}]

\* The step by which the rows come about.
Grown(kept, got, rows, n) ==
  IF kept[n].module \in Filter(got.wanted) THEN Append(rows, Record(kept[n], got.titles)) ELSE rows

RowsTo(kept, got, rows) ==
  rows = [n \in 0 .. Len(kept) |->
            IF n = 0 THEN <<>>
            ELSE IF kept[n].module \in Filter(got.wanted) THEN Append(rows[n - 1], Record(kept[n], got.titles))
            ELSE rows[n - 1]]

LEMMA GrownType ==
  ASSUME NEW kept \in Seq(Leaf), NEW n \in 1 .. Len(kept), NEW got, IsRead(got), NEW rows \in Seq(TableRow)
  PROVE  Record(kept[n], got.titles) \in TableRow /\ Grown(kept, got, rows, n) \in Seq(TableRow)
<1>1. kept[n] \in Leaf
  BY ElementOfSeq
<1>2. Record(kept[n], got.titles) \in TableRow
  BY <1>1 DEF Record, Leaf, TableRow, IsRead
<1> QED
  BY <1>2, AppendProperties DEF Grown

LEMMA RowsFold ==
  ASSUME NEW got, IsRead(got), NEW kept \in Seq(Leaf), kept = Dedupe(got.entries)
  PROVE  \E rows \in [0 .. Len(kept) -> Seq(TableRow)] :
           /\ RowsOf(got) = rows[Len(kept)] /\ rows[0] = <<>>
           /\ \A n \in 1 .. Len(kept) : rows[n] = Grown(kept, got, rows[n - 1], n)
<1> DEFINE N == Len(kept)
           T == Seq(TableRow)
           F == [x \in T \X (1 .. N) |-> Grown(kept, got, x[1], x[2])]
           C == CHOOSE rows : RowsTo(kept, got, rows)
<1>1. N \in Nat
  BY LenProperties
<1>2. F \in [T \X (1 .. N) -> T]
  BY GrownType
<1>3. <<>> \in T
  BY EmptySeq
<1>4. \A c \in T, n \in 1 .. N : F[<<c, n>>] = Grown(kept, got, c, n)
  OBVIOUS
<1>5. PICK g \in [0 .. N -> T] : IsFold(N, <<>>, F, g)
  <2> HIDE DEF F, N, T
  <2> QED
    BY <1>1, <1>2, <1>3, FoldExists
<1> HIDE DEF F, T
<1>6. RowsTo(kept, got, g)
  <2>1. \A n \in 0 .. N : g[n] = IF n = 0 THEN <<>> ELSE Grown(kept, got, g[n - 1], n)
    <3>1. ASSUME NEW n \in 1 .. N PROVE g[n] = Grown(kept, got, g[n - 1], n)
      <4>1. n - 1 \in 0 .. N
        BY <1>1
      <4> QED
        BY <1>4, <1>5, <4>1 DEF IsFold
    <3> QED
      BY <1>1, <1>5, <3>1 DEF IsFold
  <2>2. g = [n \in 0 .. N |-> g[n]]
    BY <1>5
  <2> QED
    BY <2>1, <2>2 DEF RowsTo, Grown
<1>7. RowsTo(kept, got, C)
  BY <1>6
<1>8. RowsOf(got) = C[N]
  BY DEF RowsOf, RowsTo
<1> HIDE DEF C
<1>9. /\ C = [n \in 0 .. N |-> C[n]]
      /\ C[0] = <<>> /\ \A n \in 1 .. N : C[n] = Grown(kept, got, C[n - 1], n)
  <2>1. \A n \in 0 .. N : C[n] = IF n = 0 THEN <<>> ELSE Grown(kept, got, C[n - 1], n)
    BY <1>7 DEF RowsTo, Grown
  <2>2. 0 \in 0 .. N /\ \A n \in 1 .. N : n \in 0 .. N /\ n # 0
    BY <1>1
  <2>3. C = [n \in 0 .. N |-> C[n]]
    BY <1>7 DEF RowsTo
  <2> QED
    BY <2>1, <2>2, <2>3
<1>10. C \in [0 .. N -> T]
  <2>1. ASSUME NEW n \in 1 .. N, C[n - 1] \in T PROVE C[n] \in T
    <3>1. C[n] = Grown(kept, got, C[n - 1], n)
      BY <1>9
    <3> QED
      BY <2>1, <3>1, GrownType DEF T
  <2> HIDE DEF N
  <2>2. \A n \in 0 .. N : C[n] \in T
    <3>1. C[0] \in T
      BY <1>9, EmptySeq DEF T
    <3> QED
      BY ONLY <1>1, <2>1, <3>1, StaysTyped
  <2> QED
    BY <1>9, <2>2
<1> QED
  BY <1>8, <1>9, <1>10 DEF T

\* The rows made of the first n kept entries: one of each that passes the filter.
RowsFrom(kept, got, n, rows) ==
  /\ rows \in Seq(TableRow)
  /\ \A j \in 1 .. Len(rows) : \E i \in 1 .. n : rows[j].key = kept[i].key
  /\ \A i, j \in 1 .. Len(rows) : rows[i].key = rows[j].key => i = j
  /\ \A i \in 1 .. n : kept[i].module \in Filter(got.wanted) =>
       \E j \in 1 .. Len(rows) : rows[j] = Record(kept[i], got.titles)

LEMMA GrownRows ==
  ASSUME NEW got, IsRead(got), NEW kept \in Seq(Leaf), NEW n \in 1 .. Len(kept),
         \A i, j \in 1 .. Len(kept) : kept[i].key = kept[j].key => i = j,
         NEW rows, RowsFrom(kept, got, n - 1, rows), NEW grown, grown = Grown(kept, got, rows, n)
  PROVE  RowsFrom(kept, got, n, grown)
<1> DEFINE r == Record(kept[n], got.titles)
           m == Len(rows)
<1>1. /\ Len(kept) \in Nat /\ n \in Nat \ {0} /\ m \in Nat /\ rows \in Seq(TableRow)
      /\ \A i \in 1 .. n : i = n \/ i \in 1 .. n - 1
      /\ \A i \in 1 .. n - 1 : i \in 1 .. n /\ i # n /\ i \in 1 .. Len(kept)
      /\ n \in 1 .. n
  BY ElementOfSeq, LenProperties DEF RowsFrom
<1>2. r \in TableRow /\ grown \in Seq(TableRow) /\ r.key = kept[n].key
  BY <1>1, GrownType DEF Record
<1>3. CASE kept[n].module \notin Filter(got.wanted)
  <2>1. grown = rows
    BY <1>3 DEF Grown
  <2> QED
    BY <1>1, <1>3, <2>1 DEF RowsFrom
<1>4. CASE kept[n].module \in Filter(got.wanted)
  <2>1. grown = Append(rows, r)
    BY <1>4 DEF Grown
  <2>2. Len(grown) = m + 1 /\ grown[m + 1] = r /\ \A i \in 1 .. m : grown[i] = rows[i]
    BY <1>1, <1>2, <2>1, AppendProperties
  <2> HIDE DEF m, r
  <2>3. (\A i \in 1 .. Len(grown) : i = m + 1 \/ i \in 1 .. m) /\ (\A i \in 1 .. m : i \in 1 .. Len(grown)) /\ m + 1 \in 1 .. Len(grown)
    <3>1. m \in Nat /\ Len(grown) = m + 1
      BY <1>1, <2>2
    <3> QED
      BY ONLY <3>1
  <2>4. ASSUME NEW j \in 1 .. m PROVE \E i \in 1 .. n - 1 : rows[j].key = kept[i].key
    BY DEF RowsFrom, m
  <2>5. ASSUME NEW j \in 1 .. m PROVE rows[j].key # kept[n].key
    BY <1>1, <2>4
  <2>6. ASSUME NEW j \in 1 .. Len(grown) PROVE \E i \in 1 .. n : grown[j].key = kept[i].key
    <3>1. CASE j = m + 1
      BY <1>1, <1>2, <2>2, <3>1
    <3>2. CASE j \in 1 .. m
      <4>1. PICK i \in 1 .. n - 1 : rows[j].key = kept[i].key
        BY <2>4, <3>2
      <4>2. grown[j] = rows[j] /\ i \in 1 .. n
        BY <1>1, <2>2, <3>2
      <4> QED
        BY <4>1, <4>2
    <3> QED
      BY <2>3, <3>1, <3>2
  <2>7. ASSUME NEW i \in 1 .. Len(grown), NEW j \in 1 .. Len(grown), grown[i].key = grown[j].key PROVE i = j
    <3>1. \A i1, j1 \in 1 .. m : rows[i1].key = rows[j1].key => i1 = j1
      BY DEF RowsFrom, m
    <3>2. (i = m + 1 \/ i \in 1 .. m) /\ (j = m + 1 \/ j \in 1 .. m)
      BY <2>3
    <3> QED
      BY <1>2, <2>2, <2>5, <2>7, <3>1, <3>2
  <2>8. ASSUME NEW i \in 1 .. n, kept[i].module \in Filter(got.wanted)
        PROVE  \E j \in 1 .. Len(grown) : grown[j] = Record(kept[i], got.titles)
    <3>1. CASE i = n
      BY <2>2, <2>3, <3>1 DEF r
    <3>2. CASE i \in 1 .. n - 1
      <4>1. PICK j \in 1 .. m : rows[j] = Record(kept[i], got.titles)
        BY <2>8, <3>2 DEF RowsFrom, m
      <4>2. grown[j] = rows[j] /\ j \in 1 .. Len(grown)
        BY <2>2, <2>3
      <4> QED
        BY <4>1, <4>2
    <3> QED
      BY <1>1, <3>1, <3>2
  <2> QED
    BY <1>2, <2>6, <2>7, <2>8 DEF RowsFrom
<1> QED
  BY <1>3, <1>4

\* The rows of a sync: one of each key that passes the filter, which says what the file said.
LEMMA RowsSay ==
  ASSUME NEW got, IsRead(got)
  PROVE  LET rows == RowsOf(got)
         IN  /\ rows \in Seq(TableRow)
             /\ \A i, j \in 1 .. Len(rows) : rows[i].key = rows[j].key => i = j
             /\ \A q \in 1 .. Len(got.entries) :
                  LET e == Said(got.entries, got.entries[q].key)
                  IN  e.module \in Filter(got.wanted) =>
                        \E j \in 1 .. Len(rows) : rows[j] = Record(e, got.titles) /\ e.key = got.entries[q].key
<1> DEFINE kept == Dedupe(got.entries)
           N == Len(kept)
<1>1. got.entries \in Seq(Leaf) /\ KeepsOf(got.entries, Len(got.entries), kept)
  BY DedupeKeeps DEF IsRead
<1>2. kept \in Seq(Leaf) /\ N \in Nat /\ \A i, j \in 1 .. N : kept[i].key = kept[j].key => i = j
  BY <1>1, LenProperties DEF KeepsOf
<1>3. PICK rows \in [0 .. N -> Seq(TableRow)] :
           /\ RowsOf(got) = rows[N] /\ rows[0] = <<>>
           /\ \A n \in 1 .. N : rows[n] = Grown(kept, got, rows[n - 1], n)
  BY <1>2, RowsFold
<1> HIDE DEF kept
<1> DEFINE G == {n \in 0 .. N : RowsFrom(kept, got, n, rows[n])}
<1>4. 0 \in G
  <2>1. Len(rows[0]) = 0 /\ 1 .. 0 = {} /\ rows[0] \in Seq(TableRow) /\ 0 \in 0 .. N
    BY <1>2, <1>3, EmptySeq
  <2>2. RowsFrom(kept, got, 0, rows[0])
    BY ONLY <2>1 DEF RowsFrom
  <2> QED
    BY <2>1, <2>2
<1>5. ASSUME NEW n \in 1 .. N, n - 1 \in G PROVE n \in G
  <2>1. RowsFrom(kept, got, n - 1, rows[n - 1]) /\ rows[n] = Grown(kept, got, rows[n - 1], n) /\ n \in 0 .. N
    BY <1>2, <1>3, <1>5
  <2>2. RowsFrom(kept, got, n, rows[n])
    BY <1>2, <2>1, GrownRows
  <2> QED
    BY <2>1, <2>2
<1>6. RowsFrom(kept, got, N, rows[N])
  <2>1. \A n \in 0 .. N : n \in G
    <3> HIDE DEF G, N
    <3> QED
      BY <1>2, <1>4, <1>5, UpTo
  <2>2. N \in G
    <3> HIDE DEF G, N
    <3> QED
      BY <1>2, <2>1
  <2> QED
    BY <2>2
<1>7. ASSUME NEW q \in 1 .. Len(got.entries), Said(got.entries, got.entries[q].key).module \in Filter(got.wanted)
      PROVE  LET e == Said(got.entries, got.entries[q].key)
             IN  \E j \in 1 .. Len(rows[N]) : rows[N][j] = Record(e, got.titles) /\ e.key = got.entries[q].key
  <2>1. PICK i \in 1 .. N : kept[i].key = got.entries[q].key
    BY <1>1 DEF KeepsOf
  <2>2. PICK p \in 1 .. Len(got.entries) : kept[i] = got.entries[p] /\ Tells(got.entries, Len(got.entries), p)
    BY <1>1 DEF KeepsOf
  <2>3. Said(got.entries, got.entries[q].key) = kept[i]
    BY <1>1, <2>1, <2>2, TellsSaid
  <2> QED
    BY <1>6, <1>7, <2>1, <2>3 DEF RowsFrom
<1> QED
  BY <1>3, <1>6, <1>7 DEF RowsFrom

-----------------------------------------------------------------------------
(* Project: the syncs.                                                     *)

\* The table tab says of the key of r what r says.
FollowsRow(tab, r) == \E i \in 1 .. Len(tab) :
  /\ tab[i].key = r.key /\ tab[i].status = r.status /\ tab[i].title = r.title
  /\ r.module # None => tab[i].module = r.module

Stages == {"new", "schema", "search", "put", "ok", "failed"}

\* A sync under way has read entries and titles, and is at one of its rows; a record it found is
\* of that row's key; of two syncs under way each knows of the other; and as long as it
\* is alone, no row of its key is there that it did not find, and what it wrote is still there.
SyncOK(s) ==
  /\ s \in Running => IsRead(seen[s])
  /\ stage[s] \in {"new", "schema"} => row[s] = 0
  /\ stage[s] \in {"search", "put"} => row[s] \in 1 .. Len(RowsOf(seen[s]))
  /\ stage[s] = "put" /\ found[s] # None => found[s] \in 1 .. Len(table) /\ table[found[s]].key = This(s).key
  /\ \A t \in Running : s \in Running /\ s # t => s \in crowded
  /\ s \in Running \ crowded =>
       /\ stage[s] = "put" /\ found[s] = None => Holding(This(s).key) = {}
       /\ s \notin failed => \A n \in 1 .. row[s] - 1 : FollowsRow(table, RowsOf(seen[s])[n])

SyncInv ==
  /\ table \in Seq(TableRow)
  /\ stage \in [Syncs -> Stages]
  /\ seen = [s \in Syncs |-> seen[s]] /\ row \in [Syncs -> Nat] /\ found = [s \in Syncs |-> found[s]]
  /\ failed \subseteq Running /\ crowded \subseteq Running
  /\ \A s \in Syncs : SyncOK(s)

\* The two halves of RowsFollow.
OkIsTrue == \A s \in Syncs : stage'[s] = "ok" /\ stage[s] # "ok" /\ s \notin crowded =>
  \A k \in {seen[s].entries[i].key : i \in 1 .. Len(seen[s].entries)} :
    LET e == Said(seen[s].entries, k)
    IN  e.module \in Filter(seen[s].wanted) =>
          \E i \in Holding(k)' : /\ table'[i].status = e.status
                                /\ table'[i].title = seen[s].titles[k]
                                /\ table'[i].module \in {e.module} \cup (IF e.module = None THEN Modules ELSE {})

OneRowEach == \A k \in Keys :
  \A i, j \in Holding(k)' : i < j /\ j > Len(table) => \E s \in crowded : stage[s] = "put"

LEMMA PutFacts ==
  ASSUME table \in Seq(TableRow), NEW r \in TableRow, NEW i,
         i # None => i \in 1 .. Len(table) /\ table[i].key = r.key
  PROVE  /\ Put(r, i) \in Seq(TableRow)
         /\ \A n \in 1 .. Len(table) : /\ n \in 1 .. Len(Put(r, i)) /\ Put(r, i)[n].key = table[n].key
                                       /\ table[n].key # r.key => Put(r, i)[n] = table[n]
         /\ FollowsRow(Put(r, i), r)
         /\ i # None => Len(Put(r, i)) = Len(table)
         /\ i = None => Len(Put(r, i)) = Len(table) + 1 /\ Put(r, i)[Len(table) + 1] = r
<1> DEFINE m == Len(table)
<1>1. m \in Nat /\ \A n \in 1 .. m : table[n] \in TableRow
  BY ElementOfSeq, LenProperties
<1>2. CASE i = None
  <2>0. SUFFICES ASSUME NEW put, put = Append(table, r)
        PROVE  /\ put \in Seq(TableRow)
               /\ \A n \in 1 .. m : n \in 1 .. Len(put) /\ put[n] = table[n]
               /\ FollowsRow(put, r) /\ Len(put) = m + 1 /\ put[m + 1] = r
    BY <1>2 DEF Put
  <2>1. put \in Seq(TableRow) /\ Len(put) = m + 1 /\ put[m + 1] = r /\ \A n \in 1 .. m : put[n] = table[n]
    BY <2>0, AppendProperties
  <2> HIDE DEF m
  <2>2. m + 1 \in 1 .. Len(put) /\ \A n \in 1 .. m : n \in 1 .. Len(put)
    <3>1. m \in Nat /\ Len(put) = m + 1
      BY <1>1, <2>1
    <3> QED
      BY ONLY <3>1
  <2>3. FollowsRow(put, r)
    BY <2>1, <2>2 DEF FollowsRow
  <2> QED
    BY <2>1, <2>2, <2>3
<1>3. CASE i # None
  <2> DEFINE v == IF r.module = None THEN [r EXCEPT !.module = table[i].module] ELSE r
  <2>1. i \in 1 .. m /\ table[i].key = r.key
    BY <1>3
  <2>2. v \in TableRow /\ v.key = r.key /\ v.status = r.status /\ v.title = r.title /\ (r.module # None => v.module = r.module)
    BY <1>1, <2>1 DEF TableRow
  <2>0. SUFFICES ASSUME NEW put, put = [table EXCEPT ![i] = v]
        PROVE  /\ put \in Seq(TableRow)
               /\ \A n \in 1 .. m : n \in 1 .. Len(put) /\ put[n].key = table[n].key /\ (table[n].key # r.key => put[n] = table[n])
               /\ FollowsRow(put, r) /\ Len(put) = m
    BY <1>3 DEF Put
  <2> HIDE DEF v
  <2>3. put \in Seq(TableRow) /\ Len(put) = m
    BY <2>0, <2>1, <2>2, ExceptSeq
  <2>4. \A n \in 1 .. m : put[n] = IF n = i THEN v ELSE table[n]
    BY <1>1, <2>0, LenProperties
  <2>5. FollowsRow(put, r)
    <3>1. i \in 1 .. Len(put) /\ put[i] = v
      BY <2>1, <2>3, <2>4
    <3> QED
      BY <2>2, <3>1 DEF FollowsRow
  <2>6. \A n \in 1 .. m : put[n].key = table[n].key /\ (table[n].key # r.key => put[n] = table[n])
    BY <2>1, <2>2, <2>4
  <2> QED
    BY <2>3, <2>5, <2>6
<1> QED
  BY <1>2, <1>3

-----------------------------------------------------------------------------
(* Project: the writes.                                                    *)

Places == {"idle", "item", "tmp", "audit", "open", "dead"}

\* A process in a call is at one of its items, all of which were accepted.
CallOK(p) ==
  IF doing[p] \in {"idle", "dead"} THEN call[p] = None
  ELSE /\ call[p] \in CallsOf(p) /\ Valid(call[p]) /\ at[p] \in 1 .. Len(call[p].items)
       /\ doing[p] \in {"tmp", "audit"} => call[p].kind = "source"
       /\ doing[p] = "open" => call[p].kind # "source"

\* Of the first n items, each file holds what the last of its items says.
Holds(held, items, n) == \A i \in 1 .. n :
  held[items[i].path] = items[i].body \/ \E j \in i + 1 .. n : items[j].path = items[i].path

\* The coder's call has put in place what it is past.
PutInPlace == doing[Coder] \in {"item", "tmp", "audit"} /\ call[Coder].kind = "source" =>
  Holds(tree, call[Coder].items, IF doing[Coder] = "audit" THEN at[Coder] ELSE at[Coder] - 1)

CallsInv ==
  /\ config \in Configs /\ service = Writable(config)
  /\ doing \in [Procs -> Places] /\ call = [p \in Procs |-> call[p]] /\ at \in [Procs -> Nat]
  /\ \A p \in Procs : CallOK(p)

FilesInv ==
  /\ tree = [f \in Files |-> tree[f]] /\ tree[StatusFile] \in Statuses \cup {Torn}
  /\ \A f \in Source : tree[f] \in Bodies \cup {None}
  /\ audited = [f \in Files |-> audited[f]]

WriteInv == CallsInv /\ FilesInv /\ PutInPlace /\ AuditAccounts

LandedStep ==
  /\ \A f \in Source : tree'[f] # tree[f] => tree'[f] \in Bodies /\ Admitted(f)
  /\ \A p \in Procs : call'[p] # None => \A i \in 1 .. Len(call'[p].items) : Accepted(call'[p], call'[p].items[i])
  /\ doing[Coder] = "audit" /\ doing'[Coder] = "idle" =>
       LET items == call[Coder].items
       IN  \A i \in 1 .. Len(items) :
             \/ tree'[items[i].path] = items[i].body
             \/ \E j \in i + 1 .. Len(items) : items[j].path = items[i].path

\* What a call may touch: the coder's source what the service writes, others no source.
LEMMA RootsAre ==
  /\ Roots("source") = service /\ Roots("artifact") = Artifacts /\ Roots("status") = {StatusFile}
BY DEF Roots

LEMMA ItemFacts ==
  ASSUME CallsInv, NEW p \in Procs, doing[p] \notin {"idle", "dead"}
  PROVE  /\ call[p] \in CallsOf(p) /\ Len(call[p].items) \in Nat /\ at[p] \in 1 .. Len(call[p].items)
         /\ Item(p).path \in Files
         /\ call[p].kind = "source" => p = Coder /\ Item(p).path \in service \cap Source /\ Item(p).body \in Bodies
         /\ call[p].kind # "source" => Item(p).path \notin Source
         /\ Item(p).path = StatusFile => Item(p).body \in Statuses
<1> DEFINE items == call[p].items
           kind == call[p].kind
<1>1. call[p] \in CallsOf(p) /\ Valid(call[p]) /\ at[p] \in 1 .. Len(items)
  BY DEF CallsInv, CallOK
<1>2. kind \in {"artifact", "status", "source"} /\ (kind = "source" => p = Coder) /\ items \in Batches
  BY <1>1 DEF CallsOf
<1>3. items \in Seq([path : Files, body : Bodies \cup Statuses \cup {Secret}])
  BY <1>2, WritesAssumption
<1>4. Item(p).path \in Files /\ Item(p).body \in Sayable(Item(p).path)
  <2>1. Item(p) \in [path : Files, body : Bodies \cup Statuses \cup {Secret}]
    BY <1>1, <1>3, ElementOfSeq DEF Item
  <2>2. items[at[p]].body \in Sayable(items[at[p]].path)
    BY <1>1, <1>2, WritesAssumption
  <2> QED
    BY <2>1, <2>2 DEF Item
<1>5. Item(p).path \in Roots(kind) /\ Item(p).body # Secret
  BY <1>1 DEF Valid, Accepted, Clean, Item
<1>6. Len(items) \in Nat
  BY <1>3, LenProperties
<1> SUFFICES /\ kind = "source" => p = Coder /\ Item(p).path \in service \cap Source /\ Item(p).body \in Bodies
             /\ kind # "source" => Item(p).path \notin Source
             /\ Item(p).path = StatusFile => Item(p).body \in Statuses
  BY <1>1, <1>4, <1>6
<1> HIDE DEF items, kind
<1>7. service \subseteq Source /\ Source \cap Artifacts = {} /\ StatusFile \notin Source \cup Artifacts
  BY WritesAssumption DEF CallsInv
<1>8. CASE kind = "source"
  <2>1. Item(p).path \in service
    BY <1>5, <1>8, RootsAre
  <2> QED
    BY <1>2, <1>4, <1>5, <1>7, <1>8, <2>1 DEF Sayable
<1>9. CASE kind = "artifact"
  <2>1. Item(p).path \in Artifacts
    BY <1>5, <1>9, RootsAre
  <2> QED
    BY <1>4, <1>7, <1>9, <2>1
<1>10. CASE kind = "status"
  <2>1. Item(p).path = StatusFile
    BY <1>5, <1>10, RootsAre
  <2> QED
    BY <1>4, <1>7, <1>10, <2>1 DEF Sayable
<1> QED
  BY <1>2, <1>8, <1>9, <1>10

\* A process leaves what the others are at alone.
LEMMA OthersKeep ==
  ASSUME CallsInv, NEW p \in Procs, NEW d \in Places, NEW c, NEW n \in Nat, UNCHANGED <<config, service>>,
         doing' = [doing EXCEPT ![p] = d], call' = [call EXCEPT ![p] = c], at' = [at EXCEPT ![p] = n]
  PROVE  /\ doing'[p] = d /\ call'[p] = c /\ at'[p] = n
         /\ \A q \in Procs \ {p} : doing'[q] = doing[q] /\ call'[q] = call[q] /\ at'[q] = at[q]
         /\ CallOK(p)' => CallsInv'
<1>1. doing \in [Procs -> Places] /\ call = [q \in Procs |-> call[q]] /\ at \in [Procs -> Nat] /\ config \in Configs /\ service = Writable(config)
  BY DEF CallsInv
<1>2. doing' \in [Procs -> Places] /\ at' \in [Procs -> Nat] /\ call' = [q \in Procs |-> call'[q]]
  BY <1>1
<1>3. doing'[p] = d /\ call'[p] = c /\ at'[p] = n /\ \A q \in Procs \ {p} : doing'[q] = doing[q] /\ call'[q] = call[q] /\ at'[q] = at[q]
  BY <1>1
<1>4. \A q \in Procs \ {p} : CallOK(q)'
  <2>1. SUFFICES ASSUME NEW q \in Procs \ {p} PROVE CallOK(q)'
    OBVIOUS
  <2>2. CallOK(q)
    BY DEF CallsInv
  <2>3. doing'[q] = doing[q] /\ call'[q] = call[q] /\ at'[q] = at[q]
    BY <1>3
  <2> QED
    BY <2>2, <2>3 DEF CallOK, Valid, Accepted, Roots
<1> QED
  BY <1>1, <1>2, <1>3, <1>4 DEF CallsInv

LEMMA SameThere ==
  ASSUME CallsInv, NEW p \in Procs
  PROVE  call = [call EXCEPT ![p] = call[p]] /\ at = [at EXCEPT ![p] = at[p]]
BY DEF CallsInv

\* A step within a call.
LEMMA MovesWithin ==
  ASSUME CallsInv, NEW p \in Procs, NEW d \in Places, config' = config, service' = service, call' = call, at' = at,
         doing' = [doing EXCEPT ![p] = d]
  PROVE  /\ doing'[p] = d /\ call'[p] = call[p] /\ at'[p] = at[p]
         /\ \A q \in Procs \ {p} : doing'[q] = doing[q] /\ call'[q] = call[q] /\ at'[q] = at[q]
         /\ CallOK(p)' => CallsInv'
<1>1. UNCHANGED <<config, service>>
  OBVIOUS
<1>2. \A c, n : n \in Nat /\ call' = [call EXCEPT ![p] = c] /\ at' = [at EXCEPT ![p] = n] =>
        /\ doing'[p] = d /\ call'[p] = c /\ at'[p] = n
        /\ \A q \in Procs \ {p} : doing'[q] = doing[q] /\ call'[q] = call[q] /\ at'[q] = at[q]
        /\ CallOK(p)' => CallsInv'
  BY <1>1, OthersKeep
<1>3. call' = [call EXCEPT ![p] = call[p]] /\ at' = [at EXCEPT ![p] = at[p]] /\ at[p] \in Nat
  BY SameThere DEF CallsInv
<1> QED
  BY <1>2, <1>3

\* What is past the last item is over, else at the next one.
LEMMA GoesOn ==
  ASSUME CallsInv, NEW p \in Procs, UNCHANGED <<config, service>>, doing[p] \in {"audit", "open"}, NextItem(p)
  PROVE  /\ CallsInv'
         /\ \A q \in Procs \ {p} : doing'[q] = doing[q] /\ call'[q] = call[q] /\ at'[q] = at[q]
         /\ \/ doing'[p] = "item" /\ call'[p] = call[p] /\ at'[p] = at[p] + 1
            \/ doing'[p] = "idle" /\ call'[p] = None /\ at[p] = Len(call[p].items)
<1>1. CallOK(p) /\ doing[p] \notin {"idle", "dead"}
  BY DEF CallsInv
<1>2. call[p] \in CallsOf(p) /\ Valid(call[p]) /\ Len(call[p].items) \in Nat /\ at[p] \in 1 .. Len(call[p].items)
  BY <1>1, ItemFacts DEF CallOK
<1>3. CASE at[p] < Len(call[p].items)
  <2>1. /\ doing' = [doing EXCEPT ![p] = "item"] /\ at' = [at EXCEPT ![p] = at[p] + 1]
        /\ call' = [call EXCEPT ![p] = call[p]]
    BY <1>3, SameThere DEF NextItem, Does
  <2>2. at[p] + 1 \in Nat /\ at[p] + 1 \in 1 .. Len(call[p].items) /\ "item" \in Places
    BY <1>2, <1>3 DEF Places
  <2>3. /\ doing'[p] = "item" /\ call'[p] = call[p] /\ at'[p] = at[p] + 1
        /\ \A q \in Procs \ {p} : doing'[q] = doing[q] /\ call'[q] = call[q] /\ at'[q] = at[q]
        /\ CallOK(p)' => CallsInv'
    BY <2>1, <2>2, OthersKeep
  <2>4. CallOK(p)'
    BY <1>2, <2>2, <2>3 DEF CallOK, Valid, Accepted, Roots
  <2> QED
    BY <2>3, <2>4
<1>4. CASE ~(at[p] < Len(call[p].items))
  <2>1. /\ doing' = [doing EXCEPT ![p] = "idle"] /\ at' = [at EXCEPT ![p] = 0]
        /\ call' = [call EXCEPT ![p] = None]
    BY <1>4 DEF NextItem, Done, Does
  <2>2. at[p] = Len(call[p].items) /\ "idle" \in Places
    BY <1>2, <1>4 DEF Places
  <2>3. /\ doing'[p] = "idle" /\ call'[p] = None /\ at'[p] = 0
        /\ \A q \in Procs \ {p} : doing'[q] = doing[q] /\ call'[q] = call[q] /\ at'[q] = at[q]
        /\ CallOK(p)' => CallsInv'
    BY <2>1, <2>2, OthersKeep
  <2> QED
    BY <2>2, <2>3 DEF CallOK
<1> QED
  BY <1>3, <1>4

\* The coder's call is as far as it was, or it has just begun.
CoderSame ==
  doing'[Coder] \in {"item", "tmp", "audit"} /\ call'[Coder].kind = "source" =>
    \/ /\ doing[Coder] \in {"item", "tmp", "audit"} /\ (doing[Coder] = "audit" <=> doing'[Coder] = "audit")
       /\ call'[Coder] = call[Coder] /\ at'[Coder] = at[Coder]
    \/ doing'[Coder] = "item" /\ at'[Coder] = 1

\* What the coder's call has put in place stays there while the source does.
LEMMA StaysInPlace ==
  ASSUME CallsInv, PutInPlace, \A f \in Source : tree'[f] = tree[f], CoderSame
  PROVE  PutInPlace'
<1> SUFFICES ASSUME doing'[Coder] \in {"item", "tmp", "audit"}, call'[Coder].kind = "source"
             PROVE  Holds(tree', call'[Coder].items, IF doing'[Coder] = "audit" THEN at'[Coder] ELSE at'[Coder] - 1)
  BY DEF PutInPlace
<1>1. CASE doing'[Coder] = "item" /\ at'[Coder] = 1
  BY <1>1 DEF Holds
<1>2. CASE ~(doing'[Coder] = "item" /\ at'[Coder] = 1)
  <2> DEFINE items == call[Coder].items
             n == IF doing[Coder] = "audit" THEN at[Coder] ELSE at[Coder] - 1
  <2>1. /\ doing[Coder] \in {"item", "tmp", "audit"} /\ (doing[Coder] = "audit" <=> doing'[Coder] = "audit")
        /\ call'[Coder] = call[Coder] /\ at'[Coder] = at[Coder]
    BY <1>2 DEF CoderSame
  <2>2. Holds(tree, items, n) /\ n = IF doing'[Coder] = "audit" THEN at'[Coder] ELSE at'[Coder] - 1
    BY <2>1 DEF PutInPlace
  <2>3. Coder \in Procs /\ CallOK(Coder)
    BY WritesAssumption DEF CallsInv
  <2>4. Valid(call[Coder]) /\ at[Coder] \in 1 .. Len(items) /\ call[Coder].kind = "source" /\ Len(items) \in Nat
    BY <2>1, <2>3, ItemFacts DEF CallOK
  <2>5. \A i \in 1 .. Len(items) : items[i].path \in Source
    BY <2>4, RootsAre, WritesAssumption DEF Valid, Accepted, CallsInv
  <2>6. \A i \in 1 .. n : i \in 1 .. Len(items)
    BY <2>4
  <2> HIDE DEF items, n
  <2>7. Holds(tree', items, n)
    BY <2>2, <2>5, <2>6 DEF Holds
  <2> QED
    BY <2>1, <2>2, <2>7 DEF items
<1> QED
  BY <1>1, <1>2

\* What is under way was accepted.
LEMMA AcceptedStill ==
  ASSUME CallsInv', UNCHANGED service
  PROVE  \A p \in Procs : call'[p] # None => \A i \in 1 .. Len(call'[p].items) : Accepted(call'[p], call'[p].items[i])
<1> SUFFICES ASSUME NEW p \in Procs, call'[p] # None
             PROVE  \A i \in 1 .. Len(call'[p].items) : Accepted(call'[p], call'[p].items[i])
  OBVIOUS
<1>1. CallOK(p)'
  BY DEF CallsInv
<1>2. Valid(call[p])'
  BY <1>1 DEF CallOK
<1> QED
  BY <1>2 DEF Valid, Accepted, Roots

\* A step that leaves source and audit log alone.
LEMMA SourceKept ==
  ASSUME WriteInv, CallsInv', UNCHANGED service, \A f \in Source : tree'[f] = tree[f], audited' = audited,
         unaudited \subseteq unaudited', CoderSame,
         doing[Coder] = "audit" =>
           \/ doing'[Coder] = "audit" /\ call'[Coder] = call[Coder] /\ at'[Coder] = at[Coder]
           \/ doing'[Coder] # "idle" /\ Item(Coder).path \in unaudited'
  PROVE  PutInPlace' /\ AuditAccounts' /\ LandedStep
<1>1. PutInPlace'
  BY StaysInPlace DEF WriteInv
<1>2. AuditAccounts'
  <2>1. SUFFICES ASSUME NEW f \in Source
        PROVE  \/ audited'[f] = tree'[f] \/ f \in unaudited'
               \/ doing'[Coder] = "audit" /\ call'[Coder].items[at'[Coder]].path = f
    BY DEF AuditAccounts, Item
  <2>2. \/ audited[f] = tree[f] \/ f \in unaudited
        \/ doing[Coder] = "audit" /\ call[Coder].items[at[Coder]].path = f
    BY DEF WriteInv, AuditAccounts, Item
  <2> QED
    BY <2>2 DEF Item
<1>3. LandedStep
  BY AcceptedStill DEF LandedStep
<1> QED
  BY <1>1, <1>2, <1>3

LEMMA WritesBegin == ASSUME WritesInit PROVE WriteInv
<1>1. CallsInv
  BY DEF WritesInit, CallsInv, CallOK, Places
<1>2. FilesInv
  BY WritesAssumption DEF WritesInit, FilesInv, Files
<1>3. Coder \in Procs /\ Source \subseteq Files /\ StatusFile \notin Source
  BY WritesAssumption DEF Files
<1>4. PutInPlace /\ AuditAccounts
  BY <1>3 DEF WritesInit, PutInPlace, AuditAccounts
<1> QED
  BY <1>1, <1>2, <1>4 DEF WriteInv

LEMMA RefuseKeeps ==
  ASSUME WriteInv, NEW p \in Procs, NEW c, Refuse(p, c), UNCHANGED <<config, service>>
  PROVE  WriteInv' /\ LandedStep
<1>1. CallsInv'
  BY DEF WriteInv, CallsInv, CallOK, Valid, Accepted, Roots, Refuse
<1>2. PutInPlace' /\ AuditAccounts' /\ LandedStep
  BY <1>1, SourceKept DEF Refuse, CoderSame
<1>3. FilesInv'
  BY DEF WriteInv, FilesInv, Refuse
<1> QED
  BY <1>1, <1>2, <1>3 DEF WriteInv

LEMMA BeginKeeps ==
  ASSUME WriteInv, NEW p \in Procs, NEW c \in CallsOf(p), Begin(p, c), UNCHANGED <<config, service>>
  PROVE  WriteInv' /\ LandedStep
<1>1. /\ doing' = [doing EXCEPT ![p] = "item"] /\ call' = [call EXCEPT ![p] = c] /\ at' = [at EXCEPT ![p] = 1]
      /\ "item" \in Places /\ doing[p] = "idle" /\ Valid(c) /\ CallsInv
  BY DEF Begin, Does, Places, WriteInv
<1>2. /\ doing'[p] = "item" /\ call'[p] = c /\ at'[p] = 1
      /\ \A q \in Procs \ {p} : doing'[q] = doing[q] /\ call'[q] = call[q] /\ at'[q] = at[q]
      /\ CallOK(p)' => CallsInv'
  BY <1>1, OthersKeep
<1>3. c.items \in Seq([path : Files, body : Bodies \cup Statuses \cup {Secret}]) /\ c.items # <<>>
  BY WritesAssumption DEF CallsOf
<1>4. 1 \in 1 .. Len(c.items)
  BY <1>3, EmptySeq, LenProperties
<1>5. CallsInv'
  BY <1>1, <1>2, <1>4 DEF CallOK, Valid, Accepted, Roots
<1>6. CoderSame
  BY <1>1, <1>2, WritesAssumption DEF CoderSame
<1>7. doing[Coder] = "audit" => doing'[Coder] = "audit" /\ call'[Coder] = call[Coder] /\ at'[Coder] = at[Coder]
  BY <1>1, <1>2, WritesAssumption
<1>8. PutInPlace' /\ AuditAccounts' /\ LandedStep
  BY <1>5, <1>6, <1>7, SourceKept DEF Begin
<1>9. FilesInv'
  BY DEF WriteInv, FilesInv, Begin
<1> QED
  BY <1>5, <1>8, <1>9 DEF WriteInv

\* A call that is over, or a process that died or came back.
LEMMA LeftOff ==
  ASSUME WriteInv, NEW p \in Procs, NEW d \in {"idle", "dead"}, UNCHANGED <<config, service, tree, audited>>,
         unaudited \subseteq unaudited', doing[p] = "audit" => d = "dead" /\ Item(p).path \in unaudited',
         doing' = [doing EXCEPT ![p] = d], call' = [call EXCEPT ![p] = None], NEW n \in Nat, at' = [at EXCEPT ![p] = n]
  PROVE  WriteInv' /\ LandedStep
<1>1. CallsInv /\ d \in Places
  BY DEF WriteInv, Places
<1>2. /\ doing'[p] = d /\ call'[p] = None /\ at'[p] = n
      /\ \A q \in Procs \ {p} : doing'[q] = doing[q] /\ call'[q] = call[q] /\ at'[q] = at[q]
      /\ CallOK(p)' => CallsInv'
  BY <1>1, OthersKeep
<1>3. CallsInv'
  BY <1>2 DEF CallOK
<1>4. CoderSame
  BY <1>2, WritesAssumption DEF CoderSame
<1>5. doing[Coder] = "audit" =>
        \/ doing'[Coder] = "audit" /\ call'[Coder] = call[Coder] /\ at'[Coder] = at[Coder]
        \/ doing'[Coder] # "idle" /\ Item(Coder).path \in unaudited'
  BY <1>2, WritesAssumption
<1>6. PutInPlace' /\ AuditAccounts' /\ LandedStep
  BY <1>3, <1>4, <1>5, SourceKept
<1>7. FilesInv'
  BY DEF WriteInv, FilesInv
<1> QED
  BY <1>3, <1>6, <1>7 DEF WriteInv

LEMMA FailsKeeps ==
  ASSUME WriteInv, NEW p \in Procs, Fails(p), UNCHANGED <<config, service>>
  PROVE  WriteInv' /\ LandedStep
BY LeftOff DEF Fails, Done, Does

LEMMA DiesKeeps ==
  ASSUME WriteInv, NEW p \in Procs, Dies(p), UNCHANGED <<config, service>>
  PROVE  WriteInv' /\ LandedStep
BY LeftOff DEF Dies

LEMMA RestartsKeeps ==
  ASSUME WriteInv, NEW p \in Procs, Restarts(p), UNCHANGED <<config, service>>
  PROVE  WriteInv' /\ LandedStep
<1>1. call[p] = None /\ at[p] \in Nat /\ CallsInv
  BY DEF WriteInv, CallsInv, CallOK, Restarts
<1>2. call' = [call EXCEPT ![p] = None] /\ at' = [at EXCEPT ![p] = at[p]]
  BY <1>1, SameThere DEF Restarts
<1> QED
  BY <1>1, <1>2, LeftOff DEF Restarts, Does

\* A step within a call that leaves the source alone.
LEMMA Within ==
  ASSUME WriteInv, NEW p \in Procs, doing[p] = "item", UNCHANGED <<config, service, call, at, audited, unaudited>>,
         NEW d, doing' = [doing EXCEPT ![p] = d], d = IF call[p].kind = "source" THEN "tmp" ELSE "open",
         \A f \in Source : tree'[f] = tree[f]
  PROVE  CallsInv' /\ PutInPlace' /\ AuditAccounts' /\ LandedStep
<1>1. CallsInv /\ d \in Places
  BY DEF WriteInv, Places
<1>2. CallOK(p)
  BY <1>1 DEF CallsInv
<1>3. /\ doing'[p] = d /\ call'[p] = call[p] /\ at'[p] = at[p]
      /\ \A q \in Procs \ {p} : doing'[q] = doing[q] /\ call'[q] = call[q] /\ at'[q] = at[q]
      /\ CallOK(p)' => CallsInv'
  BY <1>1, MovesWithin
<1>4. CallsInv'
  <2>1. call[p] \in CallsOf(p) /\ Valid(call[p]) /\ at[p] \in 1 .. Len(call[p].items)
    BY <1>2 DEF CallOK
  <2>2. Valid(call[p])' /\ d \in {"tmp", "open"} /\ (d = "tmp" <=> call[p].kind = "source")
    BY <1>3, <2>1 DEF Valid, Accepted, Roots
  <2> QED
    BY <1>3, <2>1, <2>2 DEF CallOK
<1>5. CoderSame
  BY <1>3, WritesAssumption DEF CoderSame
<1>6. doing[Coder] = "audit" => doing'[Coder] = "audit" /\ call'[Coder] = call[Coder] /\ at'[Coder] = at[Coder]
  BY <1>3, WritesAssumption
<1> QED
  BY <1>4, <1>5, <1>6, SourceKept

LEMMA OpenTmpKeeps ==
  ASSUME WriteInv, NEW p \in Procs, OpenTmp(p), UNCHANGED <<config, service>>
  PROVE  WriteInv' /\ LandedStep
<1>1. CallsInv' /\ PutInPlace' /\ AuditAccounts' /\ LandedStep
  BY Within DEF OpenTmp, Does
<1>2. FilesInv'
  BY DEF WriteInv, FilesInv, OpenTmp
<1> QED
  BY <1>1, <1>2 DEF WriteInv

\* What a call that is not about source may do to the files.
LEMMA ElsewhereWritten ==
  ASSUME WriteInv, NEW p \in Procs, doing[p] \notin {"idle", "dead"}, call[p].kind # "source", audited' = audited,
         NEW body \in {Item(p).body, Torn}, tree' = [tree EXCEPT ![Item(p).path] = body]
  PROVE  FilesInv' /\ \A f \in Source : tree'[f] = tree[f]
<1>1. /\ Item(p).path \in Files /\ Item(p).path \notin Source
      /\ Item(p).path = StatusFile => Item(p).body \in Statuses
  BY ItemFacts DEF WriteInv
<1>2. StatusFile \in Files /\ Source \subseteq Files
  BY DEF Files
<1> QED
  BY <1>1, <1>2 DEF WriteInv, FilesInv

LEMMA OpenInPlaceKeeps ==
  ASSUME WriteInv, NEW p \in Procs, OpenInPlace(p), UNCHANGED <<config, service>>
  PROVE  WriteInv' /\ LandedStep
<1>1. FilesInv' /\ \A f \in Source : tree'[f] = tree[f]
  BY ElsewhereWritten DEF OpenInPlace
<1>2. CallsInv' /\ PutInPlace' /\ AuditAccounts' /\ LandedStep
  BY <1>1, Within DEF OpenInPlace, Does
<1> QED
  BY <1>1, <1>2 DEF WriteInv

LEMMA FillInPlaceKeeps ==
  ASSUME WriteInv, NEW p \in Procs, FillInPlace(p), UNCHANGED <<config, service>>
  PROVE  WriteInv' /\ LandedStep
<1>1. CallsInv /\ CallOK(p) /\ doing[p] = "open" /\ call[p].kind # "source"
  BY DEF WriteInv, CallsInv, CallOK, FillInPlace
<1>2. FilesInv' /\ \A f \in Source : tree'[f] = tree[f]
  BY <1>1, ElsewhereWritten DEF FillInPlace
<1>3. /\ CallsInv'
      /\ \A q \in Procs \ {p} : doing'[q] = doing[q] /\ call'[q] = call[q] /\ at'[q] = at[q]
      /\ \/ doing'[p] = "item" /\ call'[p] = call[p] /\ at'[p] = at[p] + 1
         \/ doing'[p] = "idle" /\ call'[p] = None /\ at[p] = Len(call[p].items)
  BY <1>1, GoesOn DEF FillInPlace
<1>4. CoderSame
  BY <1>1, <1>3, WritesAssumption DEF CoderSame
<1>5. doing[Coder] = "audit" => doing'[Coder] = "audit" /\ call'[Coder] = call[Coder] /\ at'[Coder] = at[Coder]
  BY <1>1, <1>3, WritesAssumption
<1>6. PutInPlace' /\ AuditAccounts' /\ LandedStep
  BY <1>2, <1>3, <1>4, <1>5, SourceKept DEF FillInPlace
<1> QED
  BY <1>2, <1>3, <1>6 DEF WriteInv

LEMMA ReplaceKeeps ==
  ASSUME WriteInv, NEW p \in Procs, Replace(p), UNCHANGED <<config, service>>
  PROVE  WriteInv' /\ LandedStep
<1> DEFINE items == call[p].items
           n == at[p]
           target == Item(p).path
<1>1. CallsInv /\ CallOK(p) /\ doing[p] = "tmp"
  BY DEF WriteInv, CallsInv, Replace
<1>2. call[p] \in CallsOf(p) /\ Valid(call[p]) /\ call[p].kind = "source"
  BY <1>1 DEF CallOK
<1>3. /\ p = Coder /\ target \in service \cap Source /\ Item(p).body \in Bodies /\ n \in 1 .. Len(items) /\ Len(items) \in Nat
      /\ target \in Files /\ target # StatusFile
  BY <1>1, <1>2, ItemFacts, WritesAssumption
<1>4. /\ tree' = [tree EXCEPT ![target] = Item(p).body] /\ UNCHANGED <<audited, unaudited, call, at>>
      /\ doing' = [doing EXCEPT ![p] = "audit"] /\ config' = config /\ service' = service
  BY DEF Replace, Does
<1>5. call' = [call EXCEPT ![p] = call[p]] /\ at' = [at EXCEPT ![p] = at[p]] /\ "audit" \in Places /\ at[p] \in Nat
  BY <1>1, <1>4, SameThere DEF CallsInv, Places
<1>6. /\ doing'[p] = "audit" /\ call'[p] = call[p] /\ at'[p] = at[p]
      /\ CallOK(p)' => CallsInv'
  BY <1>1, <1>4, <1>5, MovesWithin
<1>7. CallsInv'
  <2>1. Valid(call[p])'
    BY <1>2, <1>4 DEF Valid, Accepted, Roots
  <2> QED
    BY <1>2, <1>3, <1>6, <2>1 DEF CallOK
<1>8. tree = [f \in Files |-> tree[f]] /\ Source \subseteq Files
  BY DEF WriteInv, FilesInv, Files
<1>9. tree'[target] = Item(p).body /\ \A f \in Files \ {target} : tree'[f] = tree[f]
  BY <1>3, <1>4, <1>8
<1>10. FilesInv'
  BY <1>3, <1>4, <1>9 DEF WriteInv, FilesInv, Files
<1>11. AuditAccounts'
  <2>1. Item(Coder)' = Item(Coder)
    BY <1>4 DEF Item
  <2> QED
    BY <1>1, <1>3, <1>4, <1>6, <1>8, <1>9, <2>1 DEF WriteInv, AuditAccounts
<1>12. PutInPlace'
  <2>1. Holds(tree, items, n - 1)
    BY <1>1, <1>2, <1>3 DEF WriteInv, PutInPlace
  <2>2. \A i \in 1 .. n - 1 : i \in 1 .. n /\ i \in 1 .. Len(items) /\ n \in i + 1 .. n
    BY <1>3
  <2>3. \A i \in 1 .. n : i = n \/ i \in 1 .. n - 1
    BY <1>3
  <2>4. \A i \in 1 .. Len(items) : items[i].path \in Files
    <3>1. \A i \in 1 .. Len(items) : items[i].path \in service
      BY <1>2, RootsAre DEF Valid, Accepted
    <3> QED
      BY <1>1, <3>1, WritesAssumption DEF CallsInv, Files
  <2>5. items[n] = Item(p)
    BY DEF Item
  <2>6. \A i \in 1 .. n - 1 : \A j \in i + 1 .. n - 1 : j \in i + 1 .. n
    BY <1>3
  <2> HIDE DEF items, n, target
  <2>7. Holds(tree', items, n)
    <3>1. SUFFICES ASSUME NEW i \in 1 .. n
                   PROVE  tree'[items[i].path] = items[i].body \/ \E j \in i + 1 .. n : items[j].path = items[i].path
      BY DEF Holds
    <3>2. CASE i = n
      BY <1>9, <2>5, <3>2 DEF target
    <3>3. CASE i # n
      <4>1. i \in 1 .. n - 1 /\ i \in 1 .. Len(items) /\ n \in i + 1 .. n
        BY <2>2, <2>3, <3>3
      <4>2. tree[items[i].path] = items[i].body \/ \E j \in i + 1 .. n - 1 : items[j].path = items[i].path
        BY <2>1, <4>1 DEF Holds
      <4> QED
        BY <1>9, <2>4, <2>5, <2>6, <4>1, <4>2 DEF target
    <3> QED
      BY <3>2, <3>3
  <2> QED
    BY <1>3, <1>6, <2>7 DEF PutInPlace, items, n
<1>13. LandedStep
  <2>1. ASSUME NEW f \in Source, tree'[f] # tree[f] PROVE tree'[f] \in Bodies /\ Admitted(f)
    <3>1. f = target
      BY <1>8, <1>9, <2>1
    <3>2. service = Writable(config) /\ config \in Configs
      BY <1>1 DEF CallsInv
    <3> QED
      BY <1>3, <1>9, <3>1, <3>2, WritableIsAdmitted
  <2> QED
    BY <1>1, <1>3, <1>4, <1>7, <2>1, AcceptedStill DEF LandedStep
<1> QED
  BY <1>7, <1>10, <1>11, <1>12, <1>13 DEF WriteInv

LEMMA AuditKeeps ==
  ASSUME WriteInv, NEW p \in Procs, Audit(p), UNCHANGED <<config, service>>
  PROVE  WriteInv' /\ LandedStep
<1> DEFINE items == call[p].items
           n == at[p]
           target == Item(p).path
<1>1. CallsInv /\ CallOK(p) /\ doing[p] = "audit"
  BY DEF WriteInv, CallsInv, Audit
<1>2. call[p] \in CallsOf(p) /\ Valid(call[p]) /\ call[p].kind = "source"
  BY <1>1 DEF CallOK
<1>3. /\ p = Coder /\ target \in service \cap Source /\ n \in 1 .. Len(items) /\ Len(items) \in Nat
      /\ target \in Files
  BY <1>1, <1>2, ItemFacts
<1>4. Holds(tree, items, n) /\ items[n] = Item(p)
  BY <1>1, <1>2, <1>3 DEF WriteInv, PutInPlace, Item
<1>5. tree[target] = Item(p).body
  BY <1>3, <1>4 DEF Holds
<1>6. tree' = tree /\ NextItem(p)
  BY DEF Audit
<1>7. /\ CallsInv'
      /\ \/ doing'[p] = "item" /\ call'[p] = call[p] /\ at'[p] = at[p] + 1
         \/ doing'[p] = "idle" /\ call'[p] = None /\ n = Len(items)
  BY <1>1, <1>6, GoesOn
<1>8. FilesInv'
  BY <1>6 DEF WriteInv, FilesInv, Audit
<1>9. AuditAccounts'
  <2>1. SUFFICES ASSUME NEW f \in Source PROVE audited'[f] = tree'[f] \/ f \in unaudited'
    BY DEF AuditAccounts
  <2>2. f \in Files /\ audited = [g \in Files |-> audited[g]]
    BY DEF WriteInv, FilesInv, Files
  <2>3. audited[f] = tree[f] \/ f \in unaudited \/ f = target
    BY <1>3 DEF WriteInv, AuditAccounts
  <2> QED
    BY <1>3, <1>5, <1>6, <2>2, <2>3 DEF Audit
<1>10. PutInPlace'
  <2>1. at[p] + 1 - 1 = n
    BY <1>3
  <2> QED
    BY <1>3, <1>4, <1>6, <1>7, <2>1 DEF PutInPlace
<1>11. LandedStep
  <2>1. doing'[Coder] = "idle" => Holds(tree', call[Coder].items, Len(call[Coder].items))
    BY <1>3, <1>4, <1>6, <1>7
  <2> QED
    BY <1>6, <1>7, <2>1, AcceptedStill DEF LandedStep, Holds
<1> QED
  BY <1>7, <1>8, <1>9, <1>10, <1>11 DEF WriteInv

\* A request changes the rows of one key at most, and removes none.
KeepsKeys == \A n \in 1 .. Len(table) : n \in 1 .. Len(table') /\ table'[n].key = table[n].key

LEMMA SyncsBegin == ASSUME SyncInit PROVE SyncInv
<1>1. table \in Seq(TableRow)
  BY EmptySeq DEF SyncInit
<1>2. stage \in [Syncs -> Stages] /\ seen = [s \in Syncs |-> seen[s]] /\ row \in [Syncs -> Nat] /\ found = [s \in Syncs |-> found[s]]
  BY DEF SyncInit, Stages
<1>3. Running = {} /\ failed = {} /\ crowded = {}
  BY DEF SyncInit, Running
<1>4. \A s \in Syncs : stage[s] = "new" /\ row[s] = 0
  BY DEF SyncInit
<1> QED
  BY <1>1, <1>2, <1>3, <1>4 DEF SyncInv, SyncOK

\* A step of s leaves t as it was.
LEMMA OthersStay ==
  ASSUME SyncInv, NEW t \in Syncs, KeepsKeys,
         stage'[t] = stage[t], seen'[t] = seen[t], row'[t] = row[t], found'[t] = found[t],
         \A u \in Running' : t \in Running /\ t # u => t \in crowded',
         t \in Running => t \in crowded' \/ (table' = table /\ t \notin crowded /\ (t \in failed <=> t \in failed'))
  PROVE  SyncOK(t)'
<1>1. SyncOK(t) /\ (t \in Running' <=> t \in Running) /\ This(t)' = This(t)
  BY DEF SyncInv, Running, This
<1>2. /\ t \in Running' => IsRead(seen'[t])
      /\ stage'[t] \in {"new", "schema"} => row'[t] = 0
      /\ stage'[t] \in {"search", "put"} => row'[t] \in 1 .. Len(RowsOf(seen'[t]))
  BY <1>1 DEF SyncOK
<1>3. stage'[t] = "put" /\ found'[t] # None => found'[t] \in 1 .. Len(table') /\ table'[found'[t]].key = This(t)'.key
  BY <1>1 DEF SyncOK, KeepsKeys
<1>4. \A u \in Running' : t \in Running' /\ t # u => t \in crowded'
  BY <1>1
<1>5. t \in Running' \ crowded' =>
        /\ stage'[t] = "put" /\ found'[t] = None => Holding(This(t).key)' = {}
        /\ t \notin failed' => \A n \in 1 .. row'[t] - 1 : FollowsRow(table', RowsOf(seen'[t])[n])
  <2>1. SUFFICES ASSUME t \in Running' \ crowded'
                 PROVE  /\ stage'[t] = "put" /\ found'[t] = None => Holding(This(t).key)' = {}
                        /\ t \notin failed' => \A n \in 1 .. row'[t] - 1 : FollowsRow(table', RowsOf(seen'[t])[n])
    OBVIOUS
  <2>2. t \in Running \ crowded /\ table' = table /\ (t \in failed <=> t \in failed')
    BY <1>1, <2>1
  <2>3. Holding(This(t).key)' = Holding(This(t).key)
    BY <1>1, <2>2 DEF Holding
  <2> QED
    BY <1>1, <2>2, <2>3 DEF SyncOK
<1> QED
  BY <1>2, <1>3, <1>4, <1>5 DEF SyncOK

\* The rows said of s that the table says what they say.
Passed(s, n) == \A m \in 1 .. n : FollowsRow(table', RowsOf(seen[s])[m])

LEMMA OkIsMeant ==
  ASSUME NEW s \in Syncs, IsRead(seen[s]), table' \in Seq(TableRow), Passed(s, Len(RowsOf(seen[s]))),
         NEW k \in {seen[s].entries[i].key : i \in 1 .. Len(seen[s].entries)},
         Said(seen[s].entries, k).module \in Filter(seen[s].wanted)
  PROVE  LET e == Said(seen[s].entries, k)
         IN  \E i \in Holding(k)' : /\ table'[i].status = e.status
                                   /\ table'[i].title = seen[s].titles[k]
                                   /\ table'[i].module \in {e.module} \cup (IF e.module = None THEN Modules ELSE {})
<1> DEFINE e == Said(seen[s].entries, k)
           rows == RowsOf(seen[s])
<1>1. PICK q \in 1 .. Len(seen[s].entries) : k = seen[s].entries[q].key
  OBVIOUS
<1>2. PICK j \in 1 .. Len(rows) : rows[j] = Record(e, seen[s].titles) /\ e.key = k
  BY <1>1, RowsSay
<1>3. PICK i : /\ i \in 1 .. Len(table') /\ table'[i].key = rows[j].key /\ table'[i].status = rows[j].status /\ table'[i].title = rows[j].title
               /\ rows[j].module # None => table'[i].module = rows[j].module
  BY <1>2 DEF Passed, FollowsRow
<1>4. rows[j].key = k /\ rows[j].status = e.status /\ rows[j].title = seen[s].titles[k] /\ rows[j].module = e.module
  BY <1>2 DEF Record
<1>5. table'[i].module \in Modules \cup {None}
  <2>1. table' \in Seq(TableRow) /\ i \in 1 .. Len(table')
    BY <1>3
  <2>2. table'[i] \in TableRow
    BY <2>1, ElementOfSeq
  <2> QED
    BY <2>2 DEF TableRow
<1>6. i \in Holding(k)'
  BY <1>3, <1>4 DEF Holding
<1> QED
  BY <1>3, <1>4, <1>5, <1>6

\* A sync ends; if well, the table says what all of its rows say.
LEMMA OverKeeps ==
  ASSUME SyncInv, NEW s \in Syncs, NEW ok \in BOOLEAN, Over(s, ok), table' \in Seq(TableRow), KeepsKeys,
         s \in Running \/ table' = table,
         ok /\ s \notin crowded => s \in Running /\ Passed(s, Len(RowsOf(seen[s])))
  PROVE  SyncInv' /\ OkIsTrue
<1>1. /\ stage \in [Syncs -> Stages] /\ seen = [t \in Syncs |-> seen[t]] /\ row \in [Syncs -> Nat]
      /\ found = [t \in Syncs |-> found[t]] /\ failed \subseteq Running /\ crowded \subseteq Running
  BY DEF SyncInv
<1>2. /\ stage' \in [Syncs -> Stages] /\ seen' = [t \in Syncs |-> seen'[t]] /\ row' \in [Syncs -> Nat] /\ found' = [t \in Syncs |-> found'[t]]
      /\ stage'[s] = IF ok THEN "ok" ELSE "failed"
      /\ \A t \in Syncs \ {s} : stage'[t] = stage[t] /\ seen'[t] = seen[t] /\ row'[t] = row[t] /\ found'[t] = found[t]
  BY <1>1 DEF Over, Stages
<1>3. Running' = Running \ {s} /\ failed' = failed \ {s} /\ crowded' = crowded \ {s}
  BY <1>2 DEF Running, Over
<1>4. ASSUME NEW t \in Syncs \ {s} PROVE SyncOK(t)'
  <2>1. \A u \in Running : t \in Running /\ t # u => t \in crowded
    BY DEF SyncInv, SyncOK
  <2>2. t \in Running => t \in crowded' \/ (table' = table /\ t \notin crowded /\ (t \in failed <=> t \in failed'))
    BY <1>3, <2>1
  <2>3. \A u \in Running' : t \in Running /\ t # u => t \in crowded'
    BY <1>3, <2>1
  <2> QED
    BY <1>2, <2>2, <2>3, OthersStay
<1>5. SyncOK(s)'
  BY <1>2, <1>3 DEF SyncOK
<1>6. OkIsTrue
  <2>1. SUFFICES ASSUME NEW t \in Syncs, stage'[t] = "ok", stage[t] # "ok", t \notin crowded,
                        NEW k \in {seen[t].entries[i].key : i \in 1 .. Len(seen[t].entries)},
                        Said(seen[t].entries, k).module \in Filter(seen[t].wanted)
        PROVE  LET e == Said(seen[t].entries, k)
               IN  \E i \in Holding(k)' : /\ table'[i].status = e.status
                                         /\ table'[i].title = seen[t].titles[k]
                                         /\ table'[i].module \in {e.module} \cup (IF e.module = None THEN Modules ELSE {})
    BY DEF OkIsTrue
  <2>2. t = s /\ ok
    BY <1>2, <2>1
  <2>3. IsRead(seen[s]) /\ Passed(s, Len(RowsOf(seen[s])))
    BY <2>1, <2>2 DEF SyncInv, SyncOK
  <2> QED
    BY <2>1, <2>2, <2>3, OkIsMeant
<1> QED
  BY <1>1, <1>2, <1>3, <1>4, <1>5, <1>6 DEF SyncInv

LEMMA TableKept ==
  ASSUME SyncInv, table' = table PROVE KeepsKeys /\ table' \in Seq(TableRow) /\ OneRowEach
<1>1. table \in Seq(TableRow) /\ Len(table) \in Nat
  BY LenProperties DEF SyncInv
<1>2. \A k \in Keys : \A i, j \in Holding(k)' : ~(j > Len(table))
  BY <1>1 DEF Holding
<1> QED
  BY <1>1, <1>2 DEF KeepsKeys, OneRowEach

\* A sync goes on to its next row, or is over, when the table says what the rows it is
\* past say, unless a request raised.
LEMMA NextRowKeeps ==
  ASSUME SyncInv, NEW s \in Running, NEW raised \in BOOLEAN, NextRow(s, raised), table' \in Seq(TableRow), KeepsKeys,
         ~raised /\ s \notin failed /\ s \notin crowded => Passed(s, row[s])
  PROVE  SyncInv' /\ OkIsTrue
<1> DEFINE rows == RowsOf(seen[s])
<1>1. s \in Syncs /\ SyncOK(s) /\ IsRead(seen[s]) /\ stage[s] \in {"schema", "search", "put"}
  BY DEF Running, SyncInv, SyncOK
<1>2. row[s] \in 0 .. Len(rows) /\ Len(rows) \in Nat
  <2>1. Len(rows) \in Nat
    BY <1>1, RowsSay, LenProperties
  <2> QED
    BY <1>1, <2>1 DEF SyncOK
<1>3. CASE row[s] < Len(rows)
  <2>1. /\ row' = [row EXCEPT ![s] = row[s] + 1] /\ found' = [found EXCEPT ![s] = None]
        /\ stage' = [stage EXCEPT ![s] = "search"]
        /\ failed' = IF raised THEN failed \cup {s} ELSE failed
        /\ seen' = seen /\ crowded' = crowded
    BY <1>3 DEF NextRow
  <2>2. /\ stage \in [Syncs -> Stages] /\ seen = [t \in Syncs |-> seen[t]] /\ row \in [Syncs -> Nat]
        /\ found = [t \in Syncs |-> found[t]] /\ failed \subseteq Running /\ crowded \subseteq Running
    BY DEF SyncInv
  <2>3. /\ stage' \in [Syncs -> Stages] /\ seen' = [t \in Syncs |-> seen'[t]] /\ row' \in [Syncs -> Nat] /\ found' = [t \in Syncs |-> found'[t]]
        /\ stage'[s] = "search" /\ row'[s] = row[s] + 1 /\ found'[s] = None /\ seen'[s] = seen[s]
        /\ \A t \in Syncs \ {s} : stage'[t] = stage[t] /\ seen'[t] = seen[t] /\ row'[t] = row[t] /\ found'[t] = found[t]
    <3>1. row[s] + 1 \in Nat /\ "search" \in Stages
      BY <1>1, <2>2 DEF Stages
    <3>2. stage' \in [Syncs -> Stages] /\ seen' = [t \in Syncs |-> seen'[t]] /\ row' \in [Syncs -> Nat] /\ found' = [t \in Syncs |-> found'[t]]
      BY <1>1, <2>1, <2>2, <3>1
    <3> QED
      BY <1>1, <2>1, <2>2, <3>2
  <2>4. Running' = Running
    BY <1>1, <2>3 DEF Running
  <2>5. failed' \subseteq Running' /\ crowded' \subseteq Running'
    BY <2>1, <2>2, <2>4
  <2>6. ASSUME NEW t \in Syncs \ {s} PROVE SyncOK(t)'
    <3>1. \A u \in Running : t \in Running /\ t # u => t \in crowded
      BY DEF SyncInv, SyncOK
    <3> QED
      BY <2>1, <2>3, <2>4, <3>1, OthersStay
  <2>7. SyncOK(s)'
    <3>1. s \in Running' => IsRead(seen'[s])
      BY <1>1, <2>3
    <3>2. stage'[s] \in {"search", "put"} => row'[s] \in 1 .. Len(RowsOf(seen'[s]))
      BY <1>2, <1>3, <2>3
    <3>3. \A t \in Running' : s \in Running' /\ s # t => s \in crowded'
      BY <1>1, <2>1, <2>4 DEF SyncOK
    <3>4. s \in Running' \ crowded' /\ s \notin failed' => \A n \in 1 .. row'[s] - 1 : FollowsRow(table', RowsOf(seen'[s])[n])
      <4>1. SUFFICES ASSUME s \notin crowded, s \notin failed, ~raised PROVE \A n \in 1 .. row'[s] - 1 : FollowsRow(table', rows[n])
        BY <2>1, <2>3
      <4>2. Passed(s, row[s]) /\ row'[s] - 1 = row[s]
        BY <1>2, <2>3, <4>1
      <4> QED
        BY <4>2 DEF Passed
    <3> QED
      BY <2>3, <3>1, <3>2, <3>3, <3>4 DEF SyncOK
  <2>8. OkIsTrue
    BY <2>3 DEF OkIsTrue
  <2> QED
    BY <2>3, <2>5, <2>6, <2>7, <2>8 DEF SyncInv
<1>4. CASE ~(row[s] < Len(rows))
  <2>1. Over(s, ~raised /\ s \notin failed) /\ row[s] = Len(rows)
    BY <1>2, <1>4 DEF NextRow
  <2>2. (~raised /\ s \notin failed) \in BOOLEAN
    OBVIOUS
  <2> HIDE DEF rows
  <2> QED
    BY <1>1, <2>1, <2>2, OverKeeps DEF rows
<1> QED
  BY <1>3, <1>4

LEMMA ReadKeeps ==
  ASSUME SyncInv, NEW s \in Syncs, NEW entries \in Seq(Leaf), NEW wanted, NEW titles \in [Keys -> Bodies \cup {None}],
         Read(s, entries, wanted, titles)
  PROVE  SyncInv' /\ OkIsTrue /\ OneRowEach
<1> DEFINE got == [entries |-> entries, wanted |-> wanted, titles |-> titles]
<1>1. /\ stage \in [Syncs -> Stages] /\ seen = [t \in Syncs |-> seen[t]] /\ row \in [Syncs -> Nat]
      /\ found = [t \in Syncs |-> found[t]] /\ failed \subseteq Running /\ crowded \subseteq Running
  BY DEF SyncInv
<1>2. /\ stage[s] = "new" /\ table' = table /\ row' = row /\ found' = found /\ failed' = failed
      /\ stage' = [stage EXCEPT ![s] = "schema"] /\ seen' = [seen EXCEPT ![s] = got]
      /\ crowded' = IF Running = {} THEN crowded ELSE crowded \cup Running \cup {s}
  BY DEF Read
<1>3. IsRead(got)
  BY DEF IsRead
<1> HIDE DEF got
<1>4. /\ stage' \in [Syncs -> Stages] /\ seen' = [t \in Syncs |-> seen'[t]] /\ row' \in [Syncs -> Nat] /\ found' = [t \in Syncs |-> found'[t]]
      /\ stage'[s] = "schema" /\ seen'[s] = got
      /\ \A t \in Syncs \ {s} : stage'[t] = stage[t] /\ seen'[t] = seen[t]
  BY <1>1, <1>2 DEF Stages
<1>5. Running' = Running \cup {s} /\ s \notin Running
  BY <1>2, <1>4 DEF Running
<1>6. crowded' \subseteq Running' /\ failed' \subseteq Running' /\ crowded \subseteq crowded'
  BY <1>1, <1>2, <1>5
<1>7. ASSUME NEW t \in Syncs \ {s} PROVE SyncOK(t)'
  <2>1. \A u \in Running' : t \in Running /\ t # u => t \in crowded'
    BY <1>2
  <2>2. t \in Running => t \in crowded'
    BY <1>2
  <2>3. row'[t] = row[t] /\ found'[t] = found[t]
    BY <1>2
  <2> QED
    BY <1>2, <1>4, <2>1, <2>2, <2>3, TableKept, OthersStay
<1>8. SyncOK(s)'
  <2>1. row'[s] = 0
    BY <1>2 DEF SyncInv, SyncOK
  <2>2. \A t \in Running' : s # t => s \in crowded'
    BY <1>2, <1>5
  <2>3. \A n \in 1 .. row'[s] - 1 : FALSE
    BY <2>1
  <2> QED
    BY <1>3, <1>4, <2>1, <2>2, <2>3 DEF SyncOK
<1>9. OkIsTrue
  BY <1>4 DEF OkIsTrue
<1> QED
  BY <1>2, <1>4, <1>6, <1>7, <1>8, <1>9, TableKept DEF SyncInv

LEMMA SyncFailsKeeps ==
  ASSUME SyncInv, NEW s \in Syncs, SyncFails(s) PROVE SyncInv' /\ OkIsTrue /\ OneRowEach
BY TableKept, OverKeeps DEF SyncFails

LEMMA SchemaKnownKeeps ==
  ASSUME SyncInv, NEW s \in Syncs, SchemaKnown(s) PROVE SyncInv' /\ OkIsTrue /\ OneRowEach
<1>1. s \in Running /\ table' = table /\ NextRow(s, FALSE) /\ row[s] = 0
  BY DEF SchemaKnown, Running, SyncInv, SyncOK
<1>2. Passed(s, row[s])
  BY <1>1 DEF Passed
<1> QED
  BY <1>1, <1>2, TableKept, NextRowKeeps

LEMMA SearchKeeps ==
  ASSUME SyncInv, NEW s \in Syncs, Search(s) PROVE SyncInv' /\ OkIsTrue /\ OneRowEach
<1> DEFINE hits == Holding(This(s).key)
<1>1. s \in Running /\ table' = table /\ SyncOK(s) /\ stage[s] = "search"
  BY DEF Search, Running, SyncInv
<1>2. CASE NextRow(s, TRUE)
  BY <1>1, <1>2, TableKept, NextRowKeeps
<1>3. ASSUME NEW i \in IF hits = {} THEN {None} ELSE hits, found' = [found EXCEPT ![s] = i], stage' = [stage EXCEPT ![s] = "put"],
             UNCHANGED <<seen, row, failed, crowded>>
      PROVE  SyncInv' /\ OkIsTrue
  <2>1. /\ stage \in [Syncs -> Stages] /\ seen = [t \in Syncs |-> seen[t]] /\ row \in [Syncs -> Nat]
        /\ found = [t \in Syncs |-> found[t]] /\ failed \subseteq Running /\ crowded \subseteq Running
    BY DEF SyncInv
  <2>2. /\ stage' \in [Syncs -> Stages] /\ found' = [t \in Syncs |-> found'[t]]
        /\ stage'[s] = "put" /\ found'[s] = i
        /\ \A t \in Syncs \ {s} : stage'[t] = stage[t] /\ found'[t] = found[t]
    BY <1>3, <2>1 DEF Stages
  <2>3. Running' = Running
    BY <1>1, <2>2 DEF Running
  <2>4. ASSUME NEW t \in Syncs \ {s} PROVE SyncOK(t)'
    <3>1. \A u \in Running : t \in Running /\ t # u => t \in crowded
      BY DEF SyncInv, SyncOK
    <3> QED
      BY <1>1, <1>3, <2>2, <2>3, <3>1, TableKept, OthersStay
  <2>5. SyncOK(s)'
    <3>1. This(s)' = This(s) /\ Holding(This(s).key)' = hits
      BY <1>1, <1>3 DEF This, Holding
    <3>2. None \notin Nat
      BY ProgressAssumption
    <3>3. found'[s] # None => found'[s] \in 1 .. Len(table') /\ table'[found'[s]].key = This(s)'.key
      BY <1>1, <1>3, <2>2, <3>1 DEF Holding
    <3>4. found'[s] = None => Holding(This(s).key)' = {}
      BY <1>3, <2>2, <3>1, <3>2 DEF Holding
    <3> QED
      BY <1>1, <1>3, <2>2, <2>3, <3>3, <3>4 DEF SyncOK
  <2>6. OkIsTrue
    BY <2>2 DEF OkIsTrue
  <2> QED
    BY <1>1, <1>3, <2>1, <2>2, <2>3, <2>4, <2>5, <2>6, TableKept DEF SyncInv
<1>4. SyncInv' /\ OkIsTrue
  BY <1>2, <1>3 DEF Search
<1> QED
  BY <1>1, <1>4, TableKept

\* The request that writes the row s is at, and what s may go on from.
LEMMA PutKeeps ==
  ASSUME SyncInv, NEW s \in Syncs, stage[s] = "put", table' = Put(This(s), found[s])
  PROVE  /\ s \in Running /\ KeepsKeys /\ table' \in Seq(TableRow) /\ OneRowEach
         /\ s \notin failed /\ s \notin crowded => Passed(s, row[s])
<1> DEFINE rows == RowsOf(seen[s])
<1>1. s \in Running /\ SyncOK(s) /\ table \in Seq(TableRow) /\ crowded \subseteq Running
  BY DEF Running, SyncInv
<1>2. /\ IsRead(seen[s]) /\ row[s] \in 1 .. Len(rows) /\ This(s) = rows[row[s]]
      /\ rows \in Seq(TableRow) /\ \A i, j \in 1 .. Len(rows) : rows[i].key = rows[j].key => i = j
  BY <1>1, RowsSay DEF SyncOK, This
<1>3. This(s) \in TableRow
  BY <1>2, ElementOfSeq
<1>4. found[s] # None => found[s] \in 1 .. Len(table) /\ table[found[s]].key = This(s).key
  BY <1>1 DEF SyncOK
<1>5. /\ table' \in Seq(TableRow)
      /\ \A n \in 1 .. Len(table) : /\ n \in 1 .. Len(table') /\ table'[n].key = table[n].key
                                    /\ table[n].key # This(s).key => table'[n] = table[n]
      /\ FollowsRow(table', This(s))
      /\ found[s] # None => Len(table') = Len(table)
      /\ found[s] = None => Len(table') = Len(table) + 1 /\ table'[Len(table) + 1] = This(s)
  <2>1. ASSUME NEW r \in TableRow, NEW i, i # None => i \in 1 .. Len(table) /\ table[i].key = r.key, NEW put, put = Put(r, i)
        PROVE  /\ put \in Seq(TableRow)
               /\ \A n \in 1 .. Len(table) : n \in 1 .. Len(put) /\ put[n].key = table[n].key /\ (table[n].key # r.key => put[n] = table[n])
               /\ FollowsRow(put, r)
               /\ i # None => Len(put) = Len(table)
               /\ i = None => Len(put) = Len(table) + 1 /\ put[Len(table) + 1] = r
    BY <1>1, <2>1, PutFacts
  <2> QED
    BY <1>3, <1>4, <2>1
<1>6. Len(table) \in Nat /\ Len(rows) \in Nat
  BY <1>1, <1>2, LenProperties
<1>7. ASSUME s \notin failed, s \notin crowded PROVE Passed(s, row[s])
  <2>1. SUFFICES ASSUME NEW n \in 1 .. row[s] PROVE FollowsRow(table', rows[n])
    BY DEF Passed
  <2>2. CASE n = row[s]
    BY <1>2, <1>5, <2>2
  <2>3. CASE n # row[s]
    <3>1. n \in 1 .. row[s] - 1 /\ n \in 1 .. Len(rows)
      BY <1>2, <1>6, <2>3
    <3>2. FollowsRow(table, rows[n]) /\ rows[n].key # This(s).key
      BY <1>1, <1>2, <1>7, <2>3, <3>1 DEF SyncOK
    <3>3. \A m \in 1 .. Len(table) : m \in 1 .. Len(table') /\ (table[m].key # This(s).key => table'[m] = table[m])
      BY <1>5
    <3>4. PICK m \in 1 .. Len(table) : /\ table[m].key = rows[n].key /\ table[m].status = rows[n].status /\ table[m].title = rows[n].title
                                       /\ rows[n].module # None => table[m].module = rows[n].module
      BY <3>2 DEF FollowsRow
    <3>5. m \in 1 .. Len(table') /\ table'[m] = table[m]
      BY <3>2, <3>3, <3>4
    <3> QED
      BY <3>4, <3>5 DEF FollowsRow
  <2> QED
    BY <2>2, <2>3
<1>8. OneRowEach
  <2>1. CASE s \in crowded
    BY <2>1 DEF OneRowEach
  <2>2. CASE s \notin crowded
    <3>1. SUFFICES ASSUME NEW k \in Keys, NEW i \in 1 .. Len(table'), NEW j \in 1 .. Len(table'),
                          table'[i].key = k, table'[j].key = k, i < j, j > Len(table) PROVE FALSE
      BY DEF OneRowEach, Holding
    <3>2. found[s] = None
      BY <1>5, <1>6, <3>1
    <3>3. j = Len(table) + 1 /\ i \in 1 .. Len(table)
      BY <1>5, <1>6, <3>1, <3>2
    <3>4. table[i].key = This(s).key
      BY <1>5, <3>1, <3>2, <3>3
    <3>5. Holding(This(s).key) = {}
      BY <1>1, <2>2, <3>2 DEF SyncOK
    <3> QED
      BY <3>3, <3>4, <3>5 DEF Holding
  <2> QED
    BY <2>1, <2>2
<1> QED
  BY <1>1, <1>5, <1>7, <1>8 DEF KeepsKeys

LEMMA UpsertKeeps ==
  ASSUME SyncInv, NEW s \in Syncs, Upsert(s) PROVE SyncInv' /\ OkIsTrue /\ OneRowEach
<1>1. stage[s] = "put" /\ s \in Running
  BY DEF Upsert, Running
<1>2. CASE table' = table /\ NextRow(s, TRUE)
  BY <1>1, <1>2, TableKept, NextRowKeeps
<1>3. ASSUME table' = Put(This(s), found[s]), NEW raised \in BOOLEAN, NextRow(s, raised)
      PROVE  SyncInv' /\ OkIsTrue /\ OneRowEach
  <2>1. /\ KeepsKeys /\ table' \in Seq(TableRow) /\ OneRowEach
        /\ s \notin failed /\ s \notin crowded => Passed(s, row[s])
    BY <1>1, <1>3, PutKeeps
  <2> QED
    BY <1>1, <1>3, <2>1, NextRowKeeps
<1> QED
  BY <1>2, <1>3 DEF Upsert

LEMMA CutKeeps ==
  ASSUME SyncInv, NEW s \in Syncs, Cut(s) PROVE SyncInv' /\ OkIsTrue /\ OneRowEach
<1>1. s \in Running /\ Over(s, FALSE)
  BY DEF Cut
<1>2. KeepsKeys /\ table' \in Seq(TableRow) /\ OneRowEach
  BY TableKept, PutKeeps DEF Cut
<1> QED
  BY <1>1, <1>2, OverKeeps

-----------------------------------------------------------------------------
(* Project: both together.                                                 *)

LEMMA EntriesTyped ==
  ASSUME WriteInv PROVE Entries \subseteq Seq(Leaf) /\ Titles \subseteq [Keys -> Bodies \cup {None}]
<1>1. Statuses \subseteq Seq(Leaf)
  BY ProjectAssumption DEF Leaf
<1>2. \A f \in Statuses : \A n \in 0 .. Len(f) : SubSeq(f, 1, n) \in Seq(Leaf)
  <2>1. SUFFICES ASSUME NEW f \in Seq(Leaf), NEW n \in 0 .. Len(f) PROVE SubSeq(f, 1, n) \in Seq(Leaf)
    BY <1>1
  <2>2. Len(f) \in Nat
    BY LenProperties
  <2> QED
    BY <2>2, SubSeqProperties
<1>3. tree[StatusFile] \in Statuses \cup {Torn}
  BY DEF WriteInv, FilesInv
<1> QED
  BY <1>1, <1>2, <1>3 DEF Entries, Titles

BothInv == WriteInv /\ SyncInv

LEMMA BothBegin == ProjectInit => BothInv
BY WritesBegin, SyncsBegin DEF ProjectInit, BothInv

LEMMA UntouchedWrites ==
  ASSUME WriteInv, UNCHANGED writeVars PROVE WriteInv' /\ LandedStep
<1>1. CallsInv'
  BY DEF WriteInv, CallsInv, CallOK, Valid, Accepted, Roots, writeVars
<1>2. PutInPlace' /\ AuditAccounts' /\ LandedStep
  BY <1>1, SourceKept DEF writeVars, CoderSame
<1>3. FilesInv'
  BY DEF WriteInv, FilesInv, writeVars
<1> QED
  BY <1>1, <1>2, <1>3 DEF WriteInv

LEMMA UntouchedSyncs ==
  ASSUME SyncInv, UNCHANGED syncVars PROVE SyncInv' /\ OkIsTrue /\ OneRowEach
<1>1. SyncInv'
  BY DEF SyncInv, SyncOK, syncVars, Running, This, Holding
<1> QED
  BY <1>1, TableKept DEF OkIsTrue, syncVars

LEMMA BothStep ==
  ASSUME BothInv, [ProjectNext]_projectVars
  PROVE  BothInv' /\ LandedStep /\ OkIsTrue /\ OneRowEach
<1>1. ASSUME NEW p \in Procs, UNCHANGED <<config, service, syncVars>>,
             WriteStep(p) \/ ProcessRestarts(p) \/ \E c \in CallsOf(p) : Refuse(p, c) \/ Begin(p, c)
      PROVE  WriteInv' /\ LandedStep
  <2>1. WriteInv /\ UNCHANGED <<config, service>>
    BY <1>1 DEF BothInv
  <2>2. CASE \E c \in CallsOf(p) : Refuse(p, c)
    BY <2>1, <2>2, RefuseKeeps
  <2>3. CASE \E c \in CallsOf(p) : Begin(p, c)
    BY <2>1, <2>3, BeginKeeps
  <2>4. CASE ProcessRestarts(p)
    BY <2>1, <2>4, RestartsKeeps DEF ProcessRestarts
  <2>5. CASE Fails(p)
    BY <2>1, <2>5, FailsKeeps
  <2>6. CASE Dies(p)
    BY <2>1, <2>6, DiesKeeps
  <2>7. CASE OpenTmp(p)
    BY <2>1, <2>7, OpenTmpKeeps
  <2>8. CASE Replace(p)
    BY <2>1, <2>8, ReplaceKeeps
  <2>9. CASE Audit(p)
    BY <2>1, <2>9, AuditKeeps
  <2>10. CASE OpenInPlace(p)
    BY <2>1, <2>10, OpenInPlaceKeeps
  <2>11. CASE FillInPlace(p)
    BY <2>1, <2>11, FillInPlaceKeeps
  <2> QED
    BY <1>1, <2>2, <2>3, <2>4, <2>5, <2>6, <2>7, <2>8, <2>9, <2>10, <2>11 DEF WriteStep
<1>2. ASSUME UNCHANGED <<config, service, syncVars>> PROVE SyncInv' /\ OkIsTrue /\ OneRowEach
  BY <1>2, UntouchedSyncs DEF BothInv
<1>3. ASSUME NEW s \in Syncs, SyncStep(s) \/ SyncCut(s) \/ \E wanted \in Modules \cup {None} : SyncReads(s, wanted)
      PROVE  SyncInv' /\ OkIsTrue /\ OneRowEach
  <2>1. SyncInv /\ WriteInv
    BY DEF BothInv
  <2>2. CASE \E wanted \in Modules \cup {None} : SyncReads(s, wanted)
    BY <2>1, <2>2, EntriesTyped, ReadKeeps DEF SyncReads
  <2>3. CASE SyncCut(s)
    BY <2>1, <2>3, CutKeeps DEF SyncCut
  <2>4. CASE SyncFails(s)
    BY <2>1, <2>4, SyncFailsKeeps
  <2>5. CASE SchemaKnown(s)
    BY <2>1, <2>5, SchemaKnownKeeps
  <2>6. CASE Search(s)
    BY <2>1, <2>6, SearchKeeps
  <2>7. CASE Upsert(s)
    BY <2>1, <2>7, UpsertKeeps
  <2> QED
    BY <1>3, <2>2, <2>3, <2>4, <2>5, <2>6, <2>7 DEF SyncStep
<1>4. ASSUME UNCHANGED writeVars PROVE WriteInv' /\ LandedStep
  BY <1>4, UntouchedWrites DEF BothInv
<1>5. CASE UNCHANGED projectVars
  BY <1>5, <1>4, UntouchedSyncs DEF BothInv, projectVars
<1>6. CASE ProjectNext
  BY <1>1, <1>2, <1>3, <1>4, <1>6 DEF ProjectNext, BothInv
<1> QED
  BY <1>5, <1>6

LEMMA BothHold == ProjectSpec => []BothInv
<1>1. BothInv /\ [ProjectNext]_projectVars => BothInv'
  BY BothStep
<1> QED
  BY <1>1, BothBegin, PTL DEF ProjectSpec

\* The audit log speaks of what each source file holds, but where a record is due or lost.
THEOREM AuditIsKept == ProjectSpec => []AuditAccounts
<1>1. BothInv => AuditAccounts
  BY DEF BothInv, WriteInv
<1> QED
  BY <1>1, BothHold, PTL

\* Whatever fails or dies, a source file changes only to something whole that was accepted,
\* where the policy admits it, and an answer of ok is true of every file of the call.
THEOREM WritesLand == ProjectSpec => Landed
<1>1. BothInv /\ [ProjectNext]_projectVars => LandedStep
  BY BothStep
<1> QED
  BY <1>1, BothHold, PTL DEF ProjectSpec, Landed, LandedStep

\* A sync that was alone and answers ok has left a row that follows the files for every key,
\* and no key gets a second row but by syncs beside each other.
THEOREM TableFollows == ProjectSpec => RowsFollow
<1>1. BothInv /\ [ProjectNext]_projectVars => OkIsTrue /\ OneRowEach
  BY BothStep
<1> QED
  BY <1>1, BothHold, PTL DEF ProjectSpec, RowsFollow, OkIsTrue, OneRowEach

=============================================================================
