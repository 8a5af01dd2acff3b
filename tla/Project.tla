------------------------------- MODULE Project -------------------------------
(***************************************************************************)
(* The files of a project under two bots: their tool calls write source    *)
(* and artifacts, and syncs in their processes turn the status file and    *)
(* the artifacts into rows of a table.  What blocks a process blocks its   *)
(* sync too, and what kills it kills its sync.                             *)
(***************************************************************************)
EXTENDS Writes, ProgressSync

CONSTANTS
  Home,     \* the process a sync runs in
  Artifact  \* the artifact of a key

ASSUME ProjectAssumption ==
  /\ Home \in [Syncs -> Procs] /\ Artifact \in [Keys -> Artifacts]
  /\ Statuses \subseteq Seq([key : Keys, module : Modules \cup {None}, status : STRING])

projectVars == <<writeVars, syncVars>>

ProjectInit == WritesInit /\ SyncInit

\* The heading of an artifact: without one, the title is made from the key.  A file that
\* is being written may show its heading already.
Headings(file) == IF tree[file] = Torn THEN {None} \cup Bodies ELSE {tree[file]}

Titles == {t \in [Keys -> Bodies \cup {None}] : \A k \in Keys : t[k] \in Headings(Artifact[k])}

Unblocked(s) == doing[Home[s]] = "idle"

\* A status file read while it is written has some of its entries, or none.
Entries ==
  IF tree[StatusFile] = Torn THEN UNION {{SubSeq(f, 1, n) : n \in 0 .. Len(f)} : f \in Statuses} ELSE {tree[StatusFile]}

SyncReads(s, wanted) == Unblocked(s) /\ \E e \in Entries, t \in Titles : Read(s, e, wanted, t)

SyncStep(s) ==
  /\ Unblocked(s)
  /\ \/ (stage[s] = "new" => tree[StatusFile] = Torn) /\ SyncFails(s)
     \/ SchemaKnown(s) \/ Search(s) \/ Upsert(s)

SyncCut(s) == doing[Home[s]] \in {"idle", "dead"} /\ Cut(s)

\* A process is started anew when nothing of it is left.
ProcessRestarts(p) == Restarts(p) /\ \A s \in Running : Home[s] # p

ProjectNext ==
  \/ /\ \E p \in Procs : \/ WriteStep(p) \/ ProcessRestarts(p)
                         \/ \E c \in CallsOf(p) : Refuse(p, c) \/ Begin(p, c)
     /\ UNCHANGED <<config, service, syncVars>>
  \/ /\ \E s \in Syncs : \/ SyncStep(s) \/ SyncCut(s)
                         \/ \E wanted \in Modules \cup {None} : SyncReads(s, wanted)
     /\ UNCHANGED writeVars

ProjectSpec == ProjectInit /\ [][ProjectNext]_projectVars

-----------------------------------------------------------------------------
(* Properties.                                                             *)

\* The installation admits writing f: every line of its policies is well formed, and the
\* last one of its project has a root above f and denies it nothing.
Admitted(f) ==
  LET lines == config.policies
      own   == {i \in 1 .. Len(lines) : lines[i].project = DefaultProject(Registered(config.projects))}
  IN  /\ \A i \in 1 .. Len(lines) : WellFormed(lines[i])
      /\ own # {} /\ f \in lines[Max(own)].writes \ (Barred \cup lines[Max(own)].denied)

\* A source file changes only where every line of the installation's policies is sound and
\* the last of its project admits it.  It holds the whole of something that passed the
\* checks, or does not exist, wherever a call fails or its process dies; nothing of a batch
\* is written before all of it passed; and when a call of the coder is answered ok, each
\* of its files holds what the call said of it last (code_write_service.py:465-515,
\* 661-673, 901-973).
Landed ==
  [][/\ \A f \in Source : tree'[f] # tree[f] => tree'[f] \in Bodies /\ Admitted(f)
     /\ \A p \in Procs : call'[p] # None => \A i \in 1 .. Len(call'[p].items) : Accepted(call'[p], call'[p].items[i])
     /\ doing[Coder] = "audit" /\ doing'[Coder] = "idle" =>
          LET items == call[Coder].items
          IN  \A i \in 1 .. Len(items) :
                \/ tree'[items[i].path] = items[i].body
                \/ \E j \in i + 1 .. Len(items) : items[j].path = items[i].path]_projectVars

\* The audit log accounts for every source file: its last record of a file speaks of what
\* the file holds, but between a replacement and its record, and where a record was lost to
\* the disk or to a death (code_write_service.py:677-697).
AuditAccounts ==
  \A f \in Source :
    \/ audited[f] = tree[f] \/ f \in unaudited
    \/ doing[Coder] = "audit" /\ Item(Coder).path = f

\* What the status file said of a key: its first entry with a module, or its first.
Said(entries, k) ==
  LET of == {i \in 1 .. Len(entries) : entries[i].key = k}
      placed == {i \in of : entries[i].module # None}
  IN  entries[Min(IF placed = {} THEN of ELSE placed)]

\* When a sync that was alone answers ok, every key it read has a row that says what the
\* files said when it read them, whatever earlier syncs left undone; and a key gets a
\* second row only by a sync that had another beside it (progress_sync_service.py:584-597,
\* client.py:161-204).
RowsFollow ==
  [][/\ \A s \in Syncs : stage'[s] = "ok" /\ stage[s] # "ok" /\ s \notin crowded =>
          \A k \in {seen[s].entries[i].key : i \in 1 .. Len(seen[s].entries)} :
            LET e == Said(seen[s].entries, k)
            IN  e.module \in Filter(seen[s].wanted) =>
                  \E i \in Holding(k)' : /\ table'[i].status = e.status
                                        /\ table'[i].title = seen[s].titles[k]
                                        /\ table'[i].module \in {e.module} \cup (IF e.module = None THEN Modules ELSE {})
     /\ \A k \in Keys :
          \A i, j \in Holding(k)' : i < j /\ j > Len(table) => \E s \in crowded : stage[s] = "put"]_projectVars

=============================================================================
