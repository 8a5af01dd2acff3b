----------------------------- MODULE ProgressSync -----------------------------
(***************************************************************************)
(* The sync of a project's progress to a Feishu table                      *)
(* (tools/progress_sync_service.py, feishu_fastapi_sdk/client.py): the     *)
(* status file is read once, turned into one row a key, and each row is    *)
(* searched for in the table and updated, or created.  Every request may   *)
(* raise, with or without effect, and the coroutine may be cut while it    *)
(* waits.  Two syncs may run at once: a confirmation and a dispatched role *)
(* do not know of each other.  A request has its effect, if any, before    *)
(* its caller goes on.                                                     *)
(***************************************************************************)
EXTENDS Integers, SequencesExt, Absent

CONSTANTS
  Syncs,
  Keys, Modules,
  Vineyard      \* the one module a command can be narrowed to

ASSUME ProgressAssumption == Vineyard \in Modules /\ None \notin Modules \cup Nat

VARIABLES
  table,    \* the rows of the table, in the order of their creation
  stage,    \* of each sync: "new", "schema", "search", "put", "ok", "failed"
  seen,     \* what a sync has read: entries, the module it is narrowed to, titles
  row,      \* which of them it is at
  found,    \* the record the search returned, or None
  failed,   \* the syncs under way one of whose requests raised
  crowded   \* the syncs under way that had another one beside them

syncVars == <<table, stage, seen, row, found, failed, crowded>>

NothingSeen == [entries |-> <<>>, wanted |-> None, titles |-> [k \in Keys |-> None]]

SyncInit ==
  /\ table = <<>>
  /\ stage = [s \in Syncs |-> "new"] /\ seen = [s \in Syncs |-> NothingSeen] /\ row = [s \in Syncs |-> 0]
  /\ found = [s \in Syncs |-> None] /\ failed = {} /\ crowded = {}

Running == {s \in Syncs : stage[s] \in {"schema", "search", "put"}}

-----------------------------------------------------------------------------
(* Reading.                                                                *)

\* The first entry of a key holds its place; the first with a module takes it over.
Better(e, old) == old.module = None /\ e.module # None

Take(kept, e) ==
  IF \E i \in 1 .. Len(kept) : kept[i].key = e.key
  THEN [i \in 1 .. Len(kept) |-> IF kept[i].key = e.key /\ Better(e, kept[i]) THEN e ELSE kept[i]]
  ELSE Append(kept, e)

Dedupe(entries) ==
  LET kept[n \in 0 .. Len(entries)] == IF n = 0 THEN <<>> ELSE Take(kept[n - 1], entries[n])
  IN  kept[Len(entries)]

\* route_command: words in the command become a filter; only one module is a word.
Filter(wanted) == IF wanted = Vineyard THEN {Vineyard} ELSE Modules \cup {None}

Record(e, titles) == [key |-> e.key, module |-> e.module, status |-> e.status, title |-> titles[e.key]]

\* dedupe_records, apply_filters and map_rows.
RowsOf(read) ==
  LET kept == Dedupe(read.entries)
      rows[n \in 0 .. Len(kept)] ==
        IF n = 0 THEN <<>>
        ELSE IF kept[n].module \in Filter(read.wanted) THEN Append(rows[n - 1], Record(kept[n], read.titles))
        ELSE rows[n - 1]
  IN  rows[Len(kept)]

\* The row a sync is at.
This(s) == RowsOf(seen[s])[row[s]]

Read(s, entries, wanted, titles) ==
  /\ stage[s] = "new"
  /\ stage' = [stage EXCEPT ![s] = "schema"]
  /\ seen' = [seen EXCEPT ![s] = [entries |-> entries, wanted |-> wanted, titles |-> titles]]
  /\ crowded' = IF Running = {} THEN crowded ELSE crowded \cup Running \cup {s}
  /\ UNCHANGED <<table, row, found, failed>>

\* A sync that is over is ok if nothing raised; its locals are gone.
Over(s, ok) ==
  /\ stage' = [stage EXCEPT ![s] = IF ok THEN "ok" ELSE "failed"]
  /\ failed' = failed \ {s} /\ crowded' = crowded \ {s}
  /\ seen' = [seen EXCEPT ![s] = NothingSeen]
  /\ row' = [row EXCEPT ![s] = 0] /\ found' = [found EXCEPT ![s] = None]

\* The file is missing or no YAML, or the request for the table's fields raises.
SyncFails(s) ==
  /\ stage[s] \in {"new", "schema"}
  /\ Over(s, FALSE)
  /\ UNCHANGED table

-----------------------------------------------------------------------------
(* upsert_rows.                                                            *)

\* On to the next row; raised: a request for this one did.
NextRow(s, raised) ==
  IF row[s] < Len(RowsOf(seen[s]))
  THEN /\ row' = [row EXCEPT ![s] = @ + 1] /\ found' = [found EXCEPT ![s] = None]
       /\ stage' = [stage EXCEPT ![s] = "search"]
       /\ failed' = IF raised THEN failed \cup {s} ELSE failed
       /\ UNCHANGED <<seen, crowded>>
  ELSE Over(s, ~raised /\ s \notin failed)

SchemaKnown(s) ==
  /\ stage[s] = "schema" /\ NextRow(s, FALSE)
  /\ UNCHANGED table

Holding(key) == {i \in 1 .. Len(table) : table[i].key = key}

\* One record of those with the key, in no order.
Search(s) ==
  /\ stage[s] = "search"
  /\ LET hits == Holding(This(s).key)
     IN  \/ /\ \E i \in IF hits = {} THEN {None} ELSE hits : found' = [found EXCEPT ![s] = i]
            /\ stage' = [stage EXCEPT ![s] = "put"] /\ UNCHANGED <<seen, row, failed, crowded>>
         \/ NextRow(s, TRUE)
  /\ UNCHANGED table

\* Faulty variant: a row is created though a record was found.
CreateAlways(r, i) == Append(table, r)

\* The table after the update or creation: a field without a value is not sent.
Put(r, i) ==
  IF i = None THEN Append(table, r)
  ELSE [table EXCEPT ![i] = IF r.module = None THEN [r EXCEPT !.module = table[i].module] ELSE r]

Upsert(s) ==
  /\ stage[s] = "put"
  /\ \/ table' = Put(This(s), found[s]) /\ \E raised \in BOOLEAN : NextRow(s, raised)
     \/ UNCHANGED table /\ NextRow(s, TRUE)

\* The coroutine is cut, or its process dies, with a request under way.
Cut(s) ==
  /\ s \in Running
  /\ table' \in {table} \cup (IF stage[s] = "put" THEN {Put(This(s), found[s])} ELSE {})
  /\ Over(s, FALSE)

=============================================================================
