-------------------------------- MODULE Writes --------------------------------
(***************************************************************************)
(* How tool calls change the files of a project.  write_project_code and   *)
(* its batch form (tools/code_write_service.py) write a temporary file     *)
(* beside the target, replace the target with it and append a record to    *)
(* the audit log; write_role_artifact (team/role_artifact_writer.py) and   *)
(* write_workflow_artifact(s) (tools/workflow_service.py) write in place,  *)
(* and so does the sprint service with the status file.                    *)
(*                                                                         *)
(* A call blocks the event loop of its process, so only the processes of   *)
(* different bots interleave.  The process that writes source is one.      *)
(***************************************************************************)
EXTENDS Policies

CONSTANTS
  Configs,    \* the files of policies and projects an installation may have
  Procs,
  Coder,      \* the process whose roles have the source tools
  Source,     \* files of the source tree
  Artifacts,  \* files under the artifact roots
  StatusFile,
  Bodies,     \* contents of source and artifacts
  Statuses,   \* contents of the status file
  Secret,     \* a content that the secret scanner finds fault with
  Batches,    \* bound: the items a call may have, no more than a batch admits
  Calls,      \* bound: calls of all processes
  Torn        \* a file opened for writing and not written to its end, or a mixture

Files == Source \cup Artifacts \cup {StatusFile}

\* What a call may say a file is to hold: what it may hold, or a secret.
Sayable(f) == IF f = StatusFile THEN Statuses ELSE Bodies \cup {Secret}

ASSUME WritesAssumption ==
  /\ Coder \in Procs /\ Source \cap Artifacts = {} /\ StatusFile \notin Source \cup Artifacts
  /\ {Secret, Torn, None} \cap (Bodies \cup Statuses) = {}
  /\ <<>> \notin Batches /\ Batches \subseteq Seq([path : Files, body : Bodies \cup Statuses \cup {Secret}])
  /\ \A b \in Batches : \A i \in 1 .. Len(b) : b[i].body \in Sayable(b[i].path)
  /\ \A c \in Configs : c.policies \in Seq(ToSet(c.policies)) /\ Writable(c) \subseteq Source
  /\ Calls \in Nat

VARIABLES
  config,     \* the files of policies and projects; nobody changes them
  service,    \* the files the write service was built to write
  tree,       \* what each file holds; None: it does not exist
  leftovers,  \* targets whose temporary sibling exists
  audited,    \* the content the last audit record of a file speaks of
  unaudited,  \* files whose last change has no record: the append failed, or the process died
  doing,      \* "idle", or where the process is with item at of its call
  call, at,
  calls       \* calls made so far

writeVars == <<config, service, tree, leftovers, audited, unaudited, doing, call, at, calls>>

CallsOf(p) == [kind : {"artifact", "status"} \cup (IF p = Coder THEN {"source"} ELSE {}), items : Batches]

WritesInit ==
  /\ config \in Configs /\ service = Writable(config)
  /\ \E said \in Statuses : tree = [f \in Files |-> IF f = StatusFile THEN said ELSE None]
  /\ leftovers = {}
  /\ audited = [f \in Files |-> None] /\ unaudited = {}
  /\ doing = [p \in Procs |-> "idle"] /\ call = [p \in Procs |-> None] /\ at = [p \in Procs |-> 0]
  /\ calls = 0

Roots(kind) == [source |-> service, artifact |-> Artifacts, status |-> {StatusFile}][kind]

\* The secret scan; sizes are refused likewise.
Clean(body) == body # Secret

Accepted(c, item) == item.path \in Roots(c.kind) /\ Clean(item.body)

\* The whole call is validated before anything is written.
Valid(c) == \A i \in 1 .. Len(c.items) : Accepted(c, c.items[i])

Item(p) == call[p].items[at[p]]

Does(p, place) == doing' = [doing EXCEPT ![p] = place]

\* The call is answered.
Done(p) == Does(p, "idle") /\ call' = [call EXCEPT ![p] = None] /\ at' = [at EXCEPT ![p] = 0]

Refuse(p, c) ==
  /\ doing[p] = "idle" /\ calls < Calls /\ ~Valid(c)
  /\ calls' = calls + 1
  /\ UNCHANGED <<config, service, tree, leftovers, audited, unaudited, doing, call, at>>

Begin(p, c) ==
  /\ doing[p] = "idle" /\ calls < Calls /\ Valid(c)
  /\ call' = [call EXCEPT ![p] = c] /\ calls' = calls + 1
  /\ at' = [at EXCEPT ![p] = 1]
  /\ Does(p, "item")
  /\ UNCHANGED <<tree, leftovers, audited, unaudited>>

\* The item is done: the next one, or the answer.
NextItem(p) ==
  IF at[p] < Len(call[p].items)
  THEN at' = [at EXCEPT ![p] = @ + 1] /\ Does(p, "item") /\ UNCHANGED call
  ELSE Done(p)

\* The disk fails: what was written stays, the temporary file is removed.
Fails(p) ==
  /\ doing[p] \in {"item", "tmp", "open"}
  /\ leftovers' = IF doing[p] = "tmp" THEN leftovers \ {Item(p).path} ELSE leftovers
  /\ Done(p)
  /\ UNCHANGED <<tree, audited, unaudited, calls>>

\* The process dies in the middle of a call.
Dies(p) ==
  /\ doing[p] \notin {"idle", "dead"} /\ doing' = [doing EXCEPT ![p] = "dead"]
  /\ call' = [call EXCEPT ![p] = None] /\ at' = [at EXCEPT ![p] = 0]
  /\ unaudited' = IF doing[p] = "audit" THEN unaudited \cup {Item(p).path} ELSE unaudited
  /\ UNCHANGED <<tree, leftovers, audited, calls>>

Restarts(p) ==
  /\ doing[p] = "dead" /\ Does(p, "idle")
  /\ UNCHANGED <<tree, leftovers, audited, unaudited, call, at, calls>>

-----------------------------------------------------------------------------
(* Source files.                                                           *)

\* Faulty variant: the target is opened instead of a sibling of it.
OpenTarget(p) ==
  /\ doing[p] = "item" /\ call[p].kind = "source"
  /\ tree' = [tree EXCEPT ![Item(p).path] = Torn] /\ Does(p, "tmp")
  /\ UNCHANGED <<leftovers, audited, unaudited, call, at, calls>>

OpenTmp(p) ==
  /\ doing[p] = "item" /\ call[p].kind = "source"
  /\ leftovers' = leftovers \cup {Item(p).path} /\ Does(p, "tmp")
  /\ UNCHANGED <<tree, audited, unaudited, call, at, calls>>

\* The temporary file is written to its end and takes the target's place.
Replace(p) ==
  /\ doing[p] = "tmp"
  /\ tree' = [tree EXCEPT ![Item(p).path] = Item(p).body]
  /\ leftovers' = leftovers \ {Item(p).path} /\ Does(p, "audit")
  /\ UNCHANGED <<audited, unaudited, call, at, calls>>

\* Faulty variant: a batch is audited once, for its last file.
AuditLast(p) ==
  /\ doing[p] = "audit" /\ NextItem(p)
  /\ audited' = IF at[p] = Len(call[p].items) THEN [audited EXCEPT ![Item(p).path] = Item(p).body] ELSE audited
  /\ unaudited' = unaudited \ {Item(p).path}
  /\ UNCHANGED <<tree, leftovers, calls>>

\* One record for each file; one that cannot be appended is logged and forgotten.
Audit(p) ==
  /\ doing[p] = "audit" /\ NextItem(p)
  /\ \/ /\ audited' = [audited EXCEPT ![Item(p).path] = Item(p).body]
        /\ unaudited' = unaudited \ {Item(p).path}
     \/ UNCHANGED audited /\ unaudited' = unaudited \cup {Item(p).path}
  /\ UNCHANGED <<tree, leftovers, calls>>

-----------------------------------------------------------------------------
(* Artifacts and the status file.                                          *)

OpenInPlace(p) ==
  /\ doing[p] = "item" /\ call[p].kind # "source"
  /\ tree' = [tree EXCEPT ![Item(p).path] = Torn] /\ Does(p, "open")
  /\ UNCHANGED <<leftovers, audited, unaudited, call, at, calls>>

\* The rest of what another process wrote since the file was opened may stay behind it.
FillInPlace(p) ==
  /\ doing[p] = "open" /\ NextItem(p)
  /\ \/ tree' = [tree EXCEPT ![Item(p).path] = Item(p).body]
     \/ tree[Item(p).path] # Torn /\ tree' = [tree EXCEPT ![Item(p).path] = Torn]
  /\ UNCHANGED <<leftovers, audited, unaudited, calls>>

WriteStep(p) ==
  \/ Fails(p) \/ Dies(p)
  \/ OpenTmp(p) \/ Replace(p) \/ Audit(p)
  \/ OpenInPlace(p) \/ FillInPlace(p)

=============================================================================
