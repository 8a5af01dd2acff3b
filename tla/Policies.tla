------------------------------- MODULE Policies -------------------------------
(***************************************************************************)
(* What the configuration of an installation lets its bots write: the file *)
(* of policies (tools/code_write_service.py), the registry of projects     *)
(* (tools/project_registry.py), and what the runtime makes of both.        *)
(*                                                                         *)
(* A root stands for the files below it, a denied segment for the files    *)
(* whose path has it.                                                      *)
(***************************************************************************)
EXTENDS Integers, SequencesExt, Absent

CONSTANTS
  Malformed,  \* a line that is no object, or one with a field of the wrong type
  Barred,     \* files no policy admits: _HARDCODED_DENIED_SEGMENTS
  Dirs,       \* directories there are
  Override    \* settings.default_project_id, or None

\* dict[e.project] = e: a project keeps its place, its last line counts.
PutLine(dict, e) ==
  IF \E i \in 1 .. Len(dict) : dict[i].project = e.project
  THEN [i \in 1 .. Len(dict) |-> IF dict[i].project = e.project THEN e ELSE dict[i]]
  ELSE Append(dict, e)

\* The lines of a file, put one after the other.
Merged(lines) ==
  LET dict[n \in 0 .. Len(lines)] == IF n = 0 THEN <<>> ELSE PutLine(dict[n - 1], lines[n])
  IN  dict[Len(lines)]

\* One malformed line empties the registry.
Registered(lines) == IF Malformed \in ToSet(lines) THEN <<>> ELSE Merged(lines)

\* The project of this installation: with an override every other mark is dropped, and the
\* setting counts even for a project nobody registered.
DefaultProject(registry) ==
  LET marked == SelectSeq(registry, LAMBDA p : p.default)
  IN  IF Override # None THEN Override ELSE IF marked = <<>> THEN None ELSE Head(marked).project

\* The default policy has no roots to inherit, so a line needs its own.
WellFormed(line) == line # Malformed /\ line.writes # {}

\* Faulty variant: a bad line is passed over.
LoadGood(lines) == Merged(SelectSeq(lines, WellFormed))

\* load_policy_file: one bad line aborts it, and the runtime then has no policy at all.
Load(lines) == IF \A i \in 1 .. Len(lines) : WellFormed(lines[i]) THEN Merged(lines) ELSE <<>>

\* The line's own root, or that of the registry.
RootsOf(line, registry) ==
  IF line.root # None THEN {line.root} ELSE {p.root : p \in {p \in ToSet(registry) : p.project = line.project}}

\* The lines in force: those of the project whose directory is there.
InForce(config) ==
  LET registry == Registered(config.projects)
  IN  {line \in ToSet(Load(config.policies)) :
         line.project = DefaultProject(registry) /\ RootsOf(line, registry) \cap Dirs # {}}

\* Denied segments add to those built in.
Writable(config) == UNION {line.writes \ (Barred \cup line.denied) : line \in InForce(config)}

=============================================================================
