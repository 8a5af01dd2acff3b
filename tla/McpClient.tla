------------------------------- MODULE McpClient -------------------------------
(***************************************************************************)
(* The connection to one MCP server (tools/mcp_tool_adapter.py): requests  *)
(* are lines to a child process, a reader task matches its lines to the    *)
(* waiting requests by number.  The caller is one coroutine, so that one   *)
(* request is in flight at a time, but answers to earlier ones may still   *)
(* be on their way.  The server is external: it may answer in any order,   *)
(* late, never, with an error, with a line longer than the reader's buffer,*)
(* and it may exit.                                                        *)
(***************************************************************************)
EXTENDS Naturals, FiniteSets

CONSTANTS MaxId   \* bound: the most requests of one connection

ASSUME MaxIdAssumption == MaxId \in Nat \ {0}

Ids == 1 .. MaxId

VARIABLES
  started,   \* _started
  server,    \* the child process: "none", "up", "gone"
  reader,    \* the reader task: "none", "reading", "ended" (end of file), "broken" (it raised)
  nextId,    \* _id_counter
  pending,   \* the ids in _pending
  owed,      \* what the server has read and not answered: [id, call]
  flight     \* the request in flight: its id, its number in the order of the calls, how
             \* far it is, and the call whose answer it got

mcpVars == <<started, server, reader, nextId, pending, owed, flight>>

\* What a request comes to.
Settled == {"result", "error", "failed"}
Idle    == [id |-> 0, call |-> 0, stage |-> "none", got |-> 0]

McpInit ==
  /\ started = FALSE /\ server = "none" /\ reader = "none"
  /\ nextId = 1 /\ pending = {} /\ owed = {}
  /\ flight = Idle

\* start: the child process runs, its output is read.
Start ==
  /\ ~started /\ server = "none"
  /\ started' = TRUE /\ server' = "up" /\ reader' = "reading"
  /\ UNCHANGED <<nextId, pending, owed, flight>>

\* stop, as far as requests can tell: none is in flight when it is called.
Stopped ==
  /\ started' = FALSE
  /\ reader' = IF reader = "reading" THEN "ended" ELSE reader
  /\ server' = "gone" /\ pending' = {} /\ owed' = {}
  /\ UNCHANGED <<nextId, flight>>

\* Faulty variant: an id is used again when its request is over.
FreshFree == CHOOSE i \in Ids : i \notin pending /\ \A j \in Ids \ pending : i <= j

\* The id of the next request.
Fresh == nextId

\* The request is registered and its line handed to the pipe.
Send ==
  /\ started /\ flight.stage = "none" /\ nextId <= MaxId
  /\ pending' = pending \cup {Fresh}
  /\ flight' = [id |-> Fresh, call |-> nextId, stage |-> "writing", got |-> 0]
  /\ nextId' = nextId + 1
  /\ UNCHANGED <<started, server, reader, owed>>

\* The pipe takes the line.
Written ==
  /\ flight.stage = "writing"
  /\ flight' = [flight EXCEPT !.stage = "waiting"]
  /\ owed' = IF server = "up" THEN owed \cup {[id |-> flight.id, call |-> flight.call]} ELSE owed
  /\ UNCHANGED <<started, server, reader, nextId, pending>>

\* The pipe is closed: the error leaves the entry behind.
WriteFails ==
  /\ flight.stage = "writing" /\ server = "gone"
  /\ flight' = [flight EXCEPT !.stage = "failed"]
  /\ UNCHANGED <<started, server, reader, nextId, pending, owed>>

\* Does the reader find someone who waits for a line with this id?
Awaited(id) == id \in pending

\* A line of the server, which fits the reader's buffer, and its dispatch.  An answer
\* nobody waits for is dropped; one whose future has just been cancelled raises, and
\* that is the end of the reader.
Deliver(o) ==
  /\ reader = "reading" /\ o \in owed
  /\ owed' = owed \ {o}
  /\ pending' = pending \ {o.id}
  /\ \/ /\ Awaited(o.id) /\ flight.id = o.id /\ flight.stage = "waiting"
        /\ \E s \in {"result", "error"} : flight' = [flight EXCEPT !.stage = s, !.got = o.call]
        /\ UNCHANGED reader
     \/ /\ Awaited(o.id) /\ ~(flight.id = o.id /\ flight.stage = "waiting")
        /\ reader' = "broken" /\ UNCHANGED flight
     \/ /\ ~Awaited(o.id)
        /\ UNCHANGED <<reader, flight>>
  /\ UNCHANGED <<started, server, nextId>>

\* A line longer than the stream's limit: readline raises, and nobody catches it.
DeliverLong(o) ==
  /\ reader = "reading" /\ o \in owed
  /\ owed' = owed \ {o}
  /\ reader' = "broken"
  /\ UNCHANGED <<started, server, nextId, pending, flight>>

\* The server exits.
ServerExits ==
  /\ server = "up"
  /\ server' = "gone" /\ owed' = {}
  /\ UNCHANGED <<started, reader, nextId, pending, flight>>

\* The reader sees the end of the output: whatever waits fails.
ReadEof ==
  /\ reader = "reading" /\ server = "gone"
  /\ reader' = "ended" /\ pending' = {}
  /\ flight' = IF flight.stage \in {"writing", "waiting"}
               THEN [flight EXCEPT !.stage = "failed"] ELSE flight
  /\ UNCHANGED <<started, server, nextId, owed>>

\* wait_for: the time is up, and the future is cancelled.
Expire ==
  /\ flight.stage = "waiting"
  /\ flight' = [flight EXCEPT !.stage = "expired"]
  /\ UNCHANGED <<started, server, reader, nextId, pending, owed>>

\* The caller is resumed, forgets the request and fails.
Forget ==
  /\ flight.stage = "expired"
  /\ pending' = pending \ {flight.id}
  /\ flight' = [flight EXCEPT !.stage = "failed"]
  /\ UNCHANGED <<started, server, reader, nextId, owed>>

\* What the server and the reader do.
ServerSide ==
  \/ (\E o \in owed : Deliver(o) \/ DeliverLong(o))
  \/ ServerExits \/ ReadEof

-----------------------------------------------------------------------------
(* Properties.                                                             *)

\* A caller is given the answer to its own request, whatever is late, lost or out of
\* order: "dispatches responses to the correct waiting request"
\* (mcp_tool_adapter.py:148-151).
AnswerIsOwn == flight.stage \in {"result", "error"} => flight.got = flight.call

\* "Reader-task death" is the server's end (mcp_tool_adapter.py:156-160, 297-299): while
\* the server runs, its answers are read.
ReaderLivesWithServer == started /\ server = "up" => reader = "reading"

=============================================================================
