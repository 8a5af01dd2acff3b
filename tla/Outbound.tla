------------------------------- MODULE Outbound -------------------------------
(***************************************************************************)
(* What a session of the tech lead waits for outside its process: the MCP  *)
(* server it connects to when it begins, the model it asks each turn       *)
(* through the pool of providers, and the calls it passes to the server.   *)
(* The handler's time limit may cut the coroutine at any of these.         *)
(***************************************************************************)
EXTENDS ProviderPool, McpClient

CONSTANTS
  Turns,       \* max_tool_turns
  CallLimit    \* call_timeout_seconds, on the clock of the session

ASSUME OutboundAssumption == Turns \in Nat /\ CallLimit \in Nat

VARIABLES
  pc,      \* "start", "handshake", "listing", "turn", "asking", "calling", "over", "gone"
  turn,
  listed,  \* the adapter is connected and its tools are known
  cut      \* the coroutine has been cancelled

vars == <<poolVars, mcpVars, pc, turn, listed, cut>>

Init ==
  /\ PoolInit /\ McpInit
  /\ pc = "start" /\ turn = 0 /\ listed = FALSE /\ cut = FALSE

Goto(place) == pc' = place /\ UNCHANGED <<turn, listed, cut>>

-----------------------------------------------------------------------------
(* Connecting: before the session's clock starts.                          *)

\* No server is configured, or its command is not found.
StartFails == pc = "start" /\ Goto("turn") /\ UNCHANGED <<poolVars, mcpVars>>

Connect == pc = "start" /\ Start /\ Goto("handshake") /\ UNCHANGED poolVars

\* The next request of the connection, once the one before is dealt with.
SendRequest == pc \in {"handshake", "listing", "calling"} /\ Send /\ UNCHANGED <<poolVars, pc, turn, listed, cut>>

\* The server took the initialize; the notification behind it may fail.
Initialized ==
  /\ pc = "handshake" /\ flight.stage = "result"
  /\ flight' = Idle
  /\ Goto("listing")
  /\ UNCHANGED <<poolVars, started, server, reader, nextId, pending, owed>>

\* The server refuses: the transport is stopped, and the session goes on without it.
Rejected ==
  /\ pc = "handshake" /\ flight.stage = "error"
  /\ Stopped
  /\ Goto("turn") /\ UNCHANGED poolVars

\* Any other failure: the adapter is skipped, the transport is left as it is.
ConnectFails ==
  /\ \/ pc = "handshake" /\ flight.stage = "failed"
     \/ pc = "listing" /\ flight.stage \in {"error", "failed"}
  /\ Goto("turn") /\ UNCHANGED <<poolVars, mcpVars>>

Listed ==
  /\ pc = "listing" /\ flight.stage = "result"
  /\ flight' = Idle
  /\ pc' = "turn" /\ listed' = TRUE
  /\ UNCHANGED <<poolVars, started, server, reader, nextId, pending, owed, turn, cut>>

-----------------------------------------------------------------------------
(* The turns.                                                              *)

\* The session ends by itself: the adapters that connected are closed.
Finish ==
  /\ pc' = "over" /\ listed' = FALSE
  /\ IF listed THEN Stopped ELSE UNCHANGED mcpVars
  /\ UNCHANGED <<turn, cut>>

\* The turns or the time are used up.
StopAtTop ==
  /\ pc = "turn"
  /\ turn = Turns \/ clock >= Limit
  /\ Finish /\ UNCHANGED poolVars

Ask == pc = "turn" /\ turn < Turns /\ Request /\ Goto("asking") /\ UNCHANGED mcpVars

\* Within a request.
Wait == pc = "asking" /\ (Attempt \/ Wake) /\ UNCHANGED <<mcpVars, pc, turn, listed, cut>>

\* The last word of the model, or the pool's error.
LastWord ==
  /\ pc = "asking" /\ at \in {"answered", "exhausted"}
  /\ Done
  /\ Finish

\* The model calls: a tool of the server, or another one, whose work is left out.
UseTool ==
  /\ pc = "asking" /\ at = "answered"
  /\ Done
  /\ \/ listed /\ nextId <= MaxId /\ Goto("calling")
     \/ pc' = "turn" /\ turn' = turn + 1 /\ UNCHANGED <<listed, cut>>
  /\ UNCHANGED mcpVars

\* Result, error or failure of the call: each is a result for the model.
CallEnds ==
  /\ pc = "calling" /\ flight.stage \in Settled
  /\ flight' = Idle
  /\ pc' = "turn" /\ turn' = turn + 1
  /\ UNCHANGED <<poolVars, started, server, reader, nextId, pending, owed, listed, cut>>

\* Faulty variant: requests have no time limit.
NeverExpires == FALSE /\ Expire /\ UNCHANGED <<poolVars, pc, turn, listed, cut>>

\* The time of a request is up; that of a handshake is not the session's.
TimeIsUp ==
  /\ Expire
  /\ clock' = IF pc = "calling" THEN clock + CallLimit ELSE clock
  /\ UNCHANGED <<at, provider, attempt, begun, granted, trail, pc, turn, listed, cut>>

Pipe == (Written \/ WriteFails \/ Forget) /\ UNCHANGED <<poolVars, pc, turn, listed, cut>>

-----------------------------------------------------------------------------
(* The world around.                                                       *)

Outside == pc # "gone" /\ ServerSide /\ UNCHANGED <<poolVars, pc, turn, listed, cut>>

\* The handler's limit cancels the coroutine: an attempt takes it for a failure of the
\* provider, a pause between attempts or a wait for the server does not.  Nothing is
\* closed, and what waits in _pending stays there.
Cut ==
  /\ pc \notin {"over", "gone"} /\ ~cut
  /\ cut' = TRUE
  /\ \/ /\ pc = "asking" /\ at = "sending"
        /\ Fail("cut")
        /\ UNCHANGED <<pc, turn, listed>>
     \/ /\ pc # "asking" \/ at # "sending"
        /\ pc' = "gone"
        /\ UNCHANGED <<poolVars, turn, listed>>
  /\ UNCHANGED mcpVars

\* What the process does, or what ends by a time limit of its own.  That the server
\* reads its input is assumed.
Step ==
  \/ StartFails \/ Connect \/ SendRequest \/ Initialized \/ Rejected \/ ConnectFails \/ Listed
  \/ StopAtTop \/ Ask \/ Wait \/ LastWord \/ UseTool \/ CallEnds
  \/ TimeIsUp \/ Pipe

Next == Step \/ Outside \/ Cut

Spec == Init /\ [][Next]_vars

FairSpec == Spec /\ WF_vars(Step)

-----------------------------------------------------------------------------
(* Properties.                                                             *)

TypeOK ==
  /\ at \in {"rest", "sending", "sleeping", "answered", "exhausted"}
  /\ provider \in 1 .. Count /\ attempt \in 0 .. MaxRetries
  /\ clock \in Nat /\ begun \in 0 .. Limit /\ granted \in 0 .. Limit
  /\ trail \in Seq([provider : 1 .. Count, attempt : 0 .. MaxRetries, failure : Failures])
  /\ started \in BOOLEAN /\ server \in {"none", "up", "gone"}
  /\ reader \in {"none", "reading", "ended", "broken"}
  /\ nextId \in 1 .. MaxId + 1 /\ pending \subseteq Ids /\ owed \subseteq [id : Ids, call : Ids]
  /\ flight.stage \in {"none", "writing", "waiting", "expired"} \cup Settled
  /\ turn \in 0 .. Turns /\ listed \in BOOLEAN /\ cut \in BOOLEAN
  /\ pc = "asking" => at # "rest"
  /\ at # "rest" => pc \in {"asking", "gone"}

\* Whatever the providers and the server do or fail to do, the session comes to an end
\* (llm_agent_adapter.py:683-692, mcp_tool_adapter.py:265-273).
SessionEnds == <>(pc \in {"over", "gone"})

\* A session that ends leaves no server behind (feishu_runtime_service.py:1961-1962: the
\* adapters are closed "in a finally").
ServerClosed == pc \in {"over", "gone"} => ~started

=============================================================================
