----------------------------- MODULE Conversation -----------------------------
(***************************************************************************)
(* One chat as a bot process handles it: the WebSocket handler of          *)
(* feishu_ws_main.py with its MessageDeduper, the coroutine                *)
(* process_role_message of runtime/feishu_runtime_service.py it starts on  *)
(* the asyncio loop and waits for with a timeout, the registry of cancel   *)
(* tokens (core/cancel_token.py), and the actions that wait for the user's *)
(* answer (team/pending_action_service.py).                                *)
(*                                                                         *)
(* Between two awaits a coroutine runs alone on the loop, so each stretch  *)
(* is one action here.  The messages are of one chat and one thread: they  *)
(* share a cancel key and the waiting actions.                             *)
(***************************************************************************)
EXTENDS Integers, FiniteSets

CONSTANTS
  Bot,           \* context.bot_name, which decides the branch of the runtime
  Handlers,      \* a handler and its coroutine: how many there may be at once
  Msgs,          \* messages of the chat
  Text,          \* Text[m]: what message m means to the keyword tests
  Mentioned,     \* messages that address the bot: all of a private chat, a group's with a mention
  Timeout,       \* MESSAGE_TIMEOUT_SECONDS, in ticks
  Ttl,           \* EVENT_DEDUP_TTL_SECONDS, in ticks
  MaxDeliveries, \* bound: how many deliveries the platform makes in all
  MaxActions     \* bound: how many actions are ever put to the user

Texts == {"ask", "confirm", "stop", "no", "cancel"}
LiveCancel    == {"stop", "cancel"}  \* is_live_cancel_command
PendingCancel == {"no", "cancel"}    \* _CANCEL_KEYWORDS, _CANCEL_PREFIXES
Actions == 1 .. MaxActions
None    == "none"
Stale   == "stale"  \* the token of a coroutine that is over

ASSUME ConversationAssumption ==
  /\ Bot \in {"tech_lead", "product_manager"}
  /\ Text \in [Msgs -> Texts] /\ Mentioned \subseteq Msgs
  /\ Timeout \in Nat \ {0} /\ Ttl \in Nat /\ MaxDeliveries \in Nat /\ MaxActions \in Nat
  /\ Ttl >= 2 * Timeout      \* 3600 s against twice about 500 s by default
  /\ {None, Stale} \cap (Handlers \cup Msgs) = {}

VARIABLES
  entry,     \* entry[m]: what the deduper holds about m
  idle,      \* idle[m]: ticks since m was last seen, while that matters
  job,       \* job[h]: the message handler h is at, and for how long
  session,   \* session[h]: the coroutine it started
  registry,  \* whose token is registered under the chat's cancel key
  action,    \* action[a]: the file of action a
  sent,      \* deliveries so far
  answered   \* messages whose reply went out, as long as the deduper should know

vars == <<entry, idle, job, session, registry, action, sent, answered>>

Idle   == [pc |-> "idle", msg |-> None, ran |-> 0]
At(h, pc) == [job EXCEPT ![h] = [pc |-> pc, msg |-> job[h].msg, ran |-> 0]]

NoSession == [at |-> "none", act |-> 0, told |-> "go"]
Stage(h, at, a) == [session EXCEPT ![h] = [at |-> at, act |-> a, told |-> "go"]]

Init ==
  /\ entry = [m \in Msgs |-> "none"]
  /\ idle = [m \in Msgs |-> 0]
  /\ job = [h \in Handlers |-> Idle]
  /\ session = [h \in Handlers |-> NoSession]
  /\ registry = None
  /\ action = [a \in Actions |-> [at |-> "unsaved", place |-> "team", fate |-> "none"]]
  /\ sent = 0
  /\ answered = {}

-----------------------------------------------------------------------------
(* The actions that wait for the user.                                     *)

Waiting == {a \in Actions : action[a].at = "waiting"}

\* load_by_chat_id: the most recent one, whatever thread it was put in.
Newest(a) == a \in Waiting /\ \A b \in Waiting : b <= a

Save(place) ==
  \E a \in Actions :
    /\ action[a].at = "unsaved" /\ \A b \in Actions : b < a => action[b].at # "unsaved"
    /\ action' = [action EXCEPT ![a] = [at |-> "waiting", place |-> place, fate |-> "none"]]

Settled(a, fate) == [action EXCEPT ![a].at = "gone", ![a].fate = fate]

\* A message that does not address the bot is heard while an action waits for an
\* answer.  The handler looks for it in the old place only.
Heard(m) == m \in Mentioned \/ \E a \in Waiting : action[a].place = "legacy"

-----------------------------------------------------------------------------
(* The deduper.                                                            *)

\* Faulty variant: the entry of a message is dropped a tick early.
ExpiredEarly(m) == idle[m] >= Ttl

\* _prune: the entry has not been seen for longer than the TTL.
Expired(m) == idle[m] > Ttl

Kept == [m \in Msgs |-> IF Expired(m) THEN "none" ELSE entry[m]]

\* The platform delivers m to handler h: should_process either notes the
\* duplicate or lets the handler begin.
Deliver(h, m) ==
  /\ job[h].pc = "idle" /\ session[h].at = "none"
  /\ sent < MaxDeliveries /\ Heard(m)
  /\ sent' = sent + 1
  /\ idle' = [idle EXCEPT ![m] = 0]
  /\ IF Kept[m] # "none"
       THEN /\ entry' = Kept
            /\ UNCHANGED job
       ELSE /\ entry' = [Kept EXCEPT ![m] = "in_progress"]
            /\ job' = [job EXCEPT ![h] = [pc |-> "loading", msg |-> m, ran |-> 0]]
  /\ UNCHANGED <<session, registry, action, answered>>

\* Talk in a group that is none of the bot's business, the answer to an action
\* older than PENDING_BYPASS_TTL_SECONDS included.  The deduper never sees it.
Ignore(m) ==
  /\ m \notin Mentioned
  /\ sent < MaxDeliveries
  /\ sent' = sent + 1
  /\ UNCHANGED <<entry, idle, job, session, registry, action, answered>>

-----------------------------------------------------------------------------
(* The handler.                                                            *)

\* _load_inbound_message returns; an error or an empty message is answered.
Load(h) ==
  /\ job[h].pc = "loading"
  /\ \/ /\ job' = At(h, "running")
        /\ session' = Stage(h, "queued", 0)
     \/ /\ job' = At(h, "replying")
        /\ UNCHANGED session
  /\ UNCHANGED <<entry, idle, registry, action, sent, answered>>

\* Faulty variant: future.result() waits for the coroutine without a limit.
GiveUpLoading(h) ==
  /\ job[h].pc = "loading" /\ job[h].ran = Timeout
  /\ job' = At(h, "replying")
  /\ UNCHANGED <<entry, idle, session, registry, action, sent, answered>>

\* future.result(timeout) gives up, and asks the loop to cancel the coroutine.
GiveUp(h) ==
  /\ job[h].pc \in {"loading", "running"} /\ job[h].ran = Timeout
  /\ job' = At(h, "replying")
  /\ session' = IF session[h].at = "none" THEN session
                ELSE [session EXCEPT ![h].told = "stop"]
  /\ UNCHANGED <<entry, idle, registry, action, sent, answered>>

\* mark_finished(keep=ok), after its _prune.
MarkFinished(m, ok) == [Kept EXCEPT ![m] = IF ok THEN "completed" ELSE "none"]

\* The reply is sent, or fails to be.
Reply(h, ok) ==
  LET m == job[h].msg
  IN  /\ job[h].pc = "replying"
      /\ entry' = MarkFinished(m, ok)
      /\ idle' = [idle EXCEPT ![m] = 0]
      /\ answered' = IF ok THEN answered \cup {m} ELSE answered
      /\ job' = [job EXCEPT ![h] = Idle]
      /\ UNCHANGED <<session, registry, action, sent>>

-----------------------------------------------------------------------------
(* The coroutine process_role_message.                                     *)

\* It returns: the handler gets its result, unless it has given up.
Return(h) ==
  /\ session' = [session EXCEPT ![h] = NoSession]
  /\ job' = IF job[h].pc = "running" THEN At(h, "replying") ELSE job

Runs(h)  == session[h].at # "none" /\ session[h].told = "go"
Loops(h) == session[h].at = "looping" /\ session[h].told # "stop"

\* "stop": the registered token is set, whatever it stops, and the message is
\* done.  What a set token does is the business of the tool loop.
StopLive(h) ==
  /\ session[h].at = "queued" /\ Runs(h)
  /\ Text[job[h].msg] \in LiveCancel
  /\ registry # None
  /\ Return(h)
  /\ UNCHANGED <<entry, idle, registry, action, sent, answered>>

\* Not a stop, or nothing is registered to stop.
GoesOn(h) ==
  /\ session[h].at = "queued" /\ Runs(h)
  /\ Text[job[h].msg] \in LiveCancel => registry = None

\* Faulty variant: a confirmed action is deleted first and executed then.
DeleteThenExecute(h, a) ==
  IF action[a].place = "legacy"
    THEN Return(h) /\ action' = Settled(a, "ran")
    ELSE /\ session' = Stage(h, "executing", a)
         /\ action' = [action EXCEPT ![a].at = "gone"]
         /\ UNCHANGED job

\* A confirmed action is executed and then deleted.  The hard reset does not
\* await anything; the progress sync does.
Execute(h, a) ==
  IF action[a].place = "legacy"
    THEN Return(h) /\ action' = Settled(a, "ran")
    ELSE /\ session' = Stage(h, "executing", a)
         /\ UNCHANGED <<action, job>>

\* _handle_pending_action with an action waiting: execute it, drop it, or remind.
Answer(h) ==
  /\ GoesOn(h) /\ Bot = "tech_lead"
  /\ \E a \in Actions :
       /\ Newest(a)
       /\ CASE Text[job[h].msg] = "confirm"       -> Execute(h, a)
            [] Text[job[h].msg] \in PendingCancel -> Return(h) /\ action' = Settled(a, "refused")
            [] OTHER                              -> Return(h) /\ UNCHANGED action
  /\ UNCHANGED <<entry, idle, registry, sent, answered>>

\* The progress sync ends, well or not, and the file goes.
ExecuteEnd(h) ==
  /\ session[h].at = "executing" /\ Runs(h)
  /\ action' = Settled(session[h].act, "ran")
  /\ Return(h)
  /\ UNCHANGED <<entry, idle, registry, sent, answered>>

\* The product manager does not look at what waits, and registers no token.
Begins(h) == GoesOn(h) /\ (Bot = "tech_lead" => Waiting = {})
Registered(token) == IF Bot = "tech_lead" THEN token ELSE registry

\* The preflight, which may put a hard reset to the user, and a token of its own
\* for the tool loop.
OpenLoop(h) ==
  /\ Begins(h)
  /\ Save("legacy") \/ UNCHANGED action
  /\ registry' = Registered(h)
  /\ session' = Stage(h, "looping", 0)
  /\ UNCHANGED <<entry, idle, job, sent, answered>>

\* Once the token is registered, an error in what the loop is built from, a prompt
\* file that cannot be read for one, ends the message and leaves the token.
OpenFails(h) ==
  /\ Begins(h)
  /\ Save("legacy") \/ UNCHANGED action
  /\ registry' = Registered(Stale)
  /\ Return(h)
  /\ UNCHANGED <<entry, idle, sent, answered>>

\* request_confirmation, a tool of the tech lead's loop.
PutToUser(h) ==
  /\ Loops(h) /\ Bot = "tech_lead"
  /\ Save("team")
  /\ UNCHANGED <<entry, idle, job, session, registry, sent, answered>>

\* The loop returns or raises, and whatever is registered under the key is
\* cleared.
CloseLoop(h) ==
  /\ Loops(h)
  /\ registry' = Registered(None)
  /\ Return(h)
  /\ UNCHANGED <<entry, idle, action, sent, answered>>

\* CancelledError reaches the coroutine: no "except Exception" of its own sees
\* it, so the token stays registered and the action stays on file.
Killed(h) ==
  /\ session[h].told = "stop"
  /\ session' = [session EXCEPT ![h] = NoSession]
  /\ registry' = IF registry = h THEN Stale ELSE registry
  /\ UNCHANGED <<entry, idle, job, action, sent, answered>>

\* It reaches it in a request to a provider.  The pool takes it for an error of
\* that provider and sends to the next; with none left the session of the tool
\* loop, or that of the sub-agent it waits for, merely fails.
CancelLost(h) ==
  /\ session[h].told = "stop" /\ session[h].at = "looping"
  /\ \/ /\ session' = [session EXCEPT ![h].told = "missed"]
        /\ UNCHANGED registry
     \/ /\ session' = [session EXCEPT ![h] = NoSession]
        /\ registry' = Registered(None)
  /\ UNCHANGED <<entry, idle, job, action, sent, answered>>

-----------------------------------------------------------------------------
(* The process and the clock.                                              *)

\* The process dies and is started again; the files of the actions survive.
Crash ==
  /\ entry' = [m \in Msgs |-> "none"]
  /\ idle' = [m \in Msgs |-> 0]
  /\ job' = [h \in Handlers |-> Idle]
  /\ session' = [h \in Handlers |-> NoSession]
  /\ registry' = None
  /\ answered' = {}
  /\ UNCHANGED <<action, sent>>

\* A handler gives up on time, and sending a reply takes none.
Tick ==
  /\ \A h \in Handlers : /\ job[h].pc # "replying"
                         /\ job[h].pc # "idle" => job[h].ran < Timeout
  /\ job' = [h \in Handlers |->
               IF job[h].pc = "idle" THEN job[h] ELSE [job[h] EXCEPT !.ran = @ + 1]]
  /\ idle' = [m \in Msgs |->
                IF entry[m] # "none" /\ idle[m] <= Ttl THEN idle[m] + 1 ELSE idle[m]]
  /\ answered' = {m \in answered : idle'[m] <= Ttl}
  /\ UNCHANGED <<entry, session, registry, action, sent>>

Next ==
  \/ \E h \in Handlers :
       \/ \E m \in Msgs : Deliver(h, m)
       \/ Load(h) \/ GiveUp(h) \/ \E ok \in BOOLEAN : Reply(h, ok)
       \/ StopLive(h) \/ Answer(h) \/ ExecuteEnd(h)
       \/ OpenLoop(h) \/ OpenFails(h) \/ PutToUser(h) \/ CloseLoop(h)
       \/ Killed(h) \/ CancelLost(h)
  \/ \E m \in Msgs : Ignore(m)
  \/ Crash \/ Tick

Spec == Init /\ [][Next]_vars

\* The clock runs, the thread that waits on the future wakes when it must, and a
\* reply ends one way or the other.  Nothing is asked of the coroutine: it may
\* hang anywhere.
Fairness ==
  /\ WF_vars(Tick)
  /\ \A h \in Handlers : WF_vars(GiveUp(h) \/ Reply(h, TRUE) \/ Reply(h, FALSE))

FairSpec == Spec /\ Fairness

-----------------------------------------------------------------------------
(* Properties.                                                             *)

\* Types, and what a handler waits for is there.
TypeOK ==
  /\ entry \in [Msgs -> {"none", "in_progress", "completed"}]
  /\ idle \in [Msgs -> 0 .. Ttl + 1]
  /\ job \in [Handlers -> [pc : {"idle", "loading", "running", "replying"},
                           msg : Msgs \cup {None}, ran : 0 .. Timeout]]
  /\ session \in [Handlers -> [at : {"none", "queued", "looping", "executing"},
                               act : 0 .. MaxActions, told : {"go", "stop", "missed"}]]
  /\ registry \in Handlers \cup {None, Stale}
  /\ action \in [Actions -> [at : {"unsaved", "waiting", "gone"},
                             place : {"team", "legacy"}, fate : {"none", "ran", "refused"}]]
  /\ sent \in 0 .. MaxDeliveries
  /\ answered \subseteq Msgs
  /\ \A h \in Handlers : job[h].pc = "running" <=> Runs(h)

\* A message is handled by one handler and answered once while the deduper's
\* TTL lasts, however often it is delivered and however long the handler takes:
\* no handler ever works on an answered message (feishu_ws_main.py:513, 565).
AnsweredOnce == \A h \in Handlers : job[h].msg \notin answered

\* An action that was put to the user leaves its file only when the user has
\* refused it or after it was carried out to its end; no crash and no timeout
\* between the confirmation and the end loses it
\* (feishu_runtime_service.py:2651-2667).
ConfirmedActionRuns ==
  \A a \in Actions : action[a].at = "gone" => action[a].fate # "none"

\* Whatever the coroutine does, the handler comes to its end, so that the
\* message is answered or left to a redelivery (feishu_ws_main.py:370-380).
HandlerFinishes == \A h \in Handlers : job[h].pc # "idle" ~> job[h].pc = "idle"

\* Once a handler has given its coroutine up and reported the timeout, the
\* coroutine uses no tool any more: it is cancelled "so it doesn't keep
\* dispatching sub-agents after we've already reported" (feishu_ws_main.py:373-375).
NothingAfterTimeout ==
  [][\A h \in Handlers : PutToUser(h) => job[h].pc = "running"]_vars

\* "A token is only registered while a tool loop is running"
\* (feishu_runtime_service.py:2067-2069).
TokenMeansRunning == registry # None => \E h \in Handlers : session[h].at = "looping"

\* While an action waits, a confirmation is taken as its answer and never as a new
\* request: "_handle_pending_action in the PM entry point picks up the reply on the
\* next user message" (feishu_runtime_service.py:2949-2950).
ConfirmationIsHeard ==
  [][\A h \in Handlers :
       session[h].at = "queued" /\ Text[job[h].msg] = "confirm" /\ session'[h].at = "looping"
         => Waiting = {}]_vars

=============================================================================
