-------------------------- MODULE ConversationProofs --------------------------
(***************************************************************************)
(* Proofs about Conversation: its types, and that a message is handled by  *)
(* one handler and answered once, for any number of handlers and messages  *)
(* and every timeout of which the TTL holds two.                           *)
(***************************************************************************)
EXTENDS Conversation, TLAPS

\* A coroutine that is not there has not been killed, and an idle handler is at
\* no message.
Tidy ==
  \A h \in Handlers : /\ session[h].at = "none" => session[h].told = "go"
                      /\ job[h].pc = "loading" => session[h].at = "none"
                      /\ job[h].pc = "idle" => job[h].msg = None

\* The deduper holds the message of a busy handler, and has seen it so lately
\* that it cannot forget it before the handler is done.
Held ==
  \A h \in Handlers :
    /\ job[h].pc # "idle"     => job[h].msg \in Msgs /\ entry[job[h].msg] = "in_progress"
    /\ job[h].pc = "loading"  => idle[job[h].msg] <= job[h].ran
    /\ job[h].pc = "running"  => idle[job[h].msg] <= Timeout + job[h].ran
    /\ job[h].pc = "replying" => idle[job[h].msg] <= 2 * Timeout

\* No two handlers are at one message.
Alone ==
  \A g, h \in Handlers :
    job[g].pc # "idle" /\ job[h].pc # "idle" /\ job[g].msg = job[h].msg => g = h

\* The deduper holds an answered message as completed.
Remembered == \A m \in answered : entry[m] = "completed" /\ idle[m] <= Ttl

Inv == TypeOK /\ Tidy /\ Held /\ Alone /\ Remembered

-----------------------------------------------------------------------------
LEMMA InitInv == Init => Inv
<1> SUFFICES ASSUME Init PROVE Inv
  OBVIOUS
<1> USE ConversationAssumption DEF Init, Idle, NoSession
<1>1. TypeOK
  BY DEF TypeOK, Runs
<1>2. Tidy /\ Held /\ Alone /\ Remembered
  BY DEF Tidy, Held, Alone, Remembered
<1> QED
  BY <1>1, <1>2 DEF Inv

\* What the deduper keeps is well typed, and keeps what was seen lately.
LEMMA KeptType ==
  ASSUME TypeOK
  PROVE  /\ Kept \in [Msgs -> {"none", "in_progress", "completed"}]
         /\ \A m \in Msgs : idle[m] <= Ttl => Kept[m] = entry[m]
BY ConversationAssumption DEF TypeOK, Kept, Expired

LEMMA DeliverInv ==
  ASSUME Inv, NEW h \in Handlers, NEW m \in Msgs, Deliver(h, m)
  PROVE  Inv'
<1> USE ConversationAssumption DEF Inv
<1>1. /\ Kept \in [Msgs -> {"none", "in_progress", "completed"}]
      /\ \A n \in Msgs : idle[n] <= Ttl => Kept[n] = entry[n]
  BY KeptType
<1>2. \A g \in Handlers : job[g].pc # "idle" =>
        /\ idle[job[g].msg] <= Ttl
        /\ Kept[job[g].msg] = "in_progress"
  BY <1>1 DEF Held, TypeOK
<1>3. \A n \in answered : Kept[n] = "completed"
  BY <1>1 DEF Remembered, TypeOK
<1>4. /\ idle' = [idle EXCEPT ![m] = 0] /\ UNCHANGED <<session, registry, action, answered>>
      /\ sent' = sent + 1 /\ sent < MaxDeliveries
  BY DEF Deliver
<1>5. CASE Kept[m] # "none"
  <2>1. entry' = Kept /\ job' = job
    BY <1>5 DEF Deliver
  <2>2. TypeOK'
    BY <1>1, <1>4, <2>1 DEF TypeOK, Runs
  <2>3. Tidy' /\ Alone'
    BY <1>4, <2>1 DEF Tidy, Alone
  <2>4. Held'
    BY <1>2, <1>4, <2>1 DEF Held, TypeOK
  <2>5. Remembered'
    BY <1>3, <1>4, <2>1 DEF Remembered, TypeOK
  <2> QED
    BY <2>2, <2>3, <2>4, <2>5
<1>6. CASE Kept[m] = "none"
  <2>1. /\ entry' = [Kept EXCEPT ![m] = "in_progress"]
        /\ job' = [job EXCEPT ![h] = [pc |-> "loading", msg |-> m, ran |-> 0]]
        /\ job[h].pc = "idle" /\ session[h].at = "none"
    BY <1>6 DEF Deliver
  <2>2. TypeOK'
    BY <1>1, <1>4, <2>1 DEF TypeOK, Runs
  <2>3. Tidy'
    BY <1>4, <2>1 DEF Tidy, TypeOK
  <2>4. \A g \in Handlers : job[g].pc # "idle" => job[g].msg # m
    BY <1>2, <1>6
  <2>5. Alone'
    BY <2>1, <2>4 DEF Alone, TypeOK
  <2>6. Held'
    BY <1>1, <1>2, <1>4, <2>1, <2>4 DEF Held, TypeOK
  <2>7. Remembered'
    BY <1>1, <1>3, <1>4, <1>6, <2>1 DEF Remembered, TypeOK
  <2> QED
    BY <2>2, <2>3, <2>5, <2>6, <2>7
<1> QED
  BY <1>5, <1>6

\* The steps that move one handler on without the deduper: its message stays held
\* if what it has run is accounted for.
LEMMA JobStepInv ==
  ASSUME Inv, TypeOK', Tidy',
         NEW h \in Handlers, NEW pc, job' = At(h, pc),
         UNCHANGED <<entry, idle, answered>>,
         job[h].pc # "idle",
         \/ pc = "running" /\ job[h].pc = "loading"
         \/ pc = "replying"
  PROVE  Inv'
<1> USE ConversationAssumption DEF Inv
<1>1. Held'
  BY DEF Held, TypeOK, At
<1>2. Alone'
  BY DEF Alone, TypeOK, At
<1>3. Remembered'
  BY DEF Remembered
<1> QED
  BY <1>1, <1>2, <1>3

\* The steps that touch neither handler nor deduper.
LEMMA QuietStepInv ==
  ASSUME Inv, TypeOK', Tidy', UNCHANGED <<entry, idle, job, answered>>
  PROVE  Inv'
BY DEF Inv, Held, Alone, Remembered
LEMMA LoadInv ==
  ASSUME Inv, NEW h \in Handlers, Load(h)
  PROVE  Inv'
<1> USE ConversationAssumption DEF Inv
<1>1. PICK pc \in {"running", "replying"} :
        /\ job' = At(h, pc)
        /\ session' = IF pc = "running" THEN Stage(h, "queued", 0) ELSE session
  BY DEF Load
<1>2. /\ job[h].pc = "loading" /\ session[h].at = "none" /\ session[h].told = "go"
      /\ UNCHANGED <<entry, idle, registry, action, sent, answered>>
  BY DEF Load, Tidy
<1>3. TypeOK'
  BY <1>1, <1>2 DEF TypeOK, At, Runs, Stage
<1>4. Tidy'
  BY <1>1, <1>2 DEF Tidy, TypeOK, At, Stage
<1> QED
  BY <1>1, <1>2, <1>3, <1>4, JobStepInv

LEMMA GiveUpInv ==
  ASSUME Inv, NEW h \in Handlers, GiveUp(h)
  PROVE  Inv'
<1> USE ConversationAssumption DEF Inv
<1>1. /\ job' = At(h, "replying") /\ job[h].pc # "idle"
      /\ UNCHANGED <<entry, idle, registry, action, sent, answered>>
  BY DEF GiveUp
<1>2. \/ session[h].at = "none" /\ session' = session
      \/ session[h].at # "none" /\ session' = [session EXCEPT ![h].told = "stop"]
  BY DEF GiveUp
<1>3. TypeOK'
  <2>1. session' \in [Handlers -> [at : {"none", "queued", "looping", "executing"},
                                   act : 0 .. MaxActions, told : {"go", "stop", "missed"}]]
    BY <1>2, SMTT(30) DEF TypeOK
  <2>2. \A g \in Handlers : job'[g].pc = "running" <=> Runs(g)'
    BY <1>1, <1>2 DEF TypeOK, At, Runs
  <2>3. job' \in [Handlers -> [pc : {"idle", "loading", "running", "replying"},
                              msg : Msgs \cup {None}, ran : 0 .. Timeout]]
    BY <1>1 DEF TypeOK, At
  <2> QED
    BY <1>1, <2>1, <2>2, <2>3 DEF TypeOK
<1>4. Tidy'
  BY <1>1, <1>2 DEF Tidy, TypeOK, At
<1> QED
  BY <1>1, <1>3, <1>4, JobStepInv

LEMMA ReplyInv ==
  ASSUME Inv, NEW h \in Handlers, NEW ok \in BOOLEAN, Reply(h, ok)
  PROVE  Inv'
<1> USE ConversationAssumption DEF Inv
<1> DEFINE m == job[h].msg
<1>1. /\ Kept \in [Msgs -> {"none", "in_progress", "completed"}]
      /\ \A n \in Msgs : idle[n] <= Ttl => Kept[n] = entry[n]
  BY KeptType
<1>2. /\ job[h].pc = "replying" /\ m \in Msgs
      /\ job' = [job EXCEPT ![h] = Idle]
      /\ idle' = [idle EXCEPT ![m] = 0]
      /\ UNCHANGED <<session, registry, action, sent>>
  BY DEF Reply, Held
<1>3. entry' = [Kept EXCEPT ![m] = IF ok THEN "completed" ELSE "none"]
  BY DEF Reply, MarkFinished
<1>4. answered' \in {answered, answered \cup {m}} /\ (m \in answered' => ok)
  <2>1. m \notin answered
    BY <1>2 DEF Held, Remembered
  <2> QED
    BY <2>1 DEF Reply
<1>5. \A g \in Handlers : g # h /\ job[g].pc # "idle" => 
        /\ job[g].msg # m
        /\ idle[job[g].msg] <= Ttl
        /\ Kept[job[g].msg] = "in_progress"
  BY <1>1, <1>2 DEF Held, Alone, TypeOK
<1>6. \A n \in answered : Kept[n] = "completed"
  BY <1>1 DEF Remembered, TypeOK
<1>7. TypeOK'
  BY <1>1, <1>2, <1>3, <1>4 DEF TypeOK, Runs, Idle
<1>8. Tidy'
  BY <1>2 DEF Tidy, TypeOK, Idle
<1>9. Held'
  BY <1>2, <1>3, <1>5, <1>1 DEF Held, TypeOK, Idle
<1>10. Alone'
  BY <1>2 DEF Alone, TypeOK, Idle
<1>11. Remembered'
  BY <1>1, <1>2, <1>3, <1>4, <1>6 DEF Remembered, TypeOK
<1> QED
  BY <1>7, <1>8, <1>9, <1>10, <1>11

-----------------------------------------------------------------------------
(* The coroutine.                                                          *)

\* A coroutine that is not killed is what its handler waits for, so that it
\* returns to it.
LEMMA ReturnInv ==
  ASSUME Inv, NEW h \in Handlers, Runs(h), Return(h),
         action' \in [Actions -> [at : {"unsaved", "waiting", "gone"},
                                  place : {"team", "legacy"}, fate : {"none", "ran", "refused"}]],
         registry' \in Handlers \cup {None, Stale},
         UNCHANGED <<entry, idle, sent, answered>>
  PROVE  Inv'
<1> USE ConversationAssumption DEF Inv
<1>1. /\ job[h].pc = "running" /\ job' = At(h, "replying")
      /\ session' = [session EXCEPT ![h] = NoSession]
  BY DEF TypeOK, Return
<1>2. TypeOK'
  BY <1>1 DEF TypeOK, At, Runs, NoSession
<1>3. Tidy'
  BY <1>1 DEF Tidy, TypeOK, At, NoSession
<1> QED
  BY <1>1, <1>2, <1>3, JobStepInv

\* It goes on.
LEMMA GoOnInv ==
  ASSUME Inv, NEW h \in Handlers, Runs(h),
         NEW at \in {"queued", "looping", "executing"}, NEW act \in 0 .. MaxActions,
         session' = Stage(h, at, act),
         action' \in [Actions -> [at : {"unsaved", "waiting", "gone"},
                                  place : {"team", "legacy"}, fate : {"none", "ran", "refused"}]],
         registry' \in Handlers \cup {None, Stale},
         UNCHANGED <<entry, idle, job, sent, answered>>
  PROVE  Inv'
<1> USE DEF Inv
<1>1. session' \in [Handlers -> [at : {"none", "queued", "looping", "executing"},
                                 act : 0 .. MaxActions, told : {"go", "stop", "missed"}]]
  BY DEF TypeOK, Stage
<1>2. \A g \in Handlers : /\ session'[g].at = "none" <=> session[g].at = "none"
                          /\ session'[g].told = session[g].told
  BY DEF TypeOK, Runs, Stage
<1>3. TypeOK' /\ Tidy'
  BY <1>1, <1>2 DEF TypeOK, Tidy, Runs
<1> QED
  BY <1>3, QuietStepInv

LEMMA SettledType ==
  ASSUME TypeOK, NEW a, NEW fate \in {"ran", "refused"}
  PROVE  Settled(a, fate) \in
           [Actions -> [at : {"unsaved", "waiting", "gone"},
                        place : {"team", "legacy"}, fate : {"none", "ran", "refused"}]]
<1>1. action \in [Actions -> [at : {"unsaved", "waiting", "gone"},
                              place : {"team", "legacy"}, fate : {"none", "ran", "refused"}]]
  BY DEF TypeOK
<1>2. CASE a \in Actions
  BY ONLY <1>1, <1>2, fate \in {"ran", "refused"} DEF Settled
<1>3. CASE a \notin Actions
  BY ONLY <1>1, <1>3 DEF Settled
<1> QED
  BY <1>2, <1>3

LEMMA SaveType ==
  ASSUME TypeOK, NEW place \in {"team", "legacy"}, Save(place)
  PROVE  action' \in
           [Actions -> [at : {"unsaved", "waiting", "gone"},
                        place : {"team", "legacy"}, fate : {"none", "ran", "refused"}]]
<1>1. PICK a \in Actions :
        action' = [action EXCEPT ![a] = [at |-> "waiting", place |-> place, fate |-> "none"]]
  BY DEF Save
<1> QED
  BY <1>1 DEF TypeOK

\* A coroutine that its handler no longer waits for comes to an end.
LEMMA EndInv ==
  ASSUME Inv, NEW h \in Handlers, ~Runs(h),
         session' = [session EXCEPT ![h] = NoSession],
         registry' \in {registry, None, Stale},
         UNCHANGED <<entry, idle, job, action, sent, answered>>
  PROVE  Inv'
<1>1. TypeOK' /\ Tidy'
  BY ConversationAssumption DEF Inv, TypeOK, Tidy, Runs, NoSession
<1> QED
  BY <1>1, QuietStepInv

LEMMA CoroutineInv ==
  ASSUME Inv, NEW h \in Handlers,
         \/ StopLive(h) \/ Answer(h) \/ ExecuteEnd(h)
         \/ OpenLoop(h) \/ OpenFails(h) \/ PutToUser(h) \/ CloseLoop(h)
  PROVE  Inv'
<1> DEFINE Typed(f) == f \in [Actions -> [at : {"unsaved", "waiting", "gone"},
                        place : {"team", "legacy"}, fate : {"none", "ran", "refused"}]]
<1>t. /\ TypeOK /\ Tidy /\ Typed(action) /\ registry \in Handlers \cup {None, Stale}
      /\ \A a \in Actions : a \in 0 .. MaxActions
  BY ConversationAssumption DEF Inv, TypeOK, Actions
<1>1. CASE StopLive(h)
  BY <1>1, <1>t, ReturnInv DEF StopLive
<1>2. CASE Answer(h)
  <2>1. Runs(h) /\ UNCHANGED <<entry, idle, registry, sent, answered>>
    BY <1>2 DEF Answer, GoesOn
  <2>2. PICK a \in Actions :
          CASE Text[job[h].msg] = "confirm"       -> Execute(h, a)
            [] Text[job[h].msg] \in PendingCancel -> Return(h) /\ action' = Settled(a, "refused")
            [] OTHER                              -> Return(h) /\ UNCHANGED action
    BY <1>2 DEF Answer
  <2>3. \/ Return(h) /\ action' = Settled(a, "ran")
        \/ Return(h) /\ action' = Settled(a, "refused")
        \/ Return(h) /\ action' = action
        \/ session' = Stage(h, "executing", a) /\ UNCHANGED <<action, job>>
    BY <2>2 DEF Execute
  <2>4. CASE Return(h) /\ action' = Settled(a, "ran")
    BY <2>1, <2>4, <1>t, ReturnInv, SettledType
  <2>5. CASE Return(h) /\ action' = Settled(a, "refused")
    BY <2>1, <2>5, <1>t, ReturnInv, SettledType
  <2>6. CASE Return(h) /\ action' = action
    BY <2>1, <2>6, <1>t, ReturnInv
  <2>7. CASE session' = Stage(h, "executing", a) /\ UNCHANGED <<action, job>>
    BY <2>1, <2>2, <2>7, <1>t, GoOnInv
  <2> QED
    BY <2>3, <2>4, <2>5, <2>6, <2>7
<1>3. CASE ExecuteEnd(h)
  BY <1>3, <1>t, ReturnInv, SettledType DEF ExecuteEnd
<1>4. Save("legacy") \/ UNCHANGED action => Typed(action')
  BY <1>t, SaveType
<1>5. CASE OpenLoop(h)
  <2>1. Runs(h) /\ Typed(action') /\ registry' \in Handlers \cup {None, Stale}
    BY <1>4, <1>5, <1>t DEF OpenLoop, Begins, GoesOn, Registered
  <2>2. 0 \in 0 .. MaxActions
    BY ConversationAssumption
  <2> QED
    BY <1>5, <2>1, <2>2, GoOnInv DEF OpenLoop
<1>6. CASE OpenFails(h)
  <2>1. Runs(h) /\ Typed(action') /\ registry' \in Handlers \cup {None, Stale}
    BY <1>4, <1>6, <1>t DEF OpenFails, Begins, GoesOn, Registered
  <2> QED
    BY <1>6, <2>1, ReturnInv DEF OpenFails
<1>7. CASE PutToUser(h)
  <2>1. Typed(action')
    BY <1>7, <1>t, SaveType DEF PutToUser
  <2>2. UNCHANGED <<entry, idle, job, session, registry, sent, answered>>
    BY <1>7 DEF PutToUser
  <2>3. TypeOK' /\ Tidy'
    BY <2>1, <2>2, <1>t DEF TypeOK, Tidy, Runs
  <2> QED
    BY <2>2, <2>3, QuietStepInv
<1>8. CASE CloseLoop(h)
  <2>1. CASE Runs(h)
    BY <1>8, <2>1, <1>t, ReturnInv DEF CloseLoop, Registered
  <2>2. CASE ~Runs(h)
    <3>1. /\ session' = [session EXCEPT ![h] = NoSession] /\ registry' \in {registry, None}
          /\ UNCHANGED <<entry, idle, job, action, sent, answered>>
      BY <1>8, <2>2, <1>t DEF CloseLoop, Registered, Return, TypeOK
    <3> QED
      BY <2>2, <3>1, EndInv
  <2> QED
    BY <2>1, <2>2
<1> QED
  BY <1>1, <1>2, <1>3, <1>5, <1>6, <1>7, <1>8

LEMMA KilledInv ==
  ASSUME Inv, NEW h \in Handlers, Killed(h) \/ CancelLost(h)
  PROVE  Inv'
<1>1. session[h].told = "stop" /\ ~Runs(h)
  BY DEF Killed, CancelLost, Runs
<1>2. CASE /\ session' = [session EXCEPT ![h] = NoSession]
           /\ registry' \in {registry, None, Stale}
           /\ UNCHANGED <<entry, idle, job, action, sent, answered>>
  BY <1>1, <1>2, EndInv
<1>3. CASE /\ session' = [session EXCEPT ![h].told = "missed"]
           /\ session[h].at = "looping"
           /\ UNCHANGED <<entry, idle, job, registry, action, sent, answered>>
  <2>1. TypeOK' /\ Tidy'
    BY <1>1, <1>3 DEF Inv, TypeOK, Tidy, Runs
  <2> QED
    BY <1>3, <2>1, QuietStepInv
<1> QED
  BY <1>2, <1>3 DEF Killed, CancelLost, Registered

-----------------------------------------------------------------------------
(* The process and the clock.                                              *)

LEMMA CrashInv == Inv /\ Crash => Inv'
<1> SUFFICES ASSUME Inv, Crash PROVE Inv'
  OBVIOUS
<1> USE ConversationAssumption DEF Crash, Idle, NoSession
<1>1. TypeOK'
  BY DEF Inv, TypeOK, Runs
<1>2. Tidy' /\ Held' /\ Alone' /\ Remembered'
  BY DEF Tidy, Held, Alone, Remembered
<1> QED
  BY <1>1, <1>2 DEF Inv

LEMMA TickInv == Inv /\ Tick => Inv'
<1> SUFFICES ASSUME Inv, Tick PROVE Inv'
  OBVIOUS
<1> USE ConversationAssumption DEF Inv
<1>1. /\ \A h \in Handlers : job[h].pc # "replying"
      /\ \A h \in Handlers : job[h].pc # "idle" => job[h].ran < Timeout
      /\ UNCHANGED <<entry, session, registry, action, sent>>
  BY DEF Tick
<1>2. \A h \in Handlers :
        /\ job'[h].pc = job[h].pc /\ job'[h].msg = job[h].msg
        /\ job'[h].ran \in 0 .. Timeout
        /\ job[h].pc # "idle" => job'[h].ran = job[h].ran + 1
  BY <1>1 DEF Tick, TypeOK
<1>3. /\ idle' \in [Msgs -> 0 .. Ttl + 1]
      /\ \A m \in Msgs : idle'[m] <= idle[m] + 1
  BY DEF Tick, TypeOK
<1>4. answered' = {m \in answered : idle'[m] <= Ttl}
  BY DEF Tick
<1>5. job' \in [Handlers -> [pc : {"idle", "loading", "running", "replying"},
                            msg : Msgs \cup {None}, ran : 0 .. Timeout]]
  BY <1>1 DEF Tick, TypeOK
<1>6. TypeOK'
  BY <1>1, <1>2, <1>3, <1>4, <1>5 DEF TypeOK, Runs
<1>7. Tidy' /\ Alone'
  BY <1>1, <1>2 DEF Tidy, Alone
<1>8. Held'
  <2> SUFFICES ASSUME NEW h \in Handlers, job[h].pc # "idle"
               PROVE  /\ job[h].msg \in Msgs /\ entry[job[h].msg] = "in_progress"
                      /\ job[h].pc = "loading" => idle'[job[h].msg] <= job'[h].ran
                      /\ job[h].pc = "running" => idle'[job[h].msg] <= Timeout + job'[h].ran
    BY <1>1, <1>2 DEF Held
  <2>1. job[h].msg \in Msgs /\ idle'[job[h].msg] <= idle[job[h].msg] + 1
    BY <1>3 DEF Held
  <2> QED
    BY <1>2, <1>3, <2>1 DEF Held, TypeOK
<1>9. Remembered'
  BY <1>1, <1>4 DEF Remembered
<1> QED
  BY <1>6, <1>7, <1>8, <1>9

-----------------------------------------------------------------------------
LEMMA StepInv == Inv /\ [Next]_vars => Inv'
<1> SUFFICES ASSUME Inv, [Next]_vars PROVE Inv'
  OBVIOUS
<1>1. CASE UNCHANGED vars
  BY <1>1 DEF vars, Inv, TypeOK, Tidy, Held, Alone, Remembered, Runs
<1>2. CASE \E h \in Handlers, m \in Msgs : Deliver(h, m)
  BY <1>2, DeliverInv
<1>3. CASE \E h \in Handlers : Load(h) \/ GiveUp(h) \/ Killed(h) \/ CancelLost(h)
  BY <1>3, LoadInv, GiveUpInv, KilledInv
<1>4. CASE \E h \in Handlers, ok \in BOOLEAN : Reply(h, ok)
  BY <1>4, ReplyInv
<1>5. CASE \E h \in Handlers :
              \/ StopLive(h) \/ Answer(h) \/ ExecuteEnd(h)
              \/ OpenLoop(h) \/ OpenFails(h) \/ PutToUser(h) \/ CloseLoop(h)
  BY <1>5, CoroutineInv
<1>6. CASE \E m \in Msgs : Ignore(m)
  <2>1. sent' \in 0 .. MaxDeliveries /\ UNCHANGED <<entry, idle, job, session, registry, action, answered>>
    BY <1>6, ConversationAssumption DEF Ignore, Inv, TypeOK
  <2>2. TypeOK' /\ Tidy'
    BY <2>1 DEF Inv, TypeOK, Tidy, Runs
  <2> QED
    BY <2>1, <2>2, QuietStepInv
<1>7. CASE Crash \/ Tick
  BY <1>7, CrashInv, TickInv
<1> QED
  BY <1>1, <1>2, <1>3, <1>4, <1>5, <1>6, <1>7 DEF Next

\* The types of Conversation, and that a handler waits for a coroutine exactly
\* when there is one that was not cancelled, for every value of the constants.
THEOREM TypeCorrect == Spec => []TypeOK
<1>1. Inv => TypeOK
  BY DEF Inv
<1> QED
  BY <1>1, InitInv, StepInv, PTL DEF Spec

\* Whatever the platform delivers, however late: while the TTL holds twice the
\* timeout, a message is with one handler at a time, and none takes up a message
\* whose reply went out less than a TTL ago.
THEOREM AnswersOnce == Spec => [](AnsweredOnce /\ Alone)
<1>1. Inv => AnsweredOnce /\ Alone
  <2> SUFFICES ASSUME Inv, NEW h \in Handlers, job[h].msg \in answered PROVE FALSE
    BY DEF Inv, AnsweredOnce
  <2>1. job[h].msg \in Msgs /\ job[h].msg # None
    BY ConversationAssumption DEF Inv, TypeOK
  <2>2. entry[job[h].msg] = "in_progress"
    BY <2>1 DEF Inv, Tidy, Held
  <2> QED
    BY <2>2 DEF Inv, Remembered
<1> QED
  BY <1>1, InitInv, StepInv, PTL DEF Spec

\* An action leaves its file only with a fate, whatever crashes or times out
\* between the user's confirmation and the end of what was confirmed.
THEOREM ConfirmedIsDone == Spec => []ConfirmedActionRuns
<1>1. Init => ConfirmedActionRuns
  BY DEF Init, ConfirmedActionRuns
<1>2. ASSUME Inv, ConfirmedActionRuns, [Next]_vars PROVE ConfirmedActionRuns'
  <2> USE <1>2
  <2>1. action \in [Actions -> [at : {"unsaved", "waiting", "gone"},
                      place : {"team", "legacy"}, fate : {"none", "ran", "refused"}]]
    BY DEF Inv, TypeOK
  <2>2. ASSUME NEW place, Save(place) PROVE ConfirmedActionRuns'
    BY <2>1, <2>2 DEF Save, ConfirmedActionRuns
  <2>3. ASSUME NEW a, NEW fate \in {"ran", "refused"}, action' = Settled(a, fate)
        PROVE  ConfirmedActionRuns'
    BY <2>1, <2>3 DEF Settled, ConfirmedActionRuns
  <2>4. CASE action' = action
    BY <2>4 DEF ConfirmedActionRuns
  <2>5. CASE \E h \in Handlers : Answer(h) \/ ExecuteEnd(h)
    BY <2>3, <2>4, <2>5 DEF Answer, Execute, ExecuteEnd
  <2>6. CASE \E h \in Handlers : OpenLoop(h) \/ OpenFails(h) \/ PutToUser(h)
    BY <2>2, <2>4, <2>6 DEF OpenLoop, OpenFails, PutToUser
  <2>7. action' = action \/ \E h \in Handlers :
          \/ Answer(h) \/ ExecuteEnd(h)
          \/ OpenLoop(h) \/ OpenFails(h) \/ PutToUser(h)
    BY DEF Next, vars, Deliver, Ignore, Load, GiveUp, Reply, StopLive, CloseLoop, Killed,
           CancelLost, Crash, Tick
  <2> QED
    BY <2>4, <2>5, <2>6, <2>7
<1> QED
  BY <1>1, <1>2, InitInv, StepInv, PTL DEF Spec
=============================================================================
