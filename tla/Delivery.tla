------------------------------ MODULE Delivery ------------------------------
(***************************************************************************)
(* What follows a push: a pull request (tools/pull_request_service.py),    *)
(* the watch over its checks (tools/ci_watch_service.py) and a deployment  *)
(* (tools/deploy_service.py, called by role_executors/deploy_engineer.py). *)
(*                                                                         *)
(* The messages are those of one bot process.  Opening a pull request and  *)
(* watching it are subprocesses that the coroutine waits for without       *)
(* giving way: they hold the event loop.  A deployment runs in a thread,   *)
(* and a message that is cut off leaves its thread behind.  Meanwhile      *)
(* another process checks out other branches in the shared clone, people   *)
(* push, and the checks of a pull request proceed.                         *)
(***************************************************************************)
EXTENDS Integers, SequencesExt, Absent

CONSTANTS
  Messages,    \* the messages in progress at a time; when one is over another takes its place
  Branches, Trunk,
  Documented,  \* branches that touch docs/
  Project,     \* the project of the messages
  Listings,    \* what deploy_projects/ may hold: its files in the order of their names
  OnDisk,      \* deploy scripts that exist in the project
  Callers,     \* roles under whose name deploy_project is called
  Requests,    \* limits a model asks for, None when it asks for none
  Default, Cap,  \* a project's own limit and _MAX_TIMEOUT_SECONDS
  Hosts        \* [gh, file, env, login]: is gh there, and which credential is where

Protected == {Trunk}
\* deploy_service._ALLOWED_AGENTS
Allowed == {"tech_lead"}
Verdicts == {"success", "failure", "timeout", "unavailable"}

ASSUME DeliveryAssumption ==
  /\ Trunk \in Branches /\ Documented \subseteq Branches
  /\ {Default, Cap} \subseteq Nat \ {0}
  /\ Requests \subseteq Int \cup {None}

VARIABLES
  branch,   \* the branch that is checked out in the clone
  pushed,   \* branches with a counterpart origin/<branch>
  opened,   \* branches with a pull request
  checks,   \* checks[b]: those of the pull request of b
  host,     \* the machine, one of Hosts
  session,  \* session[m]: what the coroutine of message m is doing
  told,     \* told[m]: the verdict on its pull request, if that is what m was told last
  loop,     \* the message whose subprocess holds the event loop, or None
  job       \* job[m]: the deployment thread started for m

github       == <<pushed, opened, checks>>
deliveryVars == <<branch, github, host, session, told, loop, job>>

AtRest == [pc |-> "idle", branch |-> None, warned |-> FALSE]
\* seen: the configuration files when the message began; shared: another deployment
\* began in the same second and writes to the same log.
NoJob == [pc |-> "none", seen |-> <<>>, script |-> None, limit |-> None, shared |-> FALSE]

\* Some pull requests have been there for long.
DeliveryInit ==
  /\ branch \in Branches
  /\ opened \in SUBSET (Branches \ Protected) /\ pushed = {Trunk} \cup opened
  /\ checks = [b \in Branches |-> "none"]
  /\ host \in Hosts
  /\ session = [m \in Messages |-> AtRest]
  /\ told = [m \in Messages |-> "nothing"]
  /\ loop = None
  /\ job = [m \in Messages |-> NoJob]

Goes(m, pc) == session' = [session EXCEPT ![m].pc = pc]
Tell(m, outcome) == told' = [told EXCEPT ![m] = outcome]
\* A step of m needs the event loop, which m itself may hold.
Runs(m, pc) == session[m].pc = pc /\ loop \in {None, m}

\* A tool returns to the session.
Return(m, outcome) ==
  /\ session' = [session EXCEPT ![m] = [AtRest EXCEPT !.pc = "tools"]]
  /\ Tell(m, outcome)
  /\ loop' = None

-----------------------------------------------------------------------------
(* A session, and what goes on around it.                                  *)

Begin(m) ==
  /\ Runs(m, "idle")
  /\ Goes(m, "tools")
  /\ UNCHANGED <<branch, github, host, told, loop, job>>

\* The model is done, or the message is cut off where its coroutine waits.  A thread
\* that has begun goes on; one still queued is taken back.
End(m) ==
  /\ loop = None
  /\ session[m].pc \in {"tools", "await"}
  /\ session' = [session EXCEPT ![m] = AtRest]
  /\ Tell(m, "nothing")
  /\ job' = [job EXCEPT ![m] = IF @.pc \in {"queued", "done"} THEN NoJob ELSE @]
  /\ UNCHANGED <<branch, github, host, loop>>

\* The other bot's preflight, or start_work_branch of another message.
Elsewhere ==
  /\ branch' \in Branches \ {branch}
  /\ UNCHANGED <<github, host, session, told, loop, job>>

\* Somebody pushes: the checks of a pull request start over.
Pushed(b) ==
  /\ b # Trunk
  /\ pushed' = pushed \cup {b}
  /\ checks' = [checks EXCEPT ![b] = "none"]
  /\ UNCHANGED <<branch, opened, host, session, told, loop, job>>

\* Checks are reported, end, or are run again.
Checked(b) ==
  /\ b \in opened
  /\ \E now \in (CASE checks[b] = "none" -> {"pending"}
                   [] checks[b] = "pending" -> {"pass", "fail"}
                   [] OTHER -> {"pending"}) : checks' = [checks EXCEPT ![b] = now]
  /\ UNCHANGED <<branch, pushed, opened, host, session, told, loop, job>>

-----------------------------------------------------------------------------
(* create_pull_request.                                                    *)

\* load_gh_token_from_env_file and build_gh_env: a token in the file goes before one in
\* the environment, and that before what `gh auth login` has left.
Credential(h) ==
  CASE h.file # "none" -> h.file
    [] h.file = "none" /\ h.env # "none" -> h.env
    [] OTHER -> h.login

Authenticated(h) == h.gh /\ Credential(h) = "good"

\* The gates: a current branch that is neither protected nor the base, and is pushed.
OpenStart(m) ==
  /\ loop = None
  /\ session[m].pc = "tools"
  /\ IF branch \in Protected \/ branch \notin pushed
     THEN UNCHANGED <<session, loop>>
     ELSE /\ session' = [session EXCEPT ![m].pc = "docs", ![m].branch = branch]
          /\ loop' = m
  /\ Tell(m, "nothing")
  /\ UNCHANGED <<branch, github, host, job>>

\* _diff_touches_docs compares the base with what is checked out by now.
Warn(m) ==
  /\ Runs(m, "docs")
  /\ session' = [session EXCEPT ![m].pc = "create", ![m].warned = branch \notin Documented]
  /\ UNCHANGED <<branch, github, host, told, loop, job>>

\* Faulty variant: gh chooses the head.
HeadByNow(m) == branch

\* --head: the branch that has passed the gates.
PrHead(m) == session[m].branch

\* gh opens one pull request of a branch.  The call may fail, and it may have opened one
\* when it times out or prints no address.
Create(m) ==
  LET b == PrHead(m) IN
  /\ Runs(m, "create")
  /\ \/ /\ Authenticated(host) /\ b \notin opened
        /\ opened' = opened \cup {b}
        /\ checks' = [checks EXCEPT ![b] = "none"]
     \/ UNCHANGED <<opened, checks>>
  /\ Return(m, "nothing")
  /\ UNCHANGED <<branch, pushed, host, job>>

-----------------------------------------------------------------------------
(* watch_pr_checks: the loop is held until gh ends or its limit is over.    *)

WatchStart(m, b) ==
  /\ loop = None
  /\ session[m].pc = "tools"
  /\ b \in opened
  /\ session' = [session EXCEPT ![m].pc = "watch", ![m].branch = b]
  /\ loop' = m
  /\ Tell(m, "nothing")
  /\ UNCHANGED <<branch, github, host, job>>

\* `gh pr checks --watch --fail-fast` ends: 0 when all have passed; something else when one
\* has failed, when there are none, without a network or without a login.  A gh without a
\* login is known by a phrase of its output, if that has one.
WatchEnds(m) ==
  LET c == checks[session[m].branch] IN
  /\ Runs(m, "watch")
  /\ \/ ~Authenticated(host) /\ Return(m, "unavailable")
     \/ Authenticated(host) /\ c = "pass" /\ Return(m, "success")
     \/ host.gh /\ Goes(m, "jobs") /\ UNCHANGED <<told, loop>>
  /\ UNCHANGED <<branch, github, host, job>>

\* _clamp_timeout always gives a limit; what is still pending is asked for, and told.
WatchTimesOut(m) ==
  /\ host.gh
  /\ Runs(m, "watch")
  /\ Return(m, "timeout")
  /\ UNCHANGED <<branch, github, host, job>>

\* _fetch_jobs asks again, and by now the answer may be another, or none.
Failing(b) == {{}} \cup (IF Authenticated(host) /\ checks[b] = "fail" THEN {{b}} ELSE {})

\* The exit code decides, 8 (pending) included; the jobs are only listed.
Judge(m) ==
  /\ Runs(m, "jobs")
  /\ \E failing \in Failing(session[m].branch), rc \in {1, 8} :
       /\ rc = 8 => Authenticated(host)
       /\ Return(m, IF rc = 8 THEN "timeout" ELSE "failure")
  /\ UNCHANGED <<branch, github, host, job>>

-----------------------------------------------------------------------------
(* deploy_project.                                                         *)

\* parse_deploy_project_config: a file of the project that says where its script is.
Configures(file) == file.kind = "config" /\ file.project = Project

\* load_deploy_project_configs: templates and malformed files are skipped, a later file of
\* a project overrides an earlier one.
Load(files) ==
  FoldLeft(LAMBDA cfg, file : IF Configures(file) THEN file.script ELSE cfg,
           None, files)

\* Faulty variant: the limit of the call only.
LimitRequested(request) == request

\* _resolve_timeout
TimeLimit(request) ==
  LET base == IF request = None THEN Default ELSE request
  IN  IF base < Cap THEN base ELSE Cap

\* _build_deploy_service: the service of a message knows the files as they were when it
\* was built.
Wired(files) == [NoJob EXCEPT !.pc = "queued", !.seen = files]

\* DeployEngineerExecutor._deploy_project hands the call to a thread.
DeployCall(m, request, files) ==
  /\ loop = None
  /\ session[m].pc = "tools"
  /\ job[m].pc = "none"
  /\ Goes(m, "await")
  /\ Tell(m, "nothing")
  /\ job' = [job EXCEPT ![m] = [Wired(files) EXCEPT !.limit = request]]
  /\ UNCHANGED <<branch, github, host, loop>>

Deploying == {m \in Messages : job[m].pc = "running"}

\* run() up to the script: who calls, arguments, configuration, script, limit; then the
\* log is opened, and emptied, under a name that tells seconds only.
Launch(m, who, argsOk) ==
  LET script == Load(job[m].seen)
      asked  == job[m].limit
  IN
  /\ job[m].pc = "queued"
  /\ IF who \notin Allowed \/ ~argsOk \/ script \notin OnDisk \/ (asked # None /\ asked <= 0)
     THEN job' = [job EXCEPT ![m] = [NoJob EXCEPT !.pc = "done"]]
     ELSE \E same \in SUBSET Deploying :
            job' = [k \in Messages |->
                      IF k = m THEN [NoJob EXCEPT !.pc = "running", !.script = script,
                                       !.limit = TimeLimit(asked), !.shared = same # {}]
                      ELSE [job[k] EXCEPT !.shared = @ \/ k \in same]]
  /\ UNCHANGED <<branch, github, host, session, told, loop>>

\* The script ends, with success or not.  _read_tail takes the last of what is in the file then.
Exit(m) ==
  /\ job[m].pc = "running"
  /\ job' = [job EXCEPT ![m].pc = "done"]
  /\ UNCHANGED <<branch, github, host, session, told, loop>>

\* subprocess.run kills the script at its limit.
TimesOut(m) == job[m].limit # None /\ Exit(m)

\* The thread has ended.  A session that was cut off no longer waits for it.
Answer(m) ==
  /\ loop = None
  /\ job[m].pc = "done"
  /\ job' = [job EXCEPT ![m] = NoJob]
  /\ IF session[m].pc = "await" THEN Return(m, "nothing")
     ELSE UNCHANGED <<session, told, loop>>
  /\ UNCHANGED <<branch, github, host>>

-----------------------------------------------------------------------------
Acts(m) == Warn(m) \/ Create(m) \/ WatchEnds(m) \/ WatchTimesOut(m) \/ Judge(m)

Thread(m) ==
  \/ \E who \in Callers, argsOk \in BOOLEAN : Launch(m, who, argsOk)
  \/ TimesOut(m)

DeliveryNext ==
  \/ Elsewhere
  \/ \E b \in Branches : Pushed(b) \/ Checked(b)
  \/ \E m \in Messages :
       \/ Begin(m) \/ End(m) \/ OpenStart(m) \/ Answer(m)
       \/ Acts(m) \/ Thread(m) \/ Exit(m)
       \/ \E b \in Branches : WatchStart(m, b)
       \/ \E request \in Requests, files \in Listings : DeployCall(m, request, files)

DeliverySpec == DeliveryInit /\ [][DeliveryNext]_deliveryVars

\* Subprocesses and threads go on, and limits strike; a script need not end by itself.  The
\* event loop serves what is ready in turn, so a message is cut off, and a result received,
\* although others hold the loop again and again.
DeliveryFairSpec == DeliverySpec /\ \A m \in Messages :
  WF_deliveryVars(Acts(m)) /\ WF_deliveryVars(Thread(m)) /\ SF_deliveryVars(End(m)) /\ SF_deliveryVars(Answer(m))

-----------------------------------------------------------------------------
(* Properties                                                              *)

DeliveryTypeOK ==
  /\ branch \in Branches /\ loop \in Messages \cup {None}
  /\ opened \subseteq Branches /\ pushed \subseteq Branches
  /\ told \in [Messages -> Verdicts \cup {"nothing"}]
  /\ \A m \in Messages : job[m].script # None => job[m].limit \in 1 .. Cap

\* A pull request is of a branch that has passed the gates, whatever is checked out by the
\* time gh opens it: never of the trunk, never of one that is not on the remote.
PrOfCheckedBranch == opened \subseteq pushed \ Protected

\* Whatever hangs, a message is over some day, and so is every deployment it has left behind.
DeliveryEnds == \A m \in Messages :
  /\ session[m].pc # "idle" ~> session[m].pc = "idle"
  /\ job[m].pc # "none" ~> job[m].pc = "none"

\* "Full log lands at <project>-<ts>.log": the output a session is shown is its deployment's.
TailIsOwn == \A m \in Messages : job[m].pc = "done" => ~job[m].shared

\* The warning in a pull request is about its branch.
WarnedOfOwn == \A m \in Messages :
  session[m].pc = "create" => (session[m].warned <=> session[m].branch \notin Documented)

\* "Environmental, not the PR's CI failing": a session hears of failure only when a check of
\* its pull request has failed.
FailureIsCI == [][\A m \in Messages :
  told[m] # "failure" /\ told'[m] = "failure" => checks[session[m].branch] = "fail"]_deliveryVars

=============================================================================
