# FeishuOPC in TLA+

FeishuOPC runs LLM agents as bots in Feishu group chats: a message wakes a bot, the bot's model uses
tools for minutes, dispatches other roles as sub-agents, writes to a shared git clone and a sprint
board, and answers in the thread. This directory models what that code does with shared state, time
and failure, checks it with TLC on small instances, and proves the main invariants of its core with
TLAPS for every number of processes, agents, tasks and messages.

Contents: 1 the system, 2 the plan, 3 the models, 4 the runs, 5 the proofs, 6 what was found,
7 what is not modelled.

Paths are relative to `src/feishu_agent/`.

## 1. The system

One process per bot (`feishu_ws_main.py`, systemd or `scripts/`); the processes of one installation
share the files of a repository. Inside a process there are the threads on which the Feishu client
delivers messages and one asyncio loop on which all sessions run.

| Part | State it keeps | Operations | Talks to | Model |
|---|---|---|---|---|
| Message intake (`feishu_ws_main.py`, `runtime/message_deduper.py`) | map message id -> in_progress / completed with a time stamp, under a lock | filter mentions, deliver, load, wait with timeout, cancel, reply, mark finished, prune | starts a coroutine of the runtime and waits for its future | `Conversation` |
| Message runtime (`runtime/feishu_runtime_service.py`) | none of its own; reads and writes the two below | live cancel, waiting action, preflight, tool loop, product manager's branch | everything | `Conversation`, `Outbound` |
| Cancel tokens (`core/cancel_token.py`, `team/tier2_wiring.py`) | one token per (bot, chat, thread) in memory | register, cancel, clear | polled by the tool loop | `Conversation` |
| Waiting actions (`team/pending_action_service.py`) | one file per action put to the user | save, load newest of a chat, delete | saved by preflight and tools, settled by the next message | `Conversation` |
| Tool loop (`core/llm_agent_adapter.py`, `core/tool_fanout.py`, `core/hook_bus.py`, `core/context_compression.py`) | message list, turn and breaker counters | request, prefetch, run calls, compress, cancel, finalize | provider pool, executors, event log, hooks | `ToolLoop`, `Fanout`, `Session` |
| Provider pool (`providers/llm_provider_pool.py`, `providers/bedrock_transport.py`) | list of attempts | retry, back off, fail over, rewrite for the other provider | HTTP | `ProviderPool`, `Bedrock`, `Outbound` |
| MCP (`tools/mcp_tool_adapter.py`) | pending requests by number | connect, list, send, read, stop | a child process | `McpClient`, `Outbound` |
| Role dispatch (`roles/tech_lead_executor.py`, `team/worktree_manager.py`, `team/artifact_store.py`, `core/session_lineage.py`) | claims and worktrees of running sub-agents, lineage, artifacts | claim, acquire, run, release, finalize artifact, resume, clean up | board, worktrees, artifacts, a nested tool loop | `Dispatch`, `LeaseTable` |
| Sprint board (`team/task_graph.py`, `team/sprint_state_service.py`) | one YAML file with a `tasks` block and legacy lists, under an flock | claim, release, complete, sweep, list, advance | read by every bot | `TaskGraph`, `LeaseTable` |
| Event log (`team/task_event_log.py`, `team/task_service.py`) | `events.jsonl`, `meta.json` per thread; next number in memory | open or resume, append, read | written by tool loop and runtime | `TaskLog` |
| Task state, reminders (`team/task_state*.py`, `team/reminder_bus.py`, `team/session_summary_service.py`) | fold of the events | set mode, plan, todos; project, restore, remind, summarise | read before each turn and by the next session | `TaskState` |
| Git (`tools/git_sync_preflight.py`, `tools/git_ops_service.py`, `tools/pre_push_inspector.py`, `team/artifact_publish_service.py`) | the clone, inspection tokens and their file, a repository lock | preflight, commit, inspect, push, branch, hard reset, publish | `git` | `GitClone` |
| User token (`runtime/impersonation_token_service.py`, `runtime/oauth_callback_server.py`) | a file with access and refresh token, a copy in memory | get, refresh, store, authorize | Feishu OAuth | `UserToken` |
| Memory (`team/agent_notes_service.py`, `team/last_run_memory_service.py`) | notes and run digests, two files under locks | note, collect, persist, inject | the hook bus, prompts | `Memory` |
| Project files (`tools/code_write_service.py`, `tools/workflow_service.py`, `team/role_artifact_writer.py`) | source tree, artifacts, audit log | write, write a batch, validate, audit | policies, secret scanner | `Writes`, `Project` |
| Policies (`tools/code_write_service.py`, `tools/project_registry.py`) | two files of lines | load, merge, choose the project, resolve roots | what may be written | `Policies` |
| Progress sync (`tools/progress_sync_service.py`, `../feishu_fastapi_sdk/client.py`) | a Bitable table | read, filter, search, update or create | status file, artifacts, Feishu | `ProgressSync`, `Project` |
| Delivery (`tools/pull_request_service.py`, `tools/ci_watch_service.py`, `tools/deploy_service.py`) | pull requests, checks, deploy logs | open, watch, deploy | `gh`, scripts, the shared clone | `Delivery` |

`PROJECT.json` lists all 34 parts, the ones left out with the reason.

What is hard in them, and what makes them correct:

* **Board.** Two processes read and write one file. Some reads take no lock; a save truncates and
  then writes; a claim has a term. *Correct if* a task is lent to one agent at a time, a loan ends only
  for a reason, and an agent that died does not keep its task.
* **Event log.** Appends may stop half way and the counter lives in memory. *Correct if* the numbers in
  the file go up, nothing acknowledged is lost by a crash, and a thread is opened once.
* **Task state.** Tools answer ok without looking at the state, and three readers fold the same log.
  *Correct if* what the model and the next session are told is what was said, and a snapshot resumes as the
  whole log would.
* **Conversation.** Redelivery, a handler thread that times out, a coroutine that may hang or be cancelled
  at any await, keywords that stop or confirm, restarts. *Correct if* a message is answered once, a
  confirmed action is carried out, and a handler always ends.
* **Tool loop.** Cancellation, timeout and errors in the middle of a batch, calls that run side by side, two
  providers with different rules. *Correct if* a session ends once, every call announced to the model gets
  one result in order, calls that conflict never overlap, and either provider accepts every request.
* **Outside calls.** Answers that are late, retries, a server that dies. *Correct if* nobody gets another's
  answer, a provider is left for a reason, and a session ends.
* **Dispatch.** Claim, worktree and artifact are acquired one after the other and any of the steps, or the
  sub-agent, may fail or be cancelled. *Correct if* a task is completed by the dispatch that has it, claims
  are exclusive for their term, and a dispatch ends.
* **Git.** One clone, several sessions, tokens meant for one use, a cache, a lock some callers do not take.
  *Correct if* nothing is lost that nobody gave up and what is pushed is what was inspected.
* **User token.** A refresh spends the old token before the new one is stored, by two processes. *Correct if*
  a usable token is kept unless the network, the disk or a crash took it.
* **Memory.** Two processes read, change and replace the same files; sub-agents speak on the session's bus.
  *Correct if* nothing readable is lost, a run is told once, and a lock is given back.
* **Project files and sync.** Writes fail or die between files; syncs read what is being written. *Correct if*
  source is whole, admitted and accounted for, and a sync that says ok is right.
* **Delivery.** Branches are checked out by others between check and call; a message may be cut off while its
  script runs. *Correct if* a pull request is of the branch that was checked and whatever hangs is ended.

The `hazards` of `PROJECT.json` name each of these at its line.

## 2. The plan

| # | Modules | Composes | Abstract specification | Run | Theorems | State |
|---|---|---|---|---|---|---|
| 1 | `TaskGraph`, `LeaseTable` | `LeaseTable` by refinement | `LeaseTable`: loans, terms, recall | lease | types, exclusive lease, due drops, refinement | done |
| 2 | `TaskLog` | | | tasklog | numbers increase, acknowledged events, opened once | done |
| 3 | `Conversation` | deduper, mention filter, runtime, tokens, actions in one module, since each is a few lines and the hazards lie between them | | conversation | types, answered once, confirmed actions | done |
| 4 | `Fanout`, `ToolLoop`, `Session`, `Bedrock` | the cut of a response, compression, the other provider | `Session`: asked, answered call by call, ended | toolloop | groups are intervals, types, no conflict, order of writes, breaker, refinement, transcripts in either language | done |
| 5 | `Dispatch` | `LeaseTable` of 1 as its claims | | dispatch | types, completed by the owner, a task is its dispatch's own, settled | done |
| 6 | `GitClone` | preflight, lock, tokens, push, reset, publish | | gitclone | types, commits and edits kept, inspected pushes | done |
| 7 | `TaskState`, `Picking` | the log's events | | taskstate | what is told, resuming from a snapshot | done |
| 8 | `ProviderPool`, `McpClient`, `Outbound` | both in a session | | outbound | own answers, providers left for cause | done |
| 9 | `UserToken` | service and callback server | | usertoken | types, the token is kept | done |
| 10 | `Memory` | notes, digests, bus | | memory | types, one digest, nothing lost | done |
| 11 | `Policies`, `Writes`, `ProgressSync`, `Project` | files, syncs and configuration of one project | | project | audit log accounts, writes land, rows follow | done |
| 12 | `Delivery` | pull request, checks, deployment | | delivery | types, pull requests of checked branches | done |

What a fold of the community modules computes cannot be reasoned about here. The builder of `Fanout`, the rewriting of
`Bedrock`, the projection of `TaskState`, the merging of `Policies` and the rows of `ProgressSync` are written as recursive
functions for that reason, what a list keeps of another as the picking of places (`Picking`), and all of it is proved. The names in `Dispatch`, `Delivery` and `Project` that other modules have too
carry the module's name (`DispatchNext`), since the proofs about several modules stand in one (`OutboundProofs`,
`MemoryProofs`); `Absent` declares the `None` they share.

## 3. The models

Properties that TLC refutes are kept in their modules, with the line they quote, and no run checks them; section 6
says what they showed.

### TaskGraph (and LeaseTable)

| TLA+ | Code |
|---|---|
| `disk` | the YAML file; `EmptyFile` between the truncation and the write of `save_status_data` |
| `flock` | `.task-graph.lock` |
| `op[p]` | the operation a process is in: its copy of the file, the ids it collected, what it does after a save |
| `phase[a]`, `job[a]` | a dispatch and the claim in `_active_task_claims` |
| `now` | `time.time()` |
| `ListStart`, `Sweep`, `ListEnd` | `list_all`, `list_runnable`: `release_expired` scans without the lock, then resets under it |
| `ClaimStart`, `Sweep`, `Grant`, `Refuse` | `claim`: sweep first, then compare and set |
| `Complete`, `Release`, `Abandon` | `_release_task_claim_for` at the exit of a dispatch; a cancelled dispatch calls neither |
| `AdvanceLoad`, `AdvanceSave`, `Upsert` | `advance`: load without the lock, save that copy under it, then the `tasks` block; `Transitions` and `AutoAdvanceable` say which advances there are |
| `BeginSave`, `SaveEnd`, `Crash`, `Tick` | the two halves of a save; a process dies; time |

A process runs one operation at a time because every operation is synchronous on its event loop; two
processes interleave at each action. An agent is one dispatch and claims at most once. Task fields that no
property tells apart (titles, order inside a priority) are left out. `LeaseTable` has no file, lock or
process: lend, recall what is over, return, leave, lose the host. The mapping is `lease <- LeaseView` (the
claims of the board as its writers see it) and `held <- job`.

### TaskLog

`file` is the list of lines, each of which parses or not (`ok`) and decodes or not (`utf8`); `torn` says
the last one has no newline. `Scan` is `_scan_last_seq` when the log object is built, `ReadMeta` and
`WriteMeta` the two ways through `open_or_resume`, `AppendBegin`/`AppendEnd`/`AppendFail` the critical
section of `append` with the number taken before the bytes go out, `Die` a crash. `acked` and `spoilt` are
history: events whose `append` returned, and logs in which a write has failed.

### TaskState

The log is the only variable beside the clock: `Project` folds it event by event (a recursive function, `ProjectOnto`) as `TaskStateProjector` does
(`AddTodo`, `UpdateTodo`, `SetPlan` with the status the model gives each step, `UpdateStep`), `Reminders` are the rules of the reminder bus and `OpenLoops` what the
session summary hands on. `Restored` is `from_dict`, with its loss of a last number of 0, and `Resumed` a snapshot
with the events after it. `ToldTruly` states the same from the log alone, without a fold: the last word about a todo since it was
last added, about a step since the last plan that had steps, which may have said it begun or blocked already. `StepIndices` are
the steps the model may report on, in a plan or beyond its end, `Plans` what it says of each step when it sets a plan; `Picked` of `Picking` is a list without the places that are dropped, which `read_events`, the open
loops and the compression of `ToolLoop` have in common.

### Conversation

One chat and one thread of a bot. `entry` and `idle` are the deduper's map with the age of each entry,
`job[h]` a handler thread, `session[h]` the coroutine it started, `registry` the token under the chat's
cancel key, `action[a]` the file of an action that waits for the user. A stretch of a coroutine between two
awaits is one action: `StopLive`, `Answer`, `Execute`/`ExecuteEnd`, `OpenLoop`, `PutToUser`, `CloseLoop`.
`Heard` and `Ignore` are the filter on mentions in a group with its bypass while an action waits.
`GiveUp` is the timeout of `future.result`, `Killed` the `CancelledError` it sends arriving at an await, and
`CancelLost` the same error arriving inside a request to a provider, where the pool takes it for the
provider's. `Bot` chooses the branch of `process_role_message`. The number of handlers is a constant: how
many messages the Feishu client hands over at once is decided outside this repository (the lock in the
deduper and the live cancel presuppose that it can be more than one).

### ToolLoop (with Fanout, Session and Bedrock)

| TLA+ | Code |
|---|---|
| `pc`, `turn` | where `_run_tool_loop` is: top of a turn, composing, request out, prefetch, answers, a call being run |
| `batch`, `here` | `tool_calls` of the response and the one whose turn it is |
| `front`, `result`, `prefetched` | the group `_prefetch_tool_calls` is at, what the calls came to, the results by call id |
| `messages` | `messages`: role, ids of the calls, and for a result the call it belongs to |
| `streak`, `told` | `last_loop_key` with its count; the newest `tool.result` events |
| `cancelled`, `Cancel` | the cancel token, set from outside at any moment |
| `Escape` | a `CancelledError` at an await: no result, no `on_session_end` |
| `Start`, `Finish`, `NextGroup` | the gathered or single calls, the semaphore, the loop over the groups |
| `Take`, `Trip`, `Report` | event, breaker, verifier, hooks, observer, message |
| `Compressed`, `DropOrphans` | `TailWindowCompressor.compress`, `_drop_orphan_tool_messages` |
| `PartitionByEffect`, `Group` | `partition_by_effect` as it is written, and what it means call by call |
| `ToAnthropic`, `FromAnthropic` | the rewriting of a request for Bedrock, and of its answer |

A tool is a model value with an effect and a concurrency group; what comes of a call is "fine" or the required
arguments it lacks. The time limit is a free choice at the top of a turn, since the code looks at the clock
nowhere else, and whether the estimate of tokens asks for a compression is a free choice too. The loop runs by
`Group`, and `PartitionAgrees` ties that to the builder (no gap, no call twice, and each group what its calls reach). In production no tool spec of `dispatch_role_agent`
carries an effect, so that it counts as "world" and the grouping by role never decides anything; the model keeps
the general case. `Session` knows neither groups nor tokens: the model calls, each call is answered in order, the
session ends. The mapping is `due <- SubSeq(batch, here, Len(batch))`. `FallbackAccepts` is Anthropic's rule on every
request the loop may make: results follow their calls at once, all of them, in one turn.

### ProviderPool, McpClient and Outbound

`ProviderPool` is one request: `Attempt`, `Answered`, `Fail` with the kinds of failure, `Wake` from a backoff, and
`GivesUp` between a retry and the next provider. `McpClient` is one server over pipes: `Send` numbers a request,
`Written` and `WriteFails` its bytes, `Deliver` an answer that may be late, out of order or an error, `DeliverLong` a
line beyond the reader's buffer, `ServerExits` and `ReadEof` the end of the child, `Expire` and `Forget` the time limit.
`Outbound` composes both: a session connects, lists the tools, asks the pool, calls the server, and may be cut at any
await; the clock of the session is that of both.

### Dispatch

`ClaimTask`, `AcquireTree`, `Spawn`, `Run`, `EndHook`, `ReleaseTree`, `GiveBack`, `Conclude` are the stretches of
`_dispatch_role_agent`; `Refuse` and `SkipClaim` its guards and warnings, `Called` the choice between a new call and
`resume_last_dispatch`, `Cancel` a `CancelledError` that passes both except clauses. Claims are taken and given back by the
actions of `LeaseTable` (`INSTANCE`), which `TaskGraph` is proved to implement; `TaskIsOwn` is what
this comes to for a dispatch. `Lapse`, `Cleanup` and `Crash` are other processes, the cleanup script and the end of this one.

### GitClone

A branch is its history, the set of its commits. `op[p]` is the operation a process is in; each git command is a step
(`Acquire`, `Probe`, `Checkout`, `Sync`, `Pull`, `Stage`, `Commit`, `Mint`, `Push`, `Fork`, `Add`, `Publish`, `PublishPush`,
`Reset`, `Clean`) so that two processes interleave wherever a command of the other makes a difference. `lock` is
`repo_filelock`, which preflight, publish and hard reset take and the others do not. `mem[m]` and `store` are the tokens
in the inspector of a message and in their file; `asked` the hard resets put to the user; `Others` a push by somebody
else. A preflight may be skipped once one was done, which covers the snapshot cache.

### UserToken

`file`, `tmp` and `hand` are the token file, its temporary sibling and what a writer's handle points to; `cached` and
`lock` the service's memory and asyncio lock. `Ask`, `Refreshed`, `RefreshFailed`, `OpenTmp`, `PutTmp`, `ReplaceTmp`,
`StoreFailed`, `Post` are a delegation, `Authorize`, `Callback`, `CallbackFailed` the callback server, which uses the same
temporary name. `Age` and `Die` are the passing of the two lifetimes, `Restart` and `RestartServer` the processes.
`spent` and `mishap` are history: refresh parts Feishu has used up, and whether an answer, a write or a process was lost.

### Memory

`notes` and `history` are the two files, each with a lock; a write is `Look`/`NoteRead`/`NoteWritten` or
`DigestRead`/`DigestWritten`, and `blind` says that a file could not be read and is taken for empty. `Call`, `SubEnds` and
`Ends` fire the hooks of the session's bus, which sub-agents share; `Collect` and `Persist` are the collector's
subscribers, `Gone` a `CancelledError` or the end of the process.

### Project (with Policies, Writes and ProgressSync)

`Policies` has no state: it is what the lines of the policy file and the registry of projects come to (`Load`,
`Registered`, `DefaultProject`, `InForce`, `Writable`); `Merged` puts the lines of either file one after the other. `Writes` are the calls that change files: source through a
temporary file and a rename with a record in the audit log (`OpenTmp`, `Replace`, `Audit`), artifacts and the status
file in place; any step may fail (`Fails`) or be the last of its process (`Dies`). `ProgressSync` is the sync to a table: `Read` once,
then `Search` and `Upsert` row by row, each with requests that may raise with or without effect. `Project` composes them:
a sync reads the files that are being written, and is blocked and killed with its process. `config` does not change in
the course of a run: the runtime caches policies by the times of the files, and those caches are not modelled.

### Delivery

`session[m]` is what the coroutine of a message is doing, `loop` the message whose subprocess holds the event loop
(`gh` is waited for without giving way), `job[m]` a deployment thread, which outlives a message that is cut off.
`OpenStart`, `Warn` and `Create` are the gates and the call of `gh pr create`, `WatchStart`, `WatchEnds` and `Judge` `gh pr checks` with its exit
codes; a `gh` without a login is told from a failure by the phrases of its output, so it may be either. `DeployCall` and `Thread` are the script with its limit; how a script ends is left out,
since nothing that is kept depends on it. `Elsewhere`, `Pushed` and `Checked` are other processes, people
and the checks.

## 4. The runs

| Run | What it shows | Bounds |
|---|---|---|
| `lease` | one scheduling process: the lease is exclusive, drops only what is due, frees the tasks of dead agents and implements `LeaseTable` | 2 agents, 2 tasks of one group, the second after the first; term 2, clock to 4 |
| `tasklog` | processes that follow one another with crashes and failed writes at any point: numbers increase, acknowledged events survive, one opening | numbers to 4, 5 lines |
| `taskstate` | every log of task events: what the model and the next session are told is what was said, and every snapshot resumes | 4 events after the opening, 2 todos, a plan of 2 steps of which one is begun, one of 1 blocked step, one of none, reports on 2 steps, 1 tick |
| `conversation` | a request, a confirmation and an unmentioned "cancel" of a group, in any order and repeated: answered once, confirmed actions are not lost, handlers end | 2 handlers, 3 messages, 3 deliveries, 1 action, timeout 1, TTL 2 |
| `toolloop` | with and without fan-out, cancelled at any point, compressed or not: no conflict, writes in order, requests both providers take, an exact breaker, an end, and an implementation of `Session` | 3 turns, 3 calls and then 1, 3 tools, 2 kinds of missing arguments, budget 3, width 2, tail of 2 |
| `outbound` | a session that asks providers and calls a server: providers are left for cause, answers reach their own request, the session ends | 2 providers, 1 retry, 4 requests to the server, 3 turns, limit 3 |
| `gitclone` | tech lead and product manager on one clone: commits and edits are not lost, pushes deliver inspected heads | 1 message at a time in each process, 2 branches, 1 file, 2 commits, 1 token |
| `dispatch` | two dispatches with claims, worktrees, cancellation, crash and expiry: a claim within its term has its task to itself, tasks are completed by their owner, dispatches end | 2 dispatches, 1 task, term 1, clock to 3 |
| `usertoken` | two delegations and an authorization on one file: a good token is kept unless something was lost, delegations end | 2 delegations, 1 authorization, 3 tokens |
| `memory` | two sessions with sub-agents: notes and digests are not undone, a run has one digest, writers get their turn | 2 sessions, 2 tool calls each, 1 note, digests of 1 call, history of 2 |
| `project` | two bots and two syncs on one project: source is whole, admitted and accounted for, ok means the table follows | 2 calls of 1 or 2 files, 2 keys, 2 bodies, 2 syncs, a sound configuration and one with a bad line |
| `delivery` | two messages that open, watch and deploy: pull requests of checked branches, everything ends | 2 messages, 1 work branch, a good login, a stale one and no `gh`, limits 3 and 5 against a cap of 3 |

Every property of these runs has a mutant in `PROJECT.json`: a plausible error of the code, defined beside the operator it
replaces ("faulty variant"), under which the same run finds the property violated.

Why the bounds are enough. In `lease`, a term of 2 and a clock to 4 let a claim be granted, expire, be swept
and be granted again to the other agent while the first is still working. Two agents are the least that can
compete, and a second task lets an operation on one task disturb the other. In `tasklog`, five lines hold an
opening, an event, a torn line, the marker that is glued to it and one event more. In `taskstate`, four events are enough to
add, close, add again and change a todo, or to set a plan, update a step, replace the plan and update again. In
`conversation`, three deliveries let one message be delivered again while the two others run, the TTL of twice the timeout
is the tightest the assumption allows, and one waiting action is enough since the code only ever looks at the
newest; the cancellation does not mention the bot, so that it is heard only while a hard reset waits. In `toolloop`, three
calls of which two may run at once let a group fill the semaphore, a write stand before, between and after reads, and a
concurrency group occur twice; the budget of the code, 3, is reached inside one response and across three; a
tail of two messages begins at each place of a turn, among results included; and one of the tools shares its
group with the write, so that a key can be seen first in a group and first alone. In `outbound`, two providers with a retry
each give every way from one attempt to the next, and four requests are a handshake, a listing and two calls, of which the
first may be answered while the second waits. In `gitclone`, a commit of each process or two of one meet one push of
somebody else; messages follow one another in a process, so that tokens and preflights of an earlier one are still about. In
`dispatch`, the clock lets a claim expire and be taken by the second dispatch while the first runs. In `usertoken`, three
tokens are the first, a refreshed and an authorized one. In `memory`, a second call overflows a digest and a third record
overflows the history. In `project`, a batch of two can fail between its files, and the second sync meets the first at
every request. In `delivery`, a second message is blocked by, cut off beside, or deploys beside the first. What the bounds
leave out, the theorems cover for the properties they prove.

`CHECK_DEADLOCK FALSE` is set where the model really stops: its clock, numbers, deliveries or calls are used up, or its
session is over. `delivery`, whose messages follow one another, is checked for deadlock.

Fairness. `TaskGraph!FairSpec` asks only that time passes; `DeadClaimReleased` states its own premise, that
some process keeps reading the board to the end of a read. `Conversation!FairSpec` asks that the clock runs,
that a thread waiting on a future with a timeout wakes, and that sending a reply ends well or badly (the
HTTP client has a timeout). Nothing is asked of the coroutine, which may hang anywhere. `ToolLoop!FairSpec` asks
that the loop's own steps and the requests, which have a time limit, go on; `SessionEnds` has the premise that
tools return, for which nothing in the code sets a limit. `Outbound!FairSpec` asks that the session's own step goes on,
which includes its time limits; a server that stops reading its input, so that the pipe fills, is left out.
`DispatchFairSpec` asks that a dispatch goes on: its sub-agent has a time limit. `UserToken!FairSpec` asks the same of a
delegation and its store, whose requests have one. `Memory!FairSpec` asks that a session that writes goes on when it can: the
locks are flocks, which the kernel grants, and a holder that dies drops. `DeliveryFairSpec` asks that subprocesses and
threads go on or reach their limit, and strongly that a message is cut off and a result received, since the event loop
serves what is ready in turn however often others hold it. `TaskLog`, `TaskState`, `GitClone` and `Project` have no
liveness property.

## 5. The proofs

`tlapm` checks all of them; they hold for every value of the constants that the named assumptions of the
modules allow. `OneProcess` (a single scheduling process) and `~Overlap` (processes of one thread follow one
another) are hypotheses of the theorems that need them; without them the statements are false, as the first finding of
section 6 shows for the first. The type invariants of these modules are proved, so no run repeats them.

**TaskGraphProofs.** `TypeCorrect` holds for any number of processes; its invariant adds to `TypeOK` that an
operation carries the task and agent its program counter needs (`OpOK`) and that the lock is held by the
process in its save. `LeaseIsExclusive`, `DropsAreDue` and `RefinesLeaseTable` share one invariant: besides
the types, that what a process read without the lock still holds when it gets it (`StaleReadsHold`: the ids
collected by the sweep are still over, the copy of `advance` has the claims of the file). That is what a
second process would break. `StepIsSound` bundles, per action, the invariant, the action property and the
abstract step, so that each action is treated once.

**TaskLogProofs.** `KnowsFile(p)` says that what a process will write next is above every number in the file,
which fails for none of the crash points because a torn line parses as nothing or as the number just spent;
`OpeningOK` ties `meta.json`, the program counter and the readable `task.opened`. From them
`NumbersIncrease`, `CrashCostsNothing` and `OpensOnce`.

**ConversationProofs.** `Inv` adds to the types: `Tidy` (an idle handler has nothing), `Held` (the message of a
handler is in progress in the deduper and its entry is no older than the handler), `Alone` (no two handlers
have one message), and that an answered message is still remembered. `Held` is where `Ttl >= 2 * Timeout` is
used: a handler spends at most two timeouts, so a prune never drops the entry under it. From it `AnswersOnce`.
`ConfirmedIsDone` adds `ConfirmedActionRuns`, which is inductive over the types.

**ToolLoopProofs.** First the groups of `Fanout`, for any response. `GroupIsInterval`: where the prefetch stands, the group is the interval up to the next call that
runs alone, so the loop over the groups neither skips nor repeats a call (by the existence of a last position, from
the well-foundedness of the numbers). `GroupIsCompatible`: two calls of one group may run together.
`PartitionHolds` is about the builder of the code, which `Group` abstracts: `BuiltTo(bt, b, i)` is its loop invariant
(the groups so far are a cut of the first calls, what waits is the stretch since, none of which runs alone, and `seen` are
the keys so far). The library's induction theorems cannot be used, so `ChainCuts` takes the least call after which the
invariant fails, and `PlaceCuts` refutes it; `SegmentReaches` says that a segment of a cut is what its calls reach.
Then the loop: `Inv` adds to the types: only the group at `front`, or the call at `here`, runs (`Working`);
before `front` everything has been run unless the token is set, and after its group nothing has (`Cutting`, which
needs `GroupIsInterval`); the results are complete when they are taken (`Serving`), and can be found by id (`Kept`); and
the streak is the end of the log (`Streaks`). From it `NoConflictHolds`, `WorldInOrderHolds` and `BreakerHolds`. With
`NothingDue` (between two responses no call waits) every step is one of `Session` or a stutter:
`LoopImplementsSession`.
Last the messages. `Answering(ms, open)` says of a transcript what `TranscriptAnswered` asks for, but for the last `open`
answers, which are still to come, and adds what makes it inductive: a tool message is never further from its assistant
message than there are calls. A response appended opens as many answers as it has calls (`AskedKeeps`), each result closes
one (`AnswerKeeps`), and compression, which cuts between two requests at any place, keeps it (`CompressedKeeps`): what the
cut took the assistant message of is dropped, and what stays keeps its distances, since the places that are picked are
consecutive there (`Picked`, `RankOfRun`, `OrphansDropped`). `Transcript` says where in the loop how many are open, and
`Named` that results are found under the position they belong to. The theorem has the hypothesis `UniqueIds`, as the run
has: without ids of their own two calls share one prefetched result, and `TranscriptAnswered` is not to be had. What is
proved is for any `KeepTail`, `HardMin`, width and number of turns.
From `Transcript` also `FallbackHolds`: any request, with a reminder behind it or without, can be taken over by the other
provider. `WrittenTo(ms, i, acc)` is what `Bedrock` has made of the first `i` messages. `Coupled`: calls and results of the turns
written stand side by side, but for the last turn's calls. `Awaits`: what is held are the results so far of the last
response, or nothing, and then no call is open. `SameSaid`: the turns of the assistant are its messages, one by one. A
result is held (`ResultHeld`: it is the next one of its response, since it is never further from its assistant message than there
are calls); before any other message the held results are all that was called for (`HeldComplete`), so the turn they become
closes the one that called (`TurnMore`, `OthersWritten`). That the loop's requests are `Answering`, which `Transcript` says, is all that is
used of the loop (`AnsweredIsAccepted`).
Then `TaskState`, whose projection is a recursive function over the log. `RunTo(base, events, n, g)` says that `g` runs through
the states of the first `n` events, `RunExists` that there is such a run (by the least number without one), and with it
`ProjectMore`: one event more is one step of `Apply` more. `LogOK` (events are numbered as they stand, and their keys and
values fit their kinds, `Fits`) and `SnapshotsTyped` (the state of each part of the log has its type, and its `lastSeq` is the
number of that part's last event) make `SnapshotResumes` inductive: `SnapshotHolds`. `ToldTruly` compares a state with the whole log, so it
needs a relation between the two that an event keeps: `SaidBy(l, s)` says of each part of a state which events of the log it
comes from (`ModeSaid`, `PlanSaid`, `StepsSaid`, `CompressionsSaid`, `TodosSaid`: the todos stand in the order in which they
were first added, each with the status of the last event that gave one and the time of the last that touched it). There is
one lemma for each part and one event more (`ModeMore`, `PlanMore`, `StepsMore`, `TouchMore`, `AddMore`), so `SaidBy` holds in
every state (`SaidByLog`). From there to the reminders: what was said before a todo was added last is none of its
last events (`TodoTold`: an addition always gives a status, so none is looked for before it), and open lines and open items
correspond one to one (`LinesCounted`, with `Picked`'s places). `ToldTrulyHolds` is then for any todos, steps, plans, thresholds,
limits and length of the log.

**UserTokenProofs.** `Inv` says where a token may be: whatever is stored anywhere has been issued (`Issued`), the lock
is held from a refresh to the end of its store (`Locking`), what is being stored is new and what is being refreshed is old
(`Carried`), no two writers have one token (`Apart`), and neither the file nor the memory holds a used token but while its
successor is being stored (`Good`). The last is the property of `TokenKept`; without `Apart` a browser's authorization and
a refresh could store over each other.

**GitCloneProofs.** `OpOK(p)` says what an operation in the middle has: its message, the lock where it is needed, a branch
that is there. Commits are numbered as they are made (`Numbered`), so that a new one is never one that is there already;
the trunk is never deleted (`Trunk`); and all commits of the tech lead are on its work branch for as long as that is
checked out (`OnFeat`). `BranchesGrow` goes through the actions once: but for the confirmed hard reset no step takes a
commit from any branch. From it `CommitsAreKept`; from `OnFeat` `InspectedHeadIsPushed`, since a push between whose
inspection and end another process commits still carries no commit of the tech lead that was not in the head it was
about; `EditsAreKept` from `OpOK`.

**MemoryProofs.** `SessionOK(s)` has the point of the argument: between its read and its write a session has the lock, and
what it read is what the file still holds, or it could not read it (`blind`). So a write is the file and one entry more
(`NothingIsLost`). `Listed` says that who is on record has tried to write and is there once, which the flag `persisted`
keeps true for every sub-agent that ends on the bus (`OneDigestHolds`); `TrimmedFacts` says what trimming keeps.
The module goes on with `Project`. First the folds: `FoldExists` makes, by the least number at which it would fail, the
function that a recursive definition describes, so that what it comes to can be reasoned about step by step. With it
`LastLineCounts` (a merged line is the last one of its project in the file) and `WritableIsAdmitted`; and `RowsSay`: after
n entries the kept ones are those `Said` finds among them, one a key (`KeepsOf`), and so are the rows made of them. The
properties speak of the lines and the entries themselves (`Admitted`, `Said`), never of the fold, so this is where code and
reference meet.
Then the files. `CallOK(p)` has what a process in a call works on: items that were accepted, of a kind that fits
where it is. `PutInPlace` is the loop invariant of a batch: of the items the coder is past each file holds what the
last of its items says, which other processes keep since they write no source (`StaysInPlace`). With them `AuditAccounts` is
inductive (`AuditIsKept`) and every step is one of `Landed` (`WritesLand`).
Last the syncs. `SyncOK(s)` says of a sync that nobody is beside what it may rely on: where it found no record of its key
there is none still, and the rows it is past stand in the table as it wrote them, unless a request raised. Two syncs at
once know of each other (`crowded`), which is why the rest need not hold for them; `TableFollows` combines this with
`RowsSay`. Of the configuration the proofs assume that the files the installation may write are source files,
and of a status file that its entries have a key, a module or none, and a status.

**OutboundProofs.** `McpInv`: a request goes by the number of its call on both sides of the pipe, in `owed` as in
`flight`; ids are never used again, so a late answer meets its own request or none (`AnswersAreOwn`). `PoolInv`: what is
about to be tried follows from the last failure on the trail, by the rule that the links before it obey
(`ProvidersAreLeftForCause`). The type of `clock` is left out: it needs that a power of two is a natural number, which no
installed prover finds.
`DispatchInv`, for dispatches, says what each has where it is (`DispatchOK`): an outcome from the end of its sub-agent on, a node closed
with it after the hook, no handle after the release, no claim after giving back. Calls are numbered as they are made and
those that began are the first ones, so a resumption finds a last call (`LastCall`). `GivesBack` treats the one step that completes a
task: the claim is returned, and was on record, or it is only left. From it `OwnersComplete` and `DispatchesSettle`.
`Moves` says what a step does to claims and finished tasks at once, and `OwnKept` goes through it: a claim
within its term is not called in, nobody is on record for two claims of one task, and who returns a claim that is another's
only leaves it. So a task is its dispatch's own (`TasksAreOwn`), which needs that `None` is no claim.
`DeliveryInv`, for deliveries, says of a coroutine what it has checked (`CoroutineOK`): past the gates its branch is pushed and unprotected, and stays
so whatever is checked out elsewhere, since nothing takes a branch from the remote; and of a job that
a deployment that runs has a limit within the cap (`JobOK`, `LimitWithinCap`). From it `PrOfCheckedBranchHolds`.

Where a module's assumption says that `None` is none of the names, numbers or records, it says that the code's `None` is
no id, no path and no sha. That the invariants of the proofs hold was checked by TLC on the runs' instances before
they were proved.

Only model-checked: liveness (`HandlerFinishes`, `DeadClaimReleased`, `EveryDispatchEnds`, `EveryDelegationEnds`, `WritersEnd`,
`DeliveryEnds`, both `SessionEnds`), which PTL with fairness and `ENABLED` would be needed for. Every invariant, every action
property and every refinement of the runs is proved, with the hypotheses named above.

## 6. What was found

`PROJECT.json` has all of it with the quotations. Where a name stands in brackets, the module states it as a property of
the code's own words, and TLC, run on that property alone, refutes it.

* Board: `advance` saves a copy of the file it read before the lock and erases claims of another process granted in between
  (`ClaimDropsAreDue` with two processes); a task closed "permanently" is reopened by a later `advance` (`DoneIsPermanent`);
  a concurrency group with a holder still offers its next task (`RunnableRespectsHolder`); a blocked story cannot be advanced
  the two ways its table allows.
* Log and state: a write cut inside a character makes the log of the thread unreadable for good (`CrashedTaskReopens`);
  tool failures carry no class, so the reminders on tool health never speak; plan mode withholds no tool.
* Conversation: a cancel token outlives its session (`TokenMeansRunning`); the provider pool swallows the cancellation
  of the timeout (`NothingAfterTimeout`); the product manager asks for a confirmation nothing listens for
  (`ConfirmationIsHeard`); the scan for waiting actions of an unmentioned message looks in the wrong directory.
* Tool loop: after a cancellation during the prefetch a write is skipped and later reads are run (`SkippedStaySkipped`).
* Outside calls: fallbacks are asked for the primary's model (`AsksForOwnModel`); every attempt gets the whole time left
  (`EndsInTime`); a long line or a late answer ends the MCP reader (`ReaderLivesWithServer`); a session that is cut
  leaves its server behind (`ServerClosed`).
* Git: a commit may land on a protected branch (`NeverCommitsToProtected`), commits reach the remote without an inspection
  (`OnlyInspectedPushed`), and an inspection does not look at what was committed before it (`NothingObjectionablePushed`).
* Dispatch: a resumption is not found by the next one (`ResumesLatest`); a cancelled dispatch keeps what it took; no
  role works in the worktree made for it.
* User token: a token in memory hides a re-authorization (`ReauthUsed`); the file can be seen empty (`NeverTorn`).
* Memory: the digest of a session tells how its first sub-agent ended (`DigestIsOwn`); a session that is cut leaves none
  (`FailureIsTold`); a note of several lines is read back without all but the first.
* Project: two syncs create a row twice; a sync that reads an empty status file answers ok; a bad policy line, or a project
  that may write nothing, takes away the policies of all; policies can be cached with roots of an older registry; temporary
  files of dead writes stay.
* Delivery: every dispatched deployment is refused; logs of the same second overwrite each other (`TailIsOwn`); the
  warning about documents is about what is checked out (`WarnedOfOwn`); a failure is told
  when there are no checks yet, no network, or a login refused in words the service does not know (`FailureIsCI`); the
  watch holds the event loop for up to half an hour.

## 7. What is not modelled

Not at all: what a model says and what a tool does outside (the provider, Feishu, `git` and `gh` themselves are
nondeterministic), prompts, cards, rendering, settings, the HTTP event endpoint (a stateless handler in front of the
runtime), tool verification, the registries of bundles and roles, the regular expressions of the secret scanner.

Inside the modelled parts: in the board, the synthesis of tasks from the legacy lists and `write_tasks`/`upsert_task`,
which nothing but tests calls; in the log, `state.json` and `close`, which nothing calls, and an I/O error while reading; in
the conversation, reactions, the conversation history, and a delete of an action file that fails; in the tool loop, the
request without tools (`execute_agent`), the text of errors and summaries, and call ids that occur twice in a response
(`UniqueIds` admits them, no run does: the result of the last call to end would then answer every call of its id); in the
task state, the health of tools and notes; in git, the texts of the baseline and a lock file that cannot be opened; in the
memory, the ranking of notes and the candidates of `memory_writer`, an event nobody reads; in the project, reads, the
sizes behind a refusal, the caches of policies, previews of a sync, and the scripts of Spec Kit; in the delivery, texts,
links and the audit entries. Each component of `PROJECT.json` says it of itself.
