------------------------------ MODULE GitClone ------------------------------
(***************************************************************************)
(* The one clone that the bots share, and everything that moves it:        *)
(* tools/git_sync_preflight.py (the sync at the start of a message),       *)
(* tools/git_ops_service.py (commit, push, work branches, hard reset),     *)
(* tools/pre_push_inspector.py (inspection tokens and their file) and      *)
(* team/artifact_publish_service.py (documents).                           *)
(*                                                                         *)
(* A branch is its history, the set of its commits: a fast forward is a    *)
(* superset, two branches have diverged when neither contains the other.   *)
(* A git command is a step wherever what another process does before it    *)
(* makes a difference.  A bot process runs one operation at a time (all of *)
(* them block its event loop); two processes interleave at every step.     *)
(* Preflight, publish and hard reset hold repo_filelock; commit, push,      *)
(* inspection, git_sync_remote and start_work_branch do not.               *)
(***************************************************************************)
EXTENDS Naturals, FiniteSets

CONSTANTS
  TL, PM,         \* the two bot processes, tech lead and product manager
  Messages,       \* the messages they handle at a time; when one is over another takes its place
  Home,           \* Home[m]: the process that handles message m
  Main, Feat,     \* the trunk, which is protected, and a work branch
  Files,          \* paths that may be changed in the worktree
  CommitAllowed,  \* is_commit_allowed_path and no denied segment
  Publishable,    \* under a publish root of the product manager
  Tracked,        \* not new: a hard reset restores them
  Objectionable,  \* content in which an inspection would find a blocker
  MaxCommits,     \* bound: commits made
  MaxTokens,      \* bound: tokens minted
  None

Procs    == {TL, PM}
Branches == {Main, Feat}
Protected == {Main}
Commits  == 0 .. MaxCommits
History  == SUBSET Commits
Refs     == [Branches -> {None} \cup History]
Maker    == [by : Messages \cup {None}, files : SUBSET Files]
Token    == [id : 1 .. MaxTokens, sha : History, branch : Branches]

ASSUME CloneAssumption ==
  /\ TL # PM /\ Main # Feat
  /\ Home \in [Messages -> Procs]
  /\ CommitAllowed \cup Publishable \cup Tracked \cup Objectionable \subseteq Files
  /\ {MaxCommits, MaxTokens} \subseteq Nat
  /\ None \notin Procs \cup Branches \cup Messages
  /\ \A some \in History \cup Maker : some # None

VARIABLES
  upstream,  \* the branches of the remote
  local,     \* the branches of the clone
  head,      \* the branch that is checked out
  tree,      \* the files that differ from HEAD
  index,     \* those that are staged
  made,      \* made[c]: who made commit c, and with which files
  op,        \* op[p]: the operation process p is in the middle of
  lock,      \* the process that holds repo_filelock, or None
  asked,     \* messages to whose thread which a hard reset was put
  phase,     \* phase[m]: "ready" once a preflight has been done for m in this process
  mem,       \* mem[m]: the tokens of the inspector built for message m
  store,     \* the token file
  minted     \* number of tokens minted

git     == <<upstream, local, head, tree, index, made>>
tokens  == <<mem, store, minted>>
vars    == <<git, op, lock, asked, phase, tokens>>

Pcs == {"idle", "lock", "probe", "checkout", "sync", "pull",
        "stage", "commit", "mint", "push", "fork",
        "add", "publish", "publish_push", "reset", "clean"}
\* What a sync reports and the times of cache entries and tokens are left out:
\* an entry or a token may be past its time whenever it is looked at.
Op == [pc : Pcs, m : Messages \cup {None}, job : {"none", "preflight", "sync", "publish", "force"},
       branch : Branches \cup {None}, sha : History,
       files : SUBSET Files]
IdleOp == [pc |-> "idle", m |-> None, job |-> "none", branch |-> None, sha |-> {},
           files |-> {}]

Init ==
  /\ upstream = [b \in Branches |-> IF b = Main THEN {0} ELSE None]
  /\ local = upstream
  /\ head = Main
  /\ tree = {}
  /\ index = {}
  /\ made = [c \in Commits |-> IF c = 0 THEN [by |-> None, files |-> {}]
                               ELSE None]
  /\ op = [p \in Procs |-> IdleOp]
  /\ lock = None
  /\ asked = {}
  /\ phase = [m \in Messages |-> "new"]
  /\ mem = [m \in Messages |-> {}]
  /\ store = {}
  /\ minted = 0

-----------------------------------------------------------------------------
(* Helpers.                                                                *)

\* An absent branch has no commits.
Hist(ref) == IF ref = None THEN {} ELSE ref

Used    == {c \in Commits : made[c] # None}
NextCommit == Cardinality(Used)
Go(p, pc) == op' = [op EXCEPT ![p].pc = pc]
Finish(p) == op' = [op EXCEPT ![p] = IdleOp]
\* origin/<trunk>: as this operation fetched it or, since, another one did.
Fetched(p) == {op[p].sha, upstream[Main]}
Working(m) == phase[m] = "ready" /\ op[Home[m]].pc = "idle"
\* _current_branch and is_protected_branch, in front of commits and pushes.
OnWorkBranch == head \notin Protected

\* git commit: everything staged, on the branch that is checked out by now.
Record(m, files) ==
  LET c == NextCommit IN
  /\ c \in Commits
  /\ made' = [made EXCEPT ![c] = [by |-> m, files |-> files]]
  /\ local' = [local EXCEPT ![head] = @ \cup {c}]
  /\ tree' = tree \ files
  /\ index' = index \ files

\* git push <remote> <branch>: what the branch is by now, if that is a fast forward.
Send(b) ==
  /\ Hist(upstream[b]) \subseteq local[b]
  /\ upstream' = [upstream EXCEPT ![b] = local[b]]

\* Faulty variant: a pull that discards what is in its way.
ResetOnto(b) ==
  /\ upstream[b] # None
  /\ local' = [local EXCEPT ![head] = upstream[b]]

\* git pull --ff-only <remote> <branch>, into the branch checked out by now.
FastForward(b) ==
  /\ upstream[b] # None
  /\ local[head] \subseteq upstream[b]
  /\ local' = [local EXCEPT ![head] = upstream[b]]

\* What the counts of rev-list HEAD...origin/<branch> say.
Compare(mine, theirs) ==
  CASE mine = theirs -> "up_to_date"
    [] theirs \subseteq mine /\ mine # theirs -> "ahead_no_action"
    [] mine \subseteq theirs /\ mine # theirs -> "behind"
    [] OTHER -> "diverged"

-----------------------------------------------------------------------------
(* A message starts: its inspector loads the token file, then the          *)
(* preflight asks for the lock, or answers from the snapshot cache: that is *)
(* over-approximated as a sync that may be skipped after the first.        *)

\* _load_tokens_from_disk leaves out what is past its time or does not parse.
Loaded(m) == IF Home[m] = TL THEN SUBSET store ELSE {{}}

\* _flush_tokens_to_disk: the file becomes what this inspector knows, or a full disk
\* leaves it as it was.
Flush(m) == store' \in {mem'[m], store}

\* The snapshot of the thread is kept for a while by its process, and dropped when a
\* preflight of that process has switched branches.
Cached(m) == phase[m] = "ready"

Start(m) ==
  LET p == Home[m] IN
  /\ op[p].pc = "idle"
  /\ \E live \in Loaded(m) : mem' = [mem EXCEPT ![m] = live]
  /\ \/ Cached(m) /\ UNCHANGED <<phase, op>>
     \/ /\ op' = [op EXCEPT ![p] = [IdleOp EXCEPT !.pc = "lock", !.m = m, !.job = "preflight"]]
        /\ UNCHANGED phase
  /\ UNCHANGED <<git, lock, asked, store, minted>>

\* _repo_filelock, and where each holder goes from there.
Acquire(p) ==
  /\ op[p].pc = "lock"
  /\ lock = None
  /\ lock' = p
  /\ Go(p, CASE op[p].job = "publish" -> "add"
             [] op[p].job = "force" -> "reset"
             [] p = PM -> "probe"
             [] OTHER -> "sync")
  /\ UNCHANGED <<git, asked, phase, tokens>>

\* _ensure_base_branch, first half: the product manager wants the trunk.
Probe(p) ==
  /\ op[p].pc = "probe"
  /\ Go(p, IF head # Main /\ tree = {} /\ local[Main] # None THEN "checkout" ELSE "sync")
  /\ UNCHANGED <<git, lock, asked, phase, tokens>>

\* Faulty variant: git checkout -f.
CheckoutForce(p) ==
  /\ op[p].pc = "checkout"
  /\ Go(p, "sync")
  /\ head' = Main
  /\ tree' = {}
  /\ index' = {}
  /\ UNCHANGED <<upstream, local, made, lock, asked, phase, tokens>>

\* Second half: git checkout takes along edits made since the probe, or refuses.
Checkout(p) ==
  /\ op[p].pc = "checkout"
  /\ Go(p, "sync")
  /\ \/ head' = Main
     \/ tree # {} /\ UNCHANGED head
  /\ UNCHANGED <<upstream, local, tree, index, made, lock, asked, phase, tokens>>

\* The end of a sync, whatever it came to.  A preflight reports the head
\* (_capture_head_info) and leaves the locked section.
Synced(p) ==
  /\ Finish(p)
  /\ IF op[p].job = "preflight"
     THEN lock' = None /\ phase' = [phase EXCEPT ![op[p].m] = "ready"]
     ELSE UNCHANGED <<lock, phase>>

\* What sync_with_remote does once it knows how the branch stands; a divergence
\* found by a preflight is put to the thread (_enqueue_force_sync_pending).
Settle(p, b, how) ==
  /\ IF how = "behind" /\ tree = {}
     THEN op' = [op EXCEPT ![p].pc = "pull", ![p].branch = b] /\ UNCHANGED <<lock, phase>>
     ELSE Synced(p)
  /\ asked' = IF how = "diverged" /\ op[p].job = "preflight"
              THEN asked \cup {op[p].m} ELSE asked

\* sync_with_remote up to the comparison: fetch, then HEAD against origin/<branch>.
Sync(p) ==
  LET b == head IN
  /\ op[p].pc = "sync"
  /\ \/ upstream[b] # None /\ Settle(p, b, Compare(local[b], upstream[b]))
     \/ Settle(p, b, "failed")  \* no upstream, no network
  /\ UNCHANGED <<git, tokens>>

Pull(p) ==
  LET b == op[p].branch IN
  /\ op[p].pc = "pull"
  /\ \/ FastForward(b)
     \/ /\ ~(local[head] \subseteq Hist(upstream[b])) \/ tree # {}
        /\ UNCHANGED local
  /\ Synced(p)
  /\ UNCHANGED <<upstream, head, tree, index, made, asked, tokens>>

-----------------------------------------------------------------------------
(* The tools of the tech lead: no lock.                                    *)

\* git_sync_remote: the same synchronisation, not under the lock.
SyncTool(m) ==
  /\ Home[m] = TL
  /\ Working(m)
  /\ op' = [op EXCEPT ![TL] = [IdleOp EXCEPT !.pc = "sync", !.m = m, !.job = "sync"]]
  /\ UNCHANGED <<git, lock, asked, phase, tokens>>

\* write_project_code, write_workflow_artifact and whatever else leaves a file.
Write(m, f) ==
  /\ Working(m)
  /\ Home[m] = PM => f \in Publishable
  /\ tree' = tree \cup {f}
  /\ UNCHANGED <<upstream, local, head, index, made, op, lock, asked,
                 phase, tokens>>

\* commit(): the branch gate ...
CommitStart(m) ==
  /\ Home[m] = TL
  /\ Working(m)
  /\ OnWorkBranch
  /\ op' = [op EXCEPT ![TL] = [IdleOp EXCEPT !.pc = "stage", !.m = m]]
  /\ UNCHANGED <<git, lock, asked, phase, tokens>>

\* ... _stage_policy_compliant_changes ...
Stage(p) ==
  /\ op[p].pc = "stage"
  /\ \E added \in SUBSET (tree \cap CommitAllowed) :  \* git add may fail for some
       /\ index' = index \cup added
       /\ IF added = {} THEN Finish(p) ELSE Go(p, "commit")
  /\ UNCHANGED <<upstream, local, head, tree, made, lock, asked, phase, tokens>>

\* ... and git commit.
Commit(p) ==
  /\ op[p].pc = "commit"
  /\ \/ index # {} /\ Record(op[p].m, index)
     \/ (index = {} \/ NextCommit \notin Commits) /\ UNCHANGED <<made, local, tree, index>>
  /\ Finish(p)
  /\ UNCHANGED <<upstream, head, lock, asked, phase, tokens>>

\* inspect(): branch and head are read first, the worktree is looked at later.
InspectStart(m) ==
  /\ Home[m] = TL
  /\ Working(m)
  /\ op' = [op EXCEPT ![TL] = [IdleOp EXCEPT !.pc = "mint", !.m = m,
                                             !.branch = head, !.sha = local[head]]]
  /\ UNCHANGED <<git, lock, asked, phase, tokens>>

\* _collect_changed_files, _collect_untracked_files: what differs from HEAD; what has been
\* committed is not looked at.
Changed == tree

\* The added text is scanned for secrets ...
Findings == Changed \cap Objectionable

\* ... the paths are held against the policy ...
OutOfPolicy == Changed \ CommitAllowed

\* ... and _run_validation_command runs what the project has configured.
Validation == {"passes", "fails", "times out", "cannot run"}

\* A report without blockers mints a token.
Mint(p) ==
  LET m == op[p].m
      k == [id |-> minted + 1, sha |-> op[p].sha, branch |-> op[p].branch]
  IN
  /\ op[p].pc = "mint"
  /\ \E outcome \in Validation :
       IF Findings \cup OutOfPolicy = {} /\ outcome = "passes" /\ minted < MaxTokens
       THEN /\ minted' = minted + 1
            /\ mem' = [mem EXCEPT ![m] = @ \cup {k}]
            /\ Flush(m)
       ELSE UNCHANGED <<minted, mem, store>>
  /\ Finish(p)
  /\ UNCHANGED <<git, lock, asked, phase>>

\* Faulty variant: the token is not compared with the head.
AcceptsAnyHead(k, sha, branch) == k.branch = branch

\* consume_token: for this head and this branch.
Accepts(k, sha, branch) == k.sha = sha /\ k.branch = branch

\* push_current_branch: gate, head, token; the token is gone in any case.
PushStart(m, k) ==
  /\ Home[m] = TL
  /\ Working(m)
  /\ OnWorkBranch
  /\ k \in mem[m]
  /\ mem' = [mem EXCEPT ![m] = @ \ {k}]
  /\ Flush(m)
  /\ \/ /\ Accepts(k, local[head], head)
        /\ op' = [op EXCEPT ![TL] = [IdleOp EXCEPT !.pc = "push", !.m = m,
                                                   !.branch = head, !.sha = k.sha]]
     \/ UNCHANGED op  \* another head or branch, or past its time
  /\ UNCHANGED <<git, lock, asked, phase, minted>>

Push(p) ==
  /\ op[p].pc = "push"
  /\ Send(op[p].branch) \/ UNCHANGED upstream
  /\ Finish(p)
  /\ UNCHANGED <<local, head, tree, index, made, lock, asked, phase, tokens>>

\* start_work_branch: the branch is new, the tree clean or given up, the base fetched.
ForkStart(m, discard) ==
  /\ Home[m] = TL
  /\ Working(m)
  /\ local[Feat] = None
  /\ tree = {} \/ discard
  /\ tree' = {}
  /\ index' = {}
  /\ op' = [op EXCEPT ![TL] = [IdleOp EXCEPT !.pc = "fork", !.m = m, !.sha = upstream[Main]]]
  /\ UNCHANGED <<upstream, local, head, made, lock, asked, phase, tokens>>

\* git checkout -b <branch> origin/<base>.
Fork(p) ==
  /\ op[p].pc = "fork"
  /\ \E base \in Fetched(p) : local' = [local EXCEPT ![Feat] = base]
  /\ head' = Feat
  /\ Finish(p)
  /\ UNCHANGED <<upstream, tree, index, made, lock, asked, phase, tokens>>

-----------------------------------------------------------------------------
(* publish(), of the product manager, under the lock.                      *)

\* _validate_paths and _validate_commit_message
Accepted(files) == files # {} /\ files \subseteq Publishable

PublishStart(m, files) ==
  /\ Home[m] = PM
  /\ Working(m)
  /\ Accepted(files)
  /\ op' = [op EXCEPT ![PM] = [IdleOp EXCEPT !.pc = "lock", !.m = m,
                                             !.job = "publish", !.files = files]]
  /\ UNCHANGED <<git, lock, asked, phase, tokens>>

\* _safe_reset_paths takes back what was asked for, unless git fails.
Unstaged(p, staged) == {staged, staged \ op[p].files}

\* git add, then the staged set against the requested one.
Add(p) ==
  LET mine == op[p].files \cap tree
      staged == index \cup mine
      extras == staged \ op[p].files
  IN
  /\ op[p].pc = "add"
  /\ IF extras = {} /\ staged # {}
     THEN /\ index' = staged
          /\ op' = [op EXCEPT ![p].pc = "publish", ![p].branch = head]
          /\ UNCHANGED lock
     ELSE /\ index' \in IF extras # {} THEN Unstaged(p, staged) ELSE {staged}
          /\ Finish(p)
          /\ lock' = None
  /\ UNCHANGED <<upstream, local, head, tree, made, asked, phase, tokens>>

Publish(p) ==
  /\ op[p].pc = "publish"
  /\ \/ /\ index # {} /\ Record(op[p].m, index)
        /\ Go(p, "publish_push")
        /\ UNCHANGED lock
     \/ /\ Finish(p)  \* a hook refuses, or nothing is staged any more
        /\ lock' = None
        /\ UNCHANGED <<made, local, tree, index>>
  /\ UNCHANGED <<upstream, head, asked, phase, tokens>>

PublishPush(p) ==
  /\ op[p].pc = "publish_push"
  /\ Send(op[p].branch) \/ UNCHANGED upstream
  /\ Finish(p)
  /\ lock' = None
  /\ UNCHANGED <<local, head, tree, index, made, asked, phase, tokens>>

-----------------------------------------------------------------------------
(* force_sync_to_remote, once the user has confirmed it, under the lock.   *)

ForceStart(m) ==
  /\ Working(m)
  /\ m \in asked
  /\ asked' = asked \ {m}
  /\ op' = [op EXCEPT ![Home[m]] = [IdleOp EXCEPT !.pc = "lock", !.m = m, !.job = "force"]]
  /\ UNCHANGED <<git, lock, phase, tokens>>

\* fetch and reset --hard HEAD; a failed fetch ends it.
Reset(p) ==
  /\ op[p].pc = "reset"
  /\ \/ /\ tree' = tree \ (Tracked \cup index)
        /\ index' = {}
        /\ op' = [op EXCEPT ![p].pc = "clean", ![p].sha = upstream[Main]]
        /\ UNCHANGED lock
     \/ /\ Finish(p)
        /\ lock' = None
        /\ UNCHANGED <<tree, index>>
  /\ UNCHANGED <<upstream, local, head, made, asked, phase, tokens>>

\* checkout -B and clean -fd; edits made since the reset may stop the checkout.
Clean(p) ==
  /\ op[p].pc = "clean"
  /\ \/ /\ \E base \in Fetched(p) : local' = [local EXCEPT ![Main] = base]
        /\ head' = Main
        /\ tree' = tree \cap (Tracked \cup index)
     \/ tree # {} /\ UNCHANGED <<local, head, tree>>
  /\ lock' = None
  /\ Finish(p)
  /\ UNCHANGED <<upstream, index, made, asked, phase, tokens>>

-----------------------------------------------------------------------------
(* The world: other people push, a process dies, time passes.              *)

Others(b) ==
  LET c == NextCommit IN
  /\ upstream[b] # None
  /\ c \in Commits
  /\ made' = [made EXCEPT ![c] = [by |-> None, files |-> {}]]
  /\ upstream' = [upstream EXCEPT ![b] = @ \cup {c}]
  /\ UNCHANGED <<local, head, tree, index, op, lock, asked, phase, tokens>>

\* The kernel frees the lock; the inspectors' copies of the tokens are lost.
Crash(p) ==
  /\ op[p].pc # "idle"
  /\ Finish(p)
  /\ lock' = IF lock = p THEN None ELSE lock
  /\ phase' = [m \in Messages |-> IF Home[m] = p THEN "new" ELSE phase[m]]
  /\ mem' = [m \in Messages |-> IF Home[m] = p THEN {} ELSE mem[m]]
  /\ UNCHANGED <<git, asked, store, minted>>

Step(p) ==
  \/ Acquire(p) \/ Probe(p) \/ Checkout(p) \/ Sync(p) \/ Pull(p)
  \/ Stage(p) \/ Commit(p) \/ Mint(p) \/ Push(p) \/ Fork(p)
  \/ Add(p) \/ Publish(p) \/ PublishPush(p) \/ Reset(p) \/ Clean(p)

Next ==
  \/ \E p \in Procs : Step(p) \/ Crash(p)
  \/ \E m \in Messages :
       \/ Start(m) \/ SyncTool(m) \/ CommitStart(m) \/ InspectStart(m) \/ ForceStart(m)
       \/ \E f \in Files : Write(m, f)
       \/ \E k \in mem[m] : PushStart(m, k)
       \/ \E discard \in BOOLEAN : ForkStart(m, discard)
       \/ \E files \in SUBSET Publishable : PublishStart(m, files)
  \/ \E b \in Branches : Others(b)

Spec == Init /\ [][Next]_vars

-----------------------------------------------------------------------------
(* Properties.                                                             *)

TypeOK ==
  /\ {upstream, local} \subseteq Refs
  /\ head \in Branches /\ local[head] # None
  /\ index \subseteq tree /\ tree \subseteq Files
  /\ made \in [Commits -> Maker \cup {None}]
  /\ op \in [Procs -> Op]
  /\ lock \in Procs \cup {None}
  /\ asked \subseteq Messages
  /\ phase \in [Messages -> {"new", "ready"}]
  /\ mem \in [Messages -> SUBSET Token]
  /\ store \in SUBSET Token
  /\ minted \in 0 .. MaxTokens

\* The commits some branch, here or on the remote, still leads to.
Reachable == UNION {Hist(local[b]) \cup Hist(upstream[b]) : b \in Branches}

\* Nothing but the confirmed hard reset drops a commit that no other branch has:
\* "ff-only, no merge, no rebase" (git_sync_preflight.py:16), "unpushed commits on
\* the current branch are left alone" (git_ops_service.py:428-430).
CommitsKept ==
  [][(\E c \in Reachable : c \notin Reachable') => \E p \in Procs : op[p].pc = "clean" /\ Clean(p)]_vars

\* Commits of the tech lead that a step brings to the remote.
Delivered(b) == {c \in Hist(upstream'[b]) \ Hist(upstream[b]) :
                   made[c] # None /\ made[c].by # None /\ Home[made[c].by] = TL}

\* What a push by the tech lead delivers of the tech lead's own commits was in the
\* head for which the inspection token was minted (git_ops_service.py:10-17),
\* although head and token are looked at before the push and a switch of processes.
PushesInspectedHead ==
  [][op[TL].pc = "push" /\ op'[TL].pc # "push"
       => \A b \in Branches : Delivered(b) \subseteq op[TL].sha]_vars

\* An uncommitted file goes into a commit, or is given up by start_work_branch with
\* allow_discard_dirty or by the confirmed hard reset; a preflight of the other bot
\* never costs it (git_sync_preflight.py:727-731).
EditsKept ==
  [][\A f \in tree \ tree' :
       \/ \E c \in Commits : made'[c] # made[c] /\ f \in made'[c].files
       \/ \E m \in Messages : ForkStart(m, TRUE)
       \/ \E p \in Procs : op[p].pc \in {"reset", "clean"} /\ lock = p]_vars

\* "Never commits to a protected branch" (git_ops_service.py:7-9).
NeverCommitsToProtected ==
  [][op[TL].pc = "commit" /\ local' # local => head \notin Protected]_vars

\* "Push requires a fresh inspection token" (git_ops_service.py:10-17): a commit of
\* the tech lead reaches the remote only by a push of the tech lead.
OnlyInspectedPushed ==
  [][(\E b \in Branches : Delivered(b) # {}) => op[TL].pc = "push"]_vars

\* The inspection looks at "exactly what about to push means"
\* (pre_push_inspector.py:652): nothing it would have objected to is pushed.
NothingObjectionablePushed ==
  \A b \in Branches : \A c \in Hist(upstream[b]) : made[c].by # None => made[c].files \cap Objectionable = {}

=============================================================================
