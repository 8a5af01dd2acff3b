---------------------------- MODULE GitCloneProofs ----------------------------
(***************************************************************************)
(* Proofs about GitClone: its types, and that, whatever two processes do   *)
(* to the clone, no commit and no edit is lost but by what a user has      *)
(* confirmed, and a push delivers what was inspected; for any messages,    *)
(* files and policies and any number of commits and tokens.                *)
(***************************************************************************)
EXTENDS GitClone, FiniteSetTheorems, TLAPS

\* Only one of the processes does these.
OfTL == {"stage", "commit", "mint", "push", "fork"}
OfPM == {"probe", "checkout", "add", "publish", "publish_push"}

\* Under the lock of the repository.
Guarded(o) ==
  \/ o.pc \in OfPM \cup {"reset", "clean"}
  \/ o.pc \in {"sync", "pull"} /\ o.job = "preflight"

\* What process p is in the middle of: an operation of its own, with the lock where it
\* is needed, on a branch that is there.
OpOK(p) ==
  LET o == op[p] IN
  /\ o.pc # "idle" => o.m \in Messages /\ Home[o.m] = p
  /\ p = TL => o.pc \notin OfPM /\ o.job # "publish"
  /\ p = PM => o.pc \notin OfTL
  /\ Guarded(o) => lock = p
  /\ o.pc \in {"pull", "mint", "push", "publish", "publish_push"} => o.branch \in Branches
  /\ o.pc \in {"push", "publish", "publish_push"} => local[o.branch] # None
  /\ o.pc = "fork" => local[Feat] = None

\* Commits are numbered as they are made.
Numbered == \E n \in 0 .. MaxCommits + 1 : Used = {c \in Commits : c < n}

\* The trunk is there, here and on the remote.
Trunk == upstream[Main] # None /\ local[Main] # None

\* The tech lead's own commits.
Own(c) == made[c] # None /\ made[c].by # None /\ Home[made[c].by] = TL

\* All of them were made since the work branch is there, and are on it for as long as it
\* is checked out: it is checked out when it is made, and never again.
OnFeat ==
  /\ local[Feat] = None => \A c \in Commits : ~Own(c)
  /\ head = Feat => \A c \in Commits : Own(c) => c \in local[Feat]
  /\ op[TL].pc \in {"stage", "commit"} => local[Feat] # None
  /\ op[TL].pc = "push" => \A c \in Commits : Own(c) => c \in op[TL].sha

Inv == TypeOK /\ (\A p \in Procs : OpOK(p)) /\ Numbered /\ Trunk /\ OnFeat

-----------------------------------------------------------------------------
(* What most actions have in common.                                       *)

LEMMA Names ==
  /\ TL # PM /\ Main # Feat /\ Procs = {TL, PM} /\ Branches = {Main, Feat}
  /\ None \notin Procs /\ None \notin Branches /\ None \notin Messages
  /\ None \notin History /\ None \notin Maker
  /\ Home \in [Messages -> Procs] /\ MaxCommits \in Nat /\ MaxTokens \in Nat
  /\ CommitAllowed \subseteq Files /\ Publishable \subseteq Files
BY CloneAssumption DEF Procs, Branches

LEMMA IdleIsOp == IdleOp \in Op
BY DEF IdleOp, Op, Pcs, History

\* One process moves; the other is where it was, and has its lock and its branch.
LEMMA OpFrame ==
  ASSUME Inv, NEW p \in Procs, NEW o \in Op, op' = [op EXCEPT ![p] = o], OpOK(p)',
         lock' = lock \/ (lock = p /\ lock' = None) \/ (lock = None /\ lock' = p),
         \A b \in Branches : local[b] # None => local'[b] # None,
         local'[Feat] = local[Feat] \/ local[Feat] # None \/ p = TL
  PROVE  op' \in [Procs -> Op] /\ \A q \in Procs : OpOK(q)'
<1>1. op \in [Procs -> Op]
  BY DEF Inv, TypeOK
<1>2. op' \in [Procs -> Op]
  BY <1>1
<1>3. ASSUME NEW q \in Procs, q # p PROVE OpOK(q)'
  <2>1. op'[q] = op[q] /\ OpOK(q)
    BY <1>1, <1>3 DEF Inv
  <2>2. Guarded(op[q]) => lock' = q
    BY <2>1, <1>3, Names DEF OpOK
  <2>3. op[q].pc = "fork" => p # TL
    BY <2>1, <1>3, Names DEF OpOK, OfTL
  <2> QED
    BY <2>1, <2>2, <2>3 DEF OpOK, Guarded
<1> QED
  BY <1>2, <1>3

\* A step that leaves the branches and their commits alone.
LEMMA Tidies ==
  ASSUME Inv, UNCHANGED <<upstream, local, made>>, head' \in {head, Main},
         index' \subseteq tree' /\ tree' \subseteq Files,
         NEW p \in Procs, NEW o \in Op, op' = [op EXCEPT ![p] = o],
         OpOK(p)',
         lock' = lock \/ (lock = p /\ lock' = None) \/ (lock = None /\ lock' = p),
         asked' \subseteq Messages /\ phase' \in [Messages -> {"new", "ready"}],
         mem' \in [Messages -> SUBSET Token] /\ store' \in SUBSET Token,
         minted' \in 0 .. MaxTokens,
         o.pc \in {"stage", "commit"} => local[Feat] # None,
         o.pc = "push" => \A c \in Commits : Own(c) => c \in o.sha
  PROVE  Inv'
<1>1. op' \in [Procs -> Op] /\ \A q \in Procs : OpOK(q)'
  BY OpFrame
<1>2. TypeOK'
  BY <1>1, Names DEF Inv, TypeOK, Trunk
<1>3. Numbered' /\ Trunk'
  BY DEF Inv, Numbered, Used, Trunk
<1>4. OnFeat'
  <2>1. op'[TL] = op[TL] \/ op'[TL] = o
    BY Names DEF Inv, TypeOK
  <2> QED
    BY <2>1, Names DEF Inv, OnFeat, Own
<1> QED
  BY <1>1, <1>2, <1>3, <1>4 DEF Inv

\* A step that leaves git alone.
LEMMA Moves ==
  ASSUME Inv, UNCHANGED git, NEW p \in Procs, NEW o \in Op, op' = [op EXCEPT ![p] = o],
         OpOK(p)',
         lock' = lock \/ (lock = p /\ lock' = None) \/ (lock = None /\ lock' = p),
         asked' \subseteq Messages /\ phase' \in [Messages -> {"new", "ready"}],
         mem' \in [Messages -> SUBSET Token] /\ store' \in SUBSET Token,
         minted' \in 0 .. MaxTokens,
         o.pc \in {"stage", "commit"} => local[Feat] # None,
         o.pc = "push" => \A c \in Commits : Own(c) => c \in o.sha
  PROVE  Inv'
<1>1. UNCHANGED <<upstream, local, made>> /\ head' = head /\ index' = index /\ tree' = tree
  BY DEF git
<1>2. index' \subseteq tree' /\ tree' \subseteq Files
  BY <1>1 DEF Inv, TypeOK
<1> QED
  BY <1>1, <1>2, Tidies

\* An operation that is over asks for nothing.
LEMMA FinishOK ==
  ASSUME Inv, NEW p \in Procs, Finish(p)
  PROVE  op' = [op EXCEPT ![p] = IdleOp] /\ op'[p] = IdleOp /\ IdleOp.pc = "idle" /\ OpOK(p)'
<1>1. op' = [op EXCEPT ![p] = IdleOp] /\ op'[p] = IdleOp
  BY DEF Finish, Inv, TypeOK
<1> QED
  BY <1>1 DEF OpOK, Guarded, IdleOp, OfTL, OfPM

LEMMA Finishes ==
  ASSUME Inv, UNCHANGED git, NEW p \in Procs, Finish(p),
         lock' = lock \/ (lock = p /\ lock' = None),
         asked' \subseteq Messages /\ phase' \in [Messages -> {"new", "ready"}],
         mem' \in [Messages -> SUBSET Token] /\ store' \in SUBSET Token,
         minted' \in 0 .. MaxTokens
  PROVE  Inv'
BY FinishOK, IdleIsOp, Moves

-----------------------------------------------------------------------------
(* A message starts.                                                       *)

LEMMA StartInv == ASSUME Inv, NEW m \in Messages, Start(m) PROVE Inv'
<1> DEFINE p == Home[m]
           o == [IdleOp EXCEPT !.pc = "lock", !.m = m, !.job = "preflight"]
<1>1. UNCHANGED <<git, lock, asked, store, minted>> /\ op[p].pc = "idle" /\ p \in Procs
  BY Names DEF Start
<1>2. mem' \in [Messages -> SUBSET Token]
  BY DEF Start, Loaded, Inv, TypeOK
<1>3. phase' = phase /\ (op' = op \/ op' = [op EXCEPT ![p] = o])
  BY DEF Start
<1>4. /\ asked' \subseteq Messages /\ phase' \in [Messages -> {"new", "ready"}]
      /\ store' \in SUBSET Token /\ minted' \in 0 .. MaxTokens
  BY <1>1, <1>3 DEF Inv, TypeOK
<1>5. CASE op' = op
  <2>1. op' = [op EXCEPT ![p] = op[p]] /\ op[p] \in Op
    BY <1>5, <1>1 DEF Inv, TypeOK
  <2>2. OpOK(p)'
    BY <1>1, <1>5 DEF Inv, OpOK, Guarded, git
  <2> QED
    BY <1>1, <1>2, <1>4, <2>1, <2>2, Moves
<1>6. CASE op' = [op EXCEPT ![p] = o]
  <2>1. o \in Op /\ o.pc = "lock" /\ o.m = m /\ o.job = "preflight"
    BY DEF IdleOp, Op, Pcs, History
  <2>2. op'[p] = o
    BY <1>1, <1>6 DEF Inv, TypeOK
  <2>3. OpOK(p)'
    BY <2>1, <2>2 DEF OpOK, Guarded, OfTL, OfPM
  <2> QED
    BY <1>1, <1>2, <1>4, <1>6, <2>1, <2>3, Moves
<1> QED
  BY <1>3, <1>5, <1>6

LEMMA AcquireInv == ASSUME Inv, NEW p \in Procs, Acquire(p) PROVE Inv'
<1>1. UNCHANGED <<git, asked, phase, tokens>> /\ op[p].pc = "lock" /\ lock = None /\ lock' = p
  BY DEF Acquire
<1> DEFINE pc == CASE op[p].job = "publish" -> "add"
                   [] op[p].job = "force" -> "reset"
                   [] p = PM -> "probe"
                   [] OTHER -> "sync"
<1>2. /\ op' = [op EXCEPT ![p].pc = pc] /\ pc \in {"add", "reset", "probe", "sync"}
      /\ p = TL => pc # "probe" /\ (pc = "add" => op[p].job = "publish")
  <2>1. op' = [op EXCEPT ![p].pc = pc]
    BY DEF Acquire, Go
  <2>2. pc \in {"add", "reset", "probe", "sync"}
    OBVIOUS
  <2>3. p = TL => pc # "probe" /\ (pc = "add" => op[p].job = "publish")
    BY Names
  <2> QED
    BY <2>1, <2>2, <2>3
<1> HIDE DEF pc
<1> DEFINE o == [op[p] EXCEPT !.pc = pc]
<1>3. op[p] \in Op /\ OpOK(p)
  BY DEF Inv, TypeOK
<1>4. o \in Op /\ o.pc = pc /\ o.m = op[p].m /\ o.job = op[p].job
  BY <1>2, <1>3 DEF Op, Pcs
<1>5. op' = [op EXCEPT ![p] = o] /\ op'[p] = o
  BY <1>2 DEF Inv, TypeOK
<1>6. OpOK(p)'
  <2> HIDE DEF o
  <2> QED
    BY <1>1, <1>2, <1>3, <1>4, <1>5, Names DEF OpOK, Guarded, OfTL, OfPM
<1>7. /\ asked' \subseteq Messages /\ phase' \in [Messages -> {"new", "ready"}]
      /\ mem' \in [Messages -> SUBSET Token] /\ store' \in SUBSET Token
      /\ minted' \in 0 .. MaxTokens
  BY <1>1 DEF Inv, TypeOK, tokens
<1> HIDE DEF o
<1> QED
  BY <1>1, <1>2, <1>4, <1>5, <1>6, <1>7, Moves

LEMMA ProbeInv == ASSUME Inv, NEW p \in Procs, Probe(p) PROVE Inv'
<1>1. UNCHANGED <<git, lock, asked, phase, tokens>> /\ op[p].pc = "probe"
  BY DEF Probe
<1>2. PICK pc \in {"checkout", "sync"} : op' = [op EXCEPT ![p].pc = pc]
  BY DEF Probe, Go
<1> DEFINE o == [op[p] EXCEPT !.pc = pc]
<1>3. op[p] \in Op /\ OpOK(p)
  BY DEF Inv, TypeOK
<1>4. o \in Op /\ o.pc = pc /\ o.m = op[p].m /\ o.job = op[p].job
  BY <1>3 DEF Op, Pcs
<1>5. op' = [op EXCEPT ![p] = o] /\ op'[p] = o
  BY <1>2 DEF Inv, TypeOK
<1>6. OpOK(p)'
  <2> HIDE DEF o
  <2> QED
    BY <1>1, <1>3, <1>4, <1>5, Names DEF OpOK, Guarded, OfTL, OfPM
<1>7. /\ asked' \subseteq Messages /\ phase' \in [Messages -> {"new", "ready"}]
      /\ mem' \in [Messages -> SUBSET Token] /\ store' \in SUBSET Token
      /\ minted' \in 0 .. MaxTokens
  BY <1>1 DEF Inv, TypeOK, tokens
<1> QED
  BY <1>1, <1>4, <1>5, <1>6, <1>7, Moves

\* A sync that ends gives the lock back if it was a preflight's.
LEMMA SyncedFrees ==
  ASSUME Inv, NEW p \in Procs, op[p].pc \in {"sync", "pull"}, Synced(p)
  PROVE  /\ lock' = lock \/ (lock = p /\ lock' = None)
         /\ phase' \in [Messages -> {"new", "ready"}]
         /\ Finish(p)
<1>1. op[p].job = "preflight" => lock = p /\ op[p].m \in Messages
  BY DEF Inv, OpOK, Guarded
<1> QED
  BY <1>1 DEF Synced, Inv, TypeOK

LEMMA SyncInv == ASSUME Inv, NEW p \in Procs, Sync(p) PROVE Inv'
<1>1. UNCHANGED <<git, tokens>> /\ op[p].pc = "sync"
  BY DEF Sync
<1>2. PICK how : Settle(p, head, how)
  BY DEF Sync
<1>3. op[p] \in Op /\ OpOK(p) /\ head \in Branches
  BY DEF Inv, TypeOK
<1>4. asked' \subseteq Messages
  BY <1>1, <1>2, <1>3 DEF Settle, OpOK, Inv, TypeOK
<1>5. mem' \in [Messages -> SUBSET Token] /\ store' \in SUBSET Token /\ minted' \in 0 .. MaxTokens
  BY <1>1 DEF Inv, TypeOK, tokens
<1>6. CASE Synced(p)
  BY <1>1, <1>4, <1>5, <1>6, SyncedFrees, Finishes
<1>7. CASE op' = [op EXCEPT ![p].pc = "pull", ![p].branch = head] /\ UNCHANGED <<lock, phase>>
  <2> DEFINE o == [op[p] EXCEPT !.pc = "pull", !.branch = head]
  <2>1. o \in Op /\ o.pc = "pull" /\ o.m = op[p].m /\ o.job = op[p].job /\ o.branch = head
    BY <1>3 DEF Op, Pcs
  <2>2. op' = [op EXCEPT ![p] = o] /\ op'[p] = o
    BY <1>7 DEF Inv, TypeOK
  <2>3. OpOK(p)'
    <3> HIDE DEF o
    <3> QED
      BY <1>1, <1>3, <1>7, <2>1, <2>2 DEF OpOK, Guarded, OfTL, OfPM
  <2>4. phase' \in [Messages -> {"new", "ready"}]
    BY <1>7 DEF Inv, TypeOK
  <2> QED
    BY <1>1, <1>4, <1>5, <1>7, <2>1, <2>2, <2>3, <2>4, Moves
<1> QED
  BY <1>2, <1>6, <1>7 DEF Settle

-----------------------------------------------------------------------------
(* Where an operation begins.                                              *)

\* An operation of process p that starts without the lock.
LEMMA Begins ==
  ASSUME Inv, UNCHANGED <<git, lock, phase>>, NEW p \in Procs, NEW o \in Op,
         op' = [op EXCEPT ![p] = o],
         o.m \in Messages /\ Home[o.m] = p,
         \/ o.pc = "lock" /\ (o.job = "publish" => p = PM)
         \/ o.pc = "sync" /\ o.job = "sync"
         \/ p = TL /\ o.pc = "mint" /\ o.job = "none" /\ o.branch \in Branches
         \/ p = TL /\ o.pc = "stage" /\ o.job = "none" /\ local[Feat] # None
         \/ /\ p = TL /\ o.pc = "push" /\ o.job = "none"
            /\ o.branch = Feat /\ local[Feat] # None
            /\ \A c \in Commits : Own(c) => c \in o.sha,
         asked' \subseteq Messages,
         mem' \in [Messages -> SUBSET Token] /\ store' \in SUBSET Token,
         minted' \in 0 .. MaxTokens
  PROVE  Inv'
<1>1. op'[p] = o
  BY DEF Inv, TypeOK
<1>2. OpOK(p)'
  BY <1>1, Names DEF OpOK, Guarded, OfTL, OfPM, git
<1>3. phase' \in [Messages -> {"new", "ready"}]
  BY DEF Inv, TypeOK
<1> QED
  BY <1>2, <1>3, Moves

LEMMA SyncToolInv == ASSUME Inv, NEW m \in Messages, SyncTool(m) PROVE Inv'
<1> DEFINE o == [IdleOp EXCEPT !.pc = "sync", !.m = m, !.job = "sync"]
<1>1. UNCHANGED <<git, lock, asked, phase, tokens>> /\ Home[m] = TL /\ op' = [op EXCEPT ![TL] = o]
  BY DEF SyncTool
<1>2. o \in Op /\ o.m = m /\ o.pc = "sync" /\ o.job = "sync"
  BY DEF IdleOp, Op, Pcs, History
<1>3. /\ asked' \subseteq Messages /\ mem' \in [Messages -> SUBSET Token]
      /\ store' \in SUBSET Token /\ minted' \in 0 .. MaxTokens
  BY <1>1 DEF Inv, TypeOK, tokens
<1> HIDE DEF o
<1> QED
  BY <1>1, <1>2, <1>3, Names, Begins

LEMMA CommitStartInv == ASSUME Inv, NEW m \in Messages, CommitStart(m) PROVE Inv'
<1> DEFINE o == [IdleOp EXCEPT !.pc = "stage", !.m = m]
<1>1. UNCHANGED <<git, lock, asked, phase, tokens>> /\ Home[m] = TL /\ op' = [op EXCEPT ![TL] = o]
  BY DEF CommitStart
<1>2. o \in Op /\ o.m = m /\ o.pc = "stage" /\ o.job = "none"
  BY DEF IdleOp, Op, Pcs, History
<1>3. /\ asked' \subseteq Messages /\ mem' \in [Messages -> SUBSET Token]
      /\ store' \in SUBSET Token /\ minted' \in 0 .. MaxTokens
  BY <1>1 DEF Inv, TypeOK, tokens
<1>4. local[Feat] # None
  BY Names DEF CommitStart, OnWorkBranch, Protected, Inv, TypeOK
<1> HIDE DEF o
<1> QED
  BY <1>1, <1>2, <1>3, <1>4, Names, Begins

LEMMA InspectStartInv == ASSUME Inv, NEW m \in Messages, InspectStart(m) PROVE Inv'
<1> DEFINE o == [IdleOp EXCEPT !.pc = "mint", !.m = m, !.branch = head, !.sha = local[head]]
<1>1. UNCHANGED <<git, lock, asked, phase, tokens>> /\ Home[m] = TL /\ op' = [op EXCEPT ![TL] = o]
  BY DEF InspectStart
<1>2. head \in Branches /\ local[head] \in History
  BY DEF Inv, TypeOK, Refs
<1>3. o \in Op /\ o.m = m /\ o.pc = "mint" /\ o.job = "none" /\ o.branch = head
  BY <1>2 DEF IdleOp, Op, Pcs
<1>4. /\ asked' \subseteq Messages /\ mem' \in [Messages -> SUBSET Token]
      /\ store' \in SUBSET Token /\ minted' \in 0 .. MaxTokens
  BY <1>1 DEF Inv, TypeOK, tokens
<1> HIDE DEF o
<1> QED
  BY <1>1, <1>2, <1>3, <1>4, Names, Begins

\* What is written to the token file is the inspector's copy.
LEMMA FlushType ==
  ASSUME Inv, NEW m \in Messages, mem' \in [Messages -> SUBSET Token], Flush(m)
  PROVE  store' \in SUBSET Token
BY DEF Flush, Inv, TypeOK

\* The token names a head the tech lead's commits are on, and it is the head now.
LEMMA PushStartInv ==
  ASSUME Inv, NEW m \in Messages, NEW k \in mem[m], PushStart(m, k) PROVE Inv'
<1> DEFINE o == [IdleOp EXCEPT !.pc = "push", !.m = m, !.branch = head, !.sha = k.sha]
<1>1. /\ UNCHANGED <<git, lock, asked, phase, minted>> /\ Home[m] = TL /\ op[TL].pc = "idle"
      /\ mem' = [mem EXCEPT ![m] = @ \ {k}] /\ Flush(m)
      /\ op' = op \/ (op' = [op EXCEPT ![TL] = o] /\ Accepts(k, local[head], head))
  BY DEF PushStart, Working
<1>2. head = Feat /\ local[Feat] # None
  BY Names DEF PushStart, OnWorkBranch, Protected, Inv, TypeOK
<1>3. k \in Token
  BY DEF Inv, TypeOK
<1>4. mem' \in [Messages -> SUBSET Token]
  BY <1>1 DEF Inv, TypeOK
<1>5. store' \in SUBSET Token /\ asked' \subseteq Messages /\ minted' \in 0 .. MaxTokens
  BY <1>1, <1>4, FlushType DEF Inv, TypeOK
<1>6. CASE op' = op
  <2>1. op' = [op EXCEPT ![TL] = op[TL]] /\ op[TL] \in Op
    BY <1>6, Names DEF Inv, TypeOK
  <2>2. OpOK(TL)'
    BY <1>1, <1>6, Names DEF Inv, OpOK, Guarded, git
  <2>3. phase' \in [Messages -> {"new", "ready"}]
    BY <1>1 DEF Inv, TypeOK
  <2> QED
    BY <1>1, <1>4, <1>5, <2>1, <2>2, <2>3, Names, Moves
<1>7. CASE op' = [op EXCEPT ![TL] = o] /\ Accepts(k, local[head], head)
  <2>1. o \in Op /\ o.m = m /\ o.pc = "push" /\ o.job = "none" /\ o.branch = Feat /\ o.sha = k.sha
    BY <1>2, <1>3, Names DEF IdleOp, Op, Pcs, Token
  <2>2. \A c \in Commits : Own(c) => c \in k.sha
    BY <1>2, <1>7 DEF Accepts, Inv, OnFeat
  <2> HIDE DEF o
  <2> QED
    BY <1>1, <1>2, <1>4, <1>5, <1>7, <2>1, <2>2, Names, Begins
<1> QED
  BY <1>1, <1>6, <1>7

LEMMA PublishStartInv ==
  ASSUME Inv, NEW m \in Messages, NEW files \in SUBSET Publishable, PublishStart(m, files) PROVE Inv'
<1> DEFINE o == [IdleOp EXCEPT !.pc = "lock", !.m = m, !.job = "publish", !.files = files]
<1>1. UNCHANGED <<git, lock, asked, phase, tokens>> /\ Home[m] = PM /\ op' = [op EXCEPT ![PM] = o]
  BY DEF PublishStart
<1>2. o \in Op /\ o.m = m /\ o.pc = "lock" /\ o.job = "publish"
  BY Names DEF IdleOp, Op, Pcs, History
<1>3. /\ asked' \subseteq Messages /\ mem' \in [Messages -> SUBSET Token]
      /\ store' \in SUBSET Token /\ minted' \in 0 .. MaxTokens
  BY <1>1 DEF Inv, TypeOK, tokens
<1> HIDE DEF o
<1> QED
  BY <1>1, <1>2, <1>3, Names, Begins

LEMMA ForceStartInv == ASSUME Inv, NEW m \in Messages, ForceStart(m) PROVE Inv'
<1> DEFINE o == [IdleOp EXCEPT !.pc = "lock", !.m = m, !.job = "force"]
<1>1. UNCHANGED <<git, lock, phase, tokens>> /\ asked' = asked \ {m} /\ op' = [op EXCEPT ![Home[m]] = o]
  BY DEF ForceStart
<1>2. o \in Op /\ o.m = m /\ o.pc = "lock" /\ o.job = "force"
  BY DEF IdleOp, Op, Pcs, History
<1>3. /\ asked' \subseteq Messages /\ mem' \in [Messages -> SUBSET Token]
      /\ store' \in SUBSET Token /\ minted' \in 0 .. MaxTokens
  BY <1>1 DEF Inv, TypeOK, tokens
<1> HIDE DEF o
<1> QED
  BY <1>1, <1>2, <1>3, Names, Begins

-----------------------------------------------------------------------------
(* Where an operation ends without having touched git.                     *)

LEMMA MintInv == ASSUME Inv, NEW p \in Procs, Mint(p) PROVE Inv'
<1> DEFINE m == op[p].m
           k == [id |-> minted + 1, sha |-> op[p].sha, branch |-> op[p].branch]
<1>1. UNCHANGED <<git, lock, asked, phase>> /\ op[p].pc = "mint" /\ Finish(p)
  BY DEF Mint
<1>2. \/ UNCHANGED <<minted, mem, store>>
      \/ /\ minted < MaxTokens /\ minted' = minted + 1
         /\ mem' = [mem EXCEPT ![m] = @ \cup {k}]
         /\ Flush(m)
  BY DEF Mint
<1>3. m \in Messages
  BY <1>1 DEF Inv, OpOK
<1>4. asked' \subseteq Messages /\ phase' \in [Messages -> {"new", "ready"}]
  BY <1>1 DEF Inv, TypeOK
<1>5. CASE UNCHANGED <<minted, mem, store>>
  BY <1>1, <1>4, <1>5, Finishes DEF Inv, TypeOK
<1>6. CASE minted < MaxTokens /\ minted' = minted + 1 /\ mem' = [mem EXCEPT ![m] = @ \cup {k}] /\ Flush(m)
  <2>1. k \in Token
    BY <1>1, <1>6, Names DEF Inv, TypeOK, OpOK, Op, Token
  <2>2. mem' \in [Messages -> SUBSET Token]
    BY <1>3, <1>6, <2>1 DEF Inv, TypeOK
  <2>3. minted' \in 0 .. MaxTokens /\ store' \in SUBSET Token
    BY <1>3, <1>6, <2>2, FlushType, Names DEF Inv, TypeOK
  <2> QED
    BY <1>1, <1>4, <2>2, <2>3, Finishes
<1> QED
  BY <1>2, <1>5, <1>6

LEMMA CrashInv == ASSUME Inv, NEW p \in Procs, Crash(p) PROVE Inv'
<1>1. /\ UNCHANGED <<git, asked, store, minted>> /\ Finish(p)
      /\ lock' = lock \/ (lock = p /\ lock' = None)
  BY DEF Crash
<1>2. phase' \in [Messages -> {"new", "ready"}] /\ mem' \in [Messages -> SUBSET Token]
  BY DEF Crash, Inv, TypeOK
<1>3. asked' \subseteq Messages /\ store' \in SUBSET Token /\ minted' \in 0 .. MaxTokens
  BY <1>1 DEF Inv, TypeOK
<1> QED
  BY <1>1, <1>2, <1>3, Finishes

-----------------------------------------------------------------------------
(* The worktree, the index and HEAD.                                       *)

LEMMA WriteInv == ASSUME Inv, NEW m \in Messages, NEW f \in Files, Write(m, f) PROVE Inv'
<1> DEFINE p == Home[m]
<1>1. /\ UNCHANGED <<upstream, local, head, index, made, op, lock, asked, phase, tokens>>
      /\ op[p].pc = "idle" /\ p \in Procs /\ tree' = tree \cup {f}
  BY Names DEF Write, Working
<1>2. op' = [op EXCEPT ![p] = op[p]] /\ op[p] \in Op
  BY <1>1 DEF Inv, TypeOK
<1>3. OpOK(p)'
  BY <1>1 DEF Inv, OpOK, Guarded
<1>4. index' \subseteq tree' /\ tree' \subseteq Files
  BY <1>1 DEF Inv, TypeOK
<1>5. /\ asked' \subseteq Messages /\ phase' \in [Messages -> {"new", "ready"}]
      /\ mem' \in [Messages -> SUBSET Token] /\ store' \in SUBSET Token /\ minted' \in 0 .. MaxTokens
  BY <1>1 DEF Inv, TypeOK, tokens
<1> QED
  BY <1>1, <1>2, <1>3, <1>4, <1>5, Tidies

LEMMA CheckoutInv == ASSUME Inv, NEW p \in Procs, Checkout(p) PROVE Inv'
<1> DEFINE o == [op[p] EXCEPT !.pc = "sync"]
<1>1. /\ UNCHANGED <<upstream, local, tree, index, made, lock, asked, phase, tokens>>
      /\ op[p].pc = "checkout" /\ head' \in {head, Main} /\ op' = [op EXCEPT ![p] = o]
  BY DEF Checkout, Go
<1>2. op[p] \in Op /\ OpOK(p)
  BY DEF Inv, TypeOK
<1>3. o \in Op /\ o.pc = "sync" /\ o.m = op[p].m /\ o.job = op[p].job
  BY <1>2 DEF Op, Pcs
<1>4. op'[p] = o
  BY <1>1 DEF Inv, TypeOK
<1> HIDE DEF o
<1>5. OpOK(p)'
  BY <1>1, <1>2, <1>3, <1>4, Names DEF OpOK, Guarded, OfTL, OfPM
<1>6. index' \subseteq tree' /\ tree' \subseteq Files
  BY <1>1 DEF Inv, TypeOK
<1>7. /\ asked' \subseteq Messages /\ phase' \in [Messages -> {"new", "ready"}]
      /\ mem' \in [Messages -> SUBSET Token] /\ store' \in SUBSET Token /\ minted' \in 0 .. MaxTokens
  BY <1>1 DEF Inv, TypeOK, tokens
<1> QED
  BY <1>1, <1>3, <1>5, <1>6, <1>7, Tidies

LEMMA StageInv == ASSUME Inv, NEW p \in Procs, Stage(p) PROVE Inv'
<1>1. UNCHANGED <<upstream, local, head, tree, made, lock, asked, phase, tokens>> /\ op[p].pc = "stage"
  BY DEF Stage
<1>2. index' \subseteq tree' /\ tree' \subseteq Files
  BY <1>1 DEF Stage, Inv, TypeOK
<1>3. /\ asked' \subseteq Messages /\ phase' \in [Messages -> {"new", "ready"}]
      /\ mem' \in [Messages -> SUBSET Token] /\ store' \in SUBSET Token /\ minted' \in 0 .. MaxTokens
  BY <1>1 DEF Inv, TypeOK, tokens
<1>4. CASE Finish(p)
  BY <1>1, <1>2, <1>3, <1>4, FinishOK, IdleIsOp, Tidies
<1>5. CASE Go(p, "commit")
  <2> DEFINE o == [op[p] EXCEPT !.pc = "commit"]
  <2>1. op[p] \in Op /\ OpOK(p)
    BY DEF Inv, TypeOK
  <2>2. o \in Op /\ o.pc = "commit" /\ o.m = op[p].m /\ o.job = op[p].job
    BY <2>1 DEF Op, Pcs
  <2>3. op' = [op EXCEPT ![p] = o] /\ op'[p] = o
    BY <1>5 DEF Go, Inv, TypeOK
  <2> HIDE DEF o
  <2>4. p = TL /\ OpOK(p)'
    BY <1>1, <2>1, <2>2, <2>3, Names DEF OpOK, Guarded, OfTL, OfPM
  <2>5. local[Feat] # None
    BY <1>1, <2>4 DEF Inv, OnFeat
  <2> QED
    BY <1>1, <1>2, <1>3, <2>2, <2>3, <2>4, <2>5, Tidies
<1> QED
  BY <1>4, <1>5 DEF Stage

LEMMA ForkStartInv ==
  ASSUME Inv, NEW m \in Messages, NEW discard \in BOOLEAN, ForkStart(m, discard) PROVE Inv'
<1> DEFINE o == [IdleOp EXCEPT !.pc = "fork", !.m = m, !.sha = upstream[Main]]
<1>1. /\ UNCHANGED <<upstream, local, head, made, lock, asked, phase, tokens>> /\ Home[m] = TL
      /\ tree' = {} /\ index' = {} /\ local[Feat] = None /\ op' = [op EXCEPT ![TL] = o]
  BY DEF ForkStart
<1>2. upstream[Main] \in History
  BY Names DEF Inv, TypeOK, Trunk, Refs
<1>3. o \in Op /\ o.pc = "fork" /\ o.m = m /\ o.job = "none"
  BY <1>2 DEF IdleOp, Op, Pcs
<1>4. op'[TL] = o
  BY <1>1, Names DEF Inv, TypeOK
<1> HIDE DEF o
<1>5. OpOK(TL)'
  BY <1>1, <1>3, <1>4, Names DEF OpOK, Guarded, OfTL, OfPM
<1>6. /\ asked' \subseteq Messages /\ phase' \in [Messages -> {"new", "ready"}]
      /\ mem' \in [Messages -> SUBSET Token] /\ store' \in SUBSET Token /\ minted' \in 0 .. MaxTokens
  BY <1>1 DEF Inv, TypeOK, tokens
<1> QED
  BY <1>1, <1>3, <1>5, <1>6, Names, Tidies

LEMMA AddInv == ASSUME Inv, NEW p \in Procs, Add(p) PROVE Inv'
<1>1. UNCHANGED <<upstream, local, head, tree, made, asked, phase, tokens>> /\ op[p].pc = "add"
  BY DEF Add
<1>2. op[p] \in Op /\ OpOK(p)
  BY DEF Inv, TypeOK
<1>3. p = PM /\ lock = p
  BY <1>1, <1>2, Names DEF OpOK, Guarded, OfPM
<1>4. index' \subseteq tree' /\ tree' \subseteq Files
  BY <1>1 DEF Add, Unstaged, Inv, TypeOK
<1>5. /\ asked' \subseteq Messages /\ phase' \in [Messages -> {"new", "ready"}]
      /\ mem' \in [Messages -> SUBSET Token] /\ store' \in SUBSET Token /\ minted' \in 0 .. MaxTokens
  BY <1>1 DEF Inv, TypeOK, tokens
<1>6. CASE Finish(p) /\ lock' = None
  BY <1>1, <1>3, <1>4, <1>5, <1>6, FinishOK, IdleIsOp, Tidies
<1>7. CASE op' = [op EXCEPT ![p].pc = "publish", ![p].branch = head] /\ UNCHANGED lock
  <2> DEFINE o == [op[p] EXCEPT !.pc = "publish", !.branch = head]
  <2>1. o \in Op /\ o.pc = "publish" /\ o.m = op[p].m /\ o.job = op[p].job /\ o.branch = head
    BY <1>2 DEF Op, Pcs, Inv, TypeOK
  <2>2. op' = [op EXCEPT ![p] = o] /\ op'[p] = o
    BY <1>7 DEF Inv, TypeOK
  <2>3. head \in Branches /\ local[head] # None
    BY DEF Inv, TypeOK
  <2> HIDE DEF o
  <2>4. OpOK(p)'
    BY <1>1, <1>2, <1>3, <1>7, <2>1, <2>2, <2>3, Names DEF OpOK, Guarded, OfTL, OfPM
  <2> QED
    BY <1>1, <1>4, <1>5, <1>7, <2>1, <2>2, <2>4, Tidies
<1> QED
  BY <1>6, <1>7 DEF Add

LEMMA ResetInv == ASSUME Inv, NEW p \in Procs, Reset(p) PROVE Inv'
<1>1. UNCHANGED <<upstream, local, head, made, asked, phase, tokens>> /\ op[p].pc = "reset"
  BY DEF Reset
<1>2. op[p] \in Op /\ OpOK(p)
  BY DEF Inv, TypeOK
<1>3. lock = p
  BY <1>1, <1>2 DEF OpOK, Guarded
<1>4. index' \subseteq tree' /\ tree' \subseteq Files
  BY DEF Reset, Inv, TypeOK
<1>5. /\ asked' \subseteq Messages /\ phase' \in [Messages -> {"new", "ready"}]
      /\ mem' \in [Messages -> SUBSET Token] /\ store' \in SUBSET Token /\ minted' \in 0 .. MaxTokens
  BY <1>1 DEF Inv, TypeOK, tokens
<1>6. CASE Finish(p) /\ lock' = None
  BY <1>1, <1>3, <1>4, <1>5, <1>6, FinishOK, IdleIsOp, Tidies
<1>7. CASE op' = [op EXCEPT ![p].pc = "clean", ![p].sha = upstream[Main]] /\ UNCHANGED lock
  <2> DEFINE o == [op[p] EXCEPT !.pc = "clean", !.sha = upstream[Main]]
  <2>1. upstream[Main] \in History
    BY Names DEF Inv, TypeOK, Trunk, Refs
  <2>2. o \in Op /\ o.pc = "clean" /\ o.m = op[p].m /\ o.job = op[p].job
    BY <1>2, <2>1 DEF Op, Pcs
  <2>3. op' = [op EXCEPT ![p] = o] /\ op'[p] = o
    BY <1>7 DEF Inv, TypeOK
  <2> HIDE DEF o
  <2>4. OpOK(p)'
    BY <1>1, <1>2, <1>3, <1>7, <2>2, <2>3, Names DEF OpOK, Guarded, OfTL, OfPM
  <2> QED
    BY <1>1, <1>4, <1>5, <1>7, <2>2, <2>3, <2>4, Tidies
<1> QED
  BY <1>6, <1>7 DEF Reset

-----------------------------------------------------------------------------
(* The branches and their commits.                                         *)

\* The next number has not been given.
LEMMA NextIsNew ==
  ASSUME Inv
  PROVE  /\ NextCommit \in Nat
         /\ Used = {c \in Commits : c < NextCommit}
         /\ NextCommit \in Commits => made[NextCommit] = None
<1>1. PICK n \in 0 .. MaxCommits + 1 : Used = {c \in Commits : c < n}
  BY DEF Inv, Numbered
<1>2. Used = 0 .. n - 1
  BY <1>1, Names DEF Commits
<1>3. Cardinality(Used) = n
  BY <1>2, FS_Interval, Names
<1>4. NextCommit = n
  BY <1>3 DEF NextCommit
<1>5. NextCommit \in Commits => NextCommit \notin Used
  BY <1>1, <1>4
<1> QED
  BY <1>1, <1>4, <1>5, Names DEF Used

LEMMA StaysNumbered ==
  ASSUME Inv, NEW k \in Maker, NextCommit \in Commits, made' = [made EXCEPT ![NextCommit] = k]
  PROVE  Numbered' /\ made' \in [Commits -> Maker \cup {None}]
<1> DEFINE n == NextCommit
<1>1. n \in 0 .. MaxCommits /\ Used = {c \in Commits : c < n}
  BY NextIsNew, Names DEF Commits
<1>2. made' \in [Commits -> Maker \cup {None}]
  BY DEF Inv, TypeOK
<1>3. \A c \in Commits : made'[c] # None <=> c = n \/ made[c] # None
  BY Names DEF Inv, TypeOK
<1>4. Used' = Used \cup {n}
  BY <1>3 DEF Used
<1>5. Used' = {c \in Commits : c < n + 1}
  BY <1>1, <1>4, Names DEF Commits
<1> HIDE DEF n
<1> QED
  BY <1>1, <1>2, <1>5, Names DEF Numbered

\* A commit goes on top of the branch that is checked out, and is not one of any other.
LEMMA RecordFacts ==
  ASSUME Inv, NEW m \in Messages, Record(m, index)
  PROVE  /\ Numbered' /\ made' \in [Commits -> Maker \cup {None}]
         /\ made[NextCommit] = None /\ NextCommit \in Commits
         /\ made' = [made EXCEPT ![NextCommit] = [by |-> m, files |-> index]]
         /\ local' = [local EXCEPT ![head] = @ \cup {NextCommit}] /\ local' \in Refs
         /\ \A b \in Branches : /\ local[b] # None => local'[b] # None /\ local[b] \subseteq local'[b]
                                /\ local[b] = None => local'[b] = None
         /\ tree' = tree \ index /\ index' = {}
<1> DEFINE k == [by |-> m, files |-> index]
<1>1. /\ NextCommit \in Commits /\ made' = [made EXCEPT ![NextCommit] = k]
      /\ local' = [local EXCEPT ![head] = @ \cup {NextCommit}]
      /\ tree' = tree \ index /\ index' = {}
  BY DEF Record
<1>2. k \in Maker
  BY DEF Maker, Inv, TypeOK
<1>3. Numbered' /\ made' \in [Commits -> Maker \cup {None}]
  BY <1>1, <1>2, StaysNumbered
<1>4. local \in Refs /\ head \in Branches /\ local[head] \in History
  BY DEF Inv, TypeOK, Refs
<1>5. local[head] \cup {NextCommit} \in History
  BY <1>1, <1>4 DEF History
<1>6. local' \in Refs
  BY <1>1, <1>4, <1>5 DEF Refs
<1>7. \A b \in Branches : /\ local[b] # None => local'[b] # None /\ local[b] \subseteq local'[b]
                          /\ local[b] = None => local'[b] = None
  BY <1>1, <1>4, <1>5, Names DEF Inv, TypeOK, Refs
<1> QED
  BY <1>1, <1>3, <1>6, <1>7, NextIsNew

LEMMA CommitInv == ASSUME Inv, NEW p \in Procs, Commit(p) PROVE Inv'
<1> DEFINE m == op[p].m
<1>1. UNCHANGED <<upstream, head, lock, asked, phase, tokens>> /\ op[p].pc = "commit" /\ Finish(p)
  BY DEF Commit
<1>2. p = TL /\ m \in Messages /\ Home[m] = TL
  BY <1>1, Names DEF Inv, OpOK, OfTL
<1>3. /\ asked' \subseteq Messages /\ phase' \in [Messages -> {"new", "ready"}]
      /\ mem' \in [Messages -> SUBSET Token] /\ store' \in SUBSET Token /\ minted' \in 0 .. MaxTokens
  BY <1>1 DEF Inv, TypeOK, tokens
<1>4. CASE UNCHANGED <<made, local, tree, index>>
  <2>1. index' \subseteq tree' /\ tree' \subseteq Files
    BY <1>4 DEF Inv, TypeOK
  <2> QED
    BY <1>1, <1>3, <1>4, <2>1, FinishOK, IdleIsOp, Tidies
<1>5. CASE Record(m, index)
  <2> DEFINE c == NextCommit
  <2>1. /\ Numbered' /\ made' \in [Commits -> Maker \cup {None}]
        /\ made' = [made EXCEPT ![c] = [by |-> m, files |-> index]] /\ c \in Commits
        /\ local' = [local EXCEPT ![head] = @ \cup {c}] /\ local' \in Refs
        /\ \A b \in Branches : /\ local[b] # None => local'[b] # None /\ local[b] \subseteq local'[b]
                               /\ local[b] = None => local'[b] = None
        /\ tree' = tree \ index /\ index' = {}
    BY <1>2, <1>5, RecordFacts
  <2>2. op' \in [Procs -> Op] /\ (\A q \in Procs : OpOK(q)') /\ op'[p].pc = "idle"
    BY <1>1, <2>1, FinishOK, IdleIsOp, OpFrame, Names
  <2>3. TypeOK'
    BY <1>1, <1>3, <2>1, <2>2 DEF Inv, TypeOK
  <2>4. Trunk'
    BY <1>1, <2>1, Names DEF Inv, Trunk
  <2>5. OnFeat'
    <3>1. local[Feat] # None /\ local'[Feat] # None
      BY <1>1, <1>2, <2>1, Names DEF Inv, OnFeat
    <3>2. ASSUME head = Feat, NEW x \in Commits, Own(x)' PROVE x \in local'[Feat]
      <4>1. CASE x = c
        BY <2>1, <3>1, <3>2, <4>1, Names DEF Inv, TypeOK, Refs
      <4>2. CASE x # c
        <5>1. Own(x)
          BY <2>1, <3>2, <4>2 DEF Own, Inv, TypeOK
        <5> QED
          BY <2>1, <3>1, <3>2, <5>1, Names DEF Inv, OnFeat
      <4> QED
        BY <4>1, <4>2
    <3> QED
      BY <1>1, <1>2, <2>2, <3>1, <3>2 DEF OnFeat
  <2> QED
    BY <2>1, <2>2, <2>3, <2>4, <2>5 DEF Inv
<1> QED
  BY <1>4, <1>5 DEF Commit

\* The tech lead's commits are the same after another has made one.
LEMMA OwnSame ==
  ASSUME Inv, NEW k \in Maker, NextCommit \in Commits, made' = [made EXCEPT ![NextCommit] = k],
         k.by = None \/ Home[k.by] # TL
  PROVE  \A c \in Commits : Own(c)' <=> Own(c)
BY NextIsNew, Names DEF Own, Inv, TypeOK

LEMMA PublishInv == ASSUME Inv, NEW p \in Procs, Publish(p) PROVE Inv'
<1> DEFINE m == op[p].m
           o == [op[p] EXCEPT !.pc = "publish_push"]
<1>1. UNCHANGED <<upstream, head, asked, phase, tokens>> /\ op[p].pc = "publish"
  BY DEF Publish
<1>2. op[p] \in Op /\ OpOK(p)
  BY DEF Inv, TypeOK
<1>3. p = PM /\ m \in Messages /\ Home[m] = PM /\ lock = p /\ op[p].branch \in Branches /\ local[op[p].branch] # None
  BY <1>1, <1>2, Names DEF OpOK, OfPM, Guarded
<1>4. /\ asked' \subseteq Messages /\ phase' \in [Messages -> {"new", "ready"}]
      /\ mem' \in [Messages -> SUBSET Token] /\ store' \in SUBSET Token /\ minted' \in 0 .. MaxTokens
  BY <1>1 DEF Inv, TypeOK, tokens
<1>5. CASE UNCHANGED <<made, local, tree, index>> /\ Finish(p) /\ lock' = None
  <2>1. index' \subseteq tree' /\ tree' \subseteq Files
    BY <1>5 DEF Inv, TypeOK
  <2> QED
    BY <1>1, <1>3, <1>4, <1>5, <2>1, FinishOK, IdleIsOp, Tidies
<1>6. CASE Record(m, index) /\ Go(p, "publish_push") /\ UNCHANGED lock
  <2> DEFINE c == NextCommit
             k == [by |-> m, files |-> index]
  <2>1. /\ Numbered' /\ made' \in [Commits -> Maker \cup {None}]
        /\ made' = [made EXCEPT ![c] = k] /\ c \in Commits
        /\ local' \in Refs
        /\ \A b \in Branches : /\ local[b] # None => local'[b] # None /\ local[b] \subseteq local'[b]
                               /\ local[b] = None => local'[b] = None
        /\ tree' = tree \ index /\ index' = {}
    BY <1>3, <1>6, RecordFacts
  <2>2. o \in Op /\ o.pc = "publish_push" /\ o.m = m /\ o.job = op[p].job /\ o.branch = op[p].branch
    BY <1>2 DEF Op, Pcs
  <2>3. op' = [op EXCEPT ![p] = o] /\ op'[p] = o
    BY <1>6 DEF Go, Inv, TypeOK
  <2> HIDE DEF o
  <2>4. OpOK(p)'
    BY <1>2, <1>3, <1>6, <2>1, <2>2, <2>3, Names DEF OpOK, Guarded, OfTL, OfPM
  <2>5. op' \in [Procs -> Op] /\ (\A q \in Procs : OpOK(q)')
    BY <1>6, <2>1, <2>2, <2>3, <2>4, OpFrame, Names
  <2>6. TypeOK'
    BY <1>1, <1>4, <1>6, <2>1, <2>5 DEF Inv, TypeOK
  <2>7. Trunk'
    BY <1>1, <2>1, Names DEF Inv, Trunk
  <2>8. \A x \in Commits : Own(x)' <=> Own(x)
    <3>1. k \in Maker
      BY <1>3 DEF Maker, Inv, TypeOK
    <3> QED
      BY <1>3, <2>1, <3>1, OwnSame, Names
  <2>9. op'[TL] = op[TL]
    BY <1>3, <2>3, Names DEF Inv, TypeOK
  <2>10. OnFeat'
    <3>1. local'[Feat] = None <=> local[Feat] = None
      BY <2>1, Names
    <3>2. head = Feat => \A x \in Commits : Own(x) => x \in local'[Feat]
      BY <2>1, Names DEF Inv, OnFeat, TypeOK
    <3> QED
      BY <1>1, <2>8, <2>9, <3>1, <3>2 DEF Inv, OnFeat
  <2> QED
    BY <2>1, <2>5, <2>6, <2>7, <2>10 DEF Inv
<1> QED
  BY <1>5, <1>6 DEF Publish

\* A branch here grows, and no commit is made.
LEMMA Grows ==
  ASSUME Inv, UNCHANGED <<upstream, head, tree, index, made, asked, tokens>>, NEW p \in Procs, Finish(p),
         local' \in Refs,
         \A b \in Branches : /\ local[b] # None => local'[b] # None /\ local[b] \subseteq local'[b]
                             /\ local[b] = None => local'[b] = None,
         lock' = lock \/ (lock = p /\ lock' = None),
         phase' \in [Messages -> {"new", "ready"}]
  PROVE  Inv'
<1>1. op' \in [Procs -> Op] /\ (\A q \in Procs : OpOK(q)') /\ op'[p].pc = "idle"
  BY FinishOK, IdleIsOp, OpFrame, Names
<1>2. TypeOK'
  BY <1>1 DEF Inv, TypeOK, tokens
<1>3. Numbered' /\ Trunk'
  BY Names DEF Inv, Numbered, Used, Trunk
<1>4. OnFeat'
  <2>1. op'[TL] = op[TL] \/ op'[TL].pc = "idle"
    BY <1>1, Names DEF Finish, Inv, TypeOK
  <2>2. \A c \in Commits : Own(c)' <=> Own(c)
    BY DEF Own
  <2>3. head = Feat => \A c \in Commits : Own(c) => c \in local'[Feat]
    BY Names DEF Inv, OnFeat, TypeOK
  <2> QED
    BY <2>1, <2>2, <2>3, Names DEF Inv, OnFeat
<1> QED
  BY <1>1, <1>2, <1>3, <1>4 DEF Inv

LEMMA PullInv == ASSUME Inv, NEW p \in Procs, Pull(p) PROVE Inv'
<1> DEFINE b == op[p].branch
<1>1. UNCHANGED <<upstream, head, tree, index, made, asked, tokens>> /\ op[p].pc = "pull" /\ Synced(p)
  BY DEF Pull
<1>2. b \in Branches
  BY <1>1 DEF Inv, OpOK
<1>3. /\ lock' = lock \/ (lock = p /\ lock' = None)
      /\ phase' \in [Messages -> {"new", "ready"}]
      /\ Finish(p)
  BY <1>1, SyncedFrees
<1>4. CASE FastForward(b)
  <2>1. upstream[b] \in History /\ local[head] \in History /\ head \in Branches /\ local \in Refs
    BY <1>2, <1>4 DEF FastForward, Inv, TypeOK, Refs
  <2>2. local' = [local EXCEPT ![head] = upstream[b]] /\ local[head] \subseteq upstream[b]
    BY <1>4 DEF FastForward
  <2>3. local' \in Refs
    BY <2>1, <2>2 DEF Refs
  <2>4. \A a \in Branches : /\ local[a] # None => local'[a] # None /\ local[a] \subseteq local'[a]
                            /\ local[a] = None => local'[a] = None
    BY <2>1, <2>2, Names DEF Refs
  <2> QED
    BY <1>1, <1>3, <2>3, <2>4, Grows
<1>5. CASE UNCHANGED local
  BY <1>1, <1>3, <1>5, Grows DEF Inv, TypeOK
<1> QED
  BY <1>1, <1>4, <1>5 DEF Pull

\* What a push sends is what a branch is here.
LEMMA SendFacts ==
  ASSUME Inv, NEW b \in Branches, local[b] # None, Send(b) \/ UNCHANGED upstream
  PROVE  /\ upstream' \in Refs
         /\ upstream'[Main] # None
         /\ \A a \in Branches : Hist(upstream[a]) \subseteq Hist(upstream'[a])
<1>1. upstream \in Refs /\ local[b] \in History
  BY DEF Inv, TypeOK, Refs
<1>2. (upstream'[b] = local[b] /\ Hist(upstream[b]) \subseteq local[b]) \/ UNCHANGED upstream
  BY <1>1 DEF Send, Refs
<1>3. \A a \in Branches : a # b => upstream'[a] = upstream[a]
  BY <1>1 DEF Send, Refs
<1>4. upstream' \in Refs
  BY <1>1 DEF Send, Refs
<1>5. upstream'[Main] # None
  BY <1>2, <1>3, Names DEF Inv, Trunk
<1>6. \A a \in Branches : Hist(upstream[a]) \subseteq Hist(upstream'[a])
  BY <1>2, <1>3 DEF Hist
<1> QED
  BY <1>4, <1>5, <1>6

\* A push changes nothing here.
LEMMA Pushes ==
  ASSUME Inv, UNCHANGED <<local, head, tree, index, made, asked, phase, tokens>>,
         NEW p \in Procs, Finish(p), lock' = lock \/ (lock = p /\ lock' = None),
         upstream' \in Refs, upstream'[Main] # None
  PROVE  Inv'
<1>1. op' \in [Procs -> Op] /\ (\A q \in Procs : OpOK(q)') /\ op'[p].pc = "idle"
  BY FinishOK, IdleIsOp, OpFrame, Names
<1>2. TypeOK'
  BY <1>1 DEF Inv, TypeOK, tokens
<1>3. Numbered' /\ Trunk'
  BY DEF Inv, Numbered, Used, Trunk
<1>4. OnFeat'
  <2>1. op'[TL] = op[TL] \/ op'[TL].pc = "idle"
    BY <1>1, Names DEF Finish, Inv, TypeOK
  <2> QED
    BY <2>1 DEF Inv, OnFeat, Own
<1> QED
  BY <1>1, <1>2, <1>3, <1>4 DEF Inv

LEMMA PushInv == ASSUME Inv, NEW p \in Procs, Push(p) PROVE Inv'
<1>1. /\ UNCHANGED <<local, head, tree, index, made, lock, asked, phase, tokens>>
      /\ op[p].pc = "push" /\ Finish(p) /\ (Send(op[p].branch) \/ UNCHANGED upstream)
  BY DEF Push
<1>2. op[p].branch \in Branches /\ local[op[p].branch] # None
  BY <1>1 DEF Inv, OpOK
<1> QED
  BY <1>1, <1>2, SendFacts, Pushes

LEMMA PublishPushInv == ASSUME Inv, NEW p \in Procs, PublishPush(p) PROVE Inv'
<1>1. /\ UNCHANGED <<local, head, tree, index, made, asked, phase, tokens>> /\ lock' = None
      /\ op[p].pc = "publish_push" /\ Finish(p) /\ (Send(op[p].branch) \/ UNCHANGED upstream)
  BY DEF PublishPush
<1>2. op[p].branch \in Branches /\ local[op[p].branch] # None /\ lock = p
  BY <1>1 DEF Inv, OpOK, Guarded, OfPM
<1> QED
  BY <1>1, <1>2, SendFacts, Pushes

\* The trunk as it was fetched is there.
LEMMA FetchedType ==
  ASSUME Inv, NEW p \in Procs, NEW base \in Fetched(p) PROVE base \in History
BY Names DEF Fetched, Inv, TypeOK, Op, Refs, Trunk

LEMMA ForkInv == ASSUME Inv, NEW p \in Procs, Fork(p) PROVE Inv'
<1>1. /\ UNCHANGED <<upstream, tree, index, made, lock, asked, phase, tokens>>
      /\ op[p].pc = "fork" /\ Finish(p) /\ head' = Feat
  BY DEF Fork
<1>2. PICK base \in Fetched(p) : local' = [local EXCEPT ![Feat] = base]
  BY DEF Fork
<1>3. base \in History /\ base # None
  BY FetchedType, Names
<1>4. p = TL /\ local[Feat] = None
  BY <1>1, Names DEF Inv, OpOK, OfTL
<1>5. local' \in Refs /\ local'[Feat] = base /\ local'[Main] = local[Main]
  BY <1>2, <1>3, Names DEF Inv, TypeOK, Refs
<1>6. op' \in [Procs -> Op] /\ (\A q \in Procs : OpOK(q)') /\ op'[p].pc = "idle"
  BY <1>1, <1>3, <1>4, <1>5, FinishOK, IdleIsOp, OpFrame, Names
<1>7. TypeOK'
  BY <1>1, <1>3, <1>5, <1>6, Names DEF Inv, TypeOK, tokens
<1>8. Numbered' /\ Trunk'
  BY <1>1, <1>5 DEF Inv, Numbered, Used, Trunk
<1>9. OnFeat'
  <2>1. \A c \in Commits : ~Own(c) /\ ~Own(c)'
    BY <1>1, <1>4 DEF Inv, OnFeat, Own
  <2> QED
    BY <1>4, <1>6, <2>1 DEF OnFeat
<1> QED
  BY <1>6, <1>7, <1>8, <1>9 DEF Inv

LEMMA CleanInv == ASSUME Inv, NEW p \in Procs, Clean(p) PROVE Inv'
<1>1. /\ UNCHANGED <<upstream, index, made, asked, phase, tokens>>
      /\ op[p].pc = "clean" /\ Finish(p) /\ lock' = None
  BY DEF Clean
<1>2. lock = p
  BY <1>1 DEF Inv, OpOK, Guarded
<1>3. CASE UNCHANGED <<local, head, tree>>
  <2>1. /\ asked' \subseteq Messages /\ phase' \in [Messages -> {"new", "ready"}]
        /\ mem' \in [Messages -> SUBSET Token] /\ store' \in SUBSET Token /\ minted' \in 0 .. MaxTokens
    BY <1>1 DEF Inv, TypeOK, tokens
  <2>2. index' \subseteq tree' /\ tree' \subseteq Files
    BY <1>1, <1>3 DEF Inv, TypeOK
  <2> QED
    BY <1>1, <1>2, <1>3, <2>1, <2>2, FinishOK, IdleIsOp, Tidies
<1>4. CASE /\ \E base \in Fetched(p) : local' = [local EXCEPT ![Main] = base]
           /\ head' = Main /\ tree' = tree \cap (Tracked \cup index)
  <2>1. PICK base \in Fetched(p) : local' = [local EXCEPT ![Main] = base]
    BY <1>4
  <2>2. base \in History /\ base # None
    BY FetchedType, Names
  <2>3. local' \in Refs /\ local'[Main] = base /\ local'[Feat] = local[Feat]
    BY <2>1, <2>2, Names DEF Inv, TypeOK, Refs
  <2>4. op' \in [Procs -> Op] /\ (\A q \in Procs : OpOK(q)') /\ op'[p].pc = "idle"
    BY <1>1, <1>2, <2>2, <2>3, FinishOK, IdleIsOp, OpFrame, Names
  <2>5. TypeOK'
    BY <1>1, <1>4, <2>2, <2>3, <2>4, Names DEF Inv, TypeOK, tokens
  <2>6. Numbered' /\ Trunk'
    BY <1>1, <2>2, <2>3 DEF Inv, Numbered, Used, Trunk
  <2>7. OnFeat'
    <3>1. op'[TL] = op[TL] \/ op'[TL].pc = "idle"
      BY <1>1, <2>4, Names DEF Finish, Inv, TypeOK
    <3> QED
      BY <1>1, <1>4, <2>3, <3>1, Names DEF Inv, OnFeat, Own
  <2> QED
    BY <2>4, <2>5, <2>6, <2>7 DEF Inv
<1> QED
  BY <1>3, <1>4 DEF Clean

LEMMA OthersInv == ASSUME Inv, NEW b \in Branches, Others(b) PROVE Inv'
<1> DEFINE c == NextCommit
           k == [by |-> None, files |-> {}]
<1>1. /\ UNCHANGED <<local, head, tree, index, op, lock, asked, phase, tokens>>
      /\ upstream[b] # None /\ c \in Commits /\ made' = [made EXCEPT ![c] = k]
      /\ upstream' = [upstream EXCEPT ![b] = @ \cup {c}]
  BY DEF Others
<1>2. k \in Maker
  BY DEF Maker
<1>3. Numbered' /\ made' \in [Commits -> Maker \cup {None}]
  BY <1>1, <1>2, StaysNumbered
<1>4. upstream[b] \cup {c} \in History
  BY <1>1 DEF Inv, TypeOK, Refs, History
<1>5. upstream' \in Refs
  BY <1>1, <1>4 DEF Inv, TypeOK, Refs
<1>6. Trunk'
  BY <1>1, <1>4, Names DEF Inv, TypeOK, Refs, Trunk
<1>7. TypeOK'
  BY <1>1, <1>3, <1>5 DEF Inv, TypeOK, tokens
<1>8. \A q \in Procs : OpOK(q)'
  BY <1>1 DEF Inv, OpOK, Guarded
<1>9. OnFeat'
  <2>1. \A x \in Commits : Own(x)' <=> Own(x)
    BY <1>1, <1>2, OwnSame
  <2> QED
    BY <1>1, <2>1 DEF Inv, OnFeat
<1> QED
  BY <1>3, <1>6, <1>7, <1>8, <1>9 DEF Inv

-----------------------------------------------------------------------------
LEMMA InitInv == Init => Inv
<1> SUFFICES ASSUME Init PROVE Inv
  OBVIOUS
<1>1. {0} \in History /\ [by |-> None, files |-> {}] \in Maker
  BY Names DEF History, Commits, Maker
<1>2. /\ upstream \in Refs /\ local = upstream /\ head = Main /\ local[Main] = {0} /\ local[Feat] = None
      /\ made \in [Commits -> Maker \cup {None}] /\ Used = {0}
  <2>1. upstream \in Refs /\ local = upstream /\ head = Main /\ local[Main] = {0} /\ local[Feat] = None
    BY <1>1, Names DEF Init, Refs
  <2> DEFINE k == [by |-> None, files |-> {}]
  <2>2. made = [c \in Commits |-> IF c = 0 THEN k ELSE None] /\ k \in Maker
    BY <1>1 DEF Init
  <2> HIDE DEF k
  <2>3. made \in [Commits -> Maker \cup {None}]
    BY <2>2
  <2>4. 0 \in Commits /\ \A c \in Commits : made[c] # None <=> c = 0
    BY <2>2, Names DEF Commits
  <2>5. Used = {0}
    BY <2>4 DEF Used
  <2> QED
    BY <2>1, <2>3, <2>5
<1>3. op \in [Procs -> Op] /\ \A p \in Procs : op[p] = IdleOp
  BY IdleIsOp DEF Init
<1>4. TypeOK
  <2>1. {upstream, local} \subseteq Refs /\ head \in Branches /\ local[head] # None
    BY <1>1, <1>2, Names
  <2>2. index \subseteq tree /\ tree \subseteq Files /\ lock \in Procs \cup {None} /\ asked \subseteq Messages
    BY DEF Init
  <2>3. phase \in [Messages -> {"new", "ready"}] /\ mem \in [Messages -> SUBSET Token]
    BY DEF Init
  <2>4. store \in SUBSET Token /\ minted \in 0 .. MaxTokens
    BY Names DEF Init
  <2> QED
    BY <1>2, <1>3, <2>1, <2>2, <2>3, <2>4 DEF TypeOK
<1>5. \A p \in Procs : OpOK(p)
  BY <1>3 DEF OpOK, Guarded, IdleOp, OfTL, OfPM
<1>6. Numbered
  <2>1. {c \in Commits : c < 1} = {0}
    BY Names DEF Commits
  <2> QED
    BY <1>2, <2>1, Names DEF Numbered
<1>7. Trunk
  BY <1>1, <1>2, Names DEF Trunk
<1>8. OnFeat
  <2>1. \A c \in Commits : ~Own(c)
    BY DEF Init, Own
  <2> QED
    BY <1>2, <1>3, <2>1, Names DEF OnFeat, IdleOp
<1> QED
  BY <1>4, <1>5, <1>6, <1>7, <1>8 DEF Inv

LEMMA StepInv == Inv /\ [Next]_vars => Inv'
<1> SUFFICES ASSUME Inv, [Next]_vars PROVE Inv'
  OBVIOUS
<1>1. ASSUME NEW p \in Procs, Step(p) PROVE Inv'
  BY <1>1, AcquireInv, ProbeInv, CheckoutInv, SyncInv, PullInv, StageInv, CommitInv, MintInv, PushInv,
     ForkInv, AddInv, PublishInv, PublishPushInv, ResetInv, CleanInv DEF Step
<1>2. ASSUME NEW m \in Messages,
             \/ Start(m) \/ SyncTool(m) \/ CommitStart(m) \/ InspectStart(m) \/ ForceStart(m)
             \/ \E f \in Files : Write(m, f)
             \/ \E k \in mem[m] : PushStart(m, k)
             \/ \E discard \in BOOLEAN : ForkStart(m, discard)
             \/ \E files \in SUBSET Publishable : PublishStart(m, files)
      PROVE  Inv'
  BY <1>2, StartInv, SyncToolInv, CommitStartInv, InspectStartInv, ForceStartInv, WriteInv, PushStartInv,
     ForkStartInv, PublishStartInv
<1>3. CASE UNCHANGED vars
  BY <1>3 DEF vars, git, tokens, Inv, TypeOK, OpOK, Guarded, Numbered, Used, Trunk, OnFeat, Own
<1> QED
  BY <1>1, <1>2, <1>3, CrashInv, OthersInv DEF Next

\* The inductive invariant holds of every run.
LEMMA InvHolds == Spec => []Inv
BY InitInv, StepInv, PTL DEF Spec

\* Every variable keeps its type; in particular the branch that is checked out is there and
\* what is staged is among what differs from HEAD.
THEOREM TypeCorrect == Spec => []TypeOK
<1>1. Inv => TypeOK
  BY DEF Inv
<1> QED
  BY <1>1, InvHolds, PTL

-----------------------------------------------------------------------------
(* Commits are kept.                                                       *)

\* Where a step goes that is not the end of a hard reset, no branch loses a commit.
LEMMA BranchesGrow ==
  ASSUME Inv, [Next]_vars, ~ \E p \in Procs : Clean(p), NEW b \in Branches
  PROVE  Hist(local[b]) \subseteq Hist(local'[b]) /\ Hist(upstream[b]) \subseteq Hist(upstream'[b])
<1> DEFINE Goal == Hist(local[b]) \subseteq Hist(local'[b]) /\ Hist(upstream[b]) \subseteq Hist(upstream'[b])
<1>1. UNCHANGED <<local, upstream>> => Goal
  OBVIOUS
<1>2. ASSUME UNCHANGED upstream,
             \A a \in Branches : /\ local[a] # None => local'[a] # None /\ local[a] \subseteq local'[a]
                                 /\ local[a] = None => local'[a] = None
      PROVE  Goal
  BY <1>2 DEF Hist
<1>3. ASSUME NEW p \in Procs, Step(p) PROVE Goal
  <2>1. CASE Acquire(p) \/ Probe(p) \/ Checkout(p) \/ Sync(p) \/ Stage(p) \/ Mint(p) \/ Add(p) \/ Reset(p)
    BY <1>1, <2>1 DEF Acquire, Probe, Checkout, Sync, Stage, Mint, Add, Reset, git
  <2>2. CASE Pull(p)
    <3>1. op[p].branch \in Branches /\ UNCHANGED upstream
      BY <2>2 DEF Pull, Inv, OpOK
    <3>2. CASE FastForward(op[p].branch)
      BY <3>1, <3>2, Names DEF FastForward, Hist, Inv, TypeOK, Refs
    <3> QED
      BY <1>1, <2>2, <3>1, <3>2 DEF Pull
  <2>3. CASE Commit(p) \/ Publish(p)
    <3>1. op[p].m \in Messages /\ UNCHANGED upstream /\ (Record(op[p].m, index) \/ UNCHANGED local)
      BY <2>3 DEF Commit, Publish, Inv, OpOK
    <3> QED
      BY <1>1, <1>2, <3>1, RecordFacts
  <2>4. CASE Push(p) \/ PublishPush(p)
    <3>1. /\ op[p].branch \in Branches /\ local[op[p].branch] # None /\ UNCHANGED local
          /\ Send(op[p].branch) \/ UNCHANGED upstream
      BY <2>4 DEF Push, PublishPush, Inv, OpOK
    <3> QED
      BY <3>1, SendFacts
  <2>5. CASE Fork(p)
    <3>1. local[Feat] = None /\ UNCHANGED upstream /\ \E base : local' = [local EXCEPT ![Feat] = base]
      BY <2>5 DEF Fork, Inv, OpOK
    <3> QED
      BY <3>1, Names DEF Hist, Inv, TypeOK, Refs
  <2> QED
    BY <1>3, <2>1, <2>2, <2>3, <2>4, <2>5 DEF Step
<1>4. ASSUME NEW p \in Procs, Crash(p) PROVE Goal
  BY <1>1, <1>4 DEF Crash, git
<1>5. ASSUME NEW m \in Messages,
             \/ Start(m) \/ SyncTool(m) \/ CommitStart(m) \/ InspectStart(m) \/ ForceStart(m)
             \/ \E f \in Files : Write(m, f)
             \/ \E k \in mem[m] : PushStart(m, k)
             \/ \E discard \in BOOLEAN : ForkStart(m, discard)
             \/ \E files \in SUBSET Publishable : PublishStart(m, files)
      PROVE  Goal
  <2>1. CASE Start(m) \/ SyncTool(m) \/ CommitStart(m) \/ InspectStart(m) \/ ForceStart(m)
    BY <1>1, <2>1 DEF Start, SyncTool, CommitStart, InspectStart, ForceStart, git
  <2>2. CASE \E f \in Files : Write(m, f)
    BY <1>1, <2>2 DEF Write
  <2>3. CASE \E k \in mem[m] : PushStart(m, k)
    BY <1>1, <2>3 DEF PushStart, git
  <2>4. CASE \E discard \in BOOLEAN : ForkStart(m, discard)
    BY <1>1, <2>4 DEF ForkStart
  <2>5. CASE \E files \in SUBSET Publishable : PublishStart(m, files)
    BY <1>1, <2>5 DEF PublishStart, git
  <2> QED
    BY <1>5, <2>1, <2>2, <2>3, <2>4, <2>5
<1>6. ASSUME NEW a \in Branches, Others(a) PROVE Goal
  <2>1. /\ UNCHANGED local /\ upstream[a] # None /\ NextCommit \in Commits
        /\ upstream' = [upstream EXCEPT ![a] = @ \cup {NextCommit}]
    BY <1>6 DEF Others
  <2>2. upstream \in [Branches -> {None} \cup History] /\ upstream[a] \cup {NextCommit} \in History
    BY <2>1 DEF Inv, TypeOK, Refs, History
  <2>3. upstream'[b] = upstream[b] \/ (b = a /\ upstream'[b] = upstream[b] \cup {NextCommit} /\ upstream'[b] # None)
    BY <2>1, <2>2, Names
  <2> QED
    BY <2>1, <2>3 DEF Hist
<1>7. CASE UNCHANGED vars
  BY <1>1, <1>7 DEF vars, git
<1> QED
  BY <1>3, <1>4, <1>5, <1>6, <1>7 DEF Next

\* Whatever the two processes and other people do, in any order and with crashes anywhere,
\* a commit that a branch leads to is led to for ever, but for the hard reset a user has
\* confirmed.
THEOREM CommitsAreKept == Spec => CommitsKept
<1>1. ASSUME Inv, [Next]_vars
      PROVE  (\E c \in Reachable : c \notin Reachable') => \E p \in Procs : op[p].pc = "clean" /\ Clean(p)
  <2>1. ASSUME ~ \E p \in Procs : Clean(p) PROVE Reachable \subseteq Reachable'
    BY <1>1, <2>1, BranchesGrow DEF Reachable
  <2> QED
    BY <2>1 DEF Clean
<1> QED
  BY <1>1, InvHolds, PTL DEF Spec, CommitsKept

-----------------------------------------------------------------------------
(* Pushes deliver what was inspected.                                      *)

\* The tech lead has made no commit since the head its push is about, so none of its own
\* is delivered that was not in there, wherever the branch is by the time of the push.
THEOREM InspectedHeadIsPushed == Spec => PushesInspectedHead
<1>1. ASSUME Inv, [Next]_vars, op[TL].pc = "push", op'[TL].pc # "push", NEW b \in Branches
      PROVE  Delivered(b) \subseteq op[TL].sha
  <2>1. \A c \in Commits : Own(c) => c \in op[TL].sha
    BY <1>1 DEF Inv, OnFeat
  <2>2. Hist(upstream'[b]) \subseteq Commits
    BY <1>1, StepInv DEF Hist, Inv, TypeOK, Refs, History
  <2> QED
    BY <2>1, <2>2 DEF Delivered, Own
<1>2. ASSUME Inv, [Next]_vars
      PROVE  op[TL].pc = "push" /\ op'[TL].pc # "push" => \A b \in Branches : Delivered(b) \subseteq op[TL].sha
  BY <1>1, <1>2
<1> QED
  BY <1>2, InvHolds, PTL DEF Spec, PushesInspectedHead

-----------------------------------------------------------------------------
(* Edits are kept.                                                         *)

\* A file that no longer differs from HEAD has been committed, or was given up with a work
\* branch that was asked for, or by a hard reset under its lock.
THEOREM EditsAreKept == Spec => EditsKept
<1> DEFINE Gone(f) == \/ \E c \in Commits : made'[c] # made[c] /\ f \in made'[c].files
                      \/ \E m \in Messages : ForkStart(m, TRUE)
                      \/ \E p \in Procs : op[p].pc \in {"reset", "clean"} /\ lock = p
<1>1. ASSUME Inv, [Next]_vars, NEW f \in tree \ tree' PROVE Gone(f)
  <2>1. ASSUME NEW p \in Procs, Step(p) PROVE Gone(f)
    <3>1. CASE Commit(p) \/ Publish(p)
      <4>1. op[p].m \in Messages /\ Record(op[p].m, index)
        BY <1>1, <3>1 DEF Commit, Publish, Inv, OpOK
      <4>2. /\ NextCommit \in Commits /\ made[NextCommit] = None
            /\ made' = [made EXCEPT ![NextCommit] = [by |-> op[p].m, files |-> index]]
            /\ tree' = tree \ index
        BY <1>1, <4>1, RecordFacts
      <4>3. made'[NextCommit] = [by |-> op[p].m, files |-> index] /\ [by |-> op[p].m, files |-> index] \in Maker
        BY <1>1, <4>1, <4>2 DEF Inv, TypeOK, Maker
      <4>4. f \in index /\ made'[NextCommit].files = index
        BY <1>1, <4>2, <4>3
      <4>5. made'[NextCommit] # made[NextCommit]
        BY <4>2, <4>3, Names
      <4> QED
        BY <4>2, <4>4, <4>5
    <3>2. CASE Reset(p) \/ Clean(p)
      BY <1>1, <3>2 DEF Reset, Clean, Inv, OpOK, Guarded
    <3>3. ASSUME UNCHANGED tree PROVE FALSE
      BY <1>1, <3>3
    <3>4. CASE Acquire(p) \/ Probe(p) \/ Checkout(p) \/ Sync(p) \/ Pull(p) \/ Stage(p) \/ Mint(p) \/ Push(p)
               \/ Fork(p) \/ Add(p) \/ PublishPush(p)
      BY <3>3, <3>4 DEF Acquire, Probe, Checkout, Sync, Pull, Stage, Mint, Push, Fork, Add, PublishPush, git
    <3> QED
      BY <2>1, <3>1, <3>2, <3>4 DEF Step
  <2>2. ASSUME NEW m \in Messages, NEW discard \in BOOLEAN, ForkStart(m, discard) PROVE Gone(f)
    <3>1. discard
      BY <1>1, <2>2 DEF ForkStart
    <3> QED
      BY <2>2, <3>1
  <2>3. ~ UNCHANGED tree
    BY <1>1
  <2>4. ASSUME NEW m \in Messages,
               \/ Start(m) \/ SyncTool(m) \/ CommitStart(m) \/ InspectStart(m) \/ ForceStart(m)
               \/ \E g \in Files : Write(m, g)
               \/ \E k \in mem[m] : PushStart(m, k)
               \/ \E files \in SUBSET Publishable : PublishStart(m, files)
        PROVE  FALSE
    BY <1>1, <2>3, <2>4 DEF Start, SyncTool, CommitStart, InspectStart, ForceStart, Write, PushStart,
       PublishStart, git
  <2>5. ~ \E p \in Procs : Crash(p)
    BY <2>3 DEF Crash, git
  <2>6. ~ \E b \in Branches : Others(b)
    BY <2>3 DEF Others
  <2>7. ~ UNCHANGED vars
    BY <2>3 DEF vars, git
  <2> QED
    BY <1>1, <2>1, <2>2, <2>4, <2>5, <2>6, <2>7 DEF Next
<1>2. ASSUME Inv, [Next]_vars PROVE \A f \in tree \ tree' : Gone(f)
  BY <1>1, <1>2
<1> QED
  BY <1>2, InvHolds, PTL DEF Spec, EditsKept

=============================================================================
