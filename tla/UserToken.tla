----------------------------- MODULE UserToken ------------------------------
(***************************************************************************)
(* The user token with which the tech lead delegates "as a user": the      *)
(* service of the bot process that loads, refreshes and stores it          *)
(* (runtime/impersonation_token_service.py), the delegation that asks for  *)
(* it (roles/tech_lead_executor.py) and the OAuth callback server, another *)
(* process, that writes a new one into the same file                       *)
(* (runtime/oauth_callback_server.py).                                     *)
(*                                                                         *)
(* A token is the number of its grant; it has an access part that is good  *)
(* for two hours and a refresh part that is good for a week and for one    *)
(* use.  Both processes write <app>.json.tmp and rename it.                *)
(***************************************************************************)
EXTENDS Naturals

CONSTANTS
  Delegations,  \* calls of delegate_to_application_agent
  Clicks,       \* authorizations by a person in a browser
  MaxGrants,    \* bound on the tokens that are issued
  None,
  Torn         \* what a half-written file has

VARIABLES
  grants,     \* tokens issued so far: 1 .. grants
  spent,      \* tokens whose refresh part was used
  stale,      \* tokens whose access part needs a refresh
  dead,       \* tokens whose refresh part has run out
  file, tmp,  \* the token in either file, Torn or None
  hand,       \* the file a writer has open: "tmp", "file" or "gone"
  cached,     \* ImpersonationTokenService._cached
  lock,       \* the delegation that has _lock
  pc, tok,    \* where a delegation or a click is, and the token it has
  mishap      \* a refreshed token was lost: answer, write or process

ASSUME UserTokenAssumption ==
  /\ MaxGrants \in Nat \ {0}
  /\ Delegations \cap Clicks = {}
  /\ None \notin Delegations \cup Clicks \cup Nat
  /\ Torn \notin Nat \cup {None}

tokens == <<grants, spent, stale, dead>>
files == <<file, tmp, hand>>
vars == <<tokens, files, cached, lock, pc, tok, mishap>>

Writers == Delegations \cup Clicks
Tokens == 1 .. MaxGrants
Storing == {"open", "put", "replace"}

Goto(w, p) == pc' = [pc EXCEPT ![w] = p]
Holds(w, t) == tok' = [tok EXCEPT ![w] = t]

\* One token was issued before and is in the file.
Init ==
  /\ grants = 1
  /\ spent = {} /\ stale = {} /\ dead = {}
  /\ file = 1
  /\ tmp = None
  /\ hand = [w \in Writers |-> None]
  /\ cached = None
  /\ lock = None
  /\ pc = [w \in Writers |-> IF w \in Delegations THEN "asked" ELSE "idle"]
  /\ tok = [w \in Writers |-> None]
  /\ mishap = FALSE

-----------------------------------------------------------------------------
(* The token service *)

\* A file that cannot be parsed is no token.
OnDisk == IF file = Torn THEN None ELSE file

\* The token in memory goes before the one on disk.
Current == IF cached # None THEN cached ELSE OnDisk

Free(d) == lock = None

NeedsRefresh(t) == t \in stale

Usable(t) == t \notin dead

\* get_access_token up to the call of Feishu.
Ask(d) ==
  /\ pc[d] = "asked"
  /\ Free(d)
  /\ \/ /\ Current = None \/ (NeedsRefresh(Current) /\ ~Usable(Current))
        /\ Goto(d, "post")
        /\ UNCHANGED <<tok, cached, lock>>
     \/ /\ Current # None /\ ~NeedsRefresh(Current)
        /\ Goto(d, "post")
        /\ Holds(d, Current)
        /\ cached' = Current
        /\ UNCHANGED lock
     \/ /\ Current # None /\ NeedsRefresh(Current) /\ Usable(Current)
        /\ Goto(d, "refreshing")
        /\ Holds(d, Current)
        /\ lock' = d
        /\ UNCHANGED cached
  /\ UNCHANGED <<tokens, files, mishap>>

\* Feishu gives a new token for the refresh part of an old one, once.
Rotate(t) ==
  /\ t \notin spent \cup dead
  /\ grants < MaxGrants
  /\ grants' = grants + 1
  /\ spent' = spent \cup {t}
  /\ UNCHANGED <<stale, dead>>

Refreshed(d) ==
  /\ pc[d] = "refreshing"
  /\ Rotate(tok[d])
  /\ Holds(d, grants + 1)
  /\ Goto(d, "open")
  /\ UNCHANGED <<files, cached, lock, mishap>>

\* The request fails or is refused, or its answer is lost.
RefreshFailed(d) ==
  /\ pc[d] = "refreshing"
  /\ \/ UNCHANGED <<tokens, mishap>>
     \/ /\ Rotate(tok[d])
        /\ mishap' = TRUE
  /\ Holds(d, None)
  /\ Goto(d, "post")
  /\ lock' = None
  /\ UNCHANGED <<files, cached>>

-----------------------------------------------------------------------------
(* Writing a token: tmp is opened and cut, written, renamed *)

OpenTmp(w) ==
  /\ pc[w] = "open"
  /\ tmp' = Torn
  /\ hand' = [hand EXCEPT ![w] = "tmp"]
  /\ Goto(w, "put")
  /\ UNCHANGED <<tokens, file, cached, lock, tok, mishap>>

\* Another writer that has the same file open may leave a longer text there.
PutTmp(w) ==
  LET Shared == \E v \in Writers \ {w} : hand[v] = hand[w]
      Texts == {tok[w]} \cup (IF Shared THEN {Torn} ELSE {})
  IN
  /\ pc[w] = "put"
  /\ tmp' \in IF hand[w] = "tmp" THEN Texts ELSE {tmp}
  /\ file' \in IF hand[w] = "file" THEN Texts ELSE {file}
  /\ Goto(w, "replace")
  /\ UNCHANGED <<tokens, hand, cached, lock, tok, mishap>>

\* The variant that stores a token and goes on with the old one.
StoredOnly(w) ==
  IF w \in Delegations
  THEN Goto(w, "post") /\ lock' = None /\ UNCHANGED cached
  ELSE Goto(w, "shown") /\ UNCHANGED <<cached, lock>>

\* What the writer does when its token is stored.
Stored(w) ==
  IF w \in Delegations
  THEN Goto(w, "post") /\ cached' = tok[w] /\ lock' = None
  ELSE Goto(w, "shown") /\ UNCHANGED <<cached, lock>>

ReplaceTmp(w) ==
  /\ pc[w] = "replace"
  /\ tmp # None
  /\ file' = tmp
  /\ tmp' = None
  /\ hand' = [v \in Writers |->
       CASE v = w -> None
         [] v # w /\ hand[v] = "tmp" -> "file"
         [] v # w /\ hand[v] = "file" -> "gone"
         [] OTHER -> hand[v]]
  /\ Stored(w)
  /\ UNCHANGED <<tokens, tok, mishap>>

\* The variant in which an error leaves the lock taken.
StoreFailedLocked(w) ==
  /\ pc[w] \in Storing
  /\ hand' = [hand EXCEPT ![w] = None]
  /\ IF w \in Delegations
     THEN Goto(w, "post") /\ Holds(w, None) /\ mishap' = TRUE
     ELSE Goto(w, "failed") /\ UNCHANGED <<tok, mishap>>
  /\ UNCHANGED <<tokens, file, tmp, cached, lock>>

\* The disk refuses, or the other process has renamed the file: the service
\* raises, the server answers 500.
StoreFailed(w) ==
  /\ pc[w] \in Storing
  /\ hand' = [hand EXCEPT ![w] = None]
  /\ IF w \in Delegations
     THEN Goto(w, "post") /\ Holds(w, None) /\ lock' = None /\ mishap' = TRUE
     ELSE Goto(w, "failed") /\ UNCHANGED <<tok, lock, mishap>>
  /\ UNCHANGED <<tokens, file, tmp, cached>>

-----------------------------------------------------------------------------
(* The delegation *)

\* Posted as the user if there is a token, else as the bot; there is no second
\* attempt.  A failure may still have been delivered.
Post(d) ==
  /\ pc[d] = "post"
  /\ \E said \in {"sent", "failed"} : Goto(d, said)
  /\ UNCHANGED <<tokens, files, cached, lock, tok, mishap>>

-----------------------------------------------------------------------------
(* The callback server *)

\* /feishu/authorize: a state is minted.
Authorize(c) ==
  /\ pc[c] = "idle"
  /\ Goto(c, "state")
  /\ UNCHANGED <<tokens, files, cached, lock, tok, mishap>>

\* /feishu/callback: the state is used up, the code is exchanged.
Callback(c) ==
  /\ pc[c] = "state"
  /\ grants < MaxGrants
  /\ grants' = grants + 1
  /\ Holds(c, grants + 1)
  /\ Goto(c, "open")
  /\ UNCHANGED <<spent, stale, dead, files, cached, lock, mishap>>

\* The state is too old or not known any more, or the exchange fails.
CallbackFailed(c) ==
  /\ pc[c] = "state"
  /\ Goto(c, "failed")
  /\ UNCHANGED <<tokens, files, cached, lock, tok, mishap>>

-----------------------------------------------------------------------------
(* Time and crashes *)

\* Tokens last hours, and nobody holds one for longer than seconds.
InHand == {tok[w] : w \in {v \in Writers : pc[v] \in Storing \cup {"refreshing", "post"}}}

Age(t) ==
  /\ t \in (1 .. grants) \ (stale \cup InHand)
  /\ stale' = stale \cup {t}
  /\ UNCHANGED <<grants, spent, dead, files, cached, lock, pc, tok, mishap>>

Die(t) ==
  /\ t \in stale \ (dead \cup InHand)
  /\ dead' = dead \cup {t}
  /\ UNCHANGED <<grants, spent, stale, files, cached, lock, pc, tok, mishap>>

\* The bot process is started again.
Restart ==
  LET Cut == {d \in Delegations : pc[d] \in Storing \cup {"refreshing", "post"}} IN
  /\ pc' = [w \in Writers |-> IF w \in Cut THEN "lost" ELSE pc[w]]
  /\ hand' = [w \in Writers |-> IF w \in Cut THEN None ELSE hand[w]]
  /\ cached' = None
  /\ lock' = None
  /\ mishap' = (mishap \/ \E d \in Cut : pc[d] # "post")
  /\ \/ UNCHANGED tokens
     \/ \E d \in Cut : pc[d] = "refreshing" /\ Rotate(tok[d])
  /\ UNCHANGED <<file, tmp, tok>>

\* The callback server is started again; its states were in memory.
RestartServer ==
  /\ \E c \in Clicks : pc[c] \in Storing \cup {"state"}
  /\ pc' = [w \in Writers |->
       IF w \in Clicks /\ pc[w] \in Storing \cup {"state"} THEN "failed" ELSE pc[w]]
  /\ hand' = [w \in Writers |-> IF w \in Clicks THEN None ELSE hand[w]]
  /\ UNCHANGED <<tokens, file, tmp, cached, lock, tok, mishap>>

Step(d) == Ask(d) \/ Refreshed(d) \/ RefreshFailed(d) \/ Post(d)
Store(w) == OpenTmp(w) \/ PutTmp(w) \/ ReplaceTmp(w) \/ StoreFailed(w)

Next ==
  \/ \E d \in Delegations : Step(d)
  \/ \E w \in Writers : Store(w)
  \/ \E c \in Clicks : Authorize(c) \/ Callback(c) \/ CallbackFailed(c)
  \/ \E t \in Tokens : Age(t) \/ Die(t)
  \/ Restart
  \/ RestartServer

Spec == Init /\ [][Next]_vars

\* Requests have time limits and the process goes on with what it has begun.
FairSpec == Spec /\ \A d \in Delegations : WF_vars(Step(d)) /\ WF_vars(Store(d))

-----------------------------------------------------------------------------
(* Properties *)

Over == {"sent", "failed", "lost"}

TypeOK ==
  /\ grants \in Tokens
  /\ spent \subseteq Tokens /\ stale \subseteq Tokens /\ dead \subseteq stale
  /\ file \in {None, Torn} \cup Tokens
  /\ tmp \in {None, Torn} \cup Tokens
  /\ hand \in [Writers -> {None, "tmp", "file", "gone"}]
  /\ cached \in {None} \cup Tokens
  /\ lock \in {None} \cup Delegations
  /\ pc \in [Writers -> Storing \cup Over \cup
       {"asked", "refreshing", "post", "idle", "state", "shown"}]
  /\ tok \in [Writers -> {None} \cup Tokens]
  /\ mishap \in BOOLEAN

\* Unless an answer, a write or the process was lost at the wrong moment, the
\* token the service would use next has not been used up: neither overlapping
\* requests nor the callback server make it present a refresh part twice.
KeptUnlessLost ==
  (~mishap /\ lock = None) => Current \notin spent

\* A delegation comes to an end, whatever went wrong with the token.
EveryDelegationEnds == \A d \in Delegations : <>(pc[d] \in Over)

\* "the next request uses the new token" (oauth_callback_server.py:328): with a
\* good token on disk no delegation goes without one.
ReauthUsed == [][\A d \in Delegations :
  pc[d] = "asked" /\ pc'[d] = "post" /\ tok'[d] = None =>
    OnDisk = None \/ OnDisk \in dead]_vars

\* "a concurrent read by the agent never sees a truncated file"
\* (oauth_callback_server.py:31-33).
NeverTorn == file # Torn

=============================================================================
