---------------------------- MODULE UserTokenProofs ----------------------------
(***************************************************************************)
(* Proofs about UserToken: its types, and that the token the service would *)
(* use next has not been used up unless something was lost on the way, for *)
(* any number of delegations, authorizations and tokens.                   *)
(***************************************************************************)
EXTENDS UserToken, TLAPS

\* Every token that is anywhere has been issued; only what needs a refresh is used up.
Issued ==
  /\ spent \subseteq stale /\ stale \subseteq 1 .. grants
  /\ {file, tmp, cached} \cup {tok[w] : w \in Writers} \subseteq {None, Torn} \cup 1 .. grants

\* The lock is held from the refresh to the end of the store.
Locking ==
  \A d \in Delegations : lock = d <=> pc[d] \in {"refreshing"} \cup Storing

\* What is being stored is new; what is being refreshed is old, and not being stored.
Carried ==
  /\ \A w \in Writers : pc[w] \in Storing => tok[w] \in Tokens \ stale
  /\ \A d \in Delegations : pc[d] = "refreshing" => tok[d] \in stale /\ tok[d] # tmp

\* A token has one writer, who writes it to one place.
Apart ==
  /\ \A v, w \in Writers : v # w /\ {pc[v], pc[w]} \subseteq Storing => tok[v] # tok[w]
  /\ \A w \in Writers : pc[w] \in {"open", "put"} => tok[w] \notin {file, tmp, cached}
  /\ tmp \in Tokens => tmp \notin {file, cached}

\* What is about to become the file is good, and so are the file and the token in memory
\* but for the time a new one is being stored.
Good ==
  /\ tmp \notin spent
  /\ ~mishap /\ (\A d \in Delegations : pc[d] \notin Storing) => spent \cap {file, cached} = {}

Inv == TypeOK /\ Issued /\ Locking /\ Carried /\ Apart /\ Good

-----------------------------------------------------------------------------
\* No token is used for "none" or for a torn text.
LEMMA NoToken == None \notin Tokens /\ Torn \notin Tokens /\ None # Torn
BY UserTokenAssumption DEF Tokens

LEMMA InitInv == Init => Inv
<1> SUFFICES ASSUME Init PROVE Inv
  OBVIOUS
<1> USE UserTokenAssumption DEF Init, Writers, Tokens, Storing
<1>1. /\ grants \in Tokens /\ file \in Tokens /\ 1 .. grants = {1}
      /\ None \notin Tokens /\ None \notin Delegations
  OBVIOUS
<1>2. pc \in [Writers -> {"asked", "idle"}] /\ tok \in [Writers -> {None}] /\ hand \in [Writers -> {None}]
  OBVIOUS
<1>3. TypeOK
  BY <1>1, <1>2 DEF TypeOK
<1>4. Issued
  BY DEF Issued
<1>5. Locking /\ Carried
  BY <1>1, <1>2 DEF Locking, Carried
<1>6. Apart
  BY <1>1, <1>2 DEF Apart
<1>7. Good
  BY DEF Good
<1> QED
  BY <1>3, <1>4, <1>5, <1>6, <1>7 DEF Inv

\* A delegation asks: Locking tells that nobody stores, Good that what it takes is good.
LEMMA AskInv == ASSUME Inv, NEW d \in Delegations, Ask(d) PROVE Inv'
<1> USE UserTokenAssumption DEF Inv, Ask, Goto, Holds, Free, tokens, files
<1> USE DEF Writers, Tokens, Storing
<1>1. Current \in {cached, file} \cup {None} /\ (Current # None => Current \in Tokens)
  BY DEF Current, OnDisk, TypeOK
<1>2. /\ pc[d] = "asked" /\ lock = None /\ pc' \in {[pc EXCEPT ![d] = "post"], [pc EXCEPT ![d] = "refreshing"]}
      /\ tok' \in {tok, [tok EXCEPT ![d] = Current]} /\ cached' \in {cached, Current}
      /\ UNCHANGED <<grants, spent, stale, dead, file, tmp, hand, mishap>>
  OBVIOUS
<1>3. \A e \in Delegations : pc[e] \notin {"refreshing"} \cup Storing
  BY <1>2 DEF Locking
<1>4. TypeOK'
  BY <1>1, <1>2 DEF TypeOK, Over
<1>5. Issued'
  BY <1>1, <1>2 DEF Issued, TypeOK
<1>6. Locking'
  BY <1>3 DEF Locking, TypeOK
<1>7. Carried'
  <2>1. pc'[d] = "refreshing" => tok'[d] = Current /\ Current \in Tokens \cap stale
    BY <1>1 DEF TypeOK, NeedsRefresh
  <2>2. Current \in Tokens => Current # tmp
    BY <1>1 DEF Apart
  <2> QED
    BY <1>2, <2>1, <2>2 DEF Carried, TypeOK
<1>8. Apart'
  BY <1>1, <1>2 DEF Apart, TypeOK
<1>9. Good'
  BY <1>1, <1>2, <1>3 DEF Good, TypeOK
<1> QED
  BY <1>4, <1>5, <1>6, <1>7, <1>8, <1>9

\* The token of a grant is above all there are.
LEMMA RefreshedInv == ASSUME Inv, NEW d \in Delegations, Refreshed(d) PROVE Inv'
<1> USE UserTokenAssumption DEF Inv, Writers, Tokens, Storing
<1> DEFINE t == grants + 1
<1>1. /\ pc[d] = "refreshing" /\ pc' = [pc EXCEPT ![d] = "open"] /\ tok' = [tok EXCEPT ![d] = t]
      /\ grants' = t /\ t \in Tokens /\ spent' = spent \cup {tok[d]}
      /\ UNCHANGED <<stale, dead, file, tmp, hand, cached, lock, mishap>>
  BY DEF Refreshed, Rotate, Goto, Holds, files, TypeOK
<1>2. tok[d] \in stale /\ tok[d] # tmp
  BY <1>1 DEF Carried
<1>3. TypeOK'
  BY <1>1, <1>2 DEF TypeOK, Over
<1>4. t \notin stale /\ t \notin {file, tmp, cached} \cup {tok[w] : w \in Writers}
  BY <1>1 DEF Issued, TypeOK
<1>5. Issued'
  BY <1>1, <1>2 DEF Issued, TypeOK
<1>6. Locking'
  BY <1>1 DEF Locking, TypeOK
<1>7. Carried'
  BY <1>1, <1>4 DEF Carried, TypeOK
<1>8. Apart'
  BY <1>1, <1>4 DEF Apart, TypeOK
<1>9. Good'
  BY <1>1, <1>2 DEF Good, TypeOK
<1> QED
  BY <1>3, <1>5, <1>6, <1>7, <1>8, <1>9

\* A refresh without an answer: the old token is still good, or a mishap has been noted.
LEMMA RefreshFailedInv == ASSUME Inv, NEW d \in Delegations, RefreshFailed(d) PROVE Inv'
<1> USE UserTokenAssumption DEF Inv, Writers, Tokens, Storing
<1>1. /\ pc[d] = "refreshing" /\ pc' = [pc EXCEPT ![d] = "post"] /\ tok' = [tok EXCEPT ![d] = None]
      /\ lock' = None
      /\ UNCHANGED <<stale, dead, file, tmp, hand, cached>>
  BY DEF RefreshFailed, Rotate, Goto, Holds, files, tokens
<1>2. \/ UNCHANGED <<grants, spent, mishap>>
      \/ grants' = grants + 1 /\ grants' \in Tokens /\ spent' = spent \cup {tok[d]} /\ mishap' = TRUE
  BY DEF RefreshFailed, Rotate, tokens, TypeOK
<1>3. tok[d] \in stale /\ tok[d] # tmp /\ lock = d
  BY <1>1 DEF Carried, Locking
<1>4. TypeOK'
  BY <1>1, <1>2, <1>3 DEF TypeOK, Over
<1>5. Issued'
  BY <1>1, <1>2, <1>3 DEF Issued, TypeOK
<1>6. Locking'
  BY <1>1, <1>3 DEF Locking, TypeOK
<1>7. Carried'
  BY <1>1 DEF Carried, TypeOK
<1>8. Apart'
  BY <1>1 DEF Apart, TypeOK
<1>9. Good'
  <2>1. \A e \in Delegations : pc[e] \notin Storing
    BY <1>1, <1>3 DEF Locking
  <2> QED
    BY <1>1, <1>2, <1>3, <2>1 DEF Good
<1> QED
  BY <1>4, <1>5, <1>6, <1>7, <1>8, <1>9

LEMMA PostInv == ASSUME Inv, NEW d \in Delegations, Post(d) PROVE Inv'
<1> USE UserTokenAssumption DEF Inv, Writers, Tokens, Storing
<1>1. /\ pc[d] = "post" /\ pc' \in {[pc EXCEPT ![d] = "sent"], [pc EXCEPT ![d] = "failed"]}
      /\ UNCHANGED <<grants, spent, stale, dead, file, tmp, hand, cached, lock, tok, mishap>>
  BY DEF Post, Goto, files, tokens
<1>2. TypeOK'
  BY <1>1 DEF TypeOK, Over
<1>3. Issued' /\ Locking' /\ Carried'
  BY <1>1 DEF Issued, Locking, Carried, TypeOK
<1>4. Apart' /\ Good'
  BY <1>1 DEF Apart, Good, TypeOK
<1> QED
  BY <1>2, <1>3, <1>4

-----------------------------------------------------------------------------
(* Storing *)

LEMMA OpenTmpInv == ASSUME Inv, NEW w \in Writers, OpenTmp(w) PROVE Inv'
<1> USE UserTokenAssumption DEF Inv, Writers, Tokens, Storing
<1>1. /\ pc[w] = "open" /\ pc' = [pc EXCEPT ![w] = "put"]
      /\ tmp' = Torn /\ hand' = [hand EXCEPT ![w] = "tmp"]
      /\ UNCHANGED <<grants, spent, stale, dead, file, cached, lock, tok, mishap>>
  BY DEF OpenTmp, Goto, tokens
<1>2. TypeOK'
  BY <1>1 DEF TypeOK, Over
<1>3. Issued' /\ Locking'
  BY <1>1 DEF Issued, Locking, TypeOK
<1>4. Carried'
  BY <1>1 DEF Carried, TypeOK
<1>5. Apart'
  BY <1>1 DEF Apart, TypeOK
<1>6. Good'
  BY <1>1, NoToken DEF Good, TypeOK
<1> QED
  BY <1>2, <1>3, <1>4, <1>5, <1>6

\* The new token is in one of the two files, and it is fresh.
LEMMA PutTmpInv == ASSUME Inv, NEW w \in Writers, PutTmp(w) PROVE Inv'
<1> USE UserTokenAssumption DEF Inv, Writers, Tokens, Storing
<1>1. /\ pc[w] = "put" /\ pc' = [pc EXCEPT ![w] = "replace"]
      /\ \/ tmp' \in {tmp, tok[w], Torn} /\ file' = file
         \/ tmp' = tmp /\ file' \in {file, tok[w], Torn}
      /\ UNCHANGED <<grants, spent, stale, dead, hand, cached, lock, tok, mishap>>
  BY DEF PutTmp, Goto, tokens
<1>2. tok[w] \in Tokens \ stale /\ tok[w] \notin spent /\ tok[w] \notin {file, tmp, cached}
  BY <1>1 DEF Carried, Apart, Issued
<1>3. TypeOK'
  BY <1>1, <1>2 DEF TypeOK, Over
<1>4. Issued' /\ Locking'
  BY <1>1 DEF Issued, Locking, TypeOK
<1>5. Carried'
  BY <1>1, <1>2 DEF Carried, TypeOK
<1>6. Apart'
  BY <1>1, <1>2 DEF Apart, TypeOK
<1>7. Good'
  <2>1. Torn \notin spent
    BY NoToken DEF TypeOK
  <2>2. tmp' \notin spent /\ (file' = file \/ file' \notin spent)
    BY <1>1, <1>2, <2>1 DEF Good
  <2>3. \A d \in Delegations : pc'[d] \notin Storing => pc[d] \notin Storing
    BY <1>1 DEF TypeOK
  <2> QED
    BY <1>1, <2>2, <2>3 DEF Good
<1> QED
  BY <1>3, <1>4, <1>5, <1>6, <1>7

\* What was in the temporary file is good and so is what the writer has.
LEMMA ReplaceTmpInv == ASSUME Inv, NEW w \in Writers, ReplaceTmp(w) PROVE Inv'
<1> USE UserTokenAssumption DEF Inv, Writers, Tokens, Storing
<1>1. /\ pc[w] = "replace" /\ file' = tmp /\ tmp' = None
      /\ hand' \in [Writers -> {None, "tmp", "file", "gone"}]
      /\ UNCHANGED <<grants, spent, stale, dead, tok, mishap>>
  BY DEF ReplaceTmp, tokens, TypeOK
<1>2. \/ /\ w \in Delegations /\ pc' = [pc EXCEPT ![w] = "post"] /\ cached' = tok[w] /\ lock' = None
      \/ /\ w \in Clicks /\ w \notin Delegations /\ pc' = [pc EXCEPT ![w] = "shown"]
         /\ UNCHANGED <<cached, lock>>
  BY DEF ReplaceTmp, Stored, Goto
<1>3. tok[w] \in Tokens \ stale /\ tok[w] \notin spent
  BY <1>1 DEF Carried, Issued
<1>4. w \in Delegations => lock = w
  BY <1>1 DEF Locking
<1>5. TypeOK'
  BY <1>1, <1>2, <1>3 DEF TypeOK, Over
<1>6. Issued'
  BY <1>1, <1>2 DEF Issued, TypeOK
<1>7. Locking'
  BY <1>1, <1>2, <1>4 DEF Locking, TypeOK
<1>8. Carried'
  <2>1. \A d \in Delegations : pc'[d] = "refreshing" => d # w /\ tok[d] \in stale /\ tok[d] # None
    BY <1>1, <1>2, NoToken DEF Carried, TypeOK
  <2> QED
    BY <1>1, <1>2, <2>1 DEF Carried, TypeOK
<1>9. Apart'
  <2>1. \A v \in Writers : pc'[v] \in Storing => v # w /\ pc'[v] = pc[v] /\ tok'[v] \in Tokens
    BY <1>1, <1>2 DEF Carried, TypeOK
  <2> QED
    BY <1>1, <1>2, <2>1, NoToken DEF Apart
<1>10. Good'
  <2>1. None \notin spent
    BY NoToken DEF TypeOK
  <2>2. CASE w \in Delegations
    BY <1>1, <1>2, <1>3, <2>1, <2>2 DEF Good
  <2>3. CASE w \notin Delegations
    BY <1>1, <1>2, <2>1, <2>3 DEF Good, TypeOK
  <2> QED
    BY <2>2, <2>3
<1> QED
  BY <1>5, <1>6, <1>7, <1>8, <1>9, <1>10

LEMMA StoreFailedInv == ASSUME Inv, NEW w \in Writers, StoreFailed(w) PROVE Inv'
<1> USE UserTokenAssumption DEF Inv, Writers, Tokens, Storing
<1>1. /\ pc[w] \in {"open", "put", "replace"} /\ hand' = [hand EXCEPT ![w] = None]
      /\ UNCHANGED <<grants, spent, stale, dead, file, tmp, cached>>
  BY DEF StoreFailed, tokens
<1>2. \/ /\ w \in Delegations /\ pc' = [pc EXCEPT ![w] = "post"]
         /\ tok' = [tok EXCEPT ![w] = None] /\ lock' = None /\ mishap' = TRUE
      \/ /\ w \in Clicks /\ w \notin Delegations /\ pc' = [pc EXCEPT ![w] = "failed"]
         /\ UNCHANGED <<tok, lock, mishap>>
  BY DEF StoreFailed, Goto, Holds
<1>3. w \in Delegations => lock = w
  BY <1>1 DEF Locking
<1>4. TypeOK'
  BY <1>1, <1>2 DEF TypeOK, Over
<1>5. Issued'
  BY <1>1, <1>2 DEF Issued, TypeOK
<1>6. Locking'
  BY <1>1, <1>2, <1>3 DEF Locking, TypeOK
<1>7. Carried'
  BY <1>1, <1>2 DEF Carried, TypeOK
<1>8. Apart'
  BY <1>1, <1>2 DEF Apart, TypeOK
<1>9. Good'
  BY <1>1, <1>2 DEF Good, TypeOK
<1> QED
  BY <1>4, <1>5, <1>6, <1>7, <1>8, <1>9

-----------------------------------------------------------------------------
(* The callback server *)

LEMMA AuthorizeInv == ASSUME Inv, NEW c \in Clicks, Authorize(c) PROVE Inv'
<1> USE UserTokenAssumption DEF Inv, Writers, Tokens, Storing
<1>1. /\ pc[c] = "idle" /\ c \notin Delegations /\ pc' = [pc EXCEPT ![c] = "state"]
      /\ UNCHANGED <<grants, spent, stale, dead, file, tmp, hand, cached, lock, tok, mishap>>
  BY DEF Authorize, Goto, files, tokens
<1>2. TypeOK'
  BY <1>1 DEF TypeOK, Over
<1>3. Issued' /\ Locking' /\ Carried'
  BY <1>1 DEF Issued, Locking, Carried, TypeOK
<1>4. Apart' /\ Good'
  BY <1>1 DEF Apart, Good, TypeOK
<1> QED
  BY <1>2, <1>3, <1>4

LEMMA CallbackFailedInv == ASSUME Inv, NEW c \in Clicks, CallbackFailed(c) PROVE Inv'
<1> USE UserTokenAssumption DEF Inv, Writers, Tokens, Storing
<1>1. /\ pc[c] = "state" /\ c \notin Delegations /\ pc' = [pc EXCEPT ![c] = "failed"]
      /\ UNCHANGED <<grants, spent, stale, dead, file, tmp, hand, cached, lock, tok, mishap>>
  BY DEF CallbackFailed, Goto, files, tokens
<1>2. TypeOK'
  BY <1>1 DEF TypeOK, Over
<1>3. Issued' /\ Locking' /\ Carried'
  BY <1>1 DEF Issued, Locking, Carried, TypeOK
<1>4. Apart' /\ Good'
  BY <1>1 DEF Apart, Good, TypeOK
<1> QED
  BY <1>2, <1>3, <1>4

LEMMA CallbackInv == ASSUME Inv, NEW c \in Clicks, Callback(c) PROVE Inv'
<1> USE UserTokenAssumption DEF Inv, Writers, Tokens, Storing
<1> DEFINE t == grants + 1
<1>1. /\ pc[c] = "state" /\ c \notin Delegations
      /\ pc' = [pc EXCEPT ![c] = "open"] /\ tok' = [tok EXCEPT ![c] = t]
      /\ grants' = t /\ t \in Tokens
      /\ UNCHANGED <<spent, stale, dead, file, tmp, hand, cached, lock, mishap>>
  BY DEF Callback, Goto, Holds, files, TypeOK
<1>2. TypeOK'
  BY <1>1 DEF TypeOK, Over
<1>3. t \notin stale /\ t \notin {file, tmp, cached} \cup {tok[w] : w \in Writers}
  BY <1>1 DEF Issued, TypeOK
<1>4. Issued'
  BY <1>1 DEF Issued, TypeOK
<1>5. Locking'
  BY <1>1 DEF Locking, TypeOK
<1>6. Carried'
  BY <1>1, <1>3 DEF Carried, TypeOK
<1>7. Apart'
  BY <1>1, <1>3 DEF Apart, TypeOK
<1>8. Good'
  BY <1>1 DEF Good, TypeOK
<1> QED
  BY <1>2, <1>4, <1>5, <1>6, <1>7, <1>8

-----------------------------------------------------------------------------
(* Time and crashes *)

LEMMA AgeInv == ASSUME Inv, NEW t \in Tokens, Age(t) PROVE Inv'
<1> USE UserTokenAssumption DEF Inv, Writers, Tokens, Storing
<1>1. /\ t \in 1 .. grants /\ stale' = stale \cup {t}
      /\ \A w \in Writers : pc[w] \in Storing => tok[w] # t
      /\ UNCHANGED <<grants, spent, dead, file, tmp, hand, cached, lock, pc, tok, mishap>>
  BY DEF Age, InHand, files
<1>2. TypeOK' /\ Issued' /\ Locking'
  BY <1>1 DEF TypeOK, Issued, Locking
<1>3. Carried' /\ Apart' /\ Good'
  BY <1>1 DEF Carried, Apart, Good
<1> QED
  BY <1>2, <1>3

LEMMA DieInv == ASSUME Inv, NEW t \in Tokens, Die(t) PROVE Inv'
<1> USE DEF Inv, Writers, Tokens, Storing
<1>1. /\ t \in stale /\ dead' = dead \cup {t}
      /\ UNCHANGED <<grants, spent, stale, file, tmp, hand, cached, lock, pc, tok, mishap>>
  BY DEF Die, files
<1>2. TypeOK' /\ Issued' /\ Locking'
  BY <1>1 DEF TypeOK, Issued, Locking
<1>3. Carried' /\ Apart' /\ Good'
  BY <1>1 DEF Carried, Apart, Good
<1> QED
  BY <1>2, <1>3

\* What the process was about to store is lost, and is not in a file that will be one;
\* the rest of its tokens were on disk already.
LEMMA RestartInv == ASSUME Inv, Restart PROVE Inv'
<1> USE UserTokenAssumption DEF Inv, Writers, Tokens, Storing
<1> DEFINE Busy == Storing \cup {"refreshing"}
           Cut == {d \in Delegations : pc[d] \in Busy \cup {"post"}}
<1>1. /\ pc' = [w \in Writers |-> IF w \in Cut THEN "lost" ELSE pc[w]]
      /\ hand' = [w \in Writers |-> IF w \in Cut THEN None ELSE hand[w]]
      /\ cached' = None /\ lock' = None
      /\ UNCHANGED <<stale, dead, file, tmp, tok>>
  BY DEF Restart, tokens, Rotate
<1>2. mishap' \in BOOLEAN /\ (~mishap' => ~mishap /\ \A d \in Delegations : pc[d] \notin Busy)
  BY DEF Restart, TypeOK
<1>3. \/ UNCHANGED <<grants, spent>>
      \/ \E d \in Delegations : /\ pc[d] = "refreshing" /\ grants' = grants + 1 /\ grants' \in Tokens
                                /\ spent' = spent \cup {tok[d]}
  BY DEF Restart, tokens, Rotate, TypeOK
<1>4. \A d \in Delegations : pc[d] = "refreshing" => tok[d] \in stale /\ tok[d] # tmp
  BY DEF Carried
<1>5. \A d \in Delegations : pc'[d] \notin Busy
  BY <1>1
<1>6. \A w \in Writers : pc'[w] \in Storing => pc[w] = pc'[w]
  BY <1>1
<1>7. TypeOK'
  BY <1>1, <1>2, <1>3, <1>4 DEF TypeOK, Over
<1>8. Issued'
  BY <1>1, <1>3, <1>4 DEF Issued, TypeOK
<1>9. Locking'
  BY <1>1, <1>5 DEF Locking
<1>10. Carried'
  BY <1>1, <1>5, <1>6 DEF Carried
<1>11. Apart'
  <2>1. \A w \in Writers : pc'[w] \in Storing => tok[w] # None
    BY <1>6, NoToken DEF Carried
  <2> QED
    BY <1>1, <1>6, <2>1, NoToken DEF Apart
<1>12. Good'
  <2>1. tmp' \notin spent'
    BY <1>1, <1>3, <1>4 DEF Good
  <2>2. ~mishap' => spent' = spent /\ spent \cap {file, cached} = {}
    BY <1>2, <1>3 DEF Good
  <2>3. None \notin spent
    BY NoToken DEF TypeOK
  <2> QED
    BY <1>1, <2>1, <2>2, <2>3 DEF Good
<1> QED
  BY <1>7, <1>8, <1>9, <1>10, <1>11, <1>12

LEMMA RestartServerInv == ASSUME Inv, RestartServer PROVE Inv'
<1> USE UserTokenAssumption DEF Inv, Writers, Tokens, Storing
<1>1. /\ pc' = [w \in Writers |-> IF w \in Clicks /\ pc[w] \in Storing \cup {"state"} THEN "failed" ELSE pc[w]]
      /\ hand' = [w \in Writers |-> IF w \in Clicks THEN None ELSE hand[w]]
      /\ UNCHANGED <<grants, spent, stale, dead, file, tmp, cached, lock, tok, mishap>>
  BY DEF RestartServer, tokens
<1>2. \A d \in Delegations : pc'[d] = pc[d]
  BY <1>1
<1>3. \A w \in Writers : pc'[w] \in Storing => pc[w] = pc'[w]
  BY <1>1
<1>4. TypeOK'
  BY <1>1 DEF TypeOK, Over
<1>5. Issued' /\ Locking'
  BY <1>1, <1>2 DEF Issued, Locking
<1>6. Carried'
  BY <1>1, <1>2, <1>3 DEF Carried
<1>7. Apart'
  BY <1>1, <1>3 DEF Apart
<1>8. Good'
  BY <1>1, <1>2 DEF Good
<1> QED
  BY <1>4, <1>5, <1>6, <1>7, <1>8

-----------------------------------------------------------------------------
LEMMA StepInv == Inv /\ [Next]_vars => Inv'
<1> SUFFICES ASSUME Inv, [Next]_vars PROVE Inv'
  OBVIOUS
<1>1. CASE \E d \in Delegations : Step(d)
  BY <1>1, AskInv, RefreshedInv, RefreshFailedInv, PostInv DEF Step
<1>2. CASE \E w \in Writers : Store(w)
  BY <1>2, OpenTmpInv, PutTmpInv, ReplaceTmpInv, StoreFailedInv DEF Store
<1>3. CASE \E c \in Clicks : Authorize(c) \/ Callback(c) \/ CallbackFailed(c)
  BY <1>3, AuthorizeInv, CallbackInv, CallbackFailedInv
<1>4. CASE \E t \in Tokens : Age(t) \/ Die(t)
  BY <1>4, AgeInv, DieInv
<1>5. CASE Restart
  BY <1>5, RestartInv
<1>6. CASE RestartServer
  BY <1>6, RestartServerInv
<1>7. CASE UNCHANGED vars
  BY <1>7 DEF vars, tokens, files, Inv, TypeOK, Issued, Locking, Carried, Apart, Good
<1> QED
  BY <1>1, <1>2, <1>3, <1>4, <1>5, <1>6, <1>7 DEF Next

\* The inductive invariant holds of every run.
LEMMA InvHolds == Spec => []Inv
BY InitInv, StepInv, PTL DEF Spec

\* Every variable keeps its type: in particular the service's memory never holds a torn
\* text, and the lock is only ever a delegation's.
THEOREM TypeCorrect == Spec => []TypeOK
<1>1. Inv => TypeOK
  BY DEF Inv
<1> QED
  BY <1>1, InvHolds, PTL

\* Unless an answer, a write or the process was lost, a free lock means that the token the
\* service would use next, from memory or from disk, still has its refresh part.
THEOREM TokenKept == Spec => []KeptUnlessLost
<1>1. Inv => KeptUnlessLost
  <2> SUFFICES ASSUME Inv, ~mishap, lock = None PROVE Current \notin spent
    BY DEF KeptUnlessLost
  <2>1. \A d \in Delegations : pc[d] \notin Storing
    BY UserTokenAssumption DEF Inv, Locking
  <2>2. spent \cap {file, cached} = {}
    BY <2>1 DEF Inv, Good
  <2>3. None \notin spent
    BY NoToken DEF Inv, TypeOK
  <2>4. Current \in {file, cached, None}
    BY DEF Current, OnDisk
  <2> QED
    BY <2>2, <2>3, <2>4
<1> QED
  BY <1>1, InvHolds, PTL

=============================================================================
