------------------------------ MODULE ProviderPool ------------------------------
(***************************************************************************)
(* One request of the tool loop, sent through the pool of providers        *)
(* (providers/llm_provider_pool.py): attempts against one provider with    *)
(* backoff between them, then the next provider, until one answers or all  *)
(* have given up.  The clock is the time the session has used.             *)
(***************************************************************************)
EXTENDS Integers, Sequences, FiniteSetsExt

CONSTANTS
  Count,        \* how many providers the pool has
  ModelOf,      \* the model each provider is configured with
  SessionModel, \* the model of the agent, which every payload names
  MaxRetries,   \* max_retries_per_provider
  BaseBackoff, MaxBackoff,
  Limit         \* the time limit of the session, from which a request is granted the rest

ASSUME PoolAssumption ==
  /\ Count \in Nat \ {0} /\ MaxRetries \in Nat
  /\ BaseBackoff \in Nat \ {0} /\ MaxBackoff \in Nat /\ BaseBackoff <= MaxBackoff
  /\ Limit \in Nat \ {0}
  /\ ModelOf \in Seq(STRING) /\ Len(ModelOf) = Count /\ SessionModel \in STRING

VARIABLES
  clock,
  at,        \* "rest", "sending", "sleeping", "answered" or "exhausted"
  provider,  \* the provider being tried
  attempt,   \* attempt_index
  begun,     \* the clock when the request was made
  granted,   \* the time limit each attempt is given
  trail      \* summary.attempts, of which provider, index and failure are kept

poolVars == <<clock, at, provider, attempt, begun, granted, trail>>

\* How an attempt fails: no answer in time; 429; 5xx; no connection; 401 or 403; another
\* 4xx, or a response that is no JSON; the CancelledError of a coroutine that is cut.
Failures == {"timeout", "busy", "down", "unreached", "refused", "rejected", "cut"}

\* _is_transient
Transient(f) == f \in {"timeout", "busy", "down", "unreached"}

\* _backoff_for_attempt, without the jitter.
Backoff(a) == LET window == BaseBackoff * 2 ^ a IN IF window < MaxBackoff THEN window ELSE MaxBackoff

PoolInit ==
  /\ clock = 0
  /\ at = "rest" /\ provider = 1 /\ attempt = 0
  /\ begun = 0 /\ granted = 0 /\ trail = <<>>

\* The request of a turn.
Request ==
  /\ at = "rest" /\ clock < Limit
  /\ at' = "sending" /\ provider' = 1 /\ attempt' = 0
  /\ begun' = clock /\ granted' = Limit - clock /\ trail' = <<>>
  /\ UNCHANGED clock

Answered ==
  /\ at = "sending"
  /\ at' = "answered"
  /\ UNCHANGED <<clock, provider, attempt, begun, granted, trail>>

\* The model an attempt asks for: the provider's own only if the payload names none.
ModelAsked(p) == IF SessionModel # "" THEN SessionModel ELSE ModelOf[p]

\* Faulty variant: what will not go away is tried again as well.
GivesUpLate(f) == attempt >= MaxRetries

\* Is this failure the provider's last?
GivesUp(f) == ~Transient(f) \/ attempt >= MaxRetries

\* An attempt fails.  Every attempt may take all the time the request was granted.
Fail(f) ==
  /\ at = "sending"
  /\ clock' = IF f = "timeout" THEN clock + granted ELSE clock
  /\ trail' = Append(trail, [provider |-> provider, attempt |-> attempt, failure |-> f])
  /\ \/ /\ ~GivesUp(f)
        /\ at' = "sleeping" /\ UNCHANGED <<provider, attempt>>
     \/ /\ GivesUp(f) /\ provider < Count
        /\ provider' = provider + 1 /\ attempt' = 0 /\ UNCHANGED at
     \/ /\ GivesUp(f) /\ provider = Count
        /\ at' = "exhausted" /\ UNCHANGED <<provider, attempt>>
  /\ UNCHANGED <<begun, granted>>

Wake ==
  /\ at = "sleeping"
  /\ clock' = clock + Backoff(attempt)
  /\ attempt' = attempt + 1
  /\ at' = "sending"
  /\ UNCHANGED <<provider, begun, granted, trail>>

\* The loop takes what came of the request; the rest was local to it.
Done ==
  /\ at \in {"answered", "exhausted"}
  /\ at' = "rest" /\ provider' = 1 /\ attempt' = 0
  /\ begun' = 0 /\ granted' = 0 /\ trail' = <<>>
  /\ UNCHANGED clock

\* The provider answers, or an attempt fails by itself.
Attempt == Answered \/ \E f \in Failures \ {"cut"} : Fail(f)

-----------------------------------------------------------------------------
(* Properties.                                                             *)

\* A provider is left for cause, and for good: attempts are counted without a gap, the
\* next provider is tried when and only when the last failure was no transient one or
\* the retries are spent, and the request fails only when the last one is given up
\* (llm_provider_pool.py:467-511).
LeftForCause ==
  LET spent(r) == ~Transient(r.failure) \/ r.attempt = MaxRetries
  IN  /\ \A k \in 1 .. Len(trail) - 1 :
           LET r == trail[k]
               s == trail[k + 1]
           IN  IF spent(r) THEN s.provider = r.provider + 1 /\ s.attempt = 0
               ELSE s.provider = r.provider /\ s.attempt = r.attempt + 1
      /\ at = "exhausted" =>
           /\ Len(trail) > 0
           /\ trail[Len(trail)].provider = Count /\ spent(trail[Len(trail)])

\* "switching providers means swapping the whole config object"; a Bedrock provider's
\* model is its inference profile (llm_provider_pool.py:61-77).
AsksForOwnModel == at = "sending" => ModelAsked(provider) = ModelOf[provider]

\* The session's limit leaves the pool room to "retry / failover before the outer role
\* agent declares the whole session dead" (llm_provider_pool.py:81-86).
EndsInTime == at = "rest" => clock <= Limit

=============================================================================
