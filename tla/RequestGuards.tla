---------------------------- MODULE RequestGuards ----------------------------
(***************************************************************************)
(* The in-process guards concurrent requests share before the policy       *)
(* evaluator runs: a static rule's matcher with its bounded cache of       *)
(* compiled patterns (governance/policy.go, and the same cache in          *)
(* policyeval/conditions_evaluators.go), then the token-bucket rate        *)
(* limiter (interceptors/ratelimit.go).                                    *)
(*                                                                         *)
(* One rule, whose action is deny, gates every request.  Comparisons of    *)
(* text are an input: what matters is which data is missing, which pattern *)
(* does not compile, and how the goroutines interleave.  Eviction deletes  *)
(* key by key while other goroutines may Store; a Store the iteration      *)
(* misses is one that came after it, so the loop is one step.              *)
(***************************************************************************)
EXTENDS Integers, Sequences, FiniteSets, FiniteSetsExt

CONSTANTS
  Requests,          \* goroutines evaluating requests
  Patterns, BadPatterns,   \* regex patterns, and those that do not compile
  Keys, NoKey,       \* rate-limit keys (agent, tool or agent:tool)
  Matchers,          \* matchers the rule may have
  Limits,            \* rate-limit configurations: [max, window]
  MaxCacheSize,      \* maxStaticRegexCacheSize
  MaxServed, MaxClock      \* bounds of the model

ASSUME GuardsAssumption ==
  /\ BadPatterns \subseteq Patterns
  /\ MaxCacheSize \in Nat \ {0}
  /\ MaxClock \in Nat
  /\ Limits \subseteq [max : Int, window : Int]
  /\ NoKey \notin Keys

VARIABLES
  cache, cacheCount,   \* staticRegexCache and staticRegexCacheCount
  limit,               \* RateLimitConfig
  buckets,             \* key -> bucket, NoBucket when absent from the map
  clock, served,
  req,                 \* per goroutine
  granted              \* history: the times at which key k was admitted

guardVars == <<cache, cacheCount, limit, buckets, clock, served, req, granted>>

Times == 0..MaxClock
NoBucket == [tokens |-> -1, lastRefill |-> 0]

Matcher == [type : {"transport_is", "agent_in", "agent_not_in", "ast_class", "regex",
                    "contains", "not_contains", "equals", "not_equals", "unknown"},
            field : {"none", "absent", "present"}, needle : Patterns \cup {"empty"},
            holds : BOOLEAN]

NoMatcher == [type |-> "unknown", field |-> "none", needle |-> "empty", holds |-> FALSE]

Request == [pc : {"idle", "match", "count", "store", "limit"}, m : Matcher, key : Keys \cup {NoKey}]

NoRequest == [pc |-> "idle", m |-> NoMatcher, key |-> NoKey]

GuardsInit ==
  /\ cache = {} /\ cacheCount = 0
  /\ limit \in Limits
  /\ buckets = [k \in Keys |-> NoBucket]
  /\ clock = 0 /\ served = 0
  /\ req = [r \in Requests |-> NoRequest]
  /\ granted = [k \in Keys |-> <<>>]

\* matchesRequest's gates: tool, transport, tenant and agent scope all hold
\* and the matcher runs, or the rule does not apply.
BeginRequest(r) ==
  /\ req[r].pc = "idle" /\ served < MaxServed
  /\ served' = served + 1
  /\ \E k \in Keys :
       \/ \E m \in Matchers :
            req' = [req EXCEPT ![r] = [pc |-> "match", m |-> m, key |-> k]]
       \/ req' = [req EXCEPT ![r] = [pc |-> "limit", m |-> NoMatcher, key |-> k]]
  /\ UNCHANGED <<cache, cacheCount, limit, buckets, clock, granted>>

\* StaticPolicyMatch.matches apart from a regex that has text to run on:
\* missing data is a miss.
PlainMatch(m) ==
  CASE m.type = "transport_is" -> m.needle # "empty" /\ m.holds
    [] m.type \in {"agent_in", "agent_not_in"} -> m.holds
    [] m.type = "ast_class"    -> m.field # "absent" /\ m.holds
    [] m.type \in {"contains", "not_contains", "equals", "not_equals"} ->
         m.needle # "empty" /\ m.field = "present" /\ m.holds
    [] OTHER                   -> FALSE

RunsRegex(m) == m.type = "regex" /\ m.needle # "empty" /\ m.field = "present"

Finish(r, hit) == req' = [req EXCEPT ![r] = IF hit THEN NoRequest
                                            ELSE [@ EXCEPT !.pc = "limit", !.m = NoMatcher]]

IgnoreMalformed(p) == FALSE
\* An uncompilable pattern is a fault of the policy: the matcher counts as hit.
MalformedHit(p) == p \in BadPatterns

\* compiledMatchRegex, first part: Load from the cache, else compile.
Match(r) ==
  /\ req[r].pc = "match"
  /\ LET m == req[r].m
     IN  IF ~RunsRegex(m) THEN Finish(r, PlainMatch(m))
         ELSE IF m.needle \in cache THEN Finish(r, m.holds)
         ELSE IF m.needle \in BadPatterns THEN Finish(r, MalformedHit(m.needle))
         ELSE req' = [req EXCEPT ![r].pc = "count"]
  /\ UNCHANGED <<cache, cacheCount, limit, buckets, clock, served, granted>>

\* The section under staticRegexCacheMu: evict everything at the limit.
CountEntry(r) ==
  /\ req[r].pc = "count"
  /\ IF cacheCount >= MaxCacheSize THEN cache' = {} /\ cacheCount' = 1
                                   ELSE cacheCount' = cacheCount + 1 /\ UNCHANGED cache
  /\ req' = [req EXCEPT ![r].pc = "store"]
  /\ UNCHANGED <<limit, buckets, clock, served, granted>>

\* The Store after the unlock.
StoreEntry(r) ==
  /\ req[r].pc = "store"
  /\ cache' = cache \cup {req[r].m.needle}
  /\ Finish(r, req[r].m.holds)
  /\ UNCHANGED <<cacheCount, limit, buckets, clock, served, granted>>

\* policyeval keeps a second cache that works the same way.
CompiledRegex(r) == Match(r) \/ CountEntry(r) \/ StoreEntry(r)

-----------------------------------------------------------------------------
(* The rate limiter *)

LimiterOpen == limit.max > 0 /\ limit.window > 0

\* One token every window/max, at least one tick.
Interval == IF limit.window \div limit.max <= 0 THEN 1 ELSE limit.window \div limit.max

RefillUncapped(b) ==
  LET add == (clock - b.lastRefill) \div Interval
  IN  [tokens |-> b.tokens + add, lastRefill |-> b.lastRefill + Interval * add]

\* Whole tokens only; the fraction of an interval already elapsed is kept.
Refill(b) ==
  LET add == (clock - b.lastRefill) \div Interval
  IN  IF add > 0 THEN [tokens |-> Min({b.tokens + add, limit.max}),
                       lastRefill |-> b.lastRefill + Interval * add]
                 ELSE b

\* allow, under the limiter's mutex; the clock is read inside it.
Limit(r) ==
  /\ req[r].pc = "limit"
  /\ LET k == req[r].key
         b == IF buckets[k] = NoBucket THEN [tokens |-> limit.max, lastRefill |-> clock]
                                       ELSE Refill(buckets[k])
         ok == LimiterOpen /\ b.tokens > 0
     IN  /\ req' = [req EXCEPT ![r] = NoRequest]
         /\ buckets' = IF LimiterOpen
                       THEN [buckets EXCEPT ![k] = [b EXCEPT !.tokens = IF ok THEN @ - 1 ELSE @]]
                       ELSE buckets
         /\ granted' = IF ok THEN [granted EXCEPT ![k] = Append(@, clock)] ELSE granted
  /\ UNCHANGED <<cache, cacheCount, limit, clock, served>>

Tick ==
  /\ clock < MaxClock
  /\ clock' = clock + 1
  /\ UNCHANGED <<cache, cacheCount, limit, buckets, served, req, granted>>

GuardsNext == Tick \/ \E r \in Requests : BeginRequest(r) \/ CompiledRegex(r) \/ Limit(r)

GuardsSpec == GuardsInit /\ [][GuardsNext]_guardVars

-----------------------------------------------------------------------------
(* Properties *)

\* The types of the variables.
GuardsTypes ==
  /\ cache \subseteq Patterns \ BadPatterns
  /\ cacheCount \in 0..MaxCacheSize
  /\ limit \in Limits
  /\ buckets \in [Keys -> [tokens : Int, lastRefill : Times]]
  /\ clock \in Times /\ served \in 0..MaxServed
  /\ req \in [Requests -> Request]
  /\ granted \in [Keys -> Seq(Times)]

GrantedIn(k, from, to) == Cardinality({i \in DOMAIN granted[k] : granted[k][i] \in from..to})

\* Between any two instants a key is admitted at most its burst plus the
\* tokens of the intervals in between, rounded up; a closed limiter admits
\* nothing.
RateBounded ==
  \A k \in Keys, from, to \in 0..clock :
    from <= to =>
      GrantedIn(k, from, to) <=
        IF LimiterOpen THEN limit.max + (to - from + Interval - 1) \div Interval ELSE 0

\* A deny rule whose pattern does not compile stops every request it applies
\* to that carries the field: none reaches the limiter.
MalformedFailsClosed ==
  [][\A r \in Requests :
       req[r].pc = "match" /\ req'[r].pc = "limit"
         => ~(RunsRegex(req[r].m) /\ req[r].m.needle \in BadPatterns)]_guardVars
=============================================================================
