----------------------------- MODULE RateLimits -----------------------------
(* The two rate limiters of the server: token buckets for the turns of a   *)
(* conversation (per actor and per source address), and counters over a    *)
(* fixed window for the requests to the account routes.                    *)
EXTENDS ServiceClock, FiniteSets, FiniteSetsExt, Functions, TLC

CONSTANTS
  Actors, Sources,   \* keys of the token buckets
  TokenCost,         \* units of a token; one unit comes back per tick
  Burst,             \* tokens of a full bucket
  IdleTtl,           \* a bucket idle for longer is dropped
  MaxBuckets,
  Scopes,            \* keys of the counters
  CounterWindow, CounterMax, MaxCounters

RatesAssumption ==
  /\ {TokenCost, Burst, IdleTtl, CounterWindow, CounterMax, MaxCounters} \subseteq Nat \ {0}
  /\ MaxBuckets \in Nat \ {0, 1}
  /\ Actors \cap Sources = {} /\ (Actors \cup Sources) \cap Scopes = {}
  /\ IdleTtl >= Burst * TokenCost   \* 10 min against 18 s

VARIABLES
  buckets,   \* both maps: key -> [units, refill], a map of its own per kind
  counters,  \* scope -> [start, count]
  granted    \* history: when each key let a request pass

ratesVars == <<buckets, counters, granted>>

RatesInit ==
  /\ buckets = << >>
  /\ counters = << >>
  /\ granted = [k \in Actors \cup Sources \cup Scopes |-> [t \in 0 .. MaxTime |-> 0]]

Full == Burst * TokenCost
Passed(keys, time) == [k \in DOMAIN granted |->
  IF k \in keys THEN [granted[k] EXCEPT ![time] = @ + 1] ELSE granted[k]]

-----------------------------------------------------------------------------
BucketsKept(time) ==
  Restrict(buckets, {k \in DOMAIN buckets : time - buckets[k].refill <= IdleTtl})

\* FAULT: the bucket is refilled again for time already counted.
ReadFromStart(kept, key, time) ==
  IF key \notin DOMAIN kept THEN [units |-> Full, refill |-> time]
  ELSE LET units == kept[key].units + time - kept[key].refill IN
       [units |-> IF units > Full THEN Full ELSE units,
        refill |-> IF time > kept[key].refill + 1 THEN time ELSE kept[key].refill]

(* A clock that steps back refills nothing and moves no bucket back.       *)
ReadBucket(kept, key, time) ==
  IF key \notin DOMAIN kept THEN [units |-> Full, refill |-> time]
  ELSE LET at == IF time > kept[key].refill THEN time ELSE kept[key].refill
           units == kept[key].units + at - kept[key].refill
       IN  [units |-> IF units > Full THEN Full ELSE units, refill |-> at]

(* consume: a token of the actor and one of the source, or neither; what a *)
(* refused request read is not written back.                               *)
ConsumeToken(actor, source, time) ==
  LET kept == BucketsKept(time)
      read == [k \in {actor, source} |-> ReadBucket(kept, k, time)]
  IN
  /\ IF /\ Cardinality(DOMAIN kept \cup {actor, source}) <= MaxBuckets
        /\ \A k \in {actor, source} : read[k].units >= TokenCost
     THEN /\ buckets' = [k \in {actor, source} |-> [read[k] EXCEPT !.units = @ - TokenCost]] @@ kept
          /\ granted' = Passed({actor, source}, now)
     ELSE buckets' = kept /\ UNCHANGED granted
  /\ UNCHANGED <<now, counters>>

-----------------------------------------------------------------------------
CountersKept(time) ==
  Restrict(counters, {s \in DOMAIN counters : time - counters[s].start < CounterWindow})

\* FAULT: one request too many passes.
TakeAllowsOneMore(kept, scope) ==
  IF scope \in DOMAIN kept THEN kept[scope].count <= CounterMax
  ELSE Cardinality(DOMAIN kept) < MaxCounters

TakeAllows(kept, scope) ==
  IF scope \in DOMAIN kept THEN kept[scope].count < CounterMax
  ELSE Cardinality(DOMAIN kept) < MaxCounters

(* take.  A counter that is kept is within its window also when the clock  *)
(* has stepped back, so the branch that starts it anew is never reached.   *)
TakeCount(scope, time) ==
  LET kept == CountersKept(time) IN
  /\ IF TakeAllows(kept, scope)
     THEN /\ counters' = (scope :> IF scope \in DOMAIN kept
                                   THEN [kept[scope] EXCEPT !.count = @ + 1]
                                   ELSE [start |-> time, count |-> 1]) @@ kept
          /\ granted' = Passed({scope}, now)
     ELSE counters' = kept /\ UNCHANGED granted
  /\ UNCHANGED <<now, buckets>>

-----------------------------------------------------------------------------
(* The seconds after which a refused request is told to try again.         *)
\* FAULT: the wait of one of the two buckets.
RetryTokenOfActor(actor, source) ==
  TokenCost - ReadBucket(BucketsKept(now), actor, now).units

RetryToken(actor, source) ==
  TokenCost - Min({ReadBucket(BucketsKept(now), k, now).units : k \in {actor, source}})

RetryCount(scope) ==
  LET kept == CountersKept(now) IN
  (IF scope \in DOMAIN kept THEN kept[scope].start
   ELSE Min({kept[s].start : s \in DOMAIN kept})) + CounterWindow - now

-----------------------------------------------------------------------------
RatesTime == Advance /\ UNCHANGED ratesVars

(* The clock of the process may have stepped back by a tick when it is     *)
(* read.                                                                   *)
TokensNext ==
  \/ \E actor \in Actors, source \in Sources, lag \in {0, 1} :
       lag <= now /\ ConsumeToken(actor, source, now - lag)
  \/ RatesTime

CountersNext ==
  \/ \E scope \in Scopes, lag \in {0, 1} : lag <= now /\ TakeCount(scope, now - lag)
  \/ RatesTime

RatesSpec == ClockInit /\ RatesInit /\ [][TokensNext \/ CountersNext]_<<now, ratesVars>>

-----------------------------------------------------------------------------
RatesTypeOK ==
  /\ DOMAIN buckets \subseteq Actors \cup Sources
  /\ \A k \in DOMAIN buckets : buckets[k].units \in 0 .. Full
  /\ Cardinality(DOMAIN buckets) <= MaxBuckets
  /\ Cardinality(DOMAIN counters) <= MaxCounters
  /\ \A s \in DOMAIN counters : counters[s].count \in 1 .. CounterMax

(* Of an actor or a source no more than the burst and what came back over  *)
(* the time (a tick more, for the clock that stepped back) passes in any   *)
(* stretch of time, also when buckets are dropped and made anew; of a      *)
(* scope at most twice the maximum in the length of a window.              *)
RatesAreBounded ==
  \A s, t \in 0 .. MaxTime : s <= t =>
    /\ \A k \in Actors \cup Sources :
         TokenCost * SumFunctionOnSet(granted[k], s .. t) <= Full + (t - s) + 1
    /\ \A k \in Scopes :
         t - s < CounterWindow => SumFunctionOnSet(granted[k], s .. t) <= 2 * CounterMax

(* Who is refused for the rate and waits as long as told, passes, unless   *)
(* somebody else with the same key comes first.                            *)
WaitingIsEnough ==
  /\ \A actor \in Actors \cap DOMAIN buckets, source \in Sources \cap DOMAIN buckets :
       LET wait == RetryToken(actor, source)
           later == now + IF wait > 0 THEN wait ELSE 0
       IN  \A k \in {actor, source} :
             ReadBucket(BucketsKept(later), k, later).units >= TokenCost
  /\ \A scope \in Scopes :
       ~TakeAllows(CountersKept(now), scope) =>
          TakeAllows(CountersKept(now + RetryCount(scope)), scope)
=============================================================================
