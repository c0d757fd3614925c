------------------------------ MODULE RateLimiter ------------------------------
(***************************************************************************)
(* One limiter of server/ratelimit.py: token buckets, one per caller, that *)
(* are forgotten when there are too many.  Buckets are counted in parts of *)
(* a token, Window to one, so that Capacity parts come with each tick and  *)
(* every level is a whole number.                                          *)
(***************************************************************************)
EXTENDS Integers, FiniteSets, Functions

CONSTANTS
  Callers,     \* the keys: an address, or a hashed bearer
  Capacity, Window,
  MaxBuckets   \* _MAX_BUCKETS

ASSUME LimiterAssumption ==
  /\ IsFiniteSet(Callers)
  /\ Capacity \in Nat \ {0} /\ Window \in Nat \ {0} /\ MaxBuckets \in Nat

VARIABLES
  now,
  bucket,  \* _buckets: caller -> level and time of the last refill
  ideal    \* for the properties: the buckets of a limiter that drops only the oldest

limiterVars == <<bucket, ideal>>

Full == Capacity * Window
NoBuckets == [k \in {} |-> Full]

LimiterInit ==
  /\ bucket = NoBuckets
  /\ ideal = [k \in Callers |-> [parts |-> Full, at |-> 0]]

-----------------------------------------------------------------------------
Refilled(b) == LET parts == b.parts + (now - b.at) * Capacity IN IF parts < Full THEN parts ELSE Full

HasAToken(b) == Refilled(b) >= Window  \* not full, but enough for a request

Forgettable(b) == Refilled(b) = Full

Oldest(kept) ==
  {old \in SUBSET kept :
     /\ Cardinality(old) = Cardinality(kept) - MaxBuckets
     /\ \A x \in old, y \in kept \ old : bucket[x].at <= bucket[y].at}

\* The callers dropped to make room: the idle ones, whose buckets are full; if that
\* is not enough, the ones refilled longest ago.
Nobody == [idle |-> {}, old |-> {}]
Dropped ==
  LET idle == {k \in DOMAIN bucket : Forgettable(bucket[k])}
      kept == DOMAIN bucket \ idle IN
  IF Cardinality(DOMAIN bucket) <= MaxBuckets THEN {Nobody}
  ELSE IF Cardinality(kept) <= MaxBuckets THEN {[idle |-> idle, old |-> {}]}
  ELSE {[idle |-> idle, old |-> old] : old \in Oldest(kept)}

Level(f, k) == IF k \in DOMAIN f THEN Refilled(f[k]) ELSE Full
Allows(k) == Level(bucket, k) >= Window

\* A request of caller k asks for a token and gets one exactly if Allows(k).
Take(k) ==
  \E gone \in IF k \in DOMAIN bucket THEN {Nobody} ELSE Dropped :
    LET left == Restrict(bucket, DOMAIN bucket \ (gone.idle \cup gone.old))
        spent == IF Allows(k) THEN Window ELSE 0 IN
    /\ bucket' = [x \in DOMAIN left \cup {k} |->
                    IF x = k THEN [parts |-> Level(bucket, k) - spent, at |-> now] ELSE left[x]]
    /\ ideal' = [x \in Callers |->
                   IF x = k THEN [parts |-> Refilled(ideal[k]) - spent, at |-> now]
                   ELSE IF x \in gone.old THEN [parts |-> Full, at |-> now] ELSE ideal[x]]

\* A new process starts with no buckets.
Forget ==
  /\ bucket' = NoBuckets
  /\ ideal' = [k \in Callers |-> [parts |-> Full, at |-> now]]

-----------------------------------------------------------------------------
\* ratelimit.py:83 "A bucket at full capacity carries no state a fresh one
\* wouldn't, so evicting it never grants extra allowance": what a caller has left
\* is what a limiter would leave him that drops no bucket but the oldest of a flood.
EvictionGrantsNothing ==
  \A k \in Callers : Level(bucket, k) = Refilled(ideal[k])

-----------------------------------------------------------------------------
(* Why it grants nothing.                                                  *)

Buckets == [parts: 0 .. Full, at: 0 .. now]

\* No bucket holds more than it can, or was refilled after now.
LimiterTypeOK ==
  /\ now \in Nat
  /\ DOMAIN bucket \subseteq Callers
  /\ \A k \in DOMAIN bucket : bucket[k] \in Buckets
  /\ ideal \in [Callers -> Buckets]

LimiterInvariant == LimiterTypeOK /\ EvictionGrantsNothing
=================================================================================
