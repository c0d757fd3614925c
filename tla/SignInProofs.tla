------------------------------ MODULE SignInProofs ------------------------------
(***************************************************************************)
(* Proofs about sign-in: the limiter, the server's ways in and the nostr   *)
(* handshake, for any callers, rates, threads, signers and relays.         *)
(***************************************************************************)
EXTENDS NostrSignIn, FiniteSetTheorems, TLAPS

-----------------------------------------------------------------------------
(* The limiter.                                                            *)

LEMMA FullIsANumber == Full \in Nat /\ Window \in Nat /\ Window <= Full /\ Capacity \in Nat
<1>1. Capacity \in Nat \ {0} /\ Window \in Nat \ {0}
  BY LimiterAssumption
<1>2. \A m, n \in Nat \ {0} : m * n \in Nat /\ n <= m * n
  OBVIOUS
<1> QED
  BY <1>1, <1>2 DEF Full

\* Time fills a bucket, up to the brim.
LEMMA RefilledIsALevel ==
  ASSUME now \in Nat, NEW b \in Buckets
  PROVE  Refilled(b) \in 0 .. Full
<1>1. b.parts \in 0 .. Full /\ b.at \in 0 .. now
  BY DEF Buckets
<1>2. now - b.at \in Nat /\ Full \in Nat /\ Capacity \in Nat
  BY <1>1, FullIsANumber
<1>3. (now - b.at) * Capacity \in Nat
  BY <1>2
<1> QED
  BY <1>1, <1>2, <1>3 DEF Refilled

LEMMA RefilledNow ==
  ASSUME NEW p \in 0 .. Full, now \in Nat
  PROVE  Refilled([parts |-> p, at |-> now]) = p
<1>1. Full \in Nat /\ Capacity \in Nat /\ (now - now) * Capacity = 0
  BY FullIsANumber
<1> QED
  BY <1>1 DEF Refilled

LEMMA RefilledTick ==
  ASSUME now \in Nat, now' = now + 1, NEW b \in Buckets
  PROVE  Refilled(b)' = LET more == Refilled(b) + Capacity IN IF more < Full THEN more ELSE Full
<1>1. b.parts \in 0 .. Full /\ b.at \in 0 .. now
  BY DEF Buckets
<1>2. now - b.at \in Nat /\ Full \in Nat /\ Capacity \in Nat
  BY <1>1, FullIsANumber
<1> DEFINE n == now - b.at
<1>3. n * Capacity \in Nat /\ (n + 1) * Capacity = n * Capacity + Capacity
  BY <1>2
<1>4. (now + 1) - b.at = n + 1
  BY <1>1
<1>5. Refilled(b)' = LET parts == b.parts + (n + 1) * Capacity IN IF parts < Full THEN parts ELSE Full
  BY <1>4 DEF Refilled, Full
<1>6. Refilled(b) = LET parts == b.parts + n * Capacity IN IF parts < Full THEN parts ELSE Full
  BY DEF Refilled
<1> HIDE DEF n
<1> QED
  BY <1>1, <1>2, <1>3, <1>5, <1>6

LEMMA LimiterStarts == now = 0 /\ LimiterInit => LimiterInvariant
<1> SUFFICES ASSUME now = 0, LimiterInit
             PROVE  LimiterInvariant
  OBVIOUS
<1>1. Full \in 0 .. Full
  BY FullIsANumber
<1>2. [parts |-> Full, at |-> 0] \in Buckets
  BY <1>1 DEF Buckets
<1>3. LimiterTypeOK
  BY <1>2 DEF LimiterTypeOK, LimiterInit, NoBuckets
<1>4. \A k \in Callers : Level(bucket, k) = Full /\ ideal[k] = [parts |-> Full, at |-> now]
  BY DEF Level, LimiterInit, NoBuckets
<1> QED
  BY <1>1, <1>3, <1>4, RefilledNow DEF LimiterInvariant, EvictionGrantsNothing

LEMMA LimiterForgets ==
  ASSUME LimiterInvariant, Forget, now' = now
  PROVE  LimiterInvariant'
<1>0. now \in Nat
  BY DEF LimiterInvariant, LimiterTypeOK
<1>1. Full \in 0 .. Full
  BY FullIsANumber
<1>2. [parts |-> Full, at |-> now] \in Buckets
  BY <1>0, <1>1 DEF Buckets
<1>3. Buckets' = Buckets /\ Full' = Full
  BY DEF Buckets, Full
<1>4. LimiterTypeOK'
  BY <1>0, <1>2, <1>3 DEF LimiterTypeOK, Forget, NoBuckets
<1>5. \A k \in Callers : Level(bucket, k)' = Full /\ ideal'[k] = [parts |-> Full, at |-> now]
  BY <1>3 DEF Level, Forget, NoBuckets
<1>6. Refilled([parts |-> Full, at |-> now]) = Full
  BY <1>0, <1>1, RefilledNow
<1>7. \A k \in Callers : Refilled(ideal[k])' = Refilled(ideal'[k])
  BY DEF Refilled, Full
<1> QED
  BY <1>4, <1>5, <1>6, <1>7 DEF LimiterInvariant, EvictionGrantsNothing

LEMMA LimiterTicks ==
  ASSUME LimiterInvariant, now' = now + 1, UNCHANGED limiterVars
  PROVE  LimiterInvariant'
<1>1. now \in Nat /\ bucket' = bucket /\ ideal' = ideal
  BY DEF LimiterInvariant, LimiterTypeOK, limiterVars
<1>2. Buckets \subseteq Buckets'
  BY <1>1 DEF Buckets, Full
<1>3. LimiterTypeOK'
  BY <1>1, <1>2 DEF LimiterInvariant, LimiterTypeOK
<1>4. ASSUME NEW k \in Callers
      PROVE  Level(bucket, k)' = Refilled(ideal[k])'
  <2>1. Level(bucket, k) = Refilled(ideal[k]) /\ ideal[k] \in Buckets
    BY DEF LimiterInvariant, LimiterTypeOK, EvictionGrantsNothing
  <2>2. Refilled(ideal[k])' = LET more == Refilled(ideal[k]) + Capacity
                              IN IF more < Full THEN more ELSE Full
    <3>1. PICK b \in Buckets : b = ideal[k]
      BY <2>1
    <3>2. Refilled(ideal[k])' = Refilled(b)'
      BY <1>1, <3>1 DEF Refilled, Full
    <3>3. Refilled(b)' = LET more == Refilled(b) + Capacity IN IF more < Full THEN more ELSE Full
      BY <1>1, RefilledTick
    <3> QED
      BY <3>1, <3>2, <3>3
  <2>3. CASE k \in DOMAIN bucket
    <3>1. bucket[k] \in Buckets /\ Level(bucket, k) = Refilled(bucket[k])
      BY <2>3 DEF LimiterInvariant, LimiterTypeOK, Level
    <3>2. Level(bucket, k)' = Refilled(bucket[k])'
      BY <1>1, <2>3 DEF Level
    <3>3. Refilled(bucket[k])' = LET more == Refilled(bucket[k]) + Capacity
                                 IN IF more < Full THEN more ELSE Full
      <4>1. PICK b \in Buckets : b = bucket[k]
        BY <3>1
      <4>2. Refilled(bucket[k])' = Refilled(b)'
        BY <1>1, <4>1 DEF Refilled, Full
      <4>3. Refilled(b)' = LET more == Refilled(b) + Capacity IN IF more < Full THEN more ELSE Full
        BY <1>1, RefilledTick
      <4> QED
        BY <4>1, <4>2, <4>3
    <3> QED
      BY <2>1, <2>2, <3>1, <3>2, <3>3
  <2>4. CASE k \notin DOMAIN bucket
    <3>1. Level(bucket, k) = Full /\ Level(bucket, k)' = Full
      BY <1>1, <2>4 DEF Level, Full
    <3>2. Full \in Nat /\ Capacity \in Nat
      BY FullIsANumber
    <3> QED
      BY <2>1, <2>2, <3>1, <3>2
  <2> QED
    BY <2>3, <2>4
<1> QED
  BY <1>3, <1>4 DEF LimiterInvariant, EvictionGrantsNothing

\* Whoever is dropped had a full bucket, or is dropped by the ideal too.
LEMMA DroppedAreIdle ==
  ASSUME NEW gone \in Dropped \cup {Nobody}
  PROVE  /\ \A x \in gone.idle : x \in DOMAIN bucket /\ Refilled(bucket[x]) = Full
         /\ gone.idle \cap gone.old = {}
<1> DEFINE idle == {k \in DOMAIN bucket : Forgettable(bucket[k])}
           kept == DOMAIN bucket \ idle
<1>1. \A x \in idle : x \in DOMAIN bucket /\ Refilled(bucket[x]) = Full
  BY DEF Forgettable
<1>2. \/ gone = Nobody
      \/ gone = [idle |-> idle, old |-> {}]
      \/ \E old \in Oldest(kept) : gone = [idle |-> idle, old |-> old]
  BY DEF Dropped
<1>3. \A old \in Oldest(kept) : old \cap idle = {}
  BY DEF Oldest
<1> HIDE DEF idle, kept
<1> QED
  BY <1>1, <1>2, <1>3 DEF Nobody

LEMMA LimiterTakes ==
  ASSUME LimiterInvariant, NEW k \in Callers, Take(k), now' = now
  PROVE  LimiterInvariant'
<1>0. /\ now \in Nat /\ Full \in Nat /\ Window \in Nat
      /\ Buckets' = Buckets /\ Full' = Full
      /\ \A b : Refilled(b)' = Refilled(b)
  BY FullIsANumber DEF LimiterInvariant, LimiterTypeOK, Buckets, Full, Refilled
<1> DEFINE spent == IF Allows(k) THEN Window ELSE 0
<1>1. PICK gone \in Dropped \cup {Nobody} :
        /\ k \in DOMAIN bucket => gone = Nobody
        /\ LET left == Restrict(bucket, DOMAIN bucket \ (gone.idle \cup gone.old)) IN
           /\ bucket' = [x \in DOMAIN left \cup {k} |->
                           IF x = k THEN [parts |-> Level(bucket, k) - spent, at |-> now] ELSE left[x]]
           /\ ideal' = [x \in Callers |->
                          IF x = k THEN [parts |-> Refilled(ideal[k]) - spent, at |-> now]
                          ELSE IF x \in gone.old THEN [parts |-> Full, at |-> now] ELSE ideal[x]]
  BY DEF Take
<1>2. /\ \A x \in gone.idle : x \in DOMAIN bucket /\ Refilled(bucket[x]) = Full
      /\ gone.idle \cap gone.old = {}
  BY DroppedAreIdle
<1>3. /\ DOMAIN bucket' = (DOMAIN bucket \ (gone.idle \cup gone.old)) \cup {k}
      /\ \A x \in DOMAIN bucket' \ {k} : bucket'[x] = bucket[x]
      /\ bucket'[k] = [parts |-> Level(bucket, k) - spent, at |-> now]
  BY <1>1 DEF Restrict
<1>4. /\ ideal' \in [Callers -> {ideal'[x] : x \in Callers}]
      /\ ideal'[k] = [parts |-> Refilled(ideal[k]) - spent, at |-> now]
      /\ \A x \in Callers \ {k} :
           ideal'[x] = IF x \in gone.old THEN [parts |-> Full, at |-> now] ELSE ideal[x]
  BY <1>1
<1>5. Level(bucket, k) = Refilled(ideal[k]) /\ ideal[k] \in Buckets
  BY DEF LimiterInvariant, LimiterTypeOK, EvictionGrantsNothing
<1>6. Level(bucket, k) - spent \in 0 .. Full
  <2>1. Level(bucket, k) \in 0 .. Full
    BY <1>0, <1>5, RefilledIsALevel
  <2> QED
    BY <1>0, <2>1 DEF Allows
<1>7. bucket'[k] = ideal'[k] /\ ideal'[k] \in Buckets
  BY <1>0, <1>3, <1>4, <1>5, <1>6 DEF Buckets
<1>8. [parts |-> Full, at |-> now] \in Buckets /\ Refilled([parts |-> Full, at |-> now]) = Full
  <2>1. Full \in 0 .. Full
    BY <1>0
  <2> QED
    BY <1>0, <2>1, RefilledNow DEF Buckets
<1>9. LimiterTypeOK'
  <2>1. \A x \in DOMAIN bucket' : x \in Callers /\ bucket'[x] \in Buckets
    BY <1>3, <1>7 DEF LimiterInvariant, LimiterTypeOK
  <2>2. \A x \in Callers : ideal'[x] \in Buckets
    BY <1>4, <1>7, <1>8 DEF LimiterInvariant, LimiterTypeOK
  <2> QED
    BY <1>0, <1>4, <2>1, <2>2 DEF LimiterTypeOK
<1>10. ASSUME NEW x \in Callers
       PROVE  Level(bucket, x)' = Refilled(ideal[x])'
  <2>1. Level(bucket, x)' = IF x \in DOMAIN bucket' THEN Refilled(bucket'[x]) ELSE Full
    BY <1>0 DEF Level
  <2>2. Refilled(ideal[x])' = Refilled(ideal'[x])
    BY <1>0
  <2>3. CASE x = k
    BY <1>3, <1>7, <2>1, <2>2, <2>3
  <2>4. CASE x # k /\ x \in gone.old
    BY <1>3, <1>4, <1>8, <2>1, <2>2, <2>4
  <2>5. CASE x # k /\ x \notin gone.old
    <3>1. ideal'[x] = ideal[x] /\ Refilled(ideal[x]) = Level(bucket, x)
      BY <1>4, <2>5 DEF LimiterInvariant, EvictionGrantsNothing
    <3>2. CASE x \in gone.idle
      BY <1>2, <1>3, <2>1, <2>2, <2>5, <3>1, <3>2 DEF Level
    <3>3. CASE x \notin gone.idle
      BY <1>3, <2>1, <2>2, <2>5, <3>1, <3>3 DEF Level
    <3> QED
      BY <3>2, <3>3
  <2> QED
    BY <2>3, <2>4, <2>5
<1> QED
  BY <1>9, <1>10 DEF LimiterInvariant, EvictionGrantsNothing

LEMMA LimiterStays ==
  ASSUME LimiterInvariant, UNCHANGED <<now, limiterVars>>
  PROVE  LimiterInvariant'
BY DEF LimiterInvariant, LimiterTypeOK, EvictionGrantsNothing, Level, Refilled, Buckets, Full, limiterVars

-----------------------------------------------------------------------------
(* The server's threads.                                                   *)

LEMMA Steps ==
  /\ Idle \in ThreadStates /\ [step |-> "verify"] \in ThreadStates
  /\ \A e \in Events : [step |-> "replay", event |-> e] \in ThreadStates
  /\ \A e \in Events, t \in Nat : \A s \in SUBSET (Nat \X Nat) :
       [step |-> "note", event |-> e, at |-> t, seen |-> s] \in ThreadStates
  /\ \A w \in Ways : [step |-> "lookup", way |-> w] \in ThreadStates
  /\ \A w \in Ways, m \in Entries, n \in Nat :
       [step |-> "create", way |-> w, who |-> m, changes |-> n] \in ThreadStates
  /\ \A k \in Codes : [step |-> "issue", code |-> k] \in ThreadStates
BY DEF ThreadStates

LEMMA ThreadFacts ==
  ASSUME SignInTypeOK, NEW r \in Threads
  PROVE  /\ At(r, "replay") => thread[r].event \in Events
         /\ At(r, "note") => /\ thread[r].event \in Events /\ thread[r].at \in Nat
                             /\ thread[r].seen \in SUBSET (Nat \X Nat)
         /\ At(r, "lookup") => thread[r].way \in Ways
         /\ At(r, "create") => /\ thread[r].way \in Ways /\ thread[r].who \in Entries
                               /\ thread[r].changes \in Nat
         /\ At(r, "issue") => thread[r].code \in Codes
<1>1. thread[r] \in ThreadStates
  BY DEF SignInTypeOK
<1> QED
  BY <1>1 DEF ThreadStates, At, Idle

LEMMA GoesTo ==
  ASSUME SignInTypeOK, NEW r \in Threads, NEW w \in ThreadStates, Goto(r, w)
  PROVE  /\ thread' \in [Threads -> ThreadStates]
         /\ thread'[r] = w
         /\ \A q \in Threads \ {r} : thread'[q] = thread[q]
BY DEF SignInTypeOK, Goto

\* What the steps of a kind know, as long as no request comes to that step.
Stays(step) == \A r \in Threads : thread'[r].step = step => thread'[r] = thread[r]

Noted == NotesAreNumbered /\ NotesAreKept /\ ChecksAreSound /\ AcceptedOncePerWindow
Listed == LooksAreDated /\ ChangesEndSessions

LEMMA TtlIsANumber == ReplayTtl \in Nat
  BY SignInAssumption DEF ReplayTtl

LEMMA NotedStays ==
  ASSUME SignInTypeOK, Noted, now \in Nat, now' \in {now, now + 1},
         UNCHANGED <<consumed, accepted>>, Stays("note")
  PROVE  Noted'
<1>1. NotesAreNumbered' /\ AcceptedOncePerWindow'
  BY DEF Noted, NotesAreNumbered, AcceptedOncePerWindow, ReplayTtl
<1>2. NotesAreKept'
  <2>1. \A a \in accepted : a.at \in Nat
    BY DEF SignInTypeOK
  <2> QED
    BY <2>1, TtlIsANumber DEF Noted, NotesAreKept, ReplayTtl
<1>3. ChecksAreSound'
  BY DEF Noted, ChecksAreSound, Stays, At, ReplayTtl
<1> QED
  BY <1>1, <1>2, <1>3 DEF Noted

LEMMA ListedStays ==
  ASSUME Listed, UNCHANGED <<adminVars, sessions>>, Stays("create")
  PROVE  Listed'
BY DEF Listed, LooksAreDated, ChangesEndSessions, Entitled, Stays, At, adminVars

LEMMA BuysStay ==
  ASSUME OneBuys, UNCHANGED <<code, tokens>>, Stays("issue")
  PROVE  OneBuys'
<1>1. \A c \in Codes : Bought(c)' = Bought(c) /\ Buying(c)' \subseteq Buying(c)
  BY DEF Bought, Buying, Stays, At
<1> QED
  BY <1>1 DEF OneBuys

\* A request that goes to a step of no note, no list and no code.
LEMMA GoingOn ==
  ASSUME SignInInvariant, now \in Nat, now' = now, NEW r \in Threads, NEW w \in ThreadStates,
         Goto(r, w) \/ UNCHANGED thread, w.step \notin {"note", "create", "issue"},
         UNCHANGED <<consumed, accepted, sessions, adminVars, code, tokens>>
  PROVE  SignInInvariant'
<1>1. thread' \in [Threads -> ThreadStates] /\ Stays("note") /\ Stays("create") /\ Stays("issue")
  <2>1. CASE Goto(r, w)
    BY <2>1, GoesTo DEF SignInInvariant, Stays
  <2>2. CASE UNCHANGED thread
    BY <2>2 DEF SignInInvariant, SignInTypeOK, Stays
  <2> QED
    BY <2>1, <2>2
<1>2. SignInTypeOK'
  BY <1>1 DEF SignInInvariant, SignInTypeOK, adminVars
<1>3. Noted' /\ Listed' /\ OneBuys'
  BY <1>1, NotedStays, ListedStays, BuysStay DEF SignInInvariant, Noted, Listed
<1> QED
  BY <1>2, <1>3 DEF SignInInvariant, Noted, Listed

-----------------------------------------------------------------------------
(* The replay check and the note.                                          *)

LEMMA LoginRequestStep ==
  ASSUME LimiterInvariant, SignInInvariant, NEW r \in Threads, NEW e \in Events, NEW route,
         LoginRequest(r, e, route)
  PROVE  LimiterInvariant' /\ SignInInvariant'
<1>0. now \in Nat
  BY DEF LimiterInvariant, LimiterTypeOK
<1>1. LimiterInvariant'
  BY SignInAssumption, LimiterTakes DEF LoginRequest, Arrives
<1> DEFINE w == IF Fresh(e) THEN [step |-> "replay", event |-> e] ELSE Idle
<1>2. w \in ThreadStates /\ w.step \notin {"note", "create", "issue"}
  BY Steps DEF Idle
<1>3. Goto(r, w) /\ now' = now /\ UNCHANGED <<consumed, accepted, sessions, adminVars, code, tokens>>
  BY DEF LoginRequest, codeVars
<1> HIDE DEF w
<1> QED
  BY <1>0, <1>1, <1>2, <1>3, GoingOn

LEMMA CheckReplayStep ==
  ASSUME LimiterInvariant, SignInInvariant, NEW r \in Threads, CheckReplay(r)
  PROVE  SignInInvariant'
<1>0. now \in Nat /\ SignInTypeOK /\ Noted /\ Listed /\ OneBuys
  BY DEF LimiterInvariant, LimiterTypeOK, SignInInvariant, Noted, Listed
<1> DEFINE e == thread[r].event
           left == Restrict(consumed, {x \in DOMAIN consumed : consumed[x] > now})
           seenBy == {<<a.n, a.at>> : a \in {b \in accepted : b.event = e}}
           w == IF e \in DOMAIN left THEN Idle
                ELSE [step |-> "note", event |-> e, at |-> now, seen |-> seenBy]
<1>1. consumed' = left /\ Goto(r, w)
  BY DEF CheckReplay
<1>2. UNCHANGED <<now, accepted, sessions, adminVars, code, tokens>>
  BY DEF CheckReplay, codeVars
<1>3. /\ DOMAIN consumed' = {x \in DOMAIN consumed : consumed[x] > now}
      /\ \A x \in DOMAIN consumed' : consumed'[x] = consumed[x]
  BY <1>1 DEF Restrict
<1>4. seenBy \in SUBSET (Nat \X Nat)
  BY <1>0 DEF SignInTypeOK
<1>5. e \in Events
  BY <1>0, ThreadFacts DEF CheckReplay
<1>6. w \in ThreadStates
  BY <1>0, <1>4, <1>5, Steps
<1>7. thread' \in [Threads -> ThreadStates] /\ thread'[r] = w /\ \A q \in Threads \ {r} : thread'[q] = thread[q]
  BY <1>0, <1>1, <1>6, GoesTo
<1>8. SignInTypeOK'
  BY <1>0, <1>2, <1>3, <1>7 DEF SignInTypeOK, adminVars
<1>9. w.step \notin {"create", "issue"}
  BY DEF Idle
<1>10. Listed' /\ OneBuys'
  <2>1. Stays("create") /\ Stays("issue")
    BY <1>7, <1>9 DEF Stays
  <2> QED
    BY <1>0, <1>2, <2>1, ListedStays, BuysStay
<1>11. NotesAreNumbered' /\ AcceptedOncePerWindow'
  BY <1>0, <1>2 DEF Noted, NotesAreNumbered, AcceptedOncePerWindow, ReplayTtl
<1>12. \A a \in accepted :
         \/ a.at + ReplayTtl <= IF a.event \in DOMAIN consumed' THEN consumed'[a.event] ELSE now
         \/ \E u \in accepted : u.event = a.event /\ u.n > a.n /\ u.at < a.at
  <2> SUFFICES ASSUME NEW a \in accepted,
                      a.at + ReplayTtl <= IF a.event \in DOMAIN consumed THEN consumed[a.event] ELSE now
               PROVE  a.at + ReplayTtl <= IF a.event \in DOMAIN consumed' THEN consumed'[a.event] ELSE now
    BY <1>0 DEF Noted, NotesAreKept
  <2>1. a.at + ReplayTtl \in Nat
    BY <1>0, TtlIsANumber DEF SignInTypeOK
  <2>2. a.event \in DOMAIN consumed => consumed[a.event] \in Nat
    BY <1>0 DEF SignInTypeOK
  <2> HIDE DEF left, w, seenBy, e
  <2> QED
    BY <1>0, <1>3, <2>1, <2>2
<1>13. NotesAreKept'
  BY <1>2, <1>12 DEF NotesAreKept, ReplayTtl
<1>14. ASSUME e \notin DOMAIN left, NEW t \in seenBy
       PROVE  \/ now - t[2] >= ReplayTtl
              \/ \E u \in seenBy : u[1] > t[1] /\ u[2] < t[2]
  <2>1. PICK a \in accepted : a.event = e /\ t = <<a.n, a.at>>
    OBVIOUS
  <2>2. CASE a.at + ReplayTtl <= now
    BY <1>0, <2>1, <2>2, TtlIsANumber DEF SignInTypeOK
  <2>3. CASE \E u \in accepted : u.event = a.event /\ u.n > a.n /\ u.at < a.at
    <3>1. PICK u \in accepted : u.event = a.event /\ u.n > a.n /\ u.at < a.at
      BY <2>3
    <3>2. <<u.n, u.at>> \in seenBy
      BY <2>1, <3>1
    <3> QED
      BY <2>1, <3>1, <3>2
  <2> QED
    BY <1>1, <1>12, <1>14, <2>1, <2>2, <2>3
<1>15. ChecksAreSound'
  <2>1. ASSUME w.step = "note", NEW t \in w.seen
        PROVE  \/ w.at - t[2] >= ReplayTtl
               \/ \E u \in w.seen : u[1] > t[1] /\ u[2] < t[2]
    <3>1. e \notin DOMAIN left /\ w.at = now /\ w.seen = seenBy
      BY <2>1 DEF Idle
    <3> QED
      BY <1>14, <2>1, <3>1
  <2> HIDE DEF w, left, seenBy, e
  <2> QED
    BY <1>0, <1>7, <2>1 DEF ChecksAreSound, Noted, At, ReplayTtl
<1> QED
  BY <1>8, <1>10, <1>11, <1>13, <1>15 DEF SignInInvariant, Listed

LEMMA NoteStep ==
  ASSUME LimiterInvariant, SignInInvariant, NEW r \in Threads, Note(r)
  PROVE  SignInInvariant'
<1>0. now \in Nat /\ SignInTypeOK /\ Noted /\ Listed /\ OneBuys
  BY DEF LimiterInvariant, LimiterTypeOK, SignInInvariant, Noted, Listed
<1> DEFINE e == thread[r].event
           t == thread[r].at
           note == [event |-> e, at |-> t, n |-> Cardinality(accepted), seen |-> thread[r].seen]
           w == [step |-> "lookup", way |-> "nostr"]
<1>1. /\ At(r, "note") /\ Goto(r, w)
      /\ accepted' = accepted \cup {note}
      /\ consumed' = [x \in DOMAIN consumed \cup {e} |-> IF x = e THEN t + ReplayTtl ELSE consumed[x]]
      /\ UNCHANGED <<now, sessions, adminVars, code, tokens>>
  BY DEF Note, NoteFor, codeVars
<1>2. e \in Events /\ t \in Nat /\ thread[r].seen \in SUBSET (Nat \X Nat)
  BY <1>0, <1>1, ThreadFacts
<1>3. w \in ThreadStates
  BY Steps DEF Ways
<1>4. thread' \in [Threads -> ThreadStates] /\ thread'[r] = w /\ \A q \in Threads \ {r} : thread'[q] = thread[q]
  BY <1>0, <1>1, <1>3, GoesTo
<1>5. Stays("note") /\ Stays("create") /\ Stays("issue")
  BY <1>4 DEF Stays
<1>6. Listed' /\ OneBuys'
  BY <1>0, <1>1, <1>5, ListedStays, BuysStay
<1>7. IsFiniteSet(accepted) /\ Cardinality(accepted) \in Nat
  BY <1>0, FS_CardinalityType DEF SignInTypeOK
<1>8. note \notin accepted
  BY <1>0, <1>7 DEF Noted, NotesAreNumbered, SignInTypeOK
<1>9. IsFiniteSet(accepted') /\ Cardinality(accepted') = Cardinality(accepted) + 1
  BY <1>1, <1>7, <1>8, FS_AddElement
<1>10. note \in [event: Events, at: Nat, n: Nat, seen: SUBSET (Nat \X Nat)]
  BY <1>2, <1>7
<1>11. /\ DOMAIN consumed' = DOMAIN consumed \cup {e}
       /\ consumed'[e] = t + ReplayTtl
       /\ \A x \in DOMAIN consumed \ {e} : consumed'[x] = consumed[x]
  BY <1>1
<1>12. SignInTypeOK'
  <2>1. \A x \in DOMAIN consumed' : consumed'[x] \in Nat
    BY <1>0, <1>2, <1>11, TtlIsANumber DEF SignInTypeOK
  <2>2. accepted' \subseteq [event: Events, at: Nat, n: Nat, seen: SUBSET (Nat \X Nat)]
    BY <1>0, <1>1, <1>10 DEF SignInTypeOK
  <2> QED
    BY <1>0, <1>1, <1>4, <1>9, <2>1, <2>2 DEF SignInTypeOK, adminVars
<1>13. /\ note.event = e /\ note.at = t /\ note.n = Cardinality(accepted) /\ note.seen = thread[r].seen
       /\ \A a \in accepted : a.at \in Nat /\ a.n \in Nat /\ a.n < note.n
  BY <1>0 DEF SignInTypeOK, Noted, NotesAreNumbered
<1> HIDE DEF note, w, e, t
<1>14. NotesAreNumbered'
  BY <1>1, <1>7, <1>9, <1>13 DEF NotesAreNumbered
<1>15. NotesAreKept'
  <2> SUFFICES ASSUME NEW a \in accepted'
               PROVE  \/ a.at + ReplayTtl <= IF a.event \in DOMAIN consumed' THEN consumed'[a.event] ELSE now
                      \/ \E u \in accepted' : u.event = a.event /\ u.n > a.n /\ u.at < a.at
    BY <1>1 DEF NotesAreKept, ReplayTtl
  <2>1. CASE a = note
    BY <1>2, <1>11, <1>13, <2>1, TtlIsANumber
  <2>2. CASE a \in accepted /\ a.event = e
    <3>1. CASE a.at <= t
      BY <1>2, <1>11, <1>13, <2>2, <3>1, TtlIsANumber
    <3>2. CASE ~(a.at <= t)
      <4>1. note \in accepted' /\ note.event = a.event /\ note.n > a.n /\ note.at < a.at
        BY <1>1, <1>2, <1>7, <1>13, <2>2, <3>2
      <4> QED
        BY <4>1
    <3> QED
      BY <3>1, <3>2
  <2>3. CASE a \in accepted /\ a.event # e
    <3>1. \/ a.at + ReplayTtl <= IF a.event \in DOMAIN consumed THEN consumed[a.event] ELSE now
          \/ \E u \in accepted : u.event = a.event /\ u.n > a.n /\ u.at < a.at
      BY <1>0, <2>3 DEF Noted, NotesAreKept
    <3> QED
      BY <1>1, <1>11, <2>3, <3>1
  <2> QED
    BY <1>1, <2>1, <2>2, <2>3
<1>16. ChecksAreSound'
  BY <1>0, <1>5 DEF Noted, ChecksAreSound, Stays, At, ReplayTtl
<1>17. AcceptedOncePerWindow'
  <2>1. \A u \in note.seen :
          \/ note.at - u[2] >= ReplayTtl
          \/ \E v \in note.seen : v[1] > u[1] /\ v[2] < u[2]
    BY <1>0, <1>1, <1>13 DEF Noted, ChecksAreSound, t
  <2> QED
    BY <1>0, <1>1, <2>1 DEF Noted, AcceptedOncePerWindow, ReplayTtl
<1> QED
  BY <1>6, <1>12, <1>14, <1>15, <1>16, <1>17 DEF SignInInvariant, Listed

-----------------------------------------------------------------------------
(* The allowlists and the sessions.                                        *)

LEMMA LookUpStep ==
  ASSUME LimiterInvariant, SignInInvariant, NEW r \in Threads, LookUp(r)
  PROVE  SignInInvariant'
<1>0. now \in Nat /\ SignInTypeOK /\ Noted /\ Listed /\ OneBuys
  BY DEF LimiterInvariant, LimiterTypeOK, SignInInvariant, Noted, Listed
<1> DEFINE way == thread[r].way
           who == members[way]
           w == [step |-> "create", way |-> way, who |-> who, changes |-> changes]
<1>1. /\ UNCHANGED <<now, consumed, accepted, sessions, adminVars, code, tokens>>
      /\ At(r, "lookup") /\ way \in Ways
  BY <1>0, ThreadFacts DEF LookUp, codeVars
<1>2. CASE who = None
  <2>1. Goto(r, Idle) /\ Idle.step \notin {"note", "create", "issue"}
    BY <1>2 DEF LookUp, Idle
  <2> QED
    BY <1>0, <1>1, <2>1, Steps, GoingOn
<1>3. CASE who # None
  <2>1. Goto(r, w)
    BY <1>3 DEF LookUp
  <2>2. who \in Entries /\ changes \in Nat
    BY <1>0, <1>1, <1>3 DEF SignInTypeOK
  <2>3. w \in ThreadStates
    BY <1>1, <2>2, Steps
  <2>4. /\ thread' \in [Threads -> ThreadStates]
        /\ thread'[r] = w /\ \A q \in Threads \ {r} : thread'[q] = thread[q]
    BY <1>0, <2>1, <2>3, GoesTo
  <2>5. Stays("note") /\ Stays("issue")
    BY <2>4 DEF Stays
  <2>6. SignInTypeOK' /\ Noted' /\ OneBuys'
    BY <1>0, <1>1, <2>4, <2>5, NotedStays, BuysStay DEF SignInTypeOK, adminVars
  <2>7. ChangesEndSessions'
    BY <1>0, <1>1 DEF Listed, ChangesEndSessions, Entitled, adminVars
  <2>8. w.way = way /\ w.who = who /\ w.changes = changes /\ members' = members /\ changes' = changes
    BY <1>1 DEF adminVars
  <2>9. LooksAreDated'
    <3> HIDE DEF w, who, way
    <3>1. \A q \in Threads \ {r} : At(q, "create")' =>
            /\ thread'[q].changes <= changes'
            /\ thread'[q].changes = changes' => members'[thread'[q].way] = thread'[q].who
      BY <1>0, <2>4, <2>8 DEF Listed, LooksAreDated, At
    <3>2. thread'[r].changes <= changes' /\ members'[thread'[r].way] = thread'[r].who
      BY <2>2, <2>4, <2>8 DEF who
    <3> QED
      BY <3>1, <3>2 DEF LooksAreDated
  <2> QED
    BY <2>6, <2>7, <2>9 DEF SignInInvariant, Noted
<1> QED
  BY <1>2, <1>3

Rows == [who: Entries, way: Ways, live: BOOLEAN, raced: BOOLEAN]

LEMMA CreateSessionStep ==
  ASSUME LimiterInvariant, SignInInvariant, NEW r \in Threads, CreateSession(r)
  PROVE  SignInInvariant'
<1>0. now \in Nat /\ SignInTypeOK /\ Noted /\ Listed /\ OneBuys
  BY DEF LimiterInvariant, LimiterTypeOK, SignInInvariant, Noted, Listed
<1> DEFINE new == [who |-> thread[r].who, way |-> thread[r].way, live |-> TRUE,
                   raced |-> thread[r].changes # changes]
<1>1. /\ UNCHANGED <<now, consumed, accepted, adminVars, code, tokens>>
      /\ At(r, "create") /\ Goto(r, Idle) /\ sessions' = Append(sessions, new)
  BY DEF CreateSession, codeVars
<1>2. thread[r].way \in Ways /\ thread[r].who \in Entries
  BY <1>0, <1>1, ThreadFacts
<1>3. new \in Rows
  BY <1>2 DEF Rows
<1>4. sessions \in Seq(Rows) /\ sessions' \in Seq(Rows)
  BY <1>0, <1>1, <1>3 DEF SignInTypeOK, Rows
<1>5. thread' \in [Threads -> ThreadStates] /\ thread'[r] = Idle /\ \A q \in Threads \ {r} : thread'[q] = thread[q]
  BY <1>0, <1>1, Steps, GoesTo
<1>6. Stays("note") /\ Stays("create") /\ Stays("issue")
  BY <1>5 DEF Stays, Idle
<1>7. SignInTypeOK' /\ Noted' /\ OneBuys'
  BY <1>0, <1>1, <1>4, <1>5, <1>6, NotedStays, BuysStay DEF SignInTypeOK, adminVars, Rows
<1>8. LooksAreDated'
  BY <1>0, <1>1, <1>6 DEF Listed, LooksAreDated, Stays, At, adminVars
<1>9. ChangesEndSessions'
  <2>1. members' = members /\ abandoned' = abandoned /\ revoking' = revoking
    BY <1>1 DEF adminVars
  <2>2. new.raced \/ Entitled(new)
    <3>1. new.who = thread[r].who /\ new.way = thread[r].way /\ (~new.raced => thread[r].changes = changes)
      OBVIOUS
    <3>2. ~new.raced => members[new.way] = new.who
      BY <1>0, <1>1, <3>1 DEF Listed, LooksAreDated
    <3>3. new.who # None
      BY <1>2, SignInAssumption DEF Entries
    <3> HIDE DEF new
    <3> QED
      BY <3>2, <3>3 DEF Entitled
  <2>3. \A i \in DOMAIN sessions' : sessions'[i] = new \/ (i \in DOMAIN sessions /\ sessions'[i] = sessions[i])
    BY <1>1, <1>3, <1>4
  <2>4. \A i \in DOMAIN sessions' : LET s == sessions'[i] IN
          s.live => Entitled(s) \/ s.raced \/ abandoned \/ revoking = s.who.github
    <3> HIDE DEF new
    <3> QED
      BY <1>0, <2>2, <2>3 DEF Listed, ChangesEndSessions
  <2> QED
    BY <2>1, <2>4 DEF ChangesEndSessions, Entitled
<1> QED
  BY <1>7, <1>8, <1>9 DEF SignInInvariant, Noted

LEMMA ChangeMemberStep ==
  ASSUME LimiterInvariant, SignInInvariant, NEW way \in Ways, NEW new \in {None} \cup Entries,
         ChangeMember(way, new)
  PROVE  SignInInvariant'
<1>0. now \in Nat /\ SignInTypeOK /\ Noted /\ Listed /\ OneBuys
  BY DEF LimiterInvariant, LimiterTypeOK, SignInInvariant, Noted, Listed
<1>1. /\ UNCHANGED <<now, consumed, accepted, thread, sessions, abandoned, code, tokens>>
      /\ revoking = None /\ changes' = changes + 1
      /\ members' = [members EXCEPT ![way] = new]
      /\ revoking' = IF EndsSessions(members[way], new) THEN members[way].github ELSE None
  BY DEF ChangeMember, signVars, codeVars
<1>2. Stays("note") /\ Stays("issue")
  BY <1>1 DEF Stays
<1>3. members[way] # None => members[way] \in Entries
  BY <1>0 DEF SignInTypeOK
<1>4. EndsSessions(members[way], new) => members[way].github \in Handles
  BY <1>3 DEF EndsSessions, Entries
<1>5. SignInTypeOK'
  BY <1>0, <1>1, <1>4 DEF SignInTypeOK
<1>6. Noted' /\ OneBuys'
  BY <1>0, <1>1, <1>2, NotedStays, BuysStay
<1>7. LooksAreDated'
  <2>1. \A r \in Threads : At(r, "create") => thread[r].changes \in Nat /\ thread[r].changes <= changes
    BY <1>0, ThreadFacts DEF Listed, LooksAreDated
  <2>2. changes \in Nat
    BY <1>0 DEF SignInTypeOK
  <2> QED
    BY <1>1, <2>1, <2>2 DEF LooksAreDated, At
<1>8. ASSUME NEW i \in DOMAIN sessions, sessions[i].live
      PROVE  \/ Entitled(sessions[i])' \/ sessions[i].raced \/ abandoned
             \/ revoking' = sessions[i].who.github
  <2> DEFINE s == sessions[i]
  <2>1. s.who \in Entries /\ s.way \in Ways
    <3>1. sessions \in Seq(Rows)
      BY <1>0 DEF SignInTypeOK, Rows
    <3>2. sessions[i] \in Rows
      BY <3>1
    <3> QED
      BY <3>2 DEF Rows
  <2>2. s.who.github \in Handles
    BY <2>1 DEF Entries
  <2>3. Entitled(s) \/ s.raced \/ abandoned
    BY <1>0, <1>1, <1>8, <2>2, SignInAssumption DEF Listed, ChangesEndSessions
  <2>4. CASE Entitled(s) /\ s.way # way
    BY <1>0, <1>1, <2>1, <2>4 DEF Entitled, SignInTypeOK
  <2>5. CASE Entitled(s) /\ s.way = way
    <3>1. /\ members[way] # None /\ members[way].github = s.who.github
          /\ s.who.admin => members[way].admin
      BY <2>5 DEF Entitled
    <3>2. members'[way] = new
      BY <1>0, <1>1 DEF SignInTypeOK
    <3>3. CASE EndsSessions(members[way], new)
      BY <1>1, <3>1, <3>3
    <3>4. CASE ~EndsSessions(members[way], new)
      <4>1. new # None /\ new.github = members[way].github /\ ~(members[way].admin /\ ~new.admin)
        BY <3>1, <3>4 DEF EndsSessions
      <4>2. Entitled(s)'
        BY <1>1, <2>5, <3>1, <3>2, <4>1 DEF Entitled
      <4> QED
        BY <4>2
    <3> QED
      BY <3>3, <3>4
  <2> QED
    BY <2>3, <2>4, <2>5
<1>9. ChangesEndSessions'
  BY <1>1, <1>8 DEF ChangesEndSessions, Entitled
<1> QED
  BY <1>5, <1>6, <1>7, <1>9 DEF SignInInvariant, Noted

LEMMA ShellStep ==
  ASSUME LimiterInvariant, SignInInvariant, RevokeAllFor \/ ShellKilled
  PROVE  SignInInvariant'
<1>0. now \in Nat /\ SignInTypeOK /\ Noted /\ Listed /\ OneBuys
  BY DEF LimiterInvariant, LimiterTypeOK, SignInInvariant, Noted, Listed
<1>1. UNCHANGED <<now, consumed, accepted, thread, members, changes, code, tokens>> /\ revoking # None
  BY DEF RevokeAllFor, ShellKilled, signVars, codeVars
<1>2. Stays("note") /\ Stays("issue")
  BY <1>1 DEF Stays
<1>3. Noted' /\ OneBuys'
  BY <1>0, <1>1, <1>2, NotedStays, BuysStay
<1>4. LooksAreDated'
  BY <1>0, <1>1 DEF Listed, LooksAreDated, At
<1>5. CASE ShellKilled
  <2>1. abandoned' = TRUE /\ revoking' = None /\ sessions' = sessions
    BY <1>5 DEF ShellKilled, signVars
  <2> QED
    BY <1>0, <1>1, <1>3, <1>4, <2>1 DEF SignInInvariant, SignInTypeOK, Noted, ChangesEndSessions
<1>6. CASE RevokeAllFor
  <2>1. /\ sessions' = [i \in DOMAIN sessions |->
                          [sessions[i] EXCEPT !.live = @ /\ sessions[i].who.github # revoking]]
        /\ revoking' = None /\ abandoned' = abandoned
    BY <1>6 DEF RevokeAllFor
  <2>2. sessions \in Seq(Rows)
    BY <1>0 DEF SignInTypeOK, Rows
  <2>3. \A s \in Rows : \A b \in BOOLEAN :
          /\ [s EXCEPT !.live = b] \in Rows
          /\ [s EXCEPT !.live = b].live = b
          /\ [s EXCEPT !.live = b].who = s.who
          /\ [s EXCEPT !.live = b].way = s.way
          /\ [s EXCEPT !.live = b].raced = s.raced
    BY DEF Rows
  <2>4. \A i \in DOMAIN sessions : sessions[i] \in Rows
    BY <2>2
  <2>5. \A i \in DOMAIN sessions :
          /\ sessions'[i] \in Rows
          /\ sessions'[i].live => sessions[i].live /\ sessions[i].who.github # revoking
          /\ sessions'[i].who = sessions[i].who /\ sessions'[i].way = sessions[i].way
          /\ sessions'[i].raced = sessions[i].raced
    <3> SUFFICES ASSUME NEW i \in DOMAIN sessions
                 PROVE  /\ sessions'[i] \in Rows
                        /\ sessions'[i].live => sessions[i].live /\ sessions[i].who.github # revoking
                        /\ sessions'[i].who = sessions[i].who /\ sessions'[i].way = sessions[i].way
                        /\ sessions'[i].raced = sessions[i].raced
      OBVIOUS
    <3> DEFINE b == sessions[i].live /\ sessions[i].who.github # revoking
    <3>1. b \in BOOLEAN /\ sessions'[i] = [sessions[i] EXCEPT !.live = b]
      BY <2>1
    <3>2. b => sessions[i].live /\ sessions[i].who.github # revoking
      OBVIOUS
    <3> HIDE DEF b
    <3> QED
      BY <2>3, <2>4, <3>1, <3>2
  <2>6. sessions' \in Seq(Rows) /\ DOMAIN sessions' = DOMAIN sessions
    <3>1. DOMAIN sessions = 1 .. Len(sessions) /\ Len(sessions) \in Nat
      BY <2>2
    <3>2. sessions' \in [1 .. Len(sessions) -> Rows]
      BY <2>1, <2>5, <3>1
    <3> QED
      BY <3>1, <3>2
  <2>7. ChangesEndSessions'
    <3> SUFFICES ASSUME NEW i \in DOMAIN sessions', sessions'[i].live
                 PROVE  Entitled(sessions[i])' \/ sessions'[i].raced \/ abandoned'
      BY DEF ChangesEndSessions
    <3>1. Entitled(sessions[i]) \/ sessions[i].raced \/ abandoned
      BY <1>0, <2>5, <2>6 DEF Listed, ChangesEndSessions
    <3>2. Entitled(sessions[i]) => Entitled(sessions[i])'
      BY <1>1, <2>5, <2>6 DEF Entitled
    <3> QED
      BY <2>1, <2>5, <2>6, <3>1, <3>2
  <2> QED
    BY <1>0, <1>1, <1>3, <1>4, <2>1, <2>6, <2>7 DEF SignInInvariant, SignInTypeOK, Noted, Rows
<1> QED
  BY <1>5, <1>6

-----------------------------------------------------------------------------
(* The codes and the tokens.                                               *)

CodeRows == [expires: Nat, consumed: BOOLEAN]

LEMMA CreateCodeStep ==
  ASSUME LimiterInvariant, SignInInvariant, NEW k \in Codes, CreateCode(k)
  PROVE  SignInInvariant'
<1>0. now \in Nat /\ SignInTypeOK /\ Noted /\ Listed /\ OneBuys
  BY DEF LimiterInvariant, LimiterTypeOK, SignInInvariant, Noted, Listed
<1>1. /\ UNCHANGED <<now, consumed, accepted, thread, sessions, adminVars, tokens>>
      /\ code[k] = None /\ code' = [code EXCEPT ![k] = [expires |-> now + CodeTtl, consumed |-> FALSE]]
  BY DEF CreateCode, signVars
<1>2. Stays("note") /\ Stays("create")
  BY <1>1 DEF Stays
<1>3. now + CodeTtl \in Nat
  BY <1>0, SignInAssumption
<1>4. SignInTypeOK'
  BY <1>0, <1>1, <1>3 DEF SignInTypeOK, adminVars
<1>5. Noted' /\ Listed'
  BY <1>0, <1>1, <1>2, NotedStays, ListedStays
<1>6. OneBuys'
  <2>1. \A c \in Codes : Bought(c)' = Bought(c) /\ Buying(c)' = Buying(c)
    BY <1>1 DEF Bought, Buying, At
  <2>2. Bought(k) \cup Buying(k) = {}
    BY <1>0, <1>1 DEF OneBuys
  <2>3. \A c \in Codes \ {k} : code'[c] = code[c]
    BY <1>0, <1>1 DEF SignInTypeOK
  <2> QED
    BY <1>0, <2>1, <2>2, <2>3 DEF OneBuys
<1> QED
  BY <1>4, <1>5, <1>6 DEF SignInInvariant, Noted, Listed

LEMMA ExchangeCodeStep ==
  ASSUME LimiterInvariant, SignInInvariant, NEW r \in Threads, NEW k \in Codes, ExchangeCode(r, k)
  PROVE  LimiterInvariant' /\ SignInInvariant'
<1>0. now \in Nat /\ SignInTypeOK /\ Noted /\ Listed /\ OneBuys
  BY DEF LimiterInvariant, LimiterTypeOK, SignInInvariant, Noted, Listed
<1>1. /\ UNCHANGED <<now, consumed, accepted, sessions, adminVars, tokens>>
      /\ Take("home")
  BY DEF ExchangeCode, Arrives
<1>2. LimiterInvariant'
  BY <1>1, SignInAssumption, LimiterTakes
<1>3. CASE ~Usable(k)
  <2>1. UNCHANGED <<code, thread>>
    BY <1>3 DEF ExchangeCode
  <2>2. Idle \in ThreadStates /\ Idle.step = "idle"
    BY Steps DEF Idle
  <2> QED
    BY <1>0, <1>1, <1>2, <2>1, <2>2, GoingOn
<1>4. CASE Usable(k)
  <2> DEFINE w == [step |-> "issue", code |-> k]
  <2>1. At(r, "idle") /\ Goto(r, w) /\ code' = [code EXCEPT ![k].consumed = TRUE]
    BY <1>4 DEF ExchangeCode, Arrives
  <2>2. code[k] \in CodeRows /\ ~code[k].consumed
    BY <1>0, <1>4 DEF Usable, SignInTypeOK, CodeRows
  <2>3. \A row \in CodeRows : [row EXCEPT !.consumed = TRUE] \in CodeRows /\ [row EXCEPT !.consumed = TRUE].consumed
    BY DEF CodeRows
  <2>4. code'[k] = [code[k] EXCEPT !.consumed = TRUE] /\ \A c \in Codes \ {k} : code'[c] = code[c]
    BY <1>0, <2>1 DEF SignInTypeOK
  <2>5. code'[k] \in CodeRows /\ code'[k].consumed
    BY <2>2, <2>3, <2>4
  <2>6. code'[k] # None
    BY <2>5, SignInAssumption DEF CodeRows
  <2>7. /\ thread' \in [Threads -> ThreadStates]
        /\ thread'[r] = w /\ \A q \in Threads \ {r} : thread'[q] = thread[q]
    BY <1>0, <2>1, Steps, GoesTo
  <2>8. SignInTypeOK'
    <3>1. code' \in [Codes -> {None} \cup CodeRows]
      BY <1>0, <2>1, <2>4, <2>5 DEF SignInTypeOK, CodeRows
    <3> QED
      BY <1>0, <1>1, <2>7, <3>1 DEF SignInTypeOK, adminVars, CodeRows
  <2>9. Noted' /\ Listed'
    <3>1. Stays("note") /\ Stays("create")
      BY <2>7 DEF Stays
    <3> QED
      BY <1>0, <1>1, <3>1, NotedStays, ListedStays
  <2>10. OneBuys'
    <3>1. Bought(k) = {} /\ Buying(k) = {}
      BY <1>0, <2>2 DEF OneBuys
    <3>2. \A c \in Codes : Bought(c)' = Bought(c)
      BY <1>1 DEF Bought
    <3>3. Buying(k)' = {r}
      BY <2>7, <3>1 DEF Buying, At
    <3>4. \A c \in Codes \ {k} : Buying(c)' = Buying(c)
      BY <2>1, <2>7 DEF Buying, At
    <3>5. ASSUME NEW c \in Codes
          PROVE  /\ \A t, u \in Bought(c)' : t = u
                 /\ \A q, z \in Buying(c)' : q = z
                 /\ Bought(c)' = {} \/ Buying(c)' = {}
                 /\ Bought(c)' \cup Buying(c)' # {} => code'[c] # None /\ code'[c].consumed
      <4>1. CASE c = k
        BY <2>5, <2>6, <3>1, <3>2, <3>3, <4>1
      <4>2. CASE c # k
        <5>1. Bought(c)' = Bought(c) /\ Buying(c)' = Buying(c) /\ code'[c] = code[c]
          BY <2>4, <3>2, <3>4, <4>2
        <5> QED
          BY <1>0, <5>1 DEF OneBuys
      <4> QED
        BY <4>1, <4>2
    <3> QED
      BY <3>5 DEF OneBuys
  <2> QED
    BY <1>2, <2>8, <2>9, <2>10 DEF SignInInvariant, Noted, Listed
<1> QED
  BY <1>2, <1>3, <1>4

LEMMA IssueStep ==
  ASSUME LimiterInvariant, SignInInvariant, NEW r \in Threads, Issue(r)
  PROVE  SignInInvariant'
<1>0. now \in Nat /\ SignInTypeOK /\ Noted /\ Listed /\ OneBuys
  BY DEF LimiterInvariant, LimiterTypeOK, SignInInvariant, Noted, Listed
<1>1. /\ UNCHANGED <<now, consumed, accepted, sessions, adminVars, code>>
      /\ At(r, "issue") /\ Goto(r, Idle)
      /\ tokens' = tokens \cup {[code |-> thread[r].code, n |-> Cardinality(tokens)]}
  BY DEF Issue
<1>7. PICK k \in Codes : k = thread[r].code
  BY <1>0, <1>1, ThreadFacts
<1>2. PICK t : t.code = k /\ tokens' = tokens \cup {t}
  BY <1>1, <1>7
<1>3. thread' \in [Threads -> ThreadStates] /\ thread'[r] = Idle /\ \A q \in Threads \ {r} : thread'[q] = thread[q]
  BY <1>0, <1>1, Steps, GoesTo
<1>4. SignInTypeOK'
  BY <1>0, <1>1, <1>3 DEF SignInTypeOK, adminVars
<1>5. Noted' /\ Listed'
  <2>1. Stays("note") /\ Stays("create")
    BY <1>3 DEF Stays, Idle
  <2> QED
    BY <1>0, <1>1, <2>1, NotedStays, ListedStays
<1>6. OneBuys'
  <2>1. r \in Buying(k)
    BY <1>1, <1>7 DEF Buying
  <2>2. Bought(k) = {} /\ (\A q \in Buying(k) : q = r) /\ code[k] # None /\ code[k].consumed
    BY <1>0, <1>2, <2>1 DEF OneBuys
  <2>3. thread'[r].step # "issue"
    BY <1>3 DEF Idle
  <2>4. Bought(k)' = {t}
    BY <1>2, <2>2 DEF Bought
  <2>5. \A c \in Codes \ {k} : Bought(c)' = Bought(c)
    BY <1>2 DEF Bought
  <2>6. \A q \in Threads \ {r} : q \notin Buying(k)
    BY <2>2
  <2>7. Buying(k)' = {}
    BY <1>3, <2>3, <2>6 DEF Buying, At
  <2>8. \A c \in Codes \ {k} : Buying(c)' = Buying(c)
    <3>1. \A c \in Codes \ {k} : r \notin Buying(c)
      BY <1>7 DEF Buying
    <3> QED
      BY <1>3, <2>3, <3>1 DEF Buying, At
  <2>9. ASSUME NEW c \in Codes
        PROVE  /\ \A u, v \in Bought(c)' : u = v
               /\ \A q, z \in Buying(c)' : q = z
               /\ Bought(c)' = {} \/ Buying(c)' = {}
               /\ Bought(c)' \cup Buying(c)' # {} => code'[c] # None /\ code'[c].consumed
    <3>1. CASE c = k
      BY <1>1, <2>2, <2>4, <2>7, <3>1
    <3>2. CASE c # k
      <4>1. Bought(c)' = Bought(c) /\ Buying(c)' = Buying(c) /\ code' = code
        BY <1>1, <2>5, <2>8, <3>2
      <4> QED
        BY <1>0, <4>1 DEF OneBuys
    <3> QED
      BY <3>1, <3>2
  <2> QED
    BY <2>9 DEF OneBuys
<1> QED
  BY <1>4, <1>5, <1>6 DEF SignInInvariant, Noted, Listed

-----------------------------------------------------------------------------
(* Every step of the server.                                               *)

LEMMA Standing ==
  ASSUME SignInInvariant, now \in Nat, now' = now,
         UNCHANGED <<thread, consumed, accepted, sessions, adminVars, code, tokens>>
  PROVE  SignInInvariant'
<1>1. Stays("note") /\ Stays("create") /\ Stays("issue")
  BY DEF Stays
<1>2. SignInTypeOK'
  BY DEF SignInInvariant, SignInTypeOK, adminVars
<1>3. Noted' /\ Listed' /\ OneBuys'
  BY <1>1, NotedStays, ListedStays, BuysStay DEF SignInInvariant, Noted, Listed
<1> QED
  BY <1>2, <1>3 DEF SignInInvariant, Noted, Listed

LEMMA RestartStep ==
  ASSUME LimiterInvariant, SignInInvariant, Restart
  PROVE  LimiterInvariant' /\ SignInInvariant'
<1>0. now \in Nat /\ SignInTypeOK /\ Noted /\ Listed /\ OneBuys
  BY DEF LimiterInvariant, LimiterTypeOK, SignInInvariant, Noted, Listed
<1>1. /\ Forget /\ consumed' = [e \in {} |-> 0] /\ accepted' = {}
      /\ thread' = [r \in Threads |-> Idle]
      /\ UNCHANGED <<now, sessions, adminVars, code, tokens>>
  BY DEF Restart, codeVars
<1>2. LimiterInvariant'
  BY <1>1, LimiterForgets
<1>3. \A r \in Threads : thread'[r].step = "idle"
  BY <1>1 DEF Idle
<1>4. Stays("create") /\ Stays("issue")
  BY <1>3 DEF Stays
<1>5. SignInTypeOK'
  <2>1. IsFiniteSet(accepted')
    BY <1>1, FS_EmptySet
  <2> QED
    BY <1>0, <1>1, <2>1, Steps DEF SignInTypeOK, adminVars
<1>6. Noted'
  BY <1>1, <1>3 DEF Noted, NotesAreNumbered, NotesAreKept, ChecksAreSound, AcceptedOncePerWindow, At
<1>7. Listed' /\ OneBuys'
  BY <1>0, <1>1, <1>4, ListedStays, BuysStay
<1> QED
  BY <1>2, <1>5, <1>6, <1>7 DEF SignInInvariant, Noted, Listed

LEMMA TickStep ==
  ASSUME LimiterInvariant, SignInInvariant, Tick
  PROVE  LimiterInvariant' /\ SignInInvariant'
<1>0. now \in Nat /\ SignInTypeOK /\ Noted /\ Listed /\ OneBuys
  BY DEF LimiterInvariant, LimiterTypeOK, SignInInvariant, Noted, Listed
<1>1. now' = now + 1 /\ UNCHANGED <<limiterVars, accepted, thread, consumed, sessions, adminVars, code, tokens>>
  BY DEF Tick, signVars, codeVars
<1>2. Stays("note") /\ Stays("create") /\ Stays("issue")
  BY <1>1 DEF Stays
<1>3. SignInTypeOK' /\ Noted' /\ Listed' /\ OneBuys'
  BY <1>0, <1>1, <1>2, NotedStays, ListedStays, BuysStay DEF SignInTypeOK, adminVars
<1> QED
  BY <1>1, <1>3, LimiterTicks DEF SignInInvariant, Noted, Listed

LEMMA SignInStep ==
  ASSUME LimiterInvariant, SignInInvariant, [SignInNext]_vars
  PROVE  LimiterInvariant' /\ SignInInvariant'
<1>0. now \in Nat /\ SignInTypeOK /\ Noted /\ Listed /\ OneBuys
  BY DEF LimiterInvariant, LimiterTypeOK, SignInInvariant, Noted, Listed
<1>1. Idle \in ThreadStates /\ Idle.step = "idle"
  BY Steps DEF Idle
<1>2. ASSUME NEW r \in Threads, GoogleStart(r) \/ GooglePoll(r)
      PROVE  LimiterInvariant' /\ SignInInvariant'
  <2>1. /\ Take("home") /\ UNCHANGED <<now, consumed, accepted, sessions, adminVars, code, tokens>>
        /\ Goto(r, [step |-> "verify"]) \/ UNCHANGED thread
    BY <1>2 DEF GoogleStart, GooglePoll, Arrives, codeVars
  <2>2. LimiterInvariant'
    BY <2>1, SignInAssumption, LimiterTakes
  <2> QED
    BY <1>0, <1>1, <2>1, <2>2, Steps, GoingOn
<1>3. CASE User \/ GiveUp \/ TokenRevokeList \/ UNCHANGED vars
  <2>1. UNCHANGED <<now, limiterVars, thread, consumed, accepted, sessions, adminVars, code, tokens>>
    BY <1>3 DEF User, GiveUp, TokenRevokeList, vars, signVars, codeVars
  <2> QED
    BY <1>0, <2>1, LimiterStays, Standing
<1>4. ASSUME NEW k \in Callers, OtherRequest(k)
      PROVE  LimiterInvariant' /\ SignInInvariant'
  <2>1. Take(k) /\ UNCHANGED <<now, thread, consumed, accepted, sessions, adminVars, code, tokens>>
    BY <1>4 DEF OtherRequest, signVars, codeVars
  <2> QED
    BY <1>0, <2>1, LimiterTakes, Standing
<1>5. ASSUME NEW r \in Threads, VerifyIdToken(r)
      PROVE  LimiterInvariant' /\ SignInInvariant'
  <2>1. /\ UNCHANGED <<now, limiterVars, consumed, accepted, sessions, adminVars, code, tokens>>
        /\ Goto(r, [step |-> "lookup", way |-> "google"]) \/ Goto(r, Idle)
    BY <1>5 DEF VerifyIdToken, codeVars
  <2>2. [step |-> "lookup", way |-> "google"] \in ThreadStates
    BY Steps DEF Ways
  <2> QED
    BY <1>0, <1>1, <2>1, <2>2, LimiterStays, GoingOn
<1>6. CASE RevokeByFilter
  <2>1. tokens' = {} /\ UNCHANGED <<now, limiterVars, thread, consumed, accepted, sessions, adminVars, code>>
    BY <1>6 DEF RevokeByFilter, signVars
  <2>2. Stays("note") /\ Stays("create")
    BY <2>1 DEF Stays
  <2>3. SignInTypeOK' /\ Noted' /\ Listed'
    BY <1>0, <2>1, <2>2, NotedStays, ListedStays DEF SignInTypeOK, adminVars
  <2>4. \A c \in Codes : Bought(c)' = {} /\ Buying(c)' = Buying(c)
    BY <2>1 DEF Bought, Buying, At
  <2>5. OneBuys'
    BY <1>0, <2>1, <2>4 DEF OneBuys
  <2> QED
    BY <2>1, <2>3, <2>5, LimiterStays DEF SignInInvariant, Noted, Listed
<1>7. ASSUME NEW r \in Threads, CheckReplay(r) \/ Note(r) \/ LookUp(r) \/ CreateSession(r) \/ Issue(r)
      PROVE  LimiterInvariant' /\ SignInInvariant'
  <2>1. LimiterInvariant'
    BY <1>7, LimiterStays DEF CheckReplay, Note, NoteFor, LookUp, CreateSession, Issue
  <2> QED
    BY <1>7, <2>1, CheckReplayStep, NoteStep, LookUpStep, CreateSessionStep, IssueStep
<1>8. ASSUME NEW way \in Ways, NEW new \in {None} \cup Entries, ChangeMember(way, new)
      PROVE  LimiterInvariant' /\ SignInInvariant'
  <2>1. LimiterInvariant'
    BY <1>8, LimiterStays DEF ChangeMember
  <2> QED
    BY <1>8, <2>1, ChangeMemberStep
<1>9. CASE RevokeAllFor \/ ShellKilled
  <2>1. LimiterInvariant'
    BY <1>9, LimiterStays DEF RevokeAllFor, ShellKilled
  <2> QED
    BY <1>9, <2>1, ShellStep
<1>10. ASSUME NEW k \in Codes, CreateCode(k)
       PROVE  LimiterInvariant' /\ SignInInvariant'
  <2>1. LimiterInvariant'
    BY <1>10, LimiterStays DEF CreateCode
  <2> QED
    BY <1>10, <2>1, CreateCodeStep
<1>11. ASSUME NEW r \in Threads, NEW e \in Events, NostrLogin(r, e)
       PROVE  LimiterInvariant' /\ SignInInvariant'
  BY <1>11, LoginRequestStep DEF NostrLogin
<1> QED
  BY <1>2, <1>3, <1>4, <1>5, <1>6, <1>7, <1>8, <1>9, <1>10, <1>11,
     ExchangeCodeStep, TickStep, RestartStep DEF SignInNext, Entries

LEMMA SignInStarts == SignInInit => LimiterInvariant /\ SignInInvariant
<1> SUFFICES ASSUME SignInInit
             PROVE  LimiterInvariant /\ SignInInvariant
  OBVIOUS
<1>1. LimiterInvariant
  BY LimiterStarts DEF SignInInit
<1>2. \A r \in Threads : thread[r] = Idle /\ thread[r].step = "idle"
  BY DEF SignInInit, Idle
<1>3. SignInTypeOK
  <2>1. thread \in [Threads -> ThreadStates] /\ \A e \in DOMAIN consumed : consumed[e] \in Nat
    BY Steps DEF SignInInit
  <2>2. accepted = {} /\ IsFiniteSet(accepted)
    BY FS_EmptySet DEF SignInInit
  <2>3. sessions = <<>> /\ sessions \in Seq([who: Entries, way: Ways, live: BOOLEAN, raced: BOOLEAN])
    BY DEF SignInInit
  <2>4. /\ members \in [Ways -> {None} \cup Entries] /\ revoking = None
        /\ code = [c \in Codes |-> None] /\ changes = 0 /\ abandoned = FALSE
    BY DEF SignInInit, Entries
  <2> QED
    BY <2>1, <2>2, <2>3, <2>4 DEF SignInTypeOK
<1>4. Noted
  BY <1>2 DEF SignInInit, Noted, NotesAreNumbered, NotesAreKept, ChecksAreSound, AcceptedOncePerWindow, At
<1>5. Listed
  BY <1>2 DEF SignInInit, Listed, LooksAreDated, ChangesEndSessions, At
<1>6. \A c \in Codes : Bought(c) = {} /\ Buying(c) = {}
  BY <1>2 DEF SignInInit, Bought, Buying, At
<1> QED
  BY <1>1, <1>3, <1>4, <1>5, <1>6 DEF SignInInvariant, Noted, Listed, OneBuys

\* What OneBuys says in the words of the property.
LEMMA OneBuysCounts == OneBuys => CodeBuysOneToken
<1> SUFFICES ASSUME OneBuys, NEW c \in Codes
             PROVE  /\ Cardinality(Bought(c)) + Cardinality(Buying(c)) <= 1
                    /\ Bought(c) \cup Buying(c) # {} => code[c] # None /\ code[c].consumed
  BY DEF CodeBuysOneToken, Bought, Buying
<1>1. \A S : (\A x, y \in S : x = y) => S = {} \/ \E x : S = {x}
  OBVIOUS
<1>2. Bought(c) = {} \/ \E t : Bought(c) = {t}
  BY <1>1 DEF OneBuys
<1>3. Buying(c) = {} \/ \E r : Buying(c) = {r}
  BY <1>1 DEF OneBuys
<1>4. \A x : Cardinality({x}) = 1
  BY FS_Singleton
<1>5. Cardinality({}) = 0
  BY FS_EmptySet
<1>6. Bought(c) = {} \/ Buying(c) = {}
  BY DEF OneBuys
<1>7. \/ Cardinality(Bought(c)) = 0 /\ Cardinality(Buying(c)) = 0
      \/ Cardinality(Bought(c)) = 0 /\ Cardinality(Buying(c)) = 1
      \/ Cardinality(Bought(c)) = 1 /\ Cardinality(Buying(c)) = 0
  BY <1>2, <1>3, <1>4, <1>5, <1>6
<1>8. Bought(c) \cup Buying(c) # {} => code[c] # None /\ code[c].consumed
  BY DEF OneBuys
<1> QED
  BY <1>7, <1>8

-----------------------------------------------------------------------------
(* The handshake.                                                          *)

\* The relays and the person change nothing of what is said or asked.
LEMMA SaidAndAsked ==
  ASSUME SignerTypeOK, AnswersHaveRequests, [SignerNext]_<<relayVars, signerVars>>
  PROVE  SignerTypeOK' /\ AnswersHaveRequests'
<1>1. ASSUME asked \subseteq asked', said' = said
      PROVE  AnswersHaveRequests'
  BY <1>1 DEF AnswersHaveRequests
<1>2. ASSUME NEW s \in Signers, Hello(s)
      PROVE  SignerTypeOK' /\ AnswersHaveRequests'
  <2>1. PICK kind \in {"ack", "secret"} : Says([from |-> s, kind |-> kind, rid |-> 0, copy |-> 1])
    BY <1>2 DEF Hello
  <2> DEFINE new == [from |-> s, kind |-> kind, rid |-> 0, copy |-> 1]
  <2>2. /\ said' \subseteq said \cup {new} /\ asked' = asked
        /\ UNCHANGED <<rid, stage, bound, verified, legacyAck>>
    BY <2>1 DEF Says
  <2>3. new.from = s /\ new.kind = kind
    OBVIOUS
  <2> HIDE DEF new
  <2> QED
    BY <2>2, <2>3 DEF SignerTypeOK, AnswersHaveRequests
<1>3. ASSUME NEW s \in Signers, Answer(s)
      PROVE  SignerTypeOK' /\ AnswersHaveRequests'
  <2>1. PICK q \in asked, ok \in BOOLEAN, copy \in 1 .. Copies :
          /\ q.to = s
          /\ Says([from |-> s, kind |-> IF ok THEN q.stage ELSE "error", rid |-> q.rid, copy |-> copy])
    BY <1>3 DEF Answer
  <2> DEFINE new == [from |-> s, kind |-> IF ok THEN q.stage ELSE "error", rid |-> q.rid, copy |-> copy]
  <2>2. /\ said' \subseteq said \cup {new} /\ asked' = asked
        /\ UNCHANGED <<rid, stage, bound, verified, legacyAck>>
    BY <2>1 DEF Says
  <2>3. new.from = s /\ new.rid = q.rid /\ new.kind \in {q.stage, "error"}
    OBVIOUS
  <2> HIDE DEF new
  <2> QED
    BY <2>1, <2>2, <2>3 DEF SignerTypeOK, AnswersHaveRequests
<1>4. ASSUME NEW q, Publish(q)
      PROVE  asked' = asked \/ asked' = asked \cup {q}
  BY <1>4 DEF Publish
<1>5. CASE AskPubkey \/ AskSign \/ Republish
  <2> DEFINE old == [rid |-> rid, stage |-> stage, to |-> bound]
             new == [rid |-> rid + 1, stage |-> stage, to |-> bound]
  <2>1. /\ asked' = asked \/ asked' = asked \cup {old} \/ asked' = asked \cup {new}
        /\ rid' = rid \/ rid' = rid + 1
        /\ stage' = stage \/ stage' = "sign"
        /\ UNCHANGED <<said, bound, verified, legacyAck>>
    BY <1>4, <1>5 DEF AskPubkey, AskSign, Republish, AttemptFails, Fails
  <2>2. {old, new} \subseteq [rid: Nat, stage: Stages, to: Signers \cup {NoSigner}]
    BY DEF SignerTypeOK
  <2> HIDE DEF old, new
  <2>3. SignerTypeOK'
    BY <2>1, <2>2 DEF SignerTypeOK, Stages
  <2> QED
    BY <1>1, <2>1, <2>3
<1>6. ASSUME NEW s \in Signers, NEW echoed \in BOOLEAN, Bind(s, echoed)
      PROVE  bound' \in Signers \cup {NoSigner} /\ verified' \in BOOLEAN
  BY <1>6 DEF Bind, SignerTypeOK
<1>7. ASSUME NEW m \in said, Connect(m) \/ Rebind(m)
      PROVE  SignerTypeOK' /\ AnswersHaveRequests'
  <2>1. m.from \in Signers
    BY DEF SignerTypeOK
  <2>2. /\ UNCHANGED <<said, asked, rid, legacyAck>>
        /\ stage' = stage \/ stage' = "pubkey"
        /\ \/ UNCHANGED <<bound, verified>>
           \/ Bind(m.from, m.kind = "secret")
           \/ Bind(m.from, TRUE)
    BY <1>7 DEF Connect, Rebind, Fails
  <2>3. bound' \in Signers \cup {NoSigner} /\ verified' \in BOOLEAN
    BY <1>6, <2>1, <2>2 DEF SignerTypeOK
  <2> QED
    BY <1>1, <2>2, <2>3 DEF SignerTypeOK, Stages
<1>8. ASSUME NEW m \in said, PassOver(m) \/ TakeError(m) \/ TakePubkey(m) \/ TakeEvent(m)
      PROVE  SignerTypeOK' /\ AnswersHaveRequests'
  <2>1. UNCHANGED <<said, asked, rid, bound, verified, legacyAck>> /\ (stage' = stage \/ stage' = "sign")
    BY <1>8 DEF PassOver, TakeError, TakePubkey, TakeEvent, AttemptFails, Fails
  <2> QED
    BY <1>1, <2>1 DEF SignerTypeOK, Stages
<1>9. CASE Dial \/ Dialled \/ NoConnection \/ GivesUp \/ Post
  <2>1. UNCHANGED <<said, asked, rid, bound, verified, legacyAck>> /\ stage' \in {stage, "sign", "dialling"}
    BY <1>9 DEF Dial, Dialled, NoConnection, GivesUp, Post, AttemptFails, Fails
  <2> QED
    BY <1>1, <2>1 DEF SignerTypeOK, Stages
<1>10. CASE Close
  BY <1>10 DEF Close, SignerTypeOK, AnswersHaveRequests, Stages
<1>11. CASE Cancel \/ UNCHANGED signerVars
  <2>1. UNCHANGED <<said, asked, rid, stage, bound, verified, legacyAck>>
    BY <1>11 DEF Cancel, signerVars
  <2> QED
    BY <1>1, <2>1 DEF SignerTypeOK
<1> QED
  BY <1>2, <1>3, <1>5, <1>7, <1>8, <1>9, <1>10, <1>11 DEF SignerNext, ClientStep

\* Relays, signers and the person leave the client's account of it alone.
Account == <<pc, bound, verified, userPk, legacyAck, handled, event, taken>>

LEMMA AccountStays ==
  ASSUME TakenIsHandled, BoundByTheCode, SignedByTheSigner,
         UNCHANGED Account, asked \subseteq asked'
  PROVE  TakenIsHandled' /\ BoundByTheCode' /\ SignedByTheSigner'
BY DEF TakenIsHandled, BoundByTheCode, SignedByTheSigner, Account

\* Whatever the client does before it has the event, short of taking it.
LEMMA NotYetSigned ==
  ASSUME TakenIsHandled, UNCHANGED <<handled, taken>>, BoundByTheCode',
         pc' \notin {"signed", "posted"}
  PROVE  TakenIsHandled' /\ BoundByTheCode' /\ SignedByTheSigner'
BY DEF TakenIsHandled, SignedByTheSigner

LEMMA TookOnce ==
  ASSUME TakenIsHandled, NEW m, Heeded(m), Took(m)
  PROVE  TakenIsHandled' /\ \E t \in taken' : t.answer = m
<1>1. \A t \in taken : t.answer.rid # m.rid
  BY DEF TakenIsHandled, Heeded
<1> DEFINE new == [answer |-> m, again |-> \E t \in taken : t.answer.rid = m.rid]
<1>2. new.answer = m /\ new.again = FALSE
  BY <1>1
<1>3. taken' = taken \cup {new} /\ handled' = handled \cup {m.rid}
  BY DEF Took
<1> HIDE DEF new
<1> QED
  BY <1>2, <1>3 DEF TakenIsHandled

LEMMA TakeEventStep ==
  ASSUME SignerInvariant, NEW m \in said, TakeEvent(m)
  PROVE  TakenIsHandled' /\ BoundByTheCode' /\ SignedByTheSigner'
<1>1. /\ pc = "wait" /\ m.from = bound /\ m.kind \notin {"ack", "secret", "error"}
      /\ UNCHANGED <<bound, verified, legacyAck, asked>>
      /\ Heeded(m) /\ Took(m)
  BY DEF TakeEvent, Reads, Heeded
<1>2. TakenIsHandled' /\ \E t \in taken' : t.answer = m
  BY <1>1, TookOnce DEF SignerInvariant
<1>3. ~legacyAck => verified
  BY <1>1 DEF SignerInvariant, BoundByTheCode
<1>4. CASE m.kind = "sign" /\ pc' = "signed" /\ event' = m.from /\ userPk' = m.from
  <2>1. PICK q \in asked : q.to = m.from /\ q.rid = m.rid /\ m.kind \in {q.stage, "error"}
    BY <1>1 DEF SignerInvariant, AnswersHaveRequests
  <2>2. q = [rid |-> q.rid, stage |-> q.stage, to |-> q.to]
    BY DEF SignerInvariant, SignerTypeOK
  <2>3. [rid |-> m.rid, stage |-> "sign", to |-> bound] \in asked
    BY <1>1, <1>4, <2>1, <2>2
  <2> QED
    BY <1>1, <1>2, <1>3, <1>4, <2>3 DEF BoundByTheCode, SignedByTheSigner, TakenIsHandled
<1>5. CASE pc' = "failed"
  BY <1>2, <1>5 DEF BoundByTheCode, SignedByTheSigner
<1> QED
  BY <1>4, <1>5 DEF TakeEvent, Fails

LEMMA HandshakeStep ==
  ASSUME SignerInvariant, [SignerNext]_<<relayVars, signerVars>>
  PROVE  SignerInvariant'
<1>0. SignerTypeOK /\ AnswersHaveRequests /\ TakenIsHandled /\ BoundByTheCode /\ SignedByTheSigner
  BY DEF SignerInvariant
<1>1. SignerTypeOK' /\ AnswersHaveRequests'
  BY <1>0, SaidAndAsked
<1>2. CASE \/ UNCHANGED signerVars \/ Cancel \/ Dial \/ \E s \in Signers : Hello(s) \/ Answer(s)
  <2>1. UNCHANGED Account /\ asked' = asked
    <3>1. CASE UNCHANGED signerVars
      BY <3>1 DEF Account, signerVars
    <3>2. CASE Cancel
      BY <3>2 DEF Account, Cancel
    <3>3. CASE Dial
      BY <3>3 DEF Account, Dial
    <3>4. CASE \E s \in Signers : Hello(s)
      BY <3>4 DEF Account, Hello, Says
    <3>5. CASE \E s \in Signers : Answer(s)
      BY <3>5 DEF Account, Answer, Says
    <3> QED
      BY <1>2, <3>1, <3>2, <3>3, <3>4, <3>5
  <2> QED
    BY <1>0, <1>1, <2>1, AccountStays DEF SignerInvariant
<1>3. CASE Dialled \/ NoConnection
  <2>1. /\ UNCHANGED <<handled, taken, verified, legacyAck>>
        /\ pc \in {"dial", "connect"} /\ pc' \in {"failed", "connect"}
    BY <1>3 DEF Dialled, NoConnection, Fails
  <2>2. BoundByTheCode'
    BY <1>0, <2>1 DEF BoundByTheCode
  <2> QED
    BY <1>0, <1>1, <2>1, <2>2, NotYetSigned DEF SignerInvariant
<1>4. CASE AskPubkey \/ AskSign \/ GivesUp \/ \E m \in said : TakeError(m)
  <2>1. /\ UNCHANGED <<handled, taken, verified, legacyAck>>
        /\ pc \in {"ask", "wait"} /\ pc' \in {"ask", "wait", "failed"}
    BY <1>4 DEF AskPubkey, AskSign, GivesUp, TakeError, Reads, AttemptFails, Fails
  <2>2. BoundByTheCode'
    BY <1>0, <2>1 DEF BoundByTheCode
  <2> QED
    BY <1>0, <1>1, <2>1, <2>2, NotYetSigned DEF SignerInvariant
<1>5. CASE Republish \/ \E m \in said : PassOver(m)
  <2>1. /\ UNCHANGED <<handled, taken, verified, legacyAck>>
        /\ pc = "wait" /\ pc' = "wait"
    BY <1>5 DEF Republish, PassOver, Reads
  <2>2. BoundByTheCode'
    BY <1>0, <2>1 DEF BoundByTheCode
  <2> QED
    BY <1>0, <1>1, <2>1, <2>2, NotYetSigned DEF SignerInvariant
<1>6. ASSUME NEW m \in said, Connect(m)
      PROVE  SignerInvariant'
  <2>1. UNCHANGED <<handled, taken, legacyAck>> /\ pc = "connect"
    BY <1>6 DEF Connect
  <2>2. CASE m.kind = "secret" \/ (m.kind = "ack" /\ legacyAck)
    <3>1. Bind(m.from, m.kind = "secret") /\ pc' = "ask"
      BY <1>6, <2>2 DEF Connect
    <3>2. ~verified
      BY <1>0, <2>1 DEF BoundByTheCode
    <3>3. m.kind = "secret" => verified'
      BY <3>1 DEF Bind
    <3>4. BoundByTheCode'
      BY <2>1, <2>2, <3>1, <3>3 DEF BoundByTheCode
    <3> QED
      BY <1>0, <1>1, <2>1, <3>1, <3>4, NotYetSigned DEF SignerInvariant
  <2>3. CASE ~(m.kind = "secret" \/ (m.kind = "ack" /\ legacyAck))
    <3>1. UNCHANGED <<pc, verified>>
      BY <1>6, <2>3 DEF Connect
    <3>2. BoundByTheCode'
      BY <1>0, <2>1, <3>1 DEF BoundByTheCode
    <3> QED
      BY <1>0, <1>1, <2>1, <3>1, <3>2, NotYetSigned DEF SignerInvariant
  <2> QED
    BY <2>2, <2>3
<1>7. ASSUME NEW m \in said, Rebind(m)
      PROVE  SignerInvariant'
  <2>1. UNCHANGED <<handled, taken, legacyAck>> /\ pc' \in {"ask", "failed"}
    BY <1>7 DEF Rebind, Fails
  <2>2. verified'
    BY <1>7 DEF Rebind, MayRebind, Bind
  <2>3. BoundByTheCode'
    BY <2>1, <2>2 DEF BoundByTheCode
  <2> QED
    BY <1>0, <1>1, <2>1, <2>3, NotYetSigned DEF SignerInvariant
<1>8. ASSUME NEW m \in said, TakePubkey(m)
      PROVE  SignerInvariant'
  <2>1. /\ Heeded(m) /\ Took(m) /\ UNCHANGED <<verified, legacyAck>>
        /\ pc = "wait" /\ pc' = "ask"
    BY <1>8 DEF TakePubkey, Reads, AttemptFails
  <2>2. TakenIsHandled'
    BY <1>0, <2>1, TookOnce
  <2>3. BoundByTheCode' /\ SignedByTheSigner'
    BY <1>0, <2>1 DEF BoundByTheCode, SignedByTheSigner
  <2> QED
    BY <1>1, <2>2, <2>3 DEF SignerInvariant
<1>9. CASE Post
  BY <1>0, <1>1, <1>9 DEF Post, SignerInvariant, TakenIsHandled, BoundByTheCode, SignedByTheSigner
<1>10. CASE Close
  BY <1>1, <1>10 DEF Close, SignerInvariant, TakenIsHandled, BoundByTheCode, SignedByTheSigner
<1> QED
  BY <1>1, <1>2, <1>3, <1>4, <1>5, <1>6, <1>7, <1>8, <1>9, <1>10, TakeEventStep
     DEF SignerNext, ClientStep, SignerInvariant

LEMMA HandshakeStarts == SignerInit => SignerInvariant
<1> SUFFICES ASSUME SignerInit PROVE SignerInvariant
  OBVIOUS
<1>1. SignerTypeOK
  BY DEF SignerInit, SignerTypeOK, Stages
<1>2. said = {} /\ taken = {} /\ pc \in {"off", "dial"} /\ verified = FALSE
  BY DEF SignerInit
<1> QED
  BY <1>1, <1>2 DEF SignerInvariant, AnswersHaveRequests, TakenIsHandled, BoundByTheCode, SignedByTheSigner

LEMMA VerifiedIsKept ==
  ASSUME SignerInvariant, [SignerNext]_<<relayVars, signerVars>>, verified, pc' # "closed"
  PROVE  verified' /\ bound' = bound
<1>1. ~\E m \in said : Connect(m) \/ Rebind(m)
  <2>1. \A m \in said : ~Connect(m)
    BY DEF Connect, SignerInvariant, BoundByTheCode
  <2>2. \A m \in said : ~Rebind(m)
    BY DEF Rebind, MayRebind
  <2> QED
    BY <2>1, <2>2
<1>2. ~Close
  BY DEF Close
<1> QED
  BY <1>1, <1>2, ZenonT(60) DEF SignerNext, ClientStep, signerVars, Cancel, Dial, Dialled, NoConnection, AskPubkey,
     AskSign, Republish, GivesUp, Post, PassOver, TakeError, TakePubkey, TakeEvent, Hello, Answer, Says

-----------------------------------------------------------------------------
(* The theorems.                                                           *)

SignedIn == LimiterInvariant /\ SignInInvariant /\ SignerInvariant

LEMMA SignedInStarts == NostrSignInInit => SignedIn
BY SignInStarts, HandshakeStarts DEF NostrSignInInit, SignedIn

LEMMA StepOfEither ==
  ASSUME [NostrSignInNext]_<<vars, relayVars, signerVars>>
  PROVE  /\ [SignerNext]_<<relayVars, signerVars>>
         /\ [SignInNext]_vars \/ \E r \in Threads : LoginRequest(r, Login, "signer")
<1>1. CASE Handshake
  BY <1>1 DEF Handshake
<1>2. CASE PostLogin
  BY <1>2 DEF PostLogin, SignerNext, ClientStep
<1>3. CASE Server
  BY <1>3 DEF Server
<1>4. CASE Openers
  BY <1>4 DEF Openers, SignerNext
<1>5. CASE UNCHANGED <<vars, relayVars, signerVars>>
  BY <1>5
<1> QED
  BY <1>1, <1>2, <1>3, <1>4, <1>5 DEF NostrSignInNext

LEMMA SignedInStep ==
  ASSUME SignedIn, [NostrSignInNext]_<<vars, relayVars, signerVars>>
  PROVE  SignedIn'
<1>1. SignerInvariant'
  BY StepOfEither, HandshakeStep DEF SignedIn
<1>2. LimiterInvariant' /\ SignInInvariant'
  BY StepOfEither, SignInStep, LoginRequestStep, LoginAssumption DEF SignedIn
<1> QED
  BY <1>1, <1>2 DEF SignedIn

\* ratelimit.py forgets full buckets first and then the oldest: what a caller
\* has left, at any time and under any number of callers, is what a limiter
\* would leave him that forgets nobody but those oldest.
THEOREM ForgettingGrantsNothing == NostrSignInSpec => []EvictionGrantsNothing
<1>1. SignedIn => EvictionGrantsNothing
  BY DEF SignedIn, LimiterInvariant
<1> QED
  BY <1>1, SignedInStarts, SignedInStep, PTL DEF NostrSignInSpec

\* _consumed_ids of nostr_auth.py, which is checked in one step and written in
\* another: a request checked after an event was noted is refused while the
\* event is fresh, except behind a note that was overwritten by an older one.
THEOREM NoteKeepsReplaysOut == NostrSignInSpec => []AcceptedOncePerWindow
<1>1. SignedIn => AcceptedOncePerWindow
  BY DEF SignedIn, SignInInvariant
<1> QED
  BY <1>1, SignedInStarts, SignedInStep, PTL DEF NostrSignInSpec

\* nostr_members.py and google_members.py: a live session says no more than the
\* allowlist, but for the shell's second step and the logins it overtook.
THEOREM ListsEndSessions == NostrSignInSpec => []ChangesEndSessions
<1>1. SignedIn => ChangesEndSessions
  BY DEF SignedIn, SignInInvariant
<1> QED
  BY <1>1, SignedInStarts, SignedInStep, PTL DEF NostrSignInSpec

\* enroll.py marks the code and auth.py makes the token in two transactions: a
\* code buys at most one, whoever exchanges it at the same time.
THEOREM OneTokenPerCode == NostrSignInSpec => []CodeBuysOneToken
<1>1. SignedIn => CodeBuysOneToken
  BY OneBuysCounts DEF SignedIn, SignInInvariant
<1> QED
  BY <1>1, SignedInStarts, SignedInStep, PTL DEF NostrSignInSpec

\* nip46.py and login.py: the event that is posted was signed by the signer
\* that is bound, asked by name, over relays that lose, delay and repeat.
THEOREM SignedByTheBound == NostrSignInSpec => []SignedByTheSigner
<1>1. SignedIn => SignedByTheSigner
  BY DEF SignedIn, SignerInvariant
<1> QED
  BY <1>1, SignedInStarts, SignedInStep, PTL DEF NostrSignInSpec

\* nip46.py:325: whoever echoed the secret is not replaced.
THEOREM TheVerifiedStays == NostrSignInSpec => VerifiedStays
<1>1. SignedIn /\ [NostrSignInNext]_<<vars, relayVars, signerVars>>
        => [verified /\ pc' # "closed" => verified' /\ bound' = bound]_<<relayVars, signerVars>>
  BY StepOfEither, VerifiedIsKept DEF SignedIn
<1> QED
  BY <1>1, SignedInStarts, SignedInStep, PTL DEF NostrSignInSpec, VerifiedStays

=============================================================================
