----------------------------- MODULE ServerProofs -----------------------------
(***************************************************************************)
(* The safety of the server's Kakao client, its onboarding and its rate     *)
(* limit, for any number of logins, accounts and requests and any          *)
(* configuration the server starts with.                                   *)
(***************************************************************************)
EXTENDS MCServer, FiniteSetTheorems, TLAPS

-----------------------------------------------------------------------------
(* Rate limit *)

RateTypes ==
    /\ clock \in 0..MaxTime
    /\ counts \in [Keys -> [Windows -> [count : Nat, ttl : Nat]]]
    /\ passed \in [Routes -> [Keys -> [Windows -> Nat]]]
    /\ DOMAIN checking = Hits

(* A request in the guard: all its keys still to hit, or its address hit   *)
(* and its user to go.  It chose its window when that was the current one. *)
InGuard(c) ==
    /\ c.route \in Routes /\ c.window \in Windows /\ c.window * WindowSec <= clock
    /\ \/ \E i \in Ips : c.todo = <<i>> /\ c.keys = {i}
       \/ \E i \in Ips, u \in UserKeys : c.todo \in {<<i, u>>, <<u>>} /\ c.keys = {i, u}

(* The requests of a route counted in a key that have another key to hit.  *)
CountedIn(c, r, k, w) ==
    c.route = r /\ c.window = w /\ k \in c.keys /\ Len(c.todo) = 1 /\ c.todo # <<k>>
Pending(r, k, w) == {h \in Hits : CountedIn(checking[h], r, k, w)}
Through(r, k, w) == passed[r][k][w] + Cardinality(Pending(r, k, w))

KeysOutlive ==
    \A k \in Keys, w \in Windows : counts[k][w].count > 0 =>
        counts[k][w].ttl > 0 /\ (w + 1) * WindowSec <= clock + counts[k][w].ttl

(* A key outlives the window its hits were counted for, and until that     *)
(* window is over it counts every request let through and every one that   *)
(* may still be, each of which found it within the limit.                  *)
RateInv ==
    /\ RateTypes
    /\ \A h \in Hits : checking[h] = Outside \/ InGuard(checking[h])
    /\ KeysOutlive
    /\ \A r \in Routes, k \in Keys, w \in Windows :
          /\ IsFiniteSet(Pending(r, k, w))
          /\ clock < (w + 1) * WindowSec =>
                Through(r, k, w) <= counts[k][w].count /\ Through(r, k, w) <= Limit(r, k)

(* A time lies in its window, and the windows number all of them.          *)
LEMMA WindowFacts ==
  ASSUME NEW t \in 0..MaxTime
  PROVE  /\ t \div WindowSec \in Windows
         /\ (t \div WindowSec) * WindowSec <= t
         /\ t < (t \div WindowSec + 1) * WindowSec
<1>1. t \in Int /\ t >= 0 /\ t <= MaxTime /\ WindowSec \in Nat \ {0} /\ MaxTime \in Nat
  BY RateLimitAssumption
<1>2. (t \div WindowSec) * WindowSec <= t /\ t < (t \div WindowSec + 1) * WindowSec
  BY <1>1, SMT
<1>3. t \div WindowSec >= 0 /\ t \div WindowSec <= MaxTime \div WindowSec
  BY <1>1, SMT
<1> QED
  BY <1>1, <1>2, <1>3 DEF Windows

LEMMA GuardFacts ==
  /\ \A r, k, w : ~CountedIn(Outside, r, k, w)
  /\ Outside.todo = <<>>
  /\ \A i \in Ips, u \in UserKeys : i # u
  /\ \A i, u : /\ Head(<<i>>) = i /\ Tail(<<i>>) = <<>> /\ Len(<<i>>) = 1
              /\ Head(<<i, u>>) = i /\ Tail(<<i, u>>) = <<u>> /\ Len(<<i, u>>) = 2
              /\ (<<i>> = <<u>> <=> i = u)
<1>1. \A i, u : <<i>> = <<u>> => i = u
  <2> SUFFICES ASSUME NEW i, NEW u, <<i>> = <<u>> PROVE i = u
    OBVIOUS
  <2>1. <<i>>[1] = i /\ <<u>>[1] = u
    OBVIOUS
  <2> QED
    BY <2>1
<1>2. \A r, k, w : ~CountedIn(Outside, r, k, w)
  BY DEF CountedIn, Outside, Checking
<1> QED
  BY <1>1, <1>2, RateLimitAssumption DEF Outside, Checking

(* One request moves: a count that rests on it moves by at most one.       *)
LEMMA OneMoves ==
  ASSUME NEW P, IsFiniteSet(P), NEW Q, NEW h, NEW in \in BOOLEAN,
         Q = (P \ {h}) \cup (IF in THEN {h} ELSE {})
  PROVE  /\ IsFiniteSet(Q) /\ Cardinality(P) \in Nat /\ Cardinality(Q) \in Nat
         /\ Cardinality(Q) = Cardinality(P) + (IF in THEN 1 ELSE 0) - (IF h \in P THEN 1 ELSE 0)
<1>1. /\ IsFiniteSet(P \ {h}) /\ Cardinality(P) \in Nat
      /\ Cardinality(P \ {h}) = IF h \in P THEN Cardinality(P) - 1 ELSE Cardinality(P)
  BY FS_RemoveElement, FS_CardinalityType
<1>2. /\ IsFiniteSet((P \ {h}) \cup {h})
      /\ Cardinality((P \ {h}) \cup {h}) = Cardinality(P \ {h}) + 1
  BY <1>1, FS_AddElement
<1>3. Q = IF in THEN (P \ {h}) \cup {h} ELSE P \ {h}
  OBVIOUS
<1>4. IsFiniteSet(Q) /\ Cardinality(Q) \in Nat
  BY <1>1, <1>2, <1>3, FS_CardinalityType
<1>5. CASE in
  BY <1>1, <1>2, <1>3, <1>4, <1>5
<1>6. CASE ~in
  BY <1>1, <1>3, <1>4, <1>6
<1> QED
  BY <1>5, <1>6

LEMMA RateStart == RateLimitInit => RateInv
<1> SUFFICES ASSUME RateLimitInit PROVE RateInv
  OBVIOUS
<1>1. RateTypes
  BY RateLimitAssumption DEF RateLimitInit, RateTypes, NoKey
<1>2. ASSUME NEW r \in Routes, NEW k \in Keys, NEW w \in Windows
      PROVE  /\ Pending(r, k, w) = {} /\ passed[r][k][w] = 0 /\ counts[k][w].count = 0
             /\ Limit(r, k) \in Nat
  BY GuardFacts, RateLimitAssumption DEF RateLimitInit, Pending, NoKey, Limit
<1>3. IsFiniteSet({}) /\ Cardinality({}) = 0
  BY FS_EmptySet
<1>4. \A r \in Routes, k \in Keys, w \in Windows :
        IsFiniteSet(Pending(r, k, w)) /\ Through(r, k, w) = 0
  BY <1>2, <1>3 DEF Through
<1>5. \A h \in Hits : checking[h] = Outside
  BY DEF RateLimitInit
<1>6. \A k \in Keys, w \in Windows : counts[k][w].count = 0
  BY DEF RateLimitInit, NoKey
<1> QED
  BY <1>1, <1>2, <1>4, <1>5, <1>6 DEF RateInv, KeysOutlive

(* What a step has to say of the counts and of the requests it moves.      *)
LEMMA RateTicks == ASSUME RateInv, ClockTicks PROVE RateInv'
<1> USE DEF ClockTicks
<1>1. /\ clock \in Nat /\ clock' = clock + 1 /\ clock' \in 0..MaxTime /\ WindowSec \in Nat \ {0}
      /\ checking' = checking /\ passed' = passed
  BY RateLimitAssumption DEF RateInv, RateTypes
<1>2. ASSUME NEW k \in Keys, NEW w \in Windows
      PROVE  /\ counts'[k][w] = Aged(counts[k][w]) /\ counts[k][w] \in [count : Nat, ttl : Nat]
             /\ counts'[k][w] \in [count : Nat, ttl : Nat]
             /\ counts'[k][w].count \in {0, counts[k][w].count}
             /\ counts'[k][w].count > 0 =>
                   counts[k][w].ttl > 1 /\ counts'[k][w].ttl = counts[k][w].ttl - 1
             /\ counts[k][w].count > 0 /\ counts[k][w].ttl > 1 => counts'[k][w].count = counts[k][w].count
  <2>1. counts'[k][w] = Aged(counts[k][w]) /\ counts[k][w] \in [count : Nat, ttl : Nat]
    BY DEF RateInv, RateTypes
  <2>2. \A c \in [count : Nat, ttl : Nat] :
          /\ c.ttl <= 1 => Aged(c) = NoKey
          /\ c.ttl > 1 => Aged(c) = [count |-> c.count, ttl |-> c.ttl - 1]
    BY DEF Aged
  <2> QED
    BY <2>1, <2>2 DEF NoKey
<1>3. RateTypes'
  BY <1>1, <1>2 DEF RateInv, RateTypes
<1>4. ASSUME NEW h \in Hits PROVE (checking[h] = Outside \/ InGuard(checking[h]))'
  <2>1. CASE checking[h] = Outside
    BY <1>1, <2>1 DEF Outside, Checking
  <2>2. CASE InGuard(checking[h])
    <3>1. \A x \in Int : x <= clock => x <= clock'
      BY <1>1
    <3>2. checking[h].window \in Int /\ checking[h].window * WindowSec \in Int
      BY <1>1, <2>2, RateLimitAssumption DEF InGuard, Windows
    <3> QED
      BY <1>1, <2>2, <3>1, <3>2 DEF InGuard
  <2> QED
    BY <2>1, <2>2 DEF RateInv
<1>5. ASSUME NEW w \in Windows PROVE (w + 1) * WindowSec \in Int
  BY <1>1, RateLimitAssumption DEF Windows
<1>6. ASSUME NEW k \in Keys, NEW w \in Windows, counts'[k][w].count > 0
      PROVE  counts'[k][w].ttl > 0 /\ (w + 1) * WindowSec <= clock' + counts'[k][w].ttl
  <2> DEFINE over == (w + 1) * WindowSec
  <2>1. counts[k][w].count > 0 /\ counts'[k][w].ttl = counts[k][w].ttl - 1 /\ counts[k][w].ttl > 1
    BY <1>2, <1>6
  <2>2. over <= clock + counts[k][w].ttl /\ over \in Int /\ counts[k][w].ttl \in Nat
    BY <1>2, <1>5, <2>1 DEF RateInv, KeysOutlive
  <2> HIDE DEF over
  <2>3. counts'[k][w].ttl > 0 /\ over <= clock' + counts'[k][w].ttl
    BY <1>1, <2>1, <2>2
  <2> QED
    BY <2>3 DEF over
<1>7. ASSUME NEW r \in Routes, NEW k \in Keys, NEW w \in Windows
      PROVE  /\ IsFiniteSet(Pending(r, k, w))'
             /\ clock' < (w + 1) * WindowSec =>
                   (Through(r, k, w) <= counts[k][w].count /\ Through(r, k, w) <= Limit(r, k))'
  <2> DEFINE over == (w + 1) * WindowSec
  <2>1. Pending(r, k, w)' = Pending(r, k, w) /\ Through(r, k, w)' = Through(r, k, w)
    BY <1>1 DEF Pending, CountedIn, Through
  <2>2. over \in Int /\ counts[k][w] \in [count : Nat, ttl : Nat]
    BY <1>2, <1>5
  <2>3. ASSUME clock' < over
        PROVE  /\ Through(r, k, w) <= counts[k][w].count /\ Through(r, k, w) <= Limit(r, k)
               /\ counts'[k][w].count = counts[k][w].count
    <3>1. counts[k][w].count > 0 => over <= clock + counts[k][w].ttl
      BY DEF RateInv, KeysOutlive
    <3>2. clock < over => Through(r, k, w) <= counts[k][w].count /\ Through(r, k, w) <= Limit(r, k)
      BY DEF RateInv
    <3> HIDE DEF over
    <3>3. clock < over /\ (counts[k][w].count > 0 => counts[k][w].ttl > 1)
      BY <1>1, <2>2, <2>3, <3>1
    <3>4. counts'[k][w].count = counts[k][w].count
      BY <1>2, <2>2, <3>3
    <3> QED
      BY <3>2, <3>3, <3>4
  <2> QED
    BY <2>1, <2>3 DEF RateInv, Limit
<1> QED
  BY <1>3, <1>4, <1>6, <1>7 DEF RateInv, KeysOutlive

(* A step of one request that hits no key, or the one hit it takes.        *)
CountsGrow == \A k \in Keys, w \in Windows : counts'[k][w].count >= counts[k][w].count
GainsCounted(h, d) ==
    \A r \in Routes, k \in Keys, w \in Windows :
        LET gain == passed'[r][k][w] - passed[r][k][w]
                    + (IF CountedIn(d, r, k, w) THEN 1 ELSE 0)
                    - (IF CountedIn(checking[h], r, k, w) THEN 1 ELSE 0)
        IN  \/ gain <= 0
            \/ /\ gain = 1 /\ counts'[k][w].count = counts[k][w].count + 1
               /\ counts'[k][w].count <= Limit(r, k)

LEMMA RateMoves ==
  ASSUME RateInv, RateTypes', KeysOutlive', clock' = clock, NEW h \in Hits, NEW d,
         checking' = [checking EXCEPT ![h] = d], d = Outside \/ InGuard(d),
         CountsGrow, GainsCounted(h, d)
  PROVE  RateInv'
<1>1. ASSUME NEW g \in Hits PROVE (checking[g] = Outside \/ InGuard(checking[g]))'
  <2>1. checking'[g] = d \/ checking'[g] = checking[g]
    BY DEF RateInv, RateTypes
  <2>2. Outside' = Outside /\ (\A c : InGuard(c)' <=> InGuard(c))
    BY DEF InGuard, Outside, Checking
  <2>3. checking[g] = Outside \/ InGuard(checking[g])
    BY DEF RateInv
  <2>4. \E c : c = checking'[g] /\ (c = Outside \/ InGuard(c))
    BY <2>1, <2>3
  <2> QED
    BY <2>2, <2>4
<1>2. ASSUME NEW r \in Routes, NEW k \in Keys, NEW w \in Windows
      PROVE  /\ IsFiniteSet(Pending(r, k, w))'
             /\ clock < (w + 1) * WindowSec =>
                   (Through(r, k, w) <= counts[k][w].count /\ Through(r, k, w) <= Limit(r, k))'
  <2> DEFINE n == Cardinality(Pending(r, k, w))
             on == IF CountedIn(d, r, k, w) THEN 1 ELSE 0
             off == IF CountedIn(checking[h], r, k, w) THEN 1 ELSE 0
  <2>1. IsFiniteSet(Pending(r, k, w)) /\ DOMAIN checking = Hits
    BY DEF RateInv, RateTypes
  <2>2. Pending(r, k, w)' = (Pending(r, k, w) \ {h}) \cup (IF CountedIn(d, r, k, w) THEN {h} ELSE {})
    BY <2>1 DEF Pending, CountedIn
  <2>3. IsFiniteSet(Pending(r, k, w))' /\ n \in Nat /\ n' = n + on - off
    <3>1. h \in Pending(r, k, w) <=> CountedIn(checking[h], r, k, w)
      BY DEF Pending
    <3>2. CountedIn(d, r, k, w) \in BOOLEAN
      BY DEF CountedIn
    <3>3. n' = Cardinality(Pending(r, k, w)')
      OBVIOUS
    <3>4. /\ IsFiniteSet(Pending(r, k, w)') /\ n \in Nat
          /\ Cardinality(Pending(r, k, w)') = n + on
                - (IF h \in Pending(r, k, w) THEN 1 ELSE 0)
      <4> DEFINE P == Pending(r, k, w)
                 Q == Pending(r, k, w)'
                 in == CountedIn(d, r, k, w)
      <4>1. IsFiniteSet(P) /\ in \in BOOLEAN /\ Q = (P \ {h}) \cup (IF in THEN {h} ELSE {})
        BY <2>1, <2>2, <3>2
      <4> HIDE DEF P, Q, in
      <4>2. /\ IsFiniteSet(Q) /\ Cardinality(P) \in Nat
            /\ Cardinality(Q) = Cardinality(P) + (IF in THEN 1 ELSE 0) - (IF h \in P THEN 1 ELSE 0)
        BY <4>1, OneMoves
      <4> QED
        BY <4>2 DEF P, Q, in
    <3> QED
      BY <3>1, <3>3, <3>4
  <2>4. on \in 0..1 /\ off \in 0..1
    OBVIOUS
  <2>5. /\ passed[r][k][w] \in Nat /\ passed'[r][k][w] \in Nat
        /\ counts[k][w].count \in Nat /\ counts'[k][w].count \in Nat /\ Limit(r, k) \in Nat
    BY RateLimitAssumption DEF RateInv, RateTypes, Limit
  <2>6. Through(r, k, w) = passed[r][k][w] + n /\ Through(r, k, w)' = passed'[r][k][w] + n'
    BY DEF Through
  <2>7. \/ passed'[r][k][w] - passed[r][k][w] + on - off <= 0
        \/ /\ passed'[r][k][w] - passed[r][k][w] + on - off = 1
           /\ counts'[k][w].count = counts[k][w].count + 1 /\ counts'[k][w].count <= Limit(r, k)
    BY DEF GainsCounted
  <2>8. counts'[k][w].count >= counts[k][w].count
    BY DEF CountsGrow
  <2>9. ASSUME clock < (w + 1) * WindowSec
        PROVE  Through(r, k, w) <= counts[k][w].count /\ Through(r, k, w) <= Limit(r, k)
    BY <2>9 DEF RateInv
  <2> HIDE DEF n, on, off
  <2>10. ASSUME clock < (w + 1) * WindowSec
         PROVE  Through(r, k, w)' <= counts'[k][w].count /\ Through(r, k, w)' <= Limit(r, k)
    <3>1. passed[r][k][w] + n <= counts[k][w].count /\ passed[r][k][w] + n <= Limit(r, k)
      BY <2>6, <2>9, <2>10
    <3>2. passed'[r][k][w] + n' <= counts'[k][w].count /\ passed'[r][k][w] + n' <= Limit(r, k)
      BY <2>3, <2>4, <2>5, <2>7, <2>8, <3>1
    <3> QED
      BY <2>6, <3>2
  <2> QED
    BY <2>3, <2>10 DEF Limit
<1> QED
  BY <1>1, <1>2 DEF RateInv

(* A request in the guard, at each of its steps.                           *)
LEMMA Checkpoints ==
  ASSUME RateInv, NEW h \in Hits, checking[h].todo # <<>>
  PROVE  LET c == checking[h]
             k == Head(c.todo)
         IN  /\ c.route \in Routes /\ c.window \in Windows /\ c.window * WindowSec <= clock /\ k \in Keys
             /\ \/ \E u \in UserKeys : /\ k \in Ips /\ k # u /\ c.todo = <<k, u>> /\ c.keys = {k, u}
                                      /\ Tail(c.todo) = <<u>>
                                      /\ \A r, x, w : ~CountedIn(c, r, x, w)
                \/ /\ Tail(c.todo) = <<>> /\ c.todo = <<k>> /\ k \in c.keys
                   /\ \A r, x, w : CountedIn(c, r, x, w)
                        <=> r = c.route /\ w = c.window /\ x \in c.keys \ {k}
<1> DEFINE c == checking[h]
<1>1. InGuard(c)
  BY GuardFacts DEF RateInv
<1>2. CASE \E i \in Ips : c.todo = <<i>> /\ c.keys = {i}
  BY <1>1, <1>2, GuardFacts DEF InGuard, CountedIn, Keys
<1>3. CASE \E i \in Ips, u \in UserKeys : c.todo = <<i, u>> /\ c.keys = {i, u}
  BY <1>1, <1>3, GuardFacts DEF InGuard, CountedIn, Keys
<1>4. CASE \E i \in Ips, u \in UserKeys : c.todo = <<u>> /\ c.keys = {i, u}
  BY <1>1, <1>4, GuardFacts DEF InGuard, CountedIn, Keys
<1> QED
  BY <1>1, <1>2, <1>3, <1>4 DEF InGuard

LEMMA RateEnters ==
  ASSUME RateInv, NEW h \in Hits, NEW r \in Routes, NEW t \in Checks, CanActivate(h, r, t)
  PROVE  RateInv'
<1> DEFINE d == Checking(r, clock \div WindowSec, t)
<1>1. /\ checking' = [checking EXCEPT ![h] = d] /\ UNCHANGED <<clock, counts, passed>>
      /\ checking[h] = Outside
  BY DEF CanActivate
<1>2. clock \div WindowSec \in Windows /\ (clock \div WindowSec) * WindowSec <= clock
  BY WindowFacts DEF RateInv, RateTypes
<1>3. RateTypes'
  BY <1>1 DEF RateInv, RateTypes
<1>4. ASSUME NEW i \in Ips, t = <<i>> PROVE InGuard(d) /\ \A q, k, w : ~CountedIn(d, q, k, w)
  <2>1. d.keys = {i} /\ d.todo = <<i>> /\ d.route = r /\ d.window = clock \div WindowSec
    BY <1>4 DEF Checking
  <2> HIDE DEF d
  <2> QED
    BY <1>2, <2>1 DEF InGuard, CountedIn
<1>5. ASSUME NEW i \in Ips, NEW u \in UserKeys, t = <<i, u>>
      PROVE  InGuard(d) /\ \A q, k, w : ~CountedIn(d, q, k, w)
  <2>1. d.keys = {i, u} /\ d.todo = <<i, u>> /\ d.route = r /\ d.window = clock \div WindowSec
    BY <1>5 DEF Checking
  <2> HIDE DEF d
  <2>2. \A q, k, w : ~CountedIn(d, q, k, w)
    BY <2>1, GuardFacts DEF CountedIn
  <2>3. \E j \in Ips, x \in UserKeys : d.todo \in {<<j, x>>, <<x>>} /\ d.keys = {j, x}
    BY <2>1
  <2> QED
    BY <1>2, <2>1, <2>2, <2>3 DEF InGuard
<1>6. InGuard(d) /\ \A q, k, w : ~CountedIn(d, q, k, w)
  BY <1>4, <1>5 DEF Checks
<1>7. \A k \in Keys, w \in Windows : counts[k][w] \in [count : Nat, ttl : Nat]
  BY DEF RateInv, RateTypes
<1>8. \A q \in Routes, k \in Keys, w \in Windows : passed[q][k][w] \in Nat
  BY DEF RateInv, RateTypes
<1> HIDE DEF d
<1>9. KeysOutlive' /\ CountsGrow
  BY <1>1, <1>7 DEF RateInv, KeysOutlive, CountsGrow
<1>10. GainsCounted(h, d)
  BY <1>1, <1>6, <1>8, GuardFacts DEF GainsCounted
<1> QED
  BY <1>1, <1>3, <1>6, <1>9, <1>10, RateMoves

LEMMA RateFails == ASSUME RateInv, NEW h \in Hits, HitFails(h) PROVE RateInv'
<1>1. checking' = [checking EXCEPT ![h] = Outside] /\ UNCHANGED <<clock, counts, passed>>
  BY DEF HitFails, Leave
<1>2. RateTypes'
  BY <1>1 DEF RateInv, RateTypes
<1>3. \A k \in Keys, w \in Windows : counts[k][w] \in [count : Nat, ttl : Nat]
  BY DEF RateInv, RateTypes
<1>4. \A q \in Routes, k \in Keys, w \in Windows : passed[q][k][w] \in Nat
  BY DEF RateInv, RateTypes
<1>5. KeysOutlive' /\ CountsGrow
  BY <1>1, <1>3 DEF RateInv, KeysOutlive, CountsGrow
<1>6. GainsCounted(h, Outside)
  BY <1>1, <1>4, GuardFacts DEF GainsCounted
<1> QED
  BY <1>1, <1>2, <1>5, <1>6, RateMoves

LEMMA RateHits == ASSUME RateInv, NEW h \in Hits, HitNext(h) PROVE RateInv'
<1> DEFINE c == checking[h]
           k == Head(c.todo)
           v == c.window
           n == counts[k][v].count + 1
           hit == Hit(counts[k][v])
           oneMore == [r \in Routes |-> [x \in Keys |-> [w \in Windows |->
                        passed[r][x][w] + (IF r = c.route /\ x \in c.keys /\ w = v THEN 1 ELSE 0)]]]
<1>1. c.todo # <<>> /\ clock' = clock
  BY DEF HitNext
<1>2. c.route \in Routes /\ v \in Windows /\ v * WindowSec <= clock /\ k \in Keys
  BY <1>1, Checkpoints
<1>3. /\ \A x \in Keys, w \in Windows : counts[x][w] \in [count : Nat, ttl : Nat]
      /\ \A q \in Routes, x \in Keys, w \in Windows : passed[q][x][w] \in Nat
      /\ DOMAIN checking = Hits
  BY DEF RateInv, RateTypes
<1>4. /\ counts' = [counts EXCEPT ![k][v] = hit]
      /\ hit = [count |-> n, ttl |-> IF counts[k][v].count = 0 THEN WindowSec ELSE counts[k][v].ttl]
      /\ hit.count = n /\ hit.ttl = IF counts[k][v].count = 0 THEN WindowSec ELSE counts[k][v].ttl
  BY DEF HitNext, Hit
<1>5. /\ counts' \in [Keys -> [Windows -> [count : Nat, ttl : Nat]]]
      /\ \A x \in Keys, w \in Windows :
           counts'[x][w] = IF x = k /\ w = v THEN hit ELSE counts[x][w]
  <2>1. hit \in [count : Nat, ttl : Nat]
    BY <1>2, <1>3, <1>4, RateLimitAssumption
  <2>2. counts \in [Keys -> [Windows -> [count : Nat, ttl : Nat]]]
    BY DEF RateInv, RateTypes
  <2> QED
    BY <1>2, <1>4, <2>1, <2>2
<1>6. CountsGrow /\ KeysOutlive'
  <2> SUFFICES ASSUME NEW x \in Keys, NEW w \in Windows
               PROVE  /\ counts'[x][w].count >= counts[x][w].count
                      /\ counts'[x][w].count > 0 =>
                            counts'[x][w].ttl > 0 /\ (w + 1) * WindowSec <= clock + counts'[x][w].ttl
    BY <1>1 DEF CountsGrow, KeysOutlive
  <2>1. counts[x][w].count > 0 => counts[x][w].ttl > 0 /\ (w + 1) * WindowSec <= clock + counts[x][w].ttl
    BY DEF RateInv, KeysOutlive
  <2>2. CASE ~(x = k /\ w = v)
    <3>1. counts'[x][w] = counts[x][w] /\ counts[x][w].count \in Nat
      BY <1>3, <1>5, <2>2
    <3> QED
      BY <2>1, <3>1
  <2>3. CASE x = k /\ w = v
    <3>1. /\ counts'[x][w].count = counts[x][w].count + 1
          /\ counts'[x][w].ttl = IF counts[x][w].count = 0 THEN WindowSec ELSE counts[x][w].ttl
          /\ counts[x][w].count \in Nat
      <4>1. counts'[x][w] = hit /\ counts[x][w] = counts[k][v]
        BY <1>5, <2>3
      <4>2. counts[x][w].count \in Nat
        BY <1>3
      <4> HIDE DEF hit
      <4> QED
        BY <1>4, <4>1, <4>2
    <3>2. WindowSec > 0 /\ (w + 1) * WindowSec <= clock + WindowSec
      <4>1. w \in Int /\ WindowSec \in Nat \ {0} /\ clock \in Int /\ w * WindowSec <= clock
        BY <1>2, <2>3, RateLimitAssumption DEF RateInv, RateTypes, Windows
      <4> QED
        BY <4>1, SMT
    <3>3. counts[x][w].count = 0 \/ counts[x][w].count > 0
      BY <3>1
    <3> QED
      BY <2>1, <3>1, <3>2, <3>3
  <2> QED
    BY <2>2, <2>3
<1>7. n \in Nat /\ n = counts'[k][v].count /\ n = counts[k][v].count + 1
  <2>1. counts'[k][v] = hit /\ counts[k][v].count \in Nat
    BY <1>2, <1>3, <1>5
  <2>2. n \in Nat
    BY <2>1
  <2>3. n = hit.count
    BY <1>4
  <2> HIDE DEF n, hit
  <2>4. n = counts'[k][v].count
    BY <2>1, <2>3
  <2> QED
    BY <2>2, <2>4 DEF n
<1>8. \/ Exceeds(c.route, k, n) /\ Leave(h) /\ UNCHANGED passed
      \/ /\ ~Exceeds(c.route, k, n) /\ Tail(c.todo) # <<>> /\ UNCHANGED passed
         /\ checking' = [checking EXCEPT ![h].todo = Tail(c.todo)]
      \/ /\ ~Exceeds(c.route, k, n) /\ Tail(c.todo) = <<>> /\ Leave(h)
         /\ passed' = oneMore
  <2>1. n = hit.count
    BY <1>4
  <2> HIDE DEF n
  <2>2. IF Exceeds(c.route, k, hit.count) THEN Leave(h) /\ UNCHANGED passed
        ELSE IF Tail(c.todo) # <<>>
        THEN checking' = [checking EXCEPT ![h].todo = Tail(c.todo)] /\ UNCHANGED passed
        ELSE /\ passed' = oneMore
             /\ Leave(h)
    BY DEF HitNext
  <2> HIDE DEF hit, c, k, v
  <2> QED
    BY <2>1, <2>2
<1> HIDE DEF n, hit, oneMore
<1>9. CASE Exceeds(c.route, k, n)
  <2>1. checking' = [checking EXCEPT ![h] = Outside] /\ UNCHANGED <<clock, passed>>
    BY <1>1, <1>8, <1>9 DEF Leave
  <2>2. RateTypes'
    BY <1>5, <2>1 DEF RateInv, RateTypes
  <2>3. GainsCounted(h, Outside)
    BY <1>3, <2>1, GuardFacts DEF GainsCounted
  <2> QED
    BY <1>6, <2>1, <2>2, <2>3, RateMoves
<1>10. CASE ~Exceeds(c.route, k, n) /\ Tail(c.todo) # <<>>
  <2> DEFINE e == [c EXCEPT !.todo = Tail(c.todo)]
  <2>1. checking' = [checking EXCEPT ![h] = e] /\ UNCHANGED <<clock, passed>>
    BY <1>1, <1>8, <1>10
  <2>2. RateTypes'
    BY <1>5, <2>1 DEF RateInv, RateTypes
  <2>3. PICK u \in UserKeys : /\ k \in Ips /\ k # u /\ c.todo = <<k, u>> /\ c.keys = {k, u}
                             /\ Tail(c.todo) = <<u>> /\ \A r, x, w : ~CountedIn(c, r, x, w)
    BY <1>1, <1>10, Checkpoints
  <2>4. e.todo = <<u>> /\ e.keys = {k, u} /\ e.route = c.route /\ e.window = v
    BY <2>3
  <2>5. InGuard(e)
    BY <1>2, <2>3, <2>4 DEF InGuard
  <2>6. \A q, x, w : CountedIn(e, q, x, w) <=> q = c.route /\ x = k /\ w = v
    BY <2>3, <2>4, GuardFacts DEF CountedIn
  <2>7. n <= Limit(c.route, k)
    <3>1. Limit(c.route, k) \in Nat
      BY <1>2, RateLimitAssumption DEF Limit
    <3> QED
      BY <1>7, <1>10, <3>1 DEF Exceeds
  <2> HIDE DEF e
  <2>8. GainsCounted(h, e)
    <3> SUFFICES ASSUME NEW q \in Routes, NEW x \in Keys, NEW w \in Windows
                 PROVE  LET gain == passed'[q][x][w] - passed[q][x][w]
                                    + (IF CountedIn(e, q, x, w) THEN 1 ELSE 0)
                                    - (IF CountedIn(c, q, x, w) THEN 1 ELSE 0)
                        IN  \/ gain <= 0
                            \/ /\ gain = 1 /\ counts'[x][w].count = counts[x][w].count + 1
                               /\ counts'[x][w].count <= Limit(q, x)
      BY DEF GainsCounted
    <3>1. passed'[q][x][w] = passed[q][x][w] /\ passed[q][x][w] \in Nat /\ ~CountedIn(c, q, x, w)
      BY <1>3, <2>1, <2>3
    <3>2. CASE q = c.route /\ x = k /\ w = v
      <4>1. CountedIn(e, q, x, w) /\ n <= Limit(q, x)
        BY <2>6, <2>7, <3>2
      <4>2. n = counts'[x][w].count /\ n = counts[x][w].count + 1
        BY <1>7, <3>2
      <4> HIDE DEF c, k, v
      <4> QED
        BY <3>1, <4>1, <4>2
    <3>3. CASE ~(q = c.route /\ x = k /\ w = v)
      BY <2>6, <3>1, <3>3
    <3> QED
      BY <3>2, <3>3
  <2> QED
    BY <1>6, <2>1, <2>2, <2>5, <2>8, RateMoves
<1>11. CASE ~Exceeds(c.route, k, n) /\ Tail(c.todo) = <<>>
  <2>1. /\ checking' = [checking EXCEPT ![h] = Outside] /\ UNCHANGED clock
        /\ passed' = oneMore
    BY <1>1, <1>8, <1>11 DEF Leave
  <2>2. /\ k \in c.keys
        /\ \A r, x, w : CountedIn(c, r, x, w) <=> r = c.route /\ w = v /\ x \in c.keys \ {k}
    <3>1. \A u : <<u>> # <<>>
      OBVIOUS
    <3> QED
      BY <1>1, <1>11, <3>1, Checkpoints
  <2>3. /\ passed' \in [Routes -> [Keys -> [Windows -> Nat]]]
        /\ \A q \in Routes, x \in Keys, w \in Windows :
             passed'[q][x][w] = IF q = c.route /\ w = v /\ x \in c.keys
                                THEN passed[q][x][w] + 1 ELSE passed[q][x][w]
    BY <1>3, <2>1 DEF oneMore
  <2>4. RateTypes'
    BY <1>5, <2>1, <2>3 DEF RateInv, RateTypes
  <2>5. n <= Limit(c.route, k)
    <3>1. Limit(c.route, k) \in Nat
      BY <1>2, RateLimitAssumption DEF Limit
    <3> QED
      BY <1>7, <1>11, <3>1 DEF Exceeds
  <2>6. GainsCounted(h, Outside)
    <3> SUFFICES ASSUME NEW q \in Routes, NEW x \in Keys, NEW w \in Windows
                 PROVE  LET gain == passed'[q][x][w] - passed[q][x][w]
                                    + (IF CountedIn(Outside, q, x, w) THEN 1 ELSE 0)
                                    - (IF CountedIn(c, q, x, w) THEN 1 ELSE 0)
                        IN  \/ gain <= 0
                            \/ /\ gain = 1 /\ counts'[x][w].count = counts[x][w].count + 1
                               /\ counts'[x][w].count <= Limit(q, x)
      BY DEF GainsCounted
    <3>1. passed[q][x][w] \in Nat /\ ~CountedIn(Outside, q, x, w)
      BY <1>3, GuardFacts
    <3>2. CASE q = c.route /\ x = k /\ w = v
      <4>1. passed'[q][x][w] = passed[q][x][w] + 1 /\ ~CountedIn(c, q, x, w)
        BY <2>2, <2>3, <3>2
      <4>2. counts'[x][w].count = counts[x][w].count + 1 /\ counts'[x][w].count <= Limit(q, x)
        BY <1>7, <2>5, <3>2 DEF n
      <4> QED
        BY <3>1, <4>1, <4>2
    <3>3. CASE ~(q = c.route /\ x = k /\ w = v)
      <4>1. \/ passed'[q][x][w] = passed[q][x][w] + 1 /\ CountedIn(c, q, x, w)
            \/ passed'[q][x][w] = passed[q][x][w] /\ ~CountedIn(c, q, x, w)
        BY <2>2, <2>3, <3>3
      <4> QED
        BY <3>1, <4>1
    <3> QED
      BY <3>2, <3>3
  <2> QED
    BY <1>6, <2>1, <2>4, <2>6, RateMoves
<1> QED
  BY <1>9, <1>10, <1>11

LEMMA RateStep == RateInv /\ [RateLimitNext]_rateVars => RateInv'
<1> SUFFICES ASSUME RateInv, [RateLimitNext]_rateVars PROVE RateInv'
  OBVIOUS
<1>1. CASE UNCHANGED rateVars
  <2>1. UNCHANGED <<clock, counts, checking, passed>>
    BY <1>1 DEF rateVars
  <2>2. RateTypes' /\ Outside' = Outside /\ \A c : InGuard(c)' <=> InGuard(c)
    BY <2>1 DEF RateInv, RateTypes, InGuard, Outside, Checking
  <2>3. \A r, k, w : Pending(r, k, w)' = Pending(r, k, w) /\ Through(r, k, w)' = Through(r, k, w)
    BY <2>1 DEF Pending, CountedIn, Through
  <2> QED
    BY <2>1, <2>2, <2>3 DEF RateInv, KeysOutlive, Limit
<1> QED
  BY <1>1, RateEnters, RateHits, RateFails, RateTicks DEF RateLimitNext

LEMMA RatePromises == RateInv => WindowLimited
<1> SUFFICES ASSUME RateInv, NEW k \in Keys, NEW w \in Windows
             PROVE  /\ w = clock \div WindowSec => \A r \in Routes : passed[r][k][w] <= Limit(r, k)
                    /\ counts[k][w].count > 0 => counts[k][w].ttl > 0
  BY DEF WindowLimited
<1>1. ASSUME w = clock \div WindowSec, NEW r \in Routes PROVE passed[r][k][w] <= Limit(r, k)
  <2>1. clock < (w + 1) * WindowSec
    BY <1>1, WindowFacts DEF RateInv, RateTypes
  <2>2. Through(r, k, w) <= Limit(r, k) /\ IsFiniteSet(Pending(r, k, w))
    BY <2>1 DEF RateInv
  <2>3. passed[r][k][w] \in Nat /\ Limit(r, k) \in Nat
    BY RateLimitAssumption DEF RateInv, RateTypes, Limit
  <2>4. Cardinality(Pending(r, k, w)) \in Nat
    BY <2>2, FS_CardinalityType
  <2> QED
    BY <2>2, <2>3, <2>4 DEF Through
<1> QED
  BY <1>1 DEF RateInv, KeysOutlive

-----------------------------------------------------------------------------
(* Onboarding *)

Signing == [op : {"rest", "save", "link"}, id : KakaoIds \cup {Nobody}, email : Emails \cup {Nobody}]

OnboardingTypes ==
    /\ email \in [UserIds -> Emails \cup {Nobody}]
    /\ hasPass \in [UserIds -> BOOLEAN]
    /\ account \in [KakaoIds -> UserIds \cup {Nobody}]
    /\ tokens \subseteq Token
    /\ signing \in [Attempts -> Signing]
    /\ \A a \in Attempts : /\ signing[a].op \in {"save", "link"} => signing[a].email \in Emails
                           /\ signing[a].op = "link" => signing[a].id \in KakaoIds
    /\ sessions \subseteq [user : UserIds, id : KakaoIds]

(* A Kakao account leads to a row that exists.                             *)
OnboardingInv ==
    /\ OnboardingTypes /\ OneIdentity
    /\ \A k \in KakaoIds : account[k] # Nobody => ~Fresh(account[k])

LEMMA OnboardingStart == OnboardingInit => OnboardingInv
BY OnboardingAssumption DEF OnboardingInit, OnboardingInv, OnboardingTypes, OneIdentity, Fresh,
   Signing, Rest, Doing

(* A request that leaves the tables alone.                                 *)
LEMMA OnlySigning ==
  ASSUME OnboardingInv, UNCHANGED <<email, hasPass, account>>,
         OnboardingTypes', sessions' = sessions \/ \E k \in KakaoIds :
            account[k] # Nobody /\ sessions' = sessions \cup {[user |-> account[k], id |-> k]}
  PROVE  OnboardingInv'
<1>1. \A u \in UserIds : Fresh(u)' <=> Fresh(u)
  BY DEF Fresh
<1>2. \A k \in KakaoIds : account[k] # Nobody => account[k] \in UserIds
  BY DEF OnboardingInv, OnboardingTypes
<1>3. \A s \in sessions' : account[s.id] = s.user /\ ~Fresh(s.user)
  BY <1>2 DEF OnboardingInv, OneIdentity
<1>4. \A s \in sessions' : s.user \in UserIds
  BY DEF OnboardingTypes
<1> QED
  BY <1>1, <1>2, <1>3, <1>4 DEF OnboardingInv, OneIdentity

LEMMA LooksInv ==
  ASSUME OnboardingInv, NEW a \in Attempts,
         \/ \E e \in Emails : SignUp(a, e)
         \/ KakaoRoutes(a) \/ SigningFails(a)
  PROVE  OnboardingInv'
<1> USE DEF OnboardingTypes, Then, Rest, Doing, Signing
<1>1. ASSUME NEW e \in Emails, SignUp(a, e) PROVE OnboardingInv'
  <2>1. OnboardingTypes' /\ UNCHANGED <<email, hasPass, account, sessions>>
    BY <1>1, OnboardingAssumption DEF SignUp, OnboardingInv
  <2> QED
    BY <2>1, OnlySigning
<1>2. ASSUME NEW k \in KakaoIds, NEW e \in Emails, KakaoLogin(a, k, e) PROVE OnboardingInv'
  <2>1. OnboardingTypes' /\ UNCHANGED <<email, hasPass, account>>
    BY <1>2 DEF KakaoLogin, OnboardingInv, Issue, Token
  <2> QED
    BY <1>2, <2>1, OnlySigning DEF KakaoLogin, Issue
<1>3. ASSUME NEW t \in Token, CompleteSignup(a, t) PROVE OnboardingInv'
  <2>1. t.id \in KakaoIds /\ t.email \in Emails
    BY DEF Token
  <2>2. OnboardingTypes' /\ UNCHANGED <<email, hasPass, account>>
    BY <1>3, <2>1 DEF CompleteSignup, OnboardingInv, Issue
  <2> QED
    BY <1>3, <2>1, <2>2, OnlySigning DEF CompleteSignup, Issue
<1>4. CASE SigningFails(a)
  <2>1. OnboardingTypes' /\ UNCHANGED <<email, hasPass, account, sessions>>
    BY <1>4 DEF SigningFails, OnboardingInv
  <2> QED
    BY <2>1, OnlySigning
<1> QED
  BY <1>1, <1>2, <1>3, <1>4 DEF KakaoRoutes

LEMMA SaveInv == ASSUME OnboardingInv, NEW a \in Attempts, NEW u \in UserIds, Save(a, u) PROVE OnboardingInv'
<1> PICK e : e = signing[a].email
  OBVIOUS
<1>1. e \in Emails /\ email[u] = Nobody /\ UNCHANGED <<account, tokens, sessions>>
  BY DEF Save, Fresh, OnboardingInv, OnboardingTypes
<1>2. signing' \in [Attempts -> Signing] /\ signing'[a] = Rest /\ \A b \in Attempts \ {a} : signing'[b] = signing[b]
  BY DEF Save, Then, Rest, Doing, Signing, OnboardingInv, OnboardingTypes
<1>3. CASE ~EmailFree(e)
  <2>1. OnboardingTypes' /\ UNCHANGED <<email, hasPass, account, sessions>>
    BY <1>1, <1>2, <1>3 DEF Save, OnboardingInv, OnboardingTypes, Rest, Doing
  <2> QED
    BY <2>1, OnlySigning
<1>4. CASE EmailFree(e)
  <2>1. email' = [email EXCEPT ![u] = e] /\ hasPass' = [hasPass EXCEPT ![u] = TRUE]
    BY <1>4 DEF Save
  <2>2. OnboardingTypes'
    BY <1>1, <1>2, <2>1 DEF OnboardingInv, OnboardingTypes, Rest, Doing
  <2>3. \A v \in UserIds : email[v] # e
    BY <1>4 DEF EmailFree, FindByEmail
  <2>4. /\ email'[u] = e /\ hasPass'[u] = TRUE
        /\ \A v \in UserIds \ {u} : email'[v] = email[v] /\ hasPass'[v] = hasPass[v]
    BY <2>1 DEF OnboardingInv, OnboardingTypes
  <2>5. \A v \in UserIds : email[v] # Nobody => email'[v] # Nobody
    BY <1>1, <2>4, OnboardingAssumption
  <2>6. \A v, w \in UserIds : email'[v] # Nobody /\ email'[v] = email'[w] => v = w
    BY <2>3, <2>4 DEF OnboardingInv, OneIdentity
  <2>7. ASSUME NEW v \in UserIds, email'[v] # Nobody PROVE hasPass'[v] \/ \E k \in KakaoIds : account'[k] = v
    <3>1. CASE v = u
      BY <2>4, <3>1
    <3>2. CASE v # u
      BY <1>1, <2>4, <2>7, <3>2 DEF OnboardingInv, OneIdentity
    <3> QED
      BY <3>1, <3>2
  <2>8. ASSUME NEW k \in KakaoIds, account'[k] # Nobody PROVE email'[account'[k]] # Nobody
    <3>1. account'[k] = account[k] /\ account[k] \in UserIds /\ email[account[k]] # Nobody
      BY <1>1, <2>8 DEF OnboardingInv, OnboardingTypes, Fresh
    <3> QED
      BY <2>5, <3>1 DEF Fresh
  <2>9. ASSUME NEW s \in sessions' PROVE account'[s.id] = s.user /\ email'[s.user] # Nobody
    <3>1. s.user \in UserIds /\ account[s.id] = s.user /\ email[s.user] # Nobody
      BY <1>1 DEF OnboardingInv, OnboardingTypes, OneIdentity, Fresh
    <3> QED
      BY <1>1, <2>5, <3>1 DEF Fresh
  <2>10. \A j, k \in KakaoIds : account'[j] # Nobody /\ account'[j] = account'[k] => j = k
    BY <1>1 DEF OnboardingInv, OneIdentity
  <2> QED
    BY <2>2, <2>6, <2>7, <2>8, <2>9, <2>10 DEF OnboardingInv, OneIdentity, Fresh
<1> QED
  BY <1>3, <1>4

LEMMA SaveWithAccountInv ==
  ASSUME OnboardingInv, NEW a \in Attempts, NEW u \in UserIds, SaveWithAccount(a, u)
  PROVE  OnboardingInv'
<1> PICK e : e = signing[a].email
  OBVIOUS
<1> PICK k : k = signing[a].id
  OBVIOUS
<1>1. e \in Emails /\ k \in KakaoIds /\ email[u] = Nobody /\ UNCHANGED <<hasPass, tokens>>
  BY DEF SaveWithAccount, Fresh, OnboardingInv, OnboardingTypes
<1>2. signing' \in [Attempts -> Signing] /\ signing'[a] = Rest /\ \A b \in Attempts \ {a} : signing'[b] = signing[b]
  BY DEF SaveWithAccount, Then, Rest, Doing, Signing, OnboardingInv, OnboardingTypes
<1>3. CASE ~(EmailFree(e) /\ KakaoIdFree(k))
  <2>1. OnboardingTypes' /\ UNCHANGED <<email, hasPass, account, sessions>>
    BY <1>1, <1>2, <1>3 DEF SaveWithAccount, Nested, OnboardingInv, OnboardingTypes, Rest, Doing
  <2> QED
    BY <2>1, OnlySigning
<1>4. CASE EmailFree(e) /\ KakaoIdFree(k)
  <2>1. /\ email' = [email EXCEPT ![u] = e] /\ account' = [account EXCEPT ![k] = u]
        /\ sessions' = sessions \cup {[user |-> u, id |-> k]}
    BY <1>4 DEF SaveWithAccount, Nested, Issue
  <2>2. OnboardingTypes'
    BY <1>1, <1>2, <2>1 DEF OnboardingInv, OnboardingTypes, Rest, Doing
  <2>3. account[k] = Nobody /\ \A v \in UserIds : email[v] # e
    BY <1>4 DEF EmailFree, KakaoIdFree, FindByEmail
  <2>4. /\ email'[u] = e /\ account'[k] = u
        /\ \A v \in UserIds \ {u} : email'[v] = email[v]
        /\ \A j \in KakaoIds \ {k} : account'[j] = account[j]
    BY <1>1, <2>1 DEF OnboardingInv, OnboardingTypes
  <2>5. \A j \in KakaoIds : account[j] # u
    BY <1>1, OnboardingAssumption DEF OnboardingInv, Fresh
  <2>6. \A v, w \in UserIds : email'[v] # Nobody /\ email'[v] = email'[w] => v = w
    BY <2>3, <2>4 DEF OnboardingInv, OneIdentity
  <2>7. ASSUME NEW v \in UserIds, email'[v] # Nobody PROVE hasPass'[v] \/ \E j \in KakaoIds : account'[j] = v
    <3>1. CASE v = u
      BY <1>1, <2>4, <3>1
    <3>2. CASE v # u
      <4>1. hasPass[v] \/ \E j \in KakaoIds : account[j] = v
        BY <2>4, <2>7, <3>2 DEF OnboardingInv, OneIdentity
      <4>2. ASSUME NEW j \in KakaoIds, account[j] = v PROVE account'[j] = v
        BY <2>3, <2>4, <4>2, OnboardingAssumption
      <4>3. hasPass' = hasPass
        BY <1>1
      <4> QED
        BY <4>1, <4>2, <4>3
    <3> QED
      BY <3>1, <3>2
  <2>8. \A v \in UserIds : email[v] # Nobody => email'[v] # Nobody
    BY <1>1, <2>4
  <2>9. ASSUME NEW j \in KakaoIds, account'[j] # Nobody PROVE email'[account'[j]] # Nobody
    <3>1. CASE j = k
      BY <1>1, <2>4, <3>1, OnboardingAssumption DEF Fresh
    <3>2. CASE j # k
      <4>1. account'[j] = account[j] /\ account[j] \in UserIds /\ email[account[j]] # Nobody
        BY <2>4, <2>9, <3>2 DEF OnboardingInv, OnboardingTypes, Fresh
      <4> QED
        BY <2>8, <4>1 DEF Fresh
    <3> QED
      BY <3>1, <3>2
  <2>10. ASSUME NEW s \in sessions' PROVE account'[s.id] = s.user /\ email'[s.user] # Nobody
    <3>1. CASE s = [user |-> u, id |-> k]
      BY <1>1, <2>4, <3>1, OnboardingAssumption DEF Fresh
    <3>2. CASE s \in sessions
      <4>1. s.user \in UserIds /\ s.id \in KakaoIds /\ account[s.id] = s.user /\ email[s.user] # Nobody
        BY <3>2 DEF OnboardingInv, OnboardingTypes, OneIdentity, Fresh
      <4>2. s.id # k
        BY <2>3, <4>1, OnboardingAssumption
      <4> QED
        BY <2>4, <2>8, <4>1, <4>2 DEF Fresh
    <3> QED
      BY <2>1, <3>1, <3>2
  <2>11. \A i, j \in KakaoIds : account'[i] # Nobody /\ account'[i] = account'[j] => i = j
    BY <2>4, <2>5 DEF OnboardingInv, OneIdentity
  <2> QED
    BY <2>2, <2>6, <2>7, <2>9, <2>10, <2>11 DEF OnboardingInv, OneIdentity, Fresh
<1> QED
  BY <1>3, <1>4

LEMMA OnboardingStep == OnboardingInv /\ [OnboardingNext]_onboardingVars => OnboardingInv'
<1> SUFFICES ASSUME OnboardingInv, [OnboardingNext]_onboardingVars PROVE OnboardingInv'
  OBVIOUS
<1>1. CASE UNCHANGED onboardingVars
  <2>1. OnboardingTypes' /\ UNCHANGED <<email, hasPass, account, sessions>>
    BY <1>1 DEF onboardingVars, OnboardingInv, OnboardingTypes
  <2> QED
    BY <2>1, OnlySigning
<1>2. ASSUME NEW a \in Attempts, (\E e \in Emails : SignUp(a, e)) \/ KakaoRoutes(a) \/ SigningFails(a)
      PROVE  OnboardingInv'
  BY <1>2, LooksInv
<1>3. ASSUME NEW a \in Attempts, NEW u \in UserIds, Save(a, u) \/ SaveWithAccount(a, u) PROVE OnboardingInv'
  BY <1>3, SaveInv, SaveWithAccountInv
<1>4. ASSUME NEW t \in Token, TokenExpires(t) PROVE OnboardingInv'
  <2>1. OnboardingTypes' /\ UNCHANGED <<email, hasPass, account, sessions>>
    BY <1>4 DEF TokenExpires, OnboardingInv, OnboardingTypes
  <2> QED
    BY <2>1, OnlySigning
<1> QED
  BY <1>1, <1>2, <1>3, <1>4 DEF OnboardingNext

-----------------------------------------------------------------------------
(* The Kakao client *)

LEMMA ConfigFacts ==
  /\ MaxRetries \in Nat /\ Queue \in Nat
  /\ Threshold \in Nat \ {0} /\ Slots \in Nat \ {0}
BY KakaoAssumption DEF ConfigValid

Ended == {"idle", "done", "unavailable", "refused"}

LoginType == [calling : {"none", "token", "profile"}, where : Ended \cup {"breaker", "queue", "kakao"}]

KakaoTypes ==
    /\ login \in [Logins -> LoginType]
    /\ calls \in [Logins -> [{"token", "profile"} -> Nat]]
    /\ circuit \in {"closed", "open", "half"} /\ failures \in 0..Threshold
    /\ probe \subseteq Logins
    /\ blamed \subseteq Logins \X (1..MaxRetries + 1) /\ IsFiniteSet(blamed)
    /\ openedBy \subseteq Logins /\ IsFiniteSet(openedBy)

(* How many calls a login has sent, where it stands.                       *)
CallsSound(p) ==
    /\ login[p].calling = "none" <=> login[p].where \in Ended
    /\ login[p].where = "idle" => calls[p]["token"] = 0 /\ calls[p]["profile"] = 0
    /\ login[p].calling = "token" =>
        /\ calls[p]["profile"] = 0
        /\ calls[p]["token"] = IF login[p].where = "kakao" THEN 1 ELSE 0
    /\ login[p].calling = "profile" =>
        IF login[p].where = "kakao" THEN calls[p]["profile"] > 0 ELSE calls[p]["profile"] <= MaxRetries
    /\ calls[p]["token"] <= 1 /\ calls[p]["profile"] <= MaxRetries + 1

(* The most failures a login has behind it since its last success.         *)
Own(p) ==
    IF login[p].calling = "profile"
    THEN IF login[p].where = "kakao" THEN calls[p]["profile"] - 1 ELSE calls[p]["profile"]
    ELSE IF login[p].where \in Ended \ {"idle"} THEN MaxRetries + 1 ELSE 0

(* Each failure the breaker counted is an attempt of its own, already      *)
(* behind its login.                                                       *)
BlameSound ==
    /\ failures <= Cardinality(blamed)
    /\ \A f \in blamed : f[2] <= Own(f[1])

(* Logins enough to reach the threshold.                                   *)
Enough(logins) == Cardinality(logins) * (MaxRetries + 1) >= Threshold

Inside(p) == login[p].where \in {"kakao", "queue"}

ProbeSound ==
    /\ \A p \in probe : Inside(p)
    /\ circuit = "half" => probe # {}
    /\ probe # {} => Enough(openedBy)

BulkheadSound ==
    /\ IsFiniteSet(Waiting("kakao")) /\ Cardinality(Waiting("kakao")) <= Slots
    /\ IsFiniteSet(Waiting("queue")) /\ Cardinality(Waiting("queue")) <= Queue
    /\ circuit = "open" => ~BulkheadFull

KakaoInv ==
    /\ KakaoTypes /\ (\A p \in Logins : CallsSound(p)) /\ BlameSound
    /\ ProbeSound /\ BulkheadSound /\ OpeningTakesLogins

LEMMA KakaoStart == KakaoInit => KakaoInv
<1> SUFFICES ASSUME KakaoInit PROVE KakaoInv
  OBVIOUS
<1> USE ConfigFacts DEF KakaoInit
<1>1. IsFiniteSet({}) /\ Cardinality({}) = 0
  BY FS_EmptySet
<1>2. \A p \in Logins : login[p] = Idle
  OBVIOUS
<1>3. Waiting("kakao") = {} /\ Waiting("queue") = {}
  BY <1>2 DEF Waiting, Idle, At
<1>4. calls \in [Logins -> [{"token", "profile"} -> Nat]]
      /\ \A p \in Logins : calls[p]["token"] = 0 /\ calls[p]["profile"] = 0
  OBVIOUS
<1>5. KakaoTypes
  BY <1>1, <1>4 DEF KakaoTypes, LoginType, Ended, Idle, At
<1>6. ASSUME NEW p \in Logins PROVE CallsSound(p)
  BY <1>2, <1>4 DEF CallsSound, Ended, Idle, At
<1>7. BlameSound
  BY <1>1 DEF BlameSound
<1>8. ProbeSound /\ BulkheadSound /\ OpeningTakesLogins
  BY <1>1, <1>3 DEF ProbeSound, BulkheadSound, OpeningTakesLogins
<1> QED
  BY <1>5, <1>6, <1>7, <1>8 DEF KakaoInv

(* Who waits where after one login has moved.                              *)
LEMMA Moves ==
  ASSUME KakaoTypes, NEW p \in Logins, NEW l \in LoginType, Becomes(p, l)
  PROVE  /\ login' \in [Logins -> LoginType] /\ login'[p] = l
         /\ \A q \in Logins \ {p} : login'[q] = login[q]
         /\ \A w : w = l.where => Waiting(w)' = Waiting(w) \cup {p}
         /\ \A w : w # l.where => Waiting(w)' = Waiting(w) \ {p}
<1>1. login' \in [Logins -> LoginType] /\ login'[p] = l /\ \A q \in Logins \ {p} : login'[q] = login[q]
  BY DEF Becomes, KakaoTypes
<1>2. ASSUME NEW w PROVE /\ w = l.where => Waiting(w)' = Waiting(w) \cup {p}
                         /\ w # l.where => Waiting(w)' = Waiting(w) \ {p}
  BY <1>1 DEF Waiting
<1> QED
  BY <1>1, <1>2

(* One call more, on one login.                                            *)
LEMMA Sends ==
  ASSUME KakaoTypes, NEW p \in Logins, Send(p), login[p].calling \in {"token", "profile"}
  PROVE  /\ calls' \in [Logins -> [{"token", "profile"} -> Nat]]
         /\ \A q \in Logins \ {p} : calls'[q] = calls[q]
         /\ calls'[p]["token"] = calls[p]["token"] + IF login[p].calling = "token" THEN 1 ELSE 0
         /\ calls'[p]["profile"] = calls[p]["profile"] + IF login[p].calling = "profile" THEN 1 ELSE 0
<1> PICK c \in {"token", "profile"} : c = login[p].calling
  OBVIOUS
<1> PICK n \in [{"token", "profile"} -> Nat] : n = calls[p]
  BY DEF KakaoTypes
<1> PICK r : r = OneMore(n, c)
  OBVIOUS
<1>1. n[c] + 1 \in Nat /\ r = [n EXCEPT ![c] = n[c] + 1]
  BY DEF OneMore
<1>2. r \in [{"token", "profile"} -> Nat] /\ r[c] = n[c] + 1
      /\ \A d \in {"token", "profile"} : d # c => r[d] = n[d]
  BY <1>1
<1>3. calls' = [calls EXCEPT ![p] = r]
  BY DEF Send
<1>4. calls' \in [Logins -> [{"token", "profile"} -> Nat]] /\ calls'[p] = r
      /\ \A q \in Logins \ {p} : calls'[q] = calls[q]
  BY <1>2, <1>3 DEF KakaoTypes
<1> QED
  BY <1>1, <1>2, <1>4

(* Steps after which a login has no failure more, and those that are one.  *)
Passing(p) ==
    \/ ExchangeAndFetch(p) \/ Admit(p) \/ BulkheadRejects(p) \/ BreakerRejects(p)
    \/ Probe(p) \/ Dequeue(p) \/ FailsForGood(p)
    \/ BudgetExpires(p) /\ login[p].where = "breaker"

Failing(p) == FailsTransiently(p) \/ (BudgetExpires(p) /\ login[p].where # "breaker")

(* What a step of a login does to it and to the number of its calls.       *)
Moved(p, l) ==
    /\ Becomes(p, l) /\ l \in LoginType
    /\ calls' \in [Logins -> [{"token", "profile"} -> Nat]]
    /\ \A q \in Logins \ {p} : calls'[q] = calls[q]
    /\ CallsSound(p)' /\ Own(p)' \in Nat
    /\ Passing(p) => Own(p)' >= Own(p)
    /\ Failing(p) => Own(p)' >= Own(p) + 1

LEMMA Enters ==
  ASSUME KakaoInv, NEW p \in Logins, login[p].where = "breaker", EnterBulkhead(p)
  PROVE  /\ login[p].calling \in {"token", "profile"}
         /\ \E w \in {"kakao", "queue"} : Moved(p, [login[p] EXCEPT !.where = w])
<1> USE ConfigFacts
<1>1. /\ login[p] \in LoginType /\ login[p].calling \in {"token", "profile"}
      /\ calls[p]["token"] \in Nat /\ calls[p]["profile"] \in Nat
      /\ CallsSound(p) /\ KakaoTypes
  BY DEF KakaoInv, KakaoTypes, LoginType, CallsSound, Ended
<1>2. ~Failing(p)
  BY DEF Failing, FailsTransiently
<1>3. CASE Becomes(p, [login[p] EXCEPT !.where = "kakao"]) /\ Send(p)
  <2> PICK l : l = [login[p] EXCEPT !.where = "kakao"]
    OBVIOUS
  <2>1. l \in LoginType /\ l.calling = login[p].calling /\ l.where = "kakao" /\ login'[p] = l
    BY <1>1, <1>3 DEF LoginType, Becomes, KakaoTypes
  <2>2. CallsSound(p)' /\ Own(p)' \in Nat /\ Own(p)' = Own(p)
    BY <1>1, <1>3, <2>1, Sends DEF CallsSound, Own, Ended
  <2>3. Moved(p, l)
    BY <1>1, <1>2, <1>3, <2>1, <2>2, Sends DEF Moved
  <2> QED
    BY <1>1, <2>3
<1>4. CASE Becomes(p, [login[p] EXCEPT !.where = "queue"]) /\ UNCHANGED calls
  <2> PICK l : l = [login[p] EXCEPT !.where = "queue"]
    OBVIOUS
  <2>1. l \in LoginType /\ l.calling = login[p].calling /\ l.where = "queue" /\ login'[p] = l
    BY <1>1, <1>4 DEF LoginType, Becomes, KakaoTypes
  <2>2. CallsSound(p)' /\ Own(p)' \in Nat /\ Own(p)' = Own(p)
    BY <1>1, <1>4, <2>1 DEF CallsSound, Own, Ended
  <2>3. Moved(p, l)
    BY <1>1, <1>2, <1>4, <2>1, <2>2 DEF Moved, KakaoTypes
  <2> QED
    BY <1>1, <2>3
<1> QED
  BY <1>3, <1>4 DEF EnterBulkhead

LEMMA Dequeues ==
  ASSUME KakaoInv, NEW p \in Logins, Dequeue(p)
  PROVE  Moved(p, [login[p] EXCEPT !.where = "kakao"])
<1> USE ConfigFacts
<1> PICK l : l = [login[p] EXCEPT !.where = "kakao"]
  OBVIOUS
<1>1. /\ login[p] \in LoginType /\ login[p].calling \in {"token", "profile"}
      /\ calls[p]["token"] \in Nat /\ calls[p]["profile"] \in Nat
      /\ CallsSound(p) /\ KakaoTypes /\ login[p].where = "queue" /\ Becomes(p, l) /\ Send(p)
  BY DEF KakaoInv, KakaoTypes, LoginType, CallsSound, Ended, Dequeue
<1>2. ~Failing(p)
  BY <1>1 DEF Failing, FailsTransiently, Dequeue, BudgetExpires, Becomes, Unavailable, At, KakaoTypes, LoginType
<1>3. l \in LoginType /\ l.calling = login[p].calling /\ l.where = "kakao" /\ login'[p] = l
  BY <1>1 DEF LoginType, Becomes, KakaoTypes
<1>4. CallsSound(p)' /\ Own(p)' \in Nat /\ Own(p)' = Own(p)
  BY <1>1, <1>3, Sends DEF CallsSound, Own, Ended
<1> QED
  BY <1>1, <1>2, <1>3, <1>4, Sends DEF Moved

(* A login that does not go into the bulkhead: it starts, leaves or ends.  *)
LEMMA Leaves ==
  ASSUME KakaoInv, NEW p \in Logins,
         \/ ExchangeAndFetch(p) \/ BulkheadRejects(p) \/ BreakerRejects(p)
         \/ Succeeds(p) \/ FailsTransiently(p) \/ FailsForGood(p) \/ BudgetExpires(p)
  PROVE  \E l \in LoginType : Moved(p, l) /\ l.where \notin {"kakao", "queue"}
<1> USE ConfigFacts
<1>1. /\ login[p] \in LoginType
      /\ calls[p]["token"] \in Nat /\ calls[p]["profile"] \in Nat
      /\ CallsSound(p) /\ KakaoTypes
  BY DEF KakaoInv, KakaoTypes
<1>2. PICK l : /\ Becomes(p, l) /\ UNCHANGED calls
               /\ \/ login[p] = Idle /\ l = At("token", "breaker") /\ ExchangeAndFetch(p)
                  \/ l = Unavailable /\ login[p].where = "breaker"
                  \/ l = At("profile", "breaker") /\ login[p] = At("token", "kakao") /\ Succeeds(p)
                  \/ l = At("none", "done") /\ login[p].calling # "token" /\ login[p].where = "kakao" /\ Succeeds(p)
                  \/ l = At("profile", "breaker") /\ login[p].calling = "profile" /\ login[p].where = "kakao"
                     /\ calls[p]["profile"] <= MaxRetries
                  \/ l = Unavailable /\ login[p].where = "kakao"
                  \/ l = Refused /\ login[p].where = "kakao"
                  \/ l = Unavailable /\ login[p].calling = "profile"
  <2>1. CASE ExchangeAndFetch(p)
    BY <2>1 DEF ExchangeAndFetch
  <2>2. CASE BulkheadRejects(p) \/ BreakerRejects(p)
    BY <2>2 DEF BulkheadRejects, BreakerRejects
  <2>3. CASE Succeeds(p) /\ login[p].calling = "token"
    <3>1. login[p] = At("token", "kakao")
      BY <1>1, <2>3 DEF Succeeds, LoginType, At
    <3> QED
      BY <2>3, <3>1 DEF Succeeds
  <2>4. CASE Succeeds(p) /\ login[p].calling # "token"
    BY <2>4 DEF Succeeds
  <2>5. CASE FailsTransiently(p) /\ MayRetry(p)
    BY <2>5 DEF FailsTransiently, MayRetry
  <2>6. CASE FailsTransiently(p) /\ ~MayRetry(p)
    BY <2>6 DEF FailsTransiently
  <2>7. CASE FailsForGood(p)
    BY <2>7 DEF FailsForGood
  <2>8. CASE BudgetExpires(p)
    BY <2>8 DEF BudgetExpires
  <2> QED
    BY <2>1, <2>2, <2>3, <2>4, <2>5, <2>6, <2>7, <2>8
<1>3. l \in LoginType /\ l.where \notin {"kakao", "queue"}
  BY <1>2 DEF At, Unavailable, Refused, LoginType, Ended
<1>4. login'[p] = l /\ calls'[p] = calls[p]
  BY <1>1, <1>2 DEF Becomes, KakaoTypes
<1>5. CallsSound(p)' /\ Own(p)' \in Nat
  BY <1>1, <1>2, <1>4 DEF CallsSound, Own, At, Idle, Unavailable, Refused, Ended, LoginType
<1>6. /\ Own(p) \in Nat /\ Own(p) <= MaxRetries + 1
      /\ login[p].calling = "profile" => Own(p) + 1 <= MaxRetries + 1
      /\ login[p].where = "kakao" => Own(p) + 1 <= MaxRetries + 1
      /\ login'[p] = Unavailable \/ login'[p] = Refused => Own(p)' = MaxRetries + 1
  <2>1. /\ Own(p) \in Nat /\ Own(p) <= MaxRetries + 1
        /\ login[p].calling = "profile" => Own(p) + 1 <= MaxRetries + 1
        /\ login[p].where = "kakao" => Own(p) + 1 <= MaxRetries + 1
    BY <1>1 DEF CallsSound, Own, LoginType, Ended
  <2> QED
    BY <2>1 DEF Own, At, Unavailable, Refused, Ended
<1>7. ASSUME Passing(p) PROVE Own(p)' >= Own(p)
  <2>1. CASE BulkheadRejects(p) \/ BreakerRejects(p) \/ BudgetExpires(p) \/ FailsForGood(p)
    <3>1. login'[p] = Unavailable \/ login'[p] = Refused
      BY <1>1, <2>1 DEF BulkheadRejects, BreakerRejects, BudgetExpires, FailsForGood, Becomes, KakaoTypes
    <3> QED
      BY <1>6, <3>1
  <2>2. CASE ExchangeAndFetch(p)
    <3>1. Own(p) = 0
      BY <2>2 DEF ExchangeAndFetch, Own, Idle, At, Ended
    <3> QED
      BY <1>5, <3>1
  <2>3. CASE Admit(p) \/ Probe(p) \/ Dequeue(p)
    <3>1. \/ Becomes(p, [login[p] EXCEPT !.where = "kakao"])
          \/ Becomes(p, [login[p] EXCEPT !.where = "queue"])
      BY <2>3 DEF Admit, Probe, Dequeue, EnterBulkhead
    <3>2. login'[p].where \in {"kakao", "queue"}
      BY <1>1, <3>1 DEF Becomes, KakaoTypes, LoginType
    <3> QED
      BY <1>3, <1>4, <3>2
  <2> QED
    BY <1>7, <2>1, <2>2, <2>3 DEF Passing
<1>8. ASSUME Failing(p) PROVE Own(p)' >= Own(p) + 1
  <2>1. CASE BudgetExpires(p)
    <3>1. login'[p] = Unavailable /\ login[p].calling = "profile"
      BY <1>1, <2>1 DEF BudgetExpires, Becomes, KakaoTypes
    <3> QED
      BY <1>6, <3>1
  <2>2. CASE FailsTransiently(p) /\ ~MayRetry(p)
    <3>1. login'[p] = Unavailable /\ login[p].where = "kakao"
      BY <1>1, <2>2 DEF FailsTransiently, Becomes, KakaoTypes
    <3> QED
      BY <1>6, <3>1
  <2>3. CASE FailsTransiently(p) /\ MayRetry(p)
    <3>1. login'[p] = At("profile", "breaker") /\ login[p].where = "kakao" /\ login[p].calling = "profile"
      BY <1>1, <2>3 DEF FailsTransiently, Becomes, KakaoTypes, MayRetry
    <3> QED
      BY <1>1, <1>4, <3>1 DEF Own, At
  <2> QED
    BY <1>8, <2>1, <2>2, <2>3 DEF Failing
<1> QED
  BY <1>1, <1>2, <1>3, <1>5, <1>7, <1>8 DEF Moved, KakaoTypes

LEMMA EveryStepMoves ==
  ASSUME KakaoInv, NEW p \in Logins, Passing(p) \/ Failing(p) \/ Succeeds(p)
  PROVE  \E l \in LoginType : Moved(p, l)
<1>1. ASSUME Admit(p) \/ Probe(p) PROVE \E l \in LoginType : Moved(p, l)
  <2>1. PICK w \in {"kakao", "queue"} : Moved(p, [login[p] EXCEPT !.where = w])
    BY <1>1, Enters DEF Admit, Probe
  <2> QED
    BY <2>1 DEF Moved
<1>2. ASSUME Dequeue(p) PROVE \E l \in LoginType : Moved(p, l)
  BY <1>2, Dequeues DEF Moved
<1> QED
  BY <1>1, <1>2, Leaves DEF Passing, Failing

(* Moving one login leaves the others' calls and failures as they are.     *)
LEMMA OthersStay ==
  ASSUME KakaoInv, NEW p \in Logins, NEW l, Moved(p, l)
  PROVE  /\ \A q \in Logins : CallsSound(q)'
         /\ \A q \in Logins \ {p} : Own(q)' = Own(q) /\ login'[q] = login[q]
         /\ \A q \in Logins : Own(q) \in Nat /\ Own(q)' \in Nat /\ Own(q)' <= MaxRetries + 1
<1> USE ConfigFacts
<1>1. KakaoTypes /\ login'[p] = l /\ login' \in [Logins -> LoginType]
      /\ \A q \in Logins \ {p} : login'[q] = login[q] /\ calls'[q] = calls[q]
  BY Moves DEF Moved, KakaoInv
<1>2. \A q \in Logins \ {p} : CallsSound(q)' /\ Own(q)' = Own(q)
  BY <1>1 DEF KakaoInv, CallsSound, Own
<1>3. ASSUME NEW q \in Logins PROVE CallsSound(q)'
  BY <1>2 DEF Moved
<1>4. ASSUME NEW q \in Logins PROVE Own(q) \in Nat
  <2>1. CallsSound(q) /\ login[q] \in LoginType /\ calls[q]["profile"] \in Nat
    BY DEF KakaoInv, KakaoTypes
  <2> QED
    BY <2>1 DEF CallsSound, Own, LoginType, Ended
<1>5. ASSUME NEW q \in Logins PROVE Own(q)' \in Nat /\ Own(q)' <= MaxRetries + 1
  <2>1. CallsSound(q)' /\ login'[q] \in LoginType /\ calls'[q]["profile"] \in Nat
    BY <1>1, <1>3 DEF Moved
  <2> QED
    BY <2>1 DEF CallsSound, Own, LoginType, Ended
<1> QED
  BY <1>1, <1>2, <1>3, <1>4, <1>5

(* Failures of distinct attempts come from logins enough.                  *)
LEMMA FailuresTakeLogins ==
  ASSUME NEW F \in SUBSET (Logins \X (1..MaxRetries + 1)), IsFiniteSet(F),
         Cardinality(F) >= Threshold
  PROVE  IsFiniteSet(LoginsOf(F)) /\ LoginsOf(F) \subseteq Logins /\ Enough(LoginsOf(F))
<1> USE ConfigFacts
<1> DEFINE L == LoginsOf(F)
           A == 1..MaxRetries + 1
           first == [f \in F |-> f[1]]
<1>1. first \in Surjection(F, L) /\ L \subseteq Logins /\ F \subseteq L \X A
  BY DEF LoginsOf, Surjection
<1>2. IsFiniteSet(L)
  BY <1>1, FS_Surjection
<1>3. IsFiniteSet(A) /\ Cardinality(A) = MaxRetries + 1
  BY FS_Interval
<1> HIDE DEF L, A
<1>4. IsFiniteSet(L \X A) /\ Cardinality(L \X A) = Cardinality(L) * Cardinality(A)
  BY <1>2, <1>3, FS_Product
<1>5. Cardinality(F) <= Cardinality(L \X A)
  BY <1>1, <1>4, FS_Subset
<1>6. Cardinality(L) * (MaxRetries + 1) \in Nat /\ Cardinality(F) \in Nat
  BY <1>2, FS_CardinalityType
<1>7. Cardinality(L) * (MaxRetries + 1) >= Threshold
  BY <1>3, <1>4, <1>5, <1>6
<1> QED
  BY <1>1, <1>2, <1>7 DEF Enough, L

(* The breaker's books.                                                    *)
(* The attempt a failing login is at is the one after those behind it.     *)
LEMMA CountsAttempt ==
  ASSUME KakaoInv, NEW p \in Logins, Failing(p)
  PROVE  Attempt(p) = Own(p) + 1
<1>1. /\ login[p] \in LoginType /\ CallsSound(p)
      /\ calls[p]["token"] \in Nat /\ calls[p]["profile"] \in Nat
      /\ \/ login[p].where = "kakao"
         \/ login[p].calling = "profile"
  BY DEF KakaoInv, KakaoTypes, Failing, FailsTransiently, BudgetExpires
<1> QED
  BY <1>1 DEF Attempt, Own, CallsSound, LoginType, Ended

LEMMA BooksStep ==
  ASSUME KakaoInv, NEW p \in Logins, Passing(p) \/ Failing(p) \/ Succeeds(p)
  PROVE  KakaoTypes' /\ BlameSound' /\ OpeningTakesLogins' /\ (\A q \in Logins : CallsSound(q)')
         /\ (circuit # "closed" \/ Enough(openedBy) => Enough(openedBy)')
<1> USE ConfigFacts
<1> PICK l \in LoginType : Moved(p, l)
  BY EveryStepMoves
<1>1. /\ login' \in [Logins -> LoginType] /\ calls' \in [Logins -> [{"token", "profile"} -> Nat]]
      /\ KakaoTypes
  BY Moves DEF Moved, KakaoInv
<1>2. /\ failures \in Nat /\ failures <= Threshold
      /\ blamed \in SUBSET (Logins \X (1..MaxRetries + 1))
      /\ IsFiniteSet(blamed) /\ Cardinality(blamed) \in Nat
      /\ openedBy \subseteq Logins /\ IsFiniteSet(openedBy)
      /\ failures <= Cardinality(blamed) /\ \A f \in blamed : f[2] <= Own(f[1])
      /\ circuit # "closed" => Enough(openedBy)
  BY <1>1, FS_CardinalityType DEF KakaoTypes, KakaoInv, BlameSound, OpeningTakesLogins, Enough
<1> SUFFICES /\ KakaoTypes' /\ BlameSound'
             /\ circuit' # "closed" \/ Enough(openedBy) => Enough(openedBy)'
             /\ circuit # "closed" => Enough(openedBy)'
  BY OthersStay DEF OpeningTakesLogins, Enough
<1>3. CASE Passing(p)
  <2>1. UNCHANGED <<failures, blamed, openedBy>>
    BY <1>3 DEF Passing, ExchangeAndFetch, Admit, BulkheadRejects, BreakerRejects, Probe, Dequeue,
                FailsForGood, NotCounted, BudgetExpires, breakerVars
  <2>2. \A q \in Logins : Own(q)' >= Own(q) /\ Own(q) \in Nat /\ Own(q)' \in Nat
    BY <1>3, OthersStay DEF Moved
  <2>3. BlameSound'
    <3>1. \A f \in blamed : f[1] \in Logins /\ f[2] \in Nat
      BY <1>2
    <3> QED
      BY <1>2, <2>1, <2>2, <3>1 DEF BlameSound
  <2>4. circuit' # "closed" => circuit # "closed"
    BY <1>3 DEF Passing, ExchangeAndFetch, Admit, BulkheadRejects, BreakerRejects, Probe, Dequeue,
                FailsForGood, NotCounted, BudgetExpires, breakerVars
  <2>5. /\ circuit' \in {"closed", "open", "half"} /\ probe' \subseteq Logins
    BY <1>1, <1>3 DEF Passing, ExchangeAndFetch, Admit, BulkheadRejects, BreakerRejects, Probe, Dequeue,
                FailsForGood, NotCounted, BudgetExpires, breakerVars, KakaoTypes
  <2>6. Enough(openedBy) <=> Enough(openedBy)'
    BY <2>1 DEF Enough
  <2>7. KakaoTypes'
    BY <1>1, <2>1, <2>5 DEF KakaoTypes
  <2> QED
    BY <1>2, <2>3, <2>4, <2>6, <2>7
<1>4. CASE Succeeds(p)
  <2>1. /\ failures' = 0 /\ blamed' = {} /\ openedBy' = openedBy /\ probe' = probe \ {p}
        /\ circuit' = IF p \in probe THEN "closed" ELSE circuit
    BY <1>4 DEF Succeeds, CountSuccess
  <2>2. BlameSound'
    BY <2>1, FS_EmptySet DEF BlameSound
  <2>3. Enough(openedBy) <=> Enough(openedBy)'
    BY <2>1 DEF Enough
  <2>4. KakaoTypes'
    BY <1>1, <2>1, FS_EmptySet DEF KakaoTypes
  <2> QED
    BY <1>2, <2>1, <2>2, <2>3, <2>4
<1>5. CASE Failing(p)
  <2> PICK a : a = Own(p) + 1
    OBVIOUS
  <2> PICK n : n = IF failures < Threshold THEN failures + 1 ELSE failures
    OBVIOUS
  <2> DEFINE B == blamed \cup {<<p, a>>}
  <2>1. /\ Own(p)' >= a /\ Own(p) \in Nat /\ Own(p)' \in Nat /\ a \in 1..MaxRetries + 1
        /\ \A q \in Logins : Own(q)' >= Own(q) /\ Own(q) \in Nat /\ Own(q)' \in Nat
    <3>1. /\ Own(p)' >= Own(p) + 1 /\ Own(p)' <= MaxRetries + 1
          /\ \A q \in Logins : Own(q) \in Nat /\ Own(q)' \in Nat
          /\ \A q \in Logins \ {p} : Own(q)' = Own(q)
      BY <1>5, OthersStay DEF Moved
    <3> QED
      BY <3>1
  <2>2. CountFailure(p) /\ Attempt(p) = a
    BY <1>5, CountsAttempt DEF Failing, FailsTransiently, BudgetExpires
  <2>3. /\ failures' = n /\ blamed' = B /\ probe' = probe \ {p}
        /\ circuit' = IF p \in probe \/ n >= Threshold THEN "open" ELSE circuit
        /\ openedBy' = IF circuit = "closed" /\ n >= Threshold THEN LoginsOf(B) ELSE openedBy
    BY <2>2 DEF CountFailure, Opens
  <2>4. /\ n \in 0..Threshold /\ n <= failures + 1
    BY <1>2
  <2>5. /\ IsFiniteSet(B) /\ Cardinality(B) = Cardinality(blamed) + 1
        /\ B \in SUBSET (Logins \X (1..MaxRetries + 1))
    <3>1. <<p, a>> \notin blamed
      BY <1>2, <2>1
    <3>2. IsFiniteSet(B) /\ Cardinality(B) = Cardinality(blamed) + 1
      BY <1>2, <3>1, FS_AddElement
    <3>3. <<p, a>> \in Logins \X (1..MaxRetries + 1)
      BY <2>1
    <3> QED
      BY <1>2, <3>2, <3>3
  <2>6. n <= Cardinality(B)
    BY <1>2, <2>4, <2>5
  <2>7. BlameSound'
    <3>1. \A f \in blamed : f[1] \in Logins /\ f[2] \in Nat /\ f[2] <= Own(f[1])
      BY <1>2
    <3>2. \A f \in B : f[2] <= Own(f[1])'
      BY <2>1, <3>1
    <3> QED
      BY <2>3, <2>6, <3>2 DEF BlameSound
  <2>8. n >= Threshold => IsFiniteSet(LoginsOf(B)) /\ LoginsOf(B) \subseteq Logins /\ Enough(LoginsOf(B))
    <3> SUFFICES ASSUME n >= Threshold
                 PROVE  IsFiniteSet(LoginsOf(B)) /\ LoginsOf(B) \subseteq Logins /\ Enough(LoginsOf(B))
      OBVIOUS
    <3>1. Cardinality(B) >= Threshold
      BY <2>4, <2>6, <2>5, <1>2
    <3> HIDE DEF B
    <3> QED
      BY <2>5, <3>1, FailuresTakeLogins
  <2> HIDE DEF B
  <2>9. KakaoTypes'
    BY <1>1, <1>2, <2>3, <2>4, <2>5, <2>8 DEF KakaoTypes
  <2>10. p \in probe => Enough(openedBy)
    BY DEF KakaoInv, ProbeSound
  <2>11. /\ Enough(openedBy) \/ n >= Threshold => Enough(openedBy)'
    <3>1. CASE circuit = "closed" /\ n >= Threshold
      BY <2>3, <2>8, <3>1 DEF Enough
    <3>2. CASE ~(circuit = "closed" /\ n >= Threshold)
      <4>1. openedBy' = openedBy /\ Enough(openedBy)' <=> Enough(openedBy)
        BY <2>3, <3>2 DEF Enough
      <4> QED
        BY <1>2, <3>2, <4>1
    <3> QED
      BY <3>1, <3>2
  <2>12. circuit' # "closed" => Enough(openedBy)'
    BY <1>2, <2>3, <2>10, <2>11
  <2> QED
    BY <1>2, <2>7, <2>9, <2>11, <2>12
<1> QED
  BY <1>3, <1>4, <1>5

LEMMA ProbesStep ==
  ASSUME KakaoInv, NEW p \in Logins, Passing(p) \/ Failing(p) \/ Succeeds(p)
  PROVE  ProbeSound'
<1> PICK l \in LoginType : Moved(p, l)
  BY EveryStepMoves
<1>1. /\ KakaoTypes /\ login'[p] = l
      /\ \A q \in Logins \ {p} : login'[q] = login[q]
      /\ \A q \in probe : q \in Logins /\ Inside(q)
      /\ circuit = "half" => probe # {}
      /\ probe # {} \/ circuit # "closed" => Enough(openedBy)'
  BY Moves, BooksStep DEF Moved, KakaoInv, KakaoTypes, ProbeSound
<1>2. ASSUME NEW q \in probe \ {p} PROVE Inside(q)'
  BY <1>1 DEF Inside
<1>3. CASE Probe(p)
  <2>1. circuit = "open" /\ probe' = probe \cup {p}
    BY <1>3 DEF Probe
  <2>2. Inside(p)'
    <3>1. \E w \in {"kakao", "queue"} : Becomes(p, [login[p] EXCEPT !.where = w])
      BY <1>3 DEF Probe, EnterBulkhead
    <3> QED
      BY <1>1, <3>1 DEF Becomes, KakaoTypes, LoginType, Inside
  <2> QED
    BY <1>1, <1>2, <2>1, <2>2 DEF ProbeSound
<1>4. CASE Dequeue(p)
  <2>1. Inside(p)' /\ UNCHANGED <<circuit, probe>>
    BY <1>1, <1>4 DEF Dequeue, Becomes, KakaoTypes, LoginType, Inside, breakerVars
  <2> QED
    BY <1>1, <1>2, <2>1 DEF ProbeSound
<1>5. CASE /\ \/ ExchangeAndFetch(p) \/ Admit(p) \/ BulkheadRejects(p) \/ BreakerRejects(p)
              \/ BudgetExpires(p) /\ login[p].where = "breaker"
  <2>1. login[p].where \notin {"kakao", "queue"} /\ UNCHANGED <<circuit, probe>>
    BY <1>5 DEF ExchangeAndFetch, Admit, BulkheadRejects, BreakerRejects, BudgetExpires, Idle, At, breakerVars
  <2>2. p \notin probe
    BY <1>1, <2>1 DEF Inside
  <2> QED
    BY <1>1, <1>2, <2>1, <2>2 DEF ProbeSound
<1>6. CASE Succeeds(p) \/ FailsForGood(p) \/ Failing(p)
  <2>1. probe' = probe \ {p} /\ (circuit' = "half" => circuit = "half" /\ p \notin probe)
    BY <1>6 DEF Succeeds, CountSuccess, FailsForGood, NotCounted, Failing, FailsTransiently,
                BudgetExpires, CountFailure
  <2> QED
    BY <1>1, <1>2, <2>1 DEF ProbeSound
<1> QED
  BY <1>3, <1>4, <1>5, <1>6 DEF Passing

(* The bulkhead, counted.                                                  *)
LEMMA BulkheadStep ==
  ASSUME KakaoInv, NEW p \in Logins, Passing(p) \/ Failing(p) \/ Succeeds(p)
  PROVE  BulkheadSound'
<1> USE ConfigFacts
<1> DEFINE K == Waiting("kakao")
           Q == Waiting("queue")
<1>1. /\ KakaoTypes /\ IsFiniteSet(K) /\ IsFiniteSet(Q)
      /\ Cardinality(K) <= Slots /\ Cardinality(Q) <= Queue
      /\ Cardinality(K) \in Nat /\ Cardinality(Q) \in Nat
      /\ circuit = "open" => Cardinality(K) < Slots \/ Cardinality(Q) < Queue
  BY FS_CardinalityType DEF KakaoInv, BulkheadSound, BulkheadFull
<1>2. /\ p \in K <=> login[p].where = "kakao"
      /\ p \in Q <=> login[p].where = "queue"
  BY DEF Waiting
<1>3. SUFFICES /\ IsFiniteSet(K') /\ Cardinality(K') <= Slots
               /\ IsFiniteSet(Q') /\ Cardinality(Q') <= Queue
               /\ circuit' = "open" => ~BulkheadFull'
  BY DEF BulkheadSound
<1>4. CASE Admit(p) \/ Probe(p)
  <2>1. login[p].where = "breaker" /\ circuit' # "open" /\ EnterBulkhead(p)
    BY <1>4 DEF Admit, Probe, breakerVars
  <2>2. CASE Cardinality(K) < Slots /\ Becomes(p, [login[p] EXCEPT !.where = "kakao"])
    <3>1. K' = K \cup {p} /\ Q' = Q
      BY <1>1, <1>2, <2>1, <2>2 DEF Waiting, Becomes, KakaoTypes, LoginType
    <3> HIDE DEF K, Q
    <3>2. p \notin K
      BY <1>2, <2>1
    <3>3. IsFiniteSet(K \cup {p}) /\ Cardinality(K \cup {p}) = Cardinality(K) + 1
      BY <1>1, <3>2, FS_AddElement
    <3>4. IsFiniteSet(K') /\ Cardinality(K') <= Slots /\ IsFiniteSet(Q') /\ Cardinality(Q') <= Queue
      BY <1>1, <2>2, <3>1, <3>3
    <3> QED
      BY <2>1, <3>4
  <2>3. CASE Cardinality(Q) < Queue /\ Becomes(p, [login[p] EXCEPT !.where = "queue"])
    <3>1. K' = K /\ Q' = Q \cup {p}
      BY <1>1, <1>2, <2>1, <2>3 DEF Waiting, Becomes, KakaoTypes, LoginType
    <3> HIDE DEF K, Q
    <3>2. p \notin Q
      BY <1>2, <2>1
    <3>3. IsFiniteSet(Q \cup {p}) /\ Cardinality(Q \cup {p}) = Cardinality(Q) + 1
      BY <1>1, <3>2, FS_AddElement
    <3>4. IsFiniteSet(K') /\ Cardinality(K') <= Slots /\ IsFiniteSet(Q') /\ Cardinality(Q') <= Queue
      BY <1>1, <2>3, <3>1, <3>3
    <3> QED
      BY <2>1, <3>4
  <2> QED
    BY <2>1, <2>2, <2>3 DEF EnterBulkhead
<1>5. CASE Dequeue(p)
  <2>1. /\ login[p].where = "queue" /\ Cardinality(K) < Slots
        /\ Becomes(p, [login[p] EXCEPT !.where = "kakao"])
    BY <1>5 DEF Dequeue
  <2>2. K' = K \cup {p} /\ Q' = Q \ {p}
    BY <1>1, <1>2, <2>1 DEF Waiting, Becomes, KakaoTypes, LoginType
  <2> HIDE DEF K, Q
  <2>3. /\ IsFiniteSet(K') /\ Cardinality(K') <= Slots
        /\ IsFiniteSet(Q') /\ Cardinality(Q') = Cardinality(Q) - 1
    <3>1. p \notin K /\ p \in Q
      BY <1>2, <2>1
    <3>2. IsFiniteSet(K \cup {p}) /\ Cardinality(K \cup {p}) = Cardinality(K) + 1
      BY <1>1, <3>1, FS_AddElement
    <3>3. IsFiniteSet(Q \ {p}) /\ Cardinality(Q \ {p}) = Cardinality(Q) - 1
      BY <1>1, <3>1, FS_RemoveElement
    <3> QED
      BY <1>1, <2>1, <2>2, <3>2, <3>3
  <2> USE DEF K, Q
  <2>4. ~BulkheadFull'
    <3>1. ~(Cardinality(Q') >= Queue)
      BY <1>1, <2>3
    <3> QED
      BY <3>1 DEF BulkheadFull
  <2> QED
    BY <1>1, <2>3, <2>4
<1>6. CASE /\ \/ ExchangeAndFetch(p) \/ BulkheadRejects(p) \/ BreakerRejects(p)
              \/ Succeeds(p) \/ FailsForGood(p) \/ Failing(p)
              \/ BudgetExpires(p) /\ login[p].where = "breaker"
  <2>1. PICK l \in LoginType : Moved(p, l) /\ l.where \notin {"kakao", "queue"}
    BY <1>6, Leaves DEF Failing
  <2>2. K' = K \ {p} /\ Q' = Q \ {p}
    BY <1>1, <2>1, Moves DEF Moved
  <2>3. CASE login[p].where \notin {"kakao", "queue"}
    <3>1. circuit' = circuit
      BY <1>6, <2>3 DEF ExchangeAndFetch, BulkheadRejects, BreakerRejects, Succeeds, FailsForGood,
                        Failing, FailsTransiently, BudgetExpires, breakerVars, KakaoInv, KakaoTypes,
                        CallsSound, LoginType, Ended
    <3>2. K' = K /\ Q' = Q
      BY <1>2, <2>2, <2>3
    <3>3. BulkheadFull' <=> BulkheadFull
      BY <3>2 DEF BulkheadFull
    <3> QED
      BY <1>1, <3>1, <3>2, <3>3 DEF BulkheadFull
  <2>4. CASE login[p].where \in {"kakao", "queue"}
    <3> HIDE DEF K, Q
    <3>1. /\ IsFiniteSet(K') /\ Cardinality(K') = IF p \in K THEN Cardinality(K) - 1 ELSE Cardinality(K)
          /\ IsFiniteSet(Q') /\ Cardinality(Q') = IF p \in Q THEN Cardinality(Q) - 1 ELSE Cardinality(Q)
      BY <1>1, <2>2, FS_RemoveElement
    <3>2. Cardinality(K') < Slots \/ Cardinality(Q') < Queue
      BY <1>1, <1>2, <2>4, <3>1
    <3>3. Cardinality(K') <= Slots /\ Cardinality(Q') <= Queue /\ Cardinality(K') \in Nat /\ Cardinality(Q') \in Nat
      BY <1>1, <3>1, FS_CardinalityType
    <3>4. ~(Cardinality(K') >= Slots /\ Cardinality(Q') >= Queue)
      BY <3>2, <3>3
    <3> USE DEF K, Q
    <3>5. ~BulkheadFull'
      BY <3>4 DEF BulkheadFull
    <3> QED
      BY <3>1, <3>3, <3>5
  <2> QED
    BY <2>3, <2>4
<1> QED
  BY <1>4, <1>5, <1>6 DEF Passing

LEMMA KakaoStep == KakaoInv /\ [KakaoNext]_kakaoVars => KakaoInv'
<1> SUFFICES ASSUME KakaoInv, [KakaoNext]_kakaoVars PROVE KakaoInv'
  OBVIOUS
<1>1. CASE UNCHANGED kakaoVars
  BY <1>1 DEF kakaoVars, breakerVars, KakaoInv, KakaoTypes, CallsSound, BlameSound, Own, ProbeSound,
              Inside, BulkheadSound, BulkheadFull, Waiting, OpeningTakesLogins, Enough
<1>2. ASSUME NEW p \in Logins, Passing(p) \/ Failing(p) \/ Succeeds(p) PROVE KakaoInv'
  BY <1>2, BooksStep, ProbesStep, BulkheadStep DEF KakaoInv
<1> QED
  BY <1>1, <1>2 DEF KakaoNext, Passing, Failing

LEMMA KakaoPromises == KakaoInv => CallsBounded
<1> SUFFICES ASSUME KakaoInv PROVE CallsBounded
  OBVIOUS
<1>1. ASSUME NEW p \in Logins PROVE calls[p].token <= 1 /\ calls[p].profile <= MaxRetries + 1
  BY DEF KakaoInv, CallsSound
<1>2. circuit = "half" => \E p \in probe : login[p].where \in {"kakao", "queue"}
  BY DEF KakaoInv, ProbeSound, Inside
<1> QED
  BY <1>1, <1>2 DEF KakaoInv, BulkheadSound, CallsBounded

-----------------------------------------------------------------------------
(* Results *)

ServerInv == KakaoInv /\ OnboardingInv /\ RateInv

(* The strengthenings of the parts, together.                              *)
THEOREM Invariant == Spec => []ServerInv
<1>1. Init => ServerInv
  BY KakaoStart, OnboardingStart, RateStart DEF Init, ServerInv
<1>2. ServerInv /\ [Next]_vars => ServerInv'
  <2> SUFFICES ASSUME ServerInv, [Next]_vars PROVE ServerInv'
    OBVIOUS
  <2>1. [KakaoNext]_kakaoVars /\ [OnboardingNext]_onboardingVars /\ [RateLimitNext]_rateVars
    BY DEF Next, vars
  <2> QED
    BY <2>1, KakaoStep, OnboardingStep, RateStep DEF ServerInv
<1> QED
  BY <1>1, <1>2, PTL DEF Spec

(* The bounds on the calls to Kakao, and the room a probe needs, for any   *)
(* number of logins, retries, slots and places in the queue.               *)
THEOREM CallsAreBounded == Spec => []CallsBounded
<1>1. ServerInv => CallsBounded
  BY KakaoPromises DEF ServerInv
<1> QED
  BY <1>1, Invariant, PTL

(* Whatever the configuration, opening the circuit takes the failures of   *)
(* as many logins as reach the threshold with all their attempts: two at   *)
(* least if it is above the attempts of one, and one alone at equality     *)
(* (ConsecutiveBreaker under the retries, kakao-resilience.ts:182-221).    *)
THEOREM CircuitTakesLogins == Spec => []OpeningTakesLogins
<1>1. ServerInv => OpeningTakesLogins
  BY DEF ServerInv, KakaoInv
<1> QED
  BY <1>1, Invariant, PTL

(* Emails, users and Kakao accounts stay matched however the sign-ups and  *)
(* completions race.                                                       *)
THEOREM IdentitiesStaySingle == Spec => []OneIdentity
<1>1. ServerInv => OneIdentity
  BY DEF ServerInv, OnboardingInv
<1> QED
  BY <1>1, Invariant, PTL

(* Whatever the order of the hits, the clock and the failures, a route     *)
(* lets no more than its limit through for a key before the window is over *)
(* (RateLimitGuard's one check per key, FIXED_WINDOW_LUA's expiry).        *)
THEOREM WindowsAreLimited == Spec => []WindowLimited
<1>1. ServerInv => WindowLimited
  BY RatePromises DEF ServerInv
<1> QED
  BY <1>1, Invariant, PTL
=============================================================================
