-------------------------------- MODULE RateLimit --------------------------------
(***************************************************************************)
(* The rate limit: a global guard counts every write request per address   *)
(* and, when its token verifies, per user, in one Redis key per scope and  *)
(* window.  A route may have limits of its own, but counts in the keys all *)
(* routes share.  A request picks its window once and hits its keys one by *)
(* one, while others hit theirs and time passes.                           *)
(***************************************************************************)
EXTENDS Integers, Sequences

CONSTANTS Hits,         (* requests that reach the guard                    *)
          Ips, UserKeys,
          Routes,
          Limits,       (* ipMax and userMax of a route, the defaults       *)
                        (* of RATE_LIMIT_* or those of its decorator        *)
          WindowSec,    (* RATE_LIMIT_WINDOW_SEC, in ticks                  *)
          MaxTime       (* bound: ticks of the clock                        *)

ASSUME RateLimitAssumption ==
    /\ Ips \cap UserKeys = {}
    /\ WindowSec \in Nat \ {0} /\ MaxTime \in Nat
    /\ Limits \in [Routes -> [ip : Nat, user : Nat]]

VARIABLES
    clock,
    counts,    (* counter and time left of a key; none: no such key         *)
    checking,  (* a request in the guard: route, window and the keys to hit *)
    passed,    (* history: requests let through per route, key and window   *)
    answered   (* requests that have been through                           *)

rateVars == <<clock, counts, checking, passed, answered>>

Keys == Ips \cup UserKeys
Windows == 0..(MaxTime \div WindowSec)
NoKey == [count |-> 0, ttl |-> 0]
Checking(r, w, t) == [route |-> r, window |-> w, todo |-> t, keys |-> {t[n] : n \in DOMAIN t}]
Outside == Checking("none", 0, <<>>)

RateLimitInit ==
    /\ clock = 0
    /\ counts = [k \in Keys |-> [w \in Windows |-> NoKey]]
    /\ checking = [h \in Hits |-> Outside]
    /\ passed = [r \in Routes |-> [k \in Keys |-> [w \in Windows |-> 0]]]
    /\ answered = {}

Limit(r, k) == IF k \in Ips THEN Limits[r].ip ELSE Limits[r].user
Leave(h) == checking' = [checking EXCEPT ![h] = Outside] /\ answered' = answered \cup {h}

-----------------------------------------------------------------------------
(* Plausible defects, for the mutation runs *)

OneTooMany(r, k, n) == n > Limit(r, k) + 1

(* FIXED_WINDOW_LUA: INCR, and EXPIRE for the first of a window.           *)
Hit(c) == [count |-> c.count + 1, ttl |-> IF c.count = 0 THEN WindowSec ELSE c.ttl]

Exceeds(r, k, n) == n > Limit(r, k)

-----------------------------------------------------------------------------

(* The address is always counted, the user only if the token verifies.     *)
Checks == {<<i>> : i \in Ips} \cup {<<i, u>> : i \in Ips, u \in UserKeys}

CanActivate(h, r, keys) ==
    /\ h \notin answered /\ checking[h] = Outside
    /\ checking' = [checking EXCEPT ![h] = Checking(r, clock \div WindowSec, keys)]
    /\ UNCHANGED <<clock, counts, passed, answered>>

(* One hit; the first count over its limit rejects, the keys counted so    *)
(* far stay counted.  After the last one the request goes on.              *)
HitNext(h) ==
    /\ checking[h].todo # <<>>
    /\ LET c == checking[h]
           k == Head(c.todo)
           hit == Hit(counts[k][c.window])
       IN  /\ counts' = [counts EXCEPT ![k][c.window] = hit]
           /\ IF Exceeds(c.route, k, hit.count)
              THEN Leave(h) /\ UNCHANGED passed
              ELSE IF Tail(c.todo) # <<>>
              THEN /\ checking' = [checking EXCEPT ![h].todo = Tail(@)]
                   /\ UNCHANGED <<passed, answered>>
              ELSE /\ passed' = [r \in Routes |-> [x \in Keys |-> [w \in Windows |->
                        passed[r][x][w] + (IF r = c.route /\ x \in c.keys /\ w = c.window
                                           THEN 1 ELSE 0)]]]
                   /\ Leave(h)
    /\ UNCHANGED clock

(* Redis fails: the request is not let through.                            *)
HitFails(h) ==
    /\ checking[h].todo # <<>>
    /\ Leave(h)
    /\ UNCHANGED <<clock, counts, passed>>

(* A second passes; keys whose time is up are gone.                        *)
Aged(c) == IF c.ttl <= 1 THEN NoKey ELSE [c EXCEPT !.ttl = @ - 1]

ClockTicks ==
    /\ clock < MaxTime
    /\ clock' = clock + 1
    /\ counts' = [k \in Keys |-> [w \in Windows |-> Aged(counts[k][w])]]
    /\ UNCHANGED <<checking, passed, answered>>

RateLimitNext ==
    \/ \E h \in Hits, r \in Routes, t \in Checks : CanActivate(h, r, t)
    \/ \E h \in Hits : HitNext(h) \/ HitFails(h)
    \/ ClockTicks

-----------------------------------------------------------------------------
(* Properties *)

(* Until its window is over a route lets no more than its limit through    *)
(* for a key, whatever the order of the hits: the key lives at least as    *)
(* long as the window it was made in, and each key has an expiry.          *)
WindowLimited ==
    \A k \in Keys, w \in Windows :
        /\ w = clock \div WindowSec => \A r \in Routes : passed[r][k][w] <= Limit(r, k)
        /\ counts[k][w].count > 0 => counts[k][w].ttl > 0
=============================================================================
