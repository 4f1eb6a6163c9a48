----------------------------- MODULE LikeCounter -----------------------------
(***************************************************************************)
(* The like count of one post: PostLike rows in the database are the truth,*)
(* a Redis key is a derived count.  A write bumps the key after its commit *)
(* and only if the key is there; a read that misses counts the rows and    *)
(* fills the key, which alone sets its TTL.  Nothing invalidates the key,  *)
(* so writes, fills and expiry race, and the TTL is what heals the drift.  *)
(***************************************************************************)
EXTENDS Integers, FiniteSets

CONSTANTS Users,
          Requests,     (* requests in progress at the same time            *)
          NoUser,
          Missing,      (* the key does not exist                           *)
          TTL,          (* LIKE_COUNT_TTL_SEC, in ticks                     *)
          MaxToggles    (* bound: likes and unlikes that change a row       *)

ASSUME LikeCounterAssumption ==
    /\ IsFiniteSet(Users) /\ IsFiniteSet(Requests)
    /\ NoUser \notin Users /\ Missing \notin Int
    /\ TTL \in Nat \ {0}
    /\ MaxToggles \in Nat

VARIABLES
    deleted,     (* Post.deletedAt is set                                   *)
    liked,       (* users with a PostLike row                               *)
    counter,     (* value of the key                                        *)
    ttl,         (* ticks until the key expires; 0: it does not             *)
    op,          (* what each request does next                             *)
    who,         (* the user a like or unlike is for                        *)
    seen,        (* the COUNT a reader is about to fill in                  *)
    toggles,     (* rows inserted or removed so far                         *)
    age,         (* history: ticks since the key appeared                   *)
    counted,     (* history: requests whose bump is still to come though
                    the key has their write already                         *)
    slack,       (* history: writes the key has twice or will never have    *)
    knows,       (* history: as counted, of the COUNT a reader holds        *)
    readSlack    (* history: as slack, of the COUNT a reader holds          *)

keyVars == <<counter, ttl, age, counted, slack>>
rowVars == <<deleted, liked, toggles>>
readVars == <<seen, knows, readSlack>>
requestVars == <<op, who, readVars>>
vars == <<keyVars, rowVars, requestVars>>

Ops == {"idle", "like", "unlike", "incr", "decr", "get", "fill", "delete",
        "remove"}

(* The count a user sees is never negative.                                *)
CounterTypeOK ==
    /\ deleted \in BOOLEAN
    /\ liked \subseteq Users
    /\ counter \in Nat \cup {Missing}
    /\ ttl \in 0..TTL
    /\ op \in [Requests -> Ops]
    /\ who \in [Requests -> Users \cup {NoUser}]
    /\ seen \in [Requests -> Nat]
    /\ toggles \in 0..MaxToggles
    /\ age \in 0..TTL
    /\ counted \subseteq Requests /\ slack \in Nat
    /\ knows \in [Requests -> SUBSET Requests]
    /\ readSlack \in [Requests -> Nat]

Init ==
    /\ deleted = FALSE /\ liked = {} /\ toggles = 0
    /\ counter = Missing /\ ttl = 0 /\ age = 0
    /\ counted = {} /\ slack = 0
    /\ op = [p \in Requests |-> "idle"]
    /\ who = [p \in Requests |-> NoUser]
    /\ seen = [p \in Requests |-> 0]
    /\ knows = [p \in Requests |-> {}]
    /\ readSlack = [p \in Requests |-> 0]

-----------------------------------------------------------------------------
(* Plausible defects of the script below, for the mutation runs *)

BumpedUnclamped(d) == IF counter = Missing THEN Missing ELSE counter + d
TtlSlides(d) == IF counter = Missing THEN 0 ELSE TTL
TtlLostByClamp(d) == IF counter # Missing /\ counter + d < 0 THEN 0 ELSE ttl
BumpAnyway(p) ==
    /\ op' = [op EXCEPT ![p] = IF op[p] = "like" THEN "incr" ELSE "decr"]
    /\ who' = [who EXCEPT ![p] = NoUser]
    /\ UNCHANGED <<keyVars, rowVars, readVars>>

-----------------------------------------------------------------------------

(* INCRBY_IF_EXISTS: a missing key stays missing, the value stops at 0.    *)
Bumped(d) ==
    IF counter = Missing THEN Missing
    ELSE IF counter + d < 0 THEN 0 ELSE counter + d

(* INCRBY and SET KEEPTTL both leave the expiry alone.                     *)
TtlAfterBump(d) == ttl

Go(p, o, u) ==
    /\ op' = [op EXCEPT ![p] = o]
    /\ who' = [who EXCEPT ![p] = u]

NoRead(p) ==
    /\ seen' = [seen EXCEPT ![p] = 0]
    /\ knows' = [knows EXCEPT ![p] = {}]
    /\ readSlack' = [readSlack EXCEPT ![p] = 0]

(* The key goes: expiry, eviction or DEL.                                  *)
DropKey ==
    /\ counter' = Missing /\ ttl' = 0 /\ age' = 0
    /\ counted' = {} /\ slack' = 0

Pending == {q \in Requests : op[q] \in {"incr", "decr"}}

(* The bump of request p is over.  The key is off by one more write if the *)
(* bump was wrong or missed; a COUNT still to be filled in is, unless it   *)
(* had the write already, for it will never see this bump.                 *)
BumpOver(p, off) ==
    /\ counted' = counted \ {p}
    /\ slack' = IF counter # Missing /\ off THEN slack + 1 ELSE slack
    /\ knows' = [q \in Requests |-> knows[q] \ {p}]
    /\ readSlack' = [q \in Requests |->
                        IF op[q] = "fill" /\ p \notin knows[q] THEN readSlack[q] + 1
                        ELSE readSlack[q]]

-----------------------------------------------------------------------------
(* Like and unlike *)

(* findById saw the post, and the user is a member of its building.        *)
Begin(p, u) ==
    /\ op[p] = "idle" /\ ~deleted
    /\ Go(p, "like", u) \/ Go(p, "unlike", u)
    /\ UNCHANGED <<keyVars, rowVars, readVars>>

(* The row is inserted or removed and request p goes on to bump the key.   *)
Toggle(p, newLiked, bump) ==
    /\ toggles < MaxToggles
    /\ toggles' = toggles + 1
    /\ liked' = newLiked
    /\ Go(p, bump, NoUser)
    /\ UNCHANGED <<deleted, keyVars, readVars>>

(* The row is as wanted already: no event, no bump.                        *)
NoToggle(p) ==
    /\ Go(p, "get", NoUser)
    /\ UNCHANGED <<keyVars, rowVars, readVars>>

Like(p) ==
    /\ op[p] = "like"
    /\ \/ who[p] \notin liked /\ Toggle(p, liked \cup {who[p]}, "incr")
       \/ who[p] \in liked /\ NoToggle(p)

Unlike(p) ==
    /\ op[p] = "unlike"
    /\ \/ who[p] \in liked /\ Toggle(p, liked \ {who[p]}, "decr")
       \/ who[p] \notin liked /\ NoToggle(p)

(* A bump is wrong when the COUNT had its write already, and it misses when*)
(* it is stopped at 0.                                                     *)
Bump(p) ==
    /\ op[p] \in {"incr", "decr"}
    /\ LET d == IF op[p] = "incr" THEN 1 ELSE -1
           stopped == counter = 0 /\ d = -1
       IN  /\ counter' = Bumped(d) /\ ttl' = TtlAfterBump(d)
           /\ BumpOver(p, p \in counted <=> ~stopped)
    /\ Go(p, "get", NoUser)
    /\ UNCHANGED <<age, rowVars, seen>>

(* Redis refuses; the use case logs it and answers all the same.           *)
BumpFails(p) ==
    /\ op[p] \in {"incr", "decr"}
    /\ BumpOver(p, p \notin counted)
    /\ Go(p, "get", NoUser)
    /\ UNCHANGED <<counter, ttl, age, rowVars, seen>>

-----------------------------------------------------------------------------
(* Reading the count: LikeCountReader.readMany *)

(* The detail or the list, which may come from a cache that still shows a  *)
(* deleted post.                                                           *)
Read(p) ==
    /\ op[p] = "idle"
    /\ Go(p, "get", NoUser)
    /\ UNCHANGED <<keyVars, rowVars, readVars>>

(* A hit answers the request.                                              *)
GetMany(p) ==
    /\ op[p] = "get"
    /\ counter # Missing
    /\ Go(p, "idle", NoUser)
    /\ UNCHANGED <<keyVars, rowVars, readVars>>

(* A miss leads to a COUNT, and so does a GET that ends in an error slot;  *)
(* the key may be there again by the time the rows are counted.  A write   *)
(* whose bump is still to come is in this COUNT already.                   *)
CountByPosts(p) ==
    /\ op[p] = "get"
    /\ Go(p, "fill", NoUser)
    /\ seen' = [seen EXCEPT ![p] = Cardinality(liked)]
    /\ knows' = [knows EXCEPT ![p] = Pending]
    /\ readSlack' = [readSlack EXCEPT ![p] = 0]
    /\ UNCHANGED <<keyVars, rowVars>>

(* SET NX EX: a key that is there by now is left alone.                    *)
Backfill(p) ==
    /\ op[p] = "fill"
    /\ IF counter = Missing
       THEN /\ counter' = seen[p] /\ ttl' = TTL /\ age' = 0
            /\ counted' = knows[p] /\ slack' = readSlack[p]
       ELSE UNCHANGED keyVars
    /\ Go(p, "idle", NoUser)
    /\ NoRead(p)
    /\ UNCHANGED rowVars

-----------------------------------------------------------------------------
(* Deleting the post.  The rows of its likes stay.                         *)

BeginDelete(p) ==
    /\ op[p] = "idle" /\ ~deleted
    /\ Go(p, "delete", NoUser)
    /\ UNCHANGED <<keyVars, rowVars, readVars>>

Delete(p) ==
    /\ op[p] = "delete"
    /\ deleted' = TRUE
    /\ Go(p, "remove", NoUser)
    /\ UNCHANGED <<keyVars, liked, toggles, readVars>>

Remove(p) ==
    /\ op[p] = "remove"
    /\ DropKey
    /\ Go(p, "idle", NoUser)
    /\ UNCHANGED <<rowVars, readVars>>

-----------------------------------------------------------------------------

(* The request dies at its next call: an error goes to the client, or the  *)
(* process is gone.                                                        *)
RequestFails(p) ==
    /\ op[p] # "idle"
    /\ Go(p, "idle", NoUser)
    /\ IF p \in Pending
       THEN BumpOver(p, p \notin counted) /\ UNCHANGED <<counter, ttl, age, seen>>
       ELSE NoRead(p) /\ UNCHANGED keyVars
    /\ UNCHANGED rowVars

(* Time passes for the key.                                                *)
Tick ==
    /\ counter # Missing
    /\ IF ttl = 1 THEN DropKey
       ELSE /\ ttl' = IF ttl = 0 THEN 0 ELSE ttl - 1
            /\ age' = IF age < TTL THEN age + 1 ELSE age
            /\ UNCHANGED <<counter, counted, slack>>
    /\ UNCHANGED <<rowVars, requestVars>>

(* Redis evicts the key.                                                   *)
Evict ==
    /\ counter # Missing
    /\ DropKey
    /\ UNCHANGED <<rowVars, requestVars>>

(* What a request in progress does.                                        *)
Proceed(p) ==
    \/ Like(p) \/ Unlike(p) \/ Bump(p) \/ BumpFails(p)
    \/ GetMany(p) \/ CountByPosts(p) \/ Backfill(p)
    \/ Delete(p) \/ Remove(p)

Next ==
    \/ \E p \in Requests :
        \/ \E u \in Users : Begin(p, u)
        \/ Read(p) \/ BeginDelete(p) \/ Proceed(p) \/ RequestFails(p)
    \/ Tick \/ Evict

Spec == Init /\ [][Next]_vars

(* Every call of a request returns in the end, and time passes.            *)
Fairness == WF_vars(Tick) /\ \A p \in Requests : WF_vars(Proceed(p))

FairSpec == Spec /\ Fairness

-----------------------------------------------------------------------------
(* Properties *)

(* The key outlives its TTL in no way, whatever writes and fills hit it:   *)
(* this is the hard ceiling on how long one wrong count can last.          *)
HardCeiling == counter # Missing => age < TTL

Distance(m, n) == IF m > n THEN m - n ELSE n - m

(* What the bumps still to come will add to a count that has the writes of *)
(* the requests K already.                                                 *)
AtOutside(K, o) == Cardinality({q \in Requests \ K : op[q] = o})
Owed(K) == AtOutside(K, "incr") - AtOutside(K, "decr")

(* Once the bumps still to come are in, the cached count is off by at most *)
(* one for each write that the fill and the bump both counted, that came   *)
(* after the COUNT and whose bump came before its fill, or whose bump was  *)
(* lost or stopped at 0: every other write is in it exactly once.          *)
DriftBounded ==
    counter # Missing => Distance(counter + Owed(counted), Cardinality(liked)) <= slack

(* Once nobody likes or unlikes any more, every wrong count goes away.     *)
Heals == <>[](counter # Missing => counter = Cardinality(liked))
=============================================================================
