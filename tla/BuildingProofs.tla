--------------------------- MODULE BuildingProofs ---------------------------
(***************************************************************************)
(* The safety of a building for any number of users, units, codes, leases, *)
(* posts and concurrent requests: what becomes of a code, how often one    *)
(* lease ends, who sees the board, why a cached value is stale, and which  *)
(* comments survive their post; and that codes and leases implement        *)
(* Tenancy.                                                                *)
(***************************************************************************)
EXTENDS Board, FiniteSetTheorems, TLAPS

-----------------------------------------------------------------------------
(* The inductive invariant *)

(* The values of a key, and what a request may have read.                  *)
Detail == Nat \X Nat
List == SUBSET (Posts \X Nat)

CallType ==
    [op : BoardOps \cup {"idle", "join", "end"}, user : Users \cup {None},
     on : Units \cup Leases \cup Keys \cup {None},
     held : {None} \cup Codes \cup Nat \cup Detail \cup List, owes : Seq(Keys)]

Types ==
    /\ PropertyTypeOK
    /\ post \in [Posts -> Post \cup {None}]
    /\ comments \in [Posts -> 0..MaxWrites]
    /\ live \in [Posts -> Nat] /\ \A x \in Posts : live[x] <= comments[x]
    /\ late \in [Posts -> Nat]
    /\ cache \in [Keys -> Detail \cup List \cup {None}]
    /\ \A x \in Posts : cache[x] \in Detail \cup {None}
    /\ \A b \in Buildings : cache[b] \in List \cup {None}
    /\ excused \in [Keys -> BOOLEAN]
    /\ was \in [Requests -> BOOLEAN]
    /\ call \in [Requests -> CallType]

PostOps ==
    {"member", "comment", "edit", "delete", "deleting", "hit", "find", "authorize", "comments"}

(* What a request goes on with is there: rows are never removed.           *)
CallSound(c) ==
    /\ c.op = "join" => c.user \in Users /\ c.on \in Units /\ c.held \in Codes
    /\ c.op = "end" => c.on \in Leases /\ lease[c.on] # None
    /\ c.op = "post" => c.user \in Users /\ c.on \in Buildings
    /\ c.op \in PostOps => c.on \in Posts /\ post[c.on] # None
    /\ c.op \in {"getList", "findList"} => c.on \in Buildings
    /\ c.op \in {"authorize", "comments"} => c.held \in Nat
    /\ c.op = "store" =>
        \/ c.on \in Posts /\ post[c.on] # None /\ c.held \in Detail
        \/ c.on \in Buildings /\ c.held \in List
    /\ c.op = "answer" => c.on \in Keys
    /\ IF c.op = "del" THEN c.owes # <<>> ELSE c.owes = <<>>

CallsSound == \A p \in Requests : CallSound(call[p])

Enders(l) == {p \in Requests : call[p].op = "end" /\ call[p].on = l}

(* A LeaseEnded that is recorded was once a request that is to record it.  *)
LeasesSound ==
    \A l \in Leases :
        /\ lease[l] = None => ends[l] = 0
        /\ lease[l] # None => (lease[l].status = "ACTIVE" <=> ends[l] = 0)
        /\ ends[l] + Cardinality(Enders(l)) <= Cardinality(Requests)

(* The first statement of a deletion saw no comment that is not there.     *)
DeletionsSound ==
    \A p \in Requests :
        call[p].op = "deleting" => call[p].held \in Nat /\ call[p].held <= comments[call[p].on]

OrphansSound == OrphansExplained /\ DeletionsSound

PastTheCheck == {"comment", "comments", "store", "answer", "getList", "findList"}

(* The history of membership misses nothing, and the checks look there.    *)
MembersSound ==
    \A p \in Requests :
        /\ call[p].op \in ReaderOps /\ MemberNow(p) => was[p]
        /\ call[p].op \in PastTheCheck => was[p]

(* Nothing is cached of a post that does not exist.                        *)
CacheSound == StaleExplained /\ \A x \in Posts : post[x] = None => cache[x] = None

Inv ==
    /\ Types /\ CallsSound
    /\ CodesAccounted /\ LeasesSound
    /\ OrphansSound /\ MembersSound /\ CacheSound

(* Nothing exists at first.                                                *)
LEMMA InitInv == Init => Inv
<1> SUFFICES ASSUME Init PROVE Inv
  OBVIOUS
<1> USE PropertyAssumption, BoardAssumption DEF Init, PropertyInit, BoardInit, Keys
<1>1. Idle \in CallType /\ Idle.op = "idle" /\ Idle.owes = <<>>
  BY DEF Idle, At, CallType
<1>2. \A p \in Requests : call[p] = Idle
  OBVIOUS
<1>3. Types
  BY <1>1 DEF Types, PropertyTypeOK
<1>4. CallsSound
  BY <1>1, <1>2 DEF CallsSound, CallSound, PostOps
<1>5. CodesAccounted
  BY <1>1, <1>2 DEF CodesAccounted, Redeemers
<1>6. LeasesSound
  <2>1. \A l \in Leases : Enders(l) = {}
    BY <1>1, <1>2 DEF Enders
  <2>2. Cardinality({}) = 0 /\ Cardinality(Requests) \in Nat
    BY FS_EmptySet, FS_CardinalityType
  <2>3. \A l \in Leases : lease[l] = None /\ ends[l] = 0 /\ Cardinality(Enders(l)) = 0
    BY <2>1, <2>2
  <2> QED
    BY <2>1, <2>2, <2>3 DEF LeasesSound
<1>7. OrphansSound
  BY <1>1, <1>2 DEF OrphansSound, OrphansExplained, DeletionsSound
<1>8. MembersSound
  BY <1>1, <1>2 DEF MembersSound, ReaderOps, BoardOps, PastTheCheck
<1>9. CacheSound
  BY DEF CacheSound, StaleExplained, IsStale
<1> QED
  BY <1>3, <1>4, <1>5, <1>6, <1>7, <1>8, <1>9 DEF Inv

-----------------------------------------------------------------------------
(* What a step does to the requests *)

(* Rows stay, and a request that goes on as c relies on what is there.     *)
Move(p, c) ==
    /\ Go(p, c)
    /\ c \in CallType /\ CallSound(c)
    /\ \A l \in Leases : lease[l] # None => lease'[l] # None
    /\ \A x \in Posts : post[x] # None => post'[x] # None
    /\ c.op = "member" => Exists(c.on) /\ UNCHANGED rows
    /\ c.op = "comment" => call[p].op = "member" /\ c.on = call[p].on
    /\ c.op = "deleting" => c.held \in Nat /\ c.held <= comments[c.on] /\ UNCHANGED rows
    /\ c.op \in PastTheCheck =>
        \/ call[p].op \in PastTheCheck
        \/ call[p].op \in ReaderOps /\ MemberNow(p)
        \/ c.op = "getList" /\ IsMember(c.user, c.on)

(* A step of the board is none of a redeemer's or of an owner's.           *)
Boarding(p, c) ==
    Move(p, c) /\ call[p].op \notin {"join", "end"} /\ c.op \notin {"join", "end"}

(* What is known of a request before it moves.                             *)
LEMMA CallFacts ==
  ASSUME Inv, NEW p \in Requests
  PROVE  /\ call[p] \in CallType /\ CallSound(call[p])
         /\ Idle.op = "idle" /\ Idle \in CallType /\ CallSound(Idle)
         /\ call[p] = Idle => call[p].op = "idle"
<1>1. Idle.op = "idle" /\ Idle.owes = <<>> /\ Idle \in CallType
  BY DEF Idle, At, CallType
<1>2. CallSound(Idle)
  BY <1>1 DEF CallSound, PostOps
<1> QED
  BY <1>1, <1>2 DEF Inv, Types, CallsSound

(* Requests that begin.                                                    *)
LEMMA RoutesMove ==
  ASSUME Inv, NEW p \in Requests, NEW u \in Users, UNCHANGED propertyVars,
         PostRoutes(p, u) \/ CommentRoutes(p, u)
  PROVE  UNCHANGED <<rows, redis>> /\ \E c : Boarding(p, c)
<1> USE CallFacts, BoardAssumption
    DEF At, Boarding, Move, CallType, CallSound, PostOps, PastTheCheck, BoardOps, Keys, rows, propertyVars
<1>1. ASSUME NEW b \in Buildings, CreatePost(p, u, b)
      PROVE  UNCHANGED <<rows, redis>> /\ Boarding(p, At("post", u, b, None, <<>>))
  BY <1>1 DEF CreatePost
<1>2. ASSUME NEW b \in Buildings, ListPosts(p, u, b)
      PROVE  UNCHANGED <<rows, redis>> /\ Boarding(p, At("getList", u, b, None, <<>>))
  BY <1>2 DEF ListPosts
<1>3. ASSUME NEW x \in Posts, CreateComment(p, u, x)
      PROVE  UNCHANGED <<rows, redis>> /\ Boarding(p, At("member", u, x, None, <<>>))
  BY <1>3 DEF CreateComment, Exists
<1>4. ASSUME NEW x \in Posts, UpdatePost(p, u, x)
      PROVE  UNCHANGED <<rows, redis>> /\ Boarding(p, At("edit", u, x, None, <<>>))
  BY <1>4 DEF UpdatePost, Exists
<1>5. ASSUME NEW x \in Posts, DeletePost(p, u, x)
      PROVE  UNCHANGED <<rows, redis>> /\ Boarding(p, At("delete", u, x, None, <<>>))
  BY <1>5 DEF DeletePost, Exists
<1>6. ASSUME NEW x \in Posts, GetPost(p, u, x)
      PROVE  /\ UNCHANGED <<rows, redis>>
             /\ \/ Boarding(p, At("hit", u, x, None, <<>>))
                \/ Boarding(p, At("find", u, x, None, <<>>))
  BY <1>6 DEF GetPost
<1> HIDE DEF Boarding, At, rows
<1> QED
  BY <1>1, <1>2, <1>3, <1>4, <1>5, <1>6, Zenon DEF PostRoutes, CommentRoutes
(* Requests that go on after a check or a read, or are answered.           *)
LEMMA ReadsMove ==
  ASSUME Inv, NEW p \in Requests, UNCHANGED propertyVars,
         \/ CheckCommenter(p) \/ AuthorizeHit(p) \/ FindPost(p) \/ AuthorizeMiss(p)
         \/ FindComments(p) \/ GetList(p) \/ LoadSummaries(p) \/ Answer(p)
         \/ DeleteComments(p)
  PROVE  UNCHANGED <<rows, redis>> /\ \E c : Boarding(p, c)
<1> USE CallFacts, BoardAssumption
    DEF At, Boarding, Move, CallType, CallSound, PostOps, PastTheCheck, ReaderOps, BoardOps,
        Keys, rows, propertyVars
<1> DEFINE on(o) == [call[p] EXCEPT !.op = o]
           answer == At("answer", None, call[p].on, None, <<>>)
<1>1. Authorized(p) /\ call[p].on \in Posts => MemberNow(p)
  BY DEF Authorized, MemberNow, BuildingAt
<1>2. CASE CheckCommenter(p)
  <2>1. UNCHANGED <<rows, redis>> /\ (Boarding(p, on("comment")) \/ Boarding(p, Idle))
    BY <1>1, <1>2 DEF CheckCommenter, Step
  <2> QED
    BY <2>1
<1>3. CASE AuthorizeHit(p)
  <2>1. UNCHANGED <<rows, redis>> /\ (Boarding(p, answer) \/ Boarding(p, Idle))
    BY <1>1, <1>3 DEF AuthorizeHit, AuthorizedHit, Answering
  <2> QED
    BY <2>1
<1>4. CASE FindPost(p)
  <2> DEFINE c == Holding("authorize", p, post[call[p].on].ver)
  <2>1. Exists(call[p].on) /\ call[p].on \in Posts => post[call[p].on].ver \in Nat
    BY DEF Exists, Inv, Types, Post
  <2>2. UNCHANGED <<rows, redis>> /\ call[p].op = "find" /\ call[p].on \in Posts
    BY <1>4 DEF FindPost
  <2>3. CASE Exists(call[p].on)
    <3>1. c \in CallType /\ CallSound(c)
      BY <2>1, <2>2, <2>3 DEF Holding
    <3>2. Boarding(p, c)
      BY <1>4, <2>2, <2>3, <3>1 DEF FindPost, Holding
    <3> HIDE DEF Boarding, Holding
    <3> QED
      BY <2>2, <3>2
  <2>4. CASE ~Exists(call[p].on)
    <3>1. Boarding(p, Idle)
      BY <1>4, <2>2, <2>4 DEF FindPost
    <3> QED
      BY <2>2, <3>1
  <2> QED
    BY <2>3, <2>4
<1>5. CASE AuthorizeMiss(p)
  <2>1. UNCHANGED <<rows, redis>> /\ (Boarding(p, on("comments")) \/ Boarding(p, Idle))
    BY <1>1, <1>5 DEF AuthorizeMiss, Step
  <2> QED
    BY <2>1
<1>6. CASE FindComments(p)
  <2> DEFINE c == Holding("store", p, <<call[p].held, live[call[p].on]>>)
  <2>1. call[p].on \in Posts => live[call[p].on] \in Nat
    BY DEF Inv, Types
  <2>2. UNCHANGED <<rows, redis>> /\ Boarding(p, c)
    BY <1>6, <2>1 DEF FindComments, Holding, Detail
  <2> QED
    BY <2>2
<1>7. CASE GetList(p)
  <2>1. UNCHANGED <<rows, redis>> /\ (Boarding(p, answer) \/ Boarding(p, on("findList")))
    BY <1>7 DEF GetList, Answering, Step
  <2> QED
    BY <2>1
<1>8. CASE LoadSummaries(p)
  <2> DEFINE c == Holding("store", p, FindByBuilding(call[p].on))
  <2>1. FindByBuilding(call[p].on) \in List
    BY DEF FindByBuilding, List, Exists, Inv, Types, Post
  <2>2. UNCHANGED <<rows, redis>> /\ Boarding(p, c)
    BY <1>8, <2>1 DEF LoadSummaries, Holding
  <2> QED
    BY <2>2
<1>9. CASE Answer(p)
  <2>1. UNCHANGED <<rows, redis>> /\ Boarding(p, Idle)
    BY <1>9 DEF Answer
  <2> QED
    BY <2>1
<1>10. CASE DeleteComments(p)
  <2> DEFINE c == Holding("deleting", p, comments[call[p].on])
  <2>1. call[p].on \in Posts => comments[call[p].on] \in Nat
    BY DEF Inv, Types
  <2>2. UNCHANGED <<rows, redis>> /\ Boarding(p, c)
    BY <1>10, <2>1 DEF DeleteComments, Holding
  <2> QED
    BY <2>2
<1> QED
  BY <1>2, <1>3, <1>4, <1>5, <1>6, <1>7, <1>8, <1>9, <1>10
(* A request that has nothing on its mind but keys to delete.              *)
LEMMA OwingFacts ==
  ASSUME NEW p \in Requests, NEW x \in Keys, NEW keys \in Seq(Keys), keys # <<>>
  PROVE  /\ Owing(x, keys) \in CallType /\ CallSound(Owing(x, keys))
         /\ Owing(x, keys).op = "del" /\ Owing(x, keys).owes = keys
<1> USE DEF Owing, At
<1>1. Owing(x, keys) \in CallType
  BY DEF CallType, BoardOps
<1>2. CallSound(Owing(x, keys))
  BY DEF CallSound, PostOps
<1> QED
  BY <1>1, <1>2

(* The rows that writes leave.                                             *)
LEMMA RowFacts ==
  ASSUME Inv, NEW x \in Posts, post[x] # None
  PROVE  /\ post[x] \in Post
         /\ SoftDeleted(x) \in Post /\ SoftDeleted(x) # None
         /\ SoftDeleted(x).building = post[x].building /\ SoftDeleted(x).deleted
         /\ post[x].ver < MaxVersion =>
                /\ Edited(x) \in Post /\ Edited(x) # None
                /\ Edited(x).building = post[x].building
                /\ Edited(x).deleted = post[x].deleted
<1> USE BoardAssumption
<1>1. post[x] \in Post
  BY DEF Inv, Types
<1>2. /\ SoftDeleted(x) \in Post /\ SoftDeleted(x).deleted
      /\ SoftDeleted(x).building = post[x].building
  BY <1>1 DEF Post, SoftDeleted
<1>3. post[x].ver < MaxVersion =>
        /\ Edited(x) \in Post /\ Edited(x).building = post[x].building
        /\ Edited(x).deleted = post[x].deleted
  BY <1>1 DEF Post, Edited
<1> QED
  BY <1>1, <1>2, <1>3

LEMMA CommentersFinite ==
  ASSUME NEW x \in Posts
  PROVE  IsFiniteSet(Commenters(x)) /\ Cardinality(Commenters(x)) \in Nat
<1>1. Commenters(x) \subseteq Requests
  BY DEF Commenters
<1> QED
  BY <1>1, FS_Subset, FS_CardinalityType, PropertyAssumption

(* A deletion leaves the comments its first statement did not see, and the *)
(* first one notes how many more may come.                                 *)
LEMMA DeleteFacts ==
  ASSUME Inv, NEW p \in Requests, SaveDelete(p), NEW x \in Posts, x = call[p].on
  PROVE  /\ live' \in [Posts -> Nat] /\ live'[x] <= live[x]
         /\ late' \in [Posts -> Nat]
         /\ \A y \in Posts \ {x} : live'[y] = live[y] /\ late'[y] = late[y]
         /\ post[x].deleted => late'[x] = late[x]
         /\ ~post[x].deleted => live'[x] + Cardinality(Commenters(x)) <= late'[x]
<1>1. PICK n \in Nat : n = call[p].held /\ n <= comments[x]
  BY DEF SaveDelete, Inv, OrphansSound, DeletionsSound
<1>2. PICK m \in Nat : m = Cardinality(Commenters(x))
  BY CommentersFinite
<1>3. PICK k \in Nat : k = comments[x] - n
  BY <1>1, BoardAssumption DEF Inv, Types
<1>4. PICK v \in Nat : v = IF k < live[x] THEN k ELSE live[x]
  BY <1>3 DEF Inv, Types
<1>5. live' = [live EXCEPT ![x] = v]
  BY <1>1, <1>3, <1>4 DEF SaveDelete, SoftDeleteComments
<1>6. v <= live[x] /\ v <= k
  BY <1>3, <1>4 DEF Inv, Types
<1>7. late' = IF post[x].deleted THEN late ELSE [late EXCEPT ![x] = k + m]
  BY <1>1, <1>2, <1>3 DEF SaveDelete, NoteLate, TooLate
<1>8. live \in [Posts -> Nat] /\ late \in [Posts -> Nat]
  BY DEF Inv, Types
<1>9. v + m <= k + m /\ k + m \in Nat
  BY <1>2, <1>3, <1>6
<1>10. CASE post[x].deleted
  BY <1>5, <1>6, <1>7, <1>8, <1>10
<1>11. CASE ~post[x].deleted
  <2>1. late' = [late EXCEPT ![x] = k + m]
    BY <1>7, <1>11
  <2> QED
    BY <1>2, <1>5, <1>6, <1>8, <1>9, <1>11, <2>1
<1> QED
  BY <1>10, <1>11

(* Writes commit and go on to delete the keys they have to.                *)
LEMMA WritesMove ==
  ASSUME Inv, NEW p \in Requests, UNCHANGED propertyVars,
         \/ \E x \in Posts : SavePost(p, x)
         \/ SaveComment(p) \/ SaveEdit(p) \/ SaveDelete(p)
  PROVE  UNCHANGED redis /\ \E c : Boarding(p, c) /\ c.op = "del"
<1> USE CallFacts, OwingFacts, BoardAssumption
    DEF propertyVars, rows, Keys
<1>1. ASSUME NEW x \in Keys, NEW keys \in Seq(Keys), keys # <<>>, Go(p, Owing(x, keys)),
             call[p].op \in {"post", "comment", "edit", "deleting"},
             \A y \in Posts : post[y] # None => post'[y] # None
      PROVE  Boarding(p, Owing(x, keys)) /\ Owing(x, keys).op = "del"
  BY <1>1 DEF Boarding, Move, PastTheCheck
<1>2. ASSUME NEW x \in Posts, SavePost(p, x)
      PROVE  UNCHANGED redis /\ \E c : Boarding(p, c) /\ c.op = "del"
  <2>1. call[p].on \in Keys /\ <<call[p].on>> \in Seq(Keys) /\ <<call[p].on>> # <<>>
    BY <1>2 DEF SavePost, CallSound
  <2>2. \A y \in Posts : post[y] # None => post'[y] # None
    BY <1>2 DEF SavePost, NewPost, Inv, Types
  <2>3. LET c == Owing(call[p].on, <<call[p].on>>) IN Boarding(p, c) /\ c.op = "del"
    BY <1>1, <1>2, <2>1, <2>2 DEF SavePost, KeysOfNewPost
  <2> QED
    BY <1>2, <2>3 DEF SavePost
<1>3. ASSUME call[p].op \in {"comment", "edit", "deleting"}
      PROVE  /\ call[p].on \in Posts /\ post[call[p].on] # None
             /\ <<call[p].on>> \in Seq(Keys) /\ <<call[p].on>> # <<>>
             /\ KeysOfPost(call[p].on) \in Seq(Keys) /\ KeysOfPost(call[p].on) # <<>>
  <2>1. call[p].on \in Posts /\ post[call[p].on] # None
    BY <1>3 DEF CallSound, PostOps
  <2>2. post[call[p].on].building \in Keys
    BY <2>1, RowFacts DEF Post
  <2> QED
    BY <2>1, <2>2 DEF KeysOfPost
<1>4. CASE SaveComment(p)
  <2>1. LET c == Owing(call[p].on, <<call[p].on>>) IN Boarding(p, c) /\ c.op = "del"
    BY <1>1, <1>3, <1>4 DEF SaveComment, KeysOfComment
  <2> QED
    BY <1>4, <2>1 DEF SaveComment
<1>5. CASE SaveEdit(p)
  <2>1. \A y \in Posts : post[y] # None => post'[y] # None
    BY <1>3, <1>5, RowFacts DEF SaveEdit, Inv, Types
  <2>2. LET c == Owing(call[p].on, KeysOfPost(call[p].on)) IN Boarding(p, c) /\ c.op = "del"
    BY <1>1, <1>3, <1>5, <2>1 DEF SaveEdit
  <2> QED
    BY <1>5, <2>2 DEF SaveEdit
<1>6. CASE SaveDelete(p)
  <2>1. \A y \in Posts : post[y] # None => post'[y] # None
    BY <1>3, <1>6, RowFacts DEF SaveDelete, Inv, Types
  <2>2. LET c == Owing(call[p].on, KeysOfPost(call[p].on)) IN Boarding(p, c) /\ c.op = "del"
    BY <1>1, <1>3, <1>6, <2>1 DEF SaveDelete
  <2> QED
    BY <1>6, <2>2 DEF SaveDelete
<1> QED
  BY <1>2, <1>4, <1>5, <1>6

(* Steps on the cache: a DEL, a store, a failure.                          *)
LEMMA CacheMoves ==
  ASSUME Inv, NEW p \in Requests, UNCHANGED propertyVars,
         Invalidate(p) \/ StoreLoaded(p) \/ RequestFails(p)
  PROVE  UNCHANGED rows /\ \E c : Boarding(p, c)
<1> USE CallFacts, BoardAssumption
    DEF propertyVars, rows, Keys, Boarding, Move, PastTheCheck
<1>1. CASE Invalidate(p)
  <2> DEFINE c == [call[p] EXCEPT !.owes = Tail(call[p].owes)]
  <2>1. call[p].owes \in Seq(Keys) /\ call[p].owes # <<>> /\ Tail(call[p].owes) \in Seq(Keys)
    BY <1>1 DEF Invalidate, CallSound, CallType
  <2>2. Tail(call[p].owes) # <<>> => c \in CallType /\ CallSound(c)
    BY <1>1, <2>1 DEF Invalidate, CallSound, CallType, PostOps
  <2>3. UNCHANGED rows /\ (Boarding(p, c) \/ Boarding(p, Idle))
    BY <1>1, <2>2 DEF Invalidate, CallType
  <2> HIDE DEF Boarding
  <2> QED
    BY <2>3
<1>2. CASE StoreLoaded(p)
  <2> DEFINE c == At("answer", None, call[p].on, None, <<>>)
  <2>1. c \in CallType /\ CallSound(c)
    BY <1>2 DEF StoreLoaded, CallSound, CallType, PostOps, BoardOps, At
  <2>2. UNCHANGED rows /\ Boarding(p, c)
    BY <1>2, <2>1 DEF StoreLoaded, Answering, At
  <2> HIDE DEF Boarding
  <2> QED
    BY <2>2
<1>3. CASE RequestFails(p)
  <2>1. UNCHANGED rows /\ Boarding(p, Idle)
    BY <1>3 DEF RequestFails, BoardOps
  <2> HIDE DEF Boarding
  <2> QED
    BY <2>1
<1> QED
  BY <1>1, <1>2, <1>3

(* So every step of the board moves one request.                           *)
LEMMA BoardMoves ==
  ASSUME Inv, NEW p \in Requests, UNCHANGED propertyVars, BoardStep(p)
  PROVE  \E c : Boarding(p, c)
BY RoutesMove, ReadsMove, WritesMove, CacheMoves, Zenon DEF BoardStep
-----------------------------------------------------------------------------
(* Requests, codes and leases while the board moves *)

LEMMA MoveFacts ==
  ASSUME Inv, NEW p \in Requests, NEW c, Move(p, c)
  PROVE  /\ call'[p] = c /\ \A q \in Requests \ {p} : call'[q] = call[q]
         /\ call' \in [Requests -> CallType] /\ CallsSound'
<1>1. call'[p] = c /\ \A q \in Requests \ {p} : call'[q] = call[q]
  BY DEF Move, Go, Inv, Types
<1>2. call' \in [Requests -> CallType]
  BY DEF Move, Go, Inv, Types
<1>3. ASSUME NEW d, CallSound(d) PROVE CallSound(d)'
  BY <1>3 DEF CallSound, Move
<1>4. CallsSound'
  <2> SUFFICES ASSUME NEW q \in Requests PROVE CallSound(call[q])'
    BY DEF CallsSound
  <2>1. PICK d : d = call'[q]
    OBVIOUS
  <2>2. CallSound(d)
    BY <1>1, <2>1 DEF Inv, CallsSound, Move
  <2>3. CallSound(d)'
    BY <1>3, <2>2
  <2> QED
    BY <2>1, <2>3 DEF CallSound, PostOps
<1> QED
  BY <1>1, <1>2, <1>4

(* No code and no lease is touched by the board.                           *)
LEMMA BoardKeepsProperty ==
  ASSUME Inv, UNCHANGED propertyVars, NEW p \in Requests, NEW c, Boarding(p, c)
  PROVE  CodesAccounted' /\ LeasesSound'
<1>1. \A x \in Codes : Redeemers(x)' = Redeemers(x)
  BY MoveFacts DEF Boarding, Redeemers
<1>2. \A l \in Leases : Enders(l)' = Enders(l)
  BY MoveFacts DEF Boarding, Enders
<1>3. CodesAccounted'
  BY <1>1 DEF Inv, CodesAccounted, propertyVars
<1>4. LeasesSound'
  BY <1>2 DEF Inv, LeasesSound, propertyVars
<1> QED
  BY <1>3, <1>4

-----------------------------------------------------------------------------
(* Who sees the board *)

LEMMA MembersStep ==
  ASSUME Inv, NoteMembers, NEW p \in Requests, NEW c, Move(p, c),
         c.op = "getList" => UNCHANGED propertyVars
  PROVE  MembersSound' /\ was' \in [Requests -> BOOLEAN]
<1> USE DEF MembersSound, NoteMembers
<1>1. was' \in [Requests -> BOOLEAN]
  OBVIOUS
<1>2. ASSUME NEW q \in Requests, call'[q].op \in ReaderOps, MemberNow(q)' PROVE was'[q]
  BY <1>2
<1>3. ASSUME NEW q \in Requests, call'[q].op \in PastTheCheck PROVE was'[q]
  <2>1. call'[q].op \in ReaderOps
    BY <1>3 DEF PastTheCheck, ReaderOps, BoardOps
  <2>2. CASE was[q]
    BY <2>1, <2>2
  <2>3. CASE q # p
    BY <1>3, <2>2, <2>3, MoveFacts DEF Inv
  <2>4. CASE q = p /\ call[p].op \in PastTheCheck
    BY <2>2, <2>4 DEF Inv
  <2>5. CASE q = p /\ call[p].op \in ReaderOps /\ MemberNow(p)
    BY <2>2, <2>5 DEF Inv
  <2>6. CASE q = p /\ c.op = "getList" /\ IsMember(c.user, c.on)
    <3>1. call'[p] = c /\ c.on \in Buildings
      BY <2>6, MoveFacts DEF Move, CallSound
    <3>2. IsMember(c.user, c.on)'
      BY <2>6 DEF IsMember, IsOwnedBy, HasActiveLease, propertyVars
    <3>3. MemberNow(p)'
      BY <3>1, <3>2 DEF MemberNow, BuildingAt
    <3> QED
      BY <2>1, <2>6, <3>3
  <2> QED
    BY <1>3, <2>3, <2>4, <2>5, <2>6, MoveFacts DEF Move
<1> QED
  BY <1>1, <1>2, <1>3

-----------------------------------------------------------------------------
(* Comments of deleted posts *)

(* Nobody starts to comment on a post that is not found.                   *)
LEMMA CommentersShrink ==
  ASSUME Inv, NEW p \in Requests, NEW c, Boarding(p, c),
         NEW x \in Posts, ~(c.op = "member" /\ c.on = x)
  PROVE  /\ Commenters(x)' \subseteq Commenters(x)
         /\ Cardinality(Commenters(x))' \in Nat
         /\ Cardinality(Commenters(x))' <= Cardinality(Commenters(x))
         /\ p \in Commenters(x) /\ c.op # "comment" =>
                Cardinality(Commenters(x))' = Cardinality(Commenters(x)) - 1
<1>1. Commenters(x)' \subseteq Commenters(x)
  BY MoveFacts DEF Boarding, Move, Commenters
<1>2. Cardinality(Commenters(x))' \in Nat /\ Cardinality(Commenters(x))' <= Cardinality(Commenters(x))
  BY <1>1, CommentersFinite, FS_Subset, FS_CardinalityType
<1>3. ASSUME p \in Commenters(x), c.op # "comment"
      PROVE  Cardinality(Commenters(x))' = Cardinality(Commenters(x)) - 1
  <2>1. Commenters(x)' = Commenters(x) \ {p}
    BY <1>3, MoveFacts DEF Boarding, Move, Commenters
  <2> QED
    BY <1>3, <2>1, CommentersFinite, FS_RemoveElement
<1> QED
  BY <1>1, <1>2, <1>3

(* A step that leaves the rows, or changes the row of one post.            *)
LEMMA OrphansRest ==
  ASSUME Inv, NEW p \in Requests, NEW c, Boarding(p, c), NEW x \in Posts,
         c.op = "member" => Exists(c.on), live'[x] <= live[x], live'[x] \in Nat,
         late'[x] = late[x],
         (post'[x] # None /\ post'[x].deleted) => (post[x] # None /\ post[x].deleted)
  PROVE  post'[x] # None /\ post'[x].deleted =>
            live'[x] + Cardinality(Commenters(x))' <= late'[x]
<1> SUFFICES ASSUME post[x] # None, post[x].deleted
             PROVE  live'[x] + Cardinality(Commenters(x))' <= late'[x]
  OBVIOUS
<1>1. ~(c.op = "member" /\ c.on = x)
  BY DEF Exists
<1>2. PICK n \in Nat : n = Cardinality(Commenters(x))
  BY CommentersFinite
<1>3. PICK m \in Nat : m = Cardinality(Commenters(x))' /\ m <= n
  BY <1>1, <1>2, CommentersShrink
<1>4. live[x] + n <= late[x] /\ live[x] \in Nat /\ late[x] \in Nat
  BY <1>2 DEF Inv, OrphansSound, OrphansExplained, Types
<1> QED
  BY <1>3, <1>4

(* The rows of comments only grow in number.                               *)
LEMMA CommentsGrow ==
  ASSUME Inv, NEW p \in Requests, UNCHANGED propertyVars, BoardStep(p)
  PROVE  \A x \in Posts : comments'[x] \in Nat /\ comments[x] <= comments'[x]
<1>1. comments \in [Posts -> Nat] /\ \A x \in Posts : comments[x] <= comments[x]
  BY DEF Inv, Types
<1>2. CASE UNCHANGED rows
  BY <1>1, <1>2 DEF rows
<1>3. CASE (\E x \in Posts : SavePost(p, x)) \/ SaveEdit(p) \/ SaveDelete(p)
  BY <1>1, <1>3 DEF SavePost, SaveEdit, SaveDelete
<1>4. CASE SaveComment(p)
  <2>1. comments' = [comments EXCEPT ![call[p].on] = comments[call[p].on] + 1]
    BY <1>4 DEF SaveComment
  <2> QED
    BY <1>1, <2>1
<1> QED
  BY <1>2, <1>3, <1>4, RoutesMove, ReadsMove, CacheMoves, Zenon DEF BoardStep

LEMMA DeletionsStep ==
  ASSUME Inv, NEW p \in Requests, UNCHANGED propertyVars, BoardStep(p)
  PROVE  DeletionsSound'
<1>1. PICK c : Boarding(p, c)
  BY BoardMoves
<1>2. SUFFICES ASSUME NEW q \in Requests, call'[q].op = "deleting"
               PROVE  call'[q].held \in Nat /\ call'[q].held <= comments'[call'[q].on]
  BY DEF DeletionsSound
<1>3. CASE q = p
  BY <1>1, <1>2, <1>3, MoveFacts DEF Boarding, Move, rows
<1>4. CASE q # p
  <2>1. call'[q] = call[q]
    BY <1>1, <1>4, MoveFacts DEF Boarding
  <2>2. call[q].on \in Posts
    BY <1>2, <2>1, CallFacts DEF CallSound, PostOps
  <2>3. call[q].held \in Nat /\ call[q].held <= comments[call[q].on]
    BY <1>2, <2>1 DEF Inv, OrphansSound, DeletionsSound
  <2>4. comments[call[q].on] \in Nat
    BY <2>2 DEF Inv, Types
  <2> QED
    BY <2>1, <2>2, <2>3, <2>4, CommentsGrow
<1> QED
  BY <1>3, <1>4

LEMMA OrphansStep ==
  ASSUME Inv, NEW p \in Requests, UNCHANGED propertyVars, BoardStep(p)
  PROVE  OrphansExplained'
<1> DEFINE Rest(x) == post'[x] # None /\ post'[x].deleted =>
                        live'[x] + Cardinality(Commenters(x))' <= late'[x]
<1>1. SUFFICES \A x \in Posts : Rest(x)
  BY DEF OrphansExplained
<1>2. PICK c : Boarding(p, c)
  BY BoardMoves
<1>0. live \in [Posts -> Nat] /\ \A x \in Posts : live[x] <= live[x]
  BY DEF Inv, Types
<1> HIDE DEF Rest
<1>3. CASE UNCHANGED rows
  <2>1. \A x \in Posts : live'[x] = live[x] /\ late'[x] = late[x] /\ post'[x] = post[x]
    BY <1>3 DEF rows
  <2>2. c.op = "member" => Exists(c.on)
    BY <1>2 DEF Boarding, Move
  <2> QED
    BY <1>0, <1>2, <2>1, <2>2, OrphansRest DEF Rest
<1>4. ASSUME NEW y \in Posts, SavePost(p, y) PROVE \A x \in Posts : Rest(x)
  <2>1. c.op # "member"
    BY <1>2, <1>4, MoveFacts, CallFacts DEF SavePost, Boarding, Go, Owing, At, Inv, Types
  <2>2. \A x \in Posts : live'[x] = live[x] /\ late'[x] = late[x]
    BY <1>4 DEF SavePost
  <2>3. \A x \in Posts : post'[x] # None /\ post'[x].deleted => post[x] # None /\ post[x].deleted
    BY <1>4 DEF SavePost, NewPost, Inv, Types
  <2> QED
    BY <1>0, <1>2, <2>1, <2>2, <2>3, OrphansRest DEF Rest
<1>5. ASSUME call[p].op \in {"comment", "edit", "deleting"} PROVE call[p].on \in Posts /\ post[call[p].on] # None
  BY <1>5, CallFacts DEF CallSound, PostOps
<1>6. CASE SaveComment(p)
  <2> PICK y \in Posts : y = call[p].on /\ post[y] # None
    BY <1>5, <1>6 DEF SaveComment
  <2>1. c.op = "del"
    BY <1>2, <1>5, <1>6, MoveFacts DEF SaveComment, Boarding, Go, Owing, At, Inv, Types
  <2>2. \A x \in Posts : post'[x] = post[x] /\ late'[x] = late[x] /\ (x # y => live'[x] = live[x])
    BY <1>6 DEF SaveComment, Inv, Types
  <2>3. Rest(y)
    <3>1. p \in Commenters(y)
      BY <1>6 DEF SaveComment, Commenters
    <3>2. Cardinality(Commenters(y))' = Cardinality(Commenters(y)) - 1
      BY <1>2, <2>1, <3>1, CommentersShrink
    <3>3. live'[y] = live[y] + 1 /\ live[y] \in Nat
      BY <1>6, <2>1 DEF SaveComment, Inv, Types
    <3>4. post[y] # None /\ post[y].deleted => live[y] + Cardinality(Commenters(y)) <= late[y]
      BY <2>1 DEF Inv, OrphansSound, OrphansExplained
    <3>5. Cardinality(Commenters(y)) \in Nat /\ late[y] \in Nat
      BY <2>1, CommentersFinite DEF Inv, Types
    <3>6. post'[y] = post[y] /\ late'[y] = late[y]
      BY <2>1, <2>2
    <3> QED
      BY <3>2, <3>3, <3>4, <3>5, <3>6 DEF Rest
  <2>4. \A x \in Posts \ {y} : Rest(x)
    BY <1>0, <1>2, <2>1, <2>2, OrphansRest DEF Rest
  <2> QED
    BY <2>3, <2>4
<1>7. CASE SaveEdit(p)
  <2> PICK y \in Posts : y = call[p].on /\ post[y] # None
    BY <1>5, <1>7 DEF SaveEdit
  <2>1. c.op = "del"
    BY <1>2, <1>5, <1>7, MoveFacts DEF SaveEdit, Boarding, Go, Owing, At, Inv, Types
  <2>2. \A x \in Posts : live'[x] = live[x] /\ late'[x] = late[x]
    BY <1>7 DEF SaveEdit
  <2>3. \A x \in Posts : post'[x] # None /\ post'[x].deleted => post[x] # None /\ post[x].deleted
    BY <1>7, <2>1, RowFacts DEF SaveEdit, Inv, Types
  <2> QED
    BY <1>0, <1>2, <2>1, <2>2, <2>3, OrphansRest DEF Rest
<1>8. CASE SaveDelete(p)
  <2> PICK y \in Posts : y = call[p].on /\ post[y] # None
    BY <1>5, <1>8 DEF SaveDelete
  <2>1. c.op = "del"
    BY <1>2, <1>5, <1>8, MoveFacts DEF SaveDelete, Boarding, Go, Owing, At, Inv, Types
  <2>2. y = call[p].on
    OBVIOUS
  <2>3. \A x \in Posts \ {y} : post'[x] = post[x] /\ live'[x] = live[x] /\ late'[x] = late[x]
    <3>1. \A x \in Posts \ {y} : post'[x] = post[x]
      BY <1>8, <2>2 DEF SaveDelete, Inv, Types
    <3> QED
      BY <1>8, <2>2, <3>1, DeleteFacts
  <2>4. Rest(y)
    <3>1. CASE post[y].deleted
      <4>1. live'[y] <= live[y] /\ live'[y] \in Nat /\ late'[y] = late[y]
        BY <1>8, <2>2, <3>1, DeleteFacts
      <4> QED
        BY <1>2, <2>1, <2>2, <3>1, <4>1, OrphansRest DEF Rest
    <3>2. CASE ~post[y].deleted
      <4>1. live'[y] + Cardinality(Commenters(y)) <= late'[y] /\ live'[y] \in Nat /\ late'[y] \in Nat
        BY <1>8, <2>2, <3>2, DeleteFacts
      <4>2. PICK n \in Nat : n = Cardinality(Commenters(y))
        BY CommentersFinite
      <4>3. PICK m \in Nat : m = Cardinality(Commenters(y))' /\ m <= n
        BY <1>2, <2>1, <4>2, CommentersShrink
      <4> QED
        BY <4>1, <4>2, <4>3 DEF Rest
    <3> QED
      BY <3>1, <3>2
  <2>5. \A x \in Posts \ {y} : Rest(x)
    BY <1>0, <1>2, <2>1, <2>3, OrphansRest DEF Rest
  <2> QED
    BY <2>4, <2>5
<1> QED
  BY <1>3, <1>4, <1>6, <1>7, <1>8, RoutesMove, ReadsMove, CacheMoves, Zenon DEF BoardStep

-----------------------------------------------------------------------------
(* Why a cached value is stale *)

LEMMA ContentSame ==
  ASSUME UNCHANGED rows, NEW k \in Keys
  PROVE  Content(k)' = Content(k)
BY DEF Content, FindByBuilding, Exists, rows

(* A row touches its own detail and the list of its building.              *)
LEMMA ContentElse ==
  ASSUME Inv, NEW x \in Posts, NEW b \in Buildings, NEW k \in Keys \ {x, b},
         \A y \in Posts \ {x} : post'[y] = post[y] /\ live'[y] = live[y],
         post[x] # None => post[x].building = b, post'[x] # None => post'[x].building = b
  PROVE  Content(k)' = Content(k)
<1>1. CASE k \in Buildings
  <2>1. \A y \in Posts : (Exists(y)' /\ post'[y].building = k) <=> (Exists(y) /\ post[y].building = k)
    BY <1>1 DEF Exists
  <2>2. \A y \in Posts : Exists(y) /\ post[y].building = k => post'[y].ver = post[y].ver
    BY <1>1 DEF Exists
  <2>3. FindByBuilding(k)' = FindByBuilding(k)
    BY <2>1, <2>2 DEF FindByBuilding
  <2> QED
    BY <1>1, <2>3 DEF Content
<1>2. CASE k \in Posts /\ k \notin Buildings
  BY <1>2 DEF Content, Exists
<1> QED
  BY <1>1, <1>2 DEF Keys

(* Keys that were not stale are not, or somebody owes them.                *)
LEMMA CacheWrite ==
  ASSUME Inv, NEW p \in Requests, NEW c, Boarding(p, c), UNCHANGED redis,
         call[p].owes = <<>>, NEW K \in SUBSET Keys,
         \A k \in K : Owes(p, k)',
         \A k \in Keys \ K : Content(k)' = Content(k) \/ cache[k] = None,
         \A x \in Posts : post'[x] = None => post[x] = None
  PROVE  CacheSound'
<1>1. ASSUME NEW k \in Keys, IsStale(k)'
      PROVE  excused'[k] \/ \E q \in Requests : Owes(q, k)'
  <2>1. CASE k \in K
    BY <2>1
  <2>2. CASE k \notin K
    <3>1. IsStale(k)
      BY <1>1, <2>2 DEF IsStale, redis
    <3>2. CASE excused[k]
      BY <3>2 DEF redis
    <3>3. ASSUME NEW q \in Requests, Owes(q, k) PROVE Owes(q, k)'
      <4>1. ~Owes(p, k)
        <5>1. Len(call[p].owes) = 0
          OBVIOUS
        <5> QED
          BY <5>1 DEF Owes
      <4>2. call'[q] = call[q]
        BY <3>3, <4>1, MoveFacts DEF Boarding
      <4> QED
        BY <3>3, <4>2 DEF Owes
    <3> QED
      BY <3>1, <3>2, <3>3 DEF Inv, CacheSound, StaleExplained
  <2> QED
    BY <2>1, <2>2
<1>2. \A x \in Posts : post'[x] = None => cache'[x] = None
  BY DEF Inv, CacheSound, redis
<1> QED
  BY <1>1, <1>2 DEF CacheSound, StaleExplained
(* Writes owe the keys whose content they change.                          *)
LEMMA WritesCache ==
  ASSUME Inv, NEW p \in Requests, UNCHANGED propertyVars,
         \/ \E x \in Posts : SavePost(p, x)
         \/ SaveComment(p) \/ SaveEdit(p) \/ SaveDelete(p)
  PROVE  CacheSound'
<1> PICK c : Boarding(p, c)
  BY WritesMove
<1> UNCHANGED redis
  BY WritesMove
<1>1. call[p].op \in {"post", "comment", "edit", "deleting"} /\ call[p].owes = <<>>
  BY CallFacts DEF SavePost, SaveComment, SaveEdit, SaveDelete, CallSound
<1>2. ASSUME NEW x \in Posts, SavePost(p, x) PROVE CacheSound'
  <2> PICK b \in Buildings : b = call[p].on
    BY <1>2, CallFacts DEF SavePost, CallSound
  <2>1. call'[p] = Owing(b, <<b>>)
    BY <1>2 DEF SavePost, KeysOfNewPost, Go, Inv, Types
  <2>2. Owes(p, b)'
    BY <2>1 DEF Owes, Owing, At
  <2>3. post[x] = None /\ post' = [post EXCEPT ![x] = NewPost(call[p].user, b)]
    BY <1>2 DEF SavePost
  <2>4. \A k \in Keys \ {b} : Content(k)' = Content(k) \/ cache[k] = None
    <3>1. cache[x] = None
      BY <2>3 DEF Inv, CacheSound
    <3>2. \A y \in Posts \ {x} : post'[y] = post[y] /\ live'[y] = live[y]
      BY <1>2, <2>3 DEF SavePost, Inv, Types
    <3>3. post'[x].building = b
      BY <2>3 DEF NewPost, Inv, Types
    <3> QED
      BY <2>3, <3>1, <3>2, <3>3, ContentElse
  <2>5. \A y \in Posts : post'[y] = None => post[y] = None
    BY <2>3 DEF Inv, Types
  <2>6. {b} \in SUBSET Keys
    BY DEF Keys
  <2> QED
    BY <1>1, <2>2, <2>4, <2>5, <2>6, CacheWrite
<1>3. ASSUME ~\E x \in Posts : SavePost(p, x) PROVE CacheSound'
  <2> PICK x \in Posts : x = call[p].on /\ post[x] # None
    BY <1>3, CallFacts DEF SaveComment, SaveEdit, SaveDelete, CallSound, PostOps
  <2> PICK b \in Buildings : b = post[x].building
    BY RowFacts DEF Post
  <2>1. {x} \in SUBSET Keys /\ {x, b} \in SUBSET Keys
    BY DEF Keys
  <2>2. CASE SaveComment(p)
    <3>1. call'[p] = Owing(x, <<x>>) /\ post' = post
      BY <2>2 DEF SaveComment, KeysOfComment, Go, Inv, Types
    <3>2. Owes(p, x)'
      BY <3>1 DEF Owes, Owing, At
    <3>3. \A k \in Keys \ {x} : Content(k)' = Content(k)
      <4>1. \A y \in Posts \ {x} : live'[y] = live[y]
        BY <2>2 DEF SaveComment, Inv, Types
      <4> QED
        BY <3>1, <4>1 DEF Content, FindByBuilding, Exists, Keys
    <3> QED
      BY <1>1, <2>1, <3>1, <3>2, <3>3, CacheWrite
  <2>3. CASE SaveEdit(p) \/ SaveDelete(p)
    <3>1. call'[p] = Owing(x, <<x, b>>)
      BY <2>3 DEF SaveEdit, SaveDelete, KeysOfPost, Go, Inv, Types
    <3>2. Owes(p, x)' /\ Owes(p, b)'
      BY <3>1 DEF Owes, Owing, At
    <3>3. /\ \A y \in Posts \ {x} : post'[y] = post[y] /\ live'[y] = live[y]
          /\ post'[x] # None /\ post'[x].building = b
      <4>1. CASE SaveEdit(p)
        BY <4>1, RowFacts DEF SaveEdit, Inv, Types
      <4>2. CASE SaveDelete(p)
        <5>1. x = call[p].on
          OBVIOUS
        <5>2. /\ \A y \in Posts \ {x} : post'[y] = post[y]
              /\ post'[x] # None /\ post'[x].building = b
          BY <4>2, <5>1, RowFacts DEF SaveDelete, Inv, Types
        <5> QED
          BY <4>2, <5>1, <5>2, DeleteFacts
      <4> QED
        BY <2>3, <4>1, <4>2
    <3>4. \A k \in Keys \ {x, b} : Content(k)' = Content(k)
      BY <3>3, ContentElse
    <3>5. \A k \in {x, b} : Owes(p, k)'
      BY <3>2
    <3> QED
      BY <1>1, <2>1, <3>3, <3>4, <3>5, CacheWrite
  <2> QED
    BY <1>3, <2>2, <2>3
<1> QED
  BY <1>2, <1>3

(* What a sequence holds is its head or in its tail.                       *)
LEMMA InTail ==
  ASSUME NEW S, NEW s \in Seq(S), s # <<>>, NEW i \in 1..Len(s), s[i] # Head(s)
  PROVE  i - 1 \in 1..Len(Tail(s)) /\ Tail(s)[i - 1] = s[i] /\ Tail(s) # <<>>
<1>1. i # 1
  OBVIOUS
<1>2. Len(Tail(s)) = Len(s) - 1 /\ i - 1 \in 1..Len(Tail(s))
  BY <1>1
<1>3. Tail(s)[i - 1] = s[i]
  BY <1>2
<1>4. Tail(s) # <<>>
  <2>1. Len(Tail(s)) # 0
    BY <1>2
  <2>2. Len(<<>>) = 0
    OBVIOUS
  <2> QED
    BY <2>1, <2>2, Zenon
<1> QED
  BY <1>2, <1>3, <1>4

(* A DEL pays what is owed; a store and a failure are noted as excuses.    *)
LEMMA CacheStep ==
  ASSUME Inv, NEW p \in Requests, UNCHANGED propertyVars,
         Invalidate(p) \/ StoreLoaded(p) \/ RequestFails(p)
  PROVE  CacheSound'
<1>1. UNCHANGED rows
  BY CacheMoves
<1>2. PICK c : Boarding(p, c)
  BY CacheMoves
<1>3. \A k \in Keys : Content(k)' = Content(k)
  BY <1>1, ContentSame
<1>4. \A k \in Keys : \A q \in Requests \ {p} : Owes(q, k) => Owes(q, k)'
  BY <1>2, MoveFacts DEF Boarding, Owes
<1>5. SUFFICES ASSUME NEW k \in Keys
               PROVE  /\ IsStale(k)' => excused'[k] \/ \E q \in Requests : Owes(q, k)'
                      /\ k \in Posts /\ post[k] = None => cache'[k] = None
  BY <1>1 DEF CacheSound, StaleExplained, Keys, rows
<1>6. /\ IsStale(k) => excused[k] \/ \E q \in Requests : Owes(q, k)
      /\ k \in Posts /\ post[k] = None => cache[k] = None
  BY DEF Inv, CacheSound, StaleExplained
<1>7. CASE Invalidate(p)
  <2>1. PICK keys \in Seq(Keys) : keys = call[p].owes /\ keys # <<>>
    BY <1>7, CallFacts DEF Invalidate, CallSound, CallType
  <2>2. CASE k = Head(keys)
    BY <1>7, <2>1, <2>2 DEF Invalidate, Del, IsStale, Inv, Types
  <2>3. CASE k # Head(keys)
    <3>1. cache'[k] = cache[k] /\ excused'[k] = excused[k]
      BY <1>7, <2>1, <2>3 DEF Invalidate, Del, Inv, Types
    <3>2. ASSUME Owes(p, k) PROVE Owes(p, k)'
      <4>1. PICK i \in 1..Len(keys) : keys[i] = k
        BY <2>1, <3>2 DEF Owes
      <4>2. i - 1 \in 1..Len(Tail(keys)) /\ Tail(keys)[i - 1] = k /\ Tail(keys) # <<>>
        BY <2>1, <2>3, <4>1, InTail
      <4>3. call'[p] = [call[p] EXCEPT !.owes = Tail(keys)]
        BY <1>7, <2>1, <4>2 DEF Invalidate, Go, Inv, Types
      <4>4. call'[p].owes = Tail(keys)
        BY <4>3, CallFacts DEF CallType
      <4> QED
        BY <4>2, <4>4 DEF Owes
    <3> QED
      BY <1>3, <1>4, <1>6, <3>1, <3>2 DEF IsStale
  <2> QED
    BY <2>2, <2>3
<1>8. ASSUME call[p].op = "store" PROVE ~Owes(p, k)
  <2>1. call[p].owes = <<>> /\ Len(call[p].owes) = 0
    BY <1>8, CallFacts DEF CallSound
  <2> QED
    BY <2>1 DEF Owes
<1>9. CASE StoreLoaded(p)
  <2>1. call[p].op = "store" /\ Store(call[p].on, call[p].held)
    BY <1>9 DEF StoreLoaded
  <2>2. CASE k = call[p].on
    <3>1. cache'[k] = call[p].held /\ excused'[k] = (call[p].held # Content(k))
      BY <2>1, <2>2 DEF Store, Inv, Types
    <3>2. k \in Posts => post[k] # None
      BY <2>1, <2>2, CallFacts, BoardAssumption DEF CallSound
    <3> QED
      BY <1>3, <3>1, <3>2 DEF IsStale
  <2>3. CASE k # call[p].on
    <3>1. cache'[k] = cache[k] /\ excused'[k] = excused[k]
      BY <2>1, <2>3 DEF Store, Inv, Types
    <3> QED
      BY <1>3, <1>4, <1>6, <1>8, <2>1, <3>1 DEF IsStale
  <2> QED
    BY <2>2, <2>3
<1>10. CASE RequestFails(p)
  <2>1. cache' = cache /\ excused'[k] = (excused[k] \/ (Owes(p, k) /\ cache[k] # None))
    BY <1>10 DEF RequestFails
  <2> QED
    BY <1>3, <1>4, <1>6, <2>1 DEF IsStale
<1> QED
  BY <1>7, <1>9, <1>10
-----------------------------------------------------------------------------
(* The board *)

LEMMA BoardTypes ==
  ASSUME Inv, NEW p \in Requests, UNCHANGED propertyVars, BoardStep(p), NoteMembers
  PROVE  Types'
<1>1. PropertyTypeOK'
  BY DEF Inv, Types, PropertyTypeOK, propertyVars
<1>2. call' \in [Requests -> CallType] /\ was' \in [Requests -> BOOLEAN]
  BY BoardMoves, MoveFacts DEF Boarding, NoteMembers
<1> DEFINE RowsOK ==
             /\ post' \in [Posts -> Post \cup {None}]
             /\ comments' \in [Posts -> 0..MaxWrites]
             /\ live' \in [Posts -> Nat] /\ \A x \in Posts : live'[x] <= comments'[x]
             /\ late' \in [Posts -> Nat]
           CacheOK ==
             /\ cache' \in [Keys -> Detail \cup List \cup {None}]
             /\ \A x \in Posts : cache'[x] \in Detail \cup {None}
             /\ \A b \in Buildings : cache'[b] \in List \cup {None}
             /\ excused' \in [Keys -> BOOLEAN]
<1>3. UNCHANGED rows => RowsOK
  BY DEF rows, Inv, Types
<1>4. UNCHANGED redis => CacheOK
  BY DEF redis, Inv, Types
<1>5. ASSUME NEW x \in Posts, SavePost(p, x) PROVE RowsOK
  <2>1. call[p].user \in Users /\ call[p].on \in Buildings
    BY <1>5, CallFacts DEF SavePost, CallSound
  <2>2. NewPost(call[p].user, call[p].on) \in Post
    BY <2>1, BoardAssumption DEF NewPost, Post
  <2> QED
    BY <1>5, <2>2 DEF SavePost, Inv, Types
<1>6. ASSUME SaveComment(p) \/ SaveEdit(p) \/ SaveDelete(p) PROVE RowsOK
  <2> PICK x \in Posts : x = call[p].on /\ post[x] # None
    BY <1>6, CallFacts DEF SaveComment, SaveEdit, SaveDelete, CallSound, PostOps
  <2>0. /\ post \in [Posts -> Post \cup {None}] /\ comments \in [Posts -> 0..MaxWrites]
        /\ live \in [Posts -> Nat] /\ late \in [Posts -> Nat]
        /\ \A y \in Posts : live[y] <= comments[y] /\ comments[y] \in Nat
    BY BoardAssumption DEF Inv, Types
  <2>1. CASE SaveComment(p)
    <3>1. /\ post' = post /\ late' = late
          /\ live' = [live EXCEPT ![x] = live[x] + 1]
          /\ comments' = [comments EXCEPT ![x] = comments[x] + 1]
          /\ post[x].ver + comments[x] < MaxWrites
      BY <2>1 DEF SaveComment
    <3>2. comments[x] + 1 \in 0..MaxWrites
      <4>1. post[x].ver \in Nat
        BY RowFacts DEF Post
      <4> QED
        BY <2>0, <3>1, <4>1, BoardAssumption
    <3> QED
      BY <2>0, <3>1, <3>2
  <2>2. CASE SaveEdit(p)
    BY <2>0, <2>2, RowFacts DEF SaveEdit
  <2>3. CASE SaveDelete(p)
    <3>1. post' \in [Posts -> Post \cup {None}] /\ comments' = comments
      BY <2>0, <2>3, RowFacts DEF SaveDelete
    <3>2. x = call[p].on
      OBVIOUS
    <3>3. live' \in [Posts -> Nat] /\ late' \in [Posts -> Nat]
      BY <2>3, <3>2, DeleteFacts
    <3>4. \A y \in Posts : live'[y] <= live[y]
      BY <2>0, <2>3, <3>2, DeleteFacts
    <3> QED
      BY <2>0, <3>1, <3>3, <3>4
  <2> QED
    BY <1>6, <2>1, <2>2, <2>3
<1>7. ASSUME Invalidate(p) \/ StoreLoaded(p) \/ RequestFails(p) PROVE CacheOK
  <2>1. CASE Invalidate(p)
    <3>1. PICK k : k = Head(call[p].owes)
      OBVIOUS
    <3>2. /\ cache' = [cache EXCEPT ![k] = None]
          /\ excused' = [excused EXCEPT ![k] = FALSE]
      BY <2>1, <3>1 DEF Invalidate, Del
    <3>3. cache' \in [Keys -> Detail \cup List \cup {None}]
      BY <3>2 DEF Inv, Types
    <3>4. excused' \in [Keys -> BOOLEAN]
      BY <3>2 DEF Inv, Types
    <3> QED
      BY <3>2, <3>3, <3>4 DEF Inv, Types, Keys
  <2>2. CASE StoreLoaded(p)
    <3>1. /\ Store(call[p].on, call[p].held)
          /\ \/ call[p].on \in Posts /\ call[p].held \in Detail
             \/ call[p].on \in Buildings /\ call[p].held \in List
      BY <2>2, CallFacts DEF StoreLoaded, CallSound
    <3> QED
      BY <3>1, BoardAssumption DEF Store, Inv, Types, Keys
  <2>3. CASE RequestFails(p)
    <3>1. cache' = cache /\ excused' \in [Keys -> BOOLEAN]
      BY <2>3 DEF RequestFails, Inv, Types
    <3> QED
      BY <3>1 DEF Inv, Types
  <2> QED
    BY <1>7, <2>1, <2>2, <2>3
<1> HIDE DEF RowsOK, CacheOK
<1>8. RowsOK
  BY <1>3, <1>5, <1>6, RoutesMove, ReadsMove, CacheMoves, Zenon DEF BoardStep
<1>9. UNCHANGED redis \/ CacheOK
  BY <1>7, RoutesMove, ReadsMove, WritesMove, Zenon DEF BoardStep
<1> QED
  BY <1>1, <1>2, <1>4, <1>8, <1>9 DEF Types, RowsOK, CacheOK

LEMMA BoardInv ==
  ASSUME Inv, NEW p \in Requests, UNCHANGED propertyVars, BoardStep(p), NoteMembers
  PROVE  Inv'
<1>1. PICK c : Boarding(p, c)
  BY BoardMoves
<1>2. Types' /\ CallsSound' /\ OrphansSound'
  BY <1>1, BoardTypes, MoveFacts, OrphansStep, DeletionsStep DEF Boarding, OrphansSound
<1>3. CodesAccounted' /\ LeasesSound'
  BY <1>1, BoardKeepsProperty
<1>4. MembersSound'
  BY <1>1, MembersStep DEF Boarding
<1>5. ASSUME UNCHANGED <<rows, redis>>, call[p].owes = <<>> PROVE CacheSound'
  <2>1. {} \in SUBSET Keys /\ UNCHANGED redis /\ \A k \in {} : Owes(p, k)'
    BY <1>5
  <2>2. \A k \in Keys \ {} : Content(k)' = Content(k) \/ cache[k] = None
    BY <1>5, ContentSame
  <2>3. \A x \in Posts : post'[x] = None => post[x] = None
    BY <1>5 DEF rows
  <2> QED
    BY <1>1, <1>5, <2>1, <2>2, <2>3, CacheWrite
<1>6. ASSUME NEW u \in Users, PostRoutes(p, u) \/ CommentRoutes(p, u) PROVE CacheSound'
  <2>1. call[p] = Idle
    BY <1>6 DEF PostRoutes, CommentRoutes, CreatePost, ListPosts, GetPost, UpdatePost,
                DeletePost, CreateComment
  <2> QED
    BY <1>5, <1>6, <2>1, RoutesMove DEF Idle, At
<1>7. ASSUME \/ CheckCommenter(p) \/ AuthorizeHit(p) \/ FindPost(p) \/ AuthorizeMiss(p)
             \/ FindComments(p) \/ GetList(p) \/ LoadSummaries(p) \/ Answer(p)
             \/ DeleteComments(p)
      PROVE  CacheSound'
  <2>1. call[p].op # "del"
    BY <1>7 DEF CheckCommenter, AuthorizeHit, FindPost, AuthorizeMiss, FindComments, GetList,
                LoadSummaries, Answer, DeleteComments
  <2>2. call[p].owes = <<>>
    BY <2>1, CallFacts DEF CallSound
  <2>3. UNCHANGED <<rows, redis>>
    BY <1>7, ReadsMove, Zenon
  <2> QED
    BY <1>5, <2>2, <2>3
<1>8. CacheSound'
  BY <1>6, <1>7, WritesCache, CacheStep, Zenon DEF BoardStep
<1> QED
  BY <1>2, <1>3, <1>4, <1>8 DEF Inv

(* An expired key is stale no more; nothing else changes.                  *)
LEMMA ExpireInv ==
  ASSUME Inv, NEW k \in Keys, ExpireKey(k), UNCHANGED propertyVars, NoteMembers
  PROVE  Inv'
<1> USE DEF ExpireKey, Del, rows, propertyVars
<1>1. Types'
  BY DEF Inv, Types, PropertyTypeOK, NoteMembers
<1>2. CallsSound' /\ CodesAccounted' /\ OrphansSound' /\ LeasesSound'
  BY DEF Inv, CallsSound, CallSound, CodesAccounted, Redeemers, OrphansSound, OrphansExplained, DeletionsSound, Commenters,
         LeasesSound, Enders
<1>3. MembersSound'
  BY DEF Inv, MembersSound, NoteMembers, PastTheCheck, ReaderOps, BoardOps
<1>4. CacheSound'
  <2>1. \A j \in Keys : Content(j)' = Content(j)
    BY ContentSame
  <2>2. \A j \in Keys \ {k} : cache'[j] = cache[j] /\ excused'[j] = excused[j]
    BY DEF Inv, Types
  <2>3. cache'[k] = None
    BY DEF Inv, Types
  <2>4. \A q \in Requests, j \in Keys : Owes(q, j)' = Owes(q, j)
    BY DEF Owes
  <2> QED
    BY <2>1, <2>2, <2>3, <2>4 DEF Inv, CacheSound, StaleExplained, IsStale, Keys
<1> QED
  BY <1>1, <1>2, <1>3, <1>4 DEF Inv
-----------------------------------------------------------------------------
(* The property side *)

(* An owner's routes that only add rows nobody had.                        *)
LEMMA OwnerInv ==
  ASSUME Inv, NEW u \in Users, BuildingRoutes(u) \/ UnitRoutes(u),
         UNCHANGED <<rows, redis>>, NoteMembers
  PROVE  Inv'
<1> USE DEF BuildingRoutes, UnitRoutes, CreateBuilding, CreateUnit, SaveBuilding, SaveUnit, rows, redis
<1>1. UNCHANGED <<invite, lease, ends, fate, joins, call>>
  OBVIOUS
<1>2. Types'
  <2>1. ownerOf' \in [Buildings -> Users \cup {None}]
    BY DEF Inv, Types, PropertyTypeOK
  <2>2. buildingOf' \in [Units -> Buildings \cup {None}]
    BY DEF Inv, Types, PropertyTypeOK
  <2> QED
    BY <1>1, <2>1, <2>2 DEF Inv, Types, PropertyTypeOK, NoteMembers
<1>3. CallsSound' /\ CodesAccounted' /\ OrphansSound' /\ LeasesSound'
  BY <1>1 DEF Inv, CallsSound, CallSound, CodesAccounted, Redeemers, OrphansSound, OrphansExplained, DeletionsSound, Commenters,
         LeasesSound, Enders
<1>4. MembersSound'
  BY <1>1 DEF Inv, MembersSound, NoteMembers, PastTheCheck, ReaderOps, BoardOps
<1>5. CacheSound'
  <2>1. \A j \in Keys : Content(j)' = Content(j)
    BY ContentSame
  <2>2. \A q \in Requests, j \in Keys : Owes(q, j)' = Owes(q, j)
    BY <1>1 DEF Owes
  <2> QED
    BY <2>1, <2>2 DEF Inv, CacheSound, StaleExplained, IsStale
<1> QED
  BY <1>2, <1>3, <1>4, <1>5 DEF Inv

(* What every other step of the property side leaves to be shown.          *)
LEMMA PropertyRest ==
  ASSUME Inv, UNCHANGED <<rows, redis>>, NoteMembers, PropertyTypeOK', CodesAccounted', LeasesSound',
         \/ UNCHANGED <<call, lease>>
         \/ \E p \in Requests : \E c :
              Move(p, c) /\ call[p].op \in {"idle", "join", "end"} /\ c.op \in {"idle", "join", "end"}
  PROVE  Inv'
<1>1. CASE UNCHANGED <<call, lease>>
  <2>1. Types'
    BY <1>1 DEF Inv, Types, NoteMembers, rows, redis
  <2>2. CallsSound' /\ OrphansSound'
    BY <1>1 DEF Inv, CallsSound, CallSound, OrphansSound, OrphansExplained, DeletionsSound, Commenters, rows
  <2>3. MembersSound'
    BY <1>1 DEF Inv, MembersSound, NoteMembers, PastTheCheck, ReaderOps, BoardOps
  <2>4. CacheSound'
    <3>1. \A j \in Keys : Content(j)' = Content(j)
      BY ContentSame
    <3>2. \A q \in Requests, j \in Keys : Owes(q, j)' = Owes(q, j)
      BY <1>1 DEF Owes
    <3> QED
      BY <3>1, <3>2 DEF Inv, CacheSound, StaleExplained, IsStale, rows, redis
  <2> QED
    BY <2>1, <2>2, <2>3, <2>4 DEF Inv
<1>2. ASSUME NEW p \in Requests, NEW c, Move(p, c),
             call[p].op \in {"idle", "join", "end"}, c.op \in {"idle", "join", "end"}
      PROVE  Inv'
  <2>1. CallsSound' /\ call' \in [Requests -> CallType]
    BY <1>2, MoveFacts
  <2>2. MembersSound' /\ was' \in [Requests -> BOOLEAN]
    BY <1>2, MembersStep
  <2>3. Types'
    BY <2>1, <2>2 DEF Inv, Types, rows, redis
  <2>4. OrphansSound'
    <3>1. \A x \in Posts : Commenters(x)' = Commenters(x)
      BY <1>2, MoveFacts DEF Commenters
    <3>2. OrphansExplained'
      BY <3>1 DEF Inv, OrphansSound, OrphansExplained, rows
    <3>3. DeletionsSound'
      BY <1>2, MoveFacts DEF Inv, OrphansSound, DeletionsSound, rows
    <3> QED
      BY <3>2, <3>3 DEF OrphansSound
  <2>5. CacheSound'
    <3>1. \A j \in Keys : Content(j)' = Content(j)
      BY ContentSame
    <3>2. call[p].owes = <<>> /\ Len(<<>>) = 0
      BY <1>2, CallFacts DEF CallSound
    <3>3. \A j \in Keys : ~Owes(p, j)
      BY <3>2 DEF Owes
    <3>4. ASSUME NEW q \in Requests, NEW j \in Keys, Owes(q, j) PROVE Owes(q, j)'
      <4>1. call'[q] = call[q]
        BY <1>2, <3>3, <3>4, MoveFacts
      <4> QED
        BY <3>4, <4>1 DEF Owes
    <3> QED
      BY <3>1, <3>4 DEF Inv, CacheSound, StaleExplained, IsStale, rows, redis
  <2> QED
    BY <2>1, <2>2, <2>3, <2>4, <2>5 DEF Inv
<1> QED
  BY <1>1, <1>2

(* A code that is issued, looked at or expires.                            *)
LEMMA CodeInv ==
  ASSUME Inv, NEW c \in Codes, UNCHANGED <<rows, redis>>, NoteMembers,
         \/ \E u \in Users, x \in Units : IssueInviteCode(u, x, c)
         \/ PreviewInviteCode(c) \/ ExpireInvite(c)
  PROVE  Inv'
<1> USE DEF IssueInviteCode, Issue, PreviewInviteCode, Peek, ExpireInvite
<1>1. UNCHANGED <<ownerOf, buildingOf, lease, ends, joins, call>>
  OBVIOUS
<1>2. PropertyTypeOK'
  BY <1>1 DEF Inv, Types, PropertyTypeOK
<1>3. LeasesSound'
  BY <1>1 DEF Inv, LeasesSound, Enders
<1>4. CodesAccounted'
  <2>1. \A d \in Codes : Redeemers(d)' = Redeemers(d)
    BY <1>1 DEF Redeemers
  <2>2. \A d \in Codes \ {c} : invite'[d] = invite[d] /\ fate'[d] = fate[d] /\ joins'[d] = joins[d]
    BY <1>1 DEF Inv, Types, PropertyTypeOK
  <2>3. ASSUME NEW u \in Users, NEW x \in Units, IssueInviteCode(u, x, c)
        PROVE  CodesAccounted'
    <3>1. fate[c] = "unused" /\ fate'[c] = "issued" /\ invite'[c] = x /\ x # None /\ joins'[c] = joins[c]
      BY <1>1, <2>3, PropertyAssumption DEF Inv, Types, PropertyTypeOK
    <3> QED
      BY <2>1, <2>2, <3>1 DEF Inv, CodesAccounted
  <2>4. ASSUME ExpireInvite(c) PROVE CodesAccounted'
    <3>1. invite[c] # None /\ fate'[c] = "expired" /\ invite'[c] = None /\ joins'[c] = joins[c]
      BY <1>1, <2>4 DEF Inv, Types, PropertyTypeOK
    <3> QED
      BY <2>1, <2>2, <3>1 DEF Inv, CodesAccounted
  <2>5. ASSUME PreviewInviteCode(c) PROVE CodesAccounted'
    BY <2>1, <2>5 DEF Inv, CodesAccounted
  <2> QED
    BY <2>3, <2>4, <2>5
<1> QED
  BY <1>1, <1>2, <1>3, <1>4, PropertyRest
(* The move of a request of the property side.                             *)
LEMMA LeaseMove ==
  ASSUME Inv, NEW p \in Requests, NEW c, Go(p, c), c \in CallType, CallSound(c),
         c.op \in {"idle", "join", "end"}, UNCHANGED rows,
         \A l \in Leases : lease[l] # None => lease'[l] # None
  PROVE  Move(p, c)
BY DEF Move, PastTheCheck, rows

(* A request enters: it has consumed a code, or found a lease.             *)
LEMMA EnterInv ==
  ASSUME Inv, NEW p \in Requests, NEW u \in Users, UNCHANGED <<rows, redis>>, NoteMembers,
         \/ \E x \in Codes : RedeemCode(p, u, x)
         \/ \E l \in Leases : FindLease(p, u, l)
  PROVE  Inv'
<1> USE CallFacts
<1>1. ASSUME NEW x \in Codes, RedeemCode(p, u, x) PROVE Inv'
  <2> PICK c : c = At("join", u, invite[x], x, <<>>)
    OBVIOUS
  <2>1. invite[x] \in Units /\ call[p].op = "idle" /\ Go(p, c)
    BY <1>1 DEF RedeemCode, Inv, Types, PropertyTypeOK
  <2>2. c.op = "join" /\ c.held = x /\ c \in CallType /\ CallSound(c)
    BY <2>1 DEF At, CallType, CallSound, PostOps
  <2>3. Move(p, c)
    BY <1>1, <2>1, <2>2, LeaseMove DEF RedeemCode
  <2>4. PropertyTypeOK'
    BY <1>1 DEF RedeemCode, GetDel, Inv, Types, PropertyTypeOK
  <2>5. LeasesSound'
    <3>1. \A l \in Leases : Enders(l)' = Enders(l)
      BY <2>1, <2>2, <2>3, MoveFacts DEF Enders
    <3> QED
      BY <1>1, <3>1 DEF RedeemCode, Inv, LeasesSound
  <2>6. CodesAccounted'
    <3>1. \A y \in Codes \ {x} : invite'[y] = invite[y] /\ Redeemers(y)' = Redeemers(y)
      <4>1. \A y \in Codes \ {x} : invite'[y] = invite[y]
        BY <1>1 DEF RedeemCode, GetDel, Inv, Types, PropertyTypeOK
      <4>2. \A y \in Codes \ {x} : Redeemers(y)' = Redeemers(y)
        BY <2>1, <2>2, <2>3, MoveFacts DEF Redeemers
      <4> QED
        BY <4>1, <4>2
    <3>2. fate[x] = "issued" /\ joins[x] = 0 /\ Redeemers(x) = {}
      BY <1>1 DEF RedeemCode, Inv, CodesAccounted
    <3>3. Redeemers(x)' = {p} /\ invite'[x] = None
      BY <1>1, <2>1, <2>2, <2>3, <3>2, MoveFacts DEF RedeemCode, GetDel, Redeemers, Inv, Types, PropertyTypeOK
    <3> QED
      BY <1>1, <3>1, <3>2, <3>3 DEF RedeemCode, Inv, CodesAccounted
  <2> QED
    BY <2>1, <2>2, <2>3, <2>4, <2>5, <2>6, PropertyRest
<1>2. ASSUME NEW l \in Leases, FindLease(p, u, l) PROVE Inv'
  <2> PICK c : c = At("end", u, l, None, <<>>)
    OBVIOUS
  <2>1. call[p].op = "idle" /\ Go(p, c) /\ lease[l] # None /\ lease[l].status = "ACTIVE"
    BY <1>2 DEF FindLease, MayEnd
  <2>2. c.op = "end" /\ c.on = l /\ c \in CallType /\ CallSound(c)
    BY <2>1 DEF At, CallType, CallSound, PostOps
  <2>3. Move(p, c)
    BY <1>2, <2>1, <2>2, LeaseMove DEF FindLease, propertyVars
  <2>4. PropertyTypeOK'
    BY <1>2 DEF FindLease, propertyVars, Inv, Types, PropertyTypeOK
  <2>5. CodesAccounted'
    <3>1. \A y \in Codes : Redeemers(y)' = Redeemers(y)
      BY <2>1, <2>2, <2>3, MoveFacts DEF Redeemers
    <3> QED
      BY <1>2, <3>1 DEF FindLease, propertyVars, Inv, CodesAccounted
  <2>6. LeasesSound'
    <3>1. \A k \in Leases \ {l} : Enders(k)' = Enders(k)
      BY <2>1, <2>2, <2>3, MoveFacts DEF Enders
    <3>2. ends[l] = 0
      BY <2>1 DEF Inv, LeasesSound
    <3>3. Cardinality(Enders(l))' <= Cardinality(Requests) /\ Cardinality(Enders(l))' \in Nat
      <4>1. Enders(l)' \subseteq Requests
        BY DEF Enders
      <4> QED
        BY <4>1, FS_Subset, FS_CardinalityType, PropertyAssumption
    <3> QED
      BY <1>2, <2>1, <3>1, <3>2, <3>3 DEF FindLease, propertyVars, Inv, LeasesSound
  <2> QED
    BY <2>1, <2>2, <2>3, <2>4, <2>5, <2>6, PropertyRest
<1> QED
  BY <1>1, <1>2

(* A request leaves: its transaction commits or fails.                     *)
LEMMA LeaveInv ==
  ASSUME Inv, NEW p \in Requests, UNCHANGED <<rows, redis>>, NoteMembers,
         \/ \E l \in Leases : SaveLease(p, l)
         \/ JoinFails(p) \/ EndLease(p) \/ EndFails(p)
  PROVE  Inv'
<1> USE CallFacts
<1>1. call[p].op \in {"join", "end"} /\ Go(p, Idle)
  BY DEF SaveLease, JoinFails, EndLease, EndFails
<1>2. /\ call[p].op = "join" => call[p].user \in Users /\ call[p].on \in Units /\ call[p].held \in Codes
      /\ call[p].op = "end" => call[p].on \in Leases /\ lease[call[p].on] # None
  BY DEF CallSound
<1>3. ASSUME NEW l \in Leases, lease[l] # None
      PROVE  lease[l] \in Lease /\ Ended(l) \in Lease /\ Ended(l) # None /\ Ended(l).status = "ENDED"
  <2>1. lease[l] \in Lease
    BY <1>3 DEF Inv, Types, PropertyTypeOK
  <2>2. Ended(l) \in Lease /\ Ended(l).status = "ENDED"
    BY <2>1 DEF Lease, Ended
  <2> QED
    BY <2>1, <2>2, PropertyAssumption
<1>4. PropertyTypeOK' /\ \A l \in Leases : lease[l] # None => lease'[l] # None
  <2>1. ASSUME NEW l \in Leases, SaveLease(p, l)
        PROVE  /\ PropertyTypeOK'
               /\ \A k \in Leases : lease[k] # None => lease'[k] # None
    <3>1. NewLease(call[p].on, call[p].user) \in Lease
      BY <1>2, <2>1 DEF SaveLease, NewLease, Lease
    <3>2. lease' \in [Leases -> Lease \cup {None}]
      BY <2>1, <3>1 DEF SaveLease, Inv, Types, PropertyTypeOK
    <3>3. joins' \in [Codes -> Nat]
      BY <1>2, <2>1 DEF SaveLease, Inv, Types, PropertyTypeOK
    <3>4. PropertyTypeOK'
      BY <2>1, <3>2, <3>3 DEF SaveLease, Inv, Types, PropertyTypeOK
    <3> QED
      BY <2>1, <3>1, <3>4, PropertyAssumption DEF SaveLease, Inv, Types, PropertyTypeOK
  <2>2. CASE JoinFails(p)
    BY <1>2, <2>2 DEF JoinFails, Inv, Types, PropertyTypeOK
  <2>3. CASE EndLease(p)
    <3> PICK l \in Leases : l = call[p].on /\ lease[l] # None
      BY <1>2, <2>3 DEF EndLease
    <3>1. lease' = [lease EXCEPT ![l] = Ended(l)] /\ ends' = [ends EXCEPT ![l] = ends[l] + 1]
      BY <2>3 DEF EndLease
    <3>2. lease' \in [Leases -> Lease \cup {None}] /\ ends' \in [Leases -> Nat]
      BY <1>3, <3>1 DEF Inv, Types, PropertyTypeOK
    <3>3. PropertyTypeOK'
      BY <2>3, <3>2 DEF EndLease, Inv, Types, PropertyTypeOK
    <3> QED
      BY <1>3, <3>1, <3>3 DEF Inv, Types, PropertyTypeOK
  <2>4. CASE EndFails(p)
    BY <2>4 DEF EndFails, propertyVars, Inv, Types, PropertyTypeOK
  <2> QED
    BY <2>1, <2>2, <2>3, <2>4
<1>5. Move(p, Idle)
  BY <1>1, <1>4, LeaseMove
<1>6. CodesAccounted'
  <2>1. ASSUME call[p].op = "end" PROVE CodesAccounted'
    <3>1. \A y \in Codes : Redeemers(y)' = Redeemers(y)
      BY <1>5, <2>1, MoveFacts DEF Redeemers
    <3>2. UNCHANGED <<invite, fate, joins>>
      BY <2>1 DEF SaveLease, JoinFails, EndLease, EndFails, propertyVars
    <3> QED
      BY <3>1, <3>2 DEF Inv, CodesAccounted
  <2>2. ASSUME call[p].op = "join" PROVE CodesAccounted'
    <3> PICK x \in Codes : x = call[p].held
      BY <1>2, <2>2
    <3>1. \A y \in Codes \ {x} : Redeemers(y)' = Redeemers(y)
      BY <1>5, MoveFacts DEF Redeemers
    <3>2. p \in Redeemers(x)
      BY <2>2 DEF Redeemers
    <3>3. fate[x] = "issued" /\ invite[x] = None /\ joins[x] = 0 /\ \E q \in Requests : Redeemers(x) = {q}
      BY <3>2 DEF Inv, CodesAccounted
    <3>4. Redeemers(x)' = {}
      BY <1>5, <3>2, <3>3, MoveFacts DEF Redeemers
    <3>5. invite' = invite
      BY <2>2 DEF SaveLease, JoinFails, EndLease, EndFails
    <3>6. \A y \in Codes \ {x} : fate'[y] = fate[y] /\ joins'[y] = joins[y]
      BY <2>2 DEF SaveLease, JoinFails, EndLease, EndFails, Inv, Types, PropertyTypeOK
    <3>7. \/ fate'[x] = fate[x] /\ joins'[x] = 1
          \/ fate'[x] = "lost" /\ joins'[x] = joins[x]
      BY <2>2, <3>3 DEF SaveLease, JoinFails, EndLease, EndFails, Inv, Types, PropertyTypeOK
    <3> QED
      BY <3>1, <3>3, <3>4, <3>5, <3>6, <3>7 DEF Inv, CodesAccounted
  <2> QED
    BY <1>1, <2>1, <2>2
<1>7. LeasesSound'
  <2>1. ASSUME call[p].op = "join" \/ EndFails(p) \/ JoinFails(p) PROVE LeasesSound'
    <3>1. \A l \in Leases : /\ Enders(l)' \subseteq Enders(l)
                            /\ Cardinality(Enders(l))' \in Nat /\ Cardinality(Enders(l)) \in Nat
                            /\ Cardinality(Enders(l))' <= Cardinality(Enders(l))
      <4> TAKE l \in Leases
      <4>1. Enders(l) \subseteq Requests /\ Enders(l)' \subseteq Enders(l)
        BY <1>5, MoveFacts DEF Enders
      <4> QED
        BY <4>1, FS_Subset, FS_CardinalityType, PropertyAssumption
    <3>2. ends' = ends
      BY <2>1 DEF SaveLease, JoinFails, EndLease, EndFails, propertyVars
    <3>3. \A l \in Leases :
            \/ lease'[l] = lease[l]
            \/ lease[l] = None /\ lease'[l] # None /\ lease'[l].status = "ACTIVE"
      <4>1. ASSUME NEW k \in Leases, SaveLease(p, k)
            PROVE  \A l \in Leases :
                      \/ lease'[l] = lease[l]
                      \/ lease[l] = None /\ lease'[l] # None /\ lease'[l].status = "ACTIVE"
        <5>1. NewLease(call[p].on, call[p].user) \in Lease
          BY <1>2, <4>1 DEF SaveLease, NewLease, Lease
        <5> QED
          BY <4>1, <5>1, PropertyAssumption DEF SaveLease, NewLease, Inv, Types, PropertyTypeOK
      <4> QED
        BY <2>1, <4>1 DEF JoinFails, EndLease, EndFails, propertyVars
    <3>4. ends \in [Leases -> Nat] /\ Cardinality(Requests) \in Nat
      BY FS_CardinalityType, PropertyAssumption DEF Inv, Types, PropertyTypeOK
    <3> QED
      BY <3>1, <3>2, <3>3, <3>4 DEF Inv, LeasesSound
  <2>2. ASSUME EndLease(p) PROVE LeasesSound'
    <3> PICK l \in Leases : l = call[p].on /\ lease[l] # None
      BY <1>2, <2>2 DEF EndLease
    <3>1. /\ lease'[l] = Ended(l) /\ ends'[l] = ends[l] + 1 /\ ends[l] \in Nat
          /\ \A k \in Leases \ {l} : lease'[k] = lease[k] /\ ends'[k] = ends[k]
      BY <2>2 DEF EndLease, Inv, Types, PropertyTypeOK
    <3>2. \A k \in Leases \ {l} : Enders(k)' = Enders(k)
      BY <1>5, MoveFacts DEF Enders
    <3>3. Enders(l)' = Enders(l) \ {p} /\ p \in Enders(l) /\ Enders(l) \subseteq Requests
      BY <1>5, <2>2, MoveFacts DEF Enders, EndLease
    <3>4. /\ Cardinality(Enders(l))' = Cardinality(Enders(l)) - 1
          /\ Cardinality(Enders(l)) \in Nat /\ Cardinality(Requests) \in Nat
      BY <3>3, FS_Subset, FS_CardinalityType, FS_RemoveElement, PropertyAssumption
    <3>5. ends[l] + Cardinality(Enders(l)) <= Cardinality(Requests)
      BY DEF Inv, LeasesSound
    <3> QED
      BY <1>3, <3>1, <3>2, <3>4, <3>5 DEF Inv, LeasesSound
  <2> QED
    BY <1>1, <2>1, <2>2 DEF SaveLease, JoinFails
<1> QED
  BY <1>1, <1>4, <1>5, <1>6, <1>7, PropertyRest

-----------------------------------------------------------------------------
(* The theorems *)

LEMMA StepInv == Inv /\ [Next]_vars => Inv'
<1> SUFFICES ASSUME Inv, [Next]_vars PROVE Inv'
  OBVIOUS
<1>1. CASE BoardNext
  BY <1>1, BoardInv, ExpireInv, Zenon DEF BoardNext
<1>2. CASE PropertyNext /\ UNCHANGED <<rows, redis>> /\ NoteMembers
  BY <1>2, OwnerInv, CodeInv, EnterInv, LeaveInv, Zenon
     DEF PropertyNext, InviteRoutes, LeaseRoutes
<1>3. CASE UNCHANGED vars
  <2>1. Types'
    BY <1>3 DEF vars, propertyVars, boardVars, Inv, Types, PropertyTypeOK
  <2>2. CallsSound' /\ CodesAccounted' /\ LeasesSound' /\ OrphansSound'
    BY <1>3 DEF vars, propertyVars, boardVars, Inv, CallsSound, CallSound, CodesAccounted,
                Redeemers, LeasesSound, Enders, OrphansSound, OrphansExplained, DeletionsSound, Commenters
  <2>3. MembersSound'
    BY <1>3 DEF vars, propertyVars, boardVars, Inv, MembersSound, MemberNow, BuildingAt, IsMember,
                IsOwnedBy, HasActiveLease
  <2>4. CacheSound'
    <3>1. \A k \in Keys : Content(k)' = Content(k)
      BY <1>3, ContentSame DEF vars, boardVars, rows
    <3>2. \A q \in Requests, k \in Keys : Owes(q, k)' = Owes(q, k)
      BY <1>3 DEF vars, Owes
    <3> QED
      BY <1>3, <3>1, <3>2 DEF vars, boardVars, Inv, CacheSound, StaleExplained, IsStale
  <2> QED
    BY <2>1, <2>2, <2>3, <2>4 DEF Inv
<1> QED
  BY <1>1, <1>2, <1>3 DEF Next

(* Every behaviour of property and board keeps the strengthening.          *)
THEOREM Invariant == Spec => []Inv
BY InitInv, StepInv, PTL DEF Spec

(* The variables of property and board keep their types.                   *)
THEOREM TypeCorrect == Spec => []BoardTypeOK
<1>1. Inv => BoardTypeOK
  BY DEF Inv, Types, BoardTypeOK, CallType, Detail, List, Keys
<1> QED
  BY <1>1, Invariant, PTL

(* Every issued code is in exactly one place and makes one lease at most.  *)
THEOREM CodesAreAccounted == Spec => []CodesAccounted
<1>1. Inv => CodesAccounted
  BY DEF Inv
<1> QED
  BY <1>1, Invariant, PTL

(* A lease is not ended more often than requests fit in at the same time.  *)
THEOREM EndsAreBounded == Spec => []EndsBounded
<1>1. Inv => EndsBounded
  <2> SUFFICES ASSUME Inv, NEW l \in Leases, lease[l] # None
               PROVE  /\ lease[l].status = "ACTIVE" <=> ends[l] = 0
                      /\ ends[l] <= Cardinality(Requests)
    BY DEF EndsBounded
  <2>1. Cardinality(Enders(l)) \in Nat /\ Cardinality(Requests) \in Nat
    <3>1. Enders(l) \subseteq Requests
      BY DEF Enders
    <3> QED
      BY <3>1, FS_Subset, FS_CardinalityType, PropertyAssumption
  <2>2. ends[l] \in Nat
    BY DEF Inv, Types, PropertyTypeOK
  <2> QED
    BY <2>1, <2>2 DEF Inv, LeasesSound
<1> QED
  BY <1>1, Invariant, PTL

(* Nobody is shown a board he was not a member of during the request.      *)
THEOREM OnlyMembersSee == Spec => []ShownToMembers
<1>1. Inv => ShownToMembers
  BY DEF Inv, MembersSound, ShownToMembers, PastTheCheck
<1> QED
  BY <1>1, Invariant, PTL

(* A stale value has a writer that owes the DEL, or an excuse on record.   *)
THEOREM StalenessIsExplained == Spec => []StaleExplained
<1>1. Inv => StaleExplained
  BY DEF Inv, CacheSound
<1> QED
  BY <1>1, Invariant, PTL

(* A live comment of a deleted post came too late for the deletion: after  *)
(* its first statement, or from a request that had found the post before.  *)
THEOREM OrphansAreExplained == Spec => []OrphansExplained
<1>1. Inv => OrphansExplained
  BY DEF Inv, OrphansSound
<1> QED
  BY <1>1, Invariant, PTL

-----------------------------------------------------------------------------
(* Refinement of Tenancy                                                   *)

Standing == [c \in Codes |-> Place(c)]

CodeIs(s, x, u) == [state |-> s, unit |-> x, by |-> u]

(* The three places a code can be in, of which it is in one.               *)
PlaceKnown(c) ==
    /\ invite[c] # None => Place(c) = CodeIs("issued", invite[c], None)
    /\ \A p \in Redeemers(c) : Place(c) = CodeIs("taken", call[p].on, call[p].user)
    /\ invite[c] = None /\ Redeemers(c) = {} =>
            Place(c) = CodeIs(IF joins[c] > 0 THEN "joined" ELSE fate[c], None, None)

PlacesKnown == \A c \in Codes : PlaceKnown(c)

(* A code in Redis has no redeemer, and a redeemed one has one.            *)
LEMMA PlaceFacts == Inv => PlacesKnown
<1> SUFFICES ASSUME Inv, NEW c \in Codes PROVE PlaceKnown(c)
  BY DEF PlacesKnown
<1>1. joins[c] \in Nat
  BY DEF Inv, Types, PropertyTypeOK
<1>2. CASE invite[c] # None
  <2>1. Redeemers(c) = {} /\ joins[c] = 0 /\ ~(joins[c] > 0)
    BY <1>2 DEF Inv, CodesAccounted
  <2>2. Place(c) = CodeIs("issued", invite[c], None)
    BY <1>2, <2>1, Zenon DEF Place, CodeIs
  <2> QED
    BY <1>2, <2>1, <2>2 DEF PlaceKnown
<1>3. CASE invite[c] = None /\ Redeemers(c) = {}
  BY <1>1, <1>3 DEF PlaceKnown, Place, CodeIs
<1>4. CASE invite[c] = None /\ Redeemers(c) # {}
  <2>1. PICK p \in Requests : Redeemers(c) = {p}
    BY <1>4 DEF Inv, CodesAccounted
  <2>2. (CHOOSE q \in Redeemers(c) : TRUE) = p
    BY <2>1
  <2>3. joins[c] = 0 /\ ~(joins[c] > 0)
    BY <1>4 DEF Inv, CodesAccounted
  <2>4. Place(c) = CodeIs("taken", call[p].on, call[p].user)
    BY <1>4, <2>2, <2>3, Zenon DEF Place, CodeIs
  <2> QED
    BY <1>4, <2>1, <2>4 DEF PlaceKnown
<1> QED
  BY <1>2, <1>3, <1>4

(* A code stays where it is when its key, its history and its redeemer do. *)
LEMMA PlaceStays ==
  ASSUME PlacesKnown, PlacesKnown', NEW c \in Codes,
         invite'[c] = invite[c], joins'[c] = joins[c], fate'[c] = fate[c],
         Redeemers(c)' = Redeemers(c), \A p \in Redeemers(c) : call'[p] = call[p]
  PROVE  Place(c)' = Place(c)
<1>1. PlaceKnown(c) /\ PlaceKnown(c)'
  BY DEF PlacesKnown
<1>2. CASE invite[c] # None
  BY <1>1, <1>2 DEF PlaceKnown
<1>3. CASE Redeemers(c) # {}
  <2> PICK p \in Redeemers(c) : TRUE
    BY <1>3
  <2> QED
    BY <1>1 DEF PlaceKnown
<1>4. CASE invite[c] = None /\ Redeemers(c) = {}
  BY <1>1, <1>4 DEF PlaceKnown
<1> QED
  BY <1>2, <1>3, <1>4

(* One code moves, the others stay.                                        *)
LEMMA StandingMoves ==
  ASSUME NEW c \in Codes, NEW v, Place(c)' = v,
         \A d \in Codes \ {c} : Place(d)' = Place(d)
  PROVE  Standing' = [Standing EXCEPT ![c] = v]
BY DEF Standing

(* A request that takes no part in redeeming leaves the redeemers alone.   *)
LEMMA RedeemersStay ==
  ASSUME Types, NEW p \in Requests, NEW c, Go(p, c), NEW d \in Codes,
         call[p].op # "join" \/ call[p].held # d,
         c.op # "join" \/ c.held # d
  PROVE  Redeemers(d)' = Redeemers(d) /\ \A q \in Redeemers(d) : call'[q] = call[q]
<1>1. \A q \in Requests : call'[q] = IF q = p THEN c ELSE call[q]
  BY DEF Go, Types
<1> QED
  BY <1>1 DEF Redeemers

(* What does not touch codes and leases does not show.                     *)
LEMMA OutsideStutters ==
  ASSUME PlacesKnown, PlacesKnown', UNCHANGED <<invite, lease, fate, joins>>,
         \A d \in Codes : /\ Redeemers(d)' = Redeemers(d)
                          /\ \A q \in Redeemers(d) : call'[q] = call[q]
  PROVE  UNCHANGED Tenancies!vars
<1>1. \A d \in Codes : Place(d)' = Place(d)
  BY PlaceStays
<1>2. Standing' = Standing
  BY <1>1 DEF Standing
<1> QED
  BY <1>2 DEF Tenancies!vars, Standing

LEMMA BoardStutters ==
  ASSUME Inv, PlacesKnown, PlacesKnown', BoardNext
  PROVE  UNCHANGED Tenancies!vars
<1>1. UNCHANGED propertyVars
  BY DEF BoardNext
<1>2. CASE UNCHANGED call
  BY <1>1, <1>2, OutsideStutters DEF propertyVars, Redeemers
<1>3. ASSUME NEW p \in Requests, BoardStep(p) PROVE UNCHANGED Tenancies!vars
  <2>1. PICK c : Boarding(p, c)
    BY <1>1, <1>3, BoardMoves
  <2>2. \A d \in Codes : /\ Redeemers(d)' = Redeemers(d)
                         /\ \A q \in Redeemers(d) : call'[q] = call[q]
    BY <2>1, RedeemersStay DEF Boarding, Move, Inv
  <2> QED
    BY <1>1, <2>2, OutsideStutters DEF propertyVars
<1> QED
  BY <1>2, <1>3 DEF BoardNext, ExpireKey

(* A code is issued or expires.                                            *)
LEMMA CodeRefines ==
  ASSUME Inv, PlacesKnown, PlacesKnown', NEW c \in Codes,
         \/ \E u \in Users, x \in Units : IssueInviteCode(u, x, c)
         \/ PreviewInviteCode(c) \/ ExpireInvite(c)
  PROVE  Tenancies!Next \/ UNCHANGED Tenancies!vars
<1> USE PropertyAssumption
<1>1. UNCHANGED <<lease, joins, call>> /\ \A d \in Codes : Redeemers(d)' = Redeemers(d)
  BY DEF IssueInviteCode, PreviewInviteCode, ExpireInvite, Redeemers
<1>2. \A d \in Codes \ {c} : Place(d)' = Place(d)
  <2>1. \A d \in Codes \ {c} : invite'[d] = invite[d] /\ fate'[d] = fate[d]
    BY DEF IssueInviteCode, Issue, PreviewInviteCode, Peek, ExpireInvite, Inv, Types, PropertyTypeOK
  <2> QED
    BY <1>1, <2>1, PlaceStays
<1>3. PlaceKnown(c) /\ PlaceKnown(c)'
  BY DEF PlacesKnown
<1>4. ASSUME NEW u \in Users, NEW x \in Units, IssueInviteCode(u, x, c)
      PROVE  Tenancies!Next
  <2>1. fate[c] = "unused" /\ invite[c] = None /\ Redeemers(c) = {} /\ joins[c] = 0
    BY <1>4 DEF IssueInviteCode, Issue, Inv, CodesAccounted
  <2>2. Standing[c].state = "unused"
    BY <1>3, <2>1 DEF PlaceKnown, CodeIs, Standing
  <2>3. invite'[c] = x
    BY <1>4 DEF IssueInviteCode, Issue, Inv, Types, PropertyTypeOK
  <2>4. Place(c)' = CodeIs("issued", x, None)
    BY <1>3, <2>3 DEF PlaceKnown
  <2>5. Standing' = [Standing EXCEPT ![c] = CodeIs("issued", x, None)]
    BY <1>2, <2>4, StandingMoves
  <2>6. Tenancies!Issue(c, x)
    BY <1>1, <2>2, <2>5 DEF Tenancies!Issue, Tenancies!Now, Tenancies!CodeAt, CodeIs, Standing
  <2> QED
    BY <2>6 DEF Tenancies!Next
<1>5. CASE PreviewInviteCode(c)
  BY <1>1, <1>5, OutsideStutters DEF PreviewInviteCode, Peek
<1>6. CASE ExpireInvite(c)
  <2>1. Standing[c].state = "issued"
    BY <1>3, <1>6 DEF ExpireInvite, PlaceKnown, CodeIs, Standing
  <2>2. /\ invite[c] # None /\ invite'[c] = None /\ fate'[c] = "expired" /\ joins'[c] = joins[c]
    BY <1>6 DEF ExpireInvite, Inv, Types, PropertyTypeOK
  <2>3. Redeemers(c) = {} /\ joins[c] = 0
    BY <2>2 DEF Inv, CodesAccounted
  <2>4. Place(c)' = CodeIs("expired", None, None)
    BY <1>1, <1>3, <2>2, <2>3 DEF PlaceKnown
  <2>5. Standing' = [Standing EXCEPT ![c] = CodeIs("expired", None, None)]
    BY <1>2, <2>4, StandingMoves
  <2>6. Tenancies!Expire(c)
    BY <1>1, <2>1, <2>5 DEF Tenancies!Expire, Tenancies!Now, Tenancies!CodeAt, CodeIs, Standing
  <2> QED
    BY <2>6 DEF Tenancies!Next
<1> QED
  BY <1>4, <1>5, <1>6

(* The consumed code goes with the request, and what it says stays as read.*)
LEMMA RedeemRefines ==
  ASSUME Inv, PlacesKnown, PlacesKnown', NEW p \in Requests, NEW u \in Users,
         NEW c \in Codes, RedeemCode(p, u, c)
  PROVE  Tenancies!Next
<1>1. /\ call[p].op = "idle" /\ invite[c] # None
      /\ Go(p, At("join", u, invite[c], c, <<>>))
      /\ UNCHANGED <<lease, fate, joins>>
  BY CallFacts DEF RedeemCode
<1>2. At("join", u, invite[c], c, <<>>).op = "join" /\ At("join", u, invite[c], c, <<>>).held = c
  BY DEF At
<1>3. \A d \in Codes \ {c} : invite'[d] = invite[d]
  BY DEF RedeemCode, GetDel, Inv, Types, PropertyTypeOK
<1>4. \A d \in Codes \ {c} : Place(d)' = Place(d)
  <2>1. \A d \in Codes \ {c} : /\ Redeemers(d)' = Redeemers(d)
                               /\ \A q \in Redeemers(d) : call'[q] = call[q]
    BY <1>1, <1>2, RedeemersStay DEF Inv
  <2> QED
    BY <1>1, <1>3, <2>1, PlaceStays
<1>5. Place(c) = CodeIs("issued", invite[c], None)
  BY <1>1 DEF PlacesKnown, PlaceKnown
<1>6. Place(c)' = CodeIs("taken", invite[c], u)
  <2>1. call'[p] = At("join", u, invite[c], c, <<>>)
    BY <1>1 DEF Go, Inv, Types
  <2>2. p \in Redeemers(c)' /\ call'[p].on = invite[c] /\ call'[p].user = u
    BY <2>1 DEF Redeemers, At
  <2> QED
    BY <2>2 DEF PlacesKnown, PlaceKnown
<1>7. Standing' = [Standing EXCEPT ![c] = CodeIs("taken", invite[c], u)]
  BY <1>4, <1>6, StandingMoves
<1>8. Tenancies!Take(c, u)
  <2>1. Standing[c].state = "issued" /\ Standing[c].unit = invite[c]
    BY <1>5 DEF CodeIs, Standing
  <2> QED
    BY <1>1, <1>7, <2>1 DEF Tenancies!Take, Tenancies!Now, Tenancies!CodeAt, CodeIs, Standing
<1> QED
  BY <1>8 DEF Tenancies!Next

(* The request that holds a code makes its lease, or loses it.             *)
LEMMA JoinRefines ==
  ASSUME Inv, PlacesKnown, PlacesKnown', NEW p \in Requests,
         (\E l \in Leases : SaveLease(p, l)) \/ JoinFails(p)
  PROVE  Tenancies!Next
<1>1. call[p].op = "join" /\ Go(p, Idle) /\ invite' = invite
  BY DEF SaveLease, JoinFails
<1>2. PICK c \in Codes : c = call[p].held
  BY <1>1, CallFacts DEF CallSound
<1>3. \A d \in Codes \ {c} : Place(d)' = Place(d)
  <2>1. \A d \in Codes \ {c} : /\ Redeemers(d)' = Redeemers(d)
                               /\ \A q \in Redeemers(d) : call'[q] = call[q]
    BY <1>1, <1>2, CallFacts, RedeemersStay DEF Inv
  <2>2. \A d \in Codes \ {c} : fate'[d] = fate[d] /\ joins'[d] = joins[d]
    BY <1>2 DEF SaveLease, JoinFails, Inv, Types, PropertyTypeOK
  <2> QED
    BY <1>1, <2>1, <2>2, PlaceStays
<1>4. p \in Redeemers(c)
  BY <1>1, <1>2 DEF Redeemers
<1>5. Place(c) = CodeIs("taken", call[p].on, call[p].user)
  BY <1>4 DEF PlacesKnown, PlaceKnown
<1>6. Standing[c] = CodeIs("taken", call[p].on, call[p].user)
  BY <1>5 DEF Standing
<1>7. invite[c] = None /\ joins[c] = 0 /\ Redeemers(c) = {p}
  BY <1>4 DEF Inv, CodesAccounted
<1>8. Redeemers(c)' = {}
  <2>1. \A q \in Requests : call'[q] = IF q = p THEN Idle ELSE call[q]
    BY <1>1 DEF Go, Inv, Types
  <2> QED
    BY <1>7, <2>1, CallFacts DEF Redeemers
<1>9. Place(c)' = CodeIs(IF joins'[c] > 0 THEN "joined" ELSE fate'[c], None, None)
  BY <1>1, <1>7, <1>8 DEF PlacesKnown, PlaceKnown
<1>10. ASSUME NEW l \in Leases, SaveLease(p, l) PROVE Tenancies!Next
  <2>1. joins'[c] = 1
    BY <1>2, <1>7, <1>10 DEF SaveLease, Inv, Types, PropertyTypeOK
  <2>2. Standing' = [Standing EXCEPT ![c] = CodeIs("joined", None, None)]
    BY <1>3, <1>9, <2>1, StandingMoves
  <2>3. /\ Standing[c].state = "taken"
        /\ Standing[c].unit = call[p].on /\ Standing[c].by = call[p].user
    BY <1>6 DEF CodeIs
  <2>4. lease[l] = None /\ lease' = [lease EXCEPT ![l] =
            [unit |-> Standing[c].unit, tenant |-> Standing[c].by, status |-> "ACTIVE"]]
    BY <1>10, <2>3 DEF SaveLease, NewLease
  <2>5. Tenancies!Join(c, l)
    BY <2>2, <2>3, <2>4 DEF Tenancies!Join, Tenancies!Now, Tenancies!CodeAt, CodeIs, Standing
  <2> QED
    BY <2>5 DEF Tenancies!Next
<1>11. CASE JoinFails(p)
  <2>1. joins'[c] = 0 /\ fate'[c] = "lost" /\ UNCHANGED lease
    BY <1>2, <1>7, <1>11 DEF JoinFails, Inv, Types, PropertyTypeOK
  <2>2. Standing' = [Standing EXCEPT ![c] = CodeIs("lost", None, None)]
    BY <1>3, <1>9, <2>1, StandingMoves
  <2>3. Tenancies!Lose(c)
    BY <1>6, <2>1, <2>2 DEF Tenancies!Lose, Tenancies!Now, Tenancies!CodeAt, CodeIs, Standing
  <2> QED
    BY <2>3 DEF Tenancies!Next
<1> QED
  BY <1>10, <1>11

(* The first write of an end ends the lease, a second one changes nothing. *)
LEMMA EndRefines ==
  ASSUME Inv, PlacesKnown, PlacesKnown', NEW p \in Requests,
         \/ \E u \in Users, l \in Leases : FindLease(p, u, l)
         \/ EndLease(p) \/ EndFails(p)
  PROVE  Tenancies!Next \/ UNCHANGED Tenancies!vars
<1>1. UNCHANGED <<invite, fate, joins>>
  BY DEF FindLease, EndLease, EndFails, propertyVars
<1>2. \A d \in Codes : /\ Redeemers(d)' = Redeemers(d)
                       /\ \A q \in Redeemers(d) : call'[q] = call[q]
  <2>1. PICK c : Go(p, c) /\ c.op # "join"
    <3>1. \A u, l : At("end", u, l, None, <<>>).op = "end"
      BY DEF At
    <3> QED
      BY <3>1, CallFacts DEF FindLease, EndLease, EndFails
  <2>2. call[p].op # "join"
    BY CallFacts DEF FindLease, EndLease, EndFails
  <2> QED
    BY <2>1, <2>2, RedeemersStay DEF Inv
<1>3. CASE UNCHANGED lease
  BY <1>1, <1>2, <1>3, OutsideStutters
<1>4. CASE EndLease(p)
  <2>1. PICK l \in Leases : l = call[p].on /\ lease[l] # None
    BY <1>4, CallFacts DEF EndLease, CallSound
  <2>2. lease[l] \in Lease /\ lease' = [lease EXCEPT ![l] = Ended(l)]
    BY <1>4, <2>1 DEF EndLease, Inv, Types, PropertyTypeOK
  <2>3. CASE lease[l].status = "ACTIVE"
    <3>1. \A d \in Codes : Place(d)' = Place(d)
      BY <1>1, <1>2, PlaceStays
    <3>2. Standing' = Standing
      BY <3>1 DEF Standing
    <3>3. lease' = [lease EXCEPT ![l].status = "ENDED"]
      BY <2>2 DEF Ended
    <3>4. Tenancies!End(l)
      BY <2>1, <2>3, <3>2, <3>3 DEF Tenancies!End, Standing
    <3> QED
      BY <3>4 DEF Tenancies!Next
  <2>4. CASE lease[l].status = "ENDED"
    <3>1. Ended(l) = lease[l]
      BY <2>2, <2>4 DEF Ended, Lease
    <3>2. lease' = lease
      BY <2>1, <2>2, <3>1 DEF Inv, Types, PropertyTypeOK
    <3> QED
      BY <1>3, <3>2
  <2> QED
    BY <2>2, <2>3, <2>4 DEF Lease
<1> QED
  BY <1>3, <1>4 DEF FindLease, EndFails, propertyVars

(* Every step of property and board is a step of Tenancy or stutters.      *)
LEMMA StepRefines ==
  PlacesKnown /\ PlacesKnown' /\ Inv /\ [Next]_vars => [Tenancies!Next]_(Tenancies!vars)
<1> SUFFICES ASSUME PlacesKnown, PlacesKnown', Inv, [Next]_vars
             PROVE  Tenancies!Next \/ UNCHANGED Tenancies!vars
  OBVIOUS
<1>1. CASE BoardNext
  BY <1>1, BoardStutters
<1>2. CASE PropertyNext
  <2>1. ASSUME NEW u \in Users, BuildingRoutes(u) \/ UnitRoutes(u)
        PROVE  UNCHANGED Tenancies!vars
    <3>1. UNCHANGED <<invite, lease, fate, joins, call>>
      BY <2>1 DEF BuildingRoutes, UnitRoutes, CreateBuilding, CreateUnit
    <3> QED
      BY <3>1, OutsideStutters DEF Redeemers
  <2>2. ASSUME NEW p \in Requests, NEW u \in Users, InviteRoutes(p, u) \/ LeaseRoutes(p, u)
        PROVE  Tenancies!Next \/ UNCHANGED Tenancies!vars
    BY <2>2, CodeRefines, RedeemRefines, EndRefines, Zenon DEF InviteRoutes, LeaseRoutes
  <2> QED
    BY <1>2, <2>1, <2>2, CodeRefines, JoinRefines, EndRefines, Zenon DEF PropertyNext
<1>3. CASE UNCHANGED vars
  BY <1>3, OutsideStutters DEF vars, propertyVars, Redeemers
<1> QED
  BY <1>1, <1>2, <1>3 DEF Next

(* Codes and leases implement Tenancy for any number of them and of        *)
(* concurrent requests: a code makes one lease at most, for whoever took   *)
(* it and of the unit it was issued for, and only ending changes a lease.  *)
THEOREM BuildingImplementsTenancy == Spec => ImplementsTenancy
<1>1. Init => Tenancies!Init
  <2> SUFFICES ASSUME Init PROVE Tenancies!Init
    OBVIOUS
  <2>1. \A c \in Codes : Place(c) = CodeIs("unused", None, None)
    <3> SUFFICES ASSUME NEW c \in Codes PROVE Place(c) = CodeIs("unused", None, None)
      OBVIOUS
    <3>1. PlaceKnown(c)
      BY InitInv, PlaceFacts DEF PlacesKnown
    <3>2. invite[c] = None /\ joins[c] = 0 /\ fate[c] = "unused" /\ Redeemers(c) = {}
      BY DEF Init, PropertyInit, Redeemers, Idle, At
    <3> QED
      BY <3>1, <3>2 DEF PlaceKnown
  <2> QED
    BY <2>1 DEF Init, PropertyInit, Tenancies!Init, Tenancies!CodeAt, CodeIs
<1> QED
  BY <1>1, PlaceFacts, StepRefines, Invariant, PTL DEF Spec, ImplementsTenancy, Tenancies!Spec
-----------------------------------------------------------------------------
(* Every lease is earned: a code more is joined exactly when a lease more  *)
(* is there.                                                               *)

Signed == {l \in Leases : lease[l] # None}
Joined == {c \in Codes : joins[c] > 0}

LeasesEarned ==
    /\ IsFiniteSet(Signed) /\ IsFiniteSet(Joined)
    /\ Cardinality(Signed) = Cardinality(Joined)

(* One lease more, and one code that had not made any.                     *)
LEMMA SaveEarns ==
  ASSUME Inv, LeasesEarned, NEW p \in Requests, NEW l \in Leases, SaveLease(p, l)
  PROVE  LeasesEarned'
<1>1. call[p].op = "join" /\ lease[l] = None
      /\ lease' = [lease EXCEPT ![l] = NewLease(call[p].on, call[p].user)]
      /\ joins' = [joins EXCEPT ![call[p].held] = @ + 1]
  BY DEF SaveLease
<1>2. PICK c \in Codes : c = call[p].held
  BY <1>1, CallFacts DEF CallSound
<1>3. joins[c] = 0
  <2>1. p \in Redeemers(c)
    BY <1>1, <1>2 DEF Redeemers
  <2> QED
    BY <2>1 DEF Inv, CodesAccounted
<1>4. NewLease(call[p].on, call[p].user) # None
  BY <1>1, CallFacts, PropertyAssumption DEF CallSound, NewLease, Lease
<1>5. lease \in [Leases -> Lease \cup {None}] /\ joins \in [Codes -> Nat]
  BY DEF Inv, Types, PropertyTypeOK
<1>6. Signed' = Signed \cup {l} /\ l \notin Signed
  BY <1>1, <1>4, <1>5 DEF Signed
<1>7. Joined' = Joined \cup {c} /\ c \notin Joined
  BY <1>1, <1>2, <1>3, <1>5 DEF Joined
<1>8. /\ IsFiniteSet(Signed) /\ IsFiniteSet(Joined)
      /\ Cardinality(Signed) = Cardinality(Joined)
  BY DEF LeasesEarned
<1>9. IsFiniteSet(Signed') /\ Cardinality(Signed') = Cardinality(Signed) + 1
  BY <1>6, <1>8, FS_AddElement
<1>10. IsFiniteSet(Joined') /\ Cardinality(Joined') = Cardinality(Joined) + 1
  BY <1>7, <1>8, FS_AddElement
<1> QED
  BY <1>8, <1>9, <1>10 DEF LeasesEarned

(* Any other step leaves both sets alone: an ended lease is still one.     *)
LEMMA OthersKeep ==
  ASSUME Inv, [Next]_vars, \A p \in Requests, l \in Leases : ~SaveLease(p, l)
  PROVE  Signed' = Signed /\ Joined' = Joined
<1>1. ASSUME UNCHANGED <<lease, joins>> PROVE Signed' = Signed /\ Joined' = Joined
  BY <1>1 DEF Signed, Joined
<1>2. CASE BoardNext
  <2>1. UNCHANGED propertyVars
    BY <1>2 DEF BoardNext
  <2> QED
    BY <1>1, <2>1 DEF propertyVars
<1>3. CASE PropertyNext
  <2>1. ASSUME NEW u \in Users, BuildingRoutes(u) \/ UnitRoutes(u)
        PROVE  UNCHANGED <<lease, joins>>
    BY <2>1 DEF BuildingRoutes, UnitRoutes, CreateBuilding, CreateUnit
  <2>2. ASSUME NEW p \in Requests, NEW u \in Users, InviteRoutes(p, u) \/ LeaseRoutes(p, u)
        PROVE  UNCHANGED <<lease, joins>>
    BY <2>2 DEF InviteRoutes, LeaseRoutes, IssueInviteCode, PreviewInviteCode, RedeemCode,
                FindLease, propertyVars
  <2>3. ASSUME NEW p \in Requests, EndLease(p)
        PROVE  Signed' = Signed /\ Joined' = Joined
    <3>1. PICK l \in Leases : l = call[p].on /\ lease[l] # None
      BY <2>3, CallFacts DEF EndLease, CallSound
    <3>2. lease \in [Leases -> Lease \cup {None}] /\ lease[l] \in Lease
      BY <3>1 DEF Inv, Types, PropertyTypeOK
    <3>3. lease' = [lease EXCEPT ![l] = Ended(l)] /\ joins' = joins
      BY <2>3, <3>1 DEF EndLease
    <3>4. Ended(l) # None
      BY <3>2, PropertyAssumption DEF Ended, Lease
    <3> QED
      BY <3>1, <3>2, <3>3, <3>4 DEF Signed, Joined
  <2>4. ASSUME NEW p \in Requests, JoinFails(p) \/ EndFails(p)
        PROVE  UNCHANGED <<lease, joins>>
    BY <2>4 DEF JoinFails, EndFails, propertyVars
  <2>5. ASSUME NEW c \in Codes, ExpireInvite(c) PROVE UNCHANGED <<lease, joins>>
    BY <2>5 DEF ExpireInvite
  <2> QED
    BY <1>1, <1>3, <2>1, <2>2, <2>3, <2>4, <2>5, Zenon DEF PropertyNext
<1>4. CASE UNCHANGED vars
  BY <1>1, <1>4 DEF vars, propertyVars
<1> QED
  BY <1>2, <1>3, <1>4 DEF Next

(* For any number of codes, requests and failures there are exactly as     *)
(* many leases as codes that made one: no lease appears without a code of  *)
(* its own, and a failed or repeated request leaves none behind.           *)
THEOREM LeasesAreEarned == Spec => []LeasesEarned
<1>1. Init => LeasesEarned
  <2> SUFFICES ASSUME Init PROVE LeasesEarned
    OBVIOUS
  <2>1. Signed = {} /\ Joined = {}
    BY DEF Init, PropertyInit, Signed, Joined
  <2> QED
    BY <2>1, FS_EmptySet DEF LeasesEarned
<1>2. LeasesEarned /\ Inv /\ [Next]_vars => LeasesEarned'
  <2> SUFFICES ASSUME LeasesEarned, Inv, [Next]_vars PROVE LeasesEarned'
    OBVIOUS
  <2>1. CASE \E p \in Requests, l \in Leases : SaveLease(p, l)
    BY <2>1, SaveEarns
  <2>2. CASE \A p \in Requests, l \in Leases : ~SaveLease(p, l)
    BY <2>2, OthersKeep DEF LeasesEarned
  <2> QED
    BY <2>1, <2>2
<1> QED
  BY <1>1, <1>2, Invariant, PTL DEF Spec
=============================================================================
