-------------------------------- MODULE Board --------------------------------
(***************************************************************************)
(* The board of a building: posts with comments, and a read-through cache  *)
(* of a post's detail and of a building's list.  Members are the owner and *)
(* the tenants that Property's leases make, so membership changes while    *)
(* requests are in progress.  Writes commit first and delete their cache   *)
(* keys afterwards; a reader stores what it loaded whatever happened in    *)
(* the meantime; an expiry on every key heals what that leaves behind.     *)
(***************************************************************************)
EXTENDS Property

CONSTANTS Posts,
          MaxVersion,   (* bound: edits of a post                           *)
          MaxWrites     (* bound: edits and comments of a post              *)

Post == [author : Users, building : Buildings, ver : 0..MaxVersion, deleted : BOOLEAN]

ASSUME BoardAssumption ==
    /\ Posts \cap Buildings = {} /\ None \notin Posts \cup Post
    /\ MaxVersion \in Nat /\ MaxWrites \in Nat

VARIABLES
    post,        (* the Post row; None: no such row                         *)
    comments,    (* the Comment rows of a post, in the order of insertion   *)
    live,        (* how many of them, the last ones, have no deletedAt      *)
    late,        (* history: comments that came too late for the deletion   *)
    cache,       (* board:detail:<post>, board:list:<building>; None: no key*)
    excused,     (* history: a key that a late store or a missing DEL left
                    behind                                                  *)
    was          (* history: the user was a member of the building while
                    the request was in progress                             *)

boardVars == <<post, comments, live, late, cache, excused, was>>
rows == <<post, comments, live, late>>
redis == <<cache, excused>>
vars == <<propertyVars, boardVars, call>>

Keys == Posts \cup Buildings

BoardInit ==
    /\ post = [x \in Posts |-> None]
    /\ comments = [x \in Posts |-> 0] /\ live = [x \in Posts |-> 0]
    /\ late = [x \in Posts |-> 0]
    /\ cache = [k \in Keys |-> None]
    /\ excused = [k \in Keys |-> FALSE]
    /\ was = [p \in Requests |-> FALSE]

Init == PropertyInit /\ BoardInit

-----------------------------------------------------------------------------
(* What the database says *)

(* findFirst and findMany with deletedAt null.                             *)
Exists(x) == post[x] # None /\ ~post[x].deleted

(* A title of each post; the comments do not show in the list.             *)
FindByBuilding(b) == {<<x, post[x].ver>> : x \in {y \in Posts : Exists(y) /\ post[y].building = b}}

(* What a cached value should be now.                                      *)
Content(k) ==
    IF k \in Buildings THEN FindByBuilding(k)
    ELSE IF Exists(k) THEN <<post[k].ver, live[k]>> ELSE None

IsStale(k) == cache[k] # None /\ cache[k] # Content(k)

(* The request still has to delete k.                                      *)
Owes(p, k) == \E i \in 1..Len(call[p].owes) : call[p].owes[i] = k

-----------------------------------------------------------------------------
(* Plausible defects, for the mutation runs *)

HitUnchecked(p) == TRUE
ListKeyOnly(x) == <<post[x].building>>
DeletePostOnly(x, n) == UNCHANGED live
NewPostOfBuilding(u, b) == [author |-> b, building |-> u, ver |-> 0, deleted |-> FALSE]

-----------------------------------------------------------------------------
(* Pieces of the use cases *)

(* Post.create, Post.edit and the soft delete.                             *)
NewPost(u, b) == [author |-> u, building |-> b, ver |-> 0, deleted |-> FALSE]
Edited(x) == [post[x] EXCEPT !.ver = @ + 1]
SoftDeleted(x) == [post[x] EXCEPT !.deleted = TRUE]

IsAuthoredBy(x, u) == post[x].author = u

(* authorize: of the building of the post at hand.                         *)
Authorized(p) == IsMember(call[p].user, post[call[p].on].building)

(* A cached detail is answered to members only, like a loaded one.         *)
AuthorizedHit(p) == Authorized(p)

(* The keys a write has to delete, in this order.                          *)
KeysOfPost(x) == <<x, post[x].building>>
KeysOfComment(x) == <<x>>
KeysOfNewPost(b) == <<b>>

(* setDetail and setList: SET EX, whatever the key holds.                  *)
Store(k, v) ==
    /\ cache' = [cache EXCEPT ![k] = v]
    /\ excused' = [excused EXCEPT ![k] = v # Content(k)]

Del(k) ==
    /\ cache' = [cache EXCEPT ![k] = None]
    /\ excused' = [excused EXCEPT ![k] = FALSE]

(* The first n comments go; later ones stay, and so do deleted ones.       *)
SoftDeleteComments(x, n) ==
    live' = [live EXCEPT ![x] = IF comments[x] - n < @ THEN comments[x] - n ELSE @]

(* The requests that have found the post and may still insert.             *)
Commenters(x) == {p \in Requests : call[p].op \in {"member", "comment"} /\ call[p].on = x}

(* History: what the first deletion of the post cannot reach.              *)
TooLate(x, n) == comments[x] - n + Cardinality(Commenters(x))
NoteLate(x, n) == late' = IF post[x].deleted THEN late ELSE [late EXCEPT ![x] = TooLate(x, n)]

Step(p, o) == Go(p, [call[p] EXCEPT !.op = o])

(* The request goes on with what it has read.                              *)
Holding(o, p, h) == At(o, call[p].user, call[p].on, h, <<>>)

(* From here on only the keys, or only the answer, matter.                 *)
Owing(x, keys) == At("del", None, x, None, keys)
Answering(p) == Go(p, At("answer", None, call[p].on, None, <<>>))

-----------------------------------------------------------------------------
(* Writing *)

CreatePost(p, u, b) ==
    /\ call[p] = Idle
    /\ IsMember(u, b)
    /\ Go(p, At("post", u, b, None, <<>>))
    /\ UNCHANGED <<rows, redis>>

(* The post and its PostCreated commit together.                           *)
SavePost(p, x) ==
    /\ call[p].op = "post"
    /\ post[x] = None
    /\ post' = [post EXCEPT ![x] = NewPost(call[p].user, call[p].on)]
    /\ Go(p, Owing(call[p].on, KeysOfNewPost(call[p].on)))
    /\ UNCHANGED <<comments, live, late, redis>>

CreateComment(p, u, x) ==
    /\ call[p] = Idle
    /\ Exists(x)
    /\ Go(p, At("member", u, x, None, <<>>))
    /\ UNCHANGED <<rows, redis>>

CheckCommenter(p) ==
    /\ call[p].op = "member"
    /\ IF Authorized(p) THEN Step(p, "comment") ELSE Go(p, Idle)
    /\ UNCHANGED <<rows, redis>>

(* The insert does not look at the post again.                             *)
SaveComment(p) ==
    /\ call[p].op = "comment"
    /\ LET x == call[p].on
       IN  /\ post[x].ver + comments[x] < MaxWrites
           /\ comments' = [comments EXCEPT ![x] = @ + 1]
           /\ live' = [live EXCEPT ![x] = @ + 1]
           /\ Go(p, Owing(x, KeysOfComment(x)))
    /\ UNCHANGED <<post, late, redis>>

UpdatePost(p, u, x) ==
    /\ call[p] = Idle
    /\ Exists(x) /\ IsAuthoredBy(x, u)
    /\ Go(p, At("edit", u, x, None, <<>>))
    /\ UNCHANGED <<rows, redis>>

(* The update goes by id: it also edits a post that is deleted by now.     *)
SaveEdit(p) ==
    /\ call[p].op = "edit"
    /\ LET x == call[p].on
       IN  /\ post[x].ver < MaxVersion /\ post[x].ver + comments[x] < MaxWrites
           /\ post' = [post EXCEPT ![x] = Edited(x)]
           /\ Go(p, Owing(x, KeysOfPost(x)))
    /\ UNCHANGED <<comments, live, late, redis>>

DeletePost(p, u, x) ==
    /\ call[p] = Idle
    /\ Exists(x) /\ IsAuthoredBy(x, u)
    /\ Go(p, At("delete", u, x, None, <<>>))
    /\ UNCHANGED <<rows, redis>>

(* The transaction's first statement, which sees the comments that are     *)
(* there when it starts; those it changes are live until the commit.       *)
DeleteComments(p) ==
    /\ call[p].op = "delete"
    /\ Go(p, Holding("deleting", p, comments[call[p].on]))
    /\ UNCHANGED <<rows, redis>>

(* Its second statement and the commit.  A statement that waits for a row  *)
(* of another deletion has taken its snapshot before, so two deletions     *)
(* commit in either order.                                                 *)
SaveDelete(p) ==
    /\ call[p].op = "deleting"
    /\ LET x == call[p].on
       IN  /\ post' = [post EXCEPT ![x] = SoftDeleted(x)]
           /\ SoftDeleteComments(x, call[p].held)
           /\ NoteLate(x, call[p].held)
           /\ Go(p, Owing(x, KeysOfPost(x)))
    /\ UNCHANGED <<comments, redis>>

(* invalidateDetail, invalidateList: one DEL at a time.                    *)
Invalidate(p) ==
    /\ call[p].op = "del"
    /\ LET keys == call[p].owes
       IN  /\ Del(Head(keys))
           /\ Go(p, IF Tail(keys) = <<>> THEN Idle ELSE [call[p] EXCEPT !.owes = Tail(keys)])
    /\ UNCHANGED rows

-----------------------------------------------------------------------------
(* Reading one post *)

GetPost(p, u, x) ==
    /\ call[p] = Idle
    /\ post[x] # None
    /\ Go(p, IF cache[x] # None THEN At("hit", u, x, None, <<>>)
             ELSE At("find", u, x, None, <<>>))
    /\ UNCHANGED <<rows, redis>>

AuthorizeHit(p) ==
    /\ call[p].op = "hit"
    /\ IF AuthorizedHit(p) THEN Answering(p) ELSE Go(p, Idle)
    /\ UNCHANGED <<rows, redis>>

FindPost(p) ==
    /\ call[p].op = "find"
    /\ LET x == call[p].on
       IN  IF Exists(x) THEN Go(p, Holding("authorize", p, post[x].ver))
           ELSE Go(p, Idle)
    /\ UNCHANGED <<rows, redis>>

AuthorizeMiss(p) ==
    /\ call[p].op = "authorize"
    /\ IF Authorized(p) THEN Step(p, "comments") ELSE Go(p, Idle)
    /\ UNCHANGED <<rows, redis>>

(* The comments are read after the post, in a statement of their own.      *)
FindComments(p) ==
    /\ call[p].op = "comments"
    /\ Go(p, Holding("store", p, <<call[p].held, live[call[p].on]>>))
    /\ UNCHANGED <<rows, redis>>

(* setDetail, setList                                                      *)
StoreLoaded(p) ==
    /\ call[p].op = "store"
    /\ Store(call[p].on, call[p].held)
    /\ Answering(p)
    /\ UNCHANGED rows

(* The like counts are read (LikeCounter) and the request is answered.     *)
Answer(p) ==
    /\ call[p].op = "answer"
    /\ Go(p, Idle)
    /\ UNCHANGED <<rows, redis>>

-----------------------------------------------------------------------------
(* Reading the list: the membership comes first here *)

ListPosts(p, u, b) ==
    /\ call[p] = Idle
    /\ IsMember(u, b)
    /\ Go(p, At("getList", u, b, None, <<>>))
    /\ UNCHANGED <<rows, redis>>

GetList(p) ==
    /\ call[p].op = "getList"
    /\ LET b == call[p].on
       IN  IF cache[b] # None THEN Answering(p) ELSE Step(p, "findList")
    /\ UNCHANGED <<rows, redis>>

LoadSummaries(p) ==
    /\ call[p].op = "findList"
    /\ Go(p, Holding("store", p, FindByBuilding(call[p].on)))
    /\ UNCHANGED <<rows, redis>>

-----------------------------------------------------------------------------

BoardOps == {"post", "member", "comment", "edit", "delete", "deleting", "del", "hit", "find",
             "authorize", "comments", "store", "answer", "getList", "findList"}

(* An error or the death of the server: an open transaction is undone, and *)
(* the keys still owed stay.                                               *)
RequestFails(p) ==
    /\ call[p].op \in BoardOps
    /\ excused' = [k \in Keys |-> excused[k] \/ (Owes(p, k) /\ cache[k] # None)]
    /\ Go(p, Idle)
    /\ UNCHANGED <<rows, cache>>

(* CACHE_TTL_SEC after the last store of the key.                          *)
MayExpire(k) == cache[k] # None

ExpireKey(k) ==
    /\ MayExpire(k)
    /\ Del(k)
    /\ UNCHANGED <<rows, call>>

(* The routes: all for a user who is logged in, none for a role.           *)
PostRoutes(p, u) ==
    \/ \E b \in Buildings : CreatePost(p, u, b) \/ ListPosts(p, u, b)
    \/ \E x \in Posts : GetPost(p, u, x) \/ UpdatePost(p, u, x) \/ DeletePost(p, u, x)

CommentRoutes(p, u) == \E x \in Posts : CreateComment(p, u, x)

BoardStep(p) ==
    \/ \E u \in Users : PostRoutes(p, u) \/ CommentRoutes(p, u)
    \/ \E x \in Posts : SavePost(p, x)
    \/ CheckCommenter(p) \/ SaveComment(p) \/ SaveEdit(p)
    \/ DeleteComments(p) \/ SaveDelete(p) \/ Invalidate(p)
    \/ AuthorizeHit(p) \/ FindPost(p) \/ AuthorizeMiss(p) \/ FindComments(p) \/ StoreLoaded(p)
    \/ GetList(p) \/ LoadSummaries(p) \/ Answer(p) \/ RequestFails(p)

(* The building a request that reads or comments is about.                 *)
ReaderOps == BoardOps \ {"post", "edit", "delete", "deleting", "del"}
BuildingAt(p) == IF call[p].on \in Buildings THEN call[p].on ELSE post[call[p].on].building
MemberNow(p) == IsMember(call[p].user, BuildingAt(p))

(* History: membership during the request.                                 *)
NoteMembers ==
    was' = [p \in Requests |-> call'[p].op \in ReaderOps /\ (was[p] \/ MemberNow(p)')]

BoardNext ==
    /\ \/ \E p \in Requests : BoardStep(p)
       \/ \E k \in Keys : ExpireKey(k)
    /\ UNCHANGED propertyVars
    /\ NoteMembers

Next ==
    \/ BoardNext
    \/ PropertyNext /\ UNCHANGED <<rows, redis>> /\ NoteMembers

Spec == Init /\ [][Next]_vars

-----------------------------------------------------------------------------
(* Properties *)

BoardTypeOK ==
    /\ PropertyTypeOK
    /\ post \in [Posts -> Post \cup {None}]
    /\ comments \in [Posts -> 0..MaxWrites]
    /\ live \in [Posts -> Nat] /\ \A x \in Posts : live[x] <= comments[x]
    /\ late \in [Posts -> Nat]
    /\ \A x \in Posts : cache[x] # None => cache[x] \in Nat \X Nat
    /\ \A b \in Buildings : cache[b] # None => cache[b] \subseteq Posts \X Nat
    /\ excused \in [Keys -> BOOLEAN]
    /\ was \in [Requests -> BOOLEAN]
    /\ \A p \in Requests : call[p].op \in BoardOps \cup {"idle", "join", "end"}

(* A post, a list or the right to comment reaches only a user who was a    *)
(* member of the building at some time during that very request: a hit in  *)
(* the cache is no way around the check, and a lease that ended before the *)
(* request began does not count.                                           *)
ShownToMembers == \A p \in Requests : call[p].op \in {"answer", "comment"} => was[p]

(* A cached value differs from the database only while the writer that     *)
(* changed it still has to delete the key, or because a reader stored what *)
(* it had loaded before a write, or because the DEL never came.            *)
StaleExplained ==
    \A k \in Keys : IsStale(k) => excused[k] \/ \E p \in Requests : Owes(p, k)

(* A live comment of a deleted post was inserted between the two           *)
(* statements of its deletion, or by a request that had found the post     *)
(* before the deletion: each such request adds one comment at most, none   *)
(* comes after them, and a second deletion or edit brings none back.       *)
OrphansExplained ==
    \A x \in Posts :
        post[x] # None /\ post[x].deleted => live[x] + Cardinality(Commenters(x)) <= late[x]
=============================================================================
