----------------------------- MODULE Notifications -----------------------------
(***************************************************************************)
(* Notifications: a worker with a consumer group of its own turns the      *)
(* events of the chat and board topics into one row per recipient, bumps   *)
(* the recipient's unread counter in Redis and pushes to his sockets.      *)
(* Rows are idempotent, the counter is derived: an absent key is filled by *)
(* a COUNT, and only a fill gives it an expiry.  Users read their counts   *)
(* and mark rows read while the worker goes on.                            *)
(***************************************************************************)
EXTENDS Integers, FiniteSets, Sequences

CONSTANTS Users, Requests, None,
          Readers,      (* those whose app is open                          *)
          Owner, Tenant,  (* the participants of the chat room              *)
          ChatEvents,   (* MessageSent events of that room                  *)
          BoardEvents,  (* PostCreated, CommentCreated, LikeCreated         *)
          Missing,      (* the counter's key does not exist                 *)
          MaxFaults     (* bound: failures and restarts                     *)

ASSUME NotificationsAssumption ==
    /\ {Owner, Tenant} \cup Readers \subseteq Users /\ None \notin Users
    /\ Missing \notin Int /\ MaxFaults \in Nat
    /\ ChatEvents \cap BoardEvents = {}

Events == ChatEvents \cup BoardEvents

VARIABLES
    log,         (* the two topics, in the order the group gets them        *)
    actor,       (* actorId of an event in the log                          *)
    row,         (* Notification rows: "none", "unread", "read"             *)
    counter,     (* notif:unread:<user>                                     *)
    job,         (* what the worker is doing                                *)
    handled,     (* notification group: position reached, and the committed *)
    committed,
    call,        (* what each request of a user is about to do              *)
    count,       (* the COUNT a request is about to fill in                 *)
    faults,      (* failures so far                                         *)
    bumps,       (* history: increments per event and recipient             *)
    slack,       (* history: changes the key has missed or may see twice    *)
    countSlack   (* history: the same for the COUNT                         *)

topicVars == <<log, actor>>
groupVars == <<job, handled, committed>>
requestVars == <<call, count, countSlack>>
keyVars == <<counter, slack>>
vars == <<topicVars, row, groupVars, requestVars, keyVars, faults, bumps>>

NoJob == [event |-> None, todo |-> {}, op |-> "none", to |-> None]
At(o, u) == [op |-> o, user |-> u]
Idle == At("idle", None)
Go(p, c) == call' = [call EXCEPT ![p] = c]

Init ==
    /\ log = <<>>
    /\ actor = [e \in Events |-> None]
    /\ row = [e \in Events |-> [u \in Users |-> "none"]]
    /\ counter = [u \in Users |-> Missing]
    /\ job = NoJob
    /\ handled = 0 /\ committed = 0
    /\ call = [p \in Requests |-> Idle]
    /\ count = [p \in Requests |-> 0]
    /\ faults = 0
    /\ bumps = [e \in Events |-> [u \in Users |-> 0]]
    /\ slack = [u \in Users |-> 0]
    /\ countSlack = [p \in Requests |-> 0]

Fault == faults < MaxFaults /\ faults' = faults + 1
NoFault == UNCHANGED faults

-----------------------------------------------------------------------------

Unread(u) == Cardinality({e \in Events : row[e][u] = "unread"})

(* What an event has for its recipients, with u's entry changed.           *)
Marked(r, u, x) == [r EXCEPT ![u] = x]

(* Bumps of u's key that are on their way.                                 *)
PendingBumps(u) ==
    (IF job.op = "incr" /\ job.to = u THEN 1 ELSE 0)
    + Cardinality({p \in Requests : call[p] = At("decr", u)})

(* n rows of u change: every COUNT in hand misses it, and so does a key    *)
(* whose bump does not come.                                               *)
Missed(u, n) ==
    countSlack' = [p \in Requests |-> IF call[p] = At("fill", u) THEN countSlack[p] + n
                                                                 ELSE countSlack[p]]
Lost(u, n) ==
    slack' = [slack EXCEPT ![u] = IF counter[u] = Missing THEN 0 ELSE @ + n]

(* Plausible defects, for the mutation runs *)

SavedAnyway(e, u) == TRUE
IncrementMissing(u) == (IF counter[u] = Missing THEN 0 ELSE counter[u]) + 1
SkipOnError == handled' = handled + 1

(* (eventId, recipientId) is unique: P2002 means it is handled already.    *)
SaveIfNew(e, u) == row[e][u] = "none"

(* INCR_IF_EXISTS and DECR_IF_EXISTS.                                      *)
Incremented(u) == IF counter[u] = Missing THEN Missing ELSE counter[u] + 1
Decremented(u) ==
    IF counter[u] = Missing THEN Missing ELSE IF counter[u] = 0 THEN 0 ELSE counter[u] - 1

(* RecipientResolver, which asks the database anew at every delivery: the  *)
(* other participant of the room; the author of the post unless he is the  *)
(* actor or the post is deleted; the members of the building but the actor.*)
ForMessage(e) == {{Owner, Tenant} \ {actor[e]}}
ForPostAuthor(e) == {{}} \cup {{u} : u \in Users \ {actor[e]}}
ForPost(e) == {to \in SUBSET (Users \ {actor[e]}) : Owner \in to \cup {actor[e]}}

Resolve(e) == IF e \in ChatEvents THEN ForMessage(e) ELSE ForPostAuthor(e) \cup ForPost(e)

-----------------------------------------------------------------------------
(* The worker: HandleEventUseCase.execute *)

(* A producer appends an event; the group gets each topic in its order.    *)
EventArrives(e) ==
    /\ actor[e] = None
    /\ log' = Append(log, e)
    /\ \E u \in (IF e \in ChatEvents THEN {Owner, Tenant} ELSE Users) :
        actor' = [actor EXCEPT ![e] = u]
    /\ NoFault /\ UNCHANGED <<row, groupVars, requestVars, keyVars, bumps>>

(* An event is there again: the relay emits a board event once more        *)
(* (Outbox), or a client sends again after an answer that it missed.       *)
EventRepeats(e) ==
    /\ actor[e] # None
    /\ log' = Append(log, e)
    /\ Fault /\ UNCHANGED <<actor, row, groupVars, requestVars, keyVars, bumps>>

StartEvent ==
    /\ job = NoJob
    /\ handled < Len(log)
    /\ LET e == log[handled + 1]
       IN  \E to \in Resolve(e) : job' = [event |-> e, todo |-> to, op |-> "save", to |-> None]
    /\ NoFault /\ UNCHANGED <<topicVars, row, handled, committed, requestVars, keyVars, bumps>>

Save(u) ==
    /\ job.op = "save" /\ u \in job.todo
    /\ LET e == job.event
       IN  IF SaveIfNew(e, u)
           THEN /\ row' = [row EXCEPT ![e] = Marked(@, u, "unread")]
                /\ job' = [job EXCEPT !.op = "incr", !.to = u]
                /\ Missed(u, 1)
           ELSE /\ job' = [job EXCEPT !.todo = @ \ {u}]
                /\ UNCHANGED <<row, countSlack>>
    /\ NoFault /\ UNCHANGED <<topicVars, handled, committed, call, count, keyVars, bumps>>

Increment ==
    /\ job.op = "incr"
    /\ counter' = [counter EXCEPT ![job.to] = Incremented(job.to)]
    /\ bumps' = [bumps EXCEPT ![job.event] = Marked(@, job.to, @[job.to] + 1)]
    /\ job' = [job EXCEPT !.op = "push"]
    /\ NoFault /\ UNCHANGED <<topicVars, row, handled, committed, requestVars, slack>>

(* PUBLISH to the recipient's sockets; a failure is logged and changes     *)
(* nothing either.                                                         *)
Push ==
    /\ job.op = "push"
    /\ job' = [job EXCEPT !.op = "save", !.todo = @ \ {job.to}, !.to = None]
    /\ NoFault /\ UNCHANGED <<topicVars, row, handled, committed, requestVars, keyVars, bumps>>

FinishEvent ==
    /\ job.op = "save" /\ job.todo = {}
    /\ job' = NoJob
    /\ handled' = handled + 1
    /\ NoFault /\ UNCHANGED <<topicVars, row, committed, requestVars, keyVars, bumps>>

(* A call of the handler throws: the event is delivered again, and skips   *)
(* the recipients that have their rows, the one it failed on included.     *)
AfterError == UNCHANGED handled

LoseBump == IF job.op = "incr" THEN Lost(job.to, 1) ELSE UNCHANGED slack

HandlerThrows ==
    /\ job.op \in {"save", "incr"}
    /\ AfterError
    /\ job' = NoJob
    /\ LoseBump
    /\ Fault /\ UNCHANGED <<topicVars, row, committed, requestVars, counter, bumps>>

CommitOffset ==
    /\ committed < handled
    /\ committed' = handled
    /\ NoFault /\ UNCHANGED <<topicVars, row, job, handled, requestVars, keyVars, bumps>>

(* The worker dies or the group is rebalanced.                             *)
RestartWorker ==
    /\ handled' = committed
    /\ job' = NoJob
    /\ LoseBump
    /\ Fault /\ UNCHANGED <<topicVars, row, committed, requestVars, counter, bumps>>

-----------------------------------------------------------------------------
(* The user's side *)

Aside == UNCHANGED <<topicVars, groupVars, bumps>>

(* A hit is answered at once; a miss goes on to the COUNT.                 *)
GetUnreadCount(p, u) ==
    /\ call[p] = Idle
    /\ counter[u] = Missing
    /\ Go(p, At("count", u))
    /\ NoFault /\ Aside /\ UNCHANGED <<row, keyVars, count, countSlack>>

CountUnread(p) ==
    /\ call[p].op = "count"
    /\ LET u == call[p].user
       IN  /\ count' = [count EXCEPT ![p] = Unread(u)]
           /\ countSlack' = [countSlack EXCEPT ![p] = PendingBumps(u)]
           /\ Go(p, At("fill", u))
    /\ NoFault /\ Aside /\ UNCHANGED <<row, keyVars>>

NoCount(p) == count' = [count EXCEPT ![p] = 0] /\ countSlack' = [countSlack EXCEPT ![p] = 0]

(* SET NX EX                                                               *)
Backfill(p) ==
    /\ call[p].op = "fill"
    /\ LET u == call[p].user
       IN  IF counter[u] = Missing
           THEN /\ counter' = [counter EXCEPT ![u] = count[p]]
                /\ slack' = [slack EXCEPT ![u] = countSlack[p]]
           ELSE UNCHANGED keyVars
    /\ NoCount(p) /\ Go(p, Idle)
    /\ NoFault /\ Aside /\ UNCHANGED row

(* Only a row that turns from unread to read leads to a decrement.         *)
MarkOneRead(p, u, e) ==
    /\ call[p] = Idle
    /\ row[e][u] = "unread"
    /\ row' = [row EXCEPT ![e] = Marked(@, u, "read")]
    /\ Missed(u, 1)
    /\ Go(p, At("decr", u))
    /\ NoFault /\ Aside /\ UNCHANGED <<keyVars, count>>

Decrement(p) ==
    /\ call[p].op = "decr"
    /\ LET u == call[p].user
       IN  /\ counter' = [counter EXCEPT ![u] = Decremented(u)]
           /\ slack' = [slack EXCEPT ![u] = IF counter[u] = 0 THEN @ + 1 ELSE @]
    /\ Go(p, Idle)
    /\ NoFault /\ Aside /\ UNCHANGED <<row, count, countSlack>>

MarkAllRead(p, u) ==
    /\ call[p] = Idle
    /\ row' = [e \in Events |-> IF row[e][u] = "unread" THEN Marked(row[e], u, "read") ELSE row[e]]
    /\ Missed(u, Unread(u))
    /\ Lost(u, Unread(u))
    /\ Go(p, At("reset", u))
    /\ NoFault /\ Aside /\ UNCHANGED <<counter, count>>

DropKey(u) ==
    /\ counter' = [counter EXCEPT ![u] = Missing]
    /\ slack' = [slack EXCEPT ![u] = 0]

Reset(p) ==
    /\ call[p].op = "reset"
    /\ DropKey(call[p].user)
    /\ Go(p, Idle)
    /\ NoFault /\ Aside /\ UNCHANGED <<row, count, countSlack>>

(* The call fails or the server dies before it.                            *)
RequestFails(p) ==
    /\ call[p] # Idle
    /\ IF call[p].op = "decr" THEN Lost(call[p].user, 1) ELSE UNCHANGED slack
    /\ NoCount(p) /\ Go(p, Idle)
    /\ Fault /\ Aside /\ UNCHANGED <<row, counter>>

(* UNREAD_COUNT_TTL_SEC after the fill, or eviction.                       *)
KeyExpires(u) ==
    /\ counter[u] # Missing
    /\ DropKey(u)
    /\ NoFault /\ Aside /\ UNCHANGED <<row, requestVars>>

-----------------------------------------------------------------------------

TopicGrows == \E e \in Events : EventArrives(e) \/ EventRepeats(e)

WorkerStep == StartEvent \/ (\E u \in Users : Save(u)) \/ Increment \/ Push \/ FinishEvent

NotificationRoutes(p) ==
    \E u \in Readers :
        \/ GetUnreadCount(p, u) \/ MarkAllRead(p, u)
        \/ \E e \in Events : MarkOneRead(p, u, e)

UserStep(p) ==
    \/ NotificationRoutes(p)
    \/ CountUnread(p) \/ Backfill(p) \/ Decrement(p) \/ Reset(p) \/ RequestFails(p)

Next ==
    \/ TopicGrows
    \/ WorkerStep \/ HandlerThrows \/ CommitOffset \/ RestartWorker
    \/ \E p \in Requests : UserStep(p)
    \/ \E u \in Users : KeyExpires(u)

Spec == Init /\ [][Next]_vars

(* The worker consumes as long as there are events.                        *)
FairSpec == Spec /\ WF_vars(WorkerStep) /\ WF_vars(CommitOffset)

-----------------------------------------------------------------------------
(* Properties *)

(* An event counts at most once for a recipient, and only after his row is *)
(* there, however often it is delivered.                                   *)
CountedOnce ==
    \A e \in Events, u \in Users :
        bumps[e][u] <= 1 /\ (bumps[e][u] = 1 => row[e][u] # "none")

(* The other participant has his notification.                            *)
Told(e) == \A u \in {Owner, Tenant} \ {actor[e]} : row[e][u] # "none"

(* The committed offset never passes a message that its recipient was not  *)
(* told about: no failure and no restart makes the worker skip one, and    *)
(* none of them makes it count one twice.                                  *)
NotifiedOnce ==
    /\ \A i \in 1..committed : log[i] \in ChatEvents => Told(log[i])
    /\ CountedOnce

Distance(m, n) == IF m > n THEN m - n ELSE n - m

(* The unread counter is off by no more than the bumps on their way, those *)
(* that failed (a redelivered event does not make up for its own), those   *)
(* that the floor at zero swallowed because a row was read before its bump *)
(* came, and the changes that raced with the COUNT it was filled from.     *)
UnreadDrift ==
    \A u \in Users : counter[u] # Missing =>
        Distance(counter[u], Unread(u)) <= PendingBumps(u) + slack[u]

(* Every message in the topic is notified to the other participant in the  *)
(* end, whatever is redelivered or restarted on the way.                   *)
EveryMessageNotified == \A e \in ChatEvents : actor[e] # None ~> actor[e] # None /\ Told(e)
=============================================================================
