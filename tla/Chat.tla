--------------------------------- MODULE Chat ---------------------------------
(***************************************************************************)
(* Chat between the owner of a building and its tenants.  A room is found  *)
(* or made; a message goes to the open sockets, to a capped list in Redis  *)
(* and to a Kafka topic, one after the other and without a transaction; a  *)
(* worker that reads the topic at least once stores it.  The direct        *)
(* publish logs a failure and swallows it.                                 *)
(***************************************************************************)
EXTENDS Integers, FiniteSets, Sequences

CONSTANTS Users, Rooms, Messages, Requests, None,
          Owner,        (* Building.ownerId of the one building             *)
          Tenants,      (* its members beside the owner                     *)
          RecentLimit,  (* RECENT_LIMIT                                     *)
          MaxFaults     (* bound: failures and restarts                     *)

ASSUME ChatAssumption ==
    /\ Owner \in Users /\ Tenants \subseteq Users
    /\ RecentLimit \in Nat \ {0} /\ MaxFaults \in Nat
    /\ None \notin Users \cup Rooms \cup Messages \cup [on : Rooms, by : Users]

VARIABLES
    room,        (* tenantId of a ChatRoom row; None: no such row           *)
    sent,        (* room and sender of a message; None: not created         *)
    recent,      (* the Redis list of a room, newest first                  *)
    expiring,    (* the list has an expiry                                  *)
    pushed,      (* history: pushes since the list last came into being     *)
    abandoned,   (* history: the commands failed pushes have left out of a  *)
                 (* room's list and no later push has made up for           *)
    chatLog,     (* the topic of chat events: one partition                 *)
    copies,      (* Message rows with an id                                 *)
    stored,      (* persistence group: position reached, and the committed  *)
    storedOffset,
    call,        (* what each request is about to do                        *)
    faults       (* failures so far                                         *)

roomVars == <<room, sent>>
listVars == <<recent, expiring, pushed>>
cacheVars == <<listVars, abandoned>>
persistVars == <<copies, stored, storedOffset>>
chatVars == <<roomVars, cacheVars, chatLog, persistVars>>
vars == <<chatVars, call, faults>>

At(o, u, x, m) == [op |-> o, user |-> u, on |-> x, msg |-> m]
Idle == At("idle", None, None, None)
Go(p, c) == call' = [call EXCEPT ![p] = c]
Step(p, o) == Go(p, [call[p] EXCEPT !.op = o])

Init ==
    /\ room = [x \in Rooms |-> None]
    /\ sent = [m \in Messages |-> None]
    /\ recent = [x \in Rooms |-> <<>>]
    /\ expiring = [x \in Rooms |-> FALSE]
    /\ pushed = [x \in Rooms |-> <<>>]
    /\ abandoned = [x \in Rooms |-> {}]
    /\ chatLog = <<>>
    /\ copies = [m \in Messages |-> 0]
    /\ stored = 0 /\ storedOffset = 0
    /\ call = [p \in Requests |-> Idle]
    /\ faults = 0

Fault == faults < MaxFaults /\ faults' = faults + 1

-----------------------------------------------------------------------------
(* Plausible defects, for the mutation runs *)

PublishForgotten(p) == call[p].op = "publish" /\ Go(p, Idle) /\ UNCHANGED <<chatVars, faults>>
TrimOldest(s) == IF Len(s) > RecentLimit THEN Tail(s) ELSE s
SwallowPersist(i) == stored' = i /\ UNCHANGED copies

-----------------------------------------------------------------------------

(* ChatRoom.isParticipant                                                  *)
IsParticipant(x, u) == room[x] # None /\ u \in {Owner, room[x]}

(* The unique key (buildingId, tenantId).                                  *)
UniqueTenant(t) == \A x \in Rooms : room[x] # t

(* LTRIM 0 RECENT_LIMIT-1                                                  *)
Trimmed(s) == SubSeq(s, 1, IF Len(s) < RecentLimit THEN Len(s) ELSE RecentLimit)

(* P2002 on the message id is ignored.                                     *)
CopiesAfter(m) == IF copies[m] = 0 THEN 1 ELSE copies[m]

-----------------------------------------------------------------------------
(* Rooms *)

(* The owner for any tenant, or a tenant for himself; the tenant has to be *)
(* a member of the building.                                               *)
MayOpen(u, t) == (u = Owner \/ u = t) /\ t \in Tenants \cup {Owner}

EnsureRoom(p, u, t) ==
    /\ call[p] = Idle
    /\ MayOpen(u, t)
    /\ Go(p, At("find", t, None, None))
    /\ UNCHANGED <<chatVars, faults>>

FindByBuildingAndTenant(p) ==
    /\ call[p].op = "find"
    /\ IF UniqueTenant(call[p].user) THEN Step(p, "save") ELSE Go(p, Idle)
    /\ UNCHANGED <<chatVars, faults>>

(* The loser of the race gets the database's error, not the room.          *)
SaveRoom(p, x) ==
    /\ call[p].op = "save"
    /\ room[x] = None
    /\ room' = IF UniqueTenant(call[p].user) THEN [room EXCEPT ![x] = call[p].user] ELSE room
    /\ Go(p, Idle)
    /\ UNCHANGED <<sent, cacheVars, chatLog, persistVars, faults>>

-----------------------------------------------------------------------------
(* Sending: the gateway's message handler *)

(* Message.create gives a fresh id.                                        *)
SendMessage(p, u, x, m) ==
    /\ call[p] = Idle
    /\ IsParticipant(x, u)
    /\ sent[m] = None
    /\ sent' = [sent EXCEPT ![m] = [on |-> x, by |-> u]]
    /\ Go(p, At("relay", None, x, m))
    /\ UNCHANGED <<room, cacheVars, chatLog, persistVars, faults>>

(* PUBLISH to the sockets of every server; nobody keeps it.                *)
Relay(p) ==
    /\ call[p].op = "relay"
    /\ Step(p, "lpush")
    /\ UNCHANGED <<chatVars, faults>>

(* LPUSH makes the list if it is not there, without an expiry.             *)
Lpush(p) ==
    /\ call[p].op = "lpush"
    /\ LET x == call[p].on
       IN  /\ recent' = [recent EXCEPT ![x] = <<call[p].msg>> \o @]
           /\ pushed' = [pushed EXCEPT ![x] = <<call[p].msg>> \o @]
    /\ Step(p, "trim")
    /\ UNCHANGED <<roomVars, expiring, abandoned, chatLog, persistVars, faults>>

Ltrim(p) ==
    /\ call[p].op = "trim"
    /\ recent' = [recent EXCEPT ![call[p].on] = Trimmed(@)]
    /\ abandoned' = [abandoned EXCEPT ![call[p].on] = @ \ {"trim"}]
    /\ Step(p, "expire")
    /\ UNCHANGED <<roomVars, expiring, pushed, chatLog, persistVars, faults>>

(* EXPIRE slides the expiry; on a key that is gone it does nothing.        *)
Expire(p) ==
    /\ call[p].op = "expire"
    /\ expiring' = [expiring EXCEPT ![call[p].on] = recent[call[p].on] # <<>>]
    /\ abandoned' = [abandoned EXCEPT ![call[p].on] = @ \ {"expire"}]
    /\ Step(p, "publish")
    /\ UNCHANGED <<roomVars, recent, pushed, chatLog, persistVars, faults>>

Publish(p) ==
    /\ call[p].op = "publish"
    /\ chatLog' = Append(chatLog, call[p].msg)
    /\ Go(p, Idle)
    /\ UNCHANGED <<roomVars, cacheVars, persistVars, faults>>

(* The client sends again when it misses the answer, so that the topic may *)
(* have the message twice.                                                 *)
PublishRetried(p) ==
    /\ call[p].op = "publish"
    /\ Fault
    /\ chatLog' = Append(chatLog, call[p].msg)
    /\ UNCHANGED <<roomVars, cacheVars, persistVars, call>>

(* Kafka refuses; the error is logged and the sender sees a success.       *)
PublishSwallowed(p) ==
    /\ call[p].op = "publish"
    /\ Fault
    /\ Go(p, Idle)
    /\ UNCHANGED chatVars

SendOps == {"relay", "lpush", "trim", "expire", "publish"}

(* Between the commands of a push: those it has still to run.              *)
InList(p) == call[p].op \in {"trim", "expire"}
LeftOut(p) == IF call[p].op = "trim" THEN {"trim", "expire"} ELSE {"expire"}

(* Redis fails a command, the database fails, or the server dies.          *)
RequestFails(p) ==
    /\ call[p].op \in {"find", "save"} \cup SendOps
    /\ Fault
    /\ Go(p, Idle)
    /\ abandoned' = IF InList(p) THEN [abandoned EXCEPT ![call[p].on] = @ \cup LeftOut(p)] ELSE abandoned
    /\ UNCHANGED <<roomVars, listVars, chatLog, persistVars>>

(* RECENT_TTL_SEC after the last push.                                     *)
ListExpires(x) ==
    /\ expiring[x]
    /\ recent' = [recent EXCEPT ![x] = <<>>]
    /\ pushed' = [pushed EXCEPT ![x] = <<>>]
    /\ expiring' = [expiring EXCEPT ![x] = FALSE]
    /\ abandoned' = [abandoned EXCEPT ![x] = {}]
    /\ UNCHANGED <<roomVars, chatLog, persistVars, call, faults>>

(* What a participant sees of a room: the cached list if there is one, and *)
(* the stored messages otherwise.                                          *)
FindRecent(x) == {m \in Messages : copies[m] > 0 /\ sent[m].on = x}
GetMessages(x) == IF recent[x] # <<>> THEN {recent[x][i] : i \in 1..Len(recent[x])} ELSE FindRecent(x)

-----------------------------------------------------------------------------
(* The persistence worker *)

Persist(i) ==
    /\ copies' = [copies EXCEPT ![chatLog[i]] = CopiesAfter(chatLog[i])]
    /\ stored' = i

(* Any other error is thrown, and the message is delivered again.          *)
PersistThrows(i) == UNCHANGED <<copies, stored>>

OnMessageSent ==
    /\ stored < Len(chatLog)
    /\ \/ Persist(stored + 1) /\ UNCHANGED faults
       \/ Fault /\ PersistThrows(stored + 1)
    /\ UNCHANGED <<roomVars, cacheVars, chatLog, storedOffset, call>>

CommitStored ==
    /\ storedOffset < stored
    /\ storedOffset' = stored
    /\ UNCHANGED <<roomVars, cacheVars, chatLog, copies, stored, call, faults>>

RestartPersistence ==
    /\ Fault
    /\ stored' = storedOffset
    /\ UNCHANGED <<roomVars, cacheVars, chatLog, copies, storedOffset, call>>

-----------------------------------------------------------------------------

SendStep(p) ==
    Relay(p) \/ Lpush(p) \/ Ltrim(p) \/ Expire(p) \/ Publish(p) \/ PublishRetried(p) \/ PublishSwallowed(p)

RoomRoutes(p) == \E u, t \in Users : EnsureRoom(p, u, t)

OnMessage(p) == \E u \in Users, x \in Rooms, m \in Messages : SendMessage(p, u, x, m)

Next ==
    \/ \E p \in Requests :
        \/ RoomRoutes(p) \/ OnMessage(p)
        \/ \E x \in Rooms : SaveRoom(p, x)
        \/ FindByBuildingAndTenant(p) \/ SendStep(p) \/ RequestFails(p)
    \/ \E x \in Rooms : ListExpires(x)
    \/ OnMessageSent \/ CommitStored \/ RestartPersistence

Spec == Init /\ [][Next]_vars

-----------------------------------------------------------------------------
(* Properties *)

(* Every message below the committed offset is stored, once, whatever is   *)
(* redelivered and whatever fails on the way.                              *)
StoredOnce ==
    /\ \A i \in 1..storedOffset : copies[chatLog[i]] = 1
    /\ \A m \in Messages : copies[m] <= 1

Pushing(x) == {p \in Requests : call[p].on = x /\ InList(p)}

(* The cached list is the newest part of what was pushed since it came     *)
(* into being, and a reader sees the last RECENT_LIMIT of these pushes,    *)
(* stored or not.  It is over its limit or without an expiry only while    *)
(* its pusher is between two commands, or after a push of this room failed *)
(* before that very command, and until the next one runs it.               *)
RecentConsistent ==
    \A x \in Rooms :
        /\ recent[x] = SubSeq(pushed[x], 1, Len(recent[x]))
        /\ \A i \in 1..Len(pushed[x]) : i <= RecentLimit => pushed[x][i] \in GetMessages(x)
        /\ Pushing(x) = {} =>
            /\ Len(recent[x]) <= RecentLimit \/ "trim" \in abandoned[x]
            /\ recent[x] = <<>> \/ expiring[x] \/ "expire" \in abandoned[x]

(* How far a message has come; what nobody sends any more and the topic    *)
(* does not have is lost.                                                  *)
Sends(p, m) == call[p].op \in SendOps /\ call[p].msg = m
Sending(m) == \E p \in Requests : Sends(p, m)
Published(m) == \E i \in 1..Len(chatLog) : chatLog[i] = m

FateOf(m) ==
    IF sent[m] = None THEN "new"
    ELSE IF copies[m] > 0 THEN "stored"
    ELSE IF Published(m) THEN "published"
    ELSE IF Sending(m) THEN "sending" ELSE "lost"

Promise == INSTANCE Messaging WITH fate <- [m \in Messages |-> FateOf(m)], failures <- faults

(* A message is stored only after it is published and never gets lost      *)
(* after that; one that was sent and is never published has cost a failure *)
(* of its own, of Kafka, of Redis or of the server.                        *)
ImplementsMessaging == Promise!Spec
=============================================================================
