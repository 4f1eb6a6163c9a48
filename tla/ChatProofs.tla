----------------------------- MODULE ChatProofs -----------------------------
(***************************************************************************)
(* The safety of chat for any number of users, rooms, messages, requests   *)
(* and failures, and any length of the cached list; and that the chat      *)
(* keeps the promise of Messaging about each message.                      *)
(***************************************************************************)
EXTENDS Chat, FiniteSetTheorems, TLAPS

-----------------------------------------------------------------------------
(* The inductive invariant *)

RoomOps == {"find", "save"}

CallType ==
    [op : {"idle"} \cup RoomOps \cup SendOps, user : Users \cup {None},
     on : Rooms \cup {None}, msg : Messages \cup {None}]

Types ==
    /\ room \in [Rooms -> Users \cup {None}]
    /\ recent \in [Rooms -> Seq(Messages)]
    /\ pushed \in [Rooms -> Seq(Messages)]
    /\ expiring \in [Rooms -> BOOLEAN]
    /\ abandoned \in [Rooms -> SUBSET {"trim", "expire"}]
    /\ chatLog \in Seq(Messages)
    /\ copies \in [Messages -> {0, 1}]
    /\ stored \in Nat /\ storedOffset \in Nat /\ faults \in Nat
    /\ call \in [Requests -> CallType]
    /\ \A p \in Requests :
        /\ call[p].op \in RoomOps => call[p].user \in Users
        /\ call[p].op \in SendOps => call[p].on \in Rooms /\ call[p].msg \in Messages

(* What has been reached is stored; the worker's position is in the topic. *)
StoreSound ==
    /\ storedOffset <= stored /\ stored <= Len(chatLog)
    /\ \A i \in 1..stored : copies[chatLog[i]] = 1

(* The list is a prefix of what was pushed, whole or as long as the limit. *)
ListSound(x) ==
    /\ Len(recent[x]) <= Len(pushed[x])
    /\ \A i \in 1..Len(recent[x]) : recent[x][i] = pushed[x][i]
    /\ Len(recent[x]) = Len(pushed[x]) \/ Len(recent[x]) >= RecentLimit

(* Somebody is about to trim a list that is too long, and about to give    *)
(* one without an expiry its own, unless that command was left out.        *)
PusherSound(x) ==
    /\ Len(recent[x]) > RecentLimit /\ "trim" \notin abandoned[x]
        => \E p \in Pushing(x) : call[p].op = "trim"
    /\ recent[x] # <<>> /\ ~expiring[x] /\ "expire" \notin abandoned[x] => Pushing(x) # {}

Inv ==
    /\ Types /\ StoreSound
    /\ \A x \in Rooms : ListSound(x) /\ PusherSound(x)

(* No rooms, no messages, no calls.                                        *)
LEMMA InitInv == Init => Inv
<1> SUFFICES ASSUME Init PROVE Inv
  OBVIOUS
<1> USE ChatAssumption DEF Init
<1>1. Idle \in CallType /\ Idle.op = "idle"
  BY DEF Idle, At, CallType
<1>2. Types
  BY <1>1 DEF Types, RoomOps, SendOps
<1>3. StoreSound
  BY DEF StoreSound
<1>4. \A x \in Rooms : ListSound(x) /\ PusherSound(x)
  BY DEF ListSound, PusherSound
<1> QED
  BY <1>2, <1>3, <1>4 DEF Inv

-----------------------------------------------------------------------------
(* Steps of requests *)

(* What Go leaves behind.                                                  *)
LEMMA GoFacts ==
  ASSUME Types, NEW p \in Requests, NEW c, Go(p, c)
  PROVE  /\ call'[p] = c /\ \A q \in Requests \ {p} : call'[q] = call[q]
         /\ c \in CallType => call' \in [Requests -> CallType]
         /\ Idle \in CallType /\ Idle.op = "idle"
         /\ call[p] \in CallType
<1>1. Idle \in CallType /\ Idle.op = "idle"
  BY DEF Idle, At, CallType
<1> QED
  BY <1>1 DEF Types, Go

(* A call the types allow.                                                 *)
CallSound(c) ==
    /\ c \in CallType
    /\ c.op \in RoomOps => c.user \in Users
    /\ c.op \in SendOps => c.on \in Rooms /\ c.msg \in Messages

(* A request that touches neither lists nor the topic; what it leaves out, *)
(* if it ends in the middle of a push, is noted.                           *)
LEMMA LeavingStep ==
  ASSUME Inv, NEW p \in Requests, NEW c, Go(p, c), CallSound(c),
         UNCHANGED <<listVars, chatLog, persistVars>>,
         room' \in [Rooms -> Users \cup {None}], faults' \in Nat,
         abandoned' \in [Rooms -> SUBSET {"trim", "expire"}],
         \A x \in Rooms :
            /\ abandoned[x] \subseteq abandoned'[x]
            /\ p \in Pushing(x) => LeftOut(p) \subseteq abandoned'[x]
  PROVE  Inv'
<1> USE DEF listVars, persistVars
<1>1. Types'
  BY GoFacts DEF Inv, Types, CallSound
<1>2. StoreSound'
  BY DEF Inv, StoreSound
<1>3. \A x \in Rooms : ListSound(x)'
  BY DEF Inv, ListSound
<1>4. ASSUME NEW x \in Rooms PROVE PusherSound(x)'
  <2>1. \A q \in Pushing(x) : q # p => q \in Pushing(x)' /\ call'[q] = call[q]
    BY GoFacts DEF Pushing, InList, Inv
  <2>2. PusherSound(x) /\ abandoned[x] \subseteq abandoned'[x]
    BY DEF Inv
  <2>3. CASE p \notin Pushing(x)
    BY <2>1, <2>2, <2>3 DEF PusherSound
  <2>4. CASE p \in Pushing(x)
    <3>1. /\ "expire" \in abandoned'[x]
          /\ call[p].op = "trim" => "trim" \in abandoned'[x]
      BY <2>4 DEF LeftOut
    <3> QED
      BY <2>1, <2>2, <3>1 DEF PusherSound
  <2> QED
    BY <2>3, <2>4
<1> QED
  BY <1>1, <1>2, <1>3, <1>4 DEF Inv

LEMMA QuietStep ==
  ASSUME Inv, NEW p \in Requests, NEW c, Go(p, c), CallSound(c),
         UNCHANGED <<cacheVars, chatLog, persistVars>>,
         room' \in [Rooms -> Users \cup {None}], faults' \in Nat,
         call[p].op \notin {"trim", "expire"}
  PROVE  Inv'
<1>1. abandoned' \in [Rooms -> SUBSET {"trim", "expire"}] /\ abandoned' = abandoned
  BY DEF Inv, Types, cacheVars
<1>2. \A x \in Rooms : p \notin Pushing(x)
  BY DEF Pushing, InList
<1> QED
  BY <1>1, <1>2, LeavingStep DEF cacheVars

LEMMA RoomInv ==
  ASSUME Inv, NEW p \in Requests,
         \/ \E u, t \in Users : EnsureRoom(p, u, t)
         \/ FindByBuildingAndTenant(p)
         \/ \E x \in Rooms : SaveRoom(p, x)
  PROVE  Inv'
<1> USE ChatAssumption DEF Idle, At, CallSound, CallType, RoomOps, SendOps, chatVars, roomVars
<1>1. ASSUME NEW u \in Users, NEW t \in Users, EnsureRoom(p, u, t) PROVE Inv'
  <2>1. room' \in [Rooms -> Users \cup {None}] /\ faults' = faults /\ faults \in Nat
    BY <1>1 DEF EnsureRoom, Inv, Types
  <2> QED
    BY <1>1, <2>1, QuietStep DEF EnsureRoom
<1>2. CASE FindByBuildingAndTenant(p)
  <2>1. room' \in [Rooms -> Users \cup {None}] /\ faults' = faults /\ faults \in Nat
    BY <1>2 DEF FindByBuildingAndTenant, Inv, Types
  <2>2. PICK c : Go(p, c) /\ CallSound(c)
    <3>1. Idle \in CallType /\ CallSound(Idle)
      OBVIOUS
    <3>2. CallSound([call[p] EXCEPT !.op = "save"])
      <4>1. call[p] \in CallType /\ call[p].user \in Users
        BY <1>2 DEF FindByBuildingAndTenant, Inv, Types
      <4> QED
        BY <4>1
    <3> HIDE DEF CallSound, Idle
    <3>3. Go(p, Idle) \/ Go(p, [call[p] EXCEPT !.op = "save"])
      BY <1>2 DEF FindByBuildingAndTenant, Step
    <3> QED
      BY <3>1, <3>2, <3>3
  <2>3. UNCHANGED <<cacheVars, chatLog, persistVars>> /\ call[p].op \notin {"trim", "expire"}
    BY <1>2 DEF FindByBuildingAndTenant
  <2> HIDE DEF CallSound
  <2> QED
    BY <2>1, <2>2, <2>3, QuietStep
<1>3. ASSUME NEW x \in Rooms, SaveRoom(p, x) PROVE Inv'
  <2>1. call[p].user \in Users
    BY <1>3 DEF SaveRoom, Inv, Types
  <2>2. room' \in [Rooms -> Users \cup {None}] /\ faults' = faults /\ faults \in Nat
    BY <1>3, <2>1 DEF SaveRoom, Inv, Types
  <2> QED
    BY <1>3, <2>2, QuietStep DEF SaveRoom
<1> QED
  BY <1>1, <1>2, <1>3
(* Creating a message, relaying it, and what ends without a push.          *)
LEMMA SendInv ==
  ASSUME Inv, NEW p \in Requests,
         \/ \E u \in Users, x \in Rooms, m \in Messages : SendMessage(p, u, x, m)
         \/ Relay(p) \/ PublishSwallowed(p) \/ RequestFails(p)
  PROVE  Inv'
<1> USE DEF chatVars, roomVars
<1>1. /\ room' \in [Rooms -> Users \cup {None}] /\ UNCHANGED <<listVars, chatLog, persistVars>>
      /\ ~RequestFails(p) => UNCHANGED cacheVars
  BY DEF SendMessage, Relay, PublishSwallowed, RequestFails, cacheVars, Inv, Types
<1>2. CallSound(Idle)
  BY DEF CallSound, CallType, Idle, At, RoomOps, SendOps
<1>3. ASSUME NEW u \in Users, NEW x \in Rooms, NEW m \in Messages, SendMessage(p, u, x, m) PROVE Inv'
  <2> PICK c : c = At("relay", None, x, m)
    OBVIOUS
  <2>1. CallSound(c)
    BY DEF CallSound, CallType, At, RoomOps, SendOps
  <2>2. Go(p, c) /\ faults' = faults /\ faults \in Nat /\ call[p].op = "idle"
    BY <1>3 DEF SendMessage, Idle, At, Inv, Types
  <2>3. UNCHANGED cacheVars
    BY <1>3 DEF SendMessage
  <2> QED
    BY <1>1, <2>1, <2>2, <2>3, QuietStep
<1>4. CASE Relay(p)
  <2> PICK c : c = [call[p] EXCEPT !.op = "lpush"]
    OBVIOUS
  <2>1. CallSound(c)
    BY <1>4 DEF Relay, CallSound, CallType, RoomOps, SendOps, Inv, Types
  <2>2. Go(p, c) /\ faults' = faults /\ faults \in Nat /\ call[p].op = "relay" /\ UNCHANGED cacheVars
    BY <1>4 DEF Relay, Step, Inv, Types
  <2> QED
    BY <1>1, <2>1, <2>2, QuietStep
<1>5. CASE PublishSwallowed(p)
  <2>1. Go(p, Idle) /\ faults' \in Nat /\ call[p].op = "publish" /\ UNCHANGED cacheVars
    BY <1>5 DEF PublishSwallowed, Fault, Inv, Types
  <2> QED
    BY <1>1, <1>2, <2>1, QuietStep
<1>6. CASE RequestFails(p)
  <2>1. Go(p, Idle) /\ faults' \in Nat
    BY <1>6 DEF RequestFails, Fault, Inv, Types
  <2>2. CASE InList(p)
    <3>1. PICK y \in Rooms : y = call[p].on
      BY <2>2 DEF InList, Inv, Types, SendOps
    <3>2. PICK L \in SUBSET {"trim", "expire"} : L = LeftOut(p)
      BY DEF LeftOut
    <3>3. /\ abandoned' = [abandoned EXCEPT ![y] = abandoned[y] \cup L]
          /\ abandoned \in [Rooms -> SUBSET {"trim", "expire"}]
      BY <1>6, <2>2, <3>1, <3>2 DEF RequestFails, Inv, Types
    <3>4. ASSUME NEW x \in Rooms
          PROVE  /\ abandoned[x] \subseteq abandoned'[x]
                 /\ x = y => L \subseteq abandoned'[x]
      BY <3>3
    <3>5. ASSUME NEW x \in Rooms
          PROVE  /\ abandoned[x] \subseteq abandoned'[x]
                 /\ p \in Pushing(x) => LeftOut(p) \subseteq abandoned'[x]
      <4>1. p \in Pushing(x) => x = y
        BY <3>1 DEF Pushing
      <4> QED
        BY <3>2, <3>4, <4>1
    <3>6. abandoned' \in [Rooms -> SUBSET {"trim", "expire"}]
      BY <3>3
    <3>7. room' \in [Rooms -> Users \cup {None}] /\ UNCHANGED <<listVars, chatLog, persistVars>>
      BY <1>1
    <3>8. Go(p, Idle) /\ CallSound(Idle) /\ faults' \in Nat /\ Inv /\ p \in Requests
      BY <1>2, <2>1
    <3> QED
      BY <3>5, <3>6, <3>7, <3>8, LeavingStep
  <2>3. CASE ~InList(p)
    <3>1. UNCHANGED cacheVars /\ call[p].op \notin {"trim", "expire"}
      BY <1>1, <1>6, <2>3 DEF RequestFails, cacheVars, InList
    <3> QED
      BY <1>1, <1>2, <2>1, <3>1, QuietStep
  <2> QED
    BY <2>2, <2>3
<1> QED
  BY <1>3, <1>4, <1>5, <1>6

(* The topic grows at its end.                                             *)
LEMMA PublishInv ==
  ASSUME Inv, NEW p \in Requests, Publish(p) \/ PublishRetried(p)
  PROVE  Inv'
<1> USE DEF roomVars, cacheVars, listVars, persistVars
<1>0. /\ chatLog' = Append(chatLog, call[p].msg) /\ call[p].op = "publish"
      /\ UNCHANGED <<roomVars, cacheVars, persistVars>>
      /\ Go(p, Idle) \/ call' = call
      /\ faults' \in Nat /\ (faults' = 0 => faults = 0)
  BY DEF Publish, PublishRetried, Fault, Inv, Types
<1>1. call[p].msg \in Messages /\ call[p].op = "publish"
  BY <1>0 DEF Inv, Types, SendOps
<1>2. /\ chatLog' \in Seq(Messages) /\ Len(chatLog') = Len(chatLog) + 1
      /\ \A i \in 1..Len(chatLog) : chatLog'[i] = chatLog[i]
  BY <1>0, <1>1 DEF Inv, Types
<1>3. /\ call' \in [Requests -> CallType] /\ (call'[p].op = "idle" \/ call'[p] = call[p])
      /\ \A q \in Requests \ {p} : call'[q] = call[q]
  BY <1>0, GoFacts DEF Inv, Types
<1>4. Types'
  BY <1>0, <1>2, <1>3 DEF Inv, Types, RoomOps, SendOps
<1>6. StoreSound'
  BY <1>0, <1>2 DEF Inv, StoreSound, Types
<1>7. ASSUME NEW x \in Rooms PROVE ListSound(x)' /\ PusherSound(x)'
  <2>1. Pushing(x)' = Pushing(x)
    BY <1>1, <1>3 DEF Pushing, InList
  <2>2. \A q \in Pushing(x) : call'[q] = call[q]
    BY <1>1, <1>3 DEF Pushing, InList
  <2>3. recent' = recent /\ expiring' = expiring /\ pushed' = pushed /\ abandoned' = abandoned
    BY <1>0
  <2> QED
    BY <2>1, <2>2, <2>3 DEF Inv, ListSound, PusherSound
<1> QED
  BY <1>4, <1>6, <1>7 DEF Inv

-----------------------------------------------------------------------------
(* Steps on the cached list *)

(* Pushes, trims and expiries leave the rest as it is.                     *)
LEMMA ListStep ==
  ASSUME Inv, UNCHANGED <<roomVars, chatLog, persistVars, faults>>, NEW x \in Rooms,
         recent' \in [Rooms -> Seq(Messages)], pushed' \in [Rooms -> Seq(Messages)],
         expiring' \in [Rooms -> BOOLEAN], abandoned' \in [Rooms -> SUBSET {"trim", "expire"}],
         call' \in [Requests -> CallType],
         \A p \in Requests :
            /\ call'[p].op \in RoomOps => call'[p].user \in Users
            /\ call'[p].op \in SendOps => call'[p].on \in Rooms /\ call'[p].msg \in Messages,
         \A y \in Rooms \ {x} :
            /\ recent'[y] = recent[y] /\ pushed'[y] = pushed[y] /\ expiring'[y] = expiring[y]
            /\ abandoned'[y] = abandoned[y]
            /\ \A p \in Pushing(y) : p \in Pushing(y)' /\ call'[p] = call[p],
         ListSound(x)', PusherSound(x)'
  PROVE  Inv'
<1> USE DEF roomVars, persistVars
<1>1. Types'
  BY DEF Inv, Types
<1>2. StoreSound'
  BY DEF Inv, StoreSound
<1>3. ASSUME NEW y \in Rooms \ {x} PROVE ListSound(y)' /\ PusherSound(y)'
  <2>2. \A p \in Pushing(y) : p \in Pushing(y)' /\ call'[p] = call[p]
    OBVIOUS
  <2>3. /\ recent'[y] = recent[y] /\ expiring'[y] = expiring[y] /\ pushed'[y] = pushed[y]
        /\ abandoned'[y] = abandoned[y]
    OBVIOUS
  <2>4. ListSound(y) /\ PusherSound(y)
    BY DEF Inv
  <2>1. ListSound(y)'
    BY <2>3, <2>4 DEF ListSound
  <2>5. PusherSound(y)'
    BY <2>2, <2>3, <2>4 DEF PusherSound
  <2> QED
    BY <2>1, <2>5
<1> QED
  BY <1>1, <1>2, <1>3 DEF Inv

(* What a request in the middle of a push does to the pushers of a room.   *)
LEMMA PushFacts ==
  ASSUME Inv, NEW p \in Requests, NEW o \in SendOps, Step(p, o), call[p].op \in SendOps
  PROVE  /\ call' \in [Requests -> CallType]
         /\ call'[p].op = o /\ call'[p].on = call[p].on /\ call[p].on \in Rooms
         /\ call[p].msg \in Messages
         /\ \A q \in Requests \ {p} : call'[q] = call[q]
         /\ \A q \in Requests :
              /\ call'[q].op \in RoomOps => call'[q].user \in Users
              /\ call'[q].op \in SendOps => call'[q].on \in Rooms /\ call'[q].msg \in Messages
         /\ \A y \in Rooms \ {call[p].on} : \A q \in Pushing(y) : q \in Pushing(y)' /\ call'[q] = call[q]
<1> PICK c : c = [call[p] EXCEPT !.op = o]
  OBVIOUS
<1>1. /\ c \in CallType /\ c.op = o /\ c.on = call[p].on /\ c.msg = call[p].msg
      /\ call[p].on \in Rooms /\ call[p].msg \in Messages /\ Go(p, c)
  BY DEF CallType, SendOps, RoomOps, Step, Inv, Types
<1>2. call'[p] = c /\ call' \in [Requests -> CallType] /\ \A q \in Requests \ {p} : call'[q] = call[q]
  BY <1>1, GoFacts DEF Inv
<1>3. \A q \in Requests :
        /\ call'[q].op \in RoomOps => call'[q].user \in Users
        /\ call'[q].op \in SendOps => call'[q].on \in Rooms /\ call'[q].msg \in Messages
  BY <1>1, <1>2 DEF Inv, Types, RoomOps, SendOps
<1>4. \A y \in Rooms \ {call[p].on} : \A q \in Pushing(y) : q \in Pushing(y)' /\ call'[q] = call[q]
  BY <1>1, <1>2 DEF Pushing, InList
<1> QED
  BY <1>1, <1>2, <1>3, <1>4

LEMMA LpushInv == ASSUME Inv, NEW p \in Requests, Lpush(p) PROVE Inv'
<1> USE DEF Lpush
<1> PICK x : x = call[p].on
  OBVIOUS
<1> PICK m : m = call[p].msg
  OBVIOUS
<1>1. Step(p, "trim") /\ "trim" \in SendOps /\ call[p].op \in SendOps /\ call[p].op = "lpush"
  BY DEF SendOps
<1>2. x \in Rooms /\ m \in Messages
  BY <1>1, PushFacts
<1>3. recent' = [recent EXCEPT ![x] = <<m>> \o @] /\ pushed' = [pushed EXCEPT ![x] = <<m>> \o @]
  OBVIOUS
<1>4. recent' \in [Rooms -> Seq(Messages)] /\ pushed' \in [Rooms -> Seq(Messages)]
  BY <1>2, <1>3 DEF Inv, Types
<1>5. \A s \in Seq(Messages) : /\ Len(<<m>> \o s) = Len(s) + 1 /\ (<<m>> \o s)[1] = m
                               /\ \A i \in 2..(Len(s) + 1) : (<<m>> \o s)[i] = s[i - 1]
  BY <1>2
<1>6. ListSound(x)'
  <2>1. /\ Len(recent'[x]) = Len(recent[x]) + 1 /\ Len(pushed'[x]) = Len(pushed[x]) + 1
        /\ \A i \in 1..Len(recent'[x]) : recent'[x][i] = pushed'[x][i]
    <3>1. recent'[x] = <<m>> \o recent[x] /\ pushed'[x] = <<m>> \o pushed[x]
      BY <1>2, <1>3 DEF Inv, Types
    <3>2. recent[x] \in Seq(Messages) /\ pushed[x] \in Seq(Messages) /\ ListSound(x)
      BY <1>2 DEF Inv, Types
    <3>3. /\ Len(recent'[x]) = Len(recent[x]) + 1 /\ Len(pushed'[x]) = Len(pushed[x]) + 1
          /\ recent'[x][1] = m /\ pushed'[x][1] = m
          /\ \A i \in 2..(Len(recent[x]) + 1) : recent'[x][i] = recent[x][i - 1]
          /\ \A i \in 2..(Len(pushed[x]) + 1) : pushed'[x][i] = pushed[x][i - 1]
      BY <1>5, <3>1, <3>2
    <3>4. ASSUME NEW i \in 1..Len(recent'[x]) PROVE recent'[x][i] = pushed'[x][i]
      <4>1. CASE i = 1
        BY <3>3, <4>1
      <4>2. CASE i # 1
        <5>1. i \in 2..(Len(recent[x]) + 1) /\ i - 1 \in 1..Len(recent[x]) /\ i \in 2..(Len(pushed[x]) + 1)
          BY <3>2, <3>3, <4>2 DEF ListSound
        <5> QED
          BY <3>2, <3>3, <5>1 DEF ListSound
      <4> QED
        BY <4>1, <4>2
    <3> QED
      BY <3>3, <3>4
  <2>2. Len(recent[x]) \in Nat /\ Len(pushed[x]) \in Nat
    BY <1>2 DEF Inv, Types
  <2>3. ListSound(x)
    BY <1>2 DEF Inv
  <2>4. RecentLimit \in Nat
    BY ChatAssumption
  <2>5. Len(recent[x]) <= Len(pushed[x]) /\ (Len(recent[x]) = Len(pushed[x]) \/ Len(recent[x]) >= RecentLimit)
    BY <2>3 DEF ListSound
  <2> HIDE DEF Lpush
  <2>6. /\ Len(recent'[x]) <= Len(pushed'[x])
        /\ Len(recent'[x]) = Len(pushed'[x]) \/ Len(recent'[x]) >= RecentLimit
    BY <2>1, <2>2, <2>4, <2>5
  <2>7. \A i \in 1..Len(recent'[x]) : recent'[x][i] = pushed'[x][i]
    BY <2>1
  <2> QED
    BY <2>6, <2>7 DEF ListSound
<1>7. PusherSound(x)'
  <2>1. call'[p].op = "trim" /\ call'[p].on = x
    BY <1>1, PushFacts
  <2>2. p \in Pushing(x)'
    BY <2>1 DEF Pushing, InList
  <2> QED
    BY <2>1, <2>2 DEF PusherSound
<1>8. \A y \in Rooms \ {x} : recent'[y] = recent[y] /\ pushed'[y] = pushed[y] /\ expiring' = expiring /\ abandoned' = abandoned
  BY <1>3 DEF Inv, Types
<1>9. /\ expiring' \in [Rooms -> BOOLEAN] /\ abandoned' \in [Rooms -> SUBSET {"trim", "expire"}]
      /\ UNCHANGED <<roomVars, chatLog, persistVars, faults>>
  BY DEF Inv, Types
<1> QED
  BY <1>1, <1>2, <1>4, <1>6, <1>7, <1>8, <1>9, PushFacts, ListStep
LEMMA LtrimInv == ASSUME Inv, NEW p \in Requests, Ltrim(p) PROVE Inv'
<1> USE DEF Ltrim
<1> PICK x : x = call[p].on
  OBVIOUS
<1>1. Step(p, "expire") /\ "expire" \in SendOps /\ call[p].op \in SendOps
  BY DEF SendOps
<1>2. x \in Rooms
  BY <1>1, PushFacts
<1>3. recent' = [recent EXCEPT ![x] = Trimmed(@)] /\ pushed' = pushed /\ expiring' = expiring /\ faults' = faults
  OBVIOUS
<1>4. RecentLimit \in Nat /\ RecentLimit # 0
  BY ChatAssumption
<1>5. \A s \in Seq(Messages) :
        /\ Trimmed(s) \in Seq(Messages)
        /\ Len(Trimmed(s)) = IF Len(s) < RecentLimit THEN Len(s) ELSE RecentLimit
        /\ \A i \in 1..Len(Trimmed(s)) : Trimmed(s)[i] = s[i]
  BY <1>4 DEF Trimmed
<1>6. recent[x] \in Seq(Messages) /\ Len(recent[x]) \in Nat /\ Len(pushed[x]) \in Nat
  BY <1>2 DEF Inv, Types
<1>7. recent'[x] = Trimmed(recent[x])
  BY <1>2, <1>3 DEF Inv, Types
<1>8. recent' \in [Rooms -> Seq(Messages)] /\ \A y \in Rooms \ {x} : recent'[y] = recent[y]
  <2>1. recent \in [Rooms -> Seq(Messages)]
    BY DEF Inv, Types
  <2>2. PICK t : t = Trimmed(recent[x])
    OBVIOUS
  <2>3. t \in Seq(Messages) /\ recent' = [recent EXCEPT ![x] = t]
    BY <1>3, <1>5, <1>6, <2>2
  <2> HIDE DEF Ltrim
  <2> QED
    BY <1>2, <2>1, <2>3
<1>9. ListSound(x)'
  <2>1. ListSound(x)
    BY <1>2 DEF Inv
  <2>2. /\ Len(recent[x]) <= Len(pushed[x]) /\ (Len(recent[x]) = Len(pushed[x]) \/ Len(recent[x]) >= RecentLimit)
        /\ \A i \in 1..Len(recent[x]) : recent[x][i] = pushed[x][i]
    BY <2>1 DEF ListSound
  <2>3. /\ Len(recent'[x]) = IF Len(recent[x]) < RecentLimit THEN Len(recent[x]) ELSE RecentLimit
        /\ \A i \in 1..Len(recent'[x]) : recent'[x][i] = recent[x][i]
    BY <1>5, <1>6, <1>7
  <2> HIDE DEF Ltrim
  <2>4. /\ Len(recent'[x]) <= Len(pushed[x])
        /\ Len(recent'[x]) = Len(pushed[x]) \/ Len(recent'[x]) >= RecentLimit
        /\ Len(recent'[x]) <= Len(recent[x]) /\ Len(recent'[x]) \in Nat
    BY <1>4, <1>6, <2>2, <2>3
  <2>5. \A i \in 1..Len(recent'[x]) : recent'[x][i] = pushed[x][i]
    BY <1>6, <2>2, <2>3, <2>4
  <2> QED
    BY <1>3, <2>4, <2>5 DEF ListSound
<1>10. PusherSound(x)'
  <2>1. call'[p].op = "expire" /\ call'[p].on = x
    BY <1>1, PushFacts
  <2>2. p \in Pushing(x)'
    BY <2>1 DEF Pushing, InList
  <2>3. ~(Len(recent'[x]) > RecentLimit)
    BY <1>4, <1>5, <1>6, <1>7
  <2> QED
    BY <2>2, <2>3 DEF PusherSound
<1>11. pushed' \in [Rooms -> Seq(Messages)] /\ expiring' \in [Rooms -> BOOLEAN]
  BY <1>3 DEF Inv, Types
<1>12. UNCHANGED <<roomVars, chatLog, persistVars, faults>>
  OBVIOUS
<1>13. /\ abandoned' \in [Rooms -> SUBSET {"trim", "expire"}]
       /\ \A y \in Rooms \ {x} : abandoned'[y] = abandoned[y]
  BY <1>2 DEF Inv, Types
<1> QED
  BY <1>1, <1>2, <1>3, <1>8, <1>9, <1>10, <1>11, <1>12, <1>13, PushFacts, ListStep

LEMMA ExpireInv == ASSUME Inv, NEW p \in Requests, Expire(p) PROVE Inv'
<1> USE DEF Expire
<1> PICK x : x = call[p].on
  OBVIOUS
<1>1. Step(p, "publish") /\ "publish" \in SendOps /\ call[p].op \in SendOps /\ call[p].op = "expire"
  BY DEF SendOps
<1>2. x \in Rooms
  BY <1>1, PushFacts
<1>3. /\ expiring' = [expiring EXCEPT ![x] = recent[x] # <<>>]
      /\ recent' = recent /\ pushed' = pushed /\ faults' = faults
  OBVIOUS
<1>4. /\ expiring' \in [Rooms -> BOOLEAN] /\ \A y \in Rooms \ {x} : expiring'[y] = expiring[y]
      /\ expiring'[x] <=> recent[x] # <<>>
  BY <1>2, <1>3 DEF Inv, Types
<1>5. ListSound(x)'
  BY <1>2, <1>3 DEF Inv, ListSound
<1>9. /\ abandoned' \in [Rooms -> SUBSET {"trim", "expire"}]
      /\ \A y \in Rooms \ {x} : abandoned'[y] = abandoned[y]
      /\ "trim" \notin abandoned'[x] => "trim" \notin abandoned[x]
  BY <1>2 DEF Inv, Types
<1>6. PusherSound(x)'
  <2>1. ASSUME "trim" \notin abandoned'[x], Len(recent[x]) > RecentLimit PROVE \E q \in Pushing(x)' : call'[q].op = "trim"
    <3>1. PICK q \in Pushing(x) : call[q].op = "trim"
      BY <1>2, <1>9, <2>1 DEF Inv, PusherSound
    <3>2. q # p /\ q \in Requests /\ call[q].on = x
      BY <1>1, <3>1 DEF Pushing
    <3>3. call'[q] = call[q]
      BY <1>1, <3>2, PushFacts
    <3> QED
      BY <3>1, <3>2, <3>3 DEF Pushing, InList
  <2> QED
    BY <1>3, <1>4, <2>1 DEF PusherSound
<1>7. recent' \in [Rooms -> Seq(Messages)] /\ pushed' \in [Rooms -> Seq(Messages)]
  BY <1>3 DEF Inv, Types
<1>8. UNCHANGED <<roomVars, chatLog, persistVars, faults>>
  OBVIOUS
<1> QED
  BY <1>1, <1>2, <1>3, <1>4, <1>5, <1>6, <1>7, <1>8, <1>9, PushFacts, ListStep

LEMMA ListExpiresInv == ASSUME Inv, NEW x \in Rooms, ListExpires(x) PROVE Inv'
<1> USE DEF ListExpires
<1>1. /\ recent'[x] = <<>> /\ pushed'[x] = <<>> /\ Len(<<>>) = 0
      /\ \A y \in Rooms \ {x} : recent'[y] = recent[y] /\ pushed'[y] = pushed[y] /\ expiring'[y] = expiring[y]
      /\ \A y \in Rooms \ {x} : abandoned'[y] = abandoned[y]
  BY DEF Inv, Types
<1>2. /\ recent' \in [Rooms -> Seq(Messages)] /\ pushed' \in [Rooms -> Seq(Messages)]
      /\ expiring' \in [Rooms -> BOOLEAN] /\ abandoned' \in [Rooms -> SUBSET {"trim", "expire"}]
      /\ call' = call
  BY DEF Inv, Types
<1>3. ListSound(x)'
  BY <1>1 DEF ListSound
<1>4. PusherSound(x)'
  BY <1>1, ChatAssumption DEF PusherSound
<1>5. UNCHANGED <<roomVars, chatLog, persistVars, faults>>
  OBVIOUS
<1>6. /\ call' \in [Requests -> CallType]
      /\ \A p \in Requests :
            /\ call'[p].op \in RoomOps => call'[p].user \in Users
            /\ call'[p].op \in SendOps => call'[p].on \in Rooms /\ call'[p].msg \in Messages
  BY <1>2 DEF Inv, Types
<1>7. \A y \in Rooms \ {x} : \A p \in Pushing(y) : p \in Pushing(y)' /\ call'[p] = call[p]
  BY <1>2 DEF Pushing, InList
<1> QED
  BY <1>1, <1>2, <1>3, <1>4, <1>5, <1>6, <1>7, ListStep

-----------------------------------------------------------------------------
(* Steps of the worker *)

LEMMA WorkerInv == ASSUME Inv, OnMessageSent \/ CommitStored \/ RestartPersistence PROVE Inv'
<1> USE DEF roomVars, cacheVars, listVars
<1>1. /\ UNCHANGED <<roomVars, cacheVars, chatLog, call>>
      /\ faults' \in Nat
  BY DEF OnMessageSent, CommitStored, RestartPersistence, Fault, Inv, Types
<1>2. /\ copies' \in [Messages -> {0, 1}] /\ stored' \in Nat /\ storedOffset' \in Nat
      /\ storedOffset' <= stored' /\ stored' <= Len(chatLog)
      /\ \A i \in 1..stored' : copies'[chatLog[i]] = 1
  <2>1. /\ chatLog \in Seq(Messages) /\ copies \in [Messages -> {0, 1}] /\ stored \in Nat /\ storedOffset \in Nat
        /\ storedOffset <= stored /\ stored <= Len(chatLog) /\ Len(chatLog) \in Nat
        /\ \A i \in 1..stored : copies[chatLog[i]] = 1
    BY DEF Inv, Types, StoreSound
  <2>2. CASE OnMessageSent /\ Persist(stored + 1)
    <3>1. /\ copies' = [copies EXCEPT ![chatLog[stored + 1]] = CopiesAfter(chatLog[stored + 1])]
          /\ stored' = stored + 1 /\ storedOffset' = storedOffset /\ stored < Len(chatLog)
      BY <2>2 DEF OnMessageSent, Persist, CommitStored
    <3>2. \A i \in 1..Len(chatLog) : chatLog[i] \in Messages
      BY <2>1
    <3>3. PICK m \in Messages : m = chatLog[stored + 1]
      BY <2>1, <3>1, <3>2
    <3>4. copies' = [copies EXCEPT ![m] = 1]
      BY <2>1, <3>1, <3>3 DEF CopiesAfter
    <3>5. ASSUME NEW i \in 1..stored' PROVE copies'[chatLog[i]] = 1
      <4>1. CASE i = stored + 1
        BY <2>1, <3>3, <3>4, <4>1
      <4>2. CASE i # stored + 1
        <5>1. i \in 1..stored /\ chatLog[i] \in Messages /\ copies[chatLog[i]] = 1
          BY <2>1, <3>1, <3>2, <4>2
        <5> QED
          BY <2>1, <3>4, <5>1
      <4> QED
        BY <4>1, <4>2
    <3> QED
      BY <2>1, <3>1, <3>4, <3>5
  <2>3. CASE OnMessageSent /\ ~Persist(stored + 1)
    BY <2>1, <2>3 DEF OnMessageSent, PersistThrows
  <2>4. CASE CommitStored
    BY <2>1, <2>4 DEF CommitStored
  <2>5. CASE RestartPersistence
    BY <2>1, <2>5 DEF RestartPersistence
  <2> QED
    BY <2>2, <2>3, <2>4, <2>5
<1>3. Types'
  BY <1>1, <1>2 DEF Inv, Types
<1>4. StoreSound'
  BY <1>1, <1>2 DEF Inv, StoreSound
<1>5. ASSUME NEW x \in Rooms PROVE ListSound(x)' /\ PusherSound(x)'
  BY <1>1 DEF Inv, ListSound, PusherSound, Pushing, InList
<1> QED
  BY <1>3, <1>4, <1>5 DEF Inv

LEMMA StepInv == ASSUME Inv, [Next]_vars PROVE Inv'
<1>1. CASE UNCHANGED vars
  <2>1. Types' /\ StoreSound'
    BY <1>1 DEF vars, chatVars, roomVars, cacheVars, listVars, persistVars, Inv, Types, StoreSound
  <2>2. ASSUME NEW x \in Rooms PROVE ListSound(x)' /\ PusherSound(x)'
    BY <1>1 DEF vars, chatVars, cacheVars, listVars, Inv, ListSound, PusherSound, Pushing, InList
  <2> QED
    BY <2>1, <2>2 DEF Inv
<1>2. ASSUME NEW p \in Requests,
             RoomRoutes(p) \/ FindByBuildingAndTenant(p) \/ \E x \in Rooms : SaveRoom(p, x)
      PROVE  Inv'
  BY <1>2, RoomInv DEF RoomRoutes
<1>3. ASSUME NEW p \in Requests, OnMessage(p) \/ Relay(p) \/ PublishSwallowed(p) \/ RequestFails(p) PROVE Inv'
  BY <1>3, SendInv DEF OnMessage
<1>4. ASSUME NEW p \in Requests, Lpush(p) \/ Ltrim(p) \/ Expire(p) \/ Publish(p) \/ PublishRetried(p)
      PROVE  Inv'
  BY <1>4, LpushInv, LtrimInv, ExpireInv, PublishInv
<1>5. CASE \E x \in Rooms : ListExpires(x)
  BY <1>5, ListExpiresInv
<1>6. CASE OnMessageSent \/ CommitStored \/ RestartPersistence
  BY <1>6, WorkerInv
<1> QED
  BY <1>1, <1>2, <1>3, <1>4, <1>5, <1>6 DEF Next, SendStep

-----------------------------------------------------------------------------
(* Results *)

(* The strengthening the three results rest on.                            *)
THEOREM Invariant == Spec => []Inv
<1>1. Init => Inv
  BY InitInv
<1>2. Inv /\ [Next]_vars => Inv'
  BY StepInv
<1> QED
  BY <1>1, <1>2, PTL DEF Spec

(* What the persistence worker has committed is in the database, once,     *)
(* however often it restarts and whatever is delivered again.              *)
THEOREM MessagesAreStoredOnce == Spec => []StoredOnce
<1>1. ASSUME Inv PROVE StoredOnce
  <2>1. /\ storedOffset \in Nat /\ stored \in Nat /\ storedOffset <= stored
        /\ \A i \in 1..stored : copies[chatLog[i]] = 1
    BY <1>1 DEF Inv, Types, StoreSound
  <2>2. ASSUME NEW m \in Messages PROVE copies[m] <= 1
    <3>1. copies[m] \in {0, 1}
      BY <1>1 DEF Inv, Types
    <3> QED
      BY <3>1
  <2>3. \A i \in 1..storedOffset : i \in 1..stored
    BY <2>1
  <2> QED
    BY <2>1, <2>2, <2>3 DEF StoredOnce
<1> QED
  BY <1>1, Invariant, PTL

(* The list readers see is the newest part of what was pushed, holds the   *)
(* last RECENT_LIMIT pushes, and is too long or without an expiry only in  *)
(* the middle of a push or after one that failed before LTRIM or EXPIRE.   *)
THEOREM ListIsConsistent == Spec => []RecentConsistent
<1>1. ASSUME Inv, NEW x \in Rooms, NEW r, NEW q, r = recent[x], q = pushed[x]
      PROVE  /\ r = SubSeq(q, 1, Len(r))
             /\ \A i \in 1..Len(q) : i <= RecentLimit => q[i] \in GetMessages(x)
             /\ Pushing(x) = {} =>
                  /\ Len(r) <= RecentLimit \/ "trim" \in abandoned[x]
                  /\ r = <<>> \/ expiring[x] \/ "expire" \in abandoned[x]
  <2>1. /\ r \in Seq(Messages) /\ q \in Seq(Messages) /\ Len(r) \in Nat /\ Len(q) \in Nat
        /\ RecentLimit \in Nat /\ RecentLimit # 0
    BY <1>1, ChatAssumption DEF Inv, Types
  <2>2. ListSound(x) /\ PusherSound(x)
    BY <1>1 DEF Inv
  <2>3. /\ Len(r) <= Len(q) /\ \A i \in 1..Len(r) : r[i] = q[i]
        /\ Len(r) = Len(q) \/ Len(r) >= RecentLimit
    BY <1>1, <2>2 DEF ListSound
  <2>4. r = SubSeq(q, 1, Len(r))
    <3>1. /\ SubSeq(q, 1, Len(r)) \in Seq(Messages) /\ Len(SubSeq(q, 1, Len(r))) = Len(r)
          /\ \A i \in 1..Len(r) : SubSeq(q, 1, Len(r))[i] = q[i]
      BY <2>1, <2>3
    <3> QED
      BY <2>1, <2>3, <3>1
  <2>5. ASSUME NEW i \in 1..Len(q), i <= RecentLimit PROVE q[i] \in GetMessages(x)
    <3>1. i \in 1..Len(r)
      BY <2>1, <2>3, <2>5
    <3>2. r[i] = q[i] /\ r # <<>>
      BY <2>1, <2>3, <3>1
    <3> QED
      BY <1>1, <3>1, <3>2 DEF GetMessages
  <2>6. ASSUME Pushing(x) = {}
        PROVE  /\ Len(r) <= RecentLimit \/ "trim" \in abandoned[x]
               /\ r = <<>> \/ expiring[x] \/ "expire" \in abandoned[x]
    BY <1>1, <2>1, <2>2, <2>6 DEF PusherSound
  <2> QED
    BY <2>4, <2>5, <2>6
<1>2. Inv => RecentConsistent
  BY <1>1 DEF RecentConsistent
<1> QED
  BY <1>2, Invariant, PTL

-----------------------------------------------------------------------------
(* Refinement of Messaging                                                 *)

(* A message has one sender, was sent before the topic has it, and is in   *)
(* the topic before it is stored.                                          *)
MessageSound(m) ==
    /\ \A p, q \in Requests : Sends(p, m) /\ Sends(q, m) => p = q
    /\ Sending(m) \/ Published(m) => sent[m] # None
    /\ copies[m] > 0 => Published(m)

MessagesSound ==
    /\ sent \in [Messages -> {None} \cup [on : Rooms, by : Users]]
    /\ \A m \in Messages : MessageSound(m)

Fates == [m \in Messages |-> FateOf(m)]

(* What a step that is none of a sender's or of the worker's leaves alone. *)
SameMessage(m) ==
    /\ sent'[m] = sent[m] /\ copies'[m] = copies[m]
    /\ (Published(m)' <=> Published(m))
    /\ \A p \in Requests : Sends(p, m)' <=> Sends(p, m)

LEMMA SameFate ==
  ASSUME NEW m \in Messages, SameMessage(m), MessageSound(m)
  PROVE  MessageSound(m)' /\ FateOf(m)' = FateOf(m)
<1>1. Sending(m)' <=> Sending(m)
  BY DEF SameMessage, Sending
<1>2. MessageSound(m)'
  BY <1>1 DEF SameMessage, MessageSound
<1>3. FateOf(m)' = FateOf(m)
  BY <1>1 DEF SameMessage, FateOf
<1> QED
  BY <1>2, <1>3

(* What goes for a step that moves message m at most.                      *)
LEMMA OneMoves ==
  ASSUME MessagesSound, NEW m \in Messages, MessageSound(m)',
         sent' \in [Messages -> {None} \cup [on : Rooms, by : Users]],
         \A n \in Messages \ {m} : SameMessage(n)
  PROVE  MessagesSound' /\ Fates' = [Fates EXCEPT ![m] = FateOf(m)']
<1>1. \A n \in Messages \ {m} : MessageSound(n)' /\ FateOf(n)' = FateOf(n)
  BY SameFate DEF MessagesSound
<1>2. MessagesSound'
  BY <1>1 DEF MessagesSound
<1>3. Fates' = [Fates EXCEPT ![m] = FateOf(m)']
  BY <1>1 DEF Fates
<1> QED
  BY <1>2, <1>3

LEMMA NoneMoves ==
  ASSUME MessagesSound, UNCHANGED sent, \A m \in Messages : SameMessage(m)
  PROVE  MessagesSound' /\ Fates' = Fates
<1>1. \A m \in Messages : MessageSound(m)' /\ FateOf(m)' = FateOf(m)
  BY SameFate DEF MessagesSound
<1> QED
  BY <1>1 DEF MessagesSound, Fates

(* A sender's message, and what the other messages see of its request.     *)
LEMMA SenderFacts ==
  ASSUME Inv, MessagesSound, NEW p \in Requests, call[p].op \in SendOps, Go(p, Idle),
         NEW m, m = call[p].msg
  PROVE  /\ m \in Messages
         /\ \A n \in Messages \ {m} : \A q \in Requests : Sends(q, n)' <=> Sends(q, n)
         /\ Sending(m) /\ ~Sending(m)'
<1>1. m \in Messages
  BY DEF Inv, Types
<1>2. call'[p] = Idle /\ \A q \in Requests \ {p} : call'[q] = call[q]
  BY GoFacts DEF Inv, Types
<1>3. Sends(p, m)
  BY DEF Sends
<1>4. \A q \in Requests : Sends(q, m) => q = p
  BY <1>1, <1>3 DEF MessagesSound, MessageSound
<1>5. \A q \in Requests \ {p} : \A n \in Messages : Sends(q, n)' <=> Sends(q, n)
  BY <1>2 DEF Sends
<1>6. \A n \in Messages : ~Sends(p, n)' /\ (n # m => ~Sends(p, n))
  BY <1>2 DEF Sends, Idle, At, SendOps
<1>7. \A n \in Messages \ {m} : \A q \in Requests : Sends(q, n)' <=> Sends(q, n)
  BY <1>5, <1>6
<1>8. Sending(m) /\ ~Sending(m)'
  BY <1>1, <1>3, <1>4, <1>5, <1>6 DEF Sending
<1> QED
  BY <1>1, <1>7, <1>8

(* Requests between the steps of a push, and those that send nothing.      *)
LEMMA QuietRefines ==
  ASSUME Inv, MessagesSound, NEW p \in Requests,
         \/ RoomRoutes(p) \/ FindByBuildingAndTenant(p) \/ \E x \in Rooms : SaveRoom(p, x)
         \/ Relay(p) \/ Lpush(p) \/ Ltrim(p) \/ Expire(p)
  PROVE  MessagesSound' /\ UNCHANGED Promise!vars
<1>1. UNCHANGED <<sent, copies, chatLog, faults>>
  BY DEF RoomRoutes, EnsureRoom, FindByBuildingAndTenant, SaveRoom, Relay, Lpush, Ltrim, Expire,
         chatVars, roomVars, cacheVars, persistVars
<1>2. \A q \in Requests, m \in Messages : Sends(q, m)' <=> Sends(q, m)
  <2>1. call \in [Requests -> CallType]
    BY DEF Inv, Types
  <2>2. CASE RoomRoutes(p) \/ FindByBuildingAndTenant(p) \/ \E x \in Rooms : SaveRoom(p, x)
    <3>1. PICK c : Go(p, c) /\ c.op \notin SendOps
      <4>1. Idle.op \notin SendOps /\ \A t : At("find", t, None, None).op \notin SendOps
        BY DEF Idle, At, SendOps
      <4>2. [call[p] EXCEPT !.op = "save"].op \notin SendOps
        BY <2>1 DEF CallType, SendOps
      <4> QED
        BY <2>2, <4>1, <4>2 DEF RoomRoutes, EnsureRoom, FindByBuildingAndTenant, SaveRoom, Step
    <3>2. call[p].op \notin SendOps
      BY <2>2, GoFacts DEF RoomRoutes, EnsureRoom, FindByBuildingAndTenant, SaveRoom, SendOps, Inv, Idle, At
    <3> QED
      BY <2>1, <3>1, <3>2 DEF Go, Sends
  <2>3. CASE Relay(p) \/ Lpush(p) \/ Ltrim(p) \/ Expire(p)
    <3>1. PICK o \in SendOps : Go(p, [call[p] EXCEPT !.op = o])
      BY <2>3 DEF Relay, Lpush, Ltrim, Expire, Step, SendOps
    <3>2. call[p].op \in SendOps
      BY <2>3 DEF Relay, Lpush, Ltrim, Expire, SendOps
    <3> QED
      BY <2>1, <3>1, <3>2 DEF Go, CallType, Sends
  <2> QED
    BY <2>2, <2>3
<1>3. \A m \in Messages : SameMessage(m)
  BY <1>1, <1>2 DEF SameMessage, Published
<1>4. MessagesSound' /\ Fates' = Fates
  BY <1>1, <1>3, NoneMoves
<1> QED
  BY <1>1, <1>4 DEF Promise!vars, Fates

(* A message gets its id and its sender.                                   *)
LEMMA SendRefines ==
  ASSUME Inv, MessagesSound, NEW p \in Requests, OnMessage(p)
  PROVE  MessagesSound' /\ Promise!Next
<1>1. PICK u \in Users, x \in Rooms, m \in Messages : SendMessage(p, u, x, m)
  BY DEF OnMessage
<1> PICK c : c = At("relay", None, x, m)
  OBVIOUS
<1>2. c.op \in SendOps /\ c.msg = m /\ call[p].op \notin SendOps /\ Go(p, c)
  BY <1>1 DEF SendMessage, At, Idle, SendOps
<1>3. call'[p] = c /\ \A q \in Requests \ {p} : call'[q] = call[q]
  BY <1>2 DEF Go, Inv, Types
<1>12. /\ Sends(p, m)' /\ \A n \in Messages \ {m} : ~Sends(p, n)'
       /\ \A n \in Messages : ~Sends(p, n)
       /\ \A q \in Requests \ {p} : \A n : Sends(q, n)' <=> Sends(q, n)
  BY <1>2, <1>3 DEF Sends
<1>4. /\ sent[m] = None /\ UNCHANGED <<copies, chatLog, faults>>
      /\ sent' = [sent EXCEPT ![m] = [on |-> x, by |-> u]]
  BY <1>1 DEF SendMessage, persistVars
<1>5. /\ sent'[m] # None /\ \A n \in Messages \ {m} : sent'[n] = sent[n]
      /\ sent' \in [Messages -> {None} \cup [on : Rooms, by : Users]]
  BY <1>4, ChatAssumption DEF MessagesSound
<1>6. ~Sending(m) /\ ~Published(m) /\ ~Published(m)' /\ ~(copies[m] > 0) /\ ~(copies'[m] > 0)
  BY <1>4 DEF MessagesSound, MessageSound, Published
<1>7. Sending(m)' /\ MessageSound(m)'
  BY <1>12, <1>5, <1>6 DEF MessageSound, Sending
<1>8. \A n \in Messages \ {m} : SameMessage(n)
  BY <1>12, <1>4, <1>5 DEF SameMessage, Published
<1>9. MessagesSound' /\ Fates' = [Fates EXCEPT ![m] = "sending"]
  BY <1>5, <1>6, <1>7, <1>8, OneMoves DEF FateOf
<1>10. Fates[m] = "new"
  BY <1>4 DEF Fates, FateOf
<1>11. Promise!Send(m)
  BY <1>4, <1>9, <1>10 DEF Promise!Send, Promise!Moves, Fates
<1> QED
  BY <1>9, <1>11 DEF Promise!Next

(* The topic gets the message, for the first time or again.                *)
LEMMA PublishRefines ==
  ASSUME Inv, MessagesSound, NEW p \in Requests, Publish(p) \/ PublishRetried(p)
  PROVE  MessagesSound' /\ (Promise!Next \/ UNCHANGED Promise!vars)
<1>1. /\ chatLog' = Append(chatLog, call[p].msg) /\ call[p].op = "publish"
      /\ UNCHANGED <<sent, copies>>
      /\ faults' = faults \/ faults' = faults + 1
  BY DEF Publish, PublishRetried, Fault, roomVars, persistVars
<1>2. PICK m \in Messages : m = call[p].msg
  BY <1>1 DEF Inv, Types, SendOps
<1>3. /\ Published(m)' /\ \A n \in Messages \ {m} : (Published(n)' <=> Published(n))
  <2>1. /\ chatLog \in Seq(Messages) /\ Len(chatLog') = Len(chatLog) + 1 /\ Len(chatLog) \in Nat
        /\ \A i \in 1..Len(chatLog) : chatLog'[i] = chatLog[i]
        /\ chatLog'[Len(chatLog) + 1] = m
    BY <1>1, <1>2 DEF Inv, Types
  <2>2. \A i \in 1..Len(chatLog') : i \in 1..Len(chatLog) \/ i = Len(chatLog) + 1
    BY <2>1
  <2>3. \A i \in 1..Len(chatLog) : i \in 1..Len(chatLog')
    BY <2>1
  <2>4. Len(chatLog) + 1 \in 1..Len(chatLog')
    BY <2>1
  <2> QED
    BY <2>1, <2>2, <2>3, <2>4 DEF Published
<1>4. /\ \A n \in Messages \ {m} : \A q \in Requests : Sends(q, n)' <=> Sends(q, n)
      /\ \A q \in Requests : Sends(q, m)' => Sends(q, m)
  <2>1. Idle \in CallType /\ Idle.op \notin SendOps
    BY GoFacts DEF Inv, Idle, At, CallType, SendOps
  <2>2. CASE Publish(p)
    <3>1. \A q \in Requests : call'[q] = IF q = p THEN Idle ELSE call[q]
      BY <2>2 DEF Publish, Go, Inv, Types
    <3> QED
      BY <1>2, <2>1, <3>1 DEF Sends
  <2>3. CASE PublishRetried(p)
    BY <2>3 DEF PublishRetried, Sends
  <2> QED
    BY <2>2, <2>3
<1>5. sent[m] # None /\ Sending(m)
  BY <1>1, <1>2 DEF MessagesSound, MessageSound, Sending, Sends, SendOps
<1>6. MessageSound(m)'
  <2>1. \A q, r \in Requests : Sends(q, m)' /\ Sends(r, m)' => q = r
    BY <1>4 DEF MessagesSound, MessageSound
  <2> QED
    BY <1>1, <1>3, <1>5, <2>1 DEF MessageSound
<1>7. \A n \in Messages \ {m} : SameMessage(n)
  BY <1>1, <1>3, <1>4 DEF SameMessage
<1>8. sent' \in [Messages -> {None} \cup [on : Rooms, by : Users]]
  BY <1>1 DEF MessagesSound
<1>9. MessagesSound' /\ Fates' = [Fates EXCEPT ![m] = FateOf(m)']
  BY <1>6, <1>7, <1>8, OneMoves
<1>10. CASE Published(m) \/ copies[m] > 0
  <2>1. FateOf(m)' = FateOf(m)
    BY <1>1, <1>3, <1>10 DEF FateOf, MessagesSound, MessageSound
  <2>2. Fates' = Fates
    BY <1>9, <2>1 DEF Fates
  <2>3. faults' = faults => UNCHANGED Promise!vars
    BY <2>2 DEF Promise!vars, Fates
  <2>4. faults' = faults + 1 => Promise!Survive
    BY <2>2 DEF Promise!Survive, Promise!Fail, Fates
  <2> QED
    BY <1>1, <1>9, <2>3, <2>4 DEF Promise!Next
<1>11. CASE ~Published(m) /\ ~(copies[m] > 0)
  <2>1. Fates[m] = "sending" /\ FateOf(m)' = "published"
    BY <1>1, <1>3, <1>5, <1>11 DEF Fates, FateOf
  <2>2. Promise!Publish(m)
    BY <1>1, <1>9, <2>1 DEF Promise!Publish, Promise!Moves, Promise!Fail, Fates
  <2> QED
    BY <1>9, <2>2 DEF Promise!Next
<1> QED
  BY <1>10, <1>11

(* A request that fails loses its message unless the topic has it.         *)
LEMMA FailRefines ==
  ASSUME Inv, MessagesSound, NEW p \in Requests, PublishSwallowed(p) \/ RequestFails(p)
  PROVE  MessagesSound' /\ Promise!Next
<1>1. Go(p, Idle) /\ UNCHANGED <<sent, copies, chatLog>> /\ faults' = faults + 1
  BY DEF PublishSwallowed, RequestFails, Fault, chatVars, roomVars, persistVars
<1>2. Idle \in CallType /\ Idle.op \notin SendOps
  BY GoFacts, <1>1 DEF Inv, Idle, At, SendOps
<1>3. CASE call[p].op \notin SendOps
  <2>1. \A m \in Messages : SameMessage(m)
    BY <1>1, <1>2, <1>3 DEF SameMessage, Published, Sends, Go, Inv, Types
  <2>2. MessagesSound' /\ Fates' = Fates
    BY <1>1, <2>1, NoneMoves
  <2>3. Promise!Survive
    BY <1>1, <2>2 DEF Promise!Survive, Promise!Fail, Fates
  <2> QED
    BY <2>2, <2>3 DEF Promise!Next
<1>4. CASE call[p].op \in SendOps
  <2> PICK m : m = call[p].msg
    OBVIOUS
  <2>1. m \in Messages /\ Sending(m) /\ ~Sending(m)' /\ sent[m] # None
    BY <1>1, <1>4, SenderFacts DEF MessagesSound, MessageSound
  <2>2. \A n \in Messages \ {m} : SameMessage(n)
    BY <1>1, <1>4, SenderFacts DEF SameMessage, Published
  <2>3. (Published(m)' <=> Published(m))
    BY <1>1 DEF Published
  <2>4. MessageSound(m)'
    BY <1>1, <2>1, <2>3 DEF MessagesSound, MessageSound, Sending
  <2>5. MessagesSound' /\ Fates' = [Fates EXCEPT ![m] = FateOf(m)']
    BY <1>1, <2>1, <2>2, <2>4, OneMoves DEF MessagesSound
  <2>6. CASE Published(m) \/ copies[m] > 0
    <3>1. FateOf(m)' = FateOf(m)
      BY <1>1, <2>1, <2>3, <2>6 DEF FateOf
    <3>2. Fates' = Fates
      BY <2>5, <3>1 DEF Fates
    <3>3. Promise!Survive
      BY <1>1, <3>2 DEF Promise!Survive, Promise!Fail, Fates
    <3> QED
      BY <2>5, <3>3 DEF Promise!Next
  <2>7. CASE ~Published(m) /\ ~(copies[m] > 0)
    <3>1. Fates[m] = "sending" /\ FateOf(m)' = "lost"
      BY <1>1, <2>1, <2>3, <2>7 DEF Fates, FateOf
    <3>2. Promise!Lose(m)
      BY <1>1, <2>5, <3>1 DEF Promise!Lose, Promise!Moves, Promise!Fail, Fates
    <3> QED
      BY <2>1, <2>5, <3>2 DEF Promise!Next
  <2> QED
    BY <2>6, <2>7
<1> QED
  BY <1>3, <1>4

(* The worker stores a message it has not stored before, or none.          *)
LEMMA WorkerRefines ==
  ASSUME Inv, MessagesSound, OnMessageSent \/ CommitStored \/ RestartPersistence
  PROVE  MessagesSound' /\ (Promise!Next \/ UNCHANGED Promise!vars)
<1>1. UNCHANGED <<sent, chatLog, call>>
  BY DEF OnMessageSent, CommitStored, RestartPersistence, roomVars
<1>2. CASE UNCHANGED copies
  <2>1. faults' = faults \/ faults' = faults + 1
    BY DEF OnMessageSent, CommitStored, RestartPersistence, Fault
  <2>2. \A m \in Messages : SameMessage(m)
    BY <1>1, <1>2 DEF SameMessage, Published, Sends
  <2>3. MessagesSound' /\ Fates' = Fates
    BY <1>1, <2>2, NoneMoves
  <2>4. faults' = faults => UNCHANGED Promise!vars
    BY <2>3 DEF Promise!vars, Fates
  <2>5. faults' = faults + 1 => Promise!Survive
    BY <2>3 DEF Promise!Survive, Promise!Fail, Fates
  <2> QED
    BY <2>1, <2>3, <2>4, <2>5 DEF Promise!Next
<1>3. CASE OnMessageSent /\ Persist(stored + 1) /\ UNCHANGED faults
  <2>1. stored + 1 \in 1..Len(chatLog) /\ chatLog \in Seq(Messages)
    BY <1>3 DEF OnMessageSent, Inv, Types
  <2>2. PICK m \in Messages : m = chatLog[stored + 1]
    BY <2>1
  <2>3. Published(m) /\ Published(m)' /\ sent[m] # None
    BY <1>1, <2>1, <2>2 DEF Published, MessagesSound, MessageSound
  <2>4. copies' = [copies EXCEPT ![m] = CopiesAfter(m)] /\ copies \in [Messages -> {0, 1}]
    BY <1>3, <2>2 DEF Persist, Inv, Types
  <2>5. CASE copies[m] # 0
    <3>1. copies' = copies
      BY <2>4, <2>5 DEF CopiesAfter
    <3> QED
      BY <1>2, <3>1
  <2>6. CASE copies[m] = 0
    <3>1. copies'[m] = 1 /\ \A n \in Messages \ {m} : copies'[n] = copies[n]
      BY <2>4, <2>6 DEF CopiesAfter
    <3>2. \A n \in Messages \ {m} : SameMessage(n)
      BY <1>1, <3>1 DEF SameMessage, Published, Sends
    <3>3. MessageSound(m)'
      BY <1>1, <2>3 DEF MessagesSound, MessageSound, Sending, Sends
    <3>4. MessagesSound' /\ Fates' = [Fates EXCEPT ![m] = FateOf(m)']
      BY <1>1, <3>2, <3>3, OneMoves DEF MessagesSound
    <3>5. Fates[m] = "published" /\ FateOf(m)' = "stored"
      BY <1>1, <2>3, <2>6, <3>1 DEF Fates, FateOf
    <3>6. Promise!Store(m)
      BY <1>3, <3>4, <3>5 DEF Promise!Store, Promise!Moves, Fates
    <3> QED
      BY <3>4, <3>6 DEF Promise!Next
  <2> QED
    BY <2>5, <2>6
<1> QED
  BY <1>2, <1>3 DEF OnMessageSent, PersistThrows, CommitStored, RestartPersistence

(* Every step of the chat is a step of Messaging or none.                  *)
LEMMA StepRefines ==
  MessagesSound /\ Inv /\ [Next]_vars => MessagesSound' /\ [Promise!Next]_(Promise!vars)
<1> SUFFICES ASSUME MessagesSound, Inv, [Next]_vars
             PROVE  MessagesSound' /\ (Promise!Next \/ UNCHANGED Promise!vars)
  OBVIOUS
<1>1. ASSUME UNCHANGED <<roomVars, copies, chatLog, call, faults>>
      PROVE  MessagesSound' /\ UNCHANGED Promise!vars
  <2>1. \A m \in Messages : SameMessage(m)
    BY <1>1 DEF SameMessage, Published, Sends, roomVars
  <2>2. MessagesSound' /\ Fates' = Fates
    BY <1>1, <2>1, NoneMoves DEF roomVars
  <2> QED
    BY <1>1, <2>2 DEF Promise!vars, Fates
<1>2. CASE UNCHANGED vars
  BY <1>1, <1>2 DEF vars, chatVars, persistVars
<1>3. CASE \E x \in Rooms : ListExpires(x)
  BY <1>1, <1>3 DEF ListExpires, persistVars
<1>4. ASSUME NEW p \in Requests,
             \/ RoomRoutes(p) \/ OnMessage(p) \/ \E x \in Rooms : SaveRoom(p, x)
             \/ FindByBuildingAndTenant(p) \/ SendStep(p) \/ RequestFails(p)
      PROVE  MessagesSound' /\ (Promise!Next \/ UNCHANGED Promise!vars)
  BY <1>4, QuietRefines, SendRefines, PublishRefines, FailRefines, Zenon DEF SendStep
<1>5. CASE OnMessageSent \/ CommitStored \/ RestartPersistence
  BY <1>5, WorkerRefines
<1> QED
  BY <1>2, <1>3, <1>4, <1>5 DEF Next

(* No message at first.                                                    *)
LEMMA MessagesInit == Init => MessagesSound /\ Promise!Init
<1> SUFFICES ASSUME Init PROVE MessagesSound /\ Promise!Init
  OBVIOUS
<1>1. \A p \in Requests, m \in Messages : ~Sends(p, m)
  BY DEF Init, Idle, At, Sends, SendOps
<1>2. \A m \in Messages : sent[m] = None /\ copies[m] = 0 /\ ~Sending(m) /\ ~Published(m)
  BY <1>1 DEF Init, Sending, Published
<1>3. \A m \in Messages : MessageSound(m)
  BY <1>1, <1>2 DEF MessageSound
<1>4. \A m \in Messages : FateOf(m) = "new"
  BY <1>2 DEF FateOf
<1> QED
  BY <1>3, <1>4 DEF Init, MessagesSound, Promise!Init

(* For any number of messages, requests and failures: a message that is    *)
(* published is stored or still to be stored, and one that is lost before  *)
(* has cost a failure.                                                     *)
THEOREM ChatImplementsMessaging == Spec => ImplementsMessaging
BY MessagesInit, StepRefines, Invariant, PTL DEF Spec, ImplementsMessaging, Promise!Spec

(* What is lost, and what was paid for it.                                 *)
Lost == {m \in Messages : FateOf(m) = "lost"}

LossesPaid == IsFiniteSet(Lost) /\ Cardinality(Lost) <= faults

(* A message is lost in one step of Messaging, which costs a failure.      *)
LEMMA LossesStep ==
  ASSUME LossesPaid, faults \in Nat, [Promise!Next]_(Promise!vars)
  PROVE  LossesPaid'
<1>1. Lost = {m \in Messages : Fates[m] = "lost"} /\ Lost' = {m \in Messages : Fates'[m] = "lost"}
  BY DEF Lost, Fates
<1>2. IsFiniteSet(Lost) /\ Cardinality(Lost) \in Nat /\ Cardinality(Lost) <= faults
  BY FS_CardinalityType DEF LossesPaid
<1>3. ASSUME Lost' = Lost, faults' = faults \/ faults' = faults + 1 PROVE LossesPaid'
  BY <1>2, <1>3 DEF LossesPaid
<1>4. ASSUME NEW m \in Messages, NEW from, NEW to, Promise!Moves(m, from, to)
      PROVE  /\ from # "lost" /\ to # "lost" => Lost' = Lost
             /\ from # "lost" /\ to = "lost" => Lost' = Lost \cup {m} /\ m \notin Lost
  <2>1. Fates[m] = from /\ Fates' = [Fates EXCEPT ![m] = to] /\ Fates = [n \in Messages |-> Fates[n]]
    BY <1>4 DEF Promise!Moves, Fates
  <2> QED
    BY <1>1, <2>1
<1>5. ASSUME NEW m \in Messages, Promise!Send(m) \/ Promise!Publish(m) \/ Promise!Store(m)
      PROVE  LossesPaid'
  BY <1>3, <1>4, <1>5 DEF Promise!Send, Promise!Publish, Promise!Store, Promise!Fail
<1>6. ASSUME NEW m \in Messages, Promise!Lose(m) PROVE LossesPaid'
  <2>1. Lost' = Lost \cup {m} /\ m \notin Lost /\ faults' = faults + 1
    BY <1>4, <1>6 DEF Promise!Lose, Promise!Fail
  <2>2. IsFiniteSet(Lost \cup {m}) /\ Cardinality(Lost \cup {m}) = Cardinality(Lost) + 1
    BY <1>2, <2>1, FS_AddElement
  <2> QED
    BY <1>2, <2>1, <2>2 DEF LossesPaid
<1>7. CASE Promise!Survive \/ UNCHANGED Promise!vars
  <2>1. Fates' = Fates /\ (faults' = faults \/ faults' = faults + 1)
    BY <1>7 DEF Promise!Survive, Promise!Fail, Promise!vars, Fates
  <2> QED
    BY <1>1, <1>3, <2>1
<1> QED
  BY <1>5, <1>6, <1>7 DEF Promise!Next

(* No message is lost for nothing: there are never more lost messages than *)
(* there were failures, however many are sent.                             *)
THEOREM LossesArePaid == Spec => []LossesPaid
<1>1. Init => LossesPaid /\ MessagesSound
  <2> SUFFICES ASSUME Init PROVE LossesPaid
    BY MessagesInit
  <2>1. Lost = {}
    BY DEF Init, Lost, FateOf
  <2> QED
    BY <2>1, FS_EmptySet DEF Init, LossesPaid
<1>2. LossesPaid /\ MessagesSound /\ Inv /\ [Next]_vars => LossesPaid' /\ MessagesSound'
  BY StepRefines, LossesStep DEF Inv, Types
<1> QED
  BY <1>1, <1>2, Invariant, PTL DEF Spec

=============================================================================
