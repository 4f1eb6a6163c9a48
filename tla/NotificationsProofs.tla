-------------------------- MODULE NotificationsProofs --------------------------
(***************************************************************************)
(* The safety of the notification worker and of the unread counter for any *)
(* number of users, requests, events and failures.                         *)
(***************************************************************************)
EXTENDS Notifications, FiniteSetTheorems, TLAPS

-----------------------------------------------------------------------------
(* The inductive invariant *)

JobOps == {"none", "save", "incr", "push"}
CallOps == {"count", "fill", "decr", "reset"}

JobType == [event : Events \cup {None}, todo : SUBSET Users, op : JobOps, to : Users \cup {None}]
CallType == [op : {"idle"} \cup CallOps, user : Users \cup {None}]

Types ==
    /\ log \in Seq(Events) /\ actor \in [Events -> Users \cup {None}]
    /\ row \in [Events -> [Users -> {"none", "unread", "read"}]]
    /\ counter \in [Users -> Nat \cup {Missing}]
    /\ job \in JobType
    /\ job.op # "none" => job.event \in Events
    /\ job.op \in {"incr", "push"} => job.to \in Users
    /\ handled \in Nat /\ committed \in Nat /\ faults \in Nat
    /\ call \in [Requests -> CallType]
    /\ \A p \in Requests : call[p].op \in CallOps => call[p].user \in Users
    /\ count \in [Requests -> Nat] /\ countSlack \in [Requests -> Nat]
    /\ bumps \in [Events -> [Users -> Nat]] /\ slack \in [Users -> Nat]

(* The worker's bump goes to a row that has had none.                      *)
BumpSound == job.op = "incr" => bumps[job.event][job.to] = 0 /\ row[job.event][job.to] # "none"

UnreadRows(u) == {e \in Events : row[e][u] = "unread"}
Reading(u) == {p \in Requests : call[p] = At("decr", u)}
Coming(u) == IF job.op = "incr" /\ job.to = u THEN 1 ELSE 0
Going(u) == Cardinality(Reading(u))

Finite(u) == IsFiniteSet(UnreadRows(u)) /\ IsFiniteSet(Reading(u))

(* What the key will be once the bumps on their way are in.                *)
Settling(u) == counter[u] + Coming(u) - Going(u) - Unread(u)
KeySound(u) == counter[u] # Missing => Settling(u) <= slack[u] /\ -Settling(u) <= slack[u]

(* A COUNT in hand: since it was taken rows have come and gone, and each   *)
(* of them may still have its bump on the way.                             *)
CountSound(p) ==
    call[p].op = "fill" =>
        LET u == call[p].user
        IN  /\ count[p] - Unread(u) + Coming(u) <= countSlack[p]
            /\ Going(u) - (count[p] - Unread(u)) <= countSlack[p]

Inv ==
    /\ Types /\ BumpSound /\ CountedOnce
    /\ \A u \in Users : Finite(u) /\ KeySound(u)
    /\ \A p \in Requests : CountSound(p)

LEMMA InitInv == Init => Inv
<1> SUFFICES ASSUME Init PROVE Inv
  OBVIOUS
<1> USE NotificationsAssumption DEF Init
<1>1. IsFiniteSet({}) /\ Cardinality({}) = 0
  BY FS_EmptySet
<1>2. Idle \in CallType /\ Idle.op = "idle" /\ \A u \in Users : Idle # At("decr", u)
  BY DEF Idle, At, CallType
<1>3. NoJob \in JobType /\ NoJob.op = "none"
  BY DEF NoJob, JobType, JobOps
<1>4. /\ row \in [Events -> [Users -> {"none", "unread", "read"}]]
      /\ bumps \in [Events -> [Users -> Nat]]
      /\ \A e \in Events, u \in Users : row[e][u] = "none" /\ bumps[e][u] = 0
  OBVIOUS
<1>5. /\ call \in [Requests -> CallType] /\ (\A p \in Requests : call[p].op = "idle")
      /\ job \in JobType /\ job.op = "none"
  BY <1>2, <1>3
<1>6. log \in Seq(Events) /\ actor \in [Events -> Users \cup {None}] /\ counter \in [Users -> Nat \cup {Missing}]
  OBVIOUS
<1>7. count \in [Requests -> Nat] /\ countSlack \in [Requests -> Nat] /\ slack \in [Users -> Nat]
  OBVIOUS
<1>8. handled \in Nat /\ committed \in Nat /\ faults \in Nat
  OBVIOUS
<1>9. Types
  BY <1>4, <1>5, <1>6, <1>7, <1>8 DEF Types, CallOps
<1>10. BumpSound /\ CountedOnce
  BY <1>4, <1>5 DEF BumpSound, CountedOnce
<1>11. ASSUME NEW u \in Users PROVE Finite(u) /\ KeySound(u)
  <2>1. UnreadRows(u) = {} /\ Reading(u) = {} /\ counter[u] = Missing
    BY <1>2, <1>4 DEF UnreadRows, Reading
  <2> QED
    BY <1>1, <2>1 DEF Finite, KeySound
<1>12. ASSUME NEW p \in Requests PROVE CountSound(p)
  BY <1>5 DEF CountSound
<1> QED
  BY <1>9, <1>10, <1>11, <1>12 DEF Inv

-----------------------------------------------------------------------------
(* Types *)

LEMMA MarkedFacts ==
  ASSUME NEW T, NEW r \in [Users -> T], NEW u \in Users, NEW x \in T
  PROVE  /\ Marked(r, u, x) \in [Users -> T] /\ Marked(r, u, x)[u] = x
         /\ \A w \in Users \ {u} : Marked(r, u, x)[w] = r[w]
BY DEF Marked

(* A request moves on.                                                     *)
LEMMA GoFacts ==
  ASSUME Types, NEW p \in Requests, NEW c \in CallType, Go(p, c)
  PROVE  call' \in [Requests -> CallType] /\ call'[p] = c /\ \A q \in Requests \ {p} : call'[q] = call[q]
BY DEF Types, Go

LEMMA Missings ==
  ASSUME Types, NEW u \in Users, NEW n \in Nat
  PROVE  /\ Missed(u, n) =>
              /\ countSlack' \in [Requests -> Nat]
              /\ \A p \in Requests : countSlack'[p] = IF call[p] = At("fill", u) THEN countSlack[p] + n
                                                      ELSE countSlack[p]
         /\ Lost(u, n) =>
              /\ slack' \in [Users -> Nat]
              /\ \A w \in Users \ {u} : slack'[w] = slack[w]
              /\ counter[u] # Missing => slack'[u] = slack[u] + n
<1>1. ASSUME Missed(u, n)
      PROVE  /\ countSlack' \in [Requests -> Nat]
             /\ \A p \in Requests : countSlack'[p] = IF call[p] = At("fill", u) THEN countSlack[p] + n
                                                     ELSE countSlack[p]
  <2>1. \A p \in Requests : countSlack[p] \in Nat /\ countSlack[p] + n \in Nat
    BY DEF Types
  <2> QED
    BY <1>1, <2>1 DEF Missed
<1>2. ASSUME Lost(u, n)
      PROVE  /\ slack' \in [Users -> Nat]
             /\ \A w \in Users \ {u} : slack'[w] = slack[w]
             /\ counter[u] # Missing => slack'[u] = slack[u] + n
  <2>1. slack \in [Users -> Nat] /\ slack[u] + n \in Nat
    BY DEF Types
  <2> QED
    BY <1>2, <2>1 DEF Lost
<1> QED
  BY <1>1, <1>2

LEMMA WorkerTypes ==
  ASSUME Types, \/ TopicGrows
                \/ WorkerStep \/ HandlerThrows \/ CommitOffset \/ RestartWorker
  PROVE  Types'
<1> USE NotificationsAssumption
<1>1. NoJob \in JobType /\ NoJob.op = "none"
  BY DEF NoJob, JobType, JobOps
<1>2. ASSUME NEW e \in Events, EventArrives(e) \/ EventRepeats(e) PROVE Types'
  <2>1. log' \in Seq(Events) /\ actor' \in [Events -> Users \cup {None}] /\ faults' \in Nat
    <3>1. CASE EventArrives(e)
      BY <3>1 DEF EventArrives, Types, NoFault
    <3>2. CASE EventRepeats(e)
      BY <3>2 DEF EventRepeats, Types, Fault
    <3> QED
      BY <1>2, <3>1, <3>2
  <2>2. UNCHANGED <<row, groupVars, requestVars, keyVars, bumps>>
    BY <1>2 DEF EventArrives, EventRepeats
  <2> QED
    BY <2>1, <2>2 DEF Types, groupVars, requestVars, keyVars
<1>3. CASE StartEvent
  <2>1. handled + 1 \in 1..Len(log)
    BY <1>3 DEF StartEvent, Types
  <2> PICK e \in Events : e = log[handled + 1]
    BY <2>1 DEF Types
  <2>2. PICK to \in Resolve(e) : job' = [event |-> e, todo |-> to, op |-> "save", to |-> None]
    BY <1>3 DEF StartEvent
  <2>3. to \subseteq Users
    BY DEF Resolve, ForMessage, ForPostAuthor, ForPost
  <2>4. job' \in JobType /\ job'.op = "save" /\ job'.event \in Events
    BY <2>2, <2>3 DEF JobType, JobOps
  <2>5. UNCHANGED <<topicVars, row, handled, committed, requestVars, keyVars, bumps, faults>>
    BY <1>3 DEF StartEvent, NoFault
  <2> QED
    BY <2>4, <2>5 DEF Types, topicVars, requestVars, keyVars
<1>4. ASSUME NEW u \in Users, Save(u) PROVE Types'
  <2>1. UNCHANGED <<topicVars, handled, committed, call, count, keyVars, bumps, faults>>
    BY <1>4 DEF Save, NoFault
  <2>2. CASE SaveIfNew(job.event, u)
    <3>1. /\ row' = [row EXCEPT ![job.event] = Marked(row[job.event], u, "unread")]
          /\ job' = [job EXCEPT !.op = "incr", !.to = u] /\ Missed(u, 1) /\ job.op = "save"
      BY <1>4, <2>2 DEF Save
    <3>2. job.event \in Events /\ job' \in JobType /\ job'.op = "incr" /\ job'.event = job.event /\ job'.to = u
      BY <3>1 DEF Types, JobType, JobOps
    <3>3. Marked(row[job.event], u, "unread") \in [Users -> {"none", "unread", "read"}]
      BY <3>2 DEF Types, Marked
    <3>4. row' \in [Events -> [Users -> {"none", "unread", "read"}]]
      BY <3>1, <3>2, <3>3 DEF Types
    <3>5. countSlack' \in [Requests -> Nat]
      BY <3>1, Missings
    <3> QED
      BY <2>1, <3>2, <3>4, <3>5 DEF Types, topicVars, keyVars
  <2>3. CASE ~SaveIfNew(job.event, u)
    <3>1. job' = [job EXCEPT !.todo = @ \ {u}] /\ UNCHANGED <<row, countSlack>> /\ job.op = "save"
      BY <1>4, <2>3 DEF Save
    <3>2. job' \in JobType /\ job'.op = "save" /\ job'.event = job.event
      BY <3>1 DEF Types, JobType
    <3> QED
      BY <2>1, <3>1, <3>2 DEF Types, topicVars, keyVars
  <2> QED
    BY <2>2, <2>3
<1>5. CASE Increment
  <2>1. /\ job.op = "incr" /\ job.event \in Events /\ job.to \in Users
        /\ counter' = [counter EXCEPT ![job.to] = Incremented(job.to)]
        /\ bumps' = [bumps EXCEPT ![job.event] = Marked(bumps[job.event], job.to, bumps[job.event][job.to] + 1)]
        /\ job' = [job EXCEPT !.op = "push"]
        /\ UNCHANGED <<topicVars, row, handled, committed, requestVars, slack, faults>>
    BY <1>5 DEF Increment, NoFault, Types
  <2>2. bumps[job.event] \in [Users -> Nat] /\ bumps[job.event][job.to] + 1 \in Nat
    BY <2>1 DEF Types
  <2>3. Marked(bumps[job.event], job.to, bumps[job.event][job.to] + 1) \in [Users -> Nat]
    BY <2>1, <2>2, MarkedFacts
  <2>4. bumps' \in [Events -> [Users -> Nat]]
    BY <2>1, <2>3 DEF Types
  <2>5. Incremented(job.to) \in Nat \cup {Missing}
    BY <2>1 DEF Types, Incremented
  <2>6. counter' \in [Users -> Nat \cup {Missing}]
    BY <2>1, <2>5 DEF Types
  <2>7. job' \in JobType /\ job'.op = "push" /\ job'.event = job.event /\ job'.to = job.to
    BY <2>1 DEF Types, JobType, JobOps
  <2> QED
    BY <2>1, <2>4, <2>6, <2>7 DEF Types, topicVars, requestVars
<1>6. CASE Push
  <2>1. /\ job.op = "push" /\ job' = [job EXCEPT !.op = "save", !.todo = @ \ {job.to}, !.to = None]
        /\ UNCHANGED <<topicVars, row, handled, committed, requestVars, keyVars, bumps, faults>>
    BY <1>6 DEF Push, NoFault
  <2>2. job' \in JobType /\ job'.op = "save" /\ job'.event = job.event
    BY <2>1 DEF Types, JobType, JobOps
  <2> QED
    BY <2>1, <2>2 DEF Types, topicVars, requestVars, keyVars
<1>7. CASE FinishEvent \/ CommitOffset
  <2>1. (job' = job \/ job' = NoJob) /\ handled' \in Nat /\ committed' \in Nat
        /\ UNCHANGED <<topicVars, row, requestVars, keyVars, bumps, faults>>
    BY <1>7 DEF FinishEvent, CommitOffset, NoFault, Types
  <2> QED
    BY <1>1, <2>1 DEF Types, topicVars, requestVars, keyVars
<1>8. CASE HandlerThrows \/ RestartWorker
  <2>1. /\ job' = NoJob /\ handled' \in Nat /\ faults' \in Nat /\ committed' = committed
        /\ UNCHANGED <<topicVars, row, requestVars, counter, bumps>> /\ LoseBump
    BY <1>8 DEF HandlerThrows, AfterError, RestartWorker, Fault, Types
  <2>2. slack' \in [Users -> Nat]
    BY <2>1, Missings DEF LoseBump, Types
  <2> QED
    BY <1>1, <2>1, <2>2 DEF Types, topicVars, requestVars
<1> QED
  BY <1>2, <1>3, <1>4, <1>5, <1>6, <1>7, <1>8 DEF TopicGrows, WorkerStep

(* Any row of u that is marked is marked once, and the rest stays.         *)
LEMMA AllReadFacts ==
  ASSUME Types, NEW u \in Users,
         row' = [e \in Events |-> IF row[e][u] = "unread" THEN Marked(row[e], u, "read") ELSE row[e]]
  PROVE  /\ row' \in [Events -> [Users -> {"none", "unread", "read"}]]
         /\ \A e \in Events : /\ row'[e][u] # "unread" /\ (row'[e][u] = "none" <=> row[e][u] = "none")
                              /\ \A w \in Users \ {u} : row'[e][w] = row[e][w]
<1>1. ASSUME NEW e \in Events
      PROVE  /\ row'[e] \in [Users -> {"none", "unread", "read"}]
             /\ row'[e][u] # "unread" /\ (row'[e][u] = "none" <=> row[e][u] = "none")
             /\ \A w \in Users \ {u} : row'[e][w] = row[e][w]
  <2>1. row[e] \in [Users -> {"none", "unread", "read"}]
    BY DEF Types
  <2> QED
    BY <2>1 DEF Marked
<1> QED
  BY <1>1

LEMMA OneReadFacts ==
  ASSUME Types, NEW u \in Users, NEW e \in Events, NEW x \in {"unread", "read"},
         row' = [row EXCEPT ![e] = Marked(row[e], u, x)]
  PROVE  /\ row' \in [Events -> [Users -> {"none", "unread", "read"}]]
         /\ row'[e][u] = x /\ \A w \in Users \ {u} : row'[e][w] = row[e][w]
         /\ \A d \in Events \ {e} : row'[d] = row[d]
<1> PICK r : r = Marked(row[e], u, x)
  OBVIOUS
<1>1. row[e] \in [Users -> {"none", "unread", "read"}]
  BY DEF Types
<1>2. r \in [Users -> {"none", "unread", "read"}] /\ r[u] = x /\ \A w \in Users \ {u} : r[w] = row[e][w]
  BY <1>1 DEF Marked
<1>3. row' \in [Events -> [Users -> {"none", "unread", "read"}]] /\ row'[e] = r
      /\ \A d \in Events \ {e} : row'[d] = row[d]
  BY <1>2 DEF Types
<1> QED
  BY <1>2, <1>3

LEMMA UserTypes ==
  ASSUME Types, NEW p \in Requests, UserStep(p),
         \A u \in Users : Unread(u) \in Nat /\ PendingBumps(u) \in Nat
  PROVE  Types'
<1> USE NotificationsAssumption
<1>1. Aside => UNCHANGED <<log, actor, job, handled, committed, bumps>>
  BY DEF Aside, topicVars, groupVars
<1>2. \A o \in CallOps, u \in Users : /\ At(o, u) \in CallType /\ At(o, u).op = o /\ At(o, u).user = u
  BY DEF At, CallType, CallOps
<1>3. Idle \in CallType /\ Idle.op = "idle"
  BY DEF At, Idle, CallType
<1>4. call[p].op \in CallOps => call[p].user \in Users
  BY DEF Types
(* The request's next call.                                                *)
<1>5. ASSUME NEW c \in CallType, Go(p, c), c.op \in CallOps => c.user \in Users
      PROVE  /\ call' \in [Requests -> CallType]
             /\ \A q \in Requests : call'[q].op \in CallOps => call'[q].user \in Users
  BY <1>5, GoFacts DEF Types
<1>6. ASSUME NEW u \in Readers, GetUnreadCount(p, u) PROVE Types'
  <2>1. Go(p, At("count", u)) /\ u \in Users /\ "count" \in CallOps
        /\ UNCHANGED <<log, actor, job, handled, committed, bumps, row, counter, slack, count, countSlack, faults>>
    BY <1>1, <1>6 DEF GetUnreadCount, NoFault, keyVars, CallOps
  <2>8. /\ call' \in [Requests -> CallType]
        /\ \A q \in Requests : call'[q].op \in CallOps => call'[q].user \in Users
    BY <1>2, <1>5, <2>1
  <2> QED
    BY <2>1, <2>8 DEF Types
<1>7. ASSUME NEW u \in Readers, MarkAllRead(p, u) PROVE Types'
  <2>1. Go(p, At("reset", u)) /\ u \in Users /\ "reset" \in CallOps /\ Missed(u, Unread(u)) /\ Lost(u, Unread(u))
        /\ UNCHANGED <<log, actor, job, handled, committed, bumps, counter, count, faults>>
    BY <1>1, <1>7 DEF MarkAllRead, NoFault, CallOps
  <2>2. countSlack' \in [Requests -> Nat] /\ slack' \in [Users -> Nat]
    BY <2>1, Missings
  <2>3. row' \in [Events -> [Users -> {"none", "unread", "read"}]]
    BY <1>7, <2>1, AllReadFacts DEF MarkAllRead
  <2>8. /\ call' \in [Requests -> CallType]
        /\ \A q \in Requests : call'[q].op \in CallOps => call'[q].user \in Users
    BY <1>2, <1>5, <2>1
  <2> QED
    BY <2>1, <2>2, <2>3, <2>8 DEF Types
<1>8. ASSUME NEW u \in Readers, NEW e \in Events, MarkOneRead(p, u, e) PROVE Types'
  <2>1. Go(p, At("decr", u)) /\ u \in Users /\ "decr" \in CallOps /\ Missed(u, 1)
        /\ UNCHANGED <<log, actor, job, handled, committed, bumps, counter, slack, count, faults>>
    BY <1>1, <1>8 DEF MarkOneRead, NoFault, CallOps, keyVars
  <2>2. countSlack' \in [Requests -> Nat]
    BY <2>1, Missings
  <2>3. row' \in [Events -> [Users -> {"none", "unread", "read"}]]
    BY <1>8, <2>1, OneReadFacts DEF MarkOneRead
  <2>8. /\ call' \in [Requests -> CallType]
        /\ \A q \in Requests : call'[q].op \in CallOps => call'[q].user \in Users
    BY <1>2, <1>5, <2>1
  <2> QED
    BY <2>1, <2>2, <2>3, <2>8 DEF Types
<1>9. ASSUME CountUnread(p) PROVE Types'
  <2> PICK u \in Users : u = call[p].user
    BY <1>4, <1>9 DEF CountUnread, CallOps
  <2>1. /\ count' = [count EXCEPT ![p] = Unread(u)] /\ countSlack' = [countSlack EXCEPT ![p] = PendingBumps(u)]
        /\ Go(p, At("fill", u)) /\ "fill" \in CallOps
        /\ UNCHANGED <<log, actor, job, handled, committed, bumps, row, counter, slack, faults>>
    BY <1>1, <1>9 DEF CountUnread, NoFault, CallOps, keyVars
  <2>2. count' \in [Requests -> Nat] /\ countSlack' \in [Requests -> Nat]
    <3>1. Unread(u) \in Nat /\ PendingBumps(u) \in Nat
      OBVIOUS
    <3> QED
      BY <2>1, <3>1 DEF Types
  <2>8. /\ call' \in [Requests -> CallType]
        /\ \A q \in Requests : call'[q].op \in CallOps => call'[q].user \in Users
    BY <1>2, <1>5, <2>1
  <2> QED
    BY <2>1, <2>2, <2>8 DEF Types
<1>10. CASE Backfill(p) \/ Decrement(p) \/ Reset(p) \/ RequestFails(p)
  <2>1. Go(p, Idle) /\ UNCHANGED <<log, actor, job, handled, committed, bumps, row>> /\ faults' \in Nat
    BY <1>1, <1>10 DEF Backfill, Decrement, Reset, RequestFails, NoFault, Fault, Types
  <2>2. count' \in [Requests -> Nat] /\ countSlack' \in [Requests -> Nat]
    <3>1. NoCount(p) \/ UNCHANGED <<count, countSlack>>
      BY <1>10 DEF Backfill, Decrement, Reset, RequestFails
    <3> QED
      BY <3>1 DEF NoCount, Types
  <2>3. counter' \in [Users -> Nat \cup {Missing}] /\ slack' \in [Users -> Nat]
    <3>1. CASE Backfill(p)
      <4> PICK u \in Users : u = call[p].user
        BY <1>4, <3>1 DEF Backfill, CallOps
      <4>1. \/ counter' = [counter EXCEPT ![u] = count[p]] /\ slack' = [slack EXCEPT ![u] = countSlack[p]]
            \/ UNCHANGED <<counter, slack>>
        BY <3>1 DEF Backfill, keyVars
      <4> QED
        BY <4>1 DEF Types
    <3>2. CASE Decrement(p)
      <4> PICK u \in Users : u = call[p].user
        BY <1>4, <3>2 DEF Decrement, CallOps
      <4>1. /\ counter' = [counter EXCEPT ![u] = Decremented(u)]
            /\ slack' = [slack EXCEPT ![u] = IF counter[u] = 0 THEN slack[u] + 1 ELSE slack[u]]
        BY <3>2 DEF Decrement
      <4>2. Decremented(u) \in Nat \cup {Missing} /\ slack[u] + 1 \in Nat /\ slack[u] \in Nat
        BY DEF Decremented, Types
      <4> QED
        BY <4>1, <4>2 DEF Types
    <3>3. CASE Reset(p)
      <4>1. counter' = [counter EXCEPT ![call[p].user] = Missing] /\ slack' = [slack EXCEPT ![call[p].user] = 0]
        BY <3>3 DEF Reset, DropKey
      <4> QED
        BY <4>1 DEF Types
    <3>4. CASE RequestFails(p)
      <4>1. counter' = counter /\ (slack' = slack \/ (call[p].op = "decr" /\ Lost(call[p].user, 1)))
        BY <3>4 DEF RequestFails
      <4> QED
        BY <1>4, <4>1, Missings DEF Types, CallOps
    <3> QED
      BY <1>10, <3>1, <3>2, <3>3, <3>4
  <2> QED
    BY <1>3, <1>5, <2>1, <2>2, <2>3 DEF Types, CallOps
<1> QED
  BY <1>6, <1>7, <1>8, <1>9, <1>10 DEF UserStep, NotificationRoutes

-----------------------------------------------------------------------------
(* Counting once *)

LEMMA BumpsStep ==
  ASSUME Inv, [Next]_vars
  PROVE  BumpSound' /\ CountedOnce'
<1>1. Types
  BY DEF Inv
<1>2. ASSUME row' = row, bumps' = bumps, job' = job \/ job'.op # "incr" PROVE BumpSound' /\ CountedOnce'
  BY <1>2 DEF Inv, BumpSound, CountedOnce
<1>3. ASSUME bumps' = bumps, job' = job,
             \A e \in Events, u \in Users : row'[e][u] = "none" <=> row[e][u] = "none"
      PROVE  BumpSound' /\ CountedOnce'
  <2>1. job.op = "incr" => job.event \in Events /\ job.to \in Users
    BY <1>1 DEF Types
  <2> QED
    BY <1>3, <2>1 DEF Inv, BumpSound, CountedOnce
<1>4. CASE UNCHANGED vars
  BY <1>2, <1>4 DEF vars, keyVars, groupVars
<1>5. CASE TopicGrows \/ StartEvent \/ Push \/ FinishEvent \/ HandlerThrows
           \/ CommitOffset \/ RestartWorker
  <2>1. row' = row /\ bumps' = bumps
    BY <1>5 DEF TopicGrows, EventArrives, EventRepeats, StartEvent, Push, FinishEvent, HandlerThrows, CommitOffset, RestartWorker
  <2>2. job' = job \/ job'.op # "incr"
    <3>1. CASE Push
      BY <1>1, <3>1 DEF Push, Types, JobType
    <3>2. CASE StartEvent
      <4>1. \E d, to : job' = [event |-> d, todo |-> to, op |-> "save", to |-> None]
        BY <3>2 DEF StartEvent
      <4> QED
        BY <4>1
    <3>3. CASE ~Push /\ ~StartEvent
      BY <1>5, <3>3 DEF TopicGrows, EventArrives, EventRepeats, FinishEvent, HandlerThrows, CommitOffset, RestartWorker, NoJob, groupVars
    <3> QED
      BY <3>1, <3>2, <3>3
  <2> QED
    BY <1>2, <2>1, <2>2
<1>6. ASSUME NEW u \in Users, Save(u) PROVE BumpSound' /\ CountedOnce'
  <2>1. job.op = "save" /\ job.event \in Events /\ bumps' = bumps
    BY <1>1, <1>6 DEF Save, Types
  <2>2. CASE SaveIfNew(job.event, u)
    <3>1. /\ row' = [row EXCEPT ![job.event] = Marked(row[job.event], u, "unread")]
          /\ job' = [job EXCEPT !.op = "incr", !.to = u]
      BY <1>6, <2>2 DEF Save
    <3>2. /\ row'[job.event][u] = "unread" /\ \A w \in Users \ {u} : row'[job.event][w] = row[job.event][w]
          /\ \A d \in Events \ {job.event} : row'[d] = row[d]
      BY <1>1, <2>1, <3>1, OneReadFacts
    <3>3. job'.event = job.event /\ job'.to = u
      BY <1>1, <3>1 DEF Types, JobType
    <3>4. bumps[job.event][u] = 0
      <4>1. bumps[job.event][u] \in Nat /\ bumps[job.event][u] <= 1
            /\ bumps[job.event][u] # 1
        BY <1>1, <2>1, <2>2 DEF Inv, CountedOnce, SaveIfNew, Types
      <4> QED
        BY <4>1
    <3>5. BumpSound'
      BY <2>1, <3>2, <3>3, <3>4 DEF BumpSound
    <3>6. CountedOnce'
      <4>1. ASSUME NEW e \in Events, NEW w \in Users PROVE bumps[e][w] <= 1 /\ (bumps[e][w] = 1 => row'[e][w] # "none")
        BY <3>2 DEF Inv, CountedOnce
      <4> QED
        BY <2>1, <4>1 DEF CountedOnce
    <3> QED
      BY <3>5, <3>6
  <2>3. CASE ~SaveIfNew(job.event, u)
    <3>1. row' = row /\ job' = [job EXCEPT !.todo = @ \ {u}]
      BY <1>6, <2>3 DEF Save
    <3>2. job'.op = "save"
      BY <1>1, <2>1, <3>1 DEF Types, JobType
    <3> QED
      BY <1>2, <2>1, <3>1, <3>2
  <2> QED
    BY <2>2, <2>3
<1>7. CASE Increment
  <2>1. /\ job.op = "incr" /\ job.event \in Events /\ job.to \in Users /\ row' = row
        /\ bumps' = [bumps EXCEPT ![job.event] = Marked(bumps[job.event], job.to, bumps[job.event][job.to] + 1)]
        /\ job' = [job EXCEPT !.op = "push"]
    BY <1>1, <1>7 DEF Increment, Types
  <2>2. bumps[job.event][job.to] = 0 /\ row[job.event][job.to] # "none"
    BY <2>1 DEF Inv, BumpSound
  <2>3. PICK b : b = Marked(bumps[job.event], job.to, 1)
    OBVIOUS
  <2>4. b \in [Users -> Nat] /\ b[job.to] = 1 /\ \A w \in Users \ {job.to} : b[w] = bumps[job.event][w]
    BY <1>1, <2>1, <2>3 DEF Types, Marked
  <2>5. bumps' = [bumps EXCEPT ![job.event] = b]
    BY <2>1, <2>2, <2>3
  <2>6. bumps'[job.event] = b /\ \A d \in Events \ {job.event} : bumps'[d] = bumps[d]
    BY <1>1, <2>1, <2>5 DEF Types
  <2>7. CountedOnce'
    <3>1. ASSUME NEW e \in Events, NEW w \in Users PROVE bumps'[e][w] <= 1 /\ (bumps'[e][w] = 1 => row[e][w] # "none")
      <4>1. CASE e = job.event /\ w = job.to
        BY <2>2, <2>4, <2>6, <4>1
      <4>2. CASE ~(e = job.event /\ w = job.to)
        <5>1. bumps'[e][w] = bumps[e][w]
          BY <2>4, <2>6, <4>2
        <5> QED
          BY <5>1 DEF Inv, CountedOnce
      <4> QED
        BY <4>1, <4>2
    <3> QED
      BY <2>1, <3>1 DEF CountedOnce
  <2>8. job'.op = "push"
    BY <1>1, <2>1 DEF Types, JobType
  <2> QED
    BY <2>7, <2>8 DEF BumpSound
<1>8. ASSUME NEW p \in Requests, NEW u \in Readers, MarkAllRead(p, u) PROVE BumpSound' /\ CountedOnce'
  <2>1. u \in Users /\ bumps' = bumps /\ job' = job
    BY <1>8, NotificationsAssumption DEF MarkAllRead, Aside, groupVars
  <2>2. \A e \in Events, w \in Users : row'[e][w] = "none" <=> row[e][w] = "none"
    <3>1. \A e \in Events : /\ (row'[e][u] = "none" <=> row[e][u] = "none")
                            /\ \A w \in Users \ {u} : row'[e][w] = row[e][w]
      BY <1>1, <1>8, <2>1, AllReadFacts DEF MarkAllRead
    <3> QED
      BY <3>1
  <2> QED
    BY <1>3, <2>1, <2>2
<1>9. ASSUME NEW p \in Requests, NEW u \in Readers, NEW e \in Events, MarkOneRead(p, u, e)
      PROVE  BumpSound' /\ CountedOnce'
  <2>1. u \in Users /\ bumps' = bumps /\ job' = job /\ row[e][u] = "unread"
    BY <1>9, NotificationsAssumption DEF MarkOneRead, Aside, groupVars
  <2>2. /\ row'[e][u] = "read" /\ \A w \in Users \ {u} : row'[e][w] = row[e][w]
        /\ \A d \in Events \ {e} : row'[d] = row[d]
    BY <1>1, <1>9, <2>1, OneReadFacts DEF MarkOneRead
  <2>3. \A d \in Events, w \in Users : row'[d][w] = "none" <=> row[d][w] = "none"
    BY <2>1, <2>2
  <2> QED
    BY <1>3, <2>1, <2>3
<1>10. ASSUME NEW p \in Requests,
              \/ \E u \in Readers : GetUnreadCount(p, u)
              \/ CountUnread(p) \/ Backfill(p) \/ Decrement(p) \/ Reset(p) \/ RequestFails(p)
       PROVE  BumpSound' /\ CountedOnce'
  <2>1. row' = row /\ bumps' = bumps /\ job' = job
    BY <1>10 DEF GetUnreadCount, CountUnread, Backfill, Decrement, Reset, RequestFails, Aside, groupVars
  <2> QED
    BY <1>2, <2>1
<1>11. CASE \E u \in Users : KeyExpires(u)
  BY <1>2, <1>11 DEF KeyExpires, Aside, groupVars
<1> QED
  BY <1>4, <1>5, <1>6, <1>7, <1>8, <1>9, <1>10, <1>11 DEF Next, WorkerStep, UserStep, NotificationRoutes

-----------------------------------------------------------------------------
(* Unread rows and bumps on their way, counted *)

LEMMA NumberTypes ==
  ASSUME NEW u, Finite(u)
  PROVE  /\ Unread(u) = Cardinality(UnreadRows(u)) /\ Unread(u) \in Nat
         /\ Going(u) \in Nat /\ Coming(u) \in {0, 1}
         /\ PendingBumps(u) = Coming(u) + Going(u) /\ PendingBumps(u) \in Nat
<1>1. Unread(u) = Cardinality(UnreadRows(u))
  BY DEF Unread, UnreadRows
<1>2. Cardinality(UnreadRows(u)) \in Nat /\ Going(u) \in Nat
  BY FS_CardinalityType DEF Finite, Going
<1>3. Coming(u) \in {0, 1} /\ PendingBumps(u) = Coming(u) + Going(u)
  BY DEF Coming, Going, PendingBumps, Reading
<1> QED
  BY <1>1, <1>2, <1>3

LEMMA ReadingStep ==
  ASSUME Inv, NEW p \in Requests, NEW c \in CallType, Go(p, c), NEW u \in Users
  PROVE  /\ IsFiniteSet(Reading(u)')
         /\ c = At("decr", u) /\ call[p] # At("decr", u) => Going(u)' = Going(u) + 1
         /\ c # At("decr", u) /\ call[p] = At("decr", u) => Going(u)' = Going(u) - 1
         /\ (c = At("decr", u) <=> call[p] = At("decr", u)) => Going(u)' = Going(u)
<1> DEFINE R == Reading(u)
<1>1. IsFiniteSet(R) /\ (p \in R <=> call[p] = At("decr", u)) /\ Cardinality(R) \in Nat
  BY FS_CardinalityType DEF Inv, Finite, Reading
<1>2. call'[p] = c /\ \A q \in Requests \ {p} : call'[q] = call[q]
  BY GoFacts DEF Inv
<1>3. Going(u) = Cardinality(R) /\ Going(u)' = Cardinality(R')
  BY DEF Going
<1>4. CASE c = At("decr", u)
  <2>1. R' = R \cup {p}
    BY <1>2, <1>4 DEF Reading
  <2> HIDE DEF R
  <2>2. IsFiniteSet(R \cup {p}) /\ Cardinality(R \cup {p}) = IF p \in R THEN Cardinality(R) ELSE Cardinality(R) + 1
    BY <1>1, FS_AddElement
  <2>3. /\ IsFiniteSet(R')
        /\ call[p] # At("decr", u) => Going(u)' = Going(u) + 1
        /\ call[p] = At("decr", u) => Going(u)' = Going(u)
    BY <1>1, <1>3, <2>1, <2>2
  <2> QED
    BY <1>4, <2>3 DEF R
<1>5. CASE c # At("decr", u)
  <2>1. R' = R \ {p}
    BY <1>2, <1>5 DEF Reading
  <2> HIDE DEF R
  <2>2. IsFiniteSet(R \ {p}) /\ Cardinality(R \ {p}) = IF p \in R THEN Cardinality(R) - 1 ELSE Cardinality(R)
    BY <1>1, FS_RemoveElement
  <2>3. /\ IsFiniteSet(R')
        /\ call[p] = At("decr", u) => Going(u)' = Going(u) - 1
        /\ call[p] # At("decr", u) => Going(u)' = Going(u)
    BY <1>1, <1>3, <2>1, <2>2
  <2> QED
    BY <1>5, <2>3 DEF R
<1> QED
  BY <1>4, <1>5

LEMMA RowStep ==
  ASSUME Inv, NEW u \in Users, NEW e \in Events, NEW x \in {"unread", "read"},
         row' = [row EXCEPT ![e] = Marked(row[e], u, x)]
  PROVE  /\ IsFiniteSet(UnreadRows(u)')
         /\ x = "unread" /\ row[e][u] # "unread" => Unread(u)' = Unread(u) + 1
         /\ x = "read" /\ row[e][u] = "unread" => Unread(u)' = Unread(u) - 1
         /\ \A w \in Users \ {u} : UnreadRows(w)' = UnreadRows(w) /\ Unread(w)' = Unread(w)
<1> DEFINE U == UnreadRows(u)
<1>1. IsFiniteSet(U) /\ (e \in U <=> row[e][u] = "unread") /\ Cardinality(U) \in Nat
  BY FS_CardinalityType DEF Inv, Finite, UnreadRows
<1>2. Unread(u) = Cardinality(U) /\ Unread(u)' = Cardinality(U')
  BY DEF Unread, UnreadRows
<1>3. /\ row'[e][u] = x /\ \A w \in Users \ {u} : row'[e][w] = row[e][w]
      /\ \A d \in Events \ {e} : row'[d] = row[d]
  <2> HIDE DEF U
  <2>1. Types /\ x \in {"unread", "read"} /\ row' = [row EXCEPT ![e] = Marked(row[e], u, x)]
    BY DEF Inv
  <2>2. /\ row' \in [Events -> [Users -> {"none", "unread", "read"}]]
        /\ row'[e][u] = x /\ \A w \in Users \ {u} : row'[e][w] = row[e][w]
        /\ \A d \in Events \ {e} : row'[d] = row[d]
    BY <2>1, OneReadFacts, Zenon
  <2> QED
    BY <2>2
<1>4. ASSUME NEW w \in Users \ {u} PROVE UnreadRows(w)' = UnreadRows(w) /\ Unread(w)' = Unread(w)
  <2>1. \A d \in Events : row'[d][w] = row[d][w]
    BY <1>3
  <2> QED
    BY <2>1 DEF UnreadRows, Unread
<1>5. CASE x = "unread"
  <2>1. U' = U \cup {e}
    BY <1>3, <1>5 DEF UnreadRows
  <2> HIDE DEF U
  <2>2. IsFiniteSet(U \cup {e}) /\ Cardinality(U \cup {e}) = IF e \in U THEN Cardinality(U) ELSE Cardinality(U) + 1
    BY <1>1, FS_AddElement
  <2>3. IsFiniteSet(U') /\ (row[e][u] # "unread" => Unread(u)' = Unread(u) + 1)
    BY <1>1, <1>2, <2>1, <2>2
  <2> QED
    BY <1>4, <1>5, <2>3 DEF U
<1>6. CASE x = "read"
  <2>1. U' = U \ {e}
    BY <1>3, <1>6 DEF UnreadRows
  <2> HIDE DEF U
  <2>2. IsFiniteSet(U \ {e}) /\ Cardinality(U \ {e}) = IF e \in U THEN Cardinality(U) - 1 ELSE Cardinality(U)
    BY <1>1, FS_RemoveElement
  <2>3. IsFiniteSet(U') /\ (row[e][u] = "unread" => Unread(u)' = Unread(u) - 1)
    BY <1>1, <1>2, <2>1, <2>2
  <2> QED
    BY <1>4, <1>6, <2>3 DEF U
<1> QED
  BY <1>5, <1>6

Numbers ==
    /\ \A u \in Users : Finite(u) /\ KeySound(u)
    /\ \A p \in Requests : CountSound(p)

(* A user whose rows and bumps a step leaves alone.                        *)
Still(u) ==
    /\ UnreadRows(u)' = UnreadRows(u) /\ Unread(u)' = Unread(u)
    /\ Coming(u)' = Coming(u) /\ Going(u)' = Going(u)
    /\ IsFiniteSet(Reading(u)')

LEMMA StillSound ==
  ASSUME Inv, NEW u \in Users, Still(u)
  PROVE  /\ Finite(u)'
         /\ counter'[u] = Missing \/ (counter'[u] = counter[u] /\ slack'[u] = slack[u]) => KeySound(u)'
         /\ \A p \in Requests :
              call'[p] = call[p] /\ call[p].user = u /\ count'[p] = count[p] /\ countSlack'[p] = countSlack[p]
                => CountSound(p)'
<1>1. Finite(u)'
  BY DEF Inv, Finite, Still
<1>2. counter'[u] = Missing \/ (counter'[u] = counter[u] /\ slack'[u] = slack[u]) => KeySound(u)'
  BY DEF Inv, KeySound, Settling, Still
<1>3. ASSUME NEW p \in Requests, call'[p] = call[p], call[p].user = u, count'[p] = count[p],
             countSlack'[p] = countSlack[p]
      PROVE  CountSound(p)'
  BY <1>3 DEF Inv, CountSound, Still
<1> QED
  BY <1>1, <1>2, <1>3

(* A step that changes no number.                                          *)
LEMMA QuietNumbers ==
  ASSUME Inv, \A u \in Users : Still(u),
         \A u \in Users : counter'[u] = Missing \/ (counter'[u] = counter[u] /\ slack'[u] = slack[u]),
         \A p \in Requests :
            call'[p].op = "fill" => call'[p] = call[p] /\ count'[p] = count[p] /\ countSlack'[p] = countSlack[p]
  PROVE  Numbers'
<1>1. ASSUME NEW u \in Users PROVE Finite(u)' /\ KeySound(u)'
  BY StillSound
<1>2. ASSUME NEW p \in Requests PROVE CountSound(p)'
  <2>1. CASE call'[p].op # "fill"
    BY <2>1 DEF CountSound
  <2>2. CASE call'[p].op = "fill"
    <3>1. call'[p] = call[p] /\ call[p].user \in Users
      BY <2>2 DEF Inv, Types, CallOps
    <3> QED
      BY <2>2, <3>1, StillSound
  <2> QED
    BY <2>1, <2>2
<1> QED
  BY <1>1, <1>2 DEF Numbers

LEMMA SaveNumbers == ASSUME Inv, NEW u \in Users, Save(u) PROVE Numbers'
<1>1. Types /\ \A w \in Users : Finite(w)
  BY DEF Inv
<1>2. job.op = "save" /\ job.event \in Events /\ UNCHANGED <<call, count, counter, slack>>
  BY <1>1 DEF Save, Types, keyVars
<1>3. \A w \in Users : Coming(w) = 0 /\ Reading(w)' = Reading(w) /\ Going(w)' = Going(w)
  BY <1>2 DEF Coming, Reading, Going
<1>4. CASE ~SaveIfNew(job.event, u)
  <2>1. row' = row /\ countSlack' = countSlack /\ job' = [job EXCEPT !.todo = @ \ {u}]
    BY <1>4 DEF Save
  <2>2. job'.op = "save"
    BY <1>1, <1>2, <2>1 DEF Types, JobType
  <2>3. \A w \in Users : Still(w)
    BY <1>1, <1>3, <2>1, <2>2 DEF Still, UnreadRows, Unread, Coming, Finite
  <2> QED
    BY <1>2, <2>1, <2>3, QuietNumbers
<1>5. CASE SaveIfNew(job.event, u)
  <2>1. /\ row' = [row EXCEPT ![job.event] = Marked(row[job.event], u, "unread")]
        /\ job' = [job EXCEPT !.op = "incr", !.to = u] /\ Missed(u, 1)
    BY <1>5 DEF Save
  <2>2. job'.op = "incr" /\ job'.to = u
    BY <1>1, <2>1 DEF Types, JobType
  <2>3. Coming(u)' = 1 /\ \A w \in Users \ {u} : Coming(w)' = 0
    BY <2>2 DEF Coming
  <2>4. /\ IsFiniteSet(UnreadRows(u)') /\ Unread(u)' = Unread(u) + 1
        /\ \A w \in Users \ {u} : UnreadRows(w)' = UnreadRows(w) /\ Unread(w)' = Unread(w)
    BY <1>2, <1>5, <2>1, RowStep DEF SaveIfNew
  <2>5. \A q \in Requests : countSlack'[q] = IF call[q] = At("fill", u) THEN countSlack[q] + 1 ELSE countSlack[q]
    BY <1>1, <2>1, Missings
  <2>6. ASSUME NEW w \in Users \ {u} PROVE Still(w)
    BY <1>1, <1>3, <2>3, <2>4 DEF Still, Finite
  <2>7. Finite(u)' /\ KeySound(u)'
    <3>1. KeySound(u) /\ Unread(u) \in Nat /\ Going(u) \in Nat
      BY <1>1, NumberTypes DEF Inv
    <3>2. counter[u] # Missing => counter[u] \in Nat /\ slack[u] \in Nat
      BY <1>1 DEF Types
    <3> QED
      BY <1>1, <1>2, <1>3, <2>3, <2>4, <3>1, <3>2 DEF Finite, KeySound, Settling
  <2>8. ASSUME NEW q \in Requests PROVE CountSound(q)'
    <3>1. CASE call[q] = At("fill", u)
      <4>1. call[q].user = u /\ call[q].op = "fill"
        BY <3>1 DEF At
      <4>2. CountSound(q) /\ Unread(u) \in Nat /\ Going(u) \in Nat /\ count[q] \in Nat /\ countSlack[q] \in Nat
        BY <1>1, NumberTypes DEF Inv, Types
      <4>3. countSlack'[q] = countSlack[q] + 1 /\ count'[q] = count[q] /\ call'[q] = call[q]
        BY <1>2, <2>5, <3>1
      <4> QED
        BY <1>3, <2>3, <2>4, <4>1, <4>2, <4>3 DEF CountSound
    <3>2. CASE call[q] # At("fill", u)
      <4>1. call[q].op = "fill" => call[q].user \in Users \ {u}
        BY <1>1, <3>2 DEF Types, CallType, CallOps, At
      <4>2. countSlack'[q] = countSlack[q] /\ count'[q] = count[q] /\ call'[q] = call[q]
        BY <1>2, <2>5, <3>2
      <4>3. CASE call[q].op = "fill"
        <5> PICK w \in Users \ {u} : w = call[q].user
          BY <4>1, <4>3
        <5> QED
          BY <2>6, <4>2, StillSound
      <4>4. CASE call[q].op # "fill"
        BY <4>2, <4>4 DEF CountSound
      <4> QED
        BY <4>3, <4>4
    <3> QED
      BY <3>1, <3>2
  <2>9. ASSUME NEW w \in Users PROVE Finite(w)' /\ KeySound(w)'
    <3>1. CASE w = u
      BY <2>7, <3>1
    <3>2. CASE w # u
      BY <1>2, <2>6, <3>2, StillSound
    <3> QED
      BY <3>1, <3>2
  <2> QED
    BY <2>8, <2>9 DEF Numbers
<1> QED
  BY <1>4, <1>5

(* A bump of a user arrives, or never will.                                *)
LEMMA BumpNumbers ==
  ASSUME Inv, job.op = "incr", job'.op # "incr", UNCHANGED <<row, call, count, countSlack>>,
         NEW u \in Users, u = job.to,
         \A w \in Users \ {u} : counter'[w] = counter[w] /\ slack'[w] = slack[w],
         counter[u] = Missing => counter'[u] = Missing,
         counter[u] # Missing =>
            \/ counter'[u] = counter[u] + 1 /\ slack'[u] = slack[u]
            \/ counter'[u] = counter[u] /\ slack'[u] = slack[u] + 1
  PROVE  Numbers'
<1>1. Types /\ \A w \in Users : Finite(w)
  BY DEF Inv
<1>2. \A w \in Users : Reading(w)' = Reading(w) /\ Going(w)' = Going(w)
                       /\ UnreadRows(w)' = UnreadRows(w) /\ Unread(w)' = Unread(w)
  BY DEF Reading, Going, UnreadRows, Unread
<1>3. Coming(u) = 1 /\ Coming(u)' = 0 /\ \A w \in Users \ {u} : Coming(w) = 0 /\ Coming(w)' = 0
  BY DEF Coming
<1>4. ASSUME NEW w \in Users \ {u} PROVE Still(w)
  BY <1>1, <1>2, <1>3 DEF Still, Finite
<1>5. Unread(u) \in Nat /\ Going(u) \in Nat /\ slack[u] \in Nat
      /\ (counter[u] # Missing => counter[u] \in Nat)
  BY <1>1, NumberTypes DEF Types
<1>6. Finite(u)' /\ KeySound(u)'
  <2>1. Finite(u)'
    BY <1>1, <1>2 DEF Finite
  <2>2. CASE counter[u] = Missing
    BY <2>1, <2>2 DEF KeySound
  <2>3. CASE counter[u] # Missing
    <3>1. Settling(u) <= slack[u] /\ -Settling(u) <= slack[u] /\ Settling(u) = counter[u] + 1 - Going(u) - Unread(u)
      BY <1>3, <2>3 DEF Inv, KeySound, Settling
    <3>2. Settling(u)' = counter'[u] + 0 - Going(u) - Unread(u)
      BY <1>2, <1>3 DEF Settling
    <3>3. Settling(u)' <= slack'[u] /\ -Settling(u)' <= slack'[u]
      BY <1>5, <2>3, <3>1, <3>2
    <3> QED
      BY <2>1, <3>3 DEF KeySound
  <2> QED
    BY <2>2, <2>3
<1>7. ASSUME NEW w \in Users PROVE Finite(w)' /\ KeySound(w)'
  <2>1. CASE w = u
    BY <1>6, <2>1
  <2>2. CASE w # u
    BY <1>4, <2>2, StillSound
  <2> QED
    BY <2>1, <2>2
<1>8. ASSUME NEW q \in Requests PROVE CountSound(q)'
  <2>1. CASE call[q].op # "fill"
    BY <2>1 DEF CountSound
  <2>2. CASE call[q].op = "fill" /\ call[q].user = u
    <3>1. count[q] \in Nat /\ countSlack[q] \in Nat /\ CountSound(q)
      BY <1>1 DEF Types, Inv
    <3> QED
      BY <1>2, <1>3, <1>5, <2>2, <3>1 DEF CountSound
  <2>3. CASE call[q].op = "fill" /\ call[q].user # u
    <3> PICK w \in Users \ {u} : w = call[q].user
      BY <1>1, <2>3 DEF Types, CallOps
    <3> QED
      BY <1>4, StillSound
  <2> QED
    BY <2>1, <2>2, <2>3
<1> QED
  BY <1>7, <1>8 DEF Numbers

LEMMA WorkerNumbers ==
  ASSUME Inv, \/ TopicGrows
              \/ WorkerStep \/ HandlerThrows \/ CommitOffset \/ RestartWorker
  PROVE  Numbers'
<1>1. Types /\ \A w \in Users : Finite(w)
  BY DEF Inv
<1>2. ASSUME job.op # "incr", job'.op # "incr", UNCHANGED <<row, call, count, countSlack, counter, slack>>
      PROVE  Numbers'
  <2>1. \A w \in Users : Still(w)
    BY <1>1, <1>2 DEF Still, UnreadRows, Unread, Coming, Going, Reading, Finite
  <2> QED
    BY <1>2, <2>1, QuietNumbers
<1>3. ASSUME job' = job, UNCHANGED <<row, call, count, countSlack, counter, slack>> PROVE Numbers'
  <2>1. \A w \in Users : Still(w)
    BY <1>1, <1>3 DEF Still, UnreadRows, Unread, Coming, Going, Reading, Finite
  <2> QED
    BY <1>3, <2>1, QuietNumbers
<1> USE DEF keyVars, requestVars, groupVars
<1>4. CASE TopicGrows \/ CommitOffset
  BY <1>3, <1>4 DEF TopicGrows, EventArrives, EventRepeats, CommitOffset
<1>5. CASE StartEvent
  <2>1. \E d, to : job' = [event |-> d, todo |-> to, op |-> "save", to |-> None]
    BY <1>5 DEF StartEvent
  <2>2. job'.op # "incr" /\ job.op # "incr"
    BY <1>5, <2>1 DEF StartEvent, NoJob
  <2> QED
    BY <1>2, <1>5, <2>2 DEF StartEvent
<1>6. CASE Push
  <2>1. job'.op # "incr" /\ job.op # "incr"
    BY <1>1, <1>6 DEF Push, Types, JobType
  <2> QED
    BY <1>2, <1>6, <2>1 DEF Push
<1>7. CASE FinishEvent
  BY <1>2, <1>7 DEF FinishEvent, NoJob
<1>8. CASE Increment
  <2>1. /\ job.op = "incr" /\ job.to \in Users
        /\ counter' = [counter EXCEPT ![job.to] = Incremented(job.to)]
        /\ job' = [job EXCEPT !.op = "push"]
        /\ UNCHANGED <<row, call, count, countSlack, slack>>
    BY <1>1, <1>8 DEF Increment, Types
  <2> PICK u \in Users : u = job.to
    BY <2>1
  <2>2. job'.op # "incr"
    BY <1>1, <2>1 DEF Types, JobType
  <2>3. /\ \A w \in Users \ {u} : counter'[w] = counter[w]
        /\ counter[u] = Missing => counter'[u] = Missing
        /\ counter[u] # Missing => counter'[u] = counter[u] + 1
    BY <1>1, <2>1 DEF Types, Incremented
  <2> QED
    BY <2>1, <2>2, <2>3, BumpNumbers
<1>9. CASE HandlerThrows \/ RestartWorker
  <2>1. job' = NoJob /\ job'.op # "incr" /\ LoseBump /\ UNCHANGED <<row, call, count, countSlack, counter>>
    BY <1>9 DEF HandlerThrows, RestartWorker, NoJob
  <2>2. CASE job.op # "incr"
    BY <1>2, <2>1, <2>2 DEF LoseBump
  <2>3. CASE job.op = "incr"
    <3> PICK u \in Users : u = job.to
      BY <1>1, <2>3 DEF Types
    <3>1. /\ \A w \in Users \ {u} : slack'[w] = slack[w]
          /\ counter[u] # Missing => slack'[u] = slack[u] + 1
      BY <1>1, <2>1, <2>3, Missings DEF LoseBump
    <3> QED
      BY <2>1, <2>3, <3>1, BumpNumbers
  <2> QED
    BY <2>2, <2>3
<1>10. CASE \E u \in Users : Save(u)
  BY <1>10, SaveNumbers
<1> QED
  BY <1>4, <1>5, <1>6, <1>7, <1>8, <1>9, <1>10 DEF WorkerStep

(* A request moves between calls that are no decrements.                   *)
LEMMA CallFrame ==
  ASSUME Inv, NEW p \in Requests, NEW c \in CallType, Go(p, c), UNCHANGED <<row, job>>, NEW u \in Users,
         c = At("decr", u) <=> call[p] = At("decr", u)
  PROVE  Still(u)
<1>1. UnreadRows(u)' = UnreadRows(u) /\ Unread(u)' = Unread(u) /\ Coming(u)' = Coming(u)
  BY DEF UnreadRows, Unread, Coming
<1>2. IsFiniteSet(Reading(u)') /\ Going(u)' = Going(u)
  BY ReadingStep
<1> QED
  BY <1>1, <1>2 DEF Still

(* What the other requests have in hand, when a step moves one of them.    *)
LEMMA OthersCount ==
  ASSUME Inv, NEW p \in Requests, NEW c \in CallType, Go(p, c), c.op # "fill",
         \A q \in Requests \ {p} : count'[q] = count[q],
         NEW u \in Users,
         \A w \in Users \ {u} : Still(w),
         \A q \in Requests \ {p} : call[q] # At("fill", u) => countSlack'[q] = countSlack[q],
         \A q \in Requests \ {p} : call[q] = At("fill", u) => CountSound(q)'
  PROVE  \A q \in Requests : CountSound(q)'
<1> SUFFICES ASSUME NEW q \in Requests PROVE CountSound(q)'
  OBVIOUS
<1>1. Types
  BY DEF Inv
<1>2. call'[p] = c /\ \A r \in Requests \ {p} : call'[r] = call[r]
  BY <1>1, GoFacts
<1>3. CASE q = p
  BY <1>2, <1>3 DEF CountSound
<1>4. CASE q # p /\ call[q] = At("fill", u)
  BY <1>4
<1>5. CASE q # p /\ call[q] # At("fill", u)
  <2>1. CASE call[q].op # "fill"
    BY <1>2, <1>5, <2>1 DEF CountSound
  <2>2. CASE call[q].op = "fill"
    <3>1. call[q].user \in Users /\ call[q].user # u
      BY <1>1, <1>5, <2>2 DEF Types, CallType, CallOps, At
    <3> PICK w \in Users \ {u} : w = call[q].user
      BY <3>1
    <3>2. call'[q] = call[q] /\ count'[q] = count[q] /\ countSlack'[q] = countSlack[q] /\ Still(w)
      BY <1>2, <1>5
    <3> QED
      BY <3>2, StillSound
  <2> QED
    BY <2>1, <2>2
<1> QED
  BY <1>3, <1>4, <1>5

LEMMA AtFacts ==
  /\ \A o \in CallOps, u \in Users : At(o, u) \in CallType /\ At(o, u).op = o /\ At(o, u).user = u
  /\ Idle \in CallType /\ Idle.op = "idle"
BY DEF At, Idle, CallType, CallOps

LEMMA QuietCalls ==
  ASSUME Inv, NEW p \in Requests,
         \/ \E u \in Readers : GetUnreadCount(p, u)
         \/ Reset(p)
         \/ RequestFails(p) /\ call[p].op # "decr"
  PROVE  Numbers'
<1>1. Types
  BY DEF Inv
<1>2. UNCHANGED <<row, job>>
  BY DEF GetUnreadCount, Reset, RequestFails, Aside, groupVars
<1>3. PICK c \in CallType : Go(p, c) /\ c.op \notin {"fill", "decr"}
  <2>1. CASE \E u \in Readers : GetUnreadCount(p, u)
    <3> PICK u \in Users : GetUnreadCount(p, u)
      BY <2>1, NotificationsAssumption
    <3>1. Go(p, At("count", u)) /\ "count" \in CallOps
      BY DEF GetUnreadCount, CallOps
    <3> QED
      BY <3>1, AtFacts
  <2>2. CASE Reset(p) \/ RequestFails(p)
    BY <2>2, AtFacts DEF Reset, RequestFails
  <2> QED
    BY <2>1, <2>2
<1>4. call[p].op # "decr"
  <2>1. \A u \in Readers : GetUnreadCount(p, u) => call[p].op = "idle"
    BY AtFacts DEF GetUnreadCount
  <2>2. Reset(p) => call[p].op = "reset"
    BY DEF Reset
  <2> QED
    BY <2>1, <2>2
<1>5. \A u \in Users : At("decr", u).op = "decr"
  BY DEF At
<1>6. \A u \in Users : Still(u)
  BY <1>2, <1>3, <1>4, <1>5, CallFrame
<1>7. \A u \in Users : counter'[u] = Missing \/ (counter'[u] = counter[u] /\ slack'[u] = slack[u])
  <2>1. CASE Reset(p)
    BY <1>1, <2>1 DEF Reset, DropKey, Types
  <2>2. CASE ~Reset(p)
    BY <2>2 DEF GetUnreadCount, RequestFails, keyVars
  <2> QED
    BY <2>1, <2>2
<1>8. ASSUME NEW q \in Requests, call'[q].op = "fill"
      PROVE  call'[q] = call[q] /\ count'[q] = count[q] /\ countSlack'[q] = countSlack[q]
  <2>1. q # p /\ call'[q] = call[q]
    BY <1>1, <1>3, <1>8, GoFacts
  <2>2. NoCount(p) \/ UNCHANGED <<count, countSlack>>
    BY DEF GetUnreadCount, Reset, RequestFails
  <2> QED
    BY <1>1, <2>1, <2>2 DEF NoCount, Types
<1> QED
  BY <1>6, <1>7, <1>8, QuietNumbers

LEMMA CountUnreadNumbers == ASSUME Inv, NEW p \in Requests, CountUnread(p) PROVE Numbers'
<1>1. Types
  BY DEF Inv
<1> PICK u \in Users : u = call[p].user
  BY <1>1 DEF CountUnread, Types, CallOps
<1>2. /\ Go(p, At("fill", u)) /\ At("fill", u) \in CallType /\ At("fill", u).op = "fill" /\ At("fill", u).user = u
      /\ UNCHANGED <<row, job, counter, slack>> /\ call[p].op = "count"
      /\ count' = [count EXCEPT ![p] = Unread(u)]
      /\ countSlack' = [countSlack EXCEPT ![p] = PendingBumps(u)]
  BY AtFacts DEF CountUnread, CallOps, Aside, groupVars, keyVars
<1>3. \A w \in Users : Still(w)
  <2>1. \A w \in Users : At("decr", w).op = "decr"
    BY DEF At
  <2> QED
    BY <1>2, <2>1, CallFrame
<1>4. /\ call'[p] = At("fill", u) /\ \A q \in Requests \ {p} : call'[q] = call[q]
      /\ count'[p] = Unread(u) /\ countSlack'[p] = PendingBumps(u)
      /\ \A q \in Requests \ {p} : count'[q] = count[q] /\ countSlack'[q] = countSlack[q]
  BY <1>1, <1>2, GoFacts DEF Types
<1>5. CountSound(p)'
  <2>1. /\ Unread(u) \in Nat /\ Going(u) \in Nat /\ Coming(u) \in {0, 1}
        /\ PendingBumps(u) = Coming(u) + Going(u)
    BY NumberTypes DEF Inv
  <2>2. Unread(u)' = Unread(u) /\ Going(u)' = Going(u) /\ Coming(u)' = Coming(u)
    BY <1>3 DEF Still
  <2>3. /\ count'[p] - Unread(u)' + Coming(u)' <= countSlack'[p]
        /\ Going(u)' - (count'[p] - Unread(u)') <= countSlack'[p]
    BY <1>4, <2>1, <2>2
  <2>4. call'[p].user = u
    BY <1>2, <1>4
  <2> QED
    BY <2>3, <2>4 DEF CountSound
<1>6. ASSUME NEW q \in Requests PROVE CountSound(q)'
  <2>1. CASE q = p
    BY <1>5, <2>1
  <2>2. CASE q # p /\ call[q].op = "fill"
    <3> PICK w \in Users : w = call[q].user
      BY <1>1, <2>2 DEF Types, CallOps
    <3> QED
      BY <1>3, <1>4, <2>2, StillSound
  <2>3. CASE q # p /\ call[q].op # "fill"
    BY <1>4, <2>3 DEF CountSound
  <2> QED
    BY <2>1, <2>2, <2>3
<1>7. \A w \in Users : Finite(w)' /\ KeySound(w)'
  BY <1>2, <1>3, StillSound
<1> QED
  BY <1>6, <1>7 DEF Numbers

LEMMA BackfillNumbers == ASSUME Inv, NEW p \in Requests, Backfill(p) PROVE Numbers'
<1>1. Types
  BY DEF Inv
<1> PICK u \in Users : u = call[p].user
  BY <1>1 DEF Backfill, Types, CallOps
<1>2. /\ Go(p, Idle) /\ Idle \in CallType /\ Idle.op = "idle" /\ NoCount(p)
      /\ UNCHANGED <<row, job>> /\ call[p].op = "fill"
      /\ IF counter[u] = Missing
         THEN /\ counter' = [counter EXCEPT ![u] = count[p]]
              /\ slack' = [slack EXCEPT ![u] = countSlack[p]]
         ELSE UNCHANGED <<counter, slack>>
  BY AtFacts DEF Backfill, Aside, groupVars, keyVars
<1>3. \A w \in Users : Still(w)
  <2>1. \A w \in Users : At("decr", w).op = "decr"
    BY DEF At
  <2> QED
    BY <1>2, <2>1, CallFrame
<1>4. \A q \in Requests \ {p} : count'[q] = count[q] /\ countSlack'[q] = countSlack[q]
  BY <1>1, <1>2 DEF NoCount, Types
<1>5. \A q \in Requests : CountSound(q)'
  <2>1. \A q \in Requests \ {p} : call'[q] = call[q]
    BY <1>1, <1>2, GoFacts
  <2>2. ASSUME NEW q \in Requests \ {p}, call[q] = At("fill", u) PROVE CountSound(q)'
    <3>1. call[q].user = u
      BY <2>2 DEF At
    <3> QED
      BY <1>3, <1>4, <2>1, <3>1, StillSound
  <2> QED
    BY <1>2, <1>3, <1>4, <2>2, OthersCount
<1>6. ASSUME NEW w \in Users PROVE Finite(w)' /\ KeySound(w)'
  <2>1. CASE w = u /\ counter[u] = Missing
    <3>1. /\ Unread(u) \in Nat /\ Going(u) \in Nat /\ Coming(u) \in {0, 1}
          /\ count[p] \in Nat /\ countSlack[p] \in Nat
          /\ count[p] - Unread(u) + Coming(u) <= countSlack[p]
          /\ Going(u) - (count[p] - Unread(u)) <= countSlack[p]
      BY <1>1, <1>2, NumberTypes DEF Inv, Types, CountSound
    <3>2. counter'[u] = count[p] /\ slack'[u] = countSlack[p]
      BY <1>1, <1>2, <2>1 DEF Types
    <3>3. Settling(u)' = count[p] + Coming(u) - Going(u) - Unread(u)
      BY <1>3, <3>2 DEF Settling, Still
    <3>4. Settling(u)' <= slack'[u] /\ -Settling(u)' <= slack'[u]
      BY <3>1, <3>2, <3>3
    <3> QED
      BY <1>3, <2>1, <3>4, StillSound DEF KeySound
  <2>2. CASE ~(w = u /\ counter[u] = Missing)
    <3>1. counter'[w] = counter[w] /\ slack'[w] = slack[w]
      BY <1>1, <1>2, <2>2 DEF Types
    <3> QED
      BY <1>3, <3>1, StillSound
  <2> QED
    BY <2>1, <2>2
<1> QED
  BY <1>5, <1>6 DEF Numbers

(* A decrement arrives, or never will.                                     *)
LEMMA DecrementNumbers ==
  ASSUME Inv, NEW p \in Requests, Decrement(p) \/ (RequestFails(p) /\ call[p].op = "decr")
  PROVE  Numbers'
<1>1. Types
  BY DEF Inv
<1> PICK u \in Users : u = call[p].user
  BY <1>1 DEF Decrement, Types, CallOps
<1>2. call[p] = At("decr", u)
  BY <1>1 DEF Types, CallType, At, Decrement
<1>3. /\ Go(p, Idle) /\ Idle \in CallType /\ Idle.op = "idle" /\ UNCHANGED <<row, job>>
  BY AtFacts DEF Decrement, RequestFails, Aside, groupVars
<1>4. /\ \A w \in Users \ {u} : counter'[w] = counter[w] /\ slack'[w] = slack[w]
      /\ counter[u] = Missing => counter'[u] = Missing
      /\ counter[u] # Missing =>
            \/ counter'[u] = counter[u] - 1 /\ slack'[u] = slack[u]
            \/ counter'[u] = counter[u] /\ slack'[u] = slack[u] + 1
  <2>1. CASE Decrement(p)
    <3>1. /\ counter' = [counter EXCEPT ![u] = Decremented(u)]
          /\ slack' = [slack EXCEPT ![u] = IF counter[u] = 0 THEN slack[u] + 1 ELSE slack[u]]
      BY <2>1 DEF Decrement
    <3>2. /\ counter'[u] = Decremented(u)
          /\ slack'[u] = IF counter[u] = 0 THEN slack[u] + 1 ELSE slack[u]
          /\ \A w \in Users \ {u} : counter'[w] = counter[w] /\ slack'[w] = slack[w]
      BY <1>1, <3>1 DEF Types
    <3> QED
      BY <3>2 DEF Decremented
  <2>2. CASE RequestFails(p) /\ call[p].op = "decr"
    <3>1. Lost(u, 1) /\ counter' = counter
      BY <2>2 DEF RequestFails
    <3> QED
      BY <1>1, <3>1, Missings
  <2> QED
    BY <2>1, <2>2
<1>5. \A q \in Requests \ {p} : count'[q] = count[q] /\ countSlack'[q] = countSlack[q]
  <2>1. NoCount(p) \/ UNCHANGED <<count, countSlack>>
    BY DEF Decrement, RequestFails
  <2> QED
    BY <1>1, <2>1 DEF NoCount, Types
<1>6. \A w \in Users : Idle # At("decr", w)
  BY DEF At, Idle
<1>7. /\ IsFiniteSet(Reading(u)') /\ Going(u)' = Going(u) - 1
      /\ UnreadRows(u)' = UnreadRows(u) /\ Unread(u)' = Unread(u) /\ Coming(u)' = Coming(u)
  BY <1>2, <1>3, <1>6, ReadingStep DEF UnreadRows, Unread, Coming
<1>8. ASSUME NEW w \in Users \ {u} PROVE Still(w)
  <2>1. call[p] # At("decr", w)
    BY <1>2 DEF At
  <2> QED
    BY <1>3, <1>6, <2>1, CallFrame
<1>9. /\ Unread(u) \in Nat /\ Going(u) \in Nat /\ Coming(u) \in {0, 1} /\ slack[u] \in Nat
      /\ Going(u)' \in Int
      /\ counter[u] # Missing => counter[u] \in Nat
  BY <1>1, <1>7, NumberTypes DEF Inv, Types
<1>10. Finite(u)' /\ KeySound(u)'
  <2>1. Finite(u)'
    BY <1>7 DEF Inv, Finite
  <2>2. CASE counter[u] = Missing
    BY <1>4, <2>1, <2>2 DEF KeySound
  <2>3. CASE counter[u] # Missing
    <3>1. Settling(u) <= slack[u] /\ -Settling(u) <= slack[u]
          /\ Settling(u) = counter[u] + Coming(u) - Going(u) - Unread(u)
      BY <2>3 DEF Inv, KeySound, Settling
    <3>2. Settling(u)' = counter'[u] + Coming(u) - (Going(u) - 1) - Unread(u)
      BY <1>7 DEF Settling
    <3>3. Settling(u)' <= slack'[u] /\ -Settling(u)' <= slack'[u]
      BY <1>4, <1>9, <2>3, <3>1, <3>2
    <3> QED
      BY <2>1, <3>3 DEF KeySound
  <2> QED
    BY <2>2, <2>3
<1>11. ASSUME NEW w \in Users PROVE Finite(w)' /\ KeySound(w)'
  <2>1. CASE w = u
    BY <1>10, <2>1
  <2>2. CASE w # u
    BY <1>4, <1>8, <2>2, StillSound
  <2> QED
    BY <2>1, <2>2
<1>12. \A q \in Requests : CountSound(q)'
  <2>1. ASSUME NEW q \in Requests \ {p}, call[q] = At("fill", u) PROVE CountSound(q)'
    <3>1. call'[q] = call[q] /\ call[q].user = u /\ call[q].op = "fill"
      BY <1>1, <1>3, <2>1, GoFacts DEF At
    <3>2. /\ count[q] \in Nat /\ countSlack[q] \in Nat
          /\ count[q] - Unread(u) + Coming(u) <= countSlack[q]
          /\ Going(u) - (count[q] - Unread(u)) <= countSlack[q]
      BY <1>1, <3>1 DEF Types, Inv, CountSound
    <3>3. /\ count'[q] - Unread(u)' + Coming(u)' <= countSlack'[q]
          /\ Going(u)' - (count'[q] - Unread(u)') <= countSlack'[q]
      BY <1>5, <1>7, <1>9, <3>2
    <3> QED
      BY <3>1, <3>3 DEF CountSound
  <2> QED
    BY <1>3, <1>5, <1>8, <2>1, OthersCount
<1> QED
  BY <1>11, <1>12 DEF Numbers

LEMMA MarkOneNumbers ==
  ASSUME Inv, NEW p \in Requests, NEW u \in Users, NEW e \in Events, MarkOneRead(p, u, e)
  PROVE  Numbers'
<1>1. Types
  BY DEF Inv
<1> PICK c : c = At("decr", u)
  OBVIOUS
<1>2. /\ Go(p, c) /\ c \in CallType /\ c.op = "decr" /\ c.user = u
      /\ job' = job /\ UNCHANGED <<counter, slack, count>> /\ Missed(u, 1)
      /\ row[e][u] = "unread" /\ row' = [row EXCEPT ![e] = Marked(row[e], u, "read")] /\ call[p].op = "idle"
  BY AtFacts DEF MarkOneRead, Aside, groupVars, keyVars, CallOps
<1>3. \A q \in Requests : countSlack'[q] = IF call[q] = At("fill", u) THEN countSlack[q] + 1 ELSE countSlack[q]
  BY <1>1, <1>2, Missings
<1>4. /\ IsFiniteSet(UnreadRows(u)') /\ Unread(u)' = Unread(u) - 1
      /\ \A w \in Users \ {u} : UnreadRows(w)' = UnreadRows(w) /\ Unread(w)' = Unread(w)
  BY <1>2, RowStep
<1>5. /\ \A w \in Users : Coming(w)' = Coming(w) /\ IsFiniteSet(Reading(w)')
      /\ Going(u)' = Going(u) + 1
      /\ \A w \in Users \ {u} : Going(w)' = Going(w)
  <2>1. \A w \in Users : At("decr", w).op = "decr" /\ At("decr", w).user = w
    BY DEF At
  <2>2. \A w \in Users : call[p] # At("decr", w)
    BY <1>2, <2>1
  <2>3. \A w \in Users \ {u} : c # At("decr", w)
    BY <1>2, <2>1
  <2> QED
    BY <1>2, <2>2, <2>3, ReadingStep DEF Coming
<1>6. ASSUME NEW w \in Users \ {u} PROVE Still(w)
  BY <1>4, <1>5 DEF Still
<1>7. Unread(u) \in Nat /\ Going(u) \in Nat /\ Coming(u) \in {0, 1} /\ slack[u] \in Nat
      /\ (counter[u] # Missing => counter[u] \in Nat)
  BY <1>1, NumberTypes DEF Inv, Types
<1>8. Finite(u)' /\ KeySound(u)'
  <2>1. Settling(u)' = Settling(u) \/ counter[u] = Missing
    BY <1>2, <1>4, <1>5, <1>7 DEF Settling
  <2> QED
    BY <1>2, <1>4, <1>5, <2>1 DEF Finite, KeySound, Inv
<1>9. ASSUME NEW w \in Users PROVE Finite(w)' /\ KeySound(w)'
  <2>1. CASE w = u
    BY <1>8, <2>1
  <2>2. CASE w # u
    BY <1>2, <1>6, <2>2, StillSound
  <2> QED
    BY <2>1, <2>2
<1>10. \A q \in Requests : CountSound(q)'
  <2>1. ASSUME NEW q \in Requests \ {p}, call[q] = At("fill", u) PROVE CountSound(q)'
    <3>1. call'[q] = call[q] /\ call[q].user = u /\ call[q].op = "fill"
      BY <1>1, <1>2, <2>1, GoFacts DEF At
    <3>2. /\ count[q] \in Nat /\ countSlack[q] \in Nat
          /\ count[q] - Unread(u) + Coming(u) <= countSlack[q]
          /\ Going(u) - (count[q] - Unread(u)) <= countSlack[q]
      BY <1>1, <3>1 DEF Types, Inv, CountSound
    <3>3. countSlack'[q] = countSlack[q] + 1 /\ count'[q] = count[q]
      BY <1>2, <1>3, <2>1
    <3>4. /\ count'[q] - Unread(u)' + Coming(u)' <= countSlack'[q]
          /\ Going(u)' - (count'[q] - Unread(u)') <= countSlack'[q]
      BY <1>4, <1>5, <1>7, <3>2, <3>3
    <3> QED
      BY <3>1, <3>4 DEF CountSound
  <2>2. c.op # "fill" /\ (\A q \in Requests \ {p} : count'[q] = count[q])
        /\ \A q \in Requests \ {p} : call[q] # At("fill", u) => countSlack'[q] = countSlack[q]
    BY <1>2, <1>3
  <2> QED
    BY <1>2, <1>6, <2>1, <2>2, OthersCount
<1> QED
  BY <1>9, <1>10 DEF Numbers

LEMMA MarkAllNumbers ==
  ASSUME Inv, NEW p \in Requests, NEW u \in Users, MarkAllRead(p, u)
  PROVE  Numbers'
<1>1. Types /\ Unread(u) \in Nat /\ Going(u) \in Nat /\ Coming(u) \in {0, 1}
  BY NumberTypes DEF Inv
<1> PICK c : c = At("reset", u)
  OBVIOUS
<1>2. /\ Go(p, c) /\ c \in CallType /\ c.op = "reset"
      /\ job' = job /\ UNCHANGED <<counter, count>> /\ call[p].op = "idle"
      /\ Missed(u, Unread(u)) /\ Lost(u, Unread(u))
      /\ row' = [e \in Events |-> IF row[e][u] = "unread" THEN Marked(row[e], u, "read") ELSE row[e]]
  BY AtFacts DEF MarkAllRead, Aside, groupVars, CallOps
<1>3. /\ \A q \in Requests : countSlack'[q] = IF call[q] = At("fill", u) THEN countSlack[q] + Unread(u)
                                              ELSE countSlack[q]
      /\ \A w \in Users \ {u} : slack'[w] = slack[w]
      /\ counter[u] # Missing => slack'[u] = slack[u] + Unread(u)
  BY <1>1, <1>2, Missings
<1>4. /\ UnreadRows(u)' = {} /\ Unread(u)' = 0
      /\ \A w \in Users \ {u} : UnreadRows(w)' = UnreadRows(w) /\ Unread(w)' = Unread(w)
  <2>1. \A e \in Events : row'[e][u] # "unread" /\ \A w \in Users \ {u} : row'[e][w] = row[e][w]
    BY <1>1, <1>2, AllReadFacts
  <2>2. UnreadRows(u)' = {} /\ \A w \in Users \ {u} : UnreadRows(w)' = UnreadRows(w)
    BY <2>1 DEF UnreadRows
  <2>3. \A w : Unread(w)' = Cardinality(UnreadRows(w)') /\ Unread(w) = Cardinality(UnreadRows(w))
    BY DEF Unread, UnreadRows
  <2> QED
    BY <2>2, <2>3, FS_EmptySet
<1>5. \A w \in Users : Coming(w)' = Coming(w) /\ IsFiniteSet(Reading(w)') /\ Going(w)' = Going(w)
  <2>1. \A w \in Users : At("decr", w).op = "decr"
    BY DEF At
  <2>2. \A w \in Users : call[p] # At("decr", w) /\ c # At("decr", w)
    BY <1>2, <2>1
  <2> QED
    BY <1>2, <2>2, ReadingStep DEF Coming
<1>6. ASSUME NEW w \in Users \ {u} PROVE Still(w)
  BY <1>4, <1>5 DEF Still
<1>7. Finite(u)' /\ KeySound(u)'
  <2>1. Finite(u)'
    BY <1>4, <1>5, FS_EmptySet DEF Finite
  <2>2. CASE counter[u] # Missing
    <3>1. /\ Settling(u) <= slack[u] /\ -Settling(u) <= slack[u] /\ slack[u] \in Nat /\ counter[u] \in Nat
          /\ Settling(u) = counter[u] + Coming(u) - Going(u) - Unread(u)
      BY <1>1, <2>2 DEF Inv, KeySound, Settling, Types
    <3>2. Settling(u)' = counter[u] + Coming(u) - Going(u) - 0
      BY <1>2, <1>4, <1>5 DEF Settling
    <3>3. Settling(u)' <= slack'[u] /\ -Settling(u)' <= slack'[u]
      BY <1>1, <1>3, <2>2, <3>1, <3>2
    <3> QED
      BY <2>1, <3>3 DEF KeySound
  <2> QED
    BY <1>2, <2>1, <2>2 DEF KeySound
<1>8. ASSUME NEW w \in Users PROVE Finite(w)' /\ KeySound(w)'
  <2>1. CASE w = u
    BY <1>7, <2>1
  <2>2. CASE w # u
    BY <1>2, <1>3, <1>6, <2>2, StillSound
  <2> QED
    BY <2>1, <2>2
<1>9. \A q \in Requests : CountSound(q)'
  <2>1. ASSUME NEW q \in Requests \ {p}, call[q] = At("fill", u) PROVE CountSound(q)'
    <3>1. call'[q] = call[q] /\ call[q].user = u /\ call[q].op = "fill"
      BY <1>1, <1>2, <2>1, GoFacts DEF At
    <3>2. /\ count[q] \in Nat /\ countSlack[q] \in Nat
          /\ count[q] - Unread(u) + Coming(u) <= countSlack[q]
          /\ Going(u) - (count[q] - Unread(u)) <= countSlack[q]
      BY <1>1, <3>1 DEF Types, Inv, CountSound
    <3>3. countSlack'[q] = countSlack[q] + Unread(u) /\ count'[q] = count[q]
      BY <1>2, <1>3, <2>1
    <3>4. /\ count'[q] - Unread(u)' + Coming(u)' <= countSlack'[q]
          /\ Going(u)' - (count'[q] - Unread(u)') <= countSlack'[q]
      BY <1>1, <1>4, <1>5, <3>2, <3>3
    <3> QED
      BY <3>1, <3>4 DEF CountSound
  <2>2. c.op # "fill" /\ (\A q \in Requests \ {p} : count'[q] = count[q])
        /\ \A q \in Requests \ {p} : call[q] # At("fill", u) => countSlack'[q] = countSlack[q]
    BY <1>2, <1>3
  <2> QED
    BY <1>2, <1>6, <2>1, <2>2, OthersCount
<1> QED
  BY <1>8, <1>9 DEF Numbers

(* An expired key, and a step that changes nothing.                        *)
LEMMA QuietSteps ==
  ASSUME Inv, (\E u \in Users : KeyExpires(u)) \/ UNCHANGED vars
  PROVE  Types' /\ Numbers'
<1>1. Types /\ \A w \in Users : Finite(w)
  BY DEF Inv
<1>2. UNCHANGED <<log, actor, row, job, handled, committed, call, count, countSlack, faults, bumps>>
  <2>1. CASE UNCHANGED vars
    BY <2>1 DEF vars, topicVars, groupVars, requestVars
  <2>2. ASSUME NEW u \in Users, KeyExpires(u)
        PROVE  UNCHANGED <<log, actor, row, job, handled, committed, call, count, countSlack, faults, bumps>>
    BY <2>2 DEF KeyExpires, NoFault, Aside, topicVars, groupVars, requestVars
  <2> QED
    BY <2>1, <2>2
<1>3. /\ counter' \in [Users -> Nat \cup {Missing}] /\ slack' \in [Users -> Nat]
      /\ \A u \in Users : counter'[u] = Missing \/ (counter'[u] = counter[u] /\ slack'[u] = slack[u])
  <2>1. CASE UNCHANGED vars
    BY <1>1, <2>1 DEF Types, vars, keyVars
  <2>2. ASSUME NEW u \in Users, KeyExpires(u)
        PROVE  /\ counter' \in [Users -> Nat \cup {Missing}] /\ slack' \in [Users -> Nat]
               /\ \A w \in Users : counter'[w] = Missing \/ (counter'[w] = counter[w] /\ slack'[w] = slack[w])
    BY <1>1, <2>2 DEF KeyExpires, DropKey, Types
  <2> QED
    BY <2>1, <2>2
<1>4. \A w \in Users : Still(w)
  BY <1>1, <1>2 DEF Still, UnreadRows, Unread, Coming, Going, Reading, Finite
<1>5. Types'
  BY <1>1, <1>2, <1>3 DEF Types
<1> QED
  BY <1>2, <1>3, <1>4, <1>5, QuietNumbers

LEMMA StepInv == Inv /\ [Next]_vars => Inv'
<1> SUFFICES ASSUME Inv, [Next]_vars PROVE Inv'
  OBVIOUS
<1>1. BumpSound' /\ CountedOnce'
  BY BumpsStep
<1>2. \A u \in Users : Unread(u) \in Nat /\ PendingBumps(u) \in Nat
  BY NumberTypes DEF Inv
<1>3. CASE (\E u \in Users : KeyExpires(u)) \/ UNCHANGED vars
  BY <1>1, <1>3, QuietSteps DEF Inv, Numbers
<1>4. CASE TopicGrows \/ WorkerStep \/ HandlerThrows \/ CommitOffset \/ RestartWorker
  <2>1. Types'
    BY <1>4, WorkerTypes DEF Inv
  <2>2. Numbers'
    BY <1>4, WorkerNumbers
  <2> QED
    BY <1>1, <2>1, <2>2 DEF Inv, Numbers
<1>5. ASSUME NEW p \in Requests, UserStep(p) PROVE Inv'
  <2>1. Types'
    BY <1>2, <1>5, UserTypes DEF Inv
  <2>2. Numbers'
    <3>1. CASE \E u \in Readers : MarkAllRead(p, u)
      <4> PICK u \in Users : MarkAllRead(p, u)
        BY <3>1, NotificationsAssumption
      <4> QED
        BY MarkAllNumbers
    <3>2. CASE \E u \in Readers : \E e \in Events : MarkOneRead(p, u, e)
      <4> PICK u \in Users, e \in Events : MarkOneRead(p, u, e)
        BY <3>2, NotificationsAssumption
      <4> QED
        BY MarkOneNumbers
    <3>3. CASE (\E u \in Readers : GetUnreadCount(p, u)) \/ Reset(p) \/ (RequestFails(p) /\ call[p].op # "decr")
      BY <3>3, QuietCalls
    <3>4. CASE Decrement(p) \/ (RequestFails(p) /\ call[p].op = "decr")
      BY <3>4, DecrementNumbers
    <3>5. CASE CountUnread(p)
      BY <3>5, CountUnreadNumbers
    <3>6. CASE Backfill(p)
      BY <3>6, BackfillNumbers
    <3> QED
      BY <1>5, <3>1, <3>2, <3>3, <3>4, <3>5, <3>6 DEF UserStep, NotificationRoutes
  <2> QED
    BY <1>1, <2>1, <2>2 DEF Inv, Numbers
<1> QED
  BY <1>3, <1>4, <1>5 DEF Next

-----------------------------------------------------------------------------
(* Nobody is passed over *)

(* Events of the log have an actor, so their recipients stay the same.     *)
LogKnown == \A i \in 1..Len(log) : actor[log[i]] # None

(* The job is about the next event, and of a message it has told everyone  *)
(* it does not still have to tell.                                         *)
JobSound ==
    job.op # "none" =>
        /\ handled < Len(log) /\ job.event = log[handled + 1]
        /\ job.op \in {"incr", "push"} => row[job.event][job.to] # "none"
        /\ job.event \in ChatEvents =>
              \A u \in {Owner, Tenant} \ {actor[job.event]} : u \in job.todo \/ row[job.event][u] # "none"

HandledTold ==
    /\ committed <= handled /\ handled <= Len(log)
    /\ \A i \in 1..handled : log[i] \in ChatEvents => Told(log[i])

ToldInv == LogKnown /\ JobSound /\ HandledTold

LEMMA ToldStart == Init => ToldInv
BY DEF Init, NoJob, ToldInv, LogKnown, JobSound, HandledTold

(* A row that is there stays.                                              *)
LEMMA RowsStay ==
  ASSUME Types, [Next]_vars
  PROVE  \A e \in Events, u \in Users : row[e][u] # "none" => row'[e][u] # "none"
<1>1. ASSUME NEW u \in Users, Save(u)
      PROVE  \A e \in Events, w \in Users : row[e][w] # "none" => row'[e][w] # "none"
  <2>1. job.event \in Events
    BY <1>1 DEF Save, Types
  <2>2. row' = row \/ row' = [row EXCEPT ![job.event] = Marked(row[job.event], u, "unread")]
    BY <1>1 DEF Save
  <2> QED
    BY <2>1, <2>2, OneReadFacts
<1>2. ASSUME NEW p \in Requests, NEW u \in Readers, MarkAllRead(p, u)
      PROVE  \A e \in Events, w \in Users : row[e][w] # "none" => row'[e][w] # "none"
  <2>1. u \in Users
    BY NotificationsAssumption
  <2>2. \A e \in Events : /\ (row'[e][u] = "none" <=> row[e][u] = "none")
                          /\ \A w \in Users \ {u} : row'[e][w] = row[e][w]
    BY <1>2, <2>1, AllReadFacts DEF MarkAllRead
  <2> QED
    BY <2>2
<1>3. ASSUME NEW p \in Requests, NEW u \in Readers, NEW d \in Events, MarkOneRead(p, u, d)
      PROVE  \A e \in Events, w \in Users : row[e][w] # "none" => row'[e][w] # "none"
  <2>1. u \in Users /\ row' = [row EXCEPT ![d] = Marked(row[d], u, "read")]
    BY <1>3, NotificationsAssumption DEF MarkOneRead
  <2>2. /\ row'[d][u] # "none" /\ \A w \in Users \ {u} : row'[d][w] = row[d][w]
        /\ \A e \in Events \ {d} : row'[e] = row[e]
    BY <2>1, OneReadFacts
  <2> QED
    BY <2>2
<1>4. CASE TopicGrows \/ StartEvent \/ Increment \/ Push \/ FinishEvent \/ HandlerThrows \/ CommitOffset
           \/ RestartWorker \/ UNCHANGED vars \/ \E u \in Users : KeyExpires(u)
  <2>1. row' = row
    BY <1>4 DEF TopicGrows, EventArrives, EventRepeats, StartEvent, Increment, Push, FinishEvent, HandlerThrows,
       CommitOffset, RestartWorker, KeyExpires, vars
  <2> QED
    BY <2>1
<1>5. ASSUME NEW p \in Requests,
             \/ \E u \in Readers : GetUnreadCount(p, u)
             \/ CountUnread(p) \/ Backfill(p) \/ Decrement(p) \/ Reset(p) \/ RequestFails(p)
      PROVE  \A e \in Events, w \in Users : row[e][w] # "none" => row'[e][w] # "none"
  <2>1. row' = row
    BY <1>5 DEF GetUnreadCount, CountUnread, Backfill, Decrement, Reset, RequestFails
  <2> QED
    BY <2>1
<1> QED
  BY <1>1, <1>2, <1>3, <1>4, <1>5 DEF Next, WorkerStep, UserStep, NotificationRoutes

(* While the log and its events stay, whoever was told stays told.         *)
LEMMA ToldStays ==
  ASSUME Types, ToldInv, UNCHANGED <<log, actor>>,
         \A e \in Events, u \in Users : row[e][u] # "none" => row'[e][u] # "none",
         handled' \in {handled, committed}, committed' \in {handled, committed}, committed' <= handled'
  PROVE  LogKnown' /\ HandledTold'
<1>1. LogKnown'
  BY DEF ToldInv, LogKnown
<1>2. ASSUME NEW i \in 1..handled, log[i] \in ChatEvents PROVE Told(log[i])'
  <2> PICK e \in Events : e = log[i]
    BY <1>2 DEF Events
  <2>1. Told(e) /\ Owner \in Users /\ Tenant \in Users
    BY <1>2, NotificationsAssumption DEF ToldInv, HandledTold
  <2>2. Told(e)'
    BY <2>1 DEF Told
  <2>3. log'[i] = e
    OBVIOUS
  <2> QED
    BY <2>2, <2>3 DEF Told
<1>3. committed \in Nat /\ handled \in Nat /\ committed <= handled /\ handled <= Len(log)
  BY DEF Types, ToldInv, HandledTold
<1>4. (\A i \in 1..handled' : i \in 1..handled) /\ committed' <= handled' /\ handled' <= Len(log')
  BY <1>3
<1>5. log' = log
  OBVIOUS
<1> QED
  BY <1>1, <1>2, <1>4, <1>5 DEF HandledTold

LEMMA ArrivalTold == ASSUME Types, ToldInv, TopicGrows PROVE ToldInv'
<1> PICK e \in Events : EventArrives(e) \/ EventRepeats(e)
  BY DEF TopicGrows
<1>1. /\ log' = Append(log, e) /\ UNCHANGED <<row, job, handled, committed>>
      /\ actor'[e] # None /\ \A d \in Events : actor[d] # None => actor'[d] = actor[d]
  BY NotificationsAssumption DEF EventArrives, EventRepeats, groupVars, Types
<1>2. /\ Len(log') = Len(log) + 1 /\ Len(log) \in Nat /\ log'[Len(log) + 1] = e
      /\ \A i \in 1..Len(log) : log'[i] = log[i] /\ log[i] \in Events
  BY <1>1 DEF Types
<1>3. LogKnown'
  BY <1>1, <1>2 DEF ToldInv, LogKnown
<1>4. \A i \in 1..Len(log) : actor'[log[i]] = actor[log[i]]
  BY <1>1, <1>2 DEF ToldInv, LogKnown
<1>5. JobSound'
  <2>1. handled \in Nat /\ (job.op # "none" => handled + 1 \in 1..Len(log))
    BY <1>2 DEF ToldInv, JobSound, Types
  <2>2. job.op # "none" => actor'[job.event] = actor[job.event] /\ job.event = log'[handled + 1]
    BY <1>2, <1>4, <2>1 DEF ToldInv, JobSound
  <2> QED
    BY <1>1, <1>2, <2>1, <2>2 DEF ToldInv, JobSound
<1>6. HandledTold'
  <2>1. handled \in Nat /\ handled <= Len(log) /\ committed <= handled
    BY DEF Types, ToldInv, HandledTold
  <2>2. ASSUME NEW i \in 1..handled, log[i] \in ChatEvents PROVE Told(log[i])'
    <3> PICK d : d = log[i]
      OBVIOUS
    <3>1. Told(d) /\ actor'[d] = actor[d] /\ log'[i] = d
      BY <1>2, <1>4, <2>1, <2>2 DEF ToldInv, HandledTold
    <3>2. Told(d)'
      BY <1>1, <3>1 DEF Told
    <3> QED
      BY <3>1, <3>2 DEF Told
  <2> QED
    BY <1>1, <1>2, <2>1, <2>2 DEF HandledTold
<1> QED
  BY <1>3, <1>5, <1>6 DEF ToldInv

LEMMA WorkerTold ==
  ASSUME Types, ToldInv, WorkerStep \/ HandlerThrows \/ CommitOffset \/ RestartWorker, [Next]_vars
  PROVE  ToldInv'
<1>1. \A e \in Events, u \in Users : row[e][u] # "none" => row'[e][u] # "none"
  BY RowsStay
<1>2. Owner \in Users /\ Tenant \in Users /\ None \notin Users
  BY NotificationsAssumption
<1>3. handled \in Nat /\ committed \in Nat /\ committed <= handled /\ handled <= Len(log)
  BY DEF Types, ToldInv, HandledTold
<1>4. UNCHANGED <<log, actor>>
  BY DEF WorkerStep, StartEvent, Save, Increment, Push, FinishEvent, HandlerThrows, CommitOffset, RestartWorker,
     topicVars
<1>5. job.op # "none" => job.event \in Events
  BY DEF Types
(* A step inside a job: nobody drops out of it without his row.            *)
<1>6. ASSUME job.op # "none", job'.op # "none", job'.event = job.event, handled' = handled, committed' = committed,
             job'.op \in {"incr", "push"} => row'[job.event][job'.to] # "none",
             \A u \in job.todo : u \in job'.todo \/ row'[job.event][u] # "none"
      PROVE  ToldInv'
  <2>1. LogKnown' /\ HandledTold'
    BY <1>1, <1>3, <1>4, <1>6, ToldStays
  <2>2. \A u \in Users : row[job.event][u] # "none" => row'[job.event][u] # "none"
    BY <1>1, <1>5, <1>6
  <2>3. JobSound'
    BY <1>2, <1>4, <1>6, <2>2 DEF ToldInv, JobSound
  <2> QED
    BY <2>1, <2>3 DEF ToldInv
<1>7. CASE StartEvent
  <2>1. /\ handled < Len(log) /\ UNCHANGED <<row, handled, committed>>
        /\ \E to \in Resolve(log[handled + 1]) :
              job' = [event |-> log[handled + 1], todo |-> to, op |-> "save", to |-> None]
    BY <1>7 DEF StartEvent
  <2>2. JobSound'
    BY <1>4, <2>1 DEF JobSound, Resolve, ForMessage
  <2>3. LogKnown' /\ HandledTold'
    BY <1>1, <1>3, <1>4, <2>1, ToldStays
  <2> QED
    BY <2>2, <2>3 DEF ToldInv
<1>8. ASSUME NEW u \in Users, Save(u) PROVE ToldInv'
  <2>1. job.op = "save" /\ UNCHANGED <<handled, committed>> /\ job.event \in Events
    BY <1>8 DEF Save, Types
  <2>2. CASE SaveIfNew(job.event, u)
    <3>1. /\ row' = [row EXCEPT ![job.event] = Marked(row[job.event], u, "unread")]
          /\ job' = [job EXCEPT !.op = "incr", !.to = u]
      BY <1>8, <2>2 DEF Save
    <3>2. job'.event = job.event /\ job'.todo = job.todo /\ job'.op = "incr" /\ job'.to = u
      BY <3>1 DEF Types, JobType
    <3>3. row'[job.event][u] # "none"
      BY <2>1, <3>1, OneReadFacts
    <3> QED
      BY <1>6, <2>1, <3>2, <3>3
  <2>3. CASE ~SaveIfNew(job.event, u)
    <3>1. row' = row /\ job' = [job EXCEPT !.todo = @ \ {u}]
      BY <1>8, <2>3 DEF Save
    <3>2. job'.event = job.event /\ job'.todo = job.todo \ {u} /\ job'.op = "save"
      BY <2>1, <3>1 DEF Types, JobType
    <3> QED
      BY <1>6, <2>1, <2>3, <3>1, <3>2 DEF SaveIfNew
  <2> QED
    BY <2>2, <2>3
<1>9. CASE Increment
  <2>1. job.op = "incr" /\ job' = [job EXCEPT !.op = "push"] /\ UNCHANGED <<row, handled, committed>>
    BY <1>9 DEF Increment
  <2>2. job'.event = job.event /\ job'.todo = job.todo /\ job'.op = "push" /\ job'.to = job.to
    BY <2>1 DEF Types, JobType
  <2>3. row[job.event][job.to] # "none"
    BY <2>1 DEF ToldInv, JobSound
  <2> QED
    BY <1>6, <2>1, <2>2, <2>3
<1>10. CASE Push
  <2>1. /\ job.op = "push" /\ job' = [job EXCEPT !.op = "save", !.todo = @ \ {job.to}, !.to = None]
        /\ UNCHANGED <<row, handled, committed>>
    BY <1>10 DEF Push
  <2>2. job'.event = job.event /\ job'.todo = job.todo \ {job.to} /\ job'.op = "save"
    BY <2>1 DEF Types, JobType
  <2>3. row[job.event][job.to] # "none"
    BY <2>1 DEF ToldInv, JobSound
  <2> QED
    BY <1>6, <2>1, <2>2, <2>3
<1>11. CASE FinishEvent
  <2>1. /\ job.op = "save" /\ job.todo = {} /\ job' = NoJob /\ handled' = handled + 1
        /\ UNCHANGED <<row, committed>>
    BY <1>11 DEF FinishEvent
  <2>2. handled + 1 <= Len(log) /\ (log[handled + 1] \in ChatEvents => Told(log[handled + 1]))
    BY <1>3, <2>1 DEF ToldInv, JobSound, Told
  <2>3. \A i \in 1..(handled + 1) : i \in 1..handled \/ i = handled + 1
    BY <1>3
  <2>4. ASSUME NEW i \in 1..handled', log'[i] \in ChatEvents PROVE Told(log[i])'
    <3>1. log[i] \in ChatEvents => Told(log[i])
      BY <2>1, <2>2, <2>3 DEF ToldInv, HandledTold
    <3> PICK e : e = log[i]
      OBVIOUS
    <3>2. Told(e)' /\ log'[i] = e
      BY <1>4, <2>1, <2>4, <3>1 DEF Told
    <3> QED
      BY <3>2 DEF Told
  <2>5. HandledTold'
    BY <1>3, <1>4, <2>1, <2>2, <2>4 DEF HandledTold
  <2> QED
    BY <1>4, <2>1, <2>5 DEF ToldInv, LogKnown, JobSound, NoJob
<1>12. CASE HandlerThrows \/ RestartWorker
  <2>1. job' = NoJob /\ handled' \in {handled, committed} /\ committed' = committed
    BY <1>12 DEF HandlerThrows, AfterError, RestartWorker
  <2>2. LogKnown' /\ HandledTold'
    BY <1>1, <1>3, <1>4, <2>1, ToldStays
  <2> QED
    BY <2>1, <2>2 DEF ToldInv, JobSound, NoJob
<1>13. CASE CommitOffset
  <2>1. committed' = handled /\ UNCHANGED <<row, job, handled>>
    BY <1>13 DEF CommitOffset
  <2>2. LogKnown' /\ HandledTold'
    BY <1>1, <1>3, <1>4, <2>1, ToldStays
  <2> QED
    BY <1>4, <2>1, <2>2 DEF ToldInv, JobSound
<1> QED
  BY <1>7, <1>8, <1>9, <1>10, <1>11, <1>12, <1>13 DEF WorkerStep

LEMMA ToldStep == Inv /\ ToldInv /\ [Next]_vars => ToldInv'
<1> SUFFICES ASSUME Inv, ToldInv, [Next]_vars PROVE ToldInv'
  OBVIOUS
<1>1. Types /\ \A e \in Events, u \in Users : row[e][u] # "none" => row'[e][u] # "none"
  BY RowsStay DEF Inv
<1>2. CASE TopicGrows
  BY <1>1, <1>2, ArrivalTold
<1>3. CASE WorkerStep \/ HandlerThrows \/ CommitOffset \/ RestartWorker
  BY <1>1, <1>3, WorkerTold
<1>4. CASE (\E p \in Requests : UserStep(p)) \/ (\E u \in Users : KeyExpires(u)) \/ UNCHANGED vars
  <2>1. UNCHANGED <<log, actor, job, handled, committed>>
    BY <1>4 DEF UserStep, NotificationRoutes, GetUnreadCount, MarkAllRead, MarkOneRead, CountUnread, Backfill,
       Decrement, Reset, RequestFails, KeyExpires, Aside, topicVars, groupVars, vars
  <2>2. LogKnown' /\ HandledTold'
    <3>1. committed <= handled
      BY DEF ToldInv, HandledTold
    <3> QED
      BY <1>1, <2>1, <3>1, ToldStays
  <2>3. JobSound'
    <3>1. /\ job.op # "none" => job.event \in Events
          /\ job.op \in {"incr", "push"} => job.to \in Users
          /\ Owner \in Users /\ Tenant \in Users
      BY <1>1, NotificationsAssumption DEF Types
    <3> QED
      BY <1>1, <2>1, <3>1 DEF ToldInv, JobSound
  <2> QED
    BY <2>2, <2>3 DEF ToldInv
<1> QED
  BY <1>2, <1>3, <1>4 DEF Next

(* Every behaviour of the worker and its users keeps the invariant.        *)
THEOREM Invariant == Spec => []Inv
<1>1. Init => Inv
  BY InitInv
<1>2. Inv /\ [Next]_vars => Inv'
  BY StepInv
<1> QED
  BY <1>1, <1>2, PTL DEF Spec

-----------------------------------------------------------------------------
(* What it gives *)

(* No message is passed over and no event counts twice: the worker commits *)
(* an offset only behind events it has been through, skips the recipients  *)
(* whose rows exist, and starts again behind the committed offset.         *)
THEOREM MessagesAreNotifiedOnce == Spec => []NotifiedOnce
<1>1. Init => ToldInv
  BY ToldStart
<1>2. Inv /\ ToldInv /\ [Next]_vars => ToldInv'
  BY ToldStep
<1>3. Inv /\ ToldInv => NotifiedOnce
  <2> SUFFICES ASSUME Inv, ToldInv PROVE NotifiedOnce
    OBVIOUS
  <2>1. committed \in Nat /\ handled \in Nat /\ committed <= handled
    BY DEF Inv, Types, ToldInv, HandledTold
  <2> QED
    BY <2>1 DEF Inv, ToldInv, HandledTold, NotifiedOnce
<1> QED
  BY <1>1, <1>2, <1>3, Invariant, PTL DEF Spec

(* The unread counter is off by no more than the bumps on their way and    *)
(* the named losses: INCR and DECR around the row writes, the floor at     *)
(* zero and the COUNT it was filled from explain every difference.         *)
THEOREM DriftIsExplained == Spec => []UnreadDrift
<1>1. Inv => UnreadDrift
  <2> SUFFICES ASSUME Inv, NEW u \in Users, counter[u] # Missing
               PROVE  Distance(counter[u], Unread(u)) <= PendingBumps(u) + slack[u]
    BY DEF UnreadDrift
  <2>1. /\ Unread(u) \in Nat /\ Going(u) \in Nat /\ Coming(u) \in {0, 1}
        /\ PendingBumps(u) = Coming(u) + Going(u)
    BY NumberTypes DEF Inv
  <2>2. counter[u] \in Nat /\ slack[u] \in Nat
    BY DEF Inv, Types
  <2>3. /\ counter[u] + Coming(u) - Going(u) - Unread(u) <= slack[u]
        /\ -(counter[u] + Coming(u) - Going(u) - Unread(u)) <= slack[u]
    BY DEF Inv, KeySound, Settling
  <2> QED
    BY <2>1, <2>2, <2>3 DEF Distance
<1> QED
  BY <1>1, Invariant, PTL
=============================================================================
