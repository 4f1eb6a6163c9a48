---------------------------- MODULE OutboxProofs ----------------------------
(***************************************************************************)
(* The inductive invariant of the outbox and its relays, for any number of *)
(* events, entities and relays and any batch size and attempt limit.       *)
(***************************************************************************)
EXTENDS Outbox, FiniteSetTheorems, TLAPS

(* Every message lies in the partition of its entity.                      *)
LogKeyed ==
    \A n \in Entities : \A i \in 1..Len(log[n]) : EntityOf[log[n][i]] = n

OutboxInv ==
    /\ TypeOK
    /\ QuarantineAtLimit
    /\ TicksSound
    /\ LockExclusive
    /\ NoEventLost
    /\ NoPhantomEvent
    /\ LogKeyed

(* Append keeps the elements and their places and adds one.                *)
LEMMA AppendFacts ==
  ASSUME NEW S, NEW s \in Seq(S), NEW x \in S
  PROVE  /\ \A i \in 1..Len(Append(s, x)) :
                \/ i \in 1..Len(s) /\ Append(s, x)[i] = s[i]
                \/ Append(s, x)[i] = x
         /\ \A i \in 1..Len(s) :
                i \in 1..Len(Append(s, x)) /\ Append(s, x)[i] = s[i]
         /\ \E i \in 1..Len(Append(s, x)) : Append(s, x)[i] = x
<1>1. /\ Len(s) + 1 \in 1..Len(Append(s, x))
      /\ Append(s, x)[Len(s) + 1] = x
  OBVIOUS
<1>2. \A i \in 1..Len(Append(s, x)) :
            (i \in 1..Len(s) /\ Append(s, x)[i] = s[i]) \/ Append(s, x)[i] = x
  OBVIOUS
<1>3. \A i \in 1..Len(s) : i \in 1..Len(Append(s, x)) /\ Append(s, x)[i] = s[i]
  OBVIOUS
<1> QED
  BY <1>1, <1>2, <1>3, Zenon

(* The messages of the log are events.                                     *)
LEMMA LogElement ==
  ASSUME TypeOK, NEW n \in Entities, NEW i \in 1..Len(log[n])
  PROVE  log[n][i] \in Events
BY DEF TypeOK

(* The invariant holds initially: no row, no message, no tick.             *)
LEMMA InitInv == OutboxInit => OutboxInv
<1> SUFFICES ASSUME OutboxInit PROVE OutboxInv
  OBVIOUS
<1> USE OutboxAssumption
<1>1. TypeOK
  BY DEF OutboxInit, TypeOK, RowStatus
<1>2. QuarantineAtLimit
  BY DEF OutboxInit, QuarantineAtLimit
<1>3. \A r \in Relays : Held(r) = {}
  BY DEF OutboxInit, Held
<1>4. TicksSound
  BY <1>3 DEF OutboxInit, TicksSound, TickSound
<1>5. LockExclusive
  BY <1>3 DEF LockExclusive
<1>6. NoEventLost /\ NoPhantomEvent /\ LogKeyed
  BY DEF OutboxInit, NoEventLost, NoPhantomEvent, LogKeyed
<1> QED
  BY <1>1, <1>2, <1>4, <1>5, <1>6 DEF OutboxInv

(* A row that is recorded stays recorded, and what is in the log stays     *)
(* there: with these two facts the clauses about other rows carry over.    *)
LEMMA UseCaseInv ==
  ASSUME OutboxInv, NEW e \in Events, DomainStep(e) \/ BackoffElapses(e)
  PROVE  OutboxInv'
<1> USE OutboxAssumption
<1>1. /\ UNCHANGED <<attempts, tickVars, log, rollbacks>>
      /\ \A f \in Events : Recorded(f) => status'[f] = status[f]
      /\ \A f \in Events : status[f] \notin {"PENDING", "PUBLISHED", "FAILED"}
                            => status'[f] \notin {"PUBLISHED", "FAILED"}
  BY DEF OutboxInv, TypeOK, DomainStep, Add, EndDomainTx, BackoffElapses, Recorded
<1>2. TypeOK'
  <2>1. CASE Add(e)
    <3>1. Cardinality({f \in Events : createdAt[f] > 0}) \in Nat
      BY FS_Subset, FS_CardinalityType
    <3> QED
      BY <2>1, <3>1 DEF OutboxInv, TypeOK, Add, RowStatus, tickVars
  <2>2. CASE EndDomainTx(e, "PENDING") \/ EndDomainTx(e, "ABORTED")
    <3>1. PICK o \in RowStatus : EndDomainTx(e, o)
      BY <2>2, Zenon DEF RowStatus
    <3>2. status' \in [Events -> RowStatus]
      BY <3>1 DEF OutboxInv, TypeOK, EndDomainTx
    <3>3. UNCHANGED <<createdAt, attempts, due, tickVars, log, rollbacks>>
      BY <3>1 DEF EndDomainTx
    <3> QED
      BY <3>2, <3>3 DEF OutboxInv, TypeOK, tickVars
  <2>3. CASE BackoffElapses(e)
    <3>1. due' \in [Events -> BOOLEAN]
      BY <2>3 DEF OutboxInv, TypeOK, BackoffElapses
    <3>2. UNCHANGED <<status, createdAt, attempts, tickVars, log, rollbacks>>
      BY <2>3 DEF BackoffElapses
    <3> QED
      BY <3>1, <3>2 DEF OutboxInv, TypeOK, tickVars
  <2> QED
    BY <2>1, <2>2, <2>3 DEF DomainStep
<1>3. QuarantineAtLimit'
  BY <1>1 DEF OutboxInv, TypeOK, QuarantineAtLimit, Recorded, RowStatus
<1>4. /\ \A f \in Events : Recorded(f) => Recorded(f)'
      /\ \A f \in Events : InLog(f) <=> InLog(f)'
      /\ \A r \in Relays : Held(r)' = Held(r)
  BY <1>1 DEF Recorded, InLog, Held, tickVars
<1>5. TicksSound'
  BY <1>1, <1>4 DEF OutboxInv, TypeOK, TicksSound, TickSound, Recorded, InLog, Held, tickVars
<1>6. LockExclusive'
  BY <1>1, <1>4 DEF OutboxInv, LockExclusive, tickVars
<1>7. NoEventLost'
  BY <1>1, <1>4 DEF OutboxInv, NoEventLost, Recorded
<1>8. NoPhantomEvent' /\ LogKeyed'
  BY <1>1, <1>4, LogElement DEF OutboxInv, NoPhantomEvent, LogKeyed
<1> QED
  BY <1>2, <1>3, <1>5, <1>6, <1>7, <1>8 DEF OutboxInv

(* A step that leaves the rows and the log alone keeps what is said of     *)
(* them.                                                                   *)
LEMMA RowsAndLogUnchanged ==
  ASSUME OutboxInv, UNCHANGED <<rowVars, log>>
  PROVE  /\ QuarantineAtLimit' /\ NoEventLost' /\ NoPhantomEvent' /\ LogKeyed'
         /\ \A e : (Recorded(e)' <=> Recorded(e)) /\ (InLog(e)' <=> InLog(e))
<1>1. \A e : (Recorded(e)' <=> Recorded(e)) /\ (InLog(e)' <=> InLog(e))
  BY DEF Recorded, InLog, rowVars
<1>2. QuarantineAtLimit' /\ NoEventLost'
  BY <1>1 DEF OutboxInv, QuarantineAtLimit, NoEventLost, rowVars
<1>3. NoPhantomEvent' /\ LogKeyed'
  BY <1>1 DEF OutboxInv, NoPhantomEvent, LogKeyed
<1> QED
  BY <1>1, <1>2, <1>3

(* A tick that a step leaves alone stays sound: messages are only added,   *)
(* recorded rows stay recorded, and nobody settles a row it has locked.    *)
LEMMA OtherTick ==
  ASSUME OutboxInv, NEW q \in Relays,
         UNCHANGED <<tx[q], step[q], batch[q], row[q], done[q], failed[q]>>,
         \A e \in Events : (Recorded(e) => Recorded(e)') /\ (InLog(e) => InLog(e)'),
         tx[q] = "live" => \A e \in Held(q) : status'[e] = status[e]
  PROVE  Held(q)' = Held(q) /\ TickSound(q)'
<1> USE OutboxAssumption
<1>1. Held(q)' = Held(q)
  BY DEF Held
<1>2. Held(q) \subseteq Events /\ done[q] \subseteq Events /\ row[q] \in Events \cup {NoEvent}
  BY DEF OutboxInv, TypeOK, Held
<1>3. \A e \in Held(q) : Recorded(e)'
  BY <1>2 DEF OutboxInv, TicksSound, TickSound
<1>4. step[q] = "mark" => row[q] \in Events
  BY <1>2 DEF OutboxInv, TicksSound, TickSound
<1>5. (step[q] = "mark" => InLog(row[q])') /\ \A e \in done[q] : InLog(e)'
  BY <1>2, <1>4 DEF OutboxInv, TicksSound, TickSound
<1> QED
  BY <1>1, <1>3, <1>5 DEF OutboxInv, TicksSound, TickSound

(* A fetch takes only rows that are PENDING and in no live tick's hands.   *)
LEMMA FetchInv ==
  ASSUME OutboxInv, NEW r \in Relays, FetchPending(r)
  PROVE  OutboxInv'
<1> USE OutboxAssumption
<1>1. PICK B \in SUBSET Events :
        /\ batch' = [batch EXCEPT ![r] = B]
        /\ \A e \in B : status[e] = "PENDING" /\ ~Locked(e)
  BY DEF FetchPending, OldestOf, Fetchable
<1>2. /\ tx[r] = "none"
      /\ tx' = [tx EXCEPT ![r] = "live"]
      /\ step' = [step EXCEPT ![r] = "emit"]
      /\ UNCHANGED <<rowVars, row, done, failed, log, rollbacks>>
  BY DEF FetchPending
<1>3. TypeOK'
  BY <1>1, <1>2 DEF OutboxInv, TypeOK, rowVars
<1>4. row[r] = NoEvent /\ done[r] = {} /\ failed[r] = {}
  BY <1>2 DEF OutboxInv, TypeOK, TicksSound, TickSound, Held
<1>5. /\ Held(r)' = B
      /\ \A q \in Relays \ {r} :
            /\ Held(q)' = Held(q)
            /\ UNCHANGED <<tx[q], step[q], batch[q], row[q], done[q], failed[q]>>
  BY <1>1, <1>2, <1>4 DEF OutboxInv, TypeOK, Held
<1>6. TicksSound'
  <2> SUFFICES ASSUME NEW q \in Relays PROVE TickSound(q)'
    BY DEF TicksSound
  <2>1. CASE q = r
    BY <2>1, <1>1, <1>2, <1>4, <1>5
       DEF OutboxInv, TypeOK, TicksSound, TickSound, Recorded, rowVars
  <2>2. CASE q # r
    BY <2>2, <1>2, <1>5, RowsAndLogUnchanged, OtherTick DEF rowVars
  <2> QED
    BY <2>1, <2>2
<1>7. LockExclusive'
  BY <1>1, <1>2, <1>5 DEF OutboxInv, TypeOK, LockExclusive, Locked
<1> QED
  BY <1>2, <1>3, <1>6, <1>7, RowsAndLogUnchanged DEF OutboxInv

(* An emit moves a row from the batch to the tick's hand; the message it   *)
(* may append is about a recorded row and lies in the right partition.     *)
LEMMA EmitInv ==
  ASSUME OutboxInv, NEW r \in Relays, Emit(r)
  PROVE  OutboxInv'
<1> USE OutboxAssumption
<1>1. PICK stored \in BOOLEAN, resolved \in BOOLEAN : PublishOrThrow(r, stored, resolved)
  BY Zenon DEF Emit
<1>2. PICK e \in batch[r] :
        /\ batch' = [batch EXCEPT ![r] = @ \ {e}]
        /\ row' = [row EXCEPT ![r] = e]
        /\ log' = IF stored THEN [log EXCEPT ![EntityOf[e]] = Append(@, e)] ELSE log
  BY <1>1 DEF PublishOrThrow
<1>3. /\ tx[r] # "none" /\ step[r] = "emit"
      /\ resolved => stored
      /\ step' = [step EXCEPT ![r] = IF resolved THEN "mark" ELSE "catch"]
      /\ UNCHANGED <<rowVars, tx, done, failed, rollbacks>>
  BY <1>1 DEF PublishOrThrow, AfterRejection
<1>4. e \in Events /\ EntityOf[e] \in Entities /\ Recorded(e) /\ row[r] = NoEvent
  BY <1>2, <1>3 DEF OutboxInv, TypeOK, TicksSound, TickSound, Held
<1>5. TypeOK'
  <2>1. log' \in [Entities -> Seq(Events)]
    BY <1>2, <1>4 DEF OutboxInv, TypeOK
  <2> QED
    BY <2>1, <1>2, <1>3, <1>4 DEF OutboxInv, TypeOK, rowVars
<1>6. /\ \A n \in Entities : \A i \in 1..Len(log'[n]) :
            \/ i \in 1..Len(log[n]) /\ log'[n][i] = log[n][i]
            \/ n = EntityOf[e] /\ log'[n][i] = e
      /\ \A n \in Entities : \A i \in 1..Len(log[n]) :
            i \in 1..Len(log'[n]) /\ log'[n][i] = log[n][i]
      /\ stored => \E i \in 1..Len(log'[EntityOf[e]]) : log'[EntityOf[e]][i] = e
  <2>1. CASE stored
    <3>1. ASSUME NEW n \in Entities PROVE log[n] \in Seq(Events)
      BY DEF OutboxInv, TypeOK
    <3>2. /\ log'[EntityOf[e]] = Append(log[EntityOf[e]], e)
          /\ \A n \in Entities \ {EntityOf[e]} : log'[n] = log[n]
      BY <2>1, <1>2, <1>4 DEF OutboxInv, TypeOK
    <3>3. /\ \A i \in 1..Len(log'[EntityOf[e]]) :
                \/ /\ i \in 1..Len(log[EntityOf[e]])
                   /\ log'[EntityOf[e]][i] = log[EntityOf[e]][i]
                \/ log'[EntityOf[e]][i] = e
          /\ \A i \in 1..Len(log[EntityOf[e]]) :
                /\ i \in 1..Len(log'[EntityOf[e]])
                /\ log'[EntityOf[e]][i] = log[EntityOf[e]][i]
          /\ \E i \in 1..Len(log'[EntityOf[e]]) : log'[EntityOf[e]][i] = e
      BY <3>1, <3>2, <1>4, AppendFacts
    <3> QED
      BY <3>2, <3>3
  <2>2. CASE ~stored
    BY <2>2, <1>2
  <2> QED
    BY <2>1, <2>2
<1>7. /\ \A f \in Events : InLog(f) => InLog(f)'
      /\ stored => InLog(e)'
  BY <1>6 DEF InLog
<1>8. \A q \in Relays : Held(q)' = Held(q)
  BY <1>2, <1>3, <1>4 DEF OutboxInv, TypeOK, Held
<1>9. TicksSound'
  <2> SUFFICES ASSUME NEW q \in Relays PROVE TickSound(q)'
    BY DEF TicksSound
  <2>1. CASE q = r
    <3>1. /\ batch'[r] = batch[r] \ {e} /\ row'[r] = e /\ tx'[r] = tx[r]
          /\ done'[r] = done[r] /\ failed'[r] = failed[r]
          /\ step'[r] = IF resolved THEN "mark" ELSE "catch"
      BY <1>2, <1>3 DEF OutboxInv, TypeOK
    <3>2. done[r] \subseteq Events
      BY DEF OutboxInv, TypeOK
    <3> QED
      BY <2>1, <3>1, <3>2, <1>2, <1>3, <1>4, <1>7, <1>8
         DEF OutboxInv, TicksSound, TickSound, Recorded, rowVars
  <2>2. CASE q # r
    <3>1. UNCHANGED <<tx[q], step[q], batch[q], row[q], done[q], failed[q]>>
      BY <2>2, <1>2, <1>3 DEF OutboxInv, TypeOK
    <3> QED
      BY <3>1, <1>3, <1>7, OtherTick DEF Recorded, rowVars
  <2> QED
    BY <2>1, <2>2
<1>10. LockExclusive'
  BY <1>3, <1>8 DEF OutboxInv, LockExclusive
<1>11. NoEventLost' /\ QuarantineAtLimit'
  BY <1>3, <1>7 DEF OutboxInv, NoEventLost, QuarantineAtLimit, rowVars
<1>12. NoPhantomEvent'
  <2>1. \A f : Recorded(f)' <=> Recorded(f)
    BY <1>3 DEF Recorded, rowVars
  <2> QED
    BY <2>1, <1>4, <1>6 DEF OutboxInv, NoPhantomEvent
<1>13. LogKeyed'
  BY <1>4, <1>6 DEF OutboxInv, LogKeyed
<1> QED
  BY <1>5, <1>9, <1>10, <1>11, <1>12, <1>13 DEF OutboxInv

(* A mark moves the row from the tick's hand to its marks; it is marked    *)
(* published only after the emit resolved.                                 *)
LEMMA MarkInv ==
  ASSUME OutboxInv, NEW r \in Relays, MarkPublished(r) \/ MarkFailed(r)
  PROVE  OutboxInv'
<1> USE OutboxAssumption
<1>1. /\ tx[r] = "live" /\ step[r] \in {"mark", "catch"}
      /\ row' = [row EXCEPT ![r] = NoEvent]
      /\ step' = [step EXCEPT ![r] = "emit"]
      /\ UNCHANGED <<rowVars, tx, batch, log, rollbacks>>
  BY DEF MarkPublished, MarkFailed
<1>2. PICK D \in SUBSET Events, F \in SUBSET Events :
        /\ D \cup F = done[r] \cup failed[r] \cup {row[r]}
        /\ D \subseteq done[r] \cup {row[r]}
        /\ D \cap F = {}
        /\ step[r] = "catch" => D = done[r]
        /\ done' = [done EXCEPT ![r] = D]
        /\ failed' = [failed EXCEPT ![r] = F]
  <2>1. row[r] \in Events /\ row[r] \notin done[r] \cup failed[r]
        /\ done[r] \cap failed[r] = {} /\ done[r] \subseteq Events /\ failed[r] \subseteq Events
    BY <1>1 DEF OutboxInv, TypeOK, TicksSound, TickSound
  <2>2. CASE MarkPublished(r)
    <3>1. /\ done' = [done EXCEPT ![r] = done[r] \cup {row[r]}]
          /\ failed' = [failed EXCEPT ![r] = failed[r]]
          /\ step[r] # "catch"
      BY <2>2 DEF MarkPublished, OutboxInv, TypeOK
    <3> QED
      BY <2>1, <3>1
  <2>3. CASE MarkFailed(r)
    <3>1. /\ done' = [done EXCEPT ![r] = done[r]]
          /\ failed' = [failed EXCEPT ![r] = failed[r] \cup {row[r]}]
      BY <2>3 DEF MarkFailed, OutboxInv, TypeOK
    <3> QED
      BY <2>1, <3>1
  <2> QED
    BY <2>2, <2>3
<1>3. TypeOK'
  BY <1>1, <1>2 DEF OutboxInv, TypeOK, rowVars
<1>4. /\ row[r] \in Events /\ row'[r] = NoEvent /\ step'[r] = "emit"
      /\ done'[r] = D /\ failed'[r] = F /\ batch'[r] = batch[r] /\ tx'[r] = "live"
      /\ Held(r)' = Held(r)
  BY <1>1, <1>2 DEF OutboxInv, TypeOK, TicksSound, TickSound, Held
<1>5. \A q \in Relays \ {r} :
        UNCHANGED <<tx[q], step[q], batch[q], row[q], done[q], failed[q]>>
  BY <1>1, <1>2 DEF OutboxInv, TypeOK
<1>6. TicksSound'
  <2> SUFFICES ASSUME NEW q \in Relays PROVE TickSound(q)'
    BY DEF TicksSound
  <2>1. CASE q = r
    <3>1. batch[r] \subseteq Events /\ batch[r] \cap (D \cup F) = {}
      BY <1>1, <1>2 DEF OutboxInv, TypeOK, TicksSound, TickSound
    <3>2. \A e \in D : InLog(e)
      BY <1>1, <1>2 DEF OutboxInv, TicksSound, TickSound
    <3>3. \A e \in D : InLog(e)'
      BY <3>2, <1>1, RowsAndLogUnchanged
    <3>4. \A e \in Held(r) : Recorded(e)' /\ status'[e] = "PENDING"
      BY <1>1 DEF OutboxInv, TicksSound, TickSound, Recorded, rowVars
    <3> QED
      BY <2>1, <3>1, <3>3, <3>4, <1>2, <1>4 DEF TickSound
  <2>2. CASE q # r
    BY <2>2, <1>1, <1>5, RowsAndLogUnchanged, OtherTick DEF rowVars
  <2> QED
    BY <2>1, <2>2
<1>7. \A q \in Relays : Held(q)' = Held(q)
  BY <1>4, <1>5 DEF Held
<1>8. LockExclusive'
  BY <1>1, <1>7 DEF OutboxInv, LockExclusive
<1> QED
  BY <1>1, <1>3, <1>6, <1>8, RowsAndLogUnchanged DEF OutboxInv

(* What ends a tick leaves it empty.                                       *)
LEMMA EndTickFacts ==
  ASSUME OutboxInv, NEW r \in Relays, EndTick(r)
  PROVE  /\ tx'[r] = "none" /\ step'[r] = "emit" /\ row'[r] = NoEvent
         /\ batch'[r] = {} /\ done'[r] = {} /\ failed'[r] = {}
         /\ Held(r)' = {}
         /\ \A q \in Relays \ {r} :
               UNCHANGED <<tx[q], step[q], batch[q], row[q], done[q], failed[q]>>
         /\ tx' \in [Relays -> {"none", "live", "lost"}]
         /\ step' \in [Relays -> {"emit", "mark", "catch"}]
         /\ batch' \in [Relays -> SUBSET Events]
         /\ row' \in [Relays -> Events \cup {NoEvent}]
         /\ done' \in [Relays -> SUBSET Events]
         /\ failed' \in [Relays -> SUBSET Events]
BY DEF OutboxInv, TypeOK, EndTick, Held

(* A tick that fails or dies leaves no trace but its messages.             *)
LEMMA AbortInv ==
  ASSUME OutboxInv, NEW r \in Relays, TickRejects(r) \/ CrashRelay(r)
  PROVE  OutboxInv'
<1> USE OutboxAssumption
<1>1. EndTick(r) /\ UNCHANGED <<rowVars, log>> /\ rollbacks' \in Nat
  BY DEF TickRejects, CrashRelay, OutboxInv, TypeOK
<1>2. TypeOK'
  BY <1>1, EndTickFacts DEF OutboxInv, TypeOK, rowVars
<1>3. TicksSound'
  <2> SUFFICES ASSUME NEW q \in Relays PROVE TickSound(q)'
    BY DEF TicksSound
  <2>1. CASE q = r
    BY <2>1, <1>1, EndTickFacts DEF TickSound
  <2>2. CASE q # r
    BY <2>2, <1>1, EndTickFacts, RowsAndLogUnchanged, OtherTick DEF rowVars
  <2> QED
    BY <2>1, <2>2
<1>4. LockExclusive'
  <2>1. \A q \in Relays \ {r} : Held(q)' = Held(q) /\ tx'[q] = tx[q]
    BY <1>1, EndTickFacts DEF Held
  <2> QED
    BY <2>1, <1>1, EndTickFacts DEF OutboxInv, LockExclusive
<1> QED
  BY <1>1, <1>2, <1>3, <1>4, RowsAndLogUnchanged DEF OutboxInv

(* A transaction that is lost takes its locks and marks with it.           *)
LEMMA LoseTxInv ==
  ASSUME OutboxInv, NEW r \in Relays, LoseTx(r)
  PROVE  OutboxInv'
<1> USE OutboxAssumption
<1>1. /\ tx[r] = "live" /\ tx'[r] = "lost" /\ done'[r] = {} /\ failed'[r] = {}
      /\ step'[r] = step[r] /\ batch'[r] = batch[r] /\ row'[r] = row[r]
      /\ \A q \in Relays \ {r} :
            UNCHANGED <<tx[q], step[q], batch[q], row[q], done[q], failed[q]>>
      /\ UNCHANGED <<rowVars, log>>
  BY DEF LoseTx, OutboxInv, TypeOK
<1>2. TypeOK'
  BY DEF LoseTx, OutboxInv, TypeOK, rowVars
<1>3. Held(r)' \subseteq Held(r)
  BY <1>1 DEF Held
<1>4. TicksSound'
  <2> SUFFICES ASSUME NEW q \in Relays PROVE TickSound(q)'
    BY DEF TicksSound
  <2>1. CASE q = r
    <3>1. \A e \in Held(r)' : Recorded(e)'
      BY <1>1, <1>3, RowsAndLogUnchanged DEF OutboxInv, TicksSound, TickSound
    <3>2. step[r] = "mark" => InLog(row[r])'
      BY <1>1, RowsAndLogUnchanged DEF OutboxInv, TicksSound, TickSound
    <3> QED
      BY <2>1, <3>1, <3>2, <1>1 DEF OutboxInv, TicksSound, TickSound
  <2>2. CASE q # r
    BY <2>2, <1>1, RowsAndLogUnchanged, OtherTick DEF rowVars
  <2> QED
    BY <2>1, <2>2
<1>5. LockExclusive'
  <2>1. \A q \in Relays \ {r} : Held(q)' = Held(q) /\ tx'[q] = tx[q]
    BY <1>1 DEF Held
  <2> QED
    BY <2>1, <1>1 DEF OutboxInv, LockExclusive
<1> QED
  BY <1>1, <1>2, <1>4, <1>5, RowsAndLogUnchanged DEF OutboxInv

(* The rows of a tick when it commits, and what becomes of the others.  A  *)
(* row under a live lock was PENDING, so its failures were below the limit *)
(* and this one takes them at most to it.                                  *)
LEMMA CommitRows ==
  ASSUME OutboxInv, NEW r \in Relays, CommitTick(r)
  PROVE  /\ Held(r) = done[r] \cup failed[r]
         /\ \A e \in Held(r) : status[e] = "PENDING" /\ attempts[e] < MaxAttempts
         /\ \A e \in Events : attempts'[e] =
                IF e \in failed[r] THEN attempts[e] + 1 ELSE attempts[e]
         /\ \A e \in done[r] : status'[e] = "PUBLISHED" /\ InLog(e)
         /\ \A e \in failed[r] :
                status'[e] = IF Exhausted(e) THEN "FAILED" ELSE "PENDING"
         /\ \A e \in Events \ Held(r) : status'[e] = status[e]
         /\ \A e : InLog(e)' <=> InLog(e)
<1> USE OutboxAssumption
<1>1. /\ tx[r] = "live" /\ step[r] = "emit" /\ batch[r] = {}
      /\ status' = [e \in Events |-> StatusAfter(r, e)]
      /\ attempts' = [e \in Events |-> IF e \in failed[r] THEN attempts[e] + 1
                                                          ELSE attempts[e]]
      /\ log' = log
  BY DEF CommitTick
<1>2. /\ TickSound(r) /\ done[r] \subseteq Events /\ failed[r] \subseteq Events
      /\ QuarantineAtLimit /\ attempts \in [Events -> 0..MaxAttempts]
  BY DEF OutboxInv, TypeOK, TicksSound
<1>3. Held(r) = done[r] \cup failed[r] /\ done[r] \cap failed[r] = {}
  BY <1>1, <1>2 DEF TickSound, Held
<1>4. \A e \in Held(r) : status[e] = "PENDING"
  BY <1>1, <1>2 DEF TickSound
<1>5. \A e \in Held(r) : attempts[e] < MaxAttempts
  BY <1>2, <1>3, <1>4 DEF QuarantineAtLimit
<1>6. \A e : InLog(e)' <=> InLog(e)
  BY <1>1 DEF InLog
<1>7. \A e \in done[r] : status'[e] = "PUBLISHED" /\ InLog(e)
  BY <1>1, <1>2 DEF StatusAfter, TickSound
<1>8. \A e \in failed[r] : status'[e] = IF Exhausted(e) THEN "FAILED" ELSE "PENDING"
  BY <1>1, <1>2, <1>3, <1>4 DEF StatusAfter
<1>9. \A e \in Events \ Held(r) : status'[e] = status[e]
  BY <1>1, <1>3 DEF StatusAfter
<1> QED
  BY <1>1, <1>3, <1>4, <1>5, <1>6, <1>7, <1>8, <1>9

(* A commit settles rows that only this tick holds.                        *)
LEMMA CommitInv ==
  ASSUME OutboxInv, NEW r \in Relays, CommitTick(r)
  PROVE  OutboxInv'
<1> USE OutboxAssumption, CommitRows
<1>1. /\ EndTick(r) /\ tx[r] = "live"
      /\ UNCHANGED <<createdAt, log, rollbacks>>
  BY DEF CommitTick
<1>2. done[r] \subseteq Events /\ failed[r] \subseteq Events
  BY DEF OutboxInv, TypeOK
<1>3. \A e \in Events : Recorded(e)' <=> Recorded(e)
  BY <1>2 DEF Recorded
<1>4. TypeOK'
  <2>1. status' \in [Events -> RowStatus]
    <3>1. status' = [e \in Events |-> StatusAfter(r, e)]
      BY DEF CommitTick
    <3> QED
      BY <3>1 DEF OutboxInv, TypeOK, StatusAfter, RowStatus
  <2>2. attempts' \in [Events -> 0..MaxAttempts]
    <3>1. attempts' = [e \in Events |-> IF e \in failed[r] THEN attempts[e] + 1
                                                          ELSE attempts[e]]
      BY DEF CommitTick
    <3>2. \A e \in failed[r] : attempts[e] + 1 \in 0..MaxAttempts
      BY <1>2 DEF OutboxInv, TypeOK
    <3> QED
      BY <3>1, <3>2 DEF OutboxInv, TypeOK
  <2>3. due' \in [Events -> BOOLEAN]
    <3>1. due' = [e \in Events |-> IF e \in failed[r] /\ ~Exhausted(e) THEN FALSE
                                                                       ELSE due[e]]
      BY DEF CommitTick
    <3> QED
      BY <3>1 DEF OutboxInv, TypeOK
  <2> QED
    BY <2>1, <2>2, <2>3, <1>1, EndTickFacts DEF OutboxInv, TypeOK
<1>5. QuarantineAtLimit'
  <2> SUFFICES ASSUME NEW e \in Events
               PROVE  status'[e] = "FAILED" <=> attempts'[e] = MaxAttempts
    BY DEF QuarantineAtLimit
  <2>1. attempts[e] \in 0..MaxAttempts /\ (status[e] = "FAILED" <=> attempts[e] = MaxAttempts)
    BY DEF OutboxInv, TypeOK, QuarantineAtLimit
  <2>2. CASE e \in failed[r]
    BY <2>1, <2>2 DEF Exhausted
  <2>3. CASE e \in done[r] \ failed[r]
    BY <2>1, <2>3
  <2>4. CASE e \notin Held(r)
    BY <2>1, <2>4
  <2> QED
    BY <2>2, <2>3, <2>4
<1>6. \A q \in Relays \ {r} : \A e \in Held(q) :
        tx[q] = "live" => e \notin Held(r) /\ status'[e] = status[e]
  BY <1>1 DEF OutboxInv, TypeOK, LockExclusive, Held
<1>7. TicksSound'
  <2> SUFFICES ASSUME NEW q \in Relays PROVE TickSound(q)'
    BY DEF TicksSound
  <2>1. CASE q = r
    BY <2>1, <1>1, EndTickFacts DEF TickSound
  <2>2. CASE q # r
    BY <2>2, <1>1, <1>3, <1>6, EndTickFacts, OtherTick
  <2> QED
    BY <2>1, <2>2
<1>8. LockExclusive'
  <2>1. \A q \in Relays \ {r} : Held(q)' = Held(q) /\ tx'[q] = tx[q]
    BY <1>1, EndTickFacts DEF Held
  <2> QED
    BY <2>1, <1>1, EndTickFacts DEF OutboxInv, LockExclusive
<1>9. NoEventLost'
  <2> SUFFICES ASSUME NEW e \in Events, status'[e] = "PUBLISHED" PROVE InLog(e)
    BY DEF NoEventLost
  <2>1. CASE e \in done[r]
    BY <2>1
  <2>2. CASE e \notin Held(r)
    BY <2>2 DEF OutboxInv, NoEventLost
  <2> QED
    BY <2>1, <2>2
<1>10. NoPhantomEvent'
  BY <1>1, <1>3, LogElement DEF OutboxInv, NoPhantomEvent
<1>11. LogKeyed'
  BY <1>1 DEF OutboxInv, LogKeyed
<1> QED
  BY <1>4, <1>5, <1>7, <1>8, <1>9, <1>10, <1>11 DEF OutboxInv

(* Every step of the use cases and relays keeps the invariant.             *)
THEOREM OutboxStepInv == OutboxInv /\ [OutboxNext]_outboxVars => OutboxInv'
<1> SUFFICES ASSUME OutboxInv, [OutboxNext]_outboxVars PROVE OutboxInv'
  OBVIOUS
<1>1. CASE UNCHANGED outboxVars
  <2>1. UNCHANGED <<rowVars, tickVars, log, rollbacks>>
    BY <1>1 DEF outboxVars
  <2>2. TypeOK'
    BY <2>1 DEF OutboxInv, TypeOK, rowVars, tickVars
  <2>3. \A q \in Relays : Held(q)' = Held(q) /\ TickSound(q)'
    BY <2>1, RowsAndLogUnchanged, OtherTick DEF rowVars, tickVars
  <2>4. TicksSound' /\ LockExclusive'
    BY <2>1, <2>3 DEF OutboxInv, TicksSound, LockExclusive, tickVars
  <2> QED
    BY <2>1, <2>2, <2>4, RowsAndLogUnchanged DEF OutboxInv
<1>2. CASE \E e \in Events : DomainStep(e) \/ BackoffElapses(e)
  BY <1>2, UseCaseInv
<1>3. ASSUME NEW r \in Relays, RelayStep(r) \/ LoseTx(r) \/ CrashRelay(r)
      PROVE  OutboxInv'
  BY <1>3, FetchInv, EmitInv, MarkInv, CommitInv, AbortInv, LoseTxInv DEF RelayStep
<1> QED
  BY <1>1, <1>2, <1>3 DEF OutboxNext
=============================================================================
