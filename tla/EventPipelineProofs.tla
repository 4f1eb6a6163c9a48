------------------------- MODULE EventPipelineProofs -------------------------
(***************************************************************************)
(* What the event pipeline guarantees for every set of events, entities    *)
(* and relays, every batch size and attempt limit and any number of faults:*)
(* its safety properties, and that it implements EventDelivery.            *)
(***************************************************************************)
EXTENDS EventPipeline, OutboxProofs

(* The consumer is never ahead of the log, its committed offset never      *)
(* ahead of it, and what it has handled has an audit row.                  *)
ConsumerSound ==
    \A n \in Entities :
        /\ offset[n] <= pos[n] /\ pos[n] <= Len(log[n])
        /\ \A i \in 1..pos[n] : auditLog[log[n][i]] > 0

PipelineInv == OutboxInv /\ PipelineTypeOK /\ AuditOnce /\ ConsumerSound

(* The invariant holds before anything happened.                           *)
LEMMA PipelineInit == Init => PipelineInv
<1> SUFFICES ASSUME Init PROVE PipelineInv
  OBVIOUS
<1> USE PipelineAssumption DEF Init, ConsumerInit
<1>1. OutboxInv
  BY InitInv
<1>2. PipelineTypeOK
  BY <1>1 DEF OutboxInv, PipelineTypeOK
<1>3. AuditOnce
  BY DEF AuditOnce
<1>4. ConsumerSound
  BY DEF ConsumerSound, OutboxInit
<1> QED
  BY <1>1, <1>2, <1>3, <1>4 DEF PipelineInv

(* The log only grows, at its end.                                         *)
LEMMA LogGrows ==
  ASSUME TypeOK, TicksSound, OutboxNext
  PROVE  \A n \in Entities :
            /\ Len(log'[n]) >= Len(log[n])
            /\ \A i \in 1..Len(log[n]) : log'[n][i] = log[n][i]
<1> USE OutboxAssumption
<1> SUFFICES ASSUME NEW n \in Entities
             PROVE  /\ Len(log'[n]) >= Len(log[n])
                    /\ \A i \in 1..Len(log[n]) : log'[n][i] = log[n][i]
  OBVIOUS
<1>1. log[n] \in Seq(Events) /\ Len(log[n]) \in Nat
  BY DEF TypeOK
<1>2. CASE log' = log
  BY <1>1, <1>2
<1>3. ASSUME NEW r \in Relays, Emit(r) PROVE log' = log \/ \E e \in Events :
          log' = [log EXCEPT ![EntityOf[e]] = Append(@, e)]
  <2>1. PICK stored \in BOOLEAN, resolved \in BOOLEAN : PublishOrThrow(r, stored, resolved)
    BY <1>3, Zenon DEF Emit
  <2> QED
    BY <2>1 DEF PublishOrThrow, TypeOK
<1>4. CASE \E e \in Events : log' = [log EXCEPT ![EntityOf[e]] = Append(@, e)]
  <2>1. PICK e \in Events : log' = [log EXCEPT ![EntityOf[e]] = Append(@, e)]
    BY <1>4
  <2>2. log'[n] = log[n] \/ log'[n] = Append(log[n], e)
    BY <2>1 DEF TypeOK
  <2> QED
    BY <1>1, <2>2
<1>5. ASSUME NEW e \in Events, DomainStep(e) \/ BackoffElapses(e) PROVE log' = log
  BY <1>5 DEF DomainStep, Add, EndDomainTx, BackoffElapses
<1>6. ASSUME NEW r \in Relays, RelayStep(r) \/ LoseTx(r) \/ CrashRelay(r), ~Emit(r)
      PROVE  log' = log
  BY <1>6 DEF RelayStep, FetchPending, MarkPublished, MarkFailed, CommitTick,
              TickRejects, LoseTx, CrashRelay
<1> QED
  BY <1>2, <1>3, <1>4, <1>5, <1>6 DEF OutboxNext

(* Steps of the use cases and relays do not disturb the consumer.          *)
LEMMA OutboxSide ==
  ASSUME PipelineInv, OutboxNext, UNCHANGED consumerVars
  PROVE  PipelineInv'
<1>1. OutboxInv'
  BY OutboxStepInv DEF PipelineInv
<1>2. PipelineTypeOK'
  BY <1>1 DEF PipelineInv, OutboxInv, PipelineTypeOK, consumerVars
<1>3. \A n \in Entities :
        /\ Len(log'[n]) >= Len(log[n])
        /\ \A i \in 1..Len(log[n]) : log'[n][i] = log[n][i]
  BY LogGrows DEF PipelineInv, OutboxInv
<1>4. \A n \in Entities : log[n] \in Seq(Events) /\ log'[n] \in Seq(Events)
                          /\ pos[n] \in Nat /\ offset[n] \in Nat
  BY <1>2 DEF PipelineInv, PipelineTypeOK, TypeOK
<1>5. \A e \in Events : InLog(e) => InLog(e)'
  <2> SUFFICES ASSUME NEW e \in Events, InLog(e) PROVE InLog(e)'
    OBVIOUS
  <2>1. PICK i \in 1..Len(log[EntityOf[e]]) : log[EntityOf[e]][i] = e
    BY DEF InLog
  <2>2. EntityOf[e] \in Entities
    BY OutboxAssumption
  <2>3. i \in 1..Len(log'[EntityOf[e]]) /\ log'[EntityOf[e]][i] = e
    BY <2>1, <2>2, <1>3, <1>4
  <2> QED
    BY <2>3 DEF InLog
<1>6. AuditOnce'
  BY <1>5 DEF PipelineInv, AuditOnce, consumerVars
<1>7. ConsumerSound'
  BY <1>3, <1>4 DEF PipelineInv, ConsumerSound, consumerVars
<1> QED
  BY <1>1, <1>2, <1>6, <1>7 DEF PipelineInv

(* Handling a message records it before the position moves past it.        *)
LEMMA HandleInv ==
  ASSUME PipelineInv, NEW n \in Entities, HandleMessage(n)
  PROVE  PipelineInv'
<1> DEFINE e == log[n][pos[n] + 1]
<1>1. /\ pos[n] < Len(log[n])
      /\ auditLog' = [auditLog EXCEPT ![e] = RowsAfterRecord(e)]
      /\ pos' = [pos EXCEPT ![n] = @ + 1]
      /\ UNCHANGED <<outboxVars, offset, restarts>>
  BY DEF HandleMessage
<1>2. /\ TypeOK /\ pos \in [Entities -> Nat] /\ offset \in [Entities -> Nat]
      /\ auditLog \in [Events -> Nat]
      /\ \A m \in Entities : log[m] \in Seq(Events) /\ Len(log[m]) \in Nat
  BY DEF PipelineInv, PipelineTypeOK, TypeOK
<1>3. pos[n] + 1 \in 1..Len(log[n])
  BY <1>1, <1>2
<1>4. e \in Events /\ EntityOf[e] = n
  BY <1>2, <1>3, LogElement DEF PipelineInv, OutboxInv, LogKeyed
<1>5. InLog(e)
  BY <1>3, <1>4 DEF InLog
<1> HIDE DEF e
<1>6. OutboxInv'
  BY <1>1, OutboxStepInv DEF PipelineInv, outboxVars
<1>7. RowsAfterRecord(e) = 1
  BY <1>2, <1>4 DEF RowsAfterRecord, PipelineInv, AuditOnce
<1>8. /\ auditLog' \in [Events -> Nat] /\ pos' \in [Entities -> Nat]
      /\ auditLog'[e] = 1
      /\ \A f \in Events \ {e} : auditLog'[f] = auditLog[f]
  BY <1>1, <1>2, <1>4, <1>7
<1>9. PipelineTypeOK'
  BY <1>1, <1>6, <1>8 DEF PipelineInv, OutboxInv, PipelineTypeOK
<1>10. \A f : InLog(f)' <=> InLog(f)
  BY <1>1 DEF InLog, outboxVars
<1>11. AuditOnce'
  BY <1>5, <1>8, <1>10 DEF PipelineInv, AuditOnce
<1>12. ConsumerSound'
  <2> SUFFICES ASSUME NEW m \in Entities
               PROVE  /\ offset[m] <= pos'[m] /\ pos'[m] <= Len(log[m])
                      /\ \A i \in 1..pos'[m] : auditLog'[log[m][i]] > 0
    BY <1>1 DEF ConsumerSound, outboxVars
  <2>1. /\ offset[m] <= pos[m] /\ pos[m] <= Len(log[m])
        /\ \A i \in 1..pos[m] : auditLog[log[m][i]] > 0
    BY DEF PipelineInv, ConsumerSound
  <2>2. \A i \in 1..pos[m] : auditLog'[log[m][i]] > 0
    <3> SUFFICES ASSUME NEW i \in 1..pos[m] PROVE auditLog'[log[m][i]] > 0
      OBVIOUS
    <3>1. log[m][i] \in Events
      BY <2>1, <1>2, LogElement
    <3>2. auditLog[log[m][i]] > 0
      BY <2>1
    <3> QED
      BY <3>1, <3>2, <1>8
  <2>3. CASE m = n
    BY <2>1, <2>2, <2>3, <1>1, <1>2, <1>8 DEF e
  <2>4. CASE m # n
    BY <2>1, <2>2, <2>4, <1>1, <1>2
  <2> QED
    BY <2>3, <2>4
<1> QED
  BY <1>6, <1>9, <1>11, <1>12 DEF PipelineInv

(* The committed offset follows the position, a restart falls back to it.  *)
LEMMA OffsetInv ==
  ASSUME PipelineInv, (\E n \in Entities : CommitOffset(n)) \/ RestartConsumer
  PROVE  PipelineInv'
<1>1. /\ UNCHANGED <<outboxVars, auditLog>>
      /\ offset' \in [Entities -> Nat] /\ pos' \in [Entities -> Nat]
      /\ restarts' \in Nat
      /\ \A m \in Entities : offset'[m] <= pos'[m] /\ pos'[m] <= pos[m]
  <2>1. /\ offset \in [Entities -> Nat] /\ pos \in [Entities -> Nat] /\ restarts \in Nat
        /\ \A m \in Entities : offset[m] <= pos[m]
    BY DEF PipelineInv, PipelineTypeOK, ConsumerSound
  <2>2. CASE \E n \in Entities : CommitOffset(n)
    BY <2>1, <2>2 DEF CommitOffset, Committable
  <2>3. CASE RestartConsumer
    BY <2>1, <2>3 DEF RestartConsumer
  <2> QED
    BY <2>2, <2>3
<1>2. OutboxInv'
  BY <1>1, OutboxStepInv DEF PipelineInv
<1>3. PipelineTypeOK'
  BY <1>1, <1>2 DEF PipelineInv, OutboxInv, PipelineTypeOK
<1>4. AuditOnce'
  BY <1>1 DEF PipelineInv, AuditOnce, InLog, outboxVars
<1>5. ConsumerSound'
  <2>1. \A m \in Entities : Len(log[m]) \in Nat /\ pos[m] \in Nat
    BY DEF PipelineInv, PipelineTypeOK, TypeOK
  <2> QED
    BY <2>1, <1>1 DEF PipelineInv, ConsumerSound, outboxVars
<1> QED
  BY <1>2, <1>3, <1>4, <1>5 DEF PipelineInv

(* The invariant is inductive.                                             *)
THEOREM PipelineStep == PipelineInv /\ [Next]_vars => PipelineInv'
<1> SUFFICES ASSUME PipelineInv, [Next]_vars PROVE PipelineInv'
  OBVIOUS
<1>1. CASE UNCHANGED vars
  <2>1. OutboxInv'
    BY <1>1, OutboxStepInv DEF PipelineInv, vars
  <2> QED
    BY <1>1, <2>1 DEF vars, outboxVars, consumerVars, PipelineInv, OutboxInv,
       PipelineTypeOK, AuditOnce, ConsumerSound, InLog
<1>2. CASE Next
  BY <1>2, OutboxSide, HandleInv, OffsetInv DEF Next, ConsumerStep
<1> QED
  BY <1>1, <1>2

(* The inductive invariant holds of every behaviour.                       *)
THEOREM PipelineInvariant == Spec => []PipelineInv
BY PipelineInit, PipelineStep, PTL DEF Spec

(* Every variable of the pipeline keeps its type; in particular a row      *)
(* never counts more than MaxAttempts failures.                            *)
THEOREM TypeCorrect == Spec => []PipelineTypeOK
<1>1. PipelineInv => PipelineTypeOK
  BY DEF PipelineInv
<1> QED
  BY <1>1, PipelineInvariant, PTL

(* No relay marks an event published that the broker does not have, and no *)
(* message precedes the commit of the change it tells of.                  *)
THEOREM LogIsFaithful == Spec => []LogFaithful
<1>1. PipelineInv => LogFaithful
  BY DEF PipelineInv, OutboxInv, LogFaithful
<1> QED
  BY <1>1, PipelineInvariant, PTL

(* A live tick has its rows to itself: each is PENDING, in exactly one hand *)
(* of the tick, and in no other live tick.                                 *)
THEOREM TicksAreIsolated == Spec => []TicksIsolated
<1>1. PipelineInv => TicksIsolated
  BY DEF PipelineInv, OutboxInv, TicksIsolated
<1> QED
  BY <1>1, PipelineInvariant, PTL

(* A row is FAILED exactly when it has used up its attempts.               *)
THEOREM QuarantinedAtLimit == Spec => []QuarantineAtLimit
<1>1. PipelineInv => QuarantineAtLimit
  BY DEF PipelineInv, OutboxInv
<1> QED
  BY <1>1, PipelineInvariant, PTL

(* The audit log has at most one row per event, only of messages, and one  *)
(* of every message that the committed offset has passed.                  *)
THEOREM AuditIsFaithful == Spec => []AuditFaithful
<1>1. PipelineInv => NothingSkipped
  <2> SUFFICES ASSUME PipelineInv PROVE NothingSkipped
    OBVIOUS
  <2>1. \A n \in Entities : offset[n] <= pos[n] /\ offset[n] \in Nat /\ pos[n] \in Nat
    BY DEF PipelineInv, PipelineTypeOK, ConsumerSound
  <2> QED
    BY <2>1 DEF PipelineInv, ConsumerSound, NothingSkipped
<1>2. PipelineInv => AuditFaithful
  BY <1>1 DEF PipelineInv, AuditFaithful
<1> QED
  BY <1>2, PipelineInvariant, PTL

-----------------------------------------------------------------------------
(* Settled rows                                                            *)

(* A tick touches only rows it holds, and those are PENDING when its       *)
(* commit takes effect: what is settled never changes.                     *)
LEMMA SettledStep ==
  ASSUME PipelineInv, OutboxNext, NEW e \in Events,
         status[e] \in {"PUBLISHED", "FAILED"}
  PROVE  status'[e] = status[e] /\ attempts'[e] = attempts[e]
<1>1. OutboxInv /\ TypeOK
  BY DEF PipelineInv, OutboxInv
<1>2. ASSUME NEW f \in Events, DomainStep(f) \/ BackoffElapses(f)
      PROVE  status'[e] = status[e] /\ attempts'[e] = attempts[e]
  BY <1>1, <1>2 DEF TypeOK, DomainStep, Add, EndDomainTx, BackoffElapses
<1>3. ASSUME NEW r \in Relays, CommitTick(r)
      PROVE  status'[e] = status[e] /\ attempts'[e] = attempts[e]
  BY <1>1, <1>3, CommitRows
<1>4. ASSUME NEW r \in Relays, RelayStep(r) \/ LoseTx(r) \/ CrashRelay(r), ~CommitTick(r)
      PROVE  status'[e] = status[e] /\ attempts'[e] = attempts[e]
  <2>1. UNCHANGED rowVars
    BY <1>4 DEF RelayStep, FetchPending, Emit, PublishOrThrow, MarkPublished,
                MarkFailed, TickRejects, LoseTx, CrashRelay
  <2> QED
    BY <2>1 DEF rowVars
<1> QED
  BY <1>2, <1>3, <1>4 DEF OutboxNext

(* Settled rows are final in every behaviour of the pipeline.              *)
THEOREM SettledRowsAreFinal == Spec => SettledIsFinal
<1> DEFINE Final == \A e \in Events : status[e] \in {"PUBLISHED", "FAILED"} =>
                        status'[e] = status[e] /\ attempts'[e] = attempts[e]
<1>1. PipelineInv /\ [Next]_vars => [Final]_outboxVars
  <2> SUFFICES ASSUME PipelineInv, [Next]_vars PROVE Final \/ UNCHANGED outboxVars
    OBVIOUS
  <2>1. CASE OutboxNext
    BY <2>1, SettledStep
  <2>2. CASE ~OutboxNext
    BY <2>2 DEF Next, vars, ConsumerStep, HandleMessage, CommitOffset, RestartConsumer
  <2> QED
    BY <2>1, <2>2
<1>2. Spec => [][Final]_outboxVars
  BY <1>1, PipelineInvariant, PTL DEF Spec
<1> QED
  BY <1>2 DEF SettledIsFinal

-----------------------------------------------------------------------------
(* Refinement of EventDelivery                                             *)

Fate == [e \in Events |-> FateOf(status[e])]

(* The abstract fate of an event, status by status.                        *)
LEMMA FateFacts ==
  ASSUME TypeOK
  PROVE  \A e \in Events :
            /\ status[e] \in {"NONE", "STAGED", "ABORTED"} => Fate[e] = "absent"
            /\ status[e] = "PENDING" => Fate[e] = "recorded"
            /\ status[e] = "PUBLISHED" => Fate[e] = "published"
            /\ status[e] = "FAILED" => Fate[e] = "quarantined"
BY DEF TypeOK, RowStatus, Fate, FateOf

(* A use case that commits records its event; nothing else it does shows.  *)
LEMMA UseCaseRefines ==
  ASSUME PipelineInv, NEW e \in Events, DomainStep(e) \/ BackoffElapses(e),
         UNCHANGED consumerVars
  PROVE  Delivery!Next \/ UNCHANGED Delivery!vars
<1>1. TypeOK /\ TypeOK'
  BY OutboxStepInv DEF PipelineInv, OutboxInv, OutboxNext
<1>2. UNCHANGED <<log, auditLog>>
  BY DEF DomainStep, Add, EndDomainTx, BackoffElapses, consumerVars
<1>3. CASE EndDomainTx(e, "PENDING")
  <2>1. Fate[e] = "absent"
    BY <1>1, <1>3, FateFacts DEF EndDomainTx
  <2>2. Fate' = [Fate EXCEPT ![e] = "recorded"]
    <3>1. status' = [status EXCEPT ![e] = "PENDING"] /\ FateOf("PENDING") = "recorded"
      BY <1>3 DEF EndDomainTx, FateOf
    <3>2. \A f \in Events : Fate'[f] = IF f = e THEN "recorded" ELSE Fate[f]
      BY <3>1, <1>1 DEF Fate, TypeOK
    <3> QED
      BY <3>2 DEF Fate
  <2>3. Delivery!Record(e)
    BY <2>1, <2>2, <1>2 DEF Delivery!Record, Fate
  <2> QED
    BY <2>3 DEF Delivery!Next
<1>4. CASE Add(e) \/ EndDomainTx(e, "ABORTED") \/ BackoffElapses(e)
  <2>1. Fate' = Fate
    <3>1. \A f \in Events : status'[f] = status[f]
            \/ {status[f], status'[f]} \subseteq {"NONE", "STAGED", "ABORTED"}
      BY <1>1, <1>4 DEF Add, EndDomainTx, BackoffElapses, TypeOK
    <3>2. \A f \in Events : Fate[f] = FateOf(status[f]) /\ Fate'[f] = FateOf(status'[f])
      BY DEF Fate
    <3>3. \A x \in {"NONE", "STAGED", "ABORTED"} : FateOf(x) = "absent"
      BY DEF FateOf
    <3>4. \A f \in Events : Fate'[f] = Fate[f]
      BY <3>1, <3>2, <3>3
    <3> QED
      BY <3>4 DEF Fate
  <2> QED
    BY <2>1, <1>2 DEF Delivery!vars, Fate
<1> QED
  BY <1>3, <1>4 DEF DomainStep

(* An emit that reaches the broker is an Emit, one that does not is none.  *)
LEMMA EmitRefines ==
  ASSUME PipelineInv, NEW r \in Relays, Emit(r), UNCHANGED consumerVars
  PROVE  Delivery!Next \/ UNCHANGED Delivery!vars
<1>1. PICK stored \in BOOLEAN, resolved \in BOOLEAN : PublishOrThrow(r, stored, resolved)
  BY Zenon DEF Emit
<1>2. UNCHANGED <<status, auditLog>>
  BY <1>1 DEF PublishOrThrow, rowVars, consumerVars
<1>3. Fate' = Fate
  BY <1>2 DEF Fate, FateOf
<1>4. PICK e \in batch[r] :
        log' = IF stored THEN [log EXCEPT ![EntityOf[e]] = Append(@, e)] ELSE log
  BY <1>1 DEF PublishOrThrow
<1>5. TypeOK /\ e \in Events /\ Recorded(e)
  BY <1>1 DEF PipelineInv, OutboxInv, TypeOK, TicksSound, TickSound, Held
<1>6. CASE stored
  <2>1. Fate[e] # "absent"
    BY <1>5, FateFacts DEF Recorded
  <2>2. Delivery!Emit(e)
    BY <2>1, <1>2, <1>3, <1>4, <1>6 DEF Delivery!Emit, Fate
  <2> QED
    BY <2>2, <1>5 DEF Delivery!Next
<1>7. CASE ~stored
  BY <1>2, <1>3, <1>4, <1>7 DEF Delivery!vars, Fate
<1> QED
  BY <1>6, <1>7

(* A commit settles the rows of its tick, all in one step.                 *)
LEMMA CommitRefines ==
  ASSUME PipelineInv, NEW r \in Relays, CommitTick(r), UNCHANGED consumerVars
  PROVE  Delivery!Next
<1> DEFINE Q == {e \in failed[r] : Exhausted(e)}
<1>1. OutboxInv /\ TypeOK /\ TypeOK'
  BY CommitInv DEF PipelineInv, OutboxInv
<1>2. done[r] \in SUBSET Events /\ failed[r] \in SUBSET Events
  BY <1>1 DEF TypeOK
<1>3. done[r] \cap failed[r] = {}
  BY <1>1 DEF CommitTick, OutboxInv, TicksSound, TickSound
<1>4. UNCHANGED <<log, auditLog>>
  BY DEF CommitTick, consumerVars
<1>5. \A e \in done[r] \cup Q : Fate[e] = "recorded"
  BY <1>1, <1>2, CommitRows, FateFacts
<1>6. \A e \in done[r] : Delivery!InStream(e)
  BY <1>1, CommitRows DEF InLog, Delivery!InStream
<1>7. \A e \in Events : Fate'[e] = IF e \in done[r] THEN "published"
                                   ELSE IF e \in Q THEN "quarantined"
                                   ELSE Fate[e]
  <2> SUFFICES ASSUME NEW e \in Events
               PROVE  Fate'[e] = IF e \in done[r] THEN "published"
                                 ELSE IF e \in Q THEN "quarantined" ELSE Fate[e]
    OBVIOUS
  <2>1. Fate[e] = FateOf(status[e]) /\ Fate'[e] = FateOf(status'[e])
    BY DEF Fate
  <2>2. CASE e \in done[r]
    BY <2>1, <2>2, <1>1, CommitRows DEF FateOf
  <2>3. CASE e \in Q
    BY <2>1, <2>3, <1>1, <1>3, CommitRows DEF FateOf
  <2>4. CASE e \notin done[r] /\ e \notin Q
    BY <2>1, <2>4, <1>1, CommitRows
  <2> QED
    BY <2>2, <2>3, <2>4
<1>8. Fate' = [e \in Events |-> IF e \in done[r] THEN "published"
                                ELSE IF e \in Q THEN "quarantined"
                                ELSE Fate[e]]
  BY <1>7 DEF Fate
<1>9. Delivery!Settle(done[r], Q)
  BY <1>2, <1>3, <1>4, <1>5, <1>6, <1>8 DEF Delivery!Settle, Fate
<1>10. Q \in SUBSET Events
  BY <1>2
<1> QED
  BY <1>2, <1>9, <1>10 DEF Delivery!Next

(* The first delivery of a message audits it, a redelivery changes nothing.*)
LEMMA HandleRefines ==
  ASSUME PipelineInv, NEW n \in Entities, HandleMessage(n)
  PROVE  Delivery!Next \/ UNCHANGED Delivery!vars
<1> DEFINE e == log[n][pos[n] + 1]
<1>1. /\ pos[n] < Len(log[n])
      /\ auditLog' = [auditLog EXCEPT ![e] = RowsAfterRecord(e)]
      /\ UNCHANGED outboxVars
  BY DEF HandleMessage
<1>2. TypeOK /\ pos[n] + 1 \in 1..Len(log[n]) /\ auditLog \in [Events -> Nat]
  <2>1. TypeOK /\ pos[n] \in Nat /\ auditLog \in [Events -> Nat]
    BY DEF PipelineInv, PipelineTypeOK
  <2>2. Len(log[n]) \in Nat
    BY <2>1 DEF TypeOK
  <2> QED
    BY <2>1, <2>2, <1>1
<1>3. e \in Events /\ EntityOf[e] = n
  BY <1>2, LogElement DEF PipelineInv, OutboxInv, LogKeyed
<1>4. Delivery!InStream(e)
  BY <1>2, <1>3 DEF Delivery!InStream
<1> HIDE DEF e
<1>5. Fate' = Fate /\ log' = log
  BY <1>1 DEF Fate, FateOf, outboxVars, rowVars
<1>6. CASE auditLog[e] = 0
  <2>1. Delivery!Audit(e)
    BY <1>1, <1>4, <1>5, <1>6 DEF RowsAfterRecord, Delivery!Audit, Fate
  <2> QED
    BY <2>1, <1>3 DEF Delivery!Next
<1>7. CASE auditLog[e] # 0
  <2>1. auditLog' = auditLog
    BY <1>1, <1>2, <1>3, <1>7 DEF RowsAfterRecord
  <2> QED
    BY <2>1, <1>5 DEF Delivery!vars, Fate
<1> QED
  BY <1>6, <1>7

(* Every step of the pipeline is a step of EventDelivery or stutters.      *)
LEMMA StepRefines == PipelineInv /\ [Next]_vars => [Delivery!Next]_(Delivery!vars)
<1> SUFFICES ASSUME PipelineInv, [Next]_vars
             PROVE  Delivery!Next \/ UNCHANGED Delivery!vars
  OBVIOUS
<1>1. CASE UNCHANGED <<status, log, auditLog>>
  <2>1. Fate' = Fate
    BY <1>1 DEF Fate, FateOf
  <2> QED
    BY <2>1, <1>1 DEF Delivery!vars, Fate
<1>2. CASE OutboxNext /\ UNCHANGED consumerVars
  <2>1. ASSUME NEW r \in Relays, RelayStep(r) \/ LoseTx(r) \/ CrashRelay(r),
               ~Emit(r), ~CommitTick(r)
        PROVE  UNCHANGED <<status, log, auditLog>>
    BY <2>1, <1>2 DEF RelayStep, FetchPending, MarkPublished, MarkFailed, TickRejects,
                LoseTx, CrashRelay, rowVars, consumerVars
  <2> QED
    BY <2>1, <1>1, <1>2, UseCaseRefines, EmitRefines, CommitRefines DEF OutboxNext
<1>3. CASE \E n \in Entities : ConsumerStep(n)
  <2>1. ASSUME NEW n \in Entities, CommitOffset(n) PROVE UNCHANGED <<status, log, auditLog>>
    BY <2>1 DEF CommitOffset, outboxVars, rowVars
  <2> QED
    BY <2>1, <1>1, <1>3, HandleRefines DEF ConsumerStep
<1>4. CASE RestartConsumer
  BY <1>4, <1>1 DEF RestartConsumer, outboxVars, rowVars
<1>5. CASE UNCHANGED vars
  BY <1>5, <1>1 DEF vars, outboxVars, rowVars, consumerVars
<1> QED
  BY <1>2, <1>3, <1>4, <1>5 DEF Next

(* The outbox, the relays, the Kafka log and the audit worker implement    *)
(* EventDelivery: one event per committed change, in the log at least once *)
(* unless quarantined, in the audit log at most once.                      *)
THEOREM PipelineImplementsDelivery == Spec => ImplementsDelivery
<1>1. Init => Delivery!Init
  <2> SUFFICES ASSUME Init PROVE Delivery!Init
    OBVIOUS
  <2>1. [e \in Events |-> FateOf(status[e])] = [e \in Events |-> "absent"]
    BY DEF Init, OutboxInit, FateOf
  <2> QED
    BY <2>1 DEF Init, OutboxInit, ConsumerInit, Delivery!Init
<1> QED
  BY <1>1, StepRefines, PipelineInvariant, PTL DEF Spec, ImplementsDelivery, Delivery!Spec

-----------------------------------------------------------------------------
(* How often an event can be in the Kafka log.  Every copy is paid for: by *)
(* the row's success, by a recorded failure, or by a lost transaction,     *)
(* which pays one copy of each row its tick has fetched and goes on        *)
(* emitting.                                                               *)


(* The ticks that will emit e though their transaction is gone.            *)
LostTicks(e) == {q \in Relays : tx[q] = "lost" /\ e \in batch[q]}

(* The success of e: on record, or a copy in the hands of a live tick.     *)
LiveCopy(e) ==
    \E q \in Relays : tx[q] = "live" /\ e \in {row[q]} \cup done[q] \cup failed[q]

Success(e) == IF status[e] = "PUBLISHED" \/ LiveCopy(e) THEN 1 ELSE 0

BudgetHolds(e) ==
    Copies(e) + Cardinality(LostTicks(e)) <= attempts[e] + rollbacks + Success(e)

BudgetInv == \A e \in Events : BudgetHolds(e)

CountIn(s, e) == Cardinality({i \in 1..Len(s) : s[i] = e})

(* Copies counts the partition of the event.                               *)
LEMMA CopiesCount ==
  \A e \in Events : Copies(e) = CountIn(log[EntityOf[e]], e)
BY DEF Copies, CountIn

(* An append of x adds one copy of x and none of anything else.            *)
LEMMA AppendCopies ==
  ASSUME NEW S, NEW s \in Seq(S), NEW e
  PROVE  /\ CountIn(s, e) \in Nat
         /\ \A x \in S : CountIn(Append(s, x), e) =
                            IF x = e THEN CountIn(s, e) + 1 ELSE CountIn(s, e)
<1> DEFINE A == {i \in 1..Len(s) : s[i] = e}
<1>1. IsFiniteSet(A)
  <2>1. IsFiniteSet(1..Len(s))
    BY FS_Interval
  <2> QED
    BY <2>1, FS_Subset
<1>2. Cardinality(A) \in Nat /\ CountIn(s, e) = Cardinality(A)
  BY <1>1, FS_CardinalityType DEF CountIn
<1>3. ASSUME NEW x \in S
      PROVE  CountIn(Append(s, x), e) =
                IF x = e THEN CountIn(s, e) + 1 ELSE CountIn(s, e)
  <2> DEFINE B == {i \in 1..Len(Append(s, x)) : Append(s, x)[i] = e}
  <2>1. /\ Len(Append(s, x)) = Len(s) + 1 /\ Len(s) \in Nat
        /\ Append(s, x)[Len(s) + 1] = x
        /\ \A i \in 1..Len(s) : Append(s, x)[i] = s[i]
    OBVIOUS
  <2>2. x = e => B = A \cup {Len(s) + 1} /\ Len(s) + 1 \notin A
    BY <2>1
  <2>3. x # e => B = A
    BY <2>1
  <2>4. CountIn(Append(s, x), e) = Cardinality(B)
    BY DEF CountIn
  <2> HIDE DEF A, B
  <2> QED
    BY <2>2, <2>3, <2>4, <1>1, <1>2, FS_AddElement
<1> QED
  BY <1>2, <1>3

(* The counts are numbers.                                                 *)
LEMMA BudgetTypes ==
  ASSUME OutboxInv, NEW e \in Events
  PROVE  /\ Copies(e) \in Nat /\ attempts[e] \in Nat /\ rollbacks \in Nat
         /\ IsFiniteSet(LostTicks(e)) /\ Cardinality(LostTicks(e)) \in Nat
         /\ Success(e) \in 0..1
<1> USE OutboxAssumption
<1>1. log[EntityOf[e]] \in Seq(Events)
  BY DEF OutboxInv, TypeOK
<1>2. Copies(e) \in Nat
  BY <1>1, AppendCopies, CopiesCount
<1>3. IsFiniteSet(LostTicks(e))
  BY FS_Subset DEF LostTicks
<1>4. Cardinality(LostTicks(e)) \in Nat
  BY <1>3, FS_CardinalityType
<1>5. attempts[e] \in Nat /\ rollbacks \in Nat
  BY DEF OutboxInv, TypeOK
<1> QED
  BY <1>2, <1>3, <1>4, <1>5 DEF Success

(* A row in the hands of a live tick is PENDING and in no other's.         *)
LEMMA LiveHolder ==
  ASSUME OutboxInv, NEW r \in Relays, tx[r] = "live", NEW e \in Events, e \in Held(r)
  PROVE  /\ status[e] = "PENDING"
         /\ LiveCopy(e) <=> e \in {row[r]} \cup done[r] \cup failed[r]
<1>1. status[e] = "PENDING"
  BY DEF OutboxInv, TicksSound, TickSound
<1>2. \A q \in Relays : tx[q] = "live" /\ e \in {row[q]} \cup done[q] \cup failed[q] => q = r
  BY OutboxAssumption DEF OutboxInv, LockExclusive, Held
<1> QED
  BY <1>1, <1>2 DEF LiveCopy

(* Nothing is in the log at first.                                         *)
LEMMA BudgetInit == Init => BudgetInv
<1> SUFFICES ASSUME Init, NEW e \in Events PROVE BudgetHolds(e)
  BY DEF BudgetInv
<1> USE OutboxAssumption
<1>1. OutboxInv
  BY PipelineInit DEF PipelineInv
<1>2. LostTicks(e) = {} /\ attempts[e] = 0 /\ rollbacks = 0
  BY DEF Init, OutboxInit, LostTicks
<1>3. {i \in 1..Len(log[EntityOf[e]]) : log[EntityOf[e]][i] = e} = {}
  BY DEF Init, OutboxInit
<1>4. Copies(e) = 0 /\ Cardinality(LostTicks(e)) = 0
  BY <1>2, <1>3, FS_EmptySet, CopiesCount DEF CountIn
<1> QED
  BY <1>1, <1>2, <1>4, BudgetTypes DEF BudgetHolds

(* An emit costs a copy.  A live tick pays with the success of the row, a  *)
(* lost one with the loss of its transaction.                              *)
LEMMA EmitBudget ==
  ASSUME OutboxInv, BudgetInv, NEW r \in Relays, Emit(r), NEW e \in Events
  PROVE  BudgetHolds(e)'
<1> USE OutboxAssumption
<1>1. PICK stored \in BOOLEAN, resolved \in BOOLEAN : PublishOrThrow(r, stored, resolved)
  BY Zenon DEF Emit
<1>2. PICK x \in batch[r] :
        /\ batch' = [batch EXCEPT ![r] = batch[r] \ {x}]
        /\ row' = [row EXCEPT ![r] = x]
        /\ log' = IF stored THEN [log EXCEPT ![EntityOf[x]] = Append(@, x)] ELSE log
  BY <1>1 DEF PublishOrThrow, OutboxInv, TypeOK
<1>3. /\ tx[r] \in {"live", "lost"} /\ UNCHANGED <<rowVars, tx, done, failed, rollbacks>>
  BY <1>1 DEF PublishOrThrow, OutboxInv, TypeOK
<1>4. x \in Events /\ x \in Held(r) /\ row[r] = NoEvent
  BY <1>1, <1>2 DEF PublishOrThrow, OutboxInv, TypeOK, Held, TicksSound, TickSound
<1>5. /\ row'[r] = x /\ batch'[r] = batch[r] \ {x}
      /\ \A q \in Relays \ {r} : row'[q] = row[q] /\ batch'[q] = batch[q]
  BY <1>2 DEF OutboxInv, TypeOK
<1>6. Copies(e)' = Copies(e) \/ (x = e /\ Copies(e)' = Copies(e) + 1)
  <2>1. log[EntityOf[e]] \in Seq(Events)
    BY DEF OutboxInv, TypeOK
  <2>2. log'[EntityOf[e]] = log[EntityOf[e]] \/ log'[EntityOf[e]] = Append(log[EntityOf[e]], x)
    BY <1>2 DEF OutboxInv, TypeOK
  <2>3. Copies(e)' = CountIn(log'[EntityOf[e]], e) /\ Copies(e) = CountIn(log[EntityOf[e]], e)
    BY DEF Copies, CountIn
  <2>4. CountIn(Append(log[EntityOf[e]], x), e) =
            IF x = e THEN CountIn(log[EntityOf[e]], e) + 1 ELSE CountIn(log[EntityOf[e]], e)
    BY <2>1, <1>4, AppendCopies
  <2> QED
    BY <2>2, <2>3, <2>4
<1>7. BudgetHolds(e) /\ OutboxInv'
  BY EmitInv DEF BudgetInv
<1>8. attempts'[e] = attempts[e] /\ rollbacks' = rollbacks /\ status'[e] = status[e]
  BY <1>3 DEF rowVars
<1>9. CASE x # e
  <2>1. LostTicks(e)' = LostTicks(e)
    BY <1>3, <1>5, <1>9 DEF LostTicks
  <2>2. LiveCopy(e)' <=> LiveCopy(e)
    BY <1>3, <1>4, <1>5, <1>9 DEF LiveCopy
  <2>3. Success(e)' = Success(e)
    BY <2>2, <1>8 DEF Success
  <2> QED
    BY <2>1, <2>3, <1>6, <1>7, <1>8, <1>9 DEF BudgetHolds
<1>10. CASE x = e /\ tx[r] = "live"
  <2>1. LostTicks(e)' = LostTicks(e)
    BY <1>3, <1>5, <1>10 DEF LostTicks
  <2>2. ~LiveCopy(e) /\ status[e] = "PENDING"
    <3>1. e \notin {row[r]} \cup done[r] \cup failed[r]
      BY <1>2, <1>4, <1>10 DEF OutboxInv, TicksSound, TickSound
    <3> QED
      BY <3>1, <1>4, <1>10, LiveHolder
  <2>3. LiveCopy(e)'
    BY <1>3, <1>5, <1>10 DEF LiveCopy
  <2>4. Success(e) = 0 /\ Success(e)' = 1
    BY <2>2, <2>3 DEF Success
  <2> QED
    BY <2>1, <2>4, <1>6, <1>7, <1>8, BudgetTypes DEF BudgetHolds
<1>11. CASE x = e /\ tx[r] = "lost"
  <2>1. LostTicks(e)' = LostTicks(e) \ {r} /\ r \in LostTicks(e)
    BY <1>2, <1>3, <1>5, <1>11 DEF LostTicks
  <2>2. Cardinality(LostTicks(e)') = Cardinality(LostTicks(e)) - 1
    BY <2>1, BudgetTypes, FS_RemoveElement
  <2>3. Success(e)' = Success(e)
    <3>1. LiveCopy(e)' <=> LiveCopy(e)
      BY <1>3, <1>5, <1>11 DEF LiveCopy
    <3> QED
      BY <3>1, <1>8 DEF Success
  <2> QED
    BY <2>2, <2>3, <1>6, <1>7, <1>8, BudgetTypes DEF BudgetHolds
<1> QED
  BY <1>3, <1>9, <1>10, <1>11

(* A commit turns the copies of its tick into successes and failures on    *)
(* record, which pay for them.                                             *)
LEMMA CommitBudget ==
  ASSUME OutboxInv, BudgetInv, NEW r \in Relays, CommitTick(r), NEW e \in Events
  PROVE  BudgetHolds(e)'
<1> USE OutboxAssumption
<1>1. EndTick(r) /\ tx[r] = "live" /\ UNCHANGED <<log, rollbacks>>
  BY DEF CommitTick
<1>2. BudgetHolds(e) /\ OutboxInv'
  BY CommitInv DEF BudgetInv
<1>3. Copies(e)' = Copies(e)
  BY <1>1 DEF Copies
<1>4. LostTicks(e)' = LostTicks(e)
  BY <1>1, EndTickFacts DEF LostTicks
<1>5. LiveCopy(e)' <=> \E q \in Relays \ {r} :
          tx[q] = "live" /\ e \in {row[q]} \cup done[q] \cup failed[q]
  BY <1>1, EndTickFacts DEF LiveCopy
<1>6. attempts'[e] = (IF e \in failed[r] THEN attempts[e] + 1 ELSE attempts[e])
  BY CommitRows
<1>7. CASE e \notin Held(r)
  <2>1. status'[e] = status[e]
    BY <1>7, CommitRows
  <2>2. LiveCopy(e)' <=> LiveCopy(e)
    BY <1>5, <1>7 DEF LiveCopy, Held
  <2>3. Success(e)' = Success(e)
    BY <2>1, <2>2 DEF Success
  <2>4. attempts'[e] = attempts[e]
    BY <1>6, <1>7 DEF Held
  <2> QED
    BY <2>3, <2>4, <1>1, <1>2, <1>3, <1>4 DEF BudgetHolds
<1>8. CASE e \in done[r]
  <2>1. status'[e] = "PUBLISHED"
    BY <1>8, CommitRows
  <2>2. Success(e)' = 1
    BY <2>1 DEF Success
  <2>3. e \notin failed[r]
    BY <1>1, <1>8 DEF OutboxInv, TicksSound, TickSound
  <2> QED
    BY <2>2, <2>3, <1>1, <1>2, <1>3, <1>4, <1>6, BudgetTypes DEF BudgetHolds
<1>9. CASE e \in failed[r]
  <2>1. Success(e)' \in 0..1
    BY <1>2 DEF Success
  <2> QED
    BY <2>1, <1>1, <1>2, <1>3, <1>4, <1>6, <1>9, BudgetTypes DEF BudgetHolds
<1> QED
  BY <1>7, <1>8, <1>9, CommitRows

(* A transaction that is lost, or dies with its process, pays for the copy *)
(* its tick has made of a row or may still make.                           *)
LEMMA LossBudget ==
  ASSUME OutboxInv, BudgetInv, NEW r \in Relays, NEW e \in Events,
         LoseTx(r) \/ CrashRelay(r) \/ TickRejects(r)
  PROVE  BudgetHolds(e)'
<1> USE OutboxAssumption
<1>1. BudgetHolds(e) /\ UNCHANGED <<rowVars, log>>
  BY DEF BudgetInv, LoseTx, CrashRelay, TickRejects
<1>2. Copies(e)' = Copies(e) /\ attempts'[e] = attempts[e] /\ status'[e] = status[e]
  BY <1>1 DEF Copies, rowVars
<1>3. Success(e)' \in 0..1
  BY DEF Success
<1>4. CASE LoseTx(r)
  <2>1. tx[r] = "live" /\ rollbacks' = rollbacks + 1 /\ batch' = batch /\ row' = row
    BY <1>4 DEF LoseTx
  <2>2. /\ tx'[r] = "lost" /\ done'[r] = {} /\ failed'[r] = {}
        /\ \A q \in Relays \ {r} : UNCHANGED <<tx[q], done[q], failed[q]>>
    BY <1>4 DEF LoseTx, OutboxInv, TypeOK
  <2>3. CASE e \in batch[r]
    <3>1. LostTicks(e)' = LostTicks(e) \cup {r} /\ r \notin LostTicks(e)
      BY <2>1, <2>2, <2>3 DEF LostTicks
    <3>2. Cardinality(LostTicks(e)') = Cardinality(LostTicks(e)) + 1
      BY <3>1, BudgetTypes, FS_AddElement
    <3>3. ~LiveCopy(e) /\ status[e] = "PENDING"
      <4>1. e \in Held(r) /\ e \notin {row[r]} \cup done[r] \cup failed[r]
        BY <2>1, <2>3 DEF Held, OutboxInv, TicksSound, TickSound
      <4> QED
        BY <4>1, <2>1, LiveHolder
    <3>4. Success(e) = 0
      BY <3>3 DEF Success
    <3> QED
      BY <3>2, <3>4, <2>1, <1>1, <1>2, <1>3, BudgetTypes DEF BudgetHolds
  <2>4. CASE e \notin batch[r]
    <3>1. LostTicks(e)' = LostTicks(e)
      BY <2>1, <2>2, <2>4 DEF LostTicks
    <3> QED
      BY <3>1, <2>1, <1>1, <1>2, <1>3, BudgetTypes DEF BudgetHolds
  <2> QED
    BY <2>3, <2>4
<1>5. CASE CrashRelay(r) \/ TickRejects(r)
  <2>1. EndTick(r)
    BY <1>5 DEF CrashRelay, TickRejects
  <2>2. LostTicks(e)' \in SUBSET LostTicks(e)
    BY <2>1, EndTickFacts DEF LostTicks
  <2>3. Cardinality(LostTicks(e)') <= Cardinality(LostTicks(e))
        /\ Cardinality(LostTicks(e)') \in Nat
    BY <2>2, BudgetTypes, FS_Subset, FS_CardinalityType
  <2>4. rollbacks' = rollbacks + 1 \/ (tx[r] = "lost" /\ rollbacks' = rollbacks)
    BY <1>5 DEF CrashRelay, TickRejects
  <2>5. CASE rollbacks' = rollbacks + 1
    BY <2>3, <2>5, <1>1, <1>2, <1>3, BudgetTypes DEF BudgetHolds
  <2>6. CASE tx[r] = "lost" /\ rollbacks' = rollbacks
    <3>1. LiveCopy(e)' <=> LiveCopy(e)
      BY <2>1, <2>6, EndTickFacts DEF LiveCopy
    <3>2. Success(e)' = Success(e)
      BY <3>1, <1>2 DEF Success
    <3> QED
      BY <3>2, <2>3, <2>6, <1>1, <1>2, BudgetTypes DEF BudgetHolds
  <2> QED
    BY <2>4, <2>5, <2>6
<1> QED
  BY <1>4, <1>5

(* The other steps add no copy and leave what pays for the old ones.       *)
LEMMA QuietBudget ==
  ASSUME OutboxInv, BudgetInv, NEW e \in Events,
         UNCHANGED <<log, attempts, rollbacks>>,
         status[e] = "PUBLISHED" => status'[e] = "PUBLISHED",
         LostTicks(e)' = LostTicks(e), LiveCopy(e) => LiveCopy(e)'
  PROVE  BudgetHolds(e)'
<1>1. Copies(e)' = Copies(e)
  BY DEF Copies
<1>2. Success(e) <= Success(e)' /\ Success(e)' \in 0..1
  BY DEF Success
<1> QED
  BY <1>1, <1>2, BudgetTypes DEF BudgetHolds, BudgetInv

(* Use cases, fetches and marks are such steps.                            *)
LEMMA QuietSteps ==
  ASSUME OutboxInv, BudgetInv, NEW e \in Events,
         \/ \E f \in Events : DomainStep(f) \/ BackoffElapses(f)
         \/ \E r \in Relays : FetchPending(r) \/ MarkPublished(r) \/ MarkFailed(r)
  PROVE  BudgetHolds(e)'
<1> USE OutboxAssumption
<1>1. CASE \E f \in Events : DomainStep(f) \/ BackoffElapses(f)
  <2>1. UNCHANGED <<log, attempts, rollbacks, tickVars>>
    BY <1>1 DEF DomainStep, Add, EndDomainTx, BackoffElapses
  <2>2. status[e] = "PUBLISHED" => status'[e] = "PUBLISHED"
    BY <1>1 DEF DomainStep, Add, EndDomainTx, BackoffElapses, OutboxInv, TypeOK
  <2>3. LostTicks(e)' = LostTicks(e) /\ (LiveCopy(e)' <=> LiveCopy(e))
    BY <2>1 DEF LostTicks, LiveCopy, tickVars
  <2> QED
    BY <2>1, <2>2, <2>3, QuietBudget
<1>2. ASSUME NEW r \in Relays, FetchPending(r) PROVE BudgetHolds(e)'
  <2>1. /\ tx[r] = "none" /\ tx'[r] = "live" /\ UNCHANGED <<log, rowVars, rollbacks>>
        /\ UNCHANGED <<row, done, failed>>
        /\ \A q \in Relays \ {r} : tx'[q] = tx[q] /\ batch'[q] = batch[q]
    BY <1>2 DEF FetchPending, OutboxInv, TypeOK
  <2>2. LostTicks(e)' = LostTicks(e) /\ (LiveCopy(e) => LiveCopy(e)')
    BY <2>1 DEF LostTicks, LiveCopy
  <2> QED
    BY <2>1, <2>2, QuietBudget DEF rowVars
<1>3. ASSUME NEW r \in Relays, MarkPublished(r) \/ MarkFailed(r) PROVE BudgetHolds(e)'
  <2>1. UNCHANGED <<log, rowVars, rollbacks, tx, batch>>
    BY <1>3 DEF MarkPublished, MarkFailed
  <2>2. \A q \in Relays : {row[q]} \cup done[q] \cup failed[q]
            \subseteq {row'[q]} \cup done'[q] \cup failed'[q]
    <3>1. CASE MarkPublished(r)
      BY <3>1 DEF MarkPublished, OutboxInv, TypeOK
    <3>2. CASE MarkFailed(r)
      BY <3>2 DEF MarkFailed, OutboxInv, TypeOK
    <3> QED
      BY <1>3, <3>1, <3>2
  <2>3. LostTicks(e)' = LostTicks(e) /\ (LiveCopy(e) => LiveCopy(e)')
    BY <2>1, <2>2 DEF LostTicks, LiveCopy
  <2> QED
    BY <2>1, <2>3, QuietBudget DEF rowVars
<1> QED
  BY <1>1, <1>2, <1>3

(* The budget is kept by every step.                                       *)
LEMMA BudgetStep == PipelineInv /\ BudgetInv /\ [Next]_vars => BudgetInv'
<1> SUFFICES ASSUME PipelineInv, BudgetInv, [Next]_vars, NEW e \in Events
             PROVE  BudgetHolds(e)'
  BY DEF BudgetInv
<1>1. OutboxInv
  BY DEF PipelineInv
<1>2. CASE UNCHANGED outboxVars
  <2>1. UNCHANGED <<log, status, attempts, rollbacks, tx, batch, row, done, failed>>
    BY <1>2 DEF outboxVars, rowVars, tickVars
  <2>2. LostTicks(e)' = LostTicks(e) /\ (LiveCopy(e)' <=> LiveCopy(e))
    BY <2>1 DEF LostTicks, LiveCopy
  <2> QED
    BY <1>1, <2>1, <2>2, QuietBudget
<1>3. CASE OutboxNext
  BY <1>1, <1>3, EmitBudget, CommitBudget, LossBudget, QuietSteps DEF OutboxNext, RelayStep
<1> QED
  BY <1>2, <1>3 DEF Next, vars, ConsumerStep, HandleMessage, CommitOffset, RestartConsumer

(* No event is in the log more often than its success, its recorded        *)
(* failures and the lost transactions explain; a quarantined one has no    *)
(* success.                                                                *)
THEOREM DuplicatesAreExplained == Spec => []DuplicatesExplained
<1>1. Spec => []BudgetInv
  BY BudgetInit, BudgetStep, PipelineInvariant, PTL DEF Spec
<1>2. PipelineInv /\ BudgetInv => DuplicatesExplained
  <2> SUFFICES ASSUME PipelineInv, BudgetInv, NEW e \in Events
               PROVE  Copies(e) <= attempts[e] + rollbacks
                                    + IF status[e] = "FAILED" THEN 0 ELSE 1
    BY DEF DuplicatesExplained
  <2>1. OutboxInv /\ BudgetHolds(e)
    BY DEF PipelineInv, BudgetInv
  <2>2. status[e] = "FAILED" => ~LiveCopy(e)
    <3>1. \A q \in Relays : tx[q] = "live" /\ e \in {row[q]} \cup done[q] \cup failed[q]
              => e \in Held(q)
      BY OutboxAssumption DEF Held
    <3> QED
      BY <3>1, <2>1, LiveHolder DEF LiveCopy
  <2>3. status[e] = "FAILED" => Success(e) = 0
    BY <2>2 DEF Success
  <2> QED
    BY <2>1, <2>3, BudgetTypes DEF BudgetHolds
<1> QED
  BY <1>1, <1>2, PipelineInvariant, PTL

-----------------------------------------------------------------------------
(* Republishing *)

(* Only a tick that has lost its transaction emits what is PUBLISHED: the  *)
(* one way in which several relays publish a row after it is settled.      *)
RepublishedByLostTicks ==
    [][\A e \in Events : status[e] = "PUBLISHED" /\ Copies(e)' # Copies(e) =>
            \E r \in Relays : tx[r] = "lost" /\ e \in batch[r]]_outboxVars

(* The step of a tick that adds a copy of e has e in its batch.            *)
LEMMA CopyFromBatch ==
  ASSUME OutboxInv, [OutboxNext]_outboxVars, NEW e \in Events, Copies(e)' # Copies(e)
  PROVE  \E r \in Relays : tx[r] # "none" /\ e \in batch[r]
<1>1. CASE UNCHANGED log
  BY <1>1 DEF Copies
<1>2. ASSUME NEW r \in Relays, Emit(r) PROVE tx[r] # "none" /\ e \in batch[r]
  <2>1. PICK stored \in BOOLEAN, resolved \in BOOLEAN : PublishOrThrow(r, stored, resolved)
    BY <1>2, Zenon DEF Emit
  <2>2. PICK x \in batch[r] :
          log' = IF stored THEN [log EXCEPT ![EntityOf[x]] = Append(@, x)] ELSE log
    BY <2>1 DEF PublishOrThrow
  <2>3. tx[r] # "none" /\ x \in Events /\ EntityOf[e] \in Entities /\ EntityOf[x] \in Entities
    BY <2>1, OutboxAssumption DEF PublishOrThrow, OutboxInv, TypeOK
  <2>4. CASE x # e
    <3>1. log[EntityOf[e]] \in Seq(Events) /\ log \in [Entities -> Seq(Events)]
      BY <2>3 DEF OutboxInv, TypeOK
    <3>2. \/ log'[EntityOf[e]] = log[EntityOf[e]]
          \/ log'[EntityOf[e]] = Append(log[EntityOf[e]], x)
      BY <2>2, <2>3, <3>1
    <3>3. CountIn(Append(log[EntityOf[e]], x), e) = CountIn(log[EntityOf[e]], e)
      BY <3>1, <2>3, <2>4, AppendCopies
    <3>4. Copies(e)' = CountIn(log'[EntityOf[e]], e) /\ Copies(e) = CountIn(log[EntityOf[e]], e)
      BY DEF Copies, CountIn
    <3> QED
      BY <3>2, <3>3, <3>4
  <2> QED
    BY <2>3, <2>4
<1> QED
  BY <1>1, <1>2 DEF OutboxNext, RelayStep, DomainStep, Add, EndDomainTx, BackoffElapses,
     FetchPending, MarkPublished, MarkFailed, CommitTick, TickRejects, LoseTx, CrashRelay,
     outboxVars

(* Whatever is emitted after it is PUBLISHED is emitted by a lost tick.    *)
THEOREM OnlyLostTicksRepublish == Spec => RepublishedByLostTicks
<1>1. PipelineInv /\ [Next]_vars =>
        [\A e \in Events : status[e] = "PUBLISHED" /\ Copies(e)' # Copies(e) =>
            \E r \in Relays : tx[r] = "lost" /\ e \in batch[r]]_outboxVars
  <2> SUFFICES ASSUME PipelineInv, [Next]_vars, NEW e \in Events,
                      status[e] = "PUBLISHED", Copies(e)' # Copies(e)
               PROVE  \E r \in Relays : tx[r] = "lost" /\ e \in batch[r]
    OBVIOUS
  <2>1. OutboxInv /\ [OutboxNext]_outboxVars
    BY DEF PipelineInv, Next, vars, ConsumerStep, HandleMessage, CommitOffset, RestartConsumer
  <2>2. PICK r \in Relays : tx[r] # "none" /\ e \in batch[r]
    BY <2>1, CopyFromBatch
  <2>3. tx[r] # "live"
    BY <2>1, <2>2 DEF OutboxInv, TicksSound, TickSound, Held
  <2> QED
    BY <2>1, <2>2, <2>3 DEF OutboxInv, TypeOK
<1> QED
  BY <1>1, PipelineInvariant, PTL DEF Spec, RepublishedByLostTicks

-----------------------------------------------------------------------------
(* Order within an entity *)

(* createdAt ranks the rows by their inserts: an event is younger than the *)
(* one it builds on.  A row waits for its backoff only after a failure.    *)
RowsDated ==
    /\ \A e \in Events : status[e] = "NONE" <=> createdAt[e] = 0
    /\ \A e \in Events : createdAt[e] <= Cardinality({f \in Events : createdAt[f] > 0})
    /\ \A e \in Events : ~due[e] => attempts[e] > 0
    /\ \A e \in Events : status[e] # "NONE" /\ Cause[e] # NoEvent =>
            Recorded(Cause[e]) /\ createdAt[Cause[e]] < createdAt[e]

(* e builds on c and is about the same entity.                             *)
Builds(e, c) == c = Cause[e] /\ EntityOf[c] = EntityOf[e]

(* No copy of e comes before c, and none will: a tick with e in its batch  *)
(* has c there as well, unless c is out or its emit has just failed.       *)
CauseFirst(e, c) ==
    /\ \A i \in 1..Len(log[EntityOf[c]]) :
            log[EntityOf[c]][i] = e => Before(EntityOf[c], i, c)
    /\ \A r \in Relays : e \in batch[r] =>
            c \in batch[r] \/ InLog(c) \/ (c = row[r] /\ step[r] = "catch")

OneRelay == \A r, q \in Relays : r = q

OrderInv ==
    /\ RowsDated
    /\ OneRelay /\ rollbacks = 0 =>
          \A e, c \in Events : Builds(e, c) /\ Untroubled(c) => CauseFirst(e, c)

(* Nothing is in the table or in the log at first.                         *)
LEMMA OrderInit == Init => OrderInv
<1> SUFFICES ASSUME Init PROVE OrderInv
  OBVIOUS
<1> USE OutboxAssumption
<1>1. {f \in Events : createdAt[f] > 0} = {}
  BY DEF Init, OutboxInit
<1>2. RowsDated
  <2>1. Cardinality({f \in Events : createdAt[f] > 0}) = 0
    BY <1>1, FS_EmptySet
  <2>2. \A e \in Events : status[e] = "NONE" /\ createdAt[e] = 0 /\ due[e]
    BY DEF Init, OutboxInit
  <2> QED
    BY <2>1, <2>2 DEF RowsDated
<1>3. ASSUME NEW e \in Events, NEW c \in Events PROVE CauseFirst(e, c)
  BY DEF Init, OutboxInit, CauseFirst
<1> QED
  BY <1>2, <1>3 DEF OrderInv

(* A new row gets the highest rank, above that of the row it builds on.    *)
LEMMA AddDated ==
  ASSUME OutboxInv, RowsDated, NEW e \in Events, Add(e)
  PROVE  RowsDated'
<1> USE OutboxAssumption
<1> DEFINE Rows == {f \in Events : createdAt[f] > 0}
<1>1. /\ status[e] = "NONE" /\ status' = [status EXCEPT ![e] = "STAGED"]
      /\ createdAt' = [createdAt EXCEPT ![e] = 1 + Cardinality(Rows)]
      /\ UNCHANGED <<attempts, due>>
      /\ Cause[e] # NoEvent => Recorded(Cause[e])
  BY DEF Add
<1>2. IsFiniteSet(Rows) /\ Cardinality(Rows) \in Nat /\ e \notin Rows
  BY <1>1, FS_Subset, FS_CardinalityType DEF RowsDated
<1>3. /\ createdAt'[e] = 1 + Cardinality(Rows) /\ status'[e] = "STAGED"
      /\ \A f \in Events \ {e} : createdAt'[f] = createdAt[f] /\ status'[f] = status[f]
      /\ \A f \in Events : createdAt[f] \in Nat
  BY <1>1 DEF OutboxInv, TypeOK
<1>4. Rows' = Rows \cup {e}
  <2>1. createdAt'[e] > 0
    BY <1>2, <1>3
  <2> QED
    BY <1>3, <2>1
<1>5. Cardinality(Rows') = Cardinality(Rows) + 1
  BY <1>2, <1>4, FS_AddElement
<1>6. \A f \in Events : Recorded(f) => f # e /\ Recorded(f)'
  BY <1>1, <1>3 DEF Recorded
<1>7. \A f \in Events : createdAt'[f] <= Cardinality(Rows')
  BY <1>2, <1>5, <1>3 DEF RowsDated
<1>8. \A f \in Events : status'[f] = "NONE" <=> createdAt'[f] = 0
  BY <1>2, <1>3 DEF RowsDated
<1>9. ASSUME NEW f \in Events, status'[f] # "NONE", Cause[f] # NoEvent
      PROVE  Recorded(Cause[f])' /\ createdAt'[Cause[f]] < createdAt'[f]
  <2>1. Cause[f] \in Events
    BY <1>9
  <2>2. CASE f = e
    <3>1. Recorded(Cause[e]) /\ createdAt[Cause[e]] <= Cardinality(Rows)
      BY <1>1, <1>9, <2>1, <2>2 DEF RowsDated
    <3> QED
      BY <3>1, <2>1, <2>2, <1>2, <1>3, <1>6
  <2>3. CASE f # e
    <3>1. Recorded(Cause[f]) /\ createdAt[Cause[f]] < createdAt[f]
      BY <1>3, <1>9, <2>3 DEF RowsDated
    <3> QED
      BY <3>1, <2>1, <2>3, <1>3, <1>6
  <2> QED
    BY <2>2, <2>3
<1>10. \A f \in Events : ~due'[f] => attempts'[f] > 0
  BY <1>1 DEF RowsDated
<1> HIDE DEF Rows
<1> QED
  BY <1>7, <1>8, <1>9, <1>10 DEF RowsDated, Rows

(* Afterwards a row keeps its rank, and a recorded one stays recorded.     *)
LEMMA DatesStay ==
  ASSUME OutboxInv, RowsDated, createdAt' = createdAt,
         \A e \in Events : (status'[e] = "NONE" <=> status[e] = "NONE")
                           /\ (Recorded(e) => Recorded(e)')
                           /\ (~due'[e] => attempts'[e] > 0)
  PROVE  RowsDated'
<1>1. ASSUME NEW e \in Events, status'[e] # "NONE", Cause[e] # NoEvent
      PROVE  Recorded(Cause[e])' /\ createdAt[Cause[e]] < createdAt[e]
  <2>1. Cause[e] \in Events /\ Recorded(Cause[e]) /\ createdAt[Cause[e]] < createdAt[e]
    BY <1>1, OutboxAssumption DEF RowsDated
  <2> QED
    BY <2>1
<1> QED
  BY <1>1 DEF RowsDated

(* The steps of the outbox keep the ranks in order.                        *)
LEMMA DatedStep ==
  ASSUME OutboxInv, RowsDated, [OutboxNext]_outboxVars
  PROVE  RowsDated'
<1> USE OutboxAssumption
<1>1. CASE UNCHANGED rowVars
  BY <1>1, DatesStay DEF rowVars, Recorded, RowsDated
<1>2. ASSUME NEW e \in Events, DomainStep(e) \/ BackoffElapses(e) PROVE RowsDated'
  <2>1. CASE EndDomainTx(e, "PENDING") \/ EndDomainTx(e, "ABORTED")
    <3>1. PICK o \in {"PENDING", "ABORTED"} : EndDomainTx(e, o)
      BY <2>1, Zenon
    <3>2. /\ status[e] = "STAGED" /\ status'[e] = o /\ UNCHANGED <<createdAt, attempts, due>>
          /\ \A f \in Events \ {e} : status'[f] = status[f]
      BY <3>1 DEF EndDomainTx, OutboxInv, TypeOK
    <3> QED
      BY <3>2, DatesStay DEF Recorded, RowsDated
  <2>2. CASE BackoffElapses(e)
    <3>1. UNCHANGED <<status, createdAt, attempts>> /\ \A f \in Events : due[f] => due'[f]
      BY <2>2 DEF BackoffElapses, OutboxInv, TypeOK
    <3> QED
      BY <3>1, DatesStay DEF Recorded, RowsDated
  <2> QED
    BY <1>2, <2>1, <2>2, AddDated DEF DomainStep
<1>3. ASSUME NEW r \in Relays, CommitTick(r) PROVE RowsDated'
  <2>1. /\ createdAt' = createdAt
        /\ due' = [e \in Events |-> IF e \in failed[r] /\ ~Exhausted(e) THEN FALSE ELSE due[e]]
    BY <1>3 DEF CommitTick
  <2>2. \A e \in Events : attempts[e] \in Nat
    BY DEF OutboxInv, TypeOK
  <2>3. \A e \in Events : /\ status'[e] = "NONE" <=> status[e] = "NONE"
                          /\ Recorded(e) => Recorded(e)'
    BY <1>3, CommitRows DEF Recorded
  <2>4. \A e \in Events : ~due'[e] => attempts'[e] > 0
    BY <1>3, <2>1, <2>2, CommitRows DEF RowsDated
  <2> QED
    BY <2>1, <2>3, <2>4, DatesStay
<1> QED
  BY <1>1, <1>2, <1>3 DEF OutboxNext, RelayStep, Emit, PublishOrThrow, FetchPending,
     MarkPublished, MarkFailed, TickRejects, LoseTx, CrashRelay, outboxVars

(* What is younger than c does not go out before it.                       *)
LEMMA Younger ==
  ASSUME OutboxInv, RowsDated, NEW e \in Events, NEW c \in Events, Builds(e, c), Recorded(e)
  PROVE  /\ Recorded(c) /\ createdAt[c] < createdAt[e] /\ e # c
         /\ createdAt[c] \in Nat /\ createdAt[e] \in Nat
<1>1. Recorded(c) /\ createdAt[c] < createdAt[e]
  BY OutboxAssumption DEF RowsDated, Builds, Recorded
<1> QED
  BY <1>1 DEF OutboxInv, TypeOK

(* A step that adds nothing to the log, the batches and the failed emits   *)
(* on their way leaves the order alone.                                    *)
LEMMA OrderStays ==
  ASSUME OutboxInv, OrderInv, RowsDated', log' = log, OneRelay => rollbacks' # 0 \/ rollbacks' = rollbacks,
         OneRelay /\ rollbacks' = 0 =>
            \A c \in Events : Untroubled(c)' => Untroubled(c) /\ \A r \in Relays :
                /\ batch'[r] \in {batch[r], {}}
                /\ c = row[r] /\ step[r] = "catch" /\ batch'[r] # {} =>
                      row'[r] = c /\ step'[r] = "catch"
  PROVE  OrderInv'
<1> SUFFICES ASSUME OneRelay, rollbacks' = 0, NEW e \in Events, NEW c \in Events,
                    Builds(e, c), Untroubled(c)'
             PROVE  CauseFirst(e, c)'
  BY DEF OrderInv, OneRelay, Builds
<1>1. CauseFirst(e, c)
  BY DEF OrderInv
<1>2. ASSUME NEW r \in Relays, e \in batch'[r]
      PROVE  c \in batch'[r] \/ InLog(c) \/ (c = row'[r] /\ step'[r] = "catch")
  BY <1>1, <1>2 DEF CauseFirst
<1>3. InLog(c)' <=> InLog(c)
  BY DEF InLog
<1> QED
  BY <1>1, <1>2, <1>3 DEF CauseFirst, Before

(* A poll takes the oldest rows: with e it takes c, unless c is out.       *)
LEMMA FetchOrder ==
  ASSUME OutboxInv, OrderInv, RowsDated', NEW r \in Relays, FetchPending(r)
  PROVE  OrderInv'
<1> USE OutboxAssumption
<1>1. PICK B \in SUBSET {f \in Events : Fetchable(f)} :
          OldestOf(B, {f \in Events : Fetchable(f)}) /\ batch' = [batch EXCEPT ![r] = B]
  BY DEF FetchPending
<1>2. tx[r] = "none" /\ UNCHANGED <<rowVars, row, failed, log, rollbacks>>
  BY DEF FetchPending
<1> SUFFICES ASSUME OneRelay, rollbacks = 0, NEW e \in Events, NEW c \in Events,
                    Builds(e, c), Untroubled(c)'
             PROVE  CauseFirst(e, c)'
  BY <1>2 DEF OrderInv, OneRelay, Builds
<1>3. Untroubled(c) /\ CauseFirst(e, c)
  BY <1>2 DEF OrderInv, Untroubled, rowVars
<1>4. ASSUME NEW q \in Relays, e \in batch'[q] PROVE c \in batch'[q] \/ InLog(c)
  <2>1. q = r /\ batch'[q] = B
    BY <1>1 DEF OneRelay, OutboxInv, TypeOK
  <2>2. Fetchable(e) /\ e \in B
    BY <1>1, <1>4, <2>1
  <2>3. Recorded(c) /\ createdAt[c] < createdAt[e] /\ createdAt[c] \in Nat /\ createdAt[e] \in Nat
    BY <2>2, Younger DEF Fetchable, Recorded, OrderInv
  <2>4. CASE status[c] = "PENDING"
    <3>1. attempts[c] = 0 /\ due[c]
      BY <1>3 DEF Untroubled, OrderInv, RowsDated
    <3>2. ~Locked(c)
      BY <1>2 DEF Locked, OneRelay
    <3>3. Fetchable(c)
      BY <2>4, <3>1, <3>2 DEF Fetchable
    <3> QED
      BY <1>1, <2>1, <2>2, <2>3, <3>3 DEF OldestOf
  <2>5. CASE status[c] = "PUBLISHED"
    BY <2>5 DEF OutboxInv, NoEventLost
  <2>6. status[c] # "FAILED"
    BY <1>3 DEF Untroubled, OutboxInv, QuarantineAtLimit
  <2> QED
    BY <2>3, <2>4, <2>5, <2>6 DEF Recorded
<1>5. InLog(c)' <=> InLog(c)
  BY <1>2 DEF InLog
<1> QED
  BY <1>2, <1>3, <1>4, <1>5 DEF CauseFirst, Before

(* A tick emits its rows oldest first: c before e.                         *)
LEMMA EmitOrder ==
  ASSUME OutboxInv, OrderInv, RowsDated', NEW r \in Relays, Emit(r)
  PROVE  OrderInv'
<1> USE OutboxAssumption
<1>1. PICK stored \in BOOLEAN, resolved \in BOOLEAN : PublishOrThrow(r, stored, resolved)
  BY Zenon DEF Emit
<1>2. PICK x \in batch[r] :
        /\ IsNextRow(r, x)
        /\ batch' = [batch EXCEPT ![r] = batch[r] \ {x}]
        /\ row' = [row EXCEPT ![r] = x]
        /\ log' = IF stored THEN [log EXCEPT ![EntityOf[x]] = Append(@, x)] ELSE log
  BY <1>1 DEF PublishOrThrow, OutboxInv, TypeOK
<1>3. /\ step[r] = "emit" /\ (resolved => stored)
      /\ step' = [step EXCEPT ![r] = IF resolved THEN "mark" ELSE "catch"]
      /\ UNCHANGED <<rowVars, failed, rollbacks>>
  BY <1>1 DEF PublishOrThrow, AfterRejection
<1> SUFFICES ASSUME OneRelay, rollbacks = 0, NEW e \in Events, NEW c \in Events,
                    Builds(e, c), Untroubled(c)'
             PROVE  CauseFirst(e, c)'
  BY <1>3 DEF OrderInv, OneRelay, Builds
<1> DEFINE n == EntityOf[c]
<1>4. /\ CauseFirst(e, c) /\ n \in Entities /\ EntityOf[e] = n /\ RowsDated
      /\ log[n] \in Seq(Events) /\ log \in [Entities -> Seq(Events)]
      /\ x \in Events /\ EntityOf[x] \in Entities /\ Recorded(x)
  BY <1>2, <1>3 DEF OrderInv, Untroubled, rowVars, Builds, OutboxInv, TypeOK, TicksSound, TickSound, Held
<1>5. \/ log'[n] = log[n] /\ (stored => x # c)
      \/ EntityOf[x] = n /\ stored /\ log'[n] = Append(log[n], x)
  BY <1>2, <1>4
<1>6. /\ \A i \in 1..Len(log[n]) : i \in 1..Len(log'[n]) /\ log'[n][i] = log[n][i]
      /\ \A i \in 1..Len(log'[n]) :
            i \in 1..Len(log[n]) \/ (i = Len(log[n]) + 1 /\ log'[n][i] = x)
      /\ Len(log[n]) \in Nat
      /\ InLog(c) => InLog(c)'
  <2>1. PICK s, t : s = log[n] /\ t = log'[n] /\ s \in Seq(Events)
    BY <1>4
  <2>2. t = s \/ t = Append(s, x)
    BY <1>5, <2>1
  <2>3. \A i \in 1..Len(s) : i \in 1..Len(t) /\ t[i] = s[i]
    <3>1. x \in Events /\ s \in Seq(Events)
      BY <1>4, <2>1
    <3>2. \A i \in 1..Len(s) : i \in 1..Len(Append(s, x)) /\ Append(s, x)[i] = s[i]
      BY <3>1, AppendFacts
    <3> QED
      BY <2>2, <3>2, Zenon
  <2>4. \A i \in 1..Len(t) : i \in 1..Len(s) \/ (i = Len(s) + 1 /\ t[i] = x)
    <3>1. CASE t = s
      BY <3>1
    <3>2. CASE t = Append(s, x)
      <4>1. Len(t) = Len(s) + 1 /\ t[Len(s) + 1] = x /\ Len(s) \in Nat
        BY <1>4, <2>1, <3>2
      <4> QED
        BY <4>1
    <3> QED
      BY <2>2, <3>1, <3>2
  <2>5. InLog(c) => InLog(c)'
    BY <2>1, <2>3 DEF InLog
  <2> QED
    BY <2>1, <2>3, <2>4, <2>5
<1>7. x = e => InLog(c)
  <2> SUFFICES ASSUME x = e PROVE InLog(c)
    OBVIOUS
  <2>1. c \in batch[r] \/ InLog(c)
    BY <1>2, <1>3, <1>4 DEF CauseFirst
  <2>2. createdAt[c] < createdAt[e] /\ createdAt[c] \in Nat /\ createdAt[e] \in Nat
    BY <1>4, Younger
  <2>3. c \notin batch[r]
    BY <1>2, <2>2 DEF IsNextRow
  <2> QED
    BY <2>1, <2>3
<1>8. ASSUME NEW i \in 1..Len(log'[n]), log'[n][i] = e PROVE Before(n, i, c)'
  <2>1. CASE i \in 1..Len(log[n]) /\ log[n][i] = e
    <3>1. PICK j \in 1..(i - 1) : log[n][j] = c
      BY <1>4, <2>1 DEF CauseFirst, Before
    <3>2. log'[n][j] = c
      BY <1>6, <2>1, <3>1
    <3> QED
      BY <3>1, <3>2 DEF Before
  <2>2. CASE i = Len(log[n]) + 1 /\ x = e
    <3>1. PICK j \in 1..Len(log[n]) : log[n][j] = c
      BY <1>7, <2>2 DEF InLog
    <3>2. log'[n][j] = c /\ j \in 1..(i - 1)
      BY <1>6, <2>2, <3>1
    <3> QED
      BY <3>2 DEF Before
  <2> QED
    BY <1>6, <1>8, <2>1, <2>2
<1>9. ASSUME NEW q \in Relays, e \in batch'[q]
      PROVE  c \in batch'[q] \/ InLog(c)' \/ (c = row'[q] /\ step'[q] = "catch")
  <2>1. q = r /\ e \in batch[r] /\ batch'[r] = batch[r] \ {x} /\ row'[r] = x
    BY <1>2, <1>9 DEF OneRelay, OutboxInv, TypeOK
  <2>2. c \in batch[r] \/ InLog(c)
    BY <1>3, <1>4, <2>1 DEF CauseFirst
  <2>3. CASE x = c
    <3>1. CASE stored
      <4>1. log'[n] = Append(log[n], x)
        BY <1>5, <2>3, <3>1
      <4> QED
        BY <1>4, <2>3, <4>1, AppendFacts DEF InLog
    <3>2. CASE ~stored
      BY <1>3, <2>1, <2>3, <3>2 DEF OutboxInv, TypeOK
    <3> QED
      BY <3>1, <3>2
  <2> QED
    BY <1>6, <2>1, <2>2, <2>3
<1> HIDE DEF n
<1> QED
  BY <1>8, <1>9 DEF CauseFirst, n

(* The order survives every step: what could break it counts as trouble.   *)
LEMMA OrderStep == PipelineInv /\ OrderInv /\ [Next]_vars => OrderInv'
<1> SUFFICES ASSUME PipelineInv, OrderInv, [Next]_vars PROVE OrderInv'
  OBVIOUS
<1>1. OutboxInv /\ [OutboxNext]_outboxVars
  BY DEF PipelineInv, Next, vars, ConsumerStep, HandleMessage, CommitOffset, RestartConsumer
<1>2. RowsDated'
  BY <1>1, DatedStep DEF OrderInv
<1>3. CASE UNCHANGED <<attempts, tickVars, log, rollbacks>>
  BY <1>1, <1>2, <1>3, OrderStays DEF tickVars, Untroubled
<1>4. CASE \E e \in Events : DomainStep(e) \/ BackoffElapses(e)
  BY <1>3, <1>4 DEF DomainStep, Add, EndDomainTx, BackoffElapses
<1>5. ASSUME NEW r \in Relays, MarkPublished(r) PROVE OrderInv'
  <2>1. /\ UNCHANGED <<attempts, failed, batch, log, rollbacks>>
        /\ step[r] = "mark" /\ \A q \in Relays \ {r} : step'[q] = step[q] /\ row'[q] = row[q]
    BY <1>1, <1>5 DEF MarkPublished, rowVars, OutboxInv, TypeOK
  <2> QED
    BY <1>1, <1>2, <2>1, OrderStays DEF Untroubled
<1>6. ASSUME NEW r \in Relays, MarkFailed(r) PROVE OrderInv'
  <2>1. /\ UNCHANGED <<attempts, batch, log, rollbacks>>
        /\ failed' = [failed EXCEPT ![r] = @ \cup {row[r]}]
        /\ \A q \in Relays \ {r} : step'[q] = step[q] /\ row'[q] = row[q]
    BY <1>1, <1>6 DEF MarkFailed, rowVars, OutboxInv, TypeOK
  <2>2. /\ failed'[r] = failed[r] \cup {row[r]}
        /\ \A q \in Relays : failed[q] \subseteq failed'[q]
    BY <1>1, <2>1 DEF OutboxInv, TypeOK
  <2> QED
    BY <1>1, <1>2, <2>1, <2>2, OrderStays DEF Untroubled
<1>7. ASSUME NEW r \in Relays, CommitTick(r) \/ TickRejects(r) PROVE OrderInv'
  <2>1. EndTick(r) /\ UNCHANGED <<log, rollbacks>>
    BY <1>7 DEF CommitTick, TickRejects
  <2>2. batch'[r] = {} /\ (OneRelay => \A q \in Relays : q = r)
    BY <1>1, <2>1, EndTickFacts DEF OneRelay
  <2>3. ASSUME NEW c \in Events, Untroubled(c)' PROVE OneRelay => Untroubled(c)
    <3>1. CASE CommitTick(r)
      <4>1. attempts'[c] = (IF c \in failed[r] THEN attempts[c] + 1 ELSE attempts[c])
            /\ attempts[c] \in Nat
        BY <1>1, <3>1, CommitRows DEF OutboxInv, TypeOK
      <4> QED
        BY <2>2, <2>3, <4>1 DEF Untroubled
    <3>2. CASE TickRejects(r)
      <4>1. attempts' = attempts /\ failed[r] = {}
        BY <1>1, <3>2 DEF TickRejects, rowVars, OutboxInv, TicksSound, TickSound
      <4> QED
        BY <2>2, <2>3, <4>1 DEF Untroubled
    <3> QED
      BY <1>7, <3>1, <3>2
  <2> QED
    BY <1>1, <1>2, <2>1, <2>2, <2>3, OrderStays
<1>8. ASSUME NEW r \in Relays, LoseTx(r) \/ CrashRelay(r) PROVE OrderInv'
  <2>1. rollbacks' = rollbacks + 1 /\ rollbacks \in Nat
    BY <1>1, <1>8 DEF LoseTx, CrashRelay, OutboxInv, TypeOK
  <2> QED
    BY <1>2, <2>1 DEF OrderInv
<1> QED
  BY <1>1, <1>2, <1>3, <1>4, <1>5, <1>6, <1>7, <1>8, FetchOrder, EmitOrder
     DEF OutboxNext, RelayStep, outboxVars, rowVars

(* With one relay an event overtakes, in its partition, the event it       *)
(* builds on only after an emit of that one has failed or a transaction    *)
(* was lost.                                                               *)
THEOREM OrderHoldsUntilFailure == Spec => []OrderUntilFailure
<1>1. PipelineInv /\ OrderInv => OrderUntilFailure
  <2> SUFFICES ASSUME PipelineInv, OrderInv, OneRelay, rollbacks = 0,
                      NEW n \in Entities, NEW i \in 1..Len(log[n]), NEW c,
                      c = Cause[log[n][i]], c # NoEvent, EntityOf[c] = n, Untroubled(c)
               PROVE  Before(n, i, c)
    BY DEF OrderUntilFailure, OneRelay
  <2>1. OutboxInv /\ log[n][i] \in Events
    BY LogElement DEF PipelineInv, OutboxInv
  <2> PICK e \in Events : e = log[n][i]
    BY <2>1
  <2>2. c \in Events /\ EntityOf[e] = n
    BY <2>1, OutboxAssumption DEF OutboxInv, LogKeyed
  <2>3. CauseFirst(e, c)
    BY <2>2 DEF OrderInv, Builds
  <2> QED
    BY <2>3 DEF CauseFirst
<1> QED
  BY <1>1, OrderInit, OrderStep, PipelineInvariant, PTL DEF Spec
=============================================================================
