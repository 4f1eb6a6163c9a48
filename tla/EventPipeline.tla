--------------------------- MODULE EventPipeline ---------------------------
(***************************************************************************)
(* The outbox and its relays composed with the audit worker, the consumer  *)
(* group that reads every topic and keeps one AuditLog row per event.  The *)
(* broker redelivers whatever lies behind the committed offset when the    *)
(* consumer restarts or the group rebalances.                              *)
(***************************************************************************)
EXTENDS Outbox

CONSTANT MaxRestarts   (* bound: restarts of the consumer in a behaviour     *)

ASSUME PipelineAssumption == MaxRestarts \in Nat

VARIABLES auditLog,    (* number of AuditLog rows of each event              *)
          pos,         (* messages the consumer has handled, per partition   *)
          offset,      (* messages whose offset the group has committed      *)
          restarts

consumerVars == <<auditLog, pos, offset, restarts>>
vars == <<outboxVars, consumerVars>>

PipelineTypeOK ==
    /\ TypeOK
    /\ auditLog \in [Events -> Nat]
    /\ pos \in [Entities -> Nat]
    /\ offset \in [Entities -> Nat]
    /\ restarts \in Nat

ConsumerInit ==
    /\ auditLog = [e \in Events |-> 0]
    /\ pos = [n \in Entities |-> 0]
    /\ offset = [n \in Entities |-> 0]
    /\ restarts = 0

-----------------------------------------------------------------------------
(* Plausible defects, for the mutation runs *)

RowsAfterNoUnique(e) == auditLog[e] + 1
CommittableAhead(n) == {pos[n], Len(log[n])}

-----------------------------------------------------------------------------

(* AuditLogRepository.record: the insert takes effect unless the unique    *)
(* eventId is there already, which the repository ignores.                 *)
RowsAfterRecord(e) == IF auditLog[e] = 0 THEN 1 ELSE auditLog[e]

(* The handler of the next message resolves.  A handler that rejects (any  *)
(* other database error) leaves everything as it is: the message is next   *)
(* again.                                                                  *)
HandleMessage(n) ==
    /\ pos[n] < Len(log[n])
    /\ LET e == log[n][pos[n] + 1]
       IN  auditLog' = [auditLog EXCEPT ![e] = RowsAfterRecord(e)]
    /\ pos' = [pos EXCEPT ![n] = @ + 1]
    /\ UNCHANGED <<outboxVars, offset, restarts>>

(* The offsets the consumer may commit: those of resolved messages.        *)
Committable(n) == {pos[n]}

CommitOffset(n) ==
    /\ offset[n] < Len(log[n])
    /\ \E o \in Committable(n) :
        /\ o > offset[n]
        /\ offset' = [offset EXCEPT ![n] = o]
    /\ UNCHANGED <<outboxVars, auditLog, pos, restarts>>

(* The worker crashes or its partitions are reassigned: reading resumes at *)
(* the committed offsets.                                                  *)
RestartConsumer ==
    /\ restarts < MaxRestarts
    /\ pos # offset
    /\ restarts' = restarts + 1
    /\ pos' = offset
    /\ UNCHANGED <<outboxVars, auditLog, offset>>

ConsumerStep(n) == HandleMessage(n) \/ CommitOffset(n)

Init == OutboxInit /\ ConsumerInit

Next ==
    \/ OutboxNext /\ UNCHANGED consumerVars
    \/ \E n \in Entities : ConsumerStep(n)
    \/ RestartConsumer

Spec == Init /\ [][Next]_vars

(* Relays poll on an interval and every call of a tick returns in the end; *)
(* the consumer keeps reading; time passes.  Use cases owe nothing, and    *)
(* faults are finitely many.                                               *)
Fairness ==
    /\ \A r \in Relays : WF_vars(RelayStep(r) /\ UNCHANGED consumerVars)
    /\ \A e \in Events : WF_vars(BackoffElapses(e) /\ UNCHANGED consumerVars)
    /\ \A n \in Entities : WF_vars(ConsumerStep(n))

FairSpec == Spec /\ Fairness

-----------------------------------------------------------------------------
(* Properties *)

(* Redelivery, relay duplicates and restarts never leave a second audit    *)
(* row, and an audit row is only ever about a message of the log.          *)
AuditOnce ==
    \A e \in Events : auditLog[e] <= 1 /\ (auditLog[e] = 1 => InLog(e))

(* The committed offset never passes a message that has no audit row: no   *)
(* crash makes the worker skip one.                                        *)
NothingSkipped ==
    \A n \in Entities : \A i \in 1..offset[n] : auditLog[log[n][i]] > 0

(* The audit log misses nothing that is committed and repeats nothing that *)
(* is delivered again.                                                     *)
AuditFaithful == AuditOnce /\ NothingSkipped

(* The promise the pipeline makes to the rest of the server.               *)
FateOf(s) ==
    CASE s \in {"NONE", "STAGED", "ABORTED"} -> "absent"
      [] s = "PENDING"   -> "recorded"
      [] s = "PUBLISHED" -> "published"
      [] s = "FAILED"    -> "quarantined"

Delivery == INSTANCE EventDelivery
                WITH fate <- [e \in Events |-> FateOf(status[e])],
                     stream <- log, audited <- auditLog

(* Every step of the pipeline is a step of EventDelivery or none.          *)
ImplementsDelivery == Delivery!Spec

(* Every committed event ends PUBLISHED or FAILED.                         *)
EveryEventSettles == Delivery!EventuallySettles

(* Every event in the log ends in the audit log.                           *)
EveryEventAudited == Delivery!EventuallyAudited
=============================================================================
