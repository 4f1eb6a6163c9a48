--------------------------- MODULE EventDelivery ---------------------------
(***************************************************************************)
(* What the event pipeline of the server promises, whatever relay, broker  *)
(* or worker fails on the way: a domain change that committed has exactly  *)
(* one event, the event reaches the broker's log at least once unless it   *)
(* is quarantined, and the audit log keeps one row of it.  EventPipeline   *)
(* (the outbox, its relays, the Kafka log and the audit worker) implements *)
(* this specification.                                                     *)
(***************************************************************************)
EXTENDS Naturals, Sequences

CONSTANTS Events,     (* the domain events that may occur                   *)
          Entities,   (* the entities they are about                        *)
          EntityOf    (* the entity of each event: its Kafka partition key  *)

VARIABLES fate,       (* what became of the event of each domain change     *)
          stream,     (* the broker's log, per entity                       *)
          audited     (* the number of audit rows of each event             *)

vars == <<fate, stream, audited>>

InStream(e) ==
    \E i \in 1..Len(stream[EntityOf[e]]) : stream[EntityOf[e]][i] = e

Init ==
    /\ fate = [e \in Events |-> "absent"]
    /\ stream = [n \in Entities |-> <<>>]
    /\ audited = [e \in Events |-> 0]

(* The domain change commits, and with it the promise to tell about it.    *)
Record(e) ==
    /\ fate[e] = "absent"
    /\ fate' = [fate EXCEPT ![e] = "recorded"]
    /\ UNCHANGED <<stream, audited>>

(* The event reaches the log; it may do so again, even after it settled.   *)
Emit(e) ==
    /\ fate[e] # "absent"
    /\ stream' = [stream EXCEPT ![EntityOf[e]] = Append(@, e)]
    /\ UNCHANGED <<fate, audited>>

(* Recorded events settle, some as published and some as quarantined; the  *)
(* published ones are already in the log.                                  *)
Settle(P, Q) ==
    /\ P \cap Q = {}
    /\ \A e \in P \cup Q : fate[e] = "recorded"
    /\ \A e \in P : InStream(e)
    /\ fate' = [e \in Events |-> IF e \in P THEN "published"
                                 ELSE IF e \in Q THEN "quarantined"
                                 ELSE fate[e]]
    /\ UNCHANGED <<stream, audited>>

(* The audit log takes one row of an event of the log.                     *)
Audit(e) ==
    /\ InStream(e)
    /\ audited[e] = 0
    /\ audited' = [audited EXCEPT ![e] = 1]
    /\ UNCHANGED <<fate, stream>>

Next ==
    \/ \E e \in Events : Record(e) \/ Emit(e) \/ Audit(e)
    \/ \E P, Q \in SUBSET Events : Settle(P, Q)

Spec == Init /\ [][Next]_vars

(* An event that was recorded settles in the end.                          *)
EventuallySettles ==
    \A e \in Events :
        fate[e] = "recorded" ~> fate[e] \in {"published", "quarantined"}

(* An event that reached the log is audited in the end.                    *)
EventuallyAudited ==
    \A e \in Events : InStream(e) ~> audited[e] = 1
=============================================================================
