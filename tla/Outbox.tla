------------------------------- MODULE Outbox -------------------------------
(***************************************************************************)
(* The transactional outbox and its relays.                                *)
(*                                                                         *)
(* A use case writes its domain change and an OutboxEvent row in one       *)
(* database transaction.  Relay processes poll: one tick is one interactive*)
(* transaction that locks the oldest due PENDING rows, emits each of them  *)
(* to Kafka and marks it; the marks and the locks live until the           *)
(* transaction commits.  The transaction can be lost under the callback    *)
(* (Prisma's interactive timeout, a failed statement, a dropped            *)
(* connection): the locks go at once, and the callback learns of it only   *)
(* from its next statement.                                                *)
(***************************************************************************)
EXTENDS Naturals, Sequences, FiniteSets

CONSTANTS Events,        (* the domain events that may occur                *)
          Entities,      (* the entities they are about                     *)
          EntityOf,      (* entityId of an event, its partition key         *)
          Cause,         (* the event whose change this one builds on       *)
          NoEvent,       (* no cause; no current row                        *)
          Relays,        (* the relay processes                             *)
          BatchSize,     (* OUTBOX_BATCH_SIZE                               *)
          MaxAttempts,   (* OUTBOX_MAX_ATTEMPTS                             *)
          MaxRollbacks   (* bound: lost relay transactions in a behaviour   *)

ASSUME OutboxAssumption ==
    /\ IsFiniteSet(Events) /\ IsFiniteSet(Relays)
    /\ NoEvent \notin Events
    /\ EntityOf \in [Events -> Entities]
    /\ Cause \in [Events -> Events \cup {NoEvent}]
    /\ BatchSize \in Nat \ {0}
    /\ MaxAttempts \in Nat \ {0}
    /\ MaxRollbacks \in Nat

VARIABLES
    status,      (* the row of each event: NONE, STAGED (its transaction is
                    open), ABORTED, or the OutboxStatus of a committed row  *)
    createdAt,   (* rank of the row's createdAt; 0 without a row            *)
    attempts,    (* failed attempts the row has on record                   *)
    due,         (* nextAttemptAt is null or past                           *)
    tx,          (* transaction of each relay's tick: none, live or lost    *)
    step,        (* what the tick does next: emit a row, mark it published,
                    or handle its failure                                   *)
    batch,       (* rows the tick has fetched and not emitted yet           *)
    row,         (* the row the tick has emitted and not marked yet         *)
    done,        (* rows marked published in the open transaction           *)
    failed,      (* rows marked failed in the open transaction              *)
    log,         (* the Kafka log, one partition per entity                 *)
    rollbacks    (* relay transactions lost so far                          *)

rowVars == <<status, createdAt, attempts, due>>
tickVars == <<tx, step, batch, row, done, failed>>
outboxVars == <<rowVars, tickVars, log, rollbacks>>

RowStatus == {"NONE", "STAGED", "ABORTED", "PENDING", "PUBLISHED", "FAILED"}

TypeOK ==
    /\ status \in [Events -> RowStatus]
    /\ createdAt \in [Events -> Nat]
    /\ attempts \in [Events -> 0..MaxAttempts]
    /\ due \in [Events -> BOOLEAN]
    /\ tx \in [Relays -> {"none", "live", "lost"}]
    /\ step \in [Relays -> {"emit", "mark", "catch"}]
    /\ batch \in [Relays -> SUBSET Events]
    /\ row \in [Relays -> Events \cup {NoEvent}]
    /\ done \in [Relays -> SUBSET Events]
    /\ failed \in [Relays -> SUBSET Events]
    /\ log \in [Entities -> Seq(Events)]
    /\ rollbacks \in Nat

OutboxInit ==
    /\ status = [e \in Events |-> "NONE"]
    /\ createdAt = [e \in Events |-> 0]
    /\ attempts = [e \in Events |-> 0]
    /\ due = [e \in Events |-> TRUE]
    /\ tx = [r \in Relays |-> "none"]
    /\ step = [r \in Relays |-> "emit"]
    /\ batch = [r \in Relays |-> {}]
    /\ row = [r \in Relays |-> NoEvent]
    /\ done = [r \in Relays |-> {}]
    /\ failed = [r \in Relays |-> {}]
    /\ log = [n \in Entities |-> <<>>]
    /\ rollbacks = 0

-----------------------------------------------------------------------------
(* State predicates *)

(* The domain change of e is committed, and its row with it.               *)
Recorded(e) == status[e] \in {"PENDING", "PUBLISHED", "FAILED"}

InLog(e) == \E i \in 1..Len(log[EntityOf[e]]) : log[EntityOf[e]][i] = e

(* The rows a relay's tick has fetched: its transaction locks them while   *)
(* it is live.                                                             *)
Held(r) == batch[r] \cup ({row[r]} \ {NoEvent}) \cup done[r] \cup failed[r]

Locked(e) == \E r \in Relays : tx[r] = "live" /\ e \in Held(r)

-----------------------------------------------------------------------------
(* The use cases: OutboxStore.add inside a domain transaction *)

(* The use case has loaded what it changes, so the change it builds on is  *)
(* committed; it inserts the row, which takes its createdAt now.           *)
Add(e) ==
    /\ status[e] = "NONE"
    /\ Cause[e] # NoEvent => Recorded(Cause[e])
    /\ status' = [status EXCEPT ![e] = "STAGED"]
    /\ createdAt' = [createdAt EXCEPT
                        ![e] = 1 + Cardinality({f \in Events : createdAt[f] > 0})]
    /\ UNCHANGED <<attempts, due, tickVars, log, rollbacks>>

(* The domain transaction commits or rolls back, change and row together.  *)
EndDomainTx(e, outcome) ==
    /\ status[e] = "STAGED"
    /\ status' = [status EXCEPT ![e] = outcome]
    /\ UNCHANGED <<createdAt, attempts, due, tickVars, log, rollbacks>>

(* The backoff of a failed attempt runs out.                               *)
BackoffElapses(e) ==
    /\ ~due[e]
    /\ due' = [due EXCEPT ![e] = TRUE]
    /\ UNCHANGED <<status, createdAt, attempts, tickVars, log, rollbacks>>

-----------------------------------------------------------------------------
(* Plausible defects of the code below, for the mutation runs *)

FetchableNoLock(e) == status[e] = "PENDING" /\ due[e]
FetchableUncommitted(e) ==
    status[e] \in {"PENDING", "STAGED"} /\ due[e] /\ ~Locked(e)
FetchableSettled(e) ==
    status[e] \in {"PENDING", "PUBLISHED"} /\ due[e] /\ ~Locked(e)
FetchableFresh(e) ==
    status[e] = "PENDING" /\ attempts[e] = 0 /\ due[e] /\ ~Locked(e)
AnyOf(B, S) == B \subseteq S /\ B # {} /\ Cardinality(B) <= BatchSize
AfterRejectionSwallowed == "mark"
ExhaustedLate(e) == attempts[e] + 1 > MaxAttempts
ExhaustedEarly(e) == attempts[e] + 2 >= MaxAttempts

-----------------------------------------------------------------------------
(* The relay: one tick of RelayOutboxUseCase.execute *)

(* Rows the SELECT returns: PENDING, due, and not locked by another tick.  *)
Fetchable(e) == status[e] = "PENDING" /\ due[e] /\ ~Locked(e)

(* B is the LIMIT first rows of S by createdAt.                            *)
OldestOf(B, S) ==
    /\ B \subseteq S
    /\ Cardinality(B) = IF Cardinality(S) < BatchSize THEN Cardinality(S)
                                                      ELSE BatchSize
    /\ \A e \in B, f \in S \ B : createdAt[e] <= createdAt[f]

(* A poll opens a transaction and locks a batch; RelayLoop starts no tick  *)
(* while one is in flight.  A poll that finds nothing changes nothing.     *)
FetchPending(r) ==
    /\ tx[r] = "none"
    /\ LET S == {e \in Events : Fetchable(e)}
       IN  /\ S # {}
           /\ \E B \in SUBSET S : OldestOf(B, S) /\ batch' = [batch EXCEPT ![r] = B]
    /\ tx' = [tx EXCEPT ![r] = "live"]
    /\ step' = [step EXCEPT ![r] = "emit"]
    /\ UNCHANGED <<rowVars, row, done, failed, log, rollbacks>>

(* The next row of the batch, oldest first.                                *)
IsNextRow(r, e) == e \in batch[r] /\ \A f \in batch[r] : createdAt[e] <= createdAt[f]

(* Where execute goes when publishOrThrow rejects: into the catch block.   *)
AfterRejection == "catch"

(* publishOrThrow: the broker stores the event or not, and the call        *)
(* resolves or rejects; a call that rejects may still have stored it, once *)
(* (the client's own retries are left out).  The callback does not notice  *)
(* here that its transaction is lost.                                      *)
PublishOrThrow(r, stored, resolved) ==
    /\ tx[r] # "none" /\ step[r] = "emit"
    /\ resolved => stored
    /\ \E e \in batch[r] :
        /\ IsNextRow(r, e)
        /\ batch' = [batch EXCEPT ![r] = @ \ {e}]
        /\ row' = [row EXCEPT ![r] = e]
        /\ log' = IF stored THEN [log EXCEPT ![EntityOf[e]] = Append(@, e)] ELSE log
    /\ step' = [step EXCEPT ![r] = IF resolved THEN "mark" ELSE AfterRejection]
    /\ UNCHANGED <<rowVars, tx, done, failed, rollbacks>>

(* The row is marked inside the transaction; nobody else sees it yet.      *)
MarkPublished(r) ==
    /\ tx[r] = "live" /\ step[r] = "mark"
    /\ done' = [done EXCEPT ![r] = @ \cup {row[r]}]
    /\ row' = [row EXCEPT ![r] = NoEvent]
    /\ step' = [step EXCEPT ![r] = "emit"]
    /\ UNCHANGED <<rowVars, tx, batch, failed, log, rollbacks>>

MarkFailed(r) ==
    /\ tx[r] = "live" /\ step[r] = "catch"
    /\ failed' = [failed EXCEPT ![r] = @ \cup {row[r]}]
    /\ row' = [row EXCEPT ![r] = NoEvent]
    /\ step' = [step EXCEPT ![r] = "emit"]
    /\ UNCHANGED <<rowVars, tx, batch, done, log, rollbacks>>

(* markFailed quarantines the row instead of rescheduling it.              *)
Exhausted(e) == attempts[e] + 1 >= MaxAttempts

(* The status a committed tick leaves on a row it marked.                  *)
StatusAfter(r, e) ==
    IF e \in done[r] THEN "PUBLISHED"
    ELSE IF e \in failed[r] /\ Exhausted(e) THEN "FAILED"
    ELSE status[e]

EndTick(r) ==
    /\ tx' = [tx EXCEPT ![r] = "none"]
    /\ step' = [step EXCEPT ![r] = "emit"]
    /\ batch' = [batch EXCEPT ![r] = {}]
    /\ row' = [row EXCEPT ![r] = NoEvent]
    /\ done' = [done EXCEPT ![r] = {}]
    /\ failed' = [failed EXCEPT ![r] = {}]

(* The batch is through: the marks take effect and the locks go.  The row  *)
(* was locked since the fetch, so the attempts the tick read still hold.   *)
CommitTick(r) ==
    /\ tx[r] = "live" /\ step[r] = "emit" /\ batch[r] = {}
    /\ status' = [e \in Events |-> StatusAfter(r, e)]
    /\ attempts' = [e \in Events |-> IF e \in failed[r] THEN attempts[e] + 1
                                                        ELSE attempts[e]]
    /\ due' = [e \in Events |-> IF e \in failed[r] /\ ~Exhausted(e) THEN FALSE
                                                                    ELSE due[e]]
    /\ EndTick(r)
    /\ UNCHANGED <<createdAt, log, rollbacks>>

(* The database rolls the transaction back under the callback: marks and   *)
(* locks are gone, the loop over the batch goes on.                        *)
LoseTx(r) ==
    /\ tx[r] = "live"
    /\ rollbacks < MaxRollbacks
    /\ rollbacks' = rollbacks + 1
    /\ tx' = [tx EXCEPT ![r] = "lost"]
    /\ done' = [done EXCEPT ![r] = {}]
    /\ failed' = [failed EXCEPT ![r] = {}]
    /\ UNCHANGED <<rowVars, step, batch, row, log>>

(* The first statement on the lost transaction throws, in markPublished,   *)
(* in markFailed (the catch block runs it too) or at the commit; execute   *)
(* rejects and RelayLoop logs it.                                          *)
TickRejects(r) ==
    /\ tx[r] = "lost"
    /\ step[r] \in {"mark", "catch"} \/ batch[r] = {}
    /\ EndTick(r)
    /\ UNCHANGED <<rowVars, log, rollbacks>>

(* The process dies; the database rolls back, a new process polls again.   *)
CrashRelay(r) ==
    /\ tx[r] # "none"
    /\ rollbacks < MaxRollbacks
    /\ rollbacks' = rollbacks + 1
    /\ EndTick(r)
    /\ UNCHANGED <<rowVars, log>>

-----------------------------------------------------------------------------

Emit(r) ==
    \/ PublishOrThrow(r, TRUE, TRUE)
    \/ PublishOrThrow(r, TRUE, FALSE)
    \/ PublishOrThrow(r, FALSE, FALSE)

(* What a relay does by itself, as opposed to what befalls it.             *)
RelayStep(r) ==
    FetchPending(r) \/ Emit(r) \/ MarkPublished(r) \/ MarkFailed(r)
        \/ CommitTick(r) \/ TickRejects(r)

DomainStep(e) ==
    Add(e) \/ EndDomainTx(e, "PENDING") \/ EndDomainTx(e, "ABORTED")

OutboxNext ==
    \/ \E e \in Events : DomainStep(e) \/ BackoffElapses(e)
    \/ \E r \in Relays : RelayStep(r) \/ LoseTx(r) \/ CrashRelay(r)

-----------------------------------------------------------------------------
(* Properties *)

(* What a tick of relay r relies on.  Every row it fetched stands for a    *)
(* committed change, and, while its transaction is live, is still PENDING  *)
(* and in exactly one of its hands: to be emitted, being marked, marked    *)
(* published (then the broker has it) or marked failed.  A lost            *)
(* transaction has no marks.                                               *)
TickSound(r) ==
    /\ \A e \in Held(r) : Recorded(e)
    /\ step[r] = "emit" <=> row[r] = NoEvent
    /\ step[r] = "mark" => InLog(row[r])
    /\ \A e \in done[r] : InLog(e)
    /\ tx[r] = "none" => Held(r) = {}
    /\ tx[r] = "lost" => done[r] \cup failed[r] = {}
    /\ tx[r] = "live" =>
        /\ \A e \in Held(r) : status[e] = "PENDING"
        /\ row[r] \notin batch[r]
        /\ (batch[r] \cup {row[r]}) \cap (done[r] \cup failed[r]) = {}
        /\ done[r] \cap failed[r] = {}

TicksSound == \A r \in Relays : TickSound(r)

(* A row says PUBLISHED only when the broker has the event: whatever       *)
(* fails between the emit and the commit, no event is dropped.             *)
NoEventLost == \A e \in Events : status[e] = "PUBLISHED" => InLog(e)

(* Nothing reaches Kafka about a change that did not commit.               *)
NoPhantomEvent ==
    \A n \in Entities : \A i \in 1..Len(log[n]) : Recorded(log[n][i])

(* The table and the topics agree, whatever fails on the way.              *)
LogFaithful == NoEventLost /\ NoPhantomEvent

(* SKIP LOCKED: two ticks whose transactions are live never work on the    *)
(* same row, so neither overwrites what the other marks.                   *)
LockExclusive ==
    \A r, q \in Relays : \A e \in Events :
        tx[r] = "live" /\ tx[q] = "live" /\ e \in Held(r) /\ e \in Held(q) => r = q

(* A live tick has its rows to itself, and finds them as it fetched them.  *)
TicksIsolated == TicksSound /\ LockExclusive

Copies(e) ==
    Cardinality({i \in 1..Len(log[EntityOf[e]]) : log[EntityOf[e]][i] = e})

(* A duplicate has a cause on record: each copy of an event beyond the     *)
(* first is paid for by a failed attempt of its row or a lost transaction; *)
(* a quarantined row has no successful copy.                               *)
DuplicatesExplained ==
    \A e \in Events :
        Copies(e) <= attempts[e] + rollbacks
                        + IF status[e] = "FAILED" THEN 0 ELSE 1

(* A settled row is final: no tick, not even one whose transaction is      *)
(* long lost, changes its status or its attempts again.                    *)
SettledIsFinal ==
    [][\A e \in Events : status[e] \in {"PUBLISHED", "FAILED"} =>
            status'[e] = status[e] /\ attempts'[e] = attempts[e]]_outboxVars

(* A row is quarantined exactly by its MaxAttempts-th recorded failure.    *)
QuarantineAtLimit ==
    \A e \in Events : status[e] = "FAILED" <=> attempts[e] = MaxAttempts

(* kafka-event.publisher.ts, emit: events of one entity keep their order,  *)
(* so a change never precedes, in its partition, the change it builds on.  *)
Before(n, i, c) == \E j \in 1..(i - 1) : log[n][j] = c
EntityOrder ==
    \A n \in Entities : \A i \in 1..Len(log[n]) :
        LET c == Cause[log[n][i]]
        IN  c # NoEvent /\ EntityOf[c] = n => Before(n, i, c)

(* What does break that order: a second relay, a lost transaction, or an   *)
(* emit of the earlier event that failed and is retried later.  With one   *)
(* relay and none of these an event never overtakes the one it builds on.  *)
Untroubled(c) == attempts[c] = 0 /\ \A r \in Relays : c \notin failed[r]
OrderUntilFailure ==
    (\A r, q \in Relays : r = q) /\ rollbacks = 0 =>
        \A n \in Entities : \A i \in 1..Len(log[n]) :
            LET c == Cause[log[n][i]]
            IN  c # NoEvent /\ EntityOf[c] = n /\ Untroubled(c) => Before(n, i, c)

(* relay-outbox.use-case.ts, header: the transaction keeps the locks, so   *)
(* that several relays do not publish a row twice.  Once a row is          *)
(* PUBLISHED no relay emits it again.                                      *)
NoRepublish ==
    [][\A e \in Events : status[e] = "PUBLISHED" => Copies(e)' = Copies(e)]_outboxVars
=============================================================================
