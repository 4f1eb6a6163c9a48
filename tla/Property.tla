------------------------------- MODULE Property -------------------------------
(***************************************************************************)
(* Buildings, units, invite codes and leases.  An owner creates buildings  *)
(* and their units and issues codes for a unit; whoever redeems a code     *)
(* becomes its tenant; the owner ends the lease.  Codes live in Redis,     *)
(* everything else in the database, so redeeming is two steps that fail    *)
(* one without the other, and ending reads a lease before it writes it.    *)
(*                                                                         *)
(* Ids are fresh: a new row takes any unused member of its set.  Rows are  *)
(* never removed (nothing in the code sets deletedAt on a building or a    *)
(* unit), and owners never change, so checks of them do not go stale.      *)
(***************************************************************************)
EXTENDS Integers, FiniteSets, Sequences

CONSTANTS Users, Buildings, Units, Codes, Leases,
          Owners,       (* users with the role OWNER in their token         *)
          Requests,     (* requests in progress at the same time            *)
          None

Lease == [unit : Units, tenant : Users, status : {"ACTIVE", "ENDED"}]

ASSUME PropertyAssumption ==
    /\ Owners \subseteq Users
    /\ IsFiniteSet(Requests)
    /\ None \notin Users \cup Buildings \cup Units \cup Codes \cup Leases \cup Lease

VARIABLES
    ownerOf,     (* Building.ownerId; None: no such row                     *)
    buildingOf,  (* Unit.buildingId; None: no such row                      *)
    invite,      (* the unit in the Redis value of a code; None: no key     *)
    lease,       (* the Lease row; None: no such row                        *)
    ends,        (* LeaseEnded events added for a lease                     *)
    fate,        (* history: what became of a code                          *)
    joins,       (* history: leases made from a code                        *)
    call         (* what each request is about to do                        *)

propertyVars == <<ownerOf, buildingOf, invite, lease, ends, fate, joins>>

(* Where a request stands: its next step, its user, what it is about, what *)
(* it has read, and the cache keys it still has to delete.                 *)
At(o, u, x, h, k) == [op |-> o, user |-> u, on |-> x, held |-> h, owes |-> k]
Idle == At("idle", None, None, None, <<>>)

Go(p, c) == call' = [call EXCEPT ![p] = c]

PropertyInit ==
    /\ ownerOf = [b \in Buildings |-> None]
    /\ buildingOf = [x \in Units |-> None]
    /\ invite = [c \in Codes |-> None]
    /\ lease = [l \in Leases |-> None]
    /\ ends = [l \in Leases |-> 0]
    /\ fate = [c \in Codes |-> "unused"]
    /\ joins = [c \in Codes |-> 0]
    /\ call = [p \in Requests |-> Idle]

-----------------------------------------------------------------------------
(* Plausible defects, for the mutation runs *)

GetDelKeeps(c) == UNCHANGED invite
MayEndAny(l) == lease[l] # None
LeaseOfIssuer(x, u) ==
    [unit |-> x, tenant |-> ownerOf[buildingOf[x]], status |-> "ACTIVE"]

-----------------------------------------------------------------------------
(* Checks *)

(* RolesGuard: the route is for the role OWNER of the token.               *)
RolesGuard(u) == u \in Owners

(* The row exists and isOwnedBy the user.                                  *)
IsOwnedBy(b, u) == b # None /\ ownerOf[b] = u

OwnsUnit(x, u) == buildingOf[x] # None /\ IsOwnedBy(buildingOf[x], u)

(* An ACTIVE lease of a unit of the building.                              *)
HasActiveLease(u, b) ==
    \E l \in Leases :
        /\ lease[l] # None
        /\ lease[l].tenant = u /\ lease[l].status = "ACTIVE"
        /\ buildingOf[lease[l].unit] = b

(* PrismaMembershipChecker: the owner, or a tenant with an active lease.   *)
IsMember(u, b) == IsOwnedBy(b, u) \/ HasActiveLease(u, b)

(* Lease.end refuses a lease that is not active.                           *)
MayEnd(l) == lease[l] # None /\ lease[l].status = "ACTIVE"

(* Lease.create and Lease.end.                                             *)
NewLease(x, u) == [unit |-> x, tenant |-> u, status |-> "ACTIVE"]
Ended(l) == [lease[l] EXCEPT !.status = "ENDED"]

(* GETDEL: the key goes with the read.  GET leaves it.                     *)
GetDel(c) == invite' = [invite EXCEPT ![c] = None]
Peek(c) == UNCHANGED invite

-----------------------------------------------------------------------------
(* The owner's side.  The rows that the checks read never change again, so *)
(* check and insert are one step.                                          *)

SaveBuilding(b, u) ==
    /\ ownerOf[b] = None
    /\ ownerOf' = [ownerOf EXCEPT ![b] = u]

CreateBuilding(u, b) ==
    /\ SaveBuilding(b, u)
    /\ UNCHANGED <<buildingOf, invite, lease, ends, fate, joins, call>>

SaveUnit(x, b) ==
    /\ buildingOf[x] = None
    /\ buildingOf' = [buildingOf EXCEPT ![x] = b]

CreateUnit(u, b, x) ==
    /\ IsOwnedBy(b, u)
    /\ SaveUnit(x, b)
    /\ UNCHANGED <<ownerOf, invite, lease, ends, fate, joins, call>>

(* randomBytes(9): the code was never used before.                         *)
Issue(c, x) ==
    /\ fate[c] = "unused"
    /\ invite' = [invite EXCEPT ![c] = x]
    /\ fate' = [fate EXCEPT ![c] = "issued"]

IssueInviteCode(u, x, c) ==
    /\ OwnsUnit(x, u)
    /\ Issue(c, x)
    /\ UNCHANGED <<ownerOf, buildingOf, lease, ends, joins, call>>

-----------------------------------------------------------------------------
(* Redeeming: the code is consumed before the transaction *)

(* Anyone may look at a code; the answer names building and unit.          *)
PreviewInviteCode(c) ==
    /\ invite[c] # None
    /\ Peek(c)
    /\ UNCHANGED <<ownerOf, buildingOf, lease, ends, fate, joins, call>>

(* A code without a key is refused, and nothing changes.                   *)
RedeemCode(p, u, c) ==
    /\ call[p] = Idle
    /\ invite[c] # None
    /\ GetDel(c)
    /\ Go(p, At("join", u, invite[c], c, <<>>))
    /\ UNCHANGED <<ownerOf, buildingOf, lease, ends, fate, joins>>

(* The lease and its TenantJoined commit together.                         *)
SaveLease(p, l) ==
    /\ call[p].op = "join"
    /\ lease[l] = None
    /\ lease' = [lease EXCEPT ![l] = NewLease(call[p].on, call[p].user)]
    /\ joins' = [joins EXCEPT ![call[p].held] = @ + 1]
    /\ Go(p, Idle)
    /\ UNCHANGED <<ownerOf, buildingOf, invite, ends, fate>>

(* The transaction rolls back or the server dies: the code stays consumed. *)
JoinFails(p) ==
    /\ call[p].op = "join"
    /\ fate' = [fate EXCEPT ![call[p].held] = "lost"]
    /\ Go(p, Idle)
    /\ UNCHANGED <<ownerOf, buildingOf, invite, lease, ends, joins>>

(* INVITE_TTL_SEC after the issue.                                         *)
ExpireInvite(c) ==
    /\ invite[c] # None
    /\ invite' = [invite EXCEPT ![c] = None]
    /\ fate' = [fate EXCEPT ![c] = "expired"]
    /\ UNCHANGED <<ownerOf, buildingOf, lease, ends, joins, call>>

-----------------------------------------------------------------------------
(* Ending a lease: checked on what was read, written by id *)

FindLease(p, u, l) ==
    /\ call[p] = Idle
    /\ MayEnd(l) /\ OwnsUnit(lease[l].unit, u)
    /\ Go(p, At("end", u, l, None, <<>>))
    /\ UNCHANGED propertyVars

(* The update does not look at the status again.                           *)
EndLease(p) ==
    /\ call[p].op = "end"
    /\ LET l == call[p].on
       IN  /\ lease' = [lease EXCEPT ![l] = Ended(l)]
           /\ ends' = [ends EXCEPT ![l] = @ + 1]
    /\ Go(p, Idle)
    /\ UNCHANGED <<ownerOf, buildingOf, invite, fate, joins>>

EndFails(p) ==
    /\ call[p].op = "end"
    /\ Go(p, Idle)
    /\ UNCHANGED propertyVars

-----------------------------------------------------------------------------

(* The routes: the owner's are guarded by his role, the tenant's are not.  *)
BuildingRoutes(u) == \E b \in Buildings : RolesGuard(u) /\ CreateBuilding(u, b)

UnitRoutes(u) ==
    \E b \in Buildings, x \in Units : RolesGuard(u) /\ CreateUnit(u, b, x)

InviteRoutes(p, u) ==
    \E c \in Codes :
        \/ \E x \in Units : RolesGuard(u) /\ IssueInviteCode(u, x, c)
        \/ PreviewInviteCode(c)
        \/ RedeemCode(p, u, c)

LeaseRoutes(p, u) == \E l \in Leases : RolesGuard(u) /\ FindLease(p, u, l)

PropertyNext ==
    \/ \E u \in Users : BuildingRoutes(u) \/ UnitRoutes(u)
    \/ \E p \in Requests :
        \/ \E u \in Users : InviteRoutes(p, u) \/ LeaseRoutes(p, u)
        \/ \E l \in Leases : SaveLease(p, l)
        \/ JoinFails(p) \/ EndLease(p) \/ EndFails(p)
    \/ \E c \in Codes : ExpireInvite(c)

-----------------------------------------------------------------------------
(* Properties *)

PropertyTypeOK ==
    /\ ownerOf \in [Buildings -> Users \cup {None}]
    /\ buildingOf \in [Units -> Buildings \cup {None}]
    /\ invite \in [Codes -> Units \cup {None}]
    /\ lease \in [Leases -> Lease \cup {None}]
    /\ ends \in [Leases -> Nat]
    /\ fate \in [Codes -> {"unused", "issued", "lost", "expired"}]
    /\ joins \in [Codes -> Nat]

Redeemers(c) == {p \in Requests : call[p].op = "join" /\ call[p].held = c}

(* An issued code is always in exactly one place: in Redis, with the one   *)
(* request that consumed it, turned into one lease, expired, or lost with  *)
(* a transaction that failed after the code was consumed.  It never makes  *)
(* two leases, and no preview or refused request makes it disappear.       *)
CodesAccounted ==
    \A c \in Codes :
        \/ fate[c] = "unused" /\ invite[c] = None /\ joins[c] = 0 /\ Redeemers(c) = {}
        \/ fate[c] \in {"lost", "expired"}
           /\ invite[c] = None /\ joins[c] = 0 /\ Redeemers(c) = {}
        \/ fate[c] = "issued"
           /\ \/ invite[c] # None /\ joins[c] = 0 /\ Redeemers(c) = {}
              \/ invite[c] = None /\ joins[c] = 1 /\ Redeemers(c) = {}
              \/ /\ invite[c] = None /\ joins[c] = 0
                 /\ \E p \in Requests : Redeemers(c) = {p}

(* A lease is ACTIVE until its first LeaseEnded and ENDED from then on.    *)
(* Requests that had all read it active may each record a LeaseEnded, but  *)
(* never more of them than fit in at the same time: a later one gets 409.  *)
EndsBounded ==
    \A l \in Leases : lease[l] # None =>
        /\ lease[l].status = "ACTIVE" <=> ends[l] = 0
        /\ ends[l] <= Cardinality(Requests)

(* What a code is for the users: its key is one step from gone, and the    *)
(* request that took it holds what the key said.                           *)
Place(c) ==
    LET is(s, x, u) == [state |-> s, unit |-> x, by |-> u]
        taker == CHOOSE p \in Redeemers(c) : TRUE
    IN  CASE invite[c] # None   -> is("issued", invite[c], None)
          [] Redeemers(c) # {}  -> is("taken", call[taker].on, call[taker].user)
          [] joins[c] > 0       -> is("joined", None, None)
          [] OTHER              -> is(fate[c], None, None)

Tenancies == INSTANCE Tenancy WITH code <- [c \in Codes |-> Place(c)]

(* A code is one user's at most and one lease at most, of the unit it was  *)
(* issued for, and a lease changes in nothing but its end: every step of   *)
(* the requests is a step of Tenancy or none.                              *)
ImplementsTenancy == Tenancies!Spec
=============================================================================
