------------------------------- MODULE Tenancy -------------------------------
(***************************************************************************)
(* What invite codes and leases promise, whatever request fails and        *)
(* however requests interleave: a code is issued once, for one unit; one   *)
(* user at most takes it; it turns into one lease at most, his, of that    *)
(* unit, which never changes but from ACTIVE to ENDED.  Board (with        *)
(* Property, whose codes are in Redis and whose leases are in the          *)
(* database) implements this specification.                                *)
(***************************************************************************)
CONSTANTS Users, Units, Codes, Leases, None

VARIABLES code,      (* what became of a code                               *)
          lease      (* the leases; None: no such lease                     *)

vars == <<code, lease>>

(* A code in state s, for unit x, in the hands of user u.                  *)
CodeAt(s, x, u) == [state |-> s, unit |-> x, by |-> u]
Now(c, v) == code' = [code EXCEPT ![c] = v]

Init ==
    /\ code = [c \in Codes |-> CodeAt("unused", None, None)]
    /\ lease = [l \in Leases |-> None]

(* The owner issues a code for a unit.                                     *)
Issue(c, x) ==
    /\ code[c].state = "unused"
    /\ Now(c, CodeAt("issued", x, None))
    /\ UNCHANGED lease

(* A user redeems it: from here on it is nobody else's.                    *)
Take(c, u) ==
    /\ code[c].state = "issued"
    /\ Now(c, CodeAt("taken", code[c].unit, u))
    /\ UNCHANGED lease

Expire(c) ==
    /\ code[c].state = "issued"
    /\ Now(c, CodeAt("expired", None, None))
    /\ UNCHANGED lease

(* The taker moves in ...                                                  *)
Join(c, l) ==
    /\ code[c].state = "taken"
    /\ lease[l] = None
    /\ lease' = [lease EXCEPT ![l] =
                    [unit |-> code[c].unit, tenant |-> code[c].by, status |-> "ACTIVE"]]
    /\ Now(c, CodeAt("joined", None, None))

(* ... or his request fails, and the code is gone all the same.            *)
Lose(c) ==
    /\ code[c].state = "taken"
    /\ Now(c, CodeAt("lost", None, None))
    /\ UNCHANGED lease

End(l) ==
    /\ lease[l] # None
    /\ lease[l].status = "ACTIVE"
    /\ lease' = [lease EXCEPT ![l].status = "ENDED"]
    /\ UNCHANGED code

Next ==
    \/ \E c \in Codes :
        \/ \E x \in Units : Issue(c, x)
        \/ \E u \in Users : Take(c, u)
        \/ \E l \in Leases : Join(c, l)
        \/ Expire(c) \/ Lose(c)
    \/ \E l \in Leases : End(l)

Spec == Init /\ [][Next]_vars
=============================================================================
