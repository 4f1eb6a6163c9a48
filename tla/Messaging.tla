------------------------------ MODULE Messaging ------------------------------
(***************************************************************************)
(* What the chat promises of a message: it is stored after it is           *)
(* published, it is not lost once it is published, and before that it is   *)
(* lost only with a failure of its own.  Chat (requests, the topic and the *)
(* persistence worker) implements this specification.                      *)
(***************************************************************************)
EXTENDS Naturals

CONSTANTS Messages

VARIABLES fate,      (* where a message is on its way                       *)
          failures   (* failures so far                                     *)

vars == <<fate, failures>>

Init ==
    /\ fate = [m \in Messages |-> "new"]
    /\ failures = 0

Fail == failures' = failures + 1
Moves(m, from, to) == fate[m] = from /\ fate' = [fate EXCEPT ![m] = to]

Send(m) == Moves(m, "new", "sending") /\ UNCHANGED failures

(* A publish succeeds late, after failures that it survives.               *)
Publish(m) == Moves(m, "sending", "published") /\ (Fail \/ UNCHANGED failures)

(* The sender may have seen it shown by then, and is told of a success.    *)
Lose(m) == Moves(m, "sending", "lost") /\ Fail

Store(m) == Moves(m, "published", "stored") /\ UNCHANGED failures

(* A failure that costs no message.                                        *)
Survive == Fail /\ UNCHANGED fate

Next ==
    \/ \E m \in Messages : Send(m) \/ Publish(m) \/ Lose(m) \/ Store(m)
    \/ Survive

Spec == Init /\ [][Next]_vars
=============================================================================
