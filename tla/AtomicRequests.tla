---------------------------- MODULE AtomicRequests ----------------------------
(***************************************************************************)
(* What the query engine promises of the operations clients ask for, with  *)
(* no connections, transactions or batches: an operation takes effect at   *)
(* one instant, at most once, after it was received; data is answered only *)
(* after that instant, and nothing takes effect after an answer or after   *)
(* the engine let go of the operation.                                     *)
(***************************************************************************)
CONSTANT Operations

VARIABLES
    received,
    effective,      \* the operations that took effect
    settled,        \* the operations the engine is done with
    answered        \* "data" or "error", once there is an answer

vars == <<received, effective, settled, answered>>

Init ==
    /\ received = {} /\ effective = {} /\ settled = {}
    /\ answered = [o \in Operations |-> "none"]

\* The operations of a request arrive together.
Receive ==
    /\ received \subseteq received' /\ received' \subseteq Operations
    /\ UNCHANGED <<effective, settled, answered>>

TakeEffect(o) ==
    /\ effective' = effective \cup {o}
    /\ UNCHANGED <<received, settled, answered>>

Answer(o) ==
    /\ \E kind \in {"data", "error"} :
          /\ kind = "data" => o \in effective
          /\ answered' = [answered EXCEPT ![o] = kind]
    /\ settled' = settled \cup {o}
    /\ UNCHANGED <<received, effective>>

\* A client hung up or the engine stopped. What was on its way to the database may
\* still arrive there.
Abandon ==
    /\ settled \subseteq settled' /\ settled' \subseteq received
    /\ effective \subseteq effective' /\ effective' \ effective \subseteq settled' \ settled
    /\ UNCHANGED <<received, answered>>

Next ==
    \/ Receive
    \/ \E o \in received \ (effective \cup settled) : TakeEffect(o)
    \/ \E o \in received \ settled : Answer(o)
    \/ Abandon

Spec == Init /\ [][Next]_vars

=============================================================================
