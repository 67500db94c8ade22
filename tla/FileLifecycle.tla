---------------------------- MODULE FileLifecycle ---------------------------
(***************************************************************************)
(* What the file component promises about each key, whatever requests,     *)
(* failures, cancellations and crashes do: its object is written once, its *)
(* row is published only over a complete object and withdrawn only when    *)
(* the object is gone.                                                     *)
(***************************************************************************)
CONSTANT Keys

VARIABLES
    object,     \* key -> where its object is in its one life
    published   \* the keys that have a row

ObjectLife == {"none", "writing", "stored", "removed"}

Init ==
    /\ object = [k \in Keys |-> "none"]
    /\ published = {}

Become(k, state) == object' = [object EXCEPT ![k] = state] /\ UNCHANGED published

BeginWrite(k) == object[k] = "none" /\ Become(k, "writing")

Complete(k) == object[k] = "writing" /\ Become(k, "stored")

(* By a delete, by compensation, or by a put that fails or never starts. *)
Remove(k) == Become(k, "removed")

Publish(k) ==
    /\ object[k] = "stored"
    /\ k \notin published
    /\ published' = published \cup {k}
    /\ UNCHANGED object

Withdraw(k) ==
    /\ object[k] = "removed"
    /\ k \in published
    /\ published' = published \ {k}
    /\ UNCHANGED object

Next ==
    \E k \in Keys :
        BeginWrite(k) \/ Complete(k) \/ Remove(k) \/ Publish(k) \/ Withdraw(k)

Spec == Init /\ [][Next]_<<object, published>>
=============================================================================
