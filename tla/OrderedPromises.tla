---------------------------- MODULE OrderedPromises ----------------------------
(***************************************************************************)
(* What the callers of the Sovereign Atlas service rely on: every call is  *)
(* answered once, with the result of its own arguments, and the calls that *)
(* have to wait are answered in the order they were made, so a component   *)
(* that shows the last answer it received shows the last position of the   *)
(* pointer.                                                                *)
(***************************************************************************)
EXTENDS Naturals, Sequences

VARIABLE promise \* promise[n]: the answer to the n-th call

Waiting == [from |-> "nobody", of |-> 0]

(* An answer, and the call whose arguments it was computed from. *)
Answer(from, n) == [from |-> from, of |-> n]
Sources == {"worker", "error", "inline"}

Init == promise = <<>>

Call == promise' = Append(promise, Waiting)

CallInline == promise' = Append(promise, Answer("inline", Len(promise) + 1))

Settle ==
    \E n \in DOMAIN promise, from \in Sources :
        /\ promise[n] = Waiting
        /\ \A m \in DOMAIN promise : m < n => promise[m] # Waiting
        /\ promise' = [promise EXCEPT ![n] = Answer(from, n)]

Next == Call \/ CallInline \/ Settle

Spec == Init /\ [][Next]_promise
=============================================================================
