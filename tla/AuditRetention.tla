--------------------------- MODULE AuditRetention ---------------------------
(***************************************************************************)
(* What the offline audit synchronisation promises, without its tabs,      *)
(* timers and requests: an accepted audit event is kept by the client      *)
(* until the server has recorded it, unless it is exempt.  An event is     *)
(* exempt when the user discarded it or when it was accepted in the window *)
(* the implementation does not cover (see AuditFlush for that window).     *)
(* Recording may happen more than once and at any time: delivery is at     *)
(* least once.                                                             *)
(***************************************************************************)
CONSTANT Event

VARIABLES
    accepted,   \* events handed to enqueueEvent so far
    exempt,     \* accepted events the promise does not cover
    recorded,   \* events the server has handled
    retained    \* events the client still holds

vars == <<accepted, exempt, recorded, retained>>

(* Events the client must still hold. *)
Owed == (accepted \ exempt) \ recorded

Init ==
    /\ accepted = {}
    /\ exempt = {}
    /\ recorded = {}
    /\ retained = {}

Accept(e) ==
    /\ e \notin accepted
    /\ accepted' = accepted \cup {e}
    /\ retained' = retained \cup {e}
    /\ exempt' \in {exempt, exempt \cup {e}}
    /\ UNCHANGED recorded

Record(S) ==
    /\ recorded' = recorded \cup S
    /\ UNCHANGED <<accepted, exempt, retained>>

(* The user throws away everything the client holds. *)
Discard ==
    /\ retained' = {}
    /\ exempt' = exempt \cup retained
    /\ UNCHANGED <<accepted, recorded>>

(* The client replaces what it holds; nothing it owes may be missing. *)
Replace(S) ==
    /\ Owed \subseteq S
    /\ retained' = S
    /\ UNCHANGED <<accepted, exempt, recorded>>

Next ==
    \/ \E e \in Event : Accept(e)
    \/ \E S \in SUBSET accepted : Record(S) \/ Replace(S)
    \/ Discard

Spec == Init /\ [][Next]_vars

(* Whatever is owed is still held. *)
KeepsOwed == Owed \subseteq retained
=============================================================================
