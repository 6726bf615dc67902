------------------------------ MODULE ArmOwners ------------------------------
(***************************************************************************)
(* What the multi-mode controller promises: every arm has exactly one      *)
(* owner, a controllet owns either all the arms it needs or none, and a    *)
(* request hands its arms over in one step and leaves the others alone.    *)
(***************************************************************************)
CONSTANTS Arms, Controllets, Resource

VARIABLES owner, request

(* A controllet owns all of its arms or none of them.                      *)
Whole(o) == \A a, b \in Arms : b \in Resource[o[a]] => o[b] = o[a]

Init ==
  /\ owner \in [Arms -> Controllets]
  /\ \A a \in Arms : a \in Resource[owner[a]]
  /\ Whole(owner)
  /\ request = {}

Ask(controllets) ==
  /\ request = {} /\ request' = controllets
  /\ UNCHANGED owner

Grant ==
  /\ owner' \in [Arms -> Controllets]
  /\ \A c \in request : \A a \in Resource[c] : owner'[a] = c
  /\ \A a \in Arms :
       (\A c \in request : a \notin Resource[c]) => owner'[a] = owner[a]
  /\ Whole(owner')
  /\ request' = {}

Next == Grant \/ \E controllets \in SUBSET Controllets : Ask(controllets)

Spec == Init /\ [][Next]_<<owner, request>>

=============================================================================
