--------------------------------- MODULE Replica ---------------------------------
(***************************************************************************)
(* What a synchronised copy promises.  Each item has a version at a        *)
(* source that only grows; the copy of an item moves forward only, and     *)
(* only to a version the source has reached.  A fair copy catches up.      *)
(***************************************************************************)
EXTENDS Naturals

CONSTANT Items

VARIABLES source, copy

vars == <<source, copy>>

Init ==
    /\ source \in [Items -> Nat]
    /\ copy = [i \in Items |-> 0]

\* The source moves on, for any number of items.
Grow ==
    /\ source' \in [Items -> Nat]
    /\ \A i \in Items : source[i] <= source'[i]
    /\ UNCHANGED copy

\* The copies of some items are brought forward together.
Refresh ==
    /\ copy' \in [Items -> Nat]
    /\ \A i \in Items : copy[i] <= copy'[i] /\ (copy'[i] # copy[i] => copy'[i] <= source[i])
    /\ UNCHANGED source

Next == Grow \/ Refresh

Spec == Init /\ [][Next]_vars
==================================================================================
