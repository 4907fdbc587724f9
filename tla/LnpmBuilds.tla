----------------------------- MODULE LnpmBuilds -----------------------------
(***************************************************************************)
(* What internal/store promises its readers: a map from builds to their    *)
(* files, in which a build appears whole, in one step, never changes, and  *)
(* disappears in one step.  LnpmStore implements it.                       *)
(***************************************************************************)
CONSTANTS
    Entry,    \* the builds a store may hold
    Content,  \* what a whole build may hold
    None

VARIABLE held   \* held[e]: the content served for build e, or None

Init == held = [e \in Entry |-> None]

(* Store commits a build that is not served, Remove withdraws one.         *)
Store(e) == /\ held[e] = None
            /\ \E c \in Content : held' = [held EXCEPT ![e] = c]

Remove(e) == /\ held[e] # None
             /\ held' = [held EXCEPT ![e] = None]

Next == \E e \in Entry : Store(e) \/ Remove(e)

Spec == Init /\ [][Next]_held
=============================================================================
