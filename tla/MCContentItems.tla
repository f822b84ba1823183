--------------------------- MODULE MCContentItems ---------------------------
(***************************************************************************)
(* Instances of ContentItems for TLC; no symmetry, which liveness forbids. *)
(***************************************************************************)
EXTENDS ContentItems

CONSTANTS e1, e2, w1, w2

\* Two editors and a worker that may die; one editor and two workers, with time
\* to archive, restore and schedule an item anew.
Profiles ==
    {[editors |-> {e1, e2}, workers |-> {w1}, revisions |-> 4, deaths |-> 1],
     [editors |-> {e1}, workers |-> {w1, w2}, revisions |-> 6, deaths |-> 1]}
=============================================================================
