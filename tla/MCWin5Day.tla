------------------------------ MODULE MCWin5Day ------------------------------
(***************************************************************************)
(* Instances of Win5Day for TLC: two legs of the five, one horse.          *)
(***************************************************************************)
EXTENDS Win5Day

CONSTANTS q1, q2, m1, m2, l1, l2, h1

Profile(revision, previews_, changes, results, imports, buyers, time) ==
    [revision |-> revision, previews |-> previews_, changes |-> changes, results |-> results,
     imports |-> imports, buyers |-> buyers, time |-> time]

\* Publications of races that move; two passes and a publication; a pass to its
\* refund; the evaluation, with a corrected result.
Profiles ==
    {Profile(3, 2, 1, 0, 0, {}, 2), Profile(3, 1, 0, 0, 0, {m1, m2}, 2),
     Profile(1, 0, 0, 0, 0, {m1}, 4), Profile(3, 1, 0, 2, 2, {}, 3)}
=============================================================================
