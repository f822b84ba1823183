--------------------------- MODULE ReviewedLedger ---------------------------
(***************************************************************************)
(* What the application promises of everything a person reviews before it  *)
(* counts: a draft is saved as revision after revision, and an append-only *)
(* ledger takes over what stands in the draft, word for word and each      *)
(* revision at most once.  Race results keep it (RaceDay), and so do the   *)
(* evaluations of WIN5 products (Win5Day).                                 *)
(***************************************************************************)
EXTENDS Naturals, Sequences

CONSTANT Content    \* what may be saved

VARIABLES
    saved,          \* the draft's contents, by revision; the last one stands
    ledger          \* the confirmed entries, each with the revision it takes over

Init == saved = <<>> /\ ledger = <<>>

Save ==
    /\ \E c \in Content : saved' = Append(saved, c)
    /\ UNCHANGED ledger

Confirm ==
    LET revision == Len(saved)
    IN  /\ revision > 0
        /\ \A i \in DOMAIN ledger : ledger[i].source # revision
        /\ ledger' = Append(ledger, [source |-> revision, content |-> saved[revision]])
        /\ UNCHANGED saved

Spec == Init /\ [][Save \/ Confirm]_<<saved, ledger>>
=============================================================================
