----------------------------- MODULE MCBootstrap -----------------------------
(***************************************************************************)
(* Bootstrap for TLC: two documents over two versions and two contents, so *)
(* the documents can agree, differ, or claim the same version; two runs,   *)
(* so a lost request of the first can meet the second.                     *)
(***************************************************************************)
EXTENDS Bootstrap

CONSTANTS v1, v2, a, b

MCKeys == {v1, v2}
MCBodies == {a, b}

=============================================================================
