----------------------------- MODULE MCRelease -----------------------------
(***************************************************************************)
(* Release for TLC: two commits, the older one no branch's tip, in two      *)
(* clones.                                                                 *)
(***************************************************************************)
EXTENDS Release, TLC

CONSTANTS root, main, alice, bob

MCCommits == {root, main}
MCAncestry == [c \in MCCommits |-> {root, c}]
MCOnPatchBranch == {main}
MCClones == {alice, bob}

CloneSymmetry == Permutations(MCClones)

=============================================================================
