---------------------------- MODULE MCCmsConfig ----------------------------
(***************************************************************************)
(* CmsConfig for TLC: two looks a scenario may give the Global scope and   *)
(* one persona, declared or not; two databases, so that a key can outlive  *)
(* the one it was minted in.                                               *)
(***************************************************************************)
EXTENDS CmsConfig

CONSTANTS wan, fabric, operator

MCLooks == {wan, fabric}
MCPersonas == {operator}

=============================================================================
