---------------------------- MODULE MCDiscovery ----------------------------
(***************************************************************************)
(* Discovery for TLC: the one function block of DISCOVER_FB and two        *)
(* devices, times that just fit into the life of a token, three levels of  *)
(* grants.                                                                 *)
(***************************************************************************)
EXTENDS Discovery, TLC

CONSTANTS block, frr, srlinux

MCBlocks == {block}
MCDevices == {frr, srlinux}

DeviceSymmetry == Permutations(MCDevices)

=============================================================================
