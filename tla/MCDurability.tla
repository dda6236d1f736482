---------------------------- MODULE MCDurability ----------------------------
(* An instance of Durability, on both kinds of file system. *)
EXTENDS Durability

CONSTANTS c0, c1, c2

MCConfigs == {c0, c1, c2}
=============================================================================
