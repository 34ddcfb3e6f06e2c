---------------------------- MODULE MCBlockEntry ----------------------------
(* The instances of BlockEntry that TLC checks: the constants are numbers  *)
(* and stand in the configurations.                                        *)
EXTENDS BlockEntry
=============================================================================
