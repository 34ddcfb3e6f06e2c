----------------------------- MODULE MCFileModes -----------------------------
(* The instances of FileModes that TLC checks.                             *)
EXTENDS FileModes

MCPool == 1..3
MCByte == 0..1
MCBufs == {<<1>>, <<1, 1>>, <<1, 0, 1>>}
=============================================================================
