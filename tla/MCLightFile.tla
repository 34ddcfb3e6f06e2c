----------------------------- MODULE MCLightFile -----------------------------
(* The instances of LightFile that TLC checks.                             *)
EXTENDS LightFile

MCPool == 1..3
MCByte == 0..2
\* A zero-length write, one byte, and several bytes: a block of size 3, more
\* than a block of size 2.
MCBufs == {<<>>, <<1>>, <<2, 1, 2>>}

\* Two byte values suffice for the run with faults.
MCByteFaults == 0..1
MCBufsFaults == {<<1>>, <<1, 0, 1>>}
=============================================================================
