-------------------------- MODULE MCBlockOwnership --------------------------
(* Values for the constants of BlockOwnership.                            *)
EXTENDS BlockOwnership, TLC

CONSTANTS f1, f2, t1, t2

MCFiles == {f1, f2}
MCOneTask == {t1}
MCTwoTasks == {t1, t2}

\* Nothing distinguishes the files (used where only invariants are checked).
MCFileSymmetry == Permutations(MCFiles)

\* Everything but O_TRUNC.
MCNoTrunc == {"create", "write", "defrag", "unlink"}
MCAll == {"create", "write", "trunc", "defrag", "unlink"}
MCGrow == {"create", "write"}
=============================================================================
