----------------------------- MODULE MCNamespace -----------------------------
\* Instances of Namespace for TLC.
EXTENDS Namespace, TLC

CONSTANTS a, b, c

MCNames == {a, b, c}

\* All names have fewer than 28 characters: strscpy keeps all of each, and only
\* their equality matters.
MCStoredWhole == [n \in MCNames |-> n]
MCSymmetry == Permutations(MCNames)

\* b has 28 characters; strscpy keeps the first 27 of them, which are c.
MCStoredCut == [n \in MCNames |-> IF n = b THEN c ELSE n]
=============================================================================
