----------------------------- MODULE MCReadPath -----------------------------
EXTENDS ReadPath, TLC

\* Every version of every page, and the zeros of a fresh buffer.
AllImages == (Pages \X (1 .. MaxVersion)) \cup {Zero}
Symmetry == Permutations(Readers)
============================================================================
