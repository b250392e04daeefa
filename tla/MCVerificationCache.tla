------------------------ MODULE MCVerificationCache ------------------------
\* Small instances of the evidence cache: one and two runners of one request.
EXTENDS VerificationCache, TLC

Symmetry == Permutations(Proc)
=============================================================================
