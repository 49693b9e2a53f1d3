----------------------------- MODULE MCServing -----------------------------
(* Serving with the sets of calls TLC works on.                            *)
EXTENDS ServingInvariants, TLC

CONSTANTS s1, s2, s3, p1, p2, e1

Streaming  == {TRUE}
Collecting == {FALSE}

StreamSymmetry == Permutations({s1, s2, s3})

=============================================================================
