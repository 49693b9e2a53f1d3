----------------------------- MODULE MCBackend -----------------------------
(* Backend with the sets of calls TLC works on.                            *)
EXTENDS Backend

CONSTANTS s1, e1, m1, l1, l2

Streaming == {TRUE}

TwoAttempts == << l1, l2 >>

=============================================================================
