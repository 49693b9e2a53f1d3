---------------------------- MODULE MCModelGate ----------------------------
(* ModelGate with the LoadModel calls TLC works on.                        *)
EXTENDS ModelGate

CONSTANTS l1, l2, l3

=============================================================================
