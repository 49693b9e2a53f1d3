--------------------------- MODULE MCModelParams ----------------------------
(* ModelParams with the options TLC works on.                              *)
EXTENDS ModelParams, SequencesExt

Opt(n, v) == [name |-> n, value |-> v]

\* Both fields in both spellings, with good and with bad values
SomeOptions ==
  {Opt("parallel", "4"), Opt("n_parallel", "1"), Opt("parallel", "true"),
   Opt("cont_batching", "false"), Opt("continuous_batching", "on"),
   Opt("warmup", "0")}

UpToFour == SeqOf(SomeOptions, 4)

EnvValues == {"", "junk", "1", "4"}

=============================================================================
