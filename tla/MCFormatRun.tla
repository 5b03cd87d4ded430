------------------------------ MODULE MCFormatRun ------------------------------
(***************************************************************************)
(* Constants of the model-checking instances of FormatRun: two batch keys, *)
(* a sequence of two formatters (one of which takes one file at a time)    *)
(* and a sequence of one.                                                  *)
(***************************************************************************)
EXTENDS FormatRun

CONSTANTS f1, f2, f3, w1, w2

MCFiles2 == {f1, f2}
MCFiles3 == {f1, f2, f3}

MCWorkers1 == {w1}
MCWorkers2 == {w1, w2}

MCFormatters == {"deadnix", "nixfmt"}
MCKeys1 == {"deadnix:nixfmt"}
MCKeys2 == {"deadnix:nixfmt", "nixfmt"}
MCSequence1 == [k \in MCKeys1 |-> <<"deadnix", "nixfmt">>]
MCSequence2 == [k \in MCKeys2 |-> IF k = "nixfmt" THEN <<"nixfmt">>
                                                  ELSE <<"deadnix", "nixfmt">>]
MCOneAtATime == {"deadnix"}
===============================================================================
