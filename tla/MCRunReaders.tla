---------------------------- MODULE MCRunReaders ----------------------------
(* Two runs, over a dataset without the analyst or over uploads with it,   *)
(* and one reader of any kind.                                             *)
EXTENDS RunReaders

MCRuns == 1..2

MCAsked ==
    {[dataset |-> d, useLlm |-> d = NoDataset] : d \in Datasets \union {NoDataset}}
=============================================================================
