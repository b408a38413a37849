------------------------------ MODULE MCRunJob ------------------------------
(* Three runs side by side over one dataset, so that a run has two         *)
(* possible baselines, each with the analyst, so that a result may be one  *)
(* of two, with a fault and a crash at every place.                        *)
EXTENDS RunJob

MCRuns == 1..3

MCAsked == [dataset : Datasets, useLlm : {TRUE}]
=============================================================================
