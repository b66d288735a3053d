-------------------------- MODULE MCExperimentScripts --------------------------
(* Two experiments, measured both or only one of them, three states of the   *)
(* source files and three commits: an old result, a half-measured and a new  *)
(* one can meet in one directory.                                            *)
EXTENDS ExperimentScripts

MCExperiments == {"e1", "e2"}
MCSelections == {<<"e1">>, <<"e2">>, <<"e1", "e2">>}
===============================================================================
