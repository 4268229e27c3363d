------------------------------ MODULE MCUpload ------------------------------
(* Instances of Upload: a file of fifteen tokens, so that several calls of *)
(* six tokens and more fall between its first and its last.                *)
EXTENDS Upload

MCContent == <<"a", "b", "c", "d", "e", "f", "g", "h", "i", "j", "k", "l", "m", "n", "o">>

MCScenarios == {Scenario(CutContent, FALSE), Scenario(CutAnywhere, TRUE)}
=============================================================================
