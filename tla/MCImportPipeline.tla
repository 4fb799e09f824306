-------------------------- MODULE MCImportPipeline --------------------------
(* Instances of ImportPipeline for TLC: the workbooks of a batch, and the     *)
(* clients of one kind, are interchangeable model values.                     *)
EXTENDS ImportPipeline, TLC

\* A plain name, and one that looks suffixed and leaves no room for another
\* suffix (MaxName is 2).
MCNames == {<<"a">>, <<"a", 1>>}
MCOneName == {<<"a">>}

PipelineSymmetry ==
    Permutations(Files) \cup Permutations(Committers)
=============================================================================
