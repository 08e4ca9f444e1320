----------------------------- MODULE MCVersion -----------------------------
(* Version for model checking: tags and data are interchangeable.          *)
EXTENDS Version

VersionSymmetry == Permutations(Tag) \cup Permutations(Data)
=============================================================================
