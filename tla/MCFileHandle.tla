---- MODULE MCFileHandle ----
EXTENDS JsonFile, TLC
\* Objects are only compared.
Symmetry == Permutations(Objects)
MCDocuments == {<<0>>, <<1, 0>>, <<1, 1>>}
====
