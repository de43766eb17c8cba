--------------------------- MODULE MCStorageFiles ---------------------------
EXTENDS StorageFiles, TLC

\* Handlers and the files of a kind differ in nothing but their names.
Symmetry == Permutations(Handlers) \cup Permutations(Finals)
=============================================================================
