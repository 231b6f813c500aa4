---------------------------- MODULE MCFileStore ----------------------------
(* Model values for FileStore: see MCFileStore.cfg.                         *)
EXTENDS FileStore, TLC

Symmetry == Permutations(Procs) \cup Permutations(Ids)
============================================================================
