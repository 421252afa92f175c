----------------------------- MODULE MCLLMBackend -----------------------------
(* Model values for LLMBackend: the runs differ in which actors they have. *)
EXTENDS LLMBackend, TLC

ServerSymmetry == Permutations(Procs)
=============================================================================
