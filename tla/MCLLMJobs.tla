------------------------------ MODULE MCLLMJobs -------------------------------
(* Small instances of LLMJobs: maxLLMJobs is scaled down from five to two.  *)
EXTENDS LLMJobs, SequencesExt

(* Keep is the library's SelectSeq.                                        *)
ASSUME KeepIsSelectSeq ==
    \A q \in BoundedSeq(1..3, 4), S \in SUBSET (1..3) : Keep(q, S) = SelectSeq(q, LAMBDA x : x \in S)
=============================================================================
