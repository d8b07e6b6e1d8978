------------------------------ MODULE MCFetch ------------------------------
(* A file of ten bytes for TLC: one of length field, two of header, then   *)
(* three tensors; the first two share a request when both are wanted.      *)
EXTENDS Fetch

MCLayout == <<[lo |-> 3, hi |-> 4], [lo |-> 5, hi |-> 7], [lo |-> 9, hi |-> 10]>>

=============================================================================
