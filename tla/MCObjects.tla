----------------------------- MODULE MCObjects -----------------------------
(* Objects for TLC. *)
EXTENDS Objects

(* Two tensors whose names differ in a dot, and one of another name. *)
MCFlat == <<1, 1, 2>>

(* Requests differ only in what they do, texts in nothing. *)
MCSymmetry == Permutations(Threads) \cup Permutations(Texts)
=============================================================================
