----------------------------- MODULE MCPacking -----------------------------
(***************************************************************************)
(* An instance of Packing for TLC: chunks of two bytes, batches of two     *)
(* chunks; all files of at most MaxLen bits, and some of two batches.      *)
(***************************************************************************)
EXTENDS Packing

CONSTANTS MaxLen   (* bound: length of a file                              *)

(* Stands for EVP_Digest: two bytes, different for different inputs of the *)
(* instance (the files' chunks and names).                                 *)
MCDigest(d) ==
  LET code == FoldLeft(LAMBDA acc, b : 3 * acc + b + 1, 0, d)
  IN <<code, 255 - code>>

(* "a", "/a" and "b".                                                      *)
MCPaths == {<<97>>, <<Slash, 97>>, <<98>>}

(* Five and six bytes are two batches: with a chunk that repeats in its    *)
(* batch, one that repeats in the next, and with none.                     *)
MCFiles ==
  UNION {[1 .. n -> {0, 1}] : n \in 0 .. MaxLen}
    \cup {<<0, 1, 0, 1, 0>>, <<0, 0, 1, 1, 1>>, <<0, 1, 0, 0, 0, 1>>, <<1, 0, 1, 1, 1>>}
=============================================================================
