---------------------------- MODULE MCMerkleBuilder ----------------------------
(* Every list of up to nine leaves over two digests: one more than a power of  *)
(* two, so that a lone node moves up through every level.                      *)
EXTENDS MerkleBuilder
===============================================================================
