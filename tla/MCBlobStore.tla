---------------------------- MODULE MCBlobStore ----------------------------
(* Small instances of BlobStore for TLC. *)
EXTENDS BlobStore, TLC

Symmetry == Permutations(Blobs) \cup Permutations(Refs) \cup Permutations(Handlers)
=============================================================================
