------------------------------- MODULE Merkle -------------------------------
(***************************************************************************)
(* MerkleManager.build_merkle_root (core/crypto_audit.py), with SHA-256 of *)
(* two concatenated hashes as the pair of them.                            *)
(***************************************************************************)
EXTENDS Integers, Sequences

Zero == <<>>

\* The next level: neighbours are hashed together, and an odd last hash is
\* hashed with itself.
NextLevel(hashes) ==
    [i \in 1 .. (Len(hashes) + 1) \div 2 |->
        LET left == hashes[2 * i - 1]
        IN  <<left, IF 2 * i <= Len(hashes) THEN hashes[2 * i] ELSE left>>]

RECURSIVE BuildMerkleRoot(_)
BuildMerkleRoot(leaves) ==
    CASE leaves = <<>>   -> Zero
      [] Len(leaves) = 1 -> leaves[1]
      [] OTHER           -> BuildMerkleRoot(NextLevel(leaves))
=============================================================================
