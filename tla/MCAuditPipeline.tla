-------------------------- MODULE MCAuditPipeline --------------------------
(* Instances of AuditPipeline for TLC.                                     *)
EXTENDS AuditPipeline, Merkle, SequencesExt

\* Events differ in nothing the pipeline looks at.
MCSymmetry == Permutations(Event)

\* Two batches of distinct events with one Merkle root are one batch, though
\* levels are padded: the root may stand for the batch in AuditPipeline.
ASSUME RootsTellBatchesApart ==
    LET Batches == {b \in SeqOf(Event, 4) : IsInjective(b)}
    IN  \A a, b \in Batches : BuildMerkleRoot(a) = BuildMerkleRoot(b) => a = b
=============================================================================
