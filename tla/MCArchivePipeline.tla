-------------------------- MODULE MCArchivePipeline --------------------------
EXTENDS ArchivePipeline, TLC

Symmetry == Permutations(Workers)
=============================================================================
