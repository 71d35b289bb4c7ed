------------------------ MODULE MCFinalizationStore ------------------------
EXTENDS FinalizationStore
=============================================================================
