-------------------------- MODULE MCMemoryPipeline --------------------------
EXTENDS MemoryPipeline
=============================================================================
