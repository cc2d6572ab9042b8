---------------------------- MODULE MCTraceStore ----------------------------
\* Instances of TraceStore; callers of the same kind are interchangeable.
EXTENDS TraceStore, TLC

Symmetry == Permutations(Singles) \cup Permutations(Bulks)
=============================================================================
