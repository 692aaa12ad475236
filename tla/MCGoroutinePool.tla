--------------------------- MODULE MCGoroutinePool ---------------------------
\* Instances of GoroutinePool for TLC; the values are in the .cfg files.
EXTENDS GoroutinePool
=============================================================================
