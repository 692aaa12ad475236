-------------------------- MODULE MCSessionSequencer --------------------------
\* Instances of SessionSequencer for TLC; the values are in the .cfg files.
EXTENDS SessionSequencer
=============================================================================
