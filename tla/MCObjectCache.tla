--------------------------- MODULE MCObjectCache ---------------------------
EXTENDS ObjectCache, TLC
=============================================================================
