---------------------------- MODULE MCAssistant ----------------------------
EXTENDS Assistant, TLC
=============================================================================
