--------------------------- MODULE MCSharedPrefs ---------------------------
EXTENDS SharedPrefs, TLC
=============================================================================
