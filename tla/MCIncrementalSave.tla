------------------------- MODULE MCIncrementalSave -------------------------
EXTENDS IncrementalSave

AlwaysFsync == {TRUE}
=============================================================================
