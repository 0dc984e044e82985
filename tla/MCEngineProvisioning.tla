------------------------- MODULE MCEngineProvisioning -------------------------
EXTENDS EngineProvisioning, TLC

CONSTANTS l1, l2, v1, v2

AlikeVersions == Permutations({v1, v2}) \cup Permutations({l1, l2})
=============================================================================
