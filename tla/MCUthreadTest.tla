--------------------------- MODULE MCUthreadTest ---------------------------
(* The test with five addresses to allocate contexts at: three fibers exist  *)
(* at a time, so malloc may reuse an address or not.                         *)
EXTENDS UthreadTest

CONSTANTS main, a1, a2, a3, a4
FiveContexts == {main, a1, a2, a3, a4}
============================================================================
