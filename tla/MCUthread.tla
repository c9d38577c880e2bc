----------------------------- MODULE MCUthread -----------------------------
(* Instances of Uthread for TLC: main's context and the addresses malloc     *)
(* has to give, four or five in all.                                         *)
EXTENDS UthreadRefinement

CONSTANTS main, a1, a2, a3, a4
FourContexts == {main, a1, a2, a3}
FiveContexts == {main, a1, a2, a3, a4}
============================================================================
