---------------------------- MODULE MCJobserver ----------------------------
(* Instances of Jobserver for TLC: a chain of directories with executables   *)
(* at each level.                                                            *)
EXTENDS Jobserver, JobserverArgument, TLC

CONSTANTS top, sub, subsub, f1, f2, f3, f4

ThreeDirs == {top, sub, subsub}
ChainOfThree == (sub :> top) @@ (subsub :> sub)
FourFiles == {f1, f2, f3, f4}
FourPlaced == (f1 :> top) @@ (f2 :> sub) @@ (f3 :> sub) @@ (f4 :> subsub)

\* K when the program is started with the argument "0002".
KOfArgument == convert(<<0, 0, 0, 2>>)
============================================================================
