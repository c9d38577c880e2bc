------------------------- MODULE JobserverArgument -------------------------
(***************************************************************************)
(* 05_Jobserver.c: how main makes K from its argument.  A character of the *)
(* argument is its digit.  An int overflows by wrapping around, as the     *)
(* processor's instructions do.                                            *)
(***************************************************************************)
EXTENDS Integers, Sequences, SequencesExt

CONSTANTS
    INT_MAX,      \* 2147483647; smaller here, so that numbers overflow
    MaxDigits     \* bound: the length of the arguments ConvertAssumption is about

Wrapped(n) == ((n + INT_MAX + 1) % (2 * (INT_MAX + 1))) - (INT_MAX + 1)

\* From the last digit to the first.  Another character ends the program before
\* there is anything to do.
convert(k_string) ==
    FoldRight(LAMBDA digit, sum : [number |-> Wrapped(sum.number + Wrapped(digit * sum.base)),
                                   base |-> Wrapped(sum.base * 10)],
              k_string, [number |-> 0, base |-> 1]).number

Value(k_string) == FoldLeft(LAMBDA number, digit : 10 * number + digit, 0, k_string)

\* Every number that fits an int is converted to its value, although base may
\* have overflowed after its first digit, in the leading zeros and behind it.
ASSUME ConvertAssumption ==
    \A n \in 0 .. MaxDigits : \A k_string \in [1 .. n -> 0 .. 9] :
        Value(k_string) <= INT_MAX => convert(k_string) = Value(k_string)
============================================================================
