------------------------------ MODULE LogNames ------------------------------
(***************************************************************************)
(* 04_SimpleLogger.c: the names of the archives.  create_new_name writes   *)
(* file_name.count and read_count_from_entry_name reads the count back     *)
(* from the name of a directory entry.                                     *)
(*                                                                         *)
(* A character is what chr - '0' is for it, as far as the code looks: a    *)
(* digit is its value, Radix is ':', which follows the last digit, and the *)
(* characters below '0' and above ':' are Dot and Letter.                  *)
(***************************************************************************)
EXTENDS Integers, Sequences, SequencesExt

CONSTANT Radix      \* 10 in the code; a smaller one gives longer numbers sooner

ASSUME RadixAssumption == Radix \in Nat \ {0, 1}

Digits == 0 .. Radix - 1
Dot == -1
Letter == Radix + 1

\* get_count_size says how many there are, the loop of create_new_name which.
DigitsOf[n \in Nat] ==
    IF n = 0 THEN <<>> ELSE Append(DigitsOf[n \div Radix], n % Radix)

create_new_name(name, count) == name \o <<Dot>> \o DigitsOf[count]

\* Mutant: the dot is not looked for.
any_separator(entry_name, file_name) ==
    LET size == Len(file_name)
        after == SubSeq(entry_name, size + 2, Len(entry_name))
    IN  IF /\ Len(entry_name) > size + 1
           /\ SubSeq(entry_name, 1, size) = file_name
           /\ \A i \in DOMAIN after : after[i] \in 0 .. Radix
        THEN FoldLeft(LAMBDA number, digit : number * Radix + digit, 0, after)
        ELSE 0

\* 0 for any name but file_name.digits; but digit > 10 lets ':' pass as one.
read_count_from_entry_name(entry_name, file_name) ==
    LET size == Len(file_name)
        after == SubSeq(entry_name, size + 2, Len(entry_name))
    IN  IF /\ Len(entry_name) > size + 1
           /\ SubSeq(entry_name, 1, size) = file_name
           /\ entry_name[size + 1] = Dot
           /\ \A i \in DOMAIN after : after[i] \in 0 .. Radix
        THEN FoldLeft(LAMBDA number, digit : number * Radix + digit, 0, after)
        ELSE 0
============================================================================
