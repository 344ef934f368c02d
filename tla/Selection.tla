------------------------------ MODULE Selection ------------------------------
(***************************************************************************)
(* The list comprehensions with a condition that the schedulers select     *)
(* requests and slots with, as in [x for x in s if ...].                   *)
(***************************************************************************)
EXTENDS Integers, Sequences

(* The elements of s that are in S, in their order: SelectSeq, written so    *)
(* that it can be proved about.                                             *)
InOrder(s, S) ==
  LET chosen[i \in 0 .. Len(s)] ==
        IF i = 0 THEN << >>
        ELSE IF s[i] \in S THEN Append(chosen[i - 1], s[i]) ELSE chosen[i - 1]
  IN  chosen[Len(s)]

=============================================================================
