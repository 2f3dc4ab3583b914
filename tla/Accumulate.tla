----------------------------- MODULE Accumulate -----------------------------
(***************************************************************************)
(* Going through a sequence once, from its beginning, with a value that    *)
(* every element changes: how the digits of a number are read, and how a   *)
(* reader of the contract's events learns the state of the registry.       *)
(***************************************************************************)
EXTENDS Integers, Sequences

CONSTANTS Start,          \* the value before the first element
          Step(_, _)      \* the value after an element

\* The value after each number of elements of s.
Running(s) ==
    LET value[n \in 0..Len(s)] ==
            IF n = 0 THEN Start ELSE Step(value[n - 1], s[n])
    IN value

\* The value after all of s.
After(s) == Running(s)[Len(s)]
=============================================================================
