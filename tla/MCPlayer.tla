------------------------------ MODULE MCPlayer ------------------------------
(* Instances of Player for TLC. *)
EXTENDS Player

\* Songs "a" and "b" are decoded to the same format, "c" to another one.
MCFormatOf == [s \in Songs |-> IF s = "c" THEN "dsd" ELSE "pcm"]

=============================================================================
