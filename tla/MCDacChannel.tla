---------------------------- MODULE MCDacChannel ----------------------------
(***************************************************************************)
(* DacChannel for TLC: half a turn in seven increments, the cosine in      *)
(* eighths, floats with a mantissa of two bits, rounded to the even one.   *)
(***************************************************************************)
EXTENDS DacChannel, Sequences

SevenSteps == [p \in -3 .. 7 |->
                 IF p < 0 THEN -2 * p ELSE <<0, 0, 2, 3, 5, 6, 8, 8>>[p + 1]]

BothSigns == {-6, 0, 6}

TwoBits == [i \in 0 .. 7 |-> <<0, 1, 2, 3, 4, 4, 6, 8>>[i + 1]]

=============================================================================
