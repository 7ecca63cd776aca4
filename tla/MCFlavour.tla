----------------------------- MODULE MCFlavour ------------------------------
(* Setpoints on either side of the range, and contents of the stack, for   *)
(* model checking Flavour.                                                 *)
EXTENDS Flavour

BothSigns == {2, -3}

StackHeld == {[resolution |-> Other, polarity |-> 1]}

=============================================================================
