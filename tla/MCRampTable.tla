---------------------------- MODULE MCRampTable ----------------------------
(***************************************************************************)
(* RampTable for TLC: a full table whose first point is beyond the limit   *)
(* of one resolution, a short one whose point is beyond the range of the   *)
(* register, and one that is too long.                                     *)
(***************************************************************************)
EXTENDS RampTable

SmallTables == {<<-1, 0>>, <<3>>, <<0, 0, 0>>}

=============================================================================
