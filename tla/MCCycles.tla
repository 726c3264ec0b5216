------------------------------ MODULE MCCycles ------------------------------
(* Instance of Cycles for model checking.                                 *)
EXTENDS Cycles

\* Days counted from the first of January 2023: 31 January, 28 February,
\* 31 August, 31 December, and 29 January, 31 January, 29 February 2024.
MCStarts == {30, 58, 242, 364, 393, 395, 424}
=============================================================================
