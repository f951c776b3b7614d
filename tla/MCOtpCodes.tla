----------------------------- MODULE MCOtpCodes -----------------------------
(* Small instances of OtpCodes for TLC.                                    *)
EXTENDS OtpCodes, TLC

\* Sound: nothing tells two requests apart.
Symmetry == Permutations(Calls)
=============================================================================
