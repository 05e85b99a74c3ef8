---------------------------- MODULE AdmissionMC -----------------------------
(* Admission for TLC: bodies on each side of every check.                    *)
EXTENDS Admission

Small == [batch |-> FALSE, parses |-> TRUE, size |-> 1, braces |-> 1]

SomeBodies ==
    { Small,
      [Small EXCEPT !.parses = FALSE],
      [Small EXCEPT !.batch = TRUE, !.size = 0, !.braces = 0],
      [Small EXCEPT !.batch = TRUE, !.size = 2, !.braces = 2],
      \* One call with an object among its parameters.
      [Small EXCEPT !.batch = TRUE, !.braces = 2] }
=============================================================================
