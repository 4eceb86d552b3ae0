-------------------------------- MODULE SVInt --------------------------------
(***************************************************************************)
(* The numbers of slang as a whole (source/numeric/SVInt.cpp): vectors of  *)
(* bits, with unknown ones (module SVIntBits), and arithmetic on known     *)
(* numbers (module SVIntArithmetic).  The two share no state.              *)
(***************************************************************************)
EXTENDS SVIntBits, SVIntArithmetic

\* Constants are evaluated as the language defines it: every operation on vectors
\* and every sum, product and quotient returns the right bits, in canonical form.
NumbersRight == BitsRight /\ ArithmeticRight
=============================================================================
