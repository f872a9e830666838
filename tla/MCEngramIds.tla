---------------------------- MODULE MCEngramIds ----------------------------
(* Draws for EngramIds, and the xor of its integers against the bitwise one. *)
EXTENDS EngramIds, Bitwise

\* The least, a middle and the greatest number below n.
LeastMiddleGreatest(n) == {0, n \div 3, n - 1}

\* Bound: the numbers whose xor is compared.
XorReach == 40

ASSUME XorAgrees ==
  \A x, y \in (-XorReach)..XorReach :
    XorLong(x, y) = Signed((x % TwoTo[LongBits]) ^^ (y % TwoTo[LongBits]), LongBits)
=============================================================================
