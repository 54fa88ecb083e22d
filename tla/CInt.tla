-------------------------------- MODULE CInt ----------------------------------
(***************************************************************************)
(* How C makes whole numbers, where it differs from TLA+.                  *)
(***************************************************************************)
EXTENDS Integers

\* (int) of n / d cuts off what is behind the point, on both sides of zero.
Truncate(n, d) == IF n < 0 THEN -((-n) \div d) ELSE n \div d

\* n % d has the sign of n.
Remainder(n, d) == IF n < 0 THEN -((-n) % d) ELSE n % d
===============================================================================
