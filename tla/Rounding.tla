------------------------------- MODULE Rounding -------------------------------
(* Decimal rounding to a step, as both broker adapters do it.              *)
EXTENDS Integers

\* ROUND_FLOOR and ROUND_CEILING of n/d to a multiple of step.
FloorTo(n, d, step) == (n \div (d * step)) * step
CeilTo(n, d, step) == -FloorTo(-n, d, step)

===============================================================================
