------------------------------- MODULE Powers -------------------------------
(***************************************************************************)
(* Powers of a natural number, as a recursive function.                    *)
(***************************************************************************)
EXTENDS Naturals

Pow(base, n) ==
  LET power[k \in Nat] == IF k = 0 THEN 1 ELSE base * power[k - 1]
  IN  power[n]
=============================================================================
