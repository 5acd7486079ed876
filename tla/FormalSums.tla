----------------------------- MODULE FormalSums -----------------------------
(***************************************************************************)
(* The numbers a kernel adds up, kept as formal sums.                      *)
(*                                                                         *)
(* A product A(i,j) * x(j), or an element of a vector, is never evaluated: *)
(* it is a term, and a register, a slot of local memory or an element of y *)
(* holds how many times each term has been added to it.  Two sums are      *)
(* equal exactly when they are equal for all values of the terms, so a     *)
(* term that is lost, or added twice, always shows.  Rounding is not       *)
(* modelled: the order of the additions is immaterial here.                *)
(***************************************************************************)
EXTENDS Integers

Sums(Terms) == [Terms -> Nat]

Zero(Terms) == [t \in Terms |-> 0]

Only(Terms, t) == [s \in Terms |-> IF s = t THEN 1 ELSE 0]

(* The sum whose terms are exactly those of S, each of them once.          *)
Each(Terms, S) == [s \in Terms |-> IF s \in S THEN 1 ELSE 0]

a ++ b == [t \in DOMAIN a |-> a[t] + b[t]]

=============================================================================
