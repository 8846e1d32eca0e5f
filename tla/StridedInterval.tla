--------------------------- MODULE StridedInterval ---------------------------
(***************************************************************************)
(* Strided intervals, s[l, u], of the value-set analysis of POMP++         *)
(* (src/pompplusplus/src/re_valueset.c), and their arithmetic.             *)
(*                                                                         *)
(* Bounds are mathematical integers here: "take overflow into              *)
(* consideration later".                                                   *)
(***************************************************************************)
EXTENDS Integers

SI(s, l, u) == [stride |-> s, lower |-> l, upper |-> u]
One(v) == SI(0, v, v)

\* (int)LONG_MIN and (int)LONG_MAX.
min_si == 0
max_si == -1

si_set_full == SI(1, min_si, max_si)
si_is_full(a) == a.lower = min_si /\ a.upper = max_si
si_is_one_value(a) == a.stride = 0 /\ a.lower = a.upper

\* The values that an interval stands for.
Has(a, v) ==
    \/ si_is_full(a)
    \/ a.stride = 0 /\ v = a.lower
    \/ a.stride > 0 /\ a.lower <= v /\ v <= a.upper /\ (v - a.lower) % a.stride = 0

------------------------------------------------------------------------------
(* Arithmetic. *)

si_add_offset(a, c) == IF si_is_full(a) THEN a ELSE [a EXCEPT !.lower = @ + c, !.upper = @ + c]

Divides(d, n) == \E k \in 0 .. n : n = k * d
gcd(m, n) == CHOOSE d \in 1 .. m : /\ Divides(d, m) /\ Divides(d, n)
                                   /\ \A e \in 1 .. m : Divides(e, m) /\ Divides(e, n) => e <= d

si_add(a, b) ==
    IF si_is_full(a) \/ si_is_full(b) THEN si_set_full
    ELSE IF b.stride = 0 THEN si_add_offset(a, b.lower)
    ELSE IF a.stride = 0 THEN si_add_offset(b, a.lower)
    ELSE SI(IF a.stride = b.stride THEN a.stride ELSE gcd(a.stride, b.stride),
            a.lower + b.lower, a.upper + b.upper)

\* Mutant: the bounds are not exchanged.
neg_in_place(a) == [a EXCEPT !.lower = -a.lower, !.upper = -a.upper]

\* An interval from 0 is taken for one from the smallest number.
si_neg(a) ==
    IF si_is_full(a) \/ (a.upper = min_si /\ a.lower = min_si) THEN a
    ELSE IF a.lower # min_si THEN [a EXCEPT !.upper = -a.lower, !.lower = -a.upper]
    ELSE si_set_full

si_sub(a, b) == si_add(a, si_neg(b))

\* ~x = -x - 1.
si_not(a) == [a EXCEPT !.lower = -a.upper - 1, !.upper = -a.lower - 1]
=============================================================================
