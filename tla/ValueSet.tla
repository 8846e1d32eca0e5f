------------------------------ MODULE ValueSet ------------------------------
(***************************************************************************)
(* The value-set analysis of POMP++: the handlers of re_vsmanager.c and    *)
(* handler_arm.c compute, along the trace, what each register may hold,    *)
(* and between two rounds of them a set not found so far is made of the    *)
(* value that reverse execution has found.                                 *)
(*                                                                         *)
(* A value set is empty (nothing known) or an interval of offsets in a     *)
(* region: a second region of a set could only come from sets of several   *)
(* regions.  The trace runs beside the analysis: "val" is what the         *)
(* registers really hold.                                                  *)
(* Bounds: Width bits, and no result that leaves them; MaxSteps.           *)
(***************************************************************************)
EXTENDS StridedInterval, Naturals, FiniteSets, FiniteSetsExt, Bitwise

CONSTANTS
    Regs, SP,       \* registers, and the one that points to the stack
    Base,           \* where the stack region begins, and where OTHER_REGION does
    Segment,        \* the addresses of the segment of each of them
    Immediates,
    Words,          \* what memory may hold
    Width,          \* bits of an int; a long has twice as many
    Cases,          \* the cases of bitwise operations that occur, see Occurs
    MaxSteps

Regions == {"STACK", "OTHER"}
ASSUME ValueSetAssumption ==
    /\ SP \in Regs /\ Width \in Nat \ {0} /\ MaxSteps \in Nat
    /\ Base \in [Regions -> Int] /\ Segment \in [Regions -> SUBSET Int]
    /\ Segment["STACK"] \cap Segment["OTHER"] = {}

VARIABLES vs, val, steps

vars == <<vs, val, steps>>

Long == 2 ^ (2 * Width)
Unsigned(x) == x % Long
Signed(x) == IF x % Long >= Long \div 2 THEN (x % Long) - Long ELSE x % Long
Half == 2 ^ (Width - 1)
Fits(x) == -Half <= x /\ x < Half

BitAnd(x, y) == Signed(Unsigned(x) & Unsigned(y))
BitOr(x, y) == Signed(Unsigned(x) | Unsigned(y))

------------------------------------------------------------------------------
(* Bitwise operations on intervals. *)

Bit(x, k) == (x \div 2 ^ k) % 2 = 1
Below(x, k) == x - (x % 2 ^ k)

\* The smallest and the largest of x | y, x \in lb1 .. ub1, y \in lb2 .. ub2, of unsigned
\* longs: from the highest bit down to the lowest, the first that can be changed is.
minOR(lb1, ub1, lb2, ub2) ==
    LET raised(lb, k) == Below(lb, k) + 2 ^ k
        K1 == {k \in 0 .. (Width - 1) : ~Bit(lb1, k) /\ Bit(lb2, k) /\ raised(lb1, k) <= ub1}
        K2 == {k \in 0 .. (Width - 1) : Bit(lb1, k) /\ ~Bit(lb2, k) /\ raised(lb2, k) <= ub2}
    IN IF K1 \cup K2 = {} THEN lb1 | lb2
       ELSE LET k == Max(K1 \cup K2)
            IN IF k \in K1 THEN raised(lb1, k) | lb2 ELSE lb1 | raised(lb2, k)

maxOR(lb1, ub1, lb2, ub2) ==
    LET lowered(ub, k) == Below(ub, k) - 1
        both == {k \in 0 .. (Width - 1) : Bit(ub1, k) /\ Bit(ub2, k)}
        K == {k \in both : lowered(ub1, k) >= lb1 \/ lowered(ub2, k) >= lb2}
    IN IF K = {} THEN ub1 | ub2
       ELSE LET k == Max(K)
            IN IF lowered(ub1, k) >= lb1 THEN lowered(ub1, k) | ub2 ELSE ub1 | lowered(ub2, k)

\* N: negative, P: not negative, the lower and the upper bound.
Signs(a) == CASE a.upper < 0 /\ a.lower < 0 -> "NN" [] a.lower < 0 /\ a.upper >= 0 -> "NP"
              [] a.lower >= 0 /\ a.upper >= 0 -> "PP" [] OTHER -> "none"
check_bound_status(a, b) == <<Signs(a), Signs(b)>>

\* 0xFFFFFFFF: all bits of an int, but not of a long.
AllOnes == 2 ^ Width - 1

\* Signs that check_bound_status has no case for leave the bounds uninitialized.
Garbage == SI(-1, 0, -1)
Defined(a, b) == \A z \in {a, b} : Signs(z) # "none"

\* The stride: ntz computes -s & (s - 1), which has no bit, so that there is none to keep.
Bounds(a, b) ==
    LET al == Unsigned(a.lower) au == Unsigned(a.upper)
        bl == Unsigned(b.lower) bu == Unsigned(b.upper)
        s == check_bound_status(a, b)
    IN CASE s = <<"NN", "NP">> -> <<al, Unsigned(-1)>>
         [] s = <<"NP", "NN">> -> <<bl, Unsigned(-1)>>
         [] s = <<"NP", "NP">> -> <<Unsigned(Min({a.lower, b.lower})), maxOR(0, au, 0, bu)>>
         [] s = <<"NP", "PP">> -> <<minOR(al, AllOnes, bl, bu), maxOR(0, au, bl, bu)>>
         [] s = <<"PP", "NP">> -> <<minOR(al, au, bl, AllOnes), maxOR(al, au, 0, bu)>>
         [] OTHER -> <<minOR(al, au, bl, bu), maxOR(al, au, bl, bu)>>

si_or(a, b) ==
    IF a.stride = 0 /\ b.stride = 0 THEN One(BitOr(a.lower, b.lower))
    ELSE IF ~Defined(a, b) THEN Garbage
    ELSE SI(1, Signed(Bounds(a, b)[1]), Signed(Bounds(a, b)[2]))

si_and(a, b) ==
    IF a.stride = 0 /\ b.stride = 0 THEN One(BitAnd(a.lower, b.lower))
    ELSE si_not(si_or(si_not(a), si_not(b)))

si_and_offset(a, c) ==
    IF si_is_full(a) THEN a
    ELSE IF c < 0 THEN SI(1, a.lower + c + 1, a.upper) ELSE SI(1, 0, c)

------------------------------------------------------------------------------
(* Value sets. *)

None == [region |-> "none", si |-> One(0)]
In(region, a) == [region |-> region, si |-> a]
Const(c) == In("CONST", One(c))

valset_is_empty(V) == V.region = "none"
valset_is_const(V) == V.region = "CONST"

valset_add(V, W) ==
    CASE valset_is_empty(V) \/ valset_is_empty(W) -> None
      [] valset_is_const(V) /\ ~valset_is_empty(W) -> [W EXCEPT !.si = si_add(@, V.si)]
      [] ~valset_is_const(V) /\ valset_is_const(W) -> [V EXCEPT !.si = si_add(@, W.si)]
      [] OTHER -> None

valset_sub(V, W) ==
    CASE valset_is_empty(V) \/ valset_is_empty(W) -> None
      [] ~valset_is_empty(V) /\ V.region = W.region -> In("CONST", si_sub(V.si, W.si))
      [] ~valset_is_empty(V) /\ V.region # W.region /\ valset_is_const(W) ->
             [V EXCEPT !.si = si_add(@, si_neg(W.si))]
      [] OTHER -> None

valset_and_offset(V, c) == In(IF c < 0 THEN V.region ELSE "CONST", si_and_offset(V.si, c))

\* The assertion that the mask is one value is compiled out.
valset_and(V, W) ==
    CASE valset_is_empty(V) \/ valset_is_empty(W) -> None
      [] valset_is_const(V) /\ valset_is_const(W) -> In("CONST", si_and(V.si, W.si))
      [] ~valset_is_const(V) /\ valset_is_const(W) -> valset_and_offset(V, W.si.lower)
      [] valset_is_const(V) /\ ~valset_is_const(W) -> valset_and_offset(W, V.si.lower)
      [] OTHER -> None

\* Of a region behind the complement, the region is complemented and the mask is not.
valset_bic(V, W) ==
    CASE valset_is_empty(V) \/ valset_is_empty(W) -> None
      [] valset_is_const(V) /\ valset_is_const(W) -> In("CONST", si_and(V.si, si_not(W.si)))
      [] ~valset_is_const(V) /\ valset_is_const(W) -> valset_and_offset(V, si_not(W.si).lower)
      [] valset_is_const(V) /\ ~valset_is_const(W) -> valset_and_offset(W, V.si.lower)
      [] OTHER -> None

valset_or(V, W) ==
    CASE valset_is_empty(V) \/ valset_is_empty(W) -> None
      [] valset_is_const(V) /\ valset_is_const(W) -> In("CONST", si_or(V.si, W.si))
      [] ~valset_is_const(V) /\ valset_is_const(W) -> In(V.region, si_set_full)
      [] OTHER -> None

valset_shl(V, W) == IF valset_is_const(V) /\ valset_is_const(W) THEN In("CONST", si_set_full) ELSE None

\* 16 of 32 bits: both bounds have the bits Low .. Width - 1 cleared.
Low == Width \div 2
convert_value(x) == Signed(Unsigned(x) & (Long - 1 - (2 ^ Width - 2 ^ Low)))
valset_uxth(V) ==
    IF valset_is_empty(V) THEN None
    ELSE [V EXCEPT !.si.lower = convert_value(@), !.si.upper = convert_value(@)]

------------------------------------------------------------------------------
(* The handlers: the value set, and the value, of the result. *)

Result(op, V, W) ==
    CASE op = "mov" -> W
      [] op = "add" -> valset_add(V, W)
      [] op = "sub" -> valset_sub(V, W)
      [] op = "and" -> valset_and(V, W)
      [] op = "bic" -> valset_bic(V, W)
      [] op = "orr" -> valset_or(V, W)
      [] op = "lsl" -> valset_shl(V, W)
      [] op = "uxth" -> valset_uxth(W)

Executed(op, x, y) ==
    CASE op = "mov" -> y
      [] op = "add" -> x + y
      [] op = "sub" -> x - y
      [] op = "and" -> BitAnd(x, y)
      [] op = "bic" -> BitAnd(x, -y - 1)
      [] op = "orr" -> BitOr(x, y)
      [] op = "lsl" -> x * 2 ^ (y % Width)
      [] op = "uxth" -> y % 2 ^ Low

Ops == {"mov", "add", "sub", "and", "bic", "orr", "lsl", "uxth"}

\* Cases in which the result is not sound, named by what is wrong: the bounds of a full
\* interval, the 32 ones, a mask that is not one value, the region behind a complement,
\* and bounds that are narrowed each by itself.
Single(V) == si_is_one_value(V.si)
Unsound(op, V, W) ==
    LET bits == op \in {"and", "bic", "orr"}
        consts == valset_is_const(V) /\ valset_is_const(W) /\ ~(Single(V) /\ Single(W))
        signs == {Signs(V.si), Signs(IF op = "bic" THEN si_not(W.si) ELSE W.si)}
    IN (IF bits /\ consts /\ (si_is_full(V.si) \/ si_is_full(W.si)) THEN {"full"} ELSE {})
       \cup (IF bits /\ consts /\ signs = {"NP", IF op = "orr" THEN "PP" ELSE "NN"}
             THEN {"ones"} ELSE {})
       \cup (IF /\ op \in {"and", "bic"} /\ ~valset_is_empty(V) /\ ~valset_is_empty(W)
                /\ valset_is_const(V) # valset_is_const(W)
                /\ ~Single(IF valset_is_const(V) THEN V ELSE W)
             THEN {"mask"} ELSE {})
       \cup (IF op = "bic" /\ valset_is_const(V) /\ ~valset_is_const(W) THEN {"complement"} ELSE {})
       \cup (IF op = "uxth" /\ ~valset_is_empty(W) /\ ~(/\ valset_is_const(W) /\ ~si_is_full(W.si)
                                                    /\ 0 <= W.si.lower /\ W.si.upper < 2 ^ Low)
             THEN {"narrow"} ELSE {})

Init ==
    /\ vs = [r \in Regs |-> IF r = SP THEN In("STACK", One(0)) ELSE None]
    /\ val \in {v \in [Regs -> Words] : v[SP] = Base["STACK"]}
    /\ steps = 0

\* No result leaves the width.
WithinWidth(R) == si_is_full(R.si) \/ (Fits(R.si.lower) /\ Fits(R.si.upper))

Execute(op, d, x, V, y, W) ==
    /\ Unsound(op, V, W) \subseteq Cases
    /\ Fits(Executed(op, x, y))
    /\ val' = [val EXCEPT ![d] = Executed(op, x, y)]
    /\ \E R \in {Result(op, V, W)} :
           /\ WithinWidth(R)
           /\ \/ R.si # Garbage /\ vs' = [vs EXCEPT ![d] = R]
              \/ R.si = Garbage /\ \E l, u \in -1 .. 1 : vs' = [vs EXCEPT ![d] = In(R.region, SI(1, l, u))]
    /\ steps' = steps + 1

\* The second operand is a register, or an immediate.
RegisterForm(op, d, a, b) == Execute(op, d, val[a], vs[a], val[b], vs[b])
ImmediateForm(op, d, a, c) == Execute(op, d, val[a], vs[a], c, Const(c))

\* The value set of a memory operand.  With a base register, as every ARM operand has one, the
\* computation of its address is skipped: it is the "else" of "if (base)", the condition it
\* belonged to being commented out.  With no address no definition matches, and nothing is
\* known of what is loaded.
vs_res_expression == None

Load(d) ==
    /\ val' \in {[val EXCEPT ![d] = w] : w \in Words}
    /\ vs' = [vs EXCEPT ![d] = vs_res_expression]
    /\ steps' = steps + 1

\* Mutant: the address itself is the offset.
AbsoluteOffset(x, known) ==
    LET R == {r \in Regions : x \in Segment[r]}
    IN IF R = {} THEN Const(x)
       ELSE [region |-> CHOOSE r \in R : TRUE, si |-> IF known THEN One(x) ELSE si_set_full]

\* A region whose base address is not known yet leaves the offset open.
set_valset_from_address(x, known) ==
    LET R == {r \in Regions : x \in Segment[r]}
    IN IF R = {} THEN Const(x)
       ELSE LET r == CHOOSE r \in R : TRUE
            IN In(r, IF known THEN One(x - Base[r]) ELSE si_set_full)

\* Whether reverse execution has found the value of a register is its own affair.  Bound: of a
\* negative number it may have found 32 bits or 64, so none is inferred from.
infer_valset_from_entry(r, known) ==
    /\ valset_is_empty(vs[r]) /\ val[r] >= 0
    /\ vs' = [vs EXCEPT ![r] = set_valset_from_address(val[r], known)]
    /\ UNCHANGED <<val, steps>>

Handle ==
    /\ steps < MaxSteps
    /\ \/ \E op \in Ops, d \in Regs, a \in Regs :
              \/ \E b \in Regs : RegisterForm(op, d, a, b)
              \/ \E c \in Immediates : ImmediateForm(op, d, a, c)
       \/ \E d \in Regs : Load(d)

Next == Handle \/ \E r \in Regs, known \in BOOLEAN : infer_valset_from_entry(r, known)

Spec == Init /\ [][Next]_vars

------------------------------------------------------------------------------
(* Properties. *)

\* Intervals are not empty and a value set has a region that exists.
TypeOK ==
    \A r \in Regs :
        /\ vs[r].region \in {"none", "CONST"} \cup Regions
        /\ si_is_full(vs[r].si) \/ (vs[r].si.lower <= vs[r].si.upper /\ vs[r].si.stride >= 0)
        /\ Fits(val[r])

\* Whatever handlers have computed it, from values inferred in whatever round, the value set
\* of a register has what the register holds: an offset from the base of the set's region.
Offset(V, x) == IF V.region \in Regions THEN x - Base[V.region] ELSE x
ValueInValueSet ==
    \A r \in Regs : ~valset_is_empty(vs[r]) => Has(vs[r].si, Offset(vs[r], val[r]))
=============================================================================
