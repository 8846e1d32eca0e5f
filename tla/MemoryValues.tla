----------------------------- MODULE MemoryValues -----------------------------
(***************************************************************************)
(* The values of memory operands in FirmRCA's reverse execution (src/src/  *)
(* src/re_dsmanager.c): loads and stores of one, two and four bytes that   *)
(* cover each other in part.  ReverseExec follows every operand of an      *)
(* instruction but only words that are equal or disjoint; this module      *)
(* follows memory operands alone, byte by byte.                            *)
(*                                                                         *)
(* A value maps the addresses it covers to bytes.  The engine only copies  *)
(* bytes, so a byte is represented by where the execution put it: <<x, d>> *)
(* is what address x held just before store d, <<x, 0>> what it holds in   *)
(* the core dump.  Accesses are numbered as they are added, backwards from *)
(* the crash: the "next" accesses of one, later in the execution, have the *)
(* smaller numbers.                                                        *)
(***************************************************************************)
EXTENDS Naturals, Sequences, FiniteSetsExt

CONSTANTS
    Places,     \* the accesses of a trace: <<address, size>>
    Builds,     \* values of MEMAC: does the build read the memory-access log
    MaxAccess   \* bound: accesses of a trace

ASSUME MemoryValuesAssumption ==
    /\ Places \subseteq (Nat \ {0}) \X {1, 2, 4}
    /\ Builds \subseteq BOOLEAN /\ MaxAccess \in Nat

VARIABLES
    memac,      \* is MEMAC defined
    list,       \* the accesses: kind, place, addr (0 until known), and for each value
                \* (bv before a store, av after it or of a load) whether it is known
    queue       \* re_uselist and re_deflist, taken in any order

vars == <<memac, list, queue>>

------------------------------------------------------------------------------
(* What the execution did. *)

Cells(p) == p[1] .. (p[1] + p[2] - 1)

\* The next store of address x after access e; 0, the core dump, if there is none.
Overwriter(l, x, e) ==
    Max({0} \cup {d \in 1 .. (e - 1) : l[d].kind = "def" /\ x \in Cells(l[d].place)})

TrueBefore(l, e) == [x \in Cells(l[e].place) |-> <<x, e>>]
TrueAfter(l, e) == [x \in Cells(l[e].place) |-> <<x, Overwriter(l, x, e)>>]

------------------------------------------------------------------------------
(* Comparing accesses. *)

\* Not an address of the value: what lies before it in its node.
Outside == <<0, 0>>
ByteAt(v, x) == IF x \in DOMAIN v THEN v[x] ELSE Outside

Size(n) == n.place[2]
Span(n) == Cells(<<n.addr, Size(n)>>)

Overlaps(n, m) == n.addr # 0 /\ m.addr # 0 /\ Span(n) \cap Span(m) # {}

\* compare_two_targets says EXACT or SUB: m covers n.
Covered(n, m) == Overlaps(n, m) /\ Span(n) \subseteq Span(m)

NextOf(l, kind, n, e) == Max({0} \cup {j \in 1 .. (e - 1) : l[j].kind = kind /\ Overlaps(l[j], n)})
PrevOf(l, kind, n, e) ==
    LET s == {j \in (e + 1) .. Len(l) : l[j].kind = kind /\ Overlaps(l[j], n)}
    IN IF s = {} THEN 0 ELSE Min(s)

\* Mutant: a store of unknown address overwrites nothing.
no_obstacle(l, lo, hi) == FALSE

\* A store whose address is unknown lies between the two.  umemlist holds those stores,
\* newest first, so resolve_alias finds one of the range whenever there is one.
obstacle_between_two_targets(l, lo, hi) ==
    \E j \in (lo + 1) .. (hi - 1) : l[j].kind = "def" /\ l[j].addr = 0

------------------------------------------------------------------------------
(* Assembling a value byte by byte. *)

\* The byte at x just after access e.  The access that supplies it is searched for with
\* the address of the byte and the size of the whole operand.
ByteFromNext(l, e, x) ==
    LET n == [l[e] EXCEPT !.addr = x]
        d == NextOf(l, "def", n, e)
        u == NextOf(l, "use", n, e)
    IN IF (d # 0 => l[d].bk) /\ ~obstacle_between_two_targets(l, d, e)
       THEN {IF d = 0 THEN <<x, 0>> ELSE ByteAt(l[d].bv, x)}
       ELSE IF u > d /\ l[u].ak /\ ~obstacle_between_two_targets(l, u, e)
       THEN {ByteAt(l[u].av, x)} ELSE {}

\* Mutant: the previous load is asked although a store lies between.
byte_from_any_prev(l, e, x) ==
    LET n == [l[e] EXCEPT !.addr = x]
        d == PrevOf(l, "def", n, e)
        u == PrevOf(l, "use", n, e)
    IN IF d # 0 /\ l[d].ak /\ ~obstacle_between_two_targets(l, e, d)
       THEN {ByteAt(l[d].av, x)}
       ELSE IF u # 0 /\ l[u].ak /\ ~obstacle_between_two_targets(l, e, u)
       THEN {ByteAt(l[u].av, x)} ELSE {}

\* The byte at x just before access e.
ByteFromPrev(l, e, x) ==
    LET n == [l[e] EXCEPT !.addr = x]
        d == PrevOf(l, "def", n, e)
        u == PrevOf(l, "use", n, e)
    IN IF d # 0 /\ l[d].ak /\ ~obstacle_between_two_targets(l, e, d)
       THEN {ByteAt(l[d].av, x)}
       ELSE IF u # 0 /\ (d = 0 \/ u < d) /\ l[u].ak /\ ~obstacle_between_two_targets(l, e, u)
       THEN {ByteAt(l[u].av, x)} ELSE {}

\* All bytes, or nothing: {} when a byte has no source.
Assembled(l, e, Source(_, _, _)) ==
    LET bytes == [x \in Span(l[e]) |-> Source(l, e, x)]
    IN IF \E x \in Span(l[e]) : bytes[x] = {} THEN {}
       ELSE {[x \in Span(l[e]) |-> CHOOSE b \in bytes[x] : TRUE]}

ByteOfUse(l, e, x) ==
    IF ByteFromNext(l, e, x) # {} THEN ByteFromNext(l, e, x) ELSE ByteFromPrev(l, e, x)

assign_use_mem_val(l, e) == Assembled(l, e, ByteOfUse)
assign_def_before_mem_val(l, e) == Assembled(l, e, ByteFromPrev)
assign_def_after_mem_val(l, e) == Assembled(l, e, ByteFromNext)

FillBefore(l, e, vs) ==
    IF vs = {} \/ l[e].bk THEN l ELSE [l EXCEPT ![e].bk = TRUE, ![e].bv = CHOOSE v \in vs : TRUE]
FillAfter(l, e, vs) ==
    IF vs = {} \/ l[e].ak THEN l ELSE [l EXCEPT ![e].ak = TRUE, ![e].av = CHOOSE v \in vs : TRUE]

\* The base register of e is known: the address, and what values follow from it.
res_expression(l, e) ==
    LET a == [l EXCEPT ![e].addr = l[e].place[1]]
        b == FillBefore(a, e, assign_def_before_mem_val(a, e))
    IN IF l[e].kind = "def" THEN FillAfter(b, e, assign_def_after_mem_val(b, e))
       ELSE FillAfter(a, e, assign_use_mem_val(a, e))

------------------------------------------------------------------------------
(* Propagating a known value to the neighbours it covers. *)

Part(v, n) == [x \in Span(n) |-> ByteAt(v, x)]

Before(S, j, v) ==
    IF S.list[j].bk THEN S
    ELSE [list |-> FillBefore(S.list, j, {Part(v, S.list[j])}), queue |-> S.queue \cup {j}]
After(S, j, v) ==
    IF S.list[j].ak THEN S
    ELSE [list |-> FillAfter(S.list, j, {Part(v, S.list[j])}), queue |-> S.queue \cup {j}]

\* Mutant: a neighbour that e covers in part is given a value too.
takes_any_overlap(l, j, e) == Overlaps(l[j], l[e])

\* EXACT or SUB: a value is handed on to an access it covers whole.
Takes(l, j, e) == Covered(l[j], l[e])

FlowNext(S, e, v) ==
    LET l == S.list
        d == NextOf(l, "def", l[e], e)
        u == NextOf(l, "use", l[e], e)
        T == IF d # 0 /\ Takes(l, d, e) /\ ~obstacle_between_two_targets(l, d, e)
             THEN Before(S, d, v) ELSE S
    IN IF u > d /\ Takes(l, u, e) /\ ~obstacle_between_two_targets(l, u, e)
       THEN After(T, u, v) ELSE T

FlowPrev(S, e, v) ==
    LET l == S.list
        d == PrevOf(l, "def", l[e], e)
        u == PrevOf(l, "use", l[e], e)
        T == IF d # 0 /\ Takes(l, d, e) /\ ~obstacle_between_two_targets(l, e, d)
             THEN After(S, d, v) ELSE S
    IN IF u # 0 /\ (d = 0 \/ u < d) /\ Takes(l, u, e) /\ ~obstacle_between_two_targets(l, e, u)
       THEN After(T, u, v) ELSE T

resolve_use(S, e) ==
    IF S.list[e].addr = 0 THEN S
    ELSE FlowPrev(FlowNext(S, e, S.list[e].av), e, S.list[e].av)

resolve_define(S, e) ==
    LET n == S.list[e]
        T == IF n.ak THEN FlowNext(S, e, n.av) ELSE S
    IN IF n.bk THEN FlowPrev(T, e, n.bv) ELSE T

------------------------------------------------------------------------------
(* The engine. *)

NoValue == [x \in {} |-> Outside]

Init == memac \in Builds /\ list = <<>> /\ queue = {}

\* Mutant: an access is given its neighbour's value whether or not the neighbour covers it.
initial_from_any(l, e) ==
    LET d == NextOf(l, "def", l[e], e)
    IN IF d # 0 /\ l[d].bk
       THEN [l EXCEPT ![e].ak = TRUE,
                      ![e].av = [x \in Span(l[e]) |-> ByteAt(l[d].bv, x - l[e].addr + l[d].addr)]]
       ELSE l

\* With its address an access takes the value of the next store that covers it, from the
\* first byte of that store on, else, when nothing overwrites it, the core dump's.
InitialValue(l, e) ==
    LET d == NextOf(l, "def", l[e], e)
    IN IF l[e].addr = 0 THEN l
       ELSE IF d = 0
       THEN [l EXCEPT ![e].ak = TRUE, ![e].av = [x \in Span(l[e]) |-> <<x, 0>>]]
       ELSE IF l[d].bk /\ Covered(l[e], l[d])
       THEN [l EXCEPT ![e].ak = TRUE,
                      ![e].av = [x \in Span(l[e]) |-> ByteAt(l[d].bv, x - l[e].addr + l[d].addr)]]
       ELSE l

\* add_new_use and add_new_define; the log of a MEMAC build has the address and the value.
AddAccess(kind, p) ==
    /\ Len(list) < MaxAccess /\ queue = {}
    /\ LET e == Len(list) + 1
           n == [kind |-> kind, place |-> p, addr |-> 0, bk |-> FALSE, bv |-> NoValue,
                 ak |-> FALSE, av |-> NoValue]
           l == Append(list, n)
           logged == [l EXCEPT ![e].addr = p[1], ![e].ak = TRUE, ![e].av = TrueAfter(l, e)]
       IN list' = InitialValue(IF memac THEN logged ELSE l, e)
    /\ queue' = IF memac THEN {Len(list) + 1} ELSE {}
    /\ UNCHANGED memac

\* The resolver of the instruction learns the operand's value from its other operand.
LearnValue(e) ==
    /\ ~list[e].ak
    /\ list' = FillAfter(list, e, {TrueAfter(list, e)}) /\ queue' = queue \cup {e}
    /\ UNCHANGED memac

\* Mutant: an operand is queued for its address alone.
TraverseQueuesAddress(e) ==
    /\ ~(list[e].ak /\ list[e].addr # 0)
    /\ list' = res_expression(list, e)
    /\ queue' = queue \cup {e}
    /\ UNCHANGED memac

\* traverse_inst_operand, of an instruction whose base register is known.
TraverseOperand(e) ==
    /\ ~(list[e].ak /\ list[e].addr # 0)
    /\ list' = res_expression(list, e)
    /\ queue' = IF list'[e].ak THEN queue \cup {e} ELSE queue
    /\ UNCHANGED memac

\* resolve_use and resolve_define, for one entry.
Propagate(e) ==
    /\ e \in queue
    /\ LET S == [list |-> list, queue |-> queue]
           T == IF list[e].kind = "use" THEN resolve_use(S, e) ELSE resolve_define(S, e)
       IN list' = T.list /\ queue' = T.queue \ {e}
    /\ UNCHANGED memac

Next == \/ \E kind \in {"use", "def"}, p \in Places : AddAccess(kind, p)
        \/ \E e \in DOMAIN list : LearnValue(e) \/ TraverseOperand(e) \/ Propagate(e)

Spec == Init /\ [][Next]_vars

------------------------------------------------------------------------------
(* Properties. *)

\* Types; and what is queued has a value to propagate, as the loops of resolve_use and
\* resolve_define assert.
TypeOK ==
    /\ memac \in BOOLEAN /\ queue \subseteq DOMAIN list
    /\ \A e \in DOMAIN list :
          /\ list[e].kind \in {"use", "def"} /\ list[e].addr \in {0, list[e].place[1]}
          /\ list[e].ak => DOMAIN list[e].av = Cells(list[e].place)
          /\ list[e].bk => list[e].kind = "def" /\ DOMAIN list[e].bv = Cells(list[e].place)
    /\ \A e \in queue : list[e].ak \/ list[e].bk

\* Every byte of a value the engine says it knows is the byte the execution read, wrote
\* or overwrote, whichever loads and stores of other sizes it was pieced together from
\* and in whichever order addresses and values became known.
BytesSound ==
    \A e \in DOMAIN list :
        /\ list[e].ak => list[e].av = TrueAfter(list, e)
        /\ list[e].bk => list[e].bv = TrueBefore(list, e)

==============================================================================
