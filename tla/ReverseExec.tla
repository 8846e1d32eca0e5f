----------------------------- MODULE ReverseExec -----------------------------
(***************************************************************************)
(* The reverse-execution engine of FirmRCA (src/src/src): it walks a trace *)
(* backwards from the crash, builds the list of definitions and uses of    *)
(* every instruction, and fills in their values from the core dump, from   *)
(* the memory-access log and by propagation along the def-use chains until *)
(* its three worklists are empty.                                          *)
(*                                                                         *)
(* The trace is not a constant: each AddInst chooses an instruction and a  *)
(* predecessor of the machine state before it, so that a behaviour of the  *)
(* module is an execution read backwards together with the engine's        *)
(* analysis of it.  The fields tb, ta and taddr of a node hold what that   *)
(* execution really computed; the engine never reads them.                 *)
(*                                                                         *)
(* Node ids grow as nodes are added.  The "next" nodes of a node (later in *)
(* the execution) have smaller ids, the "prev" nodes larger ones.          *)
(***************************************************************************)
EXTENDS Naturals, Sequences, FiniteSets, SequencesExt, FiniteSetsExt

CONSTANTS
    Reg,        \* the registers
    MaxVal,     \* values and addresses are 0 .. MaxVal, 0 being NULL
    Setups,     \* builds and memory maps, see Setup
    Code,       \* the instructions a trace is made of
    Cores,      \* the core dumps
    MaxInst     \* bound: instructions of a trace, the crashing one included

Val == 0 .. MaxVal

\* memac: the build reads the memory-access log (MEMAC); ram: the addresses that are
\* traced and dumped; mmio: traced but not in the core dump; untraced: neither (the
\* system control space).
Setup == [memac : BOOLEAN, ram : SUBSET Val, mmio : SUBSET Val, untraced : SUBSET Val]

\* [op, r, b, c, k]: mov r,b | add, sub or rsb r,b,c (c a register, or "imm" for #k)
\*                   ldr r,[b,c] | str r,[b,c]
Instruction == [op : {"mov", "add", "sub", "rsb", "ldr", "str"}, r : Reg, b : Reg,
                c : Reg \cup {"imm"}, k : Val]

ASSUME ReverseExecAssumption ==
    /\ MaxVal \in Nat /\ MaxInst \in Nat \ {0}
    /\ Setups \subseteq Setup
    /\ \A s \in Setups : /\ 0 \notin s.ram \cup s.mmio \cup s.untraced
                        /\ s.ram \cap (s.mmio \cup s.untraced) = {}
    /\ Code \subseteq Instruction
    /\ Cores \subseteq UNION {[reg : [Reg -> Val], mem : [s.ram -> Val]] : s \in Setups}

VARIABLES
    setup,  \* the build and the memory map
    core,   \* the core dump: the machine state at the crash
    world,  \* the machine state before the oldest instruction added so far
    re,     \* re_ds and the worklists, see Init
    phase,  \* "handle": the loop over the trace, "resolve": the second loop, "done"
    pc,     \* which resolve_ routine of re_resolve runs; "idle" outside of it
    cur     \* instructions the second loop has taken

vars == <<setup, core, world, re, phase, pc, cur>>

------------------------------------------------------------------------------
(* The machine. *)

Ram == setup.ram
Mmio == setup.mmio
Mapped == Ram \cup Mmio \cup setup.untraced

Wrap(n) == n % (MaxVal + 1)
Minus(a, b) == Wrap(a + MaxVal + 1 - b)
Operand(i, m) == IF i.c = "imm" THEN i.k ELSE m.reg[i.c]
Address(i, m) == Wrap(m.reg[i.b] + Operand(i, m))

Arithmetic == {"add", "sub", "rsb"}

\* What op makes of its operands.
Result(op, x, y) == CASE op = "add" -> Wrap(x + y)
                      [] op = "sub" -> Minus(x, y)
                      [] op = "rsb" -> Minus(y, x)

\* Executing i in p may lead to m.
Executes(i, p, m) ==
    LET a == Address(i, p) IN
    CASE i.op = "mov" -> m = [p EXCEPT !.reg[i.r] = p.reg[i.b]]
      [] i.op \in Arithmetic ->
            m = [p EXCEPT !.reg[i.r] = Result(i.op, p.reg[i.b], Operand(i, p))]
      [] i.op = "ldr" -> /\ a \in Mapped
                         /\ m = [p EXCEPT !.reg[i.r] = m.reg[i.r]]
                         /\ a \in Ram => m.reg[i.r] = p.mem[a]
      [] i.op = "str" -> /\ a \in Mapped
                         /\ m = IF a \in Ram THEN [p EXCEPT !.mem[a] = p.reg[i.r]] ELSE p

\* The states from which i leads to m.
Predecessors(i, m) ==
    {p \in {[m EXCEPT !.reg[i.r] = v] : v \in Val}
           \cup {[m EXCEPT !.mem[a] = v] : a \in Ram, v \in Val} : Executes(i, p, m)}

Faults(i, m) == i.op \in {"ldr", "str"} /\ Address(i, m) \notin Mapped

------------------------------------------------------------------------------
(* The core list. *)

\* A node; home is the id of its instruction node, ak/av AfterKnown and afterval of
\* a definition, val_known and val of a use.
Node(kind, sort, r, elem, home, tb, ta, taddr) ==
    [kind |-> kind, sort |-> sort, r |-> r, elem |-> elem, home |-> home, addr |-> 0,
     bk |-> FALSE, bv |-> 0, ak |-> FALSE, av |-> 0, tb |-> tb, ta |-> ta, taddr |-> taddr]

IsExp(n) == n.sort = "mem"

SameTarget(n, m) == /\ n.sort = m.sort
                    /\ \/ n.sort = "reg" /\ n.r = m.r
                       \/ n.sort = "mem" /\ n.addr # 0 /\ n.addr = m.addr

Nearest(l, kind, e, ids) == {j \in ids : l[j].kind = kind /\ SameTarget(l[j], l[e])}
NextOf(l, kind, e) == LET s == Nearest(l, kind, e, 1 .. (e - 1))
                      IN IF s = {} THEN 0 ELSE Max(s)
PrevOf(l, kind, e) == LET s == Nearest(l, kind, e, (e + 1) .. Len(l))
                      IN IF s = {} THEN 0 ELSE Min(s)

\* The nodes instruction node h owns, in the order they were added.
Elements(l, h) == {j \in (h + 1) .. Len(l) : l[j].home = h}
Expression(l, h) == {j \in Elements(l, h) : IsExp(l[j])}
Definition(l, h) == CHOOSE j \in Elements(l, h) : l[j].kind = "def"
Operands(l, h) == {j \in Elements(l, h) : l[j].kind = "use" /\ l[j].elem = "Opd"}

add_to_list(q, e) == IF e \in ToSet(q) THEN q ELSE Append(q, e)

\* Mutant: the newest unknown write last.
add_to_umemlist_tail(q, e) == IF e \in ToSet(q) THEN q ELSE Append(q, e)

\* list_add puts the newest unknown write first.
add_to_umemlist(q, e) == IF e \in ToSet(q) THEN q ELSE <<e>> \o q

check_inst_resolution(l, h) ==
    \A j \in Elements(l, h) : /\ l[j].ak
                              /\ l[j].kind = "def" => l[j].bk
                              /\ l[j].kind = "use" => l[j].addr # 0

------------------------------------------------------------------------------
(* Unknown memory writes. *)

check_next_unknown_write(l, lo, hi) ==
    \E j \in (lo + 1) .. (hi - 1) : l[j].kind = "def" /\ IsExp(l[j]) /\ l[j].addr = 0

\* The first write of umemlist older than hi decides; before lo it is harmless.  The
\* hypothesis test of check_alias_pair cannot refute an alias: assert_val and
\* assert_address no longer jump back to it.
resolve_alias(S, lo, hi) ==
    LET k == SelectInSeq(S.umem, LAMBDA u : u < hi)
    IN k = 0 \/ (lo # 0 /\ S.umem[k] < lo)

\* Mutant: unknown writes alias nothing.
no_obstacle(S, lo, hi) == FALSE

obstacle_between_two_targets(S, lo, hi) ==
    check_next_unknown_write(S.list, lo, hi) /\ ~resolve_alias(S, lo, hi)

------------------------------------------------------------------------------
(* Propagation. *)

KnowBefore(n, v) == [n EXCEPT !.bk = TRUE, !.bv = v]
KnowAfter(n, v) == [n EXCEPT !.ak = TRUE, !.av = v]

Before(S, e, v) ==
    IF S.list[e].bk THEN S
    ELSE [S EXCEPT !.list[e] = KnowBefore(@, v), !.defl = add_to_list(@, e)]

\* Mutants: a use that becomes known is not queued; one that is known is queued again.
AfterUnqueued(S, e, v) ==
    IF S.list[e].ak THEN S
    ELSE LET T == [S EXCEPT !.list[e] = KnowAfter(@, v)]
         IN IF S.list[e].kind = "def" THEN [T EXCEPT !.defl = add_to_list(@, e)] ELSE T

AfterAgain(S, e, v) ==
    LET T == [S EXCEPT !.list[e] = KnowAfter(@, v)]
    IN IF S.list[e].kind = "def" THEN [T EXCEPT !.defl = add_to_list(@, e)]
       ELSE [T EXCEPT !.usel = add_to_list(@, e)]

After(S, e, v) ==
    IF S.list[e].ak THEN S
    ELSE LET T == [S EXCEPT !.list[e] = KnowAfter(@, v)]
         IN IF S.list[e].kind = "def" THEN [T EXCEPT !.defl = add_to_list(@, e)]
            ELSE [T EXCEPT !.usel = add_to_list(@, e)]

Reaches(S, lo, hi, e) == IsExp(S.list[e]) => ~obstacle_between_two_targets(S, lo, hi)

\* Mutant: a use beyond the next definition is reached too.
FlowNextPastDefine(S, e, v) ==
    LET d == NextOf(S.list, "def", e)
        u == NextOf(S.list, "use", e)
        T == IF d # 0 /\ Reaches(S, d, e, e) THEN Before(S, d, v) ELSE S
    IN IF u # 0 /\ Reaches(S, u, e, e) THEN After(T, u, v) ELSE T

FlowNext(S, e, v) ==
    LET d == NextOf(S.list, "def", e)
        u == NextOf(S.list, "use", e)
        T == IF d # 0 /\ Reaches(S, d, e, e) THEN Before(S, d, v) ELSE S
    IN IF u # 0 /\ ~(d # 0 /\ u < d) /\ Reaches(S, u, e, e) THEN After(T, u, v) ELSE T

FlowPrev(S, e, v) ==
    LET d == PrevOf(S.list, "def", e)
        u == PrevOf(S.list, "use", e)
        T == IF d # 0 /\ Reaches(S, e, d, e) THEN After(S, d, v) ELSE S
    IN IF u # 0 /\ ~(d # 0 /\ d < u) /\ Reaches(S, e, u, e) THEN After(T, u, v) ELSE T

\* Mutant: a new value wakes no instruction.
WakeNothing(S, e) == S

WakeInst(S, e) == LET h == S.list[e].home
                  IN IF check_inst_resolution(S.list, h) THEN S
                     ELSE [S EXCEPT !.instl = add_to_list(@, h)]

resolve_use(S, e) ==
    LET v == S.list[e].av IN FlowPrev(FlowNext(WakeInst(S, e), e, v), e, v)

resolve_define(S, e) ==
    LET n == S.list[e]
        T == IF n.ak THEN FlowNext(WakeInst(S, e), e, n.av) ELSE WakeInst(S, e)
    IN IF n.bk THEN FlowPrev(T, e, n.bv) ELSE T

------------------------------------------------------------------------------
(* Expressions: the address of a memory operand, then its value. *)

\* The value of e's target just after e: from the core dump when nothing defines it
\* later (g when the dump lacks the address: the variable read is uninitialised),
\* else from the next definition or use.  {} when there is none.
FromNext(S, e, g) ==
    LET d == NextOf(S.list, "def", e)
        u == NextOf(S.list, "use", e)
        a == S.list[e].addr
    IN IF (d # 0 => S.list[d].bk) /\ ~obstacle_between_two_targets(S, d, e)
       THEN IF d # 0 THEN {S.list[d].bv} ELSE {IF a \in Ram THEN core.mem[a] ELSE g}
       ELSE IF /\ u # 0 /\ ~(d # 0 /\ u < d) /\ S.list[u].ak
               /\ ~obstacle_between_two_targets(S, u, e)
            THEN {S.list[u].av} ELSE {}

\* The value just before e, from the previous definition or use.
FromPrev(S, e) ==
    LET d == PrevOf(S.list, "def", e)
        u == PrevOf(S.list, "use", e)
    IN IF d # 0 /\ S.list[d].ak /\ ~obstacle_between_two_targets(S, e, d)
       THEN {S.list[d].av}
       ELSE IF /\ u # 0 /\ ~(d # 0 /\ d < u) /\ S.list[u].ak
               /\ ~obstacle_between_two_targets(S, e, u)
            THEN {S.list[u].av} ELSE {}

\* Mutant: a known value is filled in again.
FillAfterAgain(S, e, vs) == IF vs = {} THEN S
                            ELSE [S EXCEPT !.list[e] = KnowAfter(@, Max(vs))]

FillAfter(S, e, vs) == IF vs = {} \/ S.list[e].ak THEN S
                       ELSE [S EXCEPT !.list[e] = KnowAfter(@, Max(vs))]
FillBefore(S, e, vs) == IF vs = {} \/ S.list[e].bk THEN S
                        ELSE [S EXCEPT !.list[e] = KnowBefore(@, Max(vs))]

\* Reads the core dump at an address it does not have.
ReadsBadAddress(S, e) == /\ NextOf(S.list, "def", e) = 0
                         /\ ~obstacle_between_two_targets(S, 0, e)
                         /\ S.list[e].addr \notin Ram

\* e is a memory operand of i, e + 1 the use of its base and e + 2 that of its index.  The
\* cases that compute one register from the address and the other are not reached: a store
\* of known address and unknown value has both registers known.
AddressKnown(l, e, i) == l[e + 1].ak /\ (i.c # "imm" => l[e + 2].ak)
res_expression(S, e, i, g) ==
    LET isdef == S.list[e].kind = "def"
        offset == IF i.c = "imm" THEN i.k ELSE S.list[e + 2].av
        A == [S EXCEPT !.list[e].addr = Wrap(S.list[e + 1].av + offset),
                       !.umem = RemoveFirst(@, e)]
        B == IF ReadsBadAddress(A, e) THEN [A EXCEPT !.bad = @ \cup {A.list[e].home}] ELSE A
    IN IF ~AddressKnown(S.list, e, i)
       THEN IF isdef THEN [S EXCEPT !.umem = add_to_umemlist(@, e)] ELSE S
       ELSE IF isdef THEN FillAfter(FillBefore(B, e, FromPrev(B, e)), e, FromNext(B, e, g))
       ELSE LET vs == FromNext(B, e, g)
            IN FillAfter(B, e, IF vs # {} THEN vs ELSE FromPrev(B, e))

\* Mutant: an operand is queued for its address alone.
traverse_queues_address(S, h, g) ==
    IF Expression(S.list, h) = {} THEN S
    ELSE LET e == Min(Expression(S.list, h))
             T == res_expression(S, e, S.list[h].inst, g)
         IN IF S.list[e].addr # 0 \/ T.list[e].addr = 0 THEN T
            ELSE IF T.list[e].kind = "def" THEN [T EXCEPT !.defl = add_to_list(@, e)]
                 ELSE [T EXCEPT !.usel = add_to_list(@, e)]

\* The operands of instruction node h before its resolver runs; g as above.
traverse_inst_operand(S, h, g) ==
    IF Expression(S.list, h) = {} THEN S
    ELSE LET e == Min(Expression(S.list, h))
             n == S.list[e]
             T == res_expression(S, e, S.list[h].inst, g)
             m == T.list[e]
         IN IF n.ak /\ n.addr # 0 THEN S
            ELSE IF (m.ak # n.ak \/ m.addr # n.addr) /\ m.addr # 0 /\ m.ak
            THEN IF n.kind = "def" THEN [T EXCEPT !.defl = add_to_list(@, e)]
                 ELSE [T EXCEPT !.usel = add_to_list(@, e)]
            ELSE T

------------------------------------------------------------------------------
(* Resolvers. *)

Copy(S, u, d) == IF S.list[u].ak THEN After(S, d, S.list[u].av)
                 ELSE IF S.list[d].ak THEN After(S, u, S.list[d].av) ELSE S

\* Mutant: the sum does not wrap.
ComputedUnwrapped(op, x, y) == IF op = "add" THEN x + y ELSE Minus(x, y)

\* What the resolvers compute: rsb_resolver is a copy of sub_resolver.
Computed(op, x, y) == IF op = "add" THEN Wrap(x + y) ELSE Minus(x, y)
FirstFrom(op, d, y) == IF op = "add" THEN Minus(d, y) ELSE Wrap(d + y)
SecondFrom(op, d, x) == IF op = "add" THEN Minus(d, x) ELSE Minus(x, d)

\* "1 verify and 3 calculates": u1 and u2 are the operands, d the result.
Solve(S, op, u1, u2, d) ==
    LET l == S.list IN
    CASE l[d].ak /\ l[u1].ak /\ ~l[u2].ak -> After(S, u2, SecondFrom(op, l[d].av, l[u1].av))
      [] l[d].ak /\ ~l[u1].ak /\ l[u2].ak -> After(S, u1, FirstFrom(op, l[d].av, l[u2].av))
      [] ~l[d].ak /\ l[u1].ak /\ l[u2].ak -> After(S, d, Computed(op, l[u1].av, l[u2].av))
      [] OTHER -> S

\* The crashing instruction was not executed: before and after are the same.
NotExecuted(S, d) == [S EXCEPT !.list[d] = KnowBefore(@, @.av)]

inst_resolver(S, h) ==
    LET d == Definition(S.list, h)
        us == Operands(S.list, h)
    IN CASE S.list[h].inst.op \in Arithmetic ->
              Solve(S, S.list[h].inst.op, Min(us), Max(us), d)
         [] S.list[h].inst.op \in {"ldr", "str"} /\ S.list[h].index = 0 -> NotExecuted(S, d)
         [] OTHER -> Copy(S, Min(us), d)

resolve_inst(S, h, g) == inst_resolver(traverse_inst_operand(S, h, g), h)
------------------------------------------------------------------------------
(* Adding an instruction: its node, then its operands in parser order. *)

InstNode(i, index, log) ==
    [kind |-> "inst", sort |-> "none", home |-> 0, inst |-> i, index |-> index, log |-> log]

\* Base and index of one address: which has what share of it the log does not tell.
Shared(S, e) == S.list[e].elem # "Opd" /\ S.list[S.list[e].home].inst.c # "imm"
HasLog(S, e) == S.list[S.list[e].home].log # <<>> /\ ~Shared(S, e)

ok_to_get_value(n) == ~(n.sort = "mem" /\ n.addr = 0)

\* get_value_from_coredump; a BAD_ADDRESS leaves the value zero.
CoreValue(n) == IF n.sort = "reg" THEN core.reg[n.r]
                ELSE IF n.addr \in Ram THEN core.mem[n.addr] ELSE 0

\* Mutant: the core dump is read although the value was overwritten later.
InitialValueFromCore(S, e) ==
    LET n == S.list[e]
    IN IF ok_to_get_value(n)
       THEN [S EXCEPT !.list[e] = KnowAfter(@, CoreValue(n))] ELSE S

\* The value a new node takes from the core dump or from the next definition.
InitialValue(S, e) ==
    LET n == S.list[e]
        d == NextOf(S.list, "def", e)
    IN IF d # 0
       THEN IF S.list[d].bk
            THEN [S EXCEPT !.list[e] = KnowAfter(@, S.list[d].bv)] ELSE S
       ELSE IF ok_to_get_value(n)
            THEN [S EXCEPT !.list[e] = KnowAfter(@, CoreValue(n)),
                           !.bad = IF IsExp(n) /\ n.addr \notin Ram
                                   THEN @ \cup {n.home} ELSE @]
            ELSE S

\* What the access log tells of an operand: its address and value; of a base register
\* the address less the displacement, and no address of its own.
FromLog(n, k, log) ==
    KnowAfter([n EXCEPT !.addr = IF n.elem = "Base" THEN 0 ELSE log.addr],
              IF n.elem = "Base" THEN Minus(log.addr, k) ELSE log.val)

\* Mutants: the displacement is not subtracted; the operand is not queued.
memac_base_is_address(S, e) ==
    LET h == S.list[e].home
        T == [S EXCEPT !.list[e] = FromLog(@, 0, S.list[h].log[1])]
    IN IF ~HasLog(S, e) THEN S
       ELSE IF S.list[e].kind = "def" THEN [T EXCEPT !.defl = add_to_list(@, e)]
       ELSE [T EXCEPT !.usel = add_to_list(@, e)]

memac_unqueued(S, e) ==
    LET h == S.list[e].home
    IN IF ~HasLog(S, e) THEN S
       ELSE [S EXCEPT !.list[e] = FromLog(@, S.list[h].inst.k, S.list[h].log[1])]

assign_memac_value(S, e) ==
    LET h == S.list[e].home
        T == [S EXCEPT !.list[e] = FromLog(@, S.list[h].inst.k, S.list[h].log[1])]
    IN IF ~HasLog(S, e) THEN S
       ELSE IF S.list[e].kind = "def" THEN [T EXCEPT !.defl = add_to_list(@, e)]
       ELSE [T EXCEPT !.usel = add_to_list(@, e)]

add_new_use(S, n) ==
    LET e == Len(S.list) + 1
        T == [S EXCEPT !.list = Append(@, n)]
    IN IF n.sort = "imm" THEN [T EXCEPT !.list[e] = KnowAfter(@, n.ta)]
       ELSE InitialValue(assign_memac_value(T, e), e)

\* mem_access helper does not record the crash site
add_new_define(S, n) ==
    LET e == Len(S.list) + 1
        T == [S EXCEPT !.list = Append(@, n)]
    IN InitialValue(IF S.list[n.home].index = 0 THEN T ELSE assign_memac_value(T, e), e)

\* The operands of i, executed from p to m (p = m at the crash site), with the values
\* the execution gave them.
general_handler(S, i, p, m) ==
    LET h == Len(S.list)
        a == Address(i, p)
        use(r, elem) == Node("use", "reg", r, elem, h, 0, p.reg[r], 0)
        dst == Node("def", "reg", i.r, "Opd", h, p.reg[i.r], m.reg[i.r], 0)
        imm == Node("use", "imm", i.r, "Opd", h, 0, i.k, 0)
        exp(T) == IF i.c = "imm" THEN add_new_use(T, use(i.b, "Base"))
                  ELSE add_new_use(add_new_use(T, use(i.b, "Base")), use(i.c, "Index"))
        load == Node("use", "mem", i.b, "Opd", h, 0, m.reg[i.r], a)
        store == Node("def", "mem", i.b, "Opd", h, IF a \in Ram THEN p.mem[a] ELSE 0, p.reg[i.r], a)
    IN CASE i.op = "mov" -> add_new_use(add_new_define(S, dst), use(i.b, "Opd"))
         [] i.op \in Arithmetic -> add_new_use(add_new_use(add_new_define(S, dst), use(i.b, "Opd")),
                                        IF i.c = "imm" THEN imm ELSE use(i.c, "Opd"))
         [] i.op = "ldr" -> exp(add_new_use(add_new_define(S, dst), load))
         [] i.op = "str" -> exp(add_new_define(add_new_use(S, use(i.r, "Opd")), store))

add_new_inst(S, i, index, log) == [S EXCEPT !.list = Append(@, InstNode(i, index, log))]

Handle(i, index, p, m) ==
    LET a == Address(i, p)
        logged == setup.memac /\ index # 0 /\ i.op \in {"ldr", "str"} /\ a \in Ram \cup Mmio
        log == IF ~logged THEN <<>>
               ELSE <<[addr |-> a, val |-> IF i.op = "ldr" THEN m.reg[i.r] ELSE p.reg[i.r]]>>
        S == general_handler(add_new_inst(re, i, index, log), i, p, m)
    IN [S EXCEPT !.instl = add_to_list(@, Len(re.list) + 1)]

------------------------------------------------------------------------------
(* The engine. *)

InstNodes == {j \in 1 .. Len(re.list) : re.list[j].kind = "inst"}
OperandNodes == (1 .. Len(re.list)) \ InstNodes

Init ==
    /\ setup \in Setups
    /\ core \in {c \in Cores : DOMAIN c.mem = Ram} /\ world = core
    /\ re = [list |-> <<>>,                               \* re_ds.head.list
             usel |-> <<>>, defl |-> <<>>, instl |-> <<>>,  \* worklists, oldest first
             umem |-> <<>>,                               \* re_ds.head.umemlist
             bad |-> {}]                                  \* instructions that met BAD_ADDRESS
    /\ phase = "handle" /\ pc = "idle" /\ cur = 0

\* The routine that re_resolve runs next, the ones in order having the first turn.
Turn(S, order) ==
    LET some(r) == CASE r = "use" -> S.usel # <<>> [] r = "def" -> S.defl # <<>>
                     [] r = "inst" -> S.instl # <<>>
        k == SelectInSeq(order, some)
    IN IF k = 0 THEN "idle" ELSE order[k]

\* The crash site, found in the trace as its last instruction.
AddCrashSite(i) ==
    /\ phase = "handle" /\ pc = "idle" /\ re.list = <<>>
    /\ Faults(i, core)
    /\ re' = Handle(i, 0, core, core)
    /\ pc' = Turn(re', <<"use", "def", "inst">>)
    /\ UNCHANGED <<setup, core, world, phase, cur>>

AddInst(i) ==
    /\ phase = "handle" /\ pc = "idle" /\ re.list # <<>>
    /\ Cardinality(InstNodes) < MaxInst
    /\ \E p \in Predecessors(i, world) :
        /\ world' = p
        /\ re' = Handle(i, Cardinality(InstNodes), p, world)
    /\ pc' = Turn(re', <<"use", "def", "inst">>)
    /\ UNCHANGED <<setup, core, phase, cur>>

\* The loops of re_resolve take an entry off a worklist at a time.  The successor of the
\* last entry is the head: what that entry adds waits for the next round.
ResolveUse ==
    /\ pc = "use"
    /\ re' = [resolve_use(re, Head(re.usel)) EXCEPT !.usel = Tail(@)]
    /\ pc' = IF Len(re.usel) > 1 THEN "use" ELSE Turn(re', <<"def", "inst", "use">>)
    /\ UNCHANGED <<setup, core, world, phase, cur>>

ResolveDefine ==
    /\ pc = "def"
    /\ re' = [resolve_define(re, Head(re.defl)) EXCEPT !.defl = Tail(@)]
    /\ pc' = IF Len(re.defl) > 1 THEN "def" ELSE Turn(re', <<"inst", "use", "def">>)
    /\ UNCHANGED <<setup, core, world, phase, cur>>

ResolveInst ==
    /\ pc = "inst"
    /\ \E g \in Val : re' = [resolve_inst(re, Head(re.instl), g) EXCEPT !.instl = Tail(@)]
    /\ pc' = IF Len(re.instl) > 1 THEN "inst" ELSE Turn(re', <<"use", "def", "inst">>)
    /\ UNCHANGED <<setup, core, world, phase, cur>>

\* The trace ends: re_ds.resolving = true.
StartResolving ==
    /\ phase = "handle" /\ pc = "idle" /\ re.list # <<>>
    /\ phase' = "resolve"
    /\ UNCHANGED <<setup, core, world, re, pc, cur>>

\* The second loop, from the crash site backwards.
ResolveAgain ==
    /\ phase = "resolve" /\ pc = "idle" /\ cur < Cardinality(InstNodes)
    /\ cur' = cur + 1
    /\ re' = [re EXCEPT !.instl = <<CHOOSE h \in InstNodes : re.list[h].index = cur>>]
    /\ pc' = "inst"
    /\ UNCHANGED <<setup, core, world, phase>>

Finish ==
    /\ phase = "resolve" /\ pc = "idle" /\ cur = Cardinality(InstNodes)
    /\ phase' = "done"
    /\ UNCHANGED <<setup, core, world, re, pc, cur>>

Next == \/ \E i \in Code : AddCrashSite(i) \/ AddInst(i)
        \/ ResolveUse \/ ResolveDefine \/ ResolveInst
        \/ StartResolving \/ ResolveAgain \/ Finish

Spec == Init /\ [][Next]_vars
------------------------------------------------------------------------------
(* Properties. *)

TypeOK ==
    /\ setup \in Setups /\ core \in Cores /\ world \in [reg : [Reg -> Val], mem : [Ram -> Val]]
    /\ \A j \in OperandNodes :
          /\ re.list[j].kind \in {"use", "def"} /\ re.list[j].sort \in {"reg", "mem", "imm"}
          /\ {re.list[j].addr, re.list[j].av, re.list[j].bv} \subseteq Val
          /\ re.list[j].home \in InstNodes
    /\ ToSet(re.usel) \cup ToSet(re.defl) \cup ToSet(re.umem) \subseteq OperandNodes
    /\ ToSet(re.instl) \subseteq InstNodes /\ re.bad \subseteq InstNodes
    /\ phase \in {"handle", "resolve", "done"} /\ pc \in {"use", "def", "inst", "idle"}
    /\ cur \in 0 .. MaxInst

Executed(j) == re.list[re.list[j].home].index # 0

RegisterSound(n) == (n.ak => n.av = n.ta) /\ (n.bk => n.bv = n.tb)

MemorySound(n) ==
    /\ n.addr \in {0, n.taddr}
    /\ n.taddr \in Ram => (n.ak => n.av = n.ta) /\ (n.bk => n.bv = n.tb)

\* Whenever the engine says it knows a value, it is the one the execution gave: of a
\* register operand, because add_new_use, add_new_define, the resolvers, resolve_use and
\* resolve_define carry no value past a definition of the register; of a memory operand
\* of an executed instruction, and of its address, because no value travels past a write
\* that may alias it (obstacle_between_two_targets).
ValuesSound ==
    \A j \in OperandNodes :
        /\ re.list[j].sort = "reg" => RegisterSound(re.list[j])
        /\ IsExp(re.list[j]) /\ Executed(j) => MemorySound(re.list[j])

LiveRangeClosed ==
    \A i, j \in OperandNodes :
        /\ i < j /\ Executed(i) /\ re.list[i].sort = "reg" /\ SameTarget(re.list[i], re.list[j])
        /\ \A m \in (i + 1) .. (j - 1) : m \in OperandNodes => ~SameTarget(re.list[m], re.list[i])
        => re.list[j].ak = IF re.list[i].kind = "def" THEN re.list[i].bk ELSE re.list[i].ak

InstructionClosed(h) ==
    LET d == re.list[Definition(re.list, h)].ak
        known == {j \in Operands(re.list, h) : re.list[j].ak}
    IN IF re.list[h].inst.op \in Arithmetic
       THEN Cardinality(known) + (IF d THEN 1 ELSE 0) # 2
       ELSE d <=> known # {}

\* When the worklists are empty there is nothing left to infer.  Two neighbouring
\* operands of one register agree on whether the value between them is known, so
\* add_to_uselist, add_to_deflist and the core dump's values set without them miss no
\* wake-up; and no resolver has work left, so check_inst_resolution never keeps an
\* instruction off the list that one more value would complete.
NothingLeftToInfer ==
    pc = "idle" => /\ LiveRangeClosed
                   /\ \A h \in InstNodes : re.list[h].index # 0 => InstructionClosed(h)

\* When the worklists are empty, umemlist is the set of executed memory writes whose
\* address is unknown, newest first: resolve_alias relies on both, on the order because
\* it stops at the first write before its range.  And, as the assertions at the head of
\* the loops of resolve_use and resolve_define say, which the release build compiles
\* out, an entry of a worklist has a value to propagate.
WorklistsExact ==
    /\ pc = "idle" =>
          /\ ToSet(re.umem) =
                {j \in OperandNodes : /\ re.list[j].kind = "def" /\ IsExp(re.list[j])
                                      /\ re.list[j].addr = 0 /\ Executed(j)}
          /\ \A a, b \in DOMAIN re.umem : a < b => re.umem[a] > re.umem[b]
    /\ \A e \in ToSet(re.usel) : re.list[e].ak
    /\ \A e \in ToSet(re.defl) : re.list[e].ak \/ re.list[e].bk

\* What the engine knows it never forgets and never revises, an address included.
Known(l, m, j) ==
    /\ l[j].ak => m[j].ak /\ m[j].av = l[j].av
    /\ l[j].bk => m[j].bk /\ m[j].bv = l[j].bv
    /\ l[j].addr # 0 => m[j].addr = l[j].addr
KnowledgeKept == [][\A j \in OperandNodes : Known(re.list, re'.list, j)]_vars

\* re_resolve ends: every entry taken off a worklist leaves less to do.  Something was
\* learnt that was unknown, or nothing was queued but, for a use or a define, the one
\* instruction it wakes: no chain of routines can feed itself for ever.
Unknown(S) == Cardinality({j \in DOMAIN S.list : S.list[j].kind # "inst" /\ ~S.list[j].ak})
              + Cardinality({j \in DOMAIN S.list : S.list[j].kind = "def" /\ ~S.list[j].bk})
              + Cardinality({j \in DOMAIN S.list : S.list[j].kind # "inst" /\ IsExp(S.list[j])
                                                   /\ S.list[j].addr = 0})
Queued(S) == 2 * (Len(S.usel) + Len(S.defl)) + Len(S.instl)
Lighter(S, T) == \/ Unknown(S) < Unknown(T)
                 \/ Unknown(S) = Unknown(T) /\ Queued(S) < Queued(T)
WorkDecreases == [][pc # "idle" => Lighter(re', re)]_vars

\* "only the crash site will trigger this assert": reading the core dump at an address
\* it does not have.
BadAddressOnlyAtCrashSite == \A h \in re.bad : re.list[h].index = 0
=============================================================================
