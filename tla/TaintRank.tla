------------------------------ MODULE TaintRank ------------------------------
(***************************************************************************)
(* The end of the analysis (src/src/src/analyze_result.c): backward taint  *)
(* from the operand that led to the crash, over the core list that the     *)
(* reverse execution has left, and the ranking of the tainted              *)
(* instructions.                                                           *)
(*                                                                         *)
(* A trace is read backwards: instruction 0 is the crash.  A step of it is *)
(* [pc, op, d, s, b, x, w, a, v, acnum]: destination and source registers, *)
(* base and index, writeback, the address (0: not known), the value, and   *)
(* how many accesses the log has: none of a store that is skipped, the     *)
(* condition it is executed on being false.  As in                         *)
(* ReverseExec, a node that was added to the core list later belongs to an *)
(* earlier instruction and has a larger index; "prev" leads there.         *)
(* Bound: an access is a word, and words do not overlap.                   *)
(***************************************************************************)
EXTENDS Naturals, Integers, Sequences, FiniteSets, SequencesExt, FiniteSetsExt, Folds

CONSTANTS
    Register,
    Traces,         \* the traces, sequences of steps
    ROOT,           \* root_cause_rev_idx
    FULL            \* the score of a tainted instruction, 100

Instruction == [pc : Nat, op : {"imm", "alu", "ldr", "str", "ldm", "stm", "bx", "pop"},
                d : Seq(Register), s : Seq(Register), b : Register, x : Seq(Register),
                w : BOOLEAN, a : Nat, v : Nat, acnum : Nat]

\* Those that set_taint_sink knows can crash.
Crash == {"ldr", "str", "ldm", "stm", "bx", "pop"}

ASSUME TaintRankAssumption ==
    /\ ROOT \in Nat /\ FULL \in Nat \ {0}
    /\ \A t \in Traces : t \in Seq(Instruction) /\ t # <<>> /\ t[1].op \in Crash

VARIABLES
    trace,
    list,       \* the core list
    sinks,      \* the operands still to be traced, the first being traced
    srclist,    \* operands to follow; 0 is the node of the sink
    tainted,    \* inst_tainted: instructions marked
    score       \* what inst_tainted holds after the ranking; <<>> before

vars == <<trace, list, sinks, srclist, tainted, score>>

Index(t) == 0 .. (Len(t) - 1)
Step(t, i) == t[i + 1]
Backwards(t) == [k \in 1 .. Len(t) |-> k - 1]

------------------------------------------------------------------------------
(* The core list that general_handler builds of a trace. *)

Entry(kind, sort, what, role, i) == [kind |-> kind, sort |-> sort, what |-> what, role |-> role, inst |-> i]
DefReg(r, i) == Entry("def", "reg", r, "dst", i)
UseReg(r, i) == Entry("use", "reg", r, "Opd", i)
UseImm(i) == Entry("use", "imm", 0, "Opd", i)

\* A memory operand, followed by the uses of its base and index.
MemOf(kind, a, s, i) == <<Entry(kind, "mem", a, "Opd", i), Entry("use", "reg", s.b, "Base", i)>>
                        \o [k \in DOMAIN s.x |-> Entry("use", "reg", s.x[k], "Index", i)]
Writeback(s, i) == IF s.w THEN <<Entry("def", "reg", s.b, "writeback", i)>> ELSE <<>>

\* The k-th word of a transfer of several registers.
Word(s, k) == IF s.a = 0 THEN 0 ELSE s.a + k - 1
StmPart(s, i, k) == MemOf("def", Word(s, k), s, i) \o <<UseReg(s.s[k], i)>>
LdmPart(s, i, k) == MemOf("use", Word(s, k), s, i) \o <<DefReg(s.d[k], i)>>

\* Operands in the order in which arm_parse_ops, stm_handler and ldm_handler list them.
Operands(s, i) ==
    LET D == [k \in DOMAIN s.d |-> DefReg(s.d[k], i)]
        U == [k \in DOMAIN s.s |-> UseReg(s.s[k], i)]
    IN CASE s.op = "imm" -> D \o U \o <<UseImm(i)>>
         [] s.op = "alu" -> D \o U
         [] s.op = "ldr" -> D \o Writeback(s, i) \o MemOf("use", s.a, s, i)
         [] s.op = "str" -> U \o Writeback(s, i) \o MemOf("def", s.a, s, i)
         [] s.op = "stm" -> Writeback(s, i) \o <<UseReg(s.b, i)>>
                            \o FlattenSeq([k \in DOMAIN s.s |-> StmPart(s, i, k)])
         [] s.op = "ldm" -> Writeback(s, i) \o <<UseReg(s.b, i)>>
                            \o FlattenSeq([k \in DOMAIN s.d |-> LdmPart(s, i, k)])
         [] s.op = "bx" -> U
         [] s.op = "pop" -> D

CoreList(t) == FlattenSeq([k \in 1 .. Len(t) |->
                              <<Entry("inst", "none", 0, "none", k - 1)>> \o Operands(t[k], k - 1)])

------------------------------------------------------------------------------
(* Walking the list. *)

\* The first j beyond e for which P(l[j]), or 0.
Beyond(l, e, P(_)) == LET s == {j \in (e + 1) .. Len(l) : P(l[j])} IN IF s = {} THEN 0 ELSE Min(s)

\* The node of the sink is node 0.
NodeAt(l, e, sink) == IF e = 0 THEN sink ELSE l[e]

SameTarget(m, n) == m.sort = n.sort /\ m.what = n.what /\ (m.sort = "mem" => m.what # 0)

\* Mutant: a definition hides behind the use of another.
find_prev_any_def(l, e, n) == Beyond(l, e, LAMBDA m : m.kind = "def")

\* Mutant: the search starts at the crash every time.
find_first_def(l, e, n) == Beyond(l, 0, LAMBDA m : m.kind = "def" /\ SameTarget(m, n))

find_prev_def_of_use(l, e, n) == Beyond(l, e, LAMBDA m : m.kind = "def" /\ SameTarget(m, n))

\* Beyond the instruction of e itself, only those that accessed memory are looked at.
Accessed(l, e, m) == Step(trace, m.inst).acnum # 0 \/ (e # 0 /\ m.inst = l[e].inst)

find_prev_write_of_address(l, e, n) ==
    IF n.sort # "mem" THEN 0
    ELSE Beyond(l, e, LAMBDA m : m.kind = "def" /\ SameTarget(m, n) /\ Accessed(l, e, m))

\* The nodes beyond e, up to the first one for which P.
Upto(l, e, P(_)) == LET z == Beyond(l, e, P)
                    IN [k \in 1 .. ((IF z = 0 THEN Len(l) ELSE z - 1) - e) |-> e + k]

\* Mutant: a writeback ends the search.
sources_before_writeback(l, d) ==
    LET pick(q, j) == IF l[j].role = "Opd" THEN Append(q, j) ELSE q
    IN FoldLeft(pick, <<>>, Upto(l, d, LAMBDA m : m.kind \in {"inst", "def"}))

\* The operands listed after d, up to the next definition or instruction.
get_src_of_def(l, d) ==
    LET pick(q, j) == IF l[j].kind = "use" /\ l[j].role = "Opd" THEN Append(q, j) ELSE q
    IN FoldLeft(pick, <<>>, Upto(l, d, LAMBDA m : \/ m.kind = "inst"
                                                  \/ m.kind = "def" /\ m.role # "writeback"))

\* get_element_of_exp: the base and the index of a memory operand.
get_element_of_exp(l, e) ==
    IF l[e].sort # "mem" THEN <<>> ELSE Upto(l, e, LAMBDA m : m.role \notin {"Base", "Index"})

\* Mutant: an operand is queued twice.
add_again(q, e) == Append(q, e)

add_to_uselist(q, e) == IF e \in ToSet(q) THEN q ELSE Append(q, e)

\* The operands that a definition is followed to.
Followed(l, d) ==
    LET src == get_src_of_def(l, d) IN
    get_element_of_exp(l, d) \o FlattenSeq([k \in DOMAIN src |->
        IF l[src[k]].sort = "imm" THEN <<>> ELSE <<src[k]>> \o get_element_of_exp(l, src[k])])
Immediate(l, d) == \E j \in ToSet(get_src_of_def(l, d)) : l[j].sort = "imm"

------------------------------------------------------------------------------
(* Taint. *)

\* The operands that led to the crash.  Those of a load or store are taken from its
\* second operand, which is a register if two are transferred.
set_taint_sink(s) ==
    LET use(q) == [k \in DOMAIN q |-> UseReg(q[k], 0)]
    IN CASE s.op \in {"ldr", "str"} -> IF Len(s.d) + Len(s.s) = 1 THEN use(<<s.b>> \o s.x)
                                       ELSE use(<<(s.d \o s.s)[2]>>)
         [] s.op \in {"ldm", "stm"} -> use(<<s.b>>)
         [] s.op = "bx" -> use(s.s)
         [] s.op = "pop" -> <<Entry("use", "mem", s.a, "Opd", 0)>>

Init ==
    /\ trace \in Traces
    /\ list = CoreList(trace)
    /\ sinks = set_taint_sink(Step(trace, 0))
    /\ srclist = <<0>> /\ tainted = {} /\ score = <<>>

\* One pair of taint propagation.
Propagate ==
    /\ srclist # <<>>
    /\ LET e == Head(srclist)
           n == NodeAt(list, e, Head(sinks))
           stops == e # 0 /\ n.inst > ROOT
           w == find_prev_write_of_address(list, e, n)
           d == find_prev_def_of_use(list, e, n)
           \* the write before the definition's own
           ww == IF d = 0 THEN 0 ELSE find_prev_write_of_address(list, d, list[d])
           follow == IF stops THEN <<>> ELSE (IF w = 0 THEN <<>> ELSE Followed(list, w))
                                             \o (IF d = 0 THEN <<>> ELSE Followed(list, d))
       IN /\ srclist' = Tail(FoldLeft(add_to_uselist, srclist, follow))
          /\ tainted' = tainted \cup (IF e = 0 THEN {} ELSE {n.inst})
                \cup (IF stops THEN {}
                      ELSE {list[j].inst : j \in ({w, ww} \ {0})
                                               \cup {x \in {d} \ {0} : Immediate(list, x)}})
    /\ UNCHANGED <<trace, list, sinks, score>>

\* The next of base and index is traced.
NextSink ==
    /\ srclist = <<>> /\ Len(sinks) > 1
    /\ sinks' = Tail(sinks) /\ srclist' = <<0>>
    /\ UNCHANGED <<trace, list, tainted, score>>

------------------------------------------------------------------------------
(* Ranking. *)

check_mem_access(s) == CASE s.op = "ldr" -> "mem_read" [] s.op = "str" -> "mem_write" [] OTHER -> "mem_none"

\* Accesses of the same data at the same address.
absolute_address_data(r, w) == r.acnum # 0 /\ w.acnum # 0 /\ r.a = w.a /\ r.v = w.v

\* From the crash backwards, a read waits for the write of what it read.
Bonus(t, T) ==
    LET visit(acc, i) ==
            LET s == Step(t, i)
                kind == check_mem_access(s)
            IN CASE i \in T /\ kind = "mem_read" /\ acc.read = {} -> [acc EXCEPT !.read = {i}]
                 [] /\ i \in T /\ kind = "mem_write"
                    /\ \E r \in acc.read : absolute_address_data(Step(t, r), s) ->
                        [read |-> {}, won |-> acc.won \cup {<<i, r>> : r \in acc.read}]
                 [] OTHER -> acc
    IN FoldLeft(visit, [read |-> {}, won |-> {}], Backwards(t)).won

\* Both stop before the last node of the list, which no count is added to or found at.
Counted(c, pc) == IF c = <<>> THEN 0 ELSE SelectInSeq(Front(c), LAMBDA n : n.pc = pc)

add_address_counter(c, pc) ==
    IF Counted(c, pc) = 0 THEN Append(c, [pc |-> pc, count |-> 1])
    ELSE [c EXCEPT ![Counted(c, pc)].count = @ + 1]

get_address_counter(c, pc) == IF Counted(c, pc) = 0 THEN 0 ELSE c[Counted(c, pc)].count

Counters(t, T) ==
    LET visit(c, i) == IF i \in T THEN add_address_counter(c, Step(t, i).pc) ELSE c
    IN FoldLeft(visit, <<>>, Backwards(t))

\* Mutant: a score may come down to 0.
AnyScore(n) == n

\* 0 means untainted.
NotZero(n) == IF n = 0 THEN -1 ELSE n

taint_ranking(t, T) ==
    LET won == {p[1] : p \in Bonus(t, T)}
        c == Counters(t, T)
    IN [i \in Index(t) |->
           IF i \notin T THEN 0
           ELSE NotZero((IF i \in won THEN 2 * FULL ELSE FULL) - get_address_counter(c, Step(t, i).pc))]

Rank ==
    /\ srclist = <<>> /\ Len(sinks) = 1 /\ score = <<>>
    /\ score' = taint_ranking(trace, tainted)
    /\ UNCHANGED <<trace, list, sinks, srclist, tainted>>

Next == Propagate \/ NextSink \/ Rank

Spec == Init /\ [][Next]_vars
------------------------------------------------------------------------------
(* The reference: which instruction computes what from what. *)

Reg(r) == <<"reg", r>>
Mem(a) == <<"mem", a>>
Regs(q) == {Reg(r) : r \in ToSet(q)}
Address(s) == {Reg(s.b)} \cup Regs(s.x)

Skipped(s) == s.op = "str" /\ s.acnum = 0

\* Pairs of a location written and the locations its value depends on.
ComputedFrom(s) ==
    LET writes(q, loc(_), from(_)) == {<<loc(k), from(k)>> : k \in DOMAIN q}
    IN IF Skipped(s) THEN {} ELSE
       (IF s.w THEN {<<Reg(s.b), {Reg(s.b)}>>} ELSE {}) \cup
       CASE s.op \in {"imm", "alu"} ->
               writes(s.d, LAMBDA k : Reg(s.d[k]), LAMBDA k : Regs(s.s))
         [] s.op \in {"ldr", "ldm", "pop"} ->
               writes(s.d, LAMBDA k : Reg(s.d[k]), LAMBDA k : {Mem(Word(s, k))} \cup Address(s))
         [] s.op \in {"str", "stm"} ->
               writes(s.s, LAMBDA k : Mem(Word(s, k)), LAMBDA k : {Reg(s.s[k])} \cup Address(s))
         [] s.op = "bx" -> {}

\* Dependencies the code does not follow: get_src_of_def looks behind the definition and
\* up to the next one, where an operand is not if it is listed before the definition, or
\* if a second register is listed between them.
NotFollowed(s, loc) ==
    CASE s.op = "str" /\ loc = Mem(Word(s, 1)) -> Regs(s.s)
      [] s.op = "str" /\ loc # Mem(Word(s, 1)) -> Regs(s.s) \cup Address(s)
      [] s.op = "ldr" /\ Len(s.d) = 2 /\ loc = Reg(s.d[1]) -> {Mem(Word(s, 1))} \cup Address(s)
      [] s.op = "ldr" /\ Len(s.d) = 2 /\ loc = Reg(s.d[2]) -> {Mem(Word(s, 2))}
      [] s.op = "ldm" /\ loc = Reg(Last(s.d)) -> {Mem(Word(s, Len(s.d)))} \cup Address(s)
      [] s.op = "ldm" /\ loc # Reg(Last(s.d)) -> {Mem(Word(s, k)) : k \in DOMAIN s.d}
      [] OTHER -> {}

\* The instructions that the locations L depend on before the crash, leaving out the
\* dependencies skip(s, loc).  An instruction beyond ROOT is found but not followed.
Slice(t, L, skip(_, _)) ==
    LET visit(acc, i) ==
            LET s == Step(t, i)
                hit == {f \in ComputedFrom(s) : f[1] \in acc.live /\ f[1] # Mem(0)}
                from == UNION {f[2] \ skip(s, f[1]) : f \in hit}
            IN [live |-> (acc.live \ {f[1] : f \in hit}) \cup (IF i > ROOT THEN {} ELSE from),
                found |-> IF from # {} \/ (hit # {} /\ s.op = "imm") THEN acc.found \cup {i}
                          ELSE acc.found]
    IN FoldLeft(visit, [live |-> L, found |-> {}], Tail(Backwards(t))).found

\* The operands that led to the crash, as locations.
Crashing(s) == CASE s.op \in {"ldr", "str", "ldm", "stm"} -> Address(s)
                 [] s.op = "bx" -> Regs(s.s)
                 [] s.op = "pop" -> {Mem(s.a)}

------------------------------------------------------------------------------
(* Properties. *)

Done == score # <<>>

\* The worklist holds nodes of the list, each once, and what is marked is in the trace.
TypeOK ==
    /\ ToSet(srclist) \subseteq 0 .. Len(list) /\ IsInjective(srclist)
    /\ tainted \subseteq Index(trace) /\ score \in {<<>>} \cup [Index(trace) -> Int]

\* Every instruction that the operand taken as the sink depends on is marked, whatever
\* chain of moves, loads, block stores and address computations leads there, as far back
\* as the root cause; NotFollowed names the dependencies that are not part of this.
\* The sink is not always the crashing operand: for a doubleword store it is the second
\* register stored, and the base of a store with writeback is defined again, without
\* sources, by the crashing instruction itself.
Traced ==
    LET s == Step(trace, 0)
    IN CASE s.op = "str" /\ Len(s.s) = 2 -> {Reg(s.s[2])}
         [] s.op = "str" /\ Len(s.s) = 1 /\ s.w -> Regs(s.x)
         [] OTHER -> Crashing(s)
TaintComplete == Done => Slice(trace, Traced, NotFollowed) \subseteq tainted

\* The ranking keeps the marks (a score of 0 "means untainted"); of two instructions, the
\* one at an address with more tainted instructions does not come out higher for it,
\* although counts may be one short; and an instruction is raised only if it wrote the
\* very value that a tainted read obtained.
Occurrences(pc) == Cardinality({i \in tainted : Step(trace, i).pc = pc})
Raised == {p[1] : p \in Bonus(trace, tainted)}
ScoreKeepsTaint == \A i \in Index(trace) : score[i] # 0 <=> i \in tainted
RedundantNotHigher ==
    \A i, j \in tainted :
        /\ i \in Raised <=> j \in Raised
        /\ Occurrences(Step(trace, i).pc) > Occurrences(Step(trace, j).pc)
        => score[i] <= score[j]
RaisedWroteIt ==
    \A p \in Bonus(trace, tainted) :
        /\ p[1] > p[2] /\ Step(trace, p[1]).v = Step(trace, p[2]).v
        /\ \A k \in (p[2] + 1) .. (p[1] - 1) :
              LET s == Step(trace, k)
              IN s.op = "str" /\ ~Skipped(s) => s.a # Step(trace, p[2]).a
RankingSound == Done => ScoreKeepsTaint /\ RedundantNotHigher /\ RaisedWroteIt

\* Nothing remembers which operands have been followed, and the same one may be followed
\* many times.  It ends all the same, because each operand is replaced by operands that lie
\* further from the crash only.
WorkAdvances ==
    [][\A e \in ToSet(srclist') \ ToSet(srclist) : sinks' = sinks => e > Head(srclist)]_vars
=============================================================================
