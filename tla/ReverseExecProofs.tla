-------------------------- MODULE ReverseExecProofs --------------------------
(****************************************************************************)
(* What ReverseExec is checked for on small traces, proved for traces of    *)
(* any length, words of any size, and any core dump.                        *)
(*                                                                          *)
(* IInv relates the list of nodes to the execution that is read backwards:  *)
(* the ghost values along it form a chain (Chained, Ends), an instruction's *)
(* nodes are related as it relates them (Shaped), and what the engine knows *)
(* of a node is its ghost value (Sound).  A value moves along the list      *)
(* only to a neighbour, and Link shows that neighbours have one value: two  *)
(* accesses of one address have no write between them that the engine may   *)
(* not know, because such a write is in umemlist (Unknowns, Clear), or is   *)
(* the newest instruction and still to be resolved.                         *)
(*                                                                          *)
(* The hypotheses of the soundness theorems are Honest; without             *)
(* it IInv says only what TypeOK needs.                                     *)
(****************************************************************************)
EXTENDS ReverseExec, FiniteSetTheorems, WellFoundedInduction, TLAPS

(* Arithmetic on words. *)

\* A word that overflowed once is wrapped once.
LEMMA WrapIs ==
  ASSUME NEW n \in 0..(2 * MaxVal + 1)
  PROVE  Wrap(n) \in Val /\ Wrap(n) = IF n <= MaxVal THEN n ELSE n - (MaxVal + 1)
<1>1. MaxVal \in Nat
  BY ReverseExecAssumption
<1> QED
  BY <1>1 DEF Wrap, Val

\* The sum of two words.
LEMMA SumIs ==
  ASSUME NEW a \in Val, NEW b \in Val
  PROVE  Wrap(a + b) \in Val /\ Wrap(a + b) = IF a + b <= MaxVal THEN a + b ELSE a + b - (MaxVal + 1)
<1>1. MaxVal \in Nat
  BY ReverseExecAssumption
<1> DEFINE n == a + b
<1>2. n \in 0..(2 * MaxVal + 1)
  BY <1>1 DEF Val
<1> HIDE DEF n
<1>3. Wrap(n) \in Val /\ Wrap(n) = IF n <= MaxVal THEN n ELSE n - (MaxVal + 1)
  BY <1>2, WrapIs
<1> QED
  BY <1>1, <1>3 DEF n, Val

\* The difference of two words.
LEMMA MinusIs ==
  ASSUME NEW a \in Val, NEW b \in Val
  PROVE  Minus(a, b) \in Val /\ Minus(a, b) = IF b <= a THEN a - b ELSE a - b + (MaxVal + 1)
<1>1. MaxVal \in Nat
  BY ReverseExecAssumption
<1> DEFINE n == a + MaxVal + 1 - b
<1>2. n \in 0..(2 * MaxVal + 1)
  BY <1>1 DEF Val
<1>3. Wrap(n) \in Val /\ Wrap(n) = IF n <= MaxVal THEN n ELSE n - (MaxVal + 1)
  BY <1>2, WrapIs
<1>4. n <= MaxVal <=> ~(b <= a)
  BY <1>1 DEF Val
<1>5. n - (MaxVal + 1) = a - b /\ n = a - b + (MaxVal + 1)
  BY <1>1 DEF Val
<1>6. Minus(a, b) = Wrap(n)
  BY DEF Minus
<1> HIDE DEF n
<1> QED
  BY <1>3, <1>4, <1>5, <1>6

\* The three calculations of a resolver invert each other.
LEMMA Inverses ==
  ASSUME NEW a \in Val, NEW b \in Val
  PROVE  /\ Minus(Wrap(a + b), b) = a /\ Minus(Wrap(a + b), a) = b
         /\ Wrap(Minus(a, b) + b) = a /\ Minus(a, Minus(a, b)) = b
<1>1. MaxVal \in Nat /\ a \in 0..MaxVal /\ b \in 0..MaxVal
  BY ReverseExecAssumption DEF Val
<1> DEFINE s == Wrap(a + b)
           d == Minus(a, b)
<1>2. s \in Val /\ s = IF a + b <= MaxVal THEN a + b ELSE a + b - (MaxVal + 1)
  BY SumIs
<1>3. d \in Val /\ d = IF b <= a THEN a - b ELSE a - b + (MaxVal + 1)
  BY MinusIs
<1> HIDE DEF s, d
<1>4. /\ Minus(s, b) = IF b <= s THEN s - b ELSE s - b + (MaxVal + 1)
      /\ Minus(s, a) = IF a <= s THEN s - a ELSE s - a + (MaxVal + 1)
      /\ Wrap(d + b) = IF d + b <= MaxVal THEN d + b ELSE d + b - (MaxVal + 1)
      /\ Minus(a, d) = IF d <= a THEN a - d ELSE a - d + (MaxVal + 1)
  BY <1>2, <1>3, SumIs, MinusIs
<1>5. Minus(s, b) = a /\ Minus(s, a) = b
  BY <1>1, <1>2, <1>4 DEF Val
<1>6. Wrap(d + b) = a /\ Minus(a, d) = b
  BY <1>1, <1>3, <1>4 DEF Val
<1> QED
  BY <1>5, <1>6 DEF s, d

-----------------------------------------------------------------------------
(* Sets of numbers and sequences. *)

\* Min is the least member.
LEMMA MinIs ==
  ASSUME NEW S, S \subseteq Nat, S # {}
  PROVE  Min(S) \in S /\ \A k \in S : Min(S) <= k
<1>1. \E m \in S : \A k \in S : m <= k
  <2> DEFINE R == OpToRel(<, Nat)
  <2>1. IsWellFoundedOn(R, Nat)
    BY NatLessThanWellFounded
  <2> HIDE DEF R
  <2>2. \E x \in S : \A y \in S : ~ (<<y, x>> \in R)
    BY <2>1, WFMin
  <2>3. \A x, y \in Nat : <<y, x>> \in R <=> y < x
    BY DEF R, OpToRel
  <2>4. PICK m \in S : \A k \in S : ~ (<<k, m>> \in R)
    BY <2>2
  <2>5. ASSUME NEW k \in S PROVE m <= k
    <3>1. m \in Nat /\ k \in Nat
      OBVIOUS
    <3>2. ~(k < m)
      BY <2>3, <2>4, <3>1
    <3> QED
      BY <3>1, <3>2
  <2> QED
    BY <2>5
<1> QED
  BY <1>1 DEF Min

\* Max is the greatest member of a bounded set.
LEMMA MaxIs ==
  ASSUME NEW n \in Nat, NEW S, S \subseteq 0..n, S # {}
  PROVE  Max(S) \in S /\ \A k \in S : k <= Max(S)
<1> DEFINE D == {n - k : k \in S}
<1>1. D \subseteq Nat /\ D # {}
  <2>1. \A k \in S : n - k \in Nat
    OBVIOUS
  <2> QED
    BY <2>1
<1> HIDE DEF D
<1>2. Min(D) \in D /\ \A d \in D : Min(D) <= d
  BY <1>1, MinIs
<1>3. PICK m \in S : Min(D) = n - m
  BY <1>2 DEF D
<1>4. ASSUME NEW k \in S PROVE k <= m
  <2>1. n - k \in D
    BY DEF D
  <2>2. n - m <= n - k
    BY <2>1, <1>2, <1>3
  <2> QED
    BY <2>2
<1> QED
  BY <1>4 DEF Max

\* A set of one number.
LEMMA MinOne ==
  ASSUME NEW x \in Nat
  PROVE  Min({x}) = x /\ Max({x}) = x
  BY DEF Min, Max

\* A set of two numbers.
LEMMA MinMaxTwo ==
  ASSUME NEW x \in Nat, NEW y \in Nat, x < y
  PROVE  Min({x, y}) = x /\ Max({x, y}) = y
<1>1. Min({x, y}) = x
  <2>1. \A z \in {x, y} : (\A k \in {x, y} : z <= k) <=> z = x
    OBVIOUS
  <2> QED
    BY <2>1 DEF Min
<1>2. Max({x, y}) = y
  <2>1. \A z \in {x, y} : (\A k \in {x, y} : z >= k) <=> z = y
    OBVIOUS
  <2> QED
    BY <2>1 DEF Max
<1> QED
  BY <1>1, <1>2

\* A sequence over a set is one over any larger set.
LEMMA SeqWider ==
  ASSUME NEW A, NEW B, A \subseteq B, NEW s \in Seq(A)
  PROVE  s \in Seq(B)
  OBVIOUS

\* A worklist after add_to_list.
LEMMA AddIs ==
  ASSUME NEW A, NEW q \in Seq(A), NEW e \in A
  PROVE  LET s == add_to_list(q, e) IN
         /\ s \in Seq(A) /\ Len(q) <= Len(s) /\ s # <<>>
         /\ \A a \in 1..Len(q) : s[a] = q[a] /\ a \in 1..Len(s)
         /\ \E a \in 1..Len(s) : s[a] = e
<1>1. CASE e \in ToSet(q)
  <2>1. add_to_list(q, e) = q
    BY <1>1 DEF add_to_list
  <2>2. \E a \in 1..Len(q) : q[a] = e
    BY <1>1 DEF ToSet
  <2> QED
    BY <2>1, <2>2
<1>2. CASE e \notin ToSet(q)
  <2>1. add_to_list(q, e) = Append(q, e)
    BY <1>2 DEF add_to_list
  <2> DEFINE s == Append(q, e)
  <2>2. /\ s \in Seq(A) /\ Len(s) = Len(q) + 1 /\ s[Len(q) + 1] = e
        /\ \A a \in 1..Len(q) : s[a] = q[a]
    OBVIOUS
  <2> HIDE DEF s
  <2>3. Len(q) \in Nat
    OBVIOUS
  <2>4. Len(q) + 1 \in 1..Len(s) /\ s # <<>>
    BY <2>2, <2>3
  <2> QED
    BY <2>1, <2>2, <2>3, <2>4 DEF s
<1> QED
  BY <1>1, <1>2

\* A list with one node replaced.
LEMMA PutIs ==
  ASSUME NEW A, NEW l \in Seq(A), NEW e \in 1..Len(l), NEW x \in A
  PROVE  LET m == [l EXCEPT ![e] = x] IN
         /\ m \in Seq(A) /\ Len(m) = Len(l) /\ m[e] = x
         /\ \A j \in 1..Len(l) : j # e => m[j] = l[j]
  OBVIOUS

-----------------------------------------------------------------------------
(* The invariant. *)

\* The operands and the instructions of a list.
Ops(l) == {j \in 1..Len(l) : l[j].kind # "inst"}
Insts(l) == {j \in 1..Len(l) : l[j].kind = "inst"}

\* Nodes, with the ghost fields tb, ta and taddr of the execution.
OpNode ==
  [kind : {"use", "def"}, sort : {"reg", "mem", "imm"}, r : Reg, elem : {"Opd", "Base", "Index"},
   home : Nat, addr : Val, bk : BOOLEAN, bv : Val, ak : BOOLEAN, av : Val,
   tb : Val, ta : Val, taddr : Val]
Entry == [addr : Val, val : Val]
InstRec == [kind : {"inst"}, sort : {"none"}, home : {0}, inst : Instruction, index : Nat,
          log : {<<>>} \cup {<<x>> : x \in Entry}]

\* An operand comes after the instruction it belongs to.
Nodes(l) ==
  /\ l \in Seq(OpNode \cup InstRec)
  /\ \A j \in Ops(l) : l[j].home \in Insts(l) /\ l[j].home < j

\* What the analysis relies on.
Honest ==
  /\ \A i \in Code : i.op # "rsb"
  /\ \A s \in Setups : s.untraced = {} /\ (s.memac \/ s.mmio = {})

\* A node whose value is compared with the execution's.
Tracked(n) == Honest /\ (n.sort = "reg" \/ n.sort = "imm" \/ (n.sort = "mem" /\ n.taddr \in Ram))
Earlier(n) == IF n.kind = "def" THEN n.tb ELSE n.ta    \* before the node

\* A value that may be filled in.
AfterRight(n, v) == v \in Val /\ (Tracked(n) => v = n.ta)
EarlierRight(n, v) == v \in Val /\ (Tracked(n) => v = Earlier(n))

\* What is known of a node is right; done: its instruction was executed.
Right(n, done) ==
  /\ n.ak => AfterRight(n, n.av)
  /\ n.bk => (Tracked(n) => n.bv = n.tb)
  /\ Honest /\ n.sort = "mem" => n.addr = 0 \/ n.addr = n.taddr
  /\ Honest /\ ~done /\ n.sort = "mem" /\ n.kind = "def" /\ n.bk => n.ak /\ n.bv = n.av

\* Whether the node's instruction was executed; the crashing one, of index 0, was not.
Done(l, j) == l[l[j].home].index # 0
Sound(l) == \A j \in Ops(l) : Right(l[j], Done(l, j))

\* Instructions.
RegNode(n, h, kind, r, elem) ==
   n.kind = kind /\ n.sort = "reg" /\ n.r = r /\ n.elem = elem /\ n.home = h

\* The number of operands general_handler makes of an instruction.
Size(i) == CASE i.op = "mov" -> 2 [] i.op \in Arithmetic -> 3
             [] OTHER -> IF i.c = "imm" THEN 3 ELSE 4

\* The nodes of the instruction at h, and what its execution relates.
AddrAt(l, h) ==
  LET i == l[h].inst IN
  /\ l[h + 2].sort = "mem" /\ l[h + 2].elem = "Opd"
  /\ RegNode(l[h + 3], h, "use", i.b, "Base")
  /\ i.c # "imm" => RegNode(l[h + 4], h, "use", i.c, "Index")
  /\ l[h + 2].taddr = Wrap(l[h + 3].ta + IF i.c = "imm" THEN i.k ELSE l[h + 4].ta)
  /\ l[h].index # 0 <=> l[h + 2].taddr \in Mapped

MovAt(l, h) ==
  LET i == l[h].inst IN
  /\ l[h].index # 0
  /\ RegNode(l[h + 1], h, "def", i.r, "Opd") /\ RegNode(l[h + 2], h, "use", i.b, "Opd")
  /\ l[h + 1].ta = l[h + 2].ta
ArithAt(l, h) ==
  LET i == l[h].inst IN
  /\ l[h].index # 0
  /\ RegNode(l[h + 1], h, "def", i.r, "Opd") /\ RegNode(l[h + 2], h, "use", i.b, "Opd")
  /\ l[h + 3].kind = "use" /\ l[h + 3].elem = "Opd" /\ l[h + 3].sort \in {"reg", "imm"}
  /\ l[h + 1].ta = Result(i.op, l[h + 2].ta, l[h + 3].ta)
LoadAt(l, h) ==
  LET i == l[h].inst IN
  /\ RegNode(l[h + 1], h, "def", i.r, "Opd") /\ l[h + 2].kind = "use"
  /\ AddrAt(l, h)
  /\ IF l[h].index # 0 THEN l[h + 1].ta = l[h + 2].ta ELSE l[h + 1].tb = l[h + 1].ta
StoreAt(l, h) ==
  LET i == l[h].inst IN
  /\ RegNode(l[h + 1], h, "use", i.r, "Opd") /\ l[h + 2].kind = "def"
  /\ AddrAt(l, h)
  /\ l[h + 1].ta = l[h + 2].ta

\* An instruction's nodes follow it, and are all its nodes.
BlockAt(l, h) ==
  LET i == l[h].inst IN
  /\ h + Size(i) <= Len(l)
  /\ \A j \in (h + 1)..(h + Size(i)) : j \in Ops(l) /\ l[j].home = h
  /\ i \in Code
  /\ CASE i.op = "mov" -> MovAt(l, h) [] i.op \in Arithmetic -> ArithAt(l, h)
       [] i.op = "ldr" -> LoadAt(l, h) [] i.op = "str" -> StoreAt(l, h)

\* The list is made of such blocks, the crashing instruction first.
Shaped(l) ==
  /\ \A h \in Insts(l) : BlockAt(l, h)
  /\ \A j \in Ops(l) : j <= l[j].home + Size(l[l[j].home].inst)
  /\ \A h \in Insts(l) : l[h].index = 0 <=> h = 1
  /\ l # <<>> => l[1].kind = "inst"

\* Values along the list.
Located(n) == n.sort = "reg" \/ (n.sort = "mem" /\ n.taddr \in Ram)
SameLoc(n, m) == /\ n.sort = m.sort
                 /\ \/ n.sort = "reg" /\ n.r = m.r
                    \/ n.sort = "mem" /\ n.taddr = m.taddr
At(w, n) == IF n.sort = "reg" THEN w.reg[n.r] ELSE w.mem[n.taddr]
NoDef(l, n, I) == \A k \in I : ~(l[k].kind = "def" /\ SameLoc(l[k], n))

\* Between two nodes of one place with no definition in between the value is one; before
\* the first it is the core dump's.
Chained(l) ==
  \A j \in Ops(l) : Located(l[j]) =>
     /\ NoDef(l, l[j], {k \in Ops(l) : k < j}) => l[j].ta = At(core, l[j])
     /\ \A i \in Ops(l) : (/\ i < j /\ SameLoc(l[i], l[j])
                          /\ NoDef(l, l[j], {k \in Ops(l) : i < k /\ k < j}))
                           => Earlier(l[i]) = l[j].ta

\* The machine state w is the one before the oldest instruction of the list.
Ends(l, w) ==
  /\ \A j \in Ops(l) : Located(l[j]) /\ NoDef(l, l[j], {k \in Ops(l) : j < k})
                         => Earlier(l[j]) = At(w, l[j])
  /\ \A r \in Reg : (\A k \in Ops(l) : ~(l[k].kind = "def" /\ l[k].sort = "reg" /\ l[k].r = r))
                       => w.reg[r] = core.reg[r]
  /\ \A a \in Ram : (\A k \in Ops(l) : ~(l[k].kind = "def" /\ l[k].sort = "mem" /\ l[k].taddr = a))
                       => w.mem[a] = core.mem[a]

\* What the worklists may hold: an operand with a value to hand on.
UseReady(l) == {j \in Ops(l) : l[j].kind = "use" /\ l[j].ak}
DefReady(l) == {j \in Ops(l) : l[j].kind = "def" /\ (l[j].ak \/ l[j].bk)}

\* Executed writes whose address is unknown.
Hidden(l) == {j \in Ops(l) : l[j].kind = "def" /\ l[j].sort = "mem" /\ l[j].addr = 0 /\ Done(l, j)}
Newest(l, h) == \A g \in Insts(l) : g <= h

\* The worklists.
Queues(S) ==
  /\ S.usel \in Seq(UseReady(S.list)) /\ S.defl \in Seq(DefReady(S.list))
  /\ S.instl \in Seq(Insts(S.list)) /\ S.umem \in Seq(Ops(S.list)) /\ S.bad \subseteq Insts(S.list)

\* A hidden write is in umemlist, newest first, or belongs to the newest instruction, which
\* is still to be resolved.
Unknowns(S) ==
  Honest =>
  /\ \A a, b \in 1..Len(S.umem) : a < b => S.umem[a] > S.umem[b]
  /\ \A a \in 1..Len(S.umem) : S.umem[a] \in Hidden(S.list)
  /\ \A u \in Hidden(S.list) : \/ \E a \in 1..Len(S.umem) : S.umem[a] = u
                               \/ /\ \E a \in 1..Len(S.instl) : S.instl[a] = S.list[u].home
                                  /\ Newest(S.list, S.list[u].home)

\* What the access log, and at the crash the core dump, gave at once.
Given(l) ==
  \A h \in Insts(l) :
    /\ Honest /\ setup.memac /\ l[h].index # 0 /\ l[h].inst.op \in {"ldr", "str"}
         => l[h + 1].ak /\ l[h + 2].ak /\ l[h + 2].addr # 0
    /\ l[h].index = 0 /\ l[h].inst.op = "ldr" => l[h + 1].ak
    /\ l[h].index = 0 /\ l[h].inst.op = "str" =>
         \A k \in Ops(l) : l[k].home = h /\ l[k].sort = "reg" => l[k].ak

\* An address is known from the log, which tells the value too, or from its registers.
Addressed(l) ==
  \A h \in Insts(l) : l[h].inst.op \in {"ldr", "str"} /\ l[h + 2].addr # 0 =>
     l[h + 2].ak \/ AddressKnown(l, h + 2, l[h].inst)

\* The invariant of the list, and of the engine's state.
ListInv(l) == Nodes(l) /\ Shaped(l) /\ Chained(l) /\ Sound(l) /\ Given(l) /\ Addressed(l)

Inv(S) ==
  /\ S = [list |-> S.list, usel |-> S.usel, defl |-> S.defl, instl |-> S.instl, umem |-> S.umem,
          bad |-> S.bad]
  /\ ListInv(S.list) /\ Queues(S) /\ Unknowns(S)

\* What never changes of a node.
SameStatic(n, m) ==
  /\ m.kind = n.kind /\ m.sort = n.sort /\ m.r = n.r /\ m.elem = n.elem /\ m.home = n.home
  /\ m.tb = n.tb /\ m.ta = n.ta /\ m.taddr = n.taddr

\* Knowledge only grows.
NodeMore(n, m) ==
  /\ n.ak => m.ak /\ m.av = n.av
  /\ n.bk => m.bk /\ (Honest => m.bv = n.bv)
  /\ Honest /\ n.addr # 0 => m.addr = n.addr

More(l, m) ==
  /\ m \in Seq(OpNode \cup InstRec) /\ Len(m) = Len(l)
  /\ \A j \in 1..Len(l) :
       IF l[j].kind = "inst" THEN m[j] = l[j]
       ELSE m[j] \in OpNode /\ SameStatic(l[j], m[j]) /\ NodeMore(l[j], m[j])

-----------------------------------------------------------------------------
(* Nodes. *)

\* An operand is a node whose instruction comes before it.
LEMMA NodeIs ==
  ASSUME NEW l, Nodes(l), NEW j \in Ops(l)
  PROVE  /\ l[j] \in OpNode /\ j \in 1..Len(l) /\ j \in Nat \ {0} /\ Len(l) \in Nat
         /\ l[j].home \in Insts(l) /\ l[j].home < j /\ l[j].home \in Nat \ {0}
         /\ l[l[j].home] \in InstRec
<1>1. l \in Seq(OpNode \cup InstRec) /\ Len(l) \in Nat
  BY DEF Nodes
<1>2. \A h \in Insts(l) : l[h] \in InstRec
  BY <1>1 DEF Insts, OpNode
<1>3. l[j] \in OpNode
  BY <1>1 DEF Ops, InstRec
<1>4. l[j].home \in Insts(l) /\ l[j].home < j
  BY DEF Nodes
<1> QED
  BY <1>1, <1>2, <1>3, <1>4 DEF Ops, Insts

\* An instruction node.
LEMMA InstIs ==
  ASSUME NEW l, Nodes(l), NEW h \in Insts(l)
  PROVE  /\ l[h] \in InstRec /\ h \in 1..Len(l) /\ h \in Nat \ {0} /\ Len(l) \in Nat
         /\ l[h].inst \in Instruction /\ l[h].index \in Nat
<1>1. l \in Seq(OpNode \cup InstRec) /\ Len(l) \in Nat
  BY DEF Nodes
<1>2. l[h] \in InstRec
  BY <1>1 DEF Insts, OpNode
<1> QED
  BY <1>1, <1>2 DEF Insts, InstRec

\* The types of a node's fields.
LEMMA FieldsAre ==
  ASSUME NEW n \in OpNode
  PROVE  /\ n.kind \in {"use", "def"} /\ n.sort \in {"reg", "mem", "imm"} /\ n.r \in Reg
         /\ n.elem \in {"Opd", "Base", "Index"} /\ n.home \in Nat
         /\ n.addr \in Val /\ n.bv \in Val /\ n.av \in Val /\ n.tb \in Val /\ n.ta \in Val
         /\ n.taddr \in Val /\ n.ak \in BOOLEAN /\ n.bk \in BOOLEAN
  BY DEF OpNode

\* KnowAfter changes only what is known of the value after the node.
LEMMA KnowAfterIs ==
  ASSUME NEW n \in OpNode, NEW v \in Val
  PROVE  LET x == KnowAfter(n, v) IN
         /\ x \in OpNode /\ SameStatic(n, x)
         /\ x.ak /\ x.av = v /\ x.bk = n.bk /\ x.bv = n.bv /\ x.addr = n.addr
  BY DEF OpNode, KnowAfter, SameStatic

\* KnowBefore changes only what is known of the value before the node.
LEMMA KnowBeforeIs ==
  ASSUME NEW n \in OpNode, NEW v \in Val
  PROVE  LET x == KnowBefore(n, v) IN
         /\ x \in OpNode /\ SameStatic(n, x)
         /\ x.bk /\ x.bv = v /\ x.ak = n.ak /\ x.av = n.av /\ x.addr = n.addr
  BY DEF OpNode, KnowBefore, SameStatic

\* Setting the address changes nothing else.
LEMMA AddressedIs ==
  ASSUME NEW n \in OpNode, NEW a \in Val
  PROVE  LET x == [n EXCEPT !.addr = a] IN
         /\ x \in OpNode /\ SameStatic(n, x)
         /\ x.bk = n.bk /\ x.bv = n.bv /\ x.ak = n.ak /\ x.av = n.av /\ x.addr = a
  BY DEF OpNode, SameStatic

\* A list that only knows more has the same nodes.
LEMMA MoreNodes ==
  ASSUME NEW l, Nodes(l), NEW m, More(l, m)
  PROVE  /\ Nodes(m) /\ Ops(m) = Ops(l) /\ Insts(m) = Insts(l)
         /\ \A j \in Ops(l) : /\ m[j] \in OpNode /\ SameStatic(l[j], m[j]) /\ NodeMore(l[j], m[j])
                              /\ Done(m, j) <=> Done(l, j)
         /\ \A h \in Insts(l) : m[h] = l[h]
<1>1. /\ Len(m) = Len(l) /\ m \in Seq(OpNode \cup InstRec) /\ Len(l) \in Nat
      /\ \A h \in Insts(l) : m[h] = l[h]
  BY DEF More, Insts, Nodes
<1>2. \A j \in Ops(l) : m[j] \in OpNode /\ SameStatic(l[j], m[j]) /\ NodeMore(l[j], m[j])
  BY DEF More, Ops
<1>3. Ops(m) = Ops(l)
  BY <1>1, <1>2 DEF Ops, Insts, SameStatic, More
<1>4. Insts(m) = Insts(l)
  BY <1>1, <1>2, <1>3 DEF Ops, Insts
<1>5. \A j \in Ops(l) : m[j].home = l[j].home /\ l[j].home \in Insts(l) /\ l[j].home < j
  BY <1>2 DEF SameStatic, Nodes
<1>6. Nodes(m)
  BY <1>1, <1>3, <1>4, <1>5 DEF Nodes
<1>7. \A j \in Ops(l) : Done(m, j) <=> Done(l, j)
  BY <1>1, <1>5 DEF Done
<1> QED
  BY <1>1, <1>2, <1>3, <1>4, <1>6, <1>7

\* How many operands an instruction has.
LEMMA SizeIs ==
  ASSUME NEW i \in Instruction
  PROVE  /\ Size(i) \in 2..4
         /\ i.op = "mov" => Size(i) = 2
         /\ i.op \in Arithmetic => Size(i) = 3
         /\ i.op \in {"ldr", "str"} => /\ i.c = "imm" => Size(i) = 3
                                       /\ i.c # "imm" => Size(i) = 4
  BY DEF Instruction, Size, Arithmetic

\* The parts of an instruction.
LEMMA BlockIs ==
  ASSUME NEW l, Nodes(l), Shaped(l), NEW h \in Insts(l)
  PROVE  /\ BlockAt(l, h) /\ l[h].inst \in Instruction /\ h \in Nat
         /\ \A k \in 1..Size(l[h].inst) :
              h + k \in Ops(l) /\ l[h + k].home = h /\ l[h + k] \in OpNode
         /\ \A j \in Ops(l) : l[j].home = h => \E k \in 1..Size(l[h].inst) : j = h + k
<1>1. BlockAt(l, h)
  BY DEF Shaped
<1>2. l[h].inst \in Instruction /\ h \in Nat
  BY InstIs
<1>3. Size(l[h].inst) \in 2..4
  BY <1>2, SizeIs
<1>4. ASSUME NEW k \in 1..Size(l[h].inst)
      PROVE  h + k \in Ops(l) /\ l[h + k].home = h /\ l[h + k] \in OpNode
  <2>1. h + k \in (h + 1)..(h + Size(l[h].inst))
    BY <1>2, <1>3
  <2>2. h + k \in Ops(l) /\ l[h + k].home = h
    BY <1>1, <2>1 DEF BlockAt
  <2> QED
    BY <2>2, NodeIs
<1>5. ASSUME NEW j \in Ops(l), l[j].home = h
      PROVE  \E k \in 1..Size(l[h].inst) : j = h + k
  <2>1. j \in Nat /\ h < j
    BY <1>5, NodeIs
  <2>2. j <= h + Size(l[h].inst)
    BY <1>5 DEF Shaped
  <2>3. j - h \in 1..Size(l[h].inst) /\ j = h + (j - h)
    BY <1>2, <1>3, <2>1, <2>2
  <2> QED
    BY <2>3
<1> QED
  BY <1>1, <1>2, <1>4, <1>5

\* Learning keeps the shape of the list.
LEMMA MoreShaped ==
  ASSUME NEW l, Nodes(l), Shaped(l), NEW m, More(l, m)
  PROVE  Shaped(m)
<1>1. /\ Nodes(m) /\ Ops(m) = Ops(l) /\ Insts(m) = Insts(l) /\ Len(m) = Len(l)
      /\ \A j \in Ops(l) : SameStatic(l[j], m[j])
      /\ \A h \in Insts(l) : m[h] = l[h]
  BY MoreNodes DEF More
<1>2. ASSUME NEW h \in Insts(l) PROVE BlockAt(m, h)
  <2> DEFINE i == l[h].inst
  <2>1. /\ BlockAt(l, h) /\ i \in Instruction /\ h \in Nat /\ m[h] = l[h]
        /\ \A k \in 1..Size(i) : h + k \in Ops(l) /\ l[h + k].home = h
    BY <1>1, BlockIs
  <2>2. /\ Size(i) \in 2..4 /\ (i.op = "mov" => Size(i) = 2)
        /\ (i.op \in Arithmetic => Size(i) = 3)
        /\ (i.op \in {"ldr", "str"} => /\ i.c = "imm" => Size(i) = 3
                                       /\ i.c # "imm" => Size(i) = 4)
    BY <2>1, SizeIs
  <2>3. \A k \in 1..Size(i) : SameStatic(l[h + k], m[h + k])
    BY <1>1, <2>1
  <2>4. SameStatic(l[h + 1], m[h + 1]) /\ SameStatic(l[h + 2], m[h + 2])
    BY <2>2, <2>3
  <2>5. /\ h + Size(i) <= Len(m)
        /\ \A j \in (h + 1)..(h + Size(i)) : j \in Ops(m) /\ m[j].home = h
        /\ i \in Code
    <3>1. ASSUME NEW j \in (h + 1)..(h + Size(i)) PROVE j \in Ops(m) /\ m[j].home = h
      <4>1. j \in Ops(l) /\ l[j].home = h
        BY <2>1 DEF BlockAt
      <4> QED
        BY <4>1, <1>1 DEF SameStatic
    <3> QED
      BY <3>1, <2>1, <1>1 DEF BlockAt
  <2>6. i.op \in {"ldr", "str"} /\ AddrAt(l, h) => AddrAt(m, h)
    <3> SUFFICES ASSUME i.op \in {"ldr", "str"}, AddrAt(l, h) PROVE AddrAt(m, h)
      OBVIOUS
    <3>1. SameStatic(l[h + 3], m[h + 3]) /\ (i.c # "imm" => SameStatic(l[h + 4], m[h + 4]))
      BY <2>2, <2>3
    <3> QED
      BY <2>1, <2>4, <3>1 DEF AddrAt, RegNode, SameStatic
  <2>7. CASE i.op = "mov"
    <3>1. MovAt(l, h)
      BY <2>1, <2>7 DEF BlockAt, Arithmetic
    <3>2. MovAt(m, h)
      BY <3>1, <2>1, <2>4 DEF MovAt, RegNode, SameStatic
    <3> QED
      BY <2>5, <2>7, <2>1, <3>2 DEF BlockAt, Arithmetic
  <2>8. CASE i.op \in Arithmetic
    <3>1. ArithAt(l, h)
      BY <2>1, <2>8 DEF BlockAt, Arithmetic
    <3>2. SameStatic(l[h + 3], m[h + 3])
      BY <2>2, <2>3, <2>8
    <3>3. ArithAt(m, h)
      BY <3>1, <3>2, <2>1, <2>4 DEF ArithAt, RegNode, SameStatic
    <3> QED
      BY <2>5, <2>8, <2>1, <3>3 DEF BlockAt, Arithmetic
  <2>9. CASE i.op = "ldr"
    <3>1. LoadAt(l, h)
      BY <2>1, <2>9 DEF BlockAt, Arithmetic
    <3>2. LoadAt(m, h)
      BY <3>1, <2>1, <2>4, <2>6, <2>9 DEF LoadAt, RegNode, SameStatic
    <3> QED
      BY <2>5, <2>9, <2>1, <3>2 DEF BlockAt, Arithmetic
  <2>10. CASE i.op = "str"
    <3>1. StoreAt(l, h)
      BY <2>1, <2>10 DEF BlockAt, Arithmetic
    <3>2. StoreAt(m, h)
      BY <3>1, <2>1, <2>4, <2>6, <2>10 DEF StoreAt, RegNode, SameStatic
    <3> QED
      BY <2>5, <2>10, <2>1, <3>2 DEF BlockAt, Arithmetic
  <2> QED
    BY <2>1, <2>7, <2>8, <2>9, <2>10 DEF Instruction, Arithmetic
<1>3. \A j \in Ops(m) : j <= m[j].home + Size(m[m[j].home].inst)
  <2> TAKE j \in Ops(m)
  <2>1. j \in Ops(l) /\ m[j].home = l[j].home /\ l[j].home \in Insts(l)
    BY <1>1, NodeIs DEF SameStatic
  <2> QED
    BY <2>1, <1>1 DEF Shaped
<1>4. \A h \in Insts(m) : m[h].index = 0 <=> h = 1
  BY <1>1 DEF Shaped
<1>5. m # <<>> => m[1].kind = "inst"
  <2>1. m # <<>> => 1 \in Insts(l)
    BY <1>1 DEF Shaped, Nodes, Insts
  <2> QED
    BY <2>1, <1>1 DEF Insts
<1> QED
  BY <1>1, <1>2, <1>3, <1>4, <1>5 DEF Shaped

\* Learning keeps the chain of the execution's values, which it does not touch.
LEMMA MoreChained ==
  ASSUME NEW l, Nodes(l), Chained(l), NEW m, More(l, m)
  PROVE  Chained(m)
<1>1. /\ Ops(m) = Ops(l)
      /\ \A j \in Ops(l) : /\ m[j].kind = l[j].kind /\ m[j].sort = l[j].sort /\ m[j].r = l[j].r
                           /\ m[j].taddr = l[j].taddr /\ m[j].ta = l[j].ta /\ m[j].tb = l[j].tb
  BY MoreNodes DEF SameStatic
<1>2. ASSUME NEW j \in Ops(l)
      PROVE  /\ (Located(m[j]) <=> Located(l[j])) /\ At(core, m[j]) = At(core, l[j])
             /\ Earlier(m[j]) = Earlier(l[j])
             /\ \A i \in Ops(l) : SameLoc(m[i], m[j]) <=> SameLoc(l[i], l[j])
             /\ \A I \in SUBSET Ops(l) : NoDef(m, m[j], I) <=> NoDef(l, l[j], I)
  <2>1. \A i \in Ops(l) : SameLoc(m[i], m[j]) <=> SameLoc(l[i], l[j])
    BY <1>1 DEF SameLoc
  <2> QED
    BY <1>1, <2>1 DEF Located, At, Earlier, NoDef
<1>3. ASSUME NEW j \in Ops(l), Located(m[j])
      PROVE  /\ NoDef(m, m[j], {k \in Ops(m) : k < j}) => m[j].ta = At(core, m[j])
             /\ \A i \in Ops(m) : (/\ i < j /\ SameLoc(m[i], m[j])
                                  /\ NoDef(m, m[j], {k \in Ops(m) : i < k /\ k < j}))
                                    => Earlier(m[i]) = m[j].ta
  <2>1. /\ NoDef(l, l[j], {k \in Ops(l) : k < j}) => l[j].ta = At(core, l[j])
        /\ \A i \in Ops(l) : (/\ i < j /\ SameLoc(l[i], l[j])
                              /\ NoDef(l, l[j], {k \in Ops(l) : i < k /\ k < j}))
                               => Earlier(l[i]) = l[j].ta
    BY <1>2, <1>3 DEF Chained
  <2>2. NoDef(m, m[j], {k \in Ops(m) : k < j}) <=> NoDef(l, l[j], {k \in Ops(l) : k < j})
    <3>1. {k \in Ops(l) : k < j} \in SUBSET Ops(l)
      OBVIOUS
    <3> QED
      BY <1>1, <1>2, <3>1
  <2>3. \A i \in Ops(l) : NoDef(m, m[j], {k \in Ops(m) : i < k /\ k < j})
                            <=> NoDef(l, l[j], {k \in Ops(l) : i < k /\ k < j})
    <3> TAKE i \in Ops(l)
    <3>1. {k \in Ops(l) : i < k /\ k < j} \in SUBSET Ops(l)
      OBVIOUS
    <3> QED
      BY <1>1, <1>2, <3>1
  <2>4. \A i \in Ops(l) : (SameLoc(m[i], m[j]) <=> SameLoc(l[i], l[j])) /\ Earlier(m[i]) = Earlier(l[i])
    BY <1>2
  <2>5. m[j].ta = l[j].ta /\ At(core, m[j]) = At(core, l[j]) /\ Ops(m) = Ops(l)
    BY <1>1, <1>2
  <2> QED
    BY <2>1, <2>2, <2>3, <2>4, <2>5
<1> QED
  BY <1>1, <1>3 DEF Chained

\* Learning takes away nothing that was given.
LEMMA MoreGiven ==
  ASSUME NEW l, Nodes(l), Shaped(l), Given(l), NEW m, More(l, m)
  PROVE  Given(m)
<1>1. /\ Ops(m) = Ops(l) /\ Insts(m) = Insts(l)
      /\ \A j \in Ops(l) : SameStatic(l[j], m[j]) /\ NodeMore(l[j], m[j])
      /\ \A h \in Insts(l) : m[h] = l[h]
  BY MoreNodes
<1>2. ASSUME NEW h \in Insts(l)
      PROVE  h + 1 \in Ops(l) /\ h + 2 \in Ops(l)
  <2>1. l[h].inst \in Instruction /\ Size(l[h].inst) \in 2..4
    BY BlockIs, SizeIs
  <2> QED
    BY <2>1, BlockIs
<1>3. ASSUME NEW h \in Insts(l)
      PROVE  /\ Honest /\ setup.memac /\ m[h].index # 0 /\ m[h].inst.op \in {"ldr", "str"}
                  => m[h + 1].ak /\ m[h + 2].ak /\ m[h + 2].addr # 0
             /\ m[h].index = 0 /\ m[h].inst.op = "ldr" => m[h + 1].ak
  BY <1>1, <1>2 DEF Given, NodeMore
<1>4. ASSUME NEW h \in Insts(l), m[h].index = 0, m[h].inst.op = "str",
             NEW k \in Ops(m), m[k].home = h, m[k].sort = "reg"
      PROVE  m[k].ak
  <2>1. l[k].home = h /\ l[k].sort = "reg" /\ (l[k].ak => m[k].ak) /\ m[h] = l[h]
    BY <1>1, <1>4 DEF SameStatic, NodeMore
  <2>2. l[k].ak
    BY <2>1, <1>1, <1>4 DEF Given
  <2> QED
    BY <2>1, <2>2
<1> QED
  BY <1>1, <1>3, <1>4 DEF Given

\* An address that can be computed stays so.
LEMMA MoreKnown ==
  ASSUME NEW l, Nodes(l), Shaped(l), NEW m, More(l, m), NEW h \in Insts(l),
         l[h].inst.op \in {"ldr", "str"}
  PROVE  /\ h + 2 \in Ops(l) /\ NodeMore(l[h + 2], m[h + 2])
         /\ AddressKnown(l, h + 2, l[h].inst) => AddressKnown(m, h + 2, l[h].inst)
<1> DEFINE i == l[h].inst
<1>1. /\ i \in Instruction /\ h \in Nat
      /\ \A k \in 1..Size(i) : h + k \in Ops(l)
  BY BlockIs
<1>2. /\ i.c = "imm" => Size(i) = 3
      /\ i.c # "imm" => Size(i) = 4
  BY <1>1, SizeIs
<1>3. h + 2 \in Ops(l) /\ h + 3 \in Ops(l) /\ (i.c # "imm" => h + 4 \in Ops(l))
  BY <1>1, <1>2
<1>4. \A j \in Ops(l) : NodeMore(l[j], m[j])
  BY MoreNodes
<1>5. (h + 2) + 1 = h + 3 /\ (h + 2) + 2 = h + 4
  BY <1>1
<1>6. NodeMore(l[h + 3], m[h + 3]) /\ (i.c # "imm" => NodeMore(l[h + 4], m[h + 4]))
  BY <1>3, <1>4
<1>7. (l[h + 3].ak => m[h + 3].ak) /\ (i.c # "imm" => (l[h + 4].ak => m[h + 4].ak))
  BY <1>6 DEF NodeMore
<1> QED
  BY <1>3, <1>4, <1>5, <1>7 DEF AddressKnown

\* Addresses keep their reason, unless one was found that its registers do not tell.
LEMMA MoreAddressed ==
  ASSUME NEW l, Nodes(l), Shaped(l), Addressed(l), NEW m, More(l, m),
         \A h \in Insts(l) : \/ m[h + 2].addr = l[h + 2].addr
                           \/ AddressKnown(l, h + 2, l[h].inst)
  PROVE  Addressed(m)
<1>1. Insts(m) = Insts(l) /\ \A h \in Insts(l) : m[h] = l[h]
  BY MoreNodes
<1>2. ASSUME NEW h \in Insts(l), l[h].inst.op \in {"ldr", "str"}, m[h + 2].addr # 0
      PROVE  m[h + 2].ak \/ AddressKnown(m, h + 2, l[h].inst)
  <2>1. /\ l[h + 2].ak => m[h + 2].ak
        /\ AddressKnown(l, h + 2, l[h].inst) => AddressKnown(m, h + 2, l[h].inst)
    BY <1>2, MoreKnown DEF NodeMore
  <2>2. l[h + 2].ak \/ AddressKnown(l, h + 2, l[h].inst)
    BY <1>2 DEF Addressed
  <2> QED
    BY <2>1, <2>2
<1> QED
  BY <1>1, <1>2 DEF Addressed

\* One node that knows more, and knows right, keeps the list's invariant.
LEMMA PutList ==
  ASSUME NEW l, ListInv(l), NEW e \in Ops(l), NEW x \in OpNode,
         SameStatic(l[e], x), NodeMore(l[e], x), Right(x, Done(l, e)),
         x.addr = l[e].addr \/ (e = l[e].home + 2 /\ AddressKnown(l, e, l[l[e].home].inst))
  PROVE  LET m == [l EXCEPT ![e] = x] IN
         /\ ListInv(m) /\ More(l, m) /\ m[e] = x /\ \A j \in 1..Len(l) : j # e => m[j] = l[j]
<1> DEFINE m == [l EXCEPT ![e] = x]
<1>1. Nodes(l) /\ Shaped(l) /\ Chained(l) /\ Sound(l) /\ Given(l) /\ Addressed(l)
  BY DEF ListInv
<1>2. l \in Seq(OpNode \cup InstRec) /\ e \in 1..Len(l) /\ x \in OpNode \cup InstRec
  BY <1>1 DEF Nodes, Ops
<1>3. /\ m \in Seq(OpNode \cup InstRec) /\ Len(m) = Len(l) /\ m[e] = x
      /\ \A j \in 1..Len(l) : j # e => m[j] = l[j]
  BY <1>2, PutIs
<1> HIDE DEF m
<1>4. \A j \in Ops(l) : l[j] \in OpNode /\ SameStatic(l[j], l[j]) /\ NodeMore(l[j], l[j])
  BY <1>1, NodeIs DEF SameStatic, NodeMore
<1>5. \A j \in 1..Len(l) : l[j].kind # "inst" => j \in Ops(l)
  BY DEF Ops
<1>6. \A j \in 1..Len(l) : IF l[j].kind = "inst" THEN m[j] = l[j]
                            ELSE m[j] \in OpNode /\ SameStatic(l[j], m[j]) /\ NodeMore(l[j], m[j])
  BY <1>3, <1>4, <1>5 DEF Ops
<1>7. More(l, m)
  BY <1>3, <1>6 DEF More
<1>8. /\ Nodes(m) /\ Ops(m) = Ops(l)
      /\ \A j \in Ops(l) : Done(m, j) <=> Done(l, j)
  BY <1>1, <1>7, MoreNodes
<1>9. \A j \in Ops(l) : Right(m[j], Done(m, j))
  <2> TAKE j \in Ops(l)
  <2>1. j \in 1..Len(l) /\ Right(l[j], Done(l, j))
    BY <1>1 DEF Ops, Sound
  <2>2. Done(m, j) = Done(l, j)
    BY <1>8 DEF Done
  <2> QED
    BY <2>1, <2>2, <1>3
<1>10. Addressed(m)
  <2>1. ASSUME NEW h \in Insts(l)
        PROVE  \/ m[h + 2].addr = l[h + 2].addr
               \/ AddressKnown(l, h + 2, l[h].inst)
    <3>1. h \in Nat /\ Size(l[h].inst) \in 2..4
      BY <1>1, BlockIs, SizeIs
    <3>2. h + 2 \in 1..Len(l) /\ l[h + 2].home = h
      BY <3>1, <1>1, BlockIs DEF Ops
    <3>3. CASE h + 2 = e
      BY <3>2, <3>3, <1>3
    <3>4. CASE h + 2 # e
      BY <3>2, <3>4, <1>3
    <3> QED
      BY <3>3, <3>4
  <2> QED
    BY <2>1, <1>1, <1>7, MoreAddressed
<1>11. ListInv(m)
  BY <1>1, <1>7, <1>8, <1>9, <1>10, MoreShaped, MoreChained, MoreGiven DEF ListInv, Sound
<1> QED
  BY <1>3, <1>7, <1>11 DEF m

\* Learning is transitive.
LEMMA MoreTwice ==
  ASSUME NEW l, NEW m, NEW o, Nodes(l), More(l, m), More(m, o)
  PROVE  More(l, o)
<1>1. /\ Ops(m) = Ops(l) /\ Insts(m) = Insts(l) /\ Nodes(m)
      /\ \A j \in Ops(l) : m[j] \in OpNode /\ SameStatic(l[j], m[j]) /\ NodeMore(l[j], m[j])
      /\ \A h \in Insts(l) : m[h] = l[h]
  BY MoreNodes
<1>2. /\ \A j \in Ops(l) : o[j] \in OpNode /\ SameStatic(m[j], o[j]) /\ NodeMore(m[j], o[j])
      /\ \A h \in Insts(l) : o[h] = m[h]
  BY <1>1, MoreNodes
<1>3. o \in Seq(OpNode \cup InstRec) /\ Len(o) = Len(l)
  BY DEF More
<1>4. \A j \in Ops(l) : SameStatic(l[j], o[j]) /\ NodeMore(l[j], o[j])
  <2> TAKE j \in Ops(l)
  <2>1. SameStatic(l[j], m[j]) /\ SameStatic(m[j], o[j]) /\ NodeMore(l[j], m[j]) /\ NodeMore(m[j], o[j])
    BY <1>1, <1>2
  <2>2. SameStatic(l[j], o[j])
    BY <2>1 DEF SameStatic
  <2>3. NodeMore(l[j], o[j])
    BY <2>1 DEF NodeMore
  <2> QED
    BY <2>2, <2>3
<1>5. \A j \in 1..Len(l) : IF l[j].kind = "inst" THEN o[j] = l[j]
                            ELSE o[j] \in OpNode /\ SameStatic(l[j], o[j]) /\ NodeMore(l[j], o[j])
  BY <1>1, <1>2, <1>4 DEF Ops, Insts
<1> QED
  BY <1>3, <1>5 DEF More

-----------------------------------------------------------------------------
(* Propagation. *)

\* A state of the engine is a record of these fields.
Structure(S) ==
  S = [list |-> S.list, usel |-> S.usel, defl |-> S.defl, instl |-> S.instl, umem |-> S.umem,
       bad |-> S.bad]

State(a, b, c, d, f, g) ==
  [list |-> a, usel |-> b, defl |-> c, instl |-> d, umem |-> f, bad |-> g]

\* The fields of a state that is put together.
LEMMA StateIs ==
  ASSUME NEW a, NEW b, NEW c, NEW d, NEW f, NEW g
  PROVE  LET T == State(a, b, c, d, f, g) IN
         /\ Structure(T) /\ T.list = a /\ T.usel = b /\ T.defl = c /\ T.instl = d /\ T.umem = f
         /\ T.bad = g
  BY DEF State, Structure

\* Changing one field of a state.
LEMMA SetIs ==
  ASSUME NEW S, Structure(S), NEW v
  PROVE  /\ [S EXCEPT !.list = v] = State(v, S.usel, S.defl, S.instl, S.umem, S.bad)
         /\ [S EXCEPT !.usel = v] = State(S.list, v, S.defl, S.instl, S.umem, S.bad)
         /\ [S EXCEPT !.defl = v] = State(S.list, S.usel, v, S.instl, S.umem, S.bad)
         /\ [S EXCEPT !.instl = v] = State(S.list, S.usel, S.defl, v, S.umem, S.bad)
         /\ [S EXCEPT !.umem = v] = State(S.list, S.usel, S.defl, S.instl, v, S.bad)
         /\ [S EXCEPT !.bad = v] = State(S.list, S.usel, S.defl, S.instl, S.umem, v)
<1>1. PICK R : R = State(S.list, S.usel, S.defl, S.instl, S.umem, S.bad)
  OBVIOUS
<1>2. S = R
  BY <1>1 DEF Structure, State
<1> QED
  BY <1>1, <1>2 DEF State

\* Changing the list and another field.
LEMMA SetTwo ==
  ASSUME NEW S, Structure(S), NEW v, NEW w
  PROVE  /\ [S EXCEPT !.list = v, !.usel = w] = State(v, w, S.defl, S.instl, S.umem, S.bad)
         /\ [S EXCEPT !.list = v, !.defl = w] = State(v, S.usel, w, S.instl, S.umem, S.bad)
         /\ [S EXCEPT !.list = v, !.umem = w] = State(v, S.usel, S.defl, S.instl, w, S.bad)
         /\ [S EXCEPT !.list = v, !.bad = w] = State(v, S.usel, S.defl, S.instl, S.umem, w)
<1>1. PICK R : R = [S EXCEPT !.list = v]
  OBVIOUS
<1>2. R = State(v, S.usel, S.defl, S.instl, S.umem, S.bad)
  BY <1>1, SetIs
<1>3. /\ Structure(R) /\ R.list = v /\ R.usel = S.usel /\ R.defl = S.defl /\ R.instl = S.instl
      /\ R.umem = S.umem /\ R.bad = S.bad
  BY <1>2, StateIs
<1>4. /\ [R EXCEPT !.usel = w] = State(R.list, w, R.defl, R.instl, R.umem, R.bad)
      /\ [R EXCEPT !.defl = w] = State(R.list, R.usel, w, R.instl, R.umem, R.bad)
      /\ [R EXCEPT !.umem = w] = State(R.list, R.usel, R.defl, R.instl, w, R.bad)
      /\ [R EXCEPT !.bad = w] = State(R.list, R.usel, R.defl, R.instl, R.umem, w)
  BY <1>3, SetIs, Zenon
<1>5. /\ [R EXCEPT !.usel = w] = State(v, w, S.defl, S.instl, S.umem, S.bad)
      /\ [R EXCEPT !.defl = w] = State(v, S.usel, w, S.instl, S.umem, S.bad)
      /\ [R EXCEPT !.umem = w] = State(v, S.usel, S.defl, S.instl, w, S.bad)
      /\ [R EXCEPT !.bad = w] = State(v, S.usel, S.defl, S.instl, S.umem, w)
  BY <1>3, <1>4
<1> QED
  BY ONLY <1>1, <1>5, Zenon

\* What propagation does to the state, at most.
Grew(S, T) ==
  /\ More(S.list, T.list)
  /\ \A j \in Ops(S.list) : T.list[j].addr = S.list[j].addr
  /\ T.instl = S.instl /\ T.umem = S.umem /\ T.bad = S.bad
  /\ Len(S.usel) <= Len(T.usel) /\ Len(S.defl) <= Len(T.defl)

\* What may be queued stays so.
LEMMA MoreReady ==
  ASSUME NEW l, Nodes(l), NEW m, More(l, m)
  PROVE  UseReady(l) \subseteq UseReady(m) /\ DefReady(l) \subseteq DefReady(m)
<1>1. Ops(m) = Ops(l) /\ \A j \in Ops(l) : SameStatic(l[j], m[j]) /\ NodeMore(l[j], m[j])
  BY MoreNodes
<1> QED
  BY <1>1 DEF UseReady, DefReady, SameStatic, NodeMore

\* If no address changes, the same writes are hidden.
LEMMA SameHidden ==
  ASSUME NEW l, Nodes(l), NEW m, More(l, m), \A j \in Ops(l) : m[j].addr = l[j].addr
  PROVE  Hidden(m) = Hidden(l)
<1>1. /\ Ops(m) = Ops(l) /\ \A j \in Ops(l) : SameStatic(l[j], m[j]) /\ (Done(m, j) <=> Done(l, j))
  BY MoreNodes
<1> QED
  BY <1>1 DEF Hidden, SameStatic

\* Learning values, and queueing those learnt, keeps the invariant.
LEMMA FlowInv ==
  ASSUME NEW S, Inv(S), NEW T, Structure(T), Grew(S, T), ListInv(T.list),
         T.usel \in Seq(UseReady(T.list)), T.defl \in Seq(DefReady(T.list))
  PROVE  Inv(T)
<1>1. Nodes(S.list) /\ Queues(S) /\ Unknowns(S)
  BY DEF Inv, ListInv
<1>2. /\ Ops(T.list) = Ops(S.list) /\ Insts(T.list) = Insts(S.list)
      /\ \A j \in Ops(S.list) : T.list[j].home = S.list[j].home
  BY <1>1, MoreNodes DEF Grew, SameStatic
<1>3. Hidden(T.list) = Hidden(S.list)
  BY <1>1, SameHidden DEF Grew
<1>4. Queues(T)
  BY <1>1, <1>2 DEF Queues, Grew
<1>5. Unknowns(T)
  <2>1. Hidden(S.list) \subseteq Ops(S.list)
    BY DEF Hidden
  <2>2. \A u \in Ops(S.list) : Newest(T.list, T.list[u].home) <=> Newest(S.list, S.list[u].home)
    BY <1>2 DEF Newest
  <2>3. T.instl = S.instl /\ T.umem = S.umem
    BY DEF Grew
  <2> QED
    BY <1>1, <1>2, <1>3, <2>1, <2>2, <2>3 DEF Unknowns
<1> QED
  BY <1>4, <1>5 DEF Inv, Structure

\* Nothing done is a growth.
LEMMA GrewSelf ==
  ASSUME NEW S, Inv(S)
  PROVE  Grew(S, S)
<1>1. Nodes(S.list) /\ S.list \in Seq(OpNode \cup InstRec)
  BY DEF Inv, ListInv, Nodes
<1>2. \A j \in Ops(S.list) : S.list[j] \in OpNode
  BY <1>1, NodeIs
<1>3. More(S.list, S.list)
  BY <1>1, <1>2 DEF More, Ops, SameStatic, NodeMore
<1>4. Len(S.usel) \in Nat /\ Len(S.defl) \in Nat
  BY DEF Inv, Queues
<1> QED
  BY <1>3, <1>4 DEF Grew

\* Growth is transitive.
LEMMA GrewTwice ==
  ASSUME NEW S, NEW T, NEW U, Inv(S), Inv(T), Inv(U), Grew(S, T), Grew(T, U)
  PROVE  Grew(S, U)
<1>1. Nodes(S.list)
  BY DEF Inv, ListInv
<1>2. More(S.list, U.list)
  BY <1>1, MoreTwice DEF Grew
<1>3. Ops(T.list) = Ops(S.list)
  BY <1>1, MoreNodes DEF Grew
<1>4. /\ Len(S.usel) \in Nat /\ Len(S.defl) \in Nat /\ Len(T.usel) \in Nat /\ Len(T.defl) \in Nat
      /\ Len(U.usel) \in Nat /\ Len(U.defl) \in Nat
  BY DEF Inv, Queues
<1>5. Len(S.usel) <= Len(U.usel) /\ Len(S.defl) <= Len(U.defl)
  BY <1>4 DEF Grew
<1> QED
  BY <1>2, <1>3, <1>5 DEF Grew

\* A value that propagation writes into a node.
LEMMA AfterFlow ==
  ASSUME NEW S, Inv(S), NEW e \in Ops(S.list), NEW v, AfterRight(S.list[e], v)
  PROVE  /\ Inv(After(S, e, v)) /\ Grew(S, After(S, e, v))
         /\ After(S, e, v).list[e].ak
<1> DEFINE l == S.list
           x == KnowAfter(l[e], v)
           m == [l EXCEPT ![e] = x]
<1>1. ListInv(l) /\ Nodes(l) /\ Sound(l) /\ Structure(S) /\ Queues(S)
  BY DEF Inv, ListInv, Structure
<1>2. l[e] \in OpNode /\ v \in Val /\ e \in 1..Len(l) /\ Right(l[e], Done(l, e))
  BY <1>1, NodeIs DEF AfterRight, Sound
<1>3. CASE l[e].ak
  <2>1. After(S, e, v) = S
    BY <1>3 DEF After
  <2> QED
    BY <2>1, <1>3, GrewSelf
<1>4. CASE ~l[e].ak
  <2>1. /\ x \in OpNode /\ SameStatic(l[e], x)
        /\ x.ak /\ x.av = v /\ x.bk = l[e].bk /\ x.bv = l[e].bv /\ x.addr = l[e].addr
    BY <1>2, KnowAfterIs
  <2> HIDE DEF x
  <2>2. NodeMore(l[e], x)
    BY <2>1, <1>4 DEF NodeMore
  <2>3. Right(x, Done(l, e))
    BY <2>1, <1>2, <1>4 DEF Right, AfterRight, Tracked, SameStatic
  <2>4. ListInv(m) /\ More(l, m) /\ m[e] = x /\ \A j \in 1..Len(l) : j # e => m[j] = l[j]
    BY <1>1, <2>1, <2>2, <2>3, PutList
  <2>5. Ops(m) = Ops(l) /\ UseReady(l) \subseteq UseReady(m) /\ DefReady(l) \subseteq DefReady(m)
    BY <1>1, <2>4, MoreReady, MoreNodes
  <2>6. S.usel \in Seq(UseReady(m)) /\ S.defl \in Seq(DefReady(m))
    <3>1. S.usel \in Seq(UseReady(l)) /\ S.defl \in Seq(DefReady(l))
      BY <1>1 DEF Queues
    <3> QED
      BY <2>5, <3>1, SeqWider
  <2>7. \A j \in Ops(l) : m[j].addr = l[j].addr
    BY <2>1, <2>4 DEF Ops
  <2> HIDE DEF m
  <2>8. CASE l[e].kind = "def"
    <3> DEFINE q == add_to_list(S.defl, e)
               T == State(m, S.usel, q, S.instl, S.umem, S.bad)
    <3>1. e \in DefReady(m)
      BY <2>1, <2>4, <2>5, <2>8 DEF DefReady, SameStatic
    <3>2. q \in Seq(DefReady(m)) /\ Len(S.defl) <= Len(q)
      BY <3>1, <2>6, AddIs
    <3> HIDE DEF q
    <3>3. /\ Structure(T) /\ T.list = m /\ T.defl = q /\ T.usel = S.usel /\ T.instl = S.instl
          /\ T.umem = S.umem /\ T.bad = S.bad
      BY StateIs
    <3>4. After(S, e, v) = T
      <4>1. After(S, e, v) = [S EXCEPT !.list = m, !.defl = q]
        BY <1>1, <1>4, <2>8 DEF After, Structure, m, x, q
      <4> QED
        BY <4>1, <1>1, SetTwo DEF T
    <3> HIDE DEF T
    <3>5. Grew(S, T)
      BY <3>2, <3>3, <2>4, <2>7, <2>6 DEF Grew
    <3>6. Inv(T)
      BY <3>2, <3>3, <3>5, <2>4, <2>6, FlowInv
    <3> QED
      BY <3>4, <3>5, <3>6, <3>3, <2>4, <2>1
  <2>9. CASE l[e].kind # "def"
    <3> DEFINE q == add_to_list(S.usel, e)
               T == State(m, q, S.defl, S.instl, S.umem, S.bad)
    <3>1. e \in UseReady(m)
      BY <2>1, <2>4, <2>5, <2>9, <1>2 DEF UseReady, SameStatic, OpNode
    <3>2. q \in Seq(UseReady(m)) /\ Len(S.usel) <= Len(q)
      BY <3>1, <2>6, AddIs
    <3> HIDE DEF q
    <3>3. /\ Structure(T) /\ T.list = m /\ T.usel = q /\ T.defl = S.defl /\ T.instl = S.instl
          /\ T.umem = S.umem /\ T.bad = S.bad
      BY StateIs
    <3>4. After(S, e, v) = T
      <4>1. After(S, e, v) = [S EXCEPT !.list = m, !.usel = q]
        BY <1>1, <1>4, <2>9 DEF After, Structure, m, x, q
      <4> QED
        BY <4>1, <1>1, SetTwo DEF T
    <3> HIDE DEF T
    <3>5. Grew(S, T)
      BY <3>2, <3>3, <2>4, <2>7, <2>6 DEF Grew
    <3>6. Inv(T)
      BY <3>2, <3>3, <3>5, <2>4, <2>6, FlowInv
    <3> QED
      BY <3>4, <3>5, <3>6, <3>3, <2>4, <2>1
  <2> QED
    BY <2>8, <2>9
<1> QED
  BY <1>3, <1>4

\* A right value before a definition may be filled in and queued.
LEMMA BeforeFlow ==
  ASSUME NEW S, Inv(S), NEW e \in Ops(S.list), S.list[e].kind = "def",
         NEW v, EarlierRight(S.list[e], v),
         Honest => Done(S.list, e) \/ S.list[e].sort # "mem"
  PROVE  Inv(Before(S, e, v)) /\ Grew(S, Before(S, e, v))
<1> DEFINE l == S.list
           x == KnowBefore(l[e], v)
           m == [l EXCEPT ![e] = x]
<1>1. ListInv(l) /\ Nodes(l) /\ Sound(l) /\ Structure(S) /\ Queues(S)
  BY DEF Inv, ListInv, Structure
<1>2. l[e] \in OpNode /\ v \in Val /\ e \in 1..Len(l) /\ Right(l[e], Done(l, e))
  BY <1>1, NodeIs DEF EarlierRight, Sound
<1>3. CASE l[e].bk
  <2>1. Before(S, e, v) = S
    BY <1>3 DEF Before
  <2> QED
    BY <2>1, <1>3, GrewSelf
<1>4. CASE ~l[e].bk
  <2>1. /\ x \in OpNode /\ SameStatic(l[e], x)
        /\ x.bk /\ x.bv = v /\ x.ak = l[e].ak /\ x.av = l[e].av /\ x.addr = l[e].addr
    BY <1>2, KnowBeforeIs
  <2> HIDE DEF x
  <2>2. NodeMore(l[e], x)
    BY <2>1, <1>4 DEF NodeMore
  <2>3. Right(x, Done(l, e))
    BY <2>1, <1>2, <1>4 DEF Right, AfterRight, EarlierRight, Earlier, Tracked, SameStatic
  <2>4. ListInv(m) /\ More(l, m) /\ m[e] = x /\ \A j \in 1..Len(l) : j # e => m[j] = l[j]
    BY <1>1, <2>1, <2>2, <2>3, PutList
  <2>5. Ops(m) = Ops(l) /\ UseReady(l) \subseteq UseReady(m) /\ DefReady(l) \subseteq DefReady(m)
    BY <1>1, <2>4, MoreReady, MoreNodes
  <2>6. S.usel \in Seq(UseReady(m)) /\ S.defl \in Seq(DefReady(m))
    <3>1. S.usel \in Seq(UseReady(l)) /\ S.defl \in Seq(DefReady(l))
      BY <1>1 DEF Queues
    <3> QED
      BY <2>5, <3>1, SeqWider
  <2>7. \A j \in Ops(l) : m[j].addr = l[j].addr
    BY <2>1, <2>4 DEF Ops
  <2> HIDE DEF m
  <2> DEFINE q == add_to_list(S.defl, e)
             T == State(m, S.usel, q, S.instl, S.umem, S.bad)
  <2>8. e \in DefReady(m)
    BY <2>1, <2>4, <2>5 DEF DefReady, SameStatic
  <2>9. q \in Seq(DefReady(m)) /\ Len(S.defl) <= Len(q)
    BY <2>8, <2>6, AddIs
  <2> HIDE DEF q
  <2>10. /\ Structure(T) /\ T.list = m /\ T.defl = q /\ T.usel = S.usel /\ T.instl = S.instl
         /\ T.umem = S.umem /\ T.bad = S.bad
    BY StateIs
  <2>11. Before(S, e, v) = T
    <3>1. Before(S, e, v) = [S EXCEPT !.list = m, !.defl = q]
      BY <1>1, <1>4 DEF Before, Structure, m, x, q
    <3> QED
      BY <3>1, <1>1, SetTwo DEF T
  <2> HIDE DEF T
  <2>12. Grew(S, T)
    BY <2>9, <2>10, <2>4, <2>7, <2>6 DEF Grew
  <2>13. Inv(T)
    BY <2>9, <2>10, <2>12, <2>4, <2>6, FlowInv
  <2> QED
    BY <2>11, <2>12, <2>13
<1> QED
  BY <1>3, <1>4

-----------------------------------------------------------------------------
(* Neighbours in the list. *)

\* The build, its memory map and a core dump of that map.
Env == setup \in Setups /\ core \in Cores /\ DOMAIN core.mem = Ram

\* What is fixed at the start: the memory map and the core dump.
LEMMA EnvIs ==
  ASSUME Env
  PROVE  /\ Ram \subseteq Val /\ Ram \subseteq Mapped /\ 0 \notin Mapped /\ 0 \in Val /\ MaxVal \in Nat
         /\ Val \subseteq Nat
         /\ core.reg \in [Reg -> Val] /\ core.mem \in [Ram -> Val]
         /\ Honest => Mapped = Ram \cup Mmio /\ (setup.memac \/ Mmio = {})
<1>1. MaxVal \in Nat /\ setup \in Setup
  BY ReverseExecAssumption DEF Env
<1>2. Ram \subseteq Val /\ Ram \subseteq Mapped /\ 0 \in Val /\ Val \subseteq Nat
  BY <1>1 DEF Setup, Ram, Mapped, Val
<1>3. 0 \notin Mapped
  BY ReverseExecAssumption DEF Env, Mapped, Ram, Mmio
<1>4. PICK s \in Setups : core \in [reg : [Reg -> Val], mem : [s.ram -> Val]]
  BY ReverseExecAssumption DEF Env
<1>5. core.reg \in [Reg -> Val] /\ core.mem \in [Ram -> Val]
  BY <1>4 DEF Env
<1>6. Honest => Mapped = Ram \cup Mmio /\ (setup.memac \/ Mmio = {})
  BY DEF Honest, Env, Mapped, Mmio
<1> QED
  BY <1>1, <1>2, <1>3, <1>5, <1>6

\* SelectInSeq finds the first entry below a bound.
LEMMA SelectIs ==
  ASSUME NEW s, s \in Seq(Nat), NEW hi \in Nat
  PROVE  LET k == SelectInSeq(s, LAMBDA u : u < hi) IN
         /\ k = 0 => \A a \in 1..Len(s) : ~(s[a] < hi)
         /\ k # 0 => /\ k \in 1..Len(s) /\ s[k] < hi
                     /\ \A a \in 1..Len(s) : s[a] < hi => k <= a
<1> DEFINE I == {a \in 1..Len(s) : s[a] < hi}
<1>1. SelectInSeq(s, LAMBDA u : u < hi) = IF I # {} THEN Min(I) ELSE 0
  BY DEF SelectInSeq
<1>2. I \subseteq Nat
  OBVIOUS
<1>3. I # {} => Min(I) \in I /\ \A a \in I : Min(I) <= a
  BY <1>2, MinIs
<1>4. 0 \notin I
  OBVIOUS
<1> QED
  BY <1>1, <1>3, <1>4

\* A memory operand is the second one of its load or store.
LEMMA MemNode ==
  ASSUME NEW l, ListInv(l), NEW j \in Ops(l), l[j].sort = "mem"
  PROVE  /\ j = l[j].home + 2 /\ l[l[j].home].inst.op \in {"ldr", "str"} /\ l[j].elem = "Opd"
         /\ l[j].kind = "def" <=> l[l[j].home].inst.op = "str"
         /\ Done(l, j) <=> l[j].taddr \in Mapped
<1> DEFINE h == l[j].home
           i == l[h].inst
<1>1. Nodes(l) /\ Shaped(l) /\ h \in Insts(l)
  BY NodeIs DEF ListInv
<1>2. i \in Instruction /\ BlockAt(l, h) /\ h \in Nat
  BY <1>1, BlockIs
<1>3. PICK k \in 1..Size(i) : j = h + k
  BY <1>1, BlockIs
<1>4. /\ Size(i) \in 2..4
      /\ i.op = "mov" => Size(i) = 2
      /\ i.op \in Arithmetic => Size(i) = 3
      /\ i.op \in {"ldr", "str"} => (i.c = "imm" => Size(i) = 3)
  BY <1>2, SizeIs
<1> HIDE DEF h
<1>5. i.op # "mov"
  <2> SUFFICES ASSUME i.op = "mov" PROVE FALSE
    OBVIOUS
  <2>1. MovAt(l, h)
    BY <1>2 DEF BlockAt, Arithmetic
  <2>2. k \in {1, 2}
    BY <1>4
  <2> QED
    BY <1>3, <2>1, <2>2 DEF MovAt, RegNode
<1>6. i.op \notin Arithmetic
  <2> SUFFICES ASSUME i.op \in Arithmetic PROVE FALSE
    OBVIOUS
  <2>1. ArithAt(l, h)
    BY <1>2 DEF BlockAt, Arithmetic
  <2>2. k \in {1, 2, 3}
    BY <1>4
  <2> QED
    BY <1>3, <2>1, <2>2 DEF ArithAt, RegNode
<1>7. i.op \in {"ldr", "str"}
  BY <1>2, <1>5, <1>6 DEF Instruction, Arithmetic
<1>8. /\ AddrAt(l, h) /\ l[h + 1].sort = "reg" /\ (l[h + 2].kind = "def" <=> i.op = "str")
  BY <1>2, <1>7 DEF BlockAt, Arithmetic, LoadAt, StoreAt, RegNode
<1>9. k = 2
  <2>1. k \in 1..4 /\ (i.c = "imm" => k \in 1..3)
    BY <1>4, <1>7
  <2>2. l[h + 3].sort = "reg" /\ (i.c # "imm" => l[h + 4].sort = "reg")
    BY <1>8 DEF AddrAt, RegNode
  <2>3. k # 1 /\ k # 3 /\ k # 4
    BY <2>1, <2>2, <1>8, <1>3
  <2> QED
    BY <2>1, <2>3
<1>10. l[j].elem = "Opd" /\ (l[h].index # 0 <=> l[j].taddr \in Mapped)
  BY <1>3, <1>8, <1>9 DEF AddrAt
<1> QED
  BY <1>3, <1>7, <1>8, <1>9, <1>10 DEF h, Done

\* NextOf is the nearest earlier node of the list of that kind and target.
LEMMA NextIs ==
  ASSUME NEW l, Nodes(l), NEW e \in Ops(l), NEW kind \in {"use", "def"}
  PROVE  LET d == NextOf(l, kind, e) IN
         /\ d \in Nat
         /\ d # 0 => d \in Ops(l) /\ d < e /\ l[d].kind = kind /\ SameTarget(l[d], l[e])
         /\ \A k \in Ops(l) : k < e /\ l[k].kind = kind /\ SameTarget(l[k], l[e]) => d # 0 /\ k <= d
<1> DEFINE I == Nearest(l, kind, e, 1..(e - 1))
<1>1. e \in Nat \ {0} /\ e \in 1..Len(l) /\ Len(l) \in Nat
  BY NodeIs
<1>2. I \subseteq 0..(e - 1) /\ I \subseteq Nat /\ I \subseteq Ops(l) /\ 0 \notin I
  BY <1>1 DEF Nearest, Ops
<1>3. NextOf(l, kind, e) = IF I = {} THEN 0 ELSE Max(I)
  BY DEF NextOf
<1>4. \A k \in I : k < e /\ l[k].kind = kind /\ SameTarget(l[k], l[e])
  BY <1>1 DEF Nearest
<1>5. \A k \in Ops(l) : k < e /\ l[k].kind = kind /\ SameTarget(l[k], l[e]) => k \in I
  BY <1>1 DEF Nearest, Ops
<1> HIDE DEF I
<1>6. I # {} => Max(I) \in I /\ \A k \in I : k <= Max(I)
  <2>1. e - 1 \in Nat
    BY <1>1
  <2> QED
    BY <2>1, <1>2, MaxIs
<1> DEFINE d == NextOf(l, kind, e)
<1>7. CASE I = {}
  <2>1. d = 0
    BY <1>3, <1>7
  <2> HIDE DEF d
  <2> QED
    BY <2>1, <1>5, <1>7 DEF d
<1>8. CASE I # {}
  <2>1. d = Max(I)
    BY <1>3, <1>8
  <2> HIDE DEF d
  <2>2. d \in I /\ d # 0 /\ d \in Nat /\ d \in Ops(l)
    BY <2>1, <1>2, <1>6, <1>8
  <2> QED
    BY <2>1, <2>2, <1>4, <1>5, <1>6, <1>8 DEF d
<1> QED
  BY <1>7, <1>8

\* PrevOf is the nearest later node of the list of that kind and target.
LEMMA PrevIs ==
  ASSUME NEW l, Nodes(l), NEW e \in Ops(l), NEW kind \in {"use", "def"}
  PROVE  LET d == PrevOf(l, kind, e) IN
         /\ d \in Nat
         /\ d # 0 => d \in Ops(l) /\ e < d /\ l[d].kind = kind /\ SameTarget(l[d], l[e])
         /\ \A k \in Ops(l) : e < k /\ l[k].kind = kind /\ SameTarget(l[k], l[e]) => d # 0 /\ d <= k
<1> DEFINE I == Nearest(l, kind, e, (e + 1)..Len(l))
<1>1. e \in Nat \ {0} /\ e \in 1..Len(l) /\ Len(l) \in Nat
  BY NodeIs
<1>2. I \subseteq Nat /\ I \subseteq Ops(l) /\ 0 \notin I
  BY <1>1 DEF Nearest, Ops
<1>3. PrevOf(l, kind, e) = IF I = {} THEN 0 ELSE Min(I)
  BY DEF PrevOf
<1>4. \A k \in I : e < k /\ l[k].kind = kind /\ SameTarget(l[k], l[e])
  BY <1>1 DEF Nearest
<1>5. \A k \in Ops(l) : e < k /\ l[k].kind = kind /\ SameTarget(l[k], l[e]) => k \in I
  BY <1>1 DEF Nearest, Ops
<1> HIDE DEF I
<1>6. I # {} => Min(I) \in I /\ \A k \in I : Min(I) <= k
  BY <1>2, MinIs
<1> DEFINE d == PrevOf(l, kind, e)
<1>7. CASE I = {}
  <2>1. d = 0
    BY <1>3, <1>7
  <2> HIDE DEF d
  <2> QED
    BY <2>1, <1>5, <1>7 DEF d
<1>8. CASE I # {}
  <2>1. d = Min(I)
    BY <1>3, <1>8
  <2> HIDE DEF d
  <2>2. d \in I /\ d # 0 /\ d \in Nat /\ d \in Ops(l)
    BY <2>1, <1>2, <1>6, <1>8
  <2> QED
    BY <2>1, <2>2, <1>4, <1>5, <1>6, <1>8 DEF d
<1> QED
  BY <1>7, <1>8

\* No write of unknown address lies in a range without obstacle.
LEMMA Clear ==
  ASSUME NEW S, Inv(S), Honest, NEW j \in Ops(S.list), S.list[j].sort = "mem",
         NEW lo \in Nat, ~obstacle_between_two_targets(S, lo, j),
         NEW k \in Hidden(S.list), lo < k, k < j
  PROVE  FALSE
<1> DEFINE l == S.list
<1>1. ListInv(l) /\ Nodes(l) /\ Unknowns(S) /\ S.umem \in Seq(Ops(l))
  BY DEF Inv, ListInv, Queues
<1>2. k \in Ops(l) /\ l[k].kind = "def" /\ l[k].sort = "mem" /\ l[k].addr = 0
  BY DEF Hidden
<1>3. k \in Nat /\ j \in Nat
  BY <1>1, <1>2, NodeIs
<1>4. check_next_unknown_write(l, lo, j)
  BY <1>2, <1>3 DEF check_next_unknown_write, IsExp
<1>5. resolve_alias(S, lo, j)
  BY <1>4 DEF obstacle_between_two_targets
<1>6. CASE \E a \in 1..Len(S.umem) : S.umem[a] = k
  <2>1. PICK a \in 1..Len(S.umem) : S.umem[a] = k
    BY <1>6
  <2>2. S.umem \in Seq(Nat)
    <3>1. Ops(l) \subseteq Nat
      BY DEF Ops
    <3> QED
      BY <1>1, <3>1, SeqWider
  <2> DEFINE b == SelectInSeq(S.umem, LAMBDA u : u < j)
  <2>3. b # 0 /\ b \in 1..Len(S.umem) /\ b <= a
    BY <2>1, <2>2, <1>3, SelectIs
  <2>4. b = 0 \/ (lo # 0 /\ S.umem[b] < lo)
    BY <1>5 DEF resolve_alias
  <2> HIDE DEF b
  <2>5. S.umem[b] >= S.umem[a]
    <3>1. b < a => S.umem[b] > S.umem[a]
      BY <1>1, <2>1, <2>3 DEF Unknowns
    <3>2. Len(S.umem) \in Nat /\ S.umem[a] \in Nat /\ S.umem[b] \in Nat
      BY <2>2, <2>3
    <3> QED
      BY <2>1, <2>3, <3>1, <3>2
  <2>6. S.umem[b] \in Nat
    BY <2>2, <2>3
  <2> QED
    BY <2>1, <2>3, <2>4, <2>5, <2>6, <1>3
<1>7. CASE ~ \E a \in 1..Len(S.umem) : S.umem[a] = k
  <2>1. Newest(l, l[k].home)
    BY <1>1, <1>7 DEF Unknowns
  <2>2. /\ j = l[j].home + 2 /\ k = l[k].home + 2 /\ l[j].home \in Insts(l)
        /\ l[j].home \in Nat /\ l[k].home \in Nat
    BY <1>1, <1>2, MemNode, NodeIs
  <2>3. l[j].home <= l[k].home
    BY <2>1, <2>2 DEF Newest
  <2> QED
    BY <2>2, <2>3
<1> QED
  BY <1>6, <1>7

\* Two neighbouring operands of one target hold one value.
LEMMA Link ==
  ASSUME Env, NEW S, Inv(S), NEW i \in Ops(S.list), NEW j \in Ops(S.list), i < j,
         SameTarget(S.list[i], S.list[j]),
         \A k \in Ops(S.list) : i < k /\ k < j /\ S.list[k].kind = "def"
                                  => ~SameTarget(S.list[k], S.list[j]),
         IsExp(S.list[j]) => ~obstacle_between_two_targets(S, i, j)
  PROVE  /\ Tracked(S.list[i]) <=> Tracked(S.list[j])
         /\ Tracked(S.list[j]) => Earlier(S.list[i]) = S.list[j].ta
         /\ Honest /\ S.list[i].sort = "mem" => Done(S.list, i) /\ Done(S.list, j)
<1> DEFINE l == S.list
<1>1. ListInv(l) /\ Nodes(l) /\ Chained(l) /\ Sound(l)
  BY DEF Inv, ListInv
<1>2. /\ l[i] \in OpNode /\ l[j] \in OpNode /\ i \in Nat /\ j \in Nat
      /\ \A k \in Ops(l) : k \in Nat
  BY <1>1, NodeIs
<1>3. l[i].sort = l[j].sort /\ l[i].sort \in {"reg", "mem"}
  BY DEF SameTarget
<1>4. CASE l[j].sort = "reg"
  <2>1. SameLoc(l[i], l[j]) /\ Located(l[j])
    BY <1>3, <1>4 DEF SameTarget, SameLoc, Located
  <2>2. NoDef(l, l[j], {k \in Ops(l) : i < k /\ k < j})
    BY <1>4 DEF NoDef, SameLoc, SameTarget
  <2>3. Earlier(l[i]) = l[j].ta
    BY <1>1, <2>1, <2>2 DEF Chained
  <2> QED
    BY <1>3, <1>4, <2>3 DEF Tracked
<1>5. CASE l[j].sort = "mem"
  <2>1. l[i].addr # 0 /\ l[i].addr = l[j].addr
    BY <1>5 DEF SameTarget
  <2>2. Right(l[i], Done(l, i)) /\ Right(l[j], Done(l, j))
    BY <1>1 DEF Sound
  <2>3. Honest => l[i].taddr = l[i].addr /\ l[j].taddr = l[i].addr
    BY <2>1, <2>2, <1>3, <1>5 DEF Right
  <2>4. Tracked(l[i]) <=> Tracked(l[j])
    BY <2>3, <1>3, <1>5 DEF Tracked
  <2>5. ASSUME Tracked(l[j]) PROVE Earlier(l[i]) = l[j].ta
    <3>1. Honest /\ l[j].taddr \in Ram
      BY <2>5, <1>5 DEF Tracked
    <3>2. SameLoc(l[i], l[j]) /\ Located(l[j])
      BY <2>3, <3>1, <1>3, <1>5 DEF SameLoc, Located
    <3>3. ASSUME NEW k \in Ops(l), i < k, k < j, l[k].kind = "def", SameLoc(l[k], l[j]) PROVE FALSE
      <4>1. l[k].sort = "mem" /\ l[k].taddr = l[j].taddr
        BY <3>3, <1>5 DEF SameLoc
      <4>2. Right(l[k], Done(l, k))
        BY <1>1 DEF Sound
      <4>3. CASE l[k].addr = 0
        <5>1. Done(l, k)
          BY <4>1, <3>1, <1>1, MemNode, EnvIs
        <5>2. k \in Hidden(l)
          BY <3>3, <4>1, <4>3, <5>1 DEF Hidden
        <5> QED
          BY <5>2, <3>1, <3>3, <1>2, <1>5, Clear DEF IsExp
      <4>4. CASE l[k].addr # 0
        <5>1. l[k].addr = l[k].taddr
          BY <4>2, <4>1, <4>4, <3>1 DEF Right
        <5>2. SameTarget(l[k], l[j])
          BY <5>1, <4>1, <4>4, <2>3, <2>1, <3>1, <1>5 DEF SameTarget
        <5> QED
          BY <5>2, <3>3
      <4> QED
        BY <4>3, <4>4
    <3>4. NoDef(l, l[j], {k \in Ops(l) : i < k /\ k < j})
      BY <3>3 DEF NoDef
    <3> QED
      BY <3>2, <3>4, <1>1 DEF Chained
  <2>6. ASSUME Honest PROVE Done(l, i) /\ Done(l, j)
    <3>1. /\ i = l[i].home + 2 /\ j = l[j].home + 2 /\ (Done(l, i) <=> l[i].taddr \in Mapped)
          /\ (Done(l, j) <=> l[j].taddr \in Mapped)
      BY <1>1, <1>3, <1>5, MemNode
    <3>2. l[i].home \in Insts(l) /\ l[j].home \in Insts(l)
      BY <1>1, NodeIs
    <3>3. l[i].home # l[j].home
      BY <3>1, <1>2
    <3>4. \A h \in Insts(l) : l[h].index = 0 <=> h = 1
      BY <1>1 DEF ListInv, Shaped
    <3>5. Done(l, i) \/ Done(l, j)
      BY <3>2, <3>3, <3>4 DEF Done
    <3> QED
      BY <3>1, <3>5, <2>3, <2>6
  <2> QED
    BY <2>4, <2>5, <2>6
<1> QED
  BY <1>3, <1>4, <1>5

\* What nothing redefines later is what the core dump holds.
LEMMA Top ==
  ASSUME Env, NEW S, Inv(S), NEW j \in Ops(S.list), S.list[j].sort \in {"reg", "mem"},
         \A k \in Ops(S.list) : k < j /\ S.list[k].kind = "def"
                                  => ~SameTarget(S.list[k], S.list[j]),
         IsExp(S.list[j]) => S.list[j].addr # 0 /\ ~obstacle_between_two_targets(S, 0, j),
         Tracked(S.list[j])
  PROVE  /\ S.list[j].ta = At(core, S.list[j])
         /\ S.list[j].sort = "mem" => S.list[j].taddr = S.list[j].addr
<1> DEFINE l == S.list
<1>1. ListInv(l) /\ Nodes(l) /\ Chained(l) /\ Sound(l)
  BY DEF Inv, ListInv
<1>2. l[j] \in OpNode /\ j \in Nat /\ Located(l[j]) /\ Honest /\ \A k \in Ops(l) : k \in Nat /\ 0 < k
  BY <1>1, NodeIs DEF Tracked, Located
<1>3. l[j].sort = "mem" => l[j].taddr = l[j].addr /\ l[j].addr # 0
  BY <1>1, <1>2 DEF Sound, Right, IsExp
<1>4. ASSUME NEW k \in Ops(l), k < j, l[k].kind = "def", SameLoc(l[k], l[j]) PROVE FALSE
  <2>1. CASE l[j].sort = "reg"
    BY <2>1, <1>4 DEF SameLoc, SameTarget
  <2>2. CASE l[j].sort = "mem"
    <3>1. l[k].sort = "mem" /\ l[k].taddr = l[j].taddr
      BY <1>4, <2>2 DEF SameLoc
    <3>2. Right(l[k], Done(l, k))
      BY <1>1 DEF Sound
    <3>3. CASE l[k].addr = 0
      <4>1. Done(l, k)
        BY <3>1, <2>2, <1>2, <1>1, MemNode, EnvIs DEF Located
      <4>2. k \in Hidden(l)
        BY <1>4, <3>1, <3>3, <4>1 DEF Hidden
      <4>3. 0 \in Nat /\ 0 < k
        BY <1>2
      <4> QED
        BY <4>2, <4>3, <1>2, <1>4, <2>2, Clear DEF IsExp
    <3>4. CASE l[k].addr # 0
      <4>1. l[k].addr = l[k].taddr
        BY <3>2, <3>1, <3>4, <1>2 DEF Right
      <4>2. SameTarget(l[k], l[j])
        BY <4>1, <3>1, <3>4, <1>3, <2>2 DEF SameTarget
      <4> QED
        BY <4>2, <1>4
    <3> QED
      BY <3>3, <3>4
  <2> QED
    BY <2>1, <2>2
<1>5. NoDef(l, l[j], {k \in Ops(l) : k < j})
  BY <1>4 DEF NoDef
<1>6. l[j].ta = At(core, l[j])
  BY <1>1, <1>2, <1>5 DEF Chained
<1> QED
  BY <1>3, <1>6

\* Whether a value is right does not depend on what is known.
LEMMA StaticRight ==
  ASSUME NEW n, NEW m, SameStatic(n, m), NEW v
  PROVE  /\ AfterRight(n, v) <=> AfterRight(m, v)
         /\ EarlierRight(n, v) <=> EarlierRight(m, v)
         /\ Tracked(n) <=> Tracked(m)
  BY DEF SameStatic, AfterRight, EarlierRight, Earlier, Tracked

\* Sharing a target is transitive and symmetric.
LEMMA SameTargetTrans ==
  ASSUME NEW a, NEW b, NEW c, SameTarget(a, b), SameTarget(b, c)
  PROVE  SameTarget(a, c) /\ SameTarget(b, a)
  BY DEF SameTarget

\* A value handed on towards the crash is right where it arrives.
LEMMA FlowNextIs ==
  ASSUME Env, NEW S, Inv(S), NEW e \in Ops(S.list), NEW v, AfterRight(S.list[e], v)
  PROVE  Inv(FlowNext(S, e, v)) /\ Grew(S, FlowNext(S, e, v))
<1> DEFINE l == S.list
           d == NextOf(l, "def", e)
           u == NextOf(l, "use", e)
           T == IF d # 0 /\ Reaches(S, d, e, e) THEN Before(S, d, v) ELSE S
           useit == u # 0 /\ ~(d # 0 /\ u < d) /\ Reaches(S, u, e, e)
<1>1. Nodes(l) /\ l[e] \in OpNode /\ \A k \in Ops(l) : k \in Nat /\ l[k] \in OpNode
  BY NodeIs DEF Inv, ListInv
<1>2. /\ d \in Nat
      /\ d # 0 => d \in Ops(l) /\ d < e /\ l[d].kind = "def" /\ SameTarget(l[d], l[e])
      /\ \A k \in Ops(l) : k < e /\ l[k].kind = "def" /\ SameTarget(l[k], l[e]) => d # 0 /\ k <= d
  BY <1>1, NextIs
<1>3. /\ u \in Nat
      /\ u # 0 => u \in Ops(l) /\ u < e /\ l[u].kind = "use" /\ SameTarget(l[u], l[e])
  BY <1>1, NextIs
<1>4. FlowNext(S, e, v) = IF useit THEN After(T, u, v) ELSE T
  BY DEF FlowNext
<1> HIDE DEF d, u
<1>5. Inv(T) /\ Grew(S, T)
  <2>1. CASE d # 0 /\ Reaches(S, d, e, e)
    <3>1. d \in Ops(l) /\ d < e /\ l[d].kind = "def" /\ SameTarget(l[d], l[e])
      BY <2>1, <1>2
    <3>2. \A k \in Ops(l) : d < k /\ k < e /\ l[k].kind = "def" => ~SameTarget(l[k], l[e])
      BY <1>1, <1>2
    <3>3. IsExp(l[e]) => ~obstacle_between_two_targets(S, d, e)
      BY <2>1 DEF Reaches
    <3>4. /\ Tracked(l[d]) <=> Tracked(l[e])
          /\ Tracked(l[e]) => Earlier(l[d]) = l[e].ta
          /\ Honest /\ l[d].sort = "mem" => Done(l, d)
      BY <3>1, <3>2, <3>3, Link
    <3>5. EarlierRight(l[d], v)
      BY <3>4 DEF AfterRight, EarlierRight
    <3>6. Inv(Before(S, d, v)) /\ Grew(S, Before(S, d, v))
      BY <3>1, <3>4, <3>5, BeforeFlow
    <3> QED
      BY <3>6, <2>1
  <2>2. CASE ~(d # 0 /\ Reaches(S, d, e, e))
    BY <2>2, GrewSelf
  <2> QED
    BY <2>1, <2>2
<1> HIDE DEF T
<1>6. CASE useit
  <2>1. u \in Ops(l) /\ u < e /\ l[u].kind = "use" /\ SameTarget(l[u], l[e]) /\ ~(d # 0 /\ u < d)
    BY <1>6, <1>3
  <2>2. \A k \in Ops(l) : u < k /\ k < e /\ l[k].kind = "def" => ~SameTarget(l[k], l[e])
    BY <2>1, <1>1, <1>2
  <2>3. IsExp(l[e]) => ~obstacle_between_two_targets(S, u, e)
    BY <1>6 DEF Reaches
  <2>4. /\ Tracked(l[u]) <=> Tracked(l[e])
        /\ Tracked(l[e]) => Earlier(l[u]) = l[e].ta
    BY <2>1, <2>2, <2>3, Link
  <2>5. AfterRight(l[u], v)
    BY <2>1, <2>4 DEF AfterRight, Earlier
  <2>6. u \in Ops(T.list) /\ SameStatic(l[u], T.list[u])
    BY <1>1, <1>5, <2>1, MoreNodes DEF Grew
  <2>7. AfterRight(T.list[u], v)
    BY <2>5, <2>6, StaticRight
  <2>8. Inv(After(T, u, v)) /\ Grew(T, After(T, u, v))
    BY <1>5, <2>6, <2>7, AfterFlow
  <2>9. Grew(S, After(T, u, v))
    BY <1>5, <2>8, GrewTwice
  <2> QED
    BY <1>4, <1>6, <2>8, <2>9
<1>7. CASE ~useit
  BY <1>4, <1>5, <1>7
<1> QED
  BY <1>6, <1>7

\* A value handed on towards the start of the trace is right where it arrives.
LEMMA FlowPrevIs ==
  ASSUME Env, NEW S, Inv(S), NEW e \in Ops(S.list), NEW v, EarlierRight(S.list[e], v)
  PROVE  Inv(FlowPrev(S, e, v)) /\ Grew(S, FlowPrev(S, e, v))
<1> DEFINE l == S.list
           d == PrevOf(l, "def", e)
           u == PrevOf(l, "use", e)
           T == IF d # 0 /\ Reaches(S, e, d, e) THEN After(S, d, v) ELSE S
           useit == u # 0 /\ ~(d # 0 /\ d < u) /\ Reaches(S, e, u, e)
<1>1. Nodes(l) /\ l[e] \in OpNode /\ \A k \in Ops(l) : k \in Nat /\ l[k] \in OpNode
  BY NodeIs DEF Inv, ListInv
<1>2. /\ d \in Nat
      /\ d # 0 => d \in Ops(l) /\ e < d /\ l[d].kind = "def" /\ SameTarget(l[d], l[e])
      /\ \A k \in Ops(l) : e < k /\ l[k].kind = "def" /\ SameTarget(l[k], l[e]) => d # 0 /\ d <= k
  BY <1>1, PrevIs
<1>3. /\ u \in Nat
      /\ u # 0 => u \in Ops(l) /\ e < u /\ l[u].kind = "use" /\ SameTarget(l[u], l[e])
  BY <1>1, PrevIs
<1>4. FlowPrev(S, e, v) = IF useit THEN After(T, u, v) ELSE T
  BY DEF FlowPrev
<1>5. ASSUME NEW x \in Ops(l), e < x, SameTarget(l[x], l[e]), ~(d # 0 /\ d < x), Reaches(S, e, x, e)
      PROVE  AfterRight(l[x], v)
  <2>1. SameTarget(l[e], l[x])
    BY <1>5 DEF SameTarget
  <2>2. ASSUME NEW k \in Ops(l), e < k, k < x, l[k].kind = "def" PROVE ~SameTarget(l[k], l[x])
    <3>1. SUFFICES ASSUME SameTarget(l[k], l[x]) PROVE FALSE
      OBVIOUS
    <3>2. SameTarget(l[k], l[e])
      BY <3>1, <1>5, SameTargetTrans
    <3>3. d # 0 /\ d <= k
      BY <3>2, <2>2, <1>2
    <3> HIDE DEF d
    <3> QED
      BY <3>3, <2>2, <1>1, <1>2, <1>5
  <2>3. IsExp(l[x]) => ~obstacle_between_two_targets(S, e, x)
    BY <1>5, <2>1 DEF Reaches, IsExp, SameTarget
  <2>4. /\ Tracked(l[e]) <=> Tracked(l[x])
        /\ Tracked(l[x]) => Earlier(l[e]) = l[x].ta
    BY <1>5, <2>1, <2>2, <2>3, Link
  <2> QED
    BY <2>4 DEF AfterRight, EarlierRight
<1> HIDE DEF d, u
<1>6. Inv(T) /\ Grew(S, T)
  <2>1. CASE d # 0 /\ Reaches(S, e, d, e)
    <3>1. d \in Ops(l) /\ e < d /\ SameTarget(l[d], l[e]) /\ ~(d # 0 /\ d < d)
      BY <2>1, <1>2
    <3>2. AfterRight(l[d], v)
      BY <3>1, <2>1, <1>5
    <3>3. Inv(After(S, d, v)) /\ Grew(S, After(S, d, v))
      BY <3>1, <3>2, AfterFlow
    <3> QED
      BY <3>3, <2>1
  <2>2. CASE ~(d # 0 /\ Reaches(S, e, d, e))
    BY <2>2, GrewSelf
  <2> QED
    BY <2>1, <2>2
<1> HIDE DEF T
<1>7. CASE useit
  <2>1. u \in Ops(l) /\ e < u /\ SameTarget(l[u], l[e])
    BY <1>7, <1>3
  <2>2. AfterRight(l[u], v)
    BY <2>1, <1>5, <1>7
  <2>3. u \in Ops(T.list) /\ SameStatic(l[u], T.list[u])
    BY <1>1, <1>6, <2>1, MoreNodes DEF Grew
  <2>4. AfterRight(T.list[u], v)
    BY <2>2, <2>3, StaticRight
  <2>5. Inv(After(T, u, v)) /\ Grew(T, After(T, u, v))
    BY <1>6, <2>3, <2>4, AfterFlow
  <2>6. Grew(S, After(T, u, v))
    BY <1>6, <2>5, GrewTwice
  <2> QED
    BY <1>4, <1>7, <2>5, <2>6
<1>8. CASE ~useit
  BY <1>4, <1>6, <1>8
<1> QED
  BY <1>7, <1>8

\* An instruction that a new value wakes.
Woken(S, T) ==
  /\ T.list = S.list /\ T.usel = S.usel /\ T.defl = S.defl /\ T.umem = S.umem /\ T.bad = S.bad
  /\ T.instl \in Seq(Insts(S.list)) /\ Len(S.instl) <= Len(T.instl)
  /\ \A a \in 1..Len(S.instl) : a \in 1..Len(T.instl) /\ T.instl[a] = S.instl[a]

\* Queueing an operand's instruction.
LEMMA WakeIs ==
  ASSUME NEW S, Inv(S), NEW e \in Ops(S.list)
  PROVE  Inv(WakeInst(S, e)) /\ Woken(S, WakeInst(S, e))
<1> DEFINE l == S.list
           h == l[e].home
           q == add_to_list(S.instl, h)
           T == State(l, S.usel, S.defl, q, S.umem, S.bad)
<1>1. /\ Nodes(l) /\ Structure(S) /\ S.instl \in Seq(Insts(l)) /\ h \in Insts(l)
      /\ Queues(S) /\ Unknowns(S) /\ ListInv(l)
  BY NodeIs DEF Inv, ListInv, Queues, Structure
<1>2. /\ q \in Seq(Insts(l)) /\ Len(S.instl) <= Len(q)
      /\ \A a \in 1..Len(S.instl) : q[a] = S.instl[a] /\ a \in 1..Len(q)
  BY <1>1, AddIs
<1>3. [S EXCEPT !.instl = q] = T
  BY <1>1, SetIs
<1>4. CASE check_inst_resolution(l, h)
  <2>1. WakeInst(S, e) = S
    BY <1>4 DEF WakeInst
  <2>2. Len(S.instl) \in Nat
    BY <1>1
  <2> QED
    BY <2>1, <2>2, <1>1 DEF Woken
<1>5. CASE ~check_inst_resolution(l, h)
  <2>1. WakeInst(S, e) = T
    BY <1>5, <1>3 DEF WakeInst
  <2> HIDE DEF q
  <2>2. /\ Structure(T) /\ T.list = l /\ T.usel = S.usel /\ T.defl = S.defl /\ T.instl = q
        /\ T.umem = S.umem /\ T.bad = S.bad
    BY StateIs
  <2> HIDE DEF T
  <2>3. Queues(T)
    BY <1>1, <1>2, <2>2 DEF Queues
  <2>4. Unknowns(T)
    <3> SUFFICES ASSUME Honest PROVE Unknowns(T)
      BY DEF Unknowns
    <3>1. \A u \in Hidden(l) : \/ \E a \in 1..Len(S.umem) : S.umem[a] = u
                               \/ /\ \E a \in 1..Len(S.instl) : S.instl[a] = l[u].home
                                  /\ Newest(l, l[u].home)
      BY <1>1 DEF Unknowns
    <3>2. ASSUME NEW x, \E a \in 1..Len(S.instl) : S.instl[a] = x
          PROVE  \E a \in 1..Len(q) : q[a] = x
      BY <3>2, <1>2
    <3>3. \A u \in Hidden(l) : \/ \E a \in 1..Len(T.umem) : T.umem[a] = u
                               \/ /\ \E a \in 1..Len(T.instl) : T.instl[a] = l[u].home
                                  /\ Newest(l, l[u].home)
      BY <3>1, <3>2, <2>2
    <3> QED
      BY <3>3, <2>2, <1>1 DEF Unknowns
  <2>5. Inv(T)
    BY <1>1, <2>2, <2>3, <2>4 DEF Inv, Structure
  <2>6. Woken(S, T)
    BY <1>2, <2>2 DEF Woken
  <2> QED
    BY <2>1, <2>5, <2>6
<1> QED
  BY <1>4, <1>5

\* A step of re_resolve: nothing is forgotten and nothing leaves a worklist.
Stepped(S, T) ==
  /\ More(S.list, T.list)
  /\ Len(S.usel) <= Len(T.usel) /\ Len(S.defl) <= Len(T.defl) /\ Len(S.instl) <= Len(T.instl)

\* Waking an instruction, then growing.
LEMMA SteppedOn ==
  ASSUME NEW S, NEW W, NEW T, Inv(S), Inv(W), Inv(T), Woken(S, W), Grew(W, T)
  PROVE  Stepped(S, T)
<1>1. Len(T.instl) = Len(W.instl)
  BY DEF Grew
<1> QED
  BY <1>1 DEF Stepped, Woken, Grew

\* resolve_use keeps the invariant.
LEMMA ResolveUse1 ==
  ASSUME Env, NEW S, Inv(S), NEW e \in UseReady(S.list)
  PROVE  Inv(resolve_use(S, e)) /\ Stepped(S, resolve_use(S, e))
<1> DEFINE W == WakeInst(S, e)
           n == S.list[e]
           T == FlowNext(W, e, n.av)
           U == FlowPrev(T, e, n.av)
<1>1. e \in Ops(S.list) /\ n.kind = "use" /\ n.ak /\ Nodes(S.list) /\ Sound(S.list)
  BY DEF UseReady, Inv, ListInv
<1>2. AfterRight(n, n.av) /\ EarlierRight(n, n.av)
  BY <1>1 DEF Sound, Right, AfterRight, EarlierRight, Earlier
<1>3. Inv(W) /\ Woken(S, W) /\ W.list = S.list
  BY <1>1, WakeIs DEF Woken
<1> HIDE DEF W
<1>4. e \in Ops(W.list) /\ AfterRight(W.list[e], n.av)
  BY <1>1, <1>2, <1>3
<1>5. Inv(T) /\ Grew(W, T)
  BY <1>3, <1>4, FlowNextIs
<1>6. e \in Ops(T.list) /\ EarlierRight(T.list[e], n.av)
  <2>1. Nodes(W.list) /\ More(W.list, T.list)
    BY <1>3, <1>5 DEF Inv, ListInv, Grew
  <2>2. e \in Ops(T.list) /\ SameStatic(n, T.list[e])
    BY <2>1, <1>1, <1>3, MoreNodes
  <2> QED
    BY <2>2, <1>2, StaticRight
<1> HIDE DEF T
<1>7. Inv(U) /\ Grew(T, U)
  BY <1>5, <1>6, FlowPrevIs
<1>8. Grew(W, U)
  BY <1>3, <1>5, <1>7, GrewTwice
<1>9. resolve_use(S, e) = U
  BY DEF resolve_use, U, T, W
<1> QED
  BY <1>3, <1>7, <1>8, <1>9, SteppedOn

\* resolve_define keeps the invariant.
LEMMA ResolveDefine1 ==
  ASSUME Env, NEW S, Inv(S), NEW e \in DefReady(S.list)
  PROVE  Inv(resolve_define(S, e)) /\ Stepped(S, resolve_define(S, e))
<1> DEFINE W == WakeInst(S, e)
           n == S.list[e]
           T == IF n.ak THEN FlowNext(W, e, n.av) ELSE W
           U == IF n.bk THEN FlowPrev(T, e, n.bv) ELSE T
<1>1. e \in Ops(S.list) /\ n.kind = "def" /\ Nodes(S.list) /\ Sound(S.list) /\ n \in OpNode
  BY NodeIs DEF DefReady, Inv, ListInv
<1>2. (n.ak => AfterRight(n, n.av)) /\ (n.bk => EarlierRight(n, n.bv))
  BY <1>1 DEF Sound, Right, AfterRight, EarlierRight, Earlier, OpNode
<1>3. Inv(W) /\ Woken(S, W) /\ W.list = S.list
  BY <1>1, WakeIs DEF Woken
<1> HIDE DEF W
<1>4. e \in Ops(W.list) /\ W.list[e] = n
  BY <1>1, <1>3
<1>5. Inv(T) /\ Grew(W, T)
  <2>1. n.ak => Inv(FlowNext(W, e, n.av)) /\ Grew(W, FlowNext(W, e, n.av))
    BY <1>2, <1>3, <1>4, FlowNextIs
  <2> QED
    BY <2>1, <1>3, GrewSelf
<1>6. e \in Ops(T.list) /\ (n.bk => EarlierRight(T.list[e], n.bv))
  <2>1. Nodes(W.list) /\ More(W.list, T.list)
    BY <1>3, <1>5 DEF Inv, ListInv, Grew
  <2>2. e \in Ops(T.list) /\ SameStatic(n, T.list[e])
    BY <2>1, <1>1, <1>3, MoreNodes
  <2> QED
    BY <2>2, <1>2, StaticRight
<1> HIDE DEF T
<1>7. Inv(U) /\ Grew(T, U)
  <2>1. n.bk => Inv(FlowPrev(T, e, n.bv)) /\ Grew(T, FlowPrev(T, e, n.bv))
    BY <1>5, <1>6, FlowPrevIs
  <2> QED
    BY <2>1, <1>5, GrewSelf
<1>8. Grew(W, U)
  BY <1>3, <1>5, <1>7, GrewTwice
<1>9. resolve_define(S, e) = U
  BY DEF resolve_define, U, T, W
<1> QED
  BY <1>3, <1>7, <1>8, <1>9, SteppedOn

-----------------------------------------------------------------------------
(* The list of unknown writes. *)

\* A sequence that falls, as umemlist does from newest to oldest.
Falling(q) == \A a, b \in 1..Len(q) : a < b => q[a] > q[b]

\* r is q without e.
Without(q, e, r) ==
  /\ Falling(r)
  /\ \A a \in 1..Len(r) : r[a] # e /\ \E b \in 1..Len(q) : r[a] = q[b]
  /\ \A b \in 1..Len(q) : q[b] # e => \E a \in 1..Len(r) : r[a] = q[b]

\* A concatenation, entry by entry.
LEMMA ConcatIs ==
  ASSUME NEW A, NEW s \in Seq(A), NEW t \in Seq(A)
  PROVE  /\ s \o t \in Seq(A) /\ Len(s \o t) = Len(s) + Len(t)
         /\ \A j \in 1..(Len(s) + Len(t)) :
              (s \o t)[j] = IF j <= Len(s) THEN s[j] ELSE t[j - Len(s)]
  OBVIOUS

\* What lies on either side of an entry.
LEMMA SplitIs ==
  ASSUME NEW A, NEW q \in Seq(A), NEW k \in 1..Len(q)
  PROVE  /\ SubSeq(q, 1, k - 1) \in Seq(A) /\ Len(SubSeq(q, 1, k - 1)) = k - 1
         /\ \A j \in 1..(k - 1) : SubSeq(q, 1, k - 1)[j] = q[j]
         /\ SubSeq(q, k + 1, Len(q)) \in Seq(A) /\ Len(SubSeq(q, k + 1, Len(q))) = Len(q) - k
         /\ \A j \in 1..(Len(q) - k) : SubSeq(q, k + 1, Len(q))[j] = q[k + j]
<1>1. /\ SubSeq(q, 1, k - 1) \in Seq(A) /\ Len(SubSeq(q, 1, k - 1)) = k - 1
      /\ \A j \in 1..(k - 1) : SubSeq(q, 1, k - 1)[j] = q[j]
  OBVIOUS
<1>2. /\ SubSeq(q, k + 1, Len(q)) \in Seq(A) /\ Len(SubSeq(q, k + 1, Len(q))) = Len(q) - k
      /\ \A j \in 1..(Len(q) - k) : SubSeq(q, k + 1, Len(q))[j] = q[k + j]
  OBVIOUS
<1> QED
  BY <1>1, <1>2

\* RemoveFirst takes an entry out of a falling sequence and leaves the rest falling.
LEMMA RemoveIs ==
  ASSUME NEW A, A \subseteq Nat, NEW q \in Seq(A), NEW e
  PROVE  /\ RemoveFirst(q, e) \in Seq(A)
         /\ Falling(q) => Without(q, e, RemoveFirst(q, e))
<1> DEFINE r == RemoveFirst(q, e)
<1>0. Len(q) \in Nat /\ \A a \in 1..Len(q) : q[a] \in A /\ q[a] \in Nat
  <2>1. Len(q) \in Nat /\ \A a \in 1..Len(q) : q[a] \in A
    OBVIOUS
  <2> QED
    BY <2>1
<1>1. CASE ~ \E a \in 1..Len(q) : q[a] = e
  <2>1. r = q
    BY <1>1 DEF RemoveFirst
  <2>2. Falling(q) => Without(q, e, q)
    BY <1>1 DEF Without
  <2> QED
    BY <2>1, <2>2
<1>2. CASE \E a \in 1..Len(q) : q[a] = e
  <2> DEFINE I == {a \in 1..Len(q) : q[a] = e}
  <2>1. SelectInSeq(q, LAMBDA v : v = e) = Min(I)
    BY <1>2 DEF SelectInSeq
  <2>2. I \subseteq Nat /\ I # {}
    BY <1>2
  <2>3. Min(I) \in I
    BY <2>2, MinIs
  <2>4. PICK k \in 1..Len(q) : k = Min(I) /\ q[k] = e
    BY <2>3
  <2>5. r = SubSeq(q, 1, k - 1) \o SubSeq(q, k + 1, Len(q))
    BY <1>2, <2>1, <2>4 DEF RemoveFirst, RemoveAt
  <2> DEFINE f == SubSeq(q, 1, k - 1)
             g == SubSeq(q, k + 1, Len(q))
  <2>6. f \in Seq(A) /\ Len(f) = k - 1 /\ \A j \in 1..(k - 1) : f[j] = q[j]
    BY SplitIs
  <2>7. g \in Seq(A) /\ Len(g) = Len(q) - k /\ \A j \in 1..(Len(q) - k) : g[j] = q[k + j]
    BY SplitIs
  <2> HIDE DEF f, g
  <2>8. /\ r \in Seq(A) /\ Len(r) = Len(f) + Len(g)
        /\ \A j \in 1..(Len(f) + Len(g)) : r[j] = IF j <= Len(f) THEN f[j] ELSE g[j - Len(f)]
    <3>1. r = f \o g
      BY <2>5 DEF f, g
    <3> QED
      <4>1. f \in Seq(A) /\ g \in Seq(A)
        BY <2>6, <2>7
      <4>2. /\ f \o g \in Seq(A) /\ Len(f \o g) = Len(f) + Len(g)
            /\ \A j \in 1..(Len(f) + Len(g)) :
                 (f \o g)[j] = IF j <= Len(f) THEN f[j] ELSE g[j - Len(f)]
        BY <4>1, ConcatIs
      <4> HIDE DEF r
      <4> QED
        BY <3>1, <4>2
  <2> HIDE DEF r, I
  <2>9. k \in Nat /\ 1 <= k /\ k <= Len(q)
    OBVIOUS
  <2>10. Len(r) = Len(q) - 1
    BY <2>6, <2>7, <2>8, <2>9, <1>0
  <2>11. \A j \in 1..Len(r) : j < k => r[j] = q[j]
    BY <2>6, <2>8, <2>9, <2>10, <1>0, <2>7
  <2>12. \A j \in 1..Len(r) : ~(j < k) => r[j] = q[j + 1] /\ j + 1 \in 1..Len(q)
    <3> TAKE j \in 1..Len(r)
    <3> HAVE ~(j < k)
    <3>1. j - (k - 1) \in 1..(Len(q) - k) /\ k + (j - (k - 1)) = j + 1 /\ ~(j <= Len(f))
      BY <2>6, <2>9, <2>10, <1>0
    <3> QED
      BY <3>1, <2>6, <2>7, <2>8, <2>9, <2>10, <1>0
  <2>13. ASSUME Falling(q)
         PROVE  Without(q, e, r)
    <3>1. ASSUME NEW a \in 1..Len(r)
          PROVE  \E b \in 1..Len(q) : b # k /\ r[a] = q[b] /\ (b = IF a < k THEN a ELSE a + 1)
      <4>1. CASE a < k
        BY <4>1, <2>9, <2>10, <2>11, <1>0
      <4>2. CASE ~(a < k)
        BY <4>2, <2>9, <2>10, <2>12, <1>0
      <4> QED
        BY <4>1, <4>2
    <3>2. \A b \in 1..Len(q) : b # k => q[b] # e
      <4> TAKE b \in 1..Len(q)
      <4> HAVE b # k
      <4>1. q[b] > q[k] \/ q[k] > q[b]
        BY <2>13, <2>9 DEF Falling
      <4> QED
        BY <4>1, <2>4, <1>0
    <3>3. \A a \in 1..Len(r) : r[a] # e /\ \E b \in 1..Len(q) : r[a] = q[b]
      BY <3>1, <3>2
    <3>4. ASSUME NEW b \in 1..Len(q), q[b] # e PROVE \E a \in 1..Len(r) : r[a] = q[b]
      <4>1. b # k
        BY <3>4, <2>4
      <4>2. CASE b < k
        <5>1. b \in 1..Len(r) /\ r[b] = q[b]
          BY <4>2, <2>9, <2>10, <2>11, <1>0
        <5> QED
          BY <5>1
      <4>3. CASE ~(b < k)
        <5>1. b - 1 \in 1..Len(r) /\ ~(b - 1 < k) /\ (b - 1) + 1 = b
          BY <4>1, <4>3, <2>9, <2>10, <1>0
        <5>2. r[b - 1] = q[b]
          BY <5>1, <2>12
        <5> QED
          BY <5>1, <5>2
      <4> QED
        BY <4>2, <4>3
    <3>5. ASSUME NEW a \in 1..Len(r), NEW b \in 1..Len(r), a < b PROVE r[a] > r[b]
      <4>1. PICK c \in 1..Len(q) : r[a] = q[c] /\ (c = IF a < k THEN a ELSE a + 1)
        BY <3>1
      <4>2. PICK d \in 1..Len(q) : r[b] = q[d] /\ (d = IF b < k THEN b ELSE b + 1)
        BY <3>1
      <4>3. c < d
        BY <4>1, <4>2, <3>5, <2>9, <2>10, <1>0
      <4> QED
        BY <4>1, <4>2, <4>3, <2>13 DEF Falling
    <3> QED
      BY <3>3, <3>4, <3>5 DEF Falling, Without
  <2> QED
    BY <2>8, <2>13 DEF r
<1> QED
  BY <1>1, <1>2

\* A sequence with one entry put before it.
LEMMA PrefixIs ==
  ASSUME NEW A, NEW q \in Seq(A), NEW e \in A
  PROVE  LET r == <<e>> \o q IN
         /\ r \in Seq(A) /\ Len(r) = Len(q) + 1 /\ r[1] = e
         /\ \A a \in 1..Len(q) : r[a + 1] = q[a]
  OBVIOUS

-----------------------------------------------------------------------------
(* The operands of an instruction. *)

\* The nodes of an instruction follow it directly.
LEMMA ElementsAre ==
  ASSUME NEW l, ListInv(l), NEW h \in Insts(l)
  PROVE  /\ Elements(l, h) = {h + k : k \in 1..Size(l[h].inst)}
         /\ h \in Nat /\ l[h].inst \in Instruction
         /\ Size(l[h].inst) \in 2..4
<1> DEFINE i == l[h].inst
<1>1. Nodes(l) /\ Shaped(l)
  BY DEF ListInv
<1>2. /\ h \in 1..Len(l) /\ h \in Nat \ {0} /\ Len(l) \in Nat
  BY <1>1, InstIs
<1>3. i \in Instruction /\ Size(i) \in 2..4
  BY <1>1, BlockIs, SizeIs
<1>4. ASSUME NEW k \in 1..Size(i) PROVE h + k \in Elements(l, h)
  <2>1. h + k \in Ops(l) /\ l[h + k].home = h
    BY <1>1, BlockIs
  <2>2. k \in Nat /\ 1 <= k
    BY <1>3
  <2>3. h + k \in 1..Len(l)
    BY <2>1 DEF Ops
  <2> QED
    BY <2>1, <2>2, <2>3, <1>2 DEF Elements
<1>5. ASSUME NEW j \in Elements(l, h) PROVE \E k \in 1..Size(i) : j = h + k
  <2>1. j \in 1..Len(l) /\ l[j].home = h
    BY <1>2 DEF Elements
  <2>2. l[j].kind # "inst"
    <3>1. j \in Insts(l) => l[j].home = 0
      BY <1>1, InstIs DEF InstRec
    <3> QED
      BY <3>1, <2>1, <1>2 DEF Insts
  <2>3. j \in Ops(l)
    BY <2>1, <2>2 DEF Ops
  <2> QED
    BY <2>1, <2>3, <1>1, BlockIs
<1> QED
  BY <1>2, <1>3, <1>4, <1>5

\* What a memory access is made of.
LEMMA AccessIs ==
  ASSUME NEW l, ListInv(l), NEW h \in Insts(l), l[h].inst.op \in {"ldr", "str"}
  PROVE  /\ h \in Nat /\ h + 1 \in Ops(l) /\ h + 2 \in Ops(l) /\ h + 3 \in Ops(l)
         /\ l[h + 1].home = h /\ l[h + 2].home = h /\ l[h + 3].home = h
         /\ l[h + 2].sort = "mem" /\ AddrAt(l, h)
         /\ l[h].inst.c # "imm" => h + 4 \in Ops(l) /\ l[h + 4].home = h
         /\ l[h].inst.op = "ldr" => LoadAt(l, h)
         /\ l[h].inst.op = "str" => StoreAt(l, h)
         /\ Elements(l, h) = IF l[h].inst.c = "imm" THEN {h + 1, h + 2, h + 3}
                             ELSE {h + 1, h + 2, h + 3, h + 4}
         /\ Expression(l, h) = {h + 2} /\ Min(Expression(l, h)) = h + 2
<1> DEFINE i == l[h].inst
<1>1. Nodes(l) /\ Shaped(l)
  BY DEF ListInv
<1>2. /\ BlockAt(l, h) /\ i \in Instruction /\ h \in Nat
      /\ \A k \in 1..Size(i) : h + k \in Ops(l) /\ l[h + k].home = h
  BY <1>1, BlockIs
<1>3. /\ i.c = "imm" => Size(i) = 3
      /\ i.c # "imm" => Size(i) = 4
  BY <1>2, SizeIs
<1>4. /\ i.op = "ldr" => LoadAt(l, h)
      /\ i.op = "str" => StoreAt(l, h)
  BY <1>2 DEF BlockAt, Arithmetic
<1>5. AddrAt(l, h) /\ l[h + 1].sort = "reg"
  BY <1>4 DEF LoadAt, StoreAt, RegNode
<1>6. /\ l[h + 2].sort = "mem" /\ l[h + 3].sort = "reg"
      /\ i.c # "imm" => l[h + 4].sort = "reg"
  BY <1>5 DEF AddrAt, RegNode
<1>7. /\ h + 1 \in Ops(l) /\ h + 2 \in Ops(l) /\ h + 3 \in Ops(l)
      /\ l[h + 1].home = h /\ l[h + 2].home = h /\ l[h + 3].home = h
      /\ i.c # "imm" => h + 4 \in Ops(l) /\ l[h + 4].home = h
  BY <1>2, <1>3
<1>8. Elements(l, h) = IF i.c = "imm" THEN {h + 1, h + 2, h + 3} ELSE {h + 1, h + 2, h + 3, h + 4}
  <2>1. Elements(l, h) = {h + k : k \in 1..Size(i)}
    BY ElementsAre
  <2>2. CASE i.c = "imm"
    <3>1. 1..Size(i) = {1, 2, 3}
      BY <1>3, <2>2
    <3> QED
      BY <2>1, <2>2, <3>1
  <2>3. CASE i.c # "imm"
    <3>1. 1..Size(i) = {1, 2, 3, 4}
      BY <1>3, <2>3
    <3> QED
      BY <2>1, <2>3, <3>1
  <2> QED
    BY <2>2, <2>3
<1>9. Expression(l, h) = {h + 2}
  <2>1. \A j \in Elements(l, h) : IsExp(l[j]) <=> j = h + 2
    BY <1>2, <1>5, <1>6, <1>8 DEF IsExp
  <2>2. h + 2 \in Elements(l, h)
    BY <1>8
  <2> QED
    BY <2>1, <2>2 DEF Expression
<1>10. Min(Expression(l, h)) = h + 2
  BY <1>2, <1>9, MinOne
<1> QED
  BY <1>2, <1>4, <1>5, <1>6, <1>7, <1>8, <1>9, <1>10

\* What another instruction is made of.
LEMMA OtherIs ==
  ASSUME NEW l, ListInv(l), NEW h \in Insts(l), l[h].inst.op \notin {"ldr", "str"}
  PROVE  /\ h \in Nat /\ h + 1 \in Ops(l) /\ h + 2 \in Ops(l)
         /\ l[h].inst.op = "mov" => MovAt(l, h) /\ Elements(l, h) = {h + 1, h + 2}
         /\ l[h].inst.op \in Arithmetic =>
              ArithAt(l, h) /\ Elements(l, h) = {h + 1, h + 2, h + 3} /\ h + 3 \in Ops(l)
         /\ l[h].inst.op = "mov" \/ l[h].inst.op \in Arithmetic
         /\ Expression(l, h) = {}
<1> DEFINE i == l[h].inst
<1>1. Nodes(l) /\ Shaped(l)
  BY DEF ListInv
<1>2. /\ BlockAt(l, h) /\ i \in Instruction /\ h \in Nat
      /\ \A k \in 1..Size(i) : h + k \in Ops(l) /\ l[h + k].home = h
  BY <1>1, BlockIs
<1>3. i.op = "mov" \/ i.op \in Arithmetic
  BY <1>2 DEF Instruction, Arithmetic
<1>4. /\ i.op = "mov" => Size(i) = 2
      /\ i.op \in Arithmetic => Size(i) = 3
  BY <1>2, SizeIs
<1>5. Elements(l, h) = {h + k : k \in 1..Size(i)}
  BY ElementsAre
<1>6. CASE i.op = "mov"
  <2>1. MovAt(l, h) /\ i.op \notin Arithmetic
    BY <1>2, <1>6 DEF BlockAt, Arithmetic
  <2>2. 1..Size(i) = {1, 2}
    BY <1>4, <1>6
  <2>3. Elements(l, h) = {h + 1, h + 2} /\ h + 1 \in Ops(l) /\ h + 2 \in Ops(l)
    BY <1>2, <1>5, <2>2
  <2>4. Expression(l, h) = {}
    BY <2>1, <2>3 DEF Expression, IsExp, MovAt, RegNode
  <2> QED
    BY <1>2, <1>6, <2>1, <2>3, <2>4
<1>7. CASE i.op \in Arithmetic
  <2>1. ArithAt(l, h) /\ i.op # "mov"
    BY <1>2, <1>7 DEF BlockAt, Arithmetic
  <2>2. 1..Size(i) = {1, 2, 3}
    BY <1>4, <1>7
  <2>3. Elements(l, h) = {h + 1, h + 2, h + 3} /\ h + 1 \in Ops(l) /\ h + 2 \in Ops(l) /\ h + 3 \in Ops(l)
    BY <1>2, <1>5, <2>2
  <2>4. Expression(l, h) = {}
    BY <2>1, <2>3 DEF Expression, IsExp, ArithAt, RegNode
  <2> QED
    BY <1>2, <1>7, <2>1, <2>3, <2>4
<1> QED
  BY <1>3, <1>6, <1>7

\* The operand an instruction writes and those it reads.
LEMMA PartsAre ==
  ASSUME NEW l, ListInv(l), NEW h \in Insts(l)
  PROVE  /\ Definition(l, h) = IF l[h].inst.op = "str" THEN h + 2 ELSE h + 1
         /\ l[h].inst.op \in Arithmetic => Operands(l, h) = {h + 2, h + 3}
         /\ l[h].inst.op \in {"mov", "ldr"} => Operands(l, h) = {h + 2}
         /\ l[h].inst.op = "str" => Operands(l, h) = {h + 1}
         /\ l[h].inst.op \in {"mov", "ldr", "str"} \cup Arithmetic
<1> DEFINE i == l[h].inst
<1>1. CASE i.op \in {"ldr", "str"}
  <2>1. /\ Elements(l, h) = IF i.c = "imm" THEN {h + 1, h + 2, h + 3}
                            ELSE {h + 1, h + 2, h + 3, h + 4}
        /\ h \in Nat /\ AddrAt(l, h)
        /\ i.op = "ldr" => LoadAt(l, h)
        /\ i.op = "str" => StoreAt(l, h)
    BY <1>1, AccessIs
  <2>2. /\ l[h + 3].kind = "use" /\ l[h + 3].elem = "Base" /\ l[h + 2].elem = "Opd"
        /\ i.c # "imm" => l[h + 4].kind = "use" /\ l[h + 4].elem = "Index"
    BY <2>1 DEF AddrAt, RegNode
  <2>3. CASE i.op = "ldr"
    <3>1. l[h + 1].kind = "def" /\ l[h + 2].kind = "use"
      BY <2>1, <2>3 DEF LoadAt, RegNode
    <3>2. \A j \in Elements(l, h) : /\ l[j].kind = "def" <=> j = h + 1
                                    /\ l[j].kind = "use" /\ l[j].elem = "Opd" <=> j = h + 2
      BY <2>1, <2>2, <3>1
    <3>3. h + 1 \in Elements(l, h) /\ h + 2 \in Elements(l, h)
      BY <2>1
    <3>4. Definition(l, h) = h + 1 /\ Operands(l, h) = {h + 2}
      BY <3>2, <3>3 DEF Definition, Operands
    <3> QED
      BY <2>3, <3>4 DEF Arithmetic
  <2>4. CASE i.op = "str"
    <3>1. l[h + 1].kind = "use" /\ l[h + 2].kind = "def" /\ l[h + 1].elem = "Opd"
      BY <2>1, <2>4 DEF StoreAt, RegNode
    <3>2. \A j \in Elements(l, h) : /\ l[j].kind = "def" <=> j = h + 2
                                    /\ l[j].kind = "use" /\ l[j].elem = "Opd" <=> j = h + 1
      BY <2>1, <2>2, <3>1
    <3>3. h + 1 \in Elements(l, h) /\ h + 2 \in Elements(l, h)
      BY <2>1
    <3>4. Definition(l, h) = h + 2 /\ Operands(l, h) = {h + 1}
      BY <3>2, <3>3 DEF Definition, Operands
    <3> QED
      BY <2>4, <3>4 DEF Arithmetic
  <2> QED
    BY <1>1, <2>3, <2>4
<1>2. CASE i.op = "mov"
  <2>1. Elements(l, h) = {h + 1, h + 2} /\ MovAt(l, h) /\ h \in Nat
    BY <1>2, OtherIs
  <2>2. \A j \in Elements(l, h) : /\ l[j].kind = "def" <=> j = h + 1
                                  /\ l[j].kind = "use" /\ l[j].elem = "Opd" <=> j = h + 2
    BY <2>1 DEF MovAt, RegNode
  <2>3. h + 1 \in Elements(l, h) /\ h + 2 \in Elements(l, h)
    BY <2>1
  <2>4. Definition(l, h) = h + 1 /\ Operands(l, h) = {h + 2}
    BY <2>2, <2>3 DEF Definition, Operands
  <2> QED
    BY <1>2, <2>4 DEF Arithmetic
<1>3. CASE i.op \in Arithmetic
  <2>1. i.op \notin {"ldr", "str", "mov"}
    BY <1>3 DEF Arithmetic
  <2>2. Elements(l, h) = {h + 1, h + 2, h + 3} /\ ArithAt(l, h) /\ h \in Nat
    BY <1>3, <2>1, OtherIs
  <2>3. \A j \in Elements(l, h) : /\ l[j].kind = "def" <=> j = h + 1
                                  /\ l[j].kind = "use" /\ l[j].elem = "Opd" <=> j \in {h + 2, h + 3}
    BY <2>2 DEF ArithAt, RegNode
  <2>4. h + 1 \in Elements(l, h) /\ h + 2 \in Elements(l, h) /\ h + 3 \in Elements(l, h)
    BY <2>2
  <2>5. Definition(l, h) = h + 1 /\ Operands(l, h) = {h + 2, h + 3}
    BY <2>3, <2>4 DEF Definition, Operands
  <2> QED
    BY <1>3, <2>1, <2>5
<1>4. i.op \in {"ldr", "str"} \/ i.op = "mov" \/ i.op \in Arithmetic
  BY OtherIs
<1> QED
  BY <1>1, <1>2, <1>3, <1>4

-----------------------------------------------------------------------------
(* Expressions. *)

\* m is l but for node e.
Apart(l, m, e) == \A j \in 1..Len(l) : j # e => m[j] = l[j]

\* Filling a right value in after a node.
LEMMA FillAfterIs ==
  ASSUME NEW S, Inv(S), NEW e \in Ops(S.list), NEW v, AfterRight(S.list[e], v)
  PROVE  LET T == FillAfter(S, e, {v}) IN
         Inv(T) /\ Grew(S, T) /\ T.list[e].ak /\ T.usel = S.usel /\ T.defl = S.defl
         /\ Apart(S.list, T.list, e)
<1> DEFINE l == S.list
           x == KnowAfter(l[e], v)
           m == [l EXCEPT ![e] = x]
           T == State(m, S.usel, S.defl, S.instl, S.umem, S.bad)
<1>1. ListInv(l) /\ Nodes(l) /\ Sound(l) /\ Structure(S) /\ Queues(S)
  BY DEF Inv, ListInv, Structure
<1>2. l[e] \in OpNode /\ v \in Val /\ e \in 1..Len(l) /\ Right(l[e], Done(l, e))
  BY <1>1, NodeIs DEF AfterRight, Sound
<1>3. CASE l[e].ak
  <2>1. FillAfter(S, e, {v}) = S
    BY <1>3 DEF FillAfter
  <2> QED
    BY <2>1, <1>3, GrewSelf DEF Apart
<1>4. CASE ~l[e].ak
  <2>0. Max({v}) = v
    <3>1. v \in Nat
      BY <1>2, ReverseExecAssumption DEF Val
    <3> QED
      BY <3>1, MinOne
  <2>1. /\ x \in OpNode /\ SameStatic(l[e], x)
        /\ x.ak /\ x.av = v /\ x.bk = l[e].bk /\ x.bv = l[e].bv /\ x.addr = l[e].addr
    BY <1>2, KnowAfterIs
  <2>2. FillAfter(S, e, {v}) = T
    <3>1. FillAfter(S, e, {v}) = [S EXCEPT !.list = m]
      BY <1>1, <1>4, <2>0 DEF FillAfter, Structure
    <3> QED
      BY <3>1, <1>1, SetIs
  <2> HIDE DEF x
  <2>3. NodeMore(l[e], x)
    BY <2>1, <1>4 DEF NodeMore
  <2>4. Right(x, Done(l, e))
    BY <2>1, <1>2, <1>4 DEF Right, AfterRight, Tracked, SameStatic
  <2>5. ListInv(m) /\ More(l, m) /\ m[e] = x /\ \A j \in 1..Len(l) : j # e => m[j] = l[j]
    BY <1>1, <2>1, <2>3, <2>4, PutList
  <2>6. Ops(m) = Ops(l) /\ UseReady(l) \subseteq UseReady(m) /\ DefReady(l) \subseteq DefReady(m)
    BY <1>1, <2>5, MoreReady, MoreNodes
  <2>7. S.usel \in Seq(UseReady(m)) /\ S.defl \in Seq(DefReady(m))
    <3>1. S.usel \in Seq(UseReady(l)) /\ S.defl \in Seq(DefReady(l))
      BY <1>1 DEF Queues
    <3> QED
      BY <2>6, <3>1, SeqWider
  <2>8. \A j \in Ops(l) : m[j].addr = l[j].addr
    BY <2>1, <2>5 DEF Ops
  <2> HIDE DEF m
  <2>9. /\ Structure(T) /\ T.list = m /\ T.usel = S.usel /\ T.defl = S.defl /\ T.instl = S.instl
        /\ T.umem = S.umem /\ T.bad = S.bad
    BY StateIs
  <2> HIDE DEF T
  <2>10. Grew(S, T)
    BY <2>5, <2>7, <2>8, <2>9 DEF Grew
  <2>11. Inv(T)
    BY <2>5, <2>7, <2>9, <2>10, FlowInv
  <2> QED
    BY <2>1, <2>2, <2>5, <2>9, <2>10, <2>11 DEF Apart
<1> QED
  BY <1>3, <1>4

\* Filling a right value in before a definition.
LEMMA FillBeforeIs ==
  ASSUME NEW S, Inv(S), NEW e \in Ops(S.list), S.list[e].kind = "def",
         NEW v, EarlierRight(S.list[e], v),
         Honest => Done(S.list, e) \/ S.list[e].sort # "mem"
  PROVE  LET T == FillBefore(S, e, {v}) IN
         Inv(T) /\ Grew(S, T) /\ T.usel = S.usel /\ T.defl = S.defl
         /\ Apart(S.list, T.list, e)
<1> DEFINE l == S.list
           x == KnowBefore(l[e], v)
           m == [l EXCEPT ![e] = x]
           T == State(m, S.usel, S.defl, S.instl, S.umem, S.bad)
<1>1. ListInv(l) /\ Nodes(l) /\ Sound(l) /\ Structure(S) /\ Queues(S)
  BY DEF Inv, ListInv, Structure
<1>2. l[e] \in OpNode /\ v \in Val /\ e \in 1..Len(l) /\ Right(l[e], Done(l, e))
  BY <1>1, NodeIs DEF EarlierRight, Sound
<1>3. CASE l[e].bk
  <2>1. FillBefore(S, e, {v}) = S
    BY <1>3 DEF FillBefore
  <2> QED
    BY <2>1, <1>3, GrewSelf DEF Apart
<1>4. CASE ~l[e].bk
  <2>0. Max({v}) = v
    <3>1. v \in Nat
      BY <1>2, ReverseExecAssumption DEF Val
    <3> QED
      BY <3>1, MinOne
  <2>1. /\ x \in OpNode /\ SameStatic(l[e], x)
        /\ x.bk /\ x.bv = v /\ x.ak = l[e].ak /\ x.av = l[e].av /\ x.addr = l[e].addr
    BY <1>2, KnowBeforeIs
  <2>2. FillBefore(S, e, {v}) = T
    <3>1. FillBefore(S, e, {v}) = [S EXCEPT !.list = m]
      BY <1>1, <1>4, <2>0 DEF FillBefore, Structure
    <3> QED
      BY <3>1, <1>1, SetIs
  <2> HIDE DEF x
  <2>3. NodeMore(l[e], x)
    BY <2>1, <1>4 DEF NodeMore
  <2>4. Right(x, Done(l, e))
    BY <2>1, <1>2, <1>4 DEF Right, AfterRight, EarlierRight, Earlier, Tracked, SameStatic
  <2>5. ListInv(m) /\ More(l, m) /\ m[e] = x /\ \A j \in 1..Len(l) : j # e => m[j] = l[j]
    BY <1>1, <2>1, <2>3, <2>4, PutList
  <2>6. Ops(m) = Ops(l) /\ UseReady(l) \subseteq UseReady(m) /\ DefReady(l) \subseteq DefReady(m)
    BY <1>1, <2>5, MoreReady, MoreNodes
  <2>7. S.usel \in Seq(UseReady(m)) /\ S.defl \in Seq(DefReady(m))
    <3>1. S.usel \in Seq(UseReady(l)) /\ S.defl \in Seq(DefReady(l))
      BY <1>1 DEF Queues
    <3> QED
      BY <2>6, <3>1, SeqWider
  <2>8. \A j \in Ops(l) : m[j].addr = l[j].addr
    BY <2>1, <2>5 DEF Ops
  <2> HIDE DEF m
  <2>9. /\ Structure(T) /\ T.list = m /\ T.usel = S.usel /\ T.defl = S.defl /\ T.instl = S.instl
        /\ T.umem = S.umem /\ T.bad = S.bad
    BY StateIs
  <2> HIDE DEF T
  <2>10. Grew(S, T)
    BY <2>5, <2>7, <2>8, <2>9 DEF Grew
  <2>11. Inv(T)
    BY <2>5, <2>7, <2>9, <2>10, FlowInv
  <2> QED
    BY <2>2, <2>5, <2>9, <2>10, <2>11 DEF Apart
<1> QED
  BY <1>3, <1>4

\* The value res_expression takes from nearer the crash is right.
LEMMA FromNextIs ==
  ASSUME Env, NEW S, Inv(S), NEW e \in Ops(S.list), S.list[e].sort = "mem", NEW g \in Val,
         Honest => S.list[e].addr = S.list[e].taddr
  PROVE  \/ FromNext(S, e, g) = {}
         \/ \E v : FromNext(S, e, g) = {v} /\ AfterRight(S.list[e], v)
<1> DEFINE l == S.list
           d == NextOf(l, "def", e)
           u == NextOf(l, "use", e)
           a == l[e].addr
           top == IF a \in Ram THEN core.mem[a] ELSE g
           fromd == (d # 0 => l[d].bk) /\ ~obstacle_between_two_targets(S, d, e)
           fromu == /\ u # 0 /\ ~(d # 0 /\ u < d) /\ l[u].ak
                    /\ ~obstacle_between_two_targets(S, u, e)
<1>1. Nodes(l) /\ Sound(l) /\ l[e] \in OpNode /\ \A k \in Ops(l) : k \in Nat /\ l[k] \in OpNode
  BY NodeIs DEF Inv, ListInv
<1>2. /\ d \in Nat
      /\ d # 0 => d \in Ops(l) /\ d < e /\ l[d].kind = "def" /\ SameTarget(l[d], l[e])
      /\ \A k \in Ops(l) : k < e /\ l[k].kind = "def" /\ SameTarget(l[k], l[e]) => d # 0 /\ k <= d
  BY <1>1, NextIs
<1>3. /\ u \in Nat
      /\ u # 0 => u \in Ops(l) /\ u < e /\ l[u].kind = "use" /\ SameTarget(l[u], l[e])
  BY <1>1, NextIs
<1>4. FromNext(S, e, g) = IF fromd THEN IF d # 0 THEN {l[d].bv} ELSE {top}
                          ELSE IF fromu THEN {l[u].av} ELSE {}
  BY DEF FromNext
<1> HIDE DEF d, u
<1>5. CASE fromd /\ d # 0
  <2>1. d \in Ops(l) /\ d < e /\ l[d].kind = "def" /\ SameTarget(l[d], l[e]) /\ l[d].bk
    BY <1>5, <1>2
  <2>2. \A k \in Ops(l) : d < k /\ k < e /\ l[k].kind = "def" => ~SameTarget(l[k], l[e])
    BY <1>1, <1>2
  <2>3. /\ Tracked(l[d]) <=> Tracked(l[e])
        /\ Tracked(l[e]) => Earlier(l[d]) = l[e].ta
    BY <1>5, <2>1, <2>2, Link
  <2>4. l[d].bv \in Val /\ Right(l[d], Done(l, d))
    BY <2>1, <1>1, FieldsAre DEF Sound
  <2>5. AfterRight(l[e], l[d].bv)
    BY <2>1, <2>3, <2>4 DEF AfterRight, Right, Earlier
  <2>6. FromNext(S, e, g) = {l[d].bv}
    BY <1>4, <1>5
  <2> QED
    BY <2>5, <2>6
<1>6. CASE fromd /\ d = 0
  <2>1. \A k \in Ops(l) : k < e /\ l[k].kind = "def" => ~SameTarget(l[k], l[e])
    BY <1>2, <1>6
  <2>2. ~obstacle_between_two_targets(S, 0, e)
    BY <1>6
  <2>3. top \in Val
    BY EnvIs
  <2>4. ASSUME Tracked(l[e]) PROVE top = l[e].ta
    <3>1. Honest /\ l[e].taddr \in Ram
      BY <2>4 DEF Tracked
    <3>2. a # 0
      BY <3>1, EnvIs
    <3>3. l[e].ta = At(core, l[e]) /\ l[e].taddr = a
      BY <2>1, <2>2, <2>4, <3>2, Top
    <3> QED
      BY <3>1, <3>3 DEF At
  <2>5. AfterRight(l[e], top)
    BY <2>3, <2>4 DEF AfterRight
  <2>6. FromNext(S, e, g) = {top}
    BY <1>4, <1>6
  <2> QED
    BY <2>5, <2>6
<1>7. CASE ~fromd /\ fromu
  <2>1. u \in Ops(l) /\ u < e /\ l[u].kind = "use" /\ SameTarget(l[u], l[e]) /\ ~(d # 0 /\ u < d)
        /\ l[u].ak /\ ~obstacle_between_two_targets(S, u, e)
    BY <1>7, <1>3
  <2>2. \A k \in Ops(l) : u < k /\ k < e /\ l[k].kind = "def" => ~SameTarget(l[k], l[e])
    BY <2>1, <1>1, <1>2
  <2>3. /\ Tracked(l[u]) <=> Tracked(l[e])
        /\ Tracked(l[e]) => Earlier(l[u]) = l[e].ta
    BY <2>1, <2>2, Link
  <2>4. Right(l[u], Done(l, u))
    BY <2>1, <1>1 DEF Sound
  <2>5. AfterRight(l[e], l[u].av)
    BY <2>1, <2>3, <2>4 DEF AfterRight, Right, Earlier
  <2>6. FromNext(S, e, g) = {l[u].av}
    BY <1>4, <1>7
  <2> QED
    BY <2>5, <2>6
<1>8. CASE ~fromd /\ ~fromu
  BY <1>4, <1>8
<1> QED
  BY <1>5, <1>6, <1>7, <1>8

\* The value res_expression takes from further back is right.
LEMMA FromPrevIs ==
  ASSUME Env, NEW S, Inv(S), NEW e \in Ops(S.list), S.list[e].sort = "mem"
  PROVE  \/ FromPrev(S, e) = {}
         \/ \E v : FromPrev(S, e) = {v} /\ EarlierRight(S.list[e], v) /\ (Honest => Done(S.list, e))
<1> DEFINE l == S.list
           d == PrevOf(l, "def", e)
           u == PrevOf(l, "use", e)
           fromd == d # 0 /\ l[d].ak /\ ~obstacle_between_two_targets(S, e, d)
           fromu == /\ u # 0 /\ ~(d # 0 /\ d < u) /\ l[u].ak
                    /\ ~obstacle_between_two_targets(S, e, u)
<1>1. Nodes(l) /\ Sound(l) /\ l[e] \in OpNode /\ \A k \in Ops(l) : k \in Nat /\ l[k] \in OpNode
  BY NodeIs DEF Inv, ListInv
<1>2. /\ d \in Nat
      /\ d # 0 => d \in Ops(l) /\ e < d /\ l[d].kind = "def" /\ SameTarget(l[d], l[e])
      /\ \A k \in Ops(l) : e < k /\ l[k].kind = "def" /\ SameTarget(l[k], l[e]) => d # 0 /\ d <= k
  BY <1>1, PrevIs
<1>3. /\ u \in Nat
      /\ u # 0 => u \in Ops(l) /\ e < u /\ l[u].kind = "use" /\ SameTarget(l[u], l[e])
  BY <1>1, PrevIs
<1>4. FromPrev(S, e) = IF fromd THEN {l[d].av} ELSE IF fromu THEN {l[u].av} ELSE {}
  BY DEF FromPrev
<1> HIDE DEF d, u
<1>5. ASSUME NEW x \in Ops(l), e < x, SameTarget(l[x], l[e]), ~(d # 0 /\ d < x), l[x].ak,
             ~obstacle_between_two_targets(S, e, x)
      PROVE  EarlierRight(l[e], l[x].av) /\ (Honest => Done(l, e))
  <2>1. SameTarget(l[e], l[x])
    BY <1>5 DEF SameTarget
  <2>2. ASSUME NEW k \in Ops(l), e < k, k < x, l[k].kind = "def" PROVE ~SameTarget(l[k], l[x])
    <3>1. SUFFICES ASSUME SameTarget(l[k], l[x]) PROVE FALSE
      OBVIOUS
    <3>2. SameTarget(l[k], l[e])
      BY <3>1, <1>5, SameTargetTrans
    <3>3. d # 0 /\ d <= k
      BY <3>2, <2>2, <1>2
    <3> QED
      BY <3>3, <2>2, <1>1, <1>2, <1>5
  <2>3. /\ Tracked(l[e]) <=> Tracked(l[x])
        /\ Tracked(l[x]) => Earlier(l[e]) = l[x].ta
        /\ Honest /\ l[e].sort = "mem" => Done(l, e)
    BY <1>5, <2>1, <2>2, Link
  <2>4. Right(l[x], Done(l, x))
    BY <1>1 DEF Sound
  <2> QED
    BY <2>3, <2>4, <1>5 DEF EarlierRight, Right, AfterRight
<1>6. CASE fromd
  <2>1. d \in Ops(l) /\ e < d /\ SameTarget(l[d], l[e]) /\ ~(d # 0 /\ d < d)
    BY <1>6, <1>2
  <2>2. EarlierRight(l[e], l[d].av) /\ (Honest => Done(l, e))
    BY <2>1, <1>5, <1>6
  <2> QED
    BY <1>4, <1>6, <2>2
<1>7. CASE ~fromd /\ fromu
  <2>1. u \in Ops(l) /\ e < u /\ SameTarget(l[u], l[e])
    BY <1>7, <1>3
  <2>2. EarlierRight(l[e], l[u].av) /\ (Honest => Done(l, e))
    BY <2>1, <1>5, <1>7
  <2> QED
    BY <1>4, <1>7, <2>2
<1>8. CASE ~fromd /\ ~fromu
  BY <1>4, <1>8
<1> QED
  BY <1>6, <1>7, <1>8

\* What is added to the base register.
Offset(l, e, i) == IF i.c = "imm" THEN i.k ELSE l[e + 2].av

\* The address that an access's registers tell is the one accessed.
LEMMA OffsetIs ==
  ASSUME NEW l, ListInv(l), NEW h \in Insts(l), l[h].inst.op \in {"ldr", "str"},
         AddressKnown(l, h + 2, l[h].inst)
  PROVE  LET a == Wrap(l[h + 3].av + Offset(l, h + 2, l[h].inst)) IN
         a \in Val /\ (Honest => a = l[h + 2].taddr)
<1> DEFINE i == l[h].inst
           x == l[h + 3]
           y == Offset(l, h + 2, i)
           z == IF i.c = "imm" THEN i.k ELSE l[h + 4].ta
<1>1. Nodes(l) /\ Sound(l) /\ i \in Instruction
  BY InstIs DEF ListInv
<1>2. /\ h \in Nat /\ h + 3 \in Ops(l) /\ AddrAt(l, h) /\ (i.c # "imm" => h + 4 \in Ops(l))
      /\ (h + 2) + 1 = h + 3 /\ (h + 2) + 2 = h + 4
  BY AccessIs
<1>3. x.ak /\ x.av \in Val /\ x.sort = "reg" /\ Right(x, Done(l, h + 3))
  BY <1>1, <1>2, NodeIs, FieldsAre DEF AddressKnown, AddrAt, RegNode, Sound
<1>4. i.c # "imm" => /\ l[h + 4].ak /\ l[h + 4].av \in Val /\ l[h + 4].sort = "reg"
                     /\ Right(l[h + 4], Done(l, h + 4))
  BY <1>1, <1>2, NodeIs, FieldsAre DEF AddressKnown, AddrAt, RegNode, Sound
<1>5. y = IF i.c = "imm" THEN i.k ELSE l[h + 4].av
  BY <1>2 DEF Offset
<1>6. y \in Val
  <2>1. i.c = "imm" => i.k \in Val
    BY <1>1 DEF Instruction
  <2> QED
    BY <2>1, <1>4, <1>5
<1>7. Honest => x.av = x.ta /\ y = z
  BY <1>3, <1>4, <1>5 DEF Right, AfterRight, Tracked
<1>8. l[h + 2].taddr = Wrap(x.ta + z)
  BY <1>2 DEF AddrAt
<1> HIDE DEF y, z
<1>9. Wrap(x.av + y) \in Val
  BY <1>3, <1>6, SumIs
<1> QED
  BY <1>7, <1>8, <1>9 DEF y

\* A write whose address was found leaves umemlist; the address is right.
LEMMA AddressFound ==
  ASSUME Env, NEW S, Inv(S), NEW h \in Insts(S.list), S.list[h].inst.op \in {"ldr", "str"},
         AddressKnown(S.list, h + 2, S.list[h].inst), NEW B, B \subseteq Insts(S.list)
  PROVE  LET a == Wrap(S.list[h + 3].av + Offset(S.list, h + 2, S.list[h].inst))
             m == [S.list EXCEPT ![h + 2] = [S.list[h + 2] EXCEPT !.addr = a]]
             T == State(m, S.usel, S.defl, S.instl, RemoveFirst(S.umem, h + 2), B) IN
         /\ Inv(T) /\ More(S.list, m) /\ m[h + 2].addr = a /\ (Honest => a = m[h + 2].taddr)
         /\ Honest => h + 2 \notin Hidden(m)
         /\ \A j \in 1..Len(S.list) : j # h + 2 => m[j] = S.list[j]
<1> DEFINE l == S.list
           i == l[h].inst
           e == h + 2
           a == Wrap(l[h + 3].av + Offset(l, e, i))
           x == [l[e] EXCEPT !.addr = a]
           m == [l EXCEPT ![e] = x]
           q == RemoveFirst(S.umem, e)
           T == State(m, S.usel, S.defl, S.instl, q, B)
<1>1. ListInv(l) /\ Nodes(l) /\ Sound(l) /\ Structure(S) /\ Queues(S) /\ Unknowns(S)
  BY DEF Inv, ListInv, Structure
<1>2. a \in Val /\ (Honest => a = l[e].taddr)
  BY <1>1, OffsetIs
<1>3. e \in Ops(l) /\ l[e].home = h /\ l[e].sort = "mem" /\ e \in 1..Len(l)
  BY <1>1, AccessIs DEF Ops
<1>4. l[e] \in OpNode /\ Right(l[e], Done(l, e)) /\ (Done(l, e) <=> l[e].taddr \in Mapped)
  BY <1>1, <1>3, NodeIs, MemNode DEF Sound
<1> HIDE DEF a
<1>5. /\ x \in OpNode /\ SameStatic(l[e], x)
      /\ x.bk = l[e].bk /\ x.bv = l[e].bv /\ x.ak = l[e].ak /\ x.av = l[e].av /\ x.addr = a
  BY <1>2, <1>4, AddressedIs
<1> HIDE DEF x
<1>6. NodeMore(l[e], x)
  BY <1>2, <1>3, <1>4, <1>5 DEF NodeMore, Right
<1>7. Right(x, Done(l, e))
  BY <1>2, <1>4, <1>5 DEF Right, AfterRight, Tracked, SameStatic
<1>8. ListInv(m) /\ More(l, m) /\ m[e] = x /\ \A j \in 1..Len(l) : j # e => m[j] = l[j]
  BY <1>1, <1>3, <1>5, <1>6, <1>7, PutList
<1> HIDE DEF m
<1>9. /\ Ops(m) = Ops(l) /\ Insts(m) = Insts(l) /\ Nodes(m)
      /\ UseReady(l) \subseteq UseReady(m) /\ DefReady(l) \subseteq DefReady(m)
      /\ \A j \in Ops(l) : SameStatic(l[j], m[j]) /\ (Done(m, j) <=> Done(l, j))
  BY <1>1, <1>8, MoreReady, MoreNodes
<1>10. Honest => e \notin Hidden(m)
  <2> SUFFICES ASSUME Honest, e \in Hidden(m) PROVE FALSE
    OBVIOUS
  <2>1. a = 0 /\ Done(l, e)
    BY <1>3, <1>5, <1>8, <1>9 DEF Hidden
  <2> QED
    BY <2>1, <1>2, <1>4, EnvIs
<1>11. Hidden(m) \subseteq Ops(l) /\ Hidden(l) \subseteq Ops(l)
  BY <1>9 DEF Hidden
<1>12. \A j \in Ops(l) : j # e => (j \in Hidden(m) <=> j \in Hidden(l))
  <2> TAKE j \in Ops(l)
  <2> HAVE j # e
  <2>1. m[j] = l[j]
    BY <1>8 DEF Ops
  <2> QED
    BY <2>1, <1>9 DEF Hidden
<1>13. /\ Structure(T) /\ T.list = m /\ T.usel = S.usel /\ T.defl = S.defl /\ T.instl = S.instl
       /\ T.umem = q /\ T.bad = B
  BY StateIs
<1>14. /\ S.umem \in Seq(Ops(l)) /\ Ops(l) \subseteq Nat
  BY <1>1 DEF Queues, Ops
<1>15. q \in Seq(Ops(l)) /\ (Falling(S.umem) => Without(S.umem, e, q))
  BY <1>14, RemoveIs
<1> HIDE DEF T, q
<1>16. Queues(T)
  <2>1. S.usel \in Seq(UseReady(l)) /\ S.defl \in Seq(DefReady(l)) /\ S.instl \in Seq(Insts(l))
    BY <1>1 DEF Queues
  <2>2. S.usel \in Seq(UseReady(m)) /\ S.defl \in Seq(DefReady(m))
    BY <2>1, <1>9, SeqWider
  <2> QED
    BY <2>1, <2>2, <1>9, <1>13, <1>15 DEF Queues
<1>17. Unknowns(T)
  <2> SUFFICES ASSUME Honest PROVE Unknowns(T)
    BY DEF Unknowns
  <2>1. /\ Falling(S.umem)
        /\ \A b \in 1..Len(S.umem) : S.umem[b] \in Hidden(l)
        /\ \A u \in Hidden(l) : \/ \E b \in 1..Len(S.umem) : S.umem[b] = u
                                \/ /\ \E b \in 1..Len(S.instl) : S.instl[b] = l[u].home
                                   /\ Newest(l, l[u].home)
    BY <1>1 DEF Unknowns, Falling
  <2>2. \A c \in 1..Len(q) : q[c] \in Hidden(m)
    <3> TAKE c \in 1..Len(q)
    <3>1. PICK b \in 1..Len(S.umem) : q[c] = S.umem[b]
      BY <2>1, <1>15 DEF Without
    <3>2. q[c] # e /\ q[c] \in Hidden(l)
      BY <3>1, <2>1, <1>15 DEF Without
    <3> QED
      BY <3>2, <1>11, <1>12
  <2>3. ASSUME NEW u \in Hidden(m)
        PROVE  \/ \E b \in 1..Len(q) : q[b] = u
               \/ /\ \E b \in 1..Len(S.instl) : S.instl[b] = m[u].home
                  /\ Newest(m, m[u].home)
    <3>1. u \in Ops(l) /\ u # e
      BY <1>10, <1>11
    <3>2. u \in Hidden(l) /\ m[u].home = l[u].home
      BY <3>1, <1>12, <1>9 DEF SameStatic
    <3>3. CASE \E b \in 1..Len(S.umem) : S.umem[b] = u
      <4>1. PICK b \in 1..Len(S.umem) : S.umem[b] = u
        BY <3>3
      <4> QED
        BY <4>1, <3>1, <2>1, <1>15 DEF Without
    <3>4. CASE /\ \E b \in 1..Len(S.instl) : S.instl[b] = l[u].home
               /\ Newest(l, l[u].home)
      BY <3>4, <3>2, <1>9 DEF Newest
    <3> QED
      BY <3>2, <3>3, <3>4, <2>1
  <2>4. \A b, c \in 1..Len(q) : b < c => q[b] > q[c]
    BY <2>1, <1>15 DEF Falling, Without
  <2> QED
    BY <2>2, <2>3, <2>4, <1>13 DEF Unknowns
<1>18. Inv(T)
  BY <1>8, <1>13, <1>16, <1>17 DEF Inv, Structure
<1>19. Honest => a = m[e].taddr
  BY <1>2, <1>5, <1>8 DEF SameStatic
<1> QED
  BY <1>5, <1>8, <1>10, <1>18, <1>19 DEF T, q, m, x, a

\* A write whose address stays unknown.
LEMMA AddressUnknown ==
  ASSUME Env, NEW S, Inv(S), NEW h \in Insts(S.list), S.list[h].inst.op = "str",
         ~AddressKnown(S.list, h + 2, S.list[h].inst),
         ~(S.list[h + 2].ak /\ S.list[h + 2].addr # 0)
  PROVE  LET q == add_to_umemlist(S.umem, h + 2)
             T == State(S.list, S.usel, S.defl, S.instl, q, S.bad) IN
         Inv(T) /\ \E a \in 1..Len(q) : q[a] = h + 2
<1> DEFINE l == S.list
           e == h + 2
           q == add_to_umemlist(S.umem, e)
           T == State(l, S.usel, S.defl, S.instl, q, S.bad)
<1>1. /\ ListInv(l) /\ Nodes(l) /\ Structure(S) /\ Queues(S) /\ Unknowns(S)
      /\ Given(l) /\ Addressed(l) /\ Shaped(l)
  BY DEF Inv, ListInv, Structure
<1>2. /\ e \in Ops(l) /\ l[e].home = h /\ l[e].sort = "mem" /\ StoreAt(l, h) /\ h \in Nat
      /\ AddrAt(l, h) /\ h + 3 \in Ops(l) /\ l[h + 3].home = h
      /\ (l[h].inst.c # "imm" => h + 4 \in Ops(l) /\ l[h + 4].home = h)
      /\ e + 1 = h + 3 /\ e + 2 = h + 4
  BY <1>1, AccessIs
<1>3. l[e].addr = 0
  BY <1>1 DEF Addressed
<1>4. l[h].index # 0
  <2> SUFFICES ASSUME l[h].index = 0 PROVE FALSE
    OBVIOUS
  <2>1. \A k \in Ops(l) : l[k].home = h /\ l[k].sort = "reg" => l[k].ak
    BY <1>1 DEF Given
  <2>2. l[h + 3].ak /\ (l[h].inst.c # "imm" => l[h + 4].ak)
    BY <2>1, <1>2 DEF AddrAt, RegNode
  <2> QED
    BY <2>2, <1>2 DEF AddressKnown
<1>5. e \in Hidden(l)
  BY <1>2, <1>3, <1>4 DEF Hidden, StoreAt, Done
<1>6. S.umem \in Seq(Ops(l)) /\ Ops(l) \subseteq Nat
  BY <1>1 DEF Queues, Ops
<1>7. /\ Structure(T) /\ T.list = l /\ T.usel = S.usel /\ T.defl = S.defl /\ T.instl = S.instl
      /\ T.umem = q /\ T.bad = S.bad
  BY StateIs
<1>8. CASE e \in ToSet(S.umem)
  <2>1. q = S.umem /\ \E a \in 1..Len(S.umem) : S.umem[a] = e
    BY <1>6, <1>8 DEF add_to_umemlist, ToSet
  <2>2. T = S
    BY <2>1, <1>1 DEF State, Structure
  <2> QED
    BY <2>1, <2>2
<1>9. CASE e \notin ToSet(S.umem)
  <2>1. q = <<e>> \o S.umem
    BY <1>9 DEF add_to_umemlist
  <2>2. /\ q \in Seq(Ops(l)) /\ Len(q) = Len(S.umem) + 1 /\ q[1] = e /\ Len(S.umem) \in Nat
        /\ \A a \in 1..Len(S.umem) : q[a + 1] = S.umem[a]
    <3> DEFINE A == Ops(l)
               o == S.umem
    <3>1. e \in A /\ o \in Seq(A)
      BY <1>2, <1>6
    <3> HIDE DEF A, o, e
    <3>2. LET r == <<e>> \o o IN
          /\ r \in Seq(A) /\ Len(r) = Len(o) + 1 /\ r[1] = e
          /\ \A a \in 1..Len(o) : r[a + 1] = o[a]
      BY <3>1, PrefixIs
    <3>3. Len(o) \in Nat /\ q = <<e>> \o o
      BY <2>1, <3>1 DEF o
    <3> HIDE DEF q
    <3> QED
      BY <3>2, <3>3 DEF A, o
  <2> HIDE DEF q, T
  <2>3. 1 \in 1..Len(q)
    BY <2>2
  <2>4. \A b \in 1..Len(q) : b = 1 \/ (b - 1 \in 1..Len(S.umem) /\ q[b] = S.umem[b - 1])
    <3> TAKE b \in 1..Len(q)
    <3>1. b # 1 => b - 1 \in 1..Len(S.umem) /\ (b - 1) + 1 = b
      BY <2>2
    <3> QED
      BY <3>1, <2>2
  <2>5. Queues(T)
    BY <1>1, <1>7, <2>2 DEF Queues
  <2>6. Unknowns(T)
    <3> SUFFICES ASSUME Honest PROVE Unknowns(T)
      BY DEF Unknowns
    <3>1. /\ \A a, b \in 1..Len(S.umem) : a < b => S.umem[a] > S.umem[b]
          /\ \A b \in 1..Len(S.umem) : S.umem[b] \in Hidden(l)
          /\ \A u \in Hidden(l) : \/ \E b \in 1..Len(S.umem) : S.umem[b] = u
                                  \/ /\ \E b \in 1..Len(S.instl) : S.instl[b] = l[u].home
                                     /\ Newest(l, l[u].home)
      BY <1>1 DEF Unknowns
    <3>2. Newest(l, h)
      <4>1. ~ \E b \in 1..Len(S.umem) : S.umem[b] = e
        BY <1>9 DEF ToSet
      <4> QED
        BY <4>1, <3>1, <1>5, <1>2
    <3>3. \A b \in 1..Len(S.umem) : S.umem[b] < e
      <4> TAKE b \in 1..Len(S.umem)
      <4> DEFINE u == S.umem[b]
      <4>1. u \in Hidden(l) /\ u # e
        BY <3>1, <1>9 DEF ToSet
      <4>2. u \in Ops(l) /\ l[u].sort = "mem"
        BY <4>1 DEF Hidden
      <4>3. u = l[u].home + 2 /\ l[u].home \in Insts(l) /\ l[u].home \in Nat
        BY <4>2, <1>1, MemNode, NodeIs
      <4>4. l[u].home <= h
        BY <3>2, <4>3 DEF Newest
      <4> HIDE DEF u
      <4>5. u <= e /\ u \in Nat /\ e \in Nat
        BY <4>3, <4>4, <1>2
      <4>6. u < e
        BY <4>5, <4>1
      <4> QED
        BY <4>6 DEF u
    <3>4. \A a, b \in 1..Len(q) : a < b => q[a] > q[b]
      <4> TAKE a, b \in 1..Len(q)
      <4> HAVE a < b
      <4>1. b # 1 /\ b - 1 \in 1..Len(S.umem) /\ q[b] = S.umem[b - 1]
        BY <2>4, <2>2
      <4>2. CASE a = 1
        <5>1. S.umem[b - 1] < e
          BY <4>1, <3>3
        <5>2. e \in Nat /\ S.umem[b - 1] \in Nat
          BY <4>1, <1>2, <1>6
        <5> QED
          BY <4>1, <4>2, <5>1, <5>2, <2>2
      <4>3. CASE a # 1
        <5>1. a - 1 \in 1..Len(S.umem) /\ q[a] = S.umem[a - 1]
          BY <4>3, <2>4
        <5>2. a - 1 < b - 1
          BY <2>2
        <5> QED
          BY <5>1, <5>2, <4>1, <3>1
      <4> QED
        BY <4>2, <4>3
    <3>5. \A b \in 1..Len(q) : q[b] \in Hidden(l)
      BY <2>2, <2>4, <3>1, <1>5
    <3>6. ASSUME NEW u, \E b \in 1..Len(S.umem) : S.umem[b] = u
          PROVE  \E b \in 1..Len(q) : q[b] = u
      <4>1. PICK b \in 1..Len(S.umem) : S.umem[b] = u
        BY <3>6
      <4>2. b + 1 \in 1..Len(q) /\ q[b + 1] = u
        BY <4>1, <2>2
      <4> QED
        BY <4>2
    <3>7. \A u \in Hidden(l) : \/ \E b \in 1..Len(q) : q[b] = u
                               \/ /\ \E b \in 1..Len(S.instl) : S.instl[b] = l[u].home
                                  /\ Newest(l, l[u].home)
      BY <3>1, <3>6
    <3> QED
      BY <3>4, <3>5, <3>7, <1>7 DEF Unknowns
  <2>7. Inv(T)
    BY <1>1, <1>7, <2>5, <2>6 DEF Inv, Structure
  <2> QED
    BY <2>2, <2>3, <2>7 DEF T, q
<1> QED
  BY <1>8, <1>9

\* Filling in a memory operand from both sides.
LEMMA FillsAre ==
  ASSUME Env, NEW S, Inv(S), NEW e \in Ops(S.list), S.list[e].sort = "mem", NEW g \in Val,
         Honest => S.list[e].addr = S.list[e].taddr
  PROVE  LET vs == FromNext(S, e, g)
             ps == FromPrev(S, e)
             T == IF S.list[e].kind = "def" THEN FillAfter(FillBefore(S, e, ps), e, vs)
                  ELSE FillAfter(S, e, IF vs # {} THEN vs ELSE ps) IN
         /\ Inv(T) /\ Grew(S, T) /\ T.usel = S.usel /\ T.defl = S.defl
         /\ Apart(S.list, T.list, e)
         /\ vs # {} => T.list[e].ak
<1> DEFINE l == S.list
           vs == FromNext(S, e, g)
           ps == FromPrev(S, e)
           C == FillBefore(S, e, ps)
<1>1. vs = {} \/ \E v : vs = {v} /\ AfterRight(l[e], v)
  BY FromNextIs
<1>2. ps = {} \/ \E v : ps = {v} /\ EarlierRight(l[e], v) /\ (Honest => Done(l, e))
  BY FromPrevIs
<1>3. Nodes(l) /\ l[e] \in OpNode
  BY NodeIs DEF Inv, ListInv
<1> HIDE DEF vs, ps
<1>4. CASE l[e].kind = "def"
  <2>1. Inv(C) /\ Grew(S, C) /\ C.usel = S.usel /\ C.defl = S.defl /\ Apart(S.list, C.list, e)
    <3>1. CASE ps = {}
      <4>1. C = S
        BY <3>1 DEF FillBefore
      <4> QED
        BY <4>1, GrewSelf DEF Apart
    <3>2. CASE ps # {}
      <4>1. PICK v : ps = {v} /\ EarlierRight(l[e], v) /\ (Honest => Done(l, e))
        BY <3>2, <1>2
      <4> QED
        BY <4>1, <1>4, FillBeforeIs
    <3> QED
      BY <3>1, <3>2
  <2> HIDE DEF C
  <2>2. e \in Ops(C.list) /\ SameStatic(l[e], C.list[e])
    BY <1>3, <2>1, MoreNodes DEF Grew
  <2> DEFINE T == FillAfter(C, e, vs)
  <2>3. /\ Inv(T) /\ Grew(C, T) /\ T.usel = C.usel /\ T.defl = C.defl /\ (vs # {} => T.list[e].ak)
        /\ Apart(C.list, T.list, e)
    <3>1. CASE vs = {}
      <4>1. T = C
        BY <3>1 DEF FillAfter
      <4> QED
        BY <4>1, <3>1, <2>1, GrewSelf DEF Apart
    <3>2. CASE vs # {}
      <4>1. PICK v : vs = {v} /\ AfterRight(l[e], v)
        BY <3>2, <1>1
      <4>2. AfterRight(C.list[e], v)
        BY <4>1, <2>2, StaticRight
      <4> QED
        BY <4>1, <4>2, <2>1, <2>2, FillAfterIs
    <3> QED
      BY <3>1, <3>2
  <2> HIDE DEF T
  <2>4. Grew(S, T)
    BY <2>1, <2>3, GrewTwice
  <2>5. Apart(S.list, T.list, e)
    BY <2>1, <2>3 DEF Apart, Grew, More
  <2> QED
    BY <1>4, <2>1, <2>3, <2>4, <2>5 DEF T, C, vs, ps
<1>5. CASE l[e].kind # "def"
  <2> DEFINE ws == IF vs # {} THEN vs ELSE ps
             T == FillAfter(S, e, ws)
  <2>1. l[e].kind = "use"
    BY <1>5, <1>3, FieldsAre
  <2>2. ws = {} \/ \E v : ws = {v} /\ AfterRight(l[e], v)
    BY <1>1, <1>2, <2>1 DEF EarlierRight, AfterRight, Earlier
  <2>3. vs # {} => ws # {}
    OBVIOUS
  <2> HIDE DEF ws
  <2>4. /\ Inv(T) /\ Grew(S, T) /\ T.usel = S.usel /\ T.defl = S.defl /\ (ws # {} => T.list[e].ak)
        /\ Apart(S.list, T.list, e)
    <3>1. CASE ws = {}
      <4>1. T = S
        BY <3>1 DEF FillAfter
      <4> QED
        BY <4>1, <3>1, GrewSelf DEF Apart
    <3>2. CASE ws # {}
      <4>1. PICK v : ws = {v} /\ AfterRight(l[e], v)
        BY <3>2, <2>2
      <4> QED
        BY <4>1, FillAfterIs
    <3> QED
      BY <3>1, <3>2
  <2> HIDE DEF T
  <2> QED
    BY <1>5, <2>3, <2>4 DEF T, ws, vs, ps
<1> QED
  BY <1>4, <1>5

-----------------------------------------------------------------------------
(* res_expression. *)

\* A and B of res_expression, y the offset.
Locals(S, e, i, y, A, B) ==
  /\ y = (IF i.c = "imm" THEN i.k ELSE S.list[e + 2].av)
  /\ A = [S EXCEPT !.list[e].addr = Wrap(S.list[e + 1].av + y), !.umem = RemoveFirst(@, e)]
  /\ B = IF ReadsBadAddress(A, e) THEN [A EXCEPT !.bad = @ \cup {A.list[e].home}] ELSE A

\* res_expression of an access whose address can be computed, its locals named.
LEMMA KnownExpression ==
  ASSUME NEW S, NEW e, NEW i, NEW g, AddressKnown(S.list, e, i), NEW A, NEW B, NEW y,
         Locals(S, e, i, y, A, B)
  PROVE  res_expression(S, e, i, g) =
           IF S.list[e].kind = "def" THEN FillAfter(FillBefore(B, e, FromPrev(B, e)), e, FromNext(B, e, g))
           ELSE FillAfter(B, e, IF FromNext(B, e, g) # {} THEN FromNext(B, e, g) ELSE FromPrev(B, e))
<1>1. y = (IF i.c = "imm" THEN i.k ELSE S.list[e + 2].av)
  BY DEF Locals
<1> QED
  BY DEF res_expression, Locals

\* m is l, or the address of the memory operand of h was computed in it.
Found(l, m, h) ==
  \/ m = l
  \/ /\ l[h].inst.op \in {"ldr", "str"} /\ AddressKnown(l, h + 2, l[h].inst)
     /\ m[h + 2].addr = Wrap(l[h + 3].av + Offset(l, h + 2, l[h].inst))

\* res_expression keeps the invariant; a write it leaves hidden is in umemlist.
LEMMA ResExpressionIs ==
  ASSUME Env, NEW S, Inv(S), NEW h \in Insts(S.list), S.list[h].inst.op \in {"ldr", "str"},
         ~(S.list[h + 2].ak /\ S.list[h + 2].addr # 0), NEW g \in Val
  PROVE  LET T == res_expression(S, h + 2, S.list[h].inst, g) IN
         /\ Inv(T) /\ More(S.list, T.list)
         /\ T.usel = S.usel /\ T.defl = S.defl /\ T.instl = S.instl
         /\ Honest /\ h + 2 \in Hidden(T.list) => \E a \in 1..Len(T.umem) : T.umem[a] = h + 2
         /\ Honest /\ S.list[h].index = 0 /\ S.list[h].inst.op = "str" => T.list[h + 2].ak
         /\ Apart(S.list, T.list, h + 2) /\ Found(S.list, T.list, h)
<1> DEFINE l == S.list
           e == h + 2
           i == l[h].inst
           a == Wrap(l[h + 3].av + Offset(l, e, i))
           m == [l EXCEPT ![e] = [l[e] EXCEPT !.addr = a]]
           q == RemoveFirst(S.umem, e)
           A == State(m, S.usel, S.defl, S.instl, q, S.bad)
           D == IF ReadsBadAddress(A, e) THEN S.bad \cup {h} ELSE S.bad
           B == State(m, S.usel, S.defl, S.instl, q, D)
           vs == FromNext(B, e, g)
           ps == FromPrev(B, e)
           F == IF l[e].kind = "def" THEN FillAfter(FillBefore(B, e, ps), e, vs)
                ELSE FillAfter(B, e, IF vs # {} THEN vs ELSE ps)
           T == res_expression(S, e, i, g)
<1>1. ListInv(l) /\ Nodes(l) /\ Structure(S) /\ Queues(S) /\ Given(l)
  BY DEF Inv, ListInv, Structure
<1>2. /\ e \in Ops(l) /\ l[e].home = h /\ l[e].sort = "mem" /\ h \in Nat
      /\ l[e].kind = "def" <=> i.op = "str"
      /\ AddrAt(l, h) /\ e + 1 = h + 3 /\ e + 2 = h + 4 /\ e \in Nat /\ e \in 1..Len(l)
      /\ h + 1 \in Ops(l) /\ h + 3 \in Ops(l) /\ l[h + 3].home = h
      /\ (i.c # "imm" => h + 4 \in Ops(l) /\ l[h + 4].home = h)
  BY <1>1, AccessIs, MemNode, NodeIs
<1>3. CASE AddressKnown(l, e, i)
  <2>1. A = [S EXCEPT !.list[e].addr = a, !.umem = RemoveFirst(@, e)]
    <3>1. [S EXCEPT !.list[e].addr = a, !.umem = RemoveFirst(@, e)] = [S EXCEPT !.list = m, !.umem = q]
      BY <1>1 DEF Structure
    <3> QED
      BY <3>1, <1>1, SetTwo
  <2>2. /\ Structure(A) /\ A.list = m /\ A.usel = S.usel /\ A.defl = S.defl /\ A.instl = S.instl
        /\ A.umem = q /\ A.bad = S.bad
    BY StateIs
  <2>3. m[e].home = h /\ m[e].kind = l[e].kind
    BY <1>2, <1>1, NodeIs, AddressedIs, PutIs DEF Nodes, OpNode
  <2>4. B = IF ReadsBadAddress(A, e) THEN [A EXCEPT !.bad = @ \cup {A.list[e].home}] ELSE A
    <3>1. CASE ReadsBadAddress(A, e)
      <4>1. [A EXCEPT !.bad = @ \cup {A.list[e].home}] = [A EXCEPT !.bad = D]
        BY <2>2, <2>3, <3>1 DEF Structure
      <4>2. [A EXCEPT !.bad = D] = B
        <5> HIDE DEF A, D
        <5>1. [A EXCEPT !.bad = D] = State(A.list, A.usel, A.defl, A.instl, A.umem, D)
          BY <2>2, SetIs
        <5> QED
          BY <5>1, <2>2
      <4> QED
        BY <3>1, <4>1, <4>2
    <3>2. CASE ~ReadsBadAddress(A, e)
      BY <3>2
    <3> QED
      BY <3>1, <3>2
  <2>5. T = F
    <3> DEFINE y == Offset(l, e, i)
    <3>1. y = (IF i.c = "imm" THEN i.k ELSE l[e + 2].av)
      BY DEF Offset
    <3>2. A = [S EXCEPT !.list[e].addr = Wrap(l[e + 1].av + y), !.umem = RemoveFirst(@, e)]
      BY <2>1, <1>2
    <3> HIDE DEF A, B, y, e
    <3>3. T = IF l[e].kind = "def" THEN FillAfter(FillBefore(B, e, FromPrev(B, e)), e, FromNext(B, e, g))
              ELSE FillAfter(B, e, IF FromNext(B, e, g) # {} THEN FromNext(B, e, g) ELSE FromPrev(B, e))
      <4>1. Locals(S, e, i, y, A, B)
        BY <3>1, <3>2, <2>4 DEF Locals
      <4> QED
        BY <4>1, <1>3, KnownExpression
    <3> QED
      BY <3>3
  <2>6. D \subseteq Insts(l)
    BY <1>1 DEF Queues
  <2>7. /\ Structure(B) /\ B.list = m /\ B.usel = S.usel /\ B.defl = S.defl /\ B.instl = S.instl
        /\ B.umem = q /\ B.bad = D
    BY StateIs
  <2> HIDE DEF D
  <2>8. /\ Inv(B) /\ More(l, m) /\ m[e].addr = a /\ (Honest => a = m[e].taddr)
        /\ Honest => e \notin Hidden(m)
        /\ \A j \in 1..Len(l) : j # e => m[j] = l[j]
    BY <1>3, <2>6, AddressFound
  <2>9. Ops(m) = Ops(l) /\ SameStatic(l[e], m[e]) /\ Insts(m) = Insts(l) /\ m[h] = l[h]
    BY <1>1, <1>2, <2>8, MoreNodes
  <2>15. AddressKnown(l, h + 2, l[h].inst) /\ a = Wrap(l[h + 3].av + Offset(l, h + 2, l[h].inst))
    BY <1>3
  <2> HIDE DEF A, B, m, a
  <2>10. /\ Inv(F) /\ Grew(B, F) /\ F.usel = B.usel /\ F.defl = B.defl /\ (vs # {} => F.list[e].ak)
         /\ Apart(B.list, F.list, e)
    <3>1. e \in Ops(B.list) /\ B.list[e].sort = "mem" /\ B.list[e].kind = l[e].kind
      BY <2>7, <2>9, <1>2 DEF SameStatic
    <3>2. Honest => B.list[e].addr = B.list[e].taddr
      BY <2>7, <2>8
    <3> HIDE DEF e, F, vs, ps
    <3> QED
      BY <3>1, <3>2, <2>8, FillsAre DEF F, vs, ps
  <2>11. Nodes(m)
    BY <1>1, <2>8, MoreNodes
  <2>12. More(l, F.list) /\ F.instl = S.instl
    BY <1>1, <2>7, <2>8, <2>10, MoreTwice DEF Grew
  <2>13. Honest => e \notin Hidden(F.list)
    BY <2>7, <2>8, <2>10, <2>11, SameHidden DEF Grew
  <2>14. ASSUME Honest, l[h].index = 0, i.op = "str" PROVE vs # {}
    <3>1. h = 1
      BY <1>1, <2>14 DEF ListInv, Shaped
    <3>2. \A k \in Ops(m) : k < e => m[k].kind = "use"
      <4> SUFFICES ASSUME NEW k \in Ops(m), k < e PROVE m[k].kind = "use"
        OBVIOUS
      <4>1. k \in Ops(l) /\ k \in Nat \ {0} /\ k # 1
        BY <2>9, <1>1, <3>1, NodeIs DEF Ops, Insts
      <4>2. k = h + 1
        BY <4>1, <3>1
      <4>3. l[k].kind = "use"
        BY <4>2, <2>14, <1>1, AccessIs DEF StoreAt, RegNode
      <4> QED
        BY <4>1, <4>3, <1>1, <2>8, MoreNodes DEF SameStatic
    <3>3. NextOf(m, "def", e) = 0
      <4> DEFINE d == NextOf(m, "def", e)
      <4>1. /\ d # 0 => d \in Ops(m) /\ d < e /\ m[d].kind = "def"
        BY <2>11, <2>9, <1>2, NextIs
      <4> QED
        BY <4>1, <3>2
    <3>4. ~check_next_unknown_write(m, 0, e)
      <4> SUFFICES ASSUME NEW j \in 1..(e - 1), m[j].kind = "def" PROVE FALSE
        BY DEF check_next_unknown_write
      <4>1. j \in 1..Len(m) /\ j < e /\ m[j].kind # "inst"
        BY <1>2, <2>8 DEF More
      <4>2. j \in Ops(m)
        BY <4>1 DEF Ops
      <4> QED
        BY <4>1, <4>2, <3>2
    <3>5. ~obstacle_between_two_targets(B, 0, e)
      BY <3>4, <2>7 DEF obstacle_between_two_targets
    <3> QED
      BY <3>3, <3>5, <2>7 DEF FromNext
  <2> HIDE DEF F, vs
  <2>16. Apart(l, F.list, e)
    BY <2>7, <2>8, <2>10 DEF Apart, More
  <2>17. Found(l, F.list, h)
    <3>1. e \in Ops(B.list) /\ B.list[e].addr = a
      BY <2>7, <2>8, <2>9, <1>2
    <3>2. F.list[e].addr = a
      BY <3>1, <2>10 DEF Grew
    <3> QED
      BY <3>2, <2>15 DEF Found
  <2> QED
    BY <2>5, <2>7, <2>10, <2>12, <2>13, <2>14, <2>16, <2>17
<1>4. CASE ~AddressKnown(l, e, i)
  <2>0. More(l, l)
    BY GrewSelf DEF Grew
  <2>1. CASE i.op = "str"
    <3> DEFINE r == add_to_umemlist(S.umem, e)
               U == State(l, S.usel, S.defl, S.instl, r, S.bad)
    <3>1. T = U
      <4>1. T = [S EXCEPT !.umem = r]
        BY <1>2, <1>4, <2>1, <1>1 DEF res_expression, Structure
      <4> QED
        BY <4>1, <1>1, SetIs
    <3>2. Inv(U) /\ \E b \in 1..Len(r) : r[b] = e
      BY <1>4, <2>1, AddressUnknown
    <3>3. /\ U.list = l /\ U.usel = S.usel /\ U.defl = S.defl /\ U.instl = S.instl /\ U.umem = r
      BY StateIs
    <3>4. ~(l[h].index = 0)
      <4> SUFFICES ASSUME l[h].index = 0 PROVE FALSE
        OBVIOUS
      <4>1. \A k \in Ops(l) : l[k].home = h /\ l[k].sort = "reg" => l[k].ak
        BY <1>1, <2>1 DEF Given
      <4>2. l[h + 3].ak /\ (i.c # "imm" => l[h + 4].ak)
        BY <4>1, <1>2 DEF AddrAt, RegNode
      <4> QED
        BY <4>2, <1>4, <1>2 DEF AddressKnown
    <3>5. Apart(l, l, e) /\ Found(l, l, h)
      BY DEF Apart, Found
    <3> QED
      BY <2>0, <3>1, <3>2, <3>3, <3>4, <3>5
  <2>2. CASE i.op = "ldr"
    <3>1. T = S
      BY <1>2, <1>4, <2>2 DEF res_expression
    <3>2. e \notin Hidden(l)
      BY <1>2, <2>2 DEF Hidden
    <3>3. Apart(l, l, e) /\ Found(l, l, h)
      BY DEF Apart, Found
    <3> QED
      BY <2>0, <2>2, <3>1, <3>2, <3>3
  <2> QED
    BY <2>1, <2>2
<1> QED
  BY <1>3, <1>4
-----------------------------------------------------------------------------
(* resolve_inst. *)

\* An operand that is queued.
UseQueued(S, e) == [S EXCEPT !.usel = add_to_list(@, e)]
DefQueued(S, e) == [S EXCEPT !.defl = add_to_list(@, e)]

\* Queueing an operand that has a value.
LEMMA QueuedIs ==
  ASSUME NEW S, Inv(S), NEW e
  PROVE  /\ e \in UseReady(S.list) =>
              LET T == UseQueued(S, e) IN
              /\ Inv(T) /\ T.list = S.list /\ T.defl = S.defl /\ T.instl = S.instl
              /\ T.umem = S.umem /\ Len(S.usel) <= Len(T.usel)
              /\ T.usel = add_to_list(S.usel, e)
         /\ e \in DefReady(S.list) =>
              LET T == DefQueued(S, e) IN
              /\ Inv(T) /\ T.list = S.list /\ T.usel = S.usel /\ T.instl = S.instl
              /\ T.umem = S.umem /\ Len(S.defl) <= Len(T.defl)
              /\ T.defl = add_to_list(S.defl, e)
<1>1. Structure(S) /\ Queues(S) /\ Unknowns(S) /\ ListInv(S.list)
  BY DEF Inv, Structure
<1>2. ASSUME e \in UseReady(S.list)
      PROVE  LET T == UseQueued(S, e) IN
             /\ Inv(T) /\ T.list = S.list /\ T.defl = S.defl /\ T.instl = S.instl
             /\ T.umem = S.umem /\ Len(S.usel) <= Len(T.usel)
             /\ T.usel = add_to_list(S.usel, e)
  <2> DEFINE q == add_to_list(S.usel, e)
             T == State(S.list, q, S.defl, S.instl, S.umem, S.bad)
  <2>1. UseQueued(S, e) = T
    <3>1. UseQueued(S, e) = [S EXCEPT !.usel = q]
      BY <1>1 DEF Structure, UseQueued, DefQueued
    <3> QED
      BY <3>1, <1>1, SetIs
  <2>2. q \in Seq(UseReady(S.list)) /\ Len(S.usel) <= Len(q)
    <3>1. S.usel \in Seq(UseReady(S.list))
      BY <1>1 DEF Queues
    <3> QED
      BY <3>1, <1>2, AddIs
  <2>3. /\ Structure(T) /\ T.list = S.list /\ T.usel = q /\ T.defl = S.defl /\ T.instl = S.instl
        /\ T.umem = S.umem /\ T.bad = S.bad
    BY StateIs
  <2> HIDE DEF T, q
  <2>4. Inv(T)
    BY <1>1, <2>2, <2>3 DEF Inv, Structure, Queues, Unknowns
  <2> QED
    BY <2>1, <2>2, <2>3, <2>4 DEF q
<1>3. ASSUME e \in DefReady(S.list)
      PROVE  LET T == DefQueued(S, e) IN
             /\ Inv(T) /\ T.list = S.list /\ T.usel = S.usel /\ T.instl = S.instl
             /\ T.umem = S.umem /\ Len(S.defl) <= Len(T.defl)
             /\ T.defl = add_to_list(S.defl, e)
  <2> DEFINE q == add_to_list(S.defl, e)
             T == State(S.list, S.usel, q, S.instl, S.umem, S.bad)
  <2>1. DefQueued(S, e) = T
    <3>1. DefQueued(S, e) = [S EXCEPT !.defl = q]
      BY <1>1 DEF Structure, UseQueued, DefQueued
    <3> QED
      BY <3>1, <1>1, SetIs
  <2>2. q \in Seq(DefReady(S.list)) /\ Len(S.defl) <= Len(q)
    <3>1. S.defl \in Seq(DefReady(S.list))
      BY <1>1 DEF Queues
    <3> QED
      BY <3>1, <1>3, AddIs
  <2>3. /\ Structure(T) /\ T.list = S.list /\ T.usel = S.usel /\ T.defl = q /\ T.instl = S.instl
        /\ T.umem = S.umem /\ T.bad = S.bad
    BY StateIs
  <2> HIDE DEF T, q
  <2>4. Inv(T)
    BY <1>1, <2>2, <2>3 DEF Inv, Structure, Queues, Unknowns
  <2> QED
    BY <2>1, <2>2, <2>3, <2>4 DEF q
<1> QED
  BY <1>2, <1>3

\* What is left of instruction h: its write is on umemlist while its address is unknown,
\* and at the crash site its value is known.
Settled(T, h) ==
  /\ Honest /\ h + 2 \in Hidden(T.list) => \E a \in 1..Len(T.umem) : T.umem[a] = h + 2
  /\ Honest /\ T.list[h].index = 0 /\ T.list[h].inst.op = "str" => T.list[h + 2].ak

\* What traverse_inst_operand does to h's memory operand: it is queued when its value and
\* its address are known and one of them was not.
Traversed(S, T, h) ==
  /\ Apart(S.list, T.list, h + 2) /\ Found(S.list, T.list, h)
  /\ T.list = S.list \/ ~S.list[h + 2].ak \/ S.list[h + 2].addr = 0
  /\ \/ T.usel = S.usel /\ T.defl = S.defl
     \/ /\ h + 2 \in Ops(S.list) /\ S.list[h + 2].sort = "mem"
        /\ T.list[h + 2].ak /\ T.list[h + 2].addr # 0
        /\ ~S.list[h + 2].ak \/ S.list[h + 2].addr = 0
        /\ \/ T.usel = add_to_list(S.usel, h + 2) /\ T.defl = S.defl
           \/ T.defl = add_to_list(S.defl, h + 2) /\ T.usel = S.usel

\* traverse_inst_operand keeps the invariant and settles its instruction.
LEMMA TraverseIs ==
  ASSUME Env, NEW S, Inv(S), NEW h \in Insts(S.list), NEW g \in Val
  PROVE  LET T == traverse_inst_operand(S, h, g) IN
         /\ Inv(T) /\ Stepped(S, T) /\ T.instl = S.instl /\ Settled(T, h) /\ Traversed(S, T, h)
<1> DEFINE l == S.list
           e == h + 2
           i == l[h].inst
           T == traverse_inst_operand(S, h, g)
<1>1. /\ ListInv(l) /\ Nodes(l) /\ More(l, l)
      /\ Len(S.usel) \in Nat /\ Len(S.defl) \in Nat /\ Len(S.instl) \in Nat
  BY GrewSelf DEF Inv, ListInv, Grew, Queues
<1>2. Stepped(S, S) /\ Traversed(S, S, h)
  BY <1>1 DEF Stepped, Traversed, Apart, Found
<1>3. CASE i.op \notin {"ldr", "str"}
  <2>1. Expression(l, h) = {} /\ h \in Nat
    BY <1>1, <1>3, OtherIs
  <2>2. T = S
    BY <2>1 DEF traverse_inst_operand
  <2>3. e \notin Hidden(l)
    <3> SUFFICES ASSUME e \in Hidden(l) PROVE FALSE
      OBVIOUS
    <3>1. e \in Ops(l) /\ l[e].sort = "mem"
      BY DEF Hidden
    <3>2. l[e].home \in Insts(l) /\ e = l[e].home + 2 /\ l[l[e].home].inst.op \in {"ldr", "str"}
      BY <3>1, <1>1, MemNode, NodeIs
    <3>3. l[e].home = h
      BY <3>2, <1>1, <2>1, InstIs
    <3> QED
      BY <3>2, <3>3, <1>3
  <2> QED
    BY <1>2, <1>3, <2>2, <2>3 DEF Settled
<1>4. CASE i.op \in {"ldr", "str"}
  <2>1. /\ Expression(l, h) # {} /\ Min(Expression(l, h)) = e /\ e \in Ops(l) /\ h \in Nat
        /\ l[e].kind = "def" <=> i.op = "str"
        /\ l[e].sort = "mem"
    <3>1. /\ Expression(l, h) = {e} /\ Min(Expression(l, h)) = e /\ e \in Ops(l) /\ h \in Nat
          /\ l[e].home = h /\ l[e].sort = "mem"
      BY <1>1, <1>4, AccessIs
    <3>2. l[e].kind = "def" <=> i.op = "str"
      BY <3>1, <1>1, MemNode
    <3> QED
      BY <3>1, <3>2
  <2>2. CASE l[e].ak /\ l[e].addr # 0
    <3>1. T = S
      BY <2>1, <2>2 DEF traverse_inst_operand
    <3>2. e \notin Hidden(l)
      BY <2>2 DEF Hidden
    <3> QED
      BY <1>2, <2>2, <3>1, <3>2 DEF Settled
  <2>3. CASE ~(l[e].ak /\ l[e].addr # 0)
    <3> DEFINE U == res_expression(S, e, i, g)
    <3>1. /\ Apart(l, U.list, e) /\ Found(l, U.list, h)
          /\ Inv(U) /\ More(l, U.list) /\ U.usel = S.usel /\ U.defl = S.defl /\ U.instl = S.instl
          /\ Honest /\ e \in Hidden(U.list) => \E a \in 1..Len(U.umem) : U.umem[a] = e
          /\ Honest /\ l[h].index = 0 /\ i.op = "str" => U.list[e].ak
      BY <1>4, <2>3, ResExpressionIs
    <3>2. U.list[h] = l[h] /\ e \in Ops(U.list) /\ U.list[e].kind = l[e].kind /\ U.list[e] \in OpNode
      BY <3>1, <1>1, <2>1, MoreNodes DEF SameStatic
    <3>3. \/ T = U
          \/ /\ U.list[e].ak /\ l[e].kind = "def" /\ U.list[e].addr # 0
             /\ T = DefQueued(U, e)
          \/ /\ U.list[e].ak /\ l[e].kind # "def" /\ U.list[e].addr # 0
             /\ T = UseQueued(U, e)
      <4> HIDE DEF e
      <4> QED
        BY <2>1, <2>3 DEF traverse_inst_operand, UseQueued, DefQueued
    <3> HIDE DEF U, T
    <3>4. /\ Inv(T) /\ T.list = U.list /\ T.instl = U.instl /\ T.umem = U.umem
          /\ Len(S.usel) <= Len(T.usel) /\ Len(S.defl) <= Len(T.defl)
          /\ \/ T.usel = S.usel /\ T.defl = S.defl
             \/ /\ U.list[e].ak /\ U.list[e].addr # 0
                /\ \/ T.usel = add_to_list(S.usel, e) /\ T.defl = S.defl
                   \/ T.defl = add_to_list(S.defl, e) /\ T.usel = S.usel
      <4>1. CASE T = U
        BY <4>1, <3>1, <1>1
      <4>2. CASE U.list[e].ak /\ l[e].kind = "def" /\ U.list[e].addr # 0 /\ T = DefQueued(U, e)
        <5>1. e \in DefReady(U.list)
          BY <4>2, <3>2 DEF DefReady
        <5> QED
          BY <5>1, <4>2, <3>1, <1>1, QueuedIs
      <4>3. CASE U.list[e].ak /\ l[e].kind # "def" /\ U.list[e].addr # 0 /\ T = UseQueued(U, e)
        <5>1. e \in UseReady(U.list)
          BY <4>3, <3>2, FieldsAre DEF UseReady
        <5> QED
          BY <5>1, <4>3, <3>1, <1>1, QueuedIs
      <4> QED
        BY <3>3, <4>1, <4>2, <4>3
    <3>5. Stepped(S, T)
      BY <3>1, <3>4, <1>1 DEF Stepped
    <3>6. Settled(T, h)
      BY <3>1, <3>2, <3>4 DEF Settled
    <3>7. Traversed(S, T, h)
      BY <2>1, <2>3, <3>1, <3>4 DEF Traversed
    <3> QED
      BY <3>1, <3>4, <3>5, <3>6, <3>7 DEF T
  <2> QED
    BY <2>2, <2>3
<1> QED
  BY <1>3, <1>4
-----------------------------------------------------------------------------
(* The resolvers. *)

\* A copy between two operands that had one value.
LEMMA CopyIs ==
  ASSUME NEW S, Inv(S), NEW u \in Ops(S.list), NEW d \in Ops(S.list),
         S.list[u].ak /\ ~S.list[d].ak => AfterRight(S.list[d], S.list[u].av),
         S.list[d].ak /\ ~S.list[u].ak => AfterRight(S.list[u], S.list[d].av)
  PROVE  Inv(Copy(S, u, d)) /\ Grew(S, Copy(S, u, d))
<1>1. Grew(S, S)
  BY GrewSelf
<1>2. CASE S.list[u].ak /\ ~S.list[d].ak
  BY <1>2, AfterFlow DEF Copy
<1>3. CASE S.list[u].ak /\ S.list[d].ak
  BY <1>1, <1>3 DEF Copy, After
<1>4. CASE ~S.list[u].ak /\ S.list[d].ak
  BY <1>4, AfterFlow DEF Copy
<1>5. CASE ~S.list[u].ak /\ ~S.list[d].ak
  BY <1>1, <1>5 DEF Copy
<1> QED
  BY <1>2, <1>3, <1>4, <1>5

\* What the resolvers infer is what the instruction computed; rsb is not resolved right.
LEMMA InferredIs ==
  ASSUME NEW op \in Arithmetic, NEW x \in Val, NEW y \in Val
  PROVE  /\ Computed(op, x, y) \in Val /\ FirstFrom(op, x, y) \in Val /\ SecondFrom(op, x, y) \in Val
         /\ op # "rsb" => /\ Computed(op, x, y) = Result(op, x, y)
                          /\ FirstFrom(op, Result(op, x, y), y) = x
                          /\ SecondFrom(op, Result(op, x, y), x) = y
<1>1. /\ Wrap(x + y) \in Val /\ Minus(x, y) \in Val /\ Minus(y, x) \in Val
      /\ Minus(Wrap(x + y), y) = x /\ Minus(Wrap(x + y), x) = y
      /\ Wrap(Minus(x, y) + y) = x /\ Minus(x, Minus(x, y)) = y
  BY SumIs, MinusIs, Inverses
<1>2. CASE op = "add"
  BY <1>1, <1>2 DEF Computed, FirstFrom, SecondFrom, Result, Arithmetic
<1>3. CASE op = "sub"
  BY <1>1, <1>3 DEF Computed, FirstFrom, SecondFrom, Result, Arithmetic
<1>4. CASE op = "rsb"
  BY <1>1, <1>4 DEF Computed, FirstFrom, SecondFrom
<1> QED
  BY <1>2, <1>3, <1>4 DEF Arithmetic

\* The resolver of an arithmetic instruction.
LEMMA SolveIs ==
  ASSUME NEW S, Inv(S), NEW h \in Insts(S.list), S.list[h].inst.op \in Arithmetic
  PROVE  LET T == Solve(S, S.list[h].inst.op, h + 2, h + 3, h + 1) IN Inv(T) /\ Grew(S, T)
<1> DEFINE l == S.list
           op == l[h].inst.op
           d == h + 1
           u1 == h + 2
           u2 == h + 3
           T == Solve(S, op, u1, u2, d)
<1>1. ListInv(l) /\ Nodes(l) /\ Sound(l) /\ Grew(S, S)
  BY GrewSelf DEF Inv, ListInv
<1>2. /\ h \in Nat /\ d \in Ops(l) /\ u1 \in Ops(l) /\ u2 \in Ops(l) /\ ArithAt(l, h)
  BY <1>1, OtherIs DEF Arithmetic
<1>3. /\ l[d] \in OpNode /\ l[u1] \in OpNode /\ l[u2] \in OpNode
  BY <1>1, <1>2, NodeIs
<1>4. /\ l[d].ta = Result(op, l[u1].ta, l[u2].ta)
      /\ l[d].sort = "reg" /\ l[u1].sort = "reg" /\ l[u2].sort \in {"reg", "imm"}
  BY <1>2 DEF ArithAt, RegNode
<1>5. /\ l[d].ta \in Val /\ l[u1].ta \in Val /\ l[u2].ta \in Val
      /\ l[d].av \in Val /\ l[u1].av \in Val /\ l[u2].av \in Val
  BY <1>3, FieldsAre
<1>6. Honest => op # "rsb"
  <2>1. l[h].inst \in Code
    BY <1>1 DEF ListInv, Shaped, BlockAt
  <2> QED
    BY <2>1 DEF Honest
<1>7. /\ Honest /\ l[d].ak => l[d].av = l[d].ta
      /\ Honest /\ l[u1].ak => l[u1].av = l[u1].ta
      /\ Honest /\ l[u2].ak => l[u2].av = l[u2].ta
  <2>1. \A j \in {d, u1, u2} : Right(l[j], Done(l, j))
    BY <1>1, <1>2 DEF Sound
  <2>2. Honest => Tracked(l[d]) /\ Tracked(l[u1]) /\ Tracked(l[u2])
    BY <1>4 DEF Tracked
  <2> QED
    BY <2>1, <2>2 DEF Right, AfterRight
<1>8. /\ Honest => /\ Computed(op, l[u1].ta, l[u2].ta) = l[d].ta
                   /\ FirstFrom(op, l[d].ta, l[u2].ta) = l[u1].ta
                   /\ SecondFrom(op, l[d].ta, l[u1].ta) = l[u2].ta
  BY <1>4, <1>5, <1>6, InferredIs
<1>9. /\ Computed(op, l[u1].av, l[u2].av) \in Val
      /\ FirstFrom(op, l[d].av, l[u2].av) \in Val
      /\ SecondFrom(op, l[d].av, l[u1].av) \in Val
  BY <1>5, InferredIs
<1>10. op \in Arithmetic
  OBVIOUS
<1> HIDE DEF d, u1, u2, op
<1>11. CASE l[d].ak /\ l[u1].ak /\ ~l[u2].ak
  <2>1. T = After(S, u2, SecondFrom(op, l[d].av, l[u1].av))
    BY <1>11 DEF Solve
  <2>2. AfterRight(l[u2], SecondFrom(op, l[d].av, l[u1].av))
    BY <1>7, <1>8, <1>9, <1>11 DEF AfterRight, Tracked
  <2> QED
    BY <2>1, <2>2, <1>2, AfterFlow DEF d, u1, u2, op
<1>12. CASE l[d].ak /\ ~l[u1].ak /\ l[u2].ak
  <2>1. T = After(S, u1, FirstFrom(op, l[d].av, l[u2].av))
    BY <1>12 DEF Solve
  <2>2. AfterRight(l[u1], FirstFrom(op, l[d].av, l[u2].av))
    BY <1>7, <1>8, <1>9, <1>12 DEF AfterRight, Tracked
  <2> QED
    BY <2>1, <2>2, <1>2, AfterFlow DEF d, u1, u2, op
<1>13. CASE ~l[d].ak /\ l[u1].ak /\ l[u2].ak
  <2>1. T = After(S, d, Computed(op, l[u1].av, l[u2].av))
    BY <1>13 DEF Solve
  <2>2. AfterRight(l[d], Computed(op, l[u1].av, l[u2].av))
    BY <1>7, <1>8, <1>9, <1>13 DEF AfterRight, Tracked
  <2> QED
    BY <2>1, <2>2, <1>2, AfterFlow DEF d, u1, u2, op
<1>14. CASE /\ ~(l[d].ak /\ l[u1].ak /\ ~l[u2].ak) /\ ~(l[d].ak /\ ~l[u1].ak /\ l[u2].ak)
            /\ ~(~l[d].ak /\ l[u1].ak /\ l[u2].ak)
  <2>1. T = S
    BY <1>14 DEF Solve
  <2> QED
    BY <2>1, <1>1 DEF d, u1, u2, op
<1> QED
  BY <1>11, <1>12, <1>13, <1>14

\* The crash site.
LEMMA NotExecutedIs ==
  ASSUME NEW S, Inv(S), NEW e \in Ops(S.list), S.list[e].kind = "def", ~Done(S.list, e),
         Honest => S.list[e].ak /\ (S.list[e].sort = "reg" => S.list[e].tb = S.list[e].ta),
         Honest => S.list[e].sort \in {"reg", "mem"},
         S.list[e].sort = "mem" => S.list[e].taddr \notin Ram
  PROVE  Inv(NotExecuted(S, e)) /\ Grew(S, NotExecuted(S, e))
<1> DEFINE l == S.list
           v == l[e].av
           x == KnowBefore(l[e], v)
           m == [l EXCEPT ![e] = x]
           T == State(m, S.usel, S.defl, S.instl, S.umem, S.bad)
<1>1. ListInv(l) /\ Nodes(l) /\ Sound(l) /\ Structure(S) /\ Queues(S)
  BY DEF Inv, ListInv, Structure
<1>2. l[e] \in OpNode /\ e \in 1..Len(l) /\ Right(l[e], Done(l, e))
  BY <1>1, NodeIs DEF Sound
<1>3. v \in Val
  BY <1>2, FieldsAre
<1>4. NotExecuted(S, e) = T
  <2>1. NotExecuted(S, e) = [S EXCEPT !.list = m]
    BY <1>1 DEF NotExecuted, Structure
  <2> QED
    BY <2>1, <1>1, SetIs
<1>5. /\ x \in OpNode /\ SameStatic(l[e], x)
      /\ x.bk /\ x.bv = v /\ x.ak = l[e].ak /\ x.av = l[e].av /\ x.addr = l[e].addr
  BY <1>2, <1>3, KnowBeforeIs
<1> HIDE DEF x
<1>6. Honest /\ Tracked(l[e]) => v = l[e].tb
  <2> SUFFICES ASSUME Honest, Tracked(l[e]) PROVE v = l[e].tb
    OBVIOUS
  <2>1. l[e].sort = "reg"
    BY DEF Tracked
  <2> QED
    BY <2>1, <1>2 DEF Right, AfterRight
<1>7. NodeMore(l[e], x)
  <2>1. Honest /\ l[e].bk => l[e].bv = v
    <3> SUFFICES ASSUME Honest, l[e].bk PROVE l[e].bv = v
      OBVIOUS
    <3>1. CASE l[e].sort = "reg"
      BY <3>1, <1>2, <1>6 DEF Right, Tracked
    <3>2. CASE l[e].sort = "mem"
      BY <3>2, <1>2 DEF Right
    <3> QED
      BY <3>1, <3>2
  <2> QED
    BY <1>5, <2>1 DEF NodeMore
<1>8. Right(x, Done(l, e))
  <2>1. Tracked(x) <=> Tracked(l[e])
    BY <1>5 DEF Tracked, SameStatic
  <2>2. x.ak => AfterRight(x, x.av)
    BY <1>2, <1>5, <2>1 DEF Right, AfterRight, SameStatic
  <2>3. x.bk => (Tracked(x) => x.bv = x.tb)
    BY <1>5, <1>6, <2>1 DEF SameStatic, Tracked
  <2>4. Honest /\ x.sort = "mem" => x.addr = 0 \/ x.addr = x.taddr
    BY <1>2, <1>5 DEF Right, SameStatic
  <2> QED
    BY <2>2, <2>3, <2>4, <1>5 DEF Right
<1>9. ListInv(m) /\ More(l, m) /\ m[e] = x /\ \A j \in 1..Len(l) : j # e => m[j] = l[j]
  BY <1>1, <1>5, <1>7, <1>8, PutList
<1>10. Ops(m) = Ops(l) /\ UseReady(l) \subseteq UseReady(m) /\ DefReady(l) \subseteq DefReady(m)
  BY <1>1, <1>9, MoreReady, MoreNodes
<1>11. S.usel \in Seq(UseReady(m)) /\ S.defl \in Seq(DefReady(m))
  <2>1. S.usel \in Seq(UseReady(l)) /\ S.defl \in Seq(DefReady(l))
    BY <1>1 DEF Queues
  <2> QED
    BY <1>10, <2>1, SeqWider
<1>12. \A j \in Ops(l) : m[j].addr = l[j].addr
  BY <1>5, <1>9 DEF Ops
<1> HIDE DEF m
<1>13. /\ Structure(T) /\ T.list = m /\ T.usel = S.usel /\ T.defl = S.defl /\ T.instl = S.instl
       /\ T.umem = S.umem /\ T.bad = S.bad
  BY StateIs
<1> HIDE DEF T
<1>14. Grew(S, T)
  BY <1>9, <1>11, <1>12, <1>13 DEF Grew
<1>15. Inv(T)
  BY <1>9, <1>11, <1>13, <1>14, FlowInv
<1> QED
  BY <1>4, <1>14, <1>15
\* A load or store that was executed copies a value.
LEMMA ExecutedCopy ==
  ASSUME Env, NEW S, Inv(S), NEW h \in Insts(S.list), S.list[h].inst.op \in {"ldr", "str"},
         S.list[h].index # 0
  PROVE  LET T == Copy(S, h + 2, h + 1)
             U == Copy(S, h + 1, h + 2) IN
         Inv(T) /\ Grew(S, T) /\ Inv(U) /\ Grew(S, U)
<1> DEFINE l == S.list
           x == h + 1
           y == h + 2
<1>1. ListInv(l) /\ Nodes(l) /\ Sound(l) /\ Given(l)
  BY DEF Inv, ListInv
<1>2. /\ h \in Nat /\ x \in Ops(l) /\ y \in Ops(l) /\ l[y].sort = "mem" /\ l[y].home = h
      /\ l[h].inst.op = "ldr" => LoadAt(l, h)
      /\ l[h].inst.op = "str" => StoreAt(l, h)
  BY <1>1, AccessIs
<1>3. l[x].ta = l[y].ta /\ l[x].sort = "reg"
  BY <1>2 DEF LoadAt, StoreAt, RegNode
<1>4. Right(l[x], Done(l, x)) /\ Right(l[y], Done(l, y)) /\ l[x] \in OpNode /\ l[y] \in OpNode
  BY <1>1, <1>2, NodeIs DEF Sound
<1>5. l[x].av \in Val /\ l[y].av \in Val
  BY <1>4, FieldsAre
<1>6. Honest /\ ~(l[x].ak /\ l[y].ak) => Tracked(l[x]) /\ Tracked(l[y])
  <2> SUFFICES ASSUME Honest, ~(l[x].ak /\ l[y].ak) PROVE Tracked(l[x]) /\ Tracked(l[y])
    OBVIOUS
  <2>1. ~setup.memac
    BY <1>1 DEF Given
  <2>2. l[y].taddr \in Mapped
    BY <1>1, <1>2, MemNode DEF Done
  <2>3. l[y].taddr \in Ram
    BY <2>1, <2>2, EnvIs
  <2> QED
    BY <1>2, <1>3, <2>3 DEF Tracked
<1>7. ~Honest => ~Tracked(l[x]) /\ ~Tracked(l[y])
  BY DEF Tracked
<1> HIDE DEF x, y
<1>8. l[x].ak /\ ~l[y].ak => AfterRight(l[y], l[x].av)
  BY <1>3, <1>4, <1>5, <1>6, <1>7 DEF Right, AfterRight
<1>9. l[y].ak /\ ~l[x].ak => AfterRight(l[x], l[y].av)
  BY <1>3, <1>4, <1>5, <1>6, <1>7 DEF Right, AfterRight
<1> QED
  BY <1>2, <1>8, <1>9, CopyIs DEF x, y

\* inst_resolver keeps the invariant.
LEMMA ResolverIs ==
  ASSUME Env, NEW S, Inv(S), NEW h \in Insts(S.list), Settled(S, h)
  PROVE  Inv(inst_resolver(S, h)) /\ Grew(S, inst_resolver(S, h))
<1> DEFINE l == S.list
           i == l[h].inst
           T == inst_resolver(S, h)
<1>1. ListInv(l) /\ Nodes(l) /\ Sound(l) /\ Given(l) /\ h \in Nat
  BY InstIs DEF Inv, ListInv
<1>2. /\ Definition(l, h) = IF i.op = "str" THEN h + 2 ELSE h + 1
      /\ i.op \in Arithmetic => Operands(l, h) = {h + 2, h + 3}
      /\ i.op \in {"mov", "ldr"} => Operands(l, h) = {h + 2}
      /\ i.op = "str" => Operands(l, h) = {h + 1}
      /\ i.op \in {"mov", "ldr", "str"} \cup Arithmetic
  BY <1>1, PartsAre
<1>3. /\ Min({h + 2, h + 3}) = h + 2 /\ Max({h + 2, h + 3}) = h + 3
      /\ Min({h + 2}) = h + 2 /\ Min({h + 1}) = h + 1
  BY <1>1, MinMaxTwo, MinOne
<1>4. CASE i.op \in Arithmetic
  <2>1. T = Solve(S, i.op, h + 2, h + 3, h + 1)
    BY <1>2, <1>3, <1>4 DEF inst_resolver, Arithmetic
  <2> QED
    BY <2>1, <1>4, SolveIs
<1>5. CASE i.op = "mov"
  <2>1. T = Copy(S, h + 2, h + 1)
    BY <1>2, <1>3, <1>5 DEF inst_resolver, Arithmetic
  <2>2. h + 1 \in Ops(l) /\ h + 2 \in Ops(l) /\ MovAt(l, h)
    BY <1>1, <1>5, OtherIs
  <2> DEFINE x == h + 1
             y == h + 2
  <2>3. Right(l[x], Done(l, x)) /\ Right(l[y], Done(l, y)) /\ l[x].av \in Val /\ l[y].av \in Val
    BY <1>1, <2>2, NodeIs, FieldsAre DEF Sound
  <2>4. l[x].ta = l[y].ta /\ l[x].sort = "reg" /\ l[y].sort = "reg" /\ x \in Ops(l) /\ y \in Ops(l)
    BY <2>2 DEF MovAt, RegNode
  <2> HIDE DEF x, y
  <2>5. /\ l[y].ak => AfterRight(l[x], l[y].av)
        /\ l[x].ak => AfterRight(l[y], l[x].av)
    BY <2>3, <2>4 DEF Right, AfterRight, Tracked
  <2>6. Inv(Copy(S, y, x)) /\ Grew(S, Copy(S, y, x))
    BY <2>4, <2>5, CopyIs
  <2> QED
    BY <2>1, <2>6 DEF x, y
<1>6. CASE i.op \in {"ldr", "str"} /\ l[h].index # 0
  <2>1. T = IF i.op = "ldr" THEN Copy(S, h + 2, h + 1) ELSE Copy(S, h + 1, h + 2)
    BY <1>2, <1>3, <1>6 DEF inst_resolver, Arithmetic
  <2> QED
    BY <2>1, <1>6, ExecutedCopy
<1>7. CASE i.op \in {"ldr", "str"} /\ l[h].index = 0
  <2> DEFINE d == IF i.op = "str" THEN h + 2 ELSE h + 1
  <2>1. T = NotExecuted(S, d)
    BY <1>2, <1>7 DEF inst_resolver, Arithmetic
  <2>2. /\ d \in Ops(l) /\ l[d].home = h
        /\ h + 2 \in Ops(l) /\ l[h + 2].home = h /\ l[h + 2].sort = "mem"
        /\ i.op = "ldr" => LoadAt(l, h)
        /\ i.op = "str" => StoreAt(l, h)
    BY <1>1, <1>7, AccessIs
  <2>3. l[d].kind = "def" /\ l[d].sort = IF i.op = "str" THEN "mem" ELSE "reg"
    BY <2>2, <1>7 DEF LoadAt, StoreAt, RegNode
  <2>4. ~Done(l, d)
    BY <2>2, <1>7 DEF Done
  <2>5. Honest => l[d].ak
    BY <1>1, <1>7 DEF Given, Settled
  <2>6. l[d].sort = "reg" => l[d].tb = l[d].ta
    BY <2>2, <2>3, <1>7 DEF LoadAt
  <2>7. l[d].sort = "mem" => l[d].taddr \notin Ram
    <3>1. l[h + 2].taddr \notin Mapped
      BY <1>1, <2>2, <1>7, MemNode DEF Done
    <3> QED
      BY <2>3, <3>1, EnvIs
  <2> HIDE DEF d
  <2> QED
    BY <2>1, <2>2, <2>3, <2>4, <2>5, <2>6, <2>7, NotExecutedIs
<1> QED
  BY <1>2, <1>4, <1>5, <1>6, <1>7

\* resolve_inst keeps the invariant and settles its instruction.
LEMMA ResolveInst1 ==
  ASSUME Env, NEW S, Inv(S), NEW h \in Insts(S.list), NEW g \in Val
  PROVE  LET T == resolve_inst(S, h, g) IN
         /\ Inv(T) /\ Stepped(S, T) /\ T.instl = S.instl /\ Settled(T, h)
<1> DEFINE U == traverse_inst_operand(S, h, g)
           T == inst_resolver(U, h)
<1>1. Inv(U) /\ Stepped(S, U) /\ U.instl = S.instl /\ Settled(U, h)
  BY TraverseIs
<1>2. Nodes(S.list) /\ Nodes(U.list)
  BY <1>1 DEF Inv, ListInv
<1>3. h \in Insts(U.list)
  BY <1>1, <1>2, MoreNodes DEF Stepped
<1> HIDE DEF U
<1>4. Inv(T) /\ Grew(U, T)
  BY <1>1, <1>3, ResolverIs
<1> HIDE DEF T
<1>5. More(S.list, T.list)
  BY <1>1, <1>2, <1>4, MoreTwice DEF Stepped, Grew
<1>6. /\ Len(S.usel) \in Nat /\ Len(U.usel) \in Nat /\ Len(T.usel) \in Nat
      /\ Len(S.defl) \in Nat /\ Len(U.defl) \in Nat /\ Len(T.defl) \in Nat
  BY <1>1, <1>4 DEF Inv, Queues
<1>7. Stepped(S, T) /\ T.instl = S.instl
  BY <1>1, <1>4, <1>5, <1>6 DEF Stepped, Grew
<1>8. Hidden(T.list) = Hidden(U.list) /\ T.list[h] = U.list[h]
  BY <1>2, <1>3, <1>4, SameHidden, MoreNodes DEF Grew
<1>9. Settled(T, h)
  <2>1. Honest /\ h + 2 \in Hidden(T.list) => \E a \in 1..Len(T.umem) : T.umem[a] = h + 2
    BY <1>1, <1>4, <1>8 DEF Settled, Grew
  <2>2. ASSUME Honest, T.list[h].index = 0, T.list[h].inst.op = "str" PROVE T.list[h + 2].ak
    <3>1. U.list[h + 2].ak
      BY <1>1, <1>8, <2>2 DEF Settled
    <3>2. h + 2 \in Ops(U.list)
      BY <1>1, <1>3, <1>8, <2>2, AccessIs DEF Inv
    <3> QED
      BY <3>1, <3>2, <1>2, <1>4, MoreNodes DEF NodeMore, Grew
  <2> QED
    BY <2>1, <2>2 DEF Settled
<1>10. resolve_inst(S, h, g) = T
  BY DEF resolve_inst, T, U
<1> QED
  BY <1>4, <1>7, <1>9, <1>10

-----------------------------------------------------------------------------
(* An entry taken off its worklist. *)

\* What is left of a worklist when its head is taken.
LEMMA TailIs ==
  ASSUME NEW A, NEW q \in Seq(A), q # <<>>
  PROVE  /\ Tail(q) \in Seq(A) /\ Len(Tail(q)) = Len(q) - 1 /\ Head(q) \in A /\ Head(q) = q[1]
         /\ \A a \in 1..Len(q) : a = 1 \/ (a - 1 \in 1..Len(Tail(q)) /\ Tail(q)[a - 1] = q[a])
<1>1. /\ Tail(q) \in Seq(A) /\ Len(Tail(q)) = Len(q) - 1 /\ Head(q) \in A /\ Head(q) = q[1]
      /\ Len(q) \in Nat /\ \A a \in 1..(Len(q) - 1) : Tail(q)[a] = q[a + 1]
  OBVIOUS
<1>2. ASSUME NEW a \in 1..Len(q), a # 1
      PROVE  a - 1 \in 1..Len(Tail(q)) /\ Tail(q)[a - 1] = q[a]
  <2>1. a - 1 \in 1..(Len(q) - 1) /\ (a - 1) + 1 = a
    BY <1>1, <1>2
  <2> QED
    BY <2>1, <1>1
<1> QED
  BY <1>1, <1>2

\* The state without the entry that is taken.
UseTaken(S) == [S EXCEPT !.usel = Tail(@)]
DefTaken(S) == [S EXCEPT !.defl = Tail(@)]
InstTaken(S) == [S EXCEPT !.instl = Tail(@)]

\* Taking an entry; an instruction is taken only once it is settled.
LEMMA TakenIs ==
  ASSUME NEW S, Inv(S)
  PROVE  /\ S.usel # <<>> => /\ Inv(UseTaken(S)) /\ UseTaken(S).list = S.list
                             /\ UseTaken(S).instl = S.instl
                             /\ Len(UseTaken(S).usel) = Len(S.usel) - 1
         /\ S.defl # <<>> => /\ Inv(DefTaken(S)) /\ DefTaken(S).list = S.list
                             /\ DefTaken(S).instl = S.instl
                             /\ Len(DefTaken(S).defl) = Len(S.defl) - 1
         /\ S.instl # <<>> /\ Settled(S, Head(S.instl)) =>
                             /\ Inv(InstTaken(S)) /\ InstTaken(S).list = S.list
                             /\ Len(InstTaken(S).instl) = Len(S.instl) - 1
<1> DEFINE l == S.list
<1>1. Structure(S) /\ Queues(S) /\ Unknowns(S) /\ ListInv(l)
  BY DEF Inv, Structure
<1>2. /\ UseTaken(S) = State(l, Tail(S.usel), S.defl, S.instl, S.umem, S.bad)
      /\ DefTaken(S) = State(l, S.usel, Tail(S.defl), S.instl, S.umem, S.bad)
      /\ InstTaken(S) = State(l, S.usel, S.defl, Tail(S.instl), S.umem, S.bad)
  <2>1. /\ UseTaken(S) = [S EXCEPT !.usel = Tail(S.usel)]
        /\ DefTaken(S) = [S EXCEPT !.defl = Tail(S.defl)]
        /\ InstTaken(S) = [S EXCEPT !.instl = Tail(S.instl)]
    BY <1>1 DEF UseTaken, DefTaken, InstTaken, Structure
  <2> QED
    BY <2>1, <1>1, SetIs
<1>3. ASSUME S.usel # <<>>
      PROVE  /\ Inv(UseTaken(S)) /\ UseTaken(S).list = S.list /\ UseTaken(S).instl = S.instl
             /\ Len(UseTaken(S).usel) = Len(S.usel) - 1
  <2> DEFINE q == Tail(S.usel)
             T == State(l, q, S.defl, S.instl, S.umem, S.bad)
  <2>1. q \in Seq(UseReady(l)) /\ Len(q) = Len(S.usel) - 1
    BY <1>1, <1>3, TailIs DEF Queues
  <2>2. /\ Structure(T) /\ T.list = l /\ T.usel = q /\ T.defl = S.defl /\ T.instl = S.instl
        /\ T.umem = S.umem /\ T.bad = S.bad
    BY StateIs
  <2>3. UseTaken(S) = T
    BY <1>2
  <2> HIDE DEF T, q
  <2>4. Inv(T)
    BY <1>1, <2>1, <2>2 DEF Inv, Structure, Queues, Unknowns
  <2> QED
    BY <2>1, <2>2, <2>3, <2>4
<1>4. ASSUME S.defl # <<>>
      PROVE  /\ Inv(DefTaken(S)) /\ DefTaken(S).list = S.list /\ DefTaken(S).instl = S.instl
             /\ Len(DefTaken(S).defl) = Len(S.defl) - 1
  <2> DEFINE q == Tail(S.defl)
             T == State(l, S.usel, q, S.instl, S.umem, S.bad)
  <2>1. q \in Seq(DefReady(l)) /\ Len(q) = Len(S.defl) - 1
    BY <1>1, <1>4, TailIs DEF Queues
  <2>2. /\ Structure(T) /\ T.list = l /\ T.usel = S.usel /\ T.defl = q /\ T.instl = S.instl
        /\ T.umem = S.umem /\ T.bad = S.bad
    BY StateIs
  <2>3. DefTaken(S) = T
    BY <1>2
  <2> HIDE DEF T, q
  <2>4. Inv(T)
    BY <1>1, <2>1, <2>2 DEF Inv, Structure, Queues, Unknowns
  <2> QED
    BY <2>1, <2>2, <2>3, <2>4
<1>5. ASSUME S.instl # <<>>, Settled(S, Head(S.instl))
      PROVE  /\ Inv(InstTaken(S)) /\ InstTaken(S).list = S.list
             /\ Len(InstTaken(S).instl) = Len(S.instl) - 1
  <2> DEFINE q == Tail(S.instl)
             T == State(l, S.usel, S.defl, q, S.umem, S.bad)
  <2>1. /\ q \in Seq(Insts(l)) /\ Len(q) = Len(S.instl) - 1 /\ Head(S.instl) = S.instl[1]
        /\ \A a \in 1..Len(S.instl) : a = 1 \/ (a - 1 \in 1..Len(q) /\ q[a - 1] = S.instl[a])
    BY <1>1, <1>5, TailIs DEF Queues
  <2>2. /\ Structure(T) /\ T.list = l /\ T.usel = S.usel /\ T.defl = S.defl /\ T.instl = q
        /\ T.umem = S.umem /\ T.bad = S.bad
    BY StateIs
  <2>3. InstTaken(S) = T
    BY <1>2
  <2> HIDE DEF T, q
  <2>4. Queues(T)
    BY <1>1, <2>1, <2>2 DEF Queues
  <2>5. Unknowns(T)
    <3> SUFFICES ASSUME Honest PROVE Unknowns(T)
      BY DEF Unknowns
    <3>1. \A u \in Hidden(l) : \/ \E b \in 1..Len(S.umem) : S.umem[b] = u
                               \/ /\ \E b \in 1..Len(q) : q[b] = l[u].home
                                  /\ Newest(l, l[u].home)
      <4> TAKE u \in Hidden(l)
      <4>1. \/ \E b \in 1..Len(S.umem) : S.umem[b] = u
            \/ /\ \E b \in 1..Len(S.instl) : S.instl[b] = l[u].home
               /\ Newest(l, l[u].home)
        BY <1>1 DEF Unknowns
      <4>2. CASE l[u].home = Head(S.instl)
        <5>1. u \in Ops(l) /\ l[u].sort = "mem"
          BY DEF Hidden
        <5>2. u = Head(S.instl) + 2
          BY <5>1, <4>2, <1>1, MemNode
        <5>3. \E b \in 1..Len(S.umem) : S.umem[b] = u
          BY <5>2, <1>5 DEF Settled
        <5> QED
          BY <5>3
      <4>3. CASE l[u].home # Head(S.instl)
        BY <4>1, <4>3, <2>1
      <4> QED
        BY <4>2, <4>3
    <3>2. /\ \A a, b \in 1..Len(S.umem) : a < b => S.umem[a] > S.umem[b]
          /\ \A a \in 1..Len(S.umem) : S.umem[a] \in Hidden(l)
      BY <1>1 DEF Unknowns
    <3> QED
      BY <3>1, <3>2, <2>2 DEF Unknowns
  <2>6. Inv(T)
    BY <1>1, <2>2, <2>4, <2>5 DEF Inv, Structure
  <2> QED
    BY <2>1, <2>2, <2>3, <2>6
<1> QED
  BY <1>3, <1>4, <1>5
-----------------------------------------------------------------------------
(* Adding a node. *)

\* A list with one more node.
LEMMA AppendIs ==
  ASSUME NEW A, NEW l \in Seq(A), NEW x \in A
  PROVE  LET m == Append(l, x) IN
         /\ m \in Seq(A) /\ Len(m) = Len(l) + 1 /\ m[Len(l) + 1] = x /\ Len(l) \in Nat
         /\ \A j \in 1..Len(l) : m[j] = l[j]
  OBVIOUS

LastPut(l, x, y) == [Append(l, x) EXCEPT ![Len(l) + 1] = y] = Append(l, y)

\* Setting the node just appended.
LEMMA PutLast ==
  ASSUME NEW A, NEW l \in Seq(A), NEW x \in A, NEW y \in A
  PROVE  LastPut(l, x, y)
<1> DEFINE e == Len(l) + 1
           p == Append(l, x)
           m == [p EXCEPT ![e] = y]
           o == Append(l, y)
<1>1. /\ p \in Seq(A) /\ Len(p) = e /\ e \in 1..e
      /\ \A j \in 1..Len(l) : p[j] = l[j]
  BY AppendIs
<1> HIDE DEF p
<1>2. /\ m \in Seq(A) /\ Len(m) = e /\ m[e] = y /\ \A j \in 1..e : j # e => m[j] = p[j]
  BY <1>1, PutIs
<1>3. /\ o \in Seq(A) /\ Len(o) = e /\ o[e] = y /\ Len(l) \in Nat
      /\ \A j \in 1..Len(l) : o[j] = l[j]
  BY AppendIs
<1> HIDE DEF m, o
<1>4. \A j \in 1..e : m[j] = o[j]
  <2> TAKE j \in 1..e
  <2>1. j = e \/ j \in 1..Len(l)
    BY <1>3
  <2> QED
    BY <2>1, <1>1, <1>2, <1>3
<1>5. m = [j \in 1..e |-> m[j]] /\ o = [j \in 1..e |-> o[j]]
  BY <1>2, <1>3
<1>6. m = o
  BY <1>4, <1>5
<1> QED
  BY <1>6 DEF m, o, e, p, LastPut

\* m is l with operand x at its end.
Grown(l, m, x) ==
  /\ m \in Seq(OpNode \cup InstRec) /\ Len(m) = Len(l) + 1 /\ m[Len(l) + 1] = x
  /\ \A j \in 1..Len(l) : m[j] = l[j]

\* The nodes of a list with one operand more.
LEMMA GrownIs ==
  ASSUME NEW l, Nodes(l), NEW x \in OpNode, x.home \in Insts(l), NEW m, Grown(l, m, x)
  PROVE  /\ Nodes(m) /\ Ops(m) = Ops(l) \cup {Len(l) + 1} /\ Insts(m) = Insts(l)
         /\ Len(l) \in Nat /\ \A j \in Ops(l) : j \in 1..Len(l) /\ m[j] = l[j]
         /\ \A h \in Insts(l) : h \in 1..Len(l) /\ m[h] = l[h]
         /\ \A j \in Ops(l) : Done(m, j) <=> Done(l, j)
         /\ Done(m, Len(l) + 1) <=> l[x.home].index # 0
<1> DEFINE e == Len(l) + 1
<1>1. /\ l \in Seq(OpNode \cup InstRec) /\ Len(l) \in Nat
      /\ \A j \in Ops(l) : l[j].home \in Insts(l) /\ l[j].home < j
  BY DEF Nodes
<1>2. x.kind # "inst"
  BY FieldsAre
<1>3. \A j \in 1..Len(m) : j = e \/ j \in 1..Len(l)
  BY <1>1 DEF Grown
<1>4. Ops(m) = Ops(l) \cup {e}
  BY <1>1, <1>2, <1>3 DEF Ops, Grown
<1>5. Insts(m) = Insts(l)
  BY <1>1, <1>2, <1>3 DEF Insts, Grown
<1>6. /\ \A j \in Ops(l) : j \in 1..Len(l) /\ m[j] = l[j]
      /\ \A h \in Insts(l) : h \in 1..Len(l) /\ m[h] = l[h]
  BY DEF Ops, Insts, Grown
<1>7. m[e] = x /\ x.home < e
  BY <1>1, <1>6 DEF Grown
<1>8. Nodes(m)
  BY <1>1, <1>4, <1>5, <1>6, <1>7 DEF Nodes, Grown
<1>9. \A j \in Ops(l) : Done(m, j) <=> Done(l, j)
  BY <1>1, <1>6 DEF Done
<1>10. Done(m, e) <=> l[x.home].index # 0
  BY <1>6, <1>7 DEF Done
<1> QED
  BY <1>1, <1>4, <1>5, <1>6, <1>8, <1>9, <1>10

\* The machine state before the node, w after it.
Elsewhere(w, v, x) ==
  /\ \A r \in Reg : ~(x.kind = "def" /\ x.sort = "reg" /\ x.r = r) => v.reg[r] = w.reg[r]
  /\ \A a \in Ram : ~(x.kind = "def" /\ x.sort = "mem" /\ x.taddr = a) => v.mem[a] = w.mem[a]

\* In a build that reads the log, the address of an executed memory access is known.
Seen(l) ==
  Honest /\ setup.memac =>
    \A j \in Ops(l) : l[j].sort = "mem" /\ l[j].taddr \in Mapped => l[j].addr # 0

\* One operand more continues the chain of the execution's values.
LEMMA GrownChained ==
  ASSUME NEW l, Nodes(l), Chained(l), NEW w, NEW v, Ends(l, w),
         NEW x \in OpNode, x.home \in Insts(l), NEW m, Grown(l, m, x),
         Located(x) => x.ta = At(w, x) /\ Earlier(x) = At(v, x), Elsewhere(w, v, x)
  PROVE  Chained(m) /\ Ends(m, v)
<1> DEFINE e == Len(l) + 1
<1>1. /\ Ops(m) = Ops(l) \cup {e} /\ Len(l) \in Nat /\ m[e] = x
      /\ \A j \in Ops(l) : j \in Nat /\ j < e /\ m[j] = l[j] /\ l[j] \in OpNode /\ l[j].r \in Reg
  BY GrownIs, NodeIs, FieldsAre DEF Grown
<1>2. e \notin Ops(l) /\ e \in Nat
  BY <1>1
<1> HIDE DEF e
<1>3. \A j \in Ops(l) : {k \in Ops(m) : k < j} = {k \in Ops(l) : k < j}
  BY <1>1, <1>2
<1>4. {k \in Ops(m) : k < e} = Ops(l)
  BY <1>1, <1>2
<1>5. \A i, j \in Ops(l) : {k \in Ops(m) : i < k /\ k < j} = {k \in Ops(l) : i < k /\ k < j}
  BY <1>1, <1>2
<1>6. \A i \in Ops(l) : {k \in Ops(m) : i < k /\ k < e} = {k \in Ops(l) : i < k}
  BY <1>1, <1>2
<1>7. \A j \in Ops(l) : {k \in Ops(m) : j < k} = {k \in Ops(l) : j < k} \cup {e}
  BY <1>1, <1>2
<1>8. \A n : \A I \in SUBSET Ops(l) : NoDef(m, n, I) <=> NoDef(l, n, I)
  BY <1>1 DEF NoDef
<1>9. Chained(m)
  <2> SUFFICES ASSUME NEW j \in Ops(m), Located(m[j])
               PROVE  /\ NoDef(m, m[j], {k \in Ops(m) : k < j}) => m[j].ta = At(core, m[j])
                      /\ \A i \in Ops(m) : (/\ i < j /\ SameLoc(m[i], m[j])
                                            /\ NoDef(m, m[j], {k \in Ops(m) : i < k /\ k < j}))
                           => Earlier(m[i]) = m[j].ta
    BY DEF Chained
  <2>1. CASE j \in Ops(l)
    <3>1. NoDef(m, m[j], {k \in Ops(m) : k < j}) => m[j].ta = At(core, m[j])
      BY <2>1, <1>1, <1>3, <1>8 DEF Chained
    <3>2. ASSUME NEW i \in Ops(m), i < j, SameLoc(m[i], m[j]),
                 NoDef(m, m[j], {k \in Ops(m) : i < k /\ k < j})
          PROVE  Earlier(m[i]) = m[j].ta
      <4>1. i \in Ops(l)
        BY <2>1, <3>2, <1>1, <1>2
      <4> QED
        BY <2>1, <3>2, <4>1, <1>1, <1>5, <1>8 DEF Chained
    <3> QED
      BY <3>1, <3>2
  <2>2. CASE j = e
    <3>1. x.ta = At(w, x)
      BY <2>2, <1>1
    <3>2. ASSUME NoDef(m, m[j], {k \in Ops(m) : k < j}) PROVE m[j].ta = At(core, m[j])
      <4>1. NoDef(l, x, Ops(l))
        BY <3>2, <2>2, <1>1, <1>4, <1>8
      <4>2. At(w, x) = At(core, x)
        <5>1. CASE x.sort = "reg"
          <6>1. \A k \in Ops(l) : ~(l[k].kind = "def" /\ l[k].sort = "reg" /\ l[k].r = x.r)
            BY <4>1, <5>1 DEF NoDef, SameLoc
          <6>2. x.r \in Reg
            BY FieldsAre
          <6> QED
            BY <5>1, <6>1, <6>2 DEF Ends, At
        <5>2. CASE x.sort # "reg"
          <6>1. x.sort = "mem" /\ x.taddr \in Ram
            BY <5>2, <2>2, <1>1 DEF Located
          <6>2. \A k \in Ops(l) : ~(l[k].kind = "def" /\ l[k].sort = "mem" /\ l[k].taddr = x.taddr)
            BY <4>1, <6>1 DEF NoDef, SameLoc
          <6> QED
            BY <5>2, <6>1, <6>2 DEF Ends, At
        <5> QED
          BY <5>1, <5>2
      <4> QED
        BY <3>1, <4>2, <2>2, <1>1
    <3>3. ASSUME NEW i \in Ops(m), i < j, SameLoc(m[i], m[j]),
                 NoDef(m, m[j], {k \in Ops(m) : i < k /\ k < j})
          PROVE  Earlier(m[i]) = m[j].ta
      <4>1. i \in Ops(l)
        BY <2>2, <3>3, <1>1, <1>2
      <4>2. SameLoc(l[i], x) /\ NoDef(l, x, {k \in Ops(l) : i < k})
        BY <2>2, <3>3, <4>1, <1>1, <1>6, <1>8
      <4>3. NoDef(l, l[i], {k \in Ops(l) : i < k}) /\ Located(l[i]) /\ At(w, l[i]) = At(w, x)
        BY <4>2, <2>2, <1>1 DEF NoDef, SameLoc, Located, At
      <4>4. Earlier(l[i]) = At(w, l[i])
        BY <4>1, <4>3 DEF Ends
      <4> QED
        BY <4>1, <4>3, <4>4, <3>1, <2>2, <1>1
    <3> QED
      BY <3>2, <3>3
  <2> QED
    BY <2>1, <2>2, <1>1
<1>10. Ends(m, v)
  <2>1. ASSUME NEW j \in Ops(m), Located(m[j]), NoDef(m, m[j], {k \in Ops(m) : j < k})
        PROVE  Earlier(m[j]) = At(v, m[j])
    <3>1. CASE j = e
      BY <3>1, <2>1, <1>1
    <3>2. CASE j \in Ops(l)
      <4>1. NoDef(l, l[j], {k \in Ops(l) : j < k}) /\ ~(x.kind = "def" /\ SameLoc(x, l[j]))
        BY <3>2, <2>1, <1>1, <1>7 DEF NoDef
      <4>2. Earlier(l[j]) = At(w, l[j])
        BY <3>2, <4>1, <2>1, <1>1 DEF Ends
      <4>3. At(v, l[j]) = At(w, l[j])
        BY <3>2, <4>1, <2>1, <1>1 DEF Elsewhere, At, SameLoc, Located
      <4> QED
        BY <3>2, <4>2, <4>3, <1>1
    <3> QED
      BY <3>1, <3>2, <1>1
  <2>2. ASSUME NEW r \in Reg,
               \A k \in Ops(m) : ~(m[k].kind = "def" /\ m[k].sort = "reg" /\ m[k].r = r)
        PROVE  v.reg[r] = core.reg[r]
    <3>1. \A k \in Ops(l) : ~(l[k].kind = "def" /\ l[k].sort = "reg" /\ l[k].r = r)
      BY <2>2, <1>1
    <3>2. ~(x.kind = "def" /\ x.sort = "reg" /\ x.r = r)
      BY <2>2, <1>1
    <3> QED
      BY <3>1, <3>2 DEF Ends, Elsewhere
  <2>3. ASSUME NEW a \in Ram,
               \A k \in Ops(m) : ~(m[k].kind = "def" /\ m[k].sort = "mem" /\ m[k].taddr = a)
        PROVE  v.mem[a] = core.mem[a]
    <3>1. \A k \in Ops(l) : ~(l[k].kind = "def" /\ l[k].sort = "mem" /\ l[k].taddr = a)
      BY <2>3, <1>1
    <3>2. ~(x.kind = "def" /\ x.sort = "mem" /\ x.taddr = a)
      BY <2>3, <1>1
    <3> QED
      BY <3>1, <3>2 DEF Ends, Elsewhere
  <2> QED
    BY <2>1, <2>2, <2>3 DEF Ends
<1> QED
  BY <1>9, <1>10
\* The list while the operands of an instruction are added, w the machine state before
\* the oldest of them.
Part(l, w) == Nodes(l) /\ Sound(l) /\ Chained(l) /\ Ends(l, w) /\ Seen(l)

\* One operand more keeps the invariant of a list in the making.
LEMMA GrownPart ==
  ASSUME NEW l, NEW w, NEW v, Part(l, w), NEW x \in OpNode, x.home \in Insts(l),
         NEW m, Grown(l, m, x), Right(x, l[x.home].index # 0),
         Located(x) => x.ta = At(w, x) /\ Earlier(x) = At(v, x), Elsewhere(w, v, x),
         Honest /\ setup.memac /\ x.sort = "mem" /\ x.taddr \in Mapped => x.addr # 0
  PROVE  Part(m, v)
<1> DEFINE e == Len(l) + 1
<1>1. /\ Nodes(m) /\ Ops(m) = Ops(l) \cup {e} /\ m[e] = x
      /\ \A j \in Ops(l) : m[j] = l[j] /\ (Done(m, j) <=> Done(l, j))
      /\ Done(m, e) <=> l[x.home].index # 0
  BY GrownIs DEF Part, Grown
<1>2. Chained(m) /\ Ends(m, v)
  BY GrownChained DEF Part
<1> HIDE DEF e
<1>3. Sound(m)
  <2>1. ASSUME NEW j \in Ops(l) PROVE Right(m[j], Done(m, j))
    <3>1. Done(m, j) = Done(l, j)
      BY <1>1 DEF Done
    <3>2. Right(l[j], Done(l, j))
      BY DEF Part, Sound
    <3> QED
      BY <1>1, <3>1, <3>2
  <2>2. Right(m[e], Done(m, e))
    <3>1. Done(m, e) = (l[x.home].index # 0)
      BY <1>1 DEF Done
    <3> QED
      BY <1>1, <3>1
  <2> QED
    BY <1>1, <2>1, <2>2 DEF Sound
<1>4. Seen(m)
  BY <1>1 DEF Seen, Part
<1> QED
  BY <1>1, <1>2, <1>3, <1>4 DEF Part

\* A new operand takes a right value from the next definition or from the core dump: if it
\* is a memory operand, its address is known from the log, and so are all later ones.
LEMMA NewValue ==
  ASSUME Env, NEW l, NEW w, Part(l, w), NEW x \in OpNode, x.home \in Insts(l),
         x.sort \in {"reg", "mem"}, Located(x) => x.ta = At(w, x),
         Honest /\ x.sort = "mem" /\ x.addr # 0 => setup.memac /\ x.addr = x.taddr,
         NEW m, Grown(l, m, x)
  PROVE  LET d == NextOf(m, "def", Len(l) + 1) IN
         /\ d # 0 => /\ d \in Ops(l) /\ l[d].kind = "def" /\ SameTarget(l[d], x)
                     /\ m[d].bk => AfterRight(x, m[d].bv)
         /\ d = 0 /\ ok_to_get_value(x) => AfterRight(x, CoreValue(x))
<1> DEFINE e == Len(l) + 1
           d == NextOf(m, "def", e)
<1>1. Nodes(l) /\ Sound(l) /\ Chained(l) /\ Ends(l, w) /\ Seen(l)
  BY DEF Part
<1>2. /\ Nodes(m) /\ Ops(m) = Ops(l) \cup {e} /\ Len(l) \in Nat /\ m[e] = x
      /\ \A j \in Ops(l) : j \in Nat /\ j < e /\ m[j] = l[j] /\ l[j] \in OpNode
  BY <1>1, GrownIs, NodeIs DEF Grown
<1>3. e \in Ops(m) /\ e \in Nat /\ e \notin Ops(l)
  BY <1>2
<1>4. /\ d \in Nat
      /\ d # 0 => d \in Ops(m) /\ d < e /\ m[d].kind = "def" /\ SameTarget(m[d], m[e])
      /\ \A k \in Ops(m) : k < e /\ m[k].kind = "def" /\ SameTarget(m[k], m[e]) => d # 0 /\ k <= d
  BY <1>2, <1>3, NextIs
<1> HIDE DEF d, e
<1>5. d # 0 => d \in Ops(l) /\ l[d].kind = "def" /\ SameTarget(l[d], x) /\ m[d] = l[d]
  BY <1>2, <1>3, <1>4
<1>6. \A k \in Ops(l) : l[k].kind = "def" /\ SameTarget(l[k], x) => d # 0 /\ k <= d
  BY <1>2, <1>3, <1>4
<1>7. x.r \in Reg /\ x.addr \in Val /\ x.taddr \in Val /\ x.ta \in Val
  BY FieldsAre
<1>8. CoreValue(x) \in Val
  BY <1>7, EnvIs DEF CoreValue
<1>9. d # 0 => m[d].bv \in Val
  BY <1>5, <1>2, FieldsAre
<1>10. CASE ~Tracked(x)
  BY <1>5, <1>8, <1>9, <1>10 DEF AfterRight, d, e
<1>11. CASE Tracked(x)
  <2>1. Honest /\ Located(x)
    BY <1>11 DEF Tracked, Located
  \* The definitions of its location are those of its target.
  <2>2. ASSUME x.sort = "mem" => x.addr # 0, NEW k \in Ops(l), l[k].kind = "def"
        PROVE  SameLoc(l[k], x) <=> SameTarget(l[k], x)
    <3>1. CASE x.sort = "reg"
      BY <3>1 DEF SameLoc, SameTarget
    <3>2. CASE x.sort = "mem"
      <4>1. setup.memac /\ x.addr = x.taddr /\ x.taddr \in Ram /\ x.addr # 0
        BY <3>2, <2>1, <2>2 DEF Located
      <4>2. Right(l[k], Done(l, k))
        BY <1>1 DEF Sound
      <4>3. l[k].sort = "mem" => l[k].addr = 0 \/ l[k].addr = l[k].taddr
        BY <4>2, <2>1 DEF Right
      <4>4. l[k].sort = "mem" /\ l[k].taddr \in Mapped => l[k].addr # 0
        BY <4>1, <2>1, <1>1 DEF Seen
      <4>5. x.taddr \in Mapped
        BY <4>1, EnvIs
      <4> QED
        BY <3>2, <4>1, <4>3, <4>4, <4>5 DEF SameLoc, SameTarget
    <3> QED
      BY <3>1, <3>2
  <2>3. ASSUME d # 0, m[d].bk PROVE m[d].bv = x.ta
    <3>1. d \in Ops(l) /\ SameTarget(l[d], x) /\ l[d].kind = "def" /\ l[d].bk /\ m[d] = l[d]
      BY <2>3, <1>5
    <3>2. x.sort = "mem" => x.addr # 0
      BY <3>1 DEF SameTarget
    <3>3. SameLoc(l[d], x)
      BY <3>1, <3>2, <2>2
    <3>4. NoDef(l, l[d], {k \in Ops(l) : d < k})
      <4> SUFFICES ASSUME NEW k \in Ops(l), d < k, l[k].kind = "def", SameLoc(l[k], l[d])
                   PROVE  FALSE
        BY DEF NoDef
      <4>1. SameLoc(l[k], x)
        BY <3>3 DEF SameLoc
      <4>2. k <= d
        BY <4>1, <3>2, <2>2, <1>6
      <4> QED
        BY <4>2, <1>2, <1>4
    <3>5. Located(l[d]) /\ At(w, l[d]) = At(w, x) /\ Tracked(l[d])
      BY <3>3, <2>1 DEF SameLoc, Located, At, Tracked
    <3>6. Earlier(l[d]) = At(w, l[d])
      BY <3>1, <3>4, <3>5, <1>1 DEF Ends
    <3>7. l[d].bv = l[d].tb
      BY <3>1, <3>5, <1>1 DEF Sound, Right
    <3> QED
      BY <3>1, <3>5, <3>6, <3>7, <2>1 DEF Earlier
  <2>4. ASSUME d = 0, ok_to_get_value(x) PROVE CoreValue(x) = x.ta
    <3>1. x.sort = "mem" => x.addr # 0
      BY <2>4 DEF ok_to_get_value
    <3>2. \A k \in Ops(l) : ~(l[k].kind = "def" /\ SameLoc(l[k], x))
      BY <2>4, <3>1, <2>2, <1>6
    <3>3. CASE x.sort = "reg"
      <4>1. \A k \in Ops(l) : ~(l[k].kind = "def" /\ l[k].sort = "reg" /\ l[k].r = x.r)
        BY <3>2, <3>3 DEF SameLoc
      <4>2. w.reg[x.r] = core.reg[x.r]
        BY <4>1, <1>1, <1>7 DEF Ends
      <4> QED
        BY <3>3, <4>2, <2>1 DEF CoreValue, At
    <3>4. CASE x.sort = "mem"
      <4>1. x.taddr \in Ram /\ x.addr = x.taddr
        BY <3>1, <3>4, <2>1 DEF Located
      <4>2. \A k \in Ops(l) : ~(l[k].kind = "def" /\ l[k].sort = "mem" /\ l[k].taddr = x.taddr)
        BY <3>2, <3>4 DEF SameLoc
      <4>3. w.mem[x.taddr] = core.mem[x.taddr]
        BY <4>1, <4>2, <1>1 DEF Ends
      <4> QED
        BY <3>4, <4>1, <4>3, <2>1 DEF CoreValue, At
    <3> QED
      BY <3>3, <3>4
  <2> QED
    BY <2>3, <2>4, <1>5, <1>8, <1>9 DEF AfterRight, d, e
<1> QED
  BY <1>10, <1>11
-----------------------------------------------------------------------------
(* The value a new operand has. *)

(* Worklists grow. *)

\* Entry j is in q.
Listed(q, j) == \E a \in 1..Len(q) : q[a] = j
Waits(S, j) == Listed(S.usel, j) \/ Listed(S.defl, j)

\* q goes on where p ends.
Longer(p, q) == Len(p) <= Len(q) /\ \A a \in 1..Len(p) : q[a] = p[a]

\* What is listed stays so in a longer list, and the head stays the head.
LEMMA LongerIs ==
  ASSUME NEW p \in Seq(Nat), NEW q \in Seq(Nat), Longer(p, q)
  PROVE  /\ \A j : Listed(p, j) => Listed(q, j)
         /\ p # <<>> => q # <<>> /\ q[1] = p[1] /\ Head(q) = Head(p)
<1>1. Len(p) \in Nat /\ Len(q) \in Nat /\ \A a \in 1..Len(p) : a \in 1..Len(q)
  BY DEF Longer
<1>2. \A j : Listed(p, j) => Listed(q, j)
  BY <1>1 DEF Longer, Listed
<1>3. ASSUME p # <<>> PROVE q # <<>> /\ q[1] = p[1] /\ Head(q) = Head(p)
  <2>1. 1 \in 1..Len(p)
    BY <1>1, <1>3
  <2>2. q[1] = p[1] /\ 1 \in 1..Len(q)
    BY <1>1, <2>1 DEF Longer
  <2>3. q # <<>>
    BY <2>2
  <2> QED
    BY <1>3, <2>2, <2>3
<1> QED
  BY <1>2, <1>3

\* A list goes on where it ends itself, and going on is transitive.
LEMMA LongerTwice ==
  ASSUME NEW p \in Seq(Nat), NEW q \in Seq(Nat), NEW s \in Seq(Nat)
  PROVE  /\ Longer(p, p)
         /\ Longer(p, q) /\ Longer(q, s) => Longer(p, s)
<1>1. Len(p) \in Nat /\ Len(q) \in Nat /\ Len(s) \in Nat
  OBVIOUS
<1>2. Longer(p, p)
  BY <1>1 DEF Longer
<1>3. ASSUME Longer(p, q), Longer(q, s) PROVE Longer(p, s)
  <2>1. Len(p) <= Len(q) /\ Len(q) <= Len(s)
    BY <1>3 DEF Longer
  <2>2. Len(p) <= Len(s) /\ \A a \in 1..Len(p) : a \in 1..Len(q)
    BY ONLY <2>1, <1>1
  <2>3. ASSUME NEW a \in 1..Len(p) PROVE s[a] = p[a]
    <3>1. q[a] = p[a] /\ a \in 1..Len(q)
      BY <2>2, <1>3 DEF Longer
    <3>2. s[a] = q[a]
      BY <3>1, <1>3 DEF Longer
    <3> QED
      BY <3>1, <3>2
  <2> QED
    BY <2>2, <2>3 DEF Longer
<1> QED
  BY <1>2, <1>3

\* A worklist with an entry added at its end, if it was not there.
LEMMA AddLonger ==
  ASSUME NEW q \in Seq(Nat), NEW e \in Nat, NEW s, s = add_to_list(q, e)
  PROVE  s \in Seq(Nat) /\ Longer(q, s) /\ Listed(s, e) /\ Len(s) <= Len(q) + 1
<1>1. PICK A : A = Nat
  OBVIOUS
<1>2. q \in Seq(A) /\ e \in A
  BY <1>1
<1>3. /\ s \in Seq(A) /\ Len(q) <= Len(s) /\ \E a \in 1..Len(s) : s[a] = e
      /\ \A a \in 1..Len(q) : s[a] = q[a]
  <2>1. s \in Seq(A) /\ Len(q) <= Len(s)
    BY <1>2, AddIs
  <2>2. \E a \in 1..Len(add_to_list(q, e)) : add_to_list(q, e)[a] = e
    BY ONLY <1>2, AddIs
  <2>3. \A a \in 1..Len(q) : add_to_list(q, e)[a] = q[a]
    BY ONLY <1>2, AddIs
  <2> QED
    BY <2>1, <2>2, <2>3
<1>4. Len(s) <= Len(q) + 1
  <2>1. s = q \/ s = Append(q, e)
    BY DEF add_to_list
  <2>2. Len(Append(q, e)) = Len(q) + 1 /\ Len(q) \in Nat
    OBVIOUS
  <2> QED
    BY ONLY <2>1, <2>2
<1> QED
  BY <1>1, <1>3, <1>4 DEF Longer, Listed

\* The log's entry tells the value of operand n.
Logged(l, n) == l[n.home].log # <<>> /\ (n.elem # "Opd" => l[n.home].inst.c = "imm")

\* What the log tells of n is true.
LogFits(l, n) ==
  Logged(l, n) =>
    LET log == l[n.home].log[1] IN
    /\ (IF n.elem = "Base" THEN Minus(log.addr, l[n.home].inst.k) ELSE log.val) = n.ta
    /\ n.sort = "mem" => n.elem = "Opd" /\ log.addr = n.taddr /\ setup.memac

\* Nothing is known of n yet.
Blank(n) == ~n.bk /\ ~n.ak /\ n.addr = 0

\* x is n with what the engine knows of it.
NewNode(l, n, x) ==
  /\ x \in OpNode /\ SameStatic(n, x) /\ ~x.bk /\ Right(x, l[n.home].index # 0)
  /\ Logged(l, n) => x.ak /\ (n.elem # "Base" => x.addr = l[n.home].log[1].addr)
  /\ ~Logged(l, n) => x.addr = 0
  /\ n.sort = "mem" /\ x.addr # 0 => setup.memac /\ x.addr = x.taddr

\* T is S with operand n appended and queued, if at all, with a value.
NewState(S, T, n) ==
  LET x == T.list[Len(S.list) + 1] IN
  /\ Structure(T) /\ Grown(S.list, T.list, x) /\ NewNode(S.list, n, x)
  /\ T.usel \in Seq(UseReady(T.list)) /\ T.defl \in Seq(DefReady(T.list))
  /\ T.instl = S.instl /\ T.umem = S.umem /\ T.bad \subseteq Insts(S.list)
  /\ Longer(S.usel, T.usel) /\ Longer(S.defl, T.defl)

\* A value known of the operand is one to hand on.
Pending(T, e) == T.list[e].ak => Waits(T, e)

\* Operand e, of a register, takes its value from the register's next definition, if there
\* is one, else from the core dump; a value it has before the definition has it waits.
FreshAt(T, e) ==
  LET l == T.list
      Defines(k) == k \in Ops(l) /\ k < e /\ l[k].kind = "def" /\ SameTarget(l[k], l[e])
  IN l[e].sort = "reg" =>
       \/ l[e].ak /\ \A k : ~Defines(k)
       \/ \E d : /\ Defines(d) /\ (\A k : Defines(k) => k <= d)
                 /\ l[d].bk => l[e].ak
                 /\ l[e].ak /\ ~l[d].bk => Waits(T, e)

\* What may be queued stays so.
LEMMA GrownReady ==
  ASSUME NEW l, Nodes(l), NEW x \in OpNode, x.home \in Insts(l), NEW m, Grown(l, m, x)
  PROVE  UseReady(l) \subseteq UseReady(m) /\ DefReady(l) \subseteq DefReady(m)
<1>1. Ops(m) = Ops(l) \cup {Len(l) + 1} /\ \A j \in Ops(l) : m[j] = l[j]
  BY GrownIs
<1> QED
  BY <1>1 DEF UseReady, DefReady

\* Appending an operand.
LEMMA AppendGrown ==
  ASSUME NEW l, Nodes(l), NEW x \in OpNode
  PROVE  Grown(l, Append(l, x), x) /\ Append(l, x)[Len(l) + 1] = x
<1>1. l \in Seq(OpNode \cup InstRec) /\ x \in OpNode \cup InstRec
  BY DEF Nodes
<1> QED
  BY <1>1, AppendIs DEF Grown

\* An operand after the access log was read for it.
LEMMA FromLogIs ==
  ASSUME NEW n \in OpNode, NEW k \in Val, NEW log \in Entry
  PROVE  LET x == FromLog(n, k, log) IN
         /\ x \in OpNode /\ SameStatic(n, x) /\ x.ak /\ x.bk = n.bk
         /\ x.av = IF n.elem = "Base" THEN Minus(log.addr, k) ELSE log.val
         /\ x.addr = IF n.elem = "Base" THEN 0 ELSE log.addr
<1> DEFINE a == IF n.elem = "Base" THEN 0 ELSE log.addr
           v == IF n.elem = "Base" THEN Minus(log.addr, k) ELSE log.val
           y == [n EXCEPT !.addr = a]
<1>1. log.addr \in Val /\ log.val \in Val /\ 0 \in Val
  BY ReverseExecAssumption DEF Entry, Val
<1>2. a \in Val /\ v \in Val
  BY <1>1, MinusIs
<1>3. /\ y \in OpNode /\ SameStatic(n, y) /\ y.bk = n.bk /\ y.addr = a
  BY <1>2, AddressedIs
<1>4. FromLog(n, k, log) = KnowAfter(y, v)
  BY DEF FromLog
<1> HIDE DEF y, v, a
<1>5. LET x == KnowAfter(y, v) IN
      x \in OpNode /\ SameStatic(y, x) /\ x.ak /\ x.av = v /\ x.bk = y.bk /\ x.addr = y.addr
  BY <1>2, <1>3, KnowAfterIs
<1> DEFINE x == KnowAfter(y, v)
<1> HIDE DEF x
<1>6. x \in OpNode /\ SameStatic(y, x) /\ x.ak /\ x.av = v /\ x.bk = y.bk /\ x.addr = y.addr
  BY <1>5 DEF x
<1>7. SameStatic(n, x)
  BY <1>3, <1>6 DEF SameStatic
<1>8. FromLog(n, k, log) = x
  BY <1>4 DEF x
<1> QED
  BY <1>3, <1>6, <1>7, <1>8 DEF v, a

\* assign_memac_value gives a new operand what the log tells of it.
LEMMA AssignIs ==
  ASSUME NEW S, Structure(S), Queues(S), Nodes(S.list), NEW n \in OpNode, Blank(n),
         n.home \in Insts(S.list), LogFits(S.list, n)
  PROVE  LET T == [S EXCEPT !.list = Append(@, n)] IN
         /\ NewState(S, T, n) \/ Logged(S.list, n)
         /\ NewState(S, assign_memac_value(T, Len(S.list) + 1), n)
         /\ Pending(assign_memac_value(T, Len(S.list) + 1), Len(S.list) + 1)
         /\ T.list[Len(S.list) + 1] = n
<1> DEFINE l == S.list
           e == Len(l) + 1
           h == n.home
           p == Append(l, n)
           T == State(p, S.usel, S.defl, S.instl, S.umem, S.bad)
           V == assign_memac_value(T, e)
<1>1. [S EXCEPT !.list = Append(@, n)] = T
  <2>1. [S EXCEPT !.list = Append(@, n)] = [S EXCEPT !.list = p]
    BY DEF Structure
  <2> QED
    BY <2>1, SetIs DEF T
<1> HIDE DEF p
<1>2. /\ Structure(T) /\ T.list = p /\ T.usel = S.usel /\ T.defl = S.defl /\ T.instl = S.instl
      /\ T.umem = S.umem /\ T.bad = S.bad
  BY StateIs
<1>3. /\ Grown(l, p, n) /\ p[e] = n /\ p[h] = l[h] /\ l[h] \in InstRec
      /\ Len(l) \in Nat /\ l \in Seq(OpNode \cup InstRec)
  BY AppendGrown, GrownIs, InstIs DEF Nodes, p
<1>4. S.usel \in Seq(UseReady(l)) /\ S.defl \in Seq(DefReady(l)) /\ S.bad \subseteq Insts(l)
  BY DEF Queues
<1>9. S.usel \in Seq(Nat) /\ S.defl \in Seq(Nat)
  <2>1. UseReady(l) \subseteq Nat /\ DefReady(l) \subseteq Nat
    BY DEF UseReady, DefReady, Ops
  <2> QED
    BY <2>1, <1>4, SeqWider
<1>10. Longer(S.usel, S.usel) /\ Longer(S.defl, S.defl)
  BY <1>9, LongerTwice
<1> HIDE DEF T
<1>5. ~Logged(l, n) => NewState(S, T, n)
  <2> SUFFICES ASSUME ~Logged(l, n) PROVE NewState(S, T, n)
    OBVIOUS
  <2>1. NewNode(l, n, n)
    BY DEF NewNode, Blank, SameStatic, Right
  <2>2. S.usel \in Seq(UseReady(p)) /\ S.defl \in Seq(DefReady(p))
    BY <1>3, <1>4, GrownReady, SeqWider
  <2> QED
    BY <1>2, <1>3, <1>4, <1>10, <2>1, <2>2 DEF NewState
<1>6. HasLog(T, e) <=> Logged(l, n)
  BY <1>2, <1>3 DEF HasLog, Shared, Logged
<1>7. CASE ~Logged(l, n)
  <2>1. V = T
    BY <1>6, <1>7 DEF assign_memac_value
  <2>2. Pending(V, e)
    BY <2>1, <1>2, <1>3 DEF Pending, Blank
  <2> QED
    BY <2>1, <2>2, <1>1, <1>2, <1>3, <1>5, <1>7
<1>8. CASE Logged(l, n)
  <2> DEFINE k == l[h].inst.k
             log == l[h].log[1]
             x == FromLog(n, k, log)
             m == Append(l, x)
  <2>1. log \in Entry /\ k \in Val
    <3>1. l[h].log \in {<<>>} \cup {<<z>> : z \in Entry} /\ l[h].inst \in Instruction
      BY <1>3 DEF InstRec
    <3>2. l[h].log # <<>>
      BY <1>8 DEF Logged
    <3>3. PICK z \in Entry : l[h].log = <<z>>
      BY <3>1, <3>2
    <3> QED
      BY <3>1, <3>3 DEF Instruction
  <2>2. /\ x \in OpNode /\ SameStatic(n, x) /\ x.ak /\ x.bk = n.bk
        /\ x.av = IF n.elem = "Base" THEN Minus(log.addr, k) ELSE log.val
        /\ x.addr = IF n.elem = "Base" THEN 0 ELSE log.addr
    BY <2>1, FromLogIs
  <2>3. [p EXCEPT ![e] = x] = m
    <3> DEFINE A == OpNode \cup InstRec
    <3>1. n \in A /\ x \in A /\ l \in Seq(A)
      BY <1>3, <2>2
    <3> HIDE DEF x, A
    <3>2. LastPut(l, n, x)
      BY <3>1, PutLast
    <3> QED
      BY <3>2 DEF p, LastPut
  <2>4. [T EXCEPT !.list[e] = FromLog(@, T.list[h].inst.k, T.list[h].log[1])]
          = State(m, S.usel, S.defl, S.instl, S.umem, S.bad)
    <3>1. T.list[e] = n /\ T.list[h].inst.k = k /\ T.list[h].log[1] = log
      BY <1>2, <1>3
    <3>2. [T EXCEPT !.list[e] = FromLog(@, T.list[h].inst.k, T.list[h].log[1])]
            = [T EXCEPT !.list = [p EXCEPT ![e] = x]]
      BY <1>2, <3>1 DEF Structure
    <3>3. [T EXCEPT !.list = m] = State(m, T.usel, T.defl, T.instl, T.umem, T.bad)
      <4> HIDE DEF m
      <4> QED
        BY <1>2, SetIs
    <3> HIDE DEF m, x
    <3> QED
      BY <3>2, <3>3, <2>3, <1>2
  <2> DEFINE U == State(m, S.usel, S.defl, S.instl, S.umem, S.bad)
             f == n.kind = "def"
             u == IF f THEN S.usel ELSE add_to_list(S.usel, e)
             d == IF f THEN add_to_list(S.defl, e) ELSE S.defl
             W == State(m, u, d, S.instl, S.umem, S.bad)
  <2>5. V = W
    <3>1. T.list[e].home = h /\ (T.list[e].kind = "def" <=> f)
      BY <1>2, <1>3
    <3> HIDE DEF m, x, k, log
    <3>2. V = IF f THEN [U EXCEPT !.defl = add_to_list(@, e)] ELSE [U EXCEPT !.usel = add_to_list(@, e)]
      BY <1>6, <1>8, <2>4, <3>1 DEF assign_memac_value
    <3>3. /\ Structure(U) /\ U.list = m /\ U.usel = S.usel /\ U.defl = S.defl /\ U.instl = S.instl
          /\ U.umem = S.umem /\ U.bad = S.bad
      BY StateIs
    <3> HIDE DEF U
    <3>4. /\ [U EXCEPT !.defl = add_to_list(@, e)] = [U EXCEPT !.defl = add_to_list(S.defl, e)]
          /\ [U EXCEPT !.usel = add_to_list(@, e)] = [U EXCEPT !.usel = add_to_list(S.usel, e)]
      BY <3>3 DEF Structure
    <3> DEFINE u1 == add_to_list(S.usel, e)
               d1 == add_to_list(S.defl, e)
    <3>5. \A z : /\ [U EXCEPT !.defl = z] = State(U.list, U.usel, z, U.instl, U.umem, U.bad)
                /\ [U EXCEPT !.usel = z] = State(U.list, z, U.defl, U.instl, U.umem, U.bad)
      BY <3>3, SetIs
    <3> HIDE DEF u1, d1
    <3>6. /\ [U EXCEPT !.defl = d1] = State(m, S.usel, d1, S.instl, S.umem, S.bad)
          /\ [U EXCEPT !.usel = u1] = State(m, u1, S.defl, S.instl, S.umem, S.bad)
      BY <3>3, <3>5
    <3>7. V = IF f THEN State(m, S.usel, d1, S.instl, S.umem, S.bad)
              ELSE State(m, u1, S.defl, S.instl, S.umem, S.bad)
      BY <3>2, <3>4, <3>6 DEF u1, d1
    <3> QED
      BY <3>7 DEF u1, d1
  <2> HIDE DEF m, u, d
  <2>6. /\ Structure(W) /\ W.list = m /\ W.usel = u /\ W.defl = d /\ W.instl = S.instl
        /\ W.umem = S.umem /\ W.bad = S.bad
    BY StateIs
  <2> HIDE DEF x
  <2>7. Grown(l, m, x) /\ m[e] = x /\ x.home \in Insts(l)
    BY <2>2, AppendGrown DEF SameStatic, m
  <2>8. S.usel \in Seq(UseReady(m)) /\ S.defl \in Seq(DefReady(m))
    BY <1>4, <2>2, <2>7, GrownReady, SeqWider
  <2>9. e \in Ops(m)
    BY <2>2, <2>7, GrownIs
  <2>10. u \in Seq(UseReady(m)) /\ d \in Seq(DefReady(m))
    <3>1. CASE f
      <4>1. e \in DefReady(m)
        BY <2>2, <2>7, <2>9, <3>1 DEF DefReady, SameStatic
      <4> QED
        BY <3>1, <4>1, <2>8, AddIs DEF u, d
    <3>2. CASE ~f
      <4>1. e \in UseReady(m)
        BY <2>2, <2>7, <2>9, <3>2, FieldsAre DEF UseReady, SameStatic
      <4> QED
        BY <3>2, <4>1, <2>8, AddIs DEF u, d
    <3> QED
      BY <3>1, <3>2
  <2>11. NewNode(l, n, x)
    <3>1. /\ x.av = n.ta
          /\ n.sort = "mem" => n.elem = "Opd" /\ log.addr = n.taddr /\ setup.memac
      BY <1>8, <2>2 DEF LogFits
    <3>2. x.av \in Val /\ x.ta = n.ta /\ x.taddr = n.taddr /\ x.sort = n.sort
      BY <2>2, FieldsAre DEF SameStatic
    <3>3. ~x.bk
      BY <2>2 DEF Blank
    <3>4. Right(x, l[h].index # 0)
      BY <3>1, <3>2, <3>3, <2>2 DEF Right, AfterRight
    <3> QED
      BY <1>8, <2>2, <3>1, <3>2, <3>3, <3>4 DEF NewNode
  <2>13. /\ Longer(S.usel, u) /\ Longer(S.defl, d)
         /\ Listed(u, e) \/ Listed(d, e)
    <3>1. e \in Nat
      BY <1>3
    <3> HIDE DEF e
    <3> QED
      BY <3>1, <1>9, <1>10, AddLonger DEF u, d
  <2> HIDE DEF W
  <2>14. Pending(W, e)
    BY <2>6, <2>13 DEF Pending, Waits
  <2>12. NewState(S, W, n)
    BY <1>4, <2>6, <2>7, <2>10, <2>11, <2>13 DEF NewState
  <2> QED
    BY <1>1, <1>2, <1>3, <1>8, <2>5, <2>12, <2>14
<1> QED
  BY <1>7, <1>8
\* Filling a right value into the new operand.
LEMMA KnowNew ==
  ASSUME NEW S, Nodes(S.list), NEW n, n.home \in Insts(S.list), NEW T, NewState(S, T, n),
         NEW v, AfterRight(T.list[Len(S.list) + 1], v), NEW b, b \subseteq Insts(S.list)
  PROVE  LET e == Len(S.list) + 1
             U == State([T.list EXCEPT ![e] = KnowAfter(T.list[e], v)], T.usel, T.defl, T.instl,
                        T.umem, b) IN
         NewState(S, U, n) /\ U.list[e].ak
<1> DEFINE l == S.list
           e == Len(l) + 1
           m == T.list
           x == m[e]
           y == KnowAfter(x, v)
           o == [m EXCEPT ![e] = y]
           U == State(o, T.usel, T.defl, T.instl, T.umem, b)
<1>1. /\ Structure(T) /\ Grown(l, m, x) /\ NewNode(l, n, x)
      /\ T.usel \in Seq(UseReady(m)) /\ T.defl \in Seq(DefReady(m))
      /\ T.instl = S.instl /\ T.umem = S.umem
      /\ Longer(S.usel, T.usel) /\ Longer(S.defl, T.defl)
  BY DEF NewState
<1>2. x \in OpNode /\ SameStatic(n, x) /\ v \in Val /\ x.home = n.home
  BY <1>1 DEF NewNode, AfterRight, SameStatic
<1>3. /\ Nodes(m) /\ Ops(m) = Ops(l) \cup {e} /\ Insts(m) = Insts(l) /\ Len(l) \in Nat
      /\ m \in Seq(OpNode \cup InstRec) /\ Len(m) = e /\ e \in 1..Len(m)
      /\ \A j \in 1..Len(l) : m[j] = l[j] /\ j # e /\ j \in 1..Len(m)
  <2>1. Nodes(m) /\ Ops(m) = Ops(l) \cup {e} /\ Insts(m) = Insts(l) /\ Len(l) \in Nat
    <3> HIDE DEF x, m
    <3> QED
      BY <1>1, <1>2, GrownIs
  <2>2. /\ m \in Seq(OpNode \cup InstRec) /\ Len(m) = e /\ \A j \in 1..Len(l) : m[j] = l[j]
    BY <1>1 DEF Grown
  <2>3. e \in 1..Len(m) /\ \A j \in 1..Len(l) : j # e /\ j \in 1..Len(m)
    <3> HIDE DEF m
    <3> QED
      BY <2>1, <2>2
  <2> QED
    BY <2>1, <2>2, <2>3
<1>4. y \in OpNode /\ SameStatic(x, y) /\ y.ak /\ y.av = v /\ y.bk = x.bk /\ y.addr = x.addr
  BY <1>2, KnowAfterIs
<1> HIDE DEF x, y, m
<1>5. /\ o \in Seq(OpNode \cup InstRec) /\ Len(o) = e /\ o[e] = y
      /\ \A j \in 1..Len(m) : j # e => o[j] = m[j]
  <2> DEFINE A == OpNode \cup InstRec
  <2>1. y \in A /\ m \in Seq(A)
    BY <1>3, <1>4
  <2> HIDE DEF A, e
  <2>2. o \in Seq(A) /\ Len(o) = Len(m) /\ o[e] = y /\ \A j \in 1..Len(m) : j # e => o[j] = m[j]
    BY <2>1, <1>3, PutIs
  <2> QED
    BY <2>2, <1>3 DEF A
<1>6. Grown(l, o, y)
  BY <1>3, <1>5 DEF Grown
<1>7. SameStatic(n, y)
  BY <1>2, <1>4 DEF SameStatic
<1>8. NewNode(l, n, y)
  <2>1. NewNode(l, n, x)
    BY <1>1
  <2>2. AfterRight(y, v) /\ (Tracked(y) <=> Tracked(x))
    BY <1>4, StaticRight DEF x, m
  <2>3. Right(y, l[n.home].index # 0)
    <3>1. Right(x, l[n.home].index # 0) /\ ~x.bk
      BY <2>1 DEF NewNode
    <3>2. /\ ~y.bk
          /\ Honest /\ y.sort = "mem" => y.addr = 0 \/ y.addr = y.taddr
      BY <3>1, <1>4 DEF Right, SameStatic
    <3> QED
      BY <2>2, <3>2, <1>4 DEF Right
  <2> QED
    BY <2>1, <2>3, <1>4, <1>7 DEF NewNode, SameStatic
<1>9. UseReady(m) \subseteq UseReady(o) /\ DefReady(m) \subseteq DefReady(o)
  <2>1. Ops(o) = Ops(m)
    BY <1>3, <1>6, <1>7, <1>4, GrownIs, NodeIs DEF SameStatic, Nodes
  <2>2. \A j \in Ops(m) : j \in 1..Len(m) /\ (j = e \/ o[j] = m[j])
    BY <1>5 DEF Ops
  <2>3. m[e] = x
    BY DEF x
  <2> HIDE DEF o
  <2> QED
    BY <2>1, <2>2, <2>3, <1>4, <1>5 DEF UseReady, DefReady, SameStatic
<1>10. T.usel \in Seq(UseReady(o)) /\ T.defl \in Seq(DefReady(o))
  BY <1>1, <1>9, SeqWider DEF m
<1> HIDE DEF o
<1>11. /\ Structure(U) /\ U.list = o /\ U.usel = T.usel /\ U.defl = T.defl /\ U.instl = T.instl
       /\ U.umem = T.umem /\ U.bad = b
  BY StateIs
<1> HIDE DEF U
<1>12. NewState(S, U, n)
  BY <1>1, <1>5, <1>6, <1>8, <1>10, <1>11 DEF NewState
<1> QED
  BY <1>4, <1>5, <1>11, <1>12 DEF U, o, y, x, m

\* Changing the list and the set of bad addresses.
LEMMA SetBad ==
  ASSUME NEW S, Structure(S), NEW v, NEW b
  PROVE  [S EXCEPT !.list = v, !.bad = b] = State(v, S.usel, S.defl, S.instl, S.umem, b)
<1>1. PICK R : R = [S EXCEPT !.list = v]
  OBVIOUS
<1>2. R = State(v, S.usel, S.defl, S.instl, S.umem, S.bad)
  BY <1>1, SetIs
<1>3. /\ Structure(R) /\ R.list = v /\ R.usel = S.usel /\ R.defl = S.defl /\ R.instl = S.instl
      /\ R.umem = S.umem /\ R.bad = S.bad
  BY <1>2, StateIs
<1>4. [R EXCEPT !.bad = b] = State(R.list, R.usel, R.defl, R.instl, R.umem, b)
  BY <1>3, SetIs, Zenon
<1>5. [R EXCEPT !.bad = b] = State(v, S.usel, S.defl, S.instl, S.umem, b)
  BY <1>3, <1>4
<1> QED
  BY ONLY <1>1, <1>5, Zenon

\* Filling in node e of T, told by its fields.
KnownPut(T, e, v, b) ==
  LET o == [T.list EXCEPT ![e] = KnowAfter(T.list[e], v)] IN
  /\ [T EXCEPT !.list[e] = KnowAfter(@, v)] = State(o, T.usel, T.defl, T.instl, T.umem, T.bad)
  /\ [T EXCEPT !.list[e] = KnowAfter(@, v), !.bad = b]
       = State(o, T.usel, T.defl, T.instl, T.umem, b)

\* Filling in a node is a change of the list alone.
LEMMA KnownState ==
  ASSUME NEW T, Structure(T), NEW e, NEW v, NEW b
  PROVE  KnownPut(T, e, v, b)
<1> DEFINE o == [T.list EXCEPT ![e] = KnowAfter(T.list[e], v)]
<1>1. /\ [T EXCEPT !.list[e] = KnowAfter(@, v)] = [T EXCEPT !.list = o]
      /\ [T EXCEPT !.list[e] = KnowAfter(@, v), !.bad = b] = [T EXCEPT !.list = o, !.bad = b]
  BY DEF Structure
<1> HIDE DEF o
<1>2. [T EXCEPT !.list = o] = State(o, T.usel, T.defl, T.instl, T.umem, T.bad)
  BY SetIs
<1>3. [T EXCEPT !.list = o, !.bad = b] = State(o, T.usel, T.defl, T.instl, T.umem, b)
  BY SetBad
<1> QED
  BY <1>1, <1>2, <1>3 DEF o, KnownPut

\* InitialValue gives a new operand a right value; a register that no instruction so far
\* defines gets one.
LEMMA InitialIs ==
  ASSUME Env, NEW S, NEW w, Part(S.list, w), NEW n, n.home \in Insts(S.list),
         n.sort \in {"reg", "mem"}, Located(n) => n.ta = At(w, n), NEW T, NewState(S, T, n),
         Pending(T, Len(S.list) + 1)
  PROVE  LET U == InitialValue(T, Len(S.list) + 1) IN
         /\ NewState(S, U, n) /\ FreshAt(U, Len(S.list) + 1)
         /\ n.sort = "reg" /\ (\A k \in Ops(S.list) : ~(/\ S.list[k].kind = "def"
                                                        /\ S.list[k].sort = "reg"
                                                        /\ S.list[k].r = n.r))
              => U.list[Len(S.list) + 1].ak
<1> DEFINE l == S.list
           e == Len(l) + 1
           m == T.list
           x == m[e]
           d == NextOf(m, "def", e)
           U == InitialValue(T, e)
           Put(v, b) == State([m EXCEPT ![e] = KnowAfter(x, v)], T.usel, T.defl, T.instl, T.umem, b)
<1>1. /\ Structure(T) /\ Grown(l, m, x) /\ NewNode(l, n, x) /\ T.bad \subseteq Insts(l)
      /\ Nodes(l)
  BY DEF NewState, Part
<1>2. x \in OpNode /\ SameStatic(n, x)
  BY <1>1 DEF NewNode
<1>3. /\ x.home \in Insts(l) /\ x.sort \in {"reg", "mem"} /\ (Located(x) => x.ta = At(w, x))
      /\ x.sort = n.sort /\ x.r = n.r /\ x.home = n.home
  BY <1>2 DEF SameStatic, Located, At
<1>4. Honest /\ x.sort = "mem" /\ x.addr # 0 => setup.memac /\ x.addr = x.taddr
  BY <1>1, <1>3 DEF NewNode
<1>5. /\ d # 0 => /\ d \in Ops(l) /\ l[d].kind = "def" /\ SameTarget(l[d], x)
                  /\ m[d].bk => AfterRight(x, m[d].bv)
      /\ d = 0 /\ ok_to_get_value(x) => AfterRight(x, CoreValue(x))
  BY <1>1, <1>2, <1>3, <1>4, NewValue
<1>6. ASSUME NEW v, AfterRight(x, v), NEW b, b \subseteq Insts(l)
      PROVE  NewState(S, Put(v, b), n) /\ Put(v, b).list[e].ak
  BY <1>1, <1>6, KnowNew
<1>7. \A v : /\ [T EXCEPT !.list[e] = KnowAfter(@, v)] = Put(v, T.bad)
             /\ \A b : [T EXCEPT !.list[e] = KnowAfter(@, v), !.bad = b] = Put(v, b)
  <2>1. \A v, b : KnownPut(T, e, v, b)
    BY <1>1, KnownState
  <2> QED
    BY <2>1 DEF KnownPut
<1>11. /\ d \in Nat
       /\ d # 0 => d \in Ops(m) /\ d < e /\ m[d].kind = "def" /\ SameTarget(m[d], m[e])
       /\ \A k \in Ops(m) : k < e /\ m[k].kind = "def" /\ SameTarget(m[k], m[e]) => d # 0 /\ k <= d
  <2>1. Nodes(m) /\ e \in Ops(m)
    BY <1>1, <1>2, <1>3, GrownIs
  <2> HIDE DEF m, e
  <2> QED
    BY <2>1, NextIs
<1>12. ASSUME NEW W, NewState(S, W, n),
              IF d # 0 /\ ~m[d].bk THEN W = T ELSE W.list[e].ak
       PROVE  FreshAt(W, e)
  <2> DEFINE o == W.list
  <2>1. Grown(l, o, o[e]) /\ SameStatic(n, o[e])
    BY <1>12 DEF NewState, NewNode
  <2>2. /\ o[e].sort = x.sort /\ o[e].r = x.r /\ o[e] \in OpNode /\ o[e].home \in Insts(l)
    BY <2>1, <1>2, <1>3, <1>12 DEF SameStatic, NewState, NewNode
  <2>3. Ops(o) = Ops(m) /\ e \in Nat
    <3>1. Ops(o) = Ops(l) \cup {e} /\ Ops(m) = Ops(l) \cup {e} /\ Len(l) \in Nat
      <4> HIDE DEF m
      <4> QED
        BY <1>1, <1>2, <1>3, <2>1, <2>2, GrownIs DEF m
    <3> QED
      BY <3>1
  <2>4. \A k \in Ops(m) : k < e => o[k] = m[k]
    <3>1. /\ \A k \in 1..Len(l) : o[k] = l[k] /\ m[k] = l[k]
          /\ Len(m) = e /\ Len(l) \in Nat
      BY <1>1, <2>1 DEF Grown, Nodes
    <3> HIDE DEF m, o
    <3> QED
      BY <3>1 DEF Ops
  <2> SUFFICES ASSUME o[e].sort = "reg" PROVE FreshAt(W, e)
    BY DEF FreshAt
  <2>5. \A k \in Ops(m) : k < e => (SameTarget(o[k], o[e]) <=> SameTarget(m[k], m[e]))
    BY <2>2, <2>4 DEF SameTarget
  <2>6. CASE d = 0
    <3>1. W.list[e].ak
      BY <1>12, <2>6
    <3>2. \A k \in Ops(o) : ~(k < e /\ o[k].kind = "def" /\ SameTarget(o[k], o[e]))
      BY <1>11, <2>3, <2>4, <2>5, <2>6
    <3> HIDE DEF e, d
    <3> QED
      BY <3>1, <3>2 DEF FreshAt
  <2>7. CASE d # 0
    <3>1. d \in Ops(o) /\ d < e /\ o[d].kind = "def" /\ SameTarget(o[d], o[e])
      BY <1>11, <2>3, <2>4, <2>5, <2>7
    <3>2. \A k \in Ops(o) : k < e /\ o[k].kind = "def" /\ SameTarget(o[k], o[e]) => k <= d
      BY <1>11, <2>3, <2>4, <2>5
    <3>3. (o[d].bk => o[e].ak) /\ (o[e].ak /\ ~o[d].bk => Waits(W, e))
      <4>1. o[d] = m[d]
        BY <1>11, <2>4, <2>7
      <4>2. CASE ~m[d].bk
        <5>1. W = T
          BY <4>2, <2>7, <1>12
        <5> QED
          BY <4>1, <4>2, <5>1 DEF Pending
      <4>3. CASE m[d].bk
        <5>1. W.list[e].ak
          BY <4>3, <1>12
        <5> QED
          BY <4>1, <4>3, <5>1
      <4> QED
        BY <4>2, <4>3
    <3> HIDE DEF e, d
    <3> QED
      BY <3>1, <3>2, <3>3 DEF FreshAt
  <2> QED
    BY <2>6, <2>7
<1> HIDE DEF Put
<1>8. CASE d # 0
  <2>1. U = IF m[d].bk THEN Put(m[d].bv, T.bad) ELSE T
    BY <1>7, <1>8 DEF InitialValue
  <2>2. NewState(S, U, n)
    BY <2>1, <1>1, <1>5, <1>6, <1>8
  <2>4. FreshAt(U, e)
    <3>1. IF d # 0 /\ ~m[d].bk THEN U = T ELSE U.list[e].ak
      BY <2>1, <1>1, <1>5, <1>6, <1>8
    <3> HIDE DEF U, d, m
    <3> QED
      BY <2>2, <3>1, <1>12
  <2>3. n.sort = "reg" => /\ l[d].kind = "def" /\ l[d].sort = "reg" /\ l[d].r = n.r /\ d \in Ops(l)
    BY <1>3, <1>5, <1>8 DEF SameTarget
  <2> QED
    BY <2>2, <2>3, <2>4
<1>9. CASE d = 0 /\ ~ok_to_get_value(x)
  <2>1. U = T
    BY <1>9 DEF InitialValue
  <2>2. n.sort # "reg"
    BY <1>3, <1>9 DEF ok_to_get_value
  <2>3. FreshAt(U, e)
    BY <2>1, <2>2, <1>1, <1>3 DEF FreshAt
  <2> QED
    BY <2>1, <2>2, <2>3
<1>10. CASE d = 0 /\ ok_to_get_value(x)
  <2> DEFINE b == IF IsExp(x) /\ x.addr \notin Ram THEN T.bad \cup {x.home} ELSE T.bad
  <2>1. b \subseteq Insts(l)
    BY <1>1, <1>3
  <2>2. U = [T EXCEPT !.list[e] = KnowAfter(@, CoreValue(x)), !.bad = b]
    BY <1>1, <1>10 DEF InitialValue, Structure
  <2> HIDE DEF b
  <2>3. U = Put(CoreValue(x), b)
    BY <2>2, <1>7
  <2>4. NewState(S, U, n) /\ U.list[e].ak
    BY <2>1, <2>3, <1>5, <1>6, <1>10
  <2>5. FreshAt(U, e)
    <3> HIDE DEF U, d, m
    <3> QED
      BY <2>4, <1>10, <1>12
  <2> QED
    BY <2>4, <2>5
<1> QED
  BY <1>8, <1>9, <1>10
-----------------------------------------------------------------------------
(* An operand added. *)

\* The invariant while the operands of an instruction are added; w is the machine state
\* before the oldest of them.
Held(S, w) == Structure(S) /\ Queues(S) /\ Part(S.list, w)

\* n is an operand that the execution has between the machine states v and w.
Fits(l, w, v, n) ==
  /\ n \in OpNode /\ Blank(n) /\ n.home \in Insts(l) /\ LogFits(l, n)
  /\ n.sort = "imm" \/ l[n.home].index = 0 => ~Logged(l, n)
  /\ Located(n) => n.ta = At(w, n) /\ Earlier(n) = At(v, n)
  /\ Elsewhere(w, v, n)
  /\ Honest /\ setup.memac /\ n.sort = "mem" /\ n.taddr \in Mapped => Logged(l, n)

\* No definition of n's place so far.
Undefined(l, n) ==
  n.sort = "reg" /\ \A k \in Ops(l) : ~(l[k].kind = "def" /\ l[k].sort = "reg" /\ l[k].r = n.r)

\* T is S with operand n added.
Joined(S, T, n) ==
  /\ NewState(S, T, n)
  /\ n.sort = "imm" \/ Undefined(S.list, n) => T.list[Len(S.list) + 1].ak
  /\ FreshAt(T, Len(S.list) + 1)

\* A new operand that fits keeps the invariant of a list in the making.
LEMMA HeldOn ==
  ASSUME Env, NEW S, NEW w, Held(S, w), NEW v, NEW n, Fits(S.list, w, v, n),
         NEW T, NewState(S, T, n)
  PROVE  Held(T, v)
<1> DEFINE l == S.list
           m == T.list
           x == m[Len(l) + 1]
<1>1. /\ Structure(T) /\ Grown(l, m, x) /\ NewNode(l, n, x)
      /\ T.usel \in Seq(UseReady(m)) /\ T.defl \in Seq(DefReady(m))
      /\ T.instl = S.instl /\ T.umem = S.umem /\ T.bad \subseteq Insts(l)
  BY DEF NewState
<1>2. /\ x \in OpNode /\ SameStatic(n, x) /\ Right(x, l[n.home].index # 0)
  BY <1>1 DEF NewNode
<1>3. x.home = n.home /\ x.home \in Insts(l)
  BY <1>2 DEF SameStatic, Fits
<1>4. Nodes(l) /\ Part(l, w) /\ S.instl \in Seq(Insts(l)) /\ S.umem \in Seq(Ops(l))
  BY DEF Held, Part, Queues
<1> HIDE DEF x, m
<1>5. Ops(l) \subseteq Ops(m) /\ Insts(m) = Insts(l)
  BY <1>1, <1>2, <1>3, <1>4, GrownIs
<1>6. Queues(T)
  BY <1>1, <1>4, <1>5, SeqWider DEF Queues, m
<1>7. (Located(x) => x.ta = At(w, x) /\ Earlier(x) = At(v, x)) /\ Elsewhere(w, v, x)
  BY <1>2 DEF Fits, SameStatic, Located, At, Earlier, Elsewhere
<1>8. Honest /\ setup.memac /\ x.sort = "mem" /\ x.taddr \in Mapped => x.addr # 0
  <2> SUFFICES ASSUME Honest, setup.memac, x.sort = "mem", x.taddr \in Mapped PROVE x.addr # 0
    OBVIOUS
  <2>1. n.sort = "mem" /\ n.taddr = x.taddr
    BY <1>2 DEF SameStatic
  <2>2. Logged(l, n)
    BY <2>1 DEF Fits
  <2>3. n.elem = "Opd" /\ l[n.home].log[1].addr = n.taddr
    BY <2>1, <2>2 DEF Fits, LogFits
  <2>4. x.addr = n.taddr
    BY <2>2, <2>3, <1>1 DEF NewNode
  <2> QED
    BY <2>1, <2>4, EnvIs
<1>9. Right(x, l[x.home].index # 0)
  BY <1>2, <1>3
<1>10. Part(m, v)
  BY <1>1, <1>2, <1>3, <1>4, <1>7, <1>8, <1>9, GrownPart
<1> QED
  BY <1>1, <1>6, <1>10 DEF Held, m

\* add_new_use of an operand that fits.
LEMMA AddUseIs ==
  ASSUME Env, NEW S, NEW w, Held(S, w), NEW v, NEW n, Fits(S.list, w, v, n), n.kind = "use"
  PROVE  Joined(S, add_new_use(S, n), n) /\ Held(add_new_use(S, n), v)
<1> DEFINE l == S.list
           e == Len(l) + 1
           T == [S EXCEPT !.list = Append(@, n)]
           U == add_new_use(S, n)
<1>1. /\ n \in OpNode /\ Blank(n) /\ n.home \in Insts(l) /\ LogFits(l, n)
      /\ n.sort = "imm" => ~Logged(l, n)
      /\ Located(n) => n.ta = At(w, n)
  BY DEF Fits
<1>2. Structure(S) /\ Queues(S) /\ Nodes(l) /\ Part(l, w)
  BY DEF Held, Part
<1>3. /\ NewState(S, T, n) \/ Logged(l, n)
      /\ NewState(S, assign_memac_value(T, e), n) /\ Pending(assign_memac_value(T, e), e)
      /\ T.list[e] = n
  BY <1>1, <1>2, AssignIs
<1>4. n.ta \in Val /\ n.sort \in {"reg", "mem", "imm"}
  BY <1>1, FieldsAre
<1>5. CASE n.sort = "imm"
  <2>1. NewState(S, T, n) /\ Structure(T)
    BY <1>1, <1>3, <1>5 DEF NewState
  <2>2. U = [T EXCEPT !.list[e] = KnowAfter(@, n.ta)]
    BY <1>5 DEF add_new_use
  <2> HIDE DEF T
  <2>3. U = State([T.list EXCEPT ![e] = KnowAfter(T.list[e], n.ta)], T.usel, T.defl, T.instl,
                  T.umem, T.bad)
    BY <2>1, <2>2, KnownState DEF KnownPut
  <2>4. AfterRight(T.list[e], n.ta)
    BY <1>3, <1>4 DEF AfterRight
  <2>5. T.bad \subseteq Insts(l)
    BY <2>1 DEF NewState
  <2> DEFINE W == State([T.list EXCEPT ![e] = KnowAfter(T.list[e], n.ta)], T.usel, T.defl, T.instl,
                        T.umem, T.bad)
  <2>6. NewState(S, W, n) /\ W.list[e].ak
    BY <1>1, <1>2, <2>1, <2>4, <2>5, KnowNew
  <2>8. FreshAt(W, e)
    <3>1. SameStatic(n, W.list[e])
      BY <2>6 DEF NewState, NewNode
    <3> HIDE DEF W
    <3> QED
      BY <3>1, <1>5 DEF FreshAt, SameStatic
  <2> HIDE DEF U, W
  <2>7. U = W
    BY <2>3 DEF W
  <2> QED
    BY <2>6, <2>7, <2>8, HeldOn DEF Joined, U
<1>6. CASE n.sort # "imm"
  <2> DEFINE V == assign_memac_value(T, e)
  <2>1. U = InitialValue(V, e)
    BY <1>6 DEF add_new_use
  <2> HIDE DEF V, U
  <2>2. NewState(S, V, n) /\ Pending(V, e)
    BY <1>3 DEF V
  <2>3. /\ NewState(S, U, n) /\ FreshAt(U, e)
        /\ Undefined(l, n) => U.list[e].ak
    BY <2>1, <2>2, <1>1, <1>2, <1>4, <1>6, InitialIs DEF Undefined
  <2> QED
    BY <2>3, <1>6, HeldOn DEF Joined, U
<1> QED
  BY <1>5, <1>6

\* add_new_define of an operand that fits.
LEMMA AddDefineIs ==
  ASSUME Env, NEW S, NEW w, Held(S, w), NEW v, NEW n, Fits(S.list, w, v, n), n.sort # "imm"
  PROVE  Joined(S, add_new_define(S, n), n) /\ Held(add_new_define(S, n), v)
<1> DEFINE l == S.list
           e == Len(l) + 1
           T == [S EXCEPT !.list = Append(@, n)]
           V == IF l[n.home].index = 0 THEN T ELSE assign_memac_value(T, e)
           U == add_new_define(S, n)
<1>1. /\ n \in OpNode /\ Blank(n) /\ n.home \in Insts(l) /\ LogFits(l, n)
      /\ l[n.home].index = 0 => ~Logged(l, n)
      /\ Located(n) => n.ta = At(w, n)
  BY DEF Fits
<1>2. Structure(S) /\ Queues(S) /\ Nodes(l) /\ Part(l, w)
  BY DEF Held, Part
<1>3. /\ NewState(S, T, n) \/ Logged(l, n)
      /\ NewState(S, assign_memac_value(T, e), n) /\ Pending(assign_memac_value(T, e), e)
      /\ T.list[e] = n
  BY <1>1, <1>2, AssignIs
<1>4. n.sort \in {"reg", "mem"}
  BY <1>1, FieldsAre
<1>5. U = InitialValue(V, e)
  BY DEF add_new_define
<1>6. NewState(S, V, n)
  BY <1>1, <1>3
<1>8. Pending(V, e)
  BY <1>1, <1>3 DEF Pending, Blank
<1> HIDE DEF U, V
<1>7. /\ NewState(S, U, n) /\ FreshAt(U, e)
      /\ Undefined(l, n) => U.list[e].ak
  BY <1>1, <1>2, <1>4, <1>5, <1>6, <1>8, InitialIs DEF Undefined
<1> QED
  BY <1>7, HeldOn DEF Joined, U
-----------------------------------------------------------------------------
(* The machine. *)

\* Machine states.
World == [reg : [Reg -> Val], mem : [Ram -> Val]]

\* Addresses and operands are words.
LEMMA AddressIn ==
  ASSUME Env, NEW i \in Instruction, NEW p \in World
  PROVE  Address(i, p) \in Val /\ Operand(i, p) \in Val
<1>1. p.reg \in [Reg -> Val] /\ i.b \in Reg /\ i.k \in Val /\ (i.c = "imm" \/ i.c \in Reg)
  BY DEF World, Instruction
<1>2. Operand(i, p) \in Val /\ p.reg[i.b] \in Val
  BY <1>1 DEF Operand
<1> QED
  BY <1>2, SumIs DEF Address

\* Writing a register.
LEMMA PutReg ==
  ASSUME NEW p \in World, NEW r \in Reg, NEW v
  PROVE  LET m == [p EXCEPT !.reg[r] = v] IN
         /\ m.mem = p.mem /\ m.reg[r] = v /\ \A q \in Reg : q # r => m.reg[q] = p.reg[q]
  BY DEF World

\* Writing memory.
LEMMA PutMem ==
  ASSUME NEW p \in World, NEW a \in Ram, NEW v
  PROVE  LET m == [p EXCEPT !.mem[a] = v] IN
         /\ m.reg = p.reg /\ m.mem[a] = v /\ \A b \in Ram : b # a => m.mem[b] = p.mem[b]
  BY DEF World

\* What an instruction leaves alone, and what it does.
LEMMA ExecutedIs ==
  ASSUME Env, NEW i \in Instruction, NEW p \in World, NEW m \in World, Executes(i, p, m)
  PROVE  /\ i.op # "str" => m.mem = p.mem /\ \A r \in Reg : r # i.r => m.reg[r] = p.reg[r]
         /\ i.op = "mov" => m.reg[i.r] = p.reg[i.b]
         /\ i.op \in Arithmetic => m.reg[i.r] = Result(i.op, p.reg[i.b], Operand(i, p))
         /\ i.op = "ldr" => (Address(i, p) \in Ram => m.reg[i.r] = p.mem[Address(i, p)])
         /\ i.op = "str" => /\ m.reg = p.reg
                            /\ \A b \in Ram : b # Address(i, p) => m.mem[b] = p.mem[b]
                            /\ Address(i, p) \in Ram => m.mem[Address(i, p)] = p.reg[i.r]
         /\ i.op \in {"ldr", "str"} => Address(i, p) \in Mapped
<1> DEFINE a == Address(i, p)
<1>1. i.r \in Reg /\ i.op \in {"mov", "add", "sub", "rsb", "ldr", "str"}
  BY DEF Instruction
<1>2. CASE i.op = "mov"
  <2> DEFINE v == p.reg[i.b]
  <2>1. m = [p EXCEPT !.reg[i.r] = v]
    BY <1>2 DEF Executes, Arithmetic
  <2> HIDE DEF v
  <2>2. m.mem = p.mem /\ m.reg[i.r] = v /\ \A q \in Reg : q # i.r => m.reg[q] = p.reg[q]
    BY <2>1, <1>1, PutReg
  <2> QED
    BY <1>2, <2>2 DEF v, Arithmetic
<1>3. CASE i.op \in Arithmetic
  <2> DEFINE v == Result(i.op, p.reg[i.b], Operand(i, p))
  <2>1. m = [p EXCEPT !.reg[i.r] = v]
    BY <1>3 DEF Executes, Arithmetic
  <2> HIDE DEF v
  <2>2. m.mem = p.mem /\ m.reg[i.r] = v /\ \A q \in Reg : q # i.r => m.reg[q] = p.reg[q]
    BY <2>1, <1>1, PutReg
  <2>3. i.op \notin {"mov", "ldr", "str"}
    BY <1>3 DEF Arithmetic
  <2> QED
    BY <1>3, <2>2, <2>3 DEF v
<1>4. CASE i.op = "ldr"
  <2> DEFINE v == m.reg[i.r]
  <2>1. m = [p EXCEPT !.reg[i.r] = v] /\ a \in Mapped /\ (a \in Ram => v = p.mem[a])
    BY <1>4 DEF Executes, Arithmetic
  <2> HIDE DEF v
  <2>2. m.mem = p.mem /\ m.reg[i.r] = v /\ \A q \in Reg : q # i.r => m.reg[q] = p.reg[q]
    BY <2>1, <1>1, PutReg
  <2> QED
    BY <1>4, <2>1, <2>2 DEF Arithmetic
<1>5. CASE i.op = "str"
  <2> DEFINE v == p.reg[i.r]
  <2>1. a \in Mapped /\ m = IF a \in Ram THEN [p EXCEPT !.mem[a] = v] ELSE p
    BY <1>5 DEF Executes, Arithmetic
  <2> HIDE DEF v
  <2>2. CASE a \in Ram
    <3> HIDE DEF a
    <3>1. m.reg = p.reg /\ m.mem[a] = v /\ \A b \in Ram : b # a => m.mem[b] = p.mem[b]
      BY <2>1, <2>2, PutMem
    <3> QED
      BY <1>5, <2>1, <2>2, <3>1 DEF v, Arithmetic, a
  <2>3. CASE a \notin Ram
    BY <1>5, <2>1, <2>3 DEF Arithmetic
  <2> QED
    BY <2>2, <2>3
<1> QED
  BY <1>1, <1>2, <1>3, <1>4, <1>5 DEF Arithmetic

\* A new operand.
LEMMA OperandIs ==
  ASSUME NEW kind \in {"use", "def"}, NEW sort \in {"reg", "mem", "imm"}, NEW r \in Reg,
         NEW elem \in {"Opd", "Base", "Index"}, NEW home \in Nat,
         NEW tb \in Val, NEW ta \in Val, NEW taddr \in Val
  PROVE  LET n == Node(kind, sort, r, elem, home, tb, ta, taddr) IN
         /\ n \in OpNode /\ Blank(n)
         /\ n.kind = kind /\ n.sort = sort /\ n.r = r /\ n.elem = elem /\ n.home = home
         /\ n.tb = tb /\ n.ta = ta /\ n.taddr = taddr
<1>1. 0 \in Val
  BY ReverseExecAssumption DEF Val
<1> QED
  BY <1>1 DEF Node, OpNode, Blank

-----------------------------------------------------------------------------
(* An instruction added. *)

\* What the access log may hold for one instruction.
Log == {<<>>} \cup {<<x>> : x \in Entry}

\* m is l with an instruction node at its end.
Started(l, m, n) ==
  /\ n \in InstRec /\ m \in Seq(OpNode \cup InstRec) /\ Len(l) \in Nat /\ Len(m) = Len(l) + 1
  /\ m[Len(l) + 1] = n /\ \A j \in 1..Len(l) : m[j] = l[j]

\* The nodes of a list with a new instruction.
LEMMA StartedIs ==
  ASSUME NEW l, Nodes(l), NEW n, NEW m, Started(l, m, n)
  PROVE  /\ Nodes(m) /\ Ops(m) = Ops(l) /\ Insts(m) = Insts(l) \cup {Len(l) + 1}
         /\ \A j \in Ops(l) : m[j] = l[j] /\ (Done(m, j) <=> Done(l, j))
         /\ \A h \in Insts(l) : m[h] = l[h]
<1> DEFINE e == Len(l) + 1
<1>1. /\ m \in Seq(OpNode \cup InstRec) /\ Len(l) \in Nat /\ Len(m) = e /\ m[e] = n
      /\ \A j \in 1..Len(l) : m[j] = l[j]
  BY DEF Started
<1>2. n.kind = "inst"
  BY DEF Started, InstRec
<1>3. 1..e = 1..Len(l) \cup {e} /\ e \notin 1..Len(l)
  BY <1>1
<1> HIDE DEF e
<1>4. Ops(m) = Ops(l)
  BY <1>1, <1>2, <1>3 DEF Ops
<1>5. Insts(m) = Insts(l) \cup {e}
  BY <1>1, <1>2, <1>3 DEF Insts
<1>6. /\ \A j \in Ops(l) : m[j] = l[j]
      /\ \A h \in Insts(l) : m[h] = l[h]
  BY <1>1 DEF Ops, Insts
<1>7. \A j \in Ops(l) : l[j].home \in Insts(l) /\ l[j].home < j
  BY DEF Nodes
<1>8. \A j \in Ops(l) : Done(m, j) <=> Done(l, j)
  BY <1>6, <1>7 DEF Done
<1>9. Nodes(m)
  BY <1>1, <1>4, <1>5, <1>6, <1>7 DEF Nodes
<1> QED
  BY <1>4, <1>5, <1>6, <1>8, <1>9 DEF e

\* A list with a new instruction is one in the making.
LEMMA StartedPart ==
  ASSUME Env, NEW l, ListInv(l), NEW w, Ends(l, w), NEW n, NEW m, Started(l, m, n)
  PROVE  Part(m, w)
<1>1. Nodes(l) /\ Sound(l) /\ Chained(l)
  BY DEF ListInv
<1>2. /\ Nodes(m) /\ Ops(m) = Ops(l)
      /\ \A j \in Ops(l) : m[j] = l[j] /\ (Done(m, j) <=> Done(l, j))
  BY <1>1, StartedIs
<1>3. Sound(m)
  BY <1>1, <1>2 DEF Sound, Right, Done
<1>4. \A x, I : I \subseteq Ops(l) => (NoDef(m, x, I) <=> NoDef(l, x, I))
  BY <1>2 DEF NoDef
<1>5. Chained(m)
  <2> SUFFICES ASSUME NEW j \in Ops(m), Located(m[j])
               PROVE  /\ NoDef(m, m[j], {k \in Ops(m) : k < j}) => m[j].ta = At(core, m[j])
                      /\ \A i \in Ops(m) : (/\ i < j /\ SameLoc(m[i], m[j])
                             /\ NoDef(m, m[j], {k \in Ops(m) : i < k /\ k < j}))
                               => Earlier(m[i]) = m[j].ta
    BY DEF Chained
  <2>1. /\ NoDef(l, l[j], {k \in Ops(l) : k < j}) => l[j].ta = At(core, l[j])
        /\ \A i \in Ops(l) : (/\ i < j /\ SameLoc(l[i], l[j])
                             /\ NoDef(l, l[j], {k \in Ops(l) : i < k /\ k < j}))
                               => Earlier(l[i]) = l[j].ta
    BY <1>1, <1>2 DEF Chained
  <2>2. NoDef(m, m[j], {k \in Ops(m) : k < j}) <=> NoDef(l, l[j], {k \in Ops(l) : k < j})
    BY <1>2, <1>4
  <2>3. \A i \in Ops(l) : NoDef(m, m[j], {k \in Ops(m) : i < k /\ k < j})
                            <=> NoDef(l, l[j], {k \in Ops(l) : i < k /\ k < j})
    BY <1>2, <1>4
  <2> QED
    BY <1>2, <2>1, <2>2, <2>3
<1>6. Ends(m, w)
  <2>1. \A j \in Ops(l) : NoDef(m, m[j], {k \in Ops(m) : j < k})
                            <=> NoDef(l, l[j], {k \in Ops(l) : j < k})
    BY <1>2, <1>4
  <2>2. \A j \in Ops(m) : Located(m[j]) /\ NoDef(m, m[j], {k \in Ops(m) : j < k})
                            => Earlier(m[j]) = At(w, m[j])
    BY <1>2, <2>1 DEF Ends
  <2>3. \A k \in Ops(l) : m[k] = l[k]
    BY <1>2
  <2>4. /\ \A r \in Reg : (\A k \in Ops(m) : ~(m[k].kind = "def" /\ m[k].sort = "reg" /\ m[k].r = r))
                       => w.reg[r] = core.reg[r]
        /\ \A a \in Ram : (\A k \in Ops(m) : ~(m[k].kind = "def" /\ m[k].sort = "mem" /\ m[k].taddr = a))
                       => w.mem[a] = core.mem[a]
    BY <1>2, <2>3 DEF Ends
  <2> QED
    BY <2>2, <2>4 DEF Ends
<1>7. Seen(m)
  <2> SUFFICES ASSUME Honest, setup.memac, NEW j \in Ops(l), l[j].sort = "mem", l[j].taddr \in Mapped
               PROVE  l[j].addr # 0
    BY <1>2 DEF Seen
  <2>1. /\ j = l[j].home + 2 /\ l[l[j].home].inst.op \in {"ldr", "str"} /\ Done(l, j)
        /\ l[j].home \in Insts(l)
    BY <1>1, MemNode, NodeIs
  <2> QED
    BY <2>1 DEF ListInv, Given, Done
<1> QED
  BY <1>2, <1>3, <1>5, <1>6, <1>7 DEF Part

\* add_new_inst.
LEMMA AddInstIs ==
  ASSUME Env, NEW S, NEW w, Inv(S), Ends(S.list, w), NEW i \in Code, NEW index \in Nat, NEW log \in Log
  PROVE  LET T == add_new_inst(S, i, index, log) IN
         /\ Held(T, w) /\ Started(S.list, T.list, InstNode(i, index, log))
         /\ T.usel = S.usel /\ T.defl = S.defl /\ T.instl = S.instl /\ T.umem = S.umem
<1> DEFINE l == S.list
           n == InstNode(i, index, log)
           m == Append(l, n)
           T == State(m, S.usel, S.defl, S.instl, S.umem, S.bad)
<1>1. Structure(S) /\ ListInv(l) /\ Queues(S) /\ Nodes(l)
  BY DEF Inv, ListInv, Structure
<1>2. n \in InstRec
  BY ReverseExecAssumption DEF InstNode, InstRec, Log
<1>3. l \in Seq(OpNode \cup InstRec)
  BY <1>1 DEF Nodes
<1> HIDE DEF n
<1>4. Started(l, m, n)
  BY <1>2, <1>3, AppendIs DEF Started
<1> HIDE DEF m
<1>5. add_new_inst(S, i, index, log) = T
  <2>1. add_new_inst(S, i, index, log) = [S EXCEPT !.list = m]
    BY DEF add_new_inst, m, n
  <2>2. [S EXCEPT !.list = m] = State(m, S.usel, S.defl, S.instl, S.umem, S.bad)
    BY <1>1, SetIs
  <2> QED
    BY <2>1, <2>2
<1>6. /\ Structure(T) /\ T.list = m /\ T.usel = S.usel /\ T.defl = S.defl /\ T.instl = S.instl
      /\ T.umem = S.umem /\ T.bad = S.bad
  BY StateIs
<1> HIDE DEF T
<1>7. /\ Ops(m) = Ops(l) /\ Insts(l) \subseteq Insts(m) /\ \A j \in Ops(l) : m[j] = l[j]
  BY <1>1, <1>4, StartedIs
<1>8. UseReady(m) = UseReady(l) /\ DefReady(m) = DefReady(l)
  BY <1>7 DEF UseReady, DefReady
<1>9. Queues(T)
  BY <1>1, <1>6, <1>7, <1>8, SeqWider DEF Queues
<1>10. Part(m, w)
  BY <1>1, <1>4, StartedPart
<1> QED
  BY <1>4, <1>5, <1>6, <1>9, <1>10 DEF Held, n
-----------------------------------------------------------------------------
(* The operands of an instruction. *)

\* g is the node of an instruction that led from p to m (that faulted in p = m if its
\* index is 0), with what the access log has of it.
Ran(g, p, m) ==
  LET i == g.inst
      a == Address(i, p) IN
  /\ g \in InstRec /\ i \in Code /\ p \in World /\ m \in World
  /\ IF g.index = 0 THEN p = m /\ Faults(i, m) ELSE Executes(i, p, m)
  /\ g.log # <<>> <=> setup.memac /\ g.index # 0 /\ i.op \in {"ldr", "str"} /\ a \in Ram \cup Mmio
  /\ g.log # <<>> => g.log[1] = [addr |-> a, val |-> IF i.op = "ldr" THEN m.reg[i.r] ELSE p.reg[i.r]]

\* What is known of an instruction that ran from one machine state to another.
LEMMA RanIs ==
  ASSUME Env, NEW g, NEW p, NEW m, Ran(g, p, m)
  PROVE  LET i == g.inst
             a == Address(i, p) IN
         /\ i \in Code /\ i \in Instruction /\ p \in World /\ m \in World
         /\ i.op \in {"mov", "add", "sub", "rsb", "ldr", "str"} /\ i.r \in Reg /\ i.b \in Reg
         /\ i.c = "imm" \/ i.c \in Reg
         /\ i.k \in Val
         /\ g.index # 0 => Executes(i, p, m)
         /\ g.index = 0 => p = m /\ i.op \in {"ldr", "str"} /\ a \notin Mapped /\ g.log = <<>>
         /\ a \in Val
         /\ \A r \in Reg : p.reg[r] \in Val /\ m.reg[r] \in Val
         /\ \A b \in Ram : p.mem[b] \in Val /\ m.mem[b] \in Val
         /\ g.log # <<>> => /\ setup.memac /\ i.op \in {"ldr", "str"}
                            /\ g.log[1].addr = a
                            /\ g.log[1].val = IF i.op = "ldr" THEN m.reg[i.r] ELSE p.reg[i.r]
         /\ Honest /\ setup.memac /\ i.op \in {"ldr", "str"} /\ a \in Mapped => g.log # <<>>
<1> DEFINE i == g.inst
           a == Address(i, p)
<1>1. i \in Code /\ i \in Instruction /\ p \in World /\ m \in World
  BY ReverseExecAssumption DEF Ran
<1>2. /\ i.op \in {"mov", "add", "sub", "rsb", "ldr", "str"} /\ i.r \in Reg /\ i.b \in Reg
      /\ i.c = "imm" \/ i.c \in Reg
      /\ i.k \in Val
  BY <1>1 DEF Instruction
<1>3. a \in Val
  BY <1>1, AddressIn
<1>4. /\ g.index # 0 => Executes(i, p, m)
      /\ g.index = 0 => p = m /\ i.op \in {"ldr", "str"} /\ a \notin Mapped
  BY DEF Ran, Faults
<1>5. g.index = 0 => g.log = <<>>
  BY DEF Ran
<1>6. /\ \A r \in Reg : p.reg[r] \in Val /\ m.reg[r] \in Val
      /\ \A b \in Ram : p.mem[b] \in Val /\ m.mem[b] \in Val
  BY <1>1 DEF World
<1>7. g.log # <<>> => /\ setup.memac /\ i.op \in {"ldr", "str"}
                      /\ g.log[1].addr = a
                      /\ g.log[1].val = IF i.op = "ldr" THEN m.reg[i.r] ELSE p.reg[i.r]
  BY DEF Ran
<1>8. Honest /\ setup.memac /\ i.op \in {"ldr", "str"} /\ a \in Mapped => g.log # <<>>
  BY <1>4, EnvIs DEF Ran
<1> QED
  BY <1>1, <1>2, <1>3, <1>4, <1>5, <1>6, <1>7, <1>8

\* The operands that general_handler makes for g, whose id is h.
Dst(g, h, p, m) == Node("def", "reg", g.inst.r, "Opd", h, p.reg[g.inst.r], m.reg[g.inst.r], 0)
Source(r, h, p) == Node("use", "reg", r, "Opd", h, 0, p.reg[r], 0)
Constant(g, h) == Node("use", "imm", g.inst.r, "Opd", h, 0, g.inst.k, 0)
Base(g, h, p) == Node("use", "reg", g.inst.b, "Base", h, 0, p.reg[g.inst.b], 0)
Index(g, h, p) == Node("use", "reg", g.inst.c, "Index", h, 0, p.reg[g.inst.c], 0)
Load(g, h, p, m) ==
  Node("use", "mem", g.inst.b, "Opd", h, 0, m.reg[g.inst.r], Address(g.inst, p))
Store(g, h, p) ==
  LET a == Address(g.inst, p) IN
  Node("def", "mem", g.inst.b, "Opd", h, IF a \in Ram THEN p.mem[a] ELSE 0, p.reg[g.inst.r], a)

\* The destination register fits.
LEMMA FitsDst ==
  ASSUME Env, NEW l, NEW h \in Insts(l), h \in Nat, NEW p, NEW m, Ran(l[h], p, m), l[h].inst.op # "str"
  PROVE  Fits(l, m, p, Dst(l[h], h, p, m))
<1> DEFINE g == l[h]
           i == g.inst
           n == Dst(g, h, p, m)
<1> HIDE DEF i, g
<1>0. 0 \in Val
  BY EnvIs
<1>1. Ran(g, p, m) /\ i = g.inst /\ i.op # "str" /\ g = l[h]
  BY DEF g, i
<1>2. /\ i \in Instruction /\ p \in World /\ m \in World /\ i.r \in Reg
      /\ g.index # 0 => Executes(i, p, m)
      /\ g.index = 0 => p = m
      /\ p.reg[i.r] \in Val /\ m.reg[i.r] \in Val
      /\ g.log # <<>> => /\ setup.memac /\ i.op \in {"ldr", "str"}
                         /\ g.log[1].val = IF i.op = "ldr" THEN m.reg[i.r] ELSE p.reg[i.r]
      /\ g.index = 0 => g.log = <<>>
  BY <1>1, RanIs
<1>3. /\ n \in OpNode /\ Blank(n) /\ n.kind = "def" /\ n.sort = "reg" /\ n.r = i.r
      /\ n.elem = "Opd" /\ n.home = h /\ n.tb = p.reg[i.r] /\ n.ta = m.reg[i.r]
  BY <1>0, <1>1, <1>2 DEF Dst, Node, OpNode, Blank
<1> HIDE DEF n
<1>4. m.mem = p.mem /\ \A r \in Reg : r # i.r => m.reg[r] = p.reg[r]
  BY <1>1, <1>2, ExecutedIs
<1>5. LogFits(l, n)
  BY <1>1, <1>2, <1>3 DEF LogFits, Logged
<1>6. g.index = 0 => ~Logged(l, n)
  BY <1>1, <1>2, <1>3 DEF Logged
<1>7. Elsewhere(m, p, n)
  BY <1>3, <1>4 DEF Elsewhere
<1>8. n.ta = At(m, n) /\ Earlier(n) = At(p, n)
  BY <1>3 DEF At, Earlier
<1> QED
  BY <1>1, <1>3, <1>5, <1>6, <1>7, <1>8 DEF Fits, n, g

\* A source register fits.
LEMMA FitsSource ==
  ASSUME Env, NEW l, NEW h \in Insts(l), h \in Nat, NEW p, NEW m, Ran(l[h], p, m), NEW r \in Reg
  PROVE  /\ l[h].inst.op \notin {"ldr", "str"} => Fits(l, p, p, Source(r, h, p))
         /\ l[h].inst.op = "str" /\ r = l[h].inst.r => Fits(l, m, m, Source(r, h, p))
<1> DEFINE g == l[h]
           i == g.inst
           n == Source(r, h, p)
<1> HIDE DEF i, g
<1>0. 0 \in Val
  BY EnvIs
<1>1. Ran(g, p, m) /\ i = g.inst /\ g = l[h]
  BY DEF g, i
<1>2. /\ i \in Instruction /\ p \in World /\ m \in World /\ p.reg[r] \in Val
      /\ g.index # 0 => Executes(i, p, m)
      /\ g.index = 0 => p = m
      /\ g.log # <<>> => /\ setup.memac /\ i.op \in {"ldr", "str"}
                         /\ g.log[1].val = IF i.op = "ldr" THEN m.reg[i.r] ELSE p.reg[i.r]
      /\ g.index = 0 => g.log = <<>>
  BY <1>1, RanIs
<1>3. /\ n \in OpNode /\ Blank(n) /\ n.kind = "use" /\ n.sort = "reg" /\ n.r = r
      /\ n.elem = "Opd" /\ n.home = h /\ n.ta = p.reg[r]
  BY <1>0, <1>2 DEF Source, Node, OpNode, Blank
<1> HIDE DEF n
<1>4. Elsewhere(p, p, n) /\ Elsewhere(m, m, n)
  BY DEF Elsewhere
<1>5. g.index = 0 => ~Logged(l, n)
  BY <1>1, <1>2, <1>3 DEF Logged
<1>6. ASSUME i.op \notin {"ldr", "str"} PROVE Fits(l, p, p, n)
  <2>1. ~Logged(l, n)
    BY <1>1, <1>2, <1>3, <1>6 DEF Logged
  <2> QED
    BY <1>1, <1>3, <1>4, <2>1 DEF Fits, LogFits, At, Earlier
<1>7. ASSUME i.op = "str", r = i.r PROVE Fits(l, m, m, n)
  <2>1. m.reg[r] = p.reg[r]
    BY <1>1, <1>2, <1>7, ExecutedIs
  <2>2. LogFits(l, n)
    BY <1>1, <1>2, <1>3, <1>7 DEF LogFits, Logged
  <2> QED
    BY <1>1, <1>3, <1>4, <1>5, <2>1, <2>2 DEF Fits, At, Earlier
<1> QED
  BY <1>1, <1>6, <1>7 DEF n

\* An immediate fits.
LEMMA FitsConstant ==
  ASSUME Env, NEW l, NEW h \in Insts(l), h \in Nat, NEW p, NEW m, Ran(l[h], p, m),
         l[h].inst.op \notin {"ldr", "str"}
  PROVE  Fits(l, p, p, Constant(l[h], h))
<1> DEFINE g == l[h]
           i == g.inst
           n == Constant(g, h)
<1> HIDE DEF i, g
<1>0. 0 \in Val
  BY EnvIs
<1>1. Ran(g, p, m) /\ i = g.inst /\ i.op \notin {"ldr", "str"} /\ g = l[h]
  BY DEF g, i
<1>2. /\ i.k \in Val /\ i.r \in Reg
      /\ g.log # <<>> => i.op \in {"ldr", "str"}
  BY <1>1, RanIs
<1>3. /\ n \in OpNode /\ Blank(n) /\ n.kind = "use" /\ n.sort = "imm" /\ n.elem = "Opd" /\ n.home = h
  BY <1>0, <1>1, <1>2 DEF Constant, Node, OpNode, Blank
<1> HIDE DEF n
<1>4. Elsewhere(p, p, n)
  BY DEF Elsewhere
<1>5. ~Logged(l, n)
  BY <1>1, <1>2, <1>3 DEF Logged
<1> QED
  BY <1>1, <1>3, <1>4, <1>5 DEF Fits, LogFits, Located, n, g

\* The base register fits.
LEMMA FitsBase ==
  ASSUME Env, NEW l, NEW h \in Insts(l), h \in Nat, NEW p, NEW m, Ran(l[h], p, m)
  PROVE  Fits(l, p, p, Base(l[h], h, p))
<1> DEFINE g == l[h]
           i == g.inst
           n == Base(g, h, p)
<1> HIDE DEF i, g
<1>0. 0 \in Val
  BY EnvIs
<1>1. Ran(g, p, m) /\ i = g.inst /\ g = l[h]
  BY DEF g, i
<1>2. /\ p.reg[i.b] \in Val /\ i.b \in Reg /\ i.k \in Val
      /\ g.log # <<>> => g.log[1].addr = Address(i, p)
      /\ g.index = 0 => g.log = <<>>
  BY <1>1, RanIs
<1>3. /\ n \in OpNode /\ Blank(n) /\ n.kind = "use" /\ n.sort = "reg" /\ n.r = i.b
      /\ n.elem = "Base" /\ n.home = h /\ n.ta = p.reg[i.b]
  BY <1>0, <1>1, <1>2 DEF Base, Node, OpNode, Blank
<1> HIDE DEF n
<1>4. Elsewhere(p, p, n)
  BY DEF Elsewhere
<1>5. g.index = 0 => ~Logged(l, n)
  BY <1>1, <1>2, <1>3 DEF Logged
<1>6. LogFits(l, n)
  <2> SUFFICES ASSUME Logged(l, n) PROVE Minus(g.log[1].addr, i.k) = n.ta
    BY <1>1, <1>3 DEF LogFits
  <2>1. i.c = "imm" /\ g.log # <<>>
    BY <1>1, <1>3 DEF Logged
  <2>2. g.log[1].addr = Wrap(p.reg[i.b] + i.k)
    BY <1>2, <2>1 DEF Address, Operand
  <2> QED
    BY <1>2, <1>3, <2>2, Inverses
<1> QED
  BY <1>1, <1>3, <1>4, <1>5, <1>6 DEF Fits, At, Earlier, n, g

\* The index register fits.
LEMMA FitsIndex ==
  ASSUME Env, NEW l, NEW h \in Insts(l), h \in Nat, NEW p, NEW m, Ran(l[h], p, m),
         l[h].inst.c # "imm"
  PROVE  Fits(l, p, p, Index(l[h], h, p))
<1> DEFINE g == l[h]
           i == g.inst
           n == Index(g, h, p)
<1> HIDE DEF i, g
<1>0. 0 \in Val
  BY EnvIs
<1>1. Ran(g, p, m) /\ i = g.inst /\ g = l[h] /\ i.c # "imm"
  BY DEF g, i
<1>2. i.c \in Reg /\ p.reg[i.c] \in Val
  BY <1>1, RanIs
<1>3. /\ n \in OpNode /\ Blank(n) /\ n.kind = "use" /\ n.sort = "reg" /\ n.r = i.c
      /\ n.elem = "Index" /\ n.home = h /\ n.ta = p.reg[i.c]
  BY <1>0, <1>1, <1>2 DEF Index, Node, OpNode, Blank
<1> HIDE DEF n
<1>4. Elsewhere(p, p, n)
  BY DEF Elsewhere
<1>5. ~Logged(l, n)
  BY <1>1, <1>3 DEF Logged
<1> QED
  BY <1>1, <1>3, <1>4, <1>5 DEF Fits, LogFits, At, Earlier, n, g

\* The memory that is read fits.
LEMMA FitsLoad ==
  ASSUME Env, NEW l, NEW h \in Insts(l), h \in Nat, NEW p, NEW m, Ran(l[h], p, m), l[h].inst.op = "ldr"
  PROVE  Fits(l, p, p, Load(l[h], h, p, m))
<1> DEFINE g == l[h]
           i == g.inst
           a == Address(i, p)
           n == Load(g, h, p, m)
<1> HIDE DEF i, g
<1>0. 0 \in Val /\ Ram \subseteq Mapped
  BY EnvIs
<1>1. Ran(g, p, m) /\ i = g.inst /\ i.op = "ldr" /\ g = l[h]
  BY DEF g, i
<1>2. /\ i \in Instruction /\ p \in World /\ m \in World /\ i.b \in Reg
      /\ g.index # 0 => Executes(i, p, m)
      /\ g.index = 0 => p = m /\ a \notin Mapped /\ g.log = <<>>
      /\ m.reg[i.r] \in Val /\ a \in Val
      /\ g.log # <<>> => /\ setup.memac /\ g.log[1].addr = a
                         /\ g.log[1].val = IF i.op = "ldr" THEN m.reg[i.r] ELSE p.reg[i.r]
      /\ Honest /\ setup.memac /\ i.op \in {"ldr", "str"} /\ a \in Mapped => g.log # <<>>
  BY <1>1, RanIs
<1>3. /\ n \in OpNode /\ Blank(n) /\ n.kind = "use" /\ n.sort = "mem"
      /\ n.elem = "Opd" /\ n.home = h /\ n.ta = m.reg[i.r] /\ n.taddr = a
  BY <1>0, <1>1, <1>2 DEF Load, Node, OpNode, Blank
<1> HIDE DEF n
<1>4. Elsewhere(p, p, n)
  BY DEF Elsewhere
<1>5. a \in Ram => m.reg[i.r] = p.mem[a]
  BY <1>0, <1>1, <1>2, ExecutedIs
<1> HIDE DEF a
<1>6. g.index = 0 => ~Logged(l, n)
  BY <1>1, <1>2, <1>3 DEF Logged
<1>7. LogFits(l, n)
  BY <1>1, <1>2, <1>3 DEF LogFits, Logged
<1>8. Honest /\ setup.memac /\ n.taddr \in Mapped => Logged(l, n)
  BY <1>1, <1>2, <1>3 DEF Logged
<1>9. Located(n) => n.ta = At(p, n) /\ Earlier(n) = At(p, n)
  BY <1>3, <1>5 DEF Located, At, Earlier
<1> QED
  BY <1>1, <1>3, <1>4, <1>6, <1>7, <1>8, <1>9 DEF Fits, n, g

\* The memory that is written fits.
LEMMA FitsStore ==
  ASSUME Env, NEW l, NEW h \in Insts(l), h \in Nat, NEW p, NEW m, Ran(l[h], p, m), l[h].inst.op = "str"
  PROVE  Fits(l, m, p, Store(l[h], h, p))
<1> DEFINE g == l[h]
           i == g.inst
           a == Address(i, p)
           n == Store(g, h, p)
           b == IF a \in Ram THEN p.mem[a] ELSE 0
<1> HIDE DEF i, g
<1>0. 0 \in Val /\ Ram \subseteq Mapped
  BY EnvIs
<1>1. Ran(g, p, m) /\ i = g.inst /\ i.op = "str" /\ g = l[h]
  BY DEF g, i
<1>2. /\ i \in Instruction /\ p \in World /\ m \in World /\ i.b \in Reg
      /\ g.index # 0 => Executes(i, p, m)
      /\ g.index = 0 => p = m /\ a \notin Mapped /\ g.log = <<>>
      /\ p.reg[i.r] \in Val /\ a \in Val
      /\ g.log # <<>> => /\ setup.memac /\ g.log[1].addr = a
                         /\ g.log[1].val = IF i.op = "ldr" THEN m.reg[i.r] ELSE p.reg[i.r]
      /\ Honest /\ setup.memac /\ i.op \in {"ldr", "str"} /\ a \in Mapped => g.log # <<>>
  BY <1>1, RanIs
<1>3. b \in Val
  BY <1>0, <1>2 DEF World
<1>4. n = Node("def", "mem", i.b, "Opd", h, b, p.reg[i.r], a)
  BY <1>1 DEF Store
<1>5. (a \in Ram => b = p.mem[a])
  OBVIOUS
<1>6. /\ a \in Ram => m.mem[a] = p.reg[i.r]
      /\ m.reg = p.reg /\ \A c \in Ram : c # a => m.mem[c] = p.mem[c]
  BY <1>0, <1>1, <1>2, ExecutedIs
<1> HIDE DEF b, n
<1>7. /\ n \in OpNode /\ Blank(n) /\ n.kind = "def" /\ n.sort = "mem"
      /\ n.elem = "Opd" /\ n.home = h /\ n.ta = p.reg[i.r] /\ n.taddr = a /\ n.tb = b
  BY <1>0, <1>1, <1>2, <1>3, <1>4 DEF Node, OpNode, Blank
<1> HIDE DEF a
<1>8. Elsewhere(m, p, n)
  BY <1>6, <1>7 DEF Elsewhere
<1>9. g.index = 0 => ~Logged(l, n)
  BY <1>1, <1>2, <1>7 DEF Logged
<1>10. LogFits(l, n)
  BY <1>1, <1>2, <1>7 DEF LogFits, Logged
<1>11. Honest /\ setup.memac /\ n.taddr \in Mapped => Logged(l, n)
  BY <1>1, <1>2, <1>7 DEF Logged
<1>12. Located(n) => n.ta = At(m, n) /\ Earlier(n) = At(p, n)
  BY <1>5, <1>6, <1>7 DEF Located, At, Earlier
<1> QED
  BY <1>1, <1>7, <1>8, <1>9, <1>10, <1>11, <1>12 DEF Fits, n, g
-----------------------------------------------------------------------------
(* One operand after another. *)

\* T is S with k more operands, the machine being w before the oldest of them.
Built(S, T, k, w) ==
  /\ Held(T, w) /\ Len(S.list) \in Nat /\ Len(T.list) = Len(S.list) + k
  /\ \A j \in 1..Len(S.list) : T.list[j] = S.list[j]
  /\ Insts(T.list) = Insts(S.list)
  /\ Ops(T.list) = Ops(S.list) \cup {j \in Nat : Len(S.list) < j /\ j <= Len(S.list) + k}
  /\ T.instl = S.instl /\ T.umem = S.umem
  /\ S.usel \in Seq(Nat) /\ S.defl \in Seq(Nat)
  /\ Longer(S.usel, T.usel) /\ Longer(S.defl, T.defl)
  /\ \A j \in Nat : Len(S.list) < j /\ j <= Len(S.list) + k => FreshAt(T, j)

\* U is T with one more, made from n.
Next1(S, T, U, n) ==
  LET e == Len(T.list) + 1 IN
  /\ NewNode(S.list, n, U.list[e])
  /\ n.sort = "imm" \/ Undefined(T.list, n) => U.list[e].ak
  /\ \A j \in 1..Len(T.list) : U.list[j] = T.list[j]

\* The worklists hold node ids.
LEMMA HeldQueues ==
  ASSUME NEW S, NEW w, Held(S, w)
  PROVE  S.usel \in Seq(Nat) /\ S.defl \in Seq(Nat)
<1>1. S.usel \in Seq(UseReady(S.list)) /\ S.defl \in Seq(DefReady(S.list))
  BY DEF Held, Queues
<1>2. UseReady(S.list) \subseteq Nat /\ DefReady(S.list) \subseteq Nat
  BY DEF UseReady, DefReady, Ops
<1> QED
  BY <1>1, <1>2, SeqWider

\* What is said of an operand stays so when another is added.
LEMMA FreshOn ==
  ASSUME NEW T, NEW w, Held(T, w), NEW U, NEW v, Held(U, v), NEW n, NewState(T, U, n),
         NEW j \in Ops(T.list), FreshAt(T, j), n.home \in Insts(T.list)
  PROVE  FreshAt(U, j)
<1> DEFINE l == T.list
           m == U.list
<1>1. /\ Grown(l, m, m[Len(l) + 1]) /\ NewNode(l, n, m[Len(l) + 1])
      /\ Longer(T.usel, U.usel) /\ Longer(T.defl, U.defl)
  BY DEF NewState
<1>2. Nodes(l) /\ j \in 1..Len(l) /\ Len(l) \in Nat
  BY NodeIs DEF Held, Part, Ops
<1>3. Waits(T, j) => Waits(U, j)
  BY <1>1, HeldQueues, LongerIs DEF Waits
<1>4. Ops(m) = Ops(l) \cup {Len(l) + 1}
  <2>1. m[Len(l) + 1] \in OpNode /\ m[Len(l) + 1].home \in Insts(l)
    BY <1>1 DEF NewNode, SameStatic
  <2> HIDE DEF m, l
  <2> QED
    BY <1>1, <1>2, <2>1, GrownIs
<1>5. \A k \in 1..Len(l) : m[k] = l[k]
  BY <1>1 DEF Grown
<1> DEFINE D(k) == k \in Ops(l) /\ k < j /\ l[k].kind = "def" /\ SameTarget(l[k], l[j])
           E(k) == k \in Ops(m) /\ k < j /\ m[k].kind = "def" /\ SameTarget(m[k], m[j])
<1>7. m[j] = l[j]
  BY <1>2, <1>5
<1>6. \A k : E(k) <=> D(k)
  <2>1. \A k : k \in Ops(m) /\ k < j <=> k \in Ops(l) /\ k < j
    BY <1>2, <1>4
  <2>2. \A k \in Ops(l) : m[k] = l[k]
    BY <1>5 DEF Ops
  <2> HIDE DEF m, l
  <2> QED
    BY <2>1, <2>2, <1>7
<1>8. SUFFICES ASSUME l[j].sort = "reg"
               PROVE  \/ m[j].ak /\ \A k : ~E(k)
                      \/ \E d : /\ E(d) /\ (\A k : E(k) => k <= d)
                                /\ m[d].bk => m[j].ak
                                /\ m[j].ak /\ ~m[d].bk => Waits(U, j)
  BY <1>7 DEF FreshAt
<1>9. \/ l[j].ak /\ \A k : ~D(k)
      \/ \E d : /\ D(d) /\ (\A k : D(k) => k <= d)
                /\ l[d].bk => l[j].ak
                /\ l[j].ak /\ ~l[d].bk => Waits(T, j)
  BY <1>8 DEF FreshAt
<1>10. \A d : D(d) => m[d] = l[d]
  BY <1>5 DEF Ops
<1> HIDE DEF D, E, m, l
<1>11. CASE l[j].ak /\ \A k : ~D(k)
  BY <1>6, <1>7, <1>11
<1>12. ASSUME NEW d, D(d), \A k : D(k) => k <= d,
              l[d].bk => l[j].ak, l[j].ak /\ ~l[d].bk => Waits(T, j)
       PROVE  \E c : /\ E(c) /\ (\A k : E(k) => k <= c)
                     /\ m[c].bk => m[j].ak
                     /\ m[j].ak /\ ~m[c].bk => Waits(U, j)
  <2>2. /\ E(d) /\ (\A k : E(k) => k <= d)
        /\ m[d].bk => m[j].ak
        /\ m[j].ak /\ ~m[d].bk => Waits(U, j)
    BY <1>12, <1>3, <1>6, <1>7, <1>10
  <2> QED
    BY <2>2
<1> QED
  BY <1>9, <1>11, <1>12

\* No operand added yet.
LEMMA BuiltSelf ==
  ASSUME NEW S, NEW w, Held(S, w)
  PROVE  Built(S, S, 0, w)
<1>1. Nodes(S.list)
  BY DEF Held, Part
<1>2. Len(S.list) \in Nat
  BY <1>1 DEF Nodes
<1>3. {j \in Nat : Len(S.list) < j /\ j <= Len(S.list) + 0} = {}
  BY <1>2
<1>4. /\ S.usel \in Seq(Nat) /\ S.defl \in Seq(Nat)
      /\ Longer(S.usel, S.usel) /\ Longer(S.defl, S.defl)
  BY HeldQueues, LongerTwice
<1>5. \A j \in Nat : ~(Len(S.list) < j /\ j <= Len(S.list) + 0)
  BY <1>2
<1> QED
  BY <1>2, <1>3, <1>4, <1>5 DEF Built

\* The worklists go on.
LEMMA BuiltLonger ==
  ASSUME NEW S, NEW T, NEW k, NEW w, Built(S, T, k, w), NEW U, NEW v, Held(U, v),
         Longer(T.usel, U.usel), Longer(T.defl, U.defl)
  PROVE  Longer(S.usel, U.usel) /\ Longer(S.defl, U.defl)
<1>1. /\ Held(T, w) /\ Longer(S.usel, T.usel) /\ Longer(S.defl, T.defl)
      /\ S.usel \in Seq(Nat) /\ S.defl \in Seq(Nat)
  BY DEF Built
<1>2. /\ S.usel \in Seq(Nat) /\ S.defl \in Seq(Nat) /\ T.usel \in Seq(Nat) /\ T.defl \in Seq(Nat)
      /\ U.usel \in Seq(Nat) /\ U.defl \in Seq(Nat)
  BY <1>1, HeldQueues
<1> QED
  BY <1>1, <1>2, LongerTwice

\* One more operand added.
LEMMA BuiltOn ==
  ASSUME NEW S, Nodes(S.list), NEW T, NEW k \in Nat, NEW w, Built(S, T, k, w),
         NEW v, NEW n \in OpNode, n.home \in Insts(S.list), NEW U, Joined(T, U, n), Held(U, v),
         NEW q, q = k + 1
  PROVE  Built(S, U, q, v) /\ Next1(S, T, U, n)
<1> DEFINE l == S.list
           t == T.list
           u == U.list
           e == Len(t) + 1
           x == u[e]
<1>1. /\ Len(l) \in Nat /\ Len(t) = Len(l) + k
      /\ \A j \in 1..Len(l) : t[j] = l[j]
      /\ Insts(t) = Insts(l) /\ T.instl = S.instl /\ T.umem = S.umem
      /\ Ops(t) = Ops(l) \cup {j \in Nat : Len(l) < j /\ j <= Len(l) + k}
      /\ Nodes(t)
  BY DEF Built, Held, Part
<1>2. /\ Grown(t, u, x) /\ NewNode(t, n, x) /\ U.instl = T.instl /\ U.umem = T.umem
      /\ n.sort = "imm" \/ Undefined(t, n) => x.ak
      /\ Longer(T.usel, U.usel) /\ Longer(T.defl, U.defl)
  BY DEF Joined, NewState
<1>15. Longer(S.usel, U.usel) /\ Longer(S.defl, U.defl)
  BY <1>2, BuiltLonger
<1>16. \A j \in Nat : Len(l) < j /\ j <= Len(l) + q => FreshAt(U, j)
  <2> SUFFICES ASSUME NEW j \in Nat, Len(l) < j, j <= Len(l) + q PROVE FreshAt(U, j)
    OBVIOUS
  <2>1. NewState(T, U, n) /\ FreshAt(U, e) /\ n.home \in Insts(T.list) /\ Held(T, w) /\ Held(U, v)
    BY <1>1 DEF Joined, Built
  <2>5. \A i \in Nat : Len(l) < i /\ i <= Len(l) + k => i \in Ops(T.list) /\ FreshAt(T, i)
    BY <1>1 DEF Built
  <2> HIDE DEF l, t
  <2>2. e = Len(l) + q
    BY <1>1
  <2>3. CASE j = e
    BY <2>1, <2>3
  <2>4. CASE j # e
    <3>1. j <= Len(l) + k
      BY <2>2, <2>4, <1>1
    <3>2. j \in Ops(T.list) /\ FreshAt(T, j)
      BY <3>1, <2>5
    <3> QED
      BY <2>1, <3>2, FreshOn
  <2> QED
    BY <2>3, <2>4
<1>3. x \in OpNode /\ SameStatic(n, x)
  BY <1>2 DEF NewNode
<1>4. x.home \in Insts(t)
  BY <1>1, <1>3 DEF SameStatic
<1>6. Len(u) = e /\ \A j \in 1..Len(t) : u[j] = t[j]
  BY <1>2 DEF Grown
<1>7. t[n.home] = l[n.home]
  BY <1>1, InstIs
<1>8. NewNode(l, n, x)
  BY <1>2, <1>7 DEF NewNode, Logged
<1> HIDE DEF x, u, l, t
<1>5. Ops(u) = Ops(t) \cup {e} /\ Insts(u) = Insts(t)
  <2>1. Nodes(t) /\ x \in OpNode /\ x.home \in Insts(t) /\ Grown(t, u, x)
    BY <1>1, <1>2, <1>3, <1>4
  <2> QED
    BY ONLY <2>1, GrownIs
<1>9. e = Len(l) + k + 1
  BY <1>1
<1>10. \A j \in 1..Len(l) : j \in 1..Len(t)
  BY <1>1
<1>11. {j \in Nat : Len(l) < j /\ j <= Len(l) + (k + 1)}
         = {j \in Nat : Len(l) < j /\ j <= Len(l) + k} \cup {e}
  BY <1>1, <1>9
<1>12. Ops(u) = Ops(l) \cup {j \in Nat : Len(l) < j /\ j <= Len(l) + (k + 1)}
  BY <1>1, <1>5, <1>11
<1>13. Len(u) = Len(l) + (k + 1)
  BY <1>1, <1>6
<1>14. \A j \in 1..Len(l) : u[j] = l[j]
  BY <1>1, <1>6, <1>10
<1> QED
  BY <1>1, <1>2, <1>5, <1>6, <1>8, <1>12, <1>13, <1>14, <1>15, <1>16 DEF Built, Next1, l, t, u, x

\* What fits still fits when operands were added.
LEMMA FitsOn ==
  ASSUME NEW S, Nodes(S.list), NEW T, NEW k \in Nat, NEW w, Built(S, T, k, w),
         NEW u, NEW v, NEW n, Fits(S.list, u, v, n)
  PROVE  Fits(T.list, u, v, n)
<1>1. n.home \in Insts(S.list) /\ \A j \in 1..Len(S.list) : T.list[j] = S.list[j]
  BY DEF Fits, Built
<1>2. T.list[n.home] = S.list[n.home] /\ Insts(T.list) = Insts(S.list)
  BY <1>1, InstIs DEF Built
<1> QED
  BY <1>2 DEF Fits, LogFits, Logged

\* One more use added.
LEMMA UseOn ==
  ASSUME Env, NEW S, Nodes(S.list), NEW T, NEW k \in Nat, NEW w, Built(S, T, k, w),
         NEW v, NEW n, Fits(S.list, w, v, n), n.kind = "use", NEW q, q = k + 1
  PROVE  Built(S, add_new_use(T, n), q, v) /\ Next1(S, T, add_new_use(T, n), n)
<1> DEFINE U == add_new_use(T, n)
<1>1. Fits(T.list, w, v, n) /\ n \in OpNode /\ n.home \in Insts(S.list) /\ Held(T, w)
  BY FitsOn DEF Fits, Built
<1>2. Joined(T, U, n) /\ Held(U, v)
  BY <1>1, AddUseIs
<1> HIDE DEF U
<1>3. Built(S, U, q, v) /\ Next1(S, T, U, n)
  BY <1>1, <1>2, BuiltOn
<1> QED
  BY <1>3 DEF U

\* One more definition added.
LEMMA DefineOn ==
  ASSUME Env, NEW S, Nodes(S.list), NEW T, NEW k \in Nat, NEW w, Built(S, T, k, w),
         NEW v, NEW n, Fits(S.list, w, v, n), n.sort # "imm", NEW q, q = k + 1
  PROVE  Built(S, add_new_define(T, n), q, v) /\ Next1(S, T, add_new_define(T, n), n)
<1> DEFINE U == add_new_define(T, n)
<1>1. Fits(T.list, w, v, n) /\ n \in OpNode /\ n.home \in Insts(S.list) /\ Held(T, w)
  BY FitsOn DEF Fits, Built
<1>2. Joined(T, U, n) /\ Held(U, v)
  BY <1>1, AddDefineIs
<1> HIDE DEF U
<1>3. Built(S, U, q, v) /\ Next1(S, T, U, n)
  BY <1>1, <1>2, BuiltOn
<1> QED
  BY <1>3 DEF U

\* No register has been defined.
Clean(l) == \A k \in Ops(l) : ~(l[k].kind = "def" /\ l[k].sort = "reg")

\* While no register is defined, the list stays clean.
LEMMA CleanOn ==
  ASSUME NEW S, NEW T, NEW U, NEW k \in Nat, NEW w, NEW v, Built(S, T, k, w), NEW q, q = k + 1, Built(S, U, q, v),
         NEW n, Next1(S, T, U, n), ~(n.kind = "def" /\ n.sort = "reg"),
         Clean(T.list)
  PROVE  Clean(U.list)
<1> DEFINE t == T.list
           u == U.list
           e == Len(t) + 1
<1>1. /\ Len(S.list) \in Nat /\ Len(t) = Len(S.list) + k
      /\ Ops(u) = Ops(S.list) \cup {j \in Nat : Len(S.list) < j /\ j <= Len(S.list) + (k + 1)}
      /\ Ops(t) = Ops(S.list) \cup {j \in Nat : Len(S.list) < j /\ j <= Len(S.list) + k}
  BY DEF Built
<1>2. SameStatic(n, u[e]) /\ \A j \in 1..Len(t) : u[j] = t[j]
  BY DEF Next1, NewNode
<1>3. \A j \in Ops(t) : j \in 1..Len(t)
  BY DEF Ops
<1> HIDE DEF t, u
<1>4. \A j \in Ops(u) : j = e \/ j \in Ops(t)
  <2> SUFFICES ASSUME NEW j \in Ops(u), j \notin Ops(S.list) PROVE j = e \/ j \in Ops(t)
    BY <1>1
  <2>1. j \in Nat /\ Len(S.list) < j /\ j <= Len(S.list) + (k + 1)
    BY <1>1
  <2>2. j <= Len(S.list) + k \/ j = e
    <3>1. PICK N \in Nat : N = Len(S.list)
      BY <1>1
    <3>2. PICK z : z = e
      OBVIOUS
    <3>3. z = N + k + 1
      BY <1>1, <3>1, <3>2
    <3>4. j \in Nat /\ N < j /\ j <= N + (k + 1)
      BY <2>1, <3>1
    <3>5. j <= N + k \/ j = z
      BY ONLY k \in Nat, N \in Nat, <3>3, <3>4
    <3> QED
      BY <3>1, <3>2, <3>5
  <2> QED
    BY <1>1, <2>1, <2>2
<1>5. \A j \in Ops(t) : ~(t[j].kind = "def" /\ t[j].sort = "reg")
  BY DEF Clean, t
<1>6. ~(u[e].kind = "def" /\ u[e].sort = "reg")
  BY <1>2 DEF SameStatic
<1> QED
  BY <1>2, <1>3, <1>4, <1>5, <1>6 DEF Clean, t, u
-----------------------------------------------------------------------------
(* The operands of each kind of instruction. *)

\* T is S with the operands of instruction h, its last node.
Handled(S, T, h, p) ==
  LET l == T.list
      i == S.list[h].inst IN
  /\ Built(S, T, Size(i), p) /\ BlockAt(l, h)
  /\ Honest /\ setup.memac /\ l[h].index # 0 /\ i.op \in {"ldr", "str"}
       => l[h + 1].ak /\ l[h + 2].ak /\ l[h + 2].addr # 0
  /\ l[h].index = 0 /\ i.op = "ldr" => l[h + 1].ak
  /\ l[h].index = 0 /\ i.op = "str" => \A k \in (h + 1)..(h + Size(i)) : l[k].sort = "reg" => l[k].ak
  /\ i.op \in {"ldr", "str"} /\ l[h + 2].addr # 0 => l[h + 2].ak

\* The first k nodes are the same.
Same(l, m, k) == \A j \in 1..k : m[j] = l[j]
Owned(S, l, h, k) ==
  /\ h + k <= Len(l) /\ l[h] = S.list[h]
  /\ \A j \in (h + 1)..(h + k) : j \in Ops(l)

\* What there is to know of the k-th operand of h.
NodeOf(S, T, h, k, n) == SameStatic(n, T.list[h + k]) /\ NewNode(S.list, n, T.list[h + k])

\* The node that was added is the next one.
LEMMA NodeOfNext ==
  ASSUME NEW S, NEW T, NEW U, NEW k \in Nat, NEW w, Built(S, T, k, w), NEW n, Next1(S, T, U, n),
         NEW h, h = Len(S.list), NEW q, q = k + 1
  PROVE  /\ NodeOf(S, U, h, q, n)
         /\ n.sort = "reg" /\ Clean(T.list) => U.list[h + q].ak
         /\ Same(T.list, U.list, h + k)
<1>1. h \in Nat /\ Len(T.list) = h + k /\ q \in Nat
  BY DEF Built
<1>2. Len(T.list) + 1 = h + q
  <2>1. PICK N : N = Len(T.list)
    OBVIOUS
  <2>2. h \in Nat /\ N = h + k
    BY <1>1, <2>1
  <2>3. N + 1 = h + q
    BY ONLY k \in Nat, q = k + 1, <2>2
  <2> QED
    BY <2>1, <2>3
<1>3. /\ NewNode(S.list, n, U.list[h + q])
      /\ Undefined(T.list, n) => U.list[h + q].ak
      /\ \A j \in 1..(h + k) : U.list[j] = T.list[j]
  BY <1>1, <1>2 DEF Next1
<1>4. n.sort = "reg" /\ Clean(T.list) => Undefined(T.list, n)
  BY DEF Clean, Undefined
<1> QED
  BY <1>3, <1>4 DEF NodeOf, NewNode, Same

\* The new operands belong to h.
LEMMA OwnedIs ==
  ASSUME NEW S, NEW T, NEW k \in Nat, NEW w, Built(S, T, k, w), NEW h, h = Len(S.list), h \in Insts(S.list)
  PROVE  Owned(S, T.list, h, k)
<1>1. /\ h \in Nat /\ Len(T.list) = h + k /\ h \in 1..Len(S.list)
      /\ \A j \in 1..Len(S.list) : T.list[j] = S.list[j]
      /\ Ops(T.list) = Ops(S.list) \cup {j \in Nat : h < j /\ j <= h + k}
  BY DEF Built, Insts
<1>2. h + k <= Len(T.list) /\ h \in Nat \ {0} /\ T.list[h] = S.list[h]
  BY <1>1
<1>3. ASSUME NEW j \in (h + 1)..(h + k) PROVE j \in Nat /\ h < j /\ j <= h + k
  BY <1>1, <1>3
<1> QED
  BY <1>1, <1>2, <1>3 DEF Owned

\* The operands of mov.
LEMMA MovIs ==
  ASSUME Env, NEW S, NEW p, NEW m, Held(S, m), NEW h \in Insts(S.list), h = Len(S.list),
         Ran(S.list[h], p, m), S.list[h].inst.op = "mov"
  PROVE  Handled(S, add_new_use(add_new_define(S, Dst(S.list[h], h, p, m)),
                                Source(S.list[h].inst.b, h, p)), h, p)
<1> DEFINE l == S.list
           g == l[h]
           i == g.inst
           n1 == Dst(g, h, p, m)
           n2 == Source(i.b, h, p)
           A == add_new_define(S, n1)
           B == add_new_use(A, n2)
<1>0. PICK c0, c1, c2 : c0 = 0 /\ c1 = 1 /\ c2 = 2
  OBVIOUS
<1>n. c0 \in Nat /\ c1 \in Nat /\ c2 \in Nat /\ c1 = c0 + 1 /\ c2 = c1 + 1
  BY <1>0
<1>1. Nodes(l) /\ Built(S, S, c0, m) /\ h \in Nat
  BY <1>0, BuiltSelf, InstIs DEF Held, Part
<1>2. /\ i \in Code /\ i \in Instruction /\ p \in World /\ m \in World /\ i.b \in Reg /\ i.op = "mov"
      /\ g.index # 0 /\ Executes(i, p, m)
  BY RanIs
<1>3. Fits(l, m, p, n1) /\ Fits(l, p, p, n2)
  BY <1>1, <1>2, FitsDst, FitsSource
<1>4. /\ n1.kind = "def" /\ n1.sort = "reg" /\ n1.r = i.r /\ n1.elem = "Opd" /\ n1.home = h
      /\ n1.ta = m.reg[i.r]
  BY DEF Dst, Node
<1>5. /\ n2.kind = "use" /\ n2.sort = "reg" /\ n2.r = i.b /\ n2.elem = "Opd" /\ n2.home = h
      /\ n2.ta = p.reg[i.b]
  BY DEF Source, Node
<1>6. m.reg[i.r] = p.reg[i.b]
  BY <1>2, ExecutedIs
<1> HIDE DEF n1, n2, A
<1>7. Built(S, A, c1, p) /\ Next1(S, S, A, n1)
  BY <1>n, <1>1, <1>3, <1>4, DefineOn DEF A
<1>9. Built(S, B, c2, p) /\ Next1(S, A, B, n2)
  BY <1>n, <1>1, <1>3, <1>5, <1>7, UseOn
<1> HIDE DEF B
<1>10. NodeOf(S, A, h, c1, n1)
  BY <1>n, <1>1, <1>7, NodeOfNext
<1>11. NodeOf(S, B, h, c2, n2) /\ Same(A.list, B.list, h + c1)
  BY <1>n, <1>7, <1>9, NodeOfNext
<1>12. NodeOf(S, B, h, 1, n1) /\ NodeOf(S, B, h, 2, n2)
  BY <1>0, <1>1, <1>10, <1>11 DEF NodeOf, Same
<1>13. Owned(S, B.list, h, c2)
  BY <1>n, <1>9, OwnedIs
<1>14. h + 2 <= Len(B.list) /\ B.list[h] = g /\ \A j \in (h + 1)..(h + 2) : j \in Ops(B.list)
  BY <1>0, <1>13 DEF Owned
<1>15. Size(i) = 2
  BY <1>2 DEF Size, Arithmetic
<1>16. SameStatic(n1, B.list[h + 1]) /\ SameStatic(n2, B.list[h + 2])
  BY <1>12 DEF NodeOf
<1> HIDE DEF i, g
<1>17. \A j \in (h + 1)..(h + 2) : B.list[j].home = h
  BY <1>1, <1>4, <1>5, <1>16 DEF SameStatic
<1>18. MovAt(B.list, h)
  BY <1>2, <1>4, <1>5, <1>6, <1>14, <1>16 DEF MovAt, RegNode, SameStatic, i
<1>19. BlockAt(B.list, h)
  BY <1>2, <1>14, <1>15, <1>17, <1>18 DEF BlockAt, i, Arithmetic
<1>20. Handled(S, B, h, p)
  BY <1>0, <1>2, <1>9, <1>15, <1>19 DEF Handled, i, g
<1> QED
  BY <1>20 DEF B, A, n1, n2, i, g
\* The operands of an arithmetic instruction.
LEMMA ArithIs ==
  ASSUME Env, NEW S, NEW p, NEW m, Held(S, m), NEW h \in Insts(S.list), h = Len(S.list),
         Ran(S.list[h], p, m), S.list[h].inst.op \in Arithmetic
  PROVE  LET i == S.list[h].inst IN
         Handled(S, add_new_use(add_new_use(add_new_define(S, Dst(S.list[h], h, p, m)),
                                            Source(i.b, h, p)),
                                IF i.c = "imm" THEN Constant(S.list[h], h) ELSE Source(i.c, h, p)),
                 h, p)
<1> DEFINE l == S.list
           g == l[h]
           i == g.inst
           n1 == Dst(g, h, p, m)
           n2 == Source(i.b, h, p)
           n3 == IF i.c = "imm" THEN Constant(g, h) ELSE Source(i.c, h, p)
           A == add_new_define(S, n1)
           B == add_new_use(A, n2)
           C == add_new_use(B, n3)
<1>0. PICK c0, c1, c2, c3 : c0 = 0 /\ c1 = 1 /\ c2 = 2 /\ c3 = 3
  OBVIOUS
<1>n. c0 \in Nat /\ c1 \in Nat /\ c2 \in Nat /\ c3 \in Nat /\ c1 = c0 + 1 /\ c2 = c1 + 1 /\ c3 = c2 + 1
  BY <1>0
<1>1. Nodes(l) /\ Built(S, S, c0, m) /\ h \in Nat
  BY <1>0, BuiltSelf, InstIs DEF Held, Part
<1>2. /\ i \in Code /\ i \in Instruction /\ p \in World /\ m \in World /\ i.b \in Reg
      /\ i.op \in Arithmetic /\ i.op \notin {"mov", "ldr", "str"}
      /\ i.c = "imm" \/ i.c \in Reg
      /\ g.index # 0 /\ Executes(i, p, m)
  BY RanIs DEF Arithmetic
<1>3. Fits(l, m, p, n1) /\ Fits(l, p, p, n2)
  BY <1>1, <1>2, FitsDst, FitsSource
<1>4. /\ n1.kind = "def" /\ n1.sort = "reg" /\ n1.r = i.r /\ n1.elem = "Opd" /\ n1.home = h
      /\ n1.ta = m.reg[i.r]
  BY DEF Dst, Node
<1>5. /\ n2.kind = "use" /\ n2.sort = "reg" /\ n2.r = i.b /\ n2.elem = "Opd" /\ n2.home = h
      /\ n2.ta = p.reg[i.b]
  BY DEF Source, Node
<1>6. /\ n3.kind = "use" /\ n3.sort \in {"reg", "imm"} /\ n3.elem = "Opd" /\ n3.home = h
      /\ n3.ta = Operand(i, p)
  BY DEF Source, Constant, Node, Operand
<1>7. Fits(l, p, p, n3)
  BY <1>1, <1>2, FitsConstant, FitsSource
<1>8. m.reg[i.r] = Result(i.op, p.reg[i.b], Operand(i, p))
  BY <1>2, ExecutedIs
<1> HIDE DEF n1, n2, n3, A
<1>9. Built(S, A, c1, p) /\ Next1(S, S, A, n1)
  BY <1>n, <1>1, <1>3, <1>4, DefineOn DEF A
<1>10. Built(S, B, c2, p) /\ Next1(S, A, B, n2)
  BY <1>n, <1>1, <1>3, <1>5, <1>9, UseOn
<1> HIDE DEF B
<1>11. Built(S, C, c3, p) /\ Next1(S, B, C, n3)
  BY <1>n, <1>1, <1>6, <1>7, <1>10, UseOn
<1> HIDE DEF C
<1>12. NodeOf(S, A, h, c1, n1)
  BY <1>n, <1>1, <1>9, NodeOfNext
<1>13. NodeOf(S, B, h, c2, n2) /\ Same(A.list, B.list, h + c1)
  BY <1>n, <1>9, <1>10, NodeOfNext
<1>14. NodeOf(S, C, h, c3, n3) /\ Same(B.list, C.list, h + c2)
  BY <1>n, <1>10, <1>11, NodeOfNext
<1>15. NodeOf(S, B, h, 1, n1)
  BY <1>0, <1>1, <1>12, <1>13 DEF NodeOf, Same
<1>16. NodeOf(S, C, h, 1, n1) /\ NodeOf(S, C, h, 2, n2) /\ NodeOf(S, C, h, 3, n3)
  BY <1>0, <1>1, <1>13, <1>14, <1>15 DEF NodeOf, Same
<1>17. Owned(S, C.list, h, c3)
  BY <1>n, <1>11, OwnedIs
<1>18. h + 3 <= Len(C.list) /\ C.list[h] = g /\ \A j \in (h + 1)..(h + 3) : j \in Ops(C.list)
  BY <1>0, <1>17 DEF Owned
<1>19. Size(i) = 3
  BY <1>2 DEF Size
<1>20. SameStatic(n1, C.list[h + 1]) /\ SameStatic(n2, C.list[h + 2]) /\ SameStatic(n3, C.list[h + 3])
  BY <1>16 DEF NodeOf
<1> HIDE DEF i, g
<1>21. \A j \in (h + 1)..(h + 3) : C.list[j].home = h
  <2>1. C.list[h + 1].home = h /\ C.list[h + 2].home = h /\ C.list[h + 3].home = h
    BY <1>4, <1>5, <1>6, <1>20 DEF SameStatic
  <2>2. \A j \in (h + 1)..(h + 3) : j = h + 1 \/ j = h + 2 \/ j = h + 3
    BY <1>1
  <2> QED
    BY <2>1, <2>2
<1>22. ArithAt(C.list, h)
  BY <1>2, <1>4, <1>5, <1>6, <1>8, <1>18, <1>20 DEF ArithAt, RegNode, SameStatic, i
<1>23. BlockAt(C.list, h)
  BY <1>2, <1>18, <1>19, <1>21, <1>22 DEF BlockAt, i
<1>24. Handled(S, C, h, p)
  BY <1>0, <1>2, <1>11, <1>19, <1>23 DEF Handled, i, g
<1> QED
  BY <1>24 DEF C, B, A, n1, n2, n3, i, g

\* The registers of an address.
Expr(T, g, h, p) ==
  IF g.inst.c = "imm" THEN add_new_use(T, Base(g, h, p))
  ELSE add_new_use(add_new_use(T, Base(g, h, p)), Index(g, h, p))

\* The registers of an address.
LEMMA ExprIs ==
  ASSUME Env, NEW S, NEW p, NEW m, NEW h \in Insts(S.list), h = Len(S.list), h \in Nat, Nodes(S.list),
         Ran(S.list[h], p, m), S.list[h].inst.op \in {"ldr", "str"}, NEW B, Built(S, B, 2, p)
  PROVE  LET g == S.list[h]
             U == Expr(B, g, h, p) IN
         /\ Built(S, U, Size(g.inst), p) /\ Same(B.list, U.list, h + 2)
         /\ NodeOf(S, U, h, 3, Base(g, h, p))
         /\ g.inst.c # "imm" => NodeOf(S, U, h, 4, Index(g, h, p))
         /\ Clean(B.list) => /\ U.list[h + 3].ak
                             /\ g.inst.c # "imm" => U.list[h + 4].ak
<1> DEFINE l == S.list
           g == l[h]
           i == g.inst
           n3 == Base(g, h, p)
           n4 == Index(g, h, p)
           C == add_new_use(B, n3)
           D == add_new_use(C, n4)
<1>0. PICK c2, c3, c4 : c2 = 2 /\ c3 = 3 /\ c4 = 4
  OBVIOUS
<1>n. c2 \in Nat /\ c3 \in Nat /\ c4 \in Nat /\ c3 = c2 + 1 /\ c4 = c3 + 1
  BY <1>0
<1>1. Built(S, B, c2, p)
  BY <1>0
<1>2. n3.kind = "use" /\ n3.sort = "reg" /\ n4.kind = "use" /\ n4.sort = "reg"
  BY DEF Base, Index, Node
<1>3. Fits(l, p, p, n3) /\ (i.c # "imm" => Fits(l, p, p, n4))
  BY FitsBase, FitsIndex
<1> HIDE DEF n3, n4
<1>4. Built(S, C, c3, p) /\ Next1(S, B, C, n3)
  BY <1>n, <1>1, <1>2, <1>3, UseOn
<1> HIDE DEF C
<1>5. i.c # "imm" => Built(S, D, c4, p) /\ Next1(S, C, D, n4)
  BY <1>n, <1>2, <1>3, <1>4, UseOn
<1> HIDE DEF D
<1>6. NodeOf(S, C, h, c3, n3) /\ Same(B.list, C.list, h + c2) /\ (Clean(B.list) => C.list[h + c3].ak)
  BY <1>n, <1>1, <1>2, <1>4, NodeOfNext
<1>7. i.c # "imm" => /\ NodeOf(S, D, h, c4, n4) /\ Same(C.list, D.list, h + c3)
                     /\ Clean(C.list) => D.list[h + c4].ak
  BY <1>n, <1>2, <1>4, <1>5, NodeOfNext
<1>8. Clean(B.list) => Clean(C.list)
  BY <1>n, <1>1, <1>2, <1>4, CleanOn
<1>9. CASE i.c = "imm"
  <2>1. Size(i) = 3
    BY <1>9 DEF Size, Arithmetic
  <2>2. Expr(B, g, h, p) = C
    BY <1>9 DEF Expr, C, n3
  <2> QED
    BY <1>0, <1>4, <1>6, <1>9, <2>1, <2>2 DEF n3
<1>10. CASE i.c # "imm"
  <2>1. Size(i) = 4
    BY <1>10 DEF Size, Arithmetic
  <2>2. Expr(B, g, h, p) = D
    BY <1>10 DEF Expr, C, D, n3, n4
  <2>3. Same(B.list, D.list, h + 2) /\ NodeOf(S, D, h, 3, n3) /\ D.list[h + 3] = C.list[h + 3]
    BY <1>0, <1>6, <1>7, <1>10 DEF Same, NodeOf
  <2> QED
    BY <1>0, <1>5, <1>6, <1>7, <1>8, <1>10, <2>1, <2>2, <2>3 DEF n3, n4
<1> QED
  BY <1>9, <1>10

\* What the address of a memory access says of its node.
LEMMA AddressIs ==
  ASSUME Env, NEW S, NEW p, NEW m, NEW h \in Insts(S.list), h \in Nat, Ran(S.list[h], p, m),
         S.list[h].inst.op \in {"ldr", "str"}, NEW U, U.list[h] = S.list[h],
         NEW n2, n2.sort = "mem", n2.elem = "Opd", n2.taddr = Address(S.list[h].inst, p), n2.home = h,
         NodeOf(S, U, h, 2, n2), NodeOf(S, U, h, 3, Base(S.list[h], h, p)),
         S.list[h].inst.c # "imm" => NodeOf(S, U, h, 4, Index(S.list[h], h, p))
  PROVE  /\ AddrAt(U.list, h)
         /\ Honest /\ setup.memac /\ S.list[h].index # 0 => U.list[h + 2].ak /\ U.list[h + 2].addr # 0
         /\ U.list[h + 2].addr # 0 => U.list[h + 2].ak
<1> DEFINE l == S.list
           g == l[h]
           i == g.inst
           n3 == Base(g, h, p)
           n4 == Index(g, h, p)
           a == Address(i, p)
<1>1. /\ g.index # 0 => Executes(i, p, m)
      /\ g.index = 0 => a \notin Mapped
      /\ i \in Instruction /\ p \in World /\ m \in World
      /\ Honest /\ setup.memac /\ i.op \in {"ldr", "str"} /\ a \in Mapped => g.log # <<>>
      /\ g.log # <<>> => g.log[1].addr = a
  BY RanIs
<1>2. g.index # 0 <=> a \in Mapped
  BY <1>1, ExecutedIs
<1>3. /\ n3.kind = "use" /\ n3.sort = "reg" /\ n3.r = i.b /\ n3.elem = "Base" /\ n3.home = h
      /\ n3.ta = p.reg[i.b]
      /\ n4.kind = "use" /\ n4.sort = "reg" /\ n4.r = i.c /\ n4.elem = "Index" /\ n4.home = h
      /\ n4.ta = p.reg[i.c]
  BY DEF Base, Index, Node
<1>4. /\ SameStatic(n2, U.list[h + 2]) /\ SameStatic(n3, U.list[h + 3])
      /\ i.c # "imm" => SameStatic(n4, U.list[h + 4])
  BY DEF NodeOf
<1>5. a = Wrap(p.reg[i.b] + IF i.c = "imm" THEN i.k ELSE p.reg[i.c])
  BY DEF Address, Operand
<1> HIDE DEF a, n3, n4
<1>6. AddrAt(U.list, h)
  BY <1>2, <1>3, <1>4, <1>5 DEF AddrAt, RegNode, SameStatic, a
<1>7. Logged(l, n2) <=> g.log # <<>>
  BY DEF Logged
<1>8. /\ Logged(l, n2) => U.list[h + 2].ak /\ U.list[h + 2].addr = g.log[1].addr
      /\ ~Logged(l, n2) => U.list[h + 2].addr = 0
  BY DEF NodeOf, NewNode
<1>9. Honest /\ setup.memac /\ g.index # 0 => U.list[h + 2].ak /\ U.list[h + 2].addr # 0
  BY <1>1, <1>2, <1>7, <1>8, EnvIs
<1> QED
  BY <1>6, <1>7, <1>8, <1>9

\* The operands of ldr.
LEMMA LoadIs ==
  ASSUME Env, NEW S, NEW p, NEW m, Held(S, m), NEW h \in Insts(S.list), h = Len(S.list),
         Ran(S.list[h], p, m), S.list[h].inst.op = "ldr", S.list[h].index = 0 => Clean(S.list)
  PROVE  LET g == S.list[h] IN
         Handled(S, Expr(add_new_use(add_new_define(S, Dst(g, h, p, m)), Load(g, h, p, m)), g, h, p),
                 h, p)
<1> DEFINE l == S.list
           g == l[h]
           i == g.inst
           a == Address(i, p)
           n1 == Dst(g, h, p, m)
           n2 == Load(g, h, p, m)
           A == add_new_define(S, n1)
           B == add_new_use(A, n2)
           C == Expr(B, g, h, p)
<1>0. PICK c0, c1, c2 : c0 = 0 /\ c1 = 1 /\ c2 = 2
  OBVIOUS
<1>n. c0 \in Nat /\ c1 \in Nat /\ c2 \in Nat /\ c1 = c0 + 1 /\ c2 = c1 + 1
  BY <1>0
<1>1. Nodes(l) /\ Built(S, S, c0, m) /\ h \in Nat
  BY <1>0, BuiltSelf, InstIs DEF Held, Part
<1>2. /\ i \in Code /\ i \in Instruction /\ p \in World /\ m \in World /\ i.b \in Reg
      /\ i.op = "ldr" /\ (g.index # 0 => Executes(i, p, m))
      /\ g.index = 0 => p = m
      /\ Honest /\ setup.memac /\ i.op \in {"ldr", "str"} /\ a \in Mapped => g.log # <<>>
  BY RanIs
<1>3. Fits(l, m, p, n1) /\ Fits(l, p, p, n2)
  BY <1>1, <1>2, FitsDst, FitsLoad
<1>4. /\ n1.kind = "def" /\ n1.sort = "reg" /\ n1.r = i.r /\ n1.elem = "Opd" /\ n1.home = h
      /\ n1.ta = m.reg[i.r] /\ n1.tb = p.reg[i.r]
  BY DEF Dst, Node
<1>5. /\ n2.kind = "use" /\ n2.sort = "mem" /\ n2.elem = "Opd" /\ n2.home = h
      /\ n2.ta = m.reg[i.r] /\ n2.taddr = a
  BY DEF Load, Node
<1>6. g.index # 0 => a \in Mapped
  BY <1>2, ExecutedIs
<1> HIDE DEF n1, n2, A, a
<1>7. Built(S, A, c1, p) /\ Next1(S, S, A, n1)
  BY <1>n, <1>1, <1>3, <1>4, DefineOn DEF A
<1>8. Built(S, B, c2, p) /\ Next1(S, A, B, n2)
  BY <1>n, <1>1, <1>3, <1>5, <1>7, UseOn
<1>9. Built(S, B, 2, p)
  BY <1>0, <1>8
<1> HIDE DEF B
<1>10. /\ Built(S, C, Size(i), p) /\ Same(B.list, C.list, h + 2)
       /\ NodeOf(S, C, h, 3, Base(g, h, p))
       /\ i.c # "imm" => NodeOf(S, C, h, 4, Index(g, h, p))
  BY <1>1, <1>2, <1>9, ExprIs
<1>11. NodeOf(S, A, h, c1, n1) /\ (Clean(S.list) => A.list[h + c1].ak)
  BY <1>n, <1>1, <1>4, <1>7, NodeOfNext
<1>12. NodeOf(S, B, h, c2, n2) /\ Same(A.list, B.list, h + c1)
  BY <1>n, <1>7, <1>8, NodeOfNext
<1>13. /\ NodeOf(S, C, h, 1, n1) /\ NodeOf(S, C, h, 2, n2)
       /\ Clean(S.list) => C.list[h + 1].ak
  BY <1>0, <1>1, <1>10, <1>11, <1>12 DEF NodeOf, Same
<1>14. Size(i) = IF i.c = "imm" THEN 3 ELSE 4
  BY <1>2 DEF Size, Arithmetic
<1> HIDE DEF C
<1>15. Owned(S, C.list, h, Size(i))
  BY <1>10, <1>14, OwnedIs
<1>16. SameStatic(n1, C.list[h + 1]) /\ SameStatic(n2, C.list[h + 2])
  BY <1>13 DEF NodeOf
<1>17. C.list[h] = g
  BY <1>15 DEF Owned
<1>18. /\ AddrAt(C.list, h)
       /\ Honest /\ setup.memac /\ g.index # 0 => C.list[h + 2].ak /\ C.list[h + 2].addr # 0
       /\ C.list[h + 2].addr # 0 => C.list[h + 2].ak
  BY <1>1, <1>2, <1>5, <1>10, <1>13, <1>17, AddressIs DEF a
<1>19. \A j \in (h + 1)..(h + Size(i)) : C.list[j].home = h
  <2>1. C.list[h + 1].home = h /\ C.list[h + 2].home = h /\ C.list[h + 3].home = h
    BY <1>4, <1>5, <1>10, <1>16 DEF SameStatic, NodeOf, Base, Node
  <2>2. i.c # "imm" => C.list[h + 4].home = h
    BY <1>10 DEF SameStatic, NodeOf, Index, Node
  <2>3. \A j \in (h + 1)..(h + 4) : j = h + 1 \/ j = h + 2 \/ j = h + 3 \/ j = h + 4
    BY <1>1
  <2>4. \A j \in (h + 1)..(h + 3) : j = h + 1 \/ j = h + 2 \/ j = h + 3
    BY <1>1
  <2> QED
    BY <1>14, <2>1, <2>2, <2>3, <2>4
<1>20. Honest /\ setup.memac /\ g.index # 0 => C.list[h + 1].ak
  <2> SUFFICES ASSUME Honest, setup.memac, g.index # 0 PROVE C.list[h + 1].ak
    OBVIOUS
  <2>1. Logged(l, n1)
    BY <1>2, <1>4, <1>6 DEF Logged
  <2> QED
    BY <1>13, <2>1 DEF NodeOf, NewNode
<1> HIDE DEF i, g
<1>21. LoadAt(C.list, h)
  BY <1>2, <1>4, <1>5, <1>16, <1>17, <1>18 DEF LoadAt, RegNode, SameStatic, i
<1>22. BlockAt(C.list, h)
  BY <1>2, <1>15, <1>17, <1>19, <1>21 DEF BlockAt, Owned, i, Arithmetic
<1>23. Handled(S, C, h, p)
  BY <1>2, <1>10, <1>13, <1>17, <1>18, <1>20, <1>22 DEF Handled, i, g
<1> QED
  BY <1>23 DEF C, B, A, n1, n2, i, g

\* The operands of str.
LEMMA StoreIs ==
  ASSUME Env, NEW S, NEW p, NEW m, Held(S, m), NEW h \in Insts(S.list), h = Len(S.list),
         Ran(S.list[h], p, m), S.list[h].inst.op = "str", S.list[h].index = 0 => Clean(S.list)
  PROVE  LET g == S.list[h] IN
         Handled(S, Expr(add_new_define(add_new_use(S, Source(g.inst.r, h, p)), Store(g, h, p)), g, h, p),
                 h, p)
<1> DEFINE l == S.list
           g == l[h]
           i == g.inst
           a == Address(i, p)
           n1 == Source(i.r, h, p)
           n2 == Store(g, h, p)
           A == add_new_use(S, n1)
           B == add_new_define(A, n2)
           C == Expr(B, g, h, p)
<1>0. PICK c0, c1, c2 : c0 = 0 /\ c1 = 1 /\ c2 = 2
  OBVIOUS
<1>n. c0 \in Nat /\ c1 \in Nat /\ c2 \in Nat /\ c1 = c0 + 1 /\ c2 = c1 + 1
  BY <1>0
<1>1. Nodes(l) /\ Built(S, S, c0, m) /\ h \in Nat
  BY <1>0, BuiltSelf, InstIs DEF Held, Part
<1>2. /\ i \in Code /\ i \in Instruction /\ p \in World /\ m \in World /\ i.r \in Reg
      /\ i.op = "str" /\ (g.index # 0 => Executes(i, p, m))
      /\ Honest /\ setup.memac /\ i.op \in {"ldr", "str"} /\ a \in Mapped => g.log # <<>>
  BY RanIs
<1>3. Fits(l, m, m, n1) /\ Fits(l, m, p, n2)
  BY <1>1, <1>2, FitsSource, FitsStore
<1>4. /\ n1.kind = "use" /\ n1.sort = "reg" /\ n1.r = i.r /\ n1.elem = "Opd" /\ n1.home = h
      /\ n1.ta = p.reg[i.r]
  BY DEF Source, Node
<1>5. /\ n2.kind = "def" /\ n2.sort = "mem" /\ n2.elem = "Opd" /\ n2.home = h
      /\ n2.ta = p.reg[i.r] /\ n2.taddr = a
  BY DEF Store, Node
<1>6. g.index # 0 => a \in Mapped
  BY <1>2, ExecutedIs
<1> HIDE DEF n1, n2, A, a
<1>7. Built(S, A, c1, m) /\ Next1(S, S, A, n1)
  BY <1>n, <1>1, <1>3, <1>4, UseOn DEF A
<1>8. Built(S, B, c2, p) /\ Next1(S, A, B, n2)
  BY <1>n, <1>1, <1>3, <1>5, <1>7, DefineOn
<1>9. Built(S, B, 2, p)
  BY <1>0, <1>8
<1> HIDE DEF B
<1>10. /\ Built(S, C, Size(i), p) /\ Same(B.list, C.list, h + 2)
       /\ NodeOf(S, C, h, 3, Base(g, h, p))
       /\ i.c # "imm" => NodeOf(S, C, h, 4, Index(g, h, p))
       /\ Clean(B.list) => C.list[h + 3].ak /\ (i.c # "imm" => C.list[h + 4].ak)
  BY <1>1, <1>2, <1>9, ExprIs
<1>11. NodeOf(S, A, h, c1, n1) /\ (Clean(S.list) => A.list[h + c1].ak)
  BY <1>n, <1>1, <1>4, <1>7, NodeOfNext
<1>12. NodeOf(S, B, h, c2, n2) /\ Same(A.list, B.list, h + c1)
  BY <1>n, <1>7, <1>8, NodeOfNext
<1>13. /\ NodeOf(S, C, h, 1, n1) /\ NodeOf(S, C, h, 2, n2)
       /\ Clean(S.list) => C.list[h + 1].ak
  BY <1>0, <1>1, <1>10, <1>11, <1>12 DEF NodeOf, Same
<1>14. Size(i) = IF i.c = "imm" THEN 3 ELSE 4
  BY <1>2 DEF Size, Arithmetic
<1>15. Clean(S.list) => Clean(B.list)
  <2>1. Clean(S.list) => Clean(A.list)
    BY <1>n, <1>1, <1>4, <1>7, CleanOn
  <2>2. Clean(A.list) => Clean(B.list)
    BY <1>n, <1>5, <1>7, <1>8, CleanOn
  <2> QED
    BY <2>1, <2>2
<1> HIDE DEF C
<1>16. Owned(S, C.list, h, Size(i))
  BY <1>10, <1>14, OwnedIs
<1>17. SameStatic(n1, C.list[h + 1]) /\ SameStatic(n2, C.list[h + 2])
  BY <1>13 DEF NodeOf
<1>18. C.list[h] = g
  BY <1>16 DEF Owned
<1>19. /\ AddrAt(C.list, h)
       /\ Honest /\ setup.memac /\ g.index # 0 => C.list[h + 2].ak /\ C.list[h + 2].addr # 0
       /\ C.list[h + 2].addr # 0 => C.list[h + 2].ak
  BY <1>1, <1>2, <1>5, <1>10, <1>13, <1>18, AddressIs DEF a
<1>20. \A j \in (h + 1)..(h + Size(i)) : j = h + 1 \/ j = h + 2 \/ j = h + 3 \/ (i.c # "imm" /\ j = h + 4)
  <2>1. \A j \in (h + 1)..(h + 4) : j = h + 1 \/ j = h + 2 \/ j = h + 3 \/ j = h + 4
    BY <1>1
  <2>2. \A j \in (h + 1)..(h + 3) : j = h + 1 \/ j = h + 2 \/ j = h + 3
    BY <1>1
  <2> QED
    BY <1>14, <2>1, <2>2
<1>21. \A j \in (h + 1)..(h + Size(i)) : C.list[j].home = h
  <2>1. C.list[h + 1].home = h /\ C.list[h + 2].home = h /\ C.list[h + 3].home = h
    BY <1>4, <1>5, <1>10, <1>17 DEF SameStatic, NodeOf, Base, Node
  <2>2. i.c # "imm" => C.list[h + 4].home = h
    BY <1>10 DEF SameStatic, NodeOf, Index, Node
  <2> QED
    BY <1>20, <2>1, <2>2
<1>22. Honest /\ setup.memac /\ g.index # 0 => C.list[h + 1].ak
  <2> SUFFICES ASSUME Honest, setup.memac, g.index # 0 PROVE C.list[h + 1].ak
    OBVIOUS
  <2>1. Logged(l, n1)
    BY <1>2, <1>4, <1>6 DEF Logged
  <2> QED
    BY <1>13, <2>1 DEF NodeOf, NewNode
<1>23. g.index = 0 => \A j \in (h + 1)..(h + Size(i)) : C.list[j].sort = "reg" => C.list[j].ak
  <2> SUFFICES ASSUME g.index = 0, NEW j \in (h + 1)..(h + Size(i)), C.list[j].sort = "reg"
               PROVE  C.list[j].ak
    OBVIOUS
  <2>1. C.list[h + 2].sort = "mem"
    BY <1>5, <1>17 DEF SameStatic
  <2>2. C.list[h + 1].ak /\ C.list[h + 3].ak /\ (i.c # "imm" => C.list[h + 4].ak)
    BY <1>10, <1>13, <1>15
  <2> QED
    BY <1>20, <2>1, <2>2
<1> HIDE DEF i, g
<1>24. StoreAt(C.list, h)
  BY <1>2, <1>4, <1>5, <1>17, <1>18, <1>19 DEF StoreAt, RegNode, SameStatic, i
<1>25. BlockAt(C.list, h)
  BY <1>2, <1>16, <1>18, <1>21, <1>24 DEF BlockAt, Owned, i, Arithmetic
<1>26. Handled(S, C, h, p)
  BY <1>2, <1>10, <1>18, <1>19, <1>22, <1>23, <1>25 DEF Handled, i, g
<1> QED
  BY <1>26 DEF C, B, A, n1, n2, i, g

\* general_handler is one of the four.
LEMMA GeneralIs ==
  ASSUME Env, NEW S, NEW p, NEW m, Held(S, m), NEW h \in Insts(S.list), h = Len(S.list),
         Ran(S.list[h], p, m), S.list[h].index = 0 => Clean(S.list)
  PROVE  Handled(S, general_handler(S, S.list[h].inst, p, m), h, p)
<1> DEFINE g == S.list[h]
           i == g.inst
           a == Address(i, p)
           G == general_handler(S, i, p, m)
<1>1. i.op \in {"mov", "add", "sub", "rsb", "ldr", "str"}
  BY RanIs
<1>2. h = Len(S.list)
  OBVIOUS
<1>10. CASE i.op = "mov"
  <2>1. G = add_new_use(add_new_define(S, Dst(g, h, p, m)), Source(i.b, h, p))
    BY <1>2, <1>10 DEF general_handler, Arithmetic, Dst, Source
  <2> QED
    BY <2>1, <1>10, MovIs
<1>11. CASE i.op \in Arithmetic
  <2>1. G = add_new_use(add_new_use(add_new_define(S, Dst(g, h, p, m)), Source(i.b, h, p)),
                        IF i.c = "imm" THEN Constant(g, h) ELSE Source(i.c, h, p))
    BY <1>2, <1>11 DEF general_handler, Arithmetic, Dst, Source, Constant
  <2> QED
    BY <2>1, <1>11, ArithIs
<1>13. CASE i.op = "ldr"
  <2>1. G = Expr(add_new_use(add_new_define(S, Dst(g, h, p, m)), Load(g, h, p, m)), g, h, p)
    BY <1>2, <1>13 DEF general_handler, Arithmetic, Dst, Load, Expr, Base, Index
  <2> QED
    BY <2>1, <1>13, LoadIs
<1>14. CASE i.op = "str"
  <2>1. G = Expr(add_new_define(add_new_use(S, Source(i.r, h, p)), Store(g, h, p)), g, h, p)
    BY <1>2, <1>14 DEF general_handler, Arithmetic, Source, Store, Expr, Base, Index
  <2> QED
    BY <2>1, <1>14, StoreIs
<1> QED
  BY <1>1, <1>10, <1>11, <1>13, <1>14 DEF Arithmetic

-----------------------------------------------------------------------------
(* The list with the new instruction. *)

\* An instruction's nodes are as before when others were added.
LEMMA BlockOn ==
  ASSUME NEW l, Nodes(l), NEW m, Len(m) \in Nat, Len(l) <= Len(m), Same(l, m, Len(l)),
         Ops(l) \subseteq Ops(m), NEW h \in Insts(l), BlockAt(l, h)
  PROVE  BlockAt(m, h) /\ m[h] = l[h] /\ m[h + 1] = l[h + 1] /\ m[h + 2] = l[h + 2]
         /\ (l[h].inst.op \in {"ldr", "str"} =>
               (AddressKnown(m, h + 2, l[h].inst) <=> AddressKnown(l, h + 2, l[h].inst)))
<1> DEFINE i == l[h].inst
<1>1. h \in 1..Len(l) /\ h \in Nat \ {0} /\ Len(l) \in Nat /\ i \in Instruction
  BY InstIs
<1>2. /\ h + Size(i) <= Len(l)
      /\ \A j \in (h + 1)..(h + Size(i)) : j \in Ops(l) /\ l[j].home = h
      /\ i \in Code
      /\ CASE i.op = "mov" -> MovAt(l, h) [] i.op \in Arithmetic -> ArithAt(l, h)
           [] i.op = "ldr" -> LoadAt(l, h) [] i.op = "str" -> StoreAt(l, h)
  BY DEF BlockAt
<1>3. Size(i) \in {2, 3, 4}
  BY DEF Size
<1>4. \A j \in 1..Len(l) : m[j] = l[j]
  BY DEF Same
<1>5. m[h] = l[h] /\ m[h + 1] = l[h + 1] /\ m[h + 2] = l[h + 2]
  <2>1. h + 1 \in 1..Len(l) /\ h + 2 \in 1..Len(l)
    BY <1>1, <1>2, <1>3
  <2> QED
    BY <2>1, <1>1, <1>4
<1>6. Size(i) # 2 => m[h + 3] = l[h + 3]
  BY <1>1, <1>2, <1>3, <1>4
<1>7. Size(i) = 4 => m[h + 4] = l[h + 4]
  BY <1>1, <1>2, <1>3, <1>4
<1>8. i.op \in {"ldr", "str"} => Size(i) # 2 /\ (i.c # "imm" => Size(i) = 4)
  BY DEF Size, Arithmetic
<1>9. i.op \in Arithmetic => Size(i) = 3
  BY DEF Size, Arithmetic
<1>10. h + Size(i) <= Len(m)
  BY <1>1, <1>2, <1>3
<1>11. \A j \in (h + 1)..(h + Size(i)) : j \in Ops(m) /\ m[j].home = h
  <2> SUFFICES ASSUME NEW j \in (h + 1)..(h + Size(i)) PROVE j \in Ops(m) /\ m[j].home = h
    OBVIOUS
  <2>1. j \in Ops(l) /\ l[j].home = h
    BY <1>2
  <2> QED
    BY <2>1, <1>4 DEF Ops
<1> HIDE DEF i
<1>12. i = l[h].inst
  BY DEF i
<1>13. i.op \in {"ldr", "str"} => (AddrAt(l, h) => AddrAt(m, h))
  BY <1>5, <1>6, <1>7, <1>8, <1>12 DEF AddrAt, RegNode
<1>14. MovAt(l, h) => MovAt(m, h)
  BY <1>5 DEF MovAt, RegNode
<1>15. i.op \in Arithmetic => (ArithAt(l, h) => ArithAt(m, h))
  BY <1>5, <1>6, <1>9 DEF ArithAt, RegNode
<1>16. i.op = "ldr" => (LoadAt(l, h) => LoadAt(m, h))
  BY <1>5, <1>13 DEF LoadAt, RegNode
<1>17. i.op = "str" => (StoreAt(l, h) => StoreAt(m, h))
  BY <1>5, <1>13 DEF StoreAt, RegNode
<1>18. (CASE i.op = "mov" -> MovAt(m, h) [] i.op \in Arithmetic -> ArithAt(m, h)
          [] i.op = "ldr" -> LoadAt(m, h) [] i.op = "str" -> StoreAt(m, h))
  <2>1. i.op \in {"mov", "add", "sub", "rsb", "ldr", "str"}
    BY <1>1 DEF Instruction
  <2> QED
    BY <2>1, <1>2, <1>14, <1>15, <1>16, <1>17 DEF Arithmetic
<1>19. BlockAt(m, h)
  BY <1>2, <1>5, <1>10, <1>11, <1>12, <1>18 DEF BlockAt
<1>20. i.op \in {"ldr", "str"} => (AddressKnown(m, h + 2, i) <=> AddressKnown(l, h + 2, i))
  <2> SUFFICES ASSUME i.op \in {"ldr", "str"} PROVE AddressKnown(m, h + 2, i) <=> AddressKnown(l, h + 2, i)
    OBVIOUS
  <2>1. (h + 2) + 1 = h + 3 /\ (h + 2) + 2 = h + 4
    BY <1>1
  <2> QED
    BY <2>1, <1>6, <1>7, <1>8 DEF AddressKnown
<1> QED
  BY <1>5, <1>12, <1>19, <1>20

\* The list with the new instruction keeps its invariant.
LEMMA ListOn ==
  ASSUME Env, NEW l, ListInv(l), NEW S, NEW g, Started(l, S.list, g), g.index = 0 <=> l = <<>>,
         NEW T, NEW p, Handled(S, T, Len(l) + 1, p)
  PROVE  /\ ListInv(T.list) /\ Ends(T.list, p) /\ Same(l, T.list, Len(l))
         /\ Insts(T.list) = Insts(l) \cup {Len(l) + 1} /\ T.list[Len(l) + 1] = g
         /\ \A j \in Ops(T.list) : j \in Ops(l) \/ T.list[j].home = Len(l) + 1
<1> DEFINE h == Len(l) + 1
           s == S.list
           m == T.list
           i == g.inst
<1>1. /\ g \in InstRec /\ Len(l) \in Nat /\ Len(s) = h /\ s[h] = g
      /\ \A j \in 1..Len(l) : s[j] = l[j]
  BY DEF Started
<1>2. Nodes(l) /\ Shaped(l) /\ Given(l) /\ Addressed(l) /\ l \in Seq(OpNode \cup InstRec)
  BY DEF ListInv, Nodes
<1>3. Ops(s) = Ops(l) /\ Insts(s) = Insts(l) \cup {h}
  BY <1>2, StartedIs
<1>4. /\ Built(S, T, Size(i), p) /\ BlockAt(m, h)
      /\ Honest /\ setup.memac /\ m[h].index # 0 /\ i.op \in {"ldr", "str"}
           => m[h + 1].ak /\ m[h + 2].ak /\ m[h + 2].addr # 0
      /\ m[h].index = 0 /\ i.op = "ldr" => m[h + 1].ak
      /\ m[h].index = 0 /\ i.op = "str" => \A k \in (h + 1)..(h + Size(i)) : m[k].sort = "reg" => m[k].ak
      /\ i.op \in {"ldr", "str"} /\ m[h + 2].addr # 0 => m[h + 2].ak
  BY <1>1 DEF Handled
<1>5. /\ Held(T, p) /\ Len(m) = h + Size(i)
      /\ \A j \in 1..Len(s) : m[j] = s[j]
      /\ Insts(m) = Insts(l) \cup {h}
      /\ Ops(m) = Ops(l) \cup {j \in Nat : h < j /\ j <= h + Size(i)}
  BY <1>1, <1>3, <1>4 DEF Built
<1>6. Nodes(m) /\ Sound(m) /\ Chained(m) /\ Ends(m, p)
  BY <1>5 DEF Held, Part
<1> HIDE DEF m, s, i
<1>7. Size(i) \in {2, 3, 4} /\ Len(m) \in Nat
  BY <1>6 DEF Size, Nodes
<1>8. m[h] = g /\ Same(l, m, Len(l)) /\ Len(l) <= Len(m)
  <2>1. \A j \in 1..Len(l) : m[j] = l[j]
    BY <1>1, <1>5
  <2> QED
    BY <2>1, <1>1, <1>5, <1>7 DEF Same
<1>9. \A j \in Ops(l) : j \in 1..Len(l) /\ m[j] = l[j] /\ l[j].home \in Insts(l)
  BY <1>2, <1>8, NodeIs DEF Same
<1>10. \A x \in Insts(l) : x \in 1..Len(l) /\ m[x] = l[x] /\ x # h /\ x < h
  BY <1>1, <1>2, <1>8, InstIs DEF Same
<1>11. \A j \in Ops(m) : j \notin Ops(l) => j \in (h + 1)..(h + Size(i)) /\ m[j].home = h
  <2> SUFFICES ASSUME NEW j \in Ops(m), j \notin Ops(l)
               PROVE  j \in (h + 1)..(h + Size(i)) /\ m[j].home = h
    OBVIOUS
  <2>1. j \in Nat /\ h < j /\ j <= h + Size(i)
    BY <1>5
  <2>2. j \in (h + 1)..(h + Size(i))
    BY <1>1, <1>7, <2>1
  <2> QED
    BY <1>4, <1>8, <2>2 DEF BlockAt, i
<1>12. \A x \in Insts(l) : /\ BlockAt(m, x) /\ m[x + 1] = l[x + 1] /\ m[x + 2] = l[x + 2]
                           /\ l[x].inst.op \in {"ldr", "str"} =>
                                (AddressKnown(m, x + 2, l[x].inst) <=> AddressKnown(l, x + 2, l[x].inst))
  <2> SUFFICES ASSUME NEW x \in Insts(l)
               PROVE  /\ BlockAt(m, x) /\ m[x + 1] = l[x + 1] /\ m[x + 2] = l[x + 2]
                      /\ l[x].inst.op \in {"ldr", "str"} =>
                           (AddressKnown(m, x + 2, l[x].inst) <=> AddressKnown(l, x + 2, l[x].inst))
    OBVIOUS
  <2>1. BlockAt(l, x) /\ Ops(l) \subseteq Ops(m)
    BY <1>2, <1>5 DEF Shaped
  <2> QED
    BY <2>1, <1>2, <1>7, <1>8, BlockOn
<1>13. Shaped(m)
  <2>1. \A x \in Insts(m) : BlockAt(m, x)
    BY <1>4, <1>5, <1>12
  <2>2. \A j \in Ops(m) : j <= m[j].home + Size(m[m[j].home].inst)
    <3> SUFFICES ASSUME NEW j \in Ops(m) PROVE j <= m[j].home + Size(m[m[j].home].inst)
      OBVIOUS
    <3>1. CASE j \in Ops(l)
      BY <3>1, <1>2, <1>9, <1>10 DEF Shaped
    <3>2. CASE j \notin Ops(l)
      BY <3>2, <1>1, <1>7, <1>8, <1>11 DEF i
    <3> QED
      BY <3>1, <3>2
  <2>3. l = <<>> <=> h = 1
    BY <1>1, <1>2
  <2>4. \A x \in Insts(m) : m[x].index = 0 <=> x = 1
    <3>1. m[h].index = 0 <=> h = 1
      BY <1>8, <2>3
    <3>2. \A x \in Insts(l) : m[x].index = 0 <=> x = 1
      BY <1>2, <1>10 DEF Shaped
    <3> QED
      BY <1>5, <3>1, <3>2
  <2>5. m[1].kind = "inst"
    <3>1. CASE l = <<>>
      BY <3>1, <2>3, <1>1, <1>8 DEF InstRec
    <3>2. CASE l # <<>>
      <4>1. 1 \in 1..Len(l)
        BY <3>2, <2>3, <1>1
      <4> QED
        BY <3>2, <4>1, <1>2, <1>8 DEF Shaped, Same
    <3> QED
      BY <3>1, <3>2
  <2> QED
    BY <2>1, <2>2, <2>4, <2>5 DEF Shaped
<1>14. Given(m)
  <2> SUFFICES ASSUME NEW x \in Insts(m)
               PROVE  /\ Honest /\ setup.memac /\ m[x].index # 0 /\ m[x].inst.op \in {"ldr", "str"}
                           => m[x + 1].ak /\ m[x + 2].ak /\ m[x + 2].addr # 0
                      /\ m[x].index = 0 /\ m[x].inst.op = "ldr" => m[x + 1].ak
                      /\ m[x].index = 0 /\ m[x].inst.op = "str" =>
                           \A k \in Ops(m) : m[k].home = x /\ m[k].sort = "reg" => m[k].ak
    BY DEF Given
  <2>1. CASE x = h
    <3>1. m[x] = g /\ m[x].inst = i
      BY <2>1, <1>8 DEF i
    <3>2. \A k \in Ops(m) : m[k].home = x => k \in (h + 1)..(h + Size(i))
      BY <2>1, <1>9, <1>10, <1>11
    <3> QED
      BY <2>1, <3>1, <3>2, <1>4
  <2>2. CASE x \in Insts(l)
    <3>1. /\ Honest /\ setup.memac /\ l[x].index # 0 /\ l[x].inst.op \in {"ldr", "str"}
               => l[x + 1].ak /\ l[x + 2].ak /\ l[x + 2].addr # 0
          /\ l[x].index = 0 /\ l[x].inst.op = "ldr" => l[x + 1].ak
          /\ l[x].index = 0 /\ l[x].inst.op = "str" =>
               \A k \in Ops(l) : l[k].home = x /\ l[k].sort = "reg" => l[k].ak
      BY <2>2, <1>2 DEF Given
    <3>2. \A k \in Ops(m) : m[k].home = x => k \in Ops(l)
      BY <2>2, <1>10, <1>11
    <3>3. m[x] = l[x] /\ m[x + 1] = l[x + 1] /\ m[x + 2] = l[x + 2]
      BY <2>2, <1>10, <1>12
    <3> QED
      BY <3>1, <3>2, <3>3, <1>9
  <2> QED
    BY <1>5, <2>1, <2>2
<1>15. Addressed(m)
  <2> SUFFICES ASSUME NEW x \in Insts(m), m[x].inst.op \in {"ldr", "str"}, m[x + 2].addr # 0
               PROVE  m[x + 2].ak \/ AddressKnown(m, x + 2, m[x].inst)
    BY DEF Addressed
  <2>1. CASE x = h
    BY <2>1, <1>4, <1>8 DEF i
  <2>2. CASE x \in Insts(l)
    <3>1. m[x] = l[x] /\ m[x + 2] = l[x + 2]
      BY <2>2, <1>10, <1>12
    <3>2. l[x + 2].ak \/ AddressKnown(l, x + 2, l[x].inst)
      BY <2>2, <3>1, <1>2 DEF Addressed
    <3> QED
      BY <2>2, <3>1, <3>2, <1>12
  <2> QED
    BY <1>5, <2>1, <2>2
<1>16. ListInv(m)
  BY <1>6, <1>13, <1>14, <1>15 DEF ListInv
<1> QED
  BY <1>5, <1>6, <1>8, <1>11, <1>16 DEF m

\* The operands that T has and S has not are new ones; the log tells an address and the
\* value there at once.
Arrived(S, T) ==
  \A j \in Ops(T.list) :
     \/ j \in Ops(S.list)
     \/ FreshAt(T, j) /\ (T.list[j].sort = "mem" /\ T.list[j].addr # 0 => T.list[j].ak)

\* An operand of the last instruction.
LEMMA ArrivedIs ==
  ASSUME NEW S, Nodes(S.list), NEW T, NEW p, NEW h, Handled(S, T, h, p), h \in Insts(T.list),
         T.list[h].inst = S.list[h].inst, ListInv(T.list),
         \A j \in Ops(T.list) : j \in Ops(S.list) \/ T.list[j].home = h
  PROVE  Arrived(S, T) /\ Longer(S.usel, T.usel) /\ Longer(S.defl, T.defl)
<1> DEFINE l == S.list
           m == T.list
<1>1. /\ Len(l) \in Nat
      /\ Ops(m) = Ops(l) \cup {j \in Nat : Len(l) < j /\ j <= Len(l) + Size(l[h].inst)}
      /\ \A j \in Nat : Len(l) < j /\ j <= Len(l) + Size(l[h].inst) => FreshAt(T, j)
      /\ Longer(S.usel, T.usel) /\ Longer(S.defl, T.defl)
  BY DEF Handled, Built
<1>2. l[h].inst.op \in {"ldr", "str"} /\ m[h + 2].addr # 0 => m[h + 2].ak
  BY DEF Handled
<1> SUFFICES ASSUME NEW j \in Ops(m), j \notin Ops(l)
             PROVE  FreshAt(T, j) /\ (m[j].sort = "mem" /\ m[j].addr # 0 => m[j].ak)
  BY <1>1 DEF Arrived
<1>3. FreshAt(T, j)
  BY <1>1
<1>4. m[j].sort = "mem" /\ m[j].addr # 0 => m[j].ak
  <2> SUFFICES ASSUME m[j].sort = "mem" PROVE m[j].addr # 0 => m[j].ak
    OBVIOUS
  <2>1. m[j].home = h
    OBVIOUS
  <2>2. j = h + 2 /\ m[h].inst.op \in {"ldr", "str"}
    BY <2>1, MemNode
  <2> QED
    BY <2>2, <1>2
<1> QED
  BY <1>3, <1>4

\* Handle keeps the invariant: the trace is one instruction longer.
LEMMA HandleIs ==
  ASSUME Env, Inv(re), NEW m \in World, Ends(re.list, m), re.instl = <<>>,
         NEW i \in Code, NEW p \in World, NEW index \in Nat, index = 0 <=> re.list = <<>>,
         IF index = 0 THEN p = m /\ Faults(i, m) ELSE Executes(i, p, m)
  PROVE  LET T == Handle(i, index, p, m)
             h == Len(re.list) + 1 IN
         /\ Inv(T) /\ Ends(T.list, p) /\ Same(re.list, T.list, Len(re.list))
         /\ T.instl = <<h>> /\ Insts(T.list) = Insts(re.list) \cup {h} /\ T.list[h].index = index
         /\ Longer(re.usel, T.usel) /\ Longer(re.defl, T.defl) /\ Arrived(re, T)
<1> DEFINE l == re.list
           h == Len(l) + 1
           a == Address(i, p)
           c == setup.memac /\ index # 0 /\ i.op \in {"ldr", "str"} /\ a \in Ram \cup Mmio
           v == IF i.op = "ldr" THEN m.reg[i.r] ELSE p.reg[i.r]
           x == [addr |-> a, val |-> v]
           log == IF ~c THEN <<>> ELSE <<x>>
           g == InstNode(i, index, log)
           S == add_new_inst(re, i, index, log)
           T == general_handler(S, i, p, m)
           q == add_to_list(T.instl, h)
           U == State(T.list, T.usel, T.defl, q, T.umem, T.bad)
<1>1. i \in Instruction /\ i.r \in Reg
  BY ReverseExecAssumption DEF Instruction
<1>2. x \in Entry
  BY <1>1, AddressIn DEF Entry, World
<1>3. log \in Log
  BY <1>2 DEF Log
<1>4. /\ log # <<>> <=> c
      /\ log # <<>> => log[1] = x
  <2>1. <<x>> # <<>> /\ <<x>>[1] = x
    OBVIOUS
  <2> HIDE DEF x, c
  <2> QED
    BY <2>1
<1>5. /\ g.inst = i /\ g.index = index /\ g.log = log
  BY DEF InstNode
<1>6. Handle(i, index, p, m) = [T EXCEPT !.instl = add_to_list(@, h)]
  BY DEF Handle
<1>7. /\ ListInv(l) /\ Nodes(l) /\ Queues(re) /\ Unknowns(re) /\ l \in Seq(OpNode \cup InstRec)
      /\ Len(l) \in Nat
  BY DEF Inv, ListInv, Nodes
<1> HIDE DEF log, g
<1>8. /\ Held(S, m) /\ Started(l, S.list, g) /\ S.instl = re.instl /\ S.umem = re.umem
      /\ S.usel = re.usel /\ S.defl = re.defl
  BY <1>3, AddInstIs DEF g
<1> HIDE DEF S
<1>9. g \in InstRec /\ Len(S.list) = h /\ S.list[h] = g
  BY <1>8 DEF Started
<1>10. Ops(S.list) = Ops(l) /\ Insts(S.list) = Insts(l) \cup {h}
  BY <1>7, <1>8, StartedIs
<1>11. Ran(g, p, m)
  BY <1>4, <1>5, <1>9 DEF Ran
<1>12. index = 0 => Clean(S.list)
  <2>1. index = 0 => Ops(l) = {}
    BY <1>7 DEF Ops
  <2> QED
    BY <2>1, <1>10 DEF Clean
<1>13. Handled(S, T, h, p)
  <2>1. h \in Insts(S.list) /\ S.list[h].inst = i
    BY <1>5, <1>9, <1>10
  <2>2. Handled(S, general_handler(S, S.list[h].inst, p, m), h, p)
    BY <2>1, <1>5, <1>8, <1>9, <1>11, <1>12, GeneralIs
  <2> QED
    BY <2>1, <2>2
<1> HIDE DEF T
<1>14. /\ ListInv(T.list) /\ Ends(T.list, p) /\ Same(l, T.list, Len(l))
       /\ Insts(T.list) = Insts(l) \cup {h} /\ T.list[h] = g
       /\ \A j \in Ops(T.list) : j \in Ops(l) \/ T.list[j].home = h
  BY <1>5, <1>7, <1>8, <1>13, ListOn
<1>15. Held(T, p) /\ T.instl = S.instl /\ T.umem = S.umem
  BY <1>13 DEF Handled, Built
<1>16. Structure(T) /\ Queues(T)
  BY <1>15 DEF Held
<1>17. q = <<h>>
  BY <1>8, <1>15 DEF add_to_list, ToSet
<1>18. Handle(i, index, p, m) = U
  <2>1. PICK w : w = q
    OBVIOUS
  <2>2. [T EXCEPT !.instl = add_to_list(@, h)] = [T EXCEPT !.instl = q]
    OBVIOUS
  <2> HIDE DEF q
  <2>3. [T EXCEPT !.instl = q] = State(T.list, T.usel, T.defl, q, T.umem, T.bad)
    BY <1>16, SetIs
  <2> QED
    BY <2>2, <2>3, <1>6
<1> HIDE DEF q
<1>19. /\ Structure(U) /\ U.list = T.list /\ U.usel = T.usel /\ U.defl = T.defl /\ U.instl = q
       /\ U.umem = T.umem /\ U.bad = T.bad
  BY StateIs
<1> HIDE DEF U
<1>20. Queues(U)
  <2>1. q \in Seq(Insts(T.list))
    BY <1>14, <1>17
  <2> QED
    BY <2>1, <1>16, <1>19 DEF Queues
<1>21. Unknowns(U)
  <2> DEFINE m1 == T.list
  <2> SUFFICES ASSUME Honest
               PROVE  /\ \A b, d \in 1..Len(re.umem) : b < d => re.umem[b] > re.umem[d]
                      /\ \A b \in 1..Len(re.umem) : re.umem[b] \in Hidden(m1)
                      /\ \A u \in Hidden(m1) : \/ \E b \in 1..Len(re.umem) : re.umem[b] = u
                                               \/ /\ \E b \in 1..Len(q) : q[b] = m1[u].home
                                                  /\ Newest(m1, m1[u].home)
    BY <1>8, <1>15, <1>19 DEF Unknowns
  <2>1. /\ \A b, d \in 1..Len(re.umem) : b < d => re.umem[b] > re.umem[d]
        /\ \A b \in 1..Len(re.umem) : re.umem[b] \in Hidden(l)
        /\ \A u \in Hidden(l) : \E b \in 1..Len(re.umem) : re.umem[b] = u
    BY <1>7 DEF Unknowns
  <2>2. Nodes(m1)
    BY <1>14 DEF ListInv
  <2> HIDE DEF m1
  <2>3. \A j \in 1..Len(l) : m1[j] = l[j]
    BY <1>14 DEF Same, m1
  <2>4. \A j \in Ops(l) : /\ j \in Ops(m1) /\ m1[j] = l[j] /\ (Done(m1, j) <=> Done(l, j))
    <3> SUFFICES ASSUME NEW j \in Ops(l)
                 PROVE  j \in Ops(m1) /\ m1[j] = l[j] /\ (Done(m1, j) <=> Done(l, j))
      OBVIOUS
    <3>1. j \in 1..Len(l) /\ l[j].home \in 1..Len(l) /\ l[j].kind # "inst"
      BY <1>7, NodeIs DEF Ops, Insts
    <3>2. m1[j] = l[j] /\ m1[l[j].home] = l[l[j].home]
      BY <2>3, <3>1
    <3>3. j \in Ops(m1)
      <4>1. m1 \in Seq(OpNode \cup InstRec) /\ h \in Insts(m1)
        BY <2>2, <1>14 DEF Nodes, m1
      <4>2. h \in 1..Len(m1) /\ Len(m1) \in Nat
        BY <4>1 DEF Insts
      <4> QED
        BY <3>1, <3>2, <4>2, <1>7 DEF Ops
    <3> QED
      BY <3>2, <3>3 DEF Done
  <2>5. Hidden(l) \subseteq Hidden(m1)
    BY <2>4 DEF Hidden
  <2>6. \A u \in Hidden(m1) : u \in Hidden(l) \/ m1[u].home = h
    BY <2>4, <1>14 DEF Hidden, m1
  <2>7. Newest(m1, h)
    <3>1. \A k \in Insts(l) : k <= h
      BY <1>7, InstIs
    <3> QED
      BY <3>1, <1>7, <1>14 DEF Newest, m1
  <2>8. \E b \in 1..Len(q) : q[b] = h
    <3>1. Len(q) = 1 /\ q[1] = h
      BY <1>17
    <3> QED
      BY <3>1
  <2> QED
    BY <2>1, <2>5, <2>6, <2>7, <2>8
<1>22. Inv(U)
  BY <1>14, <1>19, <1>20, <1>21 DEF Inv, Structure
<1>23. Arrived(S, T) /\ Longer(S.usel, T.usel) /\ Longer(S.defl, T.defl)
  <2>1. h \in Insts(T.list) /\ T.list[h] = S.list[h] /\ Nodes(S.list)
    BY <1>8, <1>9, <1>14 DEF Held, Part
  <2>2. \A j \in Ops(T.list) : j \in Ops(S.list) \/ T.list[j].home = h
    BY <1>10, <1>14
  <2> QED
    BY <2>1, <2>2, <1>13, <1>14, ArrivedIs
<1>24. Arrived(re, U)
  <2>1. \A j : FreshAt(T, j) => FreshAt(U, j)
    BY <1>19 DEF FreshAt, Waits
  <2> QED
    BY <2>1, <1>10, <1>19, <1>23 DEF Arrived
<1> QED
  BY <1>5, <1>8, <1>14, <1>17, <1>18, <1>19, <1>22, <1>23, <1>24

-----------------------------------------------------------------------------
(* Whose turn it is. *)

\* The order of the loops of re_resolve, from each of them.
Orders == {<<"use", "def", "inst">>, <<"def", "inst", "use">>, <<"inst", "use", "def">>}

\* A routine that runs has an entry to take, and none is left when none runs.
Ready(S, t) ==
  /\ t \in {"use", "def", "inst", "idle"}
  /\ t = "use" => S.usel # <<>>
  /\ t = "def" => S.defl # <<>>
  /\ t = "inst" => S.instl # <<>>
  /\ t = "idle" => S.usel = <<>> /\ S.defl = <<>> /\ S.instl = <<>>

\* The routine whose turn it is has something to do.
LEMMA TurnIs ==
  ASSUME NEW S, NEW order \in Orders
  PROVE  Ready(S, Turn(S, order))
<1> DEFINE some(r) == CASE r = "use" -> S.usel # <<>> [] r = "def" -> S.defl # <<>>
                        [] r = "inst" -> S.instl # <<>>
           I == {a \in 1..Len(order) : some(order[a])}
           k == SelectInSeq(order, some)
           t == Turn(S, order)
<1>1. Len(order) = 3 /\ \A a \in 1..3 : order[a] \in {"use", "def", "inst"}
  BY DEF Orders
<1>2. /\ \E a \in 1..3 : order[a] = "use"
      /\ \E a \in 1..3 : order[a] = "def"
      /\ \E a \in 1..3 : order[a] = "inst"
  BY DEF Orders
<1>3. k = IF I # {} THEN Min(I) ELSE 0
  BY DEF SelectInSeq
<1>4. t = IF k = 0 THEN "idle" ELSE order[k]
  BY DEF Turn
<1>5. /\ some("use") <=> S.usel # <<>>
      /\ some("def") <=> S.defl # <<>>
      /\ some("inst") <=> S.instl # <<>>
  OBVIOUS
<1> HIDE DEF some, k, t
<1>6. CASE I = {}
  <2>1. t = "idle"
    BY <1>3, <1>4, <1>6
  <2>2. ~some("use") /\ ~some("def") /\ ~some("inst")
    BY <1>1, <1>2, <1>6
  <2> QED
    BY <2>1, <2>2, <1>5 DEF Ready, t
<1>7. CASE I # {}
  <2>1. I \subseteq Nat
    OBVIOUS
  <2>2. Min(I) \in I
    BY <2>1, <1>7, MinIs
  <2>3. k \in I /\ k # 0
    BY <2>2, <1>3, <1>7
  <2>4. t = order[k] /\ some(t) /\ t \in {"use", "def", "inst"}
    BY <2>3, <1>1, <1>4
  <2> QED
    BY <2>4, <1>5 DEF Ready, t
<1> QED
  BY <1>6, <1>7

-----------------------------------------------------------------------------
(* The inductive invariant. *)

\* The inductive invariant.
IInv ==
  /\ Env /\ world \in World /\ (re.list = <<>> => world = core)
  /\ Inv(re) /\ Ends(re.list, world)
  /\ IsFiniteSet(InstNodes)
  /\ cur \in 0..Cardinality(InstNodes) /\ Cardinality(InstNodes) <= MaxInst
  /\ \A k \in 0..(Cardinality(InstNodes) - 1) : \E h \in InstNodes : re.list[h].index = k
  /\ phase \in {"handle", "resolve", "done"} /\ Ready(re, pc)

\* The model's names for the nodes.
LEMMA NodesAre ==
  /\ InstNodes = Insts(re.list) /\ OperandNodes = Ops(re.list)
  BY DEF InstNodes, OperandNodes, Insts, Ops

\* What the invariant says of a list holds as long as the build and the core dump stay.
LEMMA Static ==
  ASSUME setup' = setup, core' = core
  PROVE  /\ \A n : Tracked(n)' <=> Tracked(n)
         /\ \A n : Located(n)' <=> Located(n)
         /\ Ram' = Ram /\ Mapped' = Mapped
<1>1. Ram' = Ram /\ Mmio' = Mmio
  BY DEF Ram, Mmio
<1>2. Mapped' = Mapped
  BY <1>1 DEF Mapped
<1>3. ASSUME NEW n PROVE (Tracked(n)' <=> Tracked(n)) /\ (Located(n)' <=> Located(n))
  BY <1>1 DEF Tracked, Located
<1> QED
  BY <1>1, <1>2, <1>3

\* As Static, for a list.
LEMMA StaticList ==
  ASSUME setup' = setup, core' = core, NEW l
  PROVE  /\ Sound(l)' <=> Sound(l)
         /\ Shaped(l)' <=> Shaped(l)
         /\ Chained(l)' <=> Chained(l)
         /\ Given(l)' <=> Given(l)
<1>1. /\ \A n : Tracked(n)' <=> Tracked(n)
      /\ \A n : Located(n)' <=> Located(n)
      /\ Ram' = Ram /\ Mapped' = Mapped
  BY Static
<1>2. \A n, v : AfterRight(n, v)' <=> AfterRight(n, v)
  BY <1>1 DEF AfterRight
<1>3. \A n, d : Right(n, d)' <=> Right(n, d)
  BY <1>1, <1>2 DEF Right
<1>4. Sound(l)' <=> Sound(l)
  BY <1>3 DEF Sound
<1>5. \A h : AddrAt(l, h)' <=> AddrAt(l, h)
  BY <1>1 DEF AddrAt
<1>6. \A h : (LoadAt(l, h)' <=> LoadAt(l, h)) /\ (StoreAt(l, h)' <=> StoreAt(l, h))
  BY <1>5 DEF LoadAt, StoreAt
<1>7. \A h : BlockAt(l, h)' <=> BlockAt(l, h)
  BY <1>6 DEF BlockAt
<1>8. Shaped(l)' <=> Shaped(l)
  BY <1>7 DEF Shaped
<1>9. Chained(l)' <=> Chained(l)
  BY <1>1 DEF Chained
<1>10. Given(l)' <=> Given(l)
  BY DEF Given
<1> QED
  BY <1>4, <1>8, <1>9, <1>10

\* Learning does not change where the execution is.
LEMMA MoreEnds ==
  ASSUME NEW l, Nodes(l), NEW w, Ends(l, w), NEW m, More(l, m)
  PROVE  Ends(m, w)
<1>1. /\ Ops(m) = Ops(l)
      /\ \A j \in Ops(l) : /\ m[j].kind = l[j].kind /\ m[j].sort = l[j].sort /\ m[j].r = l[j].r
                           /\ m[j].taddr = l[j].taddr /\ m[j].ta = l[j].ta /\ m[j].tb = l[j].tb
  BY MoreNodes DEF SameStatic
<1>2. ASSUME NEW j \in Ops(l), Located(m[j]), NoDef(m, m[j], {k \in Ops(m) : j < k})
      PROVE  Earlier(m[j]) = At(w, m[j])
  <2>1. Located(l[j]) /\ Earlier(m[j]) = Earlier(l[j]) /\ At(w, m[j]) = At(w, l[j])
    BY <1>1, <1>2 DEF Located, Earlier, At
  <2>2. \A k \in Ops(l) : SameLoc(m[k], m[j]) <=> SameLoc(l[k], l[j])
    BY <1>1 DEF SameLoc
  <2>3. NoDef(l, l[j], {k \in Ops(l) : j < k})
    BY <1>1, <1>2, <2>2 DEF NoDef
  <2> QED
    BY <2>1, <2>3 DEF Ends
<1>3. /\ \A r \in Reg : (\A k \in Ops(m) : ~(m[k].kind = "def" /\ m[k].sort = "reg" /\ m[k].r = r))
                       => w.reg[r] = core.reg[r]
      /\ \A a \in Ram : (\A k \in Ops(m) : ~(m[k].kind = "def" /\ m[k].sort = "mem" /\ m[k].taddr = a))
                       => w.mem[a] = core.mem[a]
  BY <1>1 DEF Ends
<1> QED
  BY <1>1, <1>2, <1>3 DEF Ends

\* The invariant of the next state, told by its value.
LEMMA Later ==
  ASSUME setup' = setup, core' = core, NEW T, re' = T, Inv(T), NEW w, world' = w, Ends(T.list, w)
  PROVE  Inv(re)' /\ Ends(re.list, world)'
<1>1. /\ Sound(T.list)' /\ Shaped(T.list)' /\ Chained(T.list)' /\ Given(T.list)'
  BY StaticList DEF Inv, ListInv
<1>2. Nodes(T.list) /\ Addressed(T.list) /\ Queues(T) /\ Unknowns(T) /\ Structure(T)
  BY DEF Inv, ListInv, Structure
<1>3. ListInv(T.list)'
  BY <1>1, <1>2 DEF ListInv
<1>4. Inv(T)'
  BY <1>2, <1>3 DEF Inv, Structure
<1>5. Ends(T.list, w)'
  BY Static DEF Ends
<1> QED
  BY <1>4, <1>5

\* A step that only learns.
LEMMA LearnIs ==
  ASSUME IInv, UNCHANGED <<setup, core, world, phase, cur>>,
         NEW T, re' = T, Inv(T), More(re.list, T.list), Ready(T, pc')
  PROVE  /\ IInv'
         /\ Honest => \A j \in OperandNodes : Known(re.list, re'.list, j)
<1>1. Env /\ Inv(re) /\ Ends(re.list, world)
  BY DEF IInv
<1>2. Nodes(re.list)
  BY <1>1 DEF Inv, ListInv
<1>3. /\ Insts(T.list) = Insts(re.list) /\ \A h \in Insts(re.list) : T.list[h] = re.list[h]
      /\ Ops(T.list) = Ops(re.list)
      /\ \A j \in Ops(re.list) : NodeMore(re.list[j], T.list[j])
  BY <1>1, <1>2, MoreNodes
<1>4. Ends(T.list, world)
  BY <1>1, <1>2, MoreEnds
<1>5. Inv(re)' /\ Ends(re.list, world)'
  BY <1>4, Later
<1>6. InstNodes' = InstNodes /\ InstNodes = Insts(re.list)
  BY <1>3 DEF InstNodes, Insts
<1>7. Env' /\ (world \in World)'
  BY DEF Env, IInv, World, Ram
<1>8. (re.list = <<>> => world = core)'
  <2>1. T.list = <<>> => re.list = <<>>
    BY <1>1, <1>2 DEF More, Nodes
  <2> QED
    BY <2>1 DEF IInv
<1>9. (\A k \in 0..(Cardinality(InstNodes) - 1) : \E h \in InstNodes : re.list[h].index = k)'
  BY <1>3, <1>6 DEF IInv
<1>10. Ready(re, pc)'
  <2>1. PICK t : t = pc'
    OBVIOUS
  <2>2. Ready(T, t)'
    BY <2>1 DEF Ready
  <2> QED
    BY <2>1, <2>2
<1>11. IInv'
  BY <1>5, <1>6, <1>7, <1>8, <1>9, <1>10 DEF IInv
<1>12. ASSUME Honest, NEW j \in OperandNodes PROVE Known(re.list, T.list, j)
  BY <1>3, <1>12, NodesAre DEF Known, NodeMore
<1> QED
  BY <1>11, <1>12

\* A step that adds an instruction.
LEMMA AddOn ==
  ASSUME IInv, UNCHANGED <<setup, core, phase, cur>>, NEW p \in World, world' = p,
         NEW m \in World, Ends(re.list, m), re.instl = <<>>,
         NEW i \in Code, Cardinality(InstNodes) < MaxInst,
         NEW index, index = Cardinality(InstNodes),
         IF index = 0 THEN p = m /\ Faults(i, m) ELSE Executes(i, p, m),
         re' = Handle(i, index, p, m), Ready(re', pc')
  PROVE  /\ IInv'
         /\ \A j \in OperandNodes : Known(re.list, re'.list, j)
<1> DEFINE T == Handle(i, index, p, m)
           l == re.list
           h == Len(l) + 1
<1>1. /\ Env /\ Inv(re) /\ IsFiniteSet(InstNodes) /\ MaxInst \in Nat
      /\ \A k \in 0..(Cardinality(InstNodes) - 1) : \E x \in InstNodes : re.list[x].index = k
      /\ cur \in 0..Cardinality(InstNodes) /\ phase \in {"handle", "resolve", "done"}
  BY ReverseExecAssumption DEF IInv
<1>2. Nodes(l) /\ Shaped(l) /\ Len(l) \in Nat /\ l \in Seq(OpNode \cup InstRec)
  BY <1>1 DEF Inv, ListInv, Nodes
<1>3. index \in Nat /\ (index = 0 <=> InstNodes = {})
  BY <1>1, FS_CardinalityType, FS_EmptySet
<1>4. InstNodes = {} <=> l = <<>>
  <2>1. l = <<>> => InstNodes = {}
    BY <1>2 DEF InstNodes
  <2>2. l # <<>> => 1 \in InstNodes
    BY <1>2 DEF InstNodes, Shaped
  <2> QED
    BY <2>1, <2>2
<1>5. /\ Inv(T) /\ Ends(T.list, p) /\ Same(l, T.list, Len(l))
      /\ T.instl = <<h>> /\ Insts(T.list) = Insts(l) \cup {h} /\ T.list[h].index = index
  BY <1>1, <1>3, <1>4, HandleIs
<1> HIDE DEF T
<1>6. re' = T
  BY DEF T
<1>7. Inv(re)' /\ Ends(re.list, world)'
  BY <1>5, <1>6, Later
<1>8. InstNodes = Insts(l) /\ InstNodes' = InstNodes \cup {h} /\ h \notin InstNodes
  <2>1. InstNodes = Insts(l) /\ h \notin Insts(l)
    BY <1>2 DEF InstNodes, Insts
  <2>2. InstNodes' = Insts(T.list)
    BY <1>6 DEF InstNodes, Insts
  <2> QED
    BY <2>1, <2>2, <1>5
<1>9. IsFiniteSet(InstNodes)' /\ Cardinality(InstNodes)' = index + 1
  BY <1>1, <1>8, FS_AddElement
<1>10. \A x \in InstNodes : T.list[x] = l[x]
  BY <1>5 DEF InstNodes, Same
<1>11. (\A k \in 0..(Cardinality(InstNodes) - 1) : \E x \in InstNodes : re.list[x].index = k)'
  <2> SUFFICES ASSUME NEW k \in 0..index PROVE \E x \in InstNodes \cup {h} : T.list[x].index = k
    BY <1>3, <1>6, <1>8, <1>9
  <2>1. CASE k = index
    BY <2>1, <1>5
  <2>2. CASE k # index
    <3>1. k \in 0..(Cardinality(InstNodes) - 1)
      BY <2>2, <1>3
    <3>2. PICK x \in InstNodes : l[x].index = k
      BY <3>1, <1>1
    <3> QED
      BY <3>2, <1>10
  <2> QED
    BY <2>1, <2>2
<1>12. Env' /\ (world \in World)'
  BY <1>1 DEF Env, World, Ram
<1>13. (re.list = <<>> => world = core)'
  <2>1. h \in Insts(T.list)
    BY <1>5
  <2>2. T.list # <<>>
    BY <2>1, <1>2 DEF Insts
  <2> QED
    BY <2>2, <1>6
<1>14. Ready(re, pc)'
  <2>1. PICK t, z : t = pc' /\ z = T
    OBVIOUS
  <2>2. Ready(z, pc')
    BY <1>6, <2>1
  <2>3. Ready(z, t)'
    BY <2>1, <2>2 DEF Ready
  <2>4. re' = z
    BY <1>6, <2>1
  <2> QED
    BY <2>1, <2>3, <2>4
<1>15. (cur \in 0..Cardinality(InstNodes) /\ Cardinality(InstNodes) <= MaxInst)'
  BY <1>1, <1>3, <1>9
<1>16. (phase \in {"handle", "resolve", "done"})'
  BY <1>1
<1>17. IInv'
  BY <1>7, <1>9, <1>11, <1>12, <1>13, <1>14, <1>15, <1>16 DEF IInv
<1>18. ASSUME NEW j \in OperandNodes PROVE Known(l, T.list, j)
  <2>1. T.list[j] = l[j]
    BY <1>5 DEF OperandNodes, Same
  <2> QED
    BY <2>1 DEF Known
<1> QED
  BY <1>6, <1>17, <1>18

-----------------------------------------------------------------------------
(* The invariant is one. *)

\* The invariant holds at the crash.
LEMMA Initially == Init => IInv
<1> SUFFICES ASSUME Init PROVE IInv
  OBVIOUS
<1> DEFINE S == State(<<>>, <<>>, <<>>, <<>>, <<>>, {})
<1>1. /\ setup \in Setups /\ core \in Cores /\ DOMAIN core.mem = Ram /\ world = core
      /\ phase = "handle" /\ pc = "idle" /\ cur = 0 /\ re = S
  BY DEF Init, State
<1>2. Env
  BY <1>1 DEF Env
<1>3. /\ Structure(S) /\ S.list = <<>> /\ S.usel = <<>> /\ S.defl = <<>> /\ S.instl = <<>>
      /\ S.umem = <<>> /\ S.bad = {}
  BY StateIs
<1> HIDE DEF S
<1>4. Ops(<<>>) = {} /\ Insts(<<>>) = {} /\ <<>> \in Seq(OpNode \cup InstRec) /\ Hidden(<<>>) = {}
  BY DEF Ops, Insts, Hidden
<1>5. ListInv(<<>>)
  BY <1>4 DEF ListInv, Nodes, Shaped, Chained, Sound, Given, Addressed
<1>6. Queues(S)
  <2>1. \A A : <<>> \in Seq(A)
    OBVIOUS
  <2> QED
    BY <1>3, <2>1 DEF Queues
<1>7. Unknowns(S)
  <2>1. 1..Len(<<>>) = {}
    OBVIOUS
  <2> QED
    BY <1>3, <1>4, <2>1 DEF Unknowns
<1>8. Inv(S)
  BY <1>3, <1>5, <1>6, <1>7 DEF Inv, Structure
<1>9. Ends(<<>>, core)
  BY <1>4 DEF Ends
<1>10. core \in World
  <2>1. core.reg \in [Reg -> Val] /\ core.mem \in [Ram -> Val]
    BY <1>2, EnvIs
  <2>2. core = [reg |-> core.reg, mem |-> core.mem]
    BY <1>1, ReverseExecAssumption
  <2> QED
    BY <2>1, <2>2 DEF World
<1>11. InstNodes = {}
  BY <1>1, <1>3 DEF InstNodes
<1>12. IsFiniteSet(InstNodes) /\ Cardinality(InstNodes) = 0
  BY <1>11, FS_EmptySet
<1>13. Ready(S, "idle")
  BY <1>3 DEF Ready
<1>14. MaxInst \in Nat
  BY ReverseExecAssumption
<1> QED
  BY <1>1, <1>2, <1>3, <1>8, <1>9, <1>10, <1>12, <1>13, <1>14 DEF IInv

\* Whatever a step does to the lists, knowledge is kept, if the analysis has what it relies on.
Keeps == Honest => \A j \in OperandNodes : Known(re.list, re'.list, j)

\* AddCrashSite keeps the invariant.
LEMMA CrashOn ==
  ASSUME IInv, NEW i \in Code, AddCrashSite(i)
  PROVE  IInv' /\ Keeps
<1>1. /\ pc = "idle" /\ re.list = <<>> /\ Faults(i, core) /\ re' = Handle(i, 0, core, core)
      /\ pc' = Turn(re', <<"use", "def", "inst">>)
      /\ UNCHANGED <<setup, core, world, phase, cur>>
  BY DEF AddCrashSite
<1>2. InstNodes = {}
  BY <1>1 DEF InstNodes
<1>3. Cardinality(InstNodes) = 0 /\ MaxInst \in Nat \ {0}
  BY <1>2, FS_EmptySet, ReverseExecAssumption
<1>4. Ready(re', pc')
  BY <1>1, TurnIs DEF Orders
<1>5. re.instl = <<>> /\ world = core /\ world \in World /\ Ends(re.list, world)
  BY <1>1 DEF IInv, Ready
<1>6. world' = core /\ core \in World /\ Ends(re.list, core)
  BY <1>1, <1>5
<1>7. Cardinality(InstNodes) < MaxInst
  BY <1>3
<1> QED
  BY <1>1, <1>3, <1>4, <1>5, <1>6, <1>7, AddOn DEF Keeps

\* AddInst keeps it.
LEMMA AddInstOn ==
  ASSUME IInv, NEW i \in Code, AddInst(i)
  PROVE  IInv' /\ Keeps
<1>1. /\ pc = "idle" /\ re.list # <<>> /\ Cardinality(InstNodes) < MaxInst
      /\ pc' = Turn(re', <<"use", "def", "inst">>)
      /\ UNCHANGED <<setup, core, phase, cur>>
  BY DEF AddInst
<1>2. PICK p \in Predecessors(i, world) :
        world' = p /\ re' = Handle(i, Cardinality(InstNodes), p, world)
  BY DEF AddInst
<1>3. Executes(i, p, world)
  BY <1>2 DEF Predecessors
<1>4. /\ re.instl = <<>> /\ world \in World /\ Ends(re.list, world) /\ Inv(re)
      /\ IsFiniteSet(InstNodes)
  BY <1>1 DEF IInv, Ready
<1>5. p \in World
  <2>0. i.r \in Reg
    BY ReverseExecAssumption DEF Instruction
  <2>1. \A v \in Val : [world EXCEPT !.reg[i.r] = v] \in World
    BY <2>0, <1>4 DEF World
  <2>2. \A a \in Ram, v \in Val : [world EXCEPT !.mem[a] = v] \in World
    BY <1>4 DEF World
  <2> QED
    BY <2>1, <2>2, <1>2 DEF Predecessors
<1>6. Cardinality(InstNodes) # 0
  <2>1. Nodes(re.list) /\ Shaped(re.list)
    BY <1>4 DEF Inv, ListInv
  <2>2. 1 \in InstNodes
    BY <2>1, <1>1 DEF InstNodes, Shaped, Nodes
  <2> QED
    BY <2>2, <1>4, FS_EmptySet
<1>7. Ready(re', pc')
  BY <1>1, TurnIs DEF Orders
<1> QED
  BY <1>1, <1>2, <1>3, <1>4, <1>5, <1>6, <1>7, AddOn DEF Keeps

\* ResolveUse keeps it.
LEMMA UseStepOn ==
  ASSUME IInv, ResolveUse
  PROVE  IInv' /\ Keeps
<1> DEFINE S == resolve_use(re, Head(re.usel))
           T == UseTaken(S)
<1>1. /\ pc = "use" /\ re' = T
      /\ pc' = IF Len(re.usel) > 1 THEN "use" ELSE Turn(re', <<"def", "inst", "use">>)
      /\ UNCHANGED <<setup, core, world, phase, cur>>
  BY DEF ResolveUse, UseTaken
<1>2. Env /\ Inv(re) /\ re.usel # <<>> /\ re.usel \in Seq(UseReady(re.list))
  BY <1>1 DEF IInv, Ready, Inv, Queues
<1>3. Head(re.usel) \in UseReady(re.list) /\ Len(re.usel) \in Nat \ {0}
  BY <1>2
<1>4. Inv(S) /\ Stepped(re, S)
  BY <1>2, <1>3, ResolveUse1
<1> HIDE DEF S
<1>5. S.usel # <<>> /\ Len(re.usel) <= Len(S.usel) /\ Len(S.usel) \in Nat
  <2>1. Len(re.usel) <= Len(S.usel)
    BY <1>4 DEF Stepped
  <2>2. S.usel \in Seq(UseReady(S.list))
    BY <1>4 DEF Inv, Queues
  <2> QED
    BY <2>1, <2>2, <1>3
<1>6. Inv(T) /\ T.list = S.list /\ T.instl = S.instl /\ Len(T.usel) = Len(S.usel) - 1
  BY <1>4, <1>5, TakenIs
<1> HIDE DEF T
<1>7. Ready(T, pc')
  <2>1. CASE Len(re.usel) > 1
    <3>1. T.usel # <<>>
      BY <2>1, <1>3, <1>5, <1>6
    <3> QED
      BY <2>1, <3>1, <1>1 DEF Ready
  <2>2. CASE ~(Len(re.usel) > 1)
    BY <2>2, <1>1, TurnIs DEF Orders
  <2> QED
    BY <2>1, <2>2
<1>8. More(re.list, T.list)
  BY <1>4, <1>6 DEF Stepped
<1> QED
  BY <1>1, <1>6, <1>7, <1>8, LearnIs DEF Keeps

\* ResolveDefine keeps it.
LEMMA DefineStepOn ==
  ASSUME IInv, ResolveDefine
  PROVE  IInv' /\ Keeps
<1> DEFINE S == resolve_define(re, Head(re.defl))
           T == DefTaken(S)
<1>1. /\ pc = "def" /\ re' = T
      /\ pc' = IF Len(re.defl) > 1 THEN "def" ELSE Turn(re', <<"inst", "use", "def">>)
      /\ UNCHANGED <<setup, core, world, phase, cur>>
  BY DEF ResolveDefine, DefTaken
<1>2. Env /\ Inv(re) /\ re.defl # <<>> /\ re.defl \in Seq(DefReady(re.list))
  BY <1>1 DEF IInv, Ready, Inv, Queues
<1>3. Head(re.defl) \in DefReady(re.list) /\ Len(re.defl) \in Nat \ {0}
  BY <1>2
<1>4. Inv(S) /\ Stepped(re, S)
  BY <1>2, <1>3, ResolveDefine1
<1> HIDE DEF S
<1>5. S.defl # <<>> /\ Len(re.defl) <= Len(S.defl) /\ Len(S.defl) \in Nat
  <2>1. Len(re.defl) <= Len(S.defl)
    BY <1>4 DEF Stepped
  <2>2. S.defl \in Seq(DefReady(S.list))
    BY <1>4 DEF Inv, Queues
  <2> QED
    BY <2>1, <2>2, <1>3
<1>6. Inv(T) /\ T.list = S.list /\ T.instl = S.instl /\ Len(T.defl) = Len(S.defl) - 1
  BY <1>4, <1>5, TakenIs
<1> HIDE DEF T
<1>7. Ready(T, pc')
  <2>1. CASE Len(re.defl) > 1
    <3>1. T.defl # <<>>
      BY <2>1, <1>3, <1>5, <1>6
    <3> QED
      BY <2>1, <3>1, <1>1 DEF Ready
  <2>2. CASE ~(Len(re.defl) > 1)
    BY <2>2, <1>1, TurnIs DEF Orders
  <2> QED
    BY <2>1, <2>2
<1>8. More(re.list, T.list)
  BY <1>4, <1>6 DEF Stepped
<1> QED
  BY <1>1, <1>6, <1>7, <1>8, LearnIs DEF Keeps

\* ResolveInst keeps it.
LEMMA InstStepOn ==
  ASSUME IInv, ResolveInst
  PROVE  IInv' /\ Keeps
<1>1. PICK g \in Val : re' = InstTaken(resolve_inst(re, Head(re.instl), g))
  BY DEF ResolveInst, InstTaken
<1> DEFINE S == resolve_inst(re, Head(re.instl), g)
           T == InstTaken(S)
<1>2. /\ pc = "inst" /\ re' = T
      /\ pc' = IF Len(re.instl) > 1 THEN "inst" ELSE Turn(re', <<"use", "def", "inst">>)
      /\ UNCHANGED <<setup, core, world, phase, cur>>
  BY <1>1 DEF ResolveInst
<1>3. Env /\ Inv(re) /\ re.instl # <<>> /\ re.instl \in Seq(Insts(re.list))
  BY <1>2 DEF IInv, Ready, Inv, Queues
<1>4. Head(re.instl) \in Insts(re.list) /\ Len(re.instl) \in Nat \ {0}
  BY <1>3
<1>5. Inv(S) /\ Stepped(re, S) /\ S.instl = re.instl /\ Settled(S, Head(re.instl))
  BY <1>3, <1>4, ResolveInst1
<1> HIDE DEF S
<1>6. Inv(T) /\ T.list = S.list /\ Len(T.instl) = Len(re.instl) - 1
  BY <1>3, <1>5, TakenIs
<1> HIDE DEF T
<1>7. Ready(T, pc')
  <2>1. CASE Len(re.instl) > 1
    <3>1. T.instl # <<>>
      BY <2>1, <1>4, <1>6
    <3> QED
      BY <2>1, <3>1, <1>2 DEF Ready
  <2>2. CASE ~(Len(re.instl) > 1)
    BY <2>2, <1>2, TurnIs DEF Orders
  <2> QED
    BY <2>1, <2>2
<1>8. More(re.list, T.list)
  BY <1>5, <1>6 DEF Stepped
<1> QED
  BY <1>2, <1>6, <1>7, <1>8, LearnIs DEF Keeps

\* The second loop hands one instruction to the resolvers.
LEMMA AgainIs ==
  ASSUME Env, NEW S, Inv(S), S.instl = <<>>, NEW h \in Insts(S.list)
  PROVE  LET T == [S EXCEPT !.instl = <<h>>] IN
         /\ Inv(T) /\ T.list = S.list /\ T.instl # <<>>
<1> DEFINE q == <<h>>
           U == State(S.list, S.usel, S.defl, q, S.umem, S.bad)
<1>1. Structure(S) /\ ListInv(S.list) /\ Queues(S) /\ Unknowns(S)
  BY DEF Inv, Structure
<1>2. q \in Seq(Insts(S.list)) /\ q # <<>>
  OBVIOUS
<1> HIDE DEF q
<1>3. [S EXCEPT !.instl = q] = U
  BY <1>1, SetIs
<1>4. /\ Structure(U) /\ U.list = S.list /\ U.usel = S.usel /\ U.defl = S.defl /\ U.instl = q
      /\ U.umem = S.umem /\ U.bad = S.bad
  BY StateIs
<1> HIDE DEF U
<1>5. Queues(U)
  BY <1>1, <1>2, <1>4 DEF Queues
<1>6. Unknowns(U)
  <2>1. 1..Len(S.instl) = {}
    OBVIOUS
  <2> QED
    BY <1>1, <1>4, <2>1 DEF Unknowns
<1>7. Inv(U)
  BY <1>1, <1>4, <1>5, <1>6 DEF Inv, Structure
<1> QED
  BY <1>2, <1>3, <1>4, <1>7 DEF q

\* ResolveAgain keeps it.
LEMMA AgainOn ==
  ASSUME IInv, ResolveAgain
  PROVE  IInv' /\ Keeps
<1> DEFINE h == CHOOSE x \in InstNodes : re.list[x].index = cur
           T == [re EXCEPT !.instl = <<h>>]
<1>1. /\ phase = "resolve" /\ pc = "idle" /\ cur < Cardinality(InstNodes) /\ cur' = cur + 1
      /\ re' = T /\ pc' = "inst" /\ UNCHANGED <<setup, core, world, phase>>
  BY DEF ResolveAgain
<1>2. /\ Env /\ Inv(re) /\ re.instl = <<>> /\ IsFiniteSet(InstNodes) /\ Ends(re.list, world)
      /\ \A k \in 0..(Cardinality(InstNodes) - 1) : \E x \in InstNodes : re.list[x].index = k
      /\ cur \in 0..Cardinality(InstNodes) /\ Cardinality(InstNodes) <= MaxInst
      /\ phase \in {"handle", "resolve", "done"}
      /\ world \in World /\ (re.list = <<>> => world = core)
  BY <1>1 DEF IInv, Ready
<1>3. Cardinality(InstNodes) \in Nat
  BY <1>2, FS_CardinalityType
<1>4. cur \in 0..(Cardinality(InstNodes) - 1)
  BY <1>1, <1>2, <1>3
<1>5. \E x \in InstNodes : re.list[x].index = cur
  BY <1>2, <1>4
<1>6. h \in Insts(re.list)
  BY <1>5 DEF Insts, InstNodes
<1> HIDE DEF h
<1>7. Inv(T) /\ T.list = re.list /\ T.instl # <<>>
  BY <1>2, <1>6, AgainIs
<1> HIDE DEF T
<1>8. Inv(re)' /\ Ends(re.list, world)'
  BY <1>1, <1>2, <1>7, Later
<1>9. re'.list = re.list /\ InstNodes' = InstNodes
  BY <1>1, <1>7 DEF InstNodes
<1>10. (cur \in 0..Cardinality(InstNodes))'
  BY <1>1, <1>3, <1>4, <1>9
<1>11. Env' /\ (world \in World)'
  BY <1>1, <1>2 DEF Env, World, Ram
<1>12. Ready(re, pc)'
  <2>1. pc' = "inst" /\ re'.instl # <<>>
    BY <1>1, <1>7
  <2> QED
    BY <2>1 DEF Ready
<1>13. (\A k \in 0..(Cardinality(InstNodes) - 1) : \E x \in InstNodes : re.list[x].index = k)'
  BY <1>2, <1>9
<1>14. (re.list = <<>> => world = core)'
  BY <1>1, <1>2, <1>9
<1>15. IInv'
  BY <1>1, <1>2, <1>8, <1>9, <1>10, <1>11, <1>12, <1>13, <1>14 DEF IInv
<1>16. Keeps
  BY <1>9 DEF Keeps, Known
<1> QED
  BY <1>15, <1>16

\* A step that only moves on to the next phase keeps it.
LEMMA StillOn ==
  ASSUME IInv, UNCHANGED <<setup, core, world, re, pc, cur>>, phase' \in {"handle", "resolve", "done"}
  PROVE  IInv' /\ Keeps
<1>1. Env /\ Inv(re) /\ Ends(re.list, world)
  BY DEF IInv
<1>2. Inv(re)' /\ Ends(re.list, world)'
  BY <1>1, Later
<1>3. InstNodes' = InstNodes /\ Env' /\ Ready(re, pc)' /\ (world \in World)'
  BY DEF InstNodes, Env, Ready, IInv, Ram, World
<1>4. IInv'
  BY <1>2, <1>3 DEF IInv
<1>5. Keeps
  BY DEF Keeps, Known
<1> QED
  BY <1>4, <1>5

\* Every step keeps the invariant and what is known.
LEMMA Stepping ==
  ASSUME IInv, [Next]_vars
  PROVE  IInv' /\ Keeps
<1>1. ASSUME NEW i \in Code, AddCrashSite(i) PROVE IInv' /\ Keeps
  BY <1>1, CrashOn
<1>2. ASSUME NEW i \in Code, AddInst(i) PROVE IInv' /\ Keeps
  BY <1>2, AddInstOn
<1>3. ASSUME ResolveUse PROVE IInv' /\ Keeps
  BY <1>3, UseStepOn
<1>4. ASSUME ResolveDefine PROVE IInv' /\ Keeps
  BY <1>4, DefineStepOn
<1>5. ASSUME ResolveInst PROVE IInv' /\ Keeps
  BY <1>5, InstStepOn
<1>6. ASSUME StartResolving PROVE IInv' /\ Keeps
  BY <1>6, StillOn DEF StartResolving
<1>7. ASSUME ResolveAgain PROVE IInv' /\ Keeps
  BY <1>7, AgainOn
<1>8. ASSUME Finish PROVE IInv' /\ Keeps
  BY <1>8, StillOn DEF Finish
<1>9. ASSUME UNCHANGED vars PROVE IInv' /\ Keeps
  BY <1>9, StillOn DEF vars, IInv
<1> QED
  BY <1>1, <1>2, <1>3, <1>4, <1>5, <1>6, <1>7, <1>8, <1>9 DEF Next

\* The invariant holds throughout.
LEMMA Always == Spec => []IInv
<1>1. IInv /\ [Next]_vars => IInv'
  BY Stepping
<1> QED
  BY <1>1, Initially, PTL DEF Spec

-----------------------------------------------------------------------------
(* What it implies. *)

\* The set of a sequence's entries.
LEMMA ToSetIs ==
  ASSUME NEW A, NEW s \in Seq(A)
  PROVE  ToSet(s) \subseteq A /\ \A x : x \in ToSet(s) <=> \E a \in 1..Len(s) : s[a] = x
  BY DEF ToSet

\* The invariant implies type correctness.
LEMMA TypeOKIs == IInv => TypeOK
<1> SUFFICES ASSUME IInv PROVE TypeOK
  OBVIOUS
<1>1. /\ Env /\ world \in World /\ Inv(re) /\ IsFiniteSet(InstNodes)
      /\ cur \in 0..Cardinality(InstNodes) /\ Cardinality(InstNodes) <= MaxInst
      /\ phase \in {"handle", "resolve", "done"} /\ Ready(re, pc)
  BY DEF IInv
<1>2. Nodes(re.list) /\ Queues(re) /\ InstNodes = Insts(re.list) /\ OperandNodes = Ops(re.list)
  BY <1>1, NodesAre DEF Inv, ListInv
<1>3. \A j \in OperandNodes :
          /\ re.list[j].kind \in {"use", "def"} /\ re.list[j].sort \in {"reg", "mem", "imm"}
          /\ {re.list[j].addr, re.list[j].av, re.list[j].bv} \subseteq Val
          /\ re.list[j].home \in InstNodes
  BY <1>2, NodeIs, FieldsAre
<1>4. ToSet(re.usel) \subseteq UseReady(re.list) /\ ToSet(re.defl) \subseteq DefReady(re.list)
      /\ ToSet(re.umem) \subseteq OperandNodes /\ ToSet(re.instl) \subseteq InstNodes
      /\ re.bad \subseteq InstNodes
  BY <1>2, ToSetIs DEF Queues
<1>5. UseReady(re.list) \subseteq OperandNodes /\ DefReady(re.list) \subseteq OperandNodes
  BY <1>2 DEF UseReady, DefReady
<1>6. cur \in 0..MaxInst
  <2>1. Cardinality(InstNodes) \in Nat /\ MaxInst \in Nat
    BY <1>1, FS_CardinalityType, ReverseExecAssumption
  <2> QED
    BY <1>1, <2>1
<1>7. pc \in {"use", "def", "inst", "idle"}
  BY <1>1 DEF Ready
<1> QED
  BY <1>1, <1>3, <1>4, <1>5, <1>6, <1>7 DEF TypeOK, Env, World

\* It implies that values are true.
LEMMA ValuesSoundIs == IInv /\ Honest => ValuesSound
<1> SUFFICES ASSUME IInv, Honest, NEW j \in OperandNodes
             PROVE  /\ re.list[j].sort = "reg" => RegisterSound(re.list[j])
                    /\ IsExp(re.list[j]) /\ Executed(j) => MemorySound(re.list[j])
  BY DEF ValuesSound
<1> DEFINE n == re.list[j]
<1>1. Env /\ Nodes(re.list) /\ Sound(re.list) /\ j \in Ops(re.list)
  BY NodesAre DEF IInv, Inv, ListInv
<1>2. Right(n, Done(re.list, j)) /\ n \in OpNode
  BY <1>1, NodeIs DEF Sound
<1>3. /\ n.ak => AfterRight(n, n.av)
      /\ n.bk => (Tracked(n) => n.bv = n.tb)
      /\ n.sort = "mem" => n.addr = 0 \/ n.addr = n.taddr
  BY <1>2 DEF Right
<1> HIDE DEF n
<1>4. n.sort = "reg" => RegisterSound(n)
  BY <1>3 DEF RegisterSound, Tracked, AfterRight
<1>5. n.sort = "mem" => MemorySound(n)
  BY <1>3 DEF MemorySound, Tracked, AfterRight
<1> QED
  BY <1>4, <1>5 DEF IsExp, n

\* It implies that the worklists are exact.
LEMMA WorklistsExactIs == IInv /\ Honest => WorklistsExact
<1> SUFFICES ASSUME IInv, Honest PROVE WorklistsExact
  OBVIOUS
<1>1. /\ Queues(re) /\ Unknowns(re) /\ OperandNodes = Ops(re.list)
      /\ pc = "idle" => re.instl = <<>>
  BY NodesAre DEF IInv, Inv, Ready
<1>2. /\ \A e \in ToSet(re.usel) : re.list[e].ak
      /\ \A e \in ToSet(re.defl) : re.list[e].ak \/ re.list[e].bk
  <2>1. ToSet(re.usel) \subseteq UseReady(re.list) /\ ToSet(re.defl) \subseteq DefReady(re.list)
    BY <1>1, ToSetIs DEF Queues
  <2> QED
    BY <2>1 DEF UseReady, DefReady
<1>3. Hidden(re.list) = {j \in OperandNodes : /\ re.list[j].kind = "def" /\ IsExp(re.list[j])
                                              /\ re.list[j].addr = 0 /\ Executed(j)}
  BY <1>1 DEF Hidden, IsExp, Executed, Done
<1>4. /\ \A a, b \in 1..Len(re.umem) : a < b => re.umem[a] > re.umem[b]
      /\ \A a \in 1..Len(re.umem) : re.umem[a] \in Hidden(re.list)
      /\ \A u \in Hidden(re.list) : \/ \E a \in 1..Len(re.umem) : re.umem[a] = u
                                    \/ \E a \in 1..Len(re.instl) : re.instl[a] = re.list[u].home
  BY <1>1 DEF Unknowns
<1>5. DOMAIN re.umem = 1..Len(re.umem) /\ re.umem \in Seq(OperandNodes)
  BY <1>1 DEF Queues
<1>6. pc = "idle" => ToSet(re.umem) = Hidden(re.list)
  <2> SUFFICES ASSUME pc = "idle" PROVE ToSet(re.umem) = Hidden(re.list)
    OBVIOUS
  <2>1. 1..Len(re.instl) = {}
    BY <1>1
  <2>2. \A u \in Hidden(re.list) : \E a \in 1..Len(re.umem) : re.umem[a] = u
    BY <1>4, <2>1
  <2>3. \A x : x \in ToSet(re.umem) <=> \E a \in 1..Len(re.umem) : re.umem[a] = x
    BY <1>5, ToSetIs
  <2> QED
    BY <1>4, <2>2, <2>3
<1> QED
  BY <1>2, <1>3, <1>4, <1>5, <1>6 DEF WorklistsExact

-----------------------------------------------------------------------------
(* Theorems. *)

\* Every operand belongs to an instruction of the list, addresses and values are machine
\* words, and the worklists hold operands and instructions of the list (re_ds, the
\* add_to_ functions of re_dsmanager.c), whatever the trace, the build and the core dump.
THEOREM TypeCorrect == Spec => []TypeOK
  BY Always, TypeOKIs, PTL

\* What the engine says it knows is what the execution did, for traces without reverse
\* subtractions, of builds that read the access log or have no device memory, and without
\* accesses to memory that is neither logged nor dumped.
THEOREM ValuesAreTrue ==
  ASSUME \A i \in Code : i.op # "rsb",
         \A s \in Setups : s.untraced = {} /\ (s.memac \/ s.mmio = {})
  PROVE  Spec => []ValuesSound
<1>1. Honest
  BY DEF Honest
<1>2. IInv => ValuesSound
  BY <1>1, ValuesSoundIs
<1> QED
  BY <1>2, Always, PTL

\* Under the same hypotheses umemlist is exact whenever the worklists are empty, and an
\* entry of a worklist has a value to propagate (the assertions of resolve_use and
\* resolve_define).
THEOREM WorklistsAreExact ==
  ASSUME \A i \in Code : i.op # "rsb",
         \A s \in Setups : s.untraced = {} /\ (s.memac \/ s.mmio = {})
  PROVE  Spec => []WorklistsExact
<1>1. Honest
  BY DEF Honest
<1>2. IInv => WorklistsExact
  BY <1>1, WorklistsExactIs
<1> QED
  BY <1>2, Always, PTL

\* Under the same hypotheses no step forgets or revises a value or an address.
THEOREM NothingForgotten ==
  ASSUME \A i \in Code : i.op # "rsb",
         \A s \in Setups : s.untraced = {} /\ (s.memac \/ s.mmio = {})
  PROVE  Spec => KnowledgeKept
<1>1. Honest
  BY DEF Honest
<1>2. IInv /\ [Next]_vars => [\A j \in OperandNodes : Known(re.list, re'.list, j)]_vars
  BY <1>1, Stepping DEF Keeps
<1> QED
  BY <1>2, Always, PTL DEF Spec, KnowledgeKept
=============================================================================
