---------------------- MODULE ReverseExecProgressProofs ----------------------
(****************************************************************************)
(* That the reverse-execution engine ends, and leaves nothing to infer.     *)
(*                                                                          *)
(* Each routine hands on what it learns (Hands): a node it fills in is      *)
(* queued, and it queues nothing unless it filled something in.  The second *)
(* half makes every step lighter.  The first half makes Live and Owed       *)
(* inductive: where two neighbouring operands of a register disagree one of *)
(* them waits in a worklist, and an instruction its resolver has work on    *)
(* waits itself, or has an operand that does.  When the worklists are empty *)
(* neither can be.                                                          *)
(*                                                                          *)
(* A new instruction breaks into the middle of a chain of operands.  It is  *)
(* Mid that shows that it fits: with empty worklists every operand of a     *)
(* chain agrees with the definition at its head, and the new one takes its  *)
(* value from there too.                                                    *)
(****************************************************************************)
EXTENDS ReverseExecProofs

(* Worklists. *)

\* Taking the head off leaves the others.
LEMMA TailListed ==
  ASSUME NEW q \in Seq(Nat), q # <<>>, NEW j, Listed(q, j), j # Head(q)
  PROVE  Listed(Tail(q), j)
<1>1. /\ Tail(q) \in Seq(Nat) /\ Head(q) = q[1]
      /\ \A a \in 1..Len(q) : a = 1 \/ (a - 1 \in 1..Len(Tail(q)) /\ Tail(q)[a - 1] = q[a])
  BY TailIs
<1>2. PICK a \in 1..Len(q) : q[a] = j
  BY DEF Listed
<1>3. a - 1 \in 1..Len(Tail(q)) /\ Tail(q)[a - 1] = j
  BY <1>1, <1>2
<1> QED
  BY <1>3 DEF Listed

-----------------------------------------------------------------------------
(* Handing on what is learnt. *)

\* A state of the engine, its worklists sequences of numbers.
Plain(S) == Structure(S) /\ Nodes(S.list) /\ S.usel \in Seq(Nat) /\ S.defl \in Seq(Nat)

\* Something is known that was not.
NewAfter(l, m, j) == ~l[j].ak /\ m[j].ak
NewBefore(l, m, j) == l[j].kind = "def" /\ ~l[j].bk /\ m[j].bk
NewAddress(l, m, j) == l[j].sort = "mem" /\ l[j].addr = 0 /\ m[j].addr # 0
Learnt(l, m) == \E j \in Ops(l) : NewAfter(l, m, j) \/ NewBefore(l, m, j) \/ NewAddress(l, m, j)

\* A found address is not lost.
KeepsAddress(l, m) == \A j \in Ops(l) : l[j].addr # 0 => m[j].addr = l[j].addr

\* T knows more than S and has queued the nodes, but a memory operand x, of which it does;
\* a definition of the crashing instruction need not be queued for the value before it.
Hands(S, T, x) ==
  /\ More(S.list, T.list) /\ KeepsAddress(S.list, T.list)
  /\ Longer(S.usel, T.usel) /\ Longer(S.defl, T.defl)
  /\ \A j \in Ops(S.list) : j # x \/ S.list[j].sort # "mem" =>
       /\ NewAfter(S.list, T.list, j) => Waits(T, j)
       /\ NewBefore(S.list, T.list, j) /\ Done(S.list, j) => Waits(T, j)
  /\ (T.usel = S.usel /\ T.defl = S.defl) \/ Learnt(S.list, T.list)

\* The invariant of the engine's state makes it a plain one.
LEMMA InvPlain ==
  ASSUME NEW S, Inv(S)
  PROVE  /\ Plain(S) /\ ListInv(S.list) /\ Nodes(S.list) /\ Shaped(S.list)
         /\ S.instl \in Seq(Nat) /\ S.instl \in Seq(Insts(S.list))
         /\ S.usel \in Seq(UseReady(S.list)) /\ S.defl \in Seq(DefReady(S.list))
<1>1. ListInv(S.list) /\ Nodes(S.list) /\ Shaped(S.list) /\ Queues(S) /\ Structure(S)
  BY DEF Inv, ListInv, Structure
<1>2. UseReady(S.list) \subseteq Nat /\ DefReady(S.list) \subseteq Nat /\ Insts(S.list) \subseteq Nat
  BY DEF UseReady, DefReady, Ops, Insts
<1>3. S.usel \in Seq(Nat) /\ S.defl \in Seq(Nat) /\ S.instl \in Seq(Nat)
  BY <1>1, <1>2, SeqWider DEF Queues
<1> QED
  BY <1>1, <1>3 DEF Plain, Queues

\* A list knows no more than itself.
LEMMA MoreSelf ==
  ASSUME NEW l, Nodes(l)
  PROVE  More(l, l)
<1>1. l \in Seq(OpNode \cup InstRec) /\ \A j \in Ops(l) : l[j] \in OpNode
  BY NodeIs DEF Nodes
<1> QED
  BY <1>1 DEF More, Ops, SameStatic, NodeMore

\* Doing nothing hands on everything.
LEMMA HandsSelf ==
  ASSUME NEW S, Plain(S), NEW x
  PROVE  Hands(S, S, x)
<1>1. More(S.list, S.list) /\ Longer(S.usel, S.usel) /\ Longer(S.defl, S.defl)
  BY MoreSelf, LongerTwice DEF Plain
<1> QED
  BY <1>1 DEF Hands, KeepsAddress, NewAfter, NewBefore

\* What is learnt stays so.
LEMMA LearntStays ==
  ASSUME NEW l, Nodes(l), NEW m, NEW o, More(l, m), More(m, o), KeepsAddress(m, o)
  PROVE  Learnt(l, m) => Learnt(l, o)
<1>1. /\ Ops(m) = Ops(l) /\ Nodes(m) /\ \A j \in Ops(l) : SameStatic(l[j], m[j])
  BY MoreNodes
<1>2. \A j \in Ops(l) : NodeMore(m[j], o[j]) /\ (m[j].addr # 0 => o[j].addr = m[j].addr)
  BY <1>1, MoreNodes DEF KeepsAddress
<1> QED
  BY <1>1, <1>2 DEF Learnt, NewAfter, NewBefore, NewAddress, NodeMore

\* What is learnt in the second of two steps was not known before the first.
LEMMA LearntLater ==
  ASSUME NEW l, Nodes(l), NEW m, NEW o, More(l, m), More(m, o), KeepsAddress(l, m)
  PROVE  Learnt(m, o) => Learnt(l, o)
<1>1. /\ Ops(m) = Ops(l)
      /\ \A j \in Ops(l) : /\ SameStatic(l[j], m[j]) /\ NodeMore(l[j], m[j])
                           /\ l[j].addr # 0 => m[j].addr = l[j].addr
  BY MoreNodes DEF KeepsAddress
<1> QED
  BY <1>1 DEF Learnt, NewAfter, NewBefore, NewAddress, NodeMore, SameStatic

\* Handing on is transitive.
LEMMA HandsTwice ==
  ASSUME NEW S, NEW T, NEW U, NEW x, Plain(S), Plain(T), Plain(U), Hands(S, T, x), Hands(T, U, x)
  PROVE  Hands(S, U, x)
<1> DEFINE l == S.list
           m == T.list
           o == U.list
<1>1. Nodes(l) /\ Nodes(m) /\ More(l, m) /\ More(m, o) /\ KeepsAddress(l, m) /\ KeepsAddress(m, o)
  BY DEF Plain, Hands
<1>2. More(l, o)
  BY <1>1, MoreTwice
<1>3. /\ Ops(m) = Ops(l)
      /\ \A j \in Ops(l) : SameStatic(l[j], m[j]) /\ (Done(m, j) <=> Done(l, j))
  BY <1>1, MoreNodes
<1>4. KeepsAddress(l, o)
  BY <1>1, <1>3 DEF KeepsAddress
<1>5. /\ Longer(S.usel, U.usel) /\ Longer(S.defl, U.defl)
      /\ \A j : Waits(T, j) => Waits(U, j)
  <2>1. /\ S.usel \in Seq(Nat) /\ T.usel \in Seq(Nat) /\ U.usel \in Seq(Nat)
        /\ S.defl \in Seq(Nat) /\ T.defl \in Seq(Nat) /\ U.defl \in Seq(Nat)
        /\ Longer(S.usel, T.usel) /\ Longer(S.defl, T.defl)
        /\ Longer(T.usel, U.usel) /\ Longer(T.defl, U.defl)
    BY DEF Plain, Hands
  <2>2. Longer(S.usel, U.usel) /\ Longer(S.defl, U.defl)
    BY <2>1, LongerTwice
  <2> QED
    BY <2>1, <2>2, LongerIs DEF Waits
<1>6. ASSUME NEW j \in Ops(l), j # x \/ l[j].sort # "mem"
      PROVE  /\ NewAfter(l, o, j) => Waits(U, j)
             /\ NewBefore(l, o, j) /\ Done(l, j) => Waits(U, j)
  <2>1. NewAfter(l, o, j) => NewAfter(l, m, j) \/ NewAfter(m, o, j)
    BY DEF NewAfter
  <2>2. NewBefore(l, o, j) => NewBefore(l, m, j) \/ NewBefore(m, o, j)
    BY <1>3 DEF NewBefore, SameStatic
  <2>3. j # x \/ m[j].sort # "mem"
    BY <1>3, <1>6 DEF SameStatic
  <2> QED
    BY <1>3, <1>5, <1>6, <2>1, <2>2, <2>3 DEF Hands
<1>7. (U.usel = S.usel /\ U.defl = S.defl) \/ Learnt(l, o)
  BY <1>1, LearntStays, LearntLater DEF Hands
<1> QED
  BY <1>2, <1>4, <1>5, <1>6, <1>7 DEF Hands

\* A list in which one node knows more.
LEMMA PutMore ==
  ASSUME NEW l, Nodes(l), NEW e \in Ops(l), NEW x \in OpNode, SameStatic(l[e], x), NodeMore(l[e], x)
  PROVE  LET m == [l EXCEPT ![e] = x] IN
         /\ More(l, m) /\ Nodes(m) /\ m[e] = x /\ \A j \in 1..Len(l) : j # e => m[j] = l[j]
<1> DEFINE m == [l EXCEPT ![e] = x]
<1>1. l \in Seq(OpNode \cup InstRec) /\ e \in 1..Len(l) /\ x \in OpNode \cup InstRec
  BY NodeIs DEF Nodes
<1>2. /\ m \in Seq(OpNode \cup InstRec) /\ Len(m) = Len(l) /\ m[e] = x
      /\ \A j \in 1..Len(l) : j # e => m[j] = l[j]
  BY <1>1, PutIs
<1> HIDE DEF m
<1>3. \A j \in Ops(l) : l[j] \in OpNode /\ SameStatic(l[j], l[j]) /\ NodeMore(l[j], l[j])
  BY NodeIs DEF SameStatic, NodeMore
<1>4. \A j \in 1..Len(l) : IF l[j].kind = "inst" THEN m[j] = l[j]
                           ELSE m[j] \in OpNode /\ SameStatic(l[j], m[j]) /\ NodeMore(l[j], m[j])
  BY <1>2, <1>3 DEF Ops
<1>5. More(l, m)
  BY <1>2, <1>4 DEF More
<1> QED
  BY <1>2, <1>5, MoreNodes DEF m

\* A node that is filled in and queued is handed on.
LEMMA PutHands ==
  ASSUME NEW S, Plain(S), NEW e \in Ops(S.list), NEW T, Structure(T),
         More(S.list, T.list), T.list[e].addr = S.list[e].addr,
         \A j \in 1..Len(S.list) : j # e => T.list[j] = S.list[j],
         \/ T.usel = add_to_list(S.usel, e) /\ T.defl = S.defl
         \/ T.defl = add_to_list(S.defl, e) /\ T.usel = S.usel,
         NewAfter(S.list, T.list, e) \/ NewBefore(S.list, T.list, e), NEW y
  PROVE  Plain(T) /\ Hands(S, T, y)
<1> DEFINE l == S.list
           m == T.list
<1>1. /\ More(l, m) /\ Nodes(m) /\ \A j \in 1..Len(l) : j # e => m[j] = l[j]
  BY MoreNodes DEF Plain
<1>2. e \in Nat /\ S.usel \in Seq(Nat) /\ S.defl \in Seq(Nat)
  BY DEF Plain, Ops
<1>3. /\ T.usel \in Seq(Nat) /\ T.defl \in Seq(Nat)
      /\ Longer(S.usel, T.usel) /\ Longer(S.defl, T.defl) /\ Waits(T, e)
  BY <1>2, AddLonger, LongerTwice DEF Waits
<1>4. KeepsAddress(l, m)
  BY <1>1 DEF KeepsAddress, Ops
<1>5. ASSUME NEW j \in Ops(l), NewAfter(l, m, j) \/ NewBefore(l, m, j) PROVE Waits(T, j)
  <2>1. j = e
    BY <1>1, <1>5 DEF NewAfter, NewBefore, Ops
  <2> QED
    BY <1>3, <2>1
<1>6. Learnt(l, m)
  BY DEF Learnt
<1>7. Plain(T)
  BY <1>1, <1>3 DEF Plain
<1> QED
  BY <1>1, <1>3, <1>4, <1>5, <1>6, <1>7 DEF Hands

\* No address changes.
SameAddress(l, m) == \A j \in Ops(l) : m[j].addr = l[j].addr

\* T is S after one more value was handed on, of node e.
One(S, T, e) ==
  /\ Plain(T) /\ T.instl = S.instl /\ (\A y : Hands(S, T, y)) /\ SameAddress(S.list, T.list)
  /\ \A j \in 1..Len(S.list) : j # e => T.list[j] = S.list[j]

\* A value after a node, filled in and queued.
LEMMA AfterHands ==
  ASSUME NEW S, Plain(S), NEW e \in Ops(S.list), NEW v \in Val, NEW T, T = After(S, e, v)
  PROVE  One(S, T, e) /\ T.list[e].ak
<1>1. S.list[e] \in OpNode /\ Structure(S) /\ Nodes(S.list)
  BY NodeIs DEF Plain
<1>2. CASE S.list[e].ak
  <2>1. T = S
    BY <1>2 DEF After
  <2>2. One(S, S, e)
    BY HandsSelf DEF One, SameAddress
  <2> QED
    BY <2>1, <2>2, <1>2
<1>3. CASE ~S.list[e].ak
  <2>1. PICK x : x = KnowAfter(S.list[e], v)
    OBVIOUS
  <2>2. /\ x \in OpNode /\ SameStatic(S.list[e], x)
        /\ x.ak /\ x.av = v /\ x.bk = S.list[e].bk /\ x.bv = S.list[e].bv
        /\ x.addr = S.list[e].addr
    BY <1>1, <2>1, KnowAfterIs
  <2>3. NodeMore(S.list[e], x)
    BY <2>2, <1>3 DEF NodeMore
  <2>4. PICK m : m = [S.list EXCEPT ![e] = x]
    OBVIOUS
  <2>5. m[e] = x /\ More(S.list, m) /\ \A j \in 1..Len(S.list) : j # e => m[j] = S.list[j]
    BY ONLY <1>1, <2>2, <2>3, <2>4, e \in Ops(S.list), PutMore
  <2>6. T = IF S.list[e].kind = "def"
            THEN [S EXCEPT !.list = m, !.defl = add_to_list(S.defl, e)]
            ELSE [S EXCEPT !.list = m, !.usel = add_to_list(S.usel, e)]
    BY ONLY <1>1, <1>3, <2>1, <2>4, T = After(S, e, v) DEF After, Structure
  <2>7. /\ Structure(T) /\ T.list = m /\ T.instl = S.instl
        /\ \/ T.usel = add_to_list(S.usel, e) /\ T.defl = S.defl
           \/ T.defl = add_to_list(S.defl, e) /\ T.usel = S.usel
    <3>1. CASE S.list[e].kind = "def"
      <4>1. PICK q : q = add_to_list(S.defl, e)
        OBVIOUS
      <4>2. T = [S EXCEPT !.list = m, !.defl = q]
        BY <2>6, <3>1, <4>1
      <4>3. T = State(m, S.usel, q, S.instl, S.umem, S.bad)
        BY <1>1, <4>2, SetTwo
      <4> QED
        BY <4>1, <4>3, StateIs
    <3>2. CASE S.list[e].kind # "def"
      <4>1. PICK q : q = add_to_list(S.usel, e)
        OBVIOUS
      <4>2. T = [S EXCEPT !.list = m, !.usel = q]
        BY <2>6, <3>2, <4>1
      <4>3. T = State(m, q, S.defl, S.instl, S.umem, S.bad)
        BY <1>1, <4>2, SetTwo
      <4> QED
        BY <4>1, <4>3, StateIs
    <3> QED
      BY <3>1, <3>2
  <2>8. NewAfter(S.list, T.list, e) /\ T.list[e].addr = S.list[e].addr
    BY <1>3, <2>2, <2>5, <2>7 DEF NewAfter
  <2>9. Plain(T) /\ \A y : Hands(S, T, y)
    <3>1. /\ \/ T.usel = add_to_list(S.usel, e) /\ T.defl = S.defl
             \/ T.defl = add_to_list(S.defl, e) /\ T.usel = S.usel
          /\ NewAfter(S.list, T.list, e) \/ NewBefore(S.list, T.list, e)
          /\ More(S.list, T.list) /\ \A j \in 1..Len(S.list) : j # e => T.list[j] = S.list[j]
      BY <2>5, <2>7, <2>8
    <3> QED
      BY ONLY <2>7, <2>8, <3>1, Plain(S), e \in Ops(S.list), PutHands
  <2>10. SameAddress(S.list, T.list)
    BY <2>5, <2>7, <2>8 DEF SameAddress, Ops
  <2> QED
    BY <2>2, <2>5, <2>7, <2>9, <2>10 DEF One
<1> QED
  BY <1>2, <1>3

\* A value before a definition, filled in and queued.
LEMMA BeforeHands ==
  ASSUME NEW S, Plain(S), NEW e \in Ops(S.list), S.list[e].kind = "def", NEW v \in Val,
         NEW T, T = Before(S, e, v)
  PROVE  One(S, T, e) /\ T.list[e].bk
<1>1. S.list[e] \in OpNode /\ Structure(S) /\ Nodes(S.list)
  BY NodeIs DEF Plain
<1>2. CASE S.list[e].bk
  <2>1. T = S
    BY <1>2 DEF Before
  <2>2. One(S, S, e)
    BY HandsSelf DEF One, SameAddress
  <2> QED
    BY <2>1, <2>2, <1>2
<1>3. CASE ~S.list[e].bk
  <2>1. PICK x : x = KnowBefore(S.list[e], v)
    OBVIOUS
  <2>2. /\ x \in OpNode /\ SameStatic(S.list[e], x)
        /\ x.bk /\ x.bv = v /\ x.ak = S.list[e].ak /\ x.av = S.list[e].av
        /\ x.addr = S.list[e].addr
    BY <1>1, <2>1, KnowBeforeIs
  <2>3. NodeMore(S.list[e], x)
    BY <2>2, <1>3 DEF NodeMore
  <2>4. PICK m : m = [S.list EXCEPT ![e] = x]
    OBVIOUS
  <2>5. m[e] = x /\ More(S.list, m) /\ \A j \in 1..Len(S.list) : j # e => m[j] = S.list[j]
    BY ONLY <1>1, <2>2, <2>3, <2>4, e \in Ops(S.list), PutMore
  <2>6. T = [S EXCEPT !.list = m, !.defl = add_to_list(S.defl, e)]
    BY ONLY <1>1, <1>3, <2>1, <2>4, T = Before(S, e, v) DEF Before, Structure
  <2>7. /\ Structure(T) /\ T.list = m /\ T.instl = S.instl
        /\ T.usel = S.usel /\ T.defl = add_to_list(S.defl, e)
    <3>1. PICK q : q = add_to_list(S.defl, e)
      OBVIOUS
    <3>2. T = [S EXCEPT !.list = m, !.defl = q]
      BY <2>6, <3>1
    <3>3. T = State(m, S.usel, q, S.instl, S.umem, S.bad)
      BY <1>1, <3>2, SetTwo
    <3> QED
      BY <3>1, <3>3, StateIs
  <2>8. NewBefore(S.list, T.list, e) /\ T.list[e].addr = S.list[e].addr
    BY <1>3, <2>2, <2>5, <2>7 DEF NewBefore
  <2>9. Plain(T) /\ \A y : Hands(S, T, y)
    <3>1. /\ \/ T.usel = add_to_list(S.usel, e) /\ T.defl = S.defl
             \/ T.defl = add_to_list(S.defl, e) /\ T.usel = S.usel
          /\ NewAfter(S.list, T.list, e) \/ NewBefore(S.list, T.list, e)
          /\ More(S.list, T.list) /\ \A j \in 1..Len(S.list) : j # e => T.list[j] = S.list[j]
      BY <2>5, <2>7, <2>8
    <3> QED
      BY ONLY <2>7, <2>8, <3>1, Plain(S), e \in Ops(S.list), PutHands
  <2>10. SameAddress(S.list, T.list)
    BY <2>5, <2>7, <2>8 DEF SameAddress, Ops
  <2> QED
    BY <2>2, <2>5, <2>7, <2>9, <2>10 DEF One
<1> QED
  BY <1>2, <1>3

\* T is S after values were handed on, and the nodes they reached queued.
Passes(S, T) ==
  Plain(T) /\ T.instl = S.instl /\ (\A y : Hands(S, T, y)) /\ SameAddress(S.list, T.list)

\* Handing on more than one value.
LEMMA PassesTwice ==
  ASSUME NEW S, NEW T, NEW U, Plain(S), Passes(S, T), Passes(T, U)
  PROVE  Passes(S, U)
<1>1. \A y : Hands(S, U, y)
  BY HandsTwice DEF Passes
<1>2. Ops(T.list) = Ops(S.list)
  BY MoreNodes DEF Passes, Hands, Plain
<1> QED
  BY <1>1, <1>2 DEF Passes, SameAddress

\* i and j are neighbours: operands of one register with none of it in between, i the
\* later one of the execution.
Neighbours(l, i, j) ==
  /\ i < j /\ l[i].sort = "reg" /\ SameTarget(l[i], l[j])
  /\ \A k \in Ops(l) : i < k /\ k < j => ~SameTarget(l[k], l[i])

\* The value before the node is known.
KnownBefore(n) == IF n.kind = "def" THEN n.bk ELSE n.ak

\* What is known of a node and of its neighbours stays known, and they stay neighbours.
LEMMA KnownStays ==
  ASSUME NEW l, Nodes(l), NEW m, More(l, m)
  PROVE  \A i, j \in Ops(l) : /\ Neighbours(m, i, j) <=> Neighbours(l, i, j)
                              /\ KnownBefore(l[i]) => KnownBefore(m[i])
                              /\ l[i].ak => m[i].ak
<1>1. /\ Ops(m) = Ops(l)
      /\ \A j \in Ops(l) : SameStatic(l[j], m[j]) /\ NodeMore(l[j], m[j])
  BY MoreNodes
<1>2. ASSUME NEW i \in Ops(l), NEW j \in Ops(l), l[i].sort = "reg"
      PROVE  SameTarget(m[i], m[j]) <=> SameTarget(l[i], l[j])
  BY <1>1, <1>2 DEF SameTarget, SameStatic
<1>3. ASSUME NEW i \in Ops(l), NEW j \in Ops(l), l[i].sort = "reg"
      PROVE  SameTarget(m[j], m[i]) <=> SameTarget(l[j], l[i])
  BY <1>1, <1>3 DEF SameTarget, SameStatic
<1>4. ASSUME NEW i \in Ops(l), NEW j \in Ops(l)
      PROVE  Neighbours(m, i, j) <=> Neighbours(l, i, j)
  <2>1. m[i].sort = l[i].sort
    BY <1>1 DEF SameStatic
  <2>2. CASE l[i].sort = "reg"
    BY <1>1, <1>2, <1>3, <2>1, <2>2 DEF Neighbours
  <2>3. CASE l[i].sort # "reg"
    BY <2>1, <2>3 DEF Neighbours
  <2> QED
    BY <2>2, <2>3
<1>5. ASSUME NEW i \in Ops(l)
      PROVE  (KnownBefore(l[i]) => KnownBefore(m[i])) /\ (l[i].ak => m[i].ak)
  BY <1>1 DEF KnownBefore, NodeMore, SameStatic
<1> QED
  BY <1>4, <1>5

\* A value handed on towards the end of the trace reaches the register's next operand.
LEMMA FlowNextHands ==
  ASSUME NEW S, Plain(S), NEW e \in Ops(S.list), NEW v \in Val, NEW T, T = FlowNext(S, e, v)
  PROVE  /\ Passes(S, T) /\ T.list[e] = S.list[e]
         /\ \A i \in Ops(S.list) : Neighbours(S.list, i, e) => KnownBefore(T.list[i])
<1> DEFINE l == S.list
<1>1. Nodes(l) /\ \A k \in Ops(l) : k \in Nat /\ k \in 1..Len(l)
  BY NodeIs DEF Plain
<1>2. PICK d : d = NextOf(l, "def", e)
  OBVIOUS
<1>3. PICK u : u = NextOf(l, "use", e)
  OBVIOUS
<1>4. /\ d \in Nat
      /\ d # 0 => d \in Ops(l) /\ d < e /\ l[d].kind = "def" /\ SameTarget(l[d], l[e])
      /\ \A k \in Ops(l) : k < e /\ l[k].kind = "def" /\ SameTarget(l[k], l[e]) => d # 0 /\ k <= d
  BY <1>1, <1>2, NextIs
<1>5. /\ u \in Nat
      /\ u # 0 => u \in Ops(l) /\ u < e /\ l[u].kind = "use" /\ SameTarget(l[u], l[e])
      /\ \A k \in Ops(l) : k < e /\ l[k].kind = "use" /\ SameTarget(l[k], l[e]) => u # 0 /\ k <= u
  BY <1>1, <1>3, NextIs
<1>6. PICK M : M = IF d # 0 /\ Reaches(S, d, e, e) THEN Before(S, d, v) ELSE S
  OBVIOUS
<1>7. T = IF u # 0 /\ ~(d # 0 /\ u < d) /\ Reaches(S, u, e, e) THEN After(M, u, v) ELSE M
  BY <1>2, <1>3, <1>6 DEF FlowNext
<1>8. Passes(S, S)
  BY HandsSelf DEF Passes, SameAddress
<1>9. /\ Passes(S, M) /\ M.list[e] = l[e]
      /\ d # 0 /\ Reaches(S, d, e, e) => M.list[d].bk
  <2>1. CASE d # 0 /\ Reaches(S, d, e, e)
    <3>1. M = Before(S, d, v) /\ d \in Ops(l) /\ l[d].kind = "def" /\ d # e
      BY <2>1, <1>1, <1>4, <1>6
    <3>2. One(S, M, d) /\ M.list[d].bk
      BY <3>1, BeforeHands
    <3> QED
      BY <3>1, <3>2, <1>1 DEF One, Passes
  <2>2. CASE ~(d # 0 /\ Reaches(S, d, e, e))
    BY <2>2, <1>6, <1>8
  <2> QED
    BY <2>1, <2>2
<1>10. More(l, M.list) /\ Plain(M) /\ Ops(M.list) = Ops(l) /\ Len(M.list) = Len(l)
  <2>1. More(l, M.list) /\ Plain(M)
    BY <1>9 DEF Passes, Hands
  <2> QED
    BY <2>1, <1>1, MoreNodes DEF More
<1>11. /\ Passes(M, T) /\ T.list[e] = l[e]
       /\ u # 0 /\ ~(d # 0 /\ u < d) /\ Reaches(S, u, e, e) => T.list[u].ak
  <2>1. CASE u # 0 /\ ~(d # 0 /\ u < d) /\ Reaches(S, u, e, e)
    <3>1. T = After(M, u, v) /\ u \in Ops(M.list) /\ u # e
      BY <2>1, <1>1, <1>5, <1>7, <1>10
    <3>2. One(M, T, u) /\ T.list[u].ak
      BY <3>1, <1>10, AfterHands
    <3> QED
      BY <3>1, <3>2, <1>1, <1>9, <1>10 DEF One, Passes
  <2>2. CASE ~(u # 0 /\ ~(d # 0 /\ u < d) /\ Reaches(S, u, e, e))
    <3>1. T = M
      BY <2>2, <1>7
    <3>2. Passes(M, M)
      BY <1>10, HandsSelf DEF Passes, SameAddress
    <3> QED
      BY <2>2, <3>1, <3>2, <1>9
  <2> QED
    BY <2>1, <2>2
<1>12. Passes(S, T) /\ More(M.list, T.list)
  BY <1>9, <1>11, PassesTwice DEF Passes, Hands
<1>13. ASSUME NEW i \in Ops(l), Neighbours(l, i, e) PROVE KnownBefore(T.list[i])
  <2>1. /\ i < e /\ l[i].sort = "reg" /\ SameTarget(l[i], l[e]) /\ l[e].sort = "reg"
        /\ \A k \in Ops(l) : i < k /\ k < e => ~SameTarget(l[k], l[e])
    BY <1>13 DEF Neighbours, SameTarget
  <2>2. \A lo : Reaches(S, lo, e, e)
    BY <2>1 DEF Reaches, IsExp
  <2>3. l[i].kind \in {"use", "def"} /\ SameStatic(l[i], T.list[i])
    <3>1. More(l, T.list)
      BY <1>12 DEF Passes, Hands
    <3> QED
      BY <3>1, <1>1, MoreNodes, NodeIs DEF OpNode
  <2>4. CASE l[i].kind = "def"
    <3>1. d # 0 /\ d = i
      BY <2>1, <2>4, <1>1, <1>4
    <3>2. M.list[i].bk /\ i \in Ops(M.list)
      BY <3>1, <2>2, <1>9, <1>10
    <3>3. T.list[i].bk
      BY <3>2, <1>10, <1>12, MoreNodes DEF NodeMore, Plain
    <3> QED
      BY <3>3, <2>3, <2>4 DEF KnownBefore, SameStatic
  <2>5. CASE l[i].kind = "use"
    <3>1. u # 0 /\ u = i
      BY <2>1, <2>5, <1>1, <1>5
    <3>2. ~(d # 0 /\ u < d)
      BY <3>1, <2>1, <1>1, <1>4
    <3>3. T.list[i].ak
      BY <3>1, <3>2, <2>2, <1>11
    <3> QED
      BY <3>3, <2>3, <2>5 DEF KnownBefore, SameStatic
  <2> QED
    BY <2>3, <2>4, <2>5
<1> QED
  BY <1>11, <1>12, <1>13

\* A value handed on towards the start of the trace reaches the register's previous operand.
LEMMA FlowPrevHands ==
  ASSUME NEW S, Plain(S), NEW e \in Ops(S.list), NEW v \in Val, NEW T, T = FlowPrev(S, e, v)
  PROVE  /\ Passes(S, T) /\ T.list[e] = S.list[e]
         /\ \A j \in Ops(S.list) : Neighbours(S.list, e, j) => T.list[j].ak
<1> DEFINE l == S.list
<1>1. Nodes(l) /\ \A k \in Ops(l) : k \in Nat /\ k \in 1..Len(l)
  BY NodeIs DEF Plain
<1>2. PICK d : d = PrevOf(l, "def", e)
  OBVIOUS
<1>3. PICK u : u = PrevOf(l, "use", e)
  OBVIOUS
<1>4. /\ d \in Nat
      /\ d # 0 => d \in Ops(l) /\ e < d /\ l[d].kind = "def" /\ SameTarget(l[d], l[e])
      /\ \A k \in Ops(l) : e < k /\ l[k].kind = "def" /\ SameTarget(l[k], l[e]) => d # 0 /\ d <= k
  BY <1>1, <1>2, PrevIs
<1>5. /\ u \in Nat
      /\ u # 0 => u \in Ops(l) /\ e < u /\ l[u].kind = "use" /\ SameTarget(l[u], l[e])
      /\ \A k \in Ops(l) : e < k /\ l[k].kind = "use" /\ SameTarget(l[k], l[e]) => u # 0 /\ u <= k
  BY <1>1, <1>3, PrevIs
<1>6. PICK M : M = IF d # 0 /\ Reaches(S, e, d, e) THEN After(S, d, v) ELSE S
  OBVIOUS
<1>7. T = IF u # 0 /\ ~(d # 0 /\ d < u) /\ Reaches(S, e, u, e) THEN After(M, u, v) ELSE M
  BY <1>2, <1>3, <1>6 DEF FlowPrev
<1>8. Passes(S, S)
  BY HandsSelf DEF Passes, SameAddress
<1>9. /\ Passes(S, M) /\ M.list[e] = l[e]
      /\ d # 0 /\ Reaches(S, e, d, e) => M.list[d].ak
  <2>1. CASE d # 0 /\ Reaches(S, e, d, e)
    <3>1. M = After(S, d, v) /\ d \in Ops(l) /\ d # e
      BY <2>1, <1>1, <1>4, <1>6
    <3>2. One(S, M, d) /\ M.list[d].ak
      BY <3>1, AfterHands
    <3> QED
      BY <3>1, <3>2, <1>1 DEF One, Passes
  <2>2. CASE ~(d # 0 /\ Reaches(S, e, d, e))
    BY <2>2, <1>6, <1>8
  <2> QED
    BY <2>1, <2>2
<1>10. More(l, M.list) /\ Plain(M) /\ Ops(M.list) = Ops(l) /\ Len(M.list) = Len(l)
  <2>1. More(l, M.list) /\ Plain(M)
    BY <1>9 DEF Passes, Hands
  <2> QED
    BY <2>1, <1>1, MoreNodes DEF More
<1>11. /\ Passes(M, T) /\ T.list[e] = l[e]
       /\ u # 0 /\ ~(d # 0 /\ d < u) /\ Reaches(S, e, u, e) => T.list[u].ak
  <2>1. CASE u # 0 /\ ~(d # 0 /\ d < u) /\ Reaches(S, e, u, e)
    <3>1. T = After(M, u, v) /\ u \in Ops(M.list) /\ u # e
      BY <2>1, <1>1, <1>5, <1>7, <1>10
    <3>2. One(M, T, u) /\ T.list[u].ak
      BY <3>1, <1>10, AfterHands
    <3> QED
      BY <3>1, <3>2, <1>1, <1>9, <1>10 DEF One, Passes
  <2>2. CASE ~(u # 0 /\ ~(d # 0 /\ d < u) /\ Reaches(S, e, u, e))
    <3>1. T = M
      BY <2>2, <1>7
    <3>2. Passes(M, M)
      BY <1>10, HandsSelf DEF Passes, SameAddress
    <3> QED
      BY <2>2, <3>1, <3>2, <1>9
  <2> QED
    BY <2>1, <2>2
<1>12. Passes(S, T) /\ More(M.list, T.list)
  BY <1>9, <1>11, PassesTwice DEF Passes, Hands
<1>13. ASSUME NEW j \in Ops(l), Neighbours(l, e, j) PROVE T.list[j].ak
  <2>1. /\ e < j /\ l[e].sort = "reg" /\ SameTarget(l[j], l[e])
        /\ \A k \in Ops(l) : e < k /\ k < j => ~SameTarget(l[k], l[e])
    BY <1>13 DEF Neighbours, SameTarget
  <2>2. \A hi : Reaches(S, e, hi, e)
    BY <2>1 DEF Reaches, IsExp
  <2>3. l[j].kind \in {"use", "def"}
    BY <1>1, NodeIs DEF OpNode
  <2>4. CASE l[j].kind = "def"
    <3>1. d # 0 /\ d = j
      BY <2>1, <2>4, <1>1, <1>4
    <3>2. M.list[j].ak /\ j \in Ops(M.list)
      BY <3>1, <2>2, <1>9, <1>10
    <3> QED
      BY <3>2, <1>10, <1>12, MoreNodes DEF NodeMore, Plain
  <2>5. CASE l[j].kind = "use"
    <3>1. u # 0 /\ u = j
      BY <2>1, <2>5, <1>1, <1>5
    <3>2. ~(d # 0 /\ d < u)
      BY <3>1, <2>1, <1>1, <1>4
    <3> QED
      BY <3>1, <3>2, <2>2, <1>11
  <2> QED
    BY <2>3, <2>4, <2>5
<1> QED
  BY <1>11, <1>12, <1>13

\* A new value wakes its instruction, unless there is nothing left to find in it.
LEMMA WakeHands ==
  ASSUME NEW S, Plain(S), S.instl \in Seq(Nat), NEW e \in Ops(S.list), NEW W, W = WakeInst(S, e)
  PROVE  /\ Plain(W) /\ W.list = S.list /\ W.usel = S.usel /\ W.defl = S.defl
         /\ W.instl \in Seq(Nat) /\ Longer(S.instl, W.instl) /\ Len(W.instl) <= Len(S.instl) + 1
         /\ Listed(W.instl, S.list[e].home) \/ check_inst_resolution(S.list, S.list[e].home)
<1>1. PICK h : h = S.list[e].home
  OBVIOUS
<1>2. h \in Nat /\ Structure(S) /\ Len(S.instl) \in Nat
  BY <1>1, NodeIs DEF Plain
<1>3. CASE check_inst_resolution(S.list, h)
  <2>1. W = S
    BY <1>1, <1>3 DEF WakeInst
  <2>2. Longer(S.instl, S.instl)
    BY LongerTwice
  <2> QED
    BY <1>1, <1>2, <1>3, <2>1, <2>2
<1>4. CASE ~check_inst_resolution(S.list, h)
  <2>1. PICK q : q = add_to_list(S.instl, h)
    OBVIOUS
  <2>2. W = [S EXCEPT !.instl = q]
    BY <1>1, <1>2, <1>4, <2>1 DEF WakeInst, Structure
  <2>3. W = State(S.list, S.usel, S.defl, q, S.umem, S.bad)
    BY <1>2, <2>2, SetIs
  <2>4. /\ Structure(W) /\ W.list = S.list /\ W.usel = S.usel /\ W.defl = S.defl /\ W.instl = q
    BY <2>3, StateIs
  <2>5. q \in Seq(Nat) /\ Longer(S.instl, q) /\ Listed(q, h) /\ Len(q) <= Len(S.instl) + 1
    BY <1>2, <2>1, AddLonger
  <2> QED
    BY <1>1, <2>4, <2>5 DEF Plain
<1> QED
  BY <1>3, <1>4

\* T is S after operand e was resolved: what is known of it reached its neighbours and its
\* instruction.
Spread(S, T, e) ==
  /\ Plain(T) /\ (\A y : Hands(S, T, y)) /\ T.list[e] = S.list[e] /\ SameAddress(S.list, T.list)
  /\ T.instl \in Seq(Nat) /\ Longer(S.instl, T.instl) /\ Len(T.instl) <= Len(S.instl) + 1
  /\ Listed(T.instl, S.list[e].home) \/ check_inst_resolution(S.list, S.list[e].home)
  /\ \A i \in Ops(S.list) : Neighbours(S.list, i, e) /\ S.list[e].ak => KnownBefore(T.list[i])
  /\ \A j \in Ops(S.list) : Neighbours(S.list, e, j) /\ KnownBefore(S.list[e]) => T.list[j].ak

\* Waking first makes no difference to what is handed on.
LEMMA WakenOn ==
  ASSUME NEW S, NEW W, NEW T, W.list = S.list, W.usel = S.usel, W.defl = S.defl, Passes(W, T)
  PROVE  /\ Plain(T) /\ T.instl = W.instl /\ SameAddress(S.list, T.list)
         /\ \A y : Hands(S, T, y)
BY DEF Passes, Hands

\* resolve_use hands the value of a use on to both sides.
LEMMA UseSpread ==
  ASSUME NEW S, Plain(S), S.instl \in Seq(Nat), NEW e \in UseReady(S.list), NEW T,
         T = resolve_use(S, e)
  PROVE  Spread(S, T, e)
<1>1. /\ e \in Ops(S.list) /\ S.list[e].ak /\ S.list[e].kind = "use" /\ S.list[e].av \in Val
      /\ Nodes(S.list)
  BY NodeIs DEF UseReady, Plain, OpNode
<1>2. PICK v : v = S.list[e].av
  OBVIOUS
<1>3. PICK W : W = WakeInst(S, e)
  OBVIOUS
<1>4. PICK X : X = FlowNext(W, e, v)
  OBVIOUS
<1>5. T = FlowPrev(X, e, v)
  BY <1>2, <1>3, <1>4 DEF resolve_use
<1>6. /\ Plain(W) /\ W.list = S.list /\ W.usel = S.usel /\ W.defl = S.defl
      /\ W.instl \in Seq(Nat) /\ Longer(S.instl, W.instl) /\ Len(W.instl) <= Len(S.instl) + 1
      /\ Listed(W.instl, S.list[e].home) \/ check_inst_resolution(S.list, S.list[e].home)
  BY <1>1, <1>3, WakeHands
<1>7. /\ Passes(W, X) /\ X.list[e] = S.list[e]
      /\ \A i \in Ops(S.list) : Neighbours(S.list, i, e) => KnownBefore(X.list[i])
  <2>1. /\ Passes(W, X) /\ X.list[e] = W.list[e]
        /\ \A i \in Ops(W.list) : Neighbours(W.list, i, e) => KnownBefore(X.list[i])
    BY <1>1, <1>2, <1>4, <1>6, FlowNextHands
  <2> QED
    BY <1>6, <2>1
<1>8. More(S.list, X.list) /\ Plain(X) /\ Ops(X.list) = Ops(S.list)
  <2>1. More(S.list, X.list) /\ Plain(X)
    BY <1>6, <1>7 DEF Passes, Hands
  <2> QED
    BY <1>1, <2>1, MoreNodes
<1>9. /\ Passes(X, T) /\ T.list[e] = S.list[e]
      /\ \A j \in Ops(S.list) : Neighbours(X.list, e, j) => T.list[j].ak
  <2>1. /\ Passes(X, T) /\ T.list[e] = X.list[e]
        /\ \A j \in Ops(X.list) : Neighbours(X.list, e, j) => T.list[j].ak
    BY <1>1, <1>2, <1>5, <1>8, FlowPrevHands
  <2> QED
    BY <1>7, <1>8, <2>1
<1>10. Plain(T) /\ T.instl = W.instl /\ SameAddress(S.list, T.list) /\ \A y : Hands(S, T, y)
  <2>1. Passes(W, T)
    BY <1>6, <1>7, <1>9, PassesTwice
  <2> QED
    BY <1>6, <2>1, WakenOn
<1>11. ASSUME NEW i \in Ops(S.list), Neighbours(S.list, i, e) PROVE KnownBefore(T.list[i])
  <2>1. KnownBefore(X.list[i]) /\ i \in Ops(X.list) /\ More(X.list, T.list) /\ Nodes(X.list)
    BY <1>7, <1>8, <1>9, <1>11 DEF Passes, Hands, Plain
  <2> QED
    BY <2>1, KnownStays
<1>12. ASSUME NEW j \in Ops(S.list), Neighbours(S.list, e, j) PROVE T.list[j].ak
  <2>1. Neighbours(X.list, e, j)
    BY <1>1, <1>8, <1>12, KnownStays
  <2> QED
    BY <1>9, <2>1
<1> QED
  BY <1>6, <1>9, <1>10, <1>11, <1>12 DEF Spread

\* resolve_define hands the value after a definition on to the one side, the value before
\* it to the other.
LEMMA DefineSpread ==
  ASSUME NEW S, Plain(S), S.instl \in Seq(Nat), NEW e \in DefReady(S.list), NEW T,
         T = resolve_define(S, e)
  PROVE  Spread(S, T, e)
<1>1. /\ e \in Ops(S.list) /\ S.list[e].kind = "def" /\ S.list[e].av \in Val /\ S.list[e].bv \in Val
      /\ Nodes(S.list)
  BY NodeIs DEF DefReady, Plain, OpNode
<1>2. PICK n : n = S.list[e]
  OBVIOUS
<1>3. PICK W : W = WakeInst(S, e)
  OBVIOUS
<1>4. PICK X : X = IF n.ak THEN FlowNext(W, e, n.av) ELSE W
  OBVIOUS
<1>5. T = IF n.bk THEN FlowPrev(X, e, n.bv) ELSE X
  BY <1>2, <1>3, <1>4 DEF resolve_define
<1>6. /\ Plain(W) /\ W.list = S.list /\ W.usel = S.usel /\ W.defl = S.defl
      /\ W.instl \in Seq(Nat) /\ Longer(S.instl, W.instl) /\ Len(W.instl) <= Len(S.instl) + 1
      /\ Listed(W.instl, S.list[e].home) \/ check_inst_resolution(S.list, S.list[e].home)
  BY <1>1, <1>3, WakeHands
<1>7. /\ Passes(W, X) /\ X.list[e] = S.list[e]
      /\ \A i \in Ops(S.list) : Neighbours(S.list, i, e) /\ n.ak => KnownBefore(X.list[i])
  <2>1. CASE n.ak
    <3>1. X = FlowNext(W, e, n.av) /\ n.av \in Val /\ e \in Ops(W.list)
      BY <1>1, <1>2, <1>4, <1>6, <2>1
    <3>2. /\ Passes(W, X) /\ X.list[e] = W.list[e]
          /\ \A i \in Ops(W.list) : Neighbours(W.list, i, e) => KnownBefore(X.list[i])
      BY <1>6, <3>1, FlowNextHands
    <3> QED
      BY <1>6, <3>2
  <2>2. CASE ~n.ak
    <3>1. X = W
      BY <1>4, <2>2
    <3>2. Passes(W, W)
      BY <1>6, HandsSelf DEF Passes, SameAddress
    <3> QED
      BY <1>6, <2>2, <3>1, <3>2
  <2> QED
    BY <2>1, <2>2
<1>8. More(S.list, X.list) /\ Plain(X) /\ Ops(X.list) = Ops(S.list)
  <2>1. More(S.list, X.list) /\ Plain(X)
    BY <1>6, <1>7 DEF Passes, Hands
  <2> QED
    BY <1>1, <2>1, MoreNodes
<1>9. /\ Passes(X, T) /\ T.list[e] = S.list[e]
      /\ \A j \in Ops(S.list) : Neighbours(X.list, e, j) /\ n.bk => T.list[j].ak
  <2>1. CASE n.bk
    <3>1. T = FlowPrev(X, e, n.bv) /\ n.bv \in Val /\ e \in Ops(X.list)
      BY <1>1, <1>2, <1>5, <1>8, <2>1
    <3>2. /\ Passes(X, T) /\ T.list[e] = X.list[e]
          /\ \A j \in Ops(X.list) : Neighbours(X.list, e, j) => T.list[j].ak
      BY <1>8, <3>1, FlowPrevHands
    <3> QED
      BY <1>7, <1>8, <3>2
  <2>2. CASE ~n.bk
    <3>1. T = X
      BY <1>5, <2>2
    <3>2. Passes(X, X)
      BY <1>8, HandsSelf DEF Passes, SameAddress
    <3> QED
      BY <1>7, <2>2, <3>1, <3>2
  <2> QED
    BY <2>1, <2>2
<1>10. Plain(T) /\ T.instl = W.instl /\ SameAddress(S.list, T.list) /\ \A y : Hands(S, T, y)
  <2>1. Passes(W, T)
    BY <1>6, <1>7, <1>9, PassesTwice
  <2> QED
    BY <1>6, <2>1, WakenOn
<1>11. ASSUME NEW i \in Ops(S.list), Neighbours(S.list, i, e), n.ak PROVE KnownBefore(T.list[i])
  <2>1. KnownBefore(X.list[i]) /\ i \in Ops(X.list) /\ More(X.list, T.list) /\ Nodes(X.list)
    BY <1>7, <1>8, <1>9, <1>11 DEF Passes, Hands, Plain
  <2> QED
    BY <2>1, KnownStays
<1>12. ASSUME NEW j \in Ops(S.list), Neighbours(S.list, e, j), n.bk PROVE T.list[j].ak
  <2>1. Neighbours(X.list, e, j)
    BY <1>1, <1>8, <1>12, KnownStays
  <2> QED
    BY <1>9, <1>12, <2>1
<1>13. KnownBefore(S.list[e]) <=> n.bk
  BY <1>1, <1>2 DEF KnownBefore
<1> QED
  BY <1>2, <1>6, <1>9, <1>10, <1>11, <1>12, <1>13 DEF Spread

-----------------------------------------------------------------------------
(* Addresses. *)

\* The address of memory operand e, as its registers make it.
Sum(l, e) == Wrap(l[e + 1].av + Offset(l, e, l[l[e].home].inst))
Summed(l, e) == AddressKnown(l, e, l[l[e].home].inst)

\* A memory operand that has an address but no value has it from its registers: the log
\* tells both at once.
Addresses(l) ==
  \A e \in Ops(l) : l[e].sort = "mem" /\ l[e].addr # 0 /\ ~l[e].ak => Summed(l, e) /\ l[e].addr = Sum(l, e)

\* The sum of the registers of an address does not change once they are known.
LEMMA SumStays ==
  ASSUME NEW l, ListInv(l), NEW m, More(l, m), NEW e \in Ops(l), l[e].sort = "mem", Summed(l, e)
  PROVE  Summed(m, e) /\ Sum(m, e) = Sum(l, e)
<1>1. Nodes(l)
  BY DEF ListInv
<1>2. PICK h : h = l[e].home
  OBVIOUS
<1>3. h \in Insts(l) /\ e = h + 2 /\ l[h].inst.op \in {"ldr", "str"} /\ h \in Nat
  BY <1>1, <1>2, NodeIs, MemNode
<1>4. /\ e + 1 \in Ops(l) /\ (l[h].inst.c # "imm" => e + 2 \in Ops(l))
      /\ e + 1 = h + 3 /\ e + 2 = h + 4
  BY <1>3, AccessIs
<1>5. m[e].home = h /\ m[h] = l[h]
  BY <1>1, <1>2, <1>3, MoreNodes DEF SameStatic
<1>6. \A j \in Ops(l) : l[j].ak => m[j].ak /\ m[j].av = l[j].av
  BY <1>1, MoreNodes DEF NodeMore
<1>7. Summed(m, e)
  BY <1>2, <1>4, <1>5, <1>6 DEF Summed, AddressKnown
<1>8. m[e + 1].av = l[e + 1].av /\ (l[h].inst.c # "imm" => m[e + 2].av = l[e + 2].av)
  BY <1>2, <1>4, <1>6 DEF Summed, AddressKnown
<1>9. Offset(m, e, l[h].inst) = Offset(l, e, l[h].inst)
  BY <1>8 DEF Offset
<1> QED
  BY <1>2, <1>5, <1>7, <1>8, <1>9 DEF Sum

\* Filling in values and computing addresses keeps them so.
LEMMA AddressesStay ==
  ASSUME NEW l, ListInv(l), Addresses(l), NEW m, More(l, m),
         \A e \in Ops(l) : l[e].sort = "mem" =>
            m[e].addr = l[e].addr \/ (Summed(l, e) /\ m[e].addr = Sum(l, e))
  PROVE  Addresses(m)
<1>1. Nodes(l)
  BY DEF ListInv
<1>2. Ops(m) = Ops(l) /\ \A e \in Ops(l) : SameStatic(l[e], m[e]) /\ NodeMore(l[e], m[e])
  BY <1>1, MoreNodes
<1>3. ASSUME NEW e \in Ops(m), m[e].sort = "mem", m[e].addr # 0, ~m[e].ak
      PROVE  Summed(m, e) /\ m[e].addr = Sum(m, e)
  <2>1. e \in Ops(l) /\ l[e].sort = "mem" /\ ~l[e].ak
    BY <1>2, <1>3 DEF SameStatic, NodeMore
  <2>2. Summed(l, e) /\ m[e].addr = Sum(l, e)
    BY <1>3, <2>1 DEF Addresses
  <2> QED
    BY <2>1, <2>2, SumStays
<1> QED
  BY <1>3 DEF Addresses

\* traverse_inst_operand queues the memory operand only when it learnt something of it,
\* and an address it computes again is the one it had.
LEMMA TraverseHands ==
  ASSUME Env, NEW S, Inv(S), Addresses(S.list), NEW h \in Insts(S.list), NEW g \in Val,
         NEW T, T = traverse_inst_operand(S, h, g)
  PROVE  /\ Inv(T) /\ Hands(S, T, h + 2) /\ Addresses(T.list) /\ T.instl = S.instl /\ Settled(T, h)
         /\ Apart(S.list, T.list, h + 2)
<1> DEFINE l == S.list
           m == T.list
<1>1. Inv(T) /\ Stepped(S, T) /\ T.instl = S.instl /\ Settled(T, h) /\ Traversed(S, T, h)
  BY TraverseIs
<1>2. ListInv(l) /\ Nodes(l) /\ S.usel \in Seq(Nat) /\ S.defl \in Seq(Nat)
  BY InvPlain DEF Plain
<1>3. More(l, m) /\ Apart(l, m, h + 2) /\ Found(l, m, h) /\ h \in Nat
  BY <1>1 DEF Stepped, Traversed, Insts
<1>4. ASSUME NEW e \in Ops(l), l[e].sort = "mem"
      PROVE  /\ m[e].addr = l[e].addr \/ (Summed(l, e) /\ m[e].addr = Sum(l, e))
             /\ l[e].addr # 0 => m[e].addr = l[e].addr
  <2>1. e \in 1..Len(l)
    BY DEF Ops
  <2>2. CASE e # h + 2
    BY <1>3, <2>1, <2>2 DEF Apart
  <2>3. CASE e = h + 2
    <3>1. l[e].home = h
      <4>1. e = l[e].home + 2 /\ l[e].home \in Nat
        BY <1>2, <1>4, MemNode, NodeIs
      <4> QED
        BY <1>3, <2>3, <4>1
    <3>2. CASE m = l
      BY <3>2
    <3>3. CASE m # l
      <4>1. AddressKnown(l, h + 2, l[h].inst) /\ m[h + 2].addr = Wrap(l[h + 3].av + Offset(l, h + 2, l[h].inst))
        BY <1>3, <3>3 DEF Found
      <4>2. h + 3 = e + 1
        BY <1>3, <2>3
      <4>3. Summed(l, e) /\ m[e].addr = Sum(l, e)
        BY <2>3, <3>1, <4>1, <4>2 DEF Summed, Sum
      <4>4. ASSUME l[e].addr # 0 PROVE m[e].addr = l[e].addr
        <5>1. ~l[e].ak
          BY <1>1, <2>3, <3>3, <4>4 DEF Traversed
        <5> QED
          BY <1>4, <4>3, <4>4, <5>1 DEF Addresses
      <4> QED
        BY <4>3, <4>4
    <3> QED
      BY <3>2, <3>3
  <2> QED
    BY <2>2, <2>3
<1>5. Addresses(m)
  BY <1>2, <1>3, <1>4, AddressesStay
<1>6. KeepsAddress(l, m)
  <2> SUFFICES ASSUME NEW j \in Ops(l), l[j].addr # 0 PROVE m[j].addr = l[j].addr
    BY DEF KeepsAddress
  <2>1. CASE l[j].sort = "mem"
    BY <1>4, <2>1
  <2>2. CASE l[j].sort # "mem"
    <3>1. j # h + 2 \/ m = l
      <4>1. CASE l[h].inst.op \in {"ldr", "str"}
        <5>1. l[h + 2].sort = "mem"
          BY <1>2, <4>1, AccessIs
        <5> QED
          BY <2>2, <5>1
      <4>2. CASE l[h].inst.op \notin {"ldr", "str"}
        BY <1>3, <4>2 DEF Found
      <4> QED
        BY <4>1, <4>2
    <3> QED
      BY <1>3, <3>1 DEF Apart, Ops
  <2> QED
    BY <2>1, <2>2
<1>7. ASSUME NEW j \in Ops(l), j # h + 2 PROVE m[j] = l[j]
  BY <1>3, <1>7 DEF Apart, Ops
<1>8. /\ Longer(S.usel, T.usel) /\ Longer(S.defl, T.defl)
      /\ (T.usel = S.usel /\ T.defl = S.defl) \/ Learnt(l, m)
  <2>1. CASE T.usel = S.usel /\ T.defl = S.defl
    BY <1>2, <2>1, LongerTwice
  <2>2. CASE ~(T.usel = S.usel /\ T.defl = S.defl)
    <3>1. /\ h + 2 \in Ops(l) /\ l[h + 2].sort = "mem" /\ m[h + 2].ak /\ m[h + 2].addr # 0
          /\ ~l[h + 2].ak \/ l[h + 2].addr = 0
          /\ \/ T.usel = add_to_list(S.usel, h + 2) /\ T.defl = S.defl
             \/ T.defl = add_to_list(S.defl, h + 2) /\ T.usel = S.usel
      BY <1>1, <2>2 DEF Traversed
    <3>2. Learnt(l, m)
      BY <3>1 DEF Learnt, NewAfter, NewAddress
    <3>3. h + 2 \in Nat
      BY <1>3
    <3>4. Longer(S.usel, T.usel) /\ Longer(S.defl, T.defl)
      BY <1>2, <3>1, <3>3, AddLonger, LongerTwice
    <3> QED
      BY <3>2, <3>4
  <2> QED
    BY <2>1, <2>2
<1>9. ASSUME NEW j \in Ops(l), l[j].sort # "mem" PROVE m[j] = l[j]
  <2>1. CASE m = l
    BY <2>1
  <2>2. CASE m # l
    <3>1. l[h].inst.op \in {"ldr", "str"}
      BY <1>3, <2>2 DEF Found
    <3>2. l[h + 2].sort = "mem"
      BY <1>2, <3>1, AccessIs
    <3> QED
      BY <1>7, <1>9, <3>2
  <2> QED
    BY <2>1, <2>2
<1> QED
  BY <1>1, <1>3, <1>5, <1>6, <1>7, <1>8, <1>9 DEF Hands, NewAfter, NewBefore

-----------------------------------------------------------------------------
(* The resolvers leave nothing to infer in their instruction. *)

\* InstructionClosed, of any list.
Closed(l, h) ==
  LET d == l[Definition(l, h)].ak
      known == {j \in Operands(l, h) : l[j].ak}
  IN IF l[h].inst.op \in Arithmetic
     THEN Cardinality(known) + (IF d THEN 1 ELSE 0) # 2
     ELSE d <=> known # {}

\* How many of two operands are known.
LEMMA KnownOfTwo ==
  ASSUME NEW l, NEW x \in Nat, NEW y \in Nat, x # y
  PROVE  Cardinality({j \in {x, y} : l[j].ak}) =
           IF l[x].ak /\ l[y].ak THEN 2 ELSE IF l[x].ak \/ l[y].ak THEN 1 ELSE 0
<1>1. PICK K : K = {j \in {x, y} : l[j].ak}
  OBVIOUS
<1>2. IsFiniteSet({}) /\ Cardinality({}) = 0 /\ \A z : IsFiniteSet({z}) /\ Cardinality({z}) = 1
  BY FS_EmptySet, FS_Singleton
<1>3. Cardinality({x} \cup {y}) = 2
  <2>1. IsFiniteSet({x}) /\ y \notin {x} /\ Cardinality({x}) = 1
    BY <1>2
  <2>2. Cardinality({x} \cup {y}) = Cardinality({x}) + 1
    BY <2>1, FS_AddElement
  <2> QED
    BY <2>1, <2>2
<1>4. CASE l[x].ak /\ l[y].ak
  <2>1. K = {x} \cup {y}
    BY <1>1, <1>4
  <2> QED
    BY <1>1, <1>3, <1>4, <2>1
<1>5. CASE l[x].ak /\ ~l[y].ak
  <2>1. K = {x}
    BY <1>1, <1>5
  <2> QED
    BY <1>1, <1>2, <1>5, <2>1
<1>6. CASE ~l[x].ak /\ l[y].ak
  <2>1. K = {y}
    BY <1>1, <1>6
  <2> QED
    BY <1>1, <1>2, <1>6, <2>1
<1>7. CASE ~l[x].ak /\ ~l[y].ak
  <2>1. K = {}
    BY <1>1, <1>7
  <2> QED
    BY <1>1, <1>2, <1>7, <2>1
<1> QED
  BY <1>4, <1>5, <1>6, <1>7

\* Of an arithmetic instruction not two of three values are known, of another one both or
\* neither.
LEMMA ClosedIs ==
  ASSUME NEW l, ListInv(l), NEW h \in Insts(l)
  PROVE  Closed(l, h) <=>
           IF l[h].inst.op \in Arithmetic
           THEN ~ \/ l[h + 1].ak /\ l[h + 2].ak /\ ~l[h + 3].ak
                  \/ l[h + 1].ak /\ ~l[h + 2].ak /\ l[h + 3].ak
                  \/ ~l[h + 1].ak /\ l[h + 2].ak /\ l[h + 3].ak
           ELSE (l[h + 1].ak /\ l[h + 2].ak) \/ (~l[h + 1].ak /\ ~l[h + 2].ak)
<1>1. h \in Nat
  BY DEF Insts
<1>2. /\ Definition(l, h) = IF l[h].inst.op = "str" THEN h + 2 ELSE h + 1
      /\ l[h].inst.op \in Arithmetic => Operands(l, h) = {h + 2, h + 3}
      /\ l[h].inst.op \in {"mov", "ldr"} => Operands(l, h) = {h + 2}
      /\ l[h].inst.op = "str" => Operands(l, h) = {h + 1}
      /\ l[h].inst.op \in {"mov", "ldr", "str"} \cup Arithmetic
  BY PartsAre
<1>3. CASE l[h].inst.op \in Arithmetic
  <2>1. Definition(l, h) = h + 1 /\ Operands(l, h) = {h + 2, h + 3}
    BY <1>2, <1>3 DEF Arithmetic
  <2>2. Cardinality({j \in {h + 2, h + 3} : l[j].ak}) =
          IF l[h + 2].ak /\ l[h + 3].ak THEN 2 ELSE IF l[h + 2].ak \/ l[h + 3].ak THEN 1 ELSE 0
    BY <1>1, KnownOfTwo
  <2>3. PICK c : c = Cardinality({j \in {h + 2, h + 3} : l[j].ak})
    OBVIOUS
  <2>4. Closed(l, h) <=> c + (IF l[h + 1].ak THEN 1 ELSE 0) # 2
    BY <1>3, <2>1, <2>3 DEF Closed
  <2> QED
    BY <1>3, <2>2, <2>3, <2>4
<1>4. CASE l[h].inst.op \notin Arithmetic
  <2>1. PICK d, u : /\ Definition(l, h) = d /\ Operands(l, h) = {u}
                    /\ (d = h + 1 /\ u = h + 2) \/ (d = h + 2 /\ u = h + 1)
    BY <1>2, <1>4
  <2>2. Closed(l, h) <=> (l[d].ak <=> {j \in {u} : l[j].ak} # {})
    BY <1>4, <2>1 DEF Closed
  <2>3. {j \in {u} : l[j].ak} # {} <=> l[u].ak
    OBVIOUS
  <2> QED
    BY <1>4, <2>1, <2>2, <2>3
<1> QED
  BY <1>3, <1>4

\* Copying leaves both values known, or neither.
LEMMA CopyHands ==
  ASSUME NEW S, Plain(S), NEW u \in Ops(S.list), NEW d \in Ops(S.list), NEW T, T = Copy(S, u, d)
  PROVE  /\ Passes(S, T)
         /\ (T.list[u].ak /\ T.list[d].ak) \/ (~T.list[u].ak /\ ~T.list[d].ak)
<1>1. S.list[u].av \in Val /\ S.list[d].av \in Val /\ Nodes(S.list)
  BY NodeIs DEF Plain, OpNode
<1>2. CASE S.list[u].ak
  <2>1. T = After(S, d, S.list[u].av)
    BY <1>2 DEF Copy
  <2>2. One(S, T, d) /\ T.list[d].ak
    BY <1>1, <2>1, AfterHands
  <2>3. Passes(S, T) /\ More(S.list, T.list)
    BY <2>2 DEF One, Passes, Hands
  <2> QED
    BY <1>1, <1>2, <2>2, <2>3, KnownStays
<1>3. CASE ~S.list[u].ak /\ S.list[d].ak
  <2>1. T = After(S, u, S.list[d].av)
    BY <1>3 DEF Copy
  <2>2. One(S, T, u) /\ T.list[u].ak
    BY <1>1, <2>1, AfterHands
  <2>3. Passes(S, T) /\ More(S.list, T.list)
    BY <2>2 DEF One, Passes, Hands
  <2> QED
    BY <1>1, <1>3, <2>2, <2>3, KnownStays
<1>4. CASE ~S.list[u].ak /\ ~S.list[d].ak
  <2>1. T = S
    BY <1>4 DEF Copy
  <2> QED
    BY <1>4, <2>1, HandsSelf DEF Passes, SameAddress
<1> QED
  BY <1>2, <1>3, <1>4

\* Solving does not leave two of three values known.
LEMMA SolveHands ==
  ASSUME NEW S, Plain(S), NEW op \in Arithmetic, NEW x \in Ops(S.list), NEW y \in Ops(S.list),
         NEW d \in Ops(S.list), NEW T, T = Solve(S, op, x, y, d)
  PROVE  /\ Passes(S, T)
         /\ ~ \/ T.list[d].ak /\ T.list[x].ak /\ ~T.list[y].ak
              \/ T.list[d].ak /\ ~T.list[x].ak /\ T.list[y].ak
              \/ ~T.list[d].ak /\ T.list[x].ak /\ T.list[y].ak
<1> DEFINE l == S.list
<1>1. l[x].av \in Val /\ l[y].av \in Val /\ l[d].av \in Val /\ Nodes(l)
  BY NodeIs DEF Plain, OpNode
<1>2. /\ SecondFrom(op, l[d].av, l[x].av) \in Val /\ FirstFrom(op, l[d].av, l[y].av) \in Val
      /\ Computed(op, l[x].av, l[y].av) \in Val
  BY <1>1, InferredIs
<1>3. ASSUME NEW e \in Ops(l), One(S, T, e)
      PROVE  Passes(S, T) /\ \A j \in Ops(l) : l[j].ak => T.list[j].ak
  <2>1. Passes(S, T) /\ More(l, T.list)
    BY <1>3 DEF One, Passes, Hands
  <2> QED
    BY <1>1, <2>1, KnownStays
<1>4. CASE l[d].ak /\ l[x].ak /\ ~l[y].ak
  <2>1. T = After(S, y, SecondFrom(op, l[d].av, l[x].av))
    BY <1>4 DEF Solve
  <2>2. One(S, T, y) /\ T.list[y].ak
    BY <1>2, <2>1, AfterHands
  <2> QED
    BY <1>3, <1>4, <2>2
<1>5. CASE l[d].ak /\ ~l[x].ak /\ l[y].ak
  <2>1. T = After(S, x, FirstFrom(op, l[d].av, l[y].av))
    BY <1>5 DEF Solve
  <2>2. One(S, T, x) /\ T.list[x].ak
    BY <1>2, <2>1, AfterHands
  <2> QED
    BY <1>3, <1>5, <2>2
<1>6. CASE ~l[d].ak /\ l[x].ak /\ l[y].ak
  <2>1. T = After(S, d, Computed(op, l[x].av, l[y].av))
    BY <1>6 DEF Solve
  <2>2. One(S, T, d) /\ T.list[d].ak
    BY <1>2, <2>1, AfterHands
  <2> QED
    BY <1>3, <1>6, <2>2
<1>7. CASE ~ \/ l[d].ak /\ l[x].ak /\ ~l[y].ak
             \/ l[d].ak /\ ~l[x].ak /\ l[y].ak
             \/ ~l[d].ak /\ l[x].ak /\ l[y].ak
  <2>1. T = S
    BY <1>7 DEF Solve
  <2> QED
    BY <1>7, <2>1, HandsSelf DEF Passes, SameAddress
<1> QED
  BY <1>4, <1>5, <1>6, <1>7

\* An instruction that was not executed: the definition has one value.
LEMMA NotExecutedHands ==
  ASSUME NEW S, Plain(S), NEW d \in Ops(S.list), S.list[d].kind = "def", ~Done(S.list, d),
         NEW T, T = NotExecuted(S, d), More(S.list, T.list)
  PROVE  /\ T.instl = S.instl /\ T.list[d].bk /\ \A y : Hands(S, T, y)
<1>1. S.list[d] \in OpNode /\ Structure(S) /\ Nodes(S.list) /\ S.list[d].av \in Val
  BY NodeIs DEF Plain, OpNode
<1>2. PICK x : x = KnowBefore(S.list[d], S.list[d].av)
  OBVIOUS
<1>3. x \in OpNode /\ x.bk /\ x.ak = S.list[d].ak /\ x.addr = S.list[d].addr
  BY <1>1, <1>2, KnowBeforeIs
<1>4. PICK m : m = [S.list EXCEPT ![d] = x]
  OBVIOUS
<1>5. m[d] = x /\ \A j \in 1..Len(S.list) : j # d => m[j] = S.list[j]
  <2>1. S.list \in Seq(OpNode \cup InstRec) /\ d \in 1..Len(S.list) /\ x \in OpNode \cup InstRec
    BY <1>1, <1>3, NodeIs DEF Nodes
  <2> QED
    BY <1>4, <2>1, PutIs
<1>6. T.list = m /\ T.usel = S.usel /\ T.defl = S.defl /\ T.instl = S.instl
  <2>1. T = [S EXCEPT !.list = m]
    BY <1>1, <1>2, <1>4 DEF NotExecuted, Structure
  <2>2. T = State(m, S.usel, S.defl, S.instl, S.umem, S.bad)
    BY <1>1, <2>1, SetIs
  <2> QED
    BY <2>2, StateIs
<1>7. Longer(S.usel, T.usel) /\ Longer(S.defl, T.defl)
  BY <1>6, LongerTwice DEF Plain
<1>8. KeepsAddress(S.list, T.list)
  BY <1>3, <1>5, <1>6 DEF KeepsAddress, Ops
<1>9. ASSUME NEW j \in Ops(S.list)
      PROVE  ~NewAfter(S.list, T.list, j) /\ (NewBefore(S.list, T.list, j) => ~Done(S.list, j))
  <2>1. CASE j = d
    BY <1>3, <1>5, <1>6, <2>1 DEF NewAfter
  <2>2. CASE j # d
    BY <1>5, <1>6, <2>2 DEF NewAfter, NewBefore, Ops
  <2> QED
    BY <2>1, <2>2
<1> QED
  BY <1>3, <1>5, <1>6, <1>7, <1>8, <1>9 DEF Hands

\* The resolver of an instruction leaves nothing to infer in it; at the crash site it tells
\* the value before the loaded register.
LEMMA ResolverHands ==
  ASSUME Env, NEW S, Inv(S), NEW h \in Insts(S.list), Settled(S, h), NEW T, T = inst_resolver(S, h)
  PROVE  /\ Inv(T) /\ Grew(S, T) /\ \A y : Hands(S, T, y)
         /\ S.list[h].index # 0 => Closed(T.list, h)
         /\ S.list[h].index = 0 /\ S.list[h].inst.op = "ldr" => T.list[h + 1].bk
<1> DEFINE l == S.list
           i == l[h].inst
<1>1. ListInv(l) /\ Nodes(l) /\ h \in Nat /\ Plain(S)
  BY InstIs, InvPlain DEF Inv, ListInv
<1>2. Inv(T) /\ Grew(S, T)
  BY ResolverIs
<1>3. ListInv(T.list) /\ h \in Insts(T.list) /\ T.list[h] = l[h] /\ More(l, T.list)
  BY <1>1, <1>2, MoreNodes DEF Inv, Grew
<1>4. /\ Definition(l, h) = IF i.op = "str" THEN h + 2 ELSE h + 1
      /\ i.op \in Arithmetic => Operands(l, h) = {h + 2, h + 3}
      /\ i.op \in {"mov", "ldr"} => Operands(l, h) = {h + 2}
      /\ i.op = "str" => Operands(l, h) = {h + 1}
      /\ i.op \in {"mov", "ldr", "str"} \cup Arithmetic
  BY <1>1, PartsAre
<1>5. /\ Min({h + 2, h + 3}) = h + 2 /\ Max({h + 2, h + 3}) = h + 3
      /\ Min({h + 2}) = h + 2 /\ Min({h + 1}) = h + 1
  BY <1>1, MinMaxTwo, MinOne
<1>6. ASSUME i.op \notin Arithmetic, \/ T.list[h + 1].ak /\ T.list[h + 2].ak
                                     \/ ~T.list[h + 1].ak /\ ~T.list[h + 2].ak
      PROVE  Closed(T.list, h)
  BY <1>3, <1>6, ClosedIs
<1>7. CASE i.op \in Arithmetic
  <2>1. T = Solve(S, i.op, h + 2, h + 3, h + 1)
    BY <1>4, <1>5, <1>7 DEF inst_resolver, Arithmetic
  <2>2. h + 1 \in Ops(l) /\ h + 2 \in Ops(l) /\ h + 3 \in Ops(l) /\ i.op \notin {"ldr", "str"}
    BY <1>1, <1>7, OtherIs DEF Arithmetic
  <2>3. /\ Passes(S, T)
        /\ ~ \/ T.list[h + 1].ak /\ T.list[h + 2].ak /\ ~T.list[h + 3].ak
             \/ T.list[h + 1].ak /\ ~T.list[h + 2].ak /\ T.list[h + 3].ak
             \/ ~T.list[h + 1].ak /\ T.list[h + 2].ak /\ T.list[h + 3].ak
    BY <1>1, <1>7, <2>1, <2>2, SolveHands
  <2>4. Closed(T.list, h)
    BY <1>3, <1>7, <2>3, ClosedIs
  <2> QED
    BY <1>2, <2>2, <2>3, <2>4 DEF Passes
<1>8. CASE i.op = "mov"
  <2>1. T = Copy(S, h + 2, h + 1)
    BY <1>4, <1>5, <1>8 DEF inst_resolver, Arithmetic
  <2>2. h + 1 \in Ops(l) /\ h + 2 \in Ops(l)
    BY <1>1, <1>8, OtherIs
  <2>3. /\ Passes(S, T)
        /\ \/ T.list[h + 2].ak /\ T.list[h + 1].ak
           \/ ~T.list[h + 2].ak /\ ~T.list[h + 1].ak
    BY <1>1, <2>1, <2>2, CopyHands
  <2>4. Closed(T.list, h)
    BY <1>6, <1>8, <2>3 DEF Arithmetic
  <2> QED
    BY <1>2, <1>8, <2>3, <2>4 DEF Passes
<1>9. CASE i.op \in {"ldr", "str"} /\ l[h].index # 0
  <2>1. T = IF i.op = "ldr" THEN Copy(S, h + 2, h + 1) ELSE Copy(S, h + 1, h + 2)
    BY <1>4, <1>5, <1>9 DEF inst_resolver, Arithmetic
  <2>2. h + 1 \in Ops(l) /\ h + 2 \in Ops(l)
    BY <1>1, <1>9, AccessIs
  <2>3. /\ Passes(S, T)
        /\ \/ T.list[h + 2].ak /\ T.list[h + 1].ak
           \/ ~T.list[h + 2].ak /\ ~T.list[h + 1].ak
    <3>1. CASE i.op = "ldr"
      BY <1>1, <2>1, <2>2, <3>1, CopyHands
    <3>2. CASE i.op # "ldr"
      BY <1>1, <2>1, <2>2, <3>2, CopyHands
    <3> QED
      BY <3>1, <3>2
  <2>4. Closed(T.list, h)
    BY <1>6, <1>9, <2>3 DEF Arithmetic
  <2> QED
    BY <1>2, <1>9, <2>3, <2>4 DEF Passes
<1>10. CASE i.op \in {"ldr", "str"} /\ l[h].index = 0
  <2>1. PICK d : d = IF i.op = "str" THEN h + 2 ELSE h + 1
    OBVIOUS
  <2>2. T = NotExecuted(S, d)
    BY <1>4, <1>10, <2>1 DEF inst_resolver, Arithmetic
  <2>3. /\ d \in Ops(l) /\ l[d].home = h
        /\ i.op = "ldr" => LoadAt(l, h)
        /\ i.op = "str" => StoreAt(l, h)
    BY <1>1, <1>10, <2>1, AccessIs
  <2>4. l[d].kind = "def" /\ ~Done(l, d)
    BY <1>10, <2>1, <2>3 DEF LoadAt, StoreAt, RegNode, Done
  <2>5. T.list[d].bk /\ \A y : Hands(S, T, y)
    BY <1>1, <1>3, <2>2, <2>3, <2>4, NotExecutedHands
  <2> QED
    BY <1>2, <1>10, <2>1, <2>5
<1> QED
  BY <1>4, <1>7, <1>8, <1>9, <1>10

\* resolve_inst hands on what it learns, but for its memory operand, which is not queued
\* while its address is unknown, and leaves nothing to infer.
LEMMA InstHands ==
  ASSUME Env, NEW S, Inv(S), Addresses(S.list), NEW h \in Insts(S.list), NEW g \in Val,
         NEW T, T = resolve_inst(S, h, g)
  PROVE  /\ Inv(T) /\ Hands(S, T, h + 2) /\ Addresses(T.list) /\ T.instl = S.instl
         /\ S.list[h].index # 0 => Closed(T.list, h)
         /\ S.list[h].index = 0 /\ S.list[h].inst.op = "ldr" => T.list[h + 1].bk
<1>1. PICK U : U = traverse_inst_operand(S, h, g)
  OBVIOUS
<1>2. /\ Inv(U) /\ Hands(S, U, h + 2) /\ Addresses(U.list) /\ U.instl = S.instl /\ Settled(U, h)
  BY <1>1, TraverseHands
<1>3. T = inst_resolver(U, h)
  BY <1>1 DEF resolve_inst
<1>4. h \in Insts(U.list) /\ U.list[h] = S.list[h]
  BY <1>2, InvPlain, MoreNodes DEF Hands
<1>5. /\ Inv(T) /\ Grew(U, T) /\ Hands(U, T, h + 2)
      /\ S.list[h].index # 0 => Closed(T.list, h)
      /\ S.list[h].index = 0 /\ S.list[h].inst.op = "ldr" => T.list[h + 1].bk
  BY <1>2, <1>3, <1>4, ResolverHands
<1>6. Hands(S, T, h + 2)
  BY <1>2, <1>5, InvPlain, HandsTwice
<1>7. Addresses(T.list)
  BY <1>2, <1>5, InvPlain, AddressesStay DEF Grew
<1> QED
  BY <1>2, <1>5, <1>6, <1>7 DEF Grew

-----------------------------------------------------------------------------
(* The invariant. *)

\* Where neighbouring operands of a register disagree the one that knows more waits to
\* tell the other.
Live(S) ==
  \A i, j \in Ops(S.list) : Neighbours(S.list, i, j) /\ Done(S.list, i) =>
     /\ S.list[j].ak /\ ~KnownBefore(S.list[i]) => Waits(S, j)
     /\ KnownBefore(S.list[i]) /\ ~S.list[j].ak => Waits(S, i)

\* An instruction with something left to infer waits, or an operand of it does.
Owed(S) ==
  \A h \in Insts(S.list) : S.list[h].index # 0 =>
     Closed(S.list, h) \/ Listed(S.instl, h) \/ \E j \in Elements(S.list, h) : Waits(S, j)

\* A register that no executed instruction defines later has the core dump's value.
Rooted(l) ==
  \A j \in Ops(l) :
     /\ l[j].sort = "reg" /\ Done(l, j)
     /\ \A k \in Ops(l) : k < j /\ l[k].kind = "def" /\ SameTarget(l[k], l[j]) => ~Done(l, k)
     => l[j].ak

\* The value of the register that the crashing load did not change is known once the
\* resolver has seen the load.
CrashKnown(S) ==
  S.list # <<>> /\ S.list[1].inst.op = "ldr" => S.list[2].bk \/ Listed(S.instl, 1)

\* What makes the engine end with nothing left to infer.
Prog(S) == Live(S) /\ Owed(S) /\ Rooted(S.list) /\ CrashKnown(S) /\ Addresses(S.list)

\* A step that hands on what it learns, and settles the neighbours of the operand e that
\* it takes off its worklist, keeps the neighbours in agreement.
LEMMA LiveOn ==
  ASSUME NEW S, Plain(S), Live(S), NEW T, NEW x, Hands(S, T, x), NEW V, V.list = T.list, NEW e,
         \A k : Waits(T, k) /\ k # e => Waits(V, k), S.usel \in Seq(Nat), S.defl \in Seq(Nat),
         T.usel \in Seq(Nat), T.defl \in Seq(Nat),
         \A i \in Ops(S.list) : e \in Ops(S.list) /\ Neighbours(S.list, i, e) /\ S.list[e].ak
                                  => KnownBefore(T.list[i]),
         \A j \in Ops(S.list) : e \in Ops(S.list) /\ Neighbours(S.list, e, j) /\ KnownBefore(S.list[e])
                                  => T.list[j].ak,
         e \in Ops(S.list) => T.list[e] = S.list[e]
  PROVE  Live(V)
<1>1. More(S.list, T.list) /\ Nodes(S.list)
  BY DEF Hands, Plain
<1>2. /\ Ops(T.list) = Ops(S.list)
      /\ \A j \in Ops(S.list) : /\ SameStatic(S.list[j], T.list[j]) /\ NodeMore(S.list[j], T.list[j])
                                /\ Done(T.list, j) <=> Done(S.list, j)
  BY <1>1, MoreNodes
<1>3. \A k : Waits(S, k) => Waits(T, k)
  BY LongerIs DEF Hands, Waits
<1> SUFFICES ASSUME NEW i \in Ops(S.list), NEW j \in Ops(S.list), Neighbours(S.list, i, j),
                    Done(S.list, i)
             PROVE  /\ T.list[j].ak /\ ~KnownBefore(T.list[i]) => Waits(V, j)
                    /\ KnownBefore(T.list[i]) /\ ~T.list[j].ak => Waits(V, i)
  BY <1>1, <1>2, KnownStays DEF Live
<1>4. S.list[i].sort = "reg" /\ S.list[j].sort = "reg"
  BY DEF Neighbours, SameTarget
<1>5. /\ KnownBefore(S.list[i]) => KnownBefore(T.list[i])
      /\ S.list[j].ak => T.list[j].ak
  BY <1>1, KnownStays
<1>6. ASSUME T.list[j].ak, ~KnownBefore(T.list[i]) PROVE Waits(V, j)
  <2>1. j # e
    BY <1>6
  <2>2. CASE S.list[j].ak
    <3>1. Waits(S, j)
      BY <1>5, <1>6, <2>2 DEF Live
    <3> QED
      BY <3>1, <1>3, <2>1
  <2>3. CASE ~S.list[j].ak
    <3>1. NewAfter(S.list, T.list, j)
      BY <1>6, <2>3 DEF NewAfter
    <3>2. Waits(T, j)
      BY <3>1, <1>4 DEF Hands
    <3> QED
      BY <3>2, <2>1
  <2> QED
    BY <2>2, <2>3
<1>7. ASSUME KnownBefore(T.list[i]), ~T.list[j].ak PROVE Waits(V, i)
  <2>1. i # e
    BY <1>7
  <2>2. CASE KnownBefore(S.list[i])
    <3>1. Waits(S, i)
      BY <1>5, <1>7, <2>2 DEF Live
    <3> QED
      BY <3>1, <1>3, <2>1
  <2>3. CASE ~KnownBefore(S.list[i])
    <3>1. NewAfter(S.list, T.list, i) \/ NewBefore(S.list, T.list, i)
      BY <1>2, <1>7, <2>3 DEF NewAfter, NewBefore, KnownBefore, SameStatic
    <3>2. Waits(T, i)
      BY <3>1, <1>4 DEF Hands
    <3> QED
      BY <3>2, <2>1
  <2> QED
    BY <2>2, <2>3
<1> QED
  BY <1>6, <1>7

\* The three nodes of an instruction that its resolver looks at.
LEMMA ThreeParts ==
  ASSUME NEW l, ListInv(l), NEW h \in Insts(l)
  PROVE  /\ h + 1 \in Elements(l, h) /\ h + 2 \in Elements(l, h)
         /\ l[h].inst.op \in Arithmetic => h + 3 \in Elements(l, h)
         /\ Elements(l, h) \subseteq Ops(l) /\ h \in Nat \ {0}
<1>1. Nodes(l) /\ Shaped(l)
  BY DEF ListInv
<1>2. l[h].inst.op \in {"mov", "ldr", "str"} \cup Arithmetic
  BY PartsAre
<1>3. /\ h \in Nat \ {0} /\ Len(l) \in Nat
      /\ \A k \in 1..Size(l[h].inst) : h + k \in Ops(l) /\ l[h + k].home = h
  BY <1>1, BlockIs, InstIs
<1>4. Size(l[h].inst) \in {2, 3, 4} /\ (l[h].inst.op \in Arithmetic => Size(l[h].inst) = 3)
  BY <1>2 DEF Size, Arithmetic
<1>5. 1 \in 1..Size(l[h].inst) /\ 2 \in 1..Size(l[h].inst)
  BY <1>4
<1>6. l[h].inst.op \in Arithmetic => 3 \in 1..Size(l[h].inst)
  BY <1>4
<1>7. /\ h + 1 \in Ops(l) /\ l[h + 1].home = h /\ h + 2 \in Ops(l) /\ l[h + 2].home = h
      /\ l[h].inst.op \in Arithmetic => h + 3 \in Ops(l) /\ l[h + 3].home = h
  BY <1>3, <1>5, <1>6
<1>8. ASSUME NEW j \in Elements(l, h) PROVE j \in Ops(l)
  <2>1. j \in 1..Len(l) /\ l[j].home = h
    BY <1>3 DEF Elements
  <2>2. ASSUME l[j].kind = "inst" PROVE FALSE
    <3>1. l[j] \in InstRec
      BY <1>1, <2>1, <2>2, InstIs DEF Insts
    <3>2. l[j].home = 0
      BY <3>1 DEF InstRec
    <3> QED
      BY <3>2, <2>1, <1>3
  <2> QED
    BY <2>1, <2>2 DEF Ops
<1>9. ASSUME NEW k \in {1, 2, 3}, h + k \in Ops(l), l[h + k].home = h PROVE h + k \in Elements(l, h)
  BY <1>3, <1>9 DEF Elements, Ops
<1> QED
  BY <1>3, <1>7, <1>8, <1>9

\* An instruction none of whose operands became known is as closed as it was.
LEMMA ClosedSame ==
  ASSUME NEW l, ListInv(l), NEW m, ListInv(m), More(l, m), NEW h \in Insts(l),
         \A j \in Elements(l, h) : m[j].ak <=> l[j].ak
  PROVE  Closed(m, h) <=> Closed(l, h)
<1>1. Nodes(l)
  BY DEF ListInv
<1>2. h \in Insts(m) /\ m[h] = l[h]
  BY <1>1, MoreNodes
<1>3. /\ m[h + 1].ak <=> l[h + 1].ak
      /\ m[h + 2].ak <=> l[h + 2].ak
      /\ l[h].inst.op \in Arithmetic => (m[h + 3].ak <=> l[h + 3].ak)
  BY ThreeParts
<1> QED
  BY <1>2, <1>3, ClosedIs

\* An instruction that check_inst_resolution skips has nothing left to infer.
LEMMA ClosedResolved ==
  ASSUME NEW l, ListInv(l), NEW h \in Insts(l), check_inst_resolution(l, h)
  PROVE  Closed(l, h)
<1>1. /\ l[h + 1].ak /\ l[h + 2].ak
      /\ l[h].inst.op \in Arithmetic => l[h + 3].ak
  BY ThreeParts DEF check_inst_resolution
<1> QED
  BY <1>1, ClosedIs

\* The operands of an instruction stay its operands.
LEMMA SameElements ==
  ASSUME NEW l, ListInv(l), NEW m, More(l, m), NEW h \in Insts(l)
  PROVE  Elements(l, h) \subseteq Elements(m, h)
<1>1. Nodes(l)
  BY DEF ListInv
<1>2. Len(m) = Len(l) /\ \A j \in Ops(l) : m[j].home = l[j].home
  BY <1>1, MoreNodes DEF More, SameStatic
<1> QED
  BY <1>2, ThreeParts DEF Elements

\* V is T without operand e and instruction g, which are accounted for; x may be a memory
\* operand of g that was not queued.
Accounted(S, T, V, e, g, x) ==
  /\ V.list = T.list
  /\ \A k : Waits(T, k) /\ k # e => Waits(V, k)
  /\ \A k : Listed(S.instl, k) /\ k # g => Listed(V.instl, k)
  /\ \A h \in Insts(S.list) : h = g /\ S.list[h].index # 0 => Closed(T.list, h)
  /\ e \in Ops(S.list) =>
        /\ T.list[e] = S.list[e]
        /\ Listed(V.instl, S.list[e].home) \/ check_inst_resolution(S.list, S.list[e].home)
  /\ \A j \in Ops(S.list) : j = x /\ S.list[j].sort = "mem" => S.list[j].home = g

\* A step that hands on what it learns owes nothing.
LEMMA OwedOn ==
  ASSUME NEW S, Inv(S), Owed(S), NEW T, NEW x, Hands(S, T, x), ListInv(T.list),
         T.usel \in Seq(Nat), T.defl \in Seq(Nat), NEW V, NEW e, NEW g, Accounted(S, T, V, e, g, x)
  PROVE  Owed(V)
<1>0. /\ V.list = T.list
      /\ \A k : Waits(T, k) /\ k # e => Waits(V, k)
      /\ \A k : Listed(S.instl, k) /\ k # g => Listed(V.instl, k)
      /\ \A h \in Insts(S.list) : h = g /\ S.list[h].index # 0 => Closed(T.list, h)
      /\ e \in Ops(S.list) =>
            /\ T.list[e] = S.list[e]
            /\ Listed(V.instl, S.list[e].home) \/ check_inst_resolution(S.list, S.list[e].home)
      /\ \A j \in Ops(S.list) : j = x /\ S.list[j].sort = "mem" => S.list[j].home = g
  BY DEF Accounted
<1>1. Plain(S) /\ ListInv(S.list) /\ Nodes(S.list) /\ S.usel \in Seq(Nat) /\ S.defl \in Seq(Nat)
  BY InvPlain DEF Plain
<1>2. /\ Insts(T.list) = Insts(S.list) /\ More(S.list, T.list)
      /\ \A h \in Insts(S.list) : T.list[h] = S.list[h]
  BY <1>1, MoreNodes DEF Hands
<1>3. \A k : Waits(S, k) => Waits(T, k)
  BY <1>1, LongerIs DEF Hands, Waits
<1> SUFFICES ASSUME NEW h \in Insts(S.list), S.list[h].index # 0
             PROVE  \/ Closed(T.list, h) \/ Listed(V.instl, h)
                    \/ \E j \in Elements(T.list, h) : Waits(V, j)
  BY <1>0, <1>2 DEF Owed
<1>4. Elements(S.list, h) \subseteq Elements(T.list, h) /\ Elements(S.list, h) \subseteq Ops(S.list)
  BY <1>1, <1>2, SameElements, ThreeParts
<1>5. \A j \in Elements(S.list, h) : S.list[j].home = h
  BY DEF Elements
<1>6. CASE h = g
  BY <1>0, <1>6
<1>7. CASE h # g /\ \E j \in Elements(S.list, h) : NewAfter(S.list, T.list, j)
  <2>1. PICK j \in Elements(S.list, h) : NewAfter(S.list, T.list, j)
    BY <1>7
  <2>2. j \in Ops(S.list) /\ (j = x => S.list[j].sort # "mem")
    BY <1>0, <1>4, <1>5, <1>7
  <2>3. Waits(T, j)
    BY <2>1, <2>2 DEF Hands
  <2>4. j # e
    BY <1>0, <2>1, <2>2 DEF NewAfter
  <2> QED
    BY <1>0, <2>3, <2>4, <1>4
<1>8. CASE h # g /\ ~\E j \in Elements(S.list, h) : NewAfter(S.list, T.list, j)
  <2>1. \A j \in Elements(S.list, h) : S.list[j].ak => T.list[j].ak
    BY <1>1, <1>2, <1>4, KnownStays
  <2>2. \A j \in Elements(S.list, h) : T.list[j].ak <=> S.list[j].ak
    <3> TAKE j \in Elements(S.list, h)
    <3>1. T.list[j] \in OpNode /\ S.list[j] \in OpNode
      BY <1>1, <1>2, <1>4, MoreNodes, NodeIs
    <3>2. T.list[j].ak \in BOOLEAN /\ S.list[j].ak \in BOOLEAN
      BY <3>1 DEF OpNode
    <3> QED
      BY <3>2, <2>1, <1>8 DEF NewAfter
  <2>3. Closed(T.list, h) <=> Closed(S.list, h)
    BY <1>1, <1>2, <2>2, ClosedSame
  <2>4. CASE Closed(S.list, h)
    BY <2>3, <2>4
  <2>5. CASE Listed(S.instl, h)
    BY <1>0, <2>5, <1>8
  <2>6. CASE \E j \in Elements(S.list, h) : Waits(S, j)
    <3>1. PICK j \in Elements(S.list, h) : Waits(S, j)
      BY <2>6
    <3>2. CASE j # e
      BY <1>0, <3>1, <3>2, <1>3, <1>4
    <3>3. CASE j = e
      <4>1. j \in Ops(S.list) /\ S.list[j].home = h
        BY <1>4, <1>5
      <4>2. Listed(V.instl, h) \/ check_inst_resolution(S.list, h)
        BY <1>0, <3>3, <4>1
      <4> QED
        BY <4>2, <2>3, <1>1, ClosedResolved
    <3> QED
      BY <3>2, <3>3
  <2> QED
    BY <2>4, <2>5, <2>6 DEF Owed
<1> QED
  BY <1>6, <1>7, <1>8

\* Registers known from the core dump stay known.
LEMMA RootedStays ==
  ASSUME NEW l, Nodes(l), Rooted(l), NEW m, More(l, m)
  PROVE  Rooted(m)
<1>1. /\ Ops(m) = Ops(l)
      /\ \A j \in Ops(l) : /\ SameStatic(l[j], m[j]) /\ NodeMore(l[j], m[j])
                           /\ Done(m, j) <=> Done(l, j)
  BY MoreNodes
<1> SUFFICES ASSUME NEW j \in Ops(l), m[j].sort = "reg", Done(m, j),
                    \A k \in Ops(l) : k < j /\ m[k].kind = "def" /\ SameTarget(m[k], m[j]) => ~Done(m, k)
             PROVE  m[j].ak
  BY <1>1 DEF Rooted
<1>2. l[j].sort = "reg" /\ Done(l, j)
  BY <1>1 DEF SameStatic
<1>3. ASSUME NEW k \in Ops(l), k < j, l[k].kind = "def", SameTarget(l[k], l[j]) PROVE ~Done(l, k)
  <2>1. m[k].kind = "def" /\ SameTarget(m[k], m[j])
    BY <1>1, <1>2, <1>3 DEF SameTarget, SameStatic
  <2> QED
    BY <2>1, <1>1, <1>3
<1>4. l[j].ak
  BY <1>2, <1>3 DEF Rooted
<1> QED
  BY <1>1, <1>4 DEF NodeMore

\* The crash site's load is still listed, or its register is known.
LEMMA CrashKnownOn ==
  ASSUME NEW S, Inv(S), CrashKnown(S), NEW V, More(S.list, V.list), NEW g,
         \A k : Listed(S.instl, k) /\ k # g => Listed(V.instl, k),
         \A h \in Insts(S.list) : h = g /\ S.list[h].index = 0 /\ S.list[h].inst.op = "ldr"
                                    => V.list[h + 1].bk
  PROVE  CrashKnown(V)
<1> DEFINE l == S.list
<1>1. Nodes(l) /\ Shaped(l) /\ ListInv(l)
  BY InvPlain
<1> SUFFICES ASSUME V.list # <<>>, V.list[1].inst.op = "ldr"
             PROVE  V.list[2].bk \/ Listed(V.instl, 1)
  BY DEF CrashKnown
<1>2. l # <<>>
  BY <1>1 DEF More, Nodes
<1>3. 1 \in Insts(l)
  BY <1>1, <1>2 DEF Shaped, Insts, Nodes
<1>4. l[1].index = 0 /\ V.list[1] = l[1]
  BY <1>1, <1>3, MoreNodes DEF Shaped
<1>5. CASE l[2].bk
  <2>1. 2 \in Ops(l)
    <3>1. 1 + 1 \in Elements(l, 1) /\ Elements(l, 1) \subseteq Ops(l)
      BY <1>1, <1>3, ThreeParts
    <3> QED
      BY <3>1
  <2>2. NodeMore(l[2], V.list[2])
    BY <1>1, <2>1, MoreNodes
  <2> QED
    BY <1>5, <2>2 DEF NodeMore
<1>6. CASE Listed(S.instl, 1)
  <2>1. CASE g = 1
    <3>1. V.list[1 + 1].bk
      BY <1>3, <1>4, <2>1
    <3> QED
      BY <3>1
  <2>2. CASE g # 1
    BY <1>6, <2>2
  <2> QED
    BY <2>1, <2>2
<1> QED
  BY <1>2, <1>4, <1>5, <1>6 DEF CrashKnown

-----------------------------------------------------------------------------
(* Every step of re_resolve leaves less to do. *)

\* What is still unknown: values after operands, values before definitions, addresses.
UnknownAfter(l) == {j \in DOMAIN l : l[j].kind # "inst" /\ ~l[j].ak}
UnknownBefore(l) == {j \in DOMAIN l : l[j].kind = "def" /\ ~l[j].bk}
UnknownAddress(l) == {j \in DOMAIN l : l[j].kind # "inst" /\ IsExp(l[j]) /\ l[j].addr = 0}

\* Unknown counts them.
LEMMA UnknownIs ==
  ASSUME NEW S, Nodes(S.list)
  PROVE  /\ IsFiniteSet(UnknownAfter(S.list)) /\ IsFiniteSet(UnknownBefore(S.list))
         /\ IsFiniteSet(UnknownAddress(S.list))
         /\ Cardinality(UnknownAfter(S.list)) \in Nat /\ Cardinality(UnknownBefore(S.list)) \in Nat
         /\ Cardinality(UnknownAddress(S.list)) \in Nat
         /\ Unknown(S) = Cardinality(UnknownAfter(S.list)) + Cardinality(UnknownBefore(S.list))
                           + Cardinality(UnknownAddress(S.list))
<1> DEFINE l == S.list
<1>1. Len(l) \in Nat /\ DOMAIN l = 1..Len(l)
  BY DEF Nodes
<1>2. IsFiniteSet(1..Len(l))
  BY <1>1, FS_Interval
<1>3. /\ UnknownAfter(l) \subseteq 1..Len(l) /\ UnknownBefore(l) \subseteq 1..Len(l)
      /\ UnknownAddress(l) \subseteq 1..Len(l)
  BY <1>1 DEF UnknownAfter, UnknownBefore, UnknownAddress
<1>4. /\ IsFiniteSet(UnknownAfter(l)) /\ IsFiniteSet(UnknownBefore(l))
      /\ IsFiniteSet(UnknownAddress(l))
  BY <1>2, <1>3, FS_Subset
<1>5. Unknown(S) = Cardinality(UnknownAfter(l)) + Cardinality(UnknownBefore(l))
                     + Cardinality(UnknownAddress(l))
  BY DEF Unknown, UnknownAfter, UnknownBefore, UnknownAddress
<1> QED
  BY <1>4, <1>5, FS_CardinalityType

\* What becomes known leaves the sets.
LEMMA UnknownShrinks ==
  ASSUME NEW l, Nodes(l), NEW m, More(l, m), KeepsAddress(l, m)
  PROVE  /\ UnknownAfter(m) \subseteq UnknownAfter(l) /\ UnknownBefore(m) \subseteq UnknownBefore(l)
         /\ UnknownAddress(m) \subseteq UnknownAddress(l)
         /\ Learnt(l, m) => \/ UnknownAfter(m) # UnknownAfter(l)
                            \/ UnknownBefore(m) # UnknownBefore(l)
                            \/ UnknownAddress(m) # UnknownAddress(l)
<1>1. /\ DOMAIN l = 1..Len(l) /\ DOMAIN m = 1..Len(l) /\ Ops(m) = Ops(l) /\ Len(m) = Len(l)
      /\ \A j \in Ops(l) : SameStatic(l[j], m[j]) /\ NodeMore(l[j], m[j])
      /\ \A j \in Ops(l) : m[j] \in OpNode /\ l[j] \in OpNode
  BY MoreNodes, NodeIs DEF Nodes, More
<1>2. \A j \in Ops(l) : /\ l[j].kind # "inst" /\ m[j].kind = l[j].kind /\ m[j].sort = l[j].sort
                        /\ j \in 1..Len(l)
  BY <1>1 DEF SameStatic, Ops
<1>3. /\ UnknownAfter(l) = {j \in Ops(l) : ~l[j].ak} /\ UnknownAfter(m) = {j \in Ops(l) : ~m[j].ak}
      /\ UnknownBefore(l) = {j \in Ops(l) : l[j].kind = "def" /\ ~l[j].bk}
      /\ UnknownBefore(m) = {j \in Ops(l) : l[j].kind = "def" /\ ~m[j].bk}
      /\ UnknownAddress(l) = {j \in Ops(l) : l[j].sort = "mem" /\ l[j].addr = 0}
      /\ UnknownAddress(m) = {j \in Ops(l) : l[j].sort = "mem" /\ m[j].addr = 0}
  <2>1. /\ UnknownAfter(l) = {j \in Ops(l) : ~l[j].ak}
        /\ UnknownBefore(l) = {j \in Ops(l) : l[j].kind = "def" /\ ~l[j].bk}
        /\ UnknownAddress(l) = {j \in Ops(l) : l[j].sort = "mem" /\ l[j].addr = 0}
    BY <1>1 DEF UnknownAfter, UnknownBefore, UnknownAddress, Ops, IsExp
  <2>2. /\ UnknownAfter(m) = {j \in Ops(m) : ~m[j].ak}
        /\ UnknownBefore(m) = {j \in Ops(m) : m[j].kind = "def" /\ ~m[j].bk}
        /\ UnknownAddress(m) = {j \in Ops(m) : m[j].sort = "mem" /\ m[j].addr = 0}
    BY <1>1 DEF UnknownAfter, UnknownBefore, UnknownAddress, Ops, IsExp
  <2> QED
    BY <2>1, <2>2, <1>1, <1>2
<1>4. /\ UnknownAfter(m) \subseteq UnknownAfter(l) /\ UnknownBefore(m) \subseteq UnknownBefore(l)
  BY <1>1, <1>3 DEF NodeMore
<1>5. UnknownAddress(m) \subseteq UnknownAddress(l)
  BY <1>3 DEF KeepsAddress
<1>6. ASSUME Learnt(l, m)
      PROVE  \/ UnknownAfter(m) # UnknownAfter(l) \/ UnknownBefore(m) # UnknownBefore(l)
             \/ UnknownAddress(m) # UnknownAddress(l)
  <2>1. PICK j \in Ops(l) : NewAfter(l, m, j) \/ NewBefore(l, m, j) \/ NewAddress(l, m, j)
    BY <1>6 DEF Learnt
  <2> QED
    BY <2>1, <1>3 DEF NewAfter, NewBefore, NewAddress
<1> QED
  BY <1>4, <1>5, <1>6

\* To know more is to have less to do.
LEMMA LearntLighter ==
  ASSUME NEW S, Nodes(S.list), NEW T, More(S.list, T.list), KeepsAddress(S.list, T.list)
  PROVE  /\ Unknown(S) \in Nat /\ Unknown(T) \in Nat /\ Unknown(T) <= Unknown(S)
         /\ Learnt(S.list, T.list) => Unknown(T) < Unknown(S)
<1> DEFINE a == UnknownAfter(S.list)
           b == UnknownBefore(S.list)
           c == UnknownAddress(S.list)
           d == UnknownAfter(T.list)
           e == UnknownBefore(T.list)
           f == UnknownAddress(T.list)
<1>1. Nodes(T.list)
  BY MoreNodes
<1>2. /\ IsFiniteSet(a) /\ IsFiniteSet(b) /\ IsFiniteSet(c)
      /\ Cardinality(a) \in Nat /\ Cardinality(b) \in Nat /\ Cardinality(c) \in Nat
      /\ Unknown(S) = Cardinality(a) + Cardinality(b) + Cardinality(c)
  BY UnknownIs
<1>3. /\ Cardinality(d) \in Nat /\ Cardinality(e) \in Nat /\ Cardinality(f) \in Nat
      /\ Unknown(T) = Cardinality(d) + Cardinality(e) + Cardinality(f)
  BY <1>1, UnknownIs
<1>4. /\ d \subseteq a /\ e \subseteq b /\ f \subseteq c
      /\ Learnt(S.list, T.list) => d # a \/ e # b \/ f # c
  BY UnknownShrinks
<1> HIDE DEF a, b, c, d, e, f
<1>5. /\ Cardinality(d) <= Cardinality(a) /\ (Cardinality(d) = Cardinality(a) => d = a)
      /\ Cardinality(e) <= Cardinality(b) /\ (Cardinality(e) = Cardinality(b) => e = b)
      /\ Cardinality(f) <= Cardinality(c) /\ (Cardinality(f) = Cardinality(c) => f = c)
  BY <1>2, <1>4, FS_Subset
<1> QED
  BY <1>2, <1>3, <1>4, <1>5

\* A step that hands on what it learns and takes an entry is lighter.
LEMMA LighterIs ==
  ASSUME NEW S, Plain(S), NEW V, More(S.list, V.list), KeepsAddress(S.list, V.list),
         Queued(S) \in Nat, Queued(V) \in Nat, Queued(V) < Queued(S) \/ Learnt(S.list, V.list)
  PROVE  Lighter(V, S)
<1>1. /\ Unknown(S) \in Nat /\ Unknown(V) \in Nat /\ Unknown(V) <= Unknown(S)
      /\ Learnt(S.list, V.list) => Unknown(V) < Unknown(S)
  BY LearntLighter DEF Plain
<1> QED
  BY <1>1 DEF Lighter

-----------------------------------------------------------------------------
(* The steps of re_resolve. *)

\* V is T without operand e, the first of a worklist.
TakenFrom(S, T, V, e) ==
  \/ S.usel # <<>> /\ e = Head(S.usel) /\ V.usel = Tail(T.usel) /\ V.defl = T.defl
  \/ S.defl # <<>> /\ e = Head(S.defl) /\ V.defl = Tail(T.defl) /\ V.usel = T.usel

\* Taking the head off a worklist leaves what else waits.
LEMMA OperandTaken ==
  ASSUME NEW S, Plain(S), NEW T, Plain(T), Longer(S.usel, T.usel), Longer(S.defl, T.defl), NEW e,
         NEW V, TakenFrom(S, T, V, e)
  PROVE  /\ \A k : Waits(T, k) /\ k # e => Waits(V, k)
         /\ Len(V.usel) + Len(V.defl) = Len(T.usel) + Len(T.defl) - 1
         /\ Len(V.usel) \in Nat /\ Len(V.defl) \in Nat
<1>1. /\ S.usel \in Seq(Nat) /\ S.defl \in Seq(Nat) /\ T.usel \in Seq(Nat) /\ T.defl \in Seq(Nat)
  BY DEF Plain
<1>2. CASE S.usel # <<>> /\ e = Head(S.usel) /\ V.usel = Tail(T.usel) /\ V.defl = T.defl
  <2>1. T.usel # <<>> /\ Head(T.usel) = e
    BY <1>1, <1>2, LongerIs
  <2>2. \A k : Listed(T.usel, k) /\ k # e => Listed(V.usel, k)
    BY <1>1, <1>2, <2>1, TailListed
  <2>3. Len(V.usel) = Len(T.usel) - 1 /\ V.usel \in Seq(Nat)
    BY <1>1, <1>2, <2>1, TailIs
  <2>4. \A k : Waits(T, k) /\ k # e => Waits(V, k)
    BY <1>2, <2>2 DEF Waits
  <2>5. PICK a, b, c : a = Len(V.usel) /\ b = Len(T.usel) /\ c = Len(T.defl)
    OBVIOUS
  <2>6. a \in Nat /\ b \in Nat /\ c \in Nat /\ a = b - 1 /\ Len(V.defl) = c
    BY <1>1, <1>2, <2>3, <2>5
  <2>7. a + c = b + c - 1 /\ c + a = c + b - 1
    BY <2>6
  <2> QED
    BY <2>4, <2>5, <2>6, <2>7
<1>3. CASE S.defl # <<>> /\ e = Head(S.defl) /\ V.defl = Tail(T.defl) /\ V.usel = T.usel
  <2>1. T.defl # <<>> /\ Head(T.defl) = e
    BY <1>1, <1>3, LongerIs
  <2>2. \A k : Listed(T.defl, k) /\ k # e => Listed(V.defl, k)
    BY <1>1, <1>3, <2>1, TailListed
  <2>3. Len(V.defl) = Len(T.defl) - 1 /\ V.defl \in Seq(Nat)
    BY <1>1, <1>3, <2>1, TailIs
  <2>4. \A k : Waits(T, k) /\ k # e => Waits(V, k)
    BY <1>3, <2>2 DEF Waits
  <2>5. PICK a, b, c : a = Len(V.defl) /\ b = Len(T.defl) /\ c = Len(T.usel)
    OBVIOUS
  <2>6. a \in Nat /\ b \in Nat /\ c \in Nat /\ a = b - 1 /\ Len(V.usel) = c
    BY <1>1, <1>3, <2>3, <2>5
  <2>7. a + c = b + c - 1 /\ c + a = c + b - 1
    BY <2>6
  <2> QED
    BY <2>4, <2>5, <2>6, <2>7
<1> QED
  BY <1>2, <1>3 DEF TakenFrom

\* An operand weighs two, an instruction one.
LEMMA Weights ==
  ASSUME NEW a \in Nat, NEW b \in Nat, NEW c \in Nat, NEW x \in Nat, NEW y \in Nat, NEW z \in Nat
  PROVE  /\ 2 * (a + b) + c \in Nat /\ 2 * (x + y) + z \in Nat
         /\ x + y = a + b - 1 /\ z <= c + 1 => 2 * (x + y) + z < 2 * (a + b) + c
         /\ x = a /\ y = b /\ z = c - 1 => 2 * (x + y) + z < 2 * (a + b) + c
  OBVIOUS

\* Queued is a number, and falls when an operand is taken or when an instruction is.
LEMMA LessQueued ==
  ASSUME NEW S, NEW V, NEW a, NEW b, NEW c, NEW x, NEW y, NEW z,
         a = Len(S.usel), b = Len(S.defl), c = Len(S.instl), x = Len(V.usel), y = Len(V.defl),
         z = Len(V.instl), a \in Nat, b \in Nat, c \in Nat, x \in Nat, y \in Nat, z \in Nat
  PROVE  /\ Queued(S) \in Nat /\ Queued(V) \in Nat
         /\ x + y = a + b - 1 /\ z <= c + 1 => Queued(V) < Queued(S)
         /\ x = a /\ y = b /\ z = c - 1 => Queued(V) < Queued(S)
<1>1. Queued(S) = 2 * (a + b) + c /\ Queued(V) = 2 * (x + y) + z
  BY DEF Queued
<1>2. /\ 2 * (a + b) + c \in Nat /\ 2 * (x + y) + z \in Nat
      /\ x + y = a + b - 1 /\ z <= c + 1 => 2 * (x + y) + z < 2 * (a + b) + c
      /\ x = a /\ y = b /\ z = c - 1 => 2 * (x + y) + z < 2 * (a + b) + c
  BY ONLY a \in Nat, b \in Nat, c \in Nat, x \in Nat, y \in Nat, z \in Nat, Weights
<1> QED
  BY ONLY <1>1, <1>2

\* resolve_use and resolve_define keep the invariant and leave less to do.
LEMMA OperandProg ==
  ASSUME NEW S, Inv(S), Prog(S), NEW e \in Ops(S.list), NEW T, Inv(T), Spread(S, T, e),
         NEW V, V.list = T.list, V.instl = T.instl,
         TakenFrom(S, T, V, e)
  PROVE  Prog(V) /\ Lighter(V, S)
<1>1. /\ Plain(S) /\ Nodes(S.list) /\ ListInv(S.list) /\ S.instl \in Seq(Nat) /\ ListInv(T.list)
      /\ Plain(T) /\ T.instl \in Seq(Nat)
  BY InvPlain
<1>2. /\ (\A y : Hands(S, T, y)) /\ T.list[e] = S.list[e] /\ SameAddress(S.list, T.list)
      /\ Longer(S.instl, T.instl) /\ Len(T.instl) <= Len(S.instl) + 1
      /\ Listed(T.instl, S.list[e].home) \/ check_inst_resolution(S.list, S.list[e].home)
      /\ \A i \in Ops(S.list) : Neighbours(S.list, i, e) /\ S.list[e].ak => KnownBefore(T.list[i])
      /\ \A j \in Ops(S.list) : Neighbours(S.list, e, j) /\ KnownBefore(S.list[e]) => T.list[j].ak
  BY DEF Spread
<1>3. /\ More(S.list, T.list) /\ KeepsAddress(S.list, T.list)
      /\ Longer(S.usel, T.usel) /\ Longer(S.defl, T.defl)
      /\ (T.usel = S.usel /\ T.defl = S.defl) \/ Learnt(S.list, T.list)
  BY <1>2 DEF Hands
<1>4. /\ \A k : Waits(T, k) /\ k # e => Waits(V, k)
      /\ Len(V.usel) + Len(V.defl) = Len(T.usel) + Len(T.defl) - 1
      /\ Len(V.usel) \in Nat /\ Len(V.defl) \in Nat
  BY <1>1, <1>3, OperandTaken
<1>5. /\ S.usel \in Seq(Nat) /\ S.defl \in Seq(Nat) /\ T.usel \in Seq(Nat) /\ T.defl \in Seq(Nat)
  BY <1>1 DEF Plain
<1>6. \A k : Listed(S.instl, k) => Listed(V.instl, k)
  BY <1>1, <1>2, LongerIs
<1>7. Hands(S, T, 0) /\ ~(0 \in Ops(S.list)) /\ ~(0 \in Insts(S.list))
  BY <1>1, <1>2 DEF Ops, Insts
<1>8. /\ Live(S) /\ Owed(S) /\ Rooted(S.list) /\ CrashKnown(S) /\ Addresses(S.list)
  BY DEF Prog
<1>9. Live(V)
  BY <1>1, <1>2, <1>4, <1>5, <1>7, <1>8, LiveOn
<1>10. Owed(V)
  <2>1. \A h \in Insts(S.list) : h = 0 /\ S.list[h].index # 0 => Closed(T.list, h)
    BY <1>7
  <2>2. \A j \in Ops(S.list) : j = 0 /\ S.list[j].sort = "mem" => S.list[j].home = 0
    BY <1>7
  <2>3. e \in Ops(S.list) =>
          /\ T.list[e] = S.list[e]
          /\ Listed(V.instl, S.list[e].home) \/ check_inst_resolution(S.list, S.list[e].home)
    BY <1>2
  <2>4. \A k : Listed(S.instl, k) /\ k # 0 => Listed(V.instl, k)
    BY <1>6
  <2>5. Accounted(S, T, V, e, 0, 0)
    BY <1>4, <2>1, <2>2, <2>3, <2>4 DEF Accounted
  <2> QED
    BY <1>1, <1>5, <1>7, <1>8, <2>5, OwedOn
<1>11. Rooted(V.list)
  BY <1>1, <1>3, <1>8, RootedStays
<1>12. CrashKnown(V)
  <2>1. \A h \in Insts(S.list) : h = 0 /\ S.list[h].index = 0 /\ S.list[h].inst.op = "ldr"
                                    => V.list[h + 1].bk
    BY <1>7
  <2>2. \A k : Listed(S.instl, k) /\ k # 0 => Listed(V.instl, k)
    BY <1>6
  <2> QED
    BY <1>3, <1>8, <2>1, <2>2, CrashKnownOn
<1>13. Addresses(V.list)
  BY <1>1, <1>2, <1>3, <1>8, AddressesStay DEF SameAddress
<1>14. Lighter(V, S)
  <2>1. /\ Len(S.usel) \in Nat /\ Len(S.defl) \in Nat /\ Len(S.instl) \in Nat /\ Len(V.instl) \in Nat
        /\ Len(V.instl) <= Len(S.instl) + 1
    BY <1>1, <1>2, <1>5
  <2>2. Queued(S) \in Nat /\ Queued(V) \in Nat
    BY <2>1, <1>4, LessQueued
  <2>3. ASSUME T.usel = S.usel, T.defl = S.defl PROVE Queued(V) < Queued(S)
    <3>1. Len(V.usel) + Len(V.defl) = Len(S.usel) + Len(S.defl) - 1
      BY <2>3, <1>4
    <3> QED
      BY <2>1, <3>1, <1>4, LessQueued
  <2> QED
    BY <1>1, <1>3, <2>2, <2>3, LighterIs
<1> QED
  BY <1>9, <1>10, <1>11, <1>12, <1>13, <1>14 DEF Prog

\* resolve_inst keeps the invariant and leaves less to do.
LEMMA InstProg ==
  ASSUME Env, NEW S, Inv(S), Prog(S), S.instl # <<>>, NEW h, h = Head(S.instl), NEW g \in Val,
         NEW T, T = resolve_inst(S, h, g), NEW V, V.list = T.list, V.usel = T.usel,
         V.defl = T.defl, V.instl = Tail(T.instl)
  PROVE  Prog(V) /\ Lighter(V, S)
<1>1. /\ Plain(S) /\ Nodes(S.list) /\ ListInv(S.list) /\ S.instl \in Seq(Nat)
      /\ S.instl \in Seq(Insts(S.list))
  BY InvPlain
<1>2. h \in Insts(S.list)
  BY <1>1
<1>3. /\ Live(S) /\ Owed(S) /\ Rooted(S.list) /\ CrashKnown(S) /\ Addresses(S.list)
  BY DEF Prog
<1>4. /\ Inv(T) /\ Hands(S, T, h + 2) /\ Addresses(T.list) /\ T.instl = S.instl
      /\ S.list[h].index # 0 => Closed(T.list, h)
      /\ S.list[h].index = 0 /\ S.list[h].inst.op = "ldr" => T.list[h + 1].bk
  BY <1>2, <1>3, InstHands
<1>5. /\ Plain(T) /\ ListInv(T.list) /\ T.usel \in Seq(Nat) /\ T.defl \in Seq(Nat)
      /\ S.usel \in Seq(Nat) /\ S.defl \in Seq(Nat)
  BY <1>1, <1>4, InvPlain DEF Plain
<1>6. /\ More(S.list, T.list) /\ KeepsAddress(S.list, T.list)
      /\ (T.usel = S.usel /\ T.defl = S.defl) \/ Learnt(S.list, T.list)
  BY <1>4 DEF Hands
<1>7. \A k : Waits(T, k) => Waits(V, k)
  BY DEF Waits
<1>8. /\ \A k : Listed(S.instl, k) /\ k # h => Listed(V.instl, k)
      /\ Len(V.instl) = Len(S.instl) - 1 /\ V.instl \in Seq(Nat)
  <2>1. \A k : Listed(S.instl, k) /\ k # h => Listed(Tail(S.instl), k)
    BY <1>1, TailListed
  <2>2. Len(Tail(S.instl)) = Len(S.instl) - 1 /\ Tail(S.instl) \in Seq(Nat)
    BY <1>1, TailIs
  <2> QED
    BY <2>1, <2>2, <1>4
<1>9. ~(0 \in Ops(S.list))
  BY <1>1 DEF Ops
<1>10. Live(V)
  <2>1. \A k : Waits(T, k) /\ k # 0 => Waits(V, k)
    BY <1>7
  <2> QED
    BY <1>1, <1>3, <1>4, <1>5, <1>9, <2>1, LiveOn
<1>11. Owed(V)
  <2>1. \A k : Waits(T, k) /\ k # 0 => Waits(V, k)
    BY <1>7
  <2>2. \A j \in Ops(S.list) : j = h + 2 /\ S.list[j].sort = "mem" => S.list[j].home = h
    <3>1. ASSUME NEW j \in Ops(S.list), j = h + 2, S.list[j].sort = "mem" PROVE S.list[j].home = h
      <4>1. j = S.list[j].home + 2 /\ S.list[j].home \in Nat /\ h \in Nat
        BY <1>1, <1>2, <3>1, MemNode, NodeIs, InstIs
      <4> QED
        BY <4>1, <3>1
    <3> QED
      BY <3>1
  <2>3. \A k \in Insts(S.list) : k = h /\ S.list[k].index # 0 => Closed(T.list, k)
    BY <1>4
  <2>4. Accounted(S, T, V, 0, h, h + 2)
    BY <1>8, <1>9, <2>1, <2>2, <2>3 DEF Accounted
  <2> QED
    BY <1>1, <1>3, <1>4, <1>5, <2>4, OwedOn
<1>12. Rooted(V.list)
  BY <1>1, <1>3, <1>6, RootedStays
<1>13. CrashKnown(V)
  <2>1. \A k \in Insts(S.list) : k = h /\ S.list[k].index = 0 /\ S.list[k].inst.op = "ldr"
                                    => V.list[k + 1].bk
    BY <1>4
  <2> QED
    BY <1>3, <1>6, <1>8, <2>1, CrashKnownOn
<1>14. Lighter(V, S)
  <2>1. /\ Len(S.usel) \in Nat /\ Len(S.defl) \in Nat /\ Len(S.instl) \in Nat /\ Len(V.instl) \in Nat
        /\ Len(V.usel) \in Nat /\ Len(V.defl) \in Nat
    BY <1>1, <1>5, <1>8
  <2>2. Queued(S) \in Nat /\ Queued(V) \in Nat
    BY <2>1, LessQueued
  <2>3. ASSUME T.usel = S.usel, T.defl = S.defl PROVE Queued(V) < Queued(S)
    BY <2>1, <2>3, <1>8, LessQueued
  <2> QED
    BY <1>1, <1>6, <2>2, <2>3, LighterIs
<1> QED
  BY <1>4, <1>10, <1>11, <1>12, <1>13, <1>14 DEF Prog

\* A state of the engine after an entry is taken, by its fields.
LEMMA TakenFields ==
  ASSUME NEW T, Structure(T)
  PROVE  /\ LET V == UseTaken(T) IN V.list = T.list /\ V.usel = Tail(T.usel) /\ V.defl = T.defl
                                    /\ V.instl = T.instl
         /\ LET V == DefTaken(T) IN V.list = T.list /\ V.usel = T.usel /\ V.defl = Tail(T.defl)
                                    /\ V.instl = T.instl
         /\ LET V == InstTaken(T) IN V.list = T.list /\ V.usel = T.usel /\ V.defl = T.defl
                                     /\ V.instl = Tail(T.instl)
<1>1. /\ UseTaken(T) = [T EXCEPT !.usel = Tail(T.usel)]
      /\ DefTaken(T) = [T EXCEPT !.defl = Tail(T.defl)]
      /\ InstTaken(T) = [T EXCEPT !.instl = Tail(T.instl)]
  BY DEF UseTaken, DefTaken, InstTaken
<1>2. PICK u, d, q : u = Tail(T.usel) /\ d = Tail(T.defl) /\ q = Tail(T.instl)
  OBVIOUS
<1>3. /\ UseTaken(T) = State(T.list, u, T.defl, T.instl, T.umem, T.bad)
      /\ DefTaken(T) = State(T.list, T.usel, d, T.instl, T.umem, T.bad)
      /\ InstTaken(T) = State(T.list, T.usel, T.defl, q, T.umem, T.bad)
  BY <1>1, <1>2, SetIs
<1> QED
  BY <1>2, <1>3, StateIs

-----------------------------------------------------------------------------
(* A new instruction. *)

\* Definition k of e's register comes after e in time.
Defines(l, k, e) == k \in Ops(l) /\ k < e /\ l[k].kind = "def" /\ SameTarget(l[k], l[e])

\* d is the next of them.
LatestDef(l, d, e) == Defines(l, d, e) /\ \A k : Defines(l, k, e) => k <= d

\* FreshAt, with names for its parts.
LEMMA FreshIs ==
  ASSUME NEW T, NEW e, T.list[e].sort = "reg"
  PROVE  FreshAt(T, e) <=>
           \/ T.list[e].ak /\ \A k : ~Defines(T.list, k, e)
           \/ \E d : /\ LatestDef(T.list, d, e)
                     /\ T.list[d].bk => T.list[e].ak
                     /\ T.list[e].ak /\ ~T.list[d].bk => Waits(T, e)
BY DEF FreshAt, Defines, LatestDef

\* What is older than an executed operand was executed.
LEMMA DoneAfter ==
  ASSUME NEW l, ListInv(l), NEW i \in Ops(l), NEW j \in Ops(l), i < j, Done(l, i)
  PROVE  Done(l, j)
<1>1. Nodes(l) /\ Shaped(l)
  BY DEF ListInv
<1>2. /\ l[i].home \in Insts(l) /\ l[j].home \in Insts(l) /\ i \in Nat /\ j \in Nat
      /\ l[i].home < i /\ l[i].home \in Nat \ {0}
  BY <1>1, NodeIs
<1> SUFFICES ASSUME ~Done(l, j) PROVE FALSE
  OBVIOUS
<1>3. l[j].home = 1
  BY <1>1, <1>2 DEF Shaped, Done
<1>4. 1 \in Insts(l)
  BY <1>2, <1>3
<1>5. j <= 1 + Size(l[1].inst) /\ \A k \in 1..Size(l[1].inst) : l[1 + k].home = 1
  <2>1. j <= 1 + Size(l[1].inst)
    BY <1>1, <1>3 DEF Shaped
  <2> QED
    BY <2>1, <1>1, <1>4, BlockIs
<1>6. Size(l[1].inst) \in Nat
  BY DEF Size
<1>7. PICK k : k = i - 1
  OBVIOUS
<1>8. k \in 1..Size(l[1].inst) /\ 1 + k = i
  BY <1>2, <1>5, <1>6, <1>7
<1>9. l[i].home = 1
  BY <1>5, <1>8
<1> QED
  BY <1>3, <1>9 DEF Done

\* The crashing instruction defines a register only if it is a load.
LEMMA CrashDefinition ==
  ASSUME NEW l, ListInv(l), NEW d \in Ops(l), ~Done(l, d), l[d].kind = "def", l[d].sort = "reg"
  PROVE  d = 2 /\ l[1].inst.op = "ldr" /\ l # <<>>
<1>1. Nodes(l) /\ Shaped(l)
  BY DEF ListInv
<1>2. l[d].home \in Insts(l) /\ d \in Nat /\ l[d].home < d
  BY <1>1, NodeIs
<1>3. l[d].home = 1 /\ 1 \in Insts(l)
  BY <1>1, <1>2 DEF Shaped, Done
<1>4. l[1].index = 0 /\ BlockAt(l, 1) /\ d <= 1 + Size(l[1].inst) /\ l[1].inst \in Instruction
  BY <1>1, <1>3, InstIs DEF Shaped
<1>5. l # <<>>
  BY <1>3 DEF Insts
<1>6. l[1].inst.op \in {"ldr", "str"}
  <2>1. l[1].inst.op \in {"mov", "ldr", "str"} \cup Arithmetic
    BY <1>3, PartsAre
  <2>2. l[1].inst.op # "mov" /\ l[1].inst.op \notin Arithmetic
    BY <1>4 DEF BlockAt, MovAt, ArithAt, Arithmetic
  <2> QED
    BY <2>1, <2>2
<1>7. d \in {2, 3, 4, 5} /\ (d = 5 => l[1].inst.c # "imm")
  BY <1>2, <1>3, <1>4, <1>6 DEF Size, Arithmetic
<1>8. AddrAt(l, 1) /\ (l[1].inst.op = "ldr" => LoadAt(l, 1)) /\ (l[1].inst.op = "str" => StoreAt(l, 1))
  BY <1>3, <1>6, AccessIs
<1>9. l[3].sort = "mem" /\ l[4].kind = "use" /\ (l[1].inst.c # "imm" => l[5].kind = "use")
  BY <1>8 DEF AddrAt, RegNode
<1>10. l[1].inst.op = "str" => l[2].kind = "use"
  BY <1>8 DEF StoreAt, RegNode
<1> QED
  BY <1>5, <1>6, <1>7, <1>9, <1>10

\* Operands of registers meet in a register.
LEMMA RegTarget ==
  ASSUME NEW n, NEW m, n.sort = "reg" \/ m.sort = "reg"
  PROVE  SameTarget(n, m) <=> n.sort = "reg" /\ m.sort = "reg" /\ n.r = m.r
BY DEF SameTarget

\* If there is a definition there is a next one.
LEMMA LatestIs ==
  ASSUME NEW l, Nodes(l), NEW e \in Ops(l), NEW k, Defines(l, k, e)
  PROVE  \E d : LatestDef(l, d, e)
<1> DEFINE D == {x \in Ops(l) : Defines(l, x, e)}
<1>1. e \in Nat /\ \A x \in Ops(l) : x \in Nat
  BY NodeIs
<1>2. D \subseteq 0..e
  <2> SUFFICES ASSUME NEW x \in Ops(l), Defines(l, x, e) PROVE x \in 0..e
    OBVIOUS
  <2>1. x < e /\ x \in Nat
    BY <1>1 DEF Defines
  <2> QED
    BY <1>1, <2>1
<1>3. D # {} /\ \A x : Defines(l, x, e) => x \in D
  BY DEF Defines
<1> HIDE DEF D
<1>4. Max(D) \in D /\ \A x \in D : x <= Max(D)
  BY <1>1, <1>2, <1>3, MaxIs
<1>5. Defines(l, Max(D), e)
  BY <1>4 DEF D
<1> QED
  BY <1>3, <1>4, <1>5 DEF LatestDef

\* Nothing waits.
LEMMA NoneWaits ==
  ASSUME NEW S, S.usel = <<>>, S.defl = <<>>
  PROVE  \A j : ~Waits(S, j)
BY DEF Waits, Listed

\* With nothing waiting, what a definition has before it reaches the operands before it.
LEMMA FlowAlong ==
  ASSUME NEW S, Inv(S), Live(S), S.usel = <<>>, S.defl = <<>>, NEW j \in Ops(S.list), NEW d,
         S.list[j].sort = "reg", LatestDef(S.list, d, j), Done(S.list, d)
  PROVE  S.list[j].ak <=> S.list[d].bk
<1> DEFINE l == S.list
           R(x) == l[x].sort = "reg" /\ l[x].r = l[j].r
           Wrong == {k \in Ops(l) : d < k /\ k <= j /\ R(k) /\ ~(l[k].ak <=> l[d].bk)}
<1>1. ListInv(l) /\ Nodes(l) /\ \A x \in Ops(l) : x \in Nat
  BY InvPlain, NodeIs
<1>2. /\ d \in Ops(l) /\ d < j /\ l[d].kind = "def" /\ R(d)
      /\ \A k \in Ops(l) : k < j /\ l[k].kind = "def" /\ R(k) => k <= d
  BY RegTarget DEF LatestDef, Defines
<1>3. \A x, y \in Ops(l) : R(y) => (SameTarget(l[x], l[y]) <=> R(x))
  BY RegTarget
<1>4. \A x, y \in Ops(l) : Neighbours(l, x, y) /\ Done(l, x) => (l[y].ak <=> KnownBefore(l[x]))
  <2>1. \A k : ~Waits(S, k)
    BY NoneWaits
  <2>2. \A x, y \in Ops(l) : Neighbours(l, x, y) /\ Done(l, x) =>
          /\ l[y].ak /\ ~KnownBefore(l[x]) => Waits(S, y)
          /\ KnownBefore(l[x]) /\ ~l[y].ak => Waits(S, x)
    BY DEF Live
  <2>3. \A x \in Ops(l) : l[x].ak \in BOOLEAN /\ l[x].bk \in BOOLEAN /\ KnownBefore(l[x]) \in BOOLEAN
    BY <1>1, NodeIs DEF OpNode, KnownBefore
  <2> HIDE DEF l
  <2> QED
    BY <2>1, <2>2, <2>3
<1>5. R(j) /\ j \in Ops(l)
  OBVIOUS
<1> HIDE DEF l, R
<1>6. ASSUME Wrong # {} PROVE FALSE
  <2>1. Wrong \subseteq Nat
    BY <1>1
  <2>2. PICK k : k \in Wrong /\ \A x \in Wrong : k <= x
    BY <2>1, <1>6, MinIs
  <2>3. k \in Ops(l) /\ d < k /\ k <= j /\ R(k) /\ ~(l[k].ak <=> l[d].bk)
    BY <2>2
  <2> DEFINE P == {i \in Ops(l) : i < k /\ R(i)}
  <2>4. d \in P /\ P \subseteq 0..k /\ k \in Nat
    BY <2>3, <1>1, <1>2
  <2>5. PICK i : i \in P /\ \A x \in P : x <= i
    BY <2>4, MaxIs
  <2>6. i \in Ops(l) /\ i < k /\ R(i) /\ d <= i
    BY <2>4, <2>5
  <2>7. \A x \in Ops(l) : i < x /\ x < k => ~R(x)
    BY <2>5, <2>6, <1>1
  <2>8. Neighbours(l, i, k)
    <3>1. l[i].sort = "reg" /\ SameTarget(l[i], l[k])
      BY <2>3, <2>6, <1>3 DEF R
    <3>2. \A x \in Ops(l) : i < x /\ x < k => ~SameTarget(l[x], l[i])
      BY <2>6, <2>7, <1>3
    <3> QED
      BY <2>6, <3>1, <3>2 DEF Neighbours
  <2>9. Done(l, i)
    <3>1. i = d \/ d < i
      BY <2>6, <1>1, <1>2
    <3> QED
      BY <3>1, <2>6, <1>1, <1>2, DoneAfter DEF l
  <2>10. l[k].ak <=> KnownBefore(l[i])
    BY <2>3, <2>6, <2>8, <2>9, <1>4
  <2>11. CASE i = d
    BY <2>3, <2>10, <2>11, <1>2 DEF KnownBefore
  <2>12. CASE i # d
    <3>1. d < i /\ i < j /\ i <= j
      BY <2>3, <2>6, <2>12, <1>1, <1>2, <1>5
    <3>2. l[i].kind # "def"
      BY <3>1, <2>6, <1>1, <1>2
    <3>3. i \notin Wrong
      BY <2>2, <2>6, <1>1, <2>3
    <3>4. l[i].ak <=> l[d].bk
      BY <3>1, <3>3, <2>6
    <3> QED
      BY <3>2, <3>4, <2>3, <2>10 DEF KnownBefore
  <2> QED
    BY <2>11, <2>12
<1>7. j \notin Wrong /\ j \in Nat /\ j <= j /\ d < j
  BY <1>5, <1>6, <1>1, <1>2
<1>8. l[j].ak <=> l[d].bk
  BY <1>5, <1>7
<1> QED
  BY <1>8 DEF l

\* Between instructions every executed operand stands to its register's next definition
\* as a new operand does.
Mid(S) == \A j \in Ops(S.list) : Done(S.list, j) => FreshAt(S, j)

\* Between instructions nothing waits.
Quiet(S) == S.usel = <<>> /\ S.defl = <<>> /\ S.instl = <<>>

\* When nothing waits everything is in its place.
LEMMA IdleMid ==
  ASSUME NEW S, Inv(S), Prog(S), Quiet(S)
  PROVE  Mid(S)
<1> DEFINE l == S.list
<1>1. ListInv(l) /\ Nodes(l) /\ Shaped(l) /\ Live(S) /\ Rooted(l) /\ CrashKnown(S)
  BY InvPlain DEF Prog
<1> SUFFICES ASSUME NEW j \in Ops(l), Done(l, j), l[j].sort = "reg" PROVE FreshAt(S, j)
  BY DEF Mid, FreshAt
<1>2. CASE \A k : ~Defines(l, k, j)
  <2>1. \A k \in Ops(l) : ~(k < j /\ l[k].kind = "def" /\ SameTarget(l[k], l[j]))
    BY <1>2 DEF Defines
  <2>2. l[j].ak
    BY <2>1, <1>1 DEF Rooted
  <2> QED
    BY <2>2, <1>2, FreshIs
<1>3. CASE \E k : Defines(l, k, j)
  <2>1. PICK d : LatestDef(l, d, j)
    BY <1>1, <1>3, LatestIs
  <2>2. /\ d \in Ops(l) /\ d < j /\ l[d].kind = "def" /\ l[d].sort = "reg"
        /\ \A k \in Ops(l) : k < j /\ l[k].kind = "def" /\ SameTarget(l[k], l[j]) => k <= d
    BY <2>1, RegTarget DEF LatestDef, Defines
  <2>3. l[j].ak <=> l[d].bk
    <3>1. CASE Done(l, d)
      BY <2>1, <3>1, <1>1, FlowAlong DEF Quiet
    <3>2. CASE ~Done(l, d)
      <4>1. d = 2 /\ l[1].inst.op = "ldr" /\ l # <<>>
        BY <2>2, <3>2, <1>1, CrashDefinition
      <4>2. ~Listed(S.instl, 1)
        BY DEF Quiet, Listed
      <4>3. l[d].bk
        BY <4>1, <4>2, <1>1 DEF CrashKnown
      <4>4. \A k \in Ops(l) : k < j /\ l[k].kind = "def" /\ SameTarget(l[k], l[j]) => k = d
        <5> SUFFICES ASSUME NEW k \in Ops(l), k < j, l[k].kind = "def", SameTarget(l[k], l[j])
                     PROVE  k = d
          OBVIOUS
        <5>1. k <= 2
          BY <2>2, <4>1
        <5>2. k \in Nat /\ l[k].home \in Nat \ {0} /\ l[k].home < k
          BY <1>1, NodeIs
        <5> QED
          BY <5>1, <5>2, <4>1
      <4>5. \A k \in Ops(l) : k < j /\ l[k].kind = "def" /\ SameTarget(l[k], l[j]) => ~Done(l, k)
        BY <4>4, <3>2
      <4>6. l[j].ak
        BY <4>5, <1>1 DEF Rooted
      <4>7. l[j].ak \in BOOLEAN /\ l[d].bk \in BOOLEAN
        BY <1>1, <2>2, NodeIs DEF OpNode
      <4> QED
        BY <4>3, <4>6, <4>7
    <3> QED
      BY <3>1, <3>2
  <2> QED
    BY <2>1, <2>3, FreshIs
<1> QED
  BY <1>2, <1>3

\* An operand of the old list stands as it did.
LEMMA FreshStays ==
  ASSUME NEW S, NEW T, NEW j \in Ops(S.list), FreshAt(S, j), Len(S.list) \in Nat,
         Nodes(S.list), \A k \in 1..Len(S.list) : T.list[k] = S.list[k],
         \A k : k \in Ops(T.list) /\ k <= Len(S.list) <=> k \in Ops(S.list),
         \A k : Waits(S, k) => Waits(T, k)
  PROVE  FreshAt(T, j)
<1>1. j \in 1..Len(S.list) /\ T.list[j] = S.list[j]
  BY DEF Ops
<1> SUFFICES ASSUME S.list[j].sort = "reg" PROVE FreshAt(T, j)
  BY <1>1 DEF FreshAt
<1>2. \A k \in Ops(S.list) : T.list[k] = S.list[k] /\ k \in Nat
  BY NodeIs DEF Ops
<1>3. \A k : Defines(T.list, k, j) <=> Defines(S.list, k, j)
  <2>1. \A k : k \in Ops(T.list) /\ k < j <=> k \in Ops(S.list) /\ k < j
    <3> SUFFICES ASSUME NEW k \in Ops(T.list), k < j PROVE k <= Len(S.list)
      OBVIOUS
    <3>1. k \in Int
      BY DEF Ops
    <3> QED
      BY <3>1, <1>1
  <2> QED
    BY <2>1, <1>1, <1>2 DEF Defines
<1>4. \A d : LatestDef(T.list, d, j) <=> LatestDef(S.list, d, j)
  BY <1>3 DEF LatestDef
<1>5. \A d : LatestDef(S.list, d, j) => T.list[d] = S.list[d]
  BY <1>2 DEF LatestDef, Defines
<1>6. \/ S.list[j].ak /\ \A k : ~Defines(S.list, k, j)
      \/ \E d : /\ LatestDef(S.list, d, j)
                /\ S.list[d].bk => S.list[j].ak
                /\ S.list[j].ak /\ ~S.list[d].bk => Waits(S, j)
  BY FreshIs
<1>7. \/ T.list[j].ak /\ \A k : ~Defines(T.list, k, j)
      \/ \E d : /\ LatestDef(T.list, d, j)
                /\ T.list[d].bk => T.list[j].ak
                /\ T.list[j].ak /\ ~T.list[d].bk => Waits(T, j)
  <2>1. CASE S.list[j].ak /\ \A k : ~Defines(S.list, k, j)
    BY <2>1, <1>1, <1>3
  <2>2. ASSUME NEW d, LatestDef(S.list, d, j), S.list[d].bk => S.list[j].ak,
               S.list[j].ak /\ ~S.list[d].bk => Waits(S, j)
        PROVE  \E c : /\ LatestDef(T.list, c, j)
                      /\ T.list[c].bk => T.list[j].ak
                      /\ T.list[j].ak /\ ~T.list[c].bk => Waits(T, j)
    <3>1. LatestDef(T.list, d, j) /\ T.list[d] = S.list[d]
      BY <2>2, <1>4, <1>5
    <3> QED
      BY <3>1, <2>2, <1>1
  <2> QED
    BY <2>1, <2>2, <1>6
<1> QED
  BY <1>1, <1>7, FreshIs

\* Then neighbours agree or wait.
LEMMA MidLive ==
  ASSUME NEW T, ListInv(T.list), Mid(T)
  PROVE  Live(T)
<1> DEFINE m == T.list
<1>1. Nodes(m) /\ \A x \in Ops(m) : x \in Nat
  BY NodeIs DEF ListInv
<1> SUFFICES ASSUME NEW i \in Ops(m), NEW j \in Ops(m), Neighbours(m, i, j), Done(m, i)
             PROVE  /\ m[j].ak /\ ~KnownBefore(m[i]) => Waits(T, j)
                    /\ KnownBefore(m[i]) /\ ~m[j].ak => Waits(T, i)
  BY DEF Live
<1>2. /\ i < j /\ m[i].sort = "reg" /\ m[j].sort = "reg" /\ SameTarget(m[i], m[j])
      /\ \A k \in Ops(m) : i < k /\ k < j => ~SameTarget(m[k], m[j])
  BY RegTarget DEF Neighbours
<1>3. FreshAt(T, i) /\ FreshAt(T, j)
  BY <1>2, DoneAfter DEF Mid
<1>4. CASE m[i].kind = "def"
  <2>1. Defines(m, i, j)
    BY <1>2, <1>4 DEF Defines
  <2>2. PICK d : /\ LatestDef(m, d, j)
                 /\ m[d].bk => m[j].ak
                 /\ m[j].ak /\ ~m[d].bk => Waits(T, j)
    BY <1>2, <1>3, <2>1, FreshIs
  <2>3. d = i
    <3>1. i <= d /\ d \in Ops(m) /\ d < j /\ SameTarget(m[d], m[j])
      BY <2>1, <2>2 DEF LatestDef, Defines
    <3> QED
      BY <3>1, <1>1, <1>2
  <2> QED
    BY <2>2, <2>3, <1>4 DEF KnownBefore
<1>5. CASE m[i].kind # "def"
  <2>1. \A k : Defines(m, k, j) <=> Defines(m, k, i)
    <3>1. \A k \in Ops(m) : SameTarget(m[k], m[j]) <=> SameTarget(m[k], m[i])
      BY <1>2, RegTarget
    <3>2. ASSUME NEW k, Defines(m, k, j) PROVE Defines(m, k, i)
      <4>1. k \in Ops(m) /\ k < j /\ m[k].kind = "def" /\ SameTarget(m[k], m[j])
        BY <3>2 DEF Defines
      <4>2. k # i /\ ~(i < k)
        BY <4>1, <1>2, <1>5
      <4> QED
        BY <4>1, <4>2, <3>1, <1>1 DEF Defines
    <3>3. ASSUME NEW k, Defines(m, k, i) PROVE Defines(m, k, j)
      <4>1. k \in Ops(m) /\ k < i /\ m[k].kind = "def" /\ SameTarget(m[k], m[i])
        BY <3>3 DEF Defines
      <4>2. k < j
        BY <4>1, <1>1, <1>2
      <4> QED
        BY <4>1, <4>2, <3>1 DEF Defines
    <3> QED
      BY <3>2, <3>3
  <2>2. KnownBefore(m[i]) = m[i].ak
    BY <1>5 DEF KnownBefore
  <2>3. CASE \A k : ~Defines(m, k, j)
    <3>1. \A d : ~LatestDef(m, d, j) /\ ~LatestDef(m, d, i)
      BY <2>1, <2>3 DEF LatestDef
    <3>2. m[j].ak /\ m[i].ak
      BY <1>2, <1>3, <3>1, FreshIs
    <3> QED
      BY <2>2, <3>2
  <2>4. CASE \E k : Defines(m, k, j)
    <3>1. PICK d : /\ LatestDef(m, d, j)
                   /\ m[d].bk => m[j].ak
                   /\ m[j].ak /\ ~m[d].bk => Waits(T, j)
      BY <1>2, <1>3, <2>4, FreshIs
    <3>2. PICK c : /\ LatestDef(m, c, i)
                   /\ m[c].bk => m[i].ak
                   /\ m[i].ak /\ ~m[c].bk => Waits(T, i)
      BY <1>2, <1>3, <2>1, <2>4, FreshIs
    <3>3. c = d
      <4>1. c \in Ops(m) /\ d \in Ops(m) /\ c <= d /\ d <= c
        BY <3>1, <3>2, <2>1 DEF LatestDef, Defines
      <4> QED
        BY <4>1, <1>1
    <3> QED
      BY <2>2, <3>1, <3>2, <3>3
  <2> QED
    BY <2>3, <2>4
<1> QED
  BY <1>4, <1>5

\* And what is not defined later has the core dump's value.
LEMMA MidRooted ==
  ASSUME NEW T, ListInv(T.list), Mid(T),
         \A j \in Ops(T.list) : Done(T.list, j) => (T.list[1].inst.op = "ldr" => T.list[2].bk)
  PROVE  Rooted(T.list)
<1> DEFINE m == T.list
<1> SUFFICES ASSUME NEW j \in Ops(m), m[j].sort = "reg", Done(m, j),
                    \A k \in Ops(m) : k < j /\ m[k].kind = "def" /\ SameTarget(m[k], m[j]) => ~Done(m, k)
             PROVE  m[j].ak
  BY DEF Rooted
<1>1. FreshAt(T, j)
  BY DEF Mid
<1>2. CASE \A k : ~Defines(m, k, j)
  BY <1>1, <1>2, FreshIs DEF LatestDef
<1>3. CASE \E k : Defines(m, k, j)
  <2>1. PICK d : LatestDef(m, d, j) /\ (m[d].bk => m[j].ak)
    BY <1>1, <1>3, FreshIs
  <2>2. d \in Ops(m) /\ d < j /\ m[d].kind = "def" /\ m[d].sort = "reg" /\ ~Done(m, d)
    BY <2>1, RegTarget DEF LatestDef, Defines
  <2>3. d = 2 /\ m[1].inst.op = "ldr"
    BY <2>2, CrashDefinition
  <2> QED
    BY <2>1, <2>3
<1> QED
  BY <1>2, <1>3

\* The first nodes are as they were.
LEMMA PrefixNodes ==
  ASSUME NEW l, ListInv(l), NEW m, ListInv(m), Same(l, m, Len(l)), Len(l) + 1 \in Insts(m)
  PROVE  /\ Len(l) \in Nat /\ \A k \in 1..Len(l) : m[k] = l[k]
         /\ \A k : k \in Ops(m) /\ k <= Len(l) <=> k \in Ops(l)
         /\ \A j \in Ops(l) : m[j] = l[j] /\ (Done(m, j) <=> Done(l, j))
<1>1. Nodes(l) /\ Nodes(m)
  BY DEF ListInv
<1>2. l \in Seq(OpNode \cup InstRec) /\ m \in Seq(OpNode \cup InstRec)
  BY <1>1 DEF Nodes
<1>3. Len(l) \in Nat /\ Len(m) \in Nat /\ Len(l) + 1 <= Len(m)
  BY <1>1, <1>2, InstIs
<1>4. \A k \in 1..Len(l) : m[k] = l[k] /\ k \in 1..Len(m)
  BY <1>3 DEF Same
<1>5. \A k : k \in Ops(m) /\ k <= Len(l) <=> k \in Ops(l)
  BY <1>3, <1>4 DEF Ops
<1>6. \A j \in Ops(l) : m[j] = l[j] /\ (Done(m, j) <=> Done(l, j))
  <2> SUFFICES ASSUME NEW j \in Ops(l) PROVE m[j] = l[j] /\ (Done(m, j) <=> Done(l, j))
    OBVIOUS
  <2>1. j \in 1..Len(l) /\ l[j].home \in 1..Len(l)
    BY <1>1, NodeIs DEF Insts
  <2> QED
    BY <2>1, <1>4 DEF Done
<1> QED
  BY <1>3, <1>4, <1>5, <1>6

\* What an instruction has is as closed in the longer list.
LEMMA PrefixClosed ==
  ASSUME NEW l, ListInv(l), NEW m, ListInv(m), \A k \in 1..Len(l) : m[k] = l[k],
         NEW h \in Insts(l), h \in Insts(m)
  PROVE  Closed(m, h) <=> Closed(l, h)
<1>1. h \in 1..Len(l)
  BY DEF Insts
<1>2. h + 1 \in 1..Len(l) /\ h + 2 \in 1..Len(l) /\ (l[h].inst.op \in Arithmetic => h + 3 \in 1..Len(l))
  BY ThreeParts DEF Ops
<1>3. m[h] = l[h] /\ m[h + 1] = l[h + 1] /\ m[h + 2] = l[h + 2]
      /\ (l[h].inst.op \in Arithmetic => m[h + 3] = l[h + 3])
  BY <1>1, <1>2
<1> HIDE <1>1, <1>2
<1> QED
  BY <1>3, ClosedIs

\* Addresses that were computed stay the sums of their registers.
LEMMA PrefixAddresses ==
  ASSUME NEW S, ListInv(S.list), Addresses(S.list), NEW T, ListInv(T.list), Arrived(S, T),
         \A j \in Ops(S.list) : T.list[j] = S.list[j], Same(S.list, T.list, Len(S.list))
  PROVE  Addresses(T.list)
<1> DEFINE l == S.list
           m == T.list
<1>1. Nodes(l) /\ Nodes(m)
  BY DEF ListInv
<1> SUFFICES ASSUME NEW e \in Ops(m), m[e].sort = "mem", m[e].addr # 0, ~m[e].ak
             PROVE  Summed(m, e) /\ m[e].addr = Sum(m, e)
  BY DEF Addresses
<1>2. e \in Ops(l)
  BY DEF Arrived
<1>3. m[e] = l[e] /\ Summed(l, e) /\ l[e].addr = Sum(l, e)
  BY <1>2 DEF Addresses
<1>4. PICK h : h = l[e].home
  OBVIOUS
<1>5. h \in Insts(l) /\ e = h + 2 /\ l[h].inst.op \in {"ldr", "str"} /\ h \in Nat
  BY <1>1, <1>2, <1>3, <1>4, NodeIs, MemNode
<1>6. /\ e + 1 \in Ops(l) /\ (l[h].inst.c # "imm" => e + 2 \in Ops(l))
  BY <1>5, AccessIs
<1>7. m[h] = l[h]
  BY <1>5 DEF Insts, Same
<1>8. m[e + 1] = l[e + 1] /\ (l[h].inst.c # "imm" => m[e + 2] = l[e + 2])
  BY <1>6
<1> HIDE DEF l, m
<1>9. Summed(m, e)
  BY <1>3, <1>4, <1>7, <1>8 DEF Summed, AddressKnown
<1>10. Offset(m, e, l[h].inst) = Offset(l, e, l[h].inst)
  BY <1>8 DEF Offset
<1>11. Sum(m, e) = Sum(l, e)
  BY <1>3, <1>4, <1>7, <1>8, <1>10 DEF Sum
<1> QED
  BY <1>3, <1>9, <1>11

\* Handle leaves nothing unfinished that no worklist holds.
LEMMA HandleProg ==
  ASSUME NEW S, Inv(S), Prog(S), Quiet(S), NEW T, Inv(T), NEW h, h = Len(S.list) + 1,
         Same(S.list, T.list, Len(S.list)), T.instl = <<h>>, Insts(T.list) = Insts(S.list) \cup {h},
         T.list[h].index = 0 <=> S.list = <<>>, Longer(S.usel, T.usel), Longer(S.defl, T.defl),
         Arrived(S, T)
  PROVE  Prog(T)
<1> DEFINE l == S.list
           m == T.list
<1>1. /\ ListInv(l) /\ ListInv(m) /\ Nodes(l) /\ Nodes(m) /\ Shaped(l) /\ Shaped(m)
      /\ Live(S) /\ Owed(S) /\ Rooted(l) /\ CrashKnown(S) /\ Addresses(l)
  BY InvPlain DEF Prog
<1>2. /\ Len(l) \in Nat /\ \A k \in 1..Len(l) : m[k] = l[k]
      /\ \A k : k \in Ops(m) /\ k <= Len(l) <=> k \in Ops(l)
      /\ \A j \in Ops(l) : m[j] = l[j] /\ (Done(m, j) <=> Done(l, j))
  <2>1. Len(l) + 1 \in Insts(m)
    OBVIOUS
  <2>2. Same(l, m, Len(l))
    OBVIOUS
  <2> HIDE DEF l, m
  <2> QED
    BY <1>1, <2>1, <2>2, PrefixNodes
<1>3. \A k : Waits(S, k) => Waits(T, k)
  BY NoneWaits DEF Quiet
<1>4. Mid(T)
  <2> SUFFICES ASSUME NEW j \in Ops(m), Done(m, j) PROVE FreshAt(T, j)
    BY DEF Mid
  <2>1. CASE j \in Ops(l)
    <3>1. FreshAt(S, j)
      BY <2>1, <1>2, IdleMid DEF Mid
    <3> QED
      BY <2>1, <3>1, <1>1, <1>2, <1>3, FreshStays
  <2>2. CASE j \notin Ops(l)
    BY <2>2 DEF Arrived
  <2> QED
    BY <2>1, <2>2
<1>5. Live(T)
  BY <1>1, <1>4, MidLive
<1>6. Listed(T.instl, h)
  <2>1. 1 \in 1..Len(T.instl) /\ T.instl[1] = h
    OBVIOUS
  <2> QED
    BY <2>1 DEF Listed
<1>7. l # <<>> => 1 \in Insts(l)
  <2>1. l # <<>> => 1 \in 1..Len(l)
    BY <1>1 DEF Nodes
  <2> QED
    BY <2>1, <1>1 DEF Shaped, Insts
<1>8. l # <<>> => m[1] = l[1] /\ (m[1].inst.op = "ldr" => m[2].bk)
  <2> SUFFICES ASSUME l # <<>> PROVE m[1] = l[1] /\ (m[1].inst.op = "ldr" => m[2].bk)
    OBVIOUS
  <2>1. 1 \in 1..Len(l) /\ 2 \in 1..Len(l)
    <3>1. 1 + 1 \in Ops(l)
      BY <1>1, <1>7, ThreeParts
    <3> QED
      BY <3>1, <1>7 DEF Ops, Insts
  <2>2. ~Listed(S.instl, 1)
    BY DEF Quiet, Listed
  <2>3. l[1].inst.op = "ldr" => l[2].bk
    BY <2>2, <1>1 DEF CrashKnown
  <2> QED
    BY <2>1, <2>3, <1>2
<1>9. CrashKnown(T)
  <2>1. CASE l = <<>>
    <3>1. h = 1
      BY <2>1
    <3> QED
      BY <3>1, <1>6 DEF CrashKnown
  <2>2. CASE l # <<>>
    BY <2>2, <1>8 DEF CrashKnown
  <2> QED
    BY <2>1, <2>2
<1>10. Rooted(m)
  <2>1. ASSUME NEW j \in Ops(m), Done(m, j) PROVE l # <<>>
    <3> SUFFICES ASSUME l = <<>> PROVE FALSE
      OBVIOUS
    <3>1. Insts(l) = {}
      BY DEF Insts
    <3>2. m[j].home = h
      BY <3>1, <1>1, NodeIs
    <3> QED
      BY <3>2, <2>1 DEF Done
  <2>2. \A j \in Ops(m) : Done(m, j) => (m[1].inst.op = "ldr" => m[2].bk)
    BY <2>1, <1>8
  <2> QED
    BY <2>2, <1>1, <1>4, MidRooted
<1>11. Owed(T)
  <2> SUFFICES ASSUME NEW g \in Insts(m), g # h, m[g].index # 0 PROVE Closed(m, g)
    BY <1>6 DEF Owed
  <2>1. g \in Insts(l) /\ m[g] = l[g]
    BY <1>2 DEF Insts
  <2>2. ~Listed(S.instl, g) /\ \A j : ~Waits(S, j)
    BY NoneWaits DEF Quiet, Listed
  <2>3. Closed(l, g)
    BY <2>1, <2>2, <1>1 DEF Owed
  <2> QED
    BY <2>1, <2>3, <1>1, <1>2, PrefixClosed
<1>12. Addresses(m)
  BY <1>1, <1>2, PrefixAddresses
<1> QED
  BY <1>5, <1>9, <1>10, <1>11, <1>12 DEF Prog

-----------------------------------------------------------------------------
(* The steps. *)

\* Before the crash site is added there is nothing to infer.
LEMMA EmptyProg ==
  ASSUME NEW S, S.list = <<>>
  PROVE  Prog(S)
<1>1. Ops(S.list) = {} /\ Insts(S.list) = {}
  BY DEF Ops, Insts
<1> QED
  BY <1>1 DEF Prog, Live, Owed, Rooted, CrashKnown, Addresses

\* A step that adds an instruction.
LEMMA AddProg ==
  ASSUME IInv, Prog(re), pc = "idle", NEW m \in World, Ends(re.list, m),
         NEW i \in Code, NEW p \in World, NEW index, index = Cardinality(InstNodes),
         IF index = 0 THEN p = m /\ Faults(i, m) ELSE Executes(i, p, m)
  PROVE  Prog(Handle(i, index, p, m))
<1> DEFINE T == Handle(i, index, p, m)
           l == re.list
           h == Len(l) + 1
<1>1. /\ Env /\ Inv(re) /\ IsFiniteSet(InstNodes)
      /\ re.usel = <<>> /\ re.defl = <<>> /\ re.instl = <<>>
  BY DEF IInv, Ready
<1>2. Nodes(l) /\ Shaped(l)
  BY <1>1, InvPlain
<1>3. index \in Nat /\ (index = 0 <=> InstNodes = {})
  BY <1>1, FS_CardinalityType, FS_EmptySet
<1>4. InstNodes = {} <=> l = <<>>
  <2>1. l = <<>> => InstNodes = {}
    BY DEF InstNodes
  <2>2. l # <<>> => 1 \in InstNodes
    BY <1>2 DEF InstNodes, Shaped, Nodes
  <2> QED
    BY <2>1, <2>2
<1>5. /\ Inv(T) /\ Same(l, T.list, Len(l))
      /\ T.instl = <<h>> /\ Insts(T.list) = Insts(l) \cup {h} /\ T.list[h].index = index
      /\ Longer(re.usel, T.usel) /\ Longer(re.defl, T.defl) /\ Arrived(re, T)
  BY <1>1, <1>3, <1>4, HandleIs
<1>6. Quiet(re)
  BY <1>1 DEF Quiet
<1> HIDE DEF T
<1>7. PICK k : k = h
  OBVIOUS
<1>8. Prog(T)
  BY <1>1, <1>3, <1>4, <1>5, <1>6, HandleProg
<1> QED
  BY <1>8 DEF T

\* AddCrashSite.
LEMMA CrashProg ==
  ASSUME IInv, Prog(re), NEW i \in Code, AddCrashSite(i)
  PROVE  Prog(re)'
<1>1. /\ pc = "idle" /\ re.list = <<>> /\ Faults(i, core) /\ re' = Handle(i, 0, core, core)
  BY DEF AddCrashSite
<1>2. InstNodes = {}
  BY <1>1 DEF InstNodes
<1>3. Cardinality(InstNodes) = 0
  BY <1>2, FS_EmptySet
<1>4. core \in World /\ Ends(re.list, core)
  BY <1>1 DEF IInv
<1>5. Prog(Handle(i, 0, core, core))
  BY <1>1, <1>3, <1>4, AddProg
<1> QED
  BY <1>1, <1>5

\* AddInst.
LEMMA AddInstProg ==
  ASSUME IInv, Prog(re), NEW i \in Code, AddInst(i)
  PROVE  Prog(re)'
<1>1. pc = "idle" /\ re.list # <<>>
  BY DEF AddInst
<1>2. PICK p \in Predecessors(i, world) :
        world' = p /\ re' = Handle(i, Cardinality(InstNodes), p, world)
  BY DEF AddInst
<1>3. Executes(i, p, world)
  BY <1>2 DEF Predecessors
<1>4. world \in World /\ Ends(re.list, world) /\ Inv(re) /\ IsFiniteSet(InstNodes)
  BY DEF IInv
<1>5. p \in World
  <2>0. i.r \in Reg
    BY ReverseExecAssumption DEF Instruction
  <2>1. \A v \in Val : [world EXCEPT !.reg[i.r] = v] \in World
    BY <2>0, <1>4 DEF World
  <2>2. \A a \in Ram, v \in Val : [world EXCEPT !.mem[a] = v] \in World
    BY <1>4 DEF World
  <2> QED
    BY <2>1, <2>2, <1>2 DEF Predecessors
<1>6. Cardinality(InstNodes) # 0
  <2>1. Nodes(re.list) /\ Shaped(re.list)
    BY <1>4, InvPlain
  <2>2. 1 \in InstNodes
    BY <2>1, <1>1 DEF InstNodes, Shaped, Nodes
  <2> QED
    BY <2>2, <1>4, FS_EmptySet
<1>7. PICK index : index = Cardinality(InstNodes)
  OBVIOUS
<1>8. Prog(Handle(i, index, p, world))
  BY <1>1, <1>3, <1>4, <1>5, <1>6, <1>7, AddProg
<1> QED
  BY <1>2, <1>7, <1>8

\* ResolveUse.
LEMMA UseProg ==
  ASSUME IInv, Prog(re), ResolveUse
  PROVE  Prog(re)' /\ Lighter(re', re)
<1>1. PICK e : e = Head(re.usel)
  OBVIOUS
<1>2. PICK T : T = resolve_use(re, e)
  OBVIOUS
<1>3. PICK V : V = UseTaken(T)
  OBVIOUS
<1>4. pc = "use" /\ re' = V
  BY <1>1, <1>2, <1>3 DEF ResolveUse, UseTaken
<1>5. Env /\ Inv(re) /\ re.usel # <<>> /\ re.usel \in Seq(UseReady(re.list))
  BY <1>4 DEF IInv, Ready, Inv, Queues
<1>6. e \in UseReady(re.list) /\ e \in Ops(re.list)
  BY <1>1, <1>5 DEF UseReady
<1>7. Inv(T)
  BY <1>2, <1>5, <1>6, ResolveUse1
<1>8. Spread(re, T, e)
  BY <1>2, <1>5, <1>6, InvPlain, UseSpread
<1>9. Structure(T)
  BY <1>7, InvPlain DEF Plain
<1>10. V.list = T.list /\ V.usel = Tail(T.usel) /\ V.defl = T.defl /\ V.instl = T.instl
  BY <1>3, <1>9, TakenFields
<1>11. TakenFrom(re, T, V, e)
  BY <1>1, <1>5, <1>10 DEF TakenFrom
<1>12. Prog(V) /\ Lighter(V, re)
  BY <1>5, <1>6, <1>7, <1>8, <1>10, <1>11, OperandProg
<1> QED
  BY <1>4, <1>12

\* ResolveDefine.
LEMMA DefineProg ==
  ASSUME IInv, Prog(re), ResolveDefine
  PROVE  Prog(re)' /\ Lighter(re', re)
<1>1. PICK e : e = Head(re.defl)
  OBVIOUS
<1>2. PICK T : T = resolve_define(re, e)
  OBVIOUS
<1>3. PICK V : V = DefTaken(T)
  OBVIOUS
<1>4. pc = "def" /\ re' = V
  BY <1>1, <1>2, <1>3 DEF ResolveDefine, DefTaken
<1>5. Env /\ Inv(re) /\ re.defl # <<>> /\ re.defl \in Seq(DefReady(re.list))
  BY <1>4 DEF IInv, Ready, Inv, Queues
<1>6. e \in DefReady(re.list) /\ e \in Ops(re.list)
  BY <1>1, <1>5 DEF DefReady
<1>7. Inv(T)
  BY <1>2, <1>5, <1>6, ResolveDefine1
<1>8. Spread(re, T, e)
  BY <1>2, <1>5, <1>6, InvPlain, DefineSpread
<1>9. Structure(T)
  BY <1>7, InvPlain DEF Plain
<1>10. V.list = T.list /\ V.usel = T.usel /\ V.defl = Tail(T.defl) /\ V.instl = T.instl
  BY <1>3, <1>9, TakenFields
<1>11. TakenFrom(re, T, V, e)
  BY <1>1, <1>5, <1>10 DEF TakenFrom
<1>12. Prog(V) /\ Lighter(V, re)
  BY <1>5, <1>6, <1>7, <1>8, <1>10, <1>11, OperandProg
<1> QED
  BY <1>4, <1>12

\* ResolveInst.
LEMMA InstStepProg ==
  ASSUME IInv, Prog(re), ResolveInst
  PROVE  Prog(re)' /\ Lighter(re', re)
<1>1. PICK h : h = Head(re.instl)
  OBVIOUS
<1>2. PICK g \in Val : re' = InstTaken(resolve_inst(re, h, g))
  BY <1>1 DEF ResolveInst, InstTaken
<1>3. PICK T : T = resolve_inst(re, h, g)
  OBVIOUS
<1>4. PICK V : V = InstTaken(T)
  OBVIOUS
<1>5. pc = "inst" /\ re' = V
  BY <1>2, <1>3, <1>4 DEF ResolveInst
<1>6. Env /\ Inv(re) /\ re.instl # <<>> /\ re.instl \in Seq(Insts(re.list))
  BY <1>5 DEF IInv, Ready, Inv, Queues
<1>7. h \in Insts(re.list)
  BY <1>1, <1>6
<1>8. Inv(T)
  BY <1>3, <1>6, <1>7, ResolveInst1
<1>9. Structure(T)
  BY <1>8, InvPlain DEF Plain
<1>10. V.list = T.list /\ V.usel = T.usel /\ V.defl = T.defl /\ V.instl = Tail(T.instl)
  BY <1>4, <1>9, TakenFields
<1>11. Prog(V) /\ Lighter(V, re)
  BY <1>1, <1>3, <1>6, <1>10, InstProg
<1> QED
  BY <1>5, <1>11

\* The second loop only adds to the worklists.
LEMMA AgainProg ==
  ASSUME IInv, Prog(re), ResolveAgain
  PROVE  Prog(re)'
<1>1. PICK q : re' = [re EXCEPT !.instl = q]
  BY DEF ResolveAgain
<1>2. pc = "idle" /\ re.instl = <<>> /\ Inv(re)
  BY DEF ResolveAgain, IInv, Ready
<1>3. PICK V : V = [re EXCEPT !.instl = q]
  OBVIOUS
<1>4. V = State(re.list, re.usel, re.defl, q, re.umem, re.bad)
  BY <1>2, <1>3, SetIs, InvPlain DEF Plain
<1>5. V.list = re.list /\ V.usel = re.usel /\ V.defl = re.defl
  BY <1>4, StateIs
<1>6. \A h : ~Listed(re.instl, h)
  BY <1>2 DEF Listed
<1>7. Live(V) /\ Owed(V) /\ CrashKnown(V)
  BY <1>5, <1>6 DEF Prog, Live, Owed, CrashKnown, Waits
<1>8. Prog(V)
  BY <1>5, <1>7 DEF Prog
<1> QED
  BY <1>1, <1>3, <1>8

\* The inductive invariant.
ProgInv == IInv /\ Prog(re)

\* Every step keeps it, and a step of re_resolve leaves less to do.
LEMMA ProgStepping ==
  ASSUME ProgInv, [Next]_vars
  PROVE  ProgInv' /\ [pc # "idle" => Lighter(re', re)]_vars
<1>1. IInv /\ Prog(re)
  BY DEF ProgInv
<1>2. IInv'
  BY <1>1, Stepping
<1>3. ASSUME NEW i \in Code, AddCrashSite(i) PROVE Prog(re)' /\ pc = "idle"
  BY <1>1, <1>3, CrashProg DEF AddCrashSite
<1>4. ASSUME NEW i \in Code, AddInst(i) PROVE Prog(re)' /\ pc = "idle"
  BY <1>1, <1>4, AddInstProg DEF AddInst
<1>5. ASSUME ResolveUse PROVE Prog(re)' /\ Lighter(re', re)
  BY <1>1, <1>5, UseProg
<1>6. ASSUME ResolveDefine PROVE Prog(re)' /\ Lighter(re', re)
  BY <1>1, <1>6, DefineProg
<1>7. ASSUME ResolveInst PROVE Prog(re)' /\ Lighter(re', re)
  BY <1>1, <1>7, InstStepProg
<1>8. ASSUME StartResolving PROVE Prog(re)' /\ pc = "idle"
  BY <1>1, <1>8 DEF StartResolving
<1>9. ASSUME ResolveAgain PROVE Prog(re)' /\ pc = "idle"
  BY <1>1, <1>9, AgainProg DEF ResolveAgain
<1>10. ASSUME Finish PROVE Prog(re)' /\ pc = "idle"
  BY <1>1, <1>10 DEF Finish
<1>11. ASSUME UNCHANGED vars PROVE Prog(re)'
  BY <1>1, <1>11 DEF vars
<1>12. Prog(re)'
  BY <1>3, <1>4, <1>5, <1>6, <1>7, <1>8, <1>9, <1>10, <1>11 DEF Next
<1>13. [pc # "idle" => Lighter(re', re)]_vars
  BY <1>3, <1>4, <1>5, <1>6, <1>7, <1>8, <1>9, <1>10 DEF Next
<1> QED
  BY <1>2, <1>12, <1>13 DEF ProgInv

\* It holds throughout.
LEMMA ProgAlways == Spec => []ProgInv
<1>1. Init => ProgInv
  <2> SUFFICES ASSUME Init PROVE ProgInv
    OBVIOUS
  <2>1. re.list = <<>>
    BY DEF Init
  <2> QED
    BY <2>1, Initially, EmptyProg DEF ProgInv
<1>2. ProgInv /\ [Next]_vars => ProgInv'
  BY ProgStepping
<1> QED
  BY <1>1, <1>2, PTL DEF Spec

\* When nothing waits the live ranges are closed.
LEMMA ClosedRanges ==
  ASSUME NEW S, Inv(S), Live(S), Quiet(S), NEW i \in Ops(S.list), NEW j \in Ops(S.list),
         i < j, Done(S.list, i), S.list[i].sort = "reg", SameTarget(S.list[i], S.list[j]),
         \A m \in (i + 1)..(j - 1) : m \in Ops(S.list) => ~SameTarget(S.list[m], S.list[i])
  PROVE  S.list[j].ak = IF S.list[i].kind = "def" THEN S.list[i].bk ELSE S.list[i].ak
<1> DEFINE l == S.list
<1>1. Nodes(l) /\ \A k \in Ops(l) : k \in Nat
  BY InvPlain, NodeIs
<1>2. Neighbours(l, i, j)
  <2> SUFFICES ASSUME NEW k \in Ops(l), i < k, k < j PROVE k \in (i + 1)..(j - 1)
    BY DEF Neighbours
  <2> QED
    BY <1>1
<1>3. \A k : ~Waits(S, k)
  BY NoneWaits DEF Quiet
<1>4. /\ ~(l[j].ak /\ ~KnownBefore(l[i]))
      /\ ~(KnownBefore(l[i]) /\ ~l[j].ak)
  BY <1>2, <1>3 DEF Live
<1>5. l[i].ak \in BOOLEAN /\ l[i].bk \in BOOLEAN /\ l[j].ak \in BOOLEAN
  BY <1>1, NodeIs DEF OpNode
<1>6. KnownBefore(l[i]) = IF l[i].kind = "def" THEN l[i].bk ELSE l[i].ak
  BY DEF KnownBefore
<1>7. KnownBefore(l[i]) \in BOOLEAN
  BY <1>5 DEF KnownBefore
<1> HIDE DEF l
<1>8. l[j].ak = KnownBefore(l[i])
  BY <1>4, <1>5, <1>7
<1> QED
  BY <1>6, <1>8 DEF l

\* The invariant implies that the engine ends with nothing left to infer.
LEMMA NothingLeftIs == ProgInv => NothingLeftToInfer
<1> SUFFICES ASSUME ProgInv, pc = "idle"
             PROVE  /\ LiveRangeClosed
                    /\ \A h \in InstNodes : re.list[h].index # 0 => InstructionClosed(h)
  BY DEF NothingLeftToInfer
<1>1. /\ Inv(re) /\ Live(re) /\ Owed(re) /\ Quiet(re)
      /\ OperandNodes = Ops(re.list) /\ InstNodes = Insts(re.list)
  BY NodesAre DEF ProgInv, IInv, Prog, Ready, Quiet, InstNodes, Insts
<1>2. LiveRangeClosed
  <2> SUFFICES ASSUME NEW i \in Ops(re.list), NEW j \in Ops(re.list), i < j, Executed(i),
                      re.list[i].sort = "reg", SameTarget(re.list[i], re.list[j]),
                      \A m \in (i + 1)..(j - 1) :
                         m \in Ops(re.list) => ~SameTarget(re.list[m], re.list[i])
               PROVE  re.list[j].ak = IF re.list[i].kind = "def" THEN re.list[i].bk
                                      ELSE re.list[i].ak
    BY <1>1 DEF LiveRangeClosed
  <2>1. Done(re.list, i)
    BY DEF Executed, Done
  <2> QED
    BY <2>1, <1>1, ClosedRanges
<1>3. ASSUME NEW h \in InstNodes, re.list[h].index # 0 PROVE InstructionClosed(h)
  <2>1. ~Listed(re.instl, h) /\ \A j : ~Waits(re, j)
    BY <1>1, NoneWaits DEF Quiet, Listed
  <2>2. Closed(re.list, h)
    BY <1>1, <1>3, <2>1 DEF Owed
  <2> QED
    BY <2>2 DEF Closed, InstructionClosed
<1> QED
  BY <1>2, <1>3

-----------------------------------------------------------------------------
(* Theorems. *)

\* Whenever the worklists are empty there is nothing left to infer along a register or
\* within an executed instruction: add_to_uselist, add_to_deflist, check_inst_resolution
\* and the values set without them miss no wake-up, whatever the trace, the build and the
\* core dump.
THEOREM NothingIsLeft == Spec => []NothingLeftToInfer
  BY ProgAlways, NothingLeftIs, PTL

\* Every entry that re_resolve takes off a worklist leaves less to do, by a measure of
\* unknowns and entries: the loops of re_resolve end on every trace.
THEOREM WorkAlwaysDecreases == Spec => WorkDecreases
<1>1. ProgInv /\ [Next]_vars => [pc # "idle" => Lighter(re', re)]_vars
  BY ProgStepping
<1> QED
  BY <1>1, ProgAlways, PTL DEF Spec, WorkDecreases

=============================================================================
