----------------------------- MODULE NvicProofs -----------------------------
(***************************************************************************)
(* Proofs about the interrupt controller, for every set of external        *)
(* exceptions, every configuration and every choice of priorities.         *)
(*                                                                         *)
(* The first two theorems follow from one inductive invariant, IInv.  Its  *)
(* core, GoodPair, is HandlerModeConsistent without the proviso that the   *)
(* run goes on; Cached says as much of the lazily recalculated fields as   *)
(* makes sure that an exception entry enters a real exception.             *)
(*                                                                         *)
(* Type correctness builds on it: no priority in a cache leaves its range, *)
(* and the limit on interrupts is never exceeded by more than the one      *)
(* entry that a single ICSR write can add after it is reached.             *)
(*                                                                         *)
(* What the controller keeps beside the flags comes last.  The lazily      *)
(* recalculated fields are exact, provided that no exception above every   *)
(* enabled one is pended, and the early exit of the block hook loses no    *)
(* activation.  The list of interrupts offered to the fuzzer is exact      *)
(* after enables and disables in any order: it lists the enabled ones, in  *)
(* ascending order.                                                        *)
(***************************************************************************)
EXTENDS Nvic, FiniteSetTheorems, WellFoundedInduction, TLAPS

NvicType ==
  [enabled : SUBSET Exc, active : SUBSET Exc, pending : SUBSET Exc,
   priority : [Exc -> -2..255], prigroup : 0..7, highestEver : Exc,
   activeGroupPrio : Int, activeIrq : Exc \cup {NONE},
   pendingPrio : Int, pendingIrq : Exc \cup {NONE},
   numActive : Int, prevPrimask : BOOLEAN, prevBasepri : Int,
   interruptCount : Int]

CpuType ==
  [ipsr : Exc \cup {NONE}, psp : BOOLEAN, primask : BOOLEAN, basepri : 0..255,
   lr : [thread : BOOLEAN, psp : BOOLEAN],
   stacks : [main : Seq(Exc \cup {NONE}), process : Seq(Exc \cup {NONE})],
   exit : {"no", "limit", "crash", "inconsistent", "reset", "notSvc"}]

\* What a recalculation leaves in the fields it sets.
Cached(n) ==
  /\ n.pendingIrq \in Scanned(n) \cup {NONE}
  /\ n.pendingIrq = NONE => n.pendingPrio = LOWEST
  /\ n.activeGroupPrio <= LOWEST
  /\ n.numActive = Cardinality(n.active)

\* The active flags of one handler, or of none.
OneActive(n) ==
  /\ n.active = {n.activeIrq} \ {NONE}
  /\ n.activeIrq \in Scanned(n) \cup {NONE}

\* One frame, of thread mode, on the stack the link register names.
Framed(c) ==
  /\ c.lr.thread /\ ~c.psp
  /\ c.stacks = IF c.lr.psp THEN [main |-> << >>, process |-> <<NONE>>]
                            ELSE [main |-> <<NONE>>, process |-> << >>]

Stacked(n, c) ==
  /\ c.ipsr = n.activeIrq
  /\ IF n.activeIrq = NONE THEN c.stacks = [main |-> << >>, process |-> << >>]
                           ELSE Framed(c)

Good(n) == n \in NvicType /\ Cached(n) /\ OneActive(n)

\* The controller n together with the CPU c.
GoodPair(n, c) ==
  /\ Good(n) /\ c \in CpuType
  /\ c.exit # "inconsistent"
  /\ c.exit = "no" => Stacked(n, c)

IInv == GoodPair(nvic, cpu)

-----------------------------------------------------------------------------
(* Exceptions are natural numbers, so a least one exists in every set. *)

LEMMA ExcNat == Exc \subseteq 0..255 /\ NONE \notin Exc
  BY ExtAssumption DEF Exc, NMI, SVC, PENDSV, SYSTICK, NONE

LEMMA LeastNat ==
  ASSUME NEW S, S \subseteq Nat, S # {}
  PROVE  \E m \in S : \A k \in S : m <= k
<1> DEFINE R == OpToRel(<, Nat)
<1>1. IsWellFoundedOn(R, Nat)
  BY NatLessThanWellFounded
<1> HIDE DEF R
<1>2. \E x \in S : \A y \in S : ~ (<<y, x>> \in R)
  BY <1>1, WFMin
<1>3. \A x, y \in Nat : <<y, x>> \in R <=> y < x
  BY DEF R, OpToRel
<1>4. PICK m \in S : \A k \in S : ~ (<<k, m>> \in R)
  BY <1>2
<1>5. ASSUME NEW k \in S PROVE m <= k
  <2>1. m \in Nat /\ k \in Nat
    OBVIOUS
  <2>2. ~(k < m)
    BY <1>3, <1>4, <2>1
  <2> QED
    BY <2>1, <2>2
<1> QED
  BY <1>5

\* There is a best one among any pending exceptions: least in the order
\* (priority, number), which the number 256 * priority + number encodes.
LEMMA BestExists ==
  ASSUME NEW n \in NvicType, NEW P, P \subseteq Exc, P # {}
  PROVE  \E e \in P : \A f \in P : Beats(n, e, f)
<1> DEFINE Key(e) == 256 * (n.priority[e] + 2) + e
           K == {Key(e) : e \in P}
<1>1. \A e \in P : e \in 0..255 /\ n.priority[e] \in -2..255
  BY ExcNat DEF NvicType
<1>2. \A e \in P : Key(e) \in Nat
  <2> HIDE DEF K
  <2>1. \A a \in -2..255, b \in 0..255 : 256 * (a + 2) + b \in Nat
    OBVIOUS
  <2> QED
    BY <1>1, <2>1
<1>3. PICK e \in P : \A f \in P : Key(e) <= Key(f)
  <2> HIDE DEF Key
  <2>1. K \subseteq Nat /\ K # {}
    BY <1>2
  <2>2. \E m \in K : \A k \in K : m <= k
    <3> HIDE DEF K
    <3> QED
      BY <2>1, LeastNat
  <2>3. PICK m \in K : \A k \in K : m <= k
    BY <2>2
  <2>4. PICK e \in P : m = Key(e)
    BY <2>3
  <2>5. \A f \in P : Key(f) \in K
    OBVIOUS
  <2> QED
    BY <2>3, <2>4, <2>5
<1>4. \A a, b \in -2..255, x, y \in 0..255 :
        256 * (a + 2) + x <= 256 * (b + 2) + y => a < b \/ (a = b /\ x <= y)
  <2> HIDE DEF Key, K
  <2> QED
    OBVIOUS
<1>5. \A f \in P : Beats(n, e, f)
  <2> HIDE DEF K
  <2> TAKE f \in P
  <2>1. /\ n.priority[e] \in -2..255 /\ e \in 0..255
        /\ n.priority[f] \in -2..255 /\ f \in 0..255
    BY <1>1
  <2>2. 256 * (n.priority[e] + 2) + e <= 256 * (n.priority[f] + 2) + f
    BY <1>3
  <2>3. \/ n.priority[e] < n.priority[f]
        \/ (n.priority[e] = n.priority[f] /\ e <= f)
    <3> HIDE DEF Key
    <3> QED
      BY <1>4, <2>1, <2>2
  <2> QED
    BY <2>3 DEF Beats
<1> QED
  BY <1>5

\* There is a greatest exception in any set of them.
LEMMA GreatestExc ==
  ASSUME NEW S, S \subseteq Exc, S # {}
  PROVE  \E t \in S : \A f \in S : f <= t
<1> DEFINE K == {255 - e : e \in S}
<1>1. \A e \in S : e \in 0..255
  BY ExcNat
<1>2. K \subseteq Nat /\ K # {}
  BY <1>1
<1>3. PICK m \in K : \A k \in K : m <= k
  <2> HIDE DEF K
  <2> QED
    BY <1>2, LeastNat
<1>4. PICK t \in S : m = 255 - t
  BY <1>3
<1>5. \A f \in S : 255 - f \in K
  OBVIOUS
<1> HIDE DEF K
<1> QED
  BY <1>1, <1>3, <1>4, <1>5

\* Rounding a priority down to its group.
LEMMA GroupPrioBounds ==
  ASSUME NEW n \in NvicType, NEW p \in -2..255
  PROVE  GroupPrio(n, p) \in Int /\ GroupPrio(n, p) <= p /\ GroupPrio(n, p) >= p - 255
<1>1. GroupSize(n) \in {2, 4, 8, 16, 32, 64, 128, 256}
  BY DEF GroupSize, NvicType
<1>2. \A g \in {2, 4, 8, 16, 32, 64, 128, 256} : p % g \in 0..(g - 1)
  OBVIOUS
<1> QED
  BY <1>1, <1>2 DEF GroupPrio

LEMMA BestActivePrioBounds ==
  ASSUME NEW n \in NvicType
  PROVE  BestActivePrio(n) \in Int /\ BestActivePrio(n) <= LOWEST
<1> DEFINE A == {GroupPrio(n, n.priority[e]) : e \in n.active \cap Scanned(n)}
           K == {a + 300 : a \in A}
<1>1. \A a \in A : a \in Int /\ a <= 255 /\ a >= -257
  <2>1. \A e \in n.active \cap Scanned(n) : n.priority[e] \in -2..255
    BY DEF NvicType, Scanned
  <2> QED
    BY <2>1, GroupPrioBounds
<1>2. BestActivePrio(n) = IF A = {} THEN LOWEST
                          ELSE CHOOSE p \in A : \A q \in A : p <= q
  BY DEF BestActivePrio
<1> HIDE DEF A
<1>3. CASE A = {}
  BY <1>2, <1>3 DEF LOWEST
<1>4. CASE A # {}
  <2>1. K \subseteq Nat /\ K # {}
    BY <1>1, <1>4
  <2>2. PICK m \in K : \A k \in K : m <= k
    <3> HIDE DEF K
    <3> QED
      BY <2>1, LeastNat
  <2>3. PICK p \in A : m = p + 300
    BY <2>2
  <2>4. \A q \in A : q + 300 \in K
    OBVIOUS
  <2> HIDE DEF K
  <2>5. \A q \in A : p <= q
    BY <1>1, <2>2, <2>3, <2>4
  <2> QED
    BY <1>1, <1>2, <1>4, <2>5 DEF LOWEST
<1> QED
  BY <1>3, <1>4

LEMMA FiniteActive ==
  ASSUME NEW A \in SUBSET Exc
  PROVE  Cardinality(A) \in Nat
<1>1. IsFiniteSet(0..255)
  <2>1. 0 \in Int /\ 255 \in Int
    OBVIOUS
  <2> QED
    BY <2>1, FS_Interval, Zenon
<1>2. IsFiniteSet(A)
  BY <1>1, ExcNat, FS_Subset
<1> QED
  BY <1>2, FS_CardinalityType

-----------------------------------------------------------------------------
(* What the operators of the controller do to it. *)

\* A recalculation sets the cached fields and no other.
LEMMA RecalcPriosGood ==
  ASSUME NEW n \in NvicType, n.active \subseteq Scanned(n)
  PROVE  LET r == RecalcPrios(n)
         IN /\ r \in NvicType /\ Cached(r)
            /\ r.active = n.active /\ r.activeIrq = n.activeIrq
            /\ Scanned(r) = Scanned(n)
<1> DEFINE r == RecalcPrios(n)
<1>1. BestPending(n) \in (Scanned(n) \cap n.pending) \cup {NONE}
  <2> DEFINE P == n.pending \cap Scanned(n)
  <2>1. P \subseteq Exc
    BY DEF NvicType
  <2>2. P # {} => \E e \in P : \A f \in P : Beats(n, e, f)
    <3> HIDE DEF P
    <3> QED
      BY <2>1, BestExists
  <2>3. BestPending(n) = IF P = {} THEN NONE
                         ELSE CHOOSE e \in P : \A f \in P : Beats(n, e, f)
    BY DEF BestPending
  <2>4. BestPending(n) \in P \cup {NONE}
    <3> HIDE DEF P
    <3> QED
      BY <2>2, <2>3
  <2> QED
    BY <2>4
<1>2. BestActivePrio(n) \in Int /\ BestActivePrio(n) <= LOWEST
  BY BestActivePrioBounds
<1>3. n.active \cap Scanned(n) = n.active /\ Cardinality(n.active) \in Nat
  BY FiniteActive DEF NvicType
<1>4. BestPending(n) # NONE => BestPending(n) \in Exc /\ n.priority[BestPending(n)] \in Int
  BY <1>1 DEF Scanned, NvicType
<1>5. r \in NvicType
  <2> DEFINE pp == IF BestPending(n) = NONE THEN LOWEST ELSE n.priority[BestPending(n)]
             pb == IF Surpasses(n, pp, BestActivePrio(n)) THEN -1 ELSE n.prevBasepri
  <2>1. pp \in Int /\ pb \in Int /\ BestPending(n) \in Exc \cup {NONE}
    BY <1>1, <1>4 DEF LOWEST, Scanned, NvicType
  <2>2. r = [n EXCEPT !.numActive = Cardinality(n.active),
                      !.activeGroupPrio = BestActivePrio(n),
                      !.pendingPrio = pp, !.pendingIrq = BestPending(n),
                      !.prevBasepri = pb]
    BY <1>3 DEF RecalcPrios, NvicType
  <2>3. ASSUME NEW k \in Int, NEW ap \in Int, NEW p \in Int,
               NEW e \in Exc \cup {NONE}, NEW b \in Int
        PROVE  [n EXCEPT !.numActive = k, !.activeGroupPrio = ap, !.pendingPrio = p,
                         !.pendingIrq = e, !.prevBasepri = b] \in NvicType
    <3> HIDE DEF pp, pb, r
    <3> QED
      BY DEF NvicType
  <2> HIDE DEF pp, pb, r
  <2>4. Cardinality(n.active) \in Int
    BY <1>3
  <2> QED
    BY <1>2, <2>1, <2>2, <2>3, <2>4, Zenon
<1>6. /\ r.active = n.active /\ r.activeIrq = n.activeIrq
      /\ r.highestEver = n.highestEver
      /\ r.pendingIrq = BestPending(n)
      /\ r.pendingPrio = IF r.pendingIrq = NONE THEN LOWEST ELSE n.priority[r.pendingIrq]
      /\ r.activeGroupPrio = BestActivePrio(n)
      /\ r.numActive = Cardinality(n.active)
  BY <1>3 DEF RecalcPrios, NvicType
<1> HIDE DEF r
<1>7. Scanned(r) = Scanned(n)
  BY <1>6 DEF Scanned
<1>8. Cached(r)
  BY <1>1, <1>2, <1>6, <1>7 DEF Cached
<1> QED
  BY <1>5, <1>6, <1>7, <1>8 DEF r

LEMMA RecalcGood ==
  ASSUME NEW n \in NvicType, OneActive(n)
  PROVE  Good(RecalcPrios(n)) /\ RecalcPrios(n).activeIrq = n.activeIrq
<1>1. n.active \subseteq Scanned(n)
  BY DEF OneActive
<1> QED
  BY <1>1, RecalcPriosGood DEF Good, OneActive

LEMMA PendInterruptGood ==
  ASSUME NEW n, Good(n), NEW e \in Exc
  PROVE  Good(PendInterrupt(n, e)) /\ PendInterrupt(n, e).activeIrq = n.activeIrq
<1> DEFINE m == [n EXCEPT !.pending = @ \cup {e}]
<1>1. m \in NvicType /\ OneActive(m) /\ Cached(m) /\ m.activeIrq = n.activeIrq
  BY DEF Good, NvicType, OneActive, Cached, Scanned
<1>2. Good(RecalcPrios(m)) /\ RecalcPrios(m).activeIrq = n.activeIrq
  BY <1>1, RecalcGood
<1>3. PendInterrupt(n, e) \in {n, m, RecalcPrios(m)}
  BY DEF PendInterrupt
<1> QED
  BY <1>1, <1>2, <1>3 DEF Good

LEMMA ClearPendInterruptGood ==
  ASSUME NEW n, Good(n), NEW e \in Exc
  PROVE  Good(ClearPendInterrupt(n, e)) /\ ClearPendInterrupt(n, e).activeIrq = n.activeIrq
<1> DEFINE m == [n EXCEPT !.pending = @ \ {e}]
<1>1. m \in NvicType /\ OneActive(m) /\ Cached(m) /\ m.activeIrq = n.activeIrq
  BY DEF Good, NvicType, OneActive, Cached, Scanned
<1>2. Good(RecalcPrios(m)) /\ RecalcPrios(m).activeIrq = n.activeIrq
  BY <1>1, RecalcGood
<1>3. ClearPendInterrupt(n, e) \in {n, m, RecalcPrios(m)}
  BY DEF ClearPendInterrupt
<1> QED
  BY <1>1, <1>2, <1>3 DEF Good

LEMMA DisableIrqGood ==
  ASSUME NEW n, Good(n), NEW e \in Exc
  PROVE  Good(DisableIrq(n, e)) /\ DisableIrq(n, e).activeIrq = n.activeIrq
<1> DEFINE m == [n EXCEPT !.enabled = @ \ {e}]
<1>1. m \in NvicType /\ OneActive(m) /\ Cached(m) /\ m.activeIrq = n.activeIrq
  BY DEF Good, NvicType, OneActive, Cached, Scanned
<1>2. Good(RecalcPrios(m)) /\ RecalcPrios(m).activeIrq = n.activeIrq
  BY <1>1, RecalcGood
<1>3. DisableIrq(n, e) \in {n, m, RecalcPrios(m)}
  BY DEF DisableIrq
<1> QED
  BY <1>1, <1>2, <1>3 DEF Good

\* Enabling only widens the range of exceptions scanned.
LEMMA EnableIrqsGood ==
  ASSUME NEW n, Good(n), NEW S \in SUBSET Exc
  PROVE  Good(EnableIrqs(n, S)) /\ EnableIrqs(n, S).activeIrq = n.activeIrq
<1> DEFINE T == NewlyEnabled(n, S) \cup {n.highestEver}
           t == CHOOSE x \in T : \A f \in T : f <= x
           r == [n EXCEPT !.enabled = @ \cup NewlyEnabled(n, S), !.highestEver = t]
<1>1. T \subseteq Exc /\ T # {} /\ NewlyEnabled(n, S) \in SUBSET Exc
  BY DEF Good, NvicType, NewlyEnabled
<1>2. t \in Exc /\ n.highestEver <= t
  <2>1. \E x \in T : \A f \in T : f <= x
    BY <1>1, GreatestExc
  <2>2. t \in T /\ \A f \in T : f <= t
    BY <2>1
  <2>3. n.highestEver \in T
    OBVIOUS
  <2> HIDE DEF T, t
  <2> QED
    BY <1>1, <2>2, <2>3
<1>3. EnableIrqs(n, S) = r
  BY DEF EnableIrqs, Good, NvicType
<1> HIDE DEF t, T
<1>4. r \in NvicType /\ r.activeIrq = n.activeIrq /\ r.highestEver = t
  BY <1>1, <1>2 DEF Good, NvicType
<1>5. Scanned(n) \subseteq Scanned(r)
  <2>1. \A e \in Exc : e <= n.highestEver => e <= t
    <3>1. n.highestEver \in Exc /\ t \in Exc /\ \A e \in Exc : e \in 0..255
      BY <1>2, ExcNat DEF Good, NvicType
    <3>2. \A a, b, d \in 0..255 : a <= b /\ b <= d => a <= d
      OBVIOUS
    <3> HIDE DEF r
    <3> TAKE e \in Exc
    <3>3. e \in 0..255 /\ n.highestEver \in 0..255 /\ t \in 0..255
      BY <3>1
    <3> QED
      BY <1>2, <3>2, <3>3
  <2> QED
    BY <1>4, <2>1 DEF Scanned
<1>6. Cached(r) /\ OneActive(r)
  BY <1>5 DEF Good, NvicType, Cached, OneActive
<1> QED
  BY <1>3, <1>4, <1>6 DEF Good

LEMMA SetPriosGood ==
  ASSUME NEW n, Good(n), NEW E \in SUBSET (Exc), NEW f \in [E -> 0..255]
  PROVE  Good(SetPrios(n, f)) /\ SetPrios(n, f).activeIrq = n.activeIrq
<1> DEFINE changed == {e \in DOMAIN f : f[e] # n.priority[e] /\ e \notin DisabledByConfig}
           q == [e \in Exc |-> IF e \in changed THEN f[e] ELSE n.priority[e]]
           m == [n EXCEPT !.priority = q]
<1>1. q \in [Exc -> -2..255]
  <2>1. \A e \in changed : f[e] \in -2..255
    OBVIOUS
  <2>2. \A e \in Exc : n.priority[e] \in -2..255
    BY DEF Good, NvicType
  <2> HIDE DEF changed
  <2> QED
    BY <2>1, <2>2
<1>2. SetPrios(n, f) = IF changed = {} THEN n ELSE RecalcPrios(m)
  BY DEF SetPrios
<1> HIDE DEF changed, q
<1>3. m \in NvicType /\ OneActive(m) /\ m.activeIrq = n.activeIrq
  BY <1>1 DEF Good, NvicType, OneActive, Scanned
<1>4. Good(RecalcPrios(m)) /\ RecalcPrios(m).activeIrq = n.activeIrq
  BY <1>3, RecalcGood
<1> QED
  BY <1>2, <1>4

-----------------------------------------------------------------------------
(* Exception entry and return. *)

\* An activation is of a real exception: with none pending, the pending
\* priority is the lowest, below every ceiling.
LEMMA ActivatesPending ==
  ASSUME NEW n, Good(n), NEW c \in CpuType, CanBeActivated(n, c)
  PROVE  n.activeIrq = NONE /\ n.pendingIrq \in Scanned(n)
<1>1. n.activeGroupPrio \in Int /\ n.activeGroupPrio <= 256 /\ n.pendingPrio \in Int
  BY DEF Good, Cached, NvicType, LOWEST
<1>2. GroupPrio(n, c.basepri) \in Int
  <2>1. n \in NvicType /\ c.basepri \in -2..255
    BY DEF Good, CpuType
  <2> QED
    BY <2>1, GroupPrioBounds
<1>3. BoostedPrio(n, c, n.activeGroupPrio) \in Int /\ BoostedPrio(n, c, n.activeGroupPrio) <= 256
  <2>1. 256 \in Int /\ 0 \in Int /\ 0 <= 256
    OBVIOUS
  <2>2. \A a, b \in Int : a < b /\ b <= 256 => a <= 256
    OBVIOUS
  <2> QED
    BY <1>1, <1>2, <2>1, <2>2 DEF BoostedPrio
<1>4. n.pendingPrio # 256
  <2>1. \A a, b \in Int : a < b /\ b <= 256 => a # 256
    OBVIOUS
  <2>2. n.pendingPrio < BoostedPrio(n, c, n.activeGroupPrio)
    BY DEF CanBeActivated
  <2> QED
    BY <1>1, <1>3, <2>1, <2>2, Zenon
<1> QED
  BY <1>4 DEF CanBeActivated, Good, Cached, LOWEST

LEMMA ScannedExc == ASSUME NEW n PROVE Scanned(n) \subseteq Exc
  BY DEF Scanned

\* The controller after an entry of e.
LEMMA EnteredGood ==
  ASSUME NEW n, Good(n), n.activeIrq = NONE, NEW e \in Scanned(n), NEW k \in Int
  PROVE  LET m == [n EXCEPT !.interruptCount = k, !.active = @ \cup {e},
                            !.pending = @ \ {e}, !.activeIrq = e]
         IN Good(RecalcPrios(m)) /\ RecalcPrios(m).activeIrq = e
<1> DEFINE m == [n EXCEPT !.interruptCount = k, !.active = @ \cup {e},
                          !.pending = @ \ {e}, !.activeIrq = e]
<1>1. n.active = {} /\ e \in Exc
  BY DEF Good, OneActive, Scanned
<1>2. m \in NvicType /\ m.activeIrq = e /\ m.active = {e} /\ m.highestEver = n.highestEver
  BY <1>1 DEF Good, NvicType
<1> HIDE DEF m
<1>3. OneActive(m)
  BY <1>2, <1>1, ExcNat DEF OneActive, Scanned
<1> QED
  BY <1>2, <1>3, RecalcGood DEF m

\* Saving the frame of the interrupted thread.
LEMMA EnterFromGood ==
  ASSUME NEW n, Good(n), n.activeIrq = NONE, NEW c \in CpuType
  PROVE  LET d == EnterFrom(n, c)
         IN /\ d \in CpuType /\ d.exit = c.exit
            /\ Stacked(n, c) => Framed(d)
<1> DEFINE s == CurrentStack(c)
           st == [c.stacks EXCEPT ![s] = Append(@, c.ipsr)]
           d == EnterFrom(n, c)
<1>1. d = [c EXCEPT !.stacks = st, !.psp = FALSE, !.lr = [thread |-> TRUE, psp |-> c.psp]]
  BY DEF EnterFrom, PushStack, CpuType
<1>2. s \in {"main", "process"} /\ (s = "process" <=> c.psp)
  BY DEF CurrentStack, CpuType
<1>3. st \in [main : Seq(Exc \cup {NONE}), process : Seq(Exc \cup {NONE})]
  <2>1. Append(c.stacks.main, c.ipsr) \in Seq(Exc \cup {NONE})
    BY DEF CpuType
  <2>2. Append(c.stacks.process, c.ipsr) \in Seq(Exc \cup {NONE})
    BY DEF CpuType
  <2> QED
    BY <1>2, <2>1, <2>2 DEF CpuType
<1>4. d \in CpuType /\ d.exit = c.exit /\ d.lr = [thread |-> TRUE, psp |-> c.psp]
      /\ d.psp = FALSE /\ d.stacks = st
  <2> DEFINE l == [thread |-> TRUE, psp |-> c.psp]
  <2> HIDE DEF st, s, d
  <2>1. l \in [thread : BOOLEAN, psp : BOOLEAN]
    BY DEF CpuType
  <2>2. d = [c EXCEPT !.stacks = st, !.psp = FALSE, !.lr = l]
    BY <1>1
  <2> HIDE DEF l
  <2>3. d \in CpuType /\ d.exit = c.exit /\ d.lr = l /\ d.psp = FALSE /\ d.stacks = st
    BY <1>3, <2>1, <2>2 DEF CpuType
  <2> QED
    BY <2>3 DEF l
<1>5. ASSUME Stacked(n, c)
      PROVE  st = IF c.psp THEN [main |-> << >>, process |-> <<NONE>>]
                           ELSE [main |-> <<NONE>>, process |-> << >>]
  <2>1. c.ipsr = NONE /\ c.stacks = [main |-> << >>, process |-> << >>]
    BY <1>5 DEF Stacked
  <2>2. Append(<< >>, NONE) = <<NONE>>
    OBVIOUS
  <2>3. st = [[main |-> << >>, process |-> << >>] EXCEPT ![s] = <<NONE>>]
    <3>1. c.stacks[s] = << >>
      BY <1>2, <2>1
    <3> QED
      BY <2>1, <2>2, <3>1
  <2>4. CASE c.psp
    BY <1>2, <2>3, <2>4
  <2>5. CASE ~c.psp
    BY <1>2, <2>3, <2>5
  <2> QED
    BY <2>4, <2>5
<1> QED
  BY <1>4, <1>5 DEF Framed

\* Registers set one at a time.
LEMMA SetIpsr ==
  ASSUME NEW c \in CpuType, NEW e \in Exc \cup {NONE}
  PROVE  LET f == [c EXCEPT !.ipsr = e]
         IN f \in CpuType /\ f.exit = c.exit /\ f.ipsr = e /\ (Framed(c) => Framed(f))
<1> DEFINE f == [c EXCEPT !.ipsr = e]
<1>1. f \in CpuType
  BY DEF CpuType
<1>2. /\ f.exit = c.exit /\ f.ipsr = e /\ f.lr = c.lr
      /\ f.psp = c.psp /\ f.stacks = c.stacks
  BY DEF CpuType
<1> HIDE DEF f
<1>3. Framed(c) => Framed(f)
  BY <1>2 DEF Framed
<1> QED
  BY <1>1, <1>2, <1>3 DEF f

LEMMA CpuFields ==
  ASSUME NEW c \in CpuType
  PROVE  /\ c.psp \in BOOLEAN /\ c.primask \in BOOLEAN /\ c.basepri \in 0..255
<1>1. c.psp \in BOOLEAN
  BY DEF CpuType
<1>2. c.primask \in BOOLEAN
  BY DEF CpuType
<1>3. c.basepri \in 0..255
  BY DEF CpuType
<1> QED
  BY <1>1, <1>2, <1>3

LEMMA SetPsp ==
  ASSUME NEW c \in CpuType, NEW b \in BOOLEAN
  PROVE  LET f == [c EXCEPT !.psp = b]
         IN f \in CpuType /\ f.exit = c.exit /\ f.psp = b /\ f.stacks = c.stacks
  BY DEF CpuType

SetStacks(c, st, e) == [c EXCEPT !.stacks = st, !.ipsr = e]

LEMMA SetStacksGood ==
  ASSUME NEW c \in CpuType, NEW e \in Exc \cup {NONE},
         NEW st \in [main : Seq(Exc \cup {NONE}), process : Seq(Exc \cup {NONE})]
  PROVE  /\ SetStacks(c, st, e) \in CpuType /\ SetStacks(c, st, e).exit = c.exit
         /\ SetStacks(c, st, e).stacks = st /\ SetStacks(c, st, e).ipsr = e
  BY DEF CpuType, SetStacks

LEMMA SetExit ==
  ASSUME NEW c \in CpuType, c.exit # "inconsistent",
         NEW why \in {"limit", "crash", "reset", "notSvc"}
  PROVE  Exit(c, why) \in CpuType /\ Exit(c, why).exit \notin {"no", "inconsistent"}
<1>1. CASE c.exit = "no"
  <2>1. Exit(c, why) = [c EXCEPT !.exit = why]
    BY <1>1 DEF Exit
  <2>2. [c EXCEPT !.exit = why] \in CpuType /\ [c EXCEPT !.exit = why].exit = why
    BY DEF CpuType
  <2> QED
    BY <2>1, <2>2
<1>2. CASE c.exit # "no"
  BY <1>2 DEF Exit
<1> QED
  BY <1>1, <1>2

LEMMA ExceptionEntryGood ==
  ASSUME NEW n, Good(n), n.activeIrq = NONE, n.pendingIrq \in Scanned(n),
         NEW c \in CpuType, c.exit # "inconsistent", NEW tailChained \in BOOLEAN,
         c.exit = "no" => IF tailChained THEN Framed(c) ELSE Stacked(n, c)
  PROVE  LET x == ExceptionEntry([n |-> n, c |-> c], tailChained)
         IN GoodPair(x.n, x.c)
<1> DEFINE e == n.pendingIrq
           k == IF e # SYSTICK THEN n.interruptCount + 1 ELSE n.interruptCount
           n1 == [n EXCEPT !.interruptCount = k]
           m == [n EXCEPT !.interruptCount = k, !.active = @ \cup {e},
                          !.pending = @ \ {e}, !.activeIrq = e]
           d == IF tailChained THEN c ELSE EnterFrom(n, c)
           x == ExceptionEntry([n |-> n, c |-> c], tailChained)
<1>1. k \in Int /\ e \in Exc
  BY DEF Good, NvicType, Scanned
<1>2. x = IF e # SYSTICK /\ LimitReached(n1)
          THEN [n |-> n1, c |-> Exit(c, "limit")]
          ELSE [n |-> RecalcPrios(m), c |-> [d EXCEPT !.ipsr = e]]
  BY DEF ExceptionEntry, Good, NvicType
<1>3. Good(n1)
  BY <1>1 DEF Good, NvicType, Cached, OneActive, Scanned
<1>4. Exit(c, "limit") \in CpuType /\ Exit(c, "limit").exit \notin {"no", "inconsistent"}
  BY SetExit
<1>5. Good(RecalcPrios(m)) /\ RecalcPrios(m).activeIrq = e
  BY <1>1, EnteredGood
<1>6. d \in CpuType /\ d.exit = c.exit /\ (d.exit = "no" => Framed(d))
  BY EnterFromGood
<1> HIDE DEF k, n1, m, d, x
<1>7. LET f == [d EXCEPT !.ipsr = e]
      IN f \in CpuType /\ f.exit = d.exit /\ f.ipsr = e /\ (Framed(d) => Framed(f))
  BY <1>1, <1>6, SetIpsr
<1>8. CASE e # SYSTICK /\ LimitReached(n1)
  BY <1>2, <1>3, <1>4, <1>8 DEF GoodPair, x
<1>9. CASE ~(e # SYSTICK /\ LimitReached(n1))
  <2>1. x.n = RecalcPrios(m) /\ x.c = [d EXCEPT !.ipsr = e]
    BY <1>2, <1>9
  <2>2. x.c.exit = "no" => Stacked(x.n, x.c)
    BY <1>1, <1>5, <1>6, <1>7, <2>1, ExcNat DEF Stacked
  <2> QED
    BY <1>5, <1>6, <1>7, <2>1, <2>2 DEF GoodPair, x
<1> QED
  BY <1>8, <1>9

LEMMA MaybeActivateGood ==
  ASSUME NEW n, NEW c, GoodPair(n, c)
  PROVE  LET x == MaybeActivate([n |-> n, c |-> c])
         IN GoodPair(x.n, x.c) /\ DOMAIN x = {"n", "c"} /\ x = [n |-> x.n, c |-> x.c]
<1>1. CASE ~CanBeActivated(n, c)
  BY <1>1 DEF MaybeActivate
<1>2. CASE CanBeActivated(n, c)
  <2>1. n.activeIrq = NONE /\ n.pendingIrq \in Scanned(n)
    BY <1>2, ActivatesPending DEF GoodPair
  <2>2. MaybeActivate([n |-> n, c |-> c]) = ExceptionEntry([n |-> n, c |-> c], FALSE)
    BY <1>2 DEF MaybeActivate
  <2>3. LET x == ExceptionEntry([n |-> n, c |-> c], FALSE) IN GoodPair(x.n, x.c)
    BY <2>1, ExceptionEntryGood DEF GoodPair
  <2>4. LET x == ExceptionEntry([n |-> n, c |-> c], FALSE)
        IN DOMAIN x = {"n", "c"} /\ x = [n |-> x.n, c |-> x.c]
    BY DEF ExceptionEntry
  <2> QED
    BY <2>2, <2>3, <2>4
<1> QED
  BY <1>1, <1>2

\* With the active flag of the handler cleared, no handler is active.
LEMMA DeactivatedGood ==
  ASSUME NEW n, Good(n), n.activeIrq # NONE
  PROVE  Good(Deactivated(n)) /\ Deactivated(n).activeIrq = NONE
<1> DEFINE m == [n EXCEPT !.active = @ \ {n.activeIrq}]
           q == RecalcPrios(m)
           r == [q EXCEPT !.activeIrq = NONE]
<1>1. m \in NvicType /\ m.active = {}
  BY DEF Good, NvicType, OneActive
<1> HIDE DEF m
<1>2. q \in NvicType /\ Cached(q) /\ q.active = {}
  BY <1>1, RecalcPriosGood
<1> HIDE DEF q
<1>3. r \in NvicType /\ r.activeIrq = NONE /\ r.active = {} /\ Cached(r)
  BY <1>2 DEF NvicType, Cached, Scanned
<1> HIDE DEF r
<1>4. OneActive(r)
  BY <1>3 DEF OneActive
<1> QED
  BY <1>3, <1>4 DEF Good, Deactivated, r, q, m

\* Popping the one frame leaves both stacks empty and thread mode active.
LEMMA PopStackGood ==
  ASSUME NEW n, Good(n), n.activeIrq = NONE, NEW c \in CpuType, Framed(c)
  PROVE  LET x == PopStack([n |-> n, c |-> FrameStack(c)])
         IN /\ x = [n |-> x.n, c |-> x.c] /\ x.n = n
            /\ x.c \in CpuType /\ x.c.exit = c.exit /\ Stacked(n, x.c)
<1> DEFINE d == FrameStack(c)
           s == CurrentStack(d)
           empty == [main |-> << >>, process |-> << >>]
           x == PopStack([n |-> n, c |-> d])
<1>1. /\ d \in CpuType /\ d.stacks = c.stacks /\ d.exit = c.exit
      /\ d.psp = c.lr.psp /\ c.lr.psp \in BOOLEAN
  <2> DEFINE b == IF c.lr.thread /\ c.lr.psp THEN TRUE ELSE c.psp
  <2>1. b \in BOOLEAN /\ b = c.lr.psp
    BY DEF CpuType, Framed
  <2> HIDE DEF b
  <2>2. d = [c EXCEPT !.psp = b]
    BY DEF FrameStack, b
  <2>3. c.lr.psp \in BOOLEAN
    BY DEF CpuType
  <2> HIDE DEF d
  <2> QED
    BY <2>1, <2>2, <2>3, SetPsp
<1>2. d.stacks = IF d.psp THEN [main |-> << >>, process |-> <<NONE>>]
                          ELSE [main |-> <<NONE>>, process |-> << >>]
  BY <1>1 DEF Framed
<1> HIDE DEF d
<1>3. s = IF d.psp THEN "process" ELSE "main"
  BY DEF CurrentStack
<1>4. d.stacks[s] = <<NONE>>
  BY <1>2, <1>3
<1>5. Last(<<NONE>>) = NONE /\ Front(<<NONE>>) = << >>
  BY DEF Last, Front
<1>6. [d.stacks EXCEPT ![s] = << >>] = empty
  BY <1>2, <1>3
<1>7. [n EXCEPT !.activeIrq = NONE] = n
  BY DEF Good, NvicType
<1>8. x = [n |-> n, c |-> SetStacks(d, empty, NONE)]
  BY <1>4, <1>5, <1>6, <1>7 DEF PopStack, SetStacks
<1>9. LET f == SetStacks(d, empty, NONE)
      IN f \in CpuType /\ f.exit = d.exit /\ f.stacks = empty /\ f.ipsr = NONE
  <2>1. empty \in [main : Seq(Exc \cup {NONE}), process : Seq(Exc \cup {NONE})]
    OBVIOUS
  <2>2. NONE \in Exc \cup {NONE} /\ d \in CpuType
    BY <1>1
  <2> HIDE DEF empty, s, x
  <2> QED
    BY <2>1, <2>2, SetStacksGood
<1> HIDE DEF x, s, empty
<1>10. x.n = n /\ x.c = SetStacks(d, empty, NONE) /\ x = [n |-> x.n, c |-> x.c]
  BY <1>8
<1>11. Stacked(n, x.c)
  BY <1>9, <1>10 DEF Stacked, empty
<1> QED
  BY <1>1, <1>9, <1>10, <1>11 DEF x, d

LEMMA ExceptionReturnGood ==
  ASSUME NEW n, NEW c, GoodPair(n, c), c.exit = "no"
  PROVE  LET x == ExceptionReturn([n |-> n, c |-> c]) IN GoodPair(x.n, x.c)
<1> DEFINE r == Deactivated(n)
           popped == PopStack([n |-> r, c |-> FrameStack(c)])
           x == ExceptionReturn([n |-> n, c |-> c])
<1>1. x = IF n.activeIrq = NONE THEN [n |-> n, c |-> Exit(c, "crash")]
          ELSE IF CanBeActivated(r, c) THEN ExceptionEntry([n |-> r, c |-> c], TRUE)
          ELSE IF c.lr.thread # (popped.n.activeIrq = NONE)
          THEN [n |-> popped.n, c |-> Exit(popped.c, "inconsistent")]
          ELSE popped
  BY DEF ExceptionReturn
<1> HIDE DEF x, r, popped
<1>2. CASE n.activeIrq = NONE
  <2>1. Exit(c, "crash") \in CpuType /\ Exit(c, "crash").exit \notin {"no", "inconsistent"}
    BY SetExit DEF GoodPair
  <2>2. x.n = n /\ x.c = Exit(c, "crash")
    BY <1>1, <1>2
  <2> QED
    BY <2>1, <2>2 DEF GoodPair, x
<1>3. CASE n.activeIrq # NONE
  <2>1. Good(r) /\ r.activeIrq = NONE
    BY <1>3, DeactivatedGood DEF GoodPair, r
  <2>2. c \in CpuType /\ Framed(c)
    BY <1>3 DEF GoodPair, Stacked
  <2>3. CASE CanBeActivated(r, c)
    <3>1. r.pendingIrq \in Scanned(r)
      BY <2>1, <2>2, <2>3, ActivatesPending
    <3>2. LET y == ExceptionEntry([n |-> r, c |-> c], TRUE) IN GoodPair(y.n, y.c)
      BY <2>1, <2>2, <3>1, ExceptionEntryGood
    <3> QED
      BY <1>1, <1>3, <2>3, <3>2 DEF x
  <2>4. CASE ~CanBeActivated(r, c)
    <3>1. /\ popped.n = r /\ popped.c \in CpuType
          /\ popped.c.exit = c.exit /\ Stacked(r, popped.c)
      BY <2>1, <2>2, PopStackGood DEF popped
    <3>2. c.lr.thread = TRUE
      BY <2>2 DEF Framed, CpuType
    <3>3. x = popped
      BY <1>1, <1>3, <2>1, <2>4, <3>1, <3>2
    <3> QED
      BY <2>1, <3>1, <3>3 DEF GoodPair, x
  <2> QED
    BY <2>3, <2>4
<1> QED
  BY <1>2, <1>3

-----------------------------------------------------------------------------
(* The invariant, action by action. *)

LEMMA InitGood == Init => IInv
<1> SUFFICES ASSUME Init PROVE GoodPair(nvic, cpu)
  BY DEF IInv
<1>1. nvic.active = {} /\ nvic.activeIrq = NONE /\ nvic.numActive = 0
      /\ nvic.pendingIrq = NONE /\ nvic.pendingPrio = LOWEST
      /\ nvic.activeGroupPrio = LOWEST
  BY DEF Init
<1>2. nvic \in NvicType
  <2>1. {SVC, PENDSV, SYSTICK} \subseteq Exc /\ SYSTICK \in Exc
    BY DEF Exc
  <2>2. [e \in Exc |-> IF e = NMI THEN -2 ELSE 0] \in [Exc -> -2..255]
    OBVIOUS
  <2> QED
    BY <2>1, <2>2 DEF Init, NvicType, LOWEST
<1>3. Cardinality({}) = 0
  BY FS_EmptySet
<1>4. cpu \in CpuType /\ cpu.exit = "no"
  BY DEF Init, CpuType
<1>5. Stacked(nvic, cpu)
  BY <1>1 DEF Init, Stacked
<1>6. Good(nvic)
  BY <1>1, <1>2, <1>3 DEF Good, Cached, OneActive, LOWEST
<1> QED
  BY <1>4, <1>5, <1>6 DEF GoodPair

\* Changing the controller only by an operator that keeps it good.
LEMMA KeepsCpu ==
  ASSUME GoodPair(nvic, cpu), Good(nvic'), nvic'.activeIrq = nvic.activeIrq, cpu' = cpu
  PROVE  GoodPair(nvic', cpu')
  BY DEF GoodPair, Stacked

\* One bit of the ICSR.
GoodRecord(m) == m = [n |-> m.n, c |-> m.c] /\ GoodPair(m.n, m.c)

LEMMA PendIfGood ==
  ASSUME NEW m, GoodRecord(m), NEW b, NEW e \in Exc
  PROVE  GoodRecord(PendIf(b, e, m))
<1> DEFINE p == PendInterrupt(m.n, e)
<1>1. GoodPair(p, m.c)
  BY PendInterruptGood DEF GoodPair, Stacked, GoodRecord
<1>2. PendIf(b, e, m) = IF b THEN MaybeActivate([n |-> p, c |-> m.c]) ELSE m
  BY DEF PendIf
<1> HIDE DEF p
<1>3. LET x == MaybeActivate([n |-> p, c |-> m.c])
      IN GoodPair(x.n, x.c) /\ x = [n |-> x.n, c |-> x.c]
  BY <1>1, MaybeActivateGood
<1> QED
  BY <1>2, <1>3 DEF GoodRecord

LEMMA ClearIfGood ==
  ASSUME NEW m, GoodRecord(m), NEW b, NEW e \in Exc
  PROVE  GoodRecord(ClearIf(b, e, m))
<1> DEFINE p == ClearPendInterrupt(m.n, e)
<1>1. GoodPair(p, m.c)
  BY ClearPendInterruptGood DEF GoodPair, Stacked, GoodRecord
<1>2. ClearIf(b, e, m) = IF b THEN [n |-> p, c |-> m.c] ELSE m
  BY DEF ClearIf
<1> HIDE DEF p
<1> QED
  BY <1>1, <1>2 DEF GoodRecord

\* The hook remembers the masks, and enters below the ceiling only.
LEMMA BlockHookGood == GoodPair(nvic, cpu) /\ BlockHook => GoodPair(nvic', cpu')
<1> SUFFICES ASSUME GoodPair(nvic, cpu), BlockHook PROVE GoodPair(nvic', cpu')
  OBVIOUS
<1> DEFINE b == IF cpu.primask THEN nvic.prevBasepri ELSE cpu.basepri
           n == [nvic EXCEPT !.prevPrimask = cpu.primask, !.prevBasepri = b]
           ceiling == IF cpu.basepri # 0 /\ cpu.basepri < n.activeGroupPrio
                      THEN GroupPrio(n, cpu.basepri) ELSE n.activeGroupPrio
           x == ExceptionEntry([n |-> n, c |-> cpu], FALSE)
<1>1. Good(nvic) /\ cpu \in CpuType /\ cpu.exit # "inconsistent"
      /\ (cpu.exit = "no" => Stacked(nvic, cpu))
  BY DEF GoodPair
<1>2. b \in Int /\ cpu.primask \in BOOLEAN
  <2>1. nvic.prevBasepri \in Int
    BY <1>1 DEF Good, NvicType
  <2> HIDE DEF n, ceiling, x, b
  <2>2. cpu.primask \in BOOLEAN
    BY <1>1, CpuFields
  <2>3. cpu.basepri \in Int
    BY <1>1, CpuFields
  <2> QED
    BY <2>1, <2>2, <2>3 DEF b
<1> HIDE DEF b
<1>3. Good(n) /\ n.activeIrq = nvic.activeIrq
  BY <1>1, <1>2 DEF Good, NvicType, Cached, OneActive, Scanned
<1>4. \/ nvic' = n /\ cpu' = cpu
      \/ nvic' = x.n /\ cpu' = x.c /\ n.activeIrq = NONE /\ n.pendingPrio < ceiling
  BY DEF BlockHook, b
<1> HIDE DEF n
<1>5. Stacked(n, cpu) <=> Stacked(nvic, cpu)
  BY <1>3 DEF Stacked
<1>6. CASE nvic' = n /\ cpu' = cpu
  BY <1>1, <1>3, <1>5, <1>6 DEF GoodPair
<1>7. CASE nvic' = x.n /\ cpu' = x.c /\ n.activeIrq = NONE /\ n.pendingPrio < ceiling
  <2>1. n.activeGroupPrio \in Int /\ n.activeGroupPrio <= 256 /\ n.pendingPrio \in Int
    BY <1>3 DEF Good, Cached, NvicType, LOWEST
  <2>2. /\ GroupPrio(n, cpu.basepri) \in Int
        /\ GroupPrio(n, cpu.basepri) <= cpu.basepri
        /\ cpu.basepri \in Int /\ cpu.basepri <= 255
    <3>1. n \in NvicType /\ cpu.basepri \in -2..255
      BY <1>1, <1>3 DEF Good, CpuType
    <3> QED
      BY <3>1, GroupPrioBounds
  <2>3. ceiling \in Int /\ ceiling <= 256
    <3>1. \A y \in Int : y <= 255 => y <= 256
      OBVIOUS
    <3>2. \A y, z \in Int : y <= z /\ z <= 255 => y <= 256
      OBVIOUS
    <3> QED
      BY <2>1, <2>2, <3>1, <3>2
  <2> HIDE DEF ceiling
  <2>4. n.pendingPrio # 256
    BY <1>7, <2>1, <2>3
  <2>5. n.pendingIrq \in Scanned(n)
    BY <1>3, <2>4 DEF Good, Cached, LOWEST
  <2>6. GoodPair(x.n, x.c)
    BY <1>1, <1>3, <1>5, <1>7, <2>5, ExceptionEntryGood
  <2> QED
    BY <1>7, <2>6
<1> QED
  BY <1>4, <1>6, <1>7

\* A pend that may activate at once, as SVC, the STIR and the emulator do.
LEMMA PendAndActivateGood ==
  ASSUME GoodPair(nvic, cpu), NEW e \in Exc,
         Becomes(MaybeActivate([n |-> PendInterrupt(nvic, e), c |-> cpu]))
  PROVE  GoodPair(nvic', cpu')
<1> DEFINE p == PendInterrupt(nvic, e)
           x == MaybeActivate([n |-> p, c |-> cpu])
<1>1. GoodPair(p, cpu)
  BY PendInterruptGood DEF GoodPair, Stacked
<1>2. nvic' = x.n /\ cpu' = x.c
  BY DEF Becomes
<1> HIDE DEF p
<1>3. GoodPair(x.n, x.c)
  BY <1>1, MaybeActivateGood
<1> QED
  BY <1>2, <1>3

LEMMA WriteIcsrGood ==
  ASSUME GoodPair(nvic, cpu), NEW B, WriteIcsr(B)
  PROVE  GoodPair(nvic', cpu')
<1> DEFINE m1 == PendIf("PENDSVSET" \in B, PENDSV, [n |-> nvic, c |-> cpu])
           m2 == ClearIf("PENDSVCLR" \in B, PENDSV, m1)
           m3 == PendIf("PENDSTSET" \in B, SYSTICK, m2)
           m4 == ClearIf("PENDSTCLR" \in B, SYSTICK, m3)
           m5 == IF "NMIPENDSET" \in B
                 THEN [n |-> PendInterrupt(m4.n, NMI), c |-> m4.c] ELSE m4
<1>0. PENDSV \in Exc /\ SYSTICK \in Exc /\ NMI \in Exc
  BY DEF Exc
<1>1. nvic' = m5.n /\ cpu' = m5.c
  BY DEF WriteIcsr, Becomes
<1>2. GoodRecord([n |-> nvic, c |-> cpu])
  BY DEF GoodRecord
<1>3. GoodRecord(m1)
  BY <1>0, <1>2, PendIfGood
<1> HIDE DEF m1
<1>4. GoodRecord(m2)
  BY <1>0, <1>3, ClearIfGood
<1> HIDE DEF m2
<1>5. GoodRecord(m3)
  BY <1>0, <1>4, PendIfGood
<1> HIDE DEF m3
<1>6. GoodRecord(m4)
  BY <1>0, <1>5, ClearIfGood
<1> HIDE DEF m4
<1>7. GoodPair(PendInterrupt(m4.n, NMI), m4.c)
  BY <1>0, <1>6, PendInterruptGood DEF GoodPair, Stacked, GoodRecord
<1> QED
  BY <1>1, <1>6, <1>7 DEF GoodRecord

-----------------------------------------------------------------------------
\* Every step keeps the invariant.
LEMMA StepGood == IInv /\ [Next]_vars => IInv'
<1> SUFFICES ASSUME GoodPair(nvic, cpu), [Next]_vars PROVE GoodPair(nvic', cpu')
  BY DEF IInv
<1>0. Good(nvic) /\ Ext \subseteq Exc /\ SVC \in Exc /\ SYSTICK \in Exc
  BY DEF GoodPair, Exc
<1>1. ASSUME BlockHook PROVE GoodPair(nvic', cpu')
  BY <1>1, BlockHookGood
<1>2. ASSUME ReturnHook PROVE GoodPair(nvic', cpu')
  BY <1>2, ExceptionReturnGood DEF ReturnHook, Running
<1>3. ASSUME EndBlock PROVE GoodPair(nvic', cpu')
  BY <1>3, KeepsCpu, <1>0 DEF EndBlock
<1>4. ASSUME SetMasks PROVE GoodPair(nvic', cpu')
  <2>1. PICK p \in BOOLEAN, b \in 0..255 : cpu' = [cpu EXCEPT !.primask = p, !.basepri = b]
    <3>1. Basepris \cup {0} \subseteq 0..255
      BY PrioAssumption
    <3> QED
      BY <1>4, <3>1 DEF SetMasks
  <2>2. /\ cpu' \in CpuType /\ cpu'.exit = cpu.exit /\ cpu'.ipsr = cpu.ipsr
        /\ cpu'.lr = cpu.lr /\ cpu'.psp = cpu.psp /\ cpu'.stacks = cpu.stacks
    BY <2>1 DEF GoodPair, CpuType
  <2> QED
    BY <1>4, <2>2 DEF SetMasks, GoodPair, Stacked, Framed
<1>5. ASSUME SetSpsel PROVE GoodPair(nvic', cpu')
  <2>1. /\ cpu' \in CpuType /\ cpu'.exit = cpu.exit /\ cpu'.ipsr = cpu.ipsr
        /\ cpu'.stacks = cpu.stacks
    <3>1. PICK b \in BOOLEAN : cpu' = [cpu EXCEPT !.psp = b]
      BY <1>5 DEF SetSpsel
    <3>2. cpu \in CpuType
      BY DEF GoodPair
    <3> QED
      BY <3>1, <3>2 DEF CpuType
  <2>2. nvic' = nvic /\ nvic.activeIrq = NONE
    BY <1>5 DEF SetSpsel
  <2> QED
    BY <2>1, <2>2 DEF GoodPair, Stacked
<1>b. ASSUME Good(nvic'), NEW why \in {"reset", "notSvc"}, cpu' = Exit(cpu, why)
      PROVE  GoodPair(nvic', cpu')
  BY <1>b, SetExit DEF GoodPair
<1>6. ASSUME Svc PROVE GoodPair(nvic', cpu')
  BY <1>0, <1>6, PendAndActivateGood DEF Svc
<1>7. ASSUME NEW e \in Ext \cup {SYSTICK}, NvicSetPending(e) PROVE GoodPair(nvic', cpu')
  BY <1>0, <1>7, PendAndActivateGood DEF NvicSetPending
<1>8. ASSUME NEW S \in SUBSET Ext, WriteIser(S) PROVE GoodPair(nvic', cpu')
  <2> DEFINE n == EnableIrqs(nvic, S)
  <2>1. Good(n) /\ n.activeIrq = nvic.activeIrq
    BY <1>0, EnableIrqsGood
  <2>2. nvic' \in {n, RecalcPrios(n)} /\ cpu' = cpu
    BY <1>8 DEF WriteIser
  <2> HIDE DEF n
  <2>3. Good(nvic') /\ nvic'.activeIrq = nvic.activeIrq
    BY <2>1, <2>2, RecalcGood DEF Good
  <2> QED
    BY <2>2, <2>3, KeepsCpu
<1>9. ASSUME NEW e \in Ext, WriteIcer(e) PROVE GoodPair(nvic', cpu')
  BY <1>0, <1>9, DisableIrqGood, KeepsCpu DEF WriteIcer
<1>10. ASSUME NEW e \in Ext, WriteIspr(e) PROVE GoodPair(nvic', cpu')
  BY <1>0, <1>10, PendInterruptGood, KeepsCpu DEF WriteIspr
<1>11. ASSUME NEW e \in Ext, WriteIcpr(e) PROVE GoodPair(nvic', cpu')
  BY <1>0, <1>11, ClearPendInterruptGood, KeepsCpu DEF WriteIcpr
<1>12. ASSUME NEW e \in Ext, WriteStir(e) PROVE GoodPair(nvic', cpu')
  BY <1>0, <1>12, PendAndActivateGood DEF WriteStir
<1>13. ASSUME NEW e \in PrioExc, NEW p \in Prios, WritePrios([x \in {e} |-> p])
       PROVE  GoodPair(nvic', cpu')
  <2> DEFINE f == [x \in {e} |-> p]
  <2>1. {e} \in SUBSET Exc /\ f \in [{e} -> 0..255]
    BY PrioAssumption
  <2>2. nvic' = SetPrios(nvic, f) /\ cpu' = cpu
    BY <1>13 DEF WritePrios
  <2> HIDE DEF f
  <2>3. Good(nvic') /\ nvic'.activeIrq = nvic.activeIrq
    BY <1>0, <2>1, <2>2, SetPriosGood
  <2> QED
    BY <2>2, <2>3, KeepsCpu
<1>14. ASSUME NEW g \in Prigroups, NEW reset \in BOOLEAN, WriteAircr(g, reset)
       PROVE  GoodPair(nvic', cpu')
  <2> DEFINE n == [nvic EXCEPT !.prigroup = g]
  <2>1. n \in NvicType /\ OneActive(n) /\ n.activeIrq = nvic.activeIrq
    BY <1>0, PrioAssumption DEF Good, NvicType, OneActive, Scanned
  <2>2. nvic' \in {nvic, RecalcPrios(n)} /\ cpu' \in {cpu, Exit(cpu, "reset")}
    BY <1>14 DEF WriteAircr
  <2> HIDE DEF n
  <2>3. Good(nvic') /\ nvic'.activeIrq = nvic.activeIrq
    BY <1>0, <2>1, <2>2, RecalcGood
  <2> QED
    BY <1>b, <2>2, <2>3, KeepsCpu
<1>15. ASSUME NEW B, WriteIcsr(B) PROVE GoodPair(nvic', cpu')
  BY <1>15, WriteIcsrGood
<1>16. ASSUME UNCHANGED vars PROVE GoodPair(nvic', cpu')
  BY <1>16 DEF vars
<1>17. ASSUME NotAnSvc PROVE GoodPair(nvic', cpu')
  BY <1>0, <1>b, <1>17 DEF NotAnSvc
<1> QED
  BY <1>1, <1>2, <1>3, <1>4, <1>5, <1>6, <1>7, <1>8, <1>9, <1>10, <1>11,
     <1>12, <1>13, <1>14, <1>15, <1>16, <1>17 DEF Next

LEMMA Invariance == Spec => []IInv
  BY InitGood, StepGood, PTL DEF Spec

\* Handlers never nest, and the active flags, the active exception, the IPSR
\* and the stacked frame always agree (ExceptionEntry, ExceptionReturn,
\* PushStack and PopStack), in every configuration.
THEOREM HandlersNeverNest == Spec => []HandlerModeConsistent
<1>1. IInv => HandlerModeConsistent
  BY DEF IInv, GoodPair, Good, OneActive, Cached, Stacked, Framed,
         HandlerModeConsistent, Running
<1> QED
  BY <1>1, Invariance, PTL

\* The self-check of ExceptionReturn (an LR that says thread mode, and an IPSR
\* that does not) never fires.
THEOREM ReturnsAreConsistent == Spec => []ReturnIsConsistent
<1>1. IInv => ReturnIsConsistent
  BY DEF IInv, GoodPair, ReturnIsConsistent
<1> QED
  BY <1>1, Invariance, PTL

-----------------------------------------------------------------------------
(* Type correctness. *)


\* Fields a recalculation reads or leaves alone.
Plain(n) ==
  /\ \A e \in Exc \ {NMI} : n.priority[e] >= 0
  /\ n.prevBasepri \in -1..255
  /\ n.interruptCount \in Nat

\* With the cached priorities.
Ranged(n) ==
  /\ Plain(n)
  /\ n.activeGroupPrio >= 0
  /\ n.pendingPrio >= 0 /\ n.pendingPrio <= LOWEST

\* n has the fields of m that Plain speaks of.
SamePlain(n, m) ==
  /\ n.priority = m.priority /\ n.prevBasepri = m.prevBasepri
  /\ n.interruptCount = m.interruptCount

\* n has all the fields of m that Ranged speaks of.
SameRanged(n, m) ==
  /\ SamePlain(n, m)
  /\ n.activeGroupPrio = m.activeGroupPrio /\ n.pendingPrio = m.pendingPrio

\* At most k interrupts too many have been counted, none while the run goes on.
Counted(n, c, k) ==
  /\ n.interruptCount < InterruptLimit + k
  /\ c.exit = "no" => n.interruptCount < InterruptLimit

TInv == /\ IInv /\ Ranged(nvic) /\ Counted(nvic, cpu, 2)
        /\ phase \in {"block", "magic", "exec"}

-----------------------------------------------------------------------------
LEMMA ScannedNoNmi == ASSUME NEW n PROVE Scanned(n) \subseteq Exc \ {NMI}
  BY ExcNat DEF Scanned, SVC, NMI

LEMMA GroupPrioNat ==
  ASSUME NEW n \in NvicType, NEW p \in 0..255
  PROVE  GroupPrio(n, p) \in 0..255
<1>1. GroupSize(n) \in {2, 4, 8, 16, 32, 64, 128, 256}
  BY DEF GroupSize, NvicType
<1>2. \A g \in {2, 4, 8, 16, 32, 64, 128, 256} : p - (p % g) \in 0..255
  OBVIOUS
<1> QED
  BY <1>1, <1>2 DEF GroupPrio

\* The best active priority is one of those it is chosen from.
LEMMA BestActivePrioNat ==
  ASSUME NEW n \in NvicType, Plain(n)
  PROVE  BestActivePrio(n) >= 0
<1> DEFINE A == {GroupPrio(n, n.priority[e]) : e \in n.active \cap Scanned(n)}
<1>1. \A a \in A : a \in 0..255
  <2>1. \A e \in n.active \cap Scanned(n) : n.priority[e] \in 0..255
    <3>1. \A e \in Scanned(n) : n.priority[e] \in -2..255 /\ n.priority[e] >= 0
      BY ScannedNoNmi DEF NvicType, Plain
    <3> QED
      BY <3>1
  <2> QED
    BY <2>1, GroupPrioNat
<1>2. BestActivePrio(n) = IF A = {} THEN LOWEST
                          ELSE CHOOSE p \in A : \A q \in A : p <= q
  BY DEF BestActivePrio
<1> HIDE DEF A
<1>3. CASE A = {}
  BY <1>2, <1>3 DEF LOWEST
<1>4. CASE A # {}
  <2>1. \E p \in A : \A q \in A : p <= q
    <3>1. A \subseteq Nat
      BY <1>1
    <3> QED
      BY <1>4, <3>1, LeastNat
  <2>2. BestActivePrio(n) \in A
    BY <1>2, <1>4, <2>1
  <2> QED
    BY <1>1, <2>2
<1> QED
  BY <1>3, <1>4

LEMMA RecalcRanged ==
  ASSUME NEW n \in NvicType, Plain(n)
  PROVE  Ranged(RecalcPrios(n)) /\ RecalcPrios(n).interruptCount = n.interruptCount
<1> DEFINE r == RecalcPrios(n)
           e == BestPending(n)
           P == n.pending \cap Scanned(n)
<1>1. e \in P \cup {NONE}
  <2>1. P \subseteq Exc
    BY DEF NvicType
  <2>2. P # {} => \E x \in P : \A f \in P : Beats(n, x, f)
    <3> HIDE DEF P
    <3> QED
      BY <2>1, BestExists
  <2>3. e = IF P = {} THEN NONE ELSE CHOOSE x \in P : \A f \in P : Beats(n, x, f)
    BY DEF BestPending
  <2> HIDE DEF P, e
  <2> QED
    BY <2>2, <2>3
<1>2. e # NONE => n.priority[e] \in -2..255 /\ n.priority[e] >= 0
  BY <1>1, ScannedNoNmi DEF NvicType, Plain
<1>3. /\ r.priority = n.priority /\ r.interruptCount = n.interruptCount
      /\ r.prevBasepri \in {-1, n.prevBasepri}
      /\ r.activeGroupPrio = BestActivePrio(n)
      /\ r.pendingPrio = IF e = NONE THEN LOWEST ELSE n.priority[e]
  BY DEF RecalcPrios, NvicType
<1> HIDE DEF r, e, P
<1>4. BestActivePrio(n) >= 0
  BY BestActivePrioNat
<1>5. r.pendingPrio >= 0 /\ r.pendingPrio <= LOWEST
  BY <1>2, <1>3 DEF LOWEST
<1>6. Plain(r)
  BY <1>3 DEF Plain
<1> QED
  BY <1>3, <1>4, <1>5, <1>6 DEF Ranged, r

LEMMA SameIsRanged ==
  ASSUME NEW n, NEW m, Ranged(n), SamePlain(m, n)
  PROVE  Plain(m) /\ (SameRanged(m, n) => Ranged(m))
  BY DEF Ranged, Plain, SamePlain, SameRanged

-----------------------------------------------------------------------------
(* The operators of the controller: each leaves the controller as it is,   *)
(* or sets a field that is not cached, and may recalculate.                *)

\* What the next lemmas have in common.
LEMMA OneOfThree ==
  ASSUME NEW n, Ranged(n), NEW m \in NvicType, SameRanged(m, n),
         NEW r, r \in {n, m, RecalcPrios(m)}
  PROVE  Ranged(r) /\ r.interruptCount = n.interruptCount
<1>1. Ranged(m) /\ m.interruptCount = n.interruptCount
  BY SameIsRanged DEF SameRanged, SamePlain
<1>2. Ranged(RecalcPrios(m)) /\ RecalcPrios(m).interruptCount = m.interruptCount
  BY <1>1, RecalcRanged DEF Ranged
<1> QED
  BY <1>1, <1>2

LEMMA PendInterruptRanged ==
  ASSUME NEW n, Good(n), Ranged(n), NEW e \in Exc
  PROVE  /\ Ranged(PendInterrupt(n, e))
         /\ PendInterrupt(n, e).interruptCount = n.interruptCount
<1> DEFINE m == [n EXCEPT !.pending = @ \cup {e}]
<1>1. m \in NvicType /\ SameRanged(m, n)
  BY DEF Good, NvicType, SameRanged, SamePlain
<1>2. PendInterrupt(n, e) \in {n, m, RecalcPrios(m)}
  BY DEF PendInterrupt
<1> HIDE DEF m
<1> QED
  BY <1>1, <1>2, OneOfThree

LEMMA ClearPendInterruptRanged ==
  ASSUME NEW n, Good(n), Ranged(n), NEW e \in Exc
  PROVE  /\ Ranged(ClearPendInterrupt(n, e))
         /\ ClearPendInterrupt(n, e).interruptCount = n.interruptCount
<1> DEFINE m == [n EXCEPT !.pending = @ \ {e}]
<1>1. m \in NvicType /\ SameRanged(m, n)
  BY DEF Good, NvicType, SameRanged, SamePlain
<1>2. ClearPendInterrupt(n, e) \in {n, m, RecalcPrios(m)}
  BY DEF ClearPendInterrupt
<1> HIDE DEF m
<1> QED
  BY <1>1, <1>2, OneOfThree

LEMMA DisableIrqRanged ==
  ASSUME NEW n, Good(n), Ranged(n), NEW e \in Exc
  PROVE  Ranged(DisableIrq(n, e)) /\ DisableIrq(n, e).interruptCount = n.interruptCount
<1> DEFINE m == [n EXCEPT !.enabled = @ \ {e}]
<1>1. m \in NvicType /\ SameRanged(m, n)
  BY DEF Good, NvicType, SameRanged, SamePlain
<1>2. DisableIrq(n, e) \in {n, m, RecalcPrios(m)}
  BY DEF DisableIrq
<1> HIDE DEF m
<1> QED
  BY <1>1, <1>2, OneOfThree

LEMMA EnableIrqsRanged ==
  ASSUME NEW n, Good(n), Ranged(n), NEW S \in SUBSET Exc,
         NEW r \in {EnableIrqs(n, S), RecalcPrios(EnableIrqs(n, S))}
  PROVE  Ranged(r) /\ r.interruptCount = n.interruptCount
<1> DEFINE m == EnableIrqs(n, S)
<1>1. m \in NvicType
  BY EnableIrqsGood DEF Good
<1>2. SameRanged(m, n)
  BY DEF EnableIrqs, Good, NvicType, SameRanged, SamePlain
<1> HIDE DEF m
<1> QED
  BY <1>1, <1>2, OneOfThree DEF m

LEMMA SetPriosRanged ==
  ASSUME NEW n, Good(n), Ranged(n), NEW E \in SUBSET Exc, NEW f \in [E -> 0..255]
  PROVE  Ranged(SetPrios(n, f)) /\ SetPrios(n, f).interruptCount = n.interruptCount
<1> DEFINE changed == {e \in DOMAIN f : f[e] # n.priority[e] /\ e \notin DisabledByConfig}
           q == [e \in Exc |-> IF e \in changed THEN f[e] ELSE n.priority[e]]
           m == [n EXCEPT !.priority = q]
<1>1. \A e \in changed : f[e] \in 0..255
  OBVIOUS
<1>2. SetPrios(n, f) = IF changed = {} THEN n ELSE RecalcPrios(m)
  BY DEF SetPrios
<1> HIDE DEF changed
<1>3. \A e \in Exc : q[e] = IF e \in changed THEN f[e] ELSE n.priority[e]
  OBVIOUS
<1>4. q \in [Exc -> -2..255]
  <2>1. \A e \in Exc : n.priority[e] \in -2..255
    BY DEF Good, NvicType
  <2> QED
    BY <1>1, <2>1
<1>5. \A e \in Exc \ {NMI} : q[e] >= 0
  BY <1>1, <1>3 DEF Ranged, Plain
<1> HIDE DEF q
<1>6. m \in NvicType
  BY <1>4 DEF Good, NvicType
<1>7. m.priority = q /\ m.prevBasepri = n.prevBasepri /\ m.interruptCount = n.interruptCount
  BY DEF Good, NvicType
<1> HIDE DEF m
<1>8. Plain(m)
  BY <1>5, <1>7 DEF Ranged, Plain
<1> QED
  BY <1>2, <1>6, <1>7, <1>8, RecalcRanged

-----------------------------------------------------------------------------
(* Exception entry and return. *)

\* An entry counts one interrupt, and ends the run when that is the limit.
LEMMA ExceptionEntryRanged ==
  ASSUME NEW n, Good(n), Ranged(n), n.activeIrq = NONE, n.pendingIrq \in Scanned(n),
         NEW c \in CpuType, c.exit # "inconsistent", NEW tailChained \in BOOLEAN,
         NEW k \in Nat, Counted(n, c, k)
  PROVE  LET x == ExceptionEntry([n |-> n, c |-> c], tailChained)
         IN Ranged(x.n) /\ Counted(x.n, x.c, k + 1)
<1> DEFINE e == n.pendingIrq
           j == IF e # SYSTICK THEN n.interruptCount + 1 ELSE n.interruptCount
           n1 == [n EXCEPT !.interruptCount = j]
           m == [n EXCEPT !.interruptCount = j, !.active = @ \cup {e},
                          !.pending = @ \ {e}, !.activeIrq = e]
           d == IF tailChained THEN c ELSE EnterFrom(n, c)
           x == ExceptionEntry([n |-> n, c |-> c], tailChained)
<1>1. e \in Exc
  BY ScannedExc
<1>2. j \in Nat /\ j <= n.interruptCount + 1 /\ (e = SYSTICK => j = n.interruptCount)
  BY DEF Ranged, Plain
<1>3. x = IF e # SYSTICK /\ LimitReached(n1)
          THEN [n |-> n1, c |-> Exit(c, "limit")]
          ELSE [n |-> RecalcPrios(m), c |-> [d EXCEPT !.ipsr = e]]
  BY DEF ExceptionEntry, Good, NvicType
<1>4. d \in CpuType /\ d.exit = c.exit
  BY EnterFromGood
<1>5. LET f == [d EXCEPT !.ipsr = e] IN f.exit = d.exit
  BY <1>1, <1>4, SetIpsr
<1>6. Exit(c, "limit").exit # "no"
  BY SetExit
<1> HIDE DEF j, d, x
<1>7. /\ n1.interruptCount = j /\ n1.priority = n.priority /\ n1.prevBasepri = n.prevBasepri
      /\ n1.activeGroupPrio = n.activeGroupPrio /\ n1.pendingPrio = n.pendingPrio
  BY DEF Good, NvicType
<1>8. m.interruptCount = j /\ m.priority = n.priority /\ m.prevBasepri = n.prevBasepri
  BY DEF Good, NvicType
<1>9. m \in NvicType
  <2>1. j \in Int
    BY <1>2
  <2>2. n \in NvicType
    BY DEF Good
  <2> HIDE DEF e
  <2> QED
    BY <1>1, <2>1, <2>2 DEF NvicType
<1> HIDE DEF n1, m
<1>10. Ranged(n1) /\ Plain(m)
  BY <1>2, <1>7, <1>8 DEF Ranged, Plain
<1>11. Ranged(RecalcPrios(m)) /\ RecalcPrios(m).interruptCount = j
  BY <1>8, <1>9, <1>10, RecalcRanged
<1>12. j < InterruptLimit + (k + 1)
  BY <1>2, LimitAssumption DEF Counted, Ranged, Plain
<1>13. CASE e # SYSTICK /\ LimitReached(n1)
  <2>1. x.n = n1 /\ x.c = Exit(c, "limit")
    BY <1>3, <1>13
  <2> QED
    BY <1>6, <1>7, <1>12, <1>10, <2>1 DEF Counted, x
<1>14. CASE ~(e # SYSTICK /\ LimitReached(n1))
  <2>1. x.n = RecalcPrios(m) /\ x.c = [d EXCEPT !.ipsr = e]
    BY <1>3, <1>14
  <2>2. x.c.exit = c.exit
    BY <1>4, <1>5, <2>1
  <2>3. c.exit = "no" => j < InterruptLimit
    <3>1. CASE e = SYSTICK
      BY <1>2, <3>1 DEF Counted
    <3>2. CASE e # SYSTICK
      BY <1>2, <1>7, <1>14, <3>2, LimitAssumption DEF LimitReached
    <3> QED
      BY <3>1, <3>2
  <2> QED
    BY <1>11, <1>12, <2>1, <2>2, <2>3 DEF Counted, x
<1> QED
  BY <1>13, <1>14

LEMMA CountedMore ==
  ASSUME NEW n, NEW c, Ranged(n), NEW k \in Nat, Counted(n, c, k)
  PROVE  Counted(n, c, k + 1)
  BY LimitAssumption DEF Counted, Ranged, Plain

LEMMA MaybeActivateRanged ==
  ASSUME NEW n, NEW c, GoodPair(n, c), Ranged(n), NEW k \in Nat, Counted(n, c, k)
  PROVE  LET x == MaybeActivate([n |-> n, c |-> c])
         IN Ranged(x.n) /\ Counted(x.n, x.c, k + 1)
<1>1. CASE ~CanBeActivated(n, c)
  BY <1>1, CountedMore DEF MaybeActivate
<1>2. CASE CanBeActivated(n, c)
  <2>1. n.activeIrq = NONE /\ n.pendingIrq \in Scanned(n)
    BY <1>2, ActivatesPending DEF GoodPair
  <2>2. MaybeActivate([n |-> n, c |-> c]) = ExceptionEntry([n |-> n, c |-> c], FALSE)
    BY <1>2 DEF MaybeActivate
  <2>3. LET x == ExceptionEntry([n |-> n, c |-> c], FALSE)
        IN Ranged(x.n) /\ Counted(x.n, x.c, k + 1)
    BY <2>1, ExceptionEntryRanged DEF GoodPair
  <2> QED
    BY <2>2, <2>3
<1> QED
  BY <1>1, <1>2

LEMMA DeactivatedRanged ==
  ASSUME NEW n, Good(n), Ranged(n)
  PROVE  Ranged(Deactivated(n)) /\ Deactivated(n).interruptCount = n.interruptCount
<1> DEFINE m == [n EXCEPT !.active = @ \ {n.activeIrq}]
           q == RecalcPrios(m)
           r == [q EXCEPT !.activeIrq = NONE]
<1>1. m \in NvicType /\ m.active \subseteq Scanned(m)
  BY DEF Good, NvicType, OneActive, Scanned
<1>2. SameRanged(m, n)
  BY DEF Good, NvicType, SameRanged, SamePlain
<1> HIDE DEF m
<1>3. q \in NvicType
  BY <1>1, RecalcPriosGood
<1>4. Ranged(q) /\ q.interruptCount = n.interruptCount
  BY <1>1, <1>2, OneOfThree
<1> HIDE DEF q
<1>5. SameRanged(r, q)
  BY <1>3 DEF NvicType, SameRanged, SamePlain
<1> HIDE DEF r
<1>6. Ranged(r) /\ r.interruptCount = n.interruptCount
  BY <1>4, <1>5, SameIsRanged DEF SameRanged, SamePlain
<1> QED
  BY <1>6 DEF Deactivated, r, q, m

LEMMA ExceptionReturnRanged ==
  ASSUME NEW n, NEW c, GoodPair(n, c), c.exit = "no", Ranged(n), Counted(n, c, 0)
  PROVE  LET x == ExceptionReturn([n |-> n, c |-> c])
         IN Ranged(x.n) /\ Counted(x.n, x.c, 1)
<1> DEFINE r == Deactivated(n)
           popped == PopStack([n |-> r, c |-> FrameStack(c)])
           x == ExceptionReturn([n |-> n, c |-> c])
<1>1. x = IF n.activeIrq = NONE THEN [n |-> n, c |-> Exit(c, "crash")]
          ELSE IF CanBeActivated(r, c) THEN ExceptionEntry([n |-> r, c |-> c], TRUE)
          ELSE IF c.lr.thread # (popped.n.activeIrq = NONE)
          THEN [n |-> popped.n, c |-> Exit(popped.c, "inconsistent")]
          ELSE popped
  BY DEF ExceptionReturn
<1> HIDE DEF x, r, popped
<1>2. \A m, d : m.interruptCount = n.interruptCount => Counted(m, d, 0) /\ Counted(m, d, 1)
  BY LimitAssumption DEF Counted, Ranged, Plain
<1>3. CASE n.activeIrq = NONE
  <2>1. x.n = n
    BY <1>1, <1>3
  <2> QED
    BY <1>2, <2>1 DEF x
<1>4. CASE n.activeIrq # NONE
  <2>1. Good(r) /\ r.activeIrq = NONE
    BY <1>4, DeactivatedGood DEF GoodPair, r
  <2>2. Ranged(r) /\ r.interruptCount = n.interruptCount
    BY DeactivatedRanged DEF GoodPair, r
  <2>3. c \in CpuType /\ Framed(c)
    BY <1>4 DEF GoodPair, Stacked
  <2>4. CASE CanBeActivated(r, c)
    <3>1. r.pendingIrq \in Scanned(r)
      BY <2>1, <2>3, <2>4, ActivatesPending
    <3>2. Counted(r, c, 0)
      BY <1>2, <2>2
    <3>3. LET y == ExceptionEntry([n |-> r, c |-> c], TRUE)
          IN Ranged(y.n) /\ Counted(y.n, y.c, 1)
      <4>1. 0 \in Nat /\ 0 + 1 = 1
        OBVIOUS
      <4>2. c.exit # "inconsistent" /\ (c.exit = "no" => Framed(c))
        BY <2>3
      <4>3. LET y == ExceptionEntry([n |-> r, c |-> c], TRUE)
            IN Ranged(y.n) /\ Counted(y.n, y.c, 0 + 1)
        BY <2>1, <2>2, <2>3, <3>1, <3>2, <4>1, <4>2, ExceptionEntryRanged
      <4> QED
        BY <4>1, <4>3
    <3> QED
      BY <1>1, <1>4, <2>4, <3>3 DEF x
  <2>5. CASE ~CanBeActivated(r, c)
    <3>1. popped.n = r
      BY <2>1, <2>3, PopStackGood DEF popped
    <3>2. x.n = r
      BY <1>1, <1>4, <2>5, <3>1
    <3> QED
      BY <1>2, <2>2, <3>2 DEF x
  <2> QED
    BY <2>4, <2>5
<1> QED
  BY <1>3, <1>4

-----------------------------------------------------------------------------
(* The actions.  While the run goes on, no interrupt too many is counted. *)

\* What an action keeps of the invariant, with a count that may grow by 2.
Kept(n, c) == Ranged(n) /\ Counted(n, c, 2)

\* A controller whose count an operator leaves alone.
LEMMA SameCount ==
  ASSUME Ranged(nvic), Counted(nvic, cpu, 0), Ranged(nvic'),
         nvic'.interruptCount = nvic.interruptCount, NEW k \in Nat
  PROVE  Counted(nvic', cpu', k)
  BY LimitAssumption DEF Counted, Ranged, Plain

LEMMA CountedTwo ==
  ASSUME NEW n, NEW c, Ranged(n), Counted(n, c, 1)
  PROVE  Kept(n, c)
<1>1. 1 \in Nat /\ 1 + 1 = 2
  OBVIOUS
<1>2. Counted(n, c, 1 + 1)
  BY <1>1, CountedMore
<1> QED
  BY <1>1, <1>2 DEF Kept

LEMMA BlockHookRanged ==
  ASSUME GoodPair(nvic, cpu), Ranged(nvic), Counted(nvic, cpu, 0), BlockHook
  PROVE  Kept(nvic', cpu')
<1> DEFINE b == IF cpu.primask THEN nvic.prevBasepri ELSE cpu.basepri
           n == [nvic EXCEPT !.prevPrimask = cpu.primask, !.prevBasepri = b]
           ceiling == IF cpu.basepri # 0 /\ cpu.basepri < n.activeGroupPrio
                      THEN GroupPrio(n, cpu.basepri) ELSE n.activeGroupPrio
           x == ExceptionEntry([n |-> n, c |-> cpu], FALSE)
<1>1. Good(nvic) /\ cpu \in CpuType /\ cpu.exit # "inconsistent"
      /\ (cpu.exit = "no" => Stacked(nvic, cpu))
  BY DEF GoodPair
<1>2. b \in -1..255 /\ b \in Int /\ cpu.primask \in BOOLEAN
  <2>1. nvic.prevBasepri \in -1..255
    BY DEF Ranged, Plain
  <2> HIDE DEF n, ceiling, x, b
  <2>2. cpu.primask \in BOOLEAN
    BY <1>1, CpuFields
  <2>3. cpu.basepri \in 0..255
    BY <1>1 DEF CpuType
  <2> QED
    BY <2>1, <2>2, <2>3 DEF b
<1> HIDE DEF b
<1>3. Good(n) /\ n.activeIrq = nvic.activeIrq
  BY <1>1, <1>2 DEF Good, NvicType, Cached, OneActive, Scanned
<1>4. \/ nvic' = n /\ cpu' = cpu
      \/ nvic' = x.n /\ cpu' = x.c /\ n.activeIrq = NONE /\ n.pendingPrio < ceiling
  BY DEF BlockHook, b
<1>5. /\ n.priority = nvic.priority /\ n.interruptCount = nvic.interruptCount
      /\ n.activeGroupPrio = nvic.activeGroupPrio /\ n.pendingPrio = nvic.pendingPrio
      /\ n.prevBasepri = b
  BY <1>1 DEF Good, NvicType
<1> HIDE DEF n
<1>6. Ranged(n) /\ Counted(n, cpu, 0) /\ Counted(n, cpu, 1)
  BY <1>2, <1>5, LimitAssumption DEF Ranged, Plain, Counted
<1>7. CASE nvic' = n /\ cpu' = cpu
  BY <1>6, <1>7, CountedTwo
<1>8. CASE nvic' = x.n /\ cpu' = x.c /\ n.activeIrq = NONE /\ n.pendingPrio < ceiling
  <2>1. n.activeGroupPrio \in Int /\ n.activeGroupPrio <= 256 /\ n.pendingPrio \in Int
    BY <1>3 DEF Good, Cached, NvicType, LOWEST
  <2>2. GroupPrio(n, cpu.basepri) \in 0..255
    <3>1. n \in NvicType /\ cpu.basepri \in 0..255
      BY <1>1, <1>3 DEF Good, CpuType
    <3> QED
      BY <3>1, GroupPrioNat
  <2>3. ceiling \in Int /\ ceiling <= 256
    BY <2>1, <2>2
  <2> HIDE DEF ceiling
  <2>4. n.pendingPrio # 256
    BY <1>8, <2>1, <2>3
  <2>5. n.pendingIrq \in Scanned(n)
    BY <1>3, <2>4 DEF Good, Cached, LOWEST
  <2>6. 0 \in Nat /\ 0 + 1 = 1
    OBVIOUS
  <2>7. Ranged(x.n) /\ Counted(x.n, x.c, 0 + 1)
    BY <1>1, <1>3, <1>6, <1>8, <2>5, <2>6, ExceptionEntryRanged
  <2> QED
    BY <1>8, <2>6, <2>7, CountedTwo
<1> QED
  BY <1>4, <1>7, <1>8

LEMMA PendAndActivateRanged ==
  ASSUME GoodPair(nvic, cpu), Ranged(nvic), Counted(nvic, cpu, 0), NEW e \in Exc,
         Becomes(MaybeActivate([n |-> PendInterrupt(nvic, e), c |-> cpu]))
  PROVE  Kept(nvic', cpu')
<1> DEFINE p == PendInterrupt(nvic, e)
           x == MaybeActivate([n |-> p, c |-> cpu])
<1>1. GoodPair(p, cpu)
  BY PendInterruptGood DEF GoodPair, Stacked
<1>2. Ranged(p) /\ Counted(p, cpu, 0)
  BY PendInterruptRanged DEF GoodPair, Counted
<1>3. nvic' = x.n /\ cpu' = x.c
  BY DEF Becomes
<1> HIDE DEF p
<1>4. 0 \in Nat /\ 0 + 1 = 1
  OBVIOUS
<1>5. Ranged(x.n) /\ Counted(x.n, x.c, 0 + 1)
  BY <1>1, <1>2, <1>4, MaybeActivateRanged
<1> QED
  BY <1>3, <1>4, <1>5, CountedTwo

\* One bit of the ICSR: a set bit may count an interrupt, a clear bit does not.
RangedRecord(m, k) == GoodRecord(m) /\ Ranged(m.n) /\ Counted(m.n, m.c, k)

LEMMA PendIfRanged ==
  ASSUME NEW m, NEW k \in Nat, RangedRecord(m, k), NEW b, NEW e \in Exc
  PROVE  RangedRecord(PendIf(b, e, m), k + 1)
<1> DEFINE p == PendInterrupt(m.n, e)
           x == MaybeActivate([n |-> p, c |-> m.c])
<1>1. GoodPair(p, m.c)
  BY PendInterruptGood DEF GoodPair, Stacked, GoodRecord, RangedRecord
<1>2. Ranged(p) /\ Counted(p, m.c, k)
  BY PendInterruptRanged DEF GoodPair, GoodRecord, RangedRecord, Counted
<1>3. PendIf(b, e, m) = IF b THEN x ELSE m
  BY DEF PendIf
<1>4. GoodRecord(PendIf(b, e, m))
  BY PendIfGood DEF RangedRecord
<1> HIDE DEF p
<1>5. Ranged(x.n) /\ Counted(x.n, x.c, k + 1)
  BY <1>1, <1>2, MaybeActivateRanged
<1>6. Ranged(m.n) /\ Counted(m.n, m.c, k + 1)
  BY CountedMore DEF RangedRecord
<1> QED
  BY <1>3, <1>4, <1>5, <1>6 DEF RangedRecord

LEMMA ClearIfRanged ==
  ASSUME NEW m, NEW k \in Nat, RangedRecord(m, k), NEW b, NEW e \in Exc
  PROVE  RangedRecord(ClearIf(b, e, m), k)
<1> DEFINE p == ClearPendInterrupt(m.n, e)
<1>1. Ranged(p) /\ Counted(p, m.c, k)
  BY ClearPendInterruptRanged DEF GoodPair, GoodRecord, RangedRecord, Counted
<1>2. ClearIf(b, e, m) = IF b THEN [n |-> p, c |-> m.c] ELSE m
  BY DEF ClearIf
<1>3. GoodRecord(ClearIf(b, e, m))
  BY ClearIfGood DEF RangedRecord
<1> HIDE DEF p
<1> QED
  BY <1>1, <1>2, <1>3 DEF RangedRecord

LEMMA WriteIcsrRanged ==
  ASSUME GoodPair(nvic, cpu), Ranged(nvic), Counted(nvic, cpu, 0), NEW B, WriteIcsr(B)
  PROVE  Kept(nvic', cpu')
<1> DEFINE m0 == [n |-> nvic, c |-> cpu]
           m1 == PendIf("PENDSVSET" \in B, PENDSV, m0)
           m2 == ClearIf("PENDSVCLR" \in B, PENDSV, m1)
           m3 == PendIf("PENDSTSET" \in B, SYSTICK, m2)
           m4 == ClearIf("PENDSTCLR" \in B, SYSTICK, m3)
           m5 == IF "NMIPENDSET" \in B
                 THEN [n |-> PendInterrupt(m4.n, NMI), c |-> m4.c] ELSE m4
<1>0. /\ PENDSV \in Exc /\ SYSTICK \in Exc /\ NMI \in Exc
      /\ 0 \in Nat /\ 1 \in Nat /\ 2 \in Nat /\ 0 + 1 = 1 /\ 1 + 1 = 2
  BY DEF Exc
<1>1. nvic' = m5.n /\ cpu' = m5.c
  BY DEF WriteIcsr, Becomes
<1>2. RangedRecord(m0, 0)
  BY DEF RangedRecord, GoodRecord
<1> HIDE DEF m0
<1>3. RangedRecord(m1, 0 + 1)
  BY <1>0, <1>2, PendIfRanged
<1> HIDE DEF m1
<1>4. RangedRecord(m2, 1)
  BY <1>0, <1>3, ClearIfRanged
<1> HIDE DEF m2
<1>5. RangedRecord(m3, 1 + 1)
  BY <1>0, <1>4, PendIfRanged
<1> HIDE DEF m3
<1>6. RangedRecord(m4, 2)
  BY <1>0, <1>5, ClearIfRanged
<1> HIDE DEF m4
<1>7. /\ Ranged(PendInterrupt(m4.n, NMI))
      /\ PendInterrupt(m4.n, NMI).interruptCount = m4.n.interruptCount
  BY <1>0, <1>6, PendInterruptRanged DEF RangedRecord, GoodRecord, GoodPair
<1>8. CASE "NMIPENDSET" \in B
  <2>1. nvic' = PendInterrupt(m4.n, NMI) /\ cpu' = m4.c
    BY <1>1, <1>8
  <2> QED
    BY <1>6, <1>7, <2>1 DEF RangedRecord, Kept, Counted
<1>9. CASE "NMIPENDSET" \notin B
  BY <1>1, <1>6, <1>9 DEF RangedRecord, Kept
<1> QED
  BY <1>8, <1>9

-----------------------------------------------------------------------------
LEMMA InitRanged == Init => TInv
<1> SUFFICES ASSUME Init PROVE Ranged(nvic) /\ Counted(nvic, cpu, 2)
                               /\ phase \in {"block", "magic", "exec"}
  BY InitGood DEF TInv
<1>1. \A e \in Exc \ {NMI} : nvic.priority[e] = 0
  BY DEF Init
<1>2. /\ nvic.prevBasepri = -1 /\ nvic.interruptCount = 0
      /\ nvic.activeGroupPrio = 256 /\ nvic.pendingPrio = 256
  BY DEF Init, LOWEST
<1>3. phase = "block"
  BY DEF Init
<1> QED
  BY <1>1, <1>2, <1>3, LimitAssumption DEF Ranged, Plain, Counted, LOWEST

\* Every action requires that the run goes on.
LEMMA StepsRun == Next => Running
  BY DEF Next, BlockHook, ReturnHook, EndBlock, SetMasks, SetSpsel, Svc, NotAnSvc, NvicSetPending,
         WriteIser, WriteIcer, WriteIspr, WriteIcpr, WriteStir, WritePrios, WriteAircr,
         WriteIcsr, Executing

LEMMA StepPhase ==
  ASSUME phase \in {"block", "magic", "exec"}, [Next]_vars
  PROVE  phase' \in {"block", "magic", "exec"}
  BY DEF Next, BlockHook, ReturnHook, EndBlock, SetMasks, SetSpsel, Svc, NotAnSvc, NvicSetPending,
         WriteIser, WriteIcer, WriteIspr, WriteIcpr, WriteStir, WritePrios, WriteAircr,
         WriteIcsr, Becomes, vars

\* Every step keeps the priorities and the count in range.
LEMMA StepRanged ==
  ASSUME GoodPair(nvic, cpu), Ranged(nvic), Counted(nvic, cpu, 0), Next
  PROVE  Kept(nvic', cpu')
<1>0. Good(nvic) /\ Ext \subseteq Exc /\ SVC \in Exc /\ SYSTICK \in Exc
  BY DEF GoodPair, Exc
<1>a. ASSUME Ranged(nvic'), nvic'.interruptCount = nvic.interruptCount
      PROVE  Kept(nvic', cpu')
  <2>1. Counted(nvic', cpu', 2)
    BY <1>a, SameCount
  <2> QED
    BY <1>a, <2>1 DEF Kept
<1>1. ASSUME BlockHook PROVE Kept(nvic', cpu')
  BY <1>1, BlockHookRanged
<1>2. ASSUME ReturnHook PROVE Kept(nvic', cpu')
  <2> DEFINE x == ExceptionReturn([n |-> nvic, c |-> cpu])
  <2>1. cpu.exit = "no" /\ nvic' = x.n /\ cpu' = x.c
    BY <1>2 DEF ReturnHook, Running
  <2>2. Ranged(x.n) /\ Counted(x.n, x.c, 1)
    BY <2>1, ExceptionReturnRanged
  <2> QED
    BY <2>1, <2>2, CountedTwo
<1>3. ASSUME EndBlock \/ SetMasks \/ SetSpsel \/ NotAnSvc PROVE Kept(nvic', cpu')
  BY <1>3, <1>a DEF EndBlock, SetMasks, SetSpsel, NotAnSvc
<1>4. ASSUME Svc PROVE Kept(nvic', cpu')
  BY <1>0, <1>4, PendAndActivateRanged DEF Svc
<1>5. ASSUME NEW e \in Ext \cup {SYSTICK}, NvicSetPending(e) PROVE Kept(nvic', cpu')
  BY <1>0, <1>5, PendAndActivateRanged DEF NvicSetPending
<1>6. ASSUME NEW S \in SUBSET Ext, WriteIser(S) PROVE Kept(nvic', cpu')
  <2>1. nvic' \in {EnableIrqs(nvic, S), RecalcPrios(EnableIrqs(nvic, S))}
    BY <1>6 DEF WriteIser
  <2>2. S \in SUBSET Exc
    BY <1>0
  <2> QED
    BY <1>0, <1>a, <2>1, <2>2, EnableIrqsRanged
<1>7. ASSUME NEW e \in Ext, WriteIcer(e) PROVE Kept(nvic', cpu')
  BY <1>0, <1>7, <1>a, DisableIrqRanged DEF WriteIcer
<1>8. ASSUME NEW e \in Ext, WriteIspr(e) PROVE Kept(nvic', cpu')
  BY <1>0, <1>8, <1>a, PendInterruptRanged DEF WriteIspr
<1>9. ASSUME NEW e \in Ext, WriteIcpr(e) PROVE Kept(nvic', cpu')
  BY <1>0, <1>9, <1>a, ClearPendInterruptRanged DEF WriteIcpr
<1>10. ASSUME NEW e \in Ext, WriteStir(e) PROVE Kept(nvic', cpu')
  BY <1>0, <1>10, PendAndActivateRanged DEF WriteStir
<1>11. ASSUME NEW e \in PrioExc, NEW p \in Prios, WritePrios([x \in {e} |-> p])
       PROVE  Kept(nvic', cpu')
  <2> DEFINE f == [x \in {e} |-> p]
  <2>1. {e} \in SUBSET Exc /\ f \in [{e} -> 0..255]
    BY PrioAssumption
  <2>2. nvic' = SetPrios(nvic, f)
    BY <1>11 DEF WritePrios
  <2> HIDE DEF f
  <2> QED
    BY <1>0, <1>a, <2>1, <2>2, SetPriosRanged
<1>12. ASSUME NEW g \in Prigroups, NEW reset \in BOOLEAN, WriteAircr(g, reset)
       PROVE  Kept(nvic', cpu')
  <2> DEFINE n == [nvic EXCEPT !.prigroup = g]
  <2>1. n \in NvicType /\ SameRanged(n, nvic)
    BY <1>0, PrioAssumption DEF Good, NvicType, SameRanged, SamePlain
  <2>2. nvic' \in {nvic, n, RecalcPrios(n)}
    BY <1>12 DEF WriteAircr
  <2> HIDE DEF n
  <2> QED
    BY <1>a, <2>1, <2>2, OneOfThree
<1>13. ASSUME NEW B, WriteIcsr(B) PROVE Kept(nvic', cpu')
  BY <1>13, WriteIcsrRanged
<1> QED
  BY <1>1, <1>2, <1>3, <1>4, <1>5, <1>6, <1>7, <1>8, <1>9, <1>10, <1>11,
     <1>12, <1>13 DEF Next

LEMMA StepInRange == TInv /\ [Next]_vars => TInv'
<1> SUFFICES ASSUME TInv, [Next]_vars PROVE TInv'
  OBVIOUS
<1>1. IInv'
  BY StepGood DEF TInv
<1>2. phase' \in {"block", "magic", "exec"}
  BY StepPhase DEF TInv
<1>3. CASE Next
  <2>1. Counted(nvic, cpu, 0)
    <3>1. cpu.exit = "no"
      BY <1>3, StepsRun DEF Running
    <3> QED
      BY <3>1, LimitAssumption DEF TInv, Counted, Ranged, Plain
  <2>2. Kept(nvic', cpu')
    BY <1>3, <2>1, StepRanged DEF TInv, IInv
  <2> QED
    BY <1>1, <1>2, <2>2 DEF TInv, Kept
<1>4. CASE UNCHANGED vars
  BY <1>1, <1>2, <1>4 DEF TInv, vars
<1> QED
  BY <1>3, <1>4

LEMMA InRange == Spec => []TInv
  BY InitRanged, StepInRange, PTL DEF Spec

\* The controller and the CPU keep their types: cached priorities stay between
\* 0 and LOWEST, the remembered BASEPRI between -1 and 255 (RecalcPrios and the
\* block hook), and the count of interrupts passes the limit by at most one
\* (ExceptionEntry, twice in one ICSR write).
THEOREM TypeCorrect == Spec => []TypeOK
<1>1. TInv => TypeOK
  <2> SUFFICES ASSUME TInv PROVE TypeOK
    OBVIOUS
  <2>1. nvic \in NvicType /\ cpu \in CpuType /\ Cached(nvic)
    BY DEF TInv, IInv, GoodPair, Good
  <2>2. nvic.numActive \in Nat
    <3>1. nvic.active \in SUBSET Exc
      BY <2>1 DEF NvicType
    <3> QED
      BY <2>1, <3>1, FiniteActive DEF Cached
  <2>3. nvic.activeGroupPrio \in 0..LOWEST /\ nvic.pendingPrio \in 0..LOWEST
    BY <2>1 DEF TInv, Ranged, Cached, NvicType, LOWEST
  <2>4. nvic.interruptCount \in 0..InterruptLimit + 1 /\ nvic.prevBasepri \in -1..255
    BY LimitAssumption DEF TInv, Ranged, Plain, Counted
  <2> QED
    BY <2>1, <2>2, <2>3, <2>4 DEF TypeOK, NvicType, CpuType, TInv
<1> QED
  BY <1>1, InRange, PTL

-----------------------------------------------------------------------------
(* What is kept beside the flags. *)

\* The pending and the active exceptions that a recalculation sees.
SeenPending(n) == n.pending \cap Scanned(n)
SeenActive(n) == n.active \cap Scanned(n)

\* The cached fields of n are what RecalcPrios would set.
Exact(n) ==
  /\ n.pendingIrq = BestPending(n)
  /\ n.pendingPrio = IF n.pendingIrq = NONE THEN LOWEST ELSE n.priority[n.pendingIrq]
  /\ n.activeGroupPrio = BestActivePrio(n)

\* Every pending exception but the NMI is seen: enabling adds none to them.
Wide(n) == SYSTICK <= n.highestEver /\ n.pending \subseteq Scanned(n) \cup {NMI}

Fresh(n) == Exact(n) /\ Wide(n)

\* A recalculation sees the same in n and in m.
SameScan(n, m) ==
  /\ SeenPending(n) = SeenPending(m) /\ SeenActive(n) = SeenActive(m)
  /\ n.priority = m.priority /\ n.prigroup = m.prigroup

\* n has the cached fields of m.
SameCache(n, m) ==
  /\ n.pendingIrq = m.pendingIrq /\ n.pendingPrio = m.pendingPrio
  /\ n.activeGroupPrio = m.activeGroupPrio

-----------------------------------------------------------------------------
(* The best pending exception. *)

LEMMA ExcInts ==
  ASSUME NEW n \in NvicType, NEW e \in Exc
  PROVE  e \in Int /\ n.priority[e] \in Int /\ n.priority[e] <= 255
<1>1. e \in 0..255
  BY ExcNat
<1>2. n.priority[e] \in -2..255
  BY DEF NvicType
<1> QED
  BY <1>1, <1>2

LEMMA BeatsAntisymmetric ==
  ASSUME NEW n \in NvicType, NEW e \in Exc, NEW f \in Exc, Beats(n, e, f), Beats(n, f, e)
  PROVE  e = f
<1>1. e \in Int /\ f \in Int
  BY ExcNat
<1>2. n.priority[e] \in Int /\ n.priority[f] \in Int
  BY DEF NvicType
<1>3. /\ n.priority[e] < n.priority[f] \/ (n.priority[e] = n.priority[f] /\ e <= f)
      /\ n.priority[f] < n.priority[e] \/ (n.priority[f] = n.priority[e] /\ f <= e)
  BY DEF Beats
<1>4. \A a, b, x, y \in Int :
        (a < b \/ (a = b /\ x <= y)) /\ (b < a \/ (b = a /\ y <= x)) => x = y
  OBVIOUS
<1> QED
  BY <1>1, <1>2, <1>3, <1>4

LEMMA BestPendingBest ==
  ASSUME NEW n \in NvicType
  PROVE  IF SeenPending(n) = {} THEN BestPending(n) = NONE
         ELSE /\ BestPending(n) \in SeenPending(n)
              /\ \A f \in SeenPending(n) : Beats(n, BestPending(n), f)
<1> DEFINE P == SeenPending(n)
<1>1. P \subseteq Exc
  BY DEF NvicType, SeenPending
<1>2. BestPending(n) = IF P = {} THEN NONE ELSE CHOOSE e \in P : \A f \in P : Beats(n, e, f)
  BY DEF BestPending, SeenPending
<1> HIDE DEF P
<1>3. P # {} => \E e \in P : \A f \in P : Beats(n, e, f)
  BY <1>1, BestExists
<1>4. CASE P = {}
  BY <1>2, <1>4 DEF P
<1>5. CASE P # {}
  BY <1>2, <1>3, <1>5 DEF P
<1> QED
  BY <1>4, <1>5

\* There is no other best one.
LEMMA BestPendingIs ==
  ASSUME NEW n \in NvicType, NEW e \in SeenPending(n),
         \A f \in SeenPending(n) : Beats(n, e, f)
  PROVE  BestPending(n) = e
<1>1. SeenPending(n) \subseteq Exc
  BY DEF NvicType, SeenPending
<1>2. /\ BestPending(n) \in SeenPending(n)
      /\ Beats(n, BestPending(n), e) /\ Beats(n, e, BestPending(n))
  BY BestPendingBest
<1> QED
  BY <1>1, <1>2, BeatsAntisymmetric

LEMMA BestPendingSame ==
  ASSUME NEW n \in NvicType, NEW m \in NvicType, SameScan(n, m)
  PROVE  BestPending(n) = BestPending(m)
<1>1. SeenPending(n) = SeenPending(m) /\ n.priority = m.priority
  BY DEF SameScan
<1>2. \A e, f : Beats(n, e, f) <=> Beats(m, e, f)
  BY <1>1 DEF Beats
<1>3. CASE SeenPending(n) = {}
  BY <1>1, <1>3, BestPendingBest
<1>4. CASE SeenPending(n) # {}
  <2>1. /\ BestPending(m) \in SeenPending(n)
        /\ \A f \in SeenPending(n) : Beats(n, BestPending(m), f)
    BY <1>1, <1>2, <1>4, BestPendingBest
  <2> QED
    BY <2>1, BestPendingIs
<1> QED
  BY <1>3, <1>4

LEMMA BestActiveSame ==
  ASSUME NEW n, NEW m, SeenActive(n) = SeenActive(m),
         n.priority = m.priority, n.prigroup = m.prigroup
  PROVE  BestActivePrio(n) = BestActivePrio(m)
<1> DEFINE A(x) == {GroupPrio(x, x.priority[e]) : e \in x.active \cap Scanned(x)}
<1>1. \A p : GroupPrio(n, p) = GroupPrio(m, p)
  BY DEF GroupPrio, GroupSize
<1>2. A(n) = A(m)
  BY <1>1 DEF SeenActive
<1>3. /\ BestActivePrio(n) = IF A(n) = {} THEN LOWEST
                             ELSE CHOOSE p \in A(n) : \A q \in A(n) : p <= q
      /\ BestActivePrio(m) = IF A(m) = {} THEN LOWEST
                             ELSE CHOOSE p \in A(m) : \A q \in A(m) : p <= q
  BY DEF BestActivePrio
<1> HIDE DEF A
<1> QED
  BY <1>2, <1>3

LEMMA SameIsExact ==
  ASSUME NEW n \in NvicType, NEW m \in NvicType, SameScan(n, m), SameCache(n, m), Exact(m)
  PROVE  Exact(n)
<1>1. n.priority = m.priority
  BY DEF SameScan
<1>2. BestPending(n) = BestPending(m)
  BY BestPendingSame
<1>3. BestActivePrio(n) = BestActivePrio(m)
  BY BestActiveSame DEF SameScan
<1> QED
  BY <1>1, <1>2, <1>3 DEF Exact, SameCache

LEMMA RecalcFresh ==
  ASSUME NEW n \in NvicType, n.active \subseteq Scanned(n), Wide(n)
  PROVE  Fresh(RecalcPrios(n))
<1> DEFINE r == RecalcPrios(n)
<1>1. r \in NvicType
  BY RecalcPriosGood
<1>2. /\ r.pending = n.pending /\ r.active = n.active /\ r.priority = n.priority
      /\ r.prigroup = n.prigroup /\ r.highestEver = n.highestEver
      /\ r.pendingIrq = BestPending(n)
      /\ r.pendingPrio = IF BestPending(n) = NONE THEN LOWEST ELSE n.priority[BestPending(n)]
      /\ r.activeGroupPrio = BestActivePrio(n)
  BY DEF RecalcPrios, NvicType
<1> HIDE DEF r
<1>3. Scanned(r) = Scanned(n)
  BY <1>2 DEF Scanned
<1>4. SameScan(r, n)
  BY <1>2, <1>3 DEF SameScan, SeenPending, SeenActive
<1>5. BestPending(r) = BestPending(n)
  BY <1>1, <1>4, BestPendingSame
<1>6. BestActivePrio(r) = BestActivePrio(n)
  BY <1>4, BestActiveSame DEF SameScan
<1>7. Exact(r)
  BY <1>2, <1>5, <1>6 DEF Exact
<1>8. Wide(r)
  BY <1>2, <1>3 DEF Wide
<1> QED
  BY <1>7, <1>8 DEF r, Fresh

\* Fields that neither the scan nor the cache knows of.
LEMMA SameIsFresh ==
  ASSUME NEW n \in NvicType, NEW m \in NvicType, Fresh(m), SameCache(n, m),
         n.pending = m.pending, n.active = m.active, n.priority = m.priority,
         n.prigroup = m.prigroup, n.highestEver = m.highestEver
  PROVE  Fresh(n)
<1>1. Scanned(n) = Scanned(m)
  BY DEF Scanned
<1>2. SameScan(n, m)
  BY <1>1 DEF SameScan, SeenPending, SeenActive
<1> QED
  BY <1>1, <1>2, SameIsExact DEF Fresh, Wide

-----------------------------------------------------------------------------
(* The operators of the controller. *)

LEMMA CoreScanned ==
  ASSUME NEW n \in NvicType, Wide(n)
  PROVE  {SVC, PENDSV, SYSTICK} \subseteq Scanned(n)
<1>1. n.highestEver \in 0..255 /\ 15 <= n.highestEver
  BY ExcNat DEF Wide, SYSTICK, NvicType
<1> QED
  BY <1>1 DEF Scanned, Exc, SVC, PENDSV, SYSTICK

\* Without a recalculation, the exception pended is no better than the best.
LEMMA PendInterruptFresh ==
  ASSUME NEW n, Good(n), Fresh(n), NEW e \in Scanned(n) \cup {NMI}
  PROVE  Fresh(PendInterrupt(n, e))
<1> DEFINE m == [n EXCEPT !.pending = @ \cup {e}]
           p == n.pendingIrq
<1>1. n \in NvicType /\ n.active \subseteq Scanned(n) /\ e \in Exc /\ NMI \in Exc
  BY DEF Good, OneActive, Scanned, Exc
<1>2. m \in NvicType
  BY <1>1 DEF NvicType
<1>3. /\ m.pending = n.pending \cup {e} /\ m.active = n.active /\ m.priority = n.priority
      /\ m.prigroup = n.prigroup /\ m.highestEver = n.highestEver /\ m.pendingIrq = p
      /\ m.pendingPrio = n.pendingPrio /\ m.activeGroupPrio = n.activeGroupPrio
  BY <1>1 DEF NvicType
<1>4. PendInterrupt(n, e) = IF e \in n.pending THEN n
                            ELSE IF e < p \/ n.priority[e] < n.pendingPrio
                            THEN RecalcPrios(m) ELSE m
  BY DEF PendInterrupt
<1> HIDE DEF m
<1>5. Scanned(m) = Scanned(n)
  BY <1>3 DEF Scanned
<1>6. Wide(m)
  BY <1>3, <1>5 DEF Fresh, Wide
<1>7. Fresh(RecalcPrios(m))
  BY <1>1, <1>2, <1>3, <1>5, <1>6, RecalcFresh
<1>8. ASSUME e # NMI, ~(e < p), ~(n.priority[e] < n.pendingPrio) PROVE BestPending(m) = p
  <2>1. SeenPending(m) = SeenPending(n) \cup {e}
    BY <1>3, <1>5, <1>8 DEF SeenPending
  <2>2. /\ e \in Int /\ n.priority[e] \in Int /\ n.priority[e] <= 255
        /\ p \in Exc => p \in Int /\ n.priority[p] \in Int
    BY <1>1, ExcInts
  <2>3. p # NONE
    BY <1>8, <2>2 DEF Fresh, Exact, LOWEST
  <2>4. p \in SeenPending(n) /\ \A f \in SeenPending(n) : Beats(n, p, f)
    BY <1>1, <2>3, BestPendingBest DEF Fresh, Exact
  <2>5. p \in Exc /\ n.pendingPrio = n.priority[p]
    BY <1>1, <2>3 DEF Fresh, Exact, NvicType
  <2>6. Beats(n, p, e)
    BY <1>8, <2>2, <2>5 DEF Beats
  <2>7. p \in SeenPending(m) /\ \A f \in SeenPending(m) : Beats(m, p, f)
    BY <1>3, <2>1, <2>4, <2>6 DEF Beats
  <2> QED
    BY <1>2, <2>7, BestPendingIs
<1>9. ASSUME e = NMI PROVE BestPending(m) = p
  <2>1. SameScan(m, n)
    BY <1>3, <1>5, <1>9, ScannedNoNmi DEF SameScan, SeenPending, SeenActive
  <2> QED
    BY <1>1, <1>2, <2>1, BestPendingSame DEF Fresh, Exact
<1>10. BestActivePrio(m) = BestActivePrio(n)
  BY <1>3, <1>5, BestActiveSame DEF SeenActive
<1>11. ASSUME ~(e < p \/ n.priority[e] < n.pendingPrio) PROVE Fresh(m)
  <2>1. BestPending(m) = p
    BY <1>8, <1>9, <1>11
  <2> QED
    BY <1>3, <1>6, <1>10, <2>1 DEF Fresh, Exact
<1> QED
  BY <1>4, <1>7, <1>11

LEMMA ClearPendInterruptFresh ==
  ASSUME NEW n, Good(n), Fresh(n), NEW e \in Exc
  PROVE  Fresh(ClearPendInterrupt(n, e))
<1> DEFINE m == [n EXCEPT !.pending = @ \ {e}]
           p == n.pendingIrq
<1>1. n \in NvicType /\ n.active \subseteq Scanned(n)
  BY DEF Good, OneActive
<1>2. m \in NvicType
  BY <1>1 DEF NvicType
<1>3. /\ m.pending = n.pending \ {e} /\ m.active = n.active /\ m.priority = n.priority
      /\ m.prigroup = n.prigroup /\ m.highestEver = n.highestEver /\ m.pendingIrq = p
      /\ m.pendingPrio = n.pendingPrio /\ m.activeGroupPrio = n.activeGroupPrio
  BY <1>1 DEF NvicType
<1>4. ClearPendInterrupt(n, e) = IF e \notin n.pending THEN n
                                 ELSE IF p = e THEN RecalcPrios(m) ELSE m
  BY DEF ClearPendInterrupt
<1> HIDE DEF m
<1>5. Scanned(m) = Scanned(n)
  BY <1>3 DEF Scanned
<1>6. Wide(m)
  BY <1>3, <1>5 DEF Fresh, Wide
<1>7. Fresh(RecalcPrios(m))
  BY <1>1, <1>2, <1>3, <1>5, <1>6, RecalcFresh
<1>8. SeenPending(m) = SeenPending(n) \ {e}
  BY <1>3, <1>5 DEF SeenPending
<1>9. ASSUME p # e PROVE Fresh(m)
  <2>1. CASE SeenPending(n) = {}
    <3>1. BestPending(m) = NONE /\ p = NONE
      BY <1>1, <1>2, <1>8, <2>1, BestPendingBest DEF Fresh, Exact
    <3> QED
      BY <1>3, <1>5, <1>6, <3>1, BestActiveSame DEF Fresh, Exact, SeenActive
  <2>2. CASE SeenPending(n) # {}
    <3>1. p \in SeenPending(n) /\ \A f \in SeenPending(n) : Beats(n, p, f)
      BY <1>1, <2>2, BestPendingBest DEF Fresh, Exact
    <3>2. p \in SeenPending(m) /\ \A f \in SeenPending(m) : Beats(m, p, f)
      BY <1>3, <1>8, <1>9, <3>1 DEF Beats
    <3>3. BestPending(m) = p
      BY <1>2, <3>2, BestPendingIs
    <3> QED
      BY <1>3, <1>5, <1>6, <3>3, BestActiveSame DEF Fresh, Exact, SeenActive
  <2> QED
    BY <2>1, <2>2
<1> QED
  BY <1>4, <1>7, <1>9

\* A recalculation ignores which exceptions are enabled.
LEMMA DisableIrqFresh ==
  ASSUME NEW n, Good(n), Fresh(n), NEW e \in Exc
  PROVE  Fresh(DisableIrq(n, e))
<1> DEFINE m == [n EXCEPT !.enabled = @ \ {e}]
<1>1. n \in NvicType /\ n.active \subseteq Scanned(n)
  BY DEF Good, OneActive
<1>2. m \in NvicType
  BY <1>1 DEF NvicType
<1>3. /\ m.pending = n.pending /\ m.active = n.active /\ m.priority = n.priority
      /\ m.prigroup = n.prigroup /\ m.highestEver = n.highestEver
      /\ SameCache(m, n)
  BY <1>1 DEF NvicType, SameCache
<1>4. DisableIrq(n, e) \in {n, m, RecalcPrios(m)}
  BY DEF DisableIrq
<1> HIDE DEF m
<1>5. Fresh(m)
  BY <1>1, <1>2, <1>3, SameIsFresh
<1>6. m.active \subseteq Scanned(m)
  BY <1>1, <1>3 DEF Scanned
<1>7. Fresh(RecalcPrios(m))
  BY <1>2, <1>5, <1>6, RecalcFresh DEF Fresh
<1> QED
  BY <1>4, <1>5, <1>7

\* Enabling widens the scan, but every pending exception was seen before.
LEMMA EnableIrqsFresh ==
  ASSUME NEW n, Good(n), Fresh(n), NEW S \in SUBSET Exc,
         NEW r \in {EnableIrqs(n, S), RecalcPrios(EnableIrqs(n, S))}
  PROVE  Fresh(r)
<1> DEFINE m == EnableIrqs(n, S)
           T == NewlyEnabled(n, S) \cup {n.highestEver}
<1>1. n \in NvicType /\ n.active \subseteq Scanned(n)
  BY DEF Good, OneActive
<1>2. m \in NvicType /\ Good(m)
  BY EnableIrqsGood DEF Good
<1>3. /\ m.pending = n.pending /\ m.active = n.active /\ m.priority = n.priority
      /\ m.prigroup = n.prigroup /\ SameCache(m, n)
      /\ m.highestEver = CHOOSE x \in T : \A f \in T : f <= x
  BY <1>1 DEF NvicType, SameCache, EnableIrqs
<1>4. T \subseteq Exc /\ n.highestEver \in T
  BY <1>1 DEF NvicType, NewlyEnabled
<1> HIDE DEF m, T
<1>5. n.highestEver <= m.highestEver
  BY <1>3, <1>4, GreatestExc
<1>6. n.highestEver \in Int /\ m.highestEver \in Int /\ \A e \in Exc : e \in Int
  <2>1. n.highestEver \in Exc /\ m.highestEver \in Exc
    BY <1>1, <1>2 DEF NvicType
  <2> QED
    BY <1>1, <2>1, ExcInts
<1>7. Scanned(n) \subseteq Scanned(m)
  BY <1>5, <1>6 DEF Scanned
<1>8. Wide(m)
  BY <1>3, <1>5, <1>6, <1>7 DEF Fresh, Wide, SYSTICK
<1>9. SameScan(m, n)
  <2>1. m.pending \cap Scanned(m) = n.pending \cap Scanned(n)
    BY <1>3, <1>7, ScannedNoNmi DEF Fresh, Wide
  <2>2. m.active \cap Scanned(m) = n.active \cap Scanned(n)
    BY <1>1, <1>3, <1>7
  <2> QED
    BY <1>3, <2>1, <2>2 DEF SameScan, SeenPending, SeenActive
<1>10. Fresh(m)
  BY <1>1, <1>2, <1>3, <1>8, <1>9, SameIsExact DEF Fresh
<1>11. Fresh(RecalcPrios(m))
  BY <1>1, <1>2, <1>3, <1>7, <1>8, RecalcFresh
<1> QED
  BY <1>10, <1>11 DEF m

\* The writes of priorities and of the grouping recalculate.
LEMMA SetPriosFresh ==
  ASSUME NEW n, Good(n), Fresh(n), NEW E \in SUBSET Exc, NEW f \in [E -> 0..255]
  PROVE  Fresh(SetPrios(n, f))
<1> DEFINE changed == {e \in DOMAIN f : f[e] # n.priority[e] /\ e \notin DisabledByConfig}
           q == [e \in Exc |-> IF e \in changed THEN f[e] ELSE n.priority[e]]
           m == [n EXCEPT !.priority = q]
<1>1. \A e \in changed : f[e] \in 0..255
  OBVIOUS
<1>2. SetPrios(n, f) = IF changed = {} THEN n ELSE RecalcPrios(m)
  BY DEF SetPrios
<1> HIDE DEF changed
<1>3. q \in [Exc -> -2..255]
  <2>1. \A e \in Exc : n.priority[e] \in -2..255
    BY DEF Good, NvicType
  <2> QED
    BY <1>1, <2>1
<1> HIDE DEF q
<1>4. m \in NvicType /\ Wide(m) /\ m.active \subseteq Scanned(m)
  BY <1>3 DEF Good, NvicType, OneActive, Fresh, Wide, Scanned
<1> HIDE DEF m
<1> QED
  BY <1>2, <1>4, RecalcFresh

LEMMA PrigroupFresh ==
  ASSUME NEW n, Good(n), Fresh(n), NEW g \in 0..7
  PROVE  Fresh(RecalcPrios([n EXCEPT !.prigroup = g]))
<1> DEFINE m == [n EXCEPT !.prigroup = g]
<1>1. m \in NvicType /\ Wide(m) /\ m.active \subseteq Scanned(m)
  BY DEF Good, NvicType, OneActive, Fresh, Wide, Scanned
<1> HIDE DEF m
<1>2. Fresh(RecalcPrios(m))
  BY <1>1, RecalcFresh
<1> QED
  BY <1>2 DEF m

-----------------------------------------------------------------------------
(* Exception entry and return. *)

\* What the choice of an exception looks at besides the pending ones.
SameFrame(n, m) ==
  /\ n.priority = m.priority /\ n.prigroup = m.prigroup
  /\ n.highestEver = m.highestEver

\* An entry takes the best pending exception, unless it ends the run.
LEMMA EntryFresh ==
  ASSUME NEW n, Good(n), Fresh(n), n.activeIrq = NONE, n.pendingIrq \in Scanned(n),
         NEW c \in CpuType, NEW tailChained \in BOOLEAN
  PROVE  LET x == ExceptionEntry([n |-> n, c |-> c], tailChained)
         IN /\ Fresh(x.n) /\ SameFrame(x.n, n)
            /\ x.n.activeIrq \in {NONE, n.pendingIrq} /\ x.n.pending \subseteq n.pending
            /\ x.c.primask = c.primask /\ x.c.basepri = c.basepri
<1> DEFINE e == n.pendingIrq
           k == IF e # SYSTICK THEN n.interruptCount + 1 ELSE n.interruptCount
           n1 == [n EXCEPT !.interruptCount = k]
           m == [n EXCEPT !.interruptCount = k, !.active = @ \cup {e},
                          !.pending = @ \ {e}, !.activeIrq = e]
           d == IF tailChained THEN c ELSE EnterFrom(n, c)
           x == ExceptionEntry([n |-> n, c |-> c], tailChained)
<1>1. k \in Int /\ e \in Exc /\ n.active = {} /\ n \in NvicType
  BY DEF Good, NvicType, Scanned, OneActive
<1>2. x = IF e # SYSTICK /\ LimitReached(n1)
          THEN [n |-> n1, c |-> Exit(c, "limit")]
          ELSE [n |-> RecalcPrios(m), c |-> [d EXCEPT !.ipsr = e]]
  BY DEF ExceptionEntry, Good, NvicType
<1>3. Exit(c, "limit").primask = c.primask /\ Exit(c, "limit").basepri = c.basepri
  BY DEF Exit, CpuType
<1>4. LET f == [d EXCEPT !.ipsr = e] IN f.primask = c.primask /\ f.basepri = c.basepri
  BY DEF EnterFrom, PushStack, CpuType
<1> HIDE DEF k, d, x
<1>5. /\ n1 \in NvicType /\ n1.activeIrq = NONE /\ n1.pending = n.pending
      /\ n1.active = n.active /\ SameFrame(n1, n) /\ SameCache(n1, n)
  BY <1>1 DEF NvicType, SameFrame, SameCache
<1>6. /\ m \in NvicType /\ m.activeIrq = e /\ m.pending = n.pending \ {e}
      /\ m.active = {e} /\ SameFrame(m, n)
  BY <1>1 DEF NvicType, SameFrame
<1> HIDE DEF n1, m, e
<1>7. Fresh(n1)
  BY <1>1, <1>5, SameIsFresh DEF SameFrame
<1>8. m.active \subseteq Scanned(m) /\ Wide(m)
  BY <1>6 DEF Scanned, SameFrame, Fresh, Wide, e
<1>9. Fresh(RecalcPrios(m))
  BY <1>6, <1>8, RecalcFresh
<1>10. /\ RecalcPrios(m).activeIrq = e /\ RecalcPrios(m).pending \subseteq n.pending
       /\ SameFrame(RecalcPrios(m), n)
  BY <1>6 DEF RecalcPrios, NvicType, SameFrame
<1>11. CASE e # SYSTICK /\ LimitReached(n1)
  <2>1. x.n = n1 /\ x.c = Exit(c, "limit")
    BY <1>2, <1>11
  <2> QED
    BY <1>3, <1>5, <1>7, <2>1 DEF x
<1>12. CASE ~(e # SYSTICK /\ LimitReached(n1))
  <2>1. x.n = RecalcPrios(m) /\ x.c = [d EXCEPT !.ipsr = e]
    BY <1>2, <1>12
  <2> QED
    BY <1>4, <1>9, <1>10, <2>1 DEF x, e
<1> QED
  BY <1>11, <1>12

\* e may be taken with the masks of c, and no exception of P beats it.
Chosen(n, c, P, e) ==
  /\ ~c.primask \/ e = SVC
  /\ c.basepri = 0 \/ n.priority[e] < GroupPrio(n, c.basepri)
  /\ \A f \in P \cap Scanned(n) : Beats(n, e, f)

\* The best pending exception beats every other, and has the cached priority.
LEMMA PendingIrqBeats ==
  ASSUME NEW n, Good(n), Fresh(n), n.pendingIrq # NONE
  PROVE  /\ n.pendingPrio = n.priority[n.pendingIrq]
         /\ \A f \in n.pending \cap Scanned(n) : Beats(n, n.pendingIrq, f)
  BY BestPendingBest DEF Good, Fresh, Exact, SeenPending

\* What can be activated may be taken.
LEMMA ActivatedIsChosen ==
  ASSUME NEW n, Good(n), Ranged(n), Fresh(n), NEW c \in CpuType,
         CanBeActivated(n, c), n.pendingIrq # NONE
  PROVE  Chosen(n, c, n.pending, n.pendingIrq)
<1>1. /\ n.pendingPrio = n.priority[n.pendingIrq]
      /\ \A f \in n.pending \cap Scanned(n) : Beats(n, n.pendingIrq, f)
  BY PendingIrqBeats
<1>2. n.pendingPrio < BoostedPrio(n, c, n.activeGroupPrio)
  BY DEF CanBeActivated
<1>3. n \in NvicType
  BY DEF Good
<1>4. n.pendingPrio \in Int /\ n.activeGroupPrio \in Int
  BY <1>3 DEF NvicType
<1>5. ~c.primask \/ n.pendingIrq = SVC
  <2>1. n.pendingPrio >= 0
    BY DEF Ranged
  <2> QED
    BY <1>2, <1>4, <2>1 DEF BoostedPrio
<1>6. c.basepri # 0 => n.pendingPrio < GroupPrio(n, c.basepri)
  <2>1. c.basepri \in 0..255
    BY CpuFields
  <2>2. GroupPrio(n, c.basepri) \in 0..255
    BY <1>3, <2>1, GroupPrioNat
  <2>3. BoostedPrio(n, c, n.activeGroupPrio) =
          IF c.basepri # 0 /\ GroupPrio(n, c.basepri) < n.activeGroupPrio
          THEN GroupPrio(n, c.basepri) ELSE n.activeGroupPrio
    BY <1>5 DEF BoostedPrio
  <2> QED
    BY <1>2, <1>4, <2>2, <2>3
<1> QED
  BY <1>1, <1>5, <1>6 DEF Chosen

\* In thread mode, no handler bounds what may be taken.
LEMMA ThreadCeiling ==
  ASSUME NEW n, Good(n), Fresh(n), n.activeIrq = NONE
  PROVE  n.activeGroupPrio = LOWEST
<1>1. n.active = {}
  BY DEF Good, OneActive
<1> QED
  BY <1>1 DEF Fresh, Exact, BestActivePrio

\* One outcome x of an operation on m: it takes the right exception of those in
\* P, or none.
Takes(x, m, P) ==
  /\ Fresh(x.n) /\ SameFrame(x.n, m.n)
  /\ x.c.primask = m.c.primask /\ x.c.basepri = m.c.basepri
  /\ x.n.pending \subseteq P
  /\ x.n.activeIrq \notin {NONE, m.n.activeIrq} =>
       m.n.activeIrq = NONE /\ Chosen(m.n, m.c, P, x.n.activeIrq)

LEMMA MaybeActivateTakes ==
  ASSUME NEW n, NEW c, GoodPair(n, c), Ranged(n), Fresh(n)
  PROVE  Takes(MaybeActivate([n |-> n, c |-> c]), [n |-> n, c |-> c], n.pending)
<1> DEFINE m == [n |-> n, c |-> c]
           x == MaybeActivate(m)
<1>1. x = IF CanBeActivated(n, c) THEN ExceptionEntry(m, FALSE) ELSE m
  BY DEF MaybeActivate
<1>2. CASE ~CanBeActivated(n, c)
  BY <1>1, <1>2 DEF Takes, SameFrame
<1>3. CASE CanBeActivated(n, c)
  <2>1. Good(n) /\ n \in NvicType /\ c \in CpuType
    BY DEF GoodPair, Good
  <2>2. n.activeIrq = NONE /\ n.pendingIrq \in Scanned(n) /\ n.pendingIrq # NONE
    BY <1>3, <2>1, ActivatesPending, ScannedExc, ExcNat
  <2>3. /\ Fresh(x.n) /\ SameFrame(x.n, n) /\ x.n.pending \subseteq n.pending
        /\ x.n.activeIrq \in {NONE, n.pendingIrq}
        /\ x.c.primask = c.primask /\ x.c.basepri = c.basepri
    BY <1>1, <1>3, <2>1, <2>2, EntryFresh
  <2>4. Chosen(n, c, n.pending, n.pendingIrq)
    BY <1>3, <2>1, <2>2, ActivatedIsChosen
  <2> HIDE DEF x
  <2>5. m.n = n /\ m.c = c
    OBVIOUS
  <2> QED
    BY <2>2, <2>3, <2>4, <2>5 DEF Takes, x
<1> QED
  BY <1>2, <1>3

-----------------------------------------------------------------------------
(* One bit of the ICSR: pend e, and take an exception if one can be taken. *)

LEMMA PendInterruptFrame ==
  ASSUME NEW n, Good(n), NEW e
  PROVE  /\ SameFrame(PendInterrupt(n, e), n)
         /\ PendInterrupt(n, e).pending = n.pending \cup {e}
  BY DEF PendInterrupt, RecalcPrios, SameFrame, Good, NvicType

LEMMA ClearPendInterruptFrame ==
  ASSUME NEW n, Good(n), NEW e
  PROVE  /\ SameFrame(ClearPendInterrupt(n, e), n)
         /\ ClearPendInterrupt(n, e).pending = n.pending \ {e}
  BY DEF ClearPendInterrupt, RecalcPrios, SameFrame, Good, NvicType

\* The choice depends on the frame and the masks only.
LEMMA ChosenSame ==
  ASSUME NEW n, NEW m, SameFrame(n, m), NEW c, NEW d,
         c.primask = d.primask, c.basepri = d.basepri, NEW P, NEW e
  PROVE  Chosen(n, c, P, e) <=> Chosen(m, d, P, e)
<1>1. Scanned(n) = Scanned(m)
  BY DEF Scanned, SameFrame
<1>2. n.priority = m.priority /\ \A p : GroupPrio(n, p) = GroupPrio(m, p)
  BY DEF GroupPrio, GroupSize, SameFrame
<1> QED
  BY <1>1, <1>2 DEF Chosen, Beats

LEMMA PendTakes ==
  ASSUME NEW n, NEW c, GoodPair(n, c), Ranged(n), Fresh(n), NEW e \in Scanned(n)
  PROVE  Takes(MaybeActivate([n |-> PendInterrupt(n, e), c |-> c]),
               [n |-> n, c |-> c], n.pending \cup {e})
<1> DEFINE p == PendInterrupt(n, e)
           x == MaybeActivate([n |-> p, c |-> c])
<1>1. e \in Exc /\ Good(n)
  BY DEF Scanned, GoodPair
<1>2. GoodPair(p, c) /\ p.activeIrq = n.activeIrq
  BY <1>1, PendInterruptGood DEF GoodPair, Stacked
<1>3. Ranged(p) /\ Fresh(p)
  BY <1>1, PendInterruptRanged, PendInterruptFresh
<1>4. SameFrame(p, n) /\ p.pending = n.pending \cup {e}
  BY <1>1, PendInterruptFrame
<1> HIDE DEF p
<1>5. Takes(x, [n |-> p, c |-> c], p.pending)
  BY <1>2, <1>3, MaybeActivateTakes
<1> HIDE DEF x
<1>6. \A f : Chosen(p, c, p.pending, f) <=> Chosen(n, c, p.pending, f)
  BY <1>4, ChosenSame
<1>7. Takes(x, [n |-> n, c |-> c], p.pending)
  BY <1>2, <1>4, <1>5, <1>6 DEF Takes, SameFrame
<1> QED
  BY <1>4, <1>7 DEF x, p

LEMMA DeactivatedFresh ==
  ASSUME NEW n, Good(n), Fresh(n)
  PROVE  /\ Fresh(Deactivated(n)) /\ SameFrame(Deactivated(n), n)
         /\ Deactivated(n).pending = n.pending
<1> DEFINE m == [n EXCEPT !.active = @ \ {n.activeIrq}]
           q == RecalcPrios(m)
           r == [q EXCEPT !.activeIrq = NONE]
<1>1. m \in NvicType /\ m.active \subseteq Scanned(m) /\ Wide(m)
  BY DEF Good, NvicType, OneActive, Scanned, Fresh, Wide
<1>2. SameFrame(m, n) /\ m.pending = n.pending
  BY DEF Good, NvicType, SameFrame
<1> HIDE DEF m
<1>3. q \in NvicType /\ Fresh(q)
  BY <1>1, RecalcPriosGood, RecalcFresh
<1>4. SameFrame(q, n) /\ q.pending = n.pending
  BY <1>1, <1>2 DEF RecalcPrios, NvicType, SameFrame
<1> HIDE DEF q
<1>5. /\ r \in NvicType /\ SameFrame(r, q) /\ SameCache(r, q)
      /\ r.pending = q.pending /\ r.active = q.active
  BY <1>3 DEF NvicType, SameFrame, SameCache
<1> HIDE DEF r
<1>6. Fresh(r)
  BY <1>3, <1>5, SameIsFresh DEF SameFrame
<1> QED
  BY <1>4, <1>5, <1>6 DEF Deactivated, SameFrame, r, q, m

\* A tail-chained handler is chosen as any other.
LEMMA ExceptionReturnTakes ==
  ASSUME NEW n, NEW c, GoodPair(n, c), c.exit = "no", Ranged(n), Fresh(n)
  PROVE  LET x == ExceptionReturn([n |-> n, c |-> c])
         IN /\ Fresh(x.n)
            /\ x.n.activeIrq \notin {NONE, n.activeIrq} =>
                 Chosen(n, c, n.pending, x.n.activeIrq)
<1> DEFINE r == Deactivated(n)
           popped == PopStack([n |-> r, c |-> FrameStack(c)])
           x == ExceptionReturn([n |-> n, c |-> c])
<1>1. x = IF n.activeIrq = NONE THEN [n |-> n, c |-> Exit(c, "crash")]
          ELSE IF CanBeActivated(r, c) THEN ExceptionEntry([n |-> r, c |-> c], TRUE)
          ELSE IF c.lr.thread # (popped.n.activeIrq = NONE)
          THEN [n |-> popped.n, c |-> Exit(popped.c, "inconsistent")]
          ELSE popped
  BY DEF ExceptionReturn
<1> HIDE DEF x, r, popped
<1>2. Fresh(r) /\ SameFrame(r, n) /\ r.pending = n.pending /\ Ranged(r)
  BY DeactivatedFresh, DeactivatedRanged DEF GoodPair, r
<1>3. CASE n.activeIrq = NONE
  BY <1>1, <1>3 DEF x
<1>4. CASE n.activeIrq # NONE
  <2>1. Good(r) /\ r.activeIrq = NONE
    BY <1>4, DeactivatedGood DEF GoodPair, r
  <2>2. c \in CpuType /\ Framed(c)
    BY <1>4 DEF GoodPair, Stacked
  <2>3. CASE ~CanBeActivated(r, c)
    <3>1. popped.n = r
      BY <2>1, <2>2, PopStackGood DEF popped
    <3> QED
      BY <1>1, <1>2, <1>4, <2>1, <2>3, <3>1 DEF x
  <2>4. CASE CanBeActivated(r, c)
    <3> DEFINE y == ExceptionEntry([n |-> r, c |-> c], TRUE)
    <3>1. r.pendingIrq \in Scanned(r) /\ r.pendingIrq # NONE
      BY <2>1, <2>2, <2>4, ActivatesPending, ScannedExc, ExcNat
    <3>2. Fresh(y.n) /\ y.n.activeIrq \in {NONE, r.pendingIrq}
      BY <1>2, <2>1, <2>2, <3>1, EntryFresh
    <3>3. Chosen(r, c, r.pending, r.pendingIrq)
      BY <1>2, <2>1, <2>2, <2>4, <3>1, ActivatedIsChosen
    <3>4. Chosen(n, c, n.pending, r.pendingIrq)
      BY <1>2, <3>3, ChosenSame
    <3> HIDE DEF y
    <3>5. x = y
      BY <1>1, <1>4, <2>4 DEF y
    <3> QED
      BY <3>2, <3>4, <3>5 DEF x
  <2> QED
    BY <2>3, <2>4
<1> QED
  BY <1>3, <1>4

\* The hook compares the pending priority with a ceiling of its own.
LEMMA BlockHookTakes ==
  ASSUME GoodPair(nvic, cpu), Ranged(nvic), Fresh(nvic), BlockHook
  PROVE  /\ Fresh(nvic')
         /\ nvic'.activeIrq \notin {NONE, nvic.activeIrq} =>
              Chosen(nvic, cpu, nvic.pending, nvic'.activeIrq)
<1> DEFINE b == IF cpu.primask THEN nvic.prevBasepri ELSE cpu.basepri
           n == [nvic EXCEPT !.prevPrimask = cpu.primask, !.prevBasepri = b]
           g == GroupPrio(n, cpu.basepri)
           ceiling == IF cpu.basepri # 0 /\ cpu.basepri < n.activeGroupPrio
                      THEN g ELSE n.activeGroupPrio
           x == ExceptionEntry([n |-> n, c |-> cpu], FALSE)
<1>1. Good(nvic) /\ cpu \in CpuType
  BY DEF GoodPair
<1>2. b \in Int /\ cpu.primask \in BOOLEAN
  <2> HIDE DEF n, ceiling, g, x
  <2>1. nvic.prevBasepri \in Int
    BY <1>1 DEF Good, NvicType
  <2>2. cpu.basepri \in Int /\ cpu.primask \in BOOLEAN
    BY <1>1, CpuFields
  <2> QED
    BY <2>1, <2>2
<1> HIDE DEF b
<1>3. Good(n) /\ n.activeIrq = nvic.activeIrq /\ n.pending = nvic.pending
      /\ n.active = nvic.active /\ SameFrame(n, nvic) /\ SameCache(n, nvic)
  BY <1>1, <1>2 DEF Good, NvicType, Cached, OneActive, Scanned, SameFrame, SameCache
<1>4. \/ nvic' = n
      \/ nvic' = x.n /\ ~cpu.primask /\ n.activeIrq = NONE /\ n.pendingPrio < ceiling
  BY DEF BlockHook, b
<1> HIDE DEF n
<1>5. Fresh(n)
  BY <1>1, <1>3, SameIsFresh DEF Good, SameFrame
<1>6. CASE nvic' = n
  BY <1>3, <1>5, <1>6
<1>7. CASE nvic' = x.n /\ ~cpu.primask /\ n.activeIrq = NONE /\ n.pendingPrio < ceiling
  <2>1. n.activeGroupPrio = 256 /\ n.pendingPrio \in Int
    BY <1>3, <1>5, <1>7, ThreadCeiling DEF Good, NvicType, LOWEST
  <2>2. g \in 0..255 /\ cpu.basepri \in 0..255
    <3>1. n \in NvicType /\ cpu.basepri \in 0..255
      BY <1>1, <1>3, CpuFields DEF Good
    <3> QED
      BY <3>1, GroupPrioNat
  <2> HIDE DEF g
  <2>3. ceiling = IF cpu.basepri # 0 THEN g ELSE 256
    BY <2>1, <2>2
  <2> HIDE DEF ceiling
  <2>4. n.pendingPrio # LOWEST /\ (cpu.basepri # 0 => n.pendingPrio < g)
    BY <1>7, <2>1, <2>2, <2>3 DEF LOWEST
  <2>5. n.pendingIrq \in Scanned(n) /\ n.pendingIrq # NONE
    BY <1>3, <2>4, ScannedExc, ExcNat DEF Good, Cached
  <2>6. Fresh(x.n) /\ x.n.activeIrq \in {NONE, n.pendingIrq}
    BY <1>1, <1>3, <1>5, <1>7, <2>5, EntryFresh
  <2>7. Chosen(n, cpu, n.pending, n.pendingIrq)
    <3>1. /\ n.pendingPrio = n.priority[n.pendingIrq]
          /\ \A f \in n.pending \cap Scanned(n) : Beats(n, n.pendingIrq, f)
      BY <1>3, <1>5, <2>5, PendingIrqBeats
    <3> QED
      BY <1>7, <2>4, <3>1 DEF Chosen, g
  <2>8. Chosen(nvic, cpu, nvic.pending, n.pendingIrq)
    BY <1>3, <2>7, ChosenSame
  <2> HIDE DEF x
  <2> QED
    BY <1>7, <2>6, <2>8
<1> QED
  BY <1>4, <1>6, <1>7

-----------------------------------------------------------------------------
(* The bits of the ICSR. *)

FreshRecord(m, k) == RangedRecord(m, k) /\ Fresh(m.n)

LEMMA PendIfTakes ==
  ASSUME NEW m, NEW k \in Nat, FreshRecord(m, k), NEW b, NEW e \in Scanned(m.n)
  PROVE  Takes(PendIf(b, e, m), m, m.n.pending \cup {e})
<1>1. m = [n |-> m.n, c |-> m.c] /\ GoodPair(m.n, m.c) /\ Ranged(m.n) /\ Fresh(m.n)
  BY DEF FreshRecord, RangedRecord, GoodRecord
<1>2. CASE ~b
  <2>1. PendIf(b, e, m) = m
    BY <1>2 DEF PendIf
  <2> QED
    BY <1>1, <2>1 DEF Takes, SameFrame
<1>3. CASE b
  <2>1. PendIf(b, e, m) = MaybeActivate([n |-> PendInterrupt(m.n, e), c |-> m.c])
    BY <1>3 DEF PendIf
  <2> QED
    BY <1>1, <2>1, PendTakes
<1> QED
  BY <1>2, <1>3

LEMMA ClearIfTakes ==
  ASSUME NEW m, NEW k \in Nat, FreshRecord(m, k), NEW b, NEW e \in Exc
  PROVE  LET x == ClearIf(b, e, m)
         IN Takes(x, m, m.n.pending) /\ x.n.activeIrq = m.n.activeIrq
<1> DEFINE p == ClearPendInterrupt(m.n, e)
           x == ClearIf(b, e, m)
<1>1. Good(m.n) /\ Fresh(m.n)
  BY DEF FreshRecord, RangedRecord, GoodRecord, GoodPair
<1>2. /\ Fresh(p) /\ p.activeIrq = m.n.activeIrq
      /\ SameFrame(p, m.n) /\ p.pending = m.n.pending \ {e}
  BY <1>1, ClearPendInterruptFresh, ClearPendInterruptGood, ClearPendInterruptFrame
<1>3. x = IF b THEN [n |-> p, c |-> m.c] ELSE m
  BY DEF ClearIf
<1> HIDE DEF p, x
<1>4. CASE b
  <2>1. x.n = p /\ x.c = m.c
    BY <1>3, <1>4
  <2> QED
    BY <1>2, <2>1 DEF Takes, x
<1>5. CASE ~b
  BY <1>1, <1>3, <1>5 DEF Takes, SameFrame, x
<1> QED
  BY <1>4, <1>5

\* What a step promises when it takes an exception.
TakesStep ==
  nvic'.activeIrq \notin {NONE, nvic.activeIrq} =>
    Chosen(nvic, cpu, nvic.pending \cap nvic'.pending, nvic'.activeIrq)

LEMMA SameFrameTrans ==
  ASSUME NEW n, NEW m, NEW k, SameFrame(n, m), SameFrame(m, k)
  PROVE  SameFrame(n, k)
  BY DEF SameFrame

\* Of the two bits that may activate, one at most does.
LEMMA WriteIcsrTakes ==
  ASSUME GoodPair(nvic, cpu), Ranged(nvic), Counted(nvic, cpu, 0), Fresh(nvic),
         NEW B, WriteIcsr(B)
  PROVE  Fresh(nvic') /\ TakesStep
<1> DEFINE m0 == [n |-> nvic, c |-> cpu]
           m1 == PendIf("PENDSVSET" \in B, PENDSV, m0)
           m2 == ClearIf("PENDSVCLR" \in B, PENDSV, m1)
           m3 == PendIf("PENDSTSET" \in B, SYSTICK, m2)
           m4 == ClearIf("PENDSTCLR" \in B, SYSTICK, m3)
           m5 == IF "NMIPENDSET" \in B
                 THEN [n |-> PendInterrupt(m4.n, NMI), c |-> m4.c] ELSE m4
<1>0. /\ PENDSV \in Exc /\ SYSTICK \in Exc /\ NMI \in Exc
      /\ 0 \in Nat /\ 1 \in Nat /\ 2 \in Nat /\ 0 + 1 = 1 /\ 1 + 1 = 2
  BY DEF Exc
<1>1. nvic' = m5.n
  BY DEF WriteIcsr, Becomes
<1>2. RangedRecord(m0, 0) /\ Fresh(m0.n)
  BY DEF RangedRecord, GoodRecord
<1>3. m0.n = nvic /\ m0.c = cpu
  OBVIOUS
<1>a. ASSUME NEW m, GoodRecord(m), Fresh(m.n) PROVE {PENDSV, SYSTICK} \subseteq Scanned(m.n)
  BY <1>a, CoreScanned DEF GoodRecord, GoodPair, Good, Fresh
<1> HIDE DEF m0
<1>4. RangedRecord(m1, 1) /\ Takes(m1, m0, m0.n.pending \cup {PENDSV})
  <2>1. RangedRecord(m1, 0 + 1)
    BY <1>0, <1>2, PendIfRanged
  <2>2. PENDSV \in Scanned(m0.n)
    BY <1>2, <1>a DEF RangedRecord
  <2> QED
    BY <1>0, <1>2, <2>1, <2>2, PendIfTakes DEF FreshRecord
<1> HIDE DEF m1
<1>5. /\ RangedRecord(m2, 1) /\ Takes(m2, m1, m1.n.pending)
      /\ m2.n.activeIrq = m1.n.activeIrq
  <2>1. FreshRecord(m1, 1)
    BY <1>4 DEF FreshRecord, Takes
  <2> QED
    BY <1>0, <2>1, ClearIfRanged, ClearIfTakes DEF FreshRecord
<1> HIDE DEF m2
<1>6. RangedRecord(m3, 2) /\ Takes(m3, m2, m2.n.pending \cup {SYSTICK})
  <2>1. FreshRecord(m2, 1)
    BY <1>5 DEF FreshRecord, Takes
  <2>2. RangedRecord(m3, 1 + 1)
    BY <1>0, <1>5, PendIfRanged
  <2>3. SYSTICK \in Scanned(m2.n)
    BY <2>1, <1>a DEF FreshRecord, RangedRecord
  <2> QED
    BY <1>0, <2>1, <2>2, <2>3, PendIfTakes
<1> HIDE DEF m3
<1>7. /\ RangedRecord(m4, 2) /\ Takes(m4, m3, m3.n.pending)
      /\ m4.n.activeIrq = m3.n.activeIrq
  <2>1. FreshRecord(m3, 2)
    BY <1>6 DEF FreshRecord, Takes
  <2> QED
    BY <1>0, <2>1, ClearIfRanged, ClearIfTakes DEF FreshRecord
<1> HIDE DEF m4
<1>8. /\ Fresh(m5.n) /\ m5.n.activeIrq = m4.n.activeIrq
      /\ m5.n.pending \subseteq m4.n.pending \cup {NMI}
  <2> DEFINE p == PendInterrupt(m4.n, NMI)
  <2>1. Good(m4.n) /\ Fresh(m4.n)
    BY <1>7 DEF RangedRecord, GoodRecord, GoodPair, Takes
  <2>2. Fresh(p) /\ p.activeIrq = m4.n.activeIrq /\ p.pending = m4.n.pending \cup {NMI}
    BY <1>0, <2>1, PendInterruptFresh, PendInterruptGood, PendInterruptFrame
  <2>3. m5.n \in {p, m4.n}
    OBVIOUS
  <2> HIDE DEF p, m5
  <2> QED
    BY <2>1, <2>2, <2>3
<1> HIDE DEF m5
<1>9. nvic'.pending \subseteq m2.n.pending \cup {SYSTICK, NMI}
  BY <1>1, <1>6, <1>7, <1>8 DEF Takes
<1>10. ASSUME nvic'.activeIrq \notin {NONE, nvic.activeIrq}
       PROVE  Chosen(nvic, cpu, nvic.pending \cap nvic'.pending, nvic'.activeIrq)
  <2>1. nvic'.activeIrq = m3.n.activeIrq
    BY <1>1, <1>7, <1>8
  <2>2. CASE m1.n.activeIrq \notin {NONE, nvic.activeIrq}
    <3>1. Chosen(nvic, cpu, nvic.pending \cup {PENDSV}, m1.n.activeIrq)
      BY <1>3, <1>4, <2>2 DEF Takes
    <3>2. nvic'.activeIrq = m1.n.activeIrq
      BY <1>5, <1>6, <1>10, <2>1, <2>2 DEF Takes
    <3> QED
      BY <3>1, <3>2 DEF Chosen
  <2>3. CASE m1.n.activeIrq \in {NONE, nvic.activeIrq}
    <3>1. Chosen(m2.n, m2.c, m2.n.pending \cup {SYSTICK}, nvic'.activeIrq)
      BY <1>5, <1>6, <1>10, <2>1, <2>3 DEF Takes
    <3>2. SameFrame(m2.n, nvic)
      BY <1>3, <1>4, <1>5, SameFrameTrans DEF Takes
    <3>3. m2.c.primask = cpu.primask /\ m2.c.basepri = cpu.basepri
      BY <1>3, <1>4, <1>5 DEF Takes
    <3>4. Chosen(nvic, cpu, m2.n.pending \cup {SYSTICK}, nvic'.activeIrq)
      BY <3>1, <3>2, <3>3, ChosenSame
    <3> QED
      BY <1>9, <3>4, ScannedNoNmi DEF Chosen
  <2> QED
    BY <2>2, <2>3
<1> QED
  BY <1>1, <1>8, <1>10 DEF TakesStep

-----------------------------------------------------------------------------
(* Every step, when only exceptions that a scan reaches are pended. *)

LEMMA PendAndActivateTakes ==
  ASSUME GoodPair(nvic, cpu), Ranged(nvic), Fresh(nvic), NEW e \in Scanned(nvic),
         Becomes(MaybeActivate([n |-> PendInterrupt(nvic, e), c |-> cpu]))
  PROVE  Fresh(nvic') /\ TakesStep
<1> DEFINE x == MaybeActivate([n |-> PendInterrupt(nvic, e), c |-> cpu])
<1>1. nvic' = x.n
  BY DEF Becomes
<1>2. Takes(x, [n |-> nvic, c |-> cpu], nvic.pending \cup {e})
  BY PendTakes
<1> HIDE DEF x
<1> QED
  BY <1>1, <1>2 DEF Takes, TakesStep, Chosen

LEMMA StepTakes ==
  ASSUME ~LatePend, GoodPair(nvic, cpu), Ranged(nvic), Counted(nvic, cpu, 0),
         Fresh(nvic), Next
  PROVE  Fresh(nvic') /\ TakesStep
<1>0. Good(nvic) /\ nvic \in NvicType /\ Ext \subseteq Exc
  BY DEF GoodPair, Good, Exc
<1>a. ASSUME Fresh(nvic'), nvic'.activeIrq = nvic.activeIrq PROVE Fresh(nvic') /\ TakesStep
  BY <1>a DEF TakesStep
<1>b. ASSUME NEW e \in Ext \cup {SYSTICK}, Pendable(e) PROVE e \in Scanned(nvic)
  <2>1. e \in Exc /\ e <= nvic.highestEver
    BY <1>b DEF Pendable, Exc
  <2>2. e >= SVC
    BY <1>b, ExtAssumption DEF SVC, SYSTICK
  <2> QED
    BY <2>1, <2>2 DEF Scanned
<1>c. SVC \in Scanned(nvic)
  BY <1>0, CoreScanned DEF Fresh
<1>1. ASSUME BlockHook PROVE Fresh(nvic') /\ TakesStep
  BY <1>1, BlockHookTakes DEF TakesStep, Chosen
<1>2. ASSUME ReturnHook PROVE Fresh(nvic') /\ TakesStep
  <2> DEFINE x == ExceptionReturn([n |-> nvic, c |-> cpu])
  <2>1. cpu.exit = "no" /\ nvic' = x.n
    BY <1>2 DEF ReturnHook, Running
  <2>2. /\ Fresh(x.n)
        /\ x.n.activeIrq \notin {NONE, nvic.activeIrq} =>
             Chosen(nvic, cpu, nvic.pending, x.n.activeIrq)
    BY <2>1, ExceptionReturnTakes
  <2> HIDE DEF x
  <2> QED
    BY <2>1, <2>2 DEF TakesStep, Chosen
<1>3. ASSUME EndBlock \/ SetMasks \/ SetSpsel \/ NotAnSvc PROVE Fresh(nvic') /\ TakesStep
  BY <1>3, <1>a DEF EndBlock, SetMasks, SetSpsel, NotAnSvc
<1>4. ASSUME Svc PROVE Fresh(nvic') /\ TakesStep
  BY <1>c, <1>4, PendAndActivateTakes DEF Svc
<1>5. ASSUME NEW e \in Ext \cup {SYSTICK}, NvicSetPending(e) PROVE Fresh(nvic') /\ TakesStep
  BY <1>b, <1>5, PendAndActivateTakes DEF NvicSetPending
<1>6. ASSUME NEW S \in SUBSET Ext, WriteIser(S) PROVE Fresh(nvic') /\ TakesStep
  <2>1. nvic' \in {EnableIrqs(nvic, S), RecalcPrios(EnableIrqs(nvic, S))}
    BY <1>6 DEF WriteIser
  <2>2. S \in SUBSET Exc
    BY <1>0
  <2>3. Good(EnableIrqs(nvic, S)) /\ EnableIrqs(nvic, S).activeIrq = nvic.activeIrq
    BY <1>0, <2>2, EnableIrqsGood
  <2>4. nvic'.activeIrq = nvic.activeIrq
    BY <2>1, <2>3, RecalcGood DEF Good
  <2> QED
    BY <1>0, <1>a, <2>1, <2>2, <2>4, EnableIrqsFresh
<1>7. ASSUME NEW e \in Ext, WriteIcer(e) PROVE Fresh(nvic') /\ TakesStep
  BY <1>0, <1>7, <1>a, DisableIrqGood, DisableIrqFresh DEF WriteIcer
<1>8. ASSUME NEW e \in Ext, WriteIspr(e) PROVE Fresh(nvic') /\ TakesStep
  BY <1>0, <1>8, <1>a, <1>b, PendInterruptGood, PendInterruptFresh DEF WriteIspr
<1>9. ASSUME NEW e \in Ext, WriteIcpr(e) PROVE Fresh(nvic') /\ TakesStep
  BY <1>0, <1>9, <1>a, ClearPendInterruptGood, ClearPendInterruptFresh DEF WriteIcpr
<1>10. ASSUME NEW e \in Ext, WriteStir(e) PROVE Fresh(nvic') /\ TakesStep
  BY <1>b, <1>10, PendAndActivateTakes DEF WriteStir
<1>11. ASSUME NEW e \in PrioExc, NEW p \in Prios, WritePrios([x \in {e} |-> p])
       PROVE  Fresh(nvic') /\ TakesStep
  <2> DEFINE f == [x \in {e} |-> p]
  <2>1. {e} \in SUBSET Exc /\ f \in [{e} -> 0..255]
    BY PrioAssumption
  <2>2. nvic' = SetPrios(nvic, f)
    BY <1>11 DEF WritePrios
  <2> HIDE DEF f
  <2> QED
    BY <1>0, <1>a, <2>1, <2>2, SetPriosGood, SetPriosFresh
<1>12. ASSUME NEW g \in Prigroups, NEW reset \in BOOLEAN, WriteAircr(g, reset)
       PROVE  Fresh(nvic') /\ TakesStep
  <2> DEFINE n == [nvic EXCEPT !.prigroup = g]
  <2>1. g \in 0..7
    BY PrioAssumption
  <2>2. nvic' \in {nvic, RecalcPrios(n)}
    BY <1>12 DEF WriteAircr
  <2>3. Fresh(RecalcPrios(n))
    BY <1>0, <2>1, PrigroupFresh
  <2>4. n \in NvicType /\ OneActive(n) /\ n.activeIrq = nvic.activeIrq
    BY <1>0, <2>1 DEF Good, NvicType, OneActive, Scanned
  <2> HIDE DEF n
  <2>5. nvic'.activeIrq = nvic.activeIrq
    BY <2>2, <2>4, RecalcGood
  <2> QED
    BY <1>a, <2>2, <2>3, <2>5
<1>13. ASSUME NEW B, WriteIcsr(B) PROVE Fresh(nvic') /\ TakesStep
  BY <1>13, WriteIcsrTakes
<1> QED
  BY <1>1, <1>2, <1>3, <1>4, <1>5, <1>6, <1>7, <1>8, <1>9, <1>10, <1>11,
     <1>12, <1>13 DEF Next

\* The inductive invariant: type, consistency, and exact caches.
XInv == TInv /\ Fresh(nvic)

LEMMA InitFresh == Init => XInv
<1> SUFFICES ASSUME Init PROVE Fresh(nvic)
  BY InitRanged DEF XInv
<1>1. nvic.pending = {} /\ nvic.active = {} /\ nvic.highestEver = 15
      /\ nvic.pendingIrq = NONE /\ nvic.pendingPrio = LOWEST
      /\ nvic.activeGroupPrio = LOWEST
  BY DEF Init, SYSTICK
<1>2. BestPending(nvic) = NONE /\ BestActivePrio(nvic) = LOWEST
  BY <1>1 DEF BestPending, BestActivePrio
<1> QED
  BY <1>1, <1>2 DEF Fresh, Exact, Wide, SYSTICK

LEMMA StepFresh == ~LatePend /\ XInv /\ [Next]_vars => XInv' /\ [TakesStep]_vars
<1> SUFFICES ASSUME ~LatePend, XInv, [Next]_vars PROVE XInv' /\ [TakesStep]_vars
  OBVIOUS
<1>1. TInv'
  BY StepInRange DEF XInv
<1>2. CASE Next
  <2>1. Counted(nvic, cpu, 0)
    <3>1. cpu.exit = "no"
      BY <1>2, StepsRun DEF Running
    <3> QED
      BY <3>1, LimitAssumption DEF XInv, TInv, Counted, Ranged, Plain
  <2> QED
    BY <1>1, <1>2, <2>1, StepTakes DEF XInv, TInv, IInv
<1>3. CASE UNCHANGED vars
  BY <1>1, <1>3 DEF XInv, vars
<1> QED
  BY <1>2, <1>3

\* The fields that recalc_prios caches, and that pend_interrupt, clear_pend,
\* enable_irq and disable_irq refresh only when they see a need to, are always
\* what a recalculation would give, as long as no exception above every one
\* ever enabled is pended.
THEOREM CachesStayExact ==
  ASSUME ~LatePend
  PROVE  Spec => []CacheExact
<1>1. XInv /\ [Next]_vars => XInv'
  BY StepFresh
<1>2. XInv => CacheExact
  BY DEF XInv, Fresh, Exact, CacheExact
<1> QED
  BY InitFresh, <1>1, <1>2, PTL DEF Spec

\* Whenever an exception is taken (by the block hook, at the return of another,
\* by SVC, the STIR, the ICSR or the emulator), the masks allow it and no
\* waiting exception that a scan reaches beats it.
THEOREM RightOneTaken ==
  ASSUME ~LatePend
  PROVE  Spec => TakesTheRightOne
<1>1. XInv /\ [Next]_vars => XInv'
  BY StepFresh
<1>2. XInv /\ [Next]_vars =>
        [LET e == nvic'.activeIrq
         IN e \notin {NONE, nvic.activeIrq} =>
              /\ ~cpu.primask \/ e = SVC
              /\ cpu.basepri = 0 \/ nvic.priority[e] < GroupPrio(nvic, cpu.basepri)
              /\ \A f \in nvic.pending \cap nvic'.pending \cap Scanned(nvic) :
                   Beats(nvic, e, f)]_vars
  BY StepFresh DEF TakesStep, Chosen
<1> QED
  BY InitFresh, <1>1, <1>2, PTL DEF Spec, TakesTheRightOne

-----------------------------------------------------------------------------
(* The early exit of the block hook.  Whether exceptions are pended late    *)
(* does not matter here: a stale cache is compared with itself.            *)

\* The hook that saw masks clear left nothing that could be taken.
Calm(n) ==
  n.activeIrq = NONE /\ ~n.prevPrimask /\ n.prevBasepri = 0
    => n.pendingPrio >= n.activeGroupPrio

CalmRecord(m) == m.c.exit = "no" => Calm(m.n)

\* A recalculation that makes an activation possible sets prev_basepri to -1.
LEMMA RecalcCalm ==
  ASSUME NEW n \in NvicType, n.active \subseteq Scanned(n), Calm(n)
  PROVE  Calm(RecalcPrios(n))
<1> DEFINE r == RecalcPrios(n)
           pp == IF BestPending(n) = NONE THEN LOWEST ELSE n.priority[BestPending(n)]
<1>1. r \in NvicType
  BY RecalcPriosGood
<1>2. /\ r.activeIrq = n.activeIrq /\ r.prevPrimask = n.prevPrimask
      /\ r.pendingPrio = pp /\ r.activeGroupPrio = BestActivePrio(n)
      /\ r.prevBasepri = IF Surpasses(n, pp, BestActivePrio(n)) THEN -1 ELSE n.prevBasepri
  BY DEF RecalcPrios, NvicType
<1> HIDE DEF r, pp
<1>3. /\ r.pendingPrio \in Int /\ r.activeGroupPrio \in Int
      /\ n.pendingPrio \in Int /\ n.activeGroupPrio \in Int
  BY <1>1 DEF NvicType
<1>4. ASSUME r.activeIrq = NONE, ~r.prevPrimask, r.prevBasepri = 0
      PROVE  r.pendingPrio >= r.activeGroupPrio
  <2>1. ~Surpasses(n, pp, BestActivePrio(n)) /\ n.prevBasepri = 0
    BY <1>2, <1>4
  <2>2. n.pendingPrio >= n.activeGroupPrio
    BY <1>2, <1>4, <2>1 DEF Calm
  <2> QED
    BY <1>2, <1>3, <2>1, <2>2 DEF Surpasses
<1> QED
  BY <1>4 DEF Calm, r

\* Fields that Calm does not speak of.
LEMMA SameIsCalm ==
  ASSUME NEW n, NEW m, Calm(n), SameCache(m, n), m.activeIrq = n.activeIrq,
         m.prevPrimask = n.prevPrimask, m.prevBasepri = n.prevBasepri
  PROVE  Calm(m)
  BY DEF Calm, SameCache

LEMMA PendInterruptCalm ==
  ASSUME NEW n, Good(n), Calm(n), NEW e \in Exc
  PROVE  Calm(PendInterrupt(n, e))
<1> DEFINE m == [n EXCEPT !.pending = @ \cup {e}]
<1>1. m \in NvicType /\ m.active \subseteq Scanned(m)
  BY DEF Good, NvicType, OneActive, Scanned
<1>2. /\ SameCache(m, n) /\ m.activeIrq = n.activeIrq
      /\ m.prevPrimask = n.prevPrimask /\ m.prevBasepri = n.prevBasepri
  BY DEF Good, NvicType, SameCache
<1>3. PendInterrupt(n, e) \in {n, m, RecalcPrios(m)}
  BY DEF PendInterrupt
<1> HIDE DEF m
<1> QED
  BY <1>1, <1>2, <1>3, SameIsCalm, RecalcCalm

LEMMA ClearPendInterruptCalm ==
  ASSUME NEW n, Good(n), Calm(n), NEW e \in Exc
  PROVE  Calm(ClearPendInterrupt(n, e))
<1> DEFINE m == [n EXCEPT !.pending = @ \ {e}]
<1>1. m \in NvicType /\ m.active \subseteq Scanned(m)
  BY DEF Good, NvicType, OneActive, Scanned
<1>2. /\ SameCache(m, n) /\ m.activeIrq = n.activeIrq
      /\ m.prevPrimask = n.prevPrimask /\ m.prevBasepri = n.prevBasepri
  BY DEF Good, NvicType, SameCache
<1>3. ClearPendInterrupt(n, e) \in {n, m, RecalcPrios(m)}
  BY DEF ClearPendInterrupt
<1> HIDE DEF m
<1> QED
  BY <1>1, <1>2, <1>3, SameIsCalm, RecalcCalm

LEMMA DisableIrqCalm ==
  ASSUME NEW n, Good(n), Calm(n), NEW e \in Exc
  PROVE  Calm(DisableIrq(n, e))
<1> DEFINE m == [n EXCEPT !.enabled = @ \ {e}]
<1>1. m \in NvicType /\ m.active \subseteq Scanned(m)
  BY DEF Good, NvicType, OneActive, Scanned
<1>2. /\ SameCache(m, n) /\ m.activeIrq = n.activeIrq
      /\ m.prevPrimask = n.prevPrimask /\ m.prevBasepri = n.prevBasepri
  BY DEF Good, NvicType, SameCache
<1>3. DisableIrq(n, e) \in {n, m, RecalcPrios(m)}
  BY DEF DisableIrq
<1> HIDE DEF m
<1> QED
  BY <1>1, <1>2, <1>3, SameIsCalm, RecalcCalm

LEMMA EnableIrqsCalm ==
  ASSUME NEW n, Good(n), Calm(n), NEW S \in SUBSET Exc,
         NEW r \in {EnableIrqs(n, S), RecalcPrios(EnableIrqs(n, S))}
  PROVE  Calm(r)
<1> DEFINE m == EnableIrqs(n, S)
<1>1. Good(m)
  BY EnableIrqsGood
<1>2. m \in NvicType /\ m.active \subseteq Scanned(m)
  BY <1>1 DEF Good, OneActive
<1>3. /\ SameCache(m, n) /\ m.activeIrq = n.activeIrq
      /\ m.prevPrimask = n.prevPrimask /\ m.prevBasepri = n.prevBasepri
  BY DEF EnableIrqs, Good, NvicType, SameCache
<1> HIDE DEF m
<1> QED
  BY <1>2, <1>3, SameIsCalm, RecalcCalm DEF m

LEMMA SetPriosCalm ==
  ASSUME NEW n, Good(n), Calm(n), NEW E \in SUBSET Exc, NEW f \in [E -> 0..255]
  PROVE  Calm(SetPrios(n, f))
<1> DEFINE changed == {e \in DOMAIN f : f[e] # n.priority[e] /\ e \notin DisabledByConfig}
           q == [e \in Exc |-> IF e \in changed THEN f[e] ELSE n.priority[e]]
           m == [n EXCEPT !.priority = q]
<1>1. \A e \in changed : f[e] \in 0..255
  OBVIOUS
<1>2. SetPrios(n, f) = IF changed = {} THEN n ELSE RecalcPrios(m)
  BY DEF SetPrios
<1> HIDE DEF changed
<1>3. q \in [Exc -> -2..255]
  <2>1. \A e \in Exc : n.priority[e] \in -2..255
    BY DEF Good, NvicType
  <2> QED
    BY <1>1, <2>1
<1> HIDE DEF q
<1>4. m \in NvicType /\ m.active \subseteq Scanned(m)
  BY <1>3 DEF Good, NvicType, OneActive, Scanned
<1>5. /\ SameCache(m, n) /\ m.activeIrq = n.activeIrq
      /\ m.prevPrimask = n.prevPrimask /\ m.prevBasepri = n.prevBasepri
  BY DEF Good, NvicType, SameCache
<1> HIDE DEF m
<1> QED
  BY <1>2, <1>4, <1>5, SameIsCalm, RecalcCalm

\* An entry leaves thread mode, or ends the run.
LEMMA EntryCalm ==
  ASSUME NEW n, Good(n), n.activeIrq = NONE, n.pendingIrq \in Scanned(n),
         NEW c \in CpuType, c.exit # "inconsistent", NEW tailChained \in BOOLEAN
  PROVE  LET x == ExceptionEntry([n |-> n, c |-> c], tailChained)
         IN x.c.exit = "no" => c.exit = "no" /\ x.n.activeIrq # NONE
<1> DEFINE e == n.pendingIrq
           k == IF e # SYSTICK THEN n.interruptCount + 1 ELSE n.interruptCount
           n1 == [n EXCEPT !.interruptCount = k]
           m == [n EXCEPT !.interruptCount = k, !.active = @ \cup {e},
                          !.pending = @ \ {e}, !.activeIrq = e]
           d == IF tailChained THEN c ELSE EnterFrom(n, c)
           x == ExceptionEntry([n |-> n, c |-> c], tailChained)
<1>1. k \in Int /\ e \in Exc
  BY DEF Good, NvicType, Scanned
<1>2. x = IF e # SYSTICK /\ LimitReached(n1)
          THEN [n |-> n1, c |-> Exit(c, "limit")]
          ELSE [n |-> RecalcPrios(m), c |-> [d EXCEPT !.ipsr = e]]
  BY DEF ExceptionEntry, Good, NvicType
<1>3. Exit(c, "limit").exit # "no"
  BY SetExit
<1>4. RecalcPrios(m).activeIrq = e
  BY <1>1, EnteredGood
<1>5. d \in CpuType /\ d.exit = c.exit
  BY EnterFromGood
<1> HIDE DEF k, n1, m, d, x
<1>6. LET f == [d EXCEPT !.ipsr = e] IN f.exit = d.exit
  BY <1>1, <1>5, SetIpsr
<1>7. CASE e # SYSTICK /\ LimitReached(n1)
  BY <1>2, <1>3, <1>7 DEF x
<1>8. CASE ~(e # SYSTICK /\ LimitReached(n1))
  <2>1. x.n = RecalcPrios(m) /\ x.c = [d EXCEPT !.ipsr = e]
    BY <1>2, <1>8
  <2> QED
    BY <1>1, <1>4, <1>5, <1>6, <2>1, ExcNat DEF x
<1> QED
  BY <1>7, <1>8

LEMMA MaybeActivateCalm ==
  ASSUME NEW n, NEW c, GoodPair(n, c)
  PROVE  LET x == MaybeActivate([n |-> n, c |-> c])
         IN /\ x = [n |-> n, c |-> c] \/ (x.c.exit = "no" => x.n.activeIrq # NONE)
            /\ x.c.exit = "no" => c.exit = "no"
<1>1. CASE ~CanBeActivated(n, c)
  BY <1>1 DEF MaybeActivate
<1>2. CASE CanBeActivated(n, c)
  <2>1. Good(n) /\ c \in CpuType /\ c.exit # "inconsistent"
    BY DEF GoodPair
  <2>2. n.activeIrq = NONE /\ n.pendingIrq \in Scanned(n)
    BY <1>2, <2>1, ActivatesPending
  <2>3. MaybeActivate([n |-> n, c |-> c]) = ExceptionEntry([n |-> n, c |-> c], FALSE)
    BY <1>2 DEF MaybeActivate
  <2>4. LET x == ExceptionEntry([n |-> n, c |-> c], FALSE)
        IN x.c.exit = "no" => c.exit = "no" /\ x.n.activeIrq # NONE
    BY <2>1, <2>2, EntryCalm
  <2> QED
    BY <2>3, <2>4
<1> QED
  BY <1>1, <1>2

\* Masks set at the end of a handler, which the next block hook will see.
MaskedStart == phase = "block" /\ (cpu.primask \/ cpu.basepri # 0)

CalmInv == cpu.exit = "no" => Calm(nvic) \/ MaskedStart

LEMMA PendAndActivateCalm ==
  ASSUME GoodPair(nvic, cpu), CalmInv, cpu.exit = "no", NEW e \in Exc,
         Becomes(MaybeActivate([n |-> PendInterrupt(nvic, e), c |-> cpu]))
  PROVE  CalmInv'
<1> DEFINE p == PendInterrupt(nvic, e)
           x == MaybeActivate([n |-> p, c |-> cpu])
<1>1. GoodPair(p, cpu) /\ p.activeIrq = nvic.activeIrq
  BY PendInterruptGood DEF GoodPair, Stacked
<1>2. Calm(nvic) => Calm(p)
  BY PendInterruptCalm DEF GoodPair
<1>3. nvic' = x.n /\ cpu' = x.c /\ phase' = IF x.n.activeIrq # nvic.activeIrq THEN "block" ELSE phase
  BY DEF Becomes
<1> HIDE DEF p
<1>4. x = [n |-> p, c |-> cpu] \/ (x.c.exit = "no" => x.n.activeIrq # NONE)
  BY <1>1, MaybeActivateCalm
<1> HIDE DEF x
<1>5. CASE x = [n |-> p, c |-> cpu]
  <2>1. nvic' = p /\ cpu' = cpu /\ phase' = phase
    BY <1>1, <1>3, <1>5
  <2> QED
    BY <1>2, <2>1 DEF CalmInv, MaskedStart
<1>6. CASE x.c.exit = "no" => x.n.activeIrq # NONE
  BY <1>3, <1>6 DEF CalmInv, Calm
<1> QED
  BY <1>4, <1>5, <1>6

LEMMA PendIfCalm ==
  ASSUME NEW m, GoodRecord(m), CalmRecord(m), NEW b, NEW e \in Exc
  PROVE  CalmRecord(PendIf(b, e, m))
<1> DEFINE p == PendInterrupt(m.n, e)
           x == MaybeActivate([n |-> p, c |-> m.c])
<1>1. GoodPair(p, m.c)
  BY PendInterruptGood DEF GoodPair, Stacked, GoodRecord
<1>2. Calm(m.n) => Calm(p)
  BY PendInterruptCalm DEF GoodRecord, GoodPair
<1>3. PendIf(b, e, m) = IF b THEN x ELSE m
  BY DEF PendIf
<1> HIDE DEF p
<1>4. /\ x = [n |-> p, c |-> m.c] \/ (x.c.exit = "no" => x.n.activeIrq # NONE)
      /\ x.c.exit = "no" => m.c.exit = "no"
  BY <1>1, MaybeActivateCalm
<1> HIDE DEF x
<1>5. CalmRecord(x)
  <2>1. CASE x = [n |-> p, c |-> m.c]
    BY <1>2, <2>1 DEF CalmRecord
  <2>2. CASE x.c.exit = "no" => x.n.activeIrq # NONE
    BY <2>2 DEF CalmRecord, Calm
  <2> QED
    BY <1>4, <2>1, <2>2
<1> QED
  BY <1>3, <1>5

LEMMA ClearIfCalm ==
  ASSUME NEW m, GoodRecord(m), CalmRecord(m), NEW b, NEW e \in Exc
  PROVE  CalmRecord(ClearIf(b, e, m))
<1> DEFINE p == ClearPendInterrupt(m.n, e)
<1>1. Calm(m.n) => Calm(p)
  BY ClearPendInterruptCalm DEF GoodRecord, GoodPair
<1>2. ClearIf(b, e, m) = IF b THEN [n |-> p, c |-> m.c] ELSE m
  BY DEF ClearIf
<1> HIDE DEF p
<1> QED
  BY <1>1, <1>2 DEF CalmRecord

LEMMA WriteIcsrCalm ==
  ASSUME GoodPair(nvic, cpu), Calm(nvic), NEW B, WriteIcsr(B)
  PROVE  CalmInv'
<1> DEFINE m0 == [n |-> nvic, c |-> cpu]
           m1 == PendIf("PENDSVSET" \in B, PENDSV, m0)
           m2 == ClearIf("PENDSVCLR" \in B, PENDSV, m1)
           m3 == PendIf("PENDSTSET" \in B, SYSTICK, m2)
           m4 == ClearIf("PENDSTCLR" \in B, SYSTICK, m3)
           m5 == IF "NMIPENDSET" \in B
                 THEN [n |-> PendInterrupt(m4.n, NMI), c |-> m4.c] ELSE m4
<1>0. PENDSV \in Exc /\ SYSTICK \in Exc /\ NMI \in Exc
  BY DEF Exc
<1>1. nvic' = m5.n /\ cpu' = m5.c
  BY DEF WriteIcsr, Becomes
<1>2. GoodRecord(m0) /\ CalmRecord(m0)
  BY DEF GoodRecord, CalmRecord
<1> HIDE DEF m0
<1>3. GoodRecord(m1) /\ CalmRecord(m1)
  BY <1>0, <1>2, PendIfGood, PendIfCalm
<1> HIDE DEF m1
<1>4. GoodRecord(m2) /\ CalmRecord(m2)
  BY <1>0, <1>3, ClearIfGood, ClearIfCalm
<1> HIDE DEF m2
<1>5. GoodRecord(m3) /\ CalmRecord(m3)
  BY <1>0, <1>4, PendIfGood, PendIfCalm
<1> HIDE DEF m3
<1>6. GoodRecord(m4) /\ CalmRecord(m4)
  BY <1>0, <1>5, ClearIfGood, ClearIfCalm
<1> HIDE DEF m4
<1>7. CalmRecord(m5)
  BY <1>0, <1>6, PendInterruptCalm DEF GoodRecord, GoodPair, CalmRecord
<1> HIDE DEF m5
<1> QED
  BY <1>1, <1>7 DEF CalmRecord, CalmInv

\* The hook: what it does not enter cannot be entered.
LEMMA BlockHookCalm ==
  ASSUME GoodPair(nvic, cpu), CalmInv, BlockHook, cpu'.exit = "no"
  PROVE  /\ Calm(nvic')
         /\ \/ nvic'.activeIrq # NONE
            \/ /\ cpu' = cpu /\ nvic'.prevPrimask = cpu.primask
               /\ ~cpu.primask => nvic'.prevBasepri = cpu.basepri
<1> DEFINE b == IF cpu.primask THEN nvic.prevBasepri ELSE cpu.basepri
           n == [nvic EXCEPT !.prevPrimask = cpu.primask, !.prevBasepri = b]
           ceiling == IF cpu.basepri # 0 /\ cpu.basepri < n.activeGroupPrio
                      THEN GroupPrio(n, cpu.basepri) ELSE n.activeGroupPrio
           enters == /\ ~cpu.primask
                     /\ nvic.prevPrimask \/ ~BasepriNotLowered
                     /\ n.activeIrq = NONE
                     /\ n.pendingPrio < ceiling
           x == ExceptionEntry([n |-> n, c |-> cpu], FALSE)
<1>1. Good(nvic) /\ cpu \in CpuType /\ cpu.exit = "no"
  BY DEF GoodPair, BlockHook, Running
<1>2. b \in Int /\ cpu.primask \in BOOLEAN
  <2> HIDE DEF n, ceiling, x, enters
  <2>1. nvic.prevBasepri \in Int
    BY <1>1 DEF Good, NvicType
  <2>2. cpu.basepri \in Int /\ cpu.primask \in BOOLEAN
    BY <1>1, CpuFields
  <2> QED
    BY <2>1, <2>2
<1> HIDE DEF b
<1>3. Good(n) /\ n.activeIrq = nvic.activeIrq /\ SameCache(n, nvic)
      /\ n.prevPrimask = cpu.primask /\ n.prevBasepri = b
  BY <1>1, <1>2 DEF Good, NvicType, Cached, OneActive, Scanned, SameCache
<1>4. IF enters THEN nvic' = x.n /\ cpu' = x.c ELSE nvic' = n /\ cpu' = cpu
  BY DEF BlockHook, b
<1>5. n.pendingPrio \in Int /\ n.activeGroupPrio \in Int /\ n.activeGroupPrio <= 256
  BY <1>3 DEF Good, NvicType, Cached, LOWEST
<1> HIDE DEF n
<1>6. CASE ~enters
  <2>1. nvic' = n /\ cpu' = cpu
    BY <1>4, <1>6
  <2>2. ASSUME n.activeIrq = NONE, ~n.prevPrimask, n.prevBasepri = 0
        PROVE  n.pendingPrio >= n.activeGroupPrio
    <3>1. ~cpu.primask /\ cpu.basepri = 0 /\ ceiling = n.activeGroupPrio
      BY <1>3, <2>2 DEF b
    <3>2. CASE nvic.prevPrimask \/ ~BasepriNotLowered
      BY <1>5, <1>6, <2>2, <3>1, <3>2
    <3>3. CASE ~nvic.prevPrimask /\ BasepriNotLowered
      <4>1. nvic.prevBasepri = 0
        BY <3>1, <3>3 DEF BasepriNotLowered
      <4>2. Calm(nvic)
        BY <1>1, <3>1 DEF CalmInv, MaskedStart
      <4> QED
        BY <1>3, <2>2, <3>3, <4>1, <4>2 DEF Calm, SameCache
    <3> QED
      BY <3>2, <3>3
  <2> QED
    BY <1>3, <2>1, <2>2 DEF Calm, b
<1>7. CASE enters
  <2>1. GroupPrio(n, cpu.basepri) \in Int /\ GroupPrio(n, cpu.basepri) <= 255
    <3>1. n \in NvicType /\ cpu.basepri \in 0..255
      BY <1>1, <1>3, CpuFields DEF Good
    <3>2. GroupPrio(n, cpu.basepri) \in 0..255
      BY <3>1, GroupPrioNat
    <3> QED
      BY <3>2
  <2>2. n.pendingPrio # LOWEST
    BY <1>5, <1>7, <2>1 DEF LOWEST
  <2>3. n.pendingIrq \in Scanned(n)
    BY <1>3, <2>2 DEF Good, Cached
  <2>4. x.c.exit = "no" => x.n.activeIrq # NONE
    BY <1>1, <1>3, <1>7, <2>3, EntryCalm
  <2>5. nvic'.activeIrq # NONE
    BY <1>4, <1>7, <2>4
  <2> QED
    BY <2>5 DEF Calm
<1> QED
  BY <1>6, <1>7

LEMMA PopStackMasks ==
  ASSUME NEW n, NEW c \in CpuType
  PROVE  LET x == PopStack([n |-> n, c |-> FrameStack(c)])
         IN x.c.primask = c.primask /\ x.c.basepri = c.basepri
  BY DEF PopStack, FrameStack, CpuType

LEMMA ReturnHookCalm ==
  ASSUME GoodPair(nvic, cpu), ReturnHook
  PROVE  CalmInv'
<1> DEFINE r == Deactivated(nvic)
           popped == PopStack([n |-> r, c |-> FrameStack(cpu)])
           x == ExceptionReturn([n |-> nvic, c |-> cpu])
<1>1. x = IF nvic.activeIrq = NONE THEN [n |-> nvic, c |-> Exit(cpu, "crash")]
          ELSE IF CanBeActivated(r, cpu) THEN ExceptionEntry([n |-> r, c |-> cpu], TRUE)
          ELSE IF cpu.lr.thread # (popped.n.activeIrq = NONE)
          THEN [n |-> popped.n, c |-> Exit(popped.c, "inconsistent")]
          ELSE popped
  BY DEF ExceptionReturn
<1>2. nvic' = x.n /\ cpu' = x.c /\ phase' = "block" /\ cpu.exit = "no"
  BY DEF ReturnHook, Running
<1> HIDE DEF x, r, popped
<1>3. cpu \in CpuType
  BY DEF GoodPair
<1>4. CASE nvic.activeIrq = NONE
  <2>1. x.c = Exit(cpu, "crash")
    BY <1>1, <1>4
  <2>2. Exit(cpu, "crash").exit # "no"
    BY <1>2, <1>3, SetExit
  <2> QED
    BY <1>2, <2>1, <2>2 DEF CalmInv
<1>5. CASE nvic.activeIrq # NONE
  <2>1. Good(r) /\ r.activeIrq = NONE
    BY <1>5, DeactivatedGood DEF GoodPair, r
  <2>2. CASE CanBeActivated(r, cpu)
    <3>1. r.pendingIrq \in Scanned(r)
      BY <1>3, <2>1, <2>2, ActivatesPending
    <3>2. x.c.exit = "no" => x.n.activeIrq # NONE
      BY <1>1, <1>2, <1>3, <1>5, <2>1, <2>2, <3>1, EntryCalm
    <3> QED
      BY <1>2, <3>2 DEF CalmInv, Calm
  <2>3. CASE ~CanBeActivated(r, cpu)
    <3>1. Framed(cpu)
      BY <1>2, <1>5 DEF GoodPair, Stacked
    <3>2. popped.n = r
      BY <1>3, <2>1, <3>1, PopStackGood DEF popped
    <3>3. x = popped
      <4>1. cpu.lr.thread = TRUE
        BY <1>3, <3>1 DEF Framed, CpuType
      <4> QED
        BY <1>1, <1>5, <2>1, <2>3, <3>2, <4>1
    <3>4. cpu'.primask = cpu.primask /\ cpu'.basepri = cpu.basepri
      BY <1>2, <1>3, <3>3, PopStackMasks DEF popped
    <3>5. CASE cpu.primask \/ cpu.basepri # 0
      BY <1>2, <3>4, <3>5 DEF CalmInv, MaskedStart
    <3>6. CASE ~cpu.primask /\ cpu.basepri = 0
      <4>1. ~(r.pendingPrio < r.activeGroupPrio)
        BY <2>1, <2>3, <3>6 DEF CanBeActivated, BoostedPrio
      <4>2. r.pendingPrio \in Int /\ r.activeGroupPrio \in Int
        BY <2>1 DEF Good, NvicType
      <4>3. Calm(r)
        BY <4>1, <4>2 DEF Calm
      <4> QED
        BY <1>2, <3>2, <3>3, <4>3 DEF CalmInv
    <3> QED
      BY <3>5, <3>6
  <2> QED
    BY <2>2, <2>3
<1> QED
  BY <1>4, <1>5

\* Outside the start of a block, CalmInv is Calm.
LEMMA StepCalm ==
  ASSUME GoodPair(nvic, cpu), CalmInv, Next
  PROVE  CalmInv'
<1>0. Good(nvic) /\ nvic \in NvicType /\ Ext \subseteq Exc /\ SVC \in Exc /\ SYSTICK \in Exc
  BY DEF GoodPair, Good, Exc
<1>1. cpu.exit = "no"
  BY StepsRun DEF Running
<1>2. Executing => Calm(nvic)
  BY <1>1 DEF Executing, CalmInv, MaskedStart
<1>3. Calm(nvic') => CalmInv'
  BY DEF CalmInv
<1>4. ASSUME BlockHook PROVE CalmInv'
  BY <1>4, BlockHookCalm DEF CalmInv
<1>5. ASSUME ReturnHook PROVE CalmInv'
  BY <1>5, ReturnHookCalm
<1>6. ASSUME EndBlock \/ SetMasks \/ SetSpsel \/ NotAnSvc PROVE CalmInv'
  BY <1>2, <1>3, <1>6 DEF EndBlock, SetMasks, SetSpsel, NotAnSvc, Executing
<1>7. ASSUME Svc PROVE CalmInv'
  BY <1>0, <1>1, <1>7, PendAndActivateCalm DEF Svc
<1>8. ASSUME NEW e \in Ext \cup {SYSTICK}, NvicSetPending(e) PROVE CalmInv'
  BY <1>0, <1>1, <1>8, PendAndActivateCalm DEF NvicSetPending
<1>9. ASSUME NEW S \in SUBSET Ext, WriteIser(S) PROVE CalmInv'
  <2>1. nvic' \in {EnableIrqs(nvic, S), RecalcPrios(EnableIrqs(nvic, S))} /\ Executing
    BY <1>9 DEF WriteIser
  <2>2. S \in SUBSET Exc
    BY <1>0
  <2> QED
    BY <1>0, <1>2, <1>3, <2>1, <2>2, EnableIrqsCalm
<1>10. ASSUME NEW e \in Ext, WriteIcer(e) PROVE CalmInv'
  BY <1>0, <1>2, <1>3, <1>10, DisableIrqCalm DEF WriteIcer
<1>11. ASSUME NEW e \in Ext, WriteIspr(e) PROVE CalmInv'
  BY <1>0, <1>2, <1>3, <1>11, PendInterruptCalm DEF WriteIspr
<1>12. ASSUME NEW e \in Ext, WriteIcpr(e) PROVE CalmInv'
  BY <1>0, <1>2, <1>3, <1>12, ClearPendInterruptCalm DEF WriteIcpr
<1>13. ASSUME NEW e \in Ext, WriteStir(e) PROVE CalmInv'
  BY <1>0, <1>1, <1>13, PendAndActivateCalm DEF WriteStir
<1>14. ASSUME NEW e \in PrioExc, NEW p \in Prios, WritePrios([x \in {e} |-> p])
       PROVE  CalmInv'
  <2> DEFINE f == [x \in {e} |-> p]
  <2>1. {e} \in SUBSET Exc /\ f \in [{e} -> 0..255]
    BY PrioAssumption
  <2>2. nvic' = SetPrios(nvic, f) /\ Executing
    BY <1>14 DEF WritePrios
  <2> HIDE DEF f
  <2> QED
    BY <1>0, <1>2, <1>3, <2>1, <2>2, SetPriosCalm
<1>15. ASSUME NEW g \in Prigroups, NEW reset \in BOOLEAN, WriteAircr(g, reset)
       PROVE  CalmInv'
  <2> DEFINE n == [nvic EXCEPT !.prigroup = g]
  <2>1. nvic' \in {nvic, RecalcPrios(n)} /\ Executing
    BY <1>15 DEF WriteAircr
  <2>2. n \in NvicType /\ n.active \subseteq Scanned(n)
    BY <1>0, PrioAssumption DEF Good, NvicType, OneActive, Scanned
  <2>3. /\ SameCache(n, nvic) /\ n.activeIrq = nvic.activeIrq
        /\ n.prevPrimask = nvic.prevPrimask /\ n.prevBasepri = nvic.prevBasepri
    BY <1>0 DEF NvicType, SameCache
  <2> HIDE DEF n
  <2> QED
    BY <1>2, <1>3, <2>1, <2>2, <2>3, SameIsCalm, RecalcCalm
<1>16. ASSUME NEW B, WriteIcsr(B) PROVE CalmInv'
  BY <1>2, <1>16, WriteIcsrCalm DEF WriteIcsr
<1> QED
  BY <1>4, <1>5, <1>6, <1>7, <1>8, <1>9, <1>10, <1>11, <1>12, <1>13, <1>14,
     <1>15, <1>16 DEF Next

\* What a step promises when a block starts to execute.
StartsStep ==
  phase = "block" /\ phase' = "exec" /\ cpu.basepri = 0 /\ cpu'.exit = "no"
    => ~CanBeActivated(nvic', cpu') \/ SvcUnderPrimask'

LEMMA StepStarts ==
  ASSUME TInv, TInv', CalmInv, Next
  PROVE  StartsStep
<1> SUFFICES ASSUME phase = "block", phase' = "exec", cpu.basepri = 0, cpu'.exit = "no"
             PROVE  ~CanBeActivated(nvic', cpu') \/ SvcUnderPrimask'
  BY DEF StartsStep
<1>1. GoodPair(nvic, cpu)
  BY DEF TInv, IInv
<1>2. BlockHook
  BY DEF Next, ReturnHook, EndBlock, SetMasks, SetSpsel, Svc, NotAnSvc, NvicSetPending, WriteIser,
         WriteIcer, WriteIspr, WriteIcpr, WriteStir, WritePrios, WriteAircr, WriteIcsr,
         Becomes, Executing
<1>3. /\ Calm(nvic')
      /\ \/ nvic'.activeIrq # NONE
         \/ /\ cpu' = cpu /\ nvic'.prevPrimask = cpu.primask
            /\ ~cpu.primask => nvic'.prevBasepri = cpu.basepri
  BY <1>1, <1>2, BlockHookCalm
<1>4. nvic'.pendingPrio \in Int /\ nvic'.pendingPrio >= 0 /\ nvic'.activeGroupPrio \in Int
  <2>1. nvic' \in NvicType /\ nvic'.pendingPrio >= 0
    BY DEF TInv, IInv, GoodPair, Good, Ranged
  <2> QED
    BY <2>1 DEF NvicType
<1>5. CASE nvic'.activeIrq # NONE
  BY <1>5 DEF CanBeActivated
<1>6. CASE nvic'.activeIrq = NONE /\ cpu'.primask
  <2>1. CASE nvic'.pendingIrq = SVC
    BY <1>6, <2>1 DEF SvcUnderPrimask
  <2>2. CASE nvic'.pendingIrq # SVC
    BY <1>4, <1>6, <2>2 DEF CanBeActivated, BoostedPrio
  <2> QED
    BY <2>1, <2>2
<1>7. CASE nvic'.activeIrq = NONE /\ ~cpu'.primask
  <2>1. cpu' = cpu /\ ~nvic'.prevPrimask /\ nvic'.prevBasepri = 0
    BY <1>3, <1>7
  <2>2. nvic'.pendingPrio >= nvic'.activeGroupPrio
    BY <1>3, <1>7, <2>1 DEF Calm
  <2> QED
    BY <1>4, <1>7, <2>1, <2>2 DEF CanBeActivated, BoostedPrio
<1> QED
  BY <1>5, <1>6, <1>7

\* The block hook skips the activation when it thinks that neither mask has
\* been lowered since the last block; no exception that could be taken is left
\* behind by that, whatever was pended, enabled, re-prioritised or returned from
\* in between, but for an SVC under PRIMASK.
THEOREM NoneLeftBehind == Spec => NoLostActivation
<1>1. Init => TInv /\ CalmInv
  <2>1. Init => CalmInv
    BY DEF Init, CalmInv, Calm
  <2> QED
    BY <2>1, InitRanged
<1>2. TInv /\ CalmInv /\ [Next]_vars => (TInv /\ CalmInv)' /\ [StartsStep]_vars
  <2> SUFFICES ASSUME TInv, CalmInv, [Next]_vars
               PROVE  (TInv /\ CalmInv)' /\ [StartsStep]_vars
    OBVIOUS
  <2>1. TInv'
    BY StepInRange
  <2>2. CASE Next
    BY <2>1, <2>2, StepCalm, StepStarts DEF TInv, IInv
  <2>3. CASE UNCHANGED vars
    BY <2>1, <2>3 DEF vars, CalmInv, MaskedStart
  <2> QED
    BY <2>2, <2>3
<1>3. TInv /\ CalmInv /\ [Next]_vars =>
        [phase = "block" /\ phase' = "exec" /\ cpu.basepri = 0 /\ cpu'.exit = "no"
           => ~CanBeActivated(nvic', cpu') \/ SvcUnderPrimask']_vars
  BY <1>2 DEF StartsStep
<1> QED
  BY <1>1, <1>2, <1>3, PTL DEF Spec, NoLostActivation


-----------------------------------------------------------------------------
(* The list of interrupts offered to the fuzzer. *)

\* A list in strictly ascending order.
Sorted(l) == \A i, j \in DOMAIN l : i < j => l[i] < l[j]

\* Every set of exceptions is finite.
LEMMA FiniteExc == ASSUME NEW S, S \subseteq Exc PROVE IsFiniteSet(S) /\ Cardinality(S) \in Nat
<1>1. 0 \in Int /\ 255 \in Int
  OBVIOUS
<1>2. IsFiniteSet(0..255)
  BY <1>1, FS_Interval
<1>3. S \in SUBSET (0..255)
  BY ExcNat
<1>4. IsFiniteSet(S)
  BY <1>2, <1>3, FS_Subset
<1> QED
  BY <1>4, FS_CardinalityType

\* An ascending function lists it.
LEMMA AscendingExists ==
  ASSUME NEW S, S \subseteq Exc
  PROVE  \E q \in [1 .. Cardinality(S) -> S] : Sorted(q)
<1> DEFINE Unlisted(T, n) == /\ T \subseteq Exc /\ Cardinality(T) = n
                             /\ ~\E q \in [1..n -> T] : Sorted(q)
           Bad == {n \in Nat : \E T : Unlisted(T, n)}
<1>1. ASSUME Bad # {} PROVE FALSE
  <2>1. Bad \subseteq Nat
    OBVIOUS
  <2>2. PICK n \in Bad : \A k \in Bad : n <= k
    <3> HIDE DEF Bad
    <3> QED
      BY <1>1, <2>1, LeastNat
  <2>3. PICK T : Unlisted(T, n)
    OBVIOUS
  <2>4. T # {}
    <3>1. ASSUME T = {} PROVE FALSE
      <4>1. n = 0
        BY <3>1, <2>3, FS_EmptySet
      <4>2. [i \in 1..n |-> i] \in [1..n -> T] /\ Sorted([i \in 1..n |-> i])
        BY <4>1 DEF Sorted
      <4> QED
        BY <4>2, <2>3
    <3> QED
      BY <3>1
  <2>5. PICK m \in T : \A x \in T : x <= m
    BY <2>3, <2>4, GreatestExc
  <2>6. T \ {m} \subseteq Exc /\ Cardinality(T \ {m}) = n - 1 /\ n - 1 \in Nat
    <3>1. IsFiniteSet(T) /\ IsFiniteSet(T \ {m})
      BY <2>3, FiniteExc
    <3>2. Cardinality(T \ {m}) = n - 1 /\ Cardinality(T \ {m}) \in Nat
      BY <3>1, <2>3, FiniteExc, FS_RemoveElement
    <3> QED
      BY <2>3, <3>2
  <2>7. n - 1 \notin Bad
    <3>1. n \in Nat
      OBVIOUS
    <3> HIDE DEF Bad
    <3> QED
      BY <3>1, <2>2
  <2>8. PICK q \in [1..(n - 1) -> T \ {m}] : Sorted(q)
    BY <2>6, <2>7
  <2> DEFINE r == [i \in 1..n |-> IF i < n THEN q[i] ELSE m]
  <2>9. T \subseteq Nat /\ n \in Nat
    BY <2>3, ExcNat
  <2>10. r \in [1..n -> T]
    BY <2>9, <2>6
  <2>11. ASSUME NEW i \in 1..n, NEW j \in 1..n, i < j PROVE r[i] < r[j]
    <3>1. i \in 1..(n - 1) /\ r[i] = q[i] /\ q[i] \in T \ {m}
      BY <2>11, <2>9
    <3>2. CASE j < n
      <4>1. j \in 1..(n - 1) /\ r[j] = q[j]
        BY <3>2, <2>9
      <4> QED
        BY <3>1, <4>1, <2>8, <2>11 DEF Sorted
    <3>3. CASE ~(j < n)
      <4>1. r[j] = m
        BY <3>3
      <4>2. q[i] <= m /\ q[i] # m /\ q[i] \in Nat /\ m \in Nat
        BY <3>1, <2>5, <2>9
      <4> HIDE DEF r
      <4> QED
        BY <3>1, <4>1, <4>2
    <3> QED
      BY <3>2, <3>3
  <2>12. Sorted(r)
    BY <2>11 DEF Sorted
  <2> HIDE DEF r
  <2> QED
    BY <2>3, <2>10, <2>12
<1>2. Cardinality(S) \in Nat
  BY FiniteExc
<1>3. Cardinality(S) \notin Bad
  <2> HIDE DEF Bad
  <2> QED
    BY <1>1
<1> QED
  BY <1>2, <1>3

\* What Ascending gives is a list of the set.
LEMMA AscendingIs ==
  ASSUME NEW S, S \subseteq Exc
  PROVE  Ascending(S) \in Seq(S) /\ Sorted(Ascending(S)) /\ ToSet(Ascending(S)) = S
<1> DEFINE n == Cardinality(S)
           q == Ascending(S)
<1>1. q \in [1..n -> S] /\ Sorted(q)
  <2>1. \E f \in [1..n -> S] : \A i, j \in DOMAIN f : i < j => f[i] < f[j]
    BY AscendingExists DEF Sorted
  <2> QED
    BY <2>1 DEF Ascending, Sorted
<1>2. n \in Nat /\ IsFiniteSet(S)
  BY FiniteExc
<1>3. S \subseteq Nat
  BY ExcNat
<1> HIDE DEF q
<1>4. \A i, j \in 1..n : q[i] = q[j] => i = j
  <2> SUFFICES ASSUME NEW i \in 1..n, NEW j \in 1..n, q[i] = q[j] PROVE i = j
    OBVIOUS
  <2>1. q[i] \in Nat /\ i \in Nat /\ j \in Nat
    <3>1. i \in 1..n /\ j \in 1..n
      OBVIOUS
    <3>2. q[i] \in S
      BY <1>1, <3>1
    <3> HIDE DEF n
    <3>3. i \in Nat /\ j \in Nat
      BY <1>2, <3>1
    <3> QED
      BY <1>3, <3>2, <3>3
  <2>2. ~(i < j) /\ ~(j < i)
    BY <2>1, <1>1 DEF Sorted
  <2> QED
    BY <2>1, <2>2
<1>5. q \in Injection(1..n, S)
  BY <1>1, <1>4 DEF Injection, IsInjective
<1>6. Cardinality(1..n) = n
  BY <1>2, FS_Interval
<1>7. q \in Surjection(1..n, S)
  BY <1>2, <1>5, <1>6, FS_Injection
<1>8. \A x \in S : \E i \in 1..n : q[i] = x
  BY <1>7 DEF Surjection
<1>9. q \in Seq(S)
  BY <1>1, <1>2
<1>10. DOMAIN q = 1..n
  BY <1>1
<1> QED
  BY <1>1, <1>8, <1>9, <1>10 DEF ToSet, q

\* One interrupt more keeps the list in order.
LEMMA InsertSorted ==
  ASSUME NEW l \in Seq(Exc), Sorted(l), NEW e \in Exc, e \notin ToSet(l)
  PROVE  /\ InsertFuzzable(l, e) \in Seq(Exc) /\ Sorted(InsertFuzzable(l, e))
         /\ ToSet(InsertFuzzable(l, e)) = ToSet(l) \cup {e}
<1> DEFINE larger == {i \in DOMAIN l : l[i] > e}
           t == InsertFuzzable(l, e)
           n == Len(l)
<1>1. n \in Nat /\ DOMAIN l = 1..n /\ e \in Nat /\ \A i \in 1..n : l[i] \in Nat /\ l[i] \in Exc
  <2>1. n \in Nat /\ DOMAIN l = 1..n /\ \A i \in 1..n : l[i] \in Exc
    OBVIOUS
  <2>2. \A x \in Exc : x \in Nat
    BY ExcNat
  <2> QED
    BY <2>1, <2>2
<1>2. \A i \in 1..n : l[i] # e
  BY <1>1 DEF ToSet
<1>3. \A i, j \in 1..n : i < j => l[i] < l[j]
  BY <1>1 DEF Sorted
<1>4. CASE larger = {}
  <2>1. t = Append(l, e)
    BY <1>4 DEF InsertFuzzable
  <2>2. /\ t \in Seq(Exc) /\ Len(t) = n + 1 /\ DOMAIN t = 1..(n + 1) /\ t[n + 1] = e
        /\ \A i \in 1..n : t[i] = l[i]
    BY <2>1
  <2>3. \A i \in 1..n : l[i] < e
    BY <1>1, <1>2, <1>4
  <2> HIDE DEF t
  <2>4. Sorted(t)
    <3> SUFFICES ASSUME NEW i \in 1..(n + 1), NEW j \in 1..(n + 1), i < j PROVE t[i] < t[j]
      BY <2>2 DEF Sorted
    <3>1. i \in 1..n
      BY <1>1
    <3>2. CASE j = n + 1
      BY <2>2, <2>3, <3>1, <3>2
    <3>3. CASE j # n + 1
      <4>1. j \in 1..n
        BY <1>1, <3>3
      <4> QED
        BY <2>2, <3>1, <4>1, <1>3
    <3> QED
      BY <3>2, <3>3
  <2>5. ToSet(t) = ToSet(l) \cup {e}
    <3>1. \A i \in 1..(n + 1) : i \in 1..n \/ i = n + 1
      BY <1>1
    <3>2. 1..n \subseteq 1..(n + 1) /\ n + 1 \in 1..(n + 1)
      BY <1>1
    <3> QED
      BY <2>2, <3>1, <3>2, <1>1 DEF ToSet
  <2> QED
    BY <2>2, <2>4, <2>5 DEF t
<1>5. CASE larger # {}
  <2>1. larger \subseteq Nat
    BY <1>1
  <2>2. \E i \in larger : \A j \in larger : i <= j
    BY <1>5, <2>1, LeastNat
  <2> DEFINE k == CHOOSE i \in larger : \A j \in larger : i <= j
  <2>3. k \in larger /\ \A j \in larger : k <= j
    BY <2>2
  <2>4. t = InsertAt(l, k, e)
    BY <1>5 DEF InsertFuzzable
  <2> HIDE DEF k
  <2>5. k \in 1..n /\ l[k] > e
    BY <2>3
  <2>6. \A i \in 1..n : i < k => l[i] < e
    <3> SUFFICES ASSUME NEW i \in 1..n, i < k PROVE l[i] < e
      OBVIOUS
    <3>1. i \notin larger
      BY <2>3, <2>5, <1>1
    <3> QED
      BY <3>1, <1>1, <1>2
  <2>7. /\ t \in Seq(Exc) /\ Len(t) = n + 1 /\ DOMAIN t = 1..(n + 1) /\ t[k] = e
        /\ \A i \in 1..n : i < k => t[i] = l[i]
        /\ \A i \in 1..n : i >= k => t[i + 1] = l[i]
    <3> DEFINE a == SubSeq(l, 1, k - 1)
               b == SubSeq(l, k, n)
    <3>1. a \in Seq(Exc) /\ Len(a) = k - 1 /\ \A i \in 1..(k - 1) : a[i] = l[i]
      BY <1>1, <2>5
    <3>2. b \in Seq(Exc) /\ Len(b) = n - k + 1 /\ \A i \in 1..(n - k + 1) : b[i] = l[k + i - 1]
      BY <1>1, <2>5
    <3>3. t = a \o <<e>> \o b
      BY <2>4 DEF InsertAt
    <3> DEFINE c == a \o <<e>>
    <3> HIDE DEF a, b, t
    <3>4. c \in Seq(Exc) /\ Len(c) = k /\ c[k] = e /\ \A i \in 1..(k - 1) : c[i] = l[i]
      <4>1. <<e>> \in Seq(Exc) /\ Len(<<e>>) = 1 /\ <<e>>[1] = e
        OBVIOUS
      <4>2. c \in Seq(Exc) /\ Len(c) = Len(a) + 1
        BY <3>1, <4>1
      <4>3. c[Len(a) + 1] = e /\ \A i \in 1..Len(a) : c[i] = a[i]
        BY <3>1, <4>1
      <4>4. (k - 1) + 1 = k
        BY <2>5, <1>1
      <4> HIDE DEF c
      <4> QED
        BY <3>1, <4>2, <4>3, <4>4
    <3>5. t = c \o b
      BY <3>3
    <3> HIDE DEF c
    <3>6. t \in Seq(Exc) /\ Len(t) = n + 1
      <4>1. t \in Seq(Exc) /\ Len(t) = Len(c) + Len(b)
        BY <3>2, <3>4, <3>5
      <4> QED
        BY <4>1, <3>2, <3>4, <2>5, <1>1
    <3>7. \A i \in 1..k : t[i] = c[i]
      BY <3>2, <3>4, <3>5, <2>5, <1>1
    <3>8. \A i \in 1..(n - k + 1) : t[k + i] = b[i]
      BY <3>2, <3>4, <3>5, <2>5, <1>1
    <3>9. \A i \in 1..n : i >= k => t[i + 1] = l[i]
      <4> SUFFICES ASSUME NEW i \in 1..n, i >= k PROVE t[i + 1] = l[i]
        OBVIOUS
      <4>1. i - k + 1 \in 1..(n - k + 1) /\ k + (i - k + 1) = i + 1 /\ k + (i - k + 1) - 1 = i
        BY <2>5, <1>1
      <4> QED
        BY <4>1, <3>8, <3>2
    <3> QED
      BY <3>4, <3>6, <3>7, <3>9, <2>5, <1>1
  <2> HIDE DEF t
  <2>8. Sorted(t)
    <3> SUFFICES ASSUME NEW i \in 1..(n + 1), NEW j \in 1..(n + 1), i < j PROVE t[i] < t[j]
      BY <2>7 DEF Sorted
    <3>1. CASE j < k
      BY <3>1, <2>5, <2>7, <1>1, <1>3
    <3>2. CASE j = k
      <4>1. i \in 1..n /\ i < k
        BY <3>2, <2>5, <1>1
      <4> QED
        BY <4>1, <3>2, <2>6, <2>7
    <3>3. CASE j > k
      <4>1. j - 1 \in 1..n /\ j - 1 >= k
        BY <3>3, <2>5, <1>1
      <4>2. t[j] = l[j - 1]
        <5>1. t[(j - 1) + 1] = l[j - 1]
          BY <4>1, <2>7
        <5> QED
          BY <5>1
      <4>3. CASE i < k
        <5>1. i \in 1..n /\ i < j - 1
          BY <4>3, <2>5, <4>1, <1>1
        <5> QED
          BY <5>1, <4>1, <4>2, <4>3, <2>7, <1>3
      <4>4. CASE i = k
        <5>1. l[j - 1] >= l[k]
          BY <4>1, <1>3, <2>5, <1>1
        <5> QED
          BY <5>1, <4>1, <4>2, <4>4, <2>5, <2>7, <1>1
      <4>5. CASE i > k
        <5>1. i - 1 \in 1..n /\ i - 1 >= k /\ i - 1 < j - 1
          BY <4>5, <2>5, <1>1
        <5>2. t[(i - 1) + 1] = l[i - 1]
          BY <5>1, <2>7
        <5> QED
          BY <5>1, <5>2, <4>1, <4>2, <1>3
      <4> QED
        BY <4>3, <4>4, <4>5, <2>5
    <3> QED
      BY <3>1, <3>2, <3>3, <2>5
  <2>9. ToSet(t) \subseteq ToSet(l) \cup {e}
    <3> SUFFICES ASSUME NEW i \in 1..(n + 1) PROVE t[i] = e \/ \E j \in 1..n : t[i] = l[j]
      BY <2>7, <1>1 DEF ToSet
    <3>1. CASE i < k
      BY <3>1, <2>5, <2>7, <1>1
    <3>2. CASE i > k
      <4>1. i - 1 \in 1..n /\ i - 1 >= k
        BY <3>2, <2>5, <1>1
      <4>2. t[(i - 1) + 1] = l[i - 1]
        BY <4>1, <2>7
      <4> QED
        BY <4>1, <4>2
    <3> QED
      BY <3>1, <3>2, <2>5, <2>7
  <2>10. ToSet(l) \cup {e} \subseteq ToSet(t)
    <3>1. e \in ToSet(t)
      <4>1. k \in DOMAIN t
        BY <2>5, <2>7, <1>1
      <4> QED
        BY <4>1, <2>7 DEF ToSet
    <3>2. ASSUME NEW j \in 1..n PROVE l[j] \in ToSet(t)
      <4>1. j \in DOMAIN t /\ j + 1 \in DOMAIN t
        BY <2>7, <1>1
      <4>2. t[j] = l[j] \/ t[j + 1] = l[j]
        BY <2>5, <2>7, <1>1
      <4> QED
        BY <4>1, <4>2 DEF ToSet
    <3> QED
      BY <3>1, <3>2, <1>1 DEF ToSet
  <2> QED
    BY <2>7, <2>8, <2>9, <2>10 DEF t
<1> QED
  BY <1>4, <1>5

\* One step of the loop over the bits: g[s] is the list when the bits s of q are done.
Inserting(l, q, g, s) ==
  IF s = {} THEN l ELSE InsertFuzzable(g[s \ {Max(s)}], q[Max(s)])

\* The largest of some places of a list.
LEMMA MaxIs ==
  ASSUME NEW n \in Nat, NEW s \in SUBSET (1..n), s # {}
  PROVE  Max(s) \in s /\ \A x \in s : x <= Max(s)
<1> DEFINE K == {n - x : x \in s}
<1>1. \A x \in s : n - x \in Nat /\ x \in Nat
  OBVIOUS
<1>2. K \subseteq Nat /\ K # {}
  BY <1>1
<1>3. PICK m \in K : \A k \in K : m <= k
  <2> HIDE DEF K
  <2> QED
    BY <1>2, LeastNat
<1>4. PICK t \in s : m = n - t
  BY <1>3
<1>5. \A x \in s : t >= x
  <2> SUFFICES ASSUME NEW x \in s PROVE t >= x
    OBVIOUS
  <2>1. n - t <= n - x
    BY <1>3, <1>4
  <2> QED
    BY <2>1, <1>1
<1>6. \E t1 \in s : \A x \in s : t1 >= x
  BY <1>5
<1>7. Max(s) \in s /\ \A x \in s : Max(s) >= x
  BY <1>6 DEF Max
<1> QED
  BY <1>7, <1>1

\* There is such a g.
LEMMA InsertingExists ==
  ASSUME NEW l, NEW q, NEW n \in Nat
  PROVE  \E g : g = [s \in SUBSET (1..n) |-> Inserting(l, q, g, s)]
<1> DEFINE D == SUBSET (1..n)
           Upto(g, k) == /\ g = [s \in D |-> g[s]]
                         /\ \A s \in D : Cardinality(s) <= k => g[s] = Inserting(l, q, g, s)
           Bad == {k \in Nat : ~\E g : Upto(g, k)}
<1>1. \A s \in D : IsFiniteSet(s) /\ Cardinality(s) \in Nat /\ Cardinality(s) <= n
  <2>1. IsFiniteSet(1..n) /\ Cardinality(1..n) = n
    BY FS_Interval
  <2> QED
    BY <2>1, FS_Subset, FS_CardinalityType
<1>2. \A s \in D : s # {} => /\ s \ {Max(s)} \in D
                             /\ Cardinality(s \ {Max(s)}) = Cardinality(s) - 1
  BY <1>1, MaxIs, FS_RemoveElement
<1>3. ASSUME Bad # {} PROVE FALSE
  <2>1. PICK k \in Bad : \A j \in Bad : k <= j
    <3>1. Bad \subseteq Nat
      OBVIOUS
    <3> HIDE DEF Bad
    <3> QED
      BY <1>3, <3>1, LeastNat
  <2>2. CASE k = 0
    <3> DEFINE g == [s \in D |-> l]
    <3>1. \A s \in D : Cardinality(s) <= 0 => s = {}
      BY <1>1, FS_EmptySet
    <3>2. Upto(g, 0)
      BY <3>1 DEF Inserting
    <3> QED
      BY <2>2, <3>2
  <2>3. CASE k # 0
    <3>1. k \in Nat /\ k - 1 \in Nat /\ k - 1 \notin Bad
      <4>1. k \in Nat
        OBVIOUS
      <4> HIDE DEF Bad
      <4> QED
        BY <4>1, <2>1, <2>3
    <3>2. PICK g : Upto(g, k - 1)
      BY <3>1
    <3> DEFINE h == [s \in D |-> IF Cardinality(s) <= k - 1 THEN g[s] ELSE Inserting(l, q, g, s)]
    <3>3. ASSUME NEW s \in D, Cardinality(s) <= k PROVE h[s] = Inserting(l, q, h, s)
      <4>1. h[s] = Inserting(l, q, g, s)
        BY <3>2
      <4>2. CASE s = {}
        BY <4>1, <4>2 DEF Inserting
      <4>3. CASE s # {}
        <5>1. s \ {Max(s)} \in D /\ Cardinality(s \ {Max(s)}) <= k - 1
          BY <1>1, <1>2, <3>1, <3>3, <4>3
        <5>2. h[s \ {Max(s)}] = g[s \ {Max(s)}]
          BY <5>1
        <5> HIDE DEF h
        <5> QED
          BY <4>1, <4>3, <5>2 DEF Inserting
      <4> QED
        BY <4>2, <4>3
    <3>4. h = [s \in D |-> h[s]]
      OBVIOUS
    <3>5. Upto(h, k)
      <4> HIDE DEF h, D
      <4> QED
        BY <3>3, <3>4
    <3> HIDE DEF h
    <3> QED
      BY <3>5
  <2> QED
    BY <2>2, <2>3
<1>4. PICK g : Upto(g, n)
  BY <1>3
<1>5. g = [s \in D |-> Inserting(l, q, g, s)]
  BY <1>1, <1>4
<1> QED
  BY <1>5

\* The fold, as such a g.
LEMMA FoldInserts ==
  ASSUME NEW l, NEW S, NEW q \in Seq(S)
  PROVE  \E g : /\ g = [s \in SUBSET (1..Len(q)) |-> Inserting(l, q, g, s)]
                /\ FoldLeft(InsertFuzzable, l, q) = g[1..Len(q)]
<1> DEFINE n == Len(q)
           g == CHOOSE g : g = [s \in SUBSET (1..n) |-> Inserting(l, q, g, s)]
<1>1. n \in Nat /\ DOMAIN q = 1..n
  OBVIOUS
<1>2. g = [s \in SUBSET (1..n) |-> Inserting(l, q, g, s)]
  <2>1. \E h : h = [s \in SUBSET (1..n) |-> Inserting(l, q, h, s)]
    BY <1>1, InsertingExists
  <2> QED
    BY <2>1
<1>3. FoldLeft(InsertFuzzable, l, q) = g[1..n]
  <2>1. FoldLeft(InsertFuzzable, l, q) = (CHOOSE h : h = [s \in SUBSET DOMAIN q |-> Inserting(l, q, h, s)])[DOMAIN q]
    BY Zenon DEF FoldLeft, MapThenFoldSet, Inserting
  <2> QED
    BY <2>1, <1>1
<1> HIDE DEF g
<1> QED
  BY <1>2, <1>3

\* Bits that are new to an ordered list are put in their places.
LEMMA FoldSorted ==
  ASSUME NEW l \in Seq(Exc), Sorted(l), NEW q \in Seq(Exc), Sorted(q),
         ToSet(q) \cap ToSet(l) = {},
         NEW t, t = FoldLeft(InsertFuzzable, l, q)
  PROVE  t \in Seq(Exc) /\ Sorted(t) /\ ToSet(t) = ToSet(l) \cup ToSet(q)
<1> DEFINE n == Len(q)
           Upto(k) == {q[i] : i \in 1..k}
<1>1. n \in Nat /\ DOMAIN q = 1..n /\ \A i \in 1..n : q[i] \in Exc
  OBVIOUS
<1>2. PICK g : /\ g = [s \in SUBSET (1..n) |-> Inserting(l, q, g, s)]
               /\ t = g[1..n]
  BY FoldInserts
<1> DEFINE Right(k) == /\ g[1..k] \in Seq(Exc) /\ Sorted(g[1..k])
                       /\ ToSet(g[1..k]) = ToSet(l) \cup Upto(k)
           Bad == {k \in 0..n : ~Right(k)}
<1>3. ASSUME Bad # {} PROVE FALSE
  <2>1. PICK k \in Bad : \A j \in Bad : k <= j
    <3>1. Bad \subseteq Nat
      BY <1>1
    <3> HIDE DEF Bad
    <3> QED
      BY <1>3, <3>1, LeastNat
  <2>2. k \in 0..n /\ k \in Nat /\ 1..k \in SUBSET (1..n)
    BY <1>1
  <2>3. g[1..k] = Inserting(l, q, g, 1..k)
    BY <1>2, <2>2
  <2>4. CASE k = 0
    <3>1. 1..k = {} /\ Upto(k) = {}
      BY <2>4
    <3>2. g[1..k] = l
      BY <2>3, <3>1 DEF Inserting
    <3> QED
      BY <3>1, <3>2
  <2>5. CASE k # 0
    <3>1. k - 1 \in 0..n /\ k - 1 \notin Bad /\ k \in 1..n
      <4>1. k - 1 \in 0..n /\ k \in 1..n /\ k - 1 < k
        BY <2>2, <2>5, <1>1
      <4>2. ~(k <= k - 1)
        BY <2>2
      <4> HIDE DEF Bad
      <4> QED
        BY <4>1, <4>2, <2>1
    <3>2. Right(k - 1)
      BY <3>1
    <3>3. 1..k # {} /\ k \in 1..k
      BY <2>2, <2>5
    <3>4. Max(1..k) = k
      <4>1. Max(1..k) \in 1..k /\ \A x \in 1..k : x <= Max(1..k)
        BY <2>2, <3>3, <1>1, MaxIs
      <4> QED
        BY <4>1, <3>3
    <3>5. (1..k) \ {k} = 1..(k - 1)
      BY <2>2
    <3>6. g[1..k] = InsertFuzzable(g[1..(k - 1)], q[k])
      BY <2>3, <3>3, <3>4, <3>5 DEF Inserting
    <3>7. q[k] \in Exc /\ q[k] \notin ToSet(g[1..(k - 1)])
      <4>1. q[k] \in ToSet(q)
        BY <3>1, <1>1 DEF ToSet
      <4>2. q[k] \notin Upto(k - 1)
        <5> SUFFICES ASSUME NEW i \in 1..(k - 1) PROVE q[i] # q[k]
          OBVIOUS
        <5>1. i \in 1..n /\ i < k
          BY <2>2, <3>1
        <5>2. q[i] < q[k] /\ q[i] \in Exc /\ q[k] \in Exc
          BY <5>1, <3>1, <1>1 DEF Sorted
        <5>3. q[i] \in Nat /\ q[k] \in Nat
          <6>1. \A x \in Exc : x \in Nat
            BY ExcNat
          <6> QED
            BY <5>2, <6>1
        <5> QED
          BY <5>2, <5>3
      <4> HIDE DEF Upto
      <4> QED
        BY <3>1, <3>2, <4>1, <4>2, <1>1
    <3>8. Upto(k) = Upto(k - 1) \cup {q[k]}
      <4>1. \A i \in 1..k : i \in 1..(k - 1) \/ i = k
        BY <2>2
      <4>2. 1..(k - 1) \subseteq 1..k
        BY <2>2
      <4> QED
        BY <4>1, <4>2, <3>3
    <3> HIDE DEF Upto
    <3>9. Right(k)
      BY <3>2, <3>6, <3>7, <3>8, InsertSorted
    <3> QED
      BY <3>9
  <2> QED
    BY <2>4, <2>5
<1>4. Right(n)
  <2>1. n \in 0..n
    BY <1>1
  <2> QED
    BY <1>3, <2>1
<1>5. Upto(n) = ToSet(q)
  BY <1>1 DEF ToSet
<1> QED
  BY <1>2, <1>4, <1>5

\* remove_fuzzable_interrupt_no.
LEMMA RemoveSorted ==
  ASSUME NEW l \in Seq(Exc), Sorted(l), NEW e \in Exc, NEW t, t = RemoveFirst(l, e)
  PROVE  t \in Seq(Exc) /\ Sorted(t) /\ ToSet(t) = ToSet(l) \ {e}
<1> DEFINE n == Len(l)
           I == {i \in 1..n : l[i] = e}
<1>1. n \in Nat /\ DOMAIN l = 1..n /\ \A i \in 1..n : l[i] \in Exc
  OBVIOUS
<1>2. \A i \in 1..n : l[i] \in Nat
  <2>1. \A x \in Exc : x \in Nat
    BY ExcNat
  <2> QED
    BY <1>1, <2>1
<1>3. \A i, j \in 1..n : i < j => l[i] < l[j]
  BY <1>1 DEF Sorted
<1>4. CASE I = {}
  <2>1. t = l
    BY <1>4 DEF RemoveFirst
  <2>2. e \notin ToSet(l)
    BY <1>1, <1>4 DEF ToSet
  <2> QED
    BY <2>1, <2>2
<1>5. CASE I # {}
  <2> DEFINE k == Min(I)
  <2>1. k \in I
    <3>1. I \subseteq Nat
      BY <1>1
    <3>2. \E x \in I : \A y \in I : x <= y
      <4> HIDE DEF I
      <4> QED
        BY <1>5, <3>1, LeastNat
    <3> HIDE DEF I
    <3> QED
      BY <3>2 DEF Min
  <2>2. t = RemoveAt(l, k)
    BY <1>5 DEF RemoveFirst, SelectInSeq
  <2> HIDE DEF k
  <2>3. k \in 1..n /\ l[k] = e
    BY <2>1
  <2>4. /\ t \in Seq(Exc) /\ Len(t) = n - 1 /\ DOMAIN t = 1..(n - 1)
        /\ \A i \in 1..(n - 1) : i < k => t[i] = l[i]
        /\ \A i \in 1..(n - 1) : i >= k => t[i] = l[i + 1]
    <3> DEFINE a == SubSeq(l, 1, k - 1)
               b == SubSeq(l, k + 1, n)
    <3>1. a \in Seq(Exc) /\ Len(a) = k - 1 /\ \A i \in 1..(k - 1) : a[i] = l[i]
      BY <1>1, <2>3
    <3>2. b \in Seq(Exc) /\ Len(b) = n - k /\ \A i \in 1..(n - k) : b[i] = l[k + i]
      <4>1. k + 1 \in 1..(n + 1) /\ n - (k + 1) + 1 = n - k
        BY <1>1, <2>3
      <4>2. b \in Seq(Exc)
        BY <4>1, <1>1
      <4>3. Len(b) = n - k
        BY <4>1, <1>1
      <4>4. \A i \in 1..(n - k) : b[i] = l[k + i]
        <5> SUFFICES ASSUME NEW i \in 1..(n - k) PROVE b[i] = l[k + i]
          OBVIOUS
        <5>1. (k + 1) + i - 1 = k + i
          BY <2>3
        <5>2. b[i] = l[(k + 1) + i - 1]
          BY <4>1, <1>1
        <5> QED
          BY <5>1, <5>2
      <4> QED
        BY <4>2, <4>3, <4>4
    <3>3. t = a \o b
      BY <2>2 DEF RemoveAt
    <3> HIDE DEF a, b
    <3>4. t \in Seq(Exc) /\ Len(t) = Len(a) + Len(b)
      <4>1. a \in Seq(Exc) /\ b \in Seq(Exc)
        BY <3>1, <3>2
      <4> QED
        BY <4>1, <3>3
    <3>5. Len(t) = n - 1
      BY <3>1, <3>2, <3>4, <2>3, <1>1
    <3>6. \A i \in 1..(k - 1) : t[i] = a[i]
      BY <3>1, <3>2, <3>3, <2>3, <1>1
    <3>7. \A i \in 1..(n - k) : t[(k - 1) + i] = b[i]
      BY <3>1, <3>2, <3>3, <2>3, <1>1
    <3>8. \A i \in 1..(n - 1) : i < k => t[i] = l[i]
      BY <3>1, <3>6, <2>3, <1>1
    <3>9. \A i \in 1..(n - 1) : i >= k => t[i] = l[i + 1]
      <4> SUFFICES ASSUME NEW i \in 1..(n - 1), i >= k PROVE t[i] = l[i + 1]
        OBVIOUS
      <4>1. i - k + 1 \in 1..(n - k) /\ (k - 1) + (i - k + 1) = i /\ k + (i - k + 1) = i + 1
        BY <2>3, <1>1
      <4> QED
        BY <4>1, <3>7, <3>2
    <3> QED
      BY <3>4, <3>5, <3>8, <3>9
  <2>5. ASSUME NEW i \in 1..(n - 1), NEW j \in 1..(n - 1), i < j PROVE t[i] < t[j]
    <3>1. i \in 1..n /\ j \in 1..n /\ i + 1 \in 1..n /\ j + 1 \in 1..n /\ i < j + 1 /\ i + 1 < j + 1
      BY <1>1, <2>5
    <3>2. CASE i < k /\ j < k
      BY <3>1, <3>2, <2>4, <2>5, <1>3
    <3>3. CASE i < k /\ j >= k
      BY <3>1, <3>3, <2>4, <1>3
    <3>4. CASE i >= k /\ j >= k
      BY <3>1, <3>4, <2>4, <1>3
    <3> QED
      BY <3>2, <3>3, <3>4, <2>3, <2>5
  <2>6. Sorted(t)
    BY <2>4, <2>5 DEF Sorted
  <2>7. \A i \in 1..n : i # k => l[i] # e
    <3> SUFFICES ASSUME NEW i \in 1..n, i # k PROVE l[i] # l[k]
      BY <2>3
    <3>1. i < k \/ k < i
      BY <2>3
    <3>2. l[i] < l[k] \/ l[k] < l[i]
      BY <3>1, <2>3, <1>3
    <3> QED
      BY <3>2, <2>3, <1>2
  <2>8. ToSet(t) \subseteq ToSet(l) \ {e}
    <3> SUFFICES ASSUME NEW i \in 1..(n - 1) PROVE \E j \in 1..n : j # k /\ t[i] = l[j]
      BY <2>4, <2>7, <1>1 DEF ToSet
    <3>1. i \in 1..n /\ i + 1 \in 1..n
      BY <1>1
    <3>2. CASE i < k
      BY <3>1, <3>2, <2>4
    <3>3. CASE i >= k
      BY <3>1, <3>3, <2>3, <2>4
    <3> QED
      BY <3>2, <3>3, <2>3
  <2>9. ToSet(l) \ {e} \subseteq ToSet(t)
    <3> SUFFICES ASSUME NEW x \in ToSet(l) \ {e} PROVE x \in ToSet(t)
      OBVIOUS
    <3>a. PICK j \in 1..n : x = l[j] /\ j # k
      BY <2>3, <1>1 DEF ToSet
    <3> SUFFICES \E i \in 1..(n - 1) : t[i] = l[j]
      BY <3>a, <2>4 DEF ToSet
    <3>1. CASE j < k
      <4>1. j \in 1..(n - 1)
        BY <3>1, <2>3, <1>1
      <4> QED
        BY <4>1, <3>1, <2>4
    <3>2. CASE j > k
      <4>1. j - 1 \in 1..(n - 1) /\ j - 1 >= k /\ (j - 1) + 1 = j
        BY <3>2, <2>3, <1>1
      <4>2. t[j - 1] = l[(j - 1) + 1]
        BY <4>1, <2>4
      <4> QED
        BY <4>1, <4>2
    <3> QED
      BY <3>a, <3>1, <3>2, <2>3
  <2> QED
    BY <2>4, <2>6, <2>8, <2>9
<1> QED
  BY <1>4, <1>5

\* n enables what m enables.
Enables(n, m) == "enabled" \in DOMAIN n /\ n.enabled = m.enabled

\* Pending, priorities, entry and return enable and disable nothing.
LEMMA RecalcEnables ==
  ASSUME NEW n, "enabled" \in DOMAIN n PROVE Enables(RecalcPrios(n), n)
  BY DEF RecalcPrios, Enables

LEMMA PendEnables ==
  ASSUME NEW n, "enabled" \in DOMAIN n, NEW e
  PROVE  Enables(PendInterrupt(n, e), n) /\ Enables(ClearPendInterrupt(n, e), n)
<1>1. Enables(PendInterrupt(n, e), n)
  <2> DEFINE m == [n EXCEPT !.pending = @ \cup {e}]
  <2>1. Enables(m, n)
    BY DEF Enables
  <2>2. PendInterrupt(n, e) \in {n, m, RecalcPrios(m)}
    BY DEF PendInterrupt
  <2> HIDE DEF m
  <2> QED
    BY <2>1, <2>2, RecalcEnables DEF Enables
<1>2. Enables(ClearPendInterrupt(n, e), n)
  <2> DEFINE m == [n EXCEPT !.pending = @ \ {e}]
  <2>1. Enables(m, n)
    BY DEF Enables
  <2>2. ClearPendInterrupt(n, e) \in {n, m, RecalcPrios(m)}
    BY DEF ClearPendInterrupt
  <2> HIDE DEF m
  <2> QED
    BY <2>1, <2>2, RecalcEnables DEF Enables
<1> QED
  BY <1>1, <1>2

LEMMA EntryEnables ==
  ASSUME NEW n, "enabled" \in DOMAIN n, NEW c, NEW b
  PROVE  Enables(ExceptionEntry([n |-> n, c |-> c], b).n, n)
<1> DEFINE e == n.pendingIrq
           k == [n EXCEPT !.interruptCount = IF e # SYSTICK THEN @ + 1 ELSE @]
           m == [k EXCEPT !.active = @ \cup {e}, !.pending = @ \ {e}, !.activeIrq = e]
<1>1. Enables(k, n)
  BY DEF Enables
<1>2. Enables(m, n)
  <2> HIDE DEF k
  <2> QED
    BY <1>1 DEF Enables
<1>3. ExceptionEntry([n |-> n, c |-> c], b).n \in {k, RecalcPrios(m)}
  BY DEF ExceptionEntry
<1> HIDE DEF k, m
<1> QED
  BY <1>1, <1>2, <1>3, RecalcEnables DEF Enables

LEMMA ActivateEnables ==
  ASSUME NEW n, "enabled" \in DOMAIN n, NEW c
  PROVE  Enables(MaybeActivate([n |-> n, c |-> c]).n, n)
<1>1. MaybeActivate([n |-> n, c |-> c]).n \in {n, ExceptionEntry([n |-> n, c |-> c], FALSE).n}
  BY DEF MaybeActivate
<1>2. Enables(ExceptionEntry([n |-> n, c |-> c], FALSE).n, n)
  BY EntryEnables
<1>3. Enables(n, n)
  BY DEF Enables
<1> QED
  BY <1>1, <1>2, <1>3

LEMMA PendAndActivateEnables ==
  ASSUME NEW n, "enabled" \in DOMAIN n, NEW c, NEW e
  PROVE  Enables(MaybeActivate([n |-> PendInterrupt(n, e), c |-> c]).n, n)
<1> DEFINE p == PendInterrupt(n, e)
<1>1. Enables(p, n)
  BY PendEnables
<1> HIDE DEF p
<1>2. Enables(MaybeActivate([n |-> p, c |-> c]).n, p)
  BY <1>1, ActivateEnables DEF Enables
<1>3. Enables(MaybeActivate([n |-> p, c |-> c]).n, n)
  BY <1>1, <1>2 DEF Enables
<1> QED
  BY <1>3 DEF p

LEMMA ReturnEnables ==
  ASSUME NEW n, "enabled" \in DOMAIN n, NEW c
  PROVE  Enables(ExceptionReturn([n |-> n, c |-> c]).n, n)
<1> DEFINE a == [n EXCEPT !.active = @ \ {n.activeIrq}]
           d == Deactivated(n)
           p == PopStack([n |-> d, c |-> FrameStack(c)])
<1>1. Enables(d, n)
  <2>1. Enables(a, n)
    BY DEF Enables
  <2>2. Enables(RecalcPrios(a), n)
    <3> HIDE DEF a
    <3> QED
      BY <2>1, RecalcEnables DEF Enables
  <2>3. d = [RecalcPrios(a) EXCEPT !.activeIrq = NONE]
    BY DEF Deactivated
  <2> HIDE DEF a, d
  <2> QED
    BY <2>2, <2>3 DEF Enables
<1> HIDE DEF d
<1>2. Enables(p.n, n)
  <2>1. \E x : p.n = [d EXCEPT !.activeIrq = x]
    BY DEF PopStack
  <2> HIDE DEF p
  <2> QED
    BY <1>1, <2>1 DEF Enables
<1>3. ExceptionReturn([n |-> n, c |-> c]).n \in {n, ExceptionEntry([n |-> d, c |-> c], TRUE).n, p.n}
  BY DEF ExceptionReturn, d
<1> HIDE DEF p
<1>4. Enables(ExceptionEntry([n |-> d, c |-> c], TRUE).n, d)
  BY <1>1, EntryEnables DEF Enables
<1>5. Enables(ExceptionEntry([n |-> d, c |-> c], TRUE).n, n)
  BY <1>1, <1>4 DEF Enables
<1>6. Enables(n, n)
  BY DEF Enables
<1> QED
  BY <1>2, <1>3, <1>5, <1>6

LEMMA BlockHookEnables ==
  ASSUME "enabled" \in DOMAIN nvic, BlockHook PROVE Enables(nvic', nvic)
<1> DEFINE n == [nvic EXCEPT !.prevPrimask = cpu.primask,
                             !.prevBasepri = IF cpu.primask THEN @ ELSE cpu.basepri]
<1>1. Enables(n, nvic)
  BY DEF Enables
<1>2. nvic' \in {n, ExceptionEntry([n |-> n, c |-> cpu], FALSE).n}
  BY DEF BlockHook
<1> HIDE DEF n
<1>3. Enables(ExceptionEntry([n |-> n, c |-> cpu], FALSE).n, n)
  BY <1>1, EntryEnables DEF Enables
<1>4. Enables(ExceptionEntry([n |-> n, c |-> cpu], FALSE).n, nvic)
  BY <1>1, <1>3 DEF Enables
<1> QED
  BY <1>1, <1>2, <1>4

\* A controller with its CPU.
Pair(m) == m = [n |-> m.n, c |-> m.c] /\ "enabled" \in DOMAIN m.n

LEMMA PendIfEnables ==
  ASSUME NEW m, Pair(m), NEW b, NEW e
  PROVE  Pair(PendIf(b, e, m)) /\ Enables(PendIf(b, e, m).n, m.n)
<1> DEFINE k == MaybeActivate([n |-> PendInterrupt(m.n, e), c |-> m.c])
<1>1. Enables(k.n, m.n)
  BY PendAndActivateEnables DEF Pair
<1>2. k = [n |-> k.n, c |-> k.c]
  BY DEF MaybeActivate, ExceptionEntry
<1>3. PendIf(b, e, m) \in {k, m}
  BY DEF PendIf
<1>4. Enables(m.n, m.n)
  BY DEF Enables, Pair
<1> HIDE DEF k
<1> QED
  BY <1>1, <1>2, <1>3, <1>4 DEF Pair, Enables

LEMMA ClearIfEnables ==
  ASSUME NEW m, Pair(m), NEW b, NEW e
  PROVE  Pair(ClearIf(b, e, m)) /\ Enables(ClearIf(b, e, m).n, m.n)
<1> DEFINE p == ClearPendInterrupt(m.n, e)
           k == [n |-> p, c |-> m.c]
<1>1. Enables(p, m.n)
  BY PendEnables DEF Pair
<1> HIDE DEF p
<1>2. k = [n |-> k.n, c |-> k.c] /\ k.n = p
  OBVIOUS
<1>3. ClearIf(b, e, m) \in {k, m}
  BY DEF ClearIf, p
<1>4. Enables(m.n, m.n)
  BY DEF Enables, Pair
<1> HIDE DEF k
<1> QED
  BY <1>1, <1>2, <1>3, <1>4 DEF Pair, Enables

LEMMA IcsrEnables ==
  ASSUME "enabled" \in DOMAIN nvic, NEW B, WriteIcsr(B) PROVE Enables(nvic', nvic)
<1> DEFINE m0 == [n |-> nvic, c |-> cpu]
           m1 == PendIf("PENDSVSET" \in B, PENDSV, m0)
           m2 == ClearIf("PENDSVCLR" \in B, PENDSV, m1)
           m3 == PendIf("PENDSTSET" \in B, SYSTICK, m2)
           m4 == ClearIf("PENDSTCLR" \in B, SYSTICK, m3)
<1>1. Pair(m0) /\ m0.n = nvic
  BY DEF Pair
<1>2. nvic' \in {m4.n, PendInterrupt(m4.n, NMI)}
  BY DEF WriteIcsr, Becomes
<1> HIDE DEF m0
<1>3. Pair(m1) /\ Enables(m1.n, nvic)
  BY <1>1, PendIfEnables
<1> HIDE DEF m1
<1>4. Pair(m2) /\ Enables(m2.n, m1.n)
  BY <1>3, ClearIfEnables
<1> HIDE DEF m2
<1>5. Pair(m3) /\ Enables(m3.n, m2.n)
  BY <1>4, PendIfEnables
<1> HIDE DEF m3
<1>6. Pair(m4) /\ Enables(m4.n, m3.n)
  BY <1>5, ClearIfEnables
<1> HIDE DEF m4
<1>7. Enables(m4.n, nvic) /\ Enables(PendInterrupt(m4.n, NMI), m4.n)
  BY <1>3, <1>4, <1>5, <1>6, PendEnables DEF Enables
<1>8. Enables(PendInterrupt(m4.n, NMI), nvic)
  BY <1>7 DEF Enables
<1> QED
  BY <1>2, <1>7, <1>8

\* The list is in order and holds what is enabled.
ListExact(l, n) == l \in Seq(Exc) /\ Sorted(l) /\ ToSet(l) = n.enabled \cap Ext

FuzzInv == IInv /\ ListExact(enabledIrqs, nvic)

LEMMA IserExact ==
  ASSUME FuzzInv, NEW S \in SUBSET Ext, WriteIser(S)
  PROVE  ListExact(enabledIrqs', nvic')
<1> DEFINE new == NewlyEnabled(nvic, S)
           n == EnableIrqs(nvic, S)
<1>1. nvic \in NvicType /\ ListExact(enabledIrqs, nvic)
  BY DEF FuzzInv, IInv, GoodPair, Good
<1>2. new \subseteq Ext /\ Ext \subseteq Exc /\ new \cap nvic.enabled = {}
  BY DEF NewlyEnabled, Exc
<1>3. nvic'.enabled = nvic.enabled \cup new
  <2>1. "enabled" \in DOMAIN n /\ n.enabled = nvic.enabled \cup new
    BY <1>1 DEF EnableIrqs, NvicType
  <2>2. nvic' \in {n, RecalcPrios(n)}
    BY DEF WriteIser
  <2> HIDE DEF n, new
  <2> QED
    BY <2>1, <2>2, RecalcEnables DEF Enables
<1>4. enabledIrqs' = FoldLeft(InsertFuzzable, enabledIrqs, Ascending(new))
  BY DEF WriteIser
<1> HIDE DEF new, n
<1>5. Ascending(new) \in Seq(new) /\ Sorted(Ascending(new)) /\ ToSet(Ascending(new)) = new
  BY <1>2, AscendingIs
<1>6. Ascending(new) \in Seq(Exc)
  BY <1>2, <1>5
<1>7. new \cap ToSet(enabledIrqs) = {}
  BY <1>1, <1>2 DEF ListExact
<1>8. /\ enabledIrqs' \in Seq(Exc) /\ Sorted(enabledIrqs')
      /\ ToSet(enabledIrqs') = ToSet(enabledIrqs) \cup new
  BY <1>1, <1>4, <1>5, <1>6, <1>7, FoldSorted DEF ListExact
<1> QED
  BY <1>1, <1>2, <1>3, <1>8 DEF ListExact

LEMMA IcerExact ==
  ASSUME FuzzInv, NEW e \in Ext, WriteIcer(e)
  PROVE  ListExact(enabledIrqs', nvic')
<1> DEFINE m == [nvic EXCEPT !.enabled = @ \ {e}]
<1>1. nvic \in NvicType /\ ListExact(enabledIrqs, nvic) /\ e \in Exc
  BY DEF FuzzInv, IInv, GoodPair, Good, Exc
<1>2. nvic'.enabled = nvic.enabled \ {e}
  <2>1. "enabled" \in DOMAIN m /\ m.enabled = nvic.enabled \ {e}
    BY <1>1 DEF NvicType
  <2>2. (e \notin nvic.enabled /\ nvic' = nvic) \/ nvic' \in {m, RecalcPrios(m)}
    BY DEF WriteIcer, DisableIrq
  <2> HIDE DEF m
  <2>3. RecalcPrios(m).enabled = nvic.enabled \ {e}
    BY <2>1, RecalcEnables DEF Enables
  <2> QED
    BY <2>1, <2>2, <2>3
<1>3. enabledIrqs' = RemoveFirst(enabledIrqs, e)
  BY DEF WriteIcer
<1>4. /\ enabledIrqs' \in Seq(Exc) /\ Sorted(enabledIrqs')
      /\ ToSet(enabledIrqs') = ToSet(enabledIrqs) \ {e}
  BY <1>1, <1>3, RemoveSorted DEF ListExact
<1> QED
  BY <1>1, <1>2, <1>4 DEF ListExact

LEMMA StepExact == FuzzInv /\ [Next]_vars => FuzzInv'
<1> SUFFICES ASSUME FuzzInv, [Next]_vars PROVE FuzzInv'
  OBVIOUS
<1>1. IInv'
  BY StepGood DEF FuzzInv
<1>2. nvic \in NvicType /\ "enabled" \in DOMAIN nvic
  <2>1. nvic \in NvicType
    BY DEF FuzzInv, IInv, GoodPair, Good
  <2> QED
    BY <2>1 DEF NvicType
<1>a. SUFFICES ListExact(enabledIrqs', nvic')
  BY <1>1 DEF FuzzInv, ListExact
<1>b. ASSUME Enables(nvic', nvic), enabledIrqs' = enabledIrqs PROVE ListExact(enabledIrqs', nvic')
  BY <1>b DEF FuzzInv, ListExact, Enables
<1>3. ASSUME BlockHook PROVE ListExact(enabledIrqs', nvic')
  <2>1. enabledIrqs' = enabledIrqs
    BY <1>3 DEF BlockHook
  <2> QED
    BY <1>2, <1>3, <1>b, <2>1, BlockHookEnables
<1>4. ASSUME ReturnHook PROVE ListExact(enabledIrqs', nvic')
  <2>1. enabledIrqs' = enabledIrqs /\ nvic' = ExceptionReturn([n |-> nvic, c |-> cpu]).n
    BY <1>4 DEF ReturnHook
  <2> QED
    BY <1>2, <1>b, <2>1, ReturnEnables
<1>5. ASSUME EndBlock \/ SetMasks \/ SetSpsel \/ NotAnSvc PROVE ListExact(enabledIrqs', nvic')
  BY <1>5, <1>2, <1>b DEF EndBlock, SetMasks, SetSpsel, NotAnSvc, Enables
<1>6. ASSUME NEW e, nvic' = MaybeActivate([n |-> PendInterrupt(nvic, e), c |-> cpu]).n,
             enabledIrqs' = enabledIrqs
      PROVE  ListExact(enabledIrqs', nvic')
  BY <1>2, <1>6, <1>b, PendAndActivateEnables
<1>7. ASSUME Svc PROVE ListExact(enabledIrqs', nvic')
  BY <1>6, <1>7 DEF Svc, Becomes
<1>8. ASSUME NEW e \in Ext \cup {SYSTICK}, NvicSetPending(e) PROVE ListExact(enabledIrqs', nvic')
  BY <1>6, <1>8 DEF NvicSetPending, Becomes
<1>9. ASSUME NEW S \in SUBSET Ext, WriteIser(S) PROVE ListExact(enabledIrqs', nvic')
  BY <1>9, IserExact
<1>10. ASSUME NEW e \in Ext, WriteIcer(e) PROVE ListExact(enabledIrqs', nvic')
  BY <1>10, IcerExact
<1>11. ASSUME NEW e \in Ext, WriteIspr(e) \/ WriteIcpr(e) PROVE ListExact(enabledIrqs', nvic')
  <2>1. enabledIrqs' = enabledIrqs /\ nvic' \in {PendInterrupt(nvic, e), ClearPendInterrupt(nvic, e)}
    BY <1>11 DEF WriteIspr, WriteIcpr
  <2> QED
    BY <1>2, <1>b, <2>1, PendEnables
<1>12. ASSUME NEW e \in Ext, WriteStir(e) PROVE ListExact(enabledIrqs', nvic')
  BY <1>6, <1>12 DEF WriteStir, Becomes
<1>13. ASSUME NEW e \in PrioExc, NEW p \in Prios, WritePrios([x \in {e} |-> p])
       PROVE  ListExact(enabledIrqs', nvic')
  <2> DEFINE f == [x \in {e} |-> p]
  <2>1. enabledIrqs' = enabledIrqs /\ nvic' = SetPrios(nvic, f)
    BY <1>13 DEF WritePrios
  <2> HIDE DEF f
  <2>2. PICK P : SetPrios(nvic, f) \in {nvic, RecalcPrios([nvic EXCEPT !.priority = P])}
    BY DEF SetPrios
  <2> DEFINE m == [nvic EXCEPT !.priority = P]
  <2>3. Enables(m, nvic)
    BY <1>2 DEF Enables
  <2> HIDE DEF m
  <2>4. Enables(RecalcPrios(m), nvic) /\ Enables(nvic, nvic)
    BY <1>2, <2>3, RecalcEnables DEF Enables
  <2> QED
    BY <1>b, <2>1, <2>2, <2>4 DEF m
<1>14. ASSUME NEW g \in Prigroups, NEW reset \in BOOLEAN, WriteAircr(g, reset)
       PROVE  ListExact(enabledIrqs', nvic')
  <2> DEFINE m == [nvic EXCEPT !.prigroup = g]
  <2>1. enabledIrqs' = enabledIrqs /\ nvic' \in {nvic, RecalcPrios(m)}
    BY <1>14 DEF WriteAircr
  <2>2. Enables(m, nvic)
    BY <1>2 DEF Enables
  <2> HIDE DEF m
  <2>3. Enables(RecalcPrios(m), nvic) /\ Enables(nvic, nvic)
    BY <1>2, <2>2, RecalcEnables DEF Enables
  <2> QED
    BY <1>b, <2>1, <2>3
<1>15. ASSUME NEW B, WriteIcsr(B) PROVE ListExact(enabledIrqs', nvic')
  <2>1. enabledIrqs' = enabledIrqs
    BY <1>15 DEF WriteIcsr, Becomes
  <2> QED
    BY <1>2, <1>15, <1>b, <2>1, IcsrEnables
<1>16. ASSUME UNCHANGED vars PROVE ListExact(enabledIrqs', nvic')
  BY <1>2, <1>16, <1>b DEF vars, Enables
<1> QED
  BY <1>3, <1>4, <1>5, <1>7, <1>8, <1>9, <1>10, <1>11, <1>12, <1>13, <1>14, <1>15, <1>16 DEF Next

LEMMA InitExact == Init => FuzzInv
<1> SUFFICES ASSUME Init PROVE ListExact(enabledIrqs, nvic)
  BY InitGood DEF FuzzInv
<1>1. enabledIrqs = <<>> /\ nvic.enabled = {SVC, PENDSV, SYSTICK}
  BY DEF Init
<1>2. nvic.enabled \cap Ext = {}
  BY <1>1, ExtAssumption DEF SVC, PENDSV, SYSTICK
<1> QED
  BY <1>1, <1>2 DEF ListExact, Sorted, ToSet

\* The list the fuzzer chooses from holds the enabled external interrupts in ascending
\* order, each once (enable_irq, remove_fuzzable_interrupt_no): in whatever order they come,
\* writes to ISER and ICER leave none out, add none twice and keep the order by which a
\* choice of the fuzzer is reproduced.  Of snapshots of the controller it says nothing.
THEOREM ListStaysExact == Spec => []FuzzListExact
<1>1. FuzzInv => FuzzListExact
  BY DEF FuzzInv, ListExact, FuzzListExact, Sorted
<1> QED
  BY <1>1, InitExact, StepExact, PTL DEF Spec
=============================================================================
