---------------------------- MODULE TimersProofs ----------------------------
(***************************************************************************)
(* The list of active timers stays sorted, its one countdown passes over   *)
(* no expiry, and charging elapsed blocks in batches cannot be observed:   *)
(* Timers implements AbstractTimers, for every number of timers, every     *)
(* width and every choice of reload values.                                *)
(*                                                                         *)
(* The operations of timer.c are functions on the state, so the lemmas     *)
(* are about functions: first on sequences, then on the list of timers,    *)
(* then on the state (Start, Stop, Reload ...), and one for each action.   *)
(*                                                                         *)
(* Two hypotheses stand for what the code does wrong (README, section 4):  *)
(* no callback feeds the watchdog, and only the last slot is given back.   *)
(***************************************************************************)
EXTENDS Timers, FiniteSetTheorems, WellFoundedInduction, TLAPS

(* Sequences. *)

LEMMA ConcatIs ==
  ASSUME NEW A, NEW s \in Seq(A), NEW t \in Seq(A)
  PROVE  /\ s \o t \in Seq(A) /\ Len(s \o t) = Len(s) + Len(t)
         /\ \A j \in 1..(Len(s) + Len(t)) :
              (s \o t)[j] = IF j <= Len(s) THEN s[j] ELSE t[j - Len(s)]
  OBVIOUS

\* r is s with e put behind its first k elements.
Inserted(s, k, e, r) ==
  /\ Len(r) = Len(s) + 1
  /\ \A j \in 1..k : r[j] = s[j]
  /\ r[k + 1] = e
  /\ \A j \in (k + 2)..(Len(s) + 1) : r[j] = s[j - 1]

\* r is s without its i-th element.
Removed(s, i, r) ==
  /\ Len(r) = Len(s) - 1
  /\ \A j \in 1..(i - 1) : r[j] = s[j]
  /\ \A j \in i..(Len(s) - 1) : r[j] = s[j + 1]

LEMMA InsertIs ==
  ASSUME NEW A, NEW s \in Seq(A), NEW k \in 0..Len(s), NEW e \in A
  PROVE  InsertAt(s, k + 1, e) \in Seq(A) /\ Inserted(s, k, e, InsertAt(s, k + 1, e))
<1> DEFINE front == SubSeq(s, 1, k)
           back == SubSeq(s, k + 1, Len(s))
           left == front \o <<e>>
<1>1. /\ front \in Seq(A) /\ Len(front) = k
      /\ \A j \in 1..k : front[j] = s[j]
  OBVIOUS
<1>2. /\ back \in Seq(A) /\ Len(back) = Len(s) - k
      /\ \A j \in 1..(Len(s) - k) : back[j] = s[k + j]
  OBVIOUS
<1>5. InsertAt(s, k + 1, e) = left \o back
  <2>1. (k + 1) - 1 = k
    OBVIOUS
  <2> QED
    BY <2>1 DEF InsertAt
<1> HIDE DEF front, back
<1>3. /\ left \in Seq(A) /\ Len(left) = k + 1
      /\ \A j \in 1..(k + 1) : left[j] = IF j <= k THEN s[j] ELSE e
  BY <1>1
<1> HIDE DEF left
<1>4. /\ left \o back \in Seq(A) /\ Len(left \o back) = Len(s) + 1
      /\ \A j \in 1..(Len(s) + 1) :
           (left \o back)[j] = IF j <= k + 1 THEN left[j] ELSE back[j - (k + 1)]
  <2>1. Len(left) + Len(back) = Len(s) + 1
    BY <1>2, <1>3
  <2> QED
    BY <2>1, <1>2, <1>3, ConcatIs
<1>6. \A j \in 1..(Len(s) + 1) :
         (left \o back)[j] = IF j <= k THEN s[j] ELSE IF j = k + 1 THEN e ELSE s[j - 1]
  <2> SUFFICES ASSUME NEW j \in 1..(Len(s) + 1)
               PROVE  (left \o back)[j] = IF j <= k THEN s[j] ELSE IF j = k + 1 THEN e ELSE s[j - 1]
    OBVIOUS
  <2>1. CASE j <= k + 1
    <3>1. (left \o back)[j] = left[j]
      BY <2>1, <1>4
    <3>2. j \in 1..(k + 1)
      BY <2>1
    <3> QED
      BY <3>1, <3>2, <1>3
  <2>2. CASE ~(j <= k + 1)
    <3>1. j - (k + 1) \in 1..(Len(s) - k) /\ k + (j - (k + 1)) = j - 1
      BY <2>2
    <3>2. (left \o back)[j] = back[j - (k + 1)]
      BY <2>2, <1>4
    <3> QED
      BY <3>1, <3>2, <2>2, <1>2
  <2> QED
    BY <2>1, <2>2
<1> DEFINE r == left \o back
<1> HIDE DEF r
<1>7. InsertAt(s, k + 1, e) = r
  BY <1>5 DEF r
<1>8. /\ r \in Seq(A) /\ Len(r) = Len(s) + 1
      /\ \A j \in 1..(Len(s) + 1) : r[j] = IF j <= k THEN s[j] ELSE IF j = k + 1 THEN e ELSE s[j - 1]
  BY <1>4, <1>6 DEF r
<1>9. Inserted(s, k, e, r)
  BY <1>8 DEF Inserted
<1> QED
  BY <1>7, <1>8, <1>9

LEMMA RemoveIs ==
  ASSUME NEW A, NEW s \in Seq(A), NEW i \in 1..Len(s)
  PROVE  RemoveAt(s, i) \in Seq(A) /\ Removed(s, i, RemoveAt(s, i))
<1> DEFINE front == SubSeq(s, 1, i - 1)
           back == SubSeq(s, i + 1, Len(s))
<1>1. /\ front \in Seq(A) /\ Len(front) = i - 1
      /\ \A j \in 1..(i - 1) : front[j] = s[j]
  OBVIOUS
<1>2. /\ back \in Seq(A) /\ Len(back) = Len(s) - i
      /\ \A j \in 1..(Len(s) - i) : back[j] = s[i + j]
  OBVIOUS
<1>4. RemoveAt(s, i) = front \o back
  BY DEF RemoveAt
<1> HIDE DEF front, back
<1> DEFINE r == front \o back
<1>3. /\ r \in Seq(A) /\ Len(r) = Len(front) + Len(back)
      /\ \A j \in 1..(Len(front) + Len(back)) :
           r[j] = IF j <= Len(front) THEN front[j] ELSE back[j - Len(front)]
  BY <1>1, <1>2, ConcatIs
<1> HIDE DEF r
<1>5. \A j \in 1..(Len(s) - 1) : r[j] = IF j < i THEN s[j] ELSE s[j + 1]
  <2> SUFFICES ASSUME NEW j \in 1..(Len(s) - 1)
               PROVE  r[j] = IF j < i THEN s[j] ELSE s[j + 1]
    OBVIOUS
  <2>1. CASE j < i
    <3>1. j \in 1..(Len(front) + Len(back)) /\ j <= Len(front) /\ j \in 1..(i - 1)
      BY <2>1, <1>1, <1>2
    <3>2. r[j] = front[j]
      BY <3>1, <1>3
    <3> QED
      BY <3>1, <3>2, <2>1, <1>1
  <2>2. CASE ~(j < i)
    <3>1. j - (i - 1) \in 1..(Len(s) - i) /\ i + (j - (i - 1)) = j + 1
      BY <2>2
    <3>2. r[j] = back[j - (i - 1)]
      <4>1. j \in 1..(Len(front) + Len(back)) /\ ~(j <= Len(front))
        BY <2>2, <1>1, <1>2
      <4>2. r[j] = back[j - Len(front)]
        BY <4>1, <1>3
      <4> QED
        BY <4>2, <1>1
    <3> QED
      BY <3>1, <3>2, <2>2, <1>2
  <2> QED
    BY <2>1, <2>2
<1>6. Len(r) = Len(s) - 1
  BY <1>1, <1>2, <1>3
<1>7. RemoveAt(s, i) = r
  BY <1>4 DEF r
<1>8. Removed(s, i, r)
  BY <1>5, <1>6 DEF Removed
<1> QED
  BY <1>3, <1>6, <1>7, <1>8

\* The timers of l in the order of f.
OrderedBy(f, l) == \A i, j \in DOMAIN l : i < j => f[l[i]] <= f[l[j]]

LEMMA InsertInOrder ==
  ASSUME NEW l \in Seq(Slot), IsInjective(l), NEW t \in Slot \ ToSet(l), NEW k \in 0..Len(l),
         NEW f \in [Slot -> Nat], OrderedBy(f, l),
         \A j \in 1..k : f[l[j]] <= f[t], \A j \in (k + 1)..Len(l) : f[t] <= f[l[j]]
  PROVE  LET r == InsertAt(l, k + 1, t) IN
         /\ r \in Seq(Slot) /\ IsInjective(r) /\ OrderedBy(f, r)
         /\ ToSet(r) = ToSet(l) \cup {t} /\ Len(r) = Len(l) + 1
         /\ r[1] = IF k = 0 THEN t ELSE l[1]
<1> DEFINE r == InsertAt(l, k + 1, t)
<1>1. /\ r \in Seq(Slot) /\ Len(r) = Len(l) + 1
      /\ \A j \in 1..k : r[j] = l[j]
      /\ r[k + 1] = t
      /\ \A j \in (k + 2)..(Len(l) + 1) : r[j] = l[j - 1]
  <2>1. t \in Slot
    OBVIOUS
  <2>2. r \in Seq(Slot) /\ Inserted(l, k, t, r)
    BY <2>1, InsertIs
  <2> QED
    BY <2>2 DEF Inserted
<1> HIDE DEF r
<1>2. \A j \in 1..Len(l) : l[j] \in Slot /\ l[j] # t
  BY DEF ToSet
<1>3. \A a, b \in 1..Len(r) : a < b => r[a] # r[b] /\ f[r[a]] <= f[r[b]]
  <2> SUFFICES ASSUME NEW a \in 1..(Len(l) + 1), NEW b \in 1..(Len(l) + 1), a < b
               PROVE  r[a] # r[b] /\ f[r[a]] <= f[r[b]]
    BY <1>1
  <2>1. \A i, j \in 1..Len(l) : i < j => l[i] # l[j] /\ f[l[i]] <= f[l[j]]
    <3>1. DOMAIN l = 1..Len(l) /\ Len(l) \in Nat
      OBVIOUS
    <3>2. \A i, j \in 1..Len(l) : i < j => f[l[i]] <= f[l[j]]
      BY <3>1 DEF OrderedBy
    <3>3. \A i, j \in 1..Len(l) : l[i] = l[j] => i = j
      BY <3>1 DEF IsInjective
    <3>4. \A i, j \in 1..Len(l) : i < j => i # j
      OBVIOUS
    <3> QED
      BY <3>2, <3>3, <3>4
  <2>2. CASE b <= k
    <3>1. r[a] = l[a] /\ r[b] = l[b] /\ a \in 1..Len(l) /\ b \in 1..Len(l)
      BY <2>2, <1>1
    <3> QED
      BY <3>1, <2>1
  <2>3. CASE b = k + 1
    <3>1. r[a] = l[a] /\ r[b] = t /\ a \in 1..Len(l) /\ a \in 1..k
      BY <2>3, <1>1
    <3> QED
      BY <3>1, <1>2
  <2>4. CASE b > k + 1 /\ a <= k
    <3>1. r[a] = l[a] /\ r[b] = l[b - 1] /\ a \in 1..Len(l) /\ b - 1 \in 1..Len(l) /\ a < b - 1
      <4>1. /\ b \in (k + 2)..(Len(l) + 1) /\ a \in 1..k
            /\ a \in 1..Len(l) /\ b - 1 \in 1..Len(l) /\ a < b - 1
        BY <2>4
      <4>2. r[a] = l[a] /\ r[b] = l[b - 1]
        BY <4>1, <1>1
      <4> QED
        BY <4>1, <4>2
    <3> QED
      BY <3>1, <2>1
  <2>5. CASE b > k + 1 /\ a = k + 1
    <3>1. r[a] = t /\ r[b] = l[b - 1] /\ b - 1 \in 1..Len(l) /\ b - 1 \in (k + 1)..Len(l)
      BY <2>5, <1>1
    <3> QED
      BY <3>1, <1>2
  <2>6. CASE b > k + 1 /\ a > k + 1
    <3>1. /\ r[a] = l[a - 1] /\ r[b] = l[b - 1]
          /\ a - 1 \in 1..Len(l) /\ b - 1 \in 1..Len(l) /\ a - 1 < b - 1
      <4>1. b \in (k + 2)..(Len(l) + 1) /\ a \in (k + 2)..(Len(l) + 1)
        BY <2>6
      <4>2. r[a] = l[a - 1] /\ r[b] = l[b - 1]
        BY <4>1, <1>1
      <4> QED
        BY <4>1, <4>2
    <3> QED
      BY <3>1, <2>1
  <2> QED
    BY <2>2, <2>3, <2>4, <2>5, <2>6
<1>4. IsInjective(r) /\ OrderedBy(f, r)
  <2>1. DOMAIN r = 1..Len(r) /\ Len(r) \in Nat
    BY <1>1
  <2>2. \A a, b \in 1..Len(r) : r[a] = r[b] => a = b
    BY <1>3, <2>1
  <2> QED
    BY <1>3, <2>1, <2>2 DEF IsInjective, OrderedBy
<1>5. ToSet(r) = ToSet(l) \cup {t}
  <2>1. ASSUME NEW j \in 1..(Len(l) + 1) PROVE r[j] \in ToSet(l) \cup {t}
    <3>1. CASE j <= k
      <4>1. r[j] = l[j] /\ j \in 1..Len(l)
        BY <3>1, <1>1
      <4> QED
        BY <4>1 DEF ToSet
    <3>2. CASE j = k + 1
      BY <3>2, <1>1
    <3>3. CASE j > k + 1
      <4>1. r[j] = l[j - 1] /\ j - 1 \in 1..Len(l)
        BY <3>3, <1>1
      <4> QED
        BY <4>1 DEF ToSet
    <3> QED
      BY <3>1, <3>2, <3>3
  <2>2. t = r[k + 1] /\ k + 1 \in 1..(Len(l) + 1)
    BY <1>1
  <2>3. ASSUME NEW i \in 1..Len(l) PROVE \E j \in 1..(Len(l) + 1) : r[j] = l[i]
    <3>1. CASE i <= k
      <4>1. i \in 1..k /\ i \in 1..(Len(l) + 1)
        BY <3>1
      <4>2. r[i] = l[i]
        BY <4>1, <1>1
      <4> QED
        BY <4>1, <4>2
    <3>2. CASE ~(i <= k)
      <4> DEFINE j == i + 1
      <4>1. j \in (k + 2)..(Len(l) + 1) /\ j - 1 = i /\ j \in 1..(Len(l) + 1)
        BY <3>2
      <4> HIDE DEF j
      <4>2. r[j] = l[i]
        BY <4>1, <1>1
      <4> QED
        BY <4>1, <4>2
    <3> QED
      BY <3>1, <3>2
  <2>4. DOMAIN r = 1..(Len(l) + 1) /\ DOMAIN l = 1..Len(l)
    BY <1>1
  <2> QED
    BY <2>1, <2>2, <2>3, <2>4 DEF ToSet
<1>6. r[1] = IF k = 0 THEN t ELSE l[1]
  BY <1>1
<1> QED
  BY <1>1, <1>4, <1>5, <1>6 DEF r

LEMMA RemoveInOrder ==
  ASSUME NEW l \in Seq(Slot), IsInjective(l), NEW i \in 1..Len(l),
         NEW f \in [Slot -> Nat],
         \A a, b \in 1..Len(l) : a < b /\ a # i /\ b # i => f[l[a]] <= f[l[b]]
  PROVE  LET r == RemoveAt(l, i) IN
         /\ r \in Seq(Slot) /\ IsInjective(r) /\ OrderedBy(f, r)
         /\ ToSet(r) = ToSet(l) \ {l[i]} /\ Len(r) = Len(l) - 1
         /\ \A j \in 1..(i - 1) : r[j] = l[j]
         /\ \A j \in i..(Len(l) - 1) : r[j] = l[j + 1]
<1> DEFINE r == RemoveAt(l, i)
<1>1. /\ r \in Seq(Slot) /\ Len(r) = Len(l) - 1
      /\ \A j \in 1..(i - 1) : r[j] = l[j]
      /\ \A j \in i..(Len(l) - 1) : r[j] = l[j + 1]
  <2>1. r \in Seq(Slot) /\ Removed(l, i, r)
    BY RemoveIs
  <2> QED
    BY <2>1 DEF Removed
<1> HIDE DEF r
<1>2. \A a, b \in 1..Len(l) : l[a] = l[b] => a = b
  BY DEF IsInjective
<1>3. \A a, b \in 1..Len(r) : a < b => r[a] # r[b] /\ f[r[a]] <= f[r[b]]
  <2> SUFFICES ASSUME NEW a \in 1..(Len(l) - 1), NEW b \in 1..(Len(l) - 1), a < b
               PROVE  r[a] # r[b] /\ f[r[a]] <= f[r[b]]
    BY <1>1
  <2>1. CASE b < i
    <3>1. /\ r[a] = l[a] /\ r[b] = l[b] /\ a \in 1..Len(l) /\ b \in 1..Len(l)
          /\ a # b /\ a # i /\ b # i
      <4>1. a \in 1..(i - 1) /\ b \in 1..(i - 1)
        BY <2>1
      <4> QED
        BY <4>1, <1>1
    <3> QED
      BY <3>1, <1>2
  <2>2. CASE ~(b < i) /\ a < i
    <3>1. /\ r[a] = l[a] /\ r[b] = l[b + 1] /\ a \in 1..Len(l) /\ b + 1 \in 1..Len(l)
          /\ a # b + 1 /\ a < b + 1 /\ a # i /\ b + 1 # i
      <4>1. a \in 1..(i - 1) /\ b \in i..(Len(l) - 1)
        BY <2>2
      <4>2. r[a] = l[a] /\ r[b] = l[b + 1]
        BY <4>1, <1>1
      <4> QED
        BY <4>1, <4>2
    <3> QED
      BY <3>1, <1>2
  <2>3. CASE ~(b < i) /\ ~(a < i)
    <3>1. /\ r[a] = l[a + 1] /\ r[b] = l[b + 1] /\ a + 1 \in 1..Len(l) /\ b + 1 \in 1..Len(l)
          /\ a + 1 # b + 1 /\ a + 1 < b + 1 /\ a + 1 # i /\ b + 1 # i
      <4>1. a \in i..(Len(l) - 1) /\ b \in i..(Len(l) - 1)
        BY <2>3
      <4>2. r[a] = l[a + 1] /\ r[b] = l[b + 1]
        BY <4>1, <1>1
      <4> QED
        BY <4>1, <4>2
    <3> QED
      BY <3>1, <1>2
  <2> QED
    BY <2>1, <2>2, <2>3
<1>4. IsInjective(r) /\ OrderedBy(f, r)
  <2>1. DOMAIN r = 1..Len(r) /\ Len(r) \in Nat
    BY <1>1
  <2>2. \A a, b \in 1..Len(r) : r[a] = r[b] => a = b
    BY <1>3, <2>1
  <2> QED
    BY <1>3, <2>1, <2>2 DEF IsInjective, OrderedBy
<1>5. ToSet(r) = ToSet(l) \ {l[i]}
  <2>1. ASSUME NEW j \in 1..(Len(l) - 1) PROVE r[j] \in ToSet(l) /\ r[j] # l[i]
    <3>1. CASE j < i
      <4>1. r[j] = l[j] /\ j \in 1..Len(l) /\ j # i
        BY <3>1, <1>1
      <4> QED
        BY <4>1, <1>2 DEF ToSet
    <3>2. CASE ~(j < i)
      <4>1. r[j] = l[j + 1] /\ j + 1 \in 1..Len(l) /\ j + 1 # i
        BY <3>2, <1>1
      <4> QED
        BY <4>1, <1>2 DEF ToSet
    <3> QED
      BY <3>1, <3>2
  <2>2. ASSUME NEW j \in 1..Len(l), j # i PROVE \E b \in 1..(Len(l) - 1) : r[b] = l[j]
    <3>1. CASE j < i
      BY <3>1, <1>1
    <3>2. CASE i < j
      <4> DEFINE b == j - 1
      <4>1. b \in i..(Len(l) - 1) /\ b + 1 = j /\ b \in 1..(Len(l) - 1)
        BY <3>2
      <4> HIDE DEF b
      <4>2. r[b] = l[j]
        BY <4>1, <1>1
      <4> QED
        BY <4>1, <4>2
    <3> QED
      BY <3>1, <3>2, <2>2
  <2>3. DOMAIN r = 1..(Len(l) - 1) /\ DOMAIN l = 1..Len(l)
    BY <1>1
  <2>4. ToSet(r) \subseteq ToSet(l) \ {l[i]}
    BY <2>1, <2>3 DEF ToSet
  <2>5. ToSet(l) \ {l[i]} \subseteq ToSet(r)
    <3> SUFFICES ASSUME NEW j \in 1..Len(l), l[j] # l[i] PROVE l[j] \in ToSet(r)
      BY <2>3 DEF ToSet
    <3>1. j # i
      OBVIOUS
    <3>2. PICK b \in 1..(Len(l) - 1) : r[b] = l[j]
      BY <2>2, <3>1
    <3> QED
      BY <3>2, <2>3 DEF ToSet
  <2> QED
    BY <2>4, <2>5
<1> QED
  BY <1>1, <1>4, <1>5 DEF r

LEMMA MinIs ==
  ASSUME NEW S, S \subseteq Nat, S # {}
  PROVE  Min(S) \in S /\ \A k \in S : Min(S) <= k
<1>1. \E m \in S : \A k \in S : m <= k
  <2> DEFINE R == OpToRel(<, Nat)
  <2>1. IsWellFoundedOn(R, Nat)
    BY NatLessThanWellFounded
  <2> HIDE DEF R
  <2>2. \E x \in S : \A y \in S : ~ (<<y, x>> \in R)
    BY <2>1, WFMin
  <2>3. \A x, y \in Nat : <<y, x>> \in R <=> y < x
    BY DEF R, OpToRel
  <2>4. PICK m \in S : \A k \in S : ~ (<<k, m>> \in R)
    BY <2>2
  <2>5. ASSUME NEW k \in S PROVE m <= k
    <3>1. m \in Nat /\ k \in Nat
      OBVIOUS
    <3>2. ~(k < m)
      BY <2>3, <2>4, <3>1
    <3> QED
      BY <3>1, <3>2
  <2> QED
    BY <2>5
<1> QED
  BY <1>1 DEF Min

(* The state of timer.c. *)

TimerType == [ticker_val : 0..(W - 1), reload_val : 0..MAX_RELOAD_VAL,
              in_use : BOOLEAN, is_active : BOOLEAN]

StateType ==
  [active : Seq(Slot), cur_interval : 0..MAX_RELOAD_VAL, cur_countdown : 0..MAX_RELOAD_VAL,
   global_ticker : 0..(W - 1), timers : [Slot -> TimerType],
   end_ind : 0..MAX_TIMERS, num_inuse : 0..MAX_TIMERS]

Tickers(S) == [t \in Slot |-> S.timers[t].ticker_val]

LEMMA BeforeIs ==
  ASSUME NEW S, NEW l \in Seq(Slot), NEW v \in Nat, Tickers(S) \in [Slot -> Nat],
         OrderedBy(Tickers(S), l)
  PROVE  /\ Before(S, l, v) \in 0..Len(l)
         /\ \A j \in 1..Len(l) : IF j <= Before(S, l, v) THEN Tickers(S)[l[j]] < v
                                                         ELSE v <= Tickers(S)[l[j]]
<1> DEFINE f == Tickers(S)
           I == {i \in 1..Len(l) : S.timers[l[i]].ticker_val >= v}
<1>1. Before(S, l, v) = IF I = {} THEN Len(l) ELSE Min(I) - 1
  <2>1. I # {} => Min(I) \in I
    <3>1. I \subseteq Nat
      OBVIOUS
    <3> QED
      BY <3>1, MinIs
  <2> HIDE DEF I
  <2>2. SelectInSeq(l, LAMBDA t : S.timers[t].ticker_val >= v) = IF I # {} THEN Min(I) ELSE 0
    BY DEF SelectInSeq, I
  <2>3. I # {} => Min(I) # 0
    BY <2>1 DEF I
  <2> QED
    BY <2>2, <2>3 DEF Before
<1>2. \A j \in 1..Len(l) : l[j] \in Slot /\ f[l[j]] \in Nat /\ f[l[j]] = S.timers[l[j]].ticker_val
  BY DEF Tickers
<1>3. \A i, j \in 1..Len(l) : i < j => f[l[i]] <= f[l[j]]
  BY DEF OrderedBy
<1>4. \A j \in 1..Len(l) : j \in I <=> v <= f[l[j]]
  BY <1>2
<1>5. I \subseteq 1..Len(l)
  OBVIOUS
<1> HIDE DEF f, I
<1>6. CASE I = {}
  BY <1>1, <1>2, <1>4, <1>6 DEF f
<1>7. CASE I # {}
  <2>1. Min(I) \in I /\ \A k \in I : Min(I) <= k
    <3>1. I \subseteq Nat
      BY <1>5
    <3> QED
      BY <3>1, <1>7, MinIs
  <2> DEFINE m == Min(I)
  <2> HIDE DEF m
  <2>2. m \in 1..Len(l) /\ v <= f[l[m]] /\ \A k \in 1..Len(l) : v <= f[l[k]] => m <= k
    BY <2>1, <1>4, <1>5 DEF m
  <2>3. ASSUME NEW j \in 1..Len(l)
        PROVE  IF j <= m - 1 THEN f[l[j]] < v ELSE v <= f[l[j]]
    <3>1. CASE j < m
      BY <3>1, <2>2, <1>2
    <3>2. CASE j = m
      BY <3>2, <2>2
    <3>3. CASE m < j
      BY <3>3, <2>2, <1>2, <1>3
    <3> QED
      BY <3>1, <3>2, <3>3, <2>2
  <2>4. Before(S, l, v) = m - 1
    BY <1>1, <1>7 DEF m
  <2> QED
    BY <2>2, <2>3, <2>4 DEF f
<1> QED
  BY <1>6, <1>7

-----------------------------------------------------------------------------
LEMMA Widths ==
  /\ W \in Nat \ {0} /\ MAX_TIMERS \in Nat \ {0} /\ MAX_RELOAD_VAL \in Nat \ {0}
  /\ FuzzTimeout \in 1..MAX_RELOAD_VAL /\ 2 * MAX_RELOAD_VAL < W
  /\ Watchdog \in Slot /\ None \notin Slot
  BY TimersAssumption DEF Slot, Watchdog, None

LEMMA PlusIs ==
  ASSUME NEW a \in 0..(W - 1), NEW b \in 0..(W - 1)
  PROVE  /\ Plus(a, b) \in 0..(W - 1)
         /\ a + b < W => Plus(a, b) = a + b
         /\ a + b >= W => Plus(a, b) = a + b - W
         /\ Plus(a, 0) = a
  BY Widths DEF Plus

LEMMA PlusOne ==
  ASSUME NEW a \in 0..(W - 1), NEW b \in 0..(W - 1), b + 1 \in 0..(W - 1)
  PROVE  (Plus(a, b) + 1) % W = Plus(a, b + 1)
<1>1. 1 \in 0..(W - 1)
  BY Widths
<1>2. (Plus(a, b) + 1) % W = Plus(Plus(a, b), 1)
  BY DEF Plus
<1>3. /\ Plus(a, b) \in 0..(W - 1)
      /\ a + b < W => Plus(a, b) = a + b
      /\ a + b >= W => Plus(a, b) = a + b - W
  BY PlusIs
<1>4. /\ a + (b + 1) < W => Plus(a, b + 1) = a + (b + 1)
      /\ a + (b + 1) >= W => Plus(a, b + 1) = a + (b + 1) - W
  BY PlusIs
<1>5. /\ Plus(a, b) + 1 < W => Plus(Plus(a, b), 1) = Plus(a, b) + 1
      /\ Plus(a, b) + 1 >= W => Plus(Plus(a, b), 1) = Plus(a, b) + 1 - W
  BY <1>1, <1>3, PlusIs
<1> QED
  BY <1>2, <1>3, <1>4, <1>5, Widths

LEMMA MinusIs ==
  ASSUME NEW a \in 0..(W - 1), NEW b \in 0..(W - 1), b <= a
  PROVE  Minus(a, b) = a - b
<1>1. W \in Nat \ {0}
  BY Widths
<1>2. (a + W - b) = (a - b) + W /\ a - b \in 0..(W - 1)
  BY <1>1
<1> QED
  BY <1>1, <1>2 DEF Minus

\* Blocks elapsed and not charged yet.  At 0 the countdown has been charged whole.
Lag(S) == IF S.cur_countdown = 0 THEN 0 ELSE S.cur_interval - S.cur_countdown

Linked(S) == ToSet(S.active)

\* The list is sorted without duplicates, and a linked timer has no less than what is not
\* charged to it yet, nor more than that above its reload value.
Good(S) ==
  /\ S \in StateType
  /\ S.cur_countdown <= S.cur_interval
  /\ IsInjective(S.active) /\ OrderedBy(Tickers(S), S.active)
  /\ \A t \in Linked(S) : /\ Lag(S) <= S.timers[t].ticker_val
                          /\ S.timers[t].ticker_val - Lag(S) <= S.timers[t].reload_val

\* The countdown runs and ends no later than the first timer.
Counts(S) ==
  /\ 1 <= S.cur_countdown
  /\ \A t \in Linked(S) : S.cur_interval <= S.timers[t].ticker_val

\* The timers once all of it is charged.
Synced(S) == [t \in Slot |-> IF t \in Linked(S) THEN Elapse(S.timers[t], Lag(S)) ELSE S.timers[t]]

LEMMA GoodTypes ==
  ASSUME NEW S, Good(S)
  PROVE  /\ Lag(S) \in 0..MAX_RELOAD_VAL /\ Lag(S) \in 0..(W - 1)
         /\ S.active \in Seq(Slot) /\ Linked(S) \subseteq Slot
         /\ S.cur_interval \in 0..MAX_RELOAD_VAL /\ S.cur_countdown \in 0..MAX_RELOAD_VAL
         /\ S.global_ticker \in 0..(W - 1) /\ S.timers \in [Slot -> TimerType]
         /\ \A t \in Slot : S.timers[t].ticker_val \in 0..(W - 1) /\ S.timers[t].reload_val \in 0..MAX_RELOAD_VAL
         /\ Tickers(S) \in [Slot -> Nat]
<1>1. S \in StateType /\ S.cur_countdown <= S.cur_interval
  BY DEF Good
<1>2. /\ S.active \in Seq(Slot) /\ S.timers \in [Slot -> TimerType]
      /\ S.cur_interval \in 0..MAX_RELOAD_VAL /\ S.cur_countdown \in 0..MAX_RELOAD_VAL
      /\ S.global_ticker \in 0..(W - 1)
  BY <1>1 DEF StateType
<1>3. Linked(S) \subseteq Slot
  BY <1>2 DEF Linked, ToSet
<1>4. \A t \in Slot : S.timers[t].ticker_val \in 0..(W - 1) /\ S.timers[t].reload_val \in 0..MAX_RELOAD_VAL
  BY <1>2 DEF TimerType
<1>5. Tickers(S) \in [Slot -> Nat]
  BY <1>4, Widths DEF Tickers
<1>6. Lag(S) \in 0..MAX_RELOAD_VAL
  BY <1>1, <1>2, Widths DEF Lag
<1>7. Lag(S) \in 0..(W - 1)
  BY <1>6, Widths
<1> QED
  BY <1>2, <1>3, <1>4, <1>5, <1>6, <1>7

\* Subtracting the same from all linked timers keeps their order.
LEMMA OrderKept ==
  ASSUME NEW l \in Seq(Slot), NEW f \in [Slot -> Nat], NEW g \in [Slot -> Nat], NEW n \in Nat,
         \A t \in ToSet(l) : g[t] = f[t] - n, OrderedBy(f, l)
  PROVE  OrderedBy(g, l)
<1> SUFFICES ASSUME NEW i \in DOMAIN l, NEW j \in DOMAIN l, i < j
             PROVE  g[l[i]] <= g[l[j]]
  BY DEF OrderedBy
<1>1. l[i] \in ToSet(l) /\ l[j] \in ToSet(l) /\ l[i] \in Slot /\ l[j] \in Slot
  BY DEF ToSet
<1>2. f[l[i]] <= f[l[j]]
  BY DEF OrderedBy
<1> QED
  BY <1>1, <1>2

LEMMA SyncIs ==
  ASSUME NEW S, Good(S)
  PROVE  LET T == sync_timers(S) IN
         /\ Good(T) /\ Lag(T) = 0 /\ (Counts(S) => Counts(T))
         /\ T.active = S.active /\ T.timers = Synced(S)
         /\ T.cur_countdown = S.cur_countdown
         /\ T.global_ticker = Plus(S.global_ticker, Lag(S))
         /\ T.end_ind = S.end_ind /\ T.num_inuse = S.num_inuse
<1> DEFINE T == sync_timers(S)
<1>1. /\ Lag(S) \in 0..MAX_RELOAD_VAL /\ Lag(S) \in 0..(W - 1)
      /\ S.active \in Seq(Slot) /\ Linked(S) \subseteq Slot
      /\ S.cur_interval \in 0..MAX_RELOAD_VAL /\ S.cur_countdown \in 0..MAX_RELOAD_VAL
      /\ S.global_ticker \in 0..(W - 1) /\ S.timers \in [Slot -> TimerType]
      /\ Tickers(S) \in [Slot -> Nat]
  BY GoodTypes
<1>2. \A t \in Slot : S.timers[t].ticker_val \in 0..(W - 1) /\ S.timers[t].reload_val \in 0..MAX_RELOAD_VAL
  BY GoodTypes
<1>3. S \in StateType /\ S.cur_countdown <= S.cur_interval
  BY DEF Good
<1>4. \A t \in Linked(S) : /\ t \in Slot /\ Lag(S) <= S.timers[t].ticker_val
                          /\ S.timers[t].ticker_val - Lag(S) <= S.timers[t].reload_val
  BY <1>1 DEF Good
<1>5. \A t \in Linked(S) : Minus(S.timers[t].ticker_val, Lag(S)) = S.timers[t].ticker_val - Lag(S)
  BY <1>1, <1>2, <1>4, MinusIs
<1>6. /\ T \in StateType /\ T.active = S.active /\ T.timers = Synced(S)
      /\ T.cur_countdown = S.cur_countdown
      /\ T.cur_interval = IF S.cur_countdown = 0 THEN S.cur_interval ELSE S.cur_countdown
      /\ T.global_ticker = Plus(S.global_ticker, Lag(S))
      /\ T.end_ind = S.end_ind /\ T.num_inuse = S.num_inuse
  <2>1. \A t \in Linked(S) : Elapse(S.timers[t], Lag(S)) \in TimerType
    <3> SUFFICES ASSUME NEW t \in Linked(S) PROVE Elapse(S.timers[t], Lag(S)) \in TimerType
      OBVIOUS
    <3>1. S.timers[t] \in TimerType
      BY <1>1, <1>4
    <3>2. Minus(S.timers[t].ticker_val, Lag(S)) \in 0..(W - 1)
      <4>1. /\ S.timers[t].ticker_val \in 0..(W - 1) /\ Lag(S) \in 0..(W - 1)
            /\ Lag(S) <= S.timers[t].ticker_val
        BY <1>1, <1>2, <1>4
      <4> QED
        BY <4>1, <1>5, Widths
    <3> QED
      BY <3>1, <3>2 DEF TimerType, Elapse
  <2>2. Synced(S) \in [Slot -> TimerType]
    BY <2>1, <1>1 DEF Synced
  <2>3. Plus(S.global_ticker, Lag(S)) \in 0..(W - 1)
    BY <1>1, PlusIs
  <2>4. CASE S.cur_countdown = 0
    <3>1. T = S /\ Lag(S) = 0
      BY <2>4 DEF sync_timers, Lag
    <3>2. \A t \in Linked(S) : Elapse(S.timers[t], 0) = S.timers[t]
      <4> SUFFICES ASSUME NEW t \in Linked(S) PROVE Elapse(S.timers[t], 0) = S.timers[t]
        OBVIOUS
      <4>1. S.timers[t] \in TimerType /\ S.timers[t].ticker_val \in 0..(W - 1)
        BY <1>1, <1>2
      <4>2. Minus(S.timers[t].ticker_val, 0) = S.timers[t].ticker_val
        BY <3>1, <4>1, <1>5
      <4> QED
        BY <4>1, <4>2 DEF TimerType, Elapse
    <3>3. Synced(S) = S.timers
      BY <3>1, <3>2, <1>1 DEF Synced
    <3>4. Plus(S.global_ticker, 0) = S.global_ticker
      <4>1. 0 \in 0..(W - 1)
        BY Widths
      <4> QED
        BY <4>1, <1>1, PlusIs
    <3> QED
      BY <2>4, <3>1, <3>3, <3>4, <1>3
  <2>5. CASE S.cur_countdown # 0
    <3> DEFINE A == [t \in Slot |-> IF t \in ToSet(S.active)
                          THEN Elapse(S.timers[t], Lag(S)) ELSE S.timers[t]]
    <3>1. Elapsed(S) = Lag(S)
      <4>1. S.cur_interval \in 0..(W - 1) /\ S.cur_countdown \in 0..(W - 1)
        BY <1>1, Widths
      <4>2. Minus(S.cur_interval, S.cur_countdown) = S.cur_interval - S.cur_countdown
        BY <4>1, <1>3, MinusIs
      <4> QED
        BY <2>5, <4>2 DEF Elapsed, Lag
    <3>2. A = Synced(S)
      BY <1>5 DEF Synced, Linked, Elapse
    <3> HIDE DEF A
    <3> DEFINE C == Charge(S, Lag(S))
    <3>3. /\ C = [active |-> S.active, cur_interval |-> S.cur_interval,
                  cur_countdown |-> S.cur_countdown,
                  global_ticker |-> Plus(S.global_ticker, Lag(S)), timers |-> A,
                  end_ind |-> S.end_ind, num_inuse |-> S.num_inuse]
      <4>1. C = [S EXCEPT !.global_ticker = Plus(S.global_ticker, Lag(S)), !.timers = A]
        BY Zenon DEF Charge, A
      <4> HIDE DEF C
      <4> QED
        BY <4>1, <1>3 DEF StateType
    <3> HIDE DEF C
    <3>4. T = [C EXCEPT !.cur_interval = S.cur_countdown]
      BY <2>5, <3>1 DEF sync_timers, C
    <3> QED
      BY <2>2, <2>3, <2>5, <3>2, <3>3, <3>4, <1>1, <1>3 DEF StateType
  <2> QED
    BY <2>4, <2>5
<1> HIDE DEF T
<1>7. Lag(T) = 0 /\ T.cur_countdown <= T.cur_interval
  BY <1>1, <1>3, <1>6 DEF Lag
<1>8. Linked(T) = Linked(S)
  BY <1>6 DEF Linked
<1>9. \A t \in Linked(S) : /\ T.timers[t].ticker_val = S.timers[t].ticker_val - Lag(S)
                          /\ T.timers[t].reload_val = S.timers[t].reload_val
  <2> SUFFICES ASSUME NEW t \in Linked(S)
               PROVE  /\ T.timers[t].ticker_val = S.timers[t].ticker_val - Lag(S)
                      /\ T.timers[t].reload_val = S.timers[t].reload_val
    OBVIOUS
  <2>1. T.timers[t] = Elapse(S.timers[t], Lag(S)) /\ S.timers[t] \in TimerType
    BY <1>1, <1>4, <1>6 DEF Synced
  <2> QED
    BY <2>1, <1>5 DEF Elapse, TimerType
<1>10. OrderedBy(Tickers(T), T.active)
  <2>1. Tickers(T) \in [Slot -> Nat]
    BY <1>6, Widths DEF StateType, TimerType, Tickers
  <2>2. \A t \in ToSet(S.active) : Tickers(T)[t] = Tickers(S)[t] - Lag(S)
    BY <1>4, <1>9 DEF Tickers, Linked
  <2>3. OrderedBy(Tickers(S), S.active) /\ Lag(S) \in Nat
    BY <1>1, Widths DEF Good
  <2> QED
    BY <2>1, <2>2, <2>3, <1>1, <1>6, OrderKept
<1>11. Good(T)
  <2>1. IsInjective(T.active)
    BY <1>6 DEF Good
  <2>2. \A t \in Linked(T) : /\ Lag(T) <= T.timers[t].ticker_val
                            /\ T.timers[t].ticker_val - Lag(T) <= T.timers[t].reload_val
    BY <1>1, <1>2, <1>4, <1>7, <1>8, <1>9
  <2> QED
    BY <1>6, <1>7, <1>10, <2>1, <2>2 DEF Good
<1>12. Counts(S) => Counts(T)
  <2> SUFFICES ASSUME Counts(S) PROVE Counts(T)
    OBVIOUS
  <2>1. S.cur_countdown # 0 /\ Lag(S) = S.cur_interval - S.cur_countdown
    BY <1>1 DEF Counts, Lag
  <2>2. \A t \in Linked(T) : T.cur_interval <= T.timers[t].ticker_val
    <3> SUFFICES ASSUME NEW t \in Linked(S) PROVE T.cur_interval <= T.timers[t].ticker_val
      BY <1>8
    <3>1. S.cur_interval <= S.timers[t].ticker_val
      BY DEF Counts
    <3> QED
      BY <2>1, <3>1, <1>1, <1>2, <1>4, <1>6, <1>9
  <2> QED
    BY <2>2, <1>6 DEF Counts
<1> QED
  BY <1>6, <1>7, <1>11, <1>12 DEF T

\* What insertion, removal and a reload leave of a state S that is Good: everything but
\* the list, the countdown and the charged tickers.
Charged(S, R) ==
  /\ Good(R) /\ Lag(R) = 0
  /\ R.timers = Synced(S) /\ R.global_ticker = Plus(S.global_ticker, Lag(S))
  /\ R.end_ind = S.end_ind /\ R.num_inuse = S.num_inuse

LEMMA HeadIs ==
  ASSUME NEW l \in Seq(Slot), NEW t \in ToSet(l)
  PROVE  Len(l) \in Nat \ {0} /\ Head(l) = l[1] /\ l[1] \in ToSet(l) /\ l # << >>
<1>1. PICK i \in DOMAIN l : t = l[i]
  BY DEF ToSet
<1>2. DOMAIN l = 1..Len(l) /\ Len(l) \in Nat
  OBVIOUS
<1>3. 1 \in 1..Len(l)
  BY <1>1, <1>2
<1> QED
  BY <1>2, <1>3 DEF ToSet

\* The front of a sorted list is due first.
LEMMA FrontFirst ==
  ASSUME NEW l \in Seq(Slot), NEW f \in [Slot -> Nat], OrderedBy(f, l), NEW t \in ToSet(l)
  PROVE  f[l[1]] <= f[t]
<1>1. PICK i \in 1..Len(l) : t = l[i]
  BY DEF ToSet
<1>2. l[1] \in Slot /\ 1 \in DOMAIN l /\ i \in DOMAIN l
  BY <1>1
<1>3. CASE i = 1
  BY <1>1, <1>2, <1>3
<1>4. CASE 1 < i
  BY <1>1, <1>2, <1>4 DEF OrderedBy
<1> QED
  BY <1>1, <1>3, <1>4

\* Restarting the countdown for the front of the list.
LEMMA CountDownIs ==
  ASSUME NEW S, Good(S), Lag(S) = 0, NEW t \in Linked(S), t = S.active[1]
  PROVE  LET v == S.timers[t].ticker_val
             R == CountDownTo(S, v)
         IN /\ Good(R) /\ Lag(R) = 0 /\ R.active = S.active /\ R.timers = S.timers
            /\ R.global_ticker = S.global_ticker /\ R.cur_countdown = v /\ R.cur_interval = v
            /\ R.end_ind = S.end_ind /\ R.num_inuse = S.num_inuse
            /\ 1 <= v => Counts(R)
<1> DEFINE v == S.timers[t].ticker_val
           R == CountDownTo(S, v)
<1>1. S \in StateType
  BY DEF Good
<1>2. /\ t \in Slot /\ v \in 0..(W - 1) /\ S.timers[t].reload_val \in 0..MAX_RELOAD_VAL
      /\ S.active \in Seq(Slot) /\ Tickers(S) \in [Slot -> Nat]
      /\ Linked(S) \subseteq Slot
  BY GoodTypes
<1>3. v \in 0..MAX_RELOAD_VAL
  <2>1. v - Lag(S) <= S.timers[t].reload_val
    BY DEF Good
  <2> QED
    BY <2>1, <1>2, Widths
<1>4. /\ R \in StateType /\ R.active = S.active /\ R.timers = S.timers
      /\ R.global_ticker = S.global_ticker /\ R.cur_countdown = v /\ R.cur_interval = v
      /\ R.end_ind = S.end_ind /\ R.num_inuse = S.num_inuse
  <2> HIDE DEF v
  <2> QED
    BY <1>1, <1>3 DEF CountDownTo, StateType
<1> HIDE DEF R
<1>5. Lag(R) = 0 /\ Linked(R) = Linked(S) /\ Tickers(R) = Tickers(S)
  <2>1. R.cur_interval - R.cur_countdown = 0
    BY <1>3, <1>4, Widths
  <2> QED
    BY <2>1, <1>4 DEF Lag, Linked, Tickers
<1>6. Good(R)
  <2>1. R.cur_countdown <= R.cur_interval
    BY <1>3, <1>4, Widths
  <2> QED
    BY <2>1, <1>4, <1>5 DEF Good
<1>7. ASSUME NEW u \in Linked(S) PROVE v <= S.timers[u].ticker_val
  <2>1. Tickers(S)[t] <= Tickers(S)[u]
    <3>1. OrderedBy(Tickers(S), S.active)
      BY DEF Good
    <3> QED
      BY <3>1, <1>2, FrontFirst DEF Linked
  <2>2. u \in Slot
    BY <1>2
  <2> QED
    BY <2>1, <2>2, <1>2 DEF Tickers
<1>8. 1 <= v => Counts(R)
  BY <1>4, <1>5, <1>7 DEF Counts
<1> QED
  BY <1>4, <1>5, <1>6, <1>8 DEF R

LEMMA InsertTimer ==
  ASSUME NEW S, Good(S), NEW t \in Slot \ Linked(S),
         S.timers[t].ticker_val <= S.timers[t].reload_val
  PROVE  LET R == insert_active_timer(S, t) IN
         /\ Charged(S, R) /\ Linked(R) = Linked(S) \cup {t}
         /\ Counts(S) /\ 1 <= S.timers[t].ticker_val => Counts(R)
<1> DEFINE T == sync_timers(S)
           v == T.timers[t].ticker_val
           k == Before(T, T.active, v)
           L == [T EXCEPT !.active = InsertAt(@, k + 1, t)]
           R == IF k = 0 THEN CountDownTo(L, v) ELSE L
<1>1. /\ Good(T) /\ Lag(T) = 0 /\ (Counts(S) => Counts(T))
      /\ T.active = S.active /\ T.timers = Synced(S)
      /\ T.global_ticker = Plus(S.global_ticker, Lag(S))
      /\ T.end_ind = S.end_ind /\ T.num_inuse = S.num_inuse
  BY SyncIs
<1> HIDE DEF T
<1>2. /\ T.active \in Seq(Slot) /\ Linked(T) \subseteq Slot /\ Tickers(T) \in [Slot -> Nat]
      /\ T.cur_interval \in 0..MAX_RELOAD_VAL /\ T.cur_countdown \in 0..MAX_RELOAD_VAL
      /\ v \in 0..(W - 1) /\ T.timers[t].reload_val \in 0..MAX_RELOAD_VAL
  BY <1>1, GoodTypes
<1>3. /\ v = S.timers[t].ticker_val /\ v <= T.timers[t].reload_val
      /\ t \notin Linked(T) /\ Linked(T) = Linked(S) /\ v = Tickers(T)[t]
  BY <1>1 DEF Synced, Linked, Tickers
<1>4. OrderedBy(Tickers(T), T.active) /\ IsInjective(T.active) /\ T \in StateType
  BY <1>1 DEF Good
<1>5. v \in Nat
  BY <1>2, Widths
<1> HIDE DEF v
<1>6. /\ k \in 0..Len(T.active)
      /\ \A j \in 1..Len(T.active) : IF j <= k THEN Tickers(T)[T.active[j]] < v
                                              ELSE v <= Tickers(T)[T.active[j]]
  BY <1>2, <1>4, <1>5, BeforeIs
<1> HIDE DEF k
<1> DEFINE l == InsertAt(T.active, k + 1, t)
<1>7. /\ l \in Seq(Slot) /\ IsInjective(l) /\ OrderedBy(Tickers(T), l)
      /\ ToSet(l) = Linked(T) \cup {t} /\ l[1] = IF k = 0 THEN t ELSE T.active[1]
  <2>1. \A j \in 1..k : Tickers(T)[T.active[j]] <= Tickers(T)[t]
    <3> SUFFICES ASSUME NEW j \in 1..k PROVE Tickers(T)[T.active[j]] <= Tickers(T)[t]
      OBVIOUS
    <3>1. j \in 1..Len(T.active) /\ j <= k
      BY <1>6
    <3>2. T.active[j] \in Slot
      BY <3>1, <1>2
    <3> QED
      BY <3>1, <3>2, <1>2, <1>3, <1>6
  <2>2. \A j \in (k + 1)..Len(T.active) : Tickers(T)[t] <= Tickers(T)[T.active[j]]
    <3> SUFFICES ASSUME NEW j \in (k + 1)..Len(T.active) PROVE Tickers(T)[t] <= Tickers(T)[T.active[j]]
      OBVIOUS
    <3>1. j \in 1..Len(T.active) /\ ~(j <= k)
      BY <1>6
    <3> QED
      BY <3>1, <1>3, <1>6
  <2>3. t \in Slot \ ToSet(T.active)
    BY <1>3 DEF Linked
  <2> HIDE DEF l
  <2> QED
    BY <2>1, <2>2, <2>3, <1>2, <1>4, <1>6, InsertInOrder DEF Linked, l
<1>8. /\ L \in StateType /\ L.active = l /\ L.timers = T.timers
      /\ L.cur_interval = T.cur_interval /\ L.cur_countdown = T.cur_countdown
      /\ L.global_ticker = T.global_ticker /\ L.end_ind = T.end_ind /\ L.num_inuse = T.num_inuse
  <2> DEFINE m == l
  <2>1. m \in Seq(Slot) /\ L = [T EXCEPT !.active = m]
    BY <1>7
  <2> HIDE DEF m, L
  <2>2. m = l
    BY DEF m
  <2> QED
    BY <2>1, <2>2, <1>4 DEF StateType
<1> HIDE DEF l, L
<1>9. /\ Lag(L) = 0 /\ Linked(L) = Linked(T) \cup {t} /\ Tickers(L) = Tickers(T)
  BY <1>1, <1>7, <1>8 DEF Lag, Linked, Tickers
<1>10. Good(L)
  <2>1. \A u \in Linked(T) : Lag(T) <= T.timers[u].ticker_val /\ T.timers[u].ticker_val - Lag(T) <= T.timers[u].reload_val
    BY <1>1 DEF Good
  <2>2. 0 <= v /\ v - 0 <= T.timers[t].reload_val
    BY <1>2, <1>3, <1>5
  <2>3. \A u \in Linked(L) : Lag(L) <= L.timers[u].ticker_val /\ L.timers[u].ticker_val - Lag(L) <= L.timers[u].reload_val
    BY <2>1, <2>2, <1>1, <1>8, <1>9 DEF v
  <2>4. L.cur_countdown <= L.cur_interval
    BY <1>1, <1>8 DEF Good
  <2> QED
    BY <2>3, <2>4, <1>7, <1>8, <1>9 DEF Good
<1>11. CASE k = 0
  <2>1. t \in Linked(L) /\ t = L.active[1] /\ L.timers[t].ticker_val = v
    BY <1>7, <1>8, <1>9, <1>11 DEF v
  <2>2. /\ Good(R) /\ Lag(R) = 0 /\ R.active = L.active /\ R.timers = L.timers
        /\ R.global_ticker = L.global_ticker
        /\ R.end_ind = L.end_ind /\ R.num_inuse = L.num_inuse
        /\ 1 <= v => Counts(R)
    BY <2>1, <1>9, <1>10, <1>11, CountDownIs
  <2> HIDE DEF R
  <2> QED
    BY <2>2, <1>1, <1>3, <1>8, <1>9 DEF Charged, Linked, R, v, k, L, l, T, insert_active_timer
<1>12. CASE k # 0
  <2>1. R = L
    BY <1>12
  <2>2. Counts(S) /\ 1 <= v => Counts(L)
    <3> SUFFICES ASSUME Counts(S), 1 <= v PROVE Counts(L)
      OBVIOUS
    <3>1. Counts(T)
      BY <1>1
    <3>2. k >= 1 /\ 1 \in 1..Len(T.active) /\ T.active[1] \in Slot
      BY <1>2, <1>6, <1>12
    <3>3. Tickers(T)[T.active[1]] < v
      BY <3>2, <1>6
    <3>4. T.active[1] \in Linked(T)
      BY <3>2, <1>2 DEF Linked, ToSet
    <3>5. T.cur_interval <= Tickers(T)[T.active[1]]
      BY <3>1, <3>2, <3>4 DEF Counts, Tickers
    <3>6. T.cur_interval <= v
      BY <3>2, <3>3, <3>5, <1>2, <1>5, Widths
    <3>7. \A u \in Linked(L) : L.cur_interval <= L.timers[u].ticker_val
      BY <3>1, <3>6, <1>8, <1>9 DEF Counts, v
    <3> QED
      BY <3>1, <3>7, <1>8 DEF Counts
  <2> HIDE DEF R
  <2> QED
    BY <2>1, <2>2, <1>1, <1>3, <1>8, <1>9, <1>10 DEF Charged, R, v, k, L, l, T, insert_active_timer
<1> QED
  BY <1>11, <1>12

LEMMA PlaceIs ==
  ASSUME NEW S, S.active \in Seq(Slot), NEW t \in Linked(S)
  PROVE  Place(S, t) \in 1..Len(S.active) /\ S.active[Place(S, t)] = t
<1>1. \E i \in DOMAIN S.active : S.active[i] = t
  BY DEF Linked, ToSet
<1>2. DOMAIN S.active = 1..Len(S.active)
  OBVIOUS
<1> QED
  BY <1>1, <1>2 DEF Place

LEMMA RemoveTimer ==
  ASSUME NEW S, Good(S), NEW t \in Linked(S), NEW u \in Linked(S), u # t
  PROVE  LET R == remove_active_timer(S, t) IN
         /\ Charged(S, R) /\ Linked(R) = Linked(S) \ {t}
         /\ Counts(S) => Counts(R)
<1> DEFINE T == sync_timers(S)
           i == Place(T, t)
           L == [T EXCEPT !.active = RemoveAt(@, i)]
           h == Head(L.active)
           R == IF t = Head(T.active) THEN CountDownTo(L, T.timers[h].ticker_val) ELSE L
<1>1. /\ Good(T) /\ Lag(T) = 0 /\ (Counts(S) => Counts(T))
      /\ T.active = S.active /\ T.timers = Synced(S)
      /\ T.global_ticker = Plus(S.global_ticker, Lag(S))
      /\ T.end_ind = S.end_ind /\ T.num_inuse = S.num_inuse
  BY SyncIs
<1> HIDE DEF T
<1>2. /\ T.active \in Seq(Slot) /\ Linked(T) \subseteq Slot /\ Tickers(T) \in [Slot -> Nat]
      /\ T.cur_interval \in 0..MAX_RELOAD_VAL /\ T.cur_countdown \in 0..MAX_RELOAD_VAL
  BY <1>1, GoodTypes
<1>3. \A w \in Slot : T.timers[w].ticker_val \in 0..(W - 1)
  BY <1>1, GoodTypes
<1>4. OrderedBy(Tickers(T), T.active) /\ IsInjective(T.active) /\ T \in StateType
  BY <1>1 DEF Good
<1>5. Linked(T) = Linked(S) /\ t \in Linked(T) /\ u \in Linked(T)
  BY <1>1 DEF Linked
<1>6. i \in 1..Len(T.active) /\ T.active[i] = t
  BY <1>2, <1>5, PlaceIs
<1> HIDE DEF i
<1> DEFINE l == RemoveAt(T.active, i)
<1>7. /\ l \in Seq(Slot) /\ IsInjective(l) /\ OrderedBy(Tickers(T), l)
      /\ ToSet(l) = Linked(T) \ {t}
  <2>1. \A a, b \in 1..Len(T.active) : a < b => Tickers(T)[T.active[a]] <= Tickers(T)[T.active[b]]
    <3>1. DOMAIN T.active = 1..Len(T.active)
      BY <1>2
    <3> QED
      BY <3>1, <1>4 DEF OrderedBy
  <2> HIDE DEF l
  <2>2. /\ l \in Seq(Slot) /\ IsInjective(l) /\ OrderedBy(Tickers(T), l)
        /\ ToSet(l) = ToSet(T.active) \ {T.active[i]}
    BY <2>1, <1>2, <1>4, <1>6, RemoveInOrder DEF l
  <2> QED
    BY <2>2, <1>6 DEF Linked
<1>8. /\ L \in StateType /\ L.active = l /\ L.timers = T.timers
      /\ L.cur_interval = T.cur_interval /\ L.cur_countdown = T.cur_countdown
      /\ L.global_ticker = T.global_ticker /\ L.end_ind = T.end_ind /\ L.num_inuse = T.num_inuse
  <2> DEFINE m == l
  <2>1. m \in Seq(Slot) /\ L = [T EXCEPT !.active = m]
    BY <1>7
  <2> HIDE DEF m, L
  <2>2. m = l
    BY DEF m
  <2> QED
    BY <2>1, <2>2, <1>4 DEF StateType
<1> HIDE DEF l, L
<1>9. /\ Lag(L) = 0 /\ Linked(L) = Linked(T) \ {t} /\ Tickers(L) = Tickers(T)
  BY <1>1, <1>7, <1>8 DEF Lag, Linked, Tickers
<1>10. Good(L)
  <2>1. \A w \in Linked(T) : Lag(T) <= T.timers[w].ticker_val /\ T.timers[w].ticker_val - Lag(T) <= T.timers[w].reload_val
    BY <1>1 DEF Good
  <2>3. \A w \in Linked(L) : Lag(L) <= L.timers[w].ticker_val /\ L.timers[w].ticker_val - Lag(L) <= L.timers[w].reload_val
    BY <2>1, <1>1, <1>8, <1>9
  <2>4. L.cur_countdown <= L.cur_interval
    BY <1>1, <1>8 DEF Good
  <2> QED
    BY <2>3, <2>4, <1>7, <1>8, <1>9 DEF Good
<1>11. CASE t = Head(T.active)
  <2>1. h = L.active[1] /\ h \in Linked(L)
    <3>1. u \in ToSet(l) /\ l \in Seq(Slot)
      BY <1>5, <1>7
    <3>2. Head(l) = l[1] /\ l[1] \in ToSet(l)
      BY <3>1, HeadIs
    <3> QED
      BY <3>2, <1>8 DEF Linked
  <2> HIDE DEF h
  <2> DEFINE v == L.timers[h].ticker_val
  <2>2. /\ Good(R) /\ Lag(R) = 0 /\ R.active = L.active /\ R.timers = L.timers
        /\ R.global_ticker = L.global_ticker
        /\ R.end_ind = L.end_ind /\ R.num_inuse = L.num_inuse
        /\ 1 <= v => Counts(R)
    BY <2>1, <1>8, <1>9, <1>10, <1>11, CountDownIs
  <2>3. Counts(S) => 1 <= v
    <3> SUFFICES ASSUME Counts(S) PROVE 1 <= v
      OBVIOUS
    <3>1. Counts(T)
      BY <1>1
    <3>2. h \in Linked(T) /\ h \in Slot
      BY <2>1, <1>2, <1>9
    <3>3. /\ 1 <= T.cur_countdown /\ T.cur_countdown <= T.cur_interval
          /\ T.cur_interval <= T.timers[h].ticker_val
      BY <3>1, <3>2, <1>1 DEF Counts, Good
    <3>4. T.timers[h].ticker_val \in 0..(W - 1)
      BY <3>2, <1>3
    <3>5. 1 <= T.timers[h].ticker_val
      BY <3>3, <3>4, <1>2, Widths
    <3> QED
      BY <3>5, <1>8
  <2> HIDE DEF R, v
  <2> QED
    BY <2>2, <2>3, <1>1, <1>5, <1>8, <1>9 DEF Charged, Linked, R, h, i, L, l, T, remove_active_timer
<1>12. CASE t # Head(T.active)
  <2>1. R = L
    BY <1>12
  <2>2. Counts(S) => Counts(L)
    <3> SUFFICES ASSUME Counts(S) PROVE Counts(L)
      OBVIOUS
    <3> QED
      BY <1>1, <1>8, <1>9 DEF Counts
  <2> HIDE DEF R
  <2> QED
    BY <2>1, <2>2, <1>1, <1>5, <1>8, <1>9, <1>10 DEF Charged, R, h, i, L, l, T, remove_active_timer
<1> QED
  BY <1>11, <1>12

LEMMA MoveBack ==
  ASSUME NEW S, S \in StateType, NEW t \in Linked(S), IsInjective(S.active),
         Tickers(S) \in [Slot -> Nat],
         \A a, b \in 1..Len(S.active) : a < b /\ S.active[b] # t =>
            Tickers(S)[S.active[a]] <= Tickers(S)[S.active[b]] \/ S.active[a] = t,
         \A a \in 1..Len(S.active) : a < Place(S, t) => Tickers(S)[S.active[a]] <= Tickers(S)[t]
  PROVE  LET R == sort_timer_back(S, t) IN
         /\ R = [S EXCEPT !.active = R.active] /\ R \in StateType
         /\ IsInjective(R.active) /\ OrderedBy(Tickers(S), R.active) /\ Linked(R) = Linked(S)
<1> DEFINE f == Tickers(S)
           l == S.active
           i == Place(S, t)
           n == Len(l)
           rest == SubSeq(l, i + 1, Len(l))
           v == S.timers[t].ticker_val
           k == Before(S, rest, v)
           r == RemoveAt(l, i)
           m == InsertAt(r, i + k, t)
<1>1. l \in Seq(Slot) /\ n \in Nat /\ Linked(S) \subseteq Slot
  BY DEF StateType, Linked, ToSet
<1>2. i \in 1..n /\ l[i] = t
  BY <1>1, PlaceIs
<1>3. t \in Slot /\ v = f[t] /\ v \in Nat
  BY <1>1 DEF Tickers
<1> HIDE DEF i
<1>4. rest \in Seq(Slot) /\ Len(rest) = n - i /\ \A j \in 1..(n - i) : rest[j] = l[i + j]
  BY <1>1, <1>2
<1>5. \A a, b \in 1..n : l[a] = l[b] => a = b
  BY <1>1 DEF IsInjective
<1>6. \A a, b \in 1..n : a < b /\ a # i /\ b # i => f[l[a]] <= f[l[b]]
  BY <1>2, <1>5
<1> HIDE DEF rest, l, v, n
<1>7. OrderedBy(f, rest)
  <2> SUFFICES ASSUME NEW a \in 1..(n - i), NEW b \in 1..(n - i), a < b PROVE f[rest[a]] <= f[rest[b]]
    BY <1>4 DEF OrderedBy
  <2>1. /\ i + a \in 1..n /\ i + b \in 1..n /\ i + a < i + b /\ i + a # i /\ i + b # i
    BY <1>1, <1>2
  <2> QED
    BY <2>1, <1>4, <1>6
<1>8. /\ k \in 0..(n - i)
      /\ \A j \in 1..(n - i) : IF j <= k THEN f[l[i + j]] < v ELSE v <= f[l[i + j]]
  <2>1. /\ k \in 0..Len(rest)
        /\ \A j \in 1..Len(rest) : IF j <= k THEN f[rest[j]] < v ELSE v <= f[rest[j]]
    BY <1>3, <1>4, <1>7, BeforeIs
  <2> HIDE DEF k, f
  <2> QED
    BY <2>1, <1>4
<1> HIDE DEF k
<1>9. /\ r \in Seq(Slot) /\ IsInjective(r) /\ OrderedBy(f, r)
      /\ ToSet(r) = ToSet(l) \ {t} /\ Len(r) = n - 1
      /\ \A j \in 1..(i - 1) : r[j] = l[j]
      /\ \A j \in i..(n - 1) : r[j] = l[j + 1]
  <2> HIDE DEF f, r
  <2>1. f \in [Slot -> Nat] /\ IsInjective(l)
    BY DEF f, l
  <2>2. /\ r \in Seq(Slot) /\ IsInjective(r) /\ OrderedBy(f, r)
        /\ ToSet(r) = ToSet(l) \ {l[i]} /\ Len(r) = Len(l) - 1
        /\ \A j \in 1..(i - 1) : r[j] = l[j]
        /\ \A j \in i..(Len(l) - 1) : r[j] = l[j + 1]
    BY <2>1, <1>1, <1>2, <1>6, RemoveInOrder DEF r, n
  <2> QED
    BY <2>2, <1>2 DEF n
<1> HIDE DEF r
<1> DEFINE q == (i - 1) + k
<1>10. q \in 0..Len(r) /\ q + 1 = i + k
  BY <1>1, <1>2, <1>8, <1>9
<1>11. \A j \in 1..q : f[r[j]] <= f[t]
  <2> SUFFICES ASSUME NEW j \in 1..q PROVE f[r[j]] <= f[t]
    OBVIOUS
  <2>1. CASE j < i
    <3>1. j \in 1..(i - 1) /\ j \in 1..n
      BY <2>1, <1>1, <1>2
    <3>2. f[l[j]] <= f[t]
      BY <3>1, <2>1 DEF l, i, n
    <3> QED
      BY <3>1, <3>2, <1>9
  <2>2. CASE ~(j < i)
    <3> DEFINE b == j - (i - 1)
    <3>1. b \in 1..(n - i) /\ b <= k /\ i + b = j + 1 /\ j \in i..(n - 1) /\ i + b \in 1..n
      BY <2>2, <1>1, <1>2, <1>8
    <3> HIDE DEF b
    <3>2. f[l[i + b]] < v
      BY <3>1, <1>8
    <3>3. r[j] = l[i + b] /\ l[i + b] \in Slot /\ f[l[i + b]] \in Nat
      BY <3>1, <1>1, <1>9 DEF n
    <3> QED
      BY <3>2, <3>3, <1>3
  <2> QED
    BY <2>1, <2>2
<1>12. \A j \in (q + 1)..Len(r) : f[t] <= f[r[j]]
  <2> SUFFICES ASSUME NEW j \in (q + 1)..Len(r) PROVE f[t] <= f[r[j]]
    OBVIOUS
  <2> DEFINE b == j - (i - 1)
  <2>1. b \in 1..(n - i) /\ ~(b <= k) /\ i + b = j + 1 /\ j \in i..(n - 1)
    BY <1>1, <1>2, <1>8, <1>9
  <2> HIDE DEF b
  <2>2. v <= f[l[i + b]]
    BY <2>1, <1>8
  <2>3. r[j] = l[i + b]
    BY <2>1, <1>9
  <2> QED
    BY <2>2, <2>3, <1>3
<1>13. /\ m \in Seq(Slot) /\ IsInjective(m) /\ OrderedBy(f, m) /\ ToSet(m) = ToSet(l)
  <2>1. t \in Slot \ ToSet(r) /\ f \in [Slot -> Nat] /\ t \in ToSet(l)
    BY <1>3, <1>9 DEF Linked, l
  <2> HIDE DEF f, q, m
  <2>2. m = InsertAt(r, q + 1, t)
    BY <1>10 DEF m
  <2>3. /\ m \in Seq(Slot) /\ IsInjective(m) /\ OrderedBy(f, m) /\ ToSet(m) = ToSet(r) \cup {t}
    BY <2>1, <2>2, <1>9, <1>10, <1>11, <1>12, InsertInOrder
  <2> QED
    BY <2>1, <2>3, <1>9
<1> HIDE DEF m, f, q
<1>14. sort_timer_back(S, t) = [S EXCEPT !.active = m]
  BY DEF sort_timer_back, i, k, rest, v, l, r, m
<1>15. [S EXCEPT !.active = m] \in StateType /\ [S EXCEPT !.active = m].active = m
  BY <1>13 DEF StateType
<1> QED
  BY <1>13, <1>14, <1>15 DEF Linked, l, f

LEMMA SyncedIs ==
  ASSUME NEW S, Good(S)
  PROVE  /\ \A u \in Slot :
              /\ Synced(S)[u] \in TimerType
              /\ Synced(S)[u].in_use = S.timers[u].in_use
              /\ Synced(S)[u].is_active = S.timers[u].is_active
              /\ Synced(S)[u].reload_val = S.timers[u].reload_val
              /\ Synced(S)[u].ticker_val = IF u \in Linked(S) THEN S.timers[u].ticker_val - Lag(S)
                                                             ELSE S.timers[u].ticker_val
              /\ u \notin Linked(S) => Synced(S)[u] = S.timers[u]
         /\ Lag(S) = 0 => Synced(S) = S.timers
<1>1. /\ Lag(S) \in 0..(W - 1) /\ S.timers \in [Slot -> TimerType]
      /\ \A u \in Slot : S.timers[u].ticker_val \in 0..(W - 1)
  BY GoodTypes
<1>2. \A u \in Linked(S) : Lag(S) <= S.timers[u].ticker_val
  BY DEF Good
<1>3. ASSUME NEW u \in Slot
      PROVE  /\ Synced(S)[u] \in TimerType
             /\ Synced(S)[u].in_use = S.timers[u].in_use
             /\ Synced(S)[u].is_active = S.timers[u].is_active
             /\ Synced(S)[u].reload_val = S.timers[u].reload_val
             /\ Synced(S)[u].ticker_val = IF u \in Linked(S) THEN S.timers[u].ticker_val - Lag(S)
                                                            ELSE S.timers[u].ticker_val
             /\ u \notin Linked(S) => Synced(S)[u] = S.timers[u]
             /\ Lag(S) = 0 => Synced(S)[u] = S.timers[u]
  <2>1. S.timers[u] \in TimerType /\ S.timers[u].ticker_val \in 0..(W - 1)
    BY <1>1
  <2>2. CASE u \in Linked(S)
    <3> DEFINE d == S.timers[u].ticker_val - Lag(S)
    <3>1. d \in 0..(W - 1) /\ (Lag(S) = 0 => d = S.timers[u].ticker_val)
      BY <2>1, <2>2, <1>1, <1>2, Widths
    <3>2. Synced(S)[u] = Elapse(S.timers[u], Lag(S))
      BY <2>2 DEF Synced
    <3>3. Minus(S.timers[u].ticker_val, Lag(S)) = d
      BY <2>1, <2>2, <1>1, <1>2, MinusIs
    <3> HIDE DEF d
    <3>4. Synced(S)[u] = [S.timers[u] EXCEPT !.ticker_val = d]
      BY <3>2, <3>3 DEF Elapse
    <3>5. d = S.timers[u].ticker_val - Lag(S)
      BY DEF d
    <3> QED
      BY <2>1, <2>2, <3>1, <3>4, <3>5 DEF TimerType
  <2>3. CASE u \notin Linked(S)
    <3>1. Synced(S)[u] = S.timers[u]
      BY <2>3 DEF Synced
    <3> QED
      BY <2>1, <2>3, <3>1
  <2> QED
    BY <2>2, <2>3
<1>4. Lag(S) = 0 => Synced(S) = S.timers
  <2> SUFFICES ASSUME Lag(S) = 0 PROVE Synced(S) = S.timers
    OBVIOUS
  <2>1. Synced(S) = [u \in Slot |-> Synced(S)[u]]
    BY DEF Synced
  <2>2. S.timers = [u \in Slot |-> S.timers[u]]
    BY <1>1
  <2>3. \A u \in Slot : Synced(S)[u] = S.timers[u]
    BY <1>3
  <2> QED
    BY <2>1, <2>2, <2>3
<1> QED
  BY <1>3, <1>4

\* What the abstract timers see.
Left(S) == [t \in Slot |-> Synced(S)[t].ticker_val]
ReloadVals(S) == [t \in Slot |-> S.timers[t].reload_val]
Now(S) == Plus(S.global_ticker, Lag(S))

LEMMA ChargedIs ==
  ASSUME NEW S, Good(S), NEW R, Charged(S, R)
  PROVE  Left(R) = Left(S) /\ ReloadVals(R) = ReloadVals(S) /\ Now(R) = Now(S)
<1>1. Good(R) /\ Lag(R) = 0 /\ R.timers = Synced(S) /\ R.global_ticker = Now(S)
  BY DEF Charged, Now
<1>2. R.timers = Synced(R)
  BY <1>1, SyncedIs
<1>3. Left(R) = Left(S)
  BY <1>1, <1>2 DEF Left
<1>4. ReloadVals(R) = ReloadVals(S)
  <2>1. \A u \in Slot : Synced(S)[u].reload_val = S.timers[u].reload_val
    BY SyncedIs
  <2> QED
    BY <2>1, <1>1 DEF ReloadVals
<1>5. Now(R) = Now(S)
  <2>1. R.global_ticker \in 0..(W - 1) /\ 0 \in 0..(W - 1)
    BY <1>1, GoodTypes, Widths
  <2>2. Plus(R.global_ticker, 0) = R.global_ticker
    BY <2>1, PlusIs
  <2> QED
    BY <1>1, <2>2 DEF Now
<1> QED
  BY <1>3, <1>4, <1>5

\* Another record for the timer t.
WithTimer(S, t, r) == [S EXCEPT !.timers[t] = r]

\* A record may be any outside the list, one that counts the same in it.
LEMMA Replaced ==
  ASSUME NEW S, Good(S), NEW t \in Slot, NEW r \in TimerType,
         t \in Linked(S) => /\ r.ticker_val = S.timers[t].ticker_val
                           /\ r.reload_val = S.timers[t].reload_val
  PROVE  LET R == WithTimer(S, t, r) IN
         /\ Good(R) /\ Lag(R) = Lag(S) /\ Linked(R) = Linked(S) /\ (Counts(S) => Counts(R))
         /\ R.timers = [S.timers EXCEPT ![t] = r] /\ R.global_ticker = S.global_ticker
         /\ R.active = S.active
         /\ R.end_ind = S.end_ind /\ R.num_inuse = S.num_inuse
         /\ Synced(R) = [Synced(S) EXCEPT ![t] = IF t \in Linked(S) THEN Elapse(r, Lag(S)) ELSE r]
<1> DEFINE R == WithTimer(S, t, r)
<1>1. S \in StateType /\ S.active \in Seq(Slot) /\ Linked(S) \subseteq Slot /\ Tickers(S) \in [Slot -> Nat]
  BY GoodTypes DEF Good
<1>2. /\ R \in StateType /\ R.timers = [S.timers EXCEPT ![t] = r]
      /\ R.active = S.active /\ R.global_ticker = S.global_ticker
      /\ R.cur_interval = S.cur_interval /\ R.cur_countdown = S.cur_countdown
      /\ R.end_ind = S.end_ind /\ R.num_inuse = S.num_inuse
  BY <1>1 DEF StateType, WithTimer
<1> HIDE DEF R
<1>3. Linked(R) = Linked(S) /\ Lag(R) = Lag(S)
  BY <1>2 DEF Linked, Lag
<1>4. \A u \in Linked(S) : /\ R.timers[u].ticker_val = S.timers[u].ticker_val
                          /\ R.timers[u].reload_val = S.timers[u].reload_val
  BY <1>1, <1>2 DEF StateType
<1>5. OrderedBy(Tickers(R), R.active)
  <2>1. Tickers(R) \in [Slot -> Nat]
    BY <1>2, Widths DEF StateType, TimerType, Tickers
  <2>2. \A u \in ToSet(S.active) : Tickers(R)[u] = Tickers(S)[u] - 0
    <3> SUFFICES ASSUME NEW u \in Linked(S) PROVE Tickers(R)[u] = Tickers(S)[u] - 0
      BY DEF Linked
    <3>1. u \in Slot /\ Tickers(R)[u] = Tickers(S)[u] /\ Tickers(S)[u] \in Nat
      BY <1>1, <1>4 DEF Tickers
    <3> QED
      BY <3>1
  <2>3. OrderedBy(Tickers(S), S.active)
    BY DEF Good
  <2> QED
    BY <2>1, <2>2, <2>3, <1>1, <1>2, OrderKept
<1>6. Good(R)
  <2>1. \A u \in Linked(S) : Lag(S) <= S.timers[u].ticker_val /\ S.timers[u].ticker_val - Lag(S) <= S.timers[u].reload_val
    BY DEF Good
  <2>2. S.cur_countdown <= S.cur_interval /\ IsInjective(S.active)
    BY DEF Good
  <2> QED
    BY <2>1, <2>2, <1>2, <1>3, <1>4, <1>5 DEF Good
<1>7. Counts(S) => Counts(R)
  BY <1>2, <1>3, <1>4 DEF Counts
<1>8. Synced(R) = [Synced(S) EXCEPT ![t] = IF t \in Linked(S) THEN Elapse(r, Lag(S)) ELSE r]
  <2>1. \A u \in Slot : R.timers[u] = IF u = t THEN r ELSE S.timers[u]
    BY <1>1, <1>2 DEF StateType
  <2> QED
    BY <2>1, <1>3 DEF Synced
<1> QED
  BY <1>2, <1>3, <1>6, <1>7, <1>8 DEF R

LEMMA Unlinked ==
  ASSUME NEW S, Good(S), NEW t \in Slot, t \notin Linked(S), NEW r \in TimerType
  PROVE  LET R == WithTimer(S, t, r) IN
         /\ Good(R) /\ Lag(R) = Lag(S) /\ Linked(R) = Linked(S) /\ (Counts(S) => Counts(R))
         /\ R.timers = [S.timers EXCEPT ![t] = r] /\ R.global_ticker = S.global_ticker
         /\ R.end_ind = S.end_ind /\ R.num_inuse = S.num_inuse
<1>1. t \in Linked(S) => /\ r.ticker_val = S.timers[t].ticker_val
                        /\ r.reload_val = S.timers[t].reload_val
  OBVIOUS
<1> QED
  BY <1>1, Replaced

\* Another tick count for a timer in the list, no less than the one it had.
LEMMA MoveTicker ==
  ASSUME NEW S, Good(S), NEW t \in Linked(S), NEW v \in 0..(W - 1),
         S.timers[t].ticker_val <= v, Lag(S) <= v, v - Lag(S) <= S.timers[t].reload_val
  PROVE  LET R == sort_timer_back(SetTicker(S, t, v), t) IN
         /\ Good(R) /\ Lag(R) = Lag(S) /\ Linked(R) = Linked(S)
         /\ (Counts(S) /\ S.cur_interval <= v => Counts(R))
         /\ R.timers = [S.timers EXCEPT ![t] = [@ EXCEPT !.ticker_val = v]]
         /\ R.global_ticker = S.global_ticker
         /\ R.end_ind = S.end_ind /\ R.num_inuse = S.num_inuse
<1> DEFINE Q == SetTicker(S, t, v)
           R == sort_timer_back(Q, t)
           r == [S.timers[t] EXCEPT !.ticker_val = v]
<1>1. /\ S \in StateType /\ S.active \in Seq(Slot) /\ Linked(S) \subseteq Slot
      /\ Tickers(S) \in [Slot -> Nat] /\ t \in Slot /\ S.timers \in [Slot -> TimerType]
  BY GoodTypes DEF Good
<1>2. /\ Q \in StateType /\ Q.timers = [S.timers EXCEPT ![t] = r]
      /\ Q.active = S.active /\ Q.global_ticker = S.global_ticker
      /\ Q.cur_interval = S.cur_interval /\ Q.cur_countdown = S.cur_countdown
      /\ Q.end_ind = S.end_ind /\ Q.num_inuse = S.num_inuse
  <2>1. r \in TimerType
    BY <1>1 DEF TimerType
  <2>2. Q = WithTimer(S, t, r)
    BY <1>1 DEF SetTicker, StateType, WithTimer
  <2> HIDE DEF r, Q
  <2> QED
    BY <2>1, <2>2, <1>1 DEF StateType, WithTimer
<1> HIDE DEF Q
<1>3. Linked(Q) = Linked(S)
  BY <1>2 DEF Linked
<1>4. \A u \in Slot : Q.timers[u] = IF u = t THEN r ELSE S.timers[u]
  BY <1>1, <1>2
<1>5. r.ticker_val = v /\ r.reload_val = S.timers[t].reload_val
  BY <1>1 DEF TimerType
<1> HIDE DEF r
<1>6. /\ Tickers(Q) \in [Slot -> Nat]
      /\ \A u \in Slot : Tickers(Q)[u] = IF u = t THEN v ELSE Tickers(S)[u]
  <2>1. Tickers(Q) \in [Slot -> Nat]
    BY <1>2, Widths DEF StateType, TimerType, Tickers
  <2> QED
    BY <2>1, <1>4, <1>5 DEF Tickers
<1>7. \A a, b \in 1..Len(S.active) : a < b => Tickers(S)[S.active[a]] <= Tickers(S)[S.active[b]]
  <2>1. DOMAIN S.active = 1..Len(S.active) /\ OrderedBy(Tickers(S), S.active)
    BY <1>1 DEF Good
  <2> QED
    BY <2>1 DEF OrderedBy
<1>8. \A a, b \in 1..Len(Q.active) : a < b /\ Q.active[b] # t =>
         Tickers(Q)[Q.active[a]] <= Tickers(Q)[Q.active[b]] \/ Q.active[a] = t
  <2> SUFFICES ASSUME NEW a \in 1..Len(S.active), NEW b \in 1..Len(S.active), a < b,
                      S.active[b] # t, S.active[a] # t
               PROVE  Tickers(Q)[S.active[a]] <= Tickers(Q)[S.active[b]]
    BY <1>2
  <2>1. S.active[a] \in Slot /\ S.active[b] \in Slot
    BY <1>1
  <2> QED
    BY <2>1, <1>6, <1>7
<1>9. \A a \in 1..Len(Q.active) : a < Place(Q, t) => Tickers(Q)[Q.active[a]] <= Tickers(Q)[t]
  <2>1. Place(Q, t) \in 1..Len(Q.active) /\ Q.active[Place(Q, t)] = t
    BY <1>1, <1>2, <1>3, PlaceIs
  <2> DEFINE i == Place(Q, t)
  <2> HIDE DEF i
  <2> SUFFICES ASSUME NEW a \in 1..Len(S.active), a < i
               PROVE  Tickers(Q)[S.active[a]] <= Tickers(Q)[t]
    BY <1>2 DEF i
  <2>2. i \in 1..Len(S.active) /\ S.active[i] = t
    BY <2>1, <1>2 DEF i
  <2>3. Tickers(S)[S.active[a]] <= Tickers(S)[t]
    BY <2>2, <1>7
  <2>4. S.active[a] \in Slot /\ Tickers(S)[S.active[a]] \in Nat /\ Tickers(S)[t] \in Nat /\ v \in Nat
    BY <1>1, Widths
  <2>5. Tickers(S)[t] <= v
    BY <1>1 DEF Tickers
  <2>6. Tickers(S)[S.active[a]] <= v
    BY <2>3, <2>4, <2>5
  <2> QED
    <3>1. CASE S.active[a] = t
      BY <3>1, <2>4, <1>1, <1>6
    <3>2. CASE S.active[a] # t
      <4>1. Tickers(Q)[S.active[a]] = Tickers(S)[S.active[a]] /\ Tickers(Q)[t] = v
        BY <3>2, <2>4, <1>1, <1>6
      <4> QED
        BY <4>1, <2>6
    <3> QED
      BY <3>1, <3>2
<1>10. /\ R = [Q EXCEPT !.active = R.active] /\ R \in StateType
       /\ IsInjective(R.active) /\ OrderedBy(Tickers(Q), R.active) /\ Linked(R) = Linked(Q)
  <2>1. IsInjective(Q.active) /\ t \in Linked(Q)
    BY <1>2, <1>3 DEF Good
  <2> HIDE DEF R
  <2> QED
    BY <2>1, <1>2, <1>6, <1>8, <1>9, MoveBack DEF R
<1> HIDE DEF R
<1>11. /\ R.timers = Q.timers /\ R.global_ticker = Q.global_ticker
       /\ R.cur_interval = Q.cur_interval /\ R.cur_countdown = Q.cur_countdown
       /\ R.end_ind = Q.end_ind /\ R.num_inuse = Q.num_inuse
  <2> DEFINE l == R.active
  <2>1. R = [Q EXCEPT !.active = l]
    BY <1>10
  <2> HIDE DEF l
  <2> QED
    BY <2>1, <1>2 DEF StateType
<1>12. Lag(R) = Lag(S) /\ Linked(R) = Linked(S) /\ Tickers(R) = Tickers(Q)
  BY <1>2, <1>3, <1>10, <1>11 DEF Lag, Tickers
<1>13. Good(R)
  <2>1. \A u \in Linked(S) : Lag(S) <= S.timers[u].ticker_val /\ S.timers[u].ticker_val - Lag(S) <= S.timers[u].reload_val
    BY DEF Good
  <2>2. \A u \in Linked(R) : Lag(R) <= R.timers[u].ticker_val /\ R.timers[u].ticker_val - Lag(R) <= R.timers[u].reload_val
    BY <2>1, <1>1, <1>4, <1>5, <1>11, <1>12
  <2>3. R.cur_countdown <= R.cur_interval
    BY <1>2, <1>11 DEF Good
  <2> QED
    BY <2>2, <2>3, <1>10, <1>12 DEF Good
<1>14. Counts(S) /\ S.cur_interval <= v => Counts(R)
  BY <1>1, <1>2, <1>4, <1>5, <1>11, <1>12 DEF Counts
<1> QED
  BY <1>2, <1>11, <1>12, <1>13, <1>14 DEF R, Q, r

-----------------------------------------------------------------------------
\* The slots are taken from the front and the active ones are linked, the watchdog always.
Slots(S) ==
  /\ S.num_inuse = S.end_ind
  /\ \A t \in Slot : S.timers[t].in_use <=> t < S.end_ind
  /\ \A t \in Slot : ~S.timers[t].in_use => S.timers[t] = Unused
  /\ \A t \in Slot : S.timers[t].in_use =>
        /\ 1 <= S.timers[t].reload_val
        /\ t \notin Linked(S) => /\ 1 <= S.timers[t].ticker_val
                                /\ S.timers[t].ticker_val <= S.timers[t].reload_val
  /\ Linked(S) = {t \in Slot : S.timers[t].is_active}
  /\ Watchdog \in Linked(S)

\* Between blocks the countdown runs; in the dispatch loop everything is charged.
Inv(S, p, c) ==
  /\ Good(S) /\ Slots(S)
  /\ p \in {"run", "dispatch", "callback", "returning"}
  /\ IF p = "run" THEN Counts(S) ELSE Lag(S) = 0
  /\ IF p \in {"callback", "returning"} THEN c \in Slot ELSE c = None

IInv == Inv(timers, phase, cur)

LEMMA LeftBounds ==
  ASSUME NEW S, Good(S), Slots(S), NEW t \in Slot, S.timers[t].in_use
  PROVE  /\ Left(S)[t] \in 0..(W - 1) /\ Left(S)[t] <= S.timers[t].reload_val
         /\ t \notin Linked(S) => 1 <= Left(S)[t]
         /\ Counts(S) => 1 <= Left(S)[t]
<1>1. /\ Left(S)[t] = IF t \in Linked(S) THEN S.timers[t].ticker_val - Lag(S) ELSE S.timers[t].ticker_val
      /\ Left(S)[t] \in 0..(W - 1)
  <2>1. Left(S)[t] = Synced(S)[t].ticker_val /\ Synced(S)[t] \in TimerType
    BY SyncedIs DEF Left
  <2> QED
    BY <2>1, SyncedIs DEF TimerType
<1>2. /\ S.timers[t].ticker_val \in 0..(W - 1) /\ S.timers[t].reload_val \in 0..MAX_RELOAD_VAL
      /\ S.cur_interval \in 0..MAX_RELOAD_VAL /\ S.cur_countdown \in 0..MAX_RELOAD_VAL
  BY GoodTypes
<1>3. t \notin Linked(S) => 1 <= S.timers[t].ticker_val /\ S.timers[t].ticker_val <= S.timers[t].reload_val
  BY DEF Slots
<1>4. t \in Linked(S) => S.timers[t].ticker_val - Lag(S) <= S.timers[t].reload_val
  BY DEF Good
<1>5. ASSUME Counts(S), t \in Linked(S) PROVE 1 <= S.timers[t].ticker_val - Lag(S)
  <2>1. 1 <= S.cur_countdown /\ S.cur_interval <= S.timers[t].ticker_val
    BY <1>5 DEF Counts
  <2>2. Lag(S) = S.cur_interval - S.cur_countdown
    BY <2>1, <1>2 DEF Lag
  <2> QED
    BY <2>1, <2>2, <1>2, Widths
<1> QED
  BY <1>1, <1>3, <1>4, <1>5

\* After an operation that charges S and relinks at most t, the slots are as they were.
LEMMA SlotsCharged ==
  ASSUME NEW S, Good(S), Slots(S), NEW R, Charged(S, R), Linked(R) = Linked(S)
  PROVE  Slots(R)
<1>1. /\ R.timers = Synced(S) /\ R.end_ind = S.end_ind /\ R.num_inuse = S.num_inuse
  BY DEF Charged
<1>2. \A u \in Slot : /\ R.timers[u].in_use = S.timers[u].in_use
                      /\ R.timers[u].is_active = S.timers[u].is_active
                      /\ R.timers[u].reload_val = S.timers[u].reload_val
                      /\ u \notin Linked(S) => R.timers[u] = S.timers[u]
  BY <1>1, SyncedIs
<1>3. \A u \in Slot : ~S.timers[u].in_use => u \notin Linked(S)
  <2>1. \A u \in Slot : ~S.timers[u].in_use => S.timers[u] = Unused
    BY DEF Slots
  <2>2. \A u \in Linked(S) : S.timers[u].is_active
    BY DEF Slots
  <2> QED
    BY <2>1, <2>2 DEF Unused
<1>4. {u \in Slot : R.timers[u].is_active} = {u \in Slot : S.timers[u].is_active}
  BY <1>2
<1> QED
  BY <1>1, <1>2, <1>3, <1>4 DEF Slots

\* Another record for t, in the list or outside it.
LEMMA SlotsReplaced ==
  ASSUME NEW S, Good(S), Slots(S), NEW R, NEW t \in Slot, NEW r \in TimerType,
         R.timers = [S.timers EXCEPT ![t] = r],
         R.end_ind = S.end_ind, R.num_inuse = S.num_inuse,
         S.timers[t].in_use, r.in_use, 1 <= r.reload_val,
         t \notin Linked(R) => 1 <= r.ticker_val /\ r.ticker_val <= r.reload_val,
         Linked(R) = IF r.is_active THEN Linked(S) \cup {t} ELSE Linked(S) \ {t},
         t = Watchdog => r.is_active
  PROVE  Slots(R)
<1>1. \A u \in Slot : R.timers[u] = IF u = t THEN r ELSE S.timers[u]
  BY GoodTypes
<1>2. Linked(S) = {u \in Slot : S.timers[u].is_active} /\ Watchdog \in Linked(S)
  BY DEF Slots
<1>3. Linked(R) = {u \in Slot : R.timers[u].is_active} /\ Watchdog \in Linked(R)
  BY <1>1, <1>2 DEF TimerType
<1>4. \A u \in Slot : u # t => (u \in Linked(R) <=> u \in Linked(S))
  BY <1>3
<1> QED
  BY <1>1, <1>3, <1>4 DEF Slots

\* What the clients of the timers see: the same in S and R.
SameView(S, R) == Left(R) = Left(S) /\ ReloadVals(R) = ReloadVals(S) /\ Now(R) = Now(S)

LEMMA Sync ==
  ASSUME NEW S, Good(S), Slots(S)
  PROVE  LET R == sync_timers(S) IN
         /\ Charged(S, R) /\ Slots(R) /\ (Counts(S) => Counts(R))
         /\ Linked(R) = Linked(S) /\ SameView(S, R)
<1> DEFINE R == sync_timers(S)
<1>1. Charged(S, R) /\ (Counts(S) => Counts(R)) /\ R.active = S.active
  BY SyncIs DEF Charged
<1> HIDE DEF R
<1>2. Linked(R) = Linked(S)
  BY <1>1 DEF Linked
<1> QED
  BY <1>1, <1>2, ChargedIs, SlotsCharged DEF SameView, R

LEMMA Flagged ==
  ASSUME NEW S, Good(S), NEW t \in Slot, NEW b \in BOOLEAN
  PROVE  LET Q == [S EXCEPT !.timers[t].is_active = b] IN
         /\ Good(Q) /\ Lag(Q) = Lag(S) /\ Linked(Q) = Linked(S) /\ (Counts(S) => Counts(Q))
         /\ Q.timers[t].ticker_val = S.timers[t].ticker_val
         /\ Q.timers[t].reload_val = S.timers[t].reload_val
         /\ Q.end_ind = S.end_ind /\ Q.num_inuse = S.num_inuse
         /\ Synced(Q) = [Synced(S) EXCEPT ![t] = [Synced(S)[t] EXCEPT !.is_active = b]]
         /\ SameView(S, Q)
<1> DEFINE Q == [S EXCEPT !.timers[t].is_active = b]
           r == [S.timers[t] EXCEPT !.is_active = b]
           x == [Synced(S)[t] EXCEPT !.is_active = b]
<1>1. S \in StateType /\ S.timers \in [Slot -> TimerType] /\ S.timers[t] \in TimerType
  BY GoodTypes DEF Good
<1>2. /\ r \in TimerType /\ r.ticker_val = S.timers[t].ticker_val
      /\ r.reload_val = S.timers[t].reload_val
  BY <1>1 DEF TimerType
<1>3. Q = WithTimer(S, t, r)
  BY <1>1 DEF WithTimer, StateType
<1> HIDE DEF Q
<1>4. x = IF t \in Linked(S) THEN Elapse(r, Lag(S)) ELSE r
  <2>1. Synced(S)[t] = IF t \in Linked(S) THEN Elapse(S.timers[t], Lag(S)) ELSE S.timers[t]
    BY DEF Synced
  <2>2. Elapse(r, Lag(S)) = [Elapse(S.timers[t], Lag(S)) EXCEPT !.is_active = b]
    BY <1>1 DEF Elapse, TimerType
  <2> QED
    BY <2>1, <2>2
<1> HIDE DEF r, x
<1>5. /\ Good(Q) /\ Lag(Q) = Lag(S) /\ Linked(Q) = Linked(S) /\ (Counts(S) => Counts(Q))
      /\ Q.timers = [S.timers EXCEPT ![t] = r] /\ Q.global_ticker = S.global_ticker
      /\ Q.end_ind = S.end_ind /\ Q.num_inuse = S.num_inuse
      /\ Synced(Q) = [Synced(S) EXCEPT ![t] = x]
  BY <1>2, <1>3, <1>4, Replaced
<1>6. /\ Q.timers[t].ticker_val = S.timers[t].ticker_val
      /\ Q.timers[t].reload_val = S.timers[t].reload_val
  BY <1>1, <1>2, <1>5
<1>7. SameView(S, Q)
  <2>1. \A u \in Slot : Synced(Q)[u].ticker_val = Synced(S)[u].ticker_val
    <3>1. x.ticker_val = Synced(S)[t].ticker_val
      BY SyncedIs DEF x, TimerType
    <3>2. \A u \in Slot : Synced(Q)[u] = IF u = t THEN x ELSE Synced(S)[u]
      BY <1>5 DEF Synced
    <3> QED
      BY <3>1, <3>2
  <2>2. \A u \in Slot : Q.timers[u].reload_val = S.timers[u].reload_val
    BY <1>1, <1>2, <1>5
  <2> QED
    BY <2>1, <2>2, <1>5 DEF SameView, Left, ReloadVals, Now
<1> QED
  BY <1>5, <1>6, <1>7 DEF Q, x

LEMMA Start ==
  ASSUME NEW S, Good(S), Slots(S), Counts(S), NEW t \in Slot,
         S.timers[t].in_use, ~S.timers[t].is_active
  PROVE  LET R == insert_active_timer([S EXCEPT !.timers[t].is_active = TRUE], t) IN
         /\ Good(R) /\ Slots(R) /\ Counts(R)
         /\ Linked(R) = Linked(S) \cup {t} /\ SameView(S, R)
<1> DEFINE Q == [S EXCEPT !.timers[t].is_active = TRUE]
           R == insert_active_timer(Q, t)
           C == sync_timers(S)
           x == [Synced(S)[t] EXCEPT !.is_active = TRUE]
<1>1. /\ Good(Q) /\ Lag(Q) = Lag(S) /\ Linked(Q) = Linked(S) /\ Counts(Q)
      /\ Q.timers[t].ticker_val = S.timers[t].ticker_val
      /\ Q.timers[t].reload_val = S.timers[t].reload_val
      /\ Q.end_ind = S.end_ind /\ Q.num_inuse = S.num_inuse
      /\ Synced(Q) = [Synced(S) EXCEPT ![t] = x] /\ SameView(S, Q)
  BY Flagged
<1> HIDE DEF Q, x
<1>2. t \notin Linked(S) /\ 1 <= S.timers[t].ticker_val /\ S.timers[t].ticker_val <= S.timers[t].reload_val
      /\ 1 <= S.timers[t].reload_val
  BY DEF Slots
<1>3. /\ Charged(Q, R) /\ Linked(R) = Linked(Q) \cup {t} /\ Counts(R)
  BY <1>1, <1>2, InsertTimer
<1>4. Charged(S, C) /\ Slots(C) /\ Linked(C) = Linked(S) /\ Good(C)
  BY Sync DEF Charged
<1> HIDE DEF R, C
<1>5. x \in TimerType /\ x.in_use /\ x.is_active /\ x.ticker_val = S.timers[t].ticker_val
      /\ x.reload_val = S.timers[t].reload_val
  BY <1>2, SyncedIs DEF x, TimerType
<1>6. /\ R.timers = [C.timers EXCEPT ![t] = x] /\ C.timers = Synced(S) /\ C.timers[t].in_use
      /\ R.end_ind = C.end_ind /\ R.num_inuse = C.num_inuse
  BY <1>1, <1>3, <1>4, SyncedIs DEF Charged
<1>7. Slots(R)
  BY <1>1, <1>2, <1>3, <1>4, <1>5, <1>6, SlotsReplaced
<1>8. SameView(Q, R)
  BY <1>1, <1>3, ChargedIs DEF SameView
<1> QED
  BY <1>1, <1>3, <1>7, <1>8 DEF SameView, Charged, R, Q

LEMMA Stop ==
  ASSUME NEW S, Good(S), Slots(S), Counts(S), NEW t \in Slot,
         S.timers[t].is_active, t # Watchdog
  PROVE  LET R == remove_active_timer([S EXCEPT !.timers[t].is_active = FALSE], t) IN
         /\ Good(R) /\ Slots(R) /\ Counts(R)
         /\ Linked(R) = Linked(S) \ {t} /\ SameView(S, R)
<1> DEFINE Q == [S EXCEPT !.timers[t].is_active = FALSE]
           R == remove_active_timer(Q, t)
           C == sync_timers(S)
           x == [Synced(S)[t] EXCEPT !.is_active = FALSE]
<1>1. /\ Good(Q) /\ Lag(Q) = Lag(S) /\ Linked(Q) = Linked(S) /\ Counts(Q)
      /\ Q.end_ind = S.end_ind /\ Q.num_inuse = S.num_inuse
      /\ Synced(Q) = [Synced(S) EXCEPT ![t] = x] /\ SameView(S, Q)
  BY Flagged
<1> HIDE DEF Q, x
<1>2. /\ t \in Linked(S) /\ Watchdog \in Linked(S) /\ S.timers[t].in_use
      /\ 1 <= S.timers[t].reload_val
  BY DEF Slots, Unused
<1>3. /\ Charged(Q, R) /\ Linked(R) = Linked(Q) \ {t} /\ Counts(R)
  BY <1>1, <1>2, RemoveTimer
<1>4. Charged(S, C) /\ Slots(C) /\ Linked(C) = Linked(S) /\ Good(C)
  BY Sync DEF Charged
<1> HIDE DEF R, C
<1>5. /\ x \in TimerType /\ x.in_use /\ ~x.is_active /\ x.ticker_val = Left(S)[t]
      /\ x.reload_val = S.timers[t].reload_val
  BY <1>2, SyncedIs DEF x, TimerType, Left
<1>6. 1 <= Left(S)[t] /\ Left(S)[t] <= S.timers[t].reload_val
  BY <1>2, LeftBounds
<1>7. /\ R.timers = [C.timers EXCEPT ![t] = x] /\ C.timers = Synced(S) /\ C.timers[t].in_use
      /\ R.end_ind = C.end_ind /\ R.num_inuse = C.num_inuse
  BY <1>1, <1>2, <1>3, <1>4, SyncedIs DEF Charged
<1>8. Slots(R)
  BY <1>1, <1>2, <1>3, <1>4, <1>5, <1>6, <1>7, SlotsReplaced
<1>9. SameView(Q, R)
  BY <1>1, <1>3, ChargedIs DEF SameView
<1> QED
  BY <1>1, <1>3, <1>8, <1>9 DEF SameView, Charged, R, Q

LEMMA ViewReplaced ==
  ASSUME NEW S, Good(S), NEW R, Good(R), NEW t \in Slot, NEW r \in TimerType,
         R.timers = [S.timers EXCEPT ![t] = r], R.global_ticker = S.global_ticker,
         Lag(R) = Lag(S), \A u \in Slot \ {t} : u \in Linked(R) <=> u \in Linked(S)
  PROVE  /\ Left(R) = [Left(S) EXCEPT ![t] = IF t \in Linked(R) THEN r.ticker_val - Lag(S) ELSE r.ticker_val]
         /\ ReloadVals(R) = [ReloadVals(S) EXCEPT ![t] = r.reload_val]
         /\ Now(R) = Now(S)
<1>1. \A u \in Slot : R.timers[u] = IF u = t THEN r ELSE S.timers[u]
  BY GoodTypes
<1> DEFINE d == IF t \in Linked(R) THEN r.ticker_val - Lag(S) ELSE r.ticker_val
<1>2. ASSUME NEW u \in Slot
      PROVE  Left(R)[u] = IF u = t THEN d ELSE Left(S)[u]
  <2>1. Left(R)[u] = IF u \in Linked(R) THEN R.timers[u].ticker_val - Lag(S) ELSE R.timers[u].ticker_val
    BY SyncedIs DEF Left
  <2>2. Left(S)[u] = IF u \in Linked(S) THEN S.timers[u].ticker_val - Lag(S) ELSE S.timers[u].ticker_val
    BY SyncedIs DEF Left
  <2> QED
    BY <2>1, <2>2, <1>1
<1> HIDE DEF d
<1>3. Left(R) = [Left(S) EXCEPT ![t] = d]
  <2>1. DOMAIN Left(S) = Slot /\ Left(R) = [u \in Slot |-> Left(R)[u]] /\ Left(S) = [u \in Slot |-> Left(S)[u]]
    BY DEF Left
  <2> HIDE DEF d
  <2> DEFINE f == Left(S)
             g == Left(R)
  <2>2. DOMAIN f = Slot /\ g = [u \in Slot |-> g[u]] /\ f = [u \in Slot |-> f[u]]
        /\ \A u \in Slot : g[u] = IF u = t THEN d ELSE f[u]
    BY <2>1, <1>2
  <2> HIDE DEF f, g
  <2>3. g = [f EXCEPT ![t] = d]
    BY <2>2
  <2> QED
    BY <2>3 DEF f, g
<1>4. ReloadVals(R) = [ReloadVals(S) EXCEPT ![t] = r.reload_val]
  BY <1>1 DEF ReloadVals
<1>5. Now(R) = Now(S)
  BY DEF Now
<1> QED
  BY <1>3, <1>4, <1>5 DEF d

LEMMA ElapsedIs ==
  ASSUME NEW S, Good(S), S.cur_countdown # 0
  PROVE  Elapsed(S) = Lag(S)
<1>1. S.cur_interval \in 0..(W - 1) /\ S.cur_countdown \in 0..(W - 1) /\ S.cur_countdown <= S.cur_interval
  BY GoodTypes, Widths DEF Good
<1>2. Minus(S.cur_interval, S.cur_countdown) = S.cur_interval - S.cur_countdown
  BY <1>1, MinusIs
<1> QED
  BY <1>2 DEF Elapsed, Lag

LEMMA Reload ==
  ASSUME NEW S, Good(S), Slots(S), Counts(S), NEW t \in Slot, S.timers[t].in_use
  PROVE  LET R == reload_timer(S, t) IN
         /\ Good(R) /\ Slots(R) /\ Counts(R) /\ Linked(R) = Linked(S)
         /\ Left(R) = [Left(S) EXCEPT ![t] = S.timers[t].reload_val]
         /\ ReloadVals(R) = ReloadVals(S) /\ Now(R) = Now(S)
<1> DEFINE a == S.timers[t].reload_val
           R == reload_timer(S, t)
<1>1. /\ S \in StateType /\ S.timers \in [Slot -> TimerType] /\ S.timers[t] \in TimerType
      /\ a \in 0..MAX_RELOAD_VAL /\ a \in 0..(W - 1) /\ Lag(S) \in 0..MAX_RELOAD_VAL
      /\ S.timers[t].ticker_val \in 0..(W - 1)
      /\ S.cur_interval \in 0..MAX_RELOAD_VAL /\ S.cur_countdown \in 0..MAX_RELOAD_VAL
  BY GoodTypes, Widths DEF Good
<1>2. 1 <= a /\ (t \in Linked(S) <=> S.timers[t].is_active)
  BY DEF Slots
<1>3. [ReloadVals(S) EXCEPT ![t] = a] = ReloadVals(S)
  BY DEF ReloadVals
<1> HIDE DEF a
<1>4. CASE S.timers[t].is_active
  <2> DEFINE v == a + Lag(S)
             r == [S.timers[t] EXCEPT !.ticker_val = v]
  <2>1. t \in Linked(S)
    BY <1>2, <1>4
  <2>2. /\ 1 <= S.cur_countdown /\ S.cur_interval <= S.timers[t].ticker_val
        /\ S.timers[t].ticker_val - Lag(S) <= a
    BY <2>1 DEF Counts, Good, a
  <2>3. S.cur_countdown # 0 /\ Lag(S) = S.cur_interval - S.cur_countdown
    BY <2>2, <1>1 DEF Lag
  <2>4. /\ v \in 0..(W - 1) /\ S.timers[t].ticker_val <= v /\ Lag(S) <= v /\ v - Lag(S) = a
        /\ S.cur_interval <= v
    BY <2>2, <2>3, <1>1, Widths
  <2>5. Plus(a, Elapsed(S)) = v
    <3>1. Elapsed(S) = Lag(S) /\ Lag(S) \in 0..(W - 1)
      BY <2>3, <1>1, ElapsedIs, GoodTypes
    <3>2. a + Lag(S) < W
      BY <1>1, Widths
    <3> QED
      BY <3>1, <3>2, <1>1, PlusIs
  <2> HIDE DEF v
  <2>6. v - Lag(S) <= S.timers[t].reload_val
    BY <2>4, <1>1 DEF a
  <2>7. R = sort_timer_back(SetTicker(S, t, v), t)
    BY <2>5, <1>4 DEF reload_timer, a
  <2> HIDE DEF R
  <2>8. /\ Good(R) /\ Lag(R) = Lag(S) /\ Linked(R) = Linked(S) /\ Counts(R)
        /\ R.timers = [S.timers EXCEPT ![t] = r]
        /\ R.global_ticker = S.global_ticker
        /\ R.end_ind = S.end_ind /\ R.num_inuse = S.num_inuse
    BY <2>1, <2>4, <2>6, <2>7, MoveTicker
  <2>9. r \in TimerType /\ r.ticker_val = v /\ r.reload_val = a /\ r.in_use /\ r.is_active
    BY <2>4, <1>1, <1>4 DEF TimerType, a
  <2> HIDE DEF r
  <2>10. Slots(R)
    BY <2>1, <2>8, <2>9, <1>2, SlotsReplaced
  <2>11. Left(R) = [Left(S) EXCEPT ![t] = a] /\ ReloadVals(R) = [ReloadVals(S) EXCEPT ![t] = a] /\ Now(R) = Now(S)
    BY <2>1, <2>4, <2>8, <2>9, ViewReplaced
  <2> QED
    BY <2>8, <2>10, <2>11, <1>3 DEF R, a
<1>5. CASE ~S.timers[t].is_active
  <2> DEFINE r == [S.timers[t] EXCEPT !.ticker_val = a]
  <2>1. t \notin Linked(S)
    BY <1>2, <1>5
  <2>2. R = WithTimer(S, t, r)
    BY <1>1, <1>5 DEF WithTimer, reload_timer, SetTicker, StateType, a
  <2>3. r \in TimerType /\ r.ticker_val = a /\ r.reload_val = a /\ r.in_use /\ ~r.is_active
    BY <1>1, <1>5 DEF TimerType, a
  <2> HIDE DEF r, R
  <2>4. /\ Good(R) /\ Lag(R) = Lag(S) /\ Linked(R) = Linked(S) /\ Counts(R)
        /\ R.timers = [S.timers EXCEPT ![t] = r]
        /\ R.global_ticker = S.global_ticker
        /\ R.end_ind = S.end_ind /\ R.num_inuse = S.num_inuse
    BY <2>1, <2>2, <2>3, Unlinked
  <2>5. t # Watchdog
    BY <2>1 DEF Slots
  <2>6. Slots(R)
    BY <2>1, <2>3, <2>4, <2>5, <1>1, <1>2, SlotsReplaced
  <2>7. Left(R) = [Left(S) EXCEPT ![t] = a] /\ ReloadVals(R) = [ReloadVals(S) EXCEPT ![t] = a] /\ Now(R) = Now(S)
    BY <2>1, <2>3, <2>4, ViewReplaced
  <2> QED
    BY <2>4, <2>6, <2>7, <1>3 DEF R, a
<1> QED
  BY <1>4, <1>5

\* A new reload value, between blocks or in the callback of the timer.
LEMMA SetReload ==
  ASSUME NEW S, Good(S), Slots(S), NEW t \in Slot, S.timers[t].in_use, t # Watchdog,
         NEW a \in 1..MAX_RELOAD_VAL
  PROVE  LET R == set_timer_reload_val(S, t, a) IN
         /\ Good(R) /\ Slots(R) /\ (Counts(S) => Counts(R)) /\ (Lag(S) = 0 => Lag(R) = 0)
         /\ Linked(R) = Linked(S) /\ Left(R) = [Left(S) EXCEPT ![t] = a]
         /\ ReloadVals(R) = [ReloadVals(S) EXCEPT ![t] = a] /\ Now(R) = Now(S)
<1> DEFINE R == set_timer_reload_val(S, t, a)
<1>1. /\ S \in StateType /\ S.timers \in [Slot -> TimerType] /\ S.timers[t] \in TimerType
      /\ a \in 0..MAX_RELOAD_VAL /\ a \in 0..(W - 1) /\ 1 <= a /\ a \in Nat
  BY GoodTypes, Widths DEF Good
<1>2. (t \in Linked(S) <=> S.timers[t].is_active) /\ Watchdog \in Linked(S)
  BY DEF Slots
<1>3. CASE S.timers[t].is_active
  <2> DEFINE P == remove_active_timer(S, t)
             r == [P.timers[t] EXCEPT !.reload_val = a, !.ticker_val = a]
             Q == SetReloadVal(P, t, a)
             C == sync_timers(S)
  <2>1. t \in Linked(S)
    BY <1>2, <1>3
  <2>2. Charged(S, P) /\ Linked(P) = Linked(S) \ {t} /\ (Counts(S) => Counts(P))
    BY <2>1, <1>2, RemoveTimer
  <2>3. Charged(S, C) /\ Slots(C) /\ Linked(C) = Linked(S) /\ Good(C) /\ SameView(S, C)
    BY Sync DEF Charged
  <2> HIDE DEF P, C
  <2>4. Good(P) /\ Lag(P) = 0 /\ P.timers = Synced(S) /\ P.timers[t] \in TimerType
        /\ P.timers[t].in_use /\ P.timers[t].is_active
    BY <2>2, <1>3, SyncedIs DEF Charged
  <2>5. r \in TimerType /\ r.ticker_val = a /\ r.reload_val = a /\ r.in_use /\ r.is_active
    BY <2>4, <1>1 DEF TimerType
  <2>6. Q = WithTimer(P, t, r)
    BY <2>4 DEF WithTimer, SetReloadVal, Good, StateType
  <2> HIDE DEF r, Q
  <2>7. /\ Good(Q) /\ Lag(Q) = 0 /\ Linked(Q) = Linked(P) /\ (Counts(P) => Counts(Q))
        /\ Q.timers = [P.timers EXCEPT ![t] = r] /\ Q.global_ticker = P.global_ticker
        /\ Q.end_ind = P.end_ind /\ Q.num_inuse = P.num_inuse
    BY <2>2, <2>4, <2>5, <2>6, Unlinked
  <2>8. Q.timers[t] = r /\ t \notin Linked(Q)
    BY <2>2, <2>4, <2>7, GoodTypes
  <2>9. R = insert_active_timer(Q, t)
    BY <1>3 DEF set_timer_reload_val, Q, P
  <2> HIDE DEF R
  <2>10. Charged(Q, R) /\ Linked(R) = Linked(Q) \cup {t} /\ (Counts(Q) => Counts(R))
    <3>1. /\ Q.timers[t].ticker_val <= Q.timers[t].reload_val /\ 1 <= Q.timers[t].ticker_val
          /\ t \in Slot \ Linked(Q)
      BY <2>5, <2>8, <1>1
    <3> QED
      BY <3>1, <2>7, <2>9, InsertTimer
  <2>11. /\ R.timers = [C.timers EXCEPT ![t] = r] /\ R.global_ticker = C.global_ticker
         /\ R.end_ind = C.end_ind /\ R.num_inuse = C.num_inuse /\ Good(R) /\ Lag(R) = 0 /\ Lag(C) = 0
    <3>1. Synced(Q) = Q.timers
      BY <2>7, SyncedIs
    <3>2. Plus(Q.global_ticker, 0) = Q.global_ticker
      <4>1. Q.global_ticker \in 0..(W - 1) /\ 0 \in 0..(W - 1)
        BY <2>7, GoodTypes, Widths
      <4> QED
        BY <4>1, PlusIs
    <3> QED
      BY <3>1, <3>2, <2>2, <2>3, <2>4, <2>7, <2>10 DEF Charged
  <2>12. Linked(R) = Linked(S)
    BY <2>1, <2>2, <2>7, <2>10
  <2>13. Slots(R)
    <3>1. C.timers[t].in_use
      BY <2>3, <2>4 DEF Charged
    <3> QED
      BY <3>1, <2>1, <2>3, <2>5, <2>11, <2>12, <1>1, SlotsReplaced
  <2>14. Left(R) = [Left(C) EXCEPT ![t] = a] /\ ReloadVals(R) = [ReloadVals(C) EXCEPT ![t] = a] /\ Now(R) = Now(C)
    <3>1. a - 0 = a
      BY <1>1
    <3> QED
      BY <3>1, <2>1, <2>3, <2>5, <2>11, <2>12, ViewReplaced
  <2> QED
    BY <2>2, <2>3, <2>7, <2>10, <2>11, <2>12, <2>13, <2>14 DEF SameView, R
<1>4. CASE ~S.timers[t].is_active
  <2> DEFINE r == [S.timers[t] EXCEPT !.reload_val = a, !.ticker_val = a]
  <2>1. t \notin Linked(S)
    BY <1>2, <1>4
  <2>2. R = WithTimer(S, t, r)
    BY <1>1, <1>4 DEF WithTimer, set_timer_reload_val, SetReloadVal, StateType
  <2>3. r \in TimerType /\ r.ticker_val = a /\ r.reload_val = a /\ r.in_use /\ ~r.is_active
    BY <1>1, <1>4 DEF TimerType
  <2> HIDE DEF r, R
  <2>4. /\ Good(R) /\ Lag(R) = Lag(S) /\ Linked(R) = Linked(S) /\ (Counts(S) => Counts(R))
        /\ R.timers = [S.timers EXCEPT ![t] = r]
        /\ R.global_ticker = S.global_ticker
        /\ R.end_ind = S.end_ind /\ R.num_inuse = S.num_inuse
    BY <2>1, <2>2, <2>3, Unlinked
  <2>5. Slots(R)
    BY <2>1, <2>3, <2>4, <1>1, SlotsReplaced
  <2>6. Left(R) = [Left(S) EXCEPT ![t] = a] /\ ReloadVals(R) = [ReloadVals(S) EXCEPT ![t] = a] /\ Now(R) = Now(S)
    BY <2>1, <2>3, <2>4, ViewReplaced
  <2> QED
    BY <2>4, <2>5, <2>6 DEF R
<1> QED
  BY <1>3, <1>4

\* Other slot counters.
Renumbered(S, a, b) == [S EXCEPT !.end_ind = a, !.num_inuse = b]

LEMMA Renumber ==
  ASSUME NEW S, Good(S), NEW a \in 0..MAX_TIMERS, NEW b \in 0..MAX_TIMERS
  PROVE  LET R == Renumbered(S, a, b) IN
         /\ Good(R) /\ Lag(R) = Lag(S) /\ Linked(R) = Linked(S) /\ (Counts(S) => Counts(R))
         /\ R.timers = S.timers /\ R.global_ticker = S.global_ticker
         /\ R.end_ind = a /\ R.num_inuse = b
<1> DEFINE R == Renumbered(S, a, b)
<1>1. S \in StateType
  BY DEF Good
<1>2. /\ R \in StateType /\ R.timers = S.timers /\ R.active = S.active
      /\ R.global_ticker = S.global_ticker
      /\ R.cur_interval = S.cur_interval /\ R.cur_countdown = S.cur_countdown
      /\ R.end_ind = a /\ R.num_inuse = b
  BY <1>1 DEF StateType, Renumbered
<1> HIDE DEF R
<1>3. Linked(R) = Linked(S) /\ Lag(R) = Lag(S) /\ Tickers(R) = Tickers(S)
  BY <1>2 DEF Linked, Lag, Tickers
<1>4. Good(R) /\ (Counts(S) => Counts(R))
  BY <1>2, <1>3 DEF Good, Counts
<1> QED
  BY <1>2, <1>3, <1>4 DEF R

LEMMA RecordTypes ==
  /\ Unused \in TimerType /\ Unused.ticker_val = 0 /\ Unused.reload_val = 0
  /\ ~Unused.in_use /\ ~Unused.is_active
  /\ \A r \in Reloads : Positive(r) \in 1..MAX_RELOAD_VAL
  /\ \A a \in 1..MAX_RELOAD_VAL :
        /\ Fresh(a) \in TimerType /\ Fresh(a).ticker_val = a /\ Fresh(a).reload_val = a
        /\ Fresh(a).in_use /\ ~Fresh(a).is_active
<1>1. Unused \in TimerType
  BY Widths DEF Unused, TimerType
<1>2. \A r \in Reloads : Positive(r) \in 1..MAX_RELOAD_VAL
  BY TimersAssumption DEF Positive
<1>3. ASSUME NEW a \in 1..MAX_RELOAD_VAL PROVE Fresh(a) \in TimerType
  BY Widths DEF Fresh, TimerType
<1> QED
  BY <1>1, <1>2, <1>3 DEF Unused, Fresh

LEMMA Add ==
  ASSUME NEW S, Good(S), Slots(S), S.num_inuse < MAX_TIMERS, NEW a \in 1..MAX_RELOAD_VAL
  PROVE  LET t == SlotFor(S)
             e == IF S.num_inuse = S.end_ind THEN S.end_ind + 1 ELSE S.end_ind
             R == Renumbered(WithTimer(S, t, Fresh(a)), e, S.num_inuse + 1) IN
         /\ t \in Slot /\ ReloadVals(S)[t] = 0
         /\ Good(R) /\ Slots(R) /\ (Counts(S) => Counts(R)) /\ Linked(R) = Linked(S)
         /\ Left(R) = [Left(S) EXCEPT ![t] = a]
         /\ ReloadVals(R) = [ReloadVals(S) EXCEPT ![t] = a] /\ Now(R) = Now(S)
<1> DEFINE t == S.end_ind
           f == Fresh(a)
           Q == WithTimer(S, t, f)
           R == Renumbered(Q, t + 1, t + 1)
<1>1. /\ S.num_inuse = t /\ SlotFor(S) = t
  BY DEF Slots, SlotFor
<1>2. t \in Slot /\ t \in 0..MAX_TIMERS /\ t + 1 \in 0..MAX_TIMERS /\ ~(t < t)
  BY <1>1, Widths DEF Good, StateType, Slot
<1> HIDE DEF t
<1>3. ~S.timers[t].in_use /\ S.timers[t] = Unused
  BY <1>2 DEF Slots, t
<1>4. t \notin Linked(S)
  BY <1>3, RecordTypes DEF Slots
<1>5. /\ f \in TimerType /\ f.ticker_val = a /\ f.reload_val = a /\ f.in_use /\ ~f.is_active
  BY RecordTypes
<1> HIDE DEF f, Q, R
<1>6. /\ Good(Q) /\ Lag(Q) = Lag(S) /\ Linked(Q) = Linked(S) /\ (Counts(S) => Counts(Q))
      /\ Q.timers = [S.timers EXCEPT ![t] = f] /\ Q.global_ticker = S.global_ticker
  BY <1>2, <1>4, <1>5, Unlinked DEF Q
<1>7. /\ Good(R) /\ Lag(R) = Lag(S) /\ Linked(R) = Linked(S) /\ (Counts(S) => Counts(R))
      /\ R.timers = [S.timers EXCEPT ![t] = f] /\ R.global_ticker = S.global_ticker
      /\ R.end_ind = t + 1 /\ R.num_inuse = t + 1
  BY <1>2, <1>6, Renumber DEF R
<1>8. \A u \in Slot : R.timers[u] = IF u = t THEN f ELSE S.timers[u]
  BY <1>2, <1>7, GoodTypes
<1>9. Slots(R)
  <2>1. \A u \in Slot : R.timers[u].in_use <=> u < t + 1
    <3> SUFFICES ASSUME NEW u \in Slot PROVE R.timers[u].in_use <=> u < t + 1
      OBVIOUS
    <3>1. S.timers[u].in_use <=> u < t
      BY DEF Slots, t
    <3>2. u \in Nat /\ t \in Nat
      BY <1>2 DEF Slot
    <3>3. u < t + 1 <=> (u = t \/ u < t)
      BY <3>2
    <3> QED
      BY <3>1, <3>3, <1>5, <1>8
  <2>2. {u \in Slot : R.timers[u].is_active} = {u \in Slot : S.timers[u].is_active}
    BY <1>3, <1>5, <1>8, RecordTypes
  <2>3. 1 <= a /\ a <= a
    OBVIOUS
  <2> QED
    BY <2>1, <2>2, <2>3, <1>5, <1>7, <1>8 DEF Slots
<1>10. /\ Left(R) = [Left(S) EXCEPT ![t] = a]
       /\ ReloadVals(R) = [ReloadVals(S) EXCEPT ![t] = a] /\ Now(R) = Now(S)
  BY <1>2, <1>4, <1>5, <1>7, ViewReplaced
<1>11. ReloadVals(S)[t] = 0
  BY <1>2, <1>3, RecordTypes DEF ReloadVals
<1> QED
  BY <1>1, <1>2, <1>7, <1>9, <1>10, <1>11 DEF R, Q, f, t

\* rem_timer: the timer is unlinked, then its slot is given back.
Stopped(S, t) == IF S.timers[t].is_active THEN remove_active_timer(S, t) ELSE S
Freed(P, t) == Renumbered(WithTimer(P, t, Unused), EndAfter(WithTimer(P, t, Unused), t),
                          WithTimer(P, t, Unused).num_inuse - 1)

\* R is S without t.
GivenBack(S, t, R) ==
  /\ Good(R) /\ Slots(R) /\ Counts(R) /\ Linked(R) = Linked(S) \ {t}
  /\ Left(R) = [Left(S) EXCEPT ![t] = 0]
  /\ ReloadVals(R) = [ReloadVals(S) EXCEPT ![t] = 0] /\ Now(R) = Now(S)

\* The last slot is given back.
LEMMA RemoveLast ==
  ASSUME NEW S, Good(S), Slots(S), Counts(S), NEW t \in Slot, t = MAX_TIMERS - 1, t # Watchdog,
         S.timers[t].in_use
  PROVE  GivenBack(S, t, Freed(Stopped(S, t), t))
<1> DEFINE P == Stopped(S, t)
           T == WithTimer(P, t, Unused)
           R == Renumbered(T, EndAfter(T, t), T.num_inuse - 1)
           C == IF S.timers[t].is_active THEN sync_timers(S) ELSE S
<1>1. (t \in Linked(S) <=> S.timers[t].is_active) /\ Watchdog \in Linked(S)
  BY DEF Slots
<1>2. /\ Good(C) /\ Slots(C) /\ Linked(C) = Linked(S) /\ SameView(S, C)
      /\ Good(P) /\ Counts(P) /\ Linked(P) = Linked(S) \ {t} /\ Lag(P) = Lag(C)
      /\ P.timers = C.timers /\ P.global_ticker = C.global_ticker
      /\ P.end_ind = C.end_ind /\ P.num_inuse = C.num_inuse
      /\ C.end_ind = S.end_ind /\ C.num_inuse = S.num_inuse
  <2>1. CASE S.timers[t].is_active
    <3>1. Charged(S, P) /\ Linked(P) = Linked(S) \ {t} /\ Counts(P)
      BY <2>1, <1>1, RemoveTimer DEF Stopped
    <3>2. Charged(S, C) /\ Slots(C) /\ Linked(C) = Linked(S) /\ SameView(S, C)
      BY <2>1, Sync
    <3> HIDE DEF P, C
    <3> QED
      BY <3>1, <3>2 DEF Charged
  <2>2. CASE ~S.timers[t].is_active
    BY <2>2, <1>1 DEF SameView, Stopped
  <2> QED
    BY <2>1, <2>2
<1> HIDE DEF P, C
<1>3. /\ C.end_ind = MAX_TIMERS /\ C.num_inuse = MAX_TIMERS
      /\ \A u \in Slot : C.timers[u].in_use
  <2>1. S.end_ind \in 0..MAX_TIMERS /\ t < S.end_ind
    BY DEF Good, StateType, Slots
  <2>2. S.end_ind = MAX_TIMERS
    BY <2>1, Widths
  <2>3. C.end_ind = MAX_TIMERS /\ C.num_inuse = C.end_ind
    BY <2>2, <1>2 DEF Slots
  <2>4. \A u \in Slot : u < MAX_TIMERS
    BY Widths DEF Slot
  <2> QED
    BY <2>3, <2>4, <1>2 DEF Slots
<1> HIDE DEF T
<1>4. /\ Good(T) /\ Lag(T) = Lag(P) /\ Linked(T) = Linked(P) /\ Counts(T)
      /\ T.timers = [C.timers EXCEPT ![t] = Unused] /\ T.global_ticker = C.global_ticker
      /\ T.end_ind = MAX_TIMERS /\ T.num_inuse = MAX_TIMERS
  BY <1>2, <1>3, RecordTypes, Unlinked DEF T
<1>5. \A u \in Slot : T.timers[u] = IF u = t THEN Unused ELSE C.timers[u]
  BY <1>2, <1>4, GoodTypes
<1>6. t \in Nat /\ t >= 1 /\ t + 1 = MAX_TIMERS /\ t \in 0..MAX_TIMERS /\ MAX_TIMERS - 1 = t
  BY Widths DEF Slot, Watchdog
<1>7. EndAfter(T, t) = t
  <2> DEFINE E == {0} \cup {u + 1 : u \in {v \in 0..t : T.timers[v].in_use}}
  <2>1. \A v \in 0..t : T.timers[v].in_use <=> v # t
    <3> SUFFICES ASSUME NEW v \in 0..t PROVE T.timers[v].in_use <=> v # t
      OBVIOUS
    <3>1. v \in Slot
      BY <1>6 DEF Slot
    <3> QED
      BY <3>1, <1>3, <1>5, RecordTypes
  <2>2. t \in E
    <3>1. t - 1 \in 0..t /\ t - 1 # t /\ (t - 1) + 1 = t
      BY <1>6
    <3> QED
      BY <3>1, <2>1
  <2>3. \A x \in E : x \in Nat /\ t >= x
    <3>1. \A v \in 0..t : v # t => v + 1 \in Nat /\ t >= v + 1
      BY <1>6
    <3> QED
      BY <3>1, <2>1, <1>6
  <2> HIDE DEF E
  <2>4. Max(E) = t
    <3>1. \A x \in E : (\A y \in E : x >= y) => x = t
      BY <2>2, <2>3, <1>6
    <3> QED
      BY <3>1, <2>2, <2>3 DEF Max
  <2> QED
    BY <2>4, <1>4, <1>6 DEF EndAfter, E
<1> HIDE DEF R
<1>8. /\ Good(R) /\ Lag(R) = Lag(C) /\ Linked(R) = Linked(S) \ {t} /\ Counts(R)
      /\ R.timers = [C.timers EXCEPT ![t] = Unused] /\ R.global_ticker = C.global_ticker
      /\ R.end_ind = t /\ R.num_inuse = t
  <2>1. R = Renumbered(T, t, t)
    BY <1>4, <1>6, <1>7 DEF R
  <2> QED
    BY <2>1, <1>2, <1>4, <1>6, Renumber
<1>9. Slots(R)
  <2>1. \A u \in Slot : R.timers[u] = IF u = t THEN Unused ELSE C.timers[u]
    BY <1>2, <1>8, GoodTypes
  <2>2. \A u \in Slot : R.timers[u].in_use <=> u < t
    <3> SUFFICES ASSUME NEW u \in Slot PROVE R.timers[u].in_use <=> u < t
      OBVIOUS
    <3>1. u # t <=> u < t
      BY <1>6 DEF Slot
    <3> QED
      BY <3>1, <2>1, <1>3, RecordTypes
  <2>3. Linked(R) = {u \in Slot : R.timers[u].is_active}
    <3>1. Linked(S) = {u \in Slot : C.timers[u].is_active}
      BY <1>2 DEF Slots
    <3> QED
      BY <3>1, <2>1, <1>8, RecordTypes
  <2>4. \A u \in Slot : u # t => (u \in Linked(R) <=> u \in Linked(C))
    BY <1>2, <1>8
  <2>5. Watchdog \in Linked(R)
    BY <1>1, <1>8
  <2> QED
    BY <2>1, <2>2, <2>3, <2>4, <2>5, <1>2, <1>8, RecordTypes DEF Slots
<1>10. /\ Left(R) = [Left(C) EXCEPT ![t] = 0]
       /\ ReloadVals(R) = [ReloadVals(C) EXCEPT ![t] = 0] /\ Now(R) = Now(C)
  BY <1>2, <1>8, RecordTypes, ViewReplaced
<1> QED
  <2>1. GivenBack(S, t, R)
    BY <1>2, <1>8, <1>9, <1>10 DEF SameView, GivenBack
  <2>2. R = Freed(Stopped(S, t), t)
    BY DEF R, T, P, Freed
  <2> HIDE DEF R, T, P
  <2> QED
    BY <2>1, <2>2, Zenon

\* A block with no timer due: one more block is not charged yet.
Ticked(S) == [S EXCEPT !.cur_countdown = Minus(@, 1)]

LEMMA TickIs ==
  ASSUME NEW S, Good(S), Counts(S)
  PROVE  LET R == Ticked(S) IN
         /\ R \in StateType /\ R.active = S.active /\ R.timers = S.timers
         /\ R.global_ticker = S.global_ticker /\ R.cur_interval = S.cur_interval
         /\ R.cur_countdown = S.cur_countdown - 1
         /\ R.end_ind = S.end_ind /\ R.num_inuse = S.num_inuse
<1>1. /\ S \in StateType /\ S.cur_countdown \in 1..MAX_RELOAD_VAL
  BY DEF Good, Counts, StateType
<1>2. Minus(S.cur_countdown, 1) = S.cur_countdown - 1 /\ S.cur_countdown - 1 \in 0..MAX_RELOAD_VAL
  <2>1. S.cur_countdown \in 0..(W - 1) /\ 1 \in 0..(W - 1) /\ 1 <= S.cur_countdown
    BY <1>1, Widths
  <2> QED
    BY <2>1, <1>1, Widths, MinusIs
<1> DEFINE d == S.cur_countdown - 1
<1> HIDE DEF d
<1>3. Minus(S.cur_countdown, 1) = d /\ d \in 0..MAX_RELOAD_VAL
  BY <1>2 DEF d
<1>4. Ticked(S) = [S EXCEPT !.cur_countdown = d]
  BY <1>3 DEF Ticked
<1> QED
  BY <1>1, <1>3, <1>4 DEF StateType, d

\* The view after one more block.
NextView(S, R) ==
  /\ Left(R) = [t \in Slot |-> IF t \in Linked(S) THEN Left(S)[t] - 1 ELSE Left(S)[t]]
  /\ ReloadVals(R) = ReloadVals(S)
  /\ Now(R) = (Now(S) + 1) % W

LEMMA Tick ==
  ASSUME NEW S, Good(S), Slots(S), Counts(S), Ticked(S).cur_countdown # 0
  PROVE  LET R == Ticked(S) IN
         /\ Good(R) /\ Slots(R) /\ Counts(R) /\ Linked(R) = Linked(S) /\ NextView(S, R)
<1> DEFINE R == Ticked(S)
<1>1. /\ R \in StateType /\ R.active = S.active /\ R.timers = S.timers
      /\ R.global_ticker = S.global_ticker /\ R.cur_interval = S.cur_interval
      /\ R.cur_countdown = S.cur_countdown - 1 /\ R.cur_countdown # 0
      /\ R.end_ind = S.end_ind /\ R.num_inuse = S.num_inuse
  BY TickIs
<1> HIDE DEF R
<1>2. /\ S.cur_interval \in 0..MAX_RELOAD_VAL /\ S.cur_countdown \in 0..MAX_RELOAD_VAL
      /\ S.cur_countdown <= S.cur_interval /\ 1 <= S.cur_countdown
      /\ Lag(S) \in 0..(W - 1) /\ S.global_ticker \in 0..(W - 1)
      /\ \A t \in Linked(S) : t \in Slot /\ S.timers[t].ticker_val \in 0..(W - 1) /\ S.timers[t].reload_val \in 0..MAX_RELOAD_VAL
  BY GoodTypes DEF Good, Counts
<1>3. /\ Lag(S) = S.cur_interval - S.cur_countdown /\ Lag(R) = Lag(S) + 1
      /\ Lag(R) <= S.cur_interval /\ Lag(R) \in 0..(W - 1)
  BY <1>1, <1>2, Widths DEF Lag
<1>4. Linked(R) = Linked(S) /\ Tickers(R) = Tickers(S)
  BY <1>1 DEF Linked, Tickers
<1>5. \A t \in Linked(S) : /\ Lag(R) <= S.timers[t].ticker_val
                          /\ S.timers[t].ticker_val - Lag(R) <= S.timers[t].reload_val
  <2> SUFFICES ASSUME NEW t \in Linked(S)
               PROVE  /\ Lag(R) <= S.timers[t].ticker_val
                      /\ S.timers[t].ticker_val - Lag(R) <= S.timers[t].reload_val
    OBVIOUS
  <2>1. S.cur_interval <= S.timers[t].ticker_val /\ S.timers[t].ticker_val - Lag(S) <= S.timers[t].reload_val
    BY DEF Counts, Good
  <2> QED
    BY <2>1, <1>2, <1>3, Widths
<1>6. Good(R) /\ Counts(R)
  <2>1. R.cur_countdown <= R.cur_interval /\ 1 <= R.cur_countdown
    BY <1>1, <1>2
  <2>2. IsInjective(S.active) /\ OrderedBy(Tickers(S), S.active)
    BY DEF Good
  <2>3. \A t \in Linked(S) : S.cur_interval <= S.timers[t].ticker_val
    BY DEF Counts
  <2> QED
    BY <2>1, <2>2, <2>3, <1>1, <1>4, <1>5 DEF Good, Counts
<1>7. Slots(R)
  BY <1>1, <1>4 DEF Slots
<1>8. NextView(S, R)
  <2>1. ASSUME NEW t \in Slot PROVE Left(R)[t] = IF t \in Linked(S) THEN Left(S)[t] - 1 ELSE Left(S)[t]
    <3>1. Left(R)[t] = IF t \in Linked(R) THEN R.timers[t].ticker_val - Lag(R) ELSE R.timers[t].ticker_val
      BY <1>6, SyncedIs DEF Left
    <3>2. Left(S)[t] = IF t \in Linked(S) THEN S.timers[t].ticker_val - Lag(S) ELSE S.timers[t].ticker_val
      BY SyncedIs DEF Left
    <3>3. CASE t \in Linked(S)
      <4>1. S.timers[t].ticker_val - (Lag(S) + 1) = S.timers[t].ticker_val - Lag(S) - 1
        BY <3>3, <1>2
      <4> QED
        BY <3>1, <3>2, <3>3, <4>1, <1>1, <1>3, <1>4
    <3>4. CASE t \notin Linked(S)
      BY <3>1, <3>2, <3>4, <1>1, <1>4
    <3> QED
      BY <3>3, <3>4
  <2>2. Left(R) = [t \in Slot |-> Left(R)[t]]
    BY DEF Left
  <2>3. Now(R) = (Now(S) + 1) % W
    BY <1>1, <1>2, <1>3, PlusOne DEF Now
  <2>4. ReloadVals(R) = ReloadVals(S)
    BY <1>1 DEF ReloadVals
  <2>5. Left(R) = [t \in Slot |-> IF t \in Linked(S) THEN Left(S)[t] - 1 ELSE Left(S)[t]]
    <3> DEFINE g == Left(R)
    <3>1. g = [t \in Slot |-> g[t]] /\ \A t \in Slot : g[t] = IF t \in Linked(S) THEN Left(S)[t] - 1 ELSE Left(S)[t]
      BY <2>1, <2>2
    <3> HIDE DEF g
    <3>2. g = [t \in Slot |-> IF t \in Linked(S) THEN Left(S)[t] - 1 ELSE Left(S)[t]]
      BY <3>1
    <3> QED
      BY <3>2 DEF g
  <2> QED
    BY <2>3, <2>4, <2>5 DEF NextView
<1> QED
  BY <1>4, <1>6, <1>7, <1>8 DEF R

\* The countdown has elapsed: all of it is charged.
LEMMA Expire ==
  ASSUME NEW S, Good(S), Slots(S), Counts(S), Ticked(S).cur_countdown = 0
  PROVE  LET R == Charge(Ticked(S), Ticked(S).cur_interval) IN
         /\ Good(R) /\ Slots(R) /\ Lag(R) = 0 /\ Linked(R) = Linked(S) /\ NextView(S, R)
<1> DEFINE Q == Ticked(S)
           n == S.cur_interval
           A == [t \in Slot |-> IF t \in Linked(S) THEN Elapse(S.timers[t], n) ELSE S.timers[t]]
           R == Charge(Q, n)
<1>1. /\ Q \in StateType /\ Q.active = S.active /\ Q.timers = S.timers
      /\ Q.global_ticker = S.global_ticker /\ Q.cur_interval = n
      /\ Q.cur_countdown = S.cur_countdown - 1 /\ Q.cur_countdown = 0
      /\ Q.end_ind = S.end_ind /\ Q.num_inuse = S.num_inuse
  BY TickIs
<1> HIDE DEF Q
<1>2. /\ n \in 0..MAX_RELOAD_VAL /\ n \in 0..(W - 1) /\ S.cur_countdown \in 0..MAX_RELOAD_VAL
      /\ Lag(S) \in 0..(W - 1) /\ S.global_ticker \in 0..(W - 1)
      /\ S.timers \in [Slot -> TimerType] /\ S.active \in Seq(Slot) /\ Tickers(S) \in [Slot -> Nat]
      /\ \A t \in Slot : S.timers[t].ticker_val \in 0..(W - 1) /\ S.timers[t].reload_val \in 0..MAX_RELOAD_VAL
      /\ Linked(S) \subseteq Slot
  BY GoodTypes, Widths
<1>3. S.cur_countdown = 1 /\ Lag(S) = n - 1 /\ n = Lag(S) + 1
  BY <1>1, <1>2 DEF Lag
<1> HIDE DEF n
<1>4. \A t \in Linked(S) : n <= S.timers[t].ticker_val /\ S.timers[t].ticker_val - Lag(S) <= S.timers[t].reload_val
  BY DEF Counts, Good, n
<1>5. ASSUME NEW t \in Linked(S)
      PROVE  /\ Elapse(S.timers[t], n) = [S.timers[t] EXCEPT !.ticker_val = S.timers[t].ticker_val - n]
             /\ S.timers[t].ticker_val - n \in 0..(W - 1)
             /\ S.timers[t].ticker_val - n <= S.timers[t].reload_val
             /\ S.timers[t].ticker_val - n = S.timers[t].ticker_val - Lag(S) - 1
  <2>1. S.timers[t].ticker_val \in 0..(W - 1) /\ n <= S.timers[t].ticker_val /\ S.timers[t].reload_val \in 0..MAX_RELOAD_VAL
        /\ S.timers[t].ticker_val - Lag(S) <= S.timers[t].reload_val
    BY <1>2, <1>4
  <2>2. Minus(S.timers[t].ticker_val, n) = S.timers[t].ticker_val - n
    BY <2>1, <1>2, MinusIs
  <2>3. Elapse(S.timers[t], n) = [S.timers[t] EXCEPT !.ticker_val = S.timers[t].ticker_val - n]
    BY <2>2 DEF Elapse
  <2> QED
    BY <2>1, <2>3, <1>2, <1>3, Widths
<1>6. ASSUME NEW t \in Slot
      PROVE  /\ A[t] \in TimerType
             /\ A[t].in_use = S.timers[t].in_use /\ A[t].is_active = S.timers[t].is_active
             /\ A[t].reload_val = S.timers[t].reload_val
             /\ A[t].ticker_val = IF t \in Linked(S) THEN S.timers[t].ticker_val - n ELSE S.timers[t].ticker_val
             /\ t \notin Linked(S) => A[t] = S.timers[t]
  <2>1. S.timers[t] \in TimerType
    BY <1>2
  <2>2. CASE t \in Linked(S)
    <3> DEFINE d == S.timers[t].ticker_val - n
    <3>1. A[t] = [S.timers[t] EXCEPT !.ticker_val = d] /\ d \in 0..(W - 1)
      BY <2>2, <1>5
    <3> HIDE DEF d, A
    <3> QED
      BY <3>1, <2>1, <2>2 DEF TimerType, d
  <2>3. CASE t \notin Linked(S)
    BY <2>1, <2>3
  <2> QED
    BY <2>2, <2>3
<1>7. A \in [Slot -> TimerType]
  BY <1>6
<1>8. R = [Q EXCEPT !.global_ticker = Plus(S.global_ticker, n), !.timers = A]
  BY <1>1 DEF Charge, Linked
<1> HIDE DEF A, R
<1>9. Plus(S.global_ticker, n) \in 0..(W - 1)
  BY <1>2, PlusIs
<1>10. /\ R \in StateType /\ R.active = S.active /\ R.timers = A
       /\ R.global_ticker = Plus(S.global_ticker, n)
       /\ R.cur_countdown = 0 /\ R.cur_interval = n
       /\ R.end_ind = S.end_ind /\ R.num_inuse = S.num_inuse
  BY <1>1, <1>7, <1>8, <1>9 DEF StateType
<1>11. Linked(R) = Linked(S) /\ Lag(R) = 0
  BY <1>10 DEF Linked, Lag
<1>12. OrderedBy(Tickers(R), R.active)
  <2>1. Tickers(R) \in [Slot -> Nat]
    BY <1>10, Widths DEF StateType, TimerType, Tickers
  <2>2. \A t \in ToSet(S.active) : Tickers(R)[t] = Tickers(S)[t] - n
    BY <1>2, <1>6, <1>10 DEF Tickers, Linked
  <2>3. OrderedBy(Tickers(S), S.active) /\ n \in Nat
    BY <1>2, Widths DEF Good
  <2> QED
    BY <2>1, <2>2, <2>3, <1>2, <1>10, OrderKept
<1>13. Good(R)
  <2>1. \A t \in Linked(S) : 0 <= R.timers[t].ticker_val /\ R.timers[t].ticker_val - 0 <= R.timers[t].reload_val
    <3> SUFFICES ASSUME NEW t \in Linked(S)
                 PROVE  0 <= R.timers[t].ticker_val /\ R.timers[t].ticker_val - 0 <= R.timers[t].reload_val
      OBVIOUS
    <3>1. /\ R.timers[t].ticker_val = S.timers[t].ticker_val - n
          /\ R.timers[t].reload_val = S.timers[t].reload_val
      BY <1>2, <1>6, <1>10
    <3>2. S.timers[t].ticker_val - n \in 0..(W - 1) /\ S.timers[t].ticker_val - n <= S.timers[t].reload_val
      BY <1>5
    <3> QED
      BY <3>1, <3>2, Widths
  <2>2. R.cur_countdown <= R.cur_interval /\ IsInjective(R.active)
    BY <1>2, <1>10, Widths DEF Good
  <2> QED
    BY <2>1, <2>2, <1>10, <1>11, <1>12 DEF Good
<1>14. Slots(R)
  <2>1. {u \in Slot : R.timers[u].is_active} = {u \in Slot : S.timers[u].is_active}
    BY <1>6, <1>10
  <2>2. \A u \in Slot : ~S.timers[u].in_use => u \notin Linked(S)
    <3>1. \A u \in Slot : ~S.timers[u].in_use => S.timers[u] = Unused
      BY DEF Slots
    <3>2. \A u \in Linked(S) : S.timers[u].is_active
      BY DEF Slots
    <3> QED
      BY <3>1, <3>2, RecordTypes
  <2> QED
    BY <2>1, <2>2, <1>6, <1>10, <1>11 DEF Slots
<1>15. NextView(S, R)
  <2>1. ASSUME NEW t \in Slot PROVE Left(R)[t] = IF t \in Linked(S) THEN Left(S)[t] - 1 ELSE Left(S)[t]
    <3>1. Left(R)[t] = R.timers[t].ticker_val
      BY <1>11, <1>13, SyncedIs DEF Left
    <3>2. Left(S)[t] = IF t \in Linked(S) THEN S.timers[t].ticker_val - Lag(S) ELSE S.timers[t].ticker_val
      BY SyncedIs DEF Left
    <3> QED
      BY <3>1, <3>2, <1>5, <1>6, <1>10
  <2>2. Left(R) = [t \in Slot |-> Left(R)[t]]
    BY DEF Left
  <2>3. Now(R) = (Now(S) + 1) % W
    <3>1. Plus(R.global_ticker, 0) = R.global_ticker
      <4>1. R.global_ticker \in 0..(W - 1) /\ 0 \in 0..(W - 1)
        BY <1>9, <1>10, Widths
      <4> QED
        BY <4>1, PlusIs
    <3>2. (Plus(S.global_ticker, Lag(S)) + 1) % W = Plus(S.global_ticker, Lag(S) + 1)
      <4>1. Lag(S) + 1 \in 0..(W - 1)
        BY <1>2, <1>3
      <4> QED
        BY <4>1, <1>2, PlusOne
    <3> QED
      BY <3>1, <3>2, <1>3, <1>10, <1>11 DEF Now
  <2>4. ReloadVals(R) = ReloadVals(S)
    BY <1>6, <1>10 DEF ReloadVals
  <2>5. Left(R) = [t \in Slot |-> IF t \in Linked(S) THEN Left(S)[t] - 1 ELSE Left(S)[t]]
    <3> DEFINE g == Left(R)
    <3>1. g = [t \in Slot |-> g[t]] /\ \A t \in Slot : g[t] = IF t \in Linked(S) THEN Left(S)[t] - 1 ELSE Left(S)[t]
      BY <2>1, <2>2
    <3> HIDE DEF g
    <3>2. g = [t \in Slot |-> IF t \in Linked(S) THEN Left(S)[t] - 1 ELSE Left(S)[t]]
      BY <3>1
    <3> QED
      BY <3>2 DEF g
  <2> QED
    BY <2>3, <2>4, <2>5 DEF NextView
<1> QED
  <2>1. R = Charge(Ticked(S), Ticked(S).cur_interval)
    BY <1>1 DEF R, Q
  <2> QED
    BY <2>1, <1>11, <1>13, <1>14, <1>15

\* The front timer is due: it is reloaded and sorted back.
LEMMA Dispatched ==
  ASSUME NEW S, Good(S), Slots(S), Lag(S) = 0, NEW t \in Linked(S), S.timers[t].ticker_val = 0
  PROVE  LET R == sort_timer_back(SetTicker(S, t, S.timers[t].reload_val), t) IN
         /\ Good(R) /\ Slots(R) /\ Lag(R) = 0 /\ Linked(R) = Linked(S) /\ Left(S)[t] = 0
         /\ Left(R) = [Left(S) EXCEPT ![t] = S.timers[t].reload_val]
         /\ ReloadVals(R) = ReloadVals(S) /\ Now(R) = Now(S)
<1> DEFINE a == S.timers[t].reload_val
           r == [S.timers[t] EXCEPT !.ticker_val = a]
           R == sort_timer_back(SetTicker(S, t, a), t)
<1>1. /\ S.timers \in [Slot -> TimerType] /\ t \in Slot /\ S.timers[t] \in TimerType
      /\ a \in 0..MAX_RELOAD_VAL /\ a \in 0..(W - 1)
  BY GoodTypes, Widths
<1>2. S.timers[t].in_use /\ S.timers[t].is_active /\ 1 <= a /\ Watchdog \in Linked(S)
  <2>1. S.timers[t].is_active
    BY <1>1 DEF Slots
  <2>2. S.timers[t].in_use
    BY <2>1, <1>1, RecordTypes DEF Slots
  <2> QED
    BY <2>1, <2>2, <1>1 DEF Slots
<1>3. [ReloadVals(S) EXCEPT ![t] = a] = ReloadVals(S)
  BY DEF ReloadVals
<1>4. a <= S.timers[t].reload_val
  BY <1>1
<1> HIDE DEF a, R
<1>5. r \in TimerType /\ r.ticker_val = a /\ r.reload_val = a /\ r.in_use /\ r.is_active
  BY <1>1, <1>2 DEF TimerType, a
<1>6. /\ Good(R) /\ Lag(R) = 0 /\ Linked(R) = Linked(S)
      /\ R.timers = [S.timers EXCEPT ![t] = r] /\ R.global_ticker = S.global_ticker
      /\ R.end_ind = S.end_ind /\ R.num_inuse = S.num_inuse
  <2>1. S.timers[t].ticker_val <= a /\ Lag(S) <= a /\ a - Lag(S) <= S.timers[t].reload_val
    BY <1>1, <1>4
  <2> QED
    BY <2>1, <1>1, MoveTicker DEF R
<1> HIDE DEF r
<1>7. Slots(R)
  BY <1>1, <1>2, <1>5, <1>6, SlotsReplaced
<1>8. Left(R) = [Left(S) EXCEPT ![t] = a] /\ ReloadVals(R) = [ReloadVals(S) EXCEPT ![t] = a] /\ Now(R) = Now(S)
  <2>1. a - 0 = a
    BY <1>1
  <2> QED
    BY <2>1, <1>1, <1>5, <1>6, ViewReplaced
<1>9. Left(S)[t] = 0
  BY <1>1, SyncedIs DEF Left
<1> QED
  BY <1>3, <1>6, <1>7, <1>8, <1>9 DEF R, a

\* After the last callback the countdown is restarted for the front timer.
LEMMA Restarted ==
  ASSUME NEW S, Good(S), Slots(S), Lag(S) = 0, NEW t \in Linked(S), t = S.active[1],
         S.timers[t].ticker_val # 0
  PROVE  LET R == CountDownTo(S, S.timers[t].ticker_val) IN
         /\ Good(R) /\ Slots(R) /\ Counts(R) /\ Linked(R) = Linked(S) /\ SameView(S, R)
<1> DEFINE v == S.timers[t].ticker_val
           R == CountDownTo(S, v)
<1>1. v \in 0..(W - 1) /\ 1 <= v
  BY GoodTypes
<1> HIDE DEF R
<1>2. /\ Good(R) /\ Lag(R) = 0 /\ R.active = S.active /\ R.timers = S.timers
      /\ R.global_ticker = S.global_ticker
      /\ R.end_ind = S.end_ind /\ R.num_inuse = S.num_inuse
      /\ Counts(R)
  BY <1>1, CountDownIs DEF R
<1>3. Linked(R) = Linked(S)
  BY <1>2 DEF Linked
<1>4. Slots(R)
  BY <1>2, <1>3 DEF Slots
<1>5. Synced(R) = S.timers /\ Synced(S) = S.timers
  BY <1>2, SyncedIs
<1>6. SameView(S, R)
  BY <1>2, <1>5 DEF SameView, Left, ReloadVals, Now
<1> QED
  BY <1>2, <1>3, <1>4, <1>6 DEF R

-----------------------------------------------------------------------------
\* The refinement mapping, in terms of the invariant.
LEMMA Mapped ==
  ASSUME NEW S, NEW p, NEW c, Inv(S, p, c)
  PROVE  LET n == IF p = "run" THEN Elapsed(S) ELSE 0 IN
         /\ {t \in Slot : S.timers[t].is_active} = Linked(S)
         /\ [t \in Slot |-> Minus(S.timers[t].ticker_val, IF S.timers[t].is_active THEN n ELSE 0)] = Left(S)
         /\ Plus(S.global_ticker, n) = Now(S)
<1> DEFINE n == IF p = "run" THEN Elapsed(S) ELSE 0
           b(t) == IF S.timers[t].is_active THEN n ELSE 0
<1>1. Good(S) /\ Slots(S) /\ (p = "run" => Counts(S)) /\ (p # "run" => Lag(S) = 0)
  BY DEF Inv
<1>2. n = Lag(S)
  <2>1. CASE p = "run"
    <3>1. S.cur_countdown # 0
      BY <2>1, <1>1 DEF Counts
    <3> QED
      BY <2>1, <3>1, <1>1, ElapsedIs
  <2>2. CASE p # "run"
    BY <2>2, <1>1
  <2> QED
    BY <2>1, <2>2
<1> HIDE DEF n
<1>3. Linked(S) = {t \in Slot : S.timers[t].is_active}
  BY <1>1 DEF Slots
<1>4. ASSUME NEW t \in Slot PROVE Minus(S.timers[t].ticker_val, b(t)) = Left(S)[t]
  <2>1. /\ S.timers[t].ticker_val \in 0..(W - 1) /\ Lag(S) \in 0..(W - 1) /\ 0 \in 0..(W - 1)
    BY <1>1, GoodTypes, Widths
  <2>2. Left(S)[t] = IF t \in Linked(S) THEN S.timers[t].ticker_val - Lag(S) ELSE S.timers[t].ticker_val
    BY <1>1, SyncedIs DEF Left
  <2>3. CASE t \in Linked(S)
    <3>1. b(t) = Lag(S) /\ Lag(S) <= S.timers[t].ticker_val
      BY <2>3, <1>1, <1>2, <1>3 DEF Good
    <3> HIDE DEF b
    <3> QED
      BY <3>1, <2>1, <2>2, <2>3, MinusIs
  <2>4. CASE t \notin Linked(S)
    <3>1. b(t) = 0 /\ 0 <= S.timers[t].ticker_val /\ S.timers[t].ticker_val - 0 = S.timers[t].ticker_val
      BY <2>4, <2>1, <1>3
    <3> HIDE DEF b
    <3> QED
      BY <3>1, <2>1, <2>2, <2>4, MinusIs
  <2> QED
    BY <2>3, <2>4
<1>5. Left(S) = [t \in Slot |-> Left(S)[t]]
  BY DEF Left
<1>6. [t \in Slot |-> Minus(S.timers[t].ticker_val, b(t))] = Left(S)
  <2> HIDE DEF b
  <2>1. [t \in Slot |-> Minus(S.timers[t].ticker_val, b(t))] = [t \in Slot |-> Left(S)[t]]
    BY <1>4
  <2> QED
    BY <2>1, <1>5
<1> QED
  BY <1>2, <1>3, <1>6 DEF Now, n

\* The refinement mapping of Timers gives this view.
ViewNow ==
  /\ {t \in Slot : Active(t)} = Linked(timers)
  /\ [t \in Slot |-> Minus(timers.timers[t].ticker_val, IF Active(t) THEN NotYetCharged ELSE 0)] = Left(timers)
  /\ [t \in Slot |-> timers.timers[t].reload_val] = ReloadVals(timers)
  /\ Plus(timers.global_ticker, NotYetCharged) = Now(timers)

LEMMA Views == /\ IInv => ViewNow
               /\ IInv' => ViewNow'
<1>1. IInv => ViewNow
  BY Mapped DEF IInv, ViewNow, Active, NotYetCharged, ReloadVals
<1>2. IInv' => ViewNow'
  BY Mapped DEF IInv, ViewNow, Active, NotYetCharged, ReloadVals
<1> QED
  BY <1>1, <1>2

LEMMA InitGood ==
  ASSUME Init
  PROVE  IInv /\ Abstract!Init
<1> DEFINE S == timers
           A == [t \in Slot |-> IF t = Watchdog THEN [Fresh(FuzzTimeout) EXCEPT !.is_active = TRUE]
                                ELSE Unused]
           w == [Fresh(FuzzTimeout) EXCEPT !.is_active = TRUE]
<1>1. /\ FuzzTimeout \in 1..MAX_RELOAD_VAL /\ FuzzTimeout \in 0..MAX_RELOAD_VAL
      /\ FuzzTimeout \in 0..(W - 1) /\ 0 \in 0..(W - 1) /\ 1 \in 0..MAX_TIMERS
  BY Widths
<1>2. /\ w \in TimerType /\ w.ticker_val = FuzzTimeout /\ w.reload_val = FuzzTimeout
      /\ w.in_use /\ w.is_active
  BY <1>1, RecordTypes DEF Fresh, TimerType
<1> HIDE DEF w
<1>3. /\ \A t \in Slot : A[t] = IF t = Watchdog THEN w ELSE Unused
      /\ A \in [Slot -> TimerType]
  BY <1>2, RecordTypes DEF w
<1> HIDE DEF A
<1>4. S = [active |-> <<Watchdog>>, cur_interval |-> FuzzTimeout, cur_countdown |-> FuzzTimeout,
           global_ticker |-> 0, timers |-> A, end_ind |-> 1, num_inuse |-> 1]
  BY DEF Init, A
<1> HIDE DEF S
<1>5. S \in StateType /\ S.active = <<Watchdog>> /\ Lag(S) = 0 /\ S.timers = A
      /\ S.cur_countdown = FuzzTimeout /\ S.cur_interval = FuzzTimeout /\ S.global_ticker = 0
      /\ S.end_ind = 1 /\ S.num_inuse = 1
  BY <1>1, <1>3, <1>4, Widths DEF StateType, Lag
<1>6. Linked(S) = {Watchdog} /\ IsInjective(S.active) /\ OrderedBy(Tickers(S), S.active)
  <2>1. DOMAIN <<Watchdog>> = {1} /\ <<Watchdog>>[1] = Watchdog
    OBVIOUS
  <2> QED
    BY <2>1, <1>5 DEF Linked, ToSet, IsInjective, OrderedBy
<1>7. S.timers[Watchdog] = w
  BY <1>3, <1>5, Widths
<1>8. Good(S) /\ Counts(S)
  BY <1>1, <1>2, <1>5, <1>6, <1>7 DEF Good, Counts
<1>9. Slots(S)
  <2>1. \A t \in Slot : t < 1 <=> t = Watchdog
    BY DEF Slot, Watchdog
  <2>2. \A t \in Slot : S.timers[t].in_use <=> t < S.end_ind
    BY <2>1, <1>2, <1>3, <1>5, RecordTypes
  <2>3. \A t \in Slot : ~S.timers[t].in_use => S.timers[t] = Unused
    BY <1>2, <1>3, <1>5
  <2>4. \A t \in Slot : S.timers[t].in_use => t = Watchdog
    BY <1>3, <1>5, RecordTypes
  <2>5. Linked(S) = {t \in Slot : S.timers[t].is_active}
    BY <1>2, <1>3, <1>5, <1>6, Widths, RecordTypes
  <2> QED
    BY <2>2, <2>3, <2>4, <2>5, <1>1, <1>2, <1>5, <1>6, <1>7 DEF Slots
<1>10. IInv
  BY <1>5, <1>8, <1>9 DEF IInv, Inv, Init, S
<1>11. Left(S) = ReloadVals(S) /\ ReloadVals(S) \in [Slot -> Nat] /\ Now(S) = 0
  <2>1. Synced(S) = S.timers
    BY <1>5, <1>8, SyncedIs
  <2>2. \A t \in Slot : S.timers[t].ticker_val = S.timers[t].reload_val /\ S.timers[t].reload_val \in Nat
    BY <1>1, <1>2, <1>3, <1>5, RecordTypes
  <2>3. Plus(0, 0) = 0
    BY <1>1, PlusIs
  <2> QED
    BY <2>1, <2>2, <2>3, <1>5 DEF Left, ReloadVals, Now
<1>12. ViewNow
  BY <1>10, Views
<1>13. Linked(S) \in SUBSET Slot
  BY <1>6, Widths
<1> QED
  BY <1>10, <1>11, <1>12, <1>13 DEF Abstract!Init, ViewNow, S, Init

-----------------------------------------------------------------------------
\* One lemma per action: it keeps the invariant, and the abstract timers take a step
\* or none.

AbstractStep == [Abstract!Next]_(Abstract!vars)

LEMMA Stutters ==
  ASSUME IInv, IInv', Linked(timers') = Linked(timers), SameView(timers, timers'), cur' = cur
  PROVE  AbstractStep
<1>1. ViewNow /\ ViewNow'
  BY Views
<1> QED
  BY <1>1 DEF AbstractStep, Abstract!vars, ViewNow, SameView

\* Between blocks the countdown runs and no callback does.
LEMMA Running ==
  ASSUME IInv, phase = "run"
  PROVE  Good(timers) /\ Slots(timers) /\ Counts(timers) /\ cur = None
  BY DEF IInv, Inv

LEMMA RunningNext ==
  ASSUME Good(timers'), Slots(timers'), Counts(timers'), phase' = "run", cur' = None
  PROVE  IInv'
  BY DEF IInv, Inv

\* The watchdog is linked, so no other timer is the only one in the list.
LEMMA NeverEmptied ==
  ASSUME Slots(timers), NEW t \in Slot, t # Watchdog
  PROVE  ~Emptied(t)
<1>1. ASSUME Emptied(t) PROVE FALSE
  <2>1. timers.active = <<t>>
    BY <1>1 DEF Emptied
  <2>2. Linked(timers) = {t}
    BY <2>1 DEF Linked, ToSet
  <2> QED
    BY <2>2 DEF Slots
<1> QED
  BY <1>1

LEMMA StepAdd ==
  ASSUME IInv, NEW r \in Reloads, add_timer(r)
  PROVE  IInv' /\ AbstractStep
<1> DEFINE t == SlotFor(timers)
           a == Positive(r)
           e == IF timers.num_inuse = timers.end_ind THEN timers.end_ind + 1 ELSE timers.end_ind
           R == Renumbered(WithTimer(timers, t, Fresh(a)), e, timers.num_inuse + 1)
<1>1. /\ phase = "run" /\ phase' = "run" /\ cur' = cur /\ timers.num_inuse < MAX_TIMERS
      /\ timers' = R
  BY DEF add_timer, Renumbered, WithTimer
<1>2. Good(timers) /\ Slots(timers) /\ Counts(timers) /\ cur = None
  BY <1>1, Running
<1>3. a \in 1..MAX_RELOAD_VAL
  BY RecordTypes
<1> HIDE DEF a
<1>4. /\ t \in Slot /\ ReloadVals(timers)[t] = 0
      /\ Good(R) /\ Slots(R) /\ Counts(R) /\ Linked(R) = Linked(timers)
      /\ Left(R) = [Left(timers) EXCEPT ![t] = a]
      /\ ReloadVals(R) = [ReloadVals(timers) EXCEPT ![t] = a] /\ Now(R) = Now(timers)
  BY <1>1, <1>2, <1>3, Add
<1> HIDE DEF t, R
<1>5. IInv'
  BY <1>1, <1>2, <1>4, RunningNext
<1>6. ViewNow /\ ViewNow'
  BY <1>5, Views
<1>7. PICK k \in Slot : k = t
  BY <1>4
<1>8. ReloadVals(timers)[k] = 0 /\ ReloadVals(timers')[k] = a /\ a # 0
  BY <1>1, <1>3, <1>4, <1>7 DEF ReloadVals
<1>9. Abstract!SetReload(k)
  BY <1>1, <1>2, <1>4, <1>6, <1>7, <1>8 DEF Abstract!SetReload, ViewNow
<1> QED
  BY <1>5, <1>9 DEF AbstractStep, Abstract!Next

LEMMA StepRem ==
  ASSUME IInv, Removable \subseteq {MAX_TIMERS - 1}, NEW t \in Slot, rem_timer(t)
  PROVE  IInv' /\ AbstractStep
<1> DEFINE R == Freed(Stopped(timers, t), t)
<1>1. phase = "run" /\ cur' = cur /\ timers.timers[t].in_use /\ t = MAX_TIMERS - 1 /\ t # Watchdog
  BY TimersAssumption DEF rem_timer, InUse
<1>2. Good(timers) /\ Slots(timers) /\ Counts(timers) /\ cur = None
  BY <1>1, Running
<1>3. ~Emptied(t)
  BY <1>1, <1>2, NeverEmptied
<1>4. phase' = "run" /\ timers' = R
  BY <1>1, <1>3 DEF rem_timer, Freed, Stopped, Renumbered, WithTimer, Active
<1>5. GivenBack(timers, t, R)
  BY <1>1, <1>2, RemoveLast
<1> HIDE DEF R
<1>6. IInv'
  BY <1>1, <1>2, <1>4, <1>5, RunningNext DEF GivenBack
<1>7. ViewNow /\ ViewNow'
  BY <1>6, Views
<1>8. Abstract!Remove(t)
  BY <1>1, <1>2, <1>4, <1>5, <1>7 DEF Abstract!Remove, ViewNow, GivenBack
<1> QED
  BY <1>6, <1>8 DEF AbstractStep, Abstract!Next

LEMMA StepStart ==
  ASSUME IInv, NEW t \in Slot, start_timer(t)
  PROVE  IInv' /\ AbstractStep
<1> DEFINE R == insert_active_timer([timers EXCEPT !.timers[t].is_active = TRUE], t)
<1>1. /\ phase = "run" /\ phase' = "run" /\ cur' = cur /\ timers' = R
      /\ timers.timers[t].in_use /\ ~timers.timers[t].is_active
  BY DEF start_timer, InUse, Active
<1>2. Good(timers) /\ Slots(timers) /\ Counts(timers) /\ cur = None
  BY <1>1, Running
<1>3. /\ Good(R) /\ Slots(R) /\ Counts(R)
      /\ Linked(R) = Linked(timers) \cup {t} /\ SameView(timers, R)
  BY <1>1, <1>2, Start
<1> HIDE DEF R
<1>4. IInv'
  BY <1>1, <1>2, <1>3, RunningNext
<1>5. ViewNow /\ ViewNow'
  BY <1>4, Views
<1>6. Abstract!Start(t)
  BY <1>1, <1>3, <1>5 DEF Abstract!Start, ViewNow, SameView
<1> QED
  BY <1>4, <1>6 DEF AbstractStep, Abstract!Next

LEMMA StepStop ==
  ASSUME IInv, NEW t \in Slot, stop_timer(t)
  PROVE  IInv' /\ AbstractStep
<1> DEFINE R == remove_active_timer([timers EXCEPT !.timers[t].is_active = FALSE], t)
<1>1. phase = "run" /\ cur' = cur /\ timers.timers[t].is_active /\ t # Watchdog
  BY DEF stop_timer, Active
<1>2. Good(timers) /\ Slots(timers) /\ Counts(timers) /\ cur = None
  BY <1>1, Running
<1>3. ~Emptied(t)
  BY <1>1, <1>2, NeverEmptied
<1>4. phase' = "run" /\ timers' = R
  BY <1>1, <1>3 DEF stop_timer
<1>5. /\ Good(R) /\ Slots(R) /\ Counts(R)
      /\ Linked(R) = Linked(timers) \ {t} /\ SameView(timers, R)
  BY <1>1, <1>2, Stop
<1> HIDE DEF R
<1>6. IInv'
  BY <1>1, <1>2, <1>4, <1>5, RunningNext
<1>7. ViewNow /\ ViewNow'
  BY <1>6, Views
<1>8. Abstract!Stop(t)
  BY <1>1, <1>4, <1>5, <1>7 DEF Abstract!Stop, ViewNow, SameView
<1> QED
  BY <1>6, <1>8 DEF AbstractStep, Abstract!Next

LEMMA StepReload ==
  ASSUME IInv, ~FuzzedTriggers, NEW t \in Slot, ReloadTimer(t)
  PROVE  IInv' /\ AbstractStep
<1> DEFINE R == reload_timer(timers, t)
           a == timers.timers[t].reload_val
<1>1. phase = "run" /\ phase' = phase /\ cur' = cur /\ timers.timers[t].in_use /\ timers' = R
  BY DEF ReloadTimer, InUse
<1>2. Good(timers) /\ Slots(timers) /\ Counts(timers) /\ cur = None
  BY <1>1, Running
<1>3. /\ Good(R) /\ Slots(R) /\ Counts(R) /\ Linked(R) = Linked(timers)
      /\ Left(R) = [Left(timers) EXCEPT ![t] = a]
      /\ ReloadVals(R) = ReloadVals(timers) /\ Now(R) = Now(timers)
  BY <1>1, <1>2, Reload
<1>4. a = ReloadVals(timers)[t]
  BY DEF ReloadVals
<1> HIDE DEF R, a
<1>5. IInv'
  BY <1>1, <1>2, <1>3, RunningNext
<1>6. ViewNow /\ ViewNow'
  BY <1>5, Views
<1>7. Abstract!Reload(t)
  BY <1>1, <1>3, <1>4, <1>6 DEF Abstract!Reload, ViewNow
<1> QED
  BY <1>5, <1>7 DEF AbstractStep, Abstract!Next

LEMMA StepSetReload ==
  ASSUME IInv, NEW t \in Slot, NEW r \in Reloads, SetTimerReloadVal(t, r)
  PROVE  IInv' /\ AbstractStep
<1> DEFINE a == Positive(r)
           R == set_timer_reload_val(timers, t, a)
<1>1. /\ phase \in {"run", "callback"} /\ cur' = cur /\ timers.timers[t].in_use /\ t # Watchdog
      /\ a # timers.timers[t].reload_val
  BY DEF SetTimerReloadVal, InUse
<1>2. /\ Good(timers) /\ Slots(timers)
      /\ IF phase = "run" THEN Counts(timers) /\ cur = None ELSE Lag(timers) = 0 /\ cur \in Slot
  BY <1>1 DEF IInv, Inv
<1>3. ~Emptied(t)
  BY <1>1, <1>2, NeverEmptied
<1>4. phase' = (IF phase = "callback" THEN "returning" ELSE phase) /\ timers' = R
  BY <1>3 DEF SetTimerReloadVal
<1>5. a \in 1..MAX_RELOAD_VAL
  BY RecordTypes
<1>6. ReloadVals(timers)[t] # a
  BY <1>1 DEF ReloadVals
<1> HIDE DEF a
<1>7. /\ Good(R) /\ Slots(R) /\ (Counts(timers) => Counts(R)) /\ (Lag(timers) = 0 => Lag(R) = 0)
      /\ Linked(R) = Linked(timers) /\ Left(R) = [Left(timers) EXCEPT ![t] = a]
      /\ ReloadVals(R) = [ReloadVals(timers) EXCEPT ![t] = a] /\ Now(R) = Now(timers)
  BY <1>1, <1>2, <1>5, SetReload
<1> HIDE DEF R
<1>8. IInv'
  <2>1. CASE phase = "run"
    BY <2>1, <1>1, <1>2, <1>4, <1>7, RunningNext
  <2>2. CASE phase = "callback"
    BY <2>2, <1>1, <1>2, <1>4, <1>7 DEF IInv, Inv
  <2> QED
    BY <2>1, <2>2, <1>1
<1>9. ViewNow /\ ViewNow'
  BY <1>8, Views
<1>10. ReloadVals(timers')[t] = a
  BY <1>4, <1>7 DEF ReloadVals
<1>11. Abstract!SetReload(t)
  BY <1>1, <1>4, <1>6, <1>7, <1>9, <1>10 DEF Abstract!SetReload, ViewNow
<1> QED
  BY <1>8, <1>11 DEF AbstractStep, Abstract!Next

LEMMA StepSync ==
  ASSUME IInv, get_global_ticker
  PROVE  IInv' /\ AbstractStep
<1>1. phase = "run" /\ phase' = "run" /\ cur' = cur /\ timers' = sync_timers(timers)
  BY DEF get_global_ticker
<1>2. Good(timers) /\ Slots(timers) /\ Counts(timers) /\ cur = None
  BY <1>1, Running
<1>3. /\ Good(timers') /\ Slots(timers') /\ Counts(timers')
      /\ Linked(timers') = Linked(timers) /\ SameView(timers, timers')
  BY <1>1, <1>2, Sync DEF Charged
<1>4. IInv'
  BY <1>1, <1>2, <1>3, RunningNext
<1> QED
  BY <1>1, <1>3, <1>4, Stutters

LEMMA StepBlock ==
  ASSUME IInv, Block
  PROVE  IInv' /\ AbstractStep
<1> DEFINE Q == Ticked(timers)
           R == IF Q.cur_countdown # 0 THEN Q ELSE Charge(Q, Q.cur_interval)
<1>1. /\ phase = "run" /\ cur' = cur /\ timers' = R
      /\ phase' = IF Q.cur_countdown # 0 THEN "run" ELSE "dispatch"
  BY DEF Block, Ticked
<1>2. Good(timers) /\ Slots(timers) /\ Counts(timers) /\ cur = None
  BY <1>1, Running
<1>3. /\ Good(R) /\ Slots(R) /\ Linked(R) = Linked(timers) /\ NextView(timers, R)
      /\ IF Q.cur_countdown # 0 THEN Counts(R) ELSE Lag(R) = 0
  <2>1. CASE Q.cur_countdown # 0
    BY <2>1, <1>2, Tick
  <2>2. CASE Q.cur_countdown = 0
    BY <2>2, <1>2, Expire
  <2> QED
    BY <2>1, <2>2
<1> HIDE DEF Q, R
<1>4. IInv'
  BY <1>1, <1>2, <1>3 DEF IInv, Inv
<1>5. ViewNow /\ ViewNow'
  BY <1>4, Views
<1>6. \A t \in Linked(timers) : Left(timers)[t] > 0
  <2> SUFFICES ASSUME NEW t \in Linked(timers) PROVE Left(timers)[t] > 0
    OBVIOUS
  <2>1. t \in Slot /\ timers.timers[t].is_active
    BY <1>2, GoodTypes DEF Slots
  <2>2. timers.timers[t].in_use
    BY <2>1, <1>2, RecordTypes DEF Slots
  <2> QED
    BY <2>1, <2>2, <1>2, LeftBounds
<1>7. Abstract!Tick
  BY <1>1, <1>2, <1>3, <1>5, <1>6 DEF Abstract!Tick, ViewNow, NextView
<1> QED
  BY <1>4, <1>7 DEF AbstractStep, Abstract!Next

LEMMA StepDispatch ==
  ASSUME IInv, Dispatch
  PROVE  IInv' /\ AbstractStep
<1> DEFINE t == Head(timers.active)
           a == timers.timers[t].reload_val
           R == sort_timer_back(SetTicker(timers, t, a), t)
<1>1. /\ phase = "dispatch" /\ phase' = "callback" /\ cur' = t /\ timers' = R
      /\ timers.timers[t].ticker_val = 0
  BY DEF Dispatch
<1>2. Good(timers) /\ Slots(timers) /\ Lag(timers) = 0 /\ cur = None
  BY <1>1 DEF IInv, Inv
<1>3. t \in Linked(timers) /\ t \in Slot
  BY <1>2, GoodTypes, HeadIs DEF Slots, Linked
<1> HIDE DEF t
<1>4. /\ Good(R) /\ Slots(R) /\ Lag(R) = 0 /\ Linked(R) = Linked(timers) /\ Left(timers)[t] = 0
      /\ Left(R) = [Left(timers) EXCEPT ![t] = a]
      /\ ReloadVals(R) = ReloadVals(timers) /\ Now(R) = Now(timers)
  BY <1>1, <1>2, <1>3, Dispatched
<1>5. a = ReloadVals(timers)[t]
  BY <1>3 DEF ReloadVals
<1> HIDE DEF R, a
<1>6. IInv'
  BY <1>1, <1>3, <1>4 DEF IInv, Inv
<1>7. ViewNow /\ ViewNow'
  BY <1>6, Views
<1>8. Abstract!Fire(t)
  BY <1>1, <1>2, <1>3, <1>4, <1>5, <1>7 DEF Abstract!Fire, ViewNow
<1> QED
  BY <1>3, <1>6, <1>8 DEF AbstractStep, Abstract!Next

LEMMA StepReturn ==
  ASSUME IInv, CallbackReturns
  PROVE  IInv' /\ AbstractStep
<1>1. phase \in {"callback", "returning"} /\ phase' = "dispatch" /\ cur' = None /\ timers' = timers
  BY DEF CallbackReturns
<1>2. Good(timers) /\ Slots(timers) /\ Lag(timers) = 0 /\ cur \in Slot
  BY <1>1 DEF IInv, Inv
<1>3. IInv'
  BY <1>1, <1>2 DEF IInv, Inv
<1>4. ViewNow /\ ViewNow'
  BY <1>3, Views
<1>5. Abstract!Return
  BY <1>1, <1>2, <1>4, Widths DEF Abstract!Return, ViewNow
<1> QED
  BY <1>3, <1>5 DEF AbstractStep, Abstract!Next

LEMMA StepEnds ==
  ASSUME IInv, DispatchEnds
  PROVE  IInv' /\ AbstractStep
<1> DEFINE t == Head(timers.active)
           v == timers.timers[t].ticker_val
<1>1. /\ phase = "dispatch" /\ phase' = "run" /\ cur' = cur /\ v # 0
      /\ timers' = CountDownTo(timers, v)
  BY DEF DispatchEnds
<1>2. Good(timers) /\ Slots(timers) /\ Lag(timers) = 0 /\ cur = None
  BY <1>1 DEF IInv, Inv
<1>3. t \in Linked(timers) /\ t = timers.active[1]
  BY <1>2, GoodTypes, HeadIs DEF Slots, Linked
<1> HIDE DEF t
<1>4. /\ Good(timers') /\ Slots(timers') /\ Counts(timers')
      /\ Linked(timers') = Linked(timers) /\ SameView(timers, timers')
  BY <1>1, <1>2, <1>3, Restarted
<1>5. IInv'
  BY <1>1, <1>2, <1>4, RunningNext
<1> QED
  BY <1>1, <1>4, <1>5, Stutters

LEMMA StepNone ==
  ASSUME IInv, UNCHANGED vars
  PROVE  IInv' /\ AbstractStep
<1>1. timers' = timers /\ phase' = phase /\ cur' = cur
  BY DEF vars
<1>2. IInv'
  BY <1>1 DEF IInv
<1> QED
  BY <1>1, <1>2, Stutters DEF SameView

-----------------------------------------------------------------------------
LEMMA StepGood ==
  ASSUME IInv, ~FuzzedTriggers, Removable \subseteq {MAX_TIMERS - 1}, [Next]_vars
  PROVE  IInv' /\ AbstractStep
<1>1. ASSUME NEW r \in Reloads, add_timer(r) PROVE IInv' /\ AbstractStep
  BY <1>1, StepAdd
<1>2. ASSUME NEW t \in Slot, rem_timer(t) PROVE IInv' /\ AbstractStep
  BY <1>2, StepRem
<1>3. ASSUME NEW t \in Slot, start_timer(t) PROVE IInv' /\ AbstractStep
  BY <1>3, StepStart
<1>4. ASSUME NEW t \in Slot, stop_timer(t) PROVE IInv' /\ AbstractStep
  BY <1>4, StepStop
<1>5. ASSUME NEW t \in Slot, ReloadTimer(t) PROVE IInv' /\ AbstractStep
  BY <1>5, StepReload
<1>6. ASSUME NEW t \in Slot, NEW r \in Reloads, SetTimerReloadVal(t, r) PROVE IInv' /\ AbstractStep
  BY <1>6, StepSetReload
<1>7. ASSUME get_global_ticker PROVE IInv' /\ AbstractStep
  BY <1>7, StepSync
<1>8. ASSUME Block PROVE IInv' /\ AbstractStep
  BY <1>8, StepBlock
<1>9. ASSUME Dispatch PROVE IInv' /\ AbstractStep
  BY <1>9, StepDispatch
<1>10. ASSUME CallbackReturns PROVE IInv' /\ AbstractStep
  BY <1>10, StepReturn
<1>11. ASSUME DispatchEnds PROVE IInv' /\ AbstractStep
  BY <1>11, StepEnds
<1>12. ASSUME UNCHANGED vars PROVE IInv' /\ AbstractStep
  BY <1>12, StepNone
<1> QED
  BY <1>1, <1>2, <1>3, <1>4, <1>5, <1>6, <1>7, <1>8, <1>9, <1>10, <1>11, <1>12
     DEF Next, Hook

LEMMA Invariance ==
  ASSUME ~FuzzedTriggers, Removable \subseteq {MAX_TIMERS - 1}
  PROVE  Spec => []IInv
<1>1. Init => IInv
  BY InitGood
<1>2. IInv /\ [Next]_vars => IInv'
  BY StepGood
<1> QED
  BY <1>1, <1>2, PTL DEF Spec

\* Tickers and counters stay in range, and add_timer and rem_timer keep the number of used
\* slots and the end of the used part exact.
THEOREM TypeCorrect ==
  ASSUME ~FuzzedTriggers, Removable \subseteq {MAX_TIMERS - 1}
  PROVE  Spec => []TypeOK
<1>1. ASSUME IInv PROVE TypeOK
  <2>1. Good(timers) /\ Slots(timers) /\ phase \in {"run", "dispatch", "callback", "returning"}
        /\ cur \in Slot \cup {None}
    BY <1>1 DEF IInv, Inv
  <2>2. /\ timers.cur_interval \in 0..(W - 1) /\ timers.cur_countdown \in 0..(W - 1)
        /\ timers.global_ticker \in 0..(W - 1)
        /\ timers.end_ind \in 0..MAX_TIMERS /\ timers.num_inuse \in 0..MAX_TIMERS
        /\ timers.active \in Seq(Slot)
        /\ \A t \in Slot : timers.timers[t].ticker_val \in 0..(W - 1) /\ timers.timers[t].reload_val \in 0..(W - 1)
    <3>1. timers \in StateType
      BY <2>1 DEF Good
    <3> QED
      BY <3>1, <2>1, GoodTypes, Widths DEF StateType
  <2>3. {t \in Slot : InUse(t)} = 0..(timers.end_ind - 1)
    <3>1. \A t \in 0..(timers.end_ind - 1) : t \in Slot /\ t < timers.end_ind
      BY <2>2, Widths DEF Slot
    <3>2. \A t \in Slot : t < timers.end_ind => t \in 0..(timers.end_ind - 1)
      BY <2>2, Widths DEF Slot
    <3> QED
      BY <3>1, <3>2, <2>1 DEF Slots, InUse
  <2>4. timers.num_inuse = Cardinality({t \in Slot : InUse(t)})
    <3>1. Cardinality(0..(timers.end_ind - 1)) = timers.end_ind
      <4>1. 0 \in Int /\ timers.end_ind - 1 \in Int /\ timers.end_ind \in Nat
        BY <2>2
      <4>2. Cardinality(0..(timers.end_ind - 1)) = IF 0 > timers.end_ind - 1 THEN 0 ELSE (timers.end_ind - 1) - 0 + 1
        BY <4>1, FS_Interval
      <4> QED
        BY <4>1, <4>2
    <3> QED
      BY <3>1, <2>1, <2>3 DEF Slots
  <2>5. \A t \in Slot : InUse(t) => t < timers.end_ind
    BY <2>1 DEF Slots, InUse
  <2> QED
    BY <2>1, <2>2, <2>4, <2>5 DEF TypeOK
<1> QED
  BY <1>1, Invariance, PTL

\* The list holds each active timer once, the next to expire first, after any sequence of
\* insertions, removals, reloads and expiries.
THEOREM ListStaysSorted ==
  ASSUME ~FuzzedTriggers, Removable \subseteq {MAX_TIMERS - 1}
  PROVE  Spec => []ActiveSorted
<1>1. ASSUME IInv PROVE ActiveSorted
  <2>1. Good(timers) /\ Slots(timers)
    BY <1>1 DEF IInv, Inv
  <2>2. ToSet(timers.active) = {t \in Slot : Active(t)} /\ IsInjective(timers.active)
    BY <2>1 DEF Slots, Good, Linked, Active
  <2>3. ASSUME NEW i \in DOMAIN timers.active, NEW j \in DOMAIN timers.active, i < j
        PROVE  timers.timers[timers.active[i]].ticker_val <= timers.timers[timers.active[j]].ticker_val
    <3>1. timers.active[i] \in Slot /\ timers.active[j] \in Slot
      BY <2>1, GoodTypes
    <3>2. Tickers(timers)[timers.active[i]] <= Tickers(timers)[timers.active[j]]
      BY <2>1, <2>3 DEF Good, OrderedBy
    <3> QED
      BY <3>1, <3>2 DEF Tickers
  <2> QED
    BY <2>2, <2>3 DEF ActiveSorted
<1> QED
  BY <1>1, Invariance, PTL

\* The countdown reaches zero no later than the first active timer, and no timer has more
\* left than its reload value.
THEOREM NoExpiryMissed ==
  ASSUME ~FuzzedTriggers, Removable \subseteq {MAX_TIMERS - 1}
  PROVE  Spec => []NothingPassedOver
<1>1. ASSUME IInv PROVE NothingPassedOver
  <2> SUFFICES ASSUME phase = "run"
               PROVE  /\ 1 <= timers.cur_countdown /\ timers.cur_countdown <= timers.cur_interval
                      /\ timers.cur_interval <= MAX_RELOAD_VAL
                      /\ \A t \in Linked(timers) :
                           /\ timers.cur_interval <= timers.timers[t].ticker_val
                           /\ Minus(timers.timers[t].ticker_val, Elapsed(timers)) <= timers.timers[t].reload_val
    BY DEF NothingPassedOver, Linked
  <2>1. Good(timers) /\ Slots(timers) /\ Counts(timers)
    BY <1>1, Running
  <2>2. /\ 1 <= timers.cur_countdown /\ timers.cur_countdown <= timers.cur_interval
        /\ timers.cur_interval <= MAX_RELOAD_VAL /\ timers.cur_countdown # 0
    BY <2>1, GoodTypes, Widths DEF Good, Counts
  <2>3. ASSUME NEW t \in Linked(timers)
        PROVE  /\ timers.cur_interval <= timers.timers[t].ticker_val
               /\ Minus(timers.timers[t].ticker_val, Elapsed(timers)) <= timers.timers[t].reload_val
    <3>1. /\ timers.cur_interval <= timers.timers[t].ticker_val
          /\ Lag(timers) <= timers.timers[t].ticker_val
          /\ timers.timers[t].ticker_val - Lag(timers) <= timers.timers[t].reload_val
      BY <2>1 DEF Good, Counts
    <3>2. Elapsed(timers) = Lag(timers)
      BY <2>1, <2>2, ElapsedIs
    <3>3. timers.timers[t].ticker_val \in 0..(W - 1) /\ Lag(timers) \in 0..(W - 1)
      BY <2>1, GoodTypes
    <3> QED
      BY <3>1, <3>2, <3>3, MinusIs
  <2> QED
    BY <2>2, <2>3
<1> QED
  BY <1>1, Invariance, PTL

\* The timers behave as if every block decremented each running timer: timer.c implements
\* AbstractTimers.
THEOREM BatchesUnseen ==
  ASSUME ~FuzzedTriggers, Removable \subseteq {MAX_TIMERS - 1}
  PROVE  Spec => RefinesAbstract
<1>1. Init => Abstract!Init
  BY InitGood
<1>2. IInv /\ [Next]_vars => [Abstract!Next]_(Abstract!vars)
  BY StepGood DEF AbstractStep
<1> QED
  BY <1>1, <1>2, Invariance, PTL DEF Spec, RefinesAbstract, Abstract!Spec

=============================================================================
