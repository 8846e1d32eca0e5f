-------------------------- MODULE PageRestoreProofs --------------------------
(***************************************************************************)
(* Proofs about PageRestore, for any memory map of disjoint regions, any   *)
(* layout of zero pages and any order of writes.                           *)
(*                                                                         *)
(* SnapInv is the heart of the invariant: the saved regions are disjoint   *)
(* and hold each page of RAM once, with the content it had; each entry of  *)
(* a list lies in the region it was made for, with its pointer at its own  *)
(* place in the copy, and no two overlap; and what is listed is just what  *)
(* is not protected any more.  That an entry is never joined to a page of  *)
(* another region (ListIs) is what keeps pointers within their copies.     *)
(***************************************************************************)
EXTENDS PageRestore, FiniteSetTheorems, WellFoundedInduction, TLAPS

(* The lists of pages to restore. *)

\* Saved regions do not overlap.
Separate(R) ==
  /\ \A r \in R : r.start \in Nat /\ r.size \in Nat \ {0}
  /\ \A r, s \in R : \A p \in Nat : In(p, r) /\ In(p, s) => r = s

EntryType(R) == [start : Nat, size : Nat \ {0}, from : R, offset : Nat]

\* An entry lies within its saved region, and its pointer into the copy fits its place.
Within(e) ==
  /\ e.from.start <= e.start /\ e.start + e.size <= e.from.start + e.from.size
  /\ e.offset = e.start - e.from.start

ListOk(R, l) ==
  /\ l \in Seq(EntryType(R))
  /\ \A j \in 1..Len(l) : Within(l[j])
  /\ \A i, j \in 1..Len(l) : \A p \in Nat : In(p, l[i]) /\ In(p, l[j]) => i = j

Listed(l) == {p \in Nat : \E j \in 1..Len(l) : In(p, l[j])}

\* A set of numbers that is not empty has a least element.
LEMMA MinIs ==
  ASSUME NEW S, S \subseteq Nat, S # {}
  PROVE  Min(S) \in S /\ \A k \in S : Min(S) <= k
<1>1. \E m \in S : \A k \in S : m <= k
  <2> DEFINE R == OpToRel(<, Nat)
  <2>1. IsWellFoundedOn(R, Nat)
    BY NatLessThanWellFounded
  <2> HIDE DEF R
  <2>2. \E x \in S : \A y \in S : ~ (<<y, x>> \in R)
    BY <2>1, WFMin
  <2>3. \A x, y \in Nat : <<y, x>> \in R <=> y < x
    BY DEF R, OpToRel
  <2>4. PICK m \in S : \A k \in S : ~ (<<k, m>> \in R)
    BY <2>2
  <2>5. ASSUME NEW k \in S PROVE m <= k
    <3>1. m \in Nat /\ k \in Nat
      OBVIOUS
    <3>2. ~(k < m)
      BY <2>3, <2>4, <3>1
    <3> QED
      BY <3>1, <3>2
  <2> QED
    BY <2>5
<1> QED
  BY <1>1 DEF Min

\* A new entry for p alone.
LEMMA Appended ==
  ASSUME NEW R, NEW l, ListOk(R, l), NEW p \in Nat, p \notin Listed(l),
         NEW e \in EntryType(R), Within(e), \A q \in Nat : In(q, e) <=> q = p
  PROVE  LET m == Append(l, e) IN
         ListOk(R, m) /\ Listed(m) = Listed(l) \cup {p} /\ m # l
<1> DEFINE m == Append(l, e)
<1>1. /\ l \in Seq(EntryType(R)) /\ m \in Seq(EntryType(R))
      /\ Len(l) \in Nat /\ Len(m) = Len(l) + 1 /\ m[Len(l) + 1] = e
      /\ \A j \in 1..Len(l) : m[j] = l[j]
  BY DEF ListOk
<1> HIDE DEF m
<1>2. \A j \in 1..Len(m) : j \in 1..Len(l) \/ j = Len(l) + 1
  BY <1>1
<1>3. \A j \in 1..Len(l) : j \in 1..Len(m) /\ Within(l[j])
  BY <1>1 DEF ListOk
<1>4. Len(l) + 1 \in 1..Len(m)
  BY <1>1
<1>5. \A j \in 1..Len(l) : ~In(p, l[j])
  BY DEF Listed
<1>6. ListOk(R, m)
  <2>1. \A j \in 1..Len(m) : Within(m[j])
    BY <1>1, <1>2, <1>3
  <2>2. ASSUME NEW i \in 1..Len(m), NEW j \in 1..Len(m), NEW q \in Nat, In(q, m[i]), In(q, m[j])
        PROVE  i = j
    <3>1. CASE i \in 1..Len(l) /\ j \in 1..Len(l)
      BY <2>2, <3>1, <1>1 DEF ListOk
    <3>2. CASE i = Len(l) + 1 /\ j = Len(l) + 1
      BY <3>2
    <3>3. CASE i = Len(l) + 1 /\ j \in 1..Len(l)
      BY <2>2, <3>3, <1>1, <1>5
    <3>4. CASE j = Len(l) + 1 /\ i \in 1..Len(l)
      BY <2>2, <3>4, <1>1, <1>5
    <3> QED
      BY <3>1, <3>2, <3>3, <3>4, <1>2
  <2> QED
    BY <1>1, <2>1, <2>2 DEF ListOk
<1>7. Listed(m) = Listed(l) \cup {p}
  BY <1>1, <1>2, <1>3, <1>4 DEF Listed
<1>8. m # l
  BY <1>1
<1> QED
  BY <1>6, <1>7, <1>8 DEF m

\* An entry grown by p.
LEMMA Grown ==
  ASSUME NEW R, NEW l, ListOk(R, l), NEW p \in Nat, p \notin Listed(l), NEW j \in 1..Len(l),
         NEW e \in EntryType(R), Within(e), \A q \in Nat : In(q, e) <=> In(q, l[j]) \/ q = p
  PROVE  LET m == [l EXCEPT ![j] = e] IN
         ListOk(R, m) /\ Listed(m) = Listed(l) \cup {p} /\ m # l
<1> DEFINE m == [l EXCEPT ![j] = e]
<1>1. /\ l \in Seq(EntryType(R)) /\ m \in Seq(EntryType(R))
      /\ Len(l) \in Nat /\ Len(m) = Len(l) /\ m[j] = e
      /\ \A i \in 1..Len(l) : i # j => m[i] = l[i]
  BY DEF ListOk
<1> HIDE DEF m
<1>2. \A i \in 1..Len(l) : ~In(p, l[i]) /\ Within(l[i])
  BY DEF Listed, ListOk
<1>3. \A i, k \in 1..Len(l) : \A q \in Nat : In(q, l[i]) /\ In(q, l[k]) => i = k
  BY DEF ListOk
<1>4. ListOk(R, m)
  <2>1. \A i \in 1..Len(m) : Within(m[i])
    BY <1>1, <1>2
  <2>2. ASSUME NEW i \in 1..Len(m), NEW k \in 1..Len(m), NEW q \in Nat, In(q, m[i]), In(q, m[k])
        PROVE  i = k
    <3>1. CASE q = p
      <4>1. \A n \in 1..Len(l) : n # j => ~In(q, m[n])
        BY <3>1, <1>1, <1>2
      <4> QED
        BY <4>1, <2>2, <1>1
    <3>2. CASE q # p
      <4>1. \A n \in 1..Len(l) : In(q, m[n]) => In(q, l[n])
        BY <3>2, <1>1
      <4> QED
        BY <4>1, <2>2, <1>1, <1>3
    <3> QED
      BY <3>1, <3>2
  <2> QED
    BY <1>1, <2>1, <2>2 DEF ListOk
<1>5. Listed(m) = Listed(l) \cup {p}
  BY <1>1 DEF Listed
<1>6. m # l
  <2>1. In(p, m[j]) /\ ~In(p, l[j])
    BY <1>1, <1>2
  <2> QED
    BY <2>1
<1> QED
  BY <1>4, <1>5, <1>6 DEF m

\* Listing a page that is not listed yet: it alone is added.
LEMMA ListIs ==
  ASSUME NEW R, Separate(R), NEW l, ListOk(R, l), NEW r \in R, NEW p \in Nat, In(p, r),
         p \notin Listed(l)
  PROVE  LET m == List(l, r, p) IN
         ListOk(R, m) /\ Listed(m) = Listed(l) \cup {p} /\ m # l
<1> DEFINE j == Neighbour(l, r, p)
           I == {i \in 1..Len(l) : Near(r, p, l[i])}
<1>1. /\ r.start \in Nat /\ r.size \in Nat \ {0} /\ r.start <= p /\ p < r.start + r.size
      /\ l \in Seq(EntryType(R)) /\ Len(l) \in Nat
  BY DEF Separate, In, ListOk
<1>2. \A i \in 1..Len(l) : /\ l[i] \in EntryType(R) /\ Within(l[i]) /\ ~In(p, l[i])
                           /\ l[i].start \in Nat /\ l[i].size \in Nat \ {0} /\ l[i].offset \in Nat
                           /\ l[i].from \in R
                           /\ l[i].from.start \in Nat /\ l[i].from.size \in Nat
  <2> SUFFICES ASSUME NEW i \in 1..Len(l)
               PROVE  /\ l[i] \in EntryType(R) /\ Within(l[i]) /\ ~In(p, l[i])
                      /\ l[i].start \in Nat /\ l[i].size \in Nat \ {0} /\ l[i].offset \in Nat
                      /\ l[i].from \in R
                      /\ l[i].from.start \in Nat /\ l[i].from.size \in Nat
    OBVIOUS
  <2>1. l[i] \in EntryType(R)
    BY <1>1
  <2>2. Within(l[i]) /\ ~In(p, l[i])
    BY DEF ListOk, Listed
  <2>3. l[i].start \in Nat /\ l[i].size \in Nat \ {0} /\ l[i].offset \in Nat /\ l[i].from \in R
    BY <2>1 DEF EntryType
  <2> QED
    BY <2>1, <2>2, <2>3 DEF Separate
<1>3. j = IF I # {} THEN Min(I) ELSE 0
  BY DEF SelectInSeq, Neighbour
<1>4. j = 0 \/ (j \in 1..Len(l) /\ Near(r, p, l[j]) /\ j # 0)
  <2>1. CASE I = {}
    BY <2>1, <1>3
  <2>2. CASE I # {}
    <3>1. I \subseteq Nat
      OBVIOUS
    <3>2. Min(I) \in I
      BY <3>1, <2>2, MinIs
    <3> QED
      BY <2>2, <3>2, <1>3
  <2> QED
    BY <2>1, <2>2
<1> HIDE DEF j, I
\* A page of r next to p belongs to r only.
<1>5. ASSUME NEW i \in 1..Len(l), NEW q \in Nat, In(q, r), In(q, l[i]) PROVE l[i].from = r
  <2>1. l[i] \in EntryType(R) /\ Within(l[i])
    BY <1>2, <1>5
  <2>2. l[i].from \in R /\ l[i].start \in Nat /\ l[i].size \in Nat
    BY <2>1 DEF EntryType
  <2>3. l[i].from.start \in Nat /\ l[i].from.size \in Nat
    BY <2>2 DEF Separate
  <2>4. In(q, l[i].from)
    BY <1>5, <2>1, <2>2, <2>3 DEF Within, In
  <2> QED
    BY <1>5, <2>2, <2>4 DEF Separate
<1>6. CASE j = 0
  <2> DEFINE e == NewEntry(r, p)
  <2>1. e \in EntryType(R) /\ Within(e) /\ \A q \in Nat : In(q, e) <=> q = p
    BY <1>1 DEF NewEntry, EntryType, Within, In
  <2>2. List(l, r, p) = Append(l, e)
    BY <1>6 DEF List, j
  <2> HIDE DEF e
  <2> QED
    BY <2>1, <2>2, Appended
<1>7. CASE j # 0
  <2> DEFINE e == l[j]
  <2>1. /\ j \in 1..Len(l) /\ e \in EntryType(R) /\ Within(e) /\ ~In(p, e)
        /\ e.start \in Nat /\ e.size \in Nat \ {0} /\ e.offset \in Nat /\ e.from \in R
        /\ e.from.start \in Nat /\ e.from.size \in Nat
    BY <1>2, <1>4, <1>7
  <2>2. \/ p # r.start /\ e.start + e.size = p
        \/ p + 1 # r.start + r.size /\ p + 1 = e.start
    BY <2>1, <1>4, <1>7 DEF Near
  <2>3. CASE e.start + e.size = p
    <3> DEFINE f == Append1(e)
    <3>1. p # r.start
      BY <2>1, <2>2, <2>3
    <3>2. p - 1 \in Nat /\ In(p - 1, r) /\ In(p - 1, e)
      BY <3>1, <2>1, <2>3, <1>1 DEF In
    <3>3. e.from = r
      BY <3>2, <2>1, <1>5
    <3> HIDE DEF e
    <3>4. /\ f.start = e.start /\ f.size = e.size + 1 /\ f.from = r /\ f.offset = e.offset
          /\ f \in EntryType(R)
      BY <2>1, <3>3 DEF Append1, EntryType
    <3> HIDE DEF f
    <3>5. Within(f) /\ \A q \in Nat : In(q, f) <=> In(q, e) \/ q = p
      BY <3>3, <3>4, <2>1, <2>3, <1>1 DEF Within, In
    <3>6. List(l, r, p) = [l EXCEPT ![j] = f]
      BY <1>7, <2>1, <2>3 DEF List, j, e, f
    <3>7. LET m == [l EXCEPT ![j] = f] IN
          ListOk(R, m) /\ Listed(m) = Listed(l) \cup {p} /\ m # l
      BY <3>4, <3>5, <2>1, Grown DEF e
    <3> QED
      BY <3>6, <3>7
  <2>4. CASE e.start + e.size # p
    <3> DEFINE f == Prepend(e)
    <3>1. p + 1 # r.start + r.size /\ p + 1 = e.start
      BY <2>2, <2>4
    <3>2. p + 1 \in Nat /\ In(p + 1, r) /\ In(p + 1, e)
      BY <3>1, <2>1, <1>1 DEF In
    <3>3. e.from = r
      BY <3>2, <2>1, <1>5
    <3> HIDE DEF e
    <3>4. e.offset - 1 \in Nat /\ e.start - 1 = p
      BY <3>1, <3>3, <2>1, <1>1 DEF Within
    <3>5. /\ f.start = p /\ f.size = e.size + 1 /\ f.from = r /\ f.offset = e.offset - 1
          /\ f \in EntryType(R)
      <4> DEFINE k == e.offset - 1
                 n == e.size + 1
      <4>0. k \in Nat /\ n \in Nat \ {0}
        BY <2>1, <3>4
      <4>1. f = [e EXCEPT !.start = p, !.size = n, !.offset = k]
        BY <3>4 DEF Prepend
      <4> HIDE DEF k, n, f
      <4>2. /\ f.start = p /\ f.size = n /\ f.from = e.from /\ f.offset = k
            /\ f \in EntryType(R)
        BY <4>0, <4>1, <2>1 DEF EntryType
      <4> QED
        BY <4>2, <3>3 DEF k, n
    <3> HIDE DEF f
    <3>6. Within(f) /\ \A q \in Nat : In(q, f) <=> In(q, e) \/ q = p
      <4>1. /\ r.start <= e.start /\ e.start + e.size <= r.start + r.size
            /\ e.offset = e.start - r.start /\ e.start = p + 1
        BY <2>1, <3>1, <3>3 DEF Within
      <4>2. Within(f)
        <5>1. /\ r.start <= p /\ p + (e.size + 1) <= r.start + r.size
              /\ e.offset - 1 = p - r.start
          BY <4>1, <2>1, <1>1
        <5> QED
          BY <5>1, <3>5 DEF Within
      <4>3. \A q \in Nat : In(q, f) <=> In(q, e) \/ q = p
        BY <4>1, <3>5, <2>1 DEF In
      <4> QED
        BY <4>2, <4>3
    <3>7. List(l, r, p) = [l EXCEPT ![j] = f]
      BY <1>7, <2>1, <2>4, <3>1 DEF List, j, e, f
    <3>8. LET m == [l EXCEPT ![j] = f] IN
          ListOk(R, m) /\ Listed(m) = Listed(l) \cup {p} /\ m # l
      <4>1. /\ f \in EntryType(R) /\ Within(f) /\ j \in 1..Len(l)
            /\ \A q \in Nat : In(q, f) <=> In(q, l[j]) \/ q = p
        BY <3>5, <3>6, <2>1 DEF e
      <4> QED
        BY <4>1, Grown
    <3> QED
      BY <3>7, <3>8
  <2> QED
    BY <2>3, <2>4
<1> QED
  BY <1>6, <1>7

-----------------------------------------------------------------------------
(* The snapshot. *)

\* Each page belongs to one region of the memory map.
LEMMA RegionsAre ==
  /\ \A r \in Regions : r.begin \in Nat /\ r.end \in Nat /\ r.begin < r.end /\ r.kind \in Kinds
  /\ \A r, s \in Regions : \A p \in Nat :
        p \in r.begin..(r.end - 1) /\ p \in s.begin..(s.end - 1) => r = s
  /\ Page \subseteq Nat /\ Ram \subseteq Page
  /\ \A p \in Page : Writable(p) <=> p \notin PagesOf("rom")
  /\ \A p \in Page : p \in Ram => p \notin PagesOf("rom")
  /\ \A p \in Page : p \in Ram \/ p \in PagesOf("rom") \/ p \in PagesOf("mmio")
<1>1. \A r \in Regions : r.begin \in Nat /\ r.end \in Nat /\ r.begin < r.end /\ r.kind \in Kinds
  BY PageRestoreAssumption
<1>2. \A r, s \in Regions : \A p \in Nat :
        p \in r.begin..(r.end - 1) /\ p \in s.begin..(s.end - 1) => r = s
  <2> SUFFICES ASSUME NEW r \in Regions, NEW s \in Regions, NEW p \in Nat,
                      p \in r.begin..(r.end - 1), p \in s.begin..(s.end - 1)
               PROVE  r = s
    OBVIOUS
  <2>1. r = s \/ r.end <= s.begin \/ s.end <= r.begin
    BY PageRestoreAssumption
  <2> QED
    BY <2>1, <1>1
<1>3. \A kind : \A p : p \in PagesOf(kind) <=> \E r \in Regions : r.kind = kind /\ p \in r.begin..(r.end - 1)
  BY DEF PagesOf
<1>4. Page \subseteq Nat /\ Ram \subseteq Page
  BY <1>1, <1>3 DEF Page, Ram
<1>5. \A p \in Page : \A r \in Regions : (r.begin <= p /\ p < r.end) <=> p \in r.begin..(r.end - 1)
  BY <1>1, <1>4
<1>6. \A p \in Page : \E r \in Regions : p \in r.begin..(r.end - 1)
  BY <1>3 DEF Page, Ram
<1>7. \A p \in Page : Writable(p) <=> p \notin PagesOf("rom")
  <2> SUFFICES ASSUME NEW p \in Page PROVE Writable(p) <=> p \notin PagesOf("rom")
    OBVIOUS
  <2>1. PICK r \in Regions : p \in r.begin..(r.end - 1)
    BY <1>6
  <2>2. \A s \in Regions : p \in s.begin..(s.end - 1) => s = r
    BY <2>1, <1>2, <1>4
  <2>3. Writable(p) <=> r.kind # "rom"
    BY <2>1, <2>2, <1>5 DEF Writable
  <2> QED
    BY <2>1, <2>2, <2>3, <1>3
<1>8. \A p \in Page : p \in Ram => p \notin PagesOf("rom")
  <2> SUFFICES ASSUME NEW p \in Ram, p \in PagesOf("rom") PROVE FALSE
    OBVIOUS
  <2>1. PICK r \in Regions : r.kind = "ram" /\ p \in r.begin..(r.end - 1)
    BY <1>3 DEF Ram
  <2>2. PICK s \in Regions : s.kind = "rom" /\ p \in s.begin..(s.end - 1)
    BY <1>3
  <2>3. r = s
    BY <2>1, <2>2, <1>2, <1>4
  <2> QED
    BY <2>1, <2>2, <2>3
<1> QED
  BY <1>1, <1>2, <1>4, <1>7, <1>8 DEF Page

\* The stretches of a region are disjoint and hold its pages of the kind asked for.
LEMMA StretchesAre ==
  ASSUME NEW r \in Regions, NEW nulls \in BOOLEAN
  PROVE  /\ \A s \in Stretches(r, nulls) :
              /\ s.start \in Nat /\ s.size \in Nat \ {0} /\ s = [start |-> s.start, size |-> s.size]
              /\ \A p \in Nat : In(p, s) => Alike(r, nulls, p)
         /\ \A p \in Nat : Alike(r, nulls, p) => \E s \in Stretches(r, nulls) : In(p, s)
         /\ \A s, t \in Stretches(r, nulls) : \A p \in Nat : In(p, s) /\ In(p, t) => s = t
<1>1. r.begin \in Nat /\ r.end \in Nat /\ r.begin < r.end
  BY RegionsAre
<1>2. ASSUME NEW s \in Stretches(r, nulls)
      PROVE  /\ s.start \in Nat /\ s.size \in Nat \ {0} /\ s = [start |-> s.start, size |-> s.size]
             /\ \A p \in Nat : In(p, s) => Alike(r, nulls, p)
             /\ ~Alike(r, nulls, s.start - 1) /\ ~Alike(r, nulls, s.start + s.size)
  <2>1. s \in [start : r.begin..(r.end - 1), size : 1..(r.end - r.begin)]
    BY DEF Stretches
  <2>2. s.start \in Nat /\ s.size \in Nat \ {0} /\ s = [start |-> s.start, size |-> s.size]
    BY <2>1, <1>1
  <2>3. /\ \A p \in s.start..(s.start + s.size - 1) : Alike(r, nulls, p)
        /\ ~Alike(r, nulls, s.start - 1) /\ ~Alike(r, nulls, s.start + s.size)
    BY DEF Stretches
  <2>4. \A p \in Nat : In(p, s) => p \in s.start..(s.start + s.size - 1)
    BY <2>2 DEF In
  <2> QED
    BY <2>2, <2>3, <2>4
<1>3. ASSUME NEW p \in Nat, Alike(r, nulls, p) PROVE \E s \in Stretches(r, nulls) : In(p, s)
  <2> DEFINE A == {q \in Nat : q <= p /\ \A x \in q..p : Alike(r, nulls, x)}
             B == {q \in Nat : p < q /\ ~Alike(r, nulls, q)}
             a == Min(A)
             b == Min(B)
             s == [start |-> a, size |-> b - a]
  <2>1. r.begin <= p /\ p < r.end
    BY <1>1, <1>3 DEF Alike
  <2>2. a \in A /\ \A q \in A : a <= q
    <3>1. p \in A
      BY <1>3
    <3>2. A \subseteq Nat /\ A # {}
      BY <3>1
    <3> HIDE DEF A
    <3> QED
      BY <3>2, MinIs
  <2>3. b \in B /\ \A q \in B : b <= q
    <3>1. r.end \in B
      BY <2>1, <1>1 DEF Alike
    <3>2. B \subseteq Nat /\ B # {}
      BY <3>1
    <3> HIDE DEF B
    <3> QED
      BY <3>2, MinIs
  <2>4. b <= r.end
    <3>1. r.end \in B
      BY <2>1, <1>1 DEF Alike
    <3> QED
      BY <3>1, <2>3
  <2> HIDE DEF a, b
  <2>5. /\ a \in Nat /\ a <= p /\ (\A x \in a..p : Alike(r, nulls, x))
        /\ b \in Nat /\ p < b /\ ~Alike(r, nulls, b)
    BY <2>2, <2>3
  <2>6. r.begin <= a
    <3>1. Alike(r, nulls, a)
      BY <2>5
    <3> QED
      BY <3>1, <1>1 DEF Alike
  <2>7. ~Alike(r, nulls, a - 1)
    <3> SUFFICES ASSUME Alike(r, nulls, a - 1) PROVE FALSE
      OBVIOUS
    <3>1. a - 1 \in Nat
      BY <1>1 DEF Alike
    <3>2. \A x \in (a - 1)..p : x = a - 1 \/ x \in a..p
      BY <2>5
    <3>3. a - 1 \in A
      BY <3>1, <3>2, <2>5
    <3> QED
      BY <3>3, <2>2, <2>5
  <2>8. \A x \in a..(b - 1) : Alike(r, nulls, x)
    <3> SUFFICES ASSUME NEW x \in a..(b - 1) PROVE Alike(r, nulls, x)
      OBVIOUS
    <3>1. CASE x <= p
      BY <3>1, <2>5
    <3>2. CASE p < x
      <4>1. x \in Nat /\ ~(b <= x)
        BY <2>5
      <4> QED
        BY <3>2, <4>1, <2>3
    <3> QED
      BY <3>1, <3>2, <2>5
  <2>9. s.start = a /\ s.size = b - a /\ a + (b - a) = b /\ a + (b - a) - 1 = b - 1
    BY <2>5
  <2>10. s \in [start : r.begin..(r.end - 1), size : 1..(r.end - r.begin)]
    <3>1. a \in r.begin..(r.end - 1) /\ b - a \in 1..(r.end - r.begin)
      BY <2>1, <2>4, <2>5, <2>6, <1>1
    <3> QED
      BY <3>1
  <2> HIDE DEF s
  <2>11. s \in Stretches(r, nulls)
    BY <2>5, <2>7, <2>8, <2>9, <2>10 DEF Stretches
  <2>12. In(p, s)
    BY <2>5, <2>9 DEF In
  <2> QED
    BY <2>11, <2>12
<1>4. ASSUME NEW s \in Stretches(r, nulls), NEW t \in Stretches(r, nulls), NEW p \in Nat,
             In(p, s), In(p, t)
      PROVE  s.start <= t.start /\ s.start + s.size <= t.start + t.size
  <2>1. /\ s.start \in Nat /\ s.size \in Nat /\ t.start \in Nat /\ t.size \in Nat
        /\ s.start <= p /\ p < s.start + s.size /\ t.start <= p /\ p < t.start + t.size
    BY <1>2, <1>4 DEF In
  <2>2. ~(t.start < s.start)
    <3> SUFFICES ASSUME t.start < s.start PROVE FALSE
      OBVIOUS
    <3>1. s.start - 1 \in Nat /\ In(s.start - 1, t)
      BY <2>1 DEF In
    <3> QED
      BY <3>1, <1>2
  <2>3. ~(t.start + t.size < s.start + s.size)
    <3> SUFFICES ASSUME t.start + t.size < s.start + s.size PROVE FALSE
      OBVIOUS
    <3>1. t.start + t.size \in Nat /\ In(t.start + t.size, s)
      BY <2>1 DEF In
    <3> QED
      BY <3>1, <1>2
  <2> QED
    BY <2>1, <2>2, <2>3
<1>5. ASSUME NEW s \in Stretches(r, nulls), NEW t \in Stretches(r, nulls), NEW p \in Nat,
             In(p, s), In(p, t)
      PROVE  s = t
  <2>1. s.start = t.start /\ s.start + s.size = t.start + t.size
    <3>1. /\ s.start <= t.start /\ s.start + s.size <= t.start + t.size
          /\ t.start <= s.start /\ t.start + t.size <= s.start + s.size
      BY <1>4, <1>5
    <3> QED
      BY <3>1, <1>2
  <2> QED
    BY <2>1, <1>2
<1> QED
  BY <1>2, <1>3, <1>5

\* The saved regions are disjoint and hold the pages of RAM of the kind asked for.
LEMMA SavedIs ==
  ASSUME NEW nulls \in BOOLEAN
  PROVE  /\ Separate(Saved(nulls))
         /\ \A p \in Nat : Holds(Saved(nulls), p) <=> p \in Ram /\ (mem[p] = Zero) = nulls
<1>1. \A s : s \in Saved(nulls) <=> \E r \in Regions : r.kind = "ram" /\ s \in Stretches(r, nulls)
  BY DEF Saved
<1>2. \A p : p \in Ram <=> \E r \in Regions : r.kind = "ram" /\ p \in r.begin..(r.end - 1)
  BY DEF Ram, PagesOf
<1>3. Separate(Saved(nulls))
  <2>1. ASSUME NEW s \in Saved(nulls) PROVE s.start \in Nat /\ s.size \in Nat \ {0}
    BY <1>1, StretchesAre
  <2>2. ASSUME NEW s \in Saved(nulls), NEW t \in Saved(nulls), NEW p \in Nat, In(p, s), In(p, t)
        PROVE  s = t
    <3>1. PICK r \in Regions : s \in Stretches(r, nulls)
      BY <1>1
    <3>2. PICK q \in Regions : t \in Stretches(q, nulls)
      BY <1>1
    <3>3. Alike(r, nulls, p) /\ Alike(q, nulls, p)
      BY <2>2, <3>1, <3>2, StretchesAre
    <3>4. r = q
      BY <3>3, RegionsAre DEF Alike
    <3> QED
      BY <2>2, <3>1, <3>2, <3>4, StretchesAre
  <2> QED
    BY <2>1, <2>2 DEF Separate
<1>4. ASSUME NEW p \in Nat PROVE Holds(Saved(nulls), p) <=> p \in Ram /\ (mem[p] = Zero) = nulls
  <2>1. ASSUME Holds(Saved(nulls), p) PROVE p \in Ram /\ (mem[p] = Zero) = nulls
    <3>1. PICK s \in Saved(nulls) : In(p, s)
      BY <2>1 DEF Holds
    <3>2. PICK r \in Regions : r.kind = "ram" /\ s \in Stretches(r, nulls)
      BY <1>1
    <3>3. Alike(r, nulls, p)
      BY <3>1, <3>2, StretchesAre
    <3> QED
      BY <3>2, <3>3, <1>2 DEF Alike
  <2>2. ASSUME p \in Ram, (mem[p] = Zero) = nulls PROVE Holds(Saved(nulls), p)
    <3>1. PICK r \in Regions : r.kind = "ram" /\ p \in r.begin..(r.end - 1)
      BY <2>2, <1>2
    <3>2. Alike(r, nulls, p)
      BY <2>2, <3>1 DEF Alike
    <3>3. PICK s \in Stretches(r, nulls) : In(p, s)
      BY <3>2, StretchesAre
    <3> QED
      BY <3>1, <3>3, <1>1 DEF Holds
  <2> QED
    BY <2>1, <2>2
<1> QED
  BY <1>3, <1>4

-----------------------------------------------------------------------------
(* The snapshot and its lists against the memory they were taken of. *)

\* The pages of RAM are listed once each or still protected.
SnapInv(s, orig, ro) ==
  /\ s = [contents |-> s.contents, nulls |-> s.nulls,
          restoreContents |-> s.restoreContents, restoreNulls |-> s.restoreNulls]
  /\ Separate(s.contents) /\ Separate(s.nulls)
  /\ ListOk(s.contents, s.restoreContents) /\ ListOk(s.nulls, s.restoreNulls)
  /\ \A p \in Nat : Holds(s.contents, p) <=> p \in Ram /\ orig[p] # Zero
  /\ \A p \in Nat : Holds(s.nulls, p) <=> p \in Ram /\ orig[p] = Zero
  /\ \A r \in s.contents : r.data = [k \in 0..(r.size - 1) |-> orig[r.start + k]]
  /\ ro \subseteq Ram
  /\ Listed(s.restoreContents) \cup Listed(s.restoreNulls) = Ram \ ro

\* The saved region of a page, where there is one.
LEMMA HolderIs ==
  ASSUME NEW R, NEW p, Holds(R, p)
  PROVE  Holder(R, p) \in R /\ In(p, Holder(R, p))
BY DEF Holds, Holder

\* What is listed lies in a saved region.
LEMMA ListedIsHeld ==
  ASSUME NEW R, Separate(R), NEW l, ListOk(R, l), NEW p \in Listed(l)
  PROVE  Holds(R, p)
<1>1. PICK j \in 1..Len(l) : p \in Nat /\ In(p, l[j])
  BY DEF Listed
<1>2. l[j] \in EntryType(R) /\ Within(l[j])
  BY DEF ListOk
<1>3. /\ l[j].start \in Nat /\ l[j].size \in Nat /\ l[j].from \in R
      /\ l[j].from.start \in Nat /\ l[j].from.size \in Nat
  BY <1>2 DEF EntryType, Separate
<1>4. In(p, l[j].from)
  BY <1>1, <1>2, <1>3 DEF Within, In
<1> QED
  BY <1>3, <1>4 DEF Holds

\* The first write to a protected page lists it.
LEMMA Activated ==
  ASSUME NEW s, NEW orig, NEW ro, SnapInv(s, orig, ro), NEW p \in ro
  PROVE  LET t == activate_page_staterestore(s, p) IN
         SnapInv(t, orig, ro \ {p}) /\ t # s
<1> DEFINE t == activate_page_staterestore(s, p)
<1>1. p \in Ram /\ p \in Nat
  BY RegionsAre DEF SnapInv
<1>2. p \notin Listed(s.restoreContents) /\ p \notin Listed(s.restoreNulls)
  BY DEF SnapInv
<1>3. CASE Holds(s.contents, p)
  <2> DEFINE r == Holder(s.contents, p)
             m == List(s.restoreContents, r, p)
  <2>1. r \in s.contents /\ In(p, r)
    BY <1>3, HolderIs
  <2>2. t = [s EXCEPT !.restoreContents = m]
    BY <1>3 DEF activate_page_staterestore
  <2>3. Separate(s.contents) /\ ListOk(s.contents, s.restoreContents)
    BY DEF SnapInv
  <2> HIDE DEF r
  <2>4. /\ ListOk(s.contents, m) /\ m # s.restoreContents
        /\ Listed(m) = Listed(s.restoreContents) \cup {p}
    BY <2>1, <2>3, <1>1, <1>2, ListIs
  <2> HIDE DEF t, m
  <2>5. /\ t.contents = s.contents /\ t.nulls = s.nulls /\ t.restoreContents = m
        /\ t.restoreNulls = s.restoreNulls
        /\ t = [contents |-> t.contents, nulls |-> t.nulls,
                restoreContents |-> t.restoreContents, restoreNulls |-> t.restoreNulls]
    <3>1. s = [contents |-> s.contents, nulls |-> s.nulls,
               restoreContents |-> s.restoreContents, restoreNulls |-> s.restoreNulls]
      BY DEF SnapInv
    <3> QED
      BY <3>1, <2>2
  <2>6. Listed(t.restoreContents) \cup Listed(t.restoreNulls) = Ram \ (ro \ {p})
    <3>1. Listed(s.restoreContents) \cup Listed(s.restoreNulls) = Ram \ ro
      BY DEF SnapInv
    <3> QED
      BY <3>1, <2>4, <2>5, <1>1
  <2>7. SnapInv(t, orig, ro \ {p})
    BY <2>4, <2>5, <2>6 DEF SnapInv
  <2> QED
    BY <2>4, <2>5, <2>7 DEF t
<1>4. CASE ~Holds(s.contents, p)
  <2> DEFINE r == Holder(s.nulls, p)
             m == List(s.restoreNulls, r, p)
  <2>0. Holds(s.nulls, p)
    BY <1>1, <1>4 DEF SnapInv
  <2>1. r \in s.nulls /\ In(p, r)
    BY <2>0, HolderIs
  <2>2. t = [s EXCEPT !.restoreNulls = m]
    BY <1>4, <2>0 DEF activate_page_staterestore
  <2>3. Separate(s.nulls) /\ ListOk(s.nulls, s.restoreNulls)
    BY DEF SnapInv
  <2> HIDE DEF r
  <2>4. /\ ListOk(s.nulls, m) /\ m # s.restoreNulls
        /\ Listed(m) = Listed(s.restoreNulls) \cup {p}
    BY <2>1, <2>3, <1>1, <1>2, ListIs
  <2> HIDE DEF t, m
  <2>5. /\ t.contents = s.contents /\ t.nulls = s.nulls /\ t.restoreNulls = m
        /\ t.restoreContents = s.restoreContents
        /\ t = [contents |-> t.contents, nulls |-> t.nulls,
                restoreContents |-> t.restoreContents, restoreNulls |-> t.restoreNulls]
    <3>1. s = [contents |-> s.contents, nulls |-> s.nulls,
               restoreContents |-> s.restoreContents, restoreNulls |-> s.restoreNulls]
      BY DEF SnapInv
    <3> QED
      BY <3>1, <2>2
  <2>6. Listed(t.restoreContents) \cup Listed(t.restoreNulls) = Ram \ (ro \ {p})
    <3>1. Listed(s.restoreContents) \cup Listed(s.restoreNulls) = Ram \ ro
      BY DEF SnapInv
    <3> QED
      BY <3>1, <2>4, <2>5, <1>1
  <2>7. SnapInv(t, orig, ro \ {p})
    BY <2>4, <2>5, <2>6 DEF SnapInv
  <2> QED
    BY <2>4, <2>5, <2>7 DEF t
<1> QED
  BY <1>3, <1>4

\* A page that is no RAM is not listed.
LEMMA NotActivated ==
  ASSUME NEW s, NEW orig, NEW ro, SnapInv(s, orig, ro), NEW p \in Nat, p \notin Ram
  PROVE  activate_page_staterestore(s, p) = s
BY DEF SnapInv, activate_page_staterestore

\* The last entry that holds a page is the only one.
LEMMA LastIs ==
  ASSUME NEW R, NEW l, ListOk(R, l), NEW p \in Nat
  PROVE  LET c == SelectLastInSeq(l, LAMBDA e : In(p, e)) IN
         IF p \in Listed(l) THEN c \in 1..Len(l) /\ c # 0 /\ In(p, l[c]) ELSE c = 0
<1> DEFINE I == {i \in 1..Len(l) : In(p, l[i])}
           c == SelectLastInSeq(l, LAMBDA e : In(p, e))
<1>1. c = IF I # {} THEN Max(I) ELSE 0
  BY DEF SelectLastInSeq
<1>2. Len(l) \in Nat
  BY DEF ListOk
<1>3. CASE p \in Listed(l)
  <2>1. PICK i \in 1..Len(l) : In(p, l[i])
    BY <1>3 DEF Listed
  <2>2. I = {i}
    BY <2>1 DEF ListOk
  <2>3. Max(I) = i
    BY <2>2, <1>2 DEF Max
  <2> QED
    BY <1>1, <1>2, <1>3, <2>1, <2>2, <2>3
<1>4. CASE p \notin Listed(l)
  <2>1. I = {}
    BY <1>4 DEF Listed
  <2> QED
    BY <1>1, <1>4, <2>1
<1> QED
  BY <1>3, <1>4

\* Restoring brings listed pages back and leaves the others alone.
LEMMA RestoredIs ==
  ASSUME NEW orig, NEW ro, SnapInv(snap, orig, ro), NEW p \in Nat
  PROVE  Restored(p) = IF p \in Ram \ ro THEN orig[p] ELSE mem[p]
<1> DEFINE c == SelectLastInSeq(snap.restoreContents, LAMBDA e : In(p, e))
           rc == snap.restoreContents
           rn == snap.restoreNulls
<1>0. /\ ListOk(snap.contents, rc) /\ ListOk(snap.nulls, rn)
      /\ Separate(snap.contents) /\ Separate(snap.nulls)
      /\ Listed(rc) \cup Listed(rn) = Ram \ ro
  BY DEF SnapInv
<1>1. (\E j \in DOMAIN rn : In(p, rn[j])) <=> p \in Listed(rn)
  BY <1>0 DEF ListOk, Listed
<1>2. IF p \in Listed(rc) THEN c \in 1..Len(rc) /\ c # 0 /\ In(p, rc[c]) ELSE c = 0
  BY <1>0, LastIs
<1>3. Restored(p) = IF p \in Listed(rn) THEN Zero ELSE IF c = 0 THEN mem[p] ELSE SavedAt(rc[c], p)
  BY <1>1 DEF Restored
<1> HIDE DEF c
<1>4. CASE p \in Listed(rn)
  <2>1. orig[p] = Zero
    BY <1>4, <1>0, ListedIsHeld DEF SnapInv
  <2> QED
    BY <1>0, <1>3, <1>4, <2>1
<1>5. CASE p \notin Listed(rn) /\ p \in Listed(rc)
  <2>1. c \in 1..Len(rc) /\ c # 0 /\ In(p, rc[c])
    BY <1>2, <1>5
  <2> DEFINE e == rc[c]
  <2>2. e \in EntryType(snap.contents) /\ Within(e) /\ In(p, e)
    BY <1>0, <2>1 DEF ListOk
  <2>3. /\ e.start \in Nat /\ e.size \in Nat /\ e.offset \in Nat /\ e.from \in snap.contents
        /\ e.from.start \in Nat /\ e.from.size \in Nat
    BY <1>0, <2>2 DEF EntryType, Separate
  <2>4. e.from.data = [k \in 0..(e.from.size - 1) |-> orig[e.from.start + k]]
    BY <2>3 DEF SnapInv
  <2> HIDE DEF e
  <2> DEFINE k == e.offset + (p - e.start)
  <2>5. k \in 0..(e.from.size - 1) /\ e.from.start + k = p
    BY <2>2, <2>3 DEF Within, In
  <2>6. SavedAt(e, p) = IF k \in DOMAIN e.from.data THEN e.from.data[k] ELSE Garbage
    BY DEF SavedAt
  <2> HIDE DEF k
  <2>7. SavedAt(e, p) = orig[p]
    BY <2>4, <2>5, <2>6
  <2> QED
    BY <1>0, <1>3, <1>5, <2>1, <2>7 DEF e
<1>6. CASE p \notin Listed(rn) /\ p \notin Listed(rc)
  BY <1>0, <1>2, <1>3, <1>6
<1> QED
  BY <1>4, <1>5, <1>6

\* The snapshot of the memory, all of RAM protected.
LEMMA Taken ==
  ASSUME NEW s, s = [contents |-> {Copy(x) : x \in Saved(FALSE)}, nulls |-> Saved(TRUE),
                     restoreContents |-> <<>>, restoreNulls |-> <<>>]
  PROVE  SnapInv(s, mem, Ram)
<1>1. /\ s.contents = {Copy(x) : x \in Saved(FALSE)} /\ s.nulls = Saved(TRUE)
      /\ s.restoreContents = <<>> /\ s.restoreNulls = <<>>
  OBVIOUS
<1>2. Separate(Saved(FALSE)) /\ Separate(s.nulls)
  BY <1>1, SavedIs
<1>3. \A x : /\ Copy(x).start = x.start /\ Copy(x).size = x.size
             /\ Copy(x).data = [k \in 0..(x.size - 1) |-> mem[x.start + k]]
             /\ \A p : In(p, Copy(x)) <=> In(p, x)
  BY DEF Copy, In
<1>4. Separate(s.contents)
  <2>1. ASSUME NEW r \in s.contents PROVE r.start \in Nat /\ r.size \in Nat \ {0}
    <3>1. PICK x \in Saved(FALSE) : r = Copy(x)
      BY <1>1
    <3>2. x.start \in Nat /\ x.size \in Nat \ {0}
      BY <1>2 DEF Separate
    <3> QED
      BY <3>1, <3>2, <1>3
  <2>2. ASSUME NEW r \in s.contents, NEW q \in s.contents, NEW p \in Nat, In(p, r), In(p, q)
        PROVE  r = q
    <3>1. PICK x \in Saved(FALSE) : r = Copy(x)
      BY <1>1
    <3>2. PICK y \in Saved(FALSE) : q = Copy(y)
      BY <1>1
    <3>3. In(p, x) /\ In(p, y)
      BY <2>2, <3>1, <3>2, <1>3
    <3>4. x = y
      BY <3>3, <1>2 DEF Separate
    <3> QED
      BY <3>1, <3>2, <3>4
  <2> QED
    BY <2>1, <2>2 DEF Separate
<1>5. \A R : ListOk(R, <<>>) /\ Listed(<<>>) = {}
  BY DEF ListOk, Listed
<1>6. \A p \in Nat : Holds(s.contents, p) <=> p \in Ram /\ mem[p] # Zero
  <2>1. \A p \in Nat : Holds(s.contents, p) <=> Holds(Saved(FALSE), p)
    BY <1>1, <1>3 DEF Holds
  <2>2. \A p \in Nat : Holds(Saved(FALSE), p) <=> p \in Ram /\ (mem[p] = Zero) = FALSE
    BY SavedIs
  <2> QED
    BY <2>1, <2>2
<1>7. \A p \in Nat : Holds(s.nulls, p) <=> p \in Ram /\ mem[p] = Zero
  <2>1. \A p \in Nat : Holds(Saved(TRUE), p) <=> p \in Ram /\ (mem[p] = Zero) = TRUE
    BY SavedIs
  <2> QED
    BY <2>1, <1>1
<1>8. ASSUME NEW r \in s.contents PROVE r.data = [k \in 0..(r.size - 1) |-> mem[r.start + k]]
  <2>1. PICK x \in Saved(FALSE) : r = Copy(x)
    BY <1>1
  <2> QED
    BY <2>1, <1>3
<1>9. s = [contents |-> s.contents, nulls |-> s.nulls,
           restoreContents |-> s.restoreContents, restoreNulls |-> s.restoreNulls]
  OBVIOUS
<1>10. /\ ListOk(s.contents, s.restoreContents) /\ ListOk(s.nulls, s.restoreNulls)
       /\ Listed(s.restoreContents) \cup Listed(s.restoreNulls) = Ram \ Ram
  BY <1>1, <1>5
<1> QED
  BY <1>2, <1>4, <1>6, <1>7, <1>8, <1>9, <1>10 DEF SnapInv

-----------------------------------------------------------------------------
(* The inductive invariant. *)

\* A memory: a page is zero, as at boot, or as a run left it.
Values(f) == f = [p \in Page |-> f[p]] /\ \A p \in Page : f[p] \in {Zero, Content(p), Dirty}

\* From the snapshot on the lists and the protection agree with it.
IInv ==
  /\ phase \in {"boot", "ready", "run", "crashed"}
  /\ Values(mem) /\ Values(original)
  /\ refused \subseteq PagesOf("rom")
  /\ IF phase = "boot" THEN readonly = {} /\ original = mem
                       ELSE SnapInv(snap, original, readonly)

\* Protected pages are as they were, but for what native code wrote there; and so are
\* all pages between runs.
Exact ==
  /\ \A p \in readonly \ behind : mem[p] = original[p]
  /\ RestoreExact

\* Initially.
LEMMA InitIInv == Init => IInv /\ Exact
<1> SUFFICES ASSUME Init PROVE IInv /\ Exact
  OBVIOUS
<1>1. PICK full \in SUBSET Page : mem = [p \in Page |-> IF p \in full THEN Content(p) ELSE Zero]
  BY DEF Init
<1>2. Values(mem)
  BY <1>1 DEF Values
<1> QED
  BY <1>2 DEF Init, IInv, Exact, RestoreExact

\* A write leaves a memory.
LEMMA Wrote ==
  ASSUME NEW f, Values(f), NEW p \in Page
  PROVE  Values([f EXCEPT ![p] = Dirty])
BY DEF Values

\* Every step keeps the invariant.
LEMMA NextIInv == IInv /\ [Next]_vars => IInv'
<1> SUFFICES ASSUME IInv, [Next]_vars PROVE IInv'
  OBVIOUS
<1>1. CASE TakeSnapshot
  <2>1. SnapInv(snap', mem, Ram)
    BY <1>1, Taken DEF TakeSnapshot
  <2> QED
    BY <1>1, <2>1 DEF TakeSnapshot, IInv
<1>2. CASE Run
  BY <1>2 DEF Run, IInv
<1>3. CASE native_hooks_restore_snapshot
  <2>1. SnapInv(snap, original, readonly) /\ Page \subseteq Nat
    BY <1>3, RegionsAre DEF IInv, native_hooks_restore_snapshot
  <2>2. \A p \in Page : Restored(p) = IF p \in Ram \ readonly THEN original[p] ELSE mem[p]
    BY <2>1, RestoredIs
  <2>3. mem' = [p \in Page |-> Restored(p)]
    BY <1>3 DEF native_hooks_restore_snapshot
  <2>4. \A p \in Page : mem'[p] \in {Zero, Content(p), Dirty}
    BY <2>2, <2>3 DEF IInv, Values
  <2>5. Values(mem')
    BY <2>3, <2>4 DEF Values
  <2> QED
    BY <1>3, <2>1, <2>5 DEF IInv, native_hooks_restore_snapshot
<1>4. ASSUME NEW p \in Page, Write(p) PROVE IInv'
  <2>1. Values(mem')
    BY <1>4, Wrote DEF Write, IInv
  <2> QED
    BY <1>4, <2>1 DEF Write, IInv
<1>5. ASSUME NEW p \in Page, NativeWrite(p) PROVE IInv'
  <2>1. Values(mem')
    BY <1>5, Wrote DEF NativeWrite, IInv
  <2> QED
    BY <1>5, <2>1 DEF NativeWrite, IInv
<1>6. ASSUME NEW p \in Page, hook_invalid_write_on_demand_page_restore_handle(p) PROVE IInv'
  <2>1. /\ SnapInv(snap, original, readonly) /\ readonly \subseteq Ram /\ p \in Nat
        /\ phase = "run" /\ (p \in readonly \/ ~Writable(p)) /\ original' = original
        /\ snap' = activate_page_staterestore(snap, p)
    BY <1>6, RegionsAre DEF IInv, SnapInv, hook_invalid_write_on_demand_page_restore_handle
  <2>2. CASE p \in readonly
    <3>1. SnapInv(snap', original, readonly \ {p}) /\ snap' # snap
      BY <2>1, <2>2, Activated
    <3>2. Writable(p)
      BY <2>1, <2>2, RegionsAre
    <3>3. /\ readonly' = readonly \ {p} /\ mem' = [mem EXCEPT ![p] = Dirty]
          /\ UNCHANGED <<phase, refused>>
      BY <1>6, <3>1, <3>2 DEF hook_invalid_write_on_demand_page_restore_handle
    <3>4. Values(mem')
      BY <3>3, Wrote DEF IInv
    <3> QED
      BY <2>1, <3>1, <3>3, <3>4 DEF IInv
  <2>3. CASE p \notin readonly
    <3>1. ~Writable(p) /\ p \in PagesOf("rom")
      BY <2>1, <2>3, RegionsAre
    <3>2. p \notin Ram
      BY <3>1, RegionsAre
    <3>3. snap' = snap
      BY <2>1, <3>2, NotActivated
    <3>4. refused' = refused \cup {p} /\ phase' = "crashed" /\ UNCHANGED <<readonly, mem>>
      BY <1>6, <3>1 DEF hook_invalid_write_on_demand_page_restore_handle
    <3> QED
      BY <2>1, <3>1, <3>3, <3>4 DEF IInv
  <2> QED
    BY <2>2, <2>3
<1>7. CASE UNCHANGED vars
  BY <1>7 DEF vars, IInv
<1> QED
  BY <1>1, <1>2, <1>3, <1>4, <1>5, <1>6, <1>7 DEF Next

\* The invariant holds.
LEMMA IInvHolds == Spec => []IInv
BY InitIInv, NextIInv, PTL DEF Spec

\* A page is in at most one entry of a list.
LEMMA CountOne ==
  ASSUME NEW R, NEW l, ListOk(R, l), NEW p \in Nat
  PROVE  Cardinality({j \in DOMAIN l : In(p, l[j])}) = IF p \in Listed(l) THEN 1 ELSE 0
<1> DEFINE I == {j \in DOMAIN l : In(p, l[j])}
<1>1. DOMAIN l = 1..Len(l)
  BY DEF ListOk
<1>2. CASE p \in Listed(l)
  <2>1. PICK i \in 1..Len(l) : In(p, l[i])
    BY <1>2 DEF Listed
  <2>2. I = {i}
    BY <1>1, <2>1 DEF ListOk
  <2> HIDE DEF I
  <2> QED
    BY <1>2, <2>2, FS_Singleton DEF I
<1>3. CASE p \notin Listed(l)
  <2>1. I = {}
    BY <1>1, <1>3 DEF Listed
  <2> HIDE DEF I
  <2> QED
    BY <1>3, <2>1, FS_EmptySet DEF I
<1> QED
  BY <1>2, <1>3

\* A page is not in both lists: it was all zero, or it was not.
LEMMA OneList ==
  ASSUME NEW s, NEW orig, NEW ro, SnapInv(s, orig, ro), NEW p
  PROVE  ~(p \in Listed(s.restoreContents) /\ p \in Listed(s.restoreNulls))
<1> SUFFICES ASSUME p \in Listed(s.restoreContents), p \in Listed(s.restoreNulls) PROVE FALSE
  OBVIOUS
<1>1. Holds(s.contents, p) /\ Holds(s.nulls, p) /\ p \in Nat
  BY ListedIsHeld DEF SnapInv, Listed
<1> QED
  BY <1>1 DEF SnapInv

\* The invariant implies the types.
LEMMA TypeFollows == IInv => TypeOK
<1> SUFFICES ASSUME IInv PROVE TypeOK
  OBVIOUS
<1>1. /\ phase \in {"boot", "ready", "run", "crashed"} /\ readonly \subseteq Ram
      /\ refused \subseteq Page
      /\ \A p \in Page : mem[p] \in {Zero, Content(p), Dirty}
  BY DEF IInv, Values, SnapInv, Page
<1>2. ASSUME phase # "boot", NEW p \in Ram
      PROVE  Cardinality({j \in DOMAIN snap.restoreContents : In(p, snap.restoreContents[j])})
               + Cardinality({j \in DOMAIN snap.restoreNulls : In(p, snap.restoreNulls[j])})
             = IF p \in readonly THEN 0 ELSE 1
  <2>1. SnapInv(snap, original, readonly) /\ p \in Nat
    BY <1>2, RegionsAre DEF IInv
  <2>2. /\ ListOk(snap.contents, snap.restoreContents) /\ ListOk(snap.nulls, snap.restoreNulls)
        /\ p \in Listed(snap.restoreContents) \/ p \in Listed(snap.restoreNulls) <=> p \notin readonly
    BY <2>1 DEF SnapInv
  <2>3. ~(p \in Listed(snap.restoreContents) /\ p \in Listed(snap.restoreNulls))
    BY <2>1, OneList
  <2>4. Cardinality({j \in DOMAIN snap.restoreContents : In(p, snap.restoreContents[j])})
        = IF p \in Listed(snap.restoreContents) THEN 1 ELSE 0
    BY <2>1, <2>2, CountOne
  <2>5. Cardinality({j \in DOMAIN snap.restoreNulls : In(p, snap.restoreNulls[j])})
        = IF p \in Listed(snap.restoreNulls) THEN 1 ELSE 0
    BY <2>1, <2>2, CountOne
  <2> QED
    BY <2>2, <2>3, <2>4, <2>5
<1> QED
  BY <1>1, <1>2 DEF TypeOK

\* Every step keeps the memory what the lists say.
LEMMA NextExact == IInv /\ Exact /\ [Next]_vars => Exact'
<1> SUFFICES ASSUME IInv, Exact, [Next]_vars PROVE Exact'
  OBVIOUS
<1>0. mem = [p \in Page |-> mem[p]] /\ Ram \subseteq Page
  BY RegionsAre DEF IInv, Values
<1>1. CASE TakeSnapshot
  BY <1>1 DEF TakeSnapshot, Exact, RestoreExact
<1>2. CASE Run
  BY <1>2 DEF Run, Exact, RestoreExact
<1>3. CASE native_hooks_restore_snapshot
  <2>1. SnapInv(snap, original, readonly) /\ Page \subseteq Nat
    BY <1>3, RegionsAre DEF IInv, native_hooks_restore_snapshot
  <2>2. \A p \in Page : Restored(p) = IF p \in Ram \ readonly THEN original[p] ELSE mem[p]
    BY <2>1, RestoredIs
  <2>3. \A p \in Ram : mem'[p] = IF p \in readonly THEN mem[p] ELSE original[p]
    BY <1>0, <1>3, <2>2 DEF native_hooks_restore_snapshot
  <2>4. \A p \in Ram \ behind : mem'[p] = original[p]
    BY <2>3 DEF Exact
  <2>5. readonly \subseteq Ram
    BY <2>1 DEF SnapInv
  <2> QED
    BY <1>3, <2>4, <2>5 DEF native_hooks_restore_snapshot, Exact, RestoreExact
<1>4. ASSUME NEW p \in Page, Write(p) PROVE Exact'
  BY <1>0, <1>4 DEF Write, Exact, RestoreExact
<1>5. ASSUME NEW p \in Page, NativeWrite(p) PROVE Exact'
  BY <1>0, <1>5 DEF NativeWrite, Exact, RestoreExact
<1>6. ASSUME NEW p \in Page, hook_invalid_write_on_demand_page_restore_handle(p) PROVE Exact'
  <2>1. phase = "run" /\ original' = original /\ phase' # "ready"
    BY <1>6 DEF hook_invalid_write_on_demand_page_restore_handle
  <2>2. \/ /\ readonly' = readonly \ {p} /\ behind' = behind \ {p}
           /\ mem' = [mem EXCEPT ![p] = Dirty]
        \/ readonly' = readonly /\ behind' = behind /\ mem' = mem
    BY <1>6 DEF hook_invalid_write_on_demand_page_restore_handle
  <2>3. \A q \in readonly' \ behind' : q \in readonly \ behind /\ mem'[q] = mem[q]
    <3>1. readonly \subseteq Page
      BY <1>0, <1>6 DEF IInv, SnapInv, hook_invalid_write_on_demand_page_restore_handle
    <3> QED
      BY <1>0, <2>2, <3>1
  <2> QED
    BY <2>1, <2>3 DEF Exact, RestoreExact
<1>7. CASE UNCHANGED vars
  BY <1>7 DEF vars, Exact, RestoreExact
<1> QED
  BY <1>1, <1>2, <1>3, <1>4, <1>5, <1>6, <1>7 DEF Next

-----------------------------------------------------------------------------
(* A page of RAM is protected, or listed once and in the list of its kind, *)
(* and no page is ever filled from outside the buffer its copy is in       *)
(* (activate_page_staterestore, native_hooks_restore_snapshot).            *)
THEOREM TypeCorrect == Spec => []TypeOK
BY IInvHolds, TypeFollows, PTL

(* A page whose first write is refused by the write protection is always   *)
(* found in a saved region, listed, and made writable again; what crashes  *)
(* the guest is a write to code only.                                      *)
THEOREM NeverRefused == Spec => []ProtectionInvisible
<1>1. IInv => ProtectionInvisible
  BY DEF IInv, ProtectionInvisible
<1> QED
  BY <1>1, IInvHolds, PTL

(* Whatever guest and native code write, and in whatever order: after a    *)
(* restore every page of RAM is what the snapshot was taken of, except for *)
(* one that native code has written and the guest has not written since    *)
(* (native_hooks_restore_snapshot).                                        *)
THEOREM OnlyNativeWritesStay == Spec => []RestoreExact
<1>1. Init => IInv /\ Exact
  BY InitIInv
<1>2. IInv /\ Exact /\ [Next]_vars => IInv' /\ Exact'
  BY NextIInv, NextExact
<1>3. Exact => RestoreExact
  BY DEF Exact
<1> QED
  BY <1>1, <1>2, <1>3, PTL DEF Spec

\* Native code writes only such pages of RAM as the guest has written in this run or an
\* earlier one: an exception frame is pushed where the firmware's own stack has been.
NativeAfterGuest == \A p \in Ram : NativeWrite(p) => p \notin readonly

\* All of RAM, between runs.
RamAsSaved == phase = "ready" => \A p \in Ram : mem[p] = original[p]

NoneBehind == behind = {}

(* A firmware whose exceptions are entered on stacks it has used before    *)
(* starts every run from the memory of the snapshot, all of it.            *)
THEOREM RunsStartAlike == Spec /\ [][NativeAfterGuest]_vars => []RamAsSaved
<1>1. Init => NoneBehind
  BY DEF Init, NoneBehind
<1>2. IInv /\ NoneBehind /\ [Next]_vars /\ [NativeAfterGuest]_vars => NoneBehind'
  <2> SUFFICES ASSUME IInv, behind = {}, [Next]_vars, [NativeAfterGuest]_vars PROVE behind' = {}
    BY DEF NoneBehind
  <2>1. ASSUME NEW p \in Page, NativeWrite(p) PROVE behind' = {}
    <3>1. CASE p \in readonly
      <4>1. p \in Ram
        BY <2>1, <3>1 DEF IInv, SnapInv, NativeWrite
      <4>2. UNCHANGED vars
        BY <2>1, <3>1, <4>1 DEF NativeAfterGuest
      <4> QED
        BY <4>2 DEF vars
    <3>2. CASE p \notin readonly
      BY <2>1, <3>2 DEF NativeWrite
    <3> QED
      BY <3>1, <3>2
  <2>2. CASE \A p \in Page : ~NativeWrite(p)
    BY <2>2 DEF Next, TakeSnapshot, Run, native_hooks_restore_snapshot, Write,
                hook_invalid_write_on_demand_page_restore_handle, vars
  <2> QED
    BY <2>1, <2>2
<1>3. RestoreExact /\ NoneBehind => RamAsSaved
  BY DEF RestoreExact, RamAsSaved, NoneBehind
<1> QED
  BY <1>1, <1>2, <1>3, IInvHolds, OnlyNativeWritesStay, PTL DEF Spec

=============================================================================
