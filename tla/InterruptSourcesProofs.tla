----------------------- MODULE InterruptSourcesProofs -----------------------
(***************************************************************************)
(* Type correctness of the interrupt sources, for every number of          *)
(* triggers, interrupts and configurations: a trigger's counters stay      *)
(* within its configuration, timers within their range, and SysTick counts *)
(* exactly while it is enabled.                                            *)
(*                                                                         *)
(* SrcInv is TypeOK with the types of the functions that steps update.     *)
(* A trigger is Fit; what its callback leads to is Sane; the largest part  *)
(* of the argument is that nth_enabled_irq_num is an enabled interrupt.    *)
(* SavedFits says the same of the snapshot, which Restore goes back to.    *)
(***************************************************************************)
EXTENDS InterruptSources, FiniteSetTheorems, WellFoundedInduction, TLAPS

TriggerState == [irq : Ext \cup {0}, round_robin_index : 0 .. (IndexW - 1),
                 skip_next : BOOLEAN, curr_skips : Nat, curr_pends : Nat]

\* A trigger of configuration c between two calls of its callback.
Fit(c, g) == g \in TriggerState /\ g.curr_pends < c.pends /\ g.curr_skips <= c.skips

\* The same but for the count of pends, which TrainEnds has yet to look at.
Counting(c, g) == g \in TriggerState /\ g.curr_pends <= c.pends /\ g.curr_skips <= c.skips

\* What a callback asks for.
Asks(o) == /\ o = Outcome(o.g, o.pend, o.reload, o.ends)
           /\ o.pend \in Ext \cup {0} /\ o.reload \in 0 .. MaxReload /\ o.ends \in BOOLEAN
Sane(c, o) == Asks(o) /\ Fit(c, o.g)

\* The parts of the invariant, one for each group of variables.
TriggersFit == /\ triggers \in [Trigger -> TriggerState]
               /\ \A t \in Trigger : Fit(config.triggers[t], triggers[t])
TimersFit == left \in [Timer -> 0 .. MaxReload] /\ reload \in [Timer -> 1 .. MaxReload]
NvicFits == enabled \subseteq Ext /\ pending \subseteq Ext \cup {SYSTICK}
SysTickCounts == /\ csr \subseteq Control \cup {"COUNTFLAG"}
                 /\ "ENABLE" \in csr <=> timer_ind \in running
StepFits == step \in {"start", "timers", "hooks", "nvic", "exec", "exit"}

SrcInv == /\ config \in Configs
          /\ TriggersFit /\ TimersFit /\ NvicFits /\ SysTickCounts /\ StepFits

\* The snapshot, or the state at boot, is fit to go on from.
SavedFits ==
  /\ saved.triggers \in [Trigger -> TriggerState]
  /\ \A t \in Trigger : Fit(config.triggers[t], saved.triggers[t])
  /\ saved.left \in [Timer -> 0 .. MaxReload] /\ saved.reload \in [Timer -> 1 .. MaxReload]
  /\ saved.enabled \subseteq Ext /\ saved.pending \subseteq Ext \cup {SYSTICK}
  /\ saved.csr \subseteq Control \cup {"COUNTFLAG"}
  /\ "ENABLE" \in saved.csr <=> timer_ind \in saved.running

-----------------------------------------------------------------------------
(* Choosing an interrupt. *)

\* Every set of numbers has a least one.
LEMMA LeastNat ==
  ASSUME NEW S, S \subseteq Nat, S # {}
  PROVE  \E m \in S : \A k \in S : m <= k
<1> DEFINE R == OpToRel(<, Nat)
<1>1. IsWellFoundedOn(R, Nat)
  BY NatLessThanWellFounded
<1>2. \A x, y \in Nat : <<y, x>> \in R <=> y < x
  BY DEF OpToRel
<1> HIDE DEF R
<1>3. PICK m \in S : \A k \in S : ~(<<k, m>> \in R)
  BY <1>1, WFMin
<1>4. ASSUME NEW k \in S PROVE m <= k
  <2>1. m \in Nat /\ k \in Nat /\ ~(k < m)
    BY <1>2, <1>3
  <2> QED
    BY <2>1
<1> QED
  BY <1>4

\* The elements of a set below one of it.
Below(S, i) == {j \in S : j < i}

\* Each number less than its size counts the elements below one of its elements.
LEMMA NthExists ==
  ASSUME NEW S, S \subseteq Nat, IsFiniteSet(S)
  PROVE  \A k \in Nat : k < Cardinality(S) => \E i \in S : Cardinality(Below(S, i)) = k
<1> DEFINE Bad == {k \in Nat : k < Cardinality(S) /\ ~\E i \in S : Cardinality(Below(S, i)) = k}
<1>1. SUFFICES ASSUME Bad # {} PROVE FALSE
  OBVIOUS
<1>2. PICK k \in Bad : \A j \in Bad : k <= j
  <2>1. Bad \subseteq Nat
    OBVIOUS
  <2> HIDE DEF Bad
  <2> QED
    BY <1>1, <2>1, LeastNat
<1>3. k \in Nat /\ k < Cardinality(S) /\ Cardinality(S) \in Nat
  BY FS_CardinalityType
<1>4. CASE k = 0
  <2>1. S # {}
    BY <1>3, <1>4, FS_EmptySet
  <2>2. PICK i \in S : \A j \in S : i <= j
    BY <2>1, LeastNat
  <2>3. Below(S, i) = {}
    <3>1. \A j \in S : ~(j < i)
      <4>1. \A j \in S : i \in Nat /\ j \in Nat /\ i <= j
        BY <2>2
      <4> QED
        BY <4>1
    <3> QED
      BY <3>1 DEF Below
  <2>4. Cardinality(Below(S, i)) = 0
    BY <2>3, FS_EmptySet
  <2> QED
    BY <1>4, <2>4
<1>5. CASE k # 0
  <2>1. k - 1 \in Nat /\ k - 1 < Cardinality(S) /\ k - 1 \notin Bad
    <3>1. k - 1 \in Nat /\ k - 1 < Cardinality(S) /\ ~(k <= k - 1)
      BY <1>3, <1>5
    <3> HIDE DEF Bad
    <3> QED
      BY <3>1, <1>2
  <2>2. PICK i \in S : Cardinality(Below(S, i)) = k - 1
    BY <2>1
  <2> DEFINE B == Below(S, i)
             A == S \ (B \cup {i})
  <2>3. IsFiniteSet(B) /\ Cardinality(B \cup {i}) = k /\ B \cup {i} \subseteq S
    <3>1. B \in SUBSET S /\ i \notin B
      BY DEF Below
    <3>2. IsFiniteSet(B)
      BY <3>1, FS_Subset
    <3>3. Cardinality(B \cup {i}) = Cardinality(B) + 1
      BY <3>1, <3>2, FS_AddElement
    <3> HIDE DEF B
    <3> QED
      BY <3>1, <3>2, <3>3, <2>2, <1>3 DEF B
  <2>4. A # {}
    <3>1. B \cup {i} # S
      BY <2>3, <1>3
    <3> QED
      BY <2>3, <3>1
  <2>5. PICK m \in A : \A j \in A : m <= j
    BY <2>4, LeastNat
  <2>6. m \in S /\ m \in Nat /\ i \in Nat /\ i < m
    <3>1. m \in S /\ m # i /\ ~(m < i) /\ m \in Nat /\ i \in Nat
      BY DEF Below
    <3> QED
      BY <3>1
  <2>7. Below(S, m) = B \cup {i}
    <3>1. ASSUME NEW j \in S, j < m PROVE j \in B \cup {i}
      <4>1. j \notin A
        <5>1. ~(m <= j)
          BY <3>1, <2>6
        <5> QED
          BY <5>1, <2>5
      <4> QED
        BY <4>1
    <3>2. ASSUME NEW j \in B \cup {i} PROVE j \in S /\ j < m
      <4>1. j \in S /\ j \in Nat /\ j <= i
        BY DEF Below
      <4> QED
        BY <4>1, <2>6
    <3> QED
      BY <3>1, <3>2 DEF Below
  <2>8. Cardinality(Below(S, m)) = k
    BY <2>3, <2>7
  <2> QED
    BY <2>6, <2>8
<1> QED
  BY <1>4, <1>5

\* nth_enabled_irq_num gives an enabled interrupt.
LEMMA NthEnabled ==
  ASSUME NEW S, S \subseteq Ext, S # {}, NEW n \in Nat
  PROVE  nth_enabled_irq_num(S, n) \in S
<1>1. S \subseteq Nat /\ IsFiniteSet(S)
  BY IrqTriggersAssumption, FS_Subset
<1>2. Cardinality(S) \in Nat \ {0}
  BY <1>1, FS_EmptySet, FS_CardinalityType
<1>3. n % Cardinality(S) \in Nat /\ n % Cardinality(S) < Cardinality(S)
  BY <1>2
<1>4. \E i \in S : Cardinality(Below(S, i)) = n % Cardinality(S)
  BY <1>1, <1>3, NthExists
<1> QED
  BY <1>4 DEF nth_enabled_irq_num, Below

-----------------------------------------------------------------------------
(* The callback of a trigger. *)

\* Fields of an outcome.
LEMMA QuietSane ==
  ASSUME NEW c, NEW g
  PROVE  /\ Fit(c, g) => Sane(c, Quiet(g)) /\ Sane(c, RanOut(g))
         /\ Quiet(g).g = g /\ Quiet(g).ends = FALSE /\ RanOut(g).g = g /\ RanOut(g).ends = TRUE
<1>1. 0 \in 0 .. MaxReload
  BY SysTickAssumption
<1> QED
  BY <1>1 DEF Sane, Asks, Quiet, RanOut, Outcome

\* Whatever interrupt is chosen, the trigger fits.
LEMMA ChooseSane ==
  ASSUME NEW c \in TriggerConfig, NEW g, Fit(c, g), NEW S, S \subseteq Ext
  PROVE  \A o \in Choose(c, g, S) : Sane(c, o)
<1>1. ASSUME NEW i \in Ext \cup {0} PROVE Sane(c, Quiet([g EXCEPT !.irq = i]))
  <2>1. Fit(c, [g EXCEPT !.irq = i])
    BY DEF Fit, TriggerState
  <2> QED
    BY <2>1, QuietSane
<1>2. ASSUME NEW o \in FuzzedIndex(g, S) PROVE Sane(c, o)
  <2>1. CASE S = {}
    <3>1. o = Quiet([g EXCEPT !.irq = 0])
      <4>1. S = {} /\ Cardinality(S) # 1
        BY <2>1, FS_EmptySet
      <4> QED
        BY <1>2, <4>1 DEF FuzzedIndex, NoneEnabled
    <3> QED
      BY <1>1, <3>1
  <2>2. CASE S # {}
    <3>1. \A n \in {0} \cup IrqBytes : nth_enabled_irq_num(S, n) \in Ext \cup {0}
      BY <2>2, NthEnabled, IrqTriggersAssumption
    <3>2. \/ o = RanOut(g)
          \/ \E n \in {0} \cup IrqBytes : o = Quiet([g EXCEPT !.irq = nth_enabled_irq_num(S, n)])
      BY <1>2, <2>2 DEF FuzzedIndex
    <3> QED
      BY <1>1, <3>1, <3>2, QuietSane
  <2> QED
    BY <2>1, <2>2
<1>3. ASSUME NEW o \in RoundRobin(g, S) PROVE Sane(c, o)
  <2>1. CASE S = {}
    BY <1>1, <1>3, <2>1 DEF RoundRobin, NoneEnabled
  <2>2. CASE S # {}
    <3> DEFINE i == nth_enabled_irq_num(S, g.round_robin_index)
               h == [g EXCEPT !.irq = i, !.round_robin_index = (@ + 1) % IndexW]
    <3>1. g \in TriggerState /\ g.round_robin_index \in Nat /\ IndexW \in Nat \ {0}
      BY IrqTriggersAssumption DEF Fit, TriggerState
    <3>2. i \in Ext \cup {0}
      BY <2>2, <3>1, NthEnabled
    <3>3. (g.round_robin_index + 1) % IndexW \in 0 .. (IndexW - 1)
      BY <3>1
    <3>4. o = Quiet(h)
      BY <1>3, <2>2 DEF RoundRobin
    <3> HIDE DEF i
    <3>5. Fit(c, h)
      BY <3>1, <3>2, <3>3 DEF Fit, TriggerState
    <3> QED
      BY <3>4, <3>5, QuietSane
  <2> QED
    BY <2>1, <2>2
<1>4. c.fuzz \in {"fixed", "index", "round_robin"}
  BY DEF TriggerConfig, Fuzz
<1>5. Choose(c, g, S) = {Quiet(g)} \/ Choose(c, g, S) = FuzzedIndex(g, S) \/ Choose(c, g, S) = RoundRobin(g, S)
  BY <1>4 DEF Choose
<1>6. Sane(c, Quiet(g))
  BY QuietSane
<1>7. ASSUME NEW o \in Choose(c, g, S)
      PROVE  o = Quiet(g) \/ o \in FuzzedIndex(g, S) \/ o \in RoundRobin(g, S)
  BY <1>5, <1>7
<1> QED
  BY <1>2, <1>3, <1>6, <1>7

\* So does the choice of a time.
LEMMA TimeSane ==
  ASSUME NEW c, NEW p, Sane(c, p)
  PROVE  \A o \in FuzzedTime(c, p) : Sane(c, o)
<1> SUFFICES ASSUME NEW o \in FuzzedTime(c, p) PROVE Sane(c, o)
  OBVIOUS
<1>1. ReloadChoices \subseteq 0 .. MaxReload
  BY InterruptSourcesAssumption
<1>2. ASSUME NEW v \in ReloadChoices PROVE Sane(c, [p EXCEPT !.reload = v])
  BY <1>1 DEF Sane, Asks, Outcome
<1>3. Sane(c, RanOut(p.g))
  BY QuietSane DEF Sane
<1> QED
  BY <1>2, <1>3 DEF FuzzedTime

\* Pending counts, and the end of a train puts the counters back.
LEMMA PendedSane ==
  ASSUME NEW c \in TriggerConfig, NEW p, Sane(c, p)
  PROVE  Sane(c, TrainEnds(c, Pended(p)))
<1> DEFINE o == Pended(p)
           g == p.g
           h == [g EXCEPT !.curr_pends = @ + 1]
<1>1. c.pends \in Nat \ {0} /\ c.skips \in Nat
  BY DEF TriggerConfig
<1>2. /\ p = Outcome(g, p.pend, p.reload, p.ends) /\ g \in TriggerState
      /\ g.curr_pends \in Nat /\ g.curr_pends < c.pends /\ g.curr_skips <= c.skips
      /\ p.pend \in Ext \cup {0} /\ p.reload \in 0 .. MaxReload /\ p.ends \in BOOLEAN
  BY DEF Sane, Asks, Fit, TriggerState
<1>3. Counting(c, g) /\ Counting(c, h)
  BY <1>1, <1>2 DEF Counting, TriggerState
<1>4. o = p \/ o = Outcome(h, g.irq, p.reload, p.ends)
  BY <1>2 DEF Pended, Outcome
<1>5. g.irq \in Ext \cup {0}
  BY <1>2 DEF TriggerState
<1>6. Asks(o) /\ Counting(c, o.g) /\ (o.ends => Fit(c, o.g))
  <2>1. CASE o = p
    BY <2>1, <1>2, <1>3 DEF Asks, Fit, Sane
  <2>2. CASE o = Outcome(h, g.irq, p.reload, p.ends) /\ o # p
    <3>1. ~p.ends
      BY <2>2 DEF Pended
    <3>2. o.g = h /\ o.pend = g.irq /\ o.reload = p.reload /\ o.ends = p.ends
      BY <2>2 DEF Outcome
    <3> HIDE DEF o, h, g
    <3> QED
      BY <2>2, <3>1, <3>2, <1>2, <1>3, <1>5 DEF Asks
  <2> QED
    BY <1>4, <2>1, <2>2
<1> DEFINE k == [o.g EXCEPT !.curr_pends = 0, !.curr_skips = 0, !.skip_next = TRUE]
<1>7. TrainEnds(c, o) = o \/ TrainEnds(c, o) = Outcome(k, o.pend, o.reload, o.ends)
  BY <1>6 DEF TrainEnds, Asks, Outcome
<1>8. TrainEnds(c, o) = o => Fit(c, o.g)
  <2>1. CASE o.ends
    BY <2>1, <1>6
  <2>2. CASE ~o.ends /\ o.g.curr_pends = c.pends
    <3>1. TrainEnds(c, o).g = k
      BY <2>2, <1>6 DEF TrainEnds, Asks, Outcome
    <3>2. k.curr_pends = 0
      BY <1>6 DEF Counting, TriggerState
    <3> QED
      BY <2>2, <3>1, <3>2, <1>1
  <2>3. CASE o.g.curr_pends # c.pends
    <3>1. o.g.curr_pends \in Nat
      BY <1>6 DEF Counting, TriggerState
    <3> HIDE DEF o
    <3> QED
      BY <2>3, <3>1, <1>1, <1>6 DEF Counting, Fit
  <2> QED
    BY <2>1, <2>2, <2>3
<1> HIDE DEF o, h, g
<1>9. Fit(c, k)
  <2>1. ASSUME NEW x \in TriggerState
        PROVE  Fit(c, [x EXCEPT !.curr_pends = 0, !.curr_skips = 0, !.skip_next = TRUE])
    <3> DEFINE y == [x EXCEPT !.curr_pends = 0, !.curr_skips = 0, !.skip_next = TRUE]
    <3>1. y \in TriggerState
      BY <2>1 DEF TriggerState
    <3>2. y.curr_pends = 0
      BY <2>1 DEF TriggerState
    <3>3. y.curr_skips = 0
      BY <2>1 DEF TriggerState
    <3> HIDE DEF y
    <3>4. Fit(c, y)
      BY <1>1, <3>1, <3>2, <3>3 DEF Fit
    <3> QED
      BY <3>4 DEF y
  <2>2. o.g \in TriggerState
    BY <1>6 DEF Counting
  <2> QED
    BY <2>1, <2>2
<1>10. ASSUME TrainEnds(c, o) = Outcome(k, o.pend, o.reload, o.ends) PROVE Sane(c, TrainEnds(c, o))
  <2> HIDE DEF k
  <2> QED
    BY <1>6, <1>9, <1>10 DEF Sane, Asks, Outcome
<1>11. ASSUME TrainEnds(c, o) = o PROVE Sane(c, TrainEnds(c, o))
  BY <1>6, <1>8, <1>11 DEF Sane
<1>12. Sane(c, TrainEnds(c, o))
  BY <1>7, <1>10, <1>11
<1> QED
  BY <1>12 DEF o

\* The callback at a block.
LEMMA HookSane ==
  ASSUME NEW c \in TriggerConfig, NEW g, Fit(c, g), NEW S, S \subseteq Ext
  PROVE  \A o \in Hook(c, g, S) : Sane(c, o)
<1> SUFFICES ASSUME NEW o \in Hook(c, g, S) PROVE Sane(c, o)
  OBVIOUS
<1>1. CASE g.skip_next
  <2>1. o = Quiet([g EXCEPT !.skip_next = FALSE])
    BY <1>1 DEF Hook
  <2>2. Fit(c, [g EXCEPT !.skip_next = FALSE])
    BY DEF Fit, TriggerState
  <2> QED
    BY <2>1, <2>2, QuietSane
<1>2. CASE ~g.skip_next /\ g.curr_pends # 0
  <2>1. o = TrainEnds(c, Pended(Quiet(g)))
    BY <1>2 DEF Hook
  <2> QED
    BY <2>1, QuietSane, PendedSane
<1>3. CASE ~g.skip_next /\ g.curr_pends = 0 /\ g.curr_skips < c.skips
  <2> DEFINE h == [g EXCEPT !.curr_skips = @ + 1]
  <2>1. o = TrainEnds(c, Quiet(h))
    BY <1>3 DEF Hook
  <2>2. c.pends \in Nat \ {0} /\ c.skips \in Nat
    BY DEF TriggerConfig
  <2>3. Fit(c, h) /\ h.curr_pends = 0
    BY <1>3, <2>2 DEF Fit, TriggerState
  <2> HIDE DEF h
  <2>4. TrainEnds(c, Quiet(h)) = Quiet(h)
    BY <2>2, <2>3, QuietSane DEF TrainEnds
  <2> QED
    BY <2>1, <2>3, <2>4, QuietSane
<1>4. CASE ~g.skip_next /\ g.curr_pends = 0 /\ ~(g.curr_skips < c.skips)
  <2>a. PICK q \in Choose(c, g, S) : \E p \in FuzzedTime(c, q) : o = TrainEnds(c, Pended(p))
    BY <1>4 DEF Hook
  <2>1. PICK p \in FuzzedTime(c, q) : o = TrainEnds(c, Pended(p))
    BY <2>a
  <2>2. Sane(c, q)
    BY <2>1, ChooseSane
  <2>3. Sane(c, p)
    BY <2>1, <2>2, TimeSane
  <2> QED
    BY <2>1, <2>3, PendedSane
<1> QED
  BY <1>1, <1>2, <1>3, <1>4 DEF Fit, TriggerState

\* The callback of a timer.
LEMMA TimerSane ==
  ASSUME NEW c \in TriggerConfig, NEW g, Fit(c, g), NEW S, S \subseteq Ext
  PROVE  \A o \in TimerCallback(c, g, S) : Sane(c, o)
<1> SUFFICES ASSUME NEW p \in Hook(c, g, S) PROVE Sane(c, [p EXCEPT !.g.skip_next = FALSE])
  BY DEF TimerCallback
<1>1. Sane(c, p)
  BY HookSane
<1> DEFINE h == [p.g EXCEPT !.skip_next = FALSE]
<1>2. Fit(c, h)
  BY <1>1 DEF Sane, Fit, TriggerState
<1>3. [p EXCEPT !.g.skip_next = FALSE] = Outcome(h, p.pend, p.reload, p.ends)
  <2>1. \A x, a, b, e : [Outcome(x, a, b, e) EXCEPT !.g.skip_next = FALSE]
                      = Outcome([x EXCEPT !.skip_next = FALSE], a, b, e)
    <3> TAKE x, a, b, e
    <3> DEFINE o == Outcome(x, a, b, e)
               y == [x EXCEPT !.skip_next = FALSE]
    <3>1. o.g = x
      BY DEF Outcome
    <3>2. [o EXCEPT !.g.skip_next = FALSE] = [o EXCEPT !.g = [o.g EXCEPT !.skip_next = FALSE]]
      <4> HIDE DEF o
      <4> QED
        OBVIOUS
    <3> HIDE DEF y
    <3>3. [o EXCEPT !.g = y] = Outcome(y, a, b, e)
      BY DEF Outcome
    <3> QED
      BY <3>1, <3>2, <3>3 DEF y
  <2>2. p = Outcome(p.g, p.pend, p.reload, p.ends)
    BY <1>1 DEF Sane, Asks
  <2> QED
    BY <2>1, <2>2
<1> HIDE DEF h
<1> QED
  BY <1>1, <1>2, <1>3 DEF Sane, Asks, Outcome

-----------------------------------------------------------------------------
(* What the steps do to each part. *)

\* The configuration of a behaviour.
LEMMA Configured ==
  ASSUME config \in Configs
  PROVE  /\ \A t \in Trigger : config.triggers[t] \in TriggerConfig
         /\ config.period \in [Timer -> 1 .. MaxReload]
BY InterruptSourcesAssumption

\* A trigger as it is added fits its configuration.
LEMMA AddedFits ==
  ASSUME NEW c \in TriggerConfig
  PROVE  Fit(c, Added(c))
BY IrqTriggersAssumption DEF Fit, TriggerState, Added, TriggerConfig

\* What the first run starts from.
LEMMA FreshTriggersFit ==
  ASSUME config \in Configs, triggers = [t \in Trigger |-> Added(config.triggers[t])]
  PROVE  TriggersFit
BY Configured, AddedFits DEF TriggersFit, Fit

\* A pended exception is an external interrupt or SysTick.
LEMMA PendFits ==
  ASSUME NvicFits, NEW E, E \subseteq Ext \cup {SYSTICK}, Pend(E)
  PROVE  pending' \subseteq Ext \cup {SYSTICK}
BY DEF NvicFits, Pend

LEMMA PendIrqFits ==
  ASSUME NvicFits, NEW i \in Ext \cup {0}, PendIrq(i)
  PROVE  pending' \subseteq Ext \cup {SYSTICK}
<1> DEFINE E == IF i = 0 THEN {} ELSE {i}
<1>1. E \subseteq Ext \cup {SYSTICK} /\ Pend(E)
  BY DEF PendIrq
<1> QED
  BY <1>1, PendFits

\* One trigger is replaced by one that fits.
LEMMA TriggerFits ==
  ASSUME TriggersFit, config' = config, NEW t \in Trigger, NEW g, Fit(config.triggers[t], g),
         triggers' = [triggers EXCEPT ![t] = g]
  PROVE  TriggersFit'
BY DEF TriggersFit, Fit

\* A reload value of 0 stands for none; another is a number of ticks.
LEMMA RetimedFits ==
  ASSUME TimersFit, NEW t \in Timer, NEW v \in 0 .. MaxReload,
         left' = Retimed(left, t, v), reload' = Retimed(reload, t, v)
  PROVE  TimersFit'
<1>1. MaxReload \in Nat
  BY SysTickAssumption
<1>2. CASE v = 0
  BY <1>2 DEF TimersFit, Retimed
<1>3. CASE v # 0
  <2>1. v \in 1 .. MaxReload
    BY <1>1, <1>3
  <2>2. v \in 0 .. MaxReload
    OBVIOUS
  <2> QED
    BY <2>1, <2>2 DEF TimersFit, Retimed
<1> QED
  BY <1>2, <1>3

\* The value written to RVR, whatever it is, becomes a number of ticks.
LEMMA MaskedFits ==
  ASSUME NEW v \in RvrValues
  PROVE  Masked(Sensible(v)) \in 1 .. MaxReload
<1>1. /\ v \in Nat /\ UserReload \in Nat /\ TICKS_10_MS \in Nat /\ MaxReload \in Nat \ {0}
      /\ ReloadMask \in Nat \ {0} /\ ReloadMask <= MaxReload + 1
  BY SysTickAssumption
<1>2. Sensible(v) \in Nat
  BY <1>1 DEF Sensible
<1> DEFINE m == Sensible(v) % ReloadMask
<1>3. m \in Nat /\ m < ReloadMask
  BY <1>1, <1>2
<1> HIDE DEF m
<1>4. (IF m = 0 THEN MaxReload ELSE m) \in 1 .. MaxReload
  BY <1>1, <1>3
<1> QED
  BY <1>4 DEF Masked, m

\* Reloading gives a timer its reload value.
LEMMA ReloadedFits ==
  ASSUME TimersFit
  PROVE  Reloaded \in [Timer -> 0 .. MaxReload]
<1>1. timer_ind \in Timer /\ MaxReload \in Nat
  BY SysTickAssumption
<1>2. reload[timer_ind] \in 0 .. MaxReload
  BY <1>1 DEF TimersFit
<1> QED
  BY <1>1, <1>2 DEF TimersFit, Reloaded

\* The registers of SysTick: ENABLE and the timer change together.
LEMMA RegistersFit ==
  ASSUME TimersFit, SysTickCounts, RegisterWrite \/ ReadCsr
  PROVE  TimersFit' /\ SysTickCounts'
<1>1. ASSUME NEW bits \in SUBSET Control, WriteCsr(bits) PROVE TimersFit' /\ SysTickCounts'
  <2>1. TimersFit'
    BY <1>1, ReloadedFits DEF TimersFit, WriteCsr
  <2>2. SysTickCounts'
    BY <1>1 DEF SysTickCounts, WriteCsr, Control
  <2> QED
    BY <2>1, <2>2
<1>2. ASSUME NEW v \in RvrValues, WriteRvr(v) PROVE TimersFit' /\ SysTickCounts'
  <2> DEFINE r == Masked(Sensible(v))
  <2>1. r \in 1 .. MaxReload /\ r \in 0 .. MaxReload
    <3>1. MaxReload \in Nat
      BY SysTickAssumption
    <3> QED
      BY <3>1, MaskedFits
  <2> HIDE DEF r
  <2>2. /\ reload' = [reload EXCEPT ![timer_ind] = r]
        /\ left' = IF r = reload[timer_ind] THEN left ELSE [left EXCEPT ![timer_ind] = r]
        /\ csr' = csr /\ running' = running
    BY <1>2 DEF WriteRvr, r
  <2> QED
    BY <2>1, <2>2 DEF TimersFit, SysTickCounts
<1>3. CASE WriteCvr
  BY <1>3, ReloadedFits DEF TimersFit, SysTickCounts, WriteCvr
<1>4. CASE ReadCsr
  BY <1>4 DEF TimersFit, SysTickCounts, ReadCsr
<1> QED
  BY <1>1, <1>2, <1>3, <1>4 DEF RegisterWrite

-----------------------------------------------------------------------------
(* Type correctness. *)

\* Initially.
LEMMA InitFits == Init => SrcInv /\ SavedFits
<1> SUFFICES ASSUME Init PROVE SrcInv /\ SavedFits
  OBVIOUS
<1>1. config \in Configs /\ TriggersFit
  BY FreshTriggersFit DEF Init, Fresh
<1>2. TimersFit
  <2>1. MaxReload \in Nat /\ config.period \in [Timer -> 1 .. MaxReload]
    BY <1>1, Configured, SysTickAssumption
  <2>2. config.period \in [Timer -> 0 .. MaxReload]
    BY <2>1
  <2> QED
    BY <2>1, <2>2 DEF Init, Fresh, TimersFit
<1>3. NvicFits /\ SysTickCounts /\ StepFits
  BY DEF Init, Fresh, NvicFits, SysTickInit, SysTickCounts, StepFits
<1>4. SrcInv
  BY <1>1, <1>2, <1>3 DEF SrcInv
<1>5. SavedFits
  BY <1>4 DEF Init, Snapshot, SavedFits, SrcInv, TriggersFit, TimersFit, NvicFits, SysTickCounts
<1> QED
  BY <1>4, <1>5

\* The timers' hook, but for the callback of a trigger.
LEMMA TimersHookFits ==
  ASSUME SrcInv, Tick \/ Fire \/ SysTickExpires \/ TimersDone
  PROVE  SrcInv'
<1> USE DEF SrcInv
<1>1. CASE Tick
  <2>1. left' \in [Timer -> 0 .. MaxReload]
    <3>1. \A u \in running : left[u] > 0
      BY <1>1 DEF Tick, Clock!Tick
    <3>2. \A u \in Timer : left[u] \in 0 .. MaxReload /\ MaxReload \in Nat
      BY SysTickAssumption DEF TimersFit
    <3>3. \A u \in Timer : (IF u \in running THEN left[u] - 1 ELSE left[u]) \in 0 .. MaxReload
      BY <3>1, <3>2
    <3> QED
      BY <1>1, <3>3 DEF Tick, Clock!Tick
  <2>2. UNCHANGED <<config, triggers, nvic_vars, csr, running, reload>> /\ step' = "timers"
    BY <1>1 DEF Tick, Clock!Tick
  <2> QED
    BY <2>1, <2>2 DEF TriggersFit, Fit, TimersFit, NvicFits, SysTickCounts, StepFits, nvic_vars
<1>2. CASE Fire
  <2>1. PICK u \in Timer : Clock!Fire(u)
    BY <1>2 DEF Fire
  <2>2. reload[u] \in 0 .. MaxReload
    <3>1. reload[u] \in 1 .. MaxReload /\ MaxReload \in Nat
      BY SysTickAssumption DEF TimersFit
    <3> QED
      BY <3>1
  <2>3. TimersFit'
    BY <2>1, <2>2 DEF TimersFit, Clock!Fire
  <2>4. UNCHANGED <<config, triggers, nvic_vars, step, csr, running>>
    BY <1>2, <2>1 DEF Fire, Clock!Fire
  <2> QED
    BY <2>3, <2>4 DEF TriggersFit, Fit, NvicFits, SysTickCounts, StepFits, nvic_vars
<1>3. CASE SysTickExpires
  <2>1. ExpiryPends \subseteq Ext \cup {SYSTICK}
    BY DEF ExpiryPends
  <2>2. pending' \subseteq Ext \cup {SYSTICK}
    BY <1>3, <2>1, PendFits DEF SysTickExpires
  <2>3. UNCHANGED <<config, triggers, enabled, step, running, left, reload>> /\ csr' = csr \cup {"COUNTFLAG"}
    BY <1>3 DEF SysTickExpires, Expired
  <2> QED
    BY <2>2, <2>3 DEF TriggersFit, Fit, TimersFit, NvicFits, SysTickCounts, StepFits
<1>4. CASE TimersDone
  BY <1>4 DEF TimersDone, TriggersFit, Fit, TimersFit, NvicFits, SysTickCounts, StepFits, nvic_vars, systick_vars
<1> QED
  BY <1>1, <1>2, <1>3, <1>4

\* The callback of a trigger, from its timer and at its block.
LEMMA TriggerHookFits ==
  ASSUME SrcInv, NEW t \in Trigger, TriggerExpires(t) \/ AddressHook(t)
  PROVE  SrcInv'
<1> DEFINE c == config.triggers[t]
<1>1. c \in TriggerConfig /\ Fit(c, triggers[t]) /\ enabled \subseteq Ext /\ t \in Timer
  BY Configured, InterruptSourcesAssumption DEF SrcInv, TriggersFit, NvicFits
<1> HIDE DEF c
<1>2. CASE TriggerExpires(t)
  <2>1. PICK o \in TimerCallback(c, triggers[t], enabled) :
          /\ triggers' = [triggers EXCEPT ![t] = o.g]
          /\ PendIrq(o.pend)
          /\ left' = Retimed(left, t, o.reload) /\ reload' = Retimed(reload, t, o.reload)
          /\ step' = IF o.ends THEN "exit" ELSE step
    BY <1>2 DEF TriggerExpires, c
  <2>2. Fit(c, o.g) /\ o.pend \in Ext \cup {0} /\ o.reload \in 0 .. MaxReload
    BY <1>1, TimerSane DEF Sane, Asks
  <2>3. UNCHANGED <<config, enabled, csr, running>>
    BY <1>2 DEF TriggerExpires
  <2>4. TriggersFit'
    BY <2>1, <2>2, <2>3, TriggerFits DEF SrcInv, c
  <2>5. pending' \subseteq Ext \cup {SYSTICK}
    BY <2>1, <2>2, PendIrqFits DEF SrcInv
  <2>6. TimersFit'
    BY <1>1, <2>1, <2>2, RetimedFits DEF SrcInv
  <2> QED
    BY <2>1, <2>3, <2>4, <2>5, <2>6 DEF SrcInv, NvicFits, SysTickCounts, StepFits
<1>3. CASE AddressHook(t)
  <2>1. PICK o \in Hook(c, triggers[t], enabled) :
          /\ triggers' = [triggers EXCEPT ![t] = o.g]
          /\ PendIrq(o.pend)
          /\ step' = IF o.ends THEN "exit" ELSE "nvic"
    BY <1>3 DEF AddressHook, c
  <2>2. Fit(c, o.g) /\ o.pend \in Ext \cup {0}
    BY <1>1, HookSane DEF Sane, Asks
  <2>3. UNCHANGED <<config, enabled, csr, running, left, reload>>
    BY <1>3 DEF AddressHook, systick_vars
  <2>4. TriggersFit'
    BY <2>1, <2>2, <2>3, TriggerFits DEF SrcInv, c
  <2>5. pending' \subseteq Ext \cup {SYSTICK}
    BY <2>1, <2>2, PendIrqFits DEF SrcInv
  <2> QED
    BY <2>1, <2>3, <2>4, <2>5 DEF SrcInv, TimersFit, NvicFits, SysTickCounts, StepFits
<1> QED
  BY <1>2, <1>3

\* The end of the hooks, and the firmware.
LEMMA FirmwareFits ==
  ASSUME SrcInv,
         \/ NoHook \/ NvicBlockHook \/ Move \/ Return \/ WriteNvic \/ Cps
         \/ AccessSysTick
  PROVE  SrcInv'
<1> USE DEF SrcInv
<1>1. CASE NoHook \/ Move \/ Cps
  BY <1>1 DEF NoHook, Move, Cps, TriggersFit, Fit, TimersFit, NvicFits, SysTickCounts, StepFits,
              nvic_vars, systick_vars
<1>2. CASE NvicBlockHook
  <2>1. pending' \subseteq Ext \cup {SYSTICK}
    BY <1>2, PendFits DEF NvicBlockHook
  <2>2. UNCHANGED <<config, triggers, enabled, csr, running, left, reload>> /\ step' \in {"start", "exec"}
    BY <1>2 DEF NvicBlockHook, systick_vars
  <2> QED
    BY <2>1, <2>2 DEF TriggersFit, Fit, TimersFit, NvicFits, SysTickCounts, StepFits
<1>3. CASE Return
  <2>1. pending' \subseteq pending
    BY <1>3 DEF Return
  <2>2. UNCHANGED <<config, triggers, enabled, csr, running, left, reload>> /\ step' = "start"
    BY <1>3 DEF Return, systick_vars
  <2> QED
    BY <2>1, <2>2 DEF TriggersFit, Fit, TimersFit, NvicFits, SysTickCounts, StepFits
<1>4. CASE WriteNvic
  BY <1>4 DEF WriteNvic, TriggersFit, Fit, TimersFit, NvicFits, SysTickCounts, StepFits, systick_vars
<1>5. CASE AccessSysTick
  <2>1. TimersFit' /\ SysTickCounts'
    BY <1>5, RegistersFit DEF AccessSysTick
  <2> QED
    BY <1>5, <2>1 DEF AccessSysTick, TriggersFit, Fit, NvicFits, StepFits, nvic_vars
<1> QED
  BY <1>1, <1>2, <1>3, <1>4, <1>5

\* Taking the snapshot, and going back to it.
LEMMA SnapshotFits ==
  ASSUME SrcInv, NEW taken, saved' = Snapshot(taken), config' = config
  PROVE  SavedFits'
BY DEF SrcInv, TriggersFit, TimersFit, NvicFits, SysTickCounts, Snapshot, SavedFits, Fit

LEMMA RunsFit ==
  ASSUME SrcInv, SavedFits,
         TakeSnapshot \/ Restore \/ \E t \in Trigger : Discovered(t)
  PROVE  SrcInv'
<1> USE DEF SrcInv
<1>1. CASE TakeSnapshot \/ \E t \in Trigger : Discovered(t)
  BY <1>1 DEF TakeSnapshot, Discovered, TriggersFit, Fit, TimersFit, NvicFits, SysTickCounts,
              StepFits, nvic_vars, systick_vars
<1>2. CASE Restore
  BY <1>2 DEF Restore, SavedFits, TriggersFit, Fit, TimersFit, NvicFits, SysTickCounts, StepFits
<1> QED
  BY <1>1, <1>2

\* Nothing but TakeSnapshot changes the snapshot.
LEMMA SavedStays ==
  ASSUME SrcInv, SavedFits, [Next]_vars
  PROVE  SavedFits'
<1>1. CASE TakeSnapshot
  BY <1>1, SnapshotFits DEF TakeSnapshot
<1>2. CASE ~TakeSnapshot
  <2>1. UNCHANGED <<config, saved>>
    BY <1>2 DEF Next, Run, Tick, Fire, SysTickExpires, TimersDone, NoHook, NvicBlockHook, Move,
                Return, Restore, TriggerExpires, AddressHook, Discovered, WriteNvic, Cps,
                AccessSysTick, vars
  <2> QED
    BY <2>1 DEF SavedFits, Fit
<1> QED
  BY <1>1, <1>2

\* Every step keeps all of it.
LEMMA StepFitsAll == SrcInv /\ SavedFits /\ [Next]_vars => SrcInv' /\ SavedFits'
<1> SUFFICES ASSUME SrcInv, SavedFits, [Next]_vars PROVE SrcInv'
  BY SavedStays
<1>1. CASE Tick \/ Fire \/ SysTickExpires \/ TimersDone
  BY <1>1, TimersHookFits
<1>2. CASE \E t \in Trigger : TriggerExpires(t) \/ AddressHook(t)
  BY <1>2, TriggerHookFits
<1>3. CASE \/ NoHook \/ NvicBlockHook \/ Move \/ Return \/ WriteNvic \/ Cps
           \/ AccessSysTick
  BY <1>3, FirmwareFits
<1>5. CASE TakeSnapshot \/ Restore \/ \E t \in Trigger : Discovered(t)
  BY <1>5, RunsFit
<1>4. CASE UNCHANGED vars
  BY <1>4 DEF SrcInv, vars, TriggersFit, Fit, TimersFit, NvicFits, SysTickCounts, StepFits,
              nvic_vars, systick_vars
<1> QED
  BY <1>1, <1>2, <1>3, <1>4, <1>5 DEF Next, Run

\* The parts say what TypeOK says.
LEMMA FitsTypeOK == SrcInv => TypeOK
<1> SUFFICES ASSUME SrcInv PROVE TypeOK
  OBVIOUS
<1>1. ASSUME NEW t \in Trigger
      PROVE  /\ triggers[t].irq \in Ext \cup {0}
             /\ triggers[t].round_robin_index \in 0 .. (IndexW - 1)
             /\ triggers[t].curr_pends < config.triggers[t].pends
             /\ triggers[t].curr_skips <= config.triggers[t].skips
  <2>1. Fit(config.triggers[t], triggers[t])
    BY DEF SrcInv, TriggersFit
  <2> QED
    BY <2>1 DEF Fit, TriggerState
<1>2. \A u \in Timer : left[u] \in 0 .. MaxReload /\ reload[u] \in 1 .. MaxReload
  BY DEF SrcInv, TimersFit
<1> QED
  BY <1>1, <1>2 DEF SrcInv, NvicFits, SysTickCounts, StepFits, TypeOK

\* TypeOK of the interrupt sources, whatever the triggers, their configuration and the
\* firmware: a trigger never pends or skips past num_pends and num_skips, the interrupt it
\* holds is an external one although the list it chose from changes, a countdown stays
\* within its reload value's range, and SysTick counts exactly while ENABLE is set.
THEOREM TypeCorrect == Spec => []TypeOK
<1>1. Init => SrcInv /\ SavedFits
  BY InitFits
<1>2. SrcInv /\ SavedFits /\ [Next]_vars => SrcInv' /\ SavedFits'
  BY StepFitsAll
<1>3. SrcInv => TypeOK
  BY FitsTypeOK
<1> QED
  BY <1>1, <1>2, <1>3, PTL DEF Spec
=============================================================================
