-------------------------------- MODULE Nvic --------------------------------
(***************************************************************************)
(* The interrupt controller of the emulator (core_peripherals/             *)
(* cortexm_nvic.c) and the part of the CPU it drives: exception entry,     *)
(* return and tail-chaining, the register writes of the firmware, and the  *)
(* hook that runs at the start of every basic block.                       *)
(*                                                                         *)
(* `nvic' is the C structure of that name (its list of enabled interrupts, *)
(* which only register writes touch, is `enabledIrqs'); `cpu' holds the    *)
(* registers the controller reads and writes.  A basic block runs in two   *)
(* phases: first its hooks ("block"), then its instructions ("exec");      *)
(* "magic" is a block at an EXC_RETURN address, whose hook is the          *)
(* exception return.                                                       *)
(***************************************************************************)
EXTENDS Integers, Sequences, FiniteSets, SequencesExt

CONSTANTS
  Ext,               \* external exception numbers (>= 16)
  DisabledByConfig,  \* those the configuration keeps disabled
  Prios,             \* priorities the firmware writes
  PrioExc,           \* the exceptions whose priority it writes
  Basepris,          \* BASEPRI values the firmware writes
  Prigroups,         \* AIRCR.PRIGROUP values the firmware writes
  InterruptLimit,    \* interrupt_limit
  LatePend           \* may an exception above every enabled one be pended?

NONE == 0            \* NVIC_NONE_ACTIVE
NMI == 2
SVC == 11
PENDSV == 14
SYSTICK == 15
LOWEST == 256        \* NVIC_LOWEST_PRIO

Exc == {NMI, SVC, PENDSV, SYSTICK} \cup Ext

ASSUME ExtAssumption == Ext \subseteq 16..255
ASSUME ConfigAssumption == DisabledByConfig \subseteq Ext
ASSUME PrioAssumption == /\ Prios \subseteq 0..255
                         /\ PrioExc \subseteq Exc \ {NMI}
                         /\ Basepris \subseteq 0..255
                         /\ Prigroups \subseteq 0..7
ASSUME LimitAssumption == InterruptLimit \in Nat \ {0}
ASSUME LateAssumption == LatePend \in BOOLEAN

VARIABLES nvic, enabledIrqs, cpu, phase
vars == <<nvic, enabledIrqs, cpu, phase>>

-----------------------------------------------------------------------------
(* Priorities. *)

\* The priorities of a group: 2 << prigroup of them.
GroupSize(n) == <<2, 4, 8, 16, 32, 64, 128, 256>>[n.prigroup + 1]

\* raw & ~((2 << prigroup) - 1)
GroupPrio(n, raw) == raw - (raw % GroupSize(n))

BoostedPrioNoBasepri(n, c, raw) ==     \* bug: BASEPRI does not boost
  IF c.primask /\ n.pendingIrq # SVC THEN 0 ELSE raw

BoostedPrio(n, c, raw) ==
  IF c.primask /\ n.pendingIrq # SVC THEN 0
  ELSE IF c.basepri # 0 /\ GroupPrio(n, c.basepri) < raw
       THEN GroupPrio(n, c.basepri)
       ELSE raw

CanBeActivatedNested(n, c) ==     \* bug: a handler can be preempted
  n.pendingPrio < BoostedPrio(n, c, n.activeGroupPrio)

CanBeActivated(n, c) ==
  /\ n.activeIrq = NONE
  /\ n.pendingPrio < BoostedPrio(n, c, n.activeGroupPrio)

\* The exceptions recalc_prios looks at: from SVC, so never the NMI.
Scanned(n) == {e \in Exc : e >= SVC /\ e <= n.highestEver}

\* Of the pending exceptions scanned, the first of the best priority.
Beats(n, e, f) == \/ n.priority[e] < n.priority[f]
                  \/ n.priority[e] = n.priority[f] /\ e <= f
BestPending(n) ==
  LET P == n.pending \cap Scanned(n)
  IN IF P = {} THEN NONE ELSE CHOOSE e \in P : \A f \in P : Beats(n, e, f)

BestActivePrio(n) ==
  LET A == {GroupPrio(n, n.priority[e]) : e \in n.active \cap Scanned(n)}
  IN IF A = {} THEN LOWEST ELSE CHOOSE p \in A : \A q \in A : p <= q

SurpassesAgain(n, pendingPrio, activePrio) ==   \* bug: negation lost
  n.pendingPrio < n.activeGroupPrio /\ pendingPrio < activePrio

\* pending_prio_now_surpasses_active
Surpasses(n, pendingPrio, activePrio) ==
  ~(n.pendingPrio < n.activeGroupPrio) /\ pendingPrio < activePrio

RecalcPrios(n) ==
  LET irq == BestPending(n)
      pendingPrio == IF irq = NONE THEN LOWEST ELSE n.priority[irq]
      activePrio == BestActivePrio(n)
  IN [n EXCEPT !.numActive = Cardinality(n.active \cap Scanned(n)),
               !.activeGroupPrio = activePrio,
               !.pendingPrio = pendingPrio,
               !.pendingIrq = irq,
               !.prevBasepri = IF Surpasses(n, pendingPrio, activePrio) THEN -1 ELSE @]

-----------------------------------------------------------------------------
(* Pending, enabling, disabling. *)

PendInterruptByPrio(n, e) ==     \* bug: a tie is not recalculated
  IF e \in n.pending THEN n
  ELSE LET m == [n EXCEPT !.pending = @ \cup {e}]
       IN IF n.priority[e] < n.pendingPrio THEN RecalcPrios(m) ELSE m

PendInterrupt(n, e) ==
  IF e \in n.pending THEN n
  ELSE LET m == [n EXCEPT !.pending = @ \cup {e}]
       IN IF e < n.pendingIrq \/ n.priority[e] < n.pendingPrio
          THEN RecalcPrios(m) ELSE m

ClearPendInterrupt(n, e) ==
  IF e \notin n.pending THEN n
  ELSE LET m == [n EXCEPT !.pending = @ \ {e}]
       IN IF n.pendingIrq = e THEN RecalcPrios(m) ELSE m

InsertFuzzableLast(l, e) == Append(l, e)   \* bug: not sorted

\* The list the fuzzer picks an interrupt from: before the first larger one.
InsertFuzzable(l, e) ==
  LET larger == {i \in DOMAIN l : l[i] > e}
  IN IF larger = {} THEN Append(l, e)
     ELSE InsertAt(l, CHOOSE i \in larger : \A j \in larger : i <= j, e)

\* In the order in which the bits of a register are gone through.
Ascending(S) ==
  CHOOSE q \in [1 .. Cardinality(S) -> S] : \A i, j \in DOMAIN q : i < j => q[i] < q[j]

\* enable_irq for the bits of one register write, in ascending order.
NewlyEnabled(n, S) == {e \in S \ DisabledByConfig : e \notin n.enabled}

EnableIrqs(n, S) ==
  LET new == NewlyEnabled(n, S)
  IN [n EXCEPT !.enabled = @ \cup new,
               !.highestEver = CHOOSE t \in new \cup {@} : \A f \in new \cup {@} : f <= t]

\* What enable_irq returns: is a recalculation needed?
EnableNeedsUpdate(n, S) ==
  \E e \in NewlyEnabled(n, S) \cap n.pending : n.priority[e] < n.pendingIrq

DisableIrq(n, e) ==
  IF e \notin n.enabled THEN n
  ELSE LET m == [n EXCEPT !.enabled = @ \ {e}]
       IN IF e = n.pendingIrq THEN RecalcPrios(m) ELSE m

\* set_prio for the bytes of one register write: f gives their new priorities.
SetPrios(n, f) ==
  LET changed == {e \in DOMAIN f : f[e] # n.priority[e] /\ e \notin DisabledByConfig}
      m == [n EXCEPT !.priority = [e \in Exc |-> IF e \in changed THEN f[e] ELSE @[e]]]
  IN IF changed = {} THEN n ELSE RecalcPrios(m)

-----------------------------------------------------------------------------
(* Exception entry and return.  m is a record of the controller n and the *)
(* CPU c.  A frame on a stack is the IPSR field of the pushed xPSR.       *)

CurrentStack(c) == IF c.psp THEN "process" ELSE "main"

PushStack(c) == [c EXCEPT !.stacks[CurrentStack(c)] = Append(@, c.ipsr)]

\* The frame popped gives back the program status and the active exception.
PopStack(m) ==
  LET s == CurrentStack(m.c)
      isr == Last(m.c.stacks[s])
  IN [n |-> [m.n EXCEPT !.activeIrq = isr],
      c |-> [m.c EXCEPT !.stacks[s] = Front(@), !.ipsr = isr]]

Exit(c, why) == IF c.exit = "no" THEN [c EXCEPT !.exit = why] ELSE c

\* Leaving thread mode: save the frame, switch to the main stack.
EnterFrom(n, c) ==
  LET thread == n.activeIrq = NONE
      d == PushStack(c)
  IN [d EXCEPT !.psp = IF thread THEN FALSE ELSE @,
               !.lr = [thread |-> thread, psp |-> thread /\ c.psp]]

LimitReachedLate(n) == n.interruptCount > InterruptLimit   \* bug: off by one
LimitReached(n) == n.interruptCount >= InterruptLimit

ExceptionEntry(m, tailChained) ==
  LET e == m.n.pendingIrq
      n == [m.n EXCEPT !.interruptCount = IF e # SYSTICK THEN @ + 1 ELSE @]
      c == IF tailChained THEN m.c ELSE EnterFrom(m.n, m.c)
  IN IF e # SYSTICK /\ LimitReached(n)
     THEN [n |-> n, c |-> Exit(m.c, "limit")]
     ELSE [n |-> RecalcPrios([n EXCEPT !.active = @ \cup {e},
                                       !.pending = @ \ {e},
                                       !.activeIrq = e]),
           c |-> [c EXCEPT !.ipsr = e]]

MaybeActivate(m) ==
  IF CanBeActivated(m.n, m.c) THEN ExceptionEntry(m, FALSE) ELSE m

\* The handler that returns is active no more.
Deactivated(n) ==
  [RecalcPrios([n EXCEPT !.active = @ \ {n.activeIrq}]) EXCEPT !.activeIrq = NONE]

\* The stack the link register says the frame is on.
FrameStack(c) == [c EXCEPT !.psp = IF c.lr.thread /\ c.lr.psp THEN TRUE ELSE @]

ExceptionReturn(m) ==
  LET n == Deactivated(m.n)
      popped == PopStack([n |-> n, c |-> FrameStack(m.c)])
  IN IF m.n.activeIrq = NONE
     THEN [n |-> m.n, c |-> Exit(m.c, "crash")]
     ELSE IF CanBeActivated(n, m.c)
     THEN ExceptionEntry([n |-> n, c |-> m.c], TRUE)
     ELSE IF m.c.lr.thread # (popped.n.activeIrq = NONE)
     THEN [n |-> popped.n, c |-> Exit(popped.c, "inconsistent")]
     ELSE popped

-----------------------------------------------------------------------------
Init ==
  /\ nvic = [enabled |-> {SVC, PENDSV, SYSTICK},
             active |-> {}, pending |-> {},
             priority |-> [e \in Exc |-> IF e = NMI THEN -2 ELSE 0],
             prigroup |-> 0, highestEver |-> SYSTICK,
             activeGroupPrio |-> LOWEST, activeIrq |-> NONE,
             pendingPrio |-> LOWEST, pendingIrq |-> NONE, numActive |-> 0,
             prevPrimask |-> FALSE, prevBasepri |-> -1,
             interruptCount |-> 0]
  /\ enabledIrqs = << >>
  /\ cpu = [ipsr |-> NONE, psp |-> FALSE, primask |-> FALSE, basepri |-> 0,
            lr |-> [thread |-> FALSE, psp |-> FALSE],
            stacks |-> [main |-> << >>, process |-> << >>], exit |-> "no"]
  /\ phase = "block"

Running == cpu.exit = "no"

\* The outcome m of a handler; entering an exception starts a new block.
Becomes(m) ==
  /\ nvic' = m.n
  /\ cpu' = m.c
  /\ phase' = IF m.n.activeIrq # nvic.activeIrq THEN "block" ELSE phase
  /\ UNCHANGED enabledIrqs

-----------------------------------------------------------------------------
(* Hooks at the start of a block. *)

BasepriNotRaised ==    \* bug: BASEPRI 0 taken for the highest ceiling
  \/ cpu.basepri = nvic.prevBasepri
  \/ nvic.prevBasepri = -1 \/ cpu.basepri < nvic.prevBasepri

\* -1 is read as an unsigned number: larger than every BASEPRI.
BasepriNotLowered ==
  \/ cpu.basepri = nvic.prevBasepri
  \/ cpu.basepri # 0 /\ (nvic.prevBasepri = -1 \/ cpu.basepri < nvic.prevBasepri)

BlockHook ==
  LET n == [nvic EXCEPT !.prevPrimask = cpu.primask,
                        !.prevBasepri = IF cpu.primask THEN @ ELSE cpu.basepri]
      ceiling == IF cpu.basepri # 0 /\ cpu.basepri < n.activeGroupPrio
                 THEN GroupPrio(n, cpu.basepri) ELSE n.activeGroupPrio
      enters == /\ ~cpu.primask
                /\ nvic.prevPrimask \/ ~BasepriNotLowered
                /\ n.activeIrq = NONE
                /\ n.pendingPrio < ceiling
      m == IF enters THEN ExceptionEntry([n |-> n, c |-> cpu], FALSE)
                     ELSE [n |-> n, c |-> cpu]
  IN /\ Running /\ phase \in {"block", "magic"}
     /\ nvic' = m.n /\ cpu' = m.c
     /\ phase' = IF phase = "magic" \/ m.n.activeIrq # nvic.activeIrq
                 THEN phase ELSE "exec"
     /\ UNCHANGED enabledIrqs

\* nvic_set_pending, from the hooks of the timers and interrupt triggers.
Pendable(e) == LatePend \/ e <= nvic.highestEver

NvicSetPending(e) ==
  /\ Running /\ phase \in {"block", "magic"} /\ Pendable(e)
  /\ Becomes(MaybeActivate([n |-> PendInterrupt(nvic, e), c |-> cpu]))

\* nvic_exception_return_hook, at the block the handler returned to.
ReturnHook ==
  /\ Running /\ phase = "magic"
  /\ LET m == ExceptionReturn([n |-> nvic, c |-> cpu])
     IN nvic' = m.n /\ cpu' = m.c
  /\ phase' = "block"
  /\ UNCHANGED enabledIrqs

-----------------------------------------------------------------------------
(* Instructions of the firmware. *)

Executing == Running /\ phase = "exec"

\* The end of a block; a branch to an EXC_RETURN address returns.
EndBlock ==
  /\ Executing
  /\ phase' \in {"block", "magic"}
  /\ UNCHANGED <<nvic, enabledIrqs, cpu>>

\* CPS and MSR.
SetMasks ==
  /\ Executing
  /\ \E p \in BOOLEAN, b \in Basepris \cup {0} :
       cpu' = [cpu EXCEPT !.primask = p, !.basepri = b]
  /\ UNCHANGED <<nvic, enabledIrqs, phase>>

SetSpsel ==
  /\ Executing /\ nvic.activeIrq = NONE
  /\ \E b \in BOOLEAN : cpu' = [cpu EXCEPT !.psp = b]
  /\ UNCHANGED <<nvic, enabledIrqs, phase>>

Svc ==
  /\ Executing
  /\ Becomes(MaybeActivate([n |-> PendInterrupt(nvic, SVC), c |-> cpu]))

\* A breakpoint or the like reaches the SVC handler too, which ends the run.
NotAnSvc ==
  /\ Executing
  /\ cpu' = Exit(cpu, "notSvc")
  /\ UNCHANGED <<nvic, enabledIrqs, phase>>

WriteIser(S) ==
  /\ Executing
  /\ LET n == EnableIrqs(nvic, S)
     IN nvic' = IF EnableNeedsUpdate(nvic, S) THEN RecalcPrios(n) ELSE n
  /\ enabledIrqs' = FoldLeft(InsertFuzzable, enabledIrqs,
                             Ascending(NewlyEnabled(nvic, S)))
  /\ UNCHANGED <<cpu, phase>>

WriteIcer(e) ==
  /\ Executing
  /\ nvic' = DisableIrq(nvic, e)
  /\ enabledIrqs' = RemoveFirst(enabledIrqs, e)
  /\ UNCHANGED <<cpu, phase>>

\* Set-pending writes do not activate: the next block hook does.
WriteIspr(e) ==
  /\ Executing /\ e \notin DisabledByConfig /\ Pendable(e)
  /\ nvic' = PendInterrupt(nvic, e)
  /\ UNCHANGED <<enabledIrqs, cpu, phase>>

WriteIcpr(e) ==
  /\ Executing
  /\ nvic' = ClearPendInterrupt(nvic, e)
  /\ UNCHANGED <<enabledIrqs, cpu, phase>>

WritePrios(f) ==
  /\ Executing
  /\ nvic' = SetPrios(nvic, f)
  /\ UNCHANGED <<enabledIrqs, cpu, phase>>

\* A write that requests a reset ends the run; its PRIGROUP still counts.
WriteAircr(g, reset) ==
  /\ Executing
  /\ nvic' = IF g = nvic.prigroup THEN nvic
             ELSE RecalcPrios([nvic EXCEPT !.prigroup = g])
  /\ cpu' = IF reset THEN Exit(cpu, "reset") ELSE cpu
  /\ UNCHANGED <<enabledIrqs, phase>>

WriteStir(e) ==
  /\ Executing /\ e \notin DisabledByConfig /\ Pendable(e)
  /\ Becomes(MaybeActivate([n |-> PendInterrupt(nvic, e), c |-> cpu]))

\* handle_icsr_write: the bits of the value, in the order they are tested.
PendIf(b, e, m) ==
  IF b THEN MaybeActivate([n |-> PendInterrupt(m.n, e), c |-> m.c]) ELSE m
ClearIf(b, e, m) ==
  IF b THEN [n |-> ClearPendInterrupt(m.n, e), c |-> m.c] ELSE m

WriteIcsr(B) ==
  LET m0 == [n |-> nvic, c |-> cpu]
      m1 == PendIf("PENDSVSET" \in B, PENDSV, m0)
      m2 == ClearIf("PENDSVCLR" \in B, PENDSV, m1)
      m3 == PendIf("PENDSTSET" \in B, SYSTICK, m2)
      m4 == ClearIf("PENDSTCLR" \in B, SYSTICK, m3)
      m5 == IF "NMIPENDSET" \in B
            THEN [n |-> PendInterrupt(m4.n, NMI), c |-> m4.c] ELSE m4
  IN Executing /\ Becomes(m5)

IcsrBits == {"PENDSVSET", "PENDSVCLR", "PENDSTSET", "PENDSTCLR", "NMIPENDSET"}

-----------------------------------------------------------------------------
Next ==
  \/ BlockHook
  \/ ReturnHook
  \/ EndBlock
  \/ SetMasks
  \/ SetSpsel
  \/ Svc
  \/ NotAnSvc
  \/ \E e \in Ext \cup {SYSTICK} : NvicSetPending(e)
  \/ \E S \in SUBSET Ext \ {{}} : WriteIser(S)
  \/ \E e \in Ext : WriteIcer(e) \/ WriteIspr(e) \/ WriteIcpr(e) \/ WriteStir(e)
  \/ \E e \in PrioExc, p \in Prios : WritePrios([x \in {e} |-> p])
  \/ \E g \in Prigroups, reset \in BOOLEAN : WriteAircr(g, reset)
  \/ \E B \in SUBSET IcsrBits \ {{}} : WriteIcsr(B)

Spec == Init /\ [][Next]_vars

\* The processor executes: hooks run at every block, and every block ends.
FairSpec == Spec /\ WF_vars(BlockHook) /\ WF_vars(EndBlock)

-----------------------------------------------------------------------------
(* Properties. *)

TypeOK ==
  /\ nvic \in [enabled : SUBSET Exc, active : SUBSET Exc, pending : SUBSET Exc,
               priority : [Exc -> -2..255], prigroup : 0..7, highestEver : Exc,
               activeGroupPrio : 0..LOWEST, activeIrq : Exc \cup {NONE},
               pendingPrio : 0..LOWEST, pendingIrq : Exc \cup {NONE},
               numActive : Nat, prevPrimask : BOOLEAN, prevBasepri : -1..255,
               interruptCount : 0..InterruptLimit + 1]
  /\ cpu \in [ipsr : Exc \cup {NONE}, psp : BOOLEAN, primask : BOOLEAN,
              basepri : 0..255, lr : [thread : BOOLEAN, psp : BOOLEAN],
              stacks : [main : Seq(Exc \cup {NONE}), process : Seq(Exc \cup {NONE})],
              exit : {"no", "limit", "crash", "inconsistent", "reset", "notSvc"}]
  /\ phase \in {"block", "magic", "exec"}

(* Handlers never nest, and everything that says which handler runs agrees:
   the active flags, active_irq, the count, the IPSR, the link register and
   the one saved frame, which lies on the stack the link register names.   *)
HandlerModeConsistent ==
  Running =>
    /\ nvic.active = {nvic.activeIrq} \ {NONE}
    /\ nvic.numActive = Cardinality(nvic.active)
    /\ cpu.ipsr = nvic.activeIrq
    /\ IF nvic.activeIrq = NONE
       THEN cpu.stacks = [main |-> << >>, process |-> << >>]
       ELSE /\ cpu.lr.thread /\ ~cpu.psp
            /\ cpu.stacks = IF cpu.lr.psp
                            THEN [main |-> << >>, process |-> <<NONE>>]
                            ELSE [main |-> <<NONE>>, process |-> << >>]

(* The self-check at the end of ExceptionReturn never fires. *)
ReturnIsConsistent == cpu.exit # "inconsistent"

(* The list of interrupts offered to the fuzzer is what the firmware enabled,
   in ascending order and without duplicates (which also gives its type).  *)
FuzzListExact ==
  /\ ToSet(enabledIrqs) = nvic.enabled \cap Ext
  /\ \A i, j \in DOMAIN enabledIrqs : i < j => enabledIrqs[i] < enabledIrqs[j]

(* The lazily recalculated fields are what a recalculation would give now. *)
CacheExact ==
  /\ nvic.pendingIrq = BestPending(nvic)
  /\ nvic.pendingPrio = IF nvic.pendingIrq = NONE THEN LOWEST
                        ELSE nvic.priority[nvic.pendingIrq]
  /\ nvic.activeGroupPrio = BestActivePrio(nvic)

(* An exception is taken only if neither PRIMASK (SVC excepted) nor BASEPRI
   masks it, and no exception that was waiting and still waits beats it.   *)
TakesTheRightOne ==
  [][LET e == nvic'.activeIrq
     IN e \notin {NONE, nvic.activeIrq} =>
          /\ ~cpu.primask \/ e = SVC
          /\ cpu.basepri = 0 \/ nvic.priority[e] < GroupPrio(nvic, cpu.basepri)
          /\ \A f \in nvic.pending \cap nvic'.pending \cap Scanned(nvic) :
               Beats(nvic, e, f)]_vars

(* CanBeActivated exempts SVC from PRIMASK; the early exit of the block hook
   does not, so an SVC that BASEPRI kept waiting waits on under PRIMASK.   *)
SvcUnderPrimask == cpu.primask /\ nvic.pendingIrq = SVC

(* A block never starts to execute with BASEPRI clear while a pending
   exception could be taken: the early exit of the block hook loses none,
   but for that SVC.                                                       *)
NoLostActivation ==
  [][phase = "block" /\ phase' = "exec" /\ cpu.basepri = 0 /\ cpu'.exit = "no"
       => ~CanBeActivated(nvic', cpu') \/ SvcUnderPrimask']_vars

(* The same for every BASEPRI. *)
NoLostActivationAnyBasepri ==
  [][phase = "block" /\ phase' = "exec" /\ cpu'.exit = "no" => ~CanBeActivated(nvic', cpu')]_vars

(* With BASEPRI clear, an exception that can be taken is taken, or masked, or
   withdrawn by the firmware, or the run ends.                             *)
PendingIsTaken ==
  CanBeActivated(nvic, cpu) /\ ~SvcUnderPrimask /\ Running
    ~> ~CanBeActivated(nvic, cpu) \/ SvcUnderPrimask \/ cpu.basepri # 0 \/ ~Running

=============================================================================
