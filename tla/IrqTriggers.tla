----------------------------- MODULE IrqTriggers -----------------------------
(***************************************************************************)
(* The interrupt triggers (native/interrupt_triggers.c): at a block of the *)
(* firmware, or whenever a timer of theirs expires, they pend an interrupt *)
(* that the configuration, the fuzzer or a rotation chooses.               *)
(*                                                                         *)
(* This module holds the state of one trigger and its callback.  A trigger *)
(* is configured by a record [mode, fuzz, irq, pends, skips], pends and    *)
(* skips being num_pends and num_skips.                                    *)
(***************************************************************************)
EXTENDS Naturals, FiniteSets

CONSTANTS
    Ext,                \* the external interrupts
    IndexW,             \* width: round_robin_index is a number modulo IndexW
    IrqBytes,           \* values of the byte by which the fuzzer chooses an interrupt
    ReloadChoices       \* FUZZER_TIME_RELOAD_VALS

ASSUME IrqTriggersAssumption ==
    /\ Ext \subseteq Nat \ {0} /\ IsFiniteSet(Ext) /\ IndexW \in Nat \ {0} /\ IrqBytes \subseteq Nat

Mode == {"address", "time", "time_fuzzed"}
Fuzz == {"fixed", "index", "round_robin"}
TriggerConfig == [mode : Mode, fuzz : Fuzz, irq : Ext \cup {0}, pends : Nat \ {0}, skips : Nat]

\* add_interrupt_trigger: the very first invocation is not skipped.
Added(c) == [irq |-> c.irq, round_robin_index |-> 0, skip_next |-> FALSE,
             curr_skips |-> c.skips, curr_pends |-> 0]

\* The enabled interrupts are counted in ascending order (FuzzListExact of Nvic).
nth_enabled_irq_num(enabled, n) ==
    CHOOSE i \in enabled : Cardinality({j \in enabled : j < i}) = n % Cardinality(enabled)

\* What a call of the callback leads to: the trigger after it, the interrupt it pends
\* (0: none), the reload value it gives its timer (0: none) and whether the input ended.
Outcome(g, pend, reload, ends) == [g |-> g, pend |-> pend, reload |-> reload, ends |-> ends]
Quiet(g) == Outcome(g, 0, 0, FALSE)
RanOut(g) == Outcome(g, 0, 0, TRUE)

\* The switch over fuzz_mode: which interrupt is next?
NoneEnabled(g) == {Quiet([g EXCEPT !.irq = 0])}

\* Mutant: the rotation does not advance.
RotationStuck(g, enabled) ==
    IF enabled = {} THEN NoneEnabled(g)
    ELSE {Quiet([g EXCEPT !.irq = nth_enabled_irq_num(enabled, @)])}

RoundRobin(g, enabled) ==
    IF enabled = {} THEN NoneEnabled(g)
    ELSE {Quiet([g EXCEPT !.irq = nth_enabled_irq_num(enabled, g.round_robin_index),
                          !.round_robin_index = (@ + 1) % IndexW])}

\* One enabled interrupt is chosen without asking the fuzzer.
FuzzedIndex(g, enabled) ==
    CASE enabled = {} -> NoneEnabled(g)
      [] Cardinality(enabled) = 1 -> {Quiet([g EXCEPT !.irq = nth_enabled_irq_num(enabled, 0)])}
      [] OTHER -> {RanOut(g)} \cup {Quiet([g EXCEPT !.irq = nth_enabled_irq_num(enabled, b)]) :
                                       b \in IrqBytes}

Choose(c, g, enabled) == CASE c.fuzz = "fixed" -> {Quiet(g)}
                           [] c.fuzz = "index" -> FuzzedIndex(g, enabled)
                           [] c.fuzz = "round_robin" -> RoundRobin(g, enabled)

\* The input may end when the next expiry is to be chosen, after the interrupt was.
FuzzedTime(c, o) ==
    IF c.mode # "time_fuzzed" \/ o.ends THEN {o}
    ELSE {RanOut(o.g)} \cup {[o EXCEPT !.reload = v] : v \in ReloadChoices}

Pended(o) == IF o.g.irq = 0 \/ o.ends THEN o
             ELSE [o EXCEPT !.pend = o.g.irq, !.g.curr_pends = @ + 1]

\* Mutants: the return from the interrupt is not skipped; one interrupt too many.
TrainEndsUnskipped(c, o) ==
    IF o.ends \/ o.g.curr_pends # c.pends THEN o
    ELSE [o EXCEPT !.g.curr_pends = 0, !.g.curr_skips = 0]
TrainEndsLate(c, o) ==
    IF o.ends \/ o.g.curr_pends <= c.pends THEN o
    ELSE [o EXCEPT !.g.curr_pends = 0, !.g.curr_skips = 0, !.g.skip_next = TRUE]

TrainEnds(c, o) ==
    IF o.ends \/ o.g.curr_pends # c.pends THEN o
    ELSE [o EXCEPT !.g.curr_pends = 0, !.g.curr_skips = 0, !.g.skip_next = TRUE]

\* Whether a call of the callback asks the fuzzer, for an interrupt or for a time.
DrawsInput(c, g, enabled) ==
    /\ ~g.skip_next /\ g.curr_pends = 0 /\ g.curr_skips >= c.skips
    /\ (c.fuzz = "index" /\ Cardinality(enabled) > 1) \/ c.mode = "time_fuzzed"

\* interrupt_trigger_tick_block_hook: its outcomes.
Hook(c, g, enabled) ==
    IF g.skip_next THEN {Quiet([g EXCEPT !.skip_next = FALSE])}
    ELSE {TrainEnds(c, o) : o \in
            CASE g.curr_pends # 0 -> {Pended(Quiet(g))}
              [] g.curr_pends = 0 /\ g.curr_skips < c.skips ->
                    {Quiet([g EXCEPT !.curr_skips = @ + 1])}
              [] OTHER -> {Pended(p) : p \in UNION {FuzzedTime(c, o) : o \in Choose(c, g, enabled)}}}

\* interrupt_trigger_timer_cb.
TimerCallback(c, g, enabled) ==
    {[o EXCEPT !.g.skip_next = FALSE] : o \in Hook(c, g, enabled)}
=============================================================================
