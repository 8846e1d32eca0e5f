------------------------------- MODULE SysTick -------------------------------
(***************************************************************************)
(* The SysTick peripheral (native/core_peripherals/cortexm_systick.c): the *)
(* control register is its own state, the counter is a timer of            *)
(* native/timer.c, of which it sees what AbstractTimers promises.          *)
(***************************************************************************)
EXTENDS Naturals

CONSTANTS
    Timer, NoTimer, MaxReload,  \* the timers; MaxReload is MAX_RELOAD_VAL
    timer_ind,                  \* the timer of SysTick
    TICKS_10_MS,                \* SYSTICK_TICKS_10_MS
    UserReload,                 \* user_configured_reload_val, 0 for none
    ReloadMask,                 \* SYST_RELOAD_VAL_MASK + 1
    RvrValues,                  \* what the firmware writes to RVR
    SYSTICK                     \* its exception number

ASSUME SysTickAssumption ==
    /\ timer_ind \in Timer /\ NoTimer \notin Timer
    /\ {TICKS_10_MS, MaxReload, ReloadMask} \subseteq Nat \ {0}
    /\ ReloadMask <= MaxReload + 1
    /\ RvrValues \subseteq Nat /\ UserReload \in Nat

VARIABLES
    csr,    \* the bits set in the control and status register
    running, left, reload, now, firing      \* the timers

systick_vars == <<csr, running, left, reload, now, firing>>

Clock == INSTANCE AbstractTimers WITH None <- NoTimer, W <- 1

Control == {"ENABLE", "TICKINT", "CLKSOURCE"}

\* Registered with no reload value, which the timer takes for the largest.
SysTickInit == csr = {} /\ timer_ind \notin running /\ reload[timer_ind] = MaxReload

ReadCsr == csr' = csr \cup {"COUNTFLAG"} /\ UNCHANGED <<running, left, reload, now, firing>>

Reloaded == [left EXCEPT ![timer_ind] = reload[timer_ind]]

\* Mutant: disabling SysTick leaves its timer running.
WriteCsrKeepsTimer(bits) ==
    /\ csr' = (csr \ Control) \cup bits
    /\ running' = IF "ENABLE" \in bits THEN running \cup {timer_ind} ELSE running
    /\ left' = IF "ENABLE" \in bits \ csr THEN Reloaded ELSE left
    /\ UNCHANGED <<reload, now, firing>>

\* Mutant: every write that enables starts the period again, and again.
WriteCsrStartsStopped(bits) ==
    /\ csr' = (csr \ Control) \cup bits
    /\ running' = IF "ENABLE" \in bits \ csr THEN running ELSE running \ {timer_ind}
    /\ left' = Reloaded
    /\ UNCHANGED <<reload, now, firing>>

\* Only a change of ENABLE starts or stops the timer; a change of the clock reloads it.
WriteCsr(bits) ==
    /\ csr' = (csr \ Control) \cup bits
    /\ running' = IF "ENABLE" \in bits THEN running \cup {timer_ind} ELSE running \ {timer_ind}
    /\ left' = IF \/ "ENABLE" \in bits \ csr
                  \/ /\ "ENABLE" \in bits <=> "ENABLE" \in csr
                     /\ "CLKSOURCE" \in bits <=> "CLKSOURCE" \notin csr
               THEN Reloaded ELSE left
    /\ UNCHANGED <<reload, now, firing>>

Sensible(v) == CASE UserReload # 0 -> UserReload
                 [] v < TICKS_10_MS -> TICKS_10_MS
                 [] v > 3 * TICKS_10_MS -> 3 * TICKS_10_MS
                 [] OTHER -> v

Masked(v) == IF v % ReloadMask = 0 THEN MaxReload ELSE v % ReloadMask

\* set_timer_reload_val returns early when the value does not change.
WriteRvr(v) ==
    LET r == Masked(Sensible(v)) IN
    /\ reload' = [reload EXCEPT ![timer_ind] = r]
    /\ left' = IF r = reload[timer_ind] THEN left ELSE [left EXCEPT ![timer_ind] = r]
    /\ UNCHANGED <<csr, running, now, firing>>

WriteCvr == /\ csr' = csr \ {"COUNTFLAG"} /\ left' = Reloaded
            /\ UNCHANGED <<running, reload, now, firing>>

\* systick_trigger_callback; the exceptions it pends.
Expired == csr' = csr \cup {"COUNTFLAG"}
ExpiryPends == IF "TICKINT" \in csr THEN {SYSTICK} ELSE {}

RegisterWrite == \/ \E bits \in SUBSET Control : WriteCsr(bits)
                 \/ \E v \in RvrValues : WriteRvr(v)
                 \/ WriteCvr
=============================================================================
