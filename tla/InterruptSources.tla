-------------------------- MODULE InterruptSources --------------------------
(***************************************************************************)
(* SysTick, an interrupt trigger, the timers that drive them and the       *)
(* firmware they interrupt, block by block.  The timers are those of       *)
(* AbstractTimers, which Timers implements.  Of the NVIC, only what Nvic   *)
(* is checked for is kept: a pended exception is taken at once when none   *)
(* is active and interrupts are not masked, handlers do not nest, and what *)
(* is pending when a handler returns is taken before the code returned to. *)
(***************************************************************************)
EXTENDS IrqTriggers, SysTick

CONSTANTS
    Trigger,    \* the triggers; the timer of a time-based one bears its name
    Configs     \* configurations: [triggers : Trigger -> TriggerConfig, period : the reload
                \*   values timers are added with, systick, masks : BOOLEAN]

ASSUME InterruptSourcesAssumption ==
    /\ Timer = Trigger \cup {timer_ind} /\ timer_ind \notin Trigger /\ SYSTICK \notin Ext
    /\ \A c \in Configs : /\ c.triggers \in [Trigger -> TriggerConfig]
                          /\ c.period \in [Timer -> 1 .. MaxReload]
    /\ ReloadChoices \subseteq 0 .. MaxReload

VARIABLES
    config,     \* the configuration, fixed for a behaviour
    triggers,   \* the state of each trigger
    enabled,    \* the external interrupts enabled in the NVIC
    pending,    \* the exceptions pending
    active,     \* the one whose handler runs, 0 in thread mode
    primask,
    block,      \* the block that runs: that of a trigger, "away" or "handler"
    ret,        \* the block the handler returns to
    step,       \* of the block: "start", "timers", "hooks", "nvic", "exec"; "exit" ends a run
    saved       \* what the snapshot holds; not taken yet, runs start from boot

nvic_vars == <<enabled, pending, active, primask>>
vars == <<config, triggers, nvic_vars, block, ret, step, saved, systick_vars>>

Timed(t) == config.triggers[t].mode # "address"
At(t) == ~Timed(t) /\ block = t
Draws(t) == DrawsInput(config.triggers[t], triggers[t], enabled)

\* The state a snapshot keeps, of triggers, timers, SysTick, the NVIC and the processor.
Snapshot(taken) ==
    [taken |-> taken, triggers |-> triggers, running |-> running, left |-> left,
     reload |-> reload, csr |-> csr, enabled |-> enabled, pending |-> pending,
     active |-> active, primask |-> primask, block |-> block, ret |-> ret]

\* What a run starts from.
Fresh(c) ==
    /\ triggers = [t \in Trigger |-> Added(c.triggers[t])]
    /\ running = {t \in Trigger : c.triggers[t].mode # "address"}
    /\ left = c.period /\ reload = c.period /\ now = 0 /\ firing = NoTimer
    /\ SysTickInit
    /\ enabled = {} /\ pending = {} /\ active = 0 /\ primask = FALSE
    /\ block = "away" /\ ret = "away" /\ step = "start"

Init == config \in Configs /\ Fresh(config) /\ saved = Snapshot(FALSE)

\* nvic_set_pending of E, and the NVIC's block hook (E = {}).
Pend(E) ==
    LET P == pending \cup E IN
    \/ /\ active = 0 /\ ~primask
       /\ \E e \in P : active' = e /\ pending' = P \ {e}
    \/ /\ active # 0 \/ primask \/ P \cap (enabled \cup {SYSTICK}) = {}
       /\ pending' = P /\ UNCHANGED active

PendIrq(i) == Pend(IF i = 0 THEN {} ELSE {i})

------------------------------------------------------------------------------
(* The hooks of a block. *)

\* timer_tick_block_hook, and the expiries it finds.
Tick == step = "start" /\ step' = "timers" /\ Clock!Tick
        /\ UNCHANGED <<config, saved, triggers, nvic_vars, block, ret, csr>>

Fire == step = "timers" /\ (\E u \in Timer : Clock!Fire(u))
        /\ UNCHANGED <<config, saved, triggers, nvic_vars, block, ret, step, csr>>

SysTickExpires ==
    /\ firing = timer_ind /\ firing' = NoTimer
    /\ Expired /\ Pend(ExpiryPends)
    /\ UNCHANGED <<config, saved, triggers, enabled, primask, block, ret, step, running, left, reload, now>>

\* set_timer_reload_val from the callback.
Retimed(f, t, v) == IF v = 0 \/ v = reload[t] THEN f ELSE [f EXCEPT ![t] = v]

TriggerExpires(t) ==
    /\ firing = t /\ firing' = NoTimer /\ (saved.taken \/ ~Draws(t))
    /\ \E o \in TimerCallback(config.triggers[t], triggers[t], enabled) :
          /\ triggers' = [triggers EXCEPT ![t] = o.g]
          /\ PendIrq(o.pend)
          /\ left' = Retimed(left, t, o.reload) /\ reload' = Retimed(reload, t, o.reload)
          /\ step' = IF o.ends THEN "exit" ELSE step
    /\ UNCHANGED <<config, saved, enabled, primask, block, ret, csr, running, now>>

TimersDone == step = "timers" /\ firing = NoTimer /\ (\A u \in running : left[u] > 0)
              /\ step' = "hooks"
              /\ UNCHANGED <<config, saved, triggers, nvic_vars, block, ret, systick_vars>>

AddressHook(t) ==
    /\ step = "hooks" /\ At(t) /\ (saved.taken \/ ~Draws(t))
    /\ \E o \in Hook(config.triggers[t], triggers[t], enabled) :
          /\ triggers' = [triggers EXCEPT ![t] = o.g]
          /\ PendIrq(o.pend)
          /\ step' = IF o.ends THEN "exit" ELSE "nvic"
    /\ UNCHANGED <<config, saved, enabled, primask, block, ret, systick_vars>>

\* Whether the hook of the block still runs when the timers' hook has entered an exception
\* is up to the emulator.
NoHook ==
    /\ step = "hooks" /\ (active # 0 \/ \A t \in Trigger : ~At(t))
    /\ step' = "nvic"
    /\ UNCHANGED <<config, saved, triggers, nvic_vars, block, ret, systick_vars>>

\* After its hooks the block runs, unless one of them entered an exception.
NvicBlockHook ==
    /\ step = "nvic" /\ Pend({})
    /\ IF active' # 0 /\ block # "handler"
       THEN ret' = block /\ block' = "handler" /\ step' = "start"
       ELSE step' = "exec" /\ UNCHANGED <<block, ret>>
    /\ UNCHANGED <<config, saved, triggers, enabled, primask, systick_vars>>

------------------------------------------------------------------------------
(* The firmware.  Bound: a handler is one block long. *)

Move == /\ step = "exec" /\ block # "handler"
        /\ block' \in {"away"} \cup {t \in Trigger : ~Timed(t)} /\ step' = "start"
        /\ UNCHANGED <<config, saved, triggers, nvic_vars, ret, systick_vars>>

\* A pending exception is tail-chained.
Return == /\ step = "exec" /\ block = "handler" /\ step' = "start"
          /\ \/ /\ ~primask /\ \E e \in pending : active' = e /\ pending' = pending \ {e}
                /\ UNCHANGED block
             \/ /\ primask \/ pending \cap (enabled \cup {SYSTICK}) = {}
                /\ active' = 0 /\ block' = ret /\ UNCHANGED pending
          /\ UNCHANGED <<config, saved, triggers, enabled, primask, ret, systick_vars>>

WriteNvic == /\ step = "exec" /\ block # "handler" /\ enabled' \in SUBSET Ext
             /\ UNCHANGED <<config, saved, triggers, pending, active, primask, block, ret, step, systick_vars>>

Cps == /\ step = "exec" /\ config.masks /\ primask' = ~primask
       /\ UNCHANGED <<config, saved, triggers, enabled, pending, active, block, ret, step, systick_vars>>

AccessSysTick == /\ step = "exec" /\ config.systick /\ (RegisterWrite \/ ReadCsr)
                 /\ UNCHANGED <<config, saved, triggers, nvic_vars, block, ret, step>>

------------------------------------------------------------------------------
(* Snapshots. *)

\* At the start of a block, before input is drawn (ForkServer counts the blocks).  Bound:
\* where no trigger ever draws input, no run ends and no snapshot is needed.
TakeSnapshot ==
    /\ step = "start" /\ ~saved.taken
    /\ \E t \in Trigger : config.triggers[t].fuzz = "index" \/ config.triggers[t].mode = "time_fuzzed"
    /\ saved' = Snapshot(TRUE)
    /\ UNCHANGED <<config, triggers, nvic_vars, block, ret, step, systick_vars>>

\* The discovery child ends where input is first needed; its parent starts from boot.
Discovered(t) ==
    /\ ~saved.taken /\ Draws(t)
    /\ (step = "hooks" /\ At(t)) \/ firing = t
    /\ step' = "exit" /\ firing' = NoTimer
    /\ UNCHANGED <<config, saved, triggers, nvic_vars, block, ret, csr, running, left, reload, now>>

Restore ==
    /\ step = "exit" /\ step' = "start"
    /\ triggers' = saved.triggers
    /\ running' = saved.running /\ left' = saved.left /\ reload' = saved.reload
    /\ csr' = saved.csr /\ firing' = NoTimer
    /\ enabled' = saved.enabled /\ pending' = saved.pending
    /\ active' = saved.active /\ primask' = saved.primask
    /\ block' = saved.block /\ ret' = saved.ret
    /\ UNCHANGED <<config, saved, now>>

\* What the emulator does by itself.
Run == \/ Tick \/ Fire \/ SysTickExpires \/ TimersDone \/ NoHook \/ NvicBlockHook
       \/ Move \/ Return \/ TakeSnapshot \/ Restore
       \/ \E t \in Trigger : TriggerExpires(t) \/ AddressHook(t) \/ Discovered(t)

Next == Run \/ WriteNvic \/ Cps \/ AccessSysTick

\* The emulated processor goes on.
Spec == Init /\ [][Next]_vars /\ WF_vars(Run)
------------------------------------------------------------------------------
(* Properties. *)

\* A trigger never counts past its configuration: it has pended less than num_pends times
\* when it may pend again, and skipped at most num_skips visits.  SysTick counts exactly
\* while ENABLE is set, whatever is written to its registers while it runs, expires, or is
\* disabled: ENABLE is kept in csr, running in the timer.
TypeOK ==
    /\ \A t \in Trigger : LET c == config.triggers[t]
                              g == triggers[t] IN
          /\ g.irq \in Ext \cup {0} /\ g.round_robin_index \in 0 .. (IndexW - 1)
          /\ g.curr_pends < c.pends /\ g.curr_skips <= c.skips
    /\ "ENABLE" \in csr <=> timer_ind \in running
    /\ csr \subseteq Control \cup {"COUNTFLAG"} /\ pending \subseteq Ext \cup {SYSTICK}
    /\ \A u \in Timer : left[u] \in 0 .. MaxReload /\ reload[u] \in 1 .. MaxReload
    /\ step \in {"start", "timers", "hooks", "nvic", "exec", "exit"}

\* A trigger does not hold the firmware at its block: returning from the interrupt it
\* pended there does not make it pend again for ever (unless timers keep interrupting, or
\* the input ends).
ProgressPastTrigger ==
    \/ \A t \in Trigger : At(t) ~> (step = "exit" \/ (At(t) /\ step = "exec"))
    \/ []<>(firing # NoTimer)

\* A round-robin trigger starves no interrupt: one that stays enabled is chosen again and
\* again, although the index wraps and the list it indexes changes length.
Visited(t) == IF Timed(t) THEN firing = t ELSE At(t) /\ step = "exec"
RoundRobinFair ==
    \A t \in Trigger, i \in Ext :
        config.triggers[t].fuzz = "round_robin" /\ []<>Visited(t) =>
            \/ []<>(triggers[t].irq = i) \/ []<>(i \notin enabled)
            \/ []<><<enabled' # enabled>>_vars \/ []<>(step = "exit")

\* An enabled SysTick with TICKINT keeps interrupting, unless its registers keep being
\* written: no write may leave it enabled and not counting.
SysTickTicks ==
    <>[]({"ENABLE", "TICKINT"} \subseteq csr) =>
        []<>(SYSTICK \in pending \/ active = SYSTICK) \/ []<><<RegisterWrite>>_systick_vars
=============================================================================
