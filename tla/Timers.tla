------------------------------- MODULE Timers -------------------------------
(***************************************************************************)
(* The timers of the emulator (native/timer.c): an array of slots, the     *)
(* active ones linked in a list sorted by expiry, and one countdown for    *)
(* the front of the list, which is all that a basic block decrements.      *)
(* What has elapsed of the countdown is charged to the active timers       *)
(* later, in one batch (sync_timers, timer_countdown_expired).             *)
(*                                                                         *)
(* Slot 0 is the fuzz-consumption watchdog that native_hooks.c adds and    *)
(* starts first and never stops.  Callbacks run inside the block hook.     *)
(***************************************************************************)
EXTENDS Naturals, Sequences, FiniteSets, SequencesExt, FiniteSetsExt

CONSTANTS
    MAX_TIMERS,
    MAX_RELOAD_VAL,
    Reloads,        \* the reload values clients pass
    FuzzTimeout,    \* fuzz_consumption_timeout
    W,              \* width: a uint64_t is a number modulo W
    FuzzedTriggers, \* the callbacks of interrupt triggers consume fuzzing input
    Removable       \* the timers that clients remove

Slot == 0 .. (MAX_TIMERS - 1)
None == MAX_TIMERS
Watchdog == 0

ASSUME TimersAssumption ==
    /\ {MAX_TIMERS, MAX_RELOAD_VAL, FuzzTimeout, W} \subseteq Nat \ {0}
    /\ Reloads \subseteq 0 .. MAX_RELOAD_VAL /\ FuzzTimeout <= MAX_RELOAD_VAL
    /\ W > 2 * MAX_RELOAD_VAL
    /\ FuzzedTriggers \in BOOLEAN /\ Removable \subseteq Slot \ {Watchdog}

VARIABLES
    timers,     \* struct TimerState; active is the list from active_head
    phase,      \* "run", "dispatch" (the loop of timer_countdown_expired), "callback",
                \* "returning" (the callback has made its last call), "crash"
    cur         \* the timer whose callback runs

vars == <<timers, phase, cur>>

------------------------------------------------------------------------------
(* The list. *)

Plus(a, b) == (a + b) % W
Minus(a, b) == (a + W - b) % W
Elapsed(S) == Minus(S.cur_interval, S.cur_countdown)

Elapse(T, n) == [T EXCEPT !.ticker_val = Minus(@, n)]

\* Mutant: the global ticker does not wrap.
ChargeUnbounded(S, n) ==
    [S EXCEPT !.global_ticker = @ + n,
              !.timers = [t \in Slot |-> IF t \in ToSet(S.active) THEN Elapse(S.timers[t], n)
                                         ELSE S.timers[t]]]

\* Subtracts n from the tickers of the active timers.
Charge(S, n) ==
    [S EXCEPT !.global_ticker = Plus(@, n),
              !.timers = [t \in Slot |-> IF t \in ToSet(S.active) THEN Elapse(S.timers[t], n)
                                         ELSE S.timers[t]]]

\* Mutant: elapsed blocks are forgotten.
sync_uncharged(S) == [S EXCEPT !.cur_interval = S.cur_countdown]

sync_timers(S) == IF S.cur_countdown = 0 THEN S
                  ELSE [Charge(S, Elapsed(S)) EXCEPT !.cur_interval = S.cur_countdown]

\* How many entries from the front of l expire before v.
Before(S, l, v) == LET i == SelectInSeq(l, LAMBDA t : S.timers[t].ticker_val >= v)
                   IN IF i = 0 THEN Len(l) ELSE i - 1

\* Where t is linked.
Place(S, t) == CHOOSE i \in DOMAIN S.active : S.active[i] = t

CountDownTo(S, v) == [S EXCEPT !.cur_interval = v, !.cur_countdown = v]

\* Mutant: a new front does not restart the countdown.
insert_keeps_countdown(S, t) ==
    LET T == sync_timers(S)
    IN [T EXCEPT !.active = InsertAt(@, Before(T, @, T.timers[t].ticker_val) + 1, t)]

insert_active_timer(S, t) ==
    LET T == sync_timers(S)
        v == T.timers[t].ticker_val
        k == Before(T, T.active, v)
        L == [T EXCEPT !.active = InsertAt(@, k + 1, t)]
    IN IF k = 0 THEN CountDownTo(L, v) ELSE L

\* Mutant: removal without sync_timers.
remove_unsynced(S, t) ==
    LET L == [S EXCEPT !.active = RemoveAt(@, Place(S, t))]
    IN IF t = Head(S.active) THEN CountDownTo(L, S.timers[Head(L.active)].ticker_val) ELSE L

\* The caller has seen that t is not the only active timer.
remove_active_timer(S, t) ==
    LET T == sync_timers(S)
        L == [T EXCEPT !.active = RemoveAt(@, Place(T, t))]
    IN IF t = Head(T.active) THEN CountDownTo(L, T.timers[Head(L.active)].ticker_val) ELSE L

\* Mutant: a reloaded timer stays where it is.
sort_nothing(S, t) == S

\* Moves t behind the entries after it that expire before it.
sort_timer_back(S, t) ==
    LET i == Place(S, t)
        k == Before(S, SubSeq(S.active, i + 1, Len(S.active)), S.timers[t].ticker_val)
    IN [S EXCEPT !.active = InsertAt(RemoveAt(@, i), i + k, t)]

SetTicker(S, t, v) == [S EXCEPT !.timers[t].ticker_val = v]

reload_timer(S, t) ==
    LET r == S.timers[t].reload_val
    IN IF S.timers[t].is_active THEN sort_timer_back(SetTicker(S, t, Plus(r, Elapsed(S))), t)
       ELSE SetTicker(S, t, r)

SetReloadVal(S, t, r) == [S EXCEPT !.timers[t].reload_val = r, !.timers[t].ticker_val = r]

set_timer_reload_val(S, t, r) ==
    IF S.timers[t].is_active THEN insert_active_timer(SetReloadVal(remove_active_timer(S, t), t, r), t)
    ELSE SetReloadVal(S, t, r)

Positive(r) == IF r = 0 THEN MAX_RELOAD_VAL ELSE r
------------------------------------------------------------------------------
(* The operations. *)

Unused == [ticker_val |-> 0, reload_val |-> 0, in_use |-> FALSE, is_active |-> FALSE]
Fresh(r) == [ticker_val |-> r, reload_val |-> r, in_use |-> TRUE, is_active |-> FALSE]

\* After init() of native_hooks.c: the watchdog is added and started.
Init ==
    /\ timers = [active |-> <<Watchdog>>, cur_interval |-> FuzzTimeout,
                 cur_countdown |-> FuzzTimeout, global_ticker |-> 0,
                 timers |-> [t \in Slot |-> IF t = Watchdog
                                            THEN [Fresh(FuzzTimeout) EXCEPT !.is_active = TRUE]
                                            ELSE Unused],
                 end_ind |-> 1, num_inuse |-> 1]
    /\ phase = "run" /\ cur = None

InUse(t) == timers.timers[t].in_use
Active(t) == timers.timers[t].is_active

\* active_head->ticker_val is read through a null pointer when the last one is removed.
Emptied(t) == Active(t) /\ timers.active = <<t>>

\* "Find a gap" takes the first slot that is in use.
SlotFor(S) ==
    LET used == {t \in 0 .. (S.end_ind - 1) : S.timers[t].in_use}
    IN IF S.num_inuse = S.end_ind \/ used = {} THEN S.end_ind ELSE Min(used)

add_timer(r) ==
    /\ phase = "run" /\ timers.num_inuse < MAX_TIMERS
    /\ timers' = [timers EXCEPT !.timers[SlotFor(timers)] = Fresh(Positive(r)),
                                !.end_ind = IF timers.num_inuse = @ THEN @ + 1 ELSE @,
                                !.num_inuse = @ + 1]
    /\ UNCHANGED <<phase, cur>>

\* Mutant: unused slots at the end of the array are kept.
EndStays(S, t) == S.end_ind

\* Unused slots at the end of the array are given back.
EndAfter(S, t) ==
    IF t + 1 # S.end_ind THEN S.end_ind
    ELSE Max({0} \cup {u + 1 : u \in {v \in 0 .. t : S.timers[v].in_use}})

rem_timer(t) ==
    /\ t \in Removable /\ phase = "run" /\ InUse(t)
    /\ IF Emptied(t) THEN phase' = "crash" /\ UNCHANGED timers
       ELSE LET S == IF Active(t) THEN remove_active_timer(timers, t) ELSE timers
                T == [S EXCEPT !.timers[t] = Unused]
            IN /\ timers' = [T EXCEPT !.end_ind = EndAfter(T, t), !.num_inuse = @ - 1]
               /\ UNCHANGED phase
    /\ UNCHANGED cur

start_timer(t) ==
    /\ phase = "run" /\ InUse(t) /\ ~Active(t)
    /\ timers' = insert_active_timer([timers EXCEPT !.timers[t].is_active = TRUE], t)
    /\ UNCHANGED <<phase, cur>>

stop_timer(t) ==
    /\ phase = "run" /\ Active(t) /\ t # Watchdog
    /\ IF Emptied(t) THEN phase' = "crash" /\ UNCHANGED timers
       ELSE /\ timers' = remove_active_timer([timers EXCEPT !.timers[t].is_active = FALSE], t)
            /\ UNCHANGED phase
    /\ UNCHANGED cur

\* By SysTick for its own timer; by get_fuzz for the watchdog, also from the callback of
\* an interrupt trigger that lets the input choose the interrupt.
ReloadTimer(t) ==
    /\ InUse(t)
    /\ phase = "run" \/ (phase = "callback" /\ FuzzedTriggers /\ t = Watchdog /\ cur # Watchdog)
    /\ timers' = reload_timer(timers, t)
    /\ UNCHANGED <<phase, cur>>

\* By SysTick and the execution prefix; by an interrupt trigger's callback for the
\* trigger's own timer, as its last call.
SetTimerReloadVal(t, r) ==
    /\ InUse(t) /\ t # Watchdog
    /\ phase = "run" \/ (phase = "callback" /\ t = cur)
    /\ timers.timers[t].reload_val # Positive(r)
    /\ IF Emptied(t) THEN phase' = "crash" /\ UNCHANGED timers
       ELSE /\ timers' = set_timer_reload_val(timers, t, Positive(r))
            /\ phase' = IF phase = "callback" THEN "returning" ELSE phase
    /\ UNCHANGED cur

get_global_ticker ==
    /\ phase = "run"
    /\ timers' = sync_timers(timers)
    /\ UNCHANGED <<phase, cur>>

\* timer_tick_block_hook, and timer_countdown_expired up to its loop.
Block ==
    /\ phase = "run"
    /\ LET S == [timers EXCEPT !.cur_countdown = Minus(@, 1)]
       IN IF S.cur_countdown # 0 THEN timers' = S /\ UNCHANGED phase
          ELSE timers' = Charge(S, S.cur_interval) /\ phase' = "dispatch"
    /\ UNCHANGED cur

\* An iteration of the loop: the front timer is reloaded and its callback called.
Dispatch ==
    /\ phase = "dispatch"
    /\ LET t == Head(timers.active)
       IN /\ timers.timers[t].ticker_val = 0
          /\ timers' = sort_timer_back(SetTicker(timers, t, timers.timers[t].reload_val), t)
          /\ phase' = "callback" /\ cur' = t

CallbackReturns ==
    /\ phase \in {"callback", "returning"} /\ phase' = "dispatch" /\ cur' = None
    /\ UNCHANGED timers

DispatchEnds ==
    /\ phase = "dispatch"
    /\ LET v == timers.timers[Head(timers.active)].ticker_val
       IN v # 0 /\ timers' = CountDownTo(timers, v)
    /\ phase' = "run"
    /\ UNCHANGED cur

Hook == Block \/ Dispatch \/ CallbackReturns \/ DispatchEnds

Next == \/ Hook \/ get_global_ticker
        \/ \E r \in Reloads : add_timer(r)
        \/ \E t \in Slot : \/ rem_timer(t) \/ start_timer(t) \/ stop_timer(t) \/ ReloadTimer(t)
                           \/ \E r \in Reloads : SetTimerReloadVal(t, r)

\* The emulated processor goes on executing blocks, and callbacks return.
Spec == Init /\ [][Next]_vars /\ WF_vars(Hook)
------------------------------------------------------------------------------
(* Properties. *)

\* Types; and, in the words of timer.c, "We keep track of the number of indices touched so
\* far (timers.end_ind) as well as the number of currently used timers (in_use)": add_timer
\* and rem_timer keep both exact, so that a new timer never takes the slot of another, as
\* long as only the last is removed.
TypeOK ==
    /\ \A t \in Slot : {timers.timers[t].ticker_val, timers.timers[t].reload_val} \subseteq 0 .. (W - 1)
    /\ {timers.cur_interval, timers.cur_countdown, timers.global_ticker} \subseteq 0 .. (W - 1)
    /\ timers.end_ind \in 0 .. MAX_TIMERS /\ timers.num_inuse \in 0 .. MAX_TIMERS
    /\ timers.active \in Seq(Slot)
    /\ phase \in {"run", "dispatch", "callback", "returning"} /\ cur \in Slot \cup {None}
    /\ timers.num_inuse = Cardinality({t \in Slot : InUse(t)})
    /\ \A t \in Slot : InUse(t) => t < timers.end_ind

\* "To keep track of timer expiries, we use a sorted singly-linked list": the list holds
\* each active timer once, the next to expire first.
ActiveSorted ==
    LET l == timers.active IN
    /\ ToSet(l) = {t \in Slot : Active(t)} /\ IsInjective(l)
    /\ \A i, j \in DOMAIN l : i < j => timers.timers[l[i]].ticker_val <= timers.timers[l[j]].ticker_val

\* The countdown never passes over an expiry: between blocks it reaches zero no later
\* than the first active timer, whatever was started, stopped or reloaded since it was set.
NothingPassedOver ==
    phase = "run" =>
        /\ 1 <= timers.cur_countdown /\ timers.cur_countdown <= timers.cur_interval
        /\ timers.cur_interval <= MAX_RELOAD_VAL
        /\ \A t \in ToSet(timers.active) :
              /\ timers.cur_interval <= timers.timers[t].ticker_val
              /\ Minus(timers.timers[t].ticker_val, Elapsed(timers)) <= timers.timers[t].reload_val

\* Charging elapsed blocks in batches is not observable: the timers behave as if every
\* block decremented each of them.
NotYetCharged == IF phase = "run" THEN Elapsed(timers) ELSE 0
Abstract == INSTANCE AbstractTimers WITH
    Timer <- Slot,
    running <- {t \in Slot : Active(t)},
    left <- [t \in Slot |-> Minus(timers.timers[t].ticker_val, IF Active(t) THEN NotYetCharged ELSE 0)],
    reload <- [t \in Slot |-> timers.timers[t].reload_val],
    now <- Plus(timers.global_ticker, NotYetCharged),
    firing <- cur
RefinesAbstract == Abstract!Spec

\* The watchdog fires again and again unless fuzzing input is consumed again and again.
WatchdogBites == []<>(cur = Watchdog) \/ []<><<ReloadTimer(Watchdog)>>_vars
=============================================================================
