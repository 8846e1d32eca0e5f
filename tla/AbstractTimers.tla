--------------------------- MODULE AbstractTimers ---------------------------
(***************************************************************************)
(* What native/timer.c promises its clients: every basic block is a tick   *)
(* of every running timer; a timer with no tick left is reloaded and fires *)
(* before the next block; starting, stopping or reloading one timer does   *)
(* not disturb another.                                                    *)
(***************************************************************************)
EXTENDS Naturals

CONSTANTS Timer,    \* the timers, a set of numbers
          None,     \* no timer
          W         \* ticks are counted modulo W

VARIABLES
    running,    \* the timers that count
    left,       \* ticks left, of each timer
    reload,     \* reload value, of each timer
    now,        \* ticks so far
    firing      \* the timer whose callback runs, or None

vars == <<running, left, reload, now, firing>>

Init ==
    /\ running \in SUBSET Timer /\ reload \in [Timer -> Nat] /\ left = reload
    /\ now = 0 /\ firing = None

Tick ==
    /\ firing = None /\ \A t \in running : left[t] > 0
    /\ left' = [t \in Timer |-> IF t \in running THEN left[t] - 1 ELSE left[t]]
    /\ now' = (now + 1) % W
    /\ UNCHANGED <<running, reload, firing>>

Fire(t) ==
    /\ firing = None /\ t \in running /\ left[t] = 0
    /\ left' = [left EXCEPT ![t] = reload[t]]
    /\ firing' = t
    /\ UNCHANGED <<running, reload, now>>

Return == firing # None /\ firing' = None /\ UNCHANGED <<running, left, reload, now>>

Start(t) == running' = running \cup {t} /\ UNCHANGED <<left, reload, now, firing>>
Stop(t) == running' = running \ {t} /\ UNCHANGED <<left, reload, now, firing>>
Reload(t) == left' = [left EXCEPT ![t] = reload[t]] /\ UNCHANGED <<running, reload, now, firing>>

\* A new reload value takes effect at once; so does the first one of a timer just added
\* (0 stands for a timer that was removed).
SetReload(t) ==
    /\ reload'[t] # reload[t]
    /\ reload' = [reload EXCEPT ![t] = reload'[t]]
    /\ left' = [left EXCEPT ![t] = reload'[t]]
    /\ UNCHANGED <<running, now, firing>>

Remove(t) ==
    /\ running' = running \ {t}
    /\ left' = [left EXCEPT ![t] = 0] /\ reload' = [reload EXCEPT ![t] = 0]
    /\ UNCHANGED <<now, firing>>

Next == \/ Tick \/ Return
        \/ \E t \in Timer : Fire(t) \/ Start(t) \/ Stop(t) \/ Reload(t) \/ SetReload(t) \/ Remove(t)

Spec == Init /\ [][Next]_vars
=============================================================================
