------------------------- MODULE MCInterruptSources -------------------------
(* Instances of InterruptSources for TLC. *)
EXTENDS InterruptSources

Config(mode, fuzz, irq, pends, skips, period, systick, masks) ==
    [triggers |-> [t \in Trigger |-> [mode |-> mode, fuzz |-> fuzz, irq |-> irq,
                                      pends |-> pends, skips |-> skips]],
     period |-> [u \in Timer |-> IF u = timer_ind THEN MaxReload ELSE period],
     systick |-> systick, masks |-> masks]

MCConfigs == {
    Config("address", "round_robin", 0, 1, 0, 1, FALSE, FALSE),
    Config("address", "round_robin", 0, 2, 1, 1, FALSE, TRUE),
    Config("address", "index", 0, 1, 1, 1, FALSE, FALSE),
    Config("time", "round_robin", 0, 2, 1, 2, FALSE, FALSE),
    Config("time_fuzzed", "index", 0, 1, 0, 2, FALSE, FALSE),
    Config("address", "fixed", 16, 1, 1, 1, TRUE, FALSE)}
=============================================================================
