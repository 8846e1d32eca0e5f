---------------------------- MODULE MCPageRestore ----------------------------
(* Instances of PageRestore for TLC. *)
EXTENDS PageRestore

\* Two regions of RAM side by side, code, and a device.
MCRegions == {[begin |-> 0, end |-> 3, kind |-> "ram"], [begin |-> 3, end |-> 5, kind |-> "ram"],
              [begin |-> 5, end |-> 6, kind |-> "rom"], [begin |-> 6, end |-> 7, kind |-> "mmio"]}
=============================================================================
