----------------------------- MODULE ForkServer -----------------------------
(***************************************************************************)
(* How native_hooks.c feeds inputs to the firmware: emulate() forks a      *)
(* child that discovers after how many basic blocks dynamic input is first *)
(* needed, executes that prefix, takes a snapshot and then serves AFL,     *)
(* one input a run, restoring the snapshot in between; without AFL it runs *)
(* the input file once.                                                    *)
(*                                                                         *)
(* The firmware is a short sequence of basic blocks.  A byte is kept with  *)
(* where it came from, so that the log of what the firmware has read tells *)
(* an input byte from a stale one.  The watchdog and the block limit are   *)
(* the timers of module AbstractTimers, as two numbers of blocks left.     *)
(* Operators take the process p, and the input where it looks for one.     *)
(***************************************************************************)
EXTENDS Integers, Sequences, SequencesExt

CONSTANTS
    Setups,                     \* firmware and prefix input, see Setup
    Inputs,                     \* inputs, sequences of bytes
    BlockLimit,                 \* instr_limit, 0: none
    FuzzConsumptionTimeout,     \* fuzz_consumption_timeout, 0: none
    ExitAtHitLimit,             \* exit_at_hit_limit
    MaxReloadVal,               \* MAX_RELOAD_VAL, bounded
    LinearVals                  \* values of a linear MMIO model, bounded

Kinds == {"quiet", "read", "wide", "linear", "exit", "crash", "fault"}
Setup == [code : Seq(Kinds), loop : Nat, prefix : Seq({0, 1})]

ASSUME ForkServerAssumption ==
    /\ \A s \in Setups : /\ s.code \in Seq(Kinds) /\ s.prefix \in Seq({0, 1})
                         /\ s.loop \in DOMAIN s.code
    /\ \A i \in Inputs : i \in Seq({0, 1})
    /\ MaxReloadVal \in Nat \ {0}
    /\ {BlockLimit, FuzzConsumptionTimeout} \subseteq 0 .. MaxReloadVal - 1
    /\ ExitAtHitLimit \in Nat \ {0} /\ LinearVals \in Nat \ {0}

NoInput == <<-1>>
NoReport == -1
NoResult == [log |-> <<>>, status |-> "none"]

VARIABLES
    setup,      \* firmware, prefix, and how the emulator is run
    phase,      \* where emulate() is
    proc,       \* globals of the process that runs, and the machine it emulates
    parent,     \* the parent's copy of proc while the discovery child runs
    snapshot,   \* machine state saved by trigger_snapshotting
    afl,        \* the input AFL waits for a status of, or NoInput
    file,       \* contents of the file at input_path
    shmem,      \* contents of AFL++'s shared memory
    outcome     \* history: what the last finished run on each input did

vars == <<setup, phase, proc, parent, snapshot, afl, file, shmem, outcome>>

-----------------------------------------------------------------------------
\* Exits and timers.

do_exit(p, err) ==
    IF p.duplicate_exit THEN p
    ELSE [p EXCEPT !.custom_exit_reason = err, !.duplicate_exit = TRUE, !.running = FALSE]

Largest(v) == IF v = 0 THEN MaxReloadVal ELSE v

\* set_timer_reload_val of the block limit's timer: a new value restarts it,
\* and 0 is the largest value.
SetLimit(m, v) ==
    LET r == Largest(v)
    IN  IF m.limitReload = r THEN m ELSE [m EXCEPT !.limitReload = r, !.limit = r]

\* Mutant: a timer that fires is not reloaded.
LeftUnloaded(left, reload) == left - 1

\* Blocks left of a timer after one more block; a timer that fires is reloaded.
Left(left, reload) == IF left = 1 THEN reload ELSE left - 1

\* One block less for each timer.  The global ticker is counted only in the
\* discovery child, which alone reads it.
Elapsed(m, counted) ==
    [m EXCEPT !.ticks = IF counted THEN @ + 1 ELSE @,
              !.watchdog = IF FuzzConsumptionTimeout > 0 THEN Left(@, FuzzConsumptionTimeout) ELSE @,
              !.limit = IF BlockLimit > 0 THEN Left(@, m.limitReload) ELSE @]
Expired(m) == \/ FuzzConsumptionTimeout > 0 /\ m.watchdog = 1
              \/ BlockLimit > 0 /\ m.limit = 1

\* The block hook of the timers.
timer_tick(p) ==
    LET q == [p EXCEPT !.m = Elapsed(@, p.is_discovery_child)]
    IN  IF Expired(p.m) THEN do_exit(q, "ok") ELSE q

\* Bound: hits are counted to one past the limit, which they are compared with.
Hit(m) == [m EXCEPT !.hits = IF @ > ExitAtHitLimit THEN @ ELSE @ + 1]

hook_block_exit_at(p) ==
    LET q == [p EXCEPT !.m = Hit(@)]
    IN  IF q.m.hits = ExitAtHitLimit THEN do_exit(q, "ok") ELSE q

-----------------------------------------------------------------------------
\* Input.

Cells(src, s) == [i \in DOMAIN s |-> [src |-> src, at |-> i, val |-> s[i]]]

\* The size field in front of an input in shared memory, as one cell.
SizeCell == [src |-> "size", at |-> 0, val |-> 0]
Stale == [src |-> "stale", at |-> 0, val |-> 0]

\* What the pointer `fuzz` points to: determine_input_mode moves it.
Fuzz(p, input) == IF p.input_mode_SHM THEN <<SizeCell>> \o Cells("input", input) ELSE p.fuzz
FuzzAt(p, input, i) == IF i \in DOMAIN Fuzz(p, input) THEN Fuzz(p, input)[i] ELSE Stale

\* A file is refused while an earlier one is not used up, and the process exits.
load_fuzz(p, src, contents) ==
    IF p.input_mode_SHM
    THEN [p EXCEPT !.fuzz_size = Len(contents) + 1, !.fuzz_cursor = 1]
    ELSE IF p.fuzz_size # p.fuzz_cursor
    THEN [p EXCEPT !.exited = TRUE, !.running = FALSE]
    ELSE [p EXCEPT !.fuzz = Cells(src, contents), !.fuzz_size = Len(contents), !.fuzz_cursor = 0]

load_delayed_input(p, input) ==
    [load_fuzz(p, "input", input) EXCEPT !.input_already_given = TRUE]

Enough(p, size) == p.fuzz_cursor + size <= p.fuzz_size

\* Handing out bytes feeds the watchdog.
Reads(m, cells) == [m EXCEPT !.log = @ \o cells, !.last = Last(cells).val,
                             !.watchdog = FuzzConsumptionTimeout]
Consume(p, size, input) ==
    [p EXCEPT !.m = Reads(@, [i \in 1 .. size |-> FuzzAt(p, input, p.fuzz_cursor + i)]),
              !.fuzz_cursor = @ + size]

\* get_fuzz and get_fuzz_ptr, for size > 0.
get_fuzz(p, size, input) ==
    LET q == IF Enough(p, size) \/ p.is_discovery_child \/ p.input_already_given
             THEN p ELSE load_delayed_input(p, input)
    IN  CASE q.exited -> q
          [] ~q.exited /\ Enough(q, size) -> Consume(q, size, input)
          [] ~q.exited /\ ~Enough(q, size) /\ q.is_discovery_child ->
                 [q EXCEPT !.report = q.m.ticks, !.running = FALSE]
          [] ~q.exited /\ ~Enough(q, size) /\ ~q.is_discovery_child -> do_exit(q, "ok")

-----------------------------------------------------------------------------
\* The firmware.

BootMachine ==
    [pc |-> 1, log |-> <<>>, last |-> 0, hits |-> 0, ticks |-> 0,
     watchdog |-> FuzzConsumptionTimeout,
     limit |-> Largest(BlockLimit), limitReload |-> Largest(BlockLimit)]

Booted ==
    [m |-> BootMachine, linear |-> 0, fuzz |-> <<>>, fuzz_size |-> 0, fuzz_cursor |-> 0,
     input_mode_SHM |-> FALSE, input_already_given |-> FALSE, duplicate_exit |-> FALSE,
     custom_exit_reason |-> "ok", is_discovery_child |-> FALSE, report |-> NoReport,
     running |-> FALSE, err |-> "ok", exited |-> FALSE]

KindAt(p) == setup.code[p.m.pc]
NextPc(m) == [m EXCEPT !.pc = IF @ = Len(setup.code) THEN setup.loop ELSE @ + 1]
Advance(p) == [p EXCEPT !.m = NextPc(@)]

linear_mmio_model_handler(p) ==
    LET v == (p.linear + 1) % LinearVals
        m == [p.m EXCEPT !.last = v]
    IN  [p EXCEPT !.linear = v, !.m = m]

\* The hooks at the start of a basic block.
Hooked(p) == IF KindAt(p) = "exit" THEN hook_block_exit_at(timer_tick(p)) ELSE timer_tick(p)

\* In the block, with the program counter already behind it.
Entered == Advance(Hooked(proc))

\* Where the process looks for its input.
Given == IF proc.input_mode_SHM THEN shmem ELSE file

\* One basic block, which leads to `done' if it is executed.  A stop requested
\* by a block hook takes effect before or after the block, which is Unicorn's
\* business and fixed for a behaviour.
BlockOf(kind, done) ==
    /\ proc.running /\ KindAt(proc) = kind
    /\ proc' = IF Hooked(proc).running \/ setup.finishes THEN done ELSE Hooked(proc)
    /\ UNCHANGED <<setup, phase, parent, snapshot, afl, file, shmem, outcome>>

QuietBlock == BlockOf("quiet", Entered)
ExitAtBlock == BlockOf("exit", Entered)
ReadBlock == BlockOf("read", get_fuzz(Entered, 1, Given))
WideReadBlock == BlockOf("wide", get_fuzz(Entered, 2, Given))
LinearReadBlock == BlockOf("linear", linear_mmio_model_handler(Entered))

\* A crash the native code decides on, and an access Unicorn refuses; both
\* happen when the last value read was 1.
ForcedCrash(p) == IF p.m.last = 1 THEN do_exit(p, "crash") ELSE p
Refused(p) == IF p.m.last = 1 THEN [p EXCEPT !.err = "fault", !.running = FALSE] ELSE p
CrashBlock == BlockOf("crash", ForcedCrash(Entered))
FaultBlock == BlockOf("fault", Refused(Entered))

Block == QuietBlock \/ ExitAtBlock \/ ReadBlock \/ WideReadBlock \/ LinearReadBlock
            \/ CrashBlock \/ FaultBlock

-----------------------------------------------------------------------------
\* emulate().

\* Up to the fork: the prefix input is loaded, and the child starts.
Init ==
    /\ setup \in {[code |-> s.code, loop |-> s.loop, prefix |-> s.prefix,
                   mode |-> m, finishes |-> f]
                    : s \in Setups, m \in {"shm", "file", "single"}, f \in BOOLEAN}
    /\ file \in Inputs /\ shmem = <<>>
    /\ phase = "discovery"
    /\ parent = load_fuzz(Booted, "prefix", setup.prefix)
    /\ proc = [parent EXCEPT !.is_discovery_child = TRUE, !.running = TRUE]
    /\ snapshot = BootMachine
    /\ afl = NoInput /\ outcome = [i \in Inputs |-> NoResult]

\* Mutant: up to the block that needs input.
PrefixTicksAll(required_ticks) == required_ticks

\* Blocks to execute before the snapshot, of the number the child reported.
PrefixTicks(required_ticks) == required_ticks - 2

\* The child has reported: execute the prefix under a block limit.
RunPrefix ==
    /\ phase = "discovery" /\ ~proc.running /\ proc.report # NoReport
    /\ phase' = "prefix"
    /\ proc' = IF proc.report > 2
               THEN [parent EXCEPT !.m = SetLimit(@, PrefixTicks(proc.report)),
                                   !.running = TRUE]
               ELSE parent
    /\ UNCHANGED <<setup, parent, snapshot, afl, file, shmem, outcome>>

\* The child stopped for another reason: the parent exits.
DiscoveryFails ==
    /\ phase = "discovery" /\ ~proc.running /\ proc.report = NoReport
    /\ phase' = "exited"
    /\ UNCHANGED <<setup, proc, parent, snapshot, afl, file, shmem, outcome>>

\* exit(-1) in a process that emulates, or for an error in the prefix.
Exits ==
    /\ phase \in {"prefix", "run"} /\ ~proc.running
    /\ proc.exited \/ (phase = "prefix" /\ proc.err # "ok")
    /\ phase' = "exited"
    /\ UNCHANGED <<setup, proc, parent, snapshot, afl, file, shmem, outcome>>

\* The prefix is done: set the input mode and the real limit; under AFL take
\* the snapshot, otherwise go on with the input file.
TakeSnapshot ==
    /\ phase = "prefix" /\ ~proc.running /\ ~proc.exited /\ proc.err = "ok"
    /\ LET m == SetLimit(proc.m, BlockLimit)
           p == [proc EXCEPT !.m = m, !.input_mode_SHM = setup.mode = "shm",
                             !.duplicate_exit = FALSE]
       IN  \/ /\ setup.mode = "single"
              /\ proc' = [p EXCEPT !.running = TRUE]
              /\ phase' = "run"
              /\ UNCHANGED snapshot
           \/ /\ setup.mode # "single"
              /\ proc' = [p EXCEPT !.input_already_given = FALSE]
              /\ phase' = "ready"
              /\ snapshot' = m
    /\ UNCHANGED <<setup, parent, afl, file, shmem, outcome>>

\* AFL puts an input where the emulator will look for it and asks for a run.
AflAsks(i) ==
    /\ phase = "ready" /\ afl = NoInput
    /\ afl' = i
    /\ IF setup.mode = "shm" THEN shmem' = i /\ UNCHANGED file
                             ELSE file' = i /\ UNCHANGED shmem
    /\ UNCHANGED <<setup, phase, proc, parent, snapshot, outcome>>

\* AFL closes the pipe.
AflCloses ==
    /\ phase = "ready" /\ afl = NoInput
    /\ phase' = "closed"
    /\ UNCHANGED <<setup, proc, parent, snapshot, afl, file, shmem, outcome>>

StartRun ==
    /\ phase = "ready" /\ afl # NoInput
    /\ phase' = "run"
    /\ proc' = [proc EXCEPT !.running = TRUE, !.err = "ok"]
    /\ UNCHANGED <<setup, parent, snapshot, afl, file, shmem, outcome>>

\* run_single's status: a reason given by the native code goes first.
Status(p) == IF p.custom_exit_reason # "ok" THEN p.custom_exit_reason ELSE p.err

\* Mutants: one of the resets is missing.
restore_keeps_reason(p) ==
    [p EXCEPT !.m = snapshot, !.fuzz_cursor = p.fuzz_size, !.input_already_given = FALSE,
              !.duplicate_exit = FALSE]
restore_keeps_cursor(p) ==
    [p EXCEPT !.m = snapshot, !.input_already_given = FALSE,
              !.duplicate_exit = FALSE, !.custom_exit_reason = "ok"]
restore_keeps_exit(p) ==
    [p EXCEPT !.m = snapshot, !.fuzz_cursor = p.fuzz_size, !.input_already_given = FALSE,
              !.custom_exit_reason = "ok"]

restore_snapshot(p) ==
    [p EXCEPT !.m = snapshot, !.fuzz_cursor = p.fuzz_size, !.input_already_given = FALSE,
              !.duplicate_exit = FALSE, !.custom_exit_reason = "ok"]

\* A run has ended: its status is written to AFL and the snapshot restored.
EndRun ==
    /\ phase = "run" /\ ~proc.running /\ ~proc.exited
    /\ LET i == IF setup.mode = "single" THEN file ELSE afl
       IN  outcome' = [outcome EXCEPT ![i] = [log |-> proc.m.log, status |-> Status(proc)]]
    /\ \/ setup.mode = "single" /\ phase' = "closed" /\ UNCHANGED proc
       \/ setup.mode # "single" /\ phase' = "ready" /\ proc' = restore_snapshot(proc)
    /\ afl' = NoInput
    /\ UNCHANGED <<setup, parent, snapshot, file, shmem>>

Server == Block \/ RunPrefix \/ DiscoveryFails \/ Exits \/ TakeSnapshot \/ StartRun \/ EndRun
Next == Server \/ AflCloses \/ \E i \in Inputs : AflAsks(i)

\* The emulator goes on executing; AFL asks for a run when it likes.
Spec == Init /\ [][Next]_vars /\ WF_vars(Server)

-----------------------------------------------------------------------------
(* Type invariant: what the process keeps, with the timers within bounds.  *)
TypeOK ==
    /\ phase \in {"discovery", "prefix", "ready", "run", "exited", "closed"}
    /\ afl \in Inputs \cup {NoInput} /\ file \in Inputs
    /\ proc.m.pc \in DOMAIN setup.code
    /\ proc.fuzz_cursor \in 0 .. proc.fuzz_size
    /\ proc.m.watchdog \in 0 .. FuzzConsumptionTimeout
    /\ proc.m.limit \in 1 .. proc.m.limitReload
    /\ FuzzConsumptionTimeout > 0 => proc.m.watchdog > 0
    /\ proc.custom_exit_reason \in {"ok", "crash"} /\ proc.err \in {"ok", "fault"}

Current == IF setup.mode = "shm" THEN shmem ELSE file
PrefixRead == IF setup.mode = "single" THEN Cells("prefix", setup.prefix) ELSE snapshot.log

(* What the firmware reads in a run is the prefix input, as far as it was  *)
(* read before the snapshot, and then the run's own input, in order and    *)
(* from its start: get_fuzz, load_fuzz and the cursor that                 *)
(* restore_snapshot leaves never hand out a byte of another run's input,   *)
(* of another buffer, or twice.                                            *)
ReadsOwnInput ==
    phase = "run" => IsPrefix(proc.m.log, PrefixRead \o Cells("input", Current))

(* The execution prefix, which every run shares, has read no dynamic       *)
(* input: discovery stops it in time.                                      *)
SnapshotBeforeInput ==
    phase \in {"prefix", "ready"} =>
        \A n \in DOMAIN proc.m.log : proc.m.log[n].src # "input"

(* Two runs on the same input read the same values and end with the same   *)
(* status, whatever ran between them: restore_snapshot leaves nothing of a *)
(* run behind.  Firmware that reads a linear MMIO model is left out: the   *)
(* model's value advances with every read and no snapshot saves it.        *)
RunsAlike ==
    [][\A i \in Inputs : (outcome[i] # NoResult /\ "linear" \notin Range(setup.code))
                             => outcome'[i] = outcome[i]]_vars

(* A run AFL asks for is reported back to AFL: the watchdog or the end of  *)
(* the input ends it, in the first run as in all later ones.  Only the     *)
(* deliberate exit over unread prefix input leaves AFL with a closed pipe. *)
EveryRunReported == afl # NoInput ~> afl = NoInput \/ phase = "exited"
=============================================================================
