# TLA+ models of FirmRCA

FirmRCA finds the root cause of a firmware crash in two stages.  An emulator
(a fork of Fuzzware, `src/fuzzware-emulator`) replays the crashing input and
records a trace of executed instructions, a log of memory accesses and a core
dump.  An analysis (`src/src/src`, C) then executes the trace *backwards* from
the crash, recovers register and memory values, and ranks the instructions that
the faulting operand depends on.  This directory holds TLA+ modules of the parts
of both stages whose behaviour is hard to test, the TLC configurations that
check them, and proofs for the TLA+ proof system.

Paths below are relative to `src/`; `native/` stands for
`fuzzware-emulator/harness/fuzzware_harness/native/`.

## 1. The system

### Components, their state and their operations

| Component | Source | State | Operations | Module |
|---|---|---|---|---|
| Interrupt controller | `native/core_peripherals/cortexm_nvic.c` | `struct CortexmNVIC`: enabled, active and pending flags, priorities, and the caches `pending_irq`, `pending_prio`, `active_group_prio`; the registers it sets | register writes, `nvic_set_pending`, block hook, exception entry, return, tail-chaining | `Nvic` |
| Timers | `native/timer.c` | `struct TimerState`: slots, sorted list of active timers, one countdown, global ticker | add, remove, start, stop, reload, set reload value, block hook, dispatch of callbacks | `Timers`, `AbstractTimers` |
| Input and fork server | `native/native_hooks.c` | input buffer and cursor, input mode, exit flag and reason, MMIO model state | `emulate`, `get_fuzz`, `load_fuzz`, `do_exit`, `restore_snapshot` | `ForkServer` |
| Memory snapshot | `native/uc_snapshot.c` | saved content and null regions, restore lists, write protection | take snapshot, list a page on its first write, restore | `PageRestore` |
| SysTick | `native/core_peripherals/cortexm_systick.c` | control and reload registers | register access, timer callback | `SysTick`, composed in `InterruptSources` |
| Interrupt triggers | `native/interrupt_triggers.c` | `skip_next`, `curr_pends`, `curr_skips` and the rotation of each trigger | block and timer callbacks | `IrqTriggers`, composed in `InterruptSources` |
| Reverse-execution engine | `src/src/re_dsmanager.c`, `re_core.c`, `re_mem_alias.c`, `insthandler` files | the core list of definitions and uses, three worklists, the list of unknown writes | adding an instruction, three resolving routines, operand resolution, assembly of memory values | `ReverseExec`, `MemoryValues` |
| Instruction handlers | `src/src/handler_arm.c`, `re_insttable_arm.c` | none of their own | one handler and one resolver per opcode | six of them in `ReverseExec`, operand lists in `TaintRank` |
| Taint analysis and ranking | `src/src/analyze_result.c` | taint flags, address counters, scores | choice of the sinks, worklist over the core list, ranking | `TaintRank` |
| Baseline POMP | `pomp/` | a copy of the engine | the same without the access log | see 6 |
| Baseline POMP++ | `pompplusplus/` | a copy of the engine; a value set for each operand | value-set arithmetic, handlers, inference from values | `StridedInterval`, `ValueSet` |
| Front end, tracing, user hooks, MMIO configuration, experiment driver, vendored code | Python files, `bintrace.capnp.c` ... | configuration | set-up, files, formatting | not modelled |

How they meet: a basic block of the firmware runs Unicorn's block hooks, which
are those of the timers, the triggers and the NVIC.  A timer's callback may pend
an interrupt (SysTick, triggers), end the run (watchdog, block limit) or consume
input (a fuzzed trigger); `get_fuzz` feeds the watchdog; end of input ends the
run; the fork server restores every component's state between runs.  The two
stages meet only in files: trace, access log and core dump.

### What is hard

There is one thread, but many of the usual difficulties: hooks and callbacks
run in the middle of operations of the component they call back into; caches
are refreshed lazily by a dozen handlers, each deciding on its own; a global
must be reset by hand between runs; counters are unsigned and are charged in
batches; and the engine reaches a fixed point by worklists that feed each
other, where a missed wake-up loses a value without any symptom and a value
carried over a write that aliases it is wrong without any symptom.  `PROJECT.json`
lists these at the line where they bite, with the properties that cover them.

### What makes each component correct

* NVIC: handlers do not nest (as built) and return to what they interrupted;
  the caches equal what a recalculation gives; the highest exception that is
  allowed is taken, and is not lost.
* Timers: equal to timers that every block decrements; the watchdog fires unless
  it is fed.
* Fork server: a run reads its own input from its beginning, its result depends
  on nothing but its input, and AFL always gets an answer.
* Memory snapshot: restoring gives back exactly the snapshot, and the write
  protection it uses is invisible.
* Engine: every value it reports is the one the execution had (soundness), it
  stops only when nothing more follows (closure), and it stops.
* SysTick and triggers: SysTick counts exactly while it is enabled; a trigger
  pends as often as configured, lets the firmware pass, and starves no interrupt.
* Taint and ranking: all that the crashing operand depends on is marked, the
  worklist ends, and repetition never raises a score.
* Value sets: what a register holds is in the set computed for it.

## 2. Modules

### `Nvic`

`nvic` is the C structure and `cpu` the registers it touches; `enabledIrqs` is
the list the fuzzer picks interrupts from.  A block is executed in two phases:
its hooks (`BlockHook`, `NvicSetPending` for the callbacks of other components,
`ReturnHook` at an EXC_RETURN address) and its instructions (`EndBlock`, masks,
stack selection, `Svc`, and one action for each system register: `WriteIser`,
`WriteIcer`, `WriteIspr`, `WriteIcpr`, `WritePrios`, `WriteAircr`, `WriteStir`,
`WriteIcsr`).  `RecalcPrios`, `PendInterrupt`, `ExceptionEntry`,
`ExceptionReturn` and `MaybeActivate` are functions on records as their
namesakes are on the structure, so an action composes them as the code does.
A stack frame is reduced to the IPSR saved in it.  The model has the build's
`DISABLE_NESTED_INTERRUPTS`.  A run ends with `cpu.exit`: by the interrupt limit, a
reset requested through AIRCR, an exception of the processor that is not an SVC
(`NotAnSvc`), or an inconsistent return.

Taking and restoring a snapshot of the controller (`cortexm_nvic.c:1228`-`1244`) are
left out: they put the structure and the registers back, as a whole, to a state the
run was in, in which the invariants held; every pair of states would have to be
explored to say no more than that.

### `Timers` and `AbstractTimers`

`timers` is `struct TimerState`; `phase` and `cur` are the control state of the
dispatch loop, so that a callback may interleave its own calls with the loop
that walks the list.  Callbacks make only the calls that callbacks in the
repository make: a trigger sets its own reload value, and a trigger that lets
the input choose the interrupt feeds the watchdog.  Numbers are modulo `W` as
`uint64_t` is modulo 2^64.  Slot 0 is the watchdog, which is added and started
first and never stopped.

`AbstractTimers` states what clients rely on: each block is a tick of each
running timer, and a timer with no tick left is reloaded and fires before the
next block.  `RefinesAbstract` maps a timer's remaining ticks to its ticker less
what has elapsed but is not charged yet.

### `ForkServer`

One record `proc` holds the globals of `native_hooks.c` for the emulating
process with the machine `m` it emulates; `parent` is the parent's copy at the
fork, `snapshot` what `trigger_snapshotting` saved.  The firmware is a short
sequence of blocks (quiet, reading one or two bytes or a linear MMIO model,
counting an exit hit, crashing or faulting on the last byte), any of which the
initial state chooses.  Every byte carries where it came from (`src`, `at`), so
that the log of what the firmware read tells an input byte from a stale one; a
value of a linear model is not logged, but is the `last` one read, on which a crash
may depend.  Operators take the process, and the input where they look for one,
so that the proofs can speak of two processes at once.
`setup.mode` is the input mode (`"shm"`, `"file"`, `"single"`), and
`setup.finishes` says whether Unicorn finishes a block in which a stop was
requested, which its version decides.  The timers appear as two numbers of
blocks left, as `AbstractTimers` allows.

### `PageRestore`

Addresses are page numbers.  `snap` holds the saved regions and the two restore
lists of `struct NativeHooksState`; `readonly` is the write protection.  The saved
regions are sets, `contents` and `nulls`, since nothing depends on the order in
which the snapshot visits memory; an entry of a list says which region it is
`from`, which the code knows by the pointer into its copy.
`activate_page_staterestore` lists a page, joining it to an entry it follows or
precedes within the same saved region; `Restored` says what the lists put into a
page.  `NativeWrite` is `uc_mem_write` by the emulator's own code, which no
protection stops and no list records.  The history variable `behind` has the pages
it has written while they were protected; they leave it when the guest writes them,
which lists them.

### `ReverseExec`

The trace is not a constant.  `AddInst` chooses an instruction *and* a
predecessor of the machine state it leads to, so that a behaviour is an
execution read backwards together with the engine's work on it.  Each node of
the core list keeps, as ghost fields `tb`, `ta` and `taddr`, the values and the
address which that execution had; the engine's definitions never read them and
the soundness properties compare against them.  `ResolveUse`, `ResolveDefine`
and `ResolveInst` take one entry off a worklist in the order of the loops of
`re_resolve`; `StartResolving` and `ResolveAgain` are the second loop over the
whole trace.  `setup.memac` selects the build that reads the access log, and
`setup` says which addresses are dumped, logged, both or neither.  Six
instructions (`mov`; `add`, `sub` and `rsb` with a register or an immediate;
`ldr` and `str` with base and displacement or base and index) stand for the
tables of about 400 opcodes, most of which share `general_handler` and one of
these resolvers or an empty one.  `res_expression` also has cases that compute
one of two address registers from the address and the other; they need a store
of known address and unknown value, one of whose registers is unknown, and no
state has one.

Three things the build decides: assertions are compiled out (`NDEBUG`); the
hypothesis test for aliases never refutes one, because the jumps back to it are
commented out, so every unresolved write is an obstacle; and the heuristics
after resolving act on x86 instructions only.

### `MemoryValues`

`ReverseExec` has words that are equal or disjoint.  This module has only memory
operands, but of one, two and four bytes, and follows how `assign_use_mem_val`
and its two siblings put a value together byte by byte from earlier and later
accesses, and how `resolve_use` and `resolve_define` hand a value on to accesses
it covers (`EXACT`, `SUB`).  Bytes are only copied, so a byte is represented by
where the execution put it: "what address x held before store d".  Learning an
operand's value (`LearnValue`) and its address (`TraverseOperand`) may happen in
any order, as it does when instructions resolve in any order.

### `SysTick`, `IrqTriggers`, `InterruptSources`

`SysTick` has one variable of its own, `csr`, and uses the timers through the
variables of `AbstractTimers`, the specification that `Timers` implements; its
actions are the three register writes, the read that sets COUNTFLAG, and the
callback.  `IrqTriggers` is the callback of a trigger as an operator, `Hook`: the
set of outcomes (state after it, interrupt pended, new reload value, whether the
input ended), since the fuzzer's bytes are not known.  `InterruptSources`
composes both with the firmware, block by block: timers' hook, expiries, the
hook at the trigger's block, the NVIC's hook, then the instructions.  Of the
NVIC it keeps what `Nvic` is checked for (`Pend`, `Return`).  `TakeSnapshot` saves the
state of all of them at any block before a trigger has drawn input, and `Restore`
goes back to it when the input ends.  `Discovered` is the end of the discovery child,
which finds out where input is first needed; its parent starts from boot.

### `TaintRank`

A trace is a sequence of steps read backwards; `CoreList` is the list of operands
that `general_handler`, `stm_handler` and `ldm_handler` make of it, in their order,
which is what `get_src_of_def` goes by.  `Propagate` is one pair of taint
propagation; `Rank` the ranking, as folds over the trace.  `acnum` is the number
of accesses the log has of an instruction: none of a store whose condition was
false, which `find_prev_write_of_address` therefore passes over.  The reference,
`Slice`, knows nothing of lists: it is the backward slice by locations.

### `StridedInterval` and `ValueSet`

`StridedInterval` is the arithmetic of `re_valueset.c` on `s[l, u]`.  `ValueSet`
executes a trace of eight operations and loads beside the handlers' value sets (`vs`
is the analysis, `val` the registers).  Between them, `infer_valset_from_entry` makes a
set that is empty so far from a value that reverse execution has found: an offset in
the region of its segment, or any offset while the region's base is not known.

Nothing is ever known of a loaded value.  In `vs_res_expression` the condition of the
`if` before line 1342 of `re_vsmanager.c` is commented out and its `else` is not, so
that this is the `else` of `if (base)`: with a base register, as every ARM memory
operand has one, the address is not computed.  Its set stays empty, no earlier
definition matches it, and `mem_valset_overlap` says of an empty set that it may
overlap (`re_valueset.c:1421`), so that no alias is dismissed by it either.

`Unsound` names the operand combinations for which an operation is not sound in the
code, and `Cases` which of them may occur; see section 4.

## 3. What is checked

Sizes are of a complete search with TLC.

| Run | Properties | Bounds | States |
|---|---|---|---|
| `nvic` | `TypeOK` `HandlerModeConsistent` `ReturnIsConsistent` `FuzzListExact` `CacheExact` `TakesTheRightOne` `NoLostActivation` `PendingIsTaken` | 3 external interrupts, one disabled by configuration, 2 priorities, one BASEPRI, interrupt limit 2 | 1,169,488 |
| `timers` | `TypeOK` `ActiveSorted` `NothingPassedOver` `RefinesAbstract` `WatchdogBites` | watchdog and 2 timers, reload values to 4, W = 16 | 203,632 |
| `fork_server` | `TypeOK` `ReadsOwnInput` `SnapshotBeforeInput` `RunsAlike` `EveryRunReported` | all firmware of 3 blocks and some of 6 with a prefix input, 3 inputs of up to 2 bytes, all modes | 539,744 |
| `page_restore` | `TypeOK` `RestoreExact` `ProtectionInvisible` | two adjacent regions of 3 and 2 pages of RAM, one of code, one of a device; every layout of zero pages; native writes to a page of each region of RAM and the device's | 819,232 |
| `interrupt_sources` | `TypeOK` `ProgressPastTrigger` `RoundRobinFair` `SysTickTicks` | one trigger in five configurations of mode, fuzzing, pends and skips, a sixth with SysTick; 3 interrupts, index modulo 4 | 470,200 |
| `reverse_exec` | `TypeOK` `ValuesSound` `NothingLeftToInfer` `WorklistsExact` `KnowledgeKept` `WorkDecreases` | traces of 4 of 9 instructions, 2 registers, values modulo 3; without the log on two RAM addresses, with it on one RAM and one device address | 1,607,565 |
| `memory_values` | `TypeOK` `BytesSound` | 4 accesses: a word, a halfword at its start, the byte before them; with and without the log | 1,341,251 |
| `taint_rank` | `TypeOK` `TaintComplete` `RankingSound` `WorkAdvances` | all traces of 3 instructions of 10 kinds, and of 4 of fewer kinds, one of them skipped, behind 6 crashes | 259,583 |
| `value_set` | `TypeOK` `ValueInValueSet` | traces of 4 operations, 2 registers, 5 immediates, 3 words of memory, 4 bits | 274,886 |

What they show beyond the words of the properties:

* `nvic`: over any sequence of register writes, pendings, entries and returns,
  and whatever stack thread mode uses, the five places that say which handler
  runs agree, so the early returns of the recalculation lose nothing.  Two
  interrupts of equal and of different priority, one of them pended while the
  other runs, are the cases in which ties, tail-chaining and the limit meet.
* `timers`: three timers are the least with which a timer moves past one and
  stops before another.  `NothingPassedOver` is what makes one countdown do for
  all timers; `RefinesAbstract` shows that batching cannot be observed.
  `Removable` restricts removal to the last timer, for the reason given under
  section 4.
* `fork_server`: the firmware chosen includes every order of reading, crashing,
  faulting and exiting in three blocks, with the loop to the first or the last
  of them; so a run ends by exhausted input, by watchdog, by block limit, by hit
  count and by crash, and each of these is followed by each other.
* `page_restore`: three pages are the least with which an entry is joined on
  both sides; two adjacent regions are there because joining must stop at their
  border.  Native code writes one page of each, before the guest does, after it, or
  both, and in any run.
* `interrupt_sources`: the index modulo 4 wraps within the run, over a list of 0
  to 3 enabled interrupts that the firmware changes at any time; two pends and a
  skip are the least that distinguish the counters.  `RvrValues` and `MaxReload` are
  chosen so that both corrections of the reload value, the mask, and the
  unchanged value (which does not reload) occur.  A trigger with `num_pends` 0 is
  not configured (it would pend for ever); a handler is one block long, so that it
  does not pass through the trigger's own block, in which a trigger without skips
  would hold it.  Returning from another interrupt to the trigger's block counts as
  a visit, as in the code.  A snapshot is taken at the start of any block, also in a
  handler, while SysTick counts or a trigger is in the middle of its pends; only where
  no trigger ever draws input is there none, since no run ends.
* `reverse_exec`: with two registers and two addresses, two instructions may
  define the same target, alias, or miss each other; four instructions give a
  use between two definitions and one more instruction on either side.  Core
  dumps have r0 = 0 (the usual null-pointer crash) and memory in order.
  `ValuesSound` is about executed instructions and dumped memory; device
  memory has no value to compare with.
* `memory_values`: a byte of a value may come from a store that covers it whole,
  in part, or from the core dump, through a load or not, with an unknown store
  between.  No access begins inside another (see section 4).
* `taint_rank`: three instructions before a crash give a chain through memory
  (store, load, address), two writes of one location, and a definition that
  cuts a chain; a root cause at 3 leaves instructions beyond it in the longer
  traces.  `FULL` is 2 so that a score would reach 0.  Of instructions whose condition
  is false there are stores without writeback only, whose address the engine knows
  from their base.
* `value_set`: in four bits every sign combination of two intervals occurs, as do
  full intervals and offsets in two regions.  Segments do not overlap.  Words of memory
  are one in each segment and one in none.  No set is inferred from a negative number,
  which may be known in 32 bits or in 64.

Deadlock is not checked where the modelled program ends: after the interrupt
limit or a crash (`nvic`), when AFL closes the pipe or a single run is over
(`fork_server`), when the analysis of a trace is finished (`reverse_*`, `memory_*`,
`taint_rank`, `value_set`).

### Fairness

* `Nvic`: weak fairness of `BlockHook` and `EndBlock`.  The processor goes on
  executing: block hooks run at every block, and every block ends.  Nothing is
  assumed of the firmware's instructions or of the devices that pend.
* `Timers`: weak fairness of the block hook with its loop and callbacks, for
  the same reason; clients may never call anything.
* `ForkServer`: weak fairness of the emulator's own steps.  AFL asks for a run
  when it likes, or never.
* `InterruptSources`: weak fairness of what the emulator does by itself (`Run`).
  The firmware need not write any register; where it loops through a trigger's
  block without end is up to it, which `Visited` in `RoundRobinFair` allows for.
* `ReverseExec` assumes none.  That the engine ends is `WorkDecreases` (proved): each
  step of a worklist lowers (unknown facts, 2 x (uses + definitions queued) +
  instructions queued) lexicographically.
* `TaintRank` assumes none either: `WorkAdvances` says that what is followed is
  replaced by operands further back, of which there are finitely many.
* `PageRestore`, `MemoryValues` and `ValueSet` have no liveness property.

## 4. Where the code disagrees with what it says

Three runs find a violation, each of one property; the `findings` of `PROJECT.json`
quote the line that is contradicted.

| Run | Violated | What happens |
|---|---|---|
| `nvic_basepri` | `NoLostActivationAnyBasepri` | the sentinel -1 in `prev_basepri` is compared as an unsigned number (`cortexm_nvic.c:1144`), so with BASEPRI set the block hook leaves early and an activation is lost |
| `reverse_mmio` | `BadAddressOnlyAtCrashSite` | an access to device memory before the crash is looked up in the core dump too (`re_dsmanager.c:807`) and its logged value replaced by zero |
| `memory_words` | `BytesSound` | the narrowing of a byte's search to a byte is commented out (`re_dsmanager.c:222`), so the store of a neighbouring word supplies bytes that lie before its value |

Other divergences bound the passing runs.  Each is excluded by a constant, so
that it can be put back to see it:

| Change | Violates | What happens |
|---|---|---|
| `LatePend = TRUE` in `Nvic.cfg` | `CacheExact` | `enable_irq` compares a priority with an interrupt number (`cortexm_nvic.c:337`), so enabling an interrupt that is already pending does not recalculate |
| `FuzzedTriggers = TRUE` in `Timers.cfg` | `ActiveSorted`, `RefinesAbstract` | `reload_timer` inside a callback adds the elapsed interval a second time (`timer.c:254`); the next reload lowers a ticker, and the list is sorted backwards only |
| `Removable = {1, 2}` in `Timers.cfg` | `TypeOK` | after `rem_timer` of a timer that is not the last, `add_timer` takes the first slot *in use* (`timer.c:81`); nothing but the Python binding calls it |
| `BlockLimit = 0` in `ForkServer.cfg` | `SnapshotBeforeInput` | nothing stops the prefix execution (`native_hooks.c:1086`), and the snapshot is taken after the input was read |
| `Code <- MCReverseSubtract` in `ReverseExec.cfg` | `ValuesSound` | `rsb_resolver` is a copy of `sub_resolver` (`handler_arm.c:2147`) |
| `Places <- MCInner`, `Builds = {TRUE}` in `MemoryValues.cfg` | `BytesSound` | a value taken over from a larger neighbour (`SUPER`, `re_dsmanager.c:816`) is copied from its first byte on |
| an element of `Cases` in `ValueSet.cfg` | `ValueInValueSet` | `"full"`: the bounds of a full interval are (0, -1) and are used as bounds; `"ones"`: 0xFFFFFFFF in a wider type; `"mask"`: a mask that is not one value is taken for its lower bound; `"complement"`: bic complements the region instead of the mask; `"narrow"`: uxth narrows each bound by itself |

And these are in the properties, or show in none, rather than in a constant:

* Firmware that reads a linear MMIO model: its value is outside the snapshot
  (`native_hooks.c:518`), so runs are not alike.  `RunsAlike` leaves such firmware
  out; the other properties include it.
* Prefix input that is due in the last two blocks before dynamic input is
  needed: the prefix execution stops short of it (`native_hooks.c:1086`).  In shared
  memory the bytes are lost; with an input file the first run reads them and no
  later one does, since `restore_snapshot` moves the cursor to the end
  (`ReadsOwnInput` and `RunsAlike` fail).  `MCSetups` has firmware that reads its
  prefix input earlier; `PrefixUsed` says so in the theorems.
* An SVC does not respect PRIMASK (`CanBeActivated`, `cortexm_nvic.c:97`), but the block
  hook's early exit does not know that, so an SVC that was pended in a masked block
  waits until PRIMASK is cleared.  `NoLostActivation` allows for it (`SvcUnderPrimask`);
  the proof of `NoneLeftBehind` needs that.  The run's `PrioExc` never meets it.
* The taint sink of a doubleword store is its second operand, a register stored
  and not the base, and the base of a store with writeback is defined again,
  without sources, by the crashing instruction (`analyze_result.c:239`), so nothing
  is traced.  `Traced` says what is traced; with `Crashing` in its place
  `TaintComplete` fails.  `NotFollowed` lists the dependencies lost by the order
  in which operands are listed.

* Exception entry stores the frame with `uc_mem_write` (`cortexm_nvic.c:855`), which lists
  no page: what it writes to a page that the guest has not written stays there for the
  runs that follow, until the guest writes the page.  `RestoreExact` is about all
  other pages of RAM (`Ram \ behind`); without `\ behind` it fails.
* The address of a memory operand is not computed by the value-set analysis of POMP++
  (`re_vsmanager.c:1342`, section 2).  No property is stated of addresses or of
  dismissed aliases: there are none to speak of.

`NoLostActivation` speaks of BASEPRI 0; `nvic_basepri` drops that.

## 5. What is proved

TLC's runs are small instances; the theorems below hold for every value of the
constants that the modules' named assumptions allow, and for behaviours of any
length.  Where a theorem has a hypothesis of its own, dropping it makes TLC find
the property violated (section 4), so none is there for the proof's sake.

| Module | Theorem | Says | Hypotheses |
|---|---|---|---|
| `NvicProofs` | `HandlersNeverNest` | `[]HandlerModeConsistent` | |
| | `ReturnsAreConsistent` | `[]ReturnIsConsistent` | |
| | `TypeCorrect` | `[]TypeOK` | |
| | `CachesStayExact` | `[]CacheExact` | no late pending |
| | `RightOneTaken` | `TakesTheRightOne` | no late pending |
| | `NoneLeftBehind` | `NoLostActivation` | |
| | `ListStaysExact` | `[]FuzzListExact` | |
| `InterruptSourcesProofs` | `TypeCorrect` | `[]TypeOK` | |
| `TimersProofs` | `TypeCorrect` | `[]TypeOK` | both of *Timers* below |
| | `ListStaysSorted` | `[]ActiveSorted` | both |
| | `NoExpiryMissed` | `[]NothingPassedOver` | both |
| | `BatchesUnseen` | `RefinesAbstract` | both |
| `PageRestoreProofs` | `TypeCorrect` | `[]TypeOK` | |
| | `NeverRefused` | `ProtectionInvisible` | |
| | `OnlyNativeWritesStay` | `[]RestoreExact` | |
| | `RunsStartAlike` | all of RAM is as saved (`[]RamAsSaved`) | native code writes only pages of RAM the guest has written since the snapshot |
| `ForkServerProofs` | `TypeCorrect` | `[]TypeOK` | |
| | `PrefixReadsNoInput` | `[]SnapshotBeforeInput` | a block limit |
| | `RunsReadTheirInput` | `[]ReadsOwnInput` | a block limit, `PrefixUsed` |
| | `SameInputSameRun` | `RunsAlike` | a block limit, `PrefixUsed` |
| `ReverseExecProofs` | `TypeCorrect` | `[]TypeOK` | |
| | `ValuesAreTrue` | `[]ValuesSound` | those of *Reverse execution* below |
| | `WorklistsAreExact` | `[]WorklistsExact` | those |
| | `NothingForgotten` | `KnowledgeKept` | those |
| `ReverseExecProgressProofs` | `NothingIsLeft` | `[]NothingLeftToInfer` | |
| | `WorkAlwaysDecreases` | `WorkDecreases` | |
| `TaintRankProofs` | `TypeCorrect` | `[]TypeOK` | |
| | `WorkOnlyAdvances` | `WorkAdvances` | |
| | `RankingKeepsTaintAndOrder` | `ScoreKeepsTaint` and `RedundantNotHigher` of `RankingSound` | |

### NVIC

The theorems hold for every set of external exceptions, every choice of
priorities, BASEPRI and PRIGROUP values, every configuration and limit.  The
assumptions used are those the module names: exception numbers are 16 to 255,
priorities bytes, and the NMI's priority fixed.

None of the properties is inductive.  For `HandlersNeverNest`, an entry enters
`pending_irq`, so one must know that it is an exception and not `NVIC_NONE_ACTIVE`.
That follows from `CanBeActivated` (`pending_prio` less than something at most
`LOWEST`) only if `pending_irq = NONE` comes with `pending_prio = LOWEST`, and if
a priority in the caches is that of an exception `recalc_prios` scanned.  `Cached`
says this, and little more: the caches need *not* be exact, which is why the
proof holds with late pending, where `CacheExact` does not.  `OneActive` and
`Stacked` are the two halves of `HandlerModeConsistent`, for a controller and a
CPU that need not be the variables, so that the lemmas about the functions
(`RecalcGood`, `ExceptionEntryGood`, `ExceptionReturnGood`, `MaybeActivateGood` ...)
compose as the functions do: `GoodPair(n, c)` is kept by each of them, and
`StepGood` has one step for each action.

For the bounds, `TInv` adds `Ranged` and `Counted` to `IInv`.  That a cached priority
is not negative needs that only the NMI has a negative one and that
`recalc_prios` never scans it.  The bound on the count goes along the handlers:
`Counted(n, c, k)` says that at most `k` interrupts were counted past the limit, and
none if the run goes on; an exception entry takes it from `k` to `k + 1`, every
action starts from 0, an ICSR write reaches 2 (PENDSVSET, then PENDSTSET, whose
entry may be that of any pending exception), and every other action at most 1.

For the caches, `XInv` adds `Fresh`: they are `Exact`, and the scan is `Wide`,
that is, everything pending but the NMI lies within what `recalc_prios` scans.
`Wide` is what late pending breaks: enabling would let the scan see a pending
exception it had not seen.  Each handler that decides not to recalculate is a
lemma that the scan sees nothing new (`SameScan`) or that the entry it puts
into the cache by hand is the best (`Takes`).  `RightOneTaken` follows, since every
entry is of the cached exception.

`NoneLeftBehind` is about the block hook's early exit.  `CalmInv` says that while
the run goes on nothing pending could be activated with the masks lowered, or
the masks are up at the start of a block, which the hook will notice because
it compares them with those of the last block.

`ListStaysExact` is about enables and disables in any order.  It needs no such
invariant, since the list changes exactly where an enable flag does; its difficulty is
the loop of an ISER write, a fold whose length is that of the register's
value.  `FoldInserts` shows that the fold is the last value of a function defined step
by step (`Inserting`), by looking at the first step at which it would not be, and
`FoldSorted`, in the same way, that inserting new interrupts one after the other keeps
the list sorted and adds just them.  The order in which the bits are gone through
(`Ascending`) is chosen rather than sorted, and `AscendingExists` shows that there is
one.

### Interrupt sources

The theorem holds for any number of triggers, of interrupts and of configurations,
for every width of the rotating index and every value written to SysTick's registers.
Assumptions of its own: triggers' timers are not SysTick's, a reload value is
positive and, like those the fuzzer chooses, at most `MAX_RELOAD_VAL`, which the
register's mask does not exceed either.

`TypeOK` becomes inductive with the types of the functions (`SrcInv`).  What is not
obvious in it is a trigger's state after its callback, which is one of many outcomes:
`Fit` is a trigger's part of the invariant, `Counting` the same while `curr_pends` may
have reached `num_pends`, and `Sane` says of an outcome that the trigger in it fits and
that it pends an interrupt that exists.  There is one lemma for each operator of the
callback, in the order in which it applies them (`ChooseSane`, `TimeSane`, `PendedSane`,
`HookSane`, `TimerSane`).  `NthExists` counts: of a finite set of numbers, each
index below its size is the position of one, so `nth_enabled_irq_num` never runs off
the list, however it has changed since the index was advanced.  `SavedFits` says of
the snapshot what `SrcInv` says of the variables, so that a restored run starts fit.

### Timers

Hypotheses: no callback feeds the watchdog (`~FuzzedTriggers`), and only the last
slot is ever given back.  The invariant has three parts, each about a state that
need not be the variable: `Good` (the list sorted without duplicates, no timer with
less than what is not charged yet or with more than its reload value above
that), `Counts` (between blocks: the countdown is positive and ends no later than
the first timer) and `Slots` (what `num_inuse` and `end_ind` say of the slots).  The
first is kept by all of the operations, the second only between blocks, while
dispatching nothing is uncharged.  The refinement maps the ticker of a linked
timer to what is left after charging (`Left`); each operation is shown not to
change that for other timers, and to change its own as the abstract operation
does, so the lemma of an action gives both the invariant and the abstract step.

### Fork server

The theorems hold for firmware of any length, inputs and prefix inputs of any
length, and every limit and timeout.  `Ran` says what one block does to a process,
whichever process it is; `BlockIs` and `ExecRan` have each of the block actions
do that.

*Discovery and prefix.*  Two processes execute the same firmware from the
same state, the child to find out for how long and the parent to stop in
time.  Neither invariant can speak of the other process, so both speak of a path:
`Path(a, u, n)` says which block `a[k]` and how much prefix input `u[k]` is reached
after `k` blocks.  `ChildInv`: the child is `n` blocks along a path, `n` its
ticks, or has reported `n + 1`, from the block for which the prefix input did not
suffice.  `PrefixInv`: the parent is `k` blocks along that path, and `k` and what
is left of its block limit are `n - 1`, so the limit stops it before the
path ends.  As long as it is on the path, it asks for no dynamic input
(`RanInPrefix`).  The path also says that no block of it crashes, since the child
would have stopped there without a report: so the parent reaches the snapshot
with no reason to exit, which its first run would report as its own.
That a block limit is set matters here: with
none, the code starts no timer to set the limit of.

*Runs.*  `RunInv`: the process has read a beginning of prefix input and input, and
the cursor tells how long a beginning (`Unasked` before the input is loaded, `Asked`
after it).  `ReadyInv`: between runs the machine is the snapshot and the buffer is
used up, so that the first read loads the new input.  `PrefixUsed` says so of
the first run too, where no `restore_snapshot` has moved the cursor.

*Runs alike.*  `Sim` relates two processes that may differ only in what the
next block does not look at: the buffer before it is loaded, and the MMIO
models' state.  `SimExec`: it is kept by a block, for firmware without a
linear model.  No induction over the length of a run is needed: `AlikeInv` says
that a recorded outcome comes with a `Chain` of processes, from a fresh start to
one that has stopped, and that a later run on the same input is `Sim` to an
element of the chain.  It starts at the first and moves to the next with each
block, so it stops where the chain stops, with the same `Result`.

### Memory snapshot

`SnapInv` is described at the head of the module: the saved regions hold each
page of RAM once; entries of the lists lie in their region, with their pointer at
their own place in the copy, and do not overlap; and what is listed is just what
is not protected any more.  `Exact` adds that a protected page outside `behind` is
still as saved.  From them restoring puts back each page that the guest wrote, and
what the native code wrote to such a page (`OnlyNativeWritesStay`).

`RunsStartAlike` has a hypothesis on the native code: that it writes a page of RAM only
when the guest has written it since the snapshot.  The one write of the emulator
that concerns RAM is that of the frame, and a firmware meets the hypothesis whose
exceptions are entered on pages of the stack it has already used.  `behind` is then
empty, so nothing is left out.

### Reverse execution

The theorems hold for traces of any length, words of any size, any number of
registers, every set of the six instructions' forms and every core dump.
Hypotheses (`Honest`) of all but `TypeCorrect`: no reverse subtraction; the log
is read, or there is no device memory; and no memory that is neither logged nor
dumped.

The invariant of the list (`ListInv`) is a conjunction of six parts:

* `Nodes`, `Shaped`: the list is made of blocks, an instruction and its operands
  in the order `general_handler` adds them, whose ghost values are related as the
  instruction relates them (`MovAt`, `ArithAt`, `LoadAt`, `StoreAt`).
* `Chained`, with `Ends` for the oldest end: between two nodes of one register or
  address with no definition of it in between, the execution's value is one,
  and before the first of them it is the core dump's.
* `Sound`: what is known of a node is its ghost value.  This is `ValuesSound`,
  with what must be said of addresses, and of the crashing instruction, which
  was not executed.
* `Given`, `Addressed`: what the log gave at once, and that a known address comes
  with a value or with known registers.

The difficulty is that the engine compares the addresses it *knows*, while the chain
goes by the addresses *accessed*.  `Link` bridges them: if two memory operands have
one known address, no definition the engine can see lies between them, and
`obstacle_between_two_targets` finds none, then no definition of that address lies
between them.  A write in between that hides its address would be in
`umemlist`, which `Unknowns` says: a hidden write is listed, newest first, or its
instruction is the newest one and still waits in `instlist` to be resolved.  So
`resolve_alias` would have found it (`Clear`); `Top` is the same between an
operand and the core dump.  This also explains why `WorklistsExact` is a
property and not a detail: with the list in another order, `resolve_alias` would
stop too early, and values would be wrong.

From there on there is one lemma for each routine: propagation (`FlowNextIs`,
`FlowPrevIs`), `ResExpressionIs`, `ResolverIs`, `ResolveInst1` and so on, each
saying that it keeps `Inv` and only adds to what is known (`More`), which gives
`KnowledgeKept`.  While the operands of an instruction are added the invariant does
not hold, as its block is incomplete: `Held` is what holds then, `Fits` says that an
operand is one the execution has at that point, and `Built` counts those added,
until `GeneralIs` has the block complete and `HandleIs` the invariant again.

The two theorems of `ReverseExecProgressProofs` need none of those hypotheses: an
engine that is told something wrong still ends, and still hands on all it has.  Their
invariant is `ProgInv`, that is `IInv` with the five parts of `Prog`:

* `Live`: where two neighbouring operands of a register disagree, the one that knows
  more waits in `uselist` or `deflist` to tell the other.
* `Owed`: an instruction of which something could still be computed (not `Closed`)
  waits in `instlist`, or one of its operands waits and will put it there.
* `Rooted`, `CrashKnown`: a register no later instruction defines has the core dump's
  value; the crashing load, which was not executed, waits or has copied it.
* `Addresses`: a known address that the log did not give is the sum of its registers,
  so that a register learnt later cannot change it.

Each routine gets a second lemma that it `Hands` on what it learns: the
nodes it fills in are queued, and it queues none unless it filled something in.
The first clause keeps `Live` and `Owed`, together with `Spread` for the operand
that is taken off its list: its neighbours are settled, and its instruction is
listed or has nothing left.  The second clause makes the step lighter, for either
the number of unknowns falls (`LearntLighter`) or the lists only lose their head
(`LessQueued`).  What the resolvers do with their instruction is `ResolverHands`.

The hard step is a new instruction, whose operands break into a chain of neighbours
at its oldest end.  Agreement of neighbours is not enough there, since a definition
whose value before is known may have got it from an operand that is no neighbour
any more.  With empty worklists more holds, and `Mid` says it: each executed operand
knows its value just when the definition at the head of its chain, or the core dump,
has one.  A new operand takes its value from the same place (`FreshAt`), so it is in
the same state as if it had always been there; `MidLive` turns this back into `Live`.

### Taint and ranking

The theorems hold for traces of any length over any registers.  The one assumption,
`TaintRankAssumption`, is that a trace is not empty and ends in an instruction that
`set_taint_sink` knows to be able to crash.

The core list, what a definition is followed to, the worklist and the counts are
all results of folds, and what a fold computes is not something the provers can find
by themselves.  `FoldExists`, `FoldUnique` and `FoldIs` say once that a fold is
the last value of a function that goes along the sequence, and that it stays in
every set its operation stays in.  They are proved from the definition of the
community modules' fold, by least counterexamples.  `AddedIs`, `SourcesAre`,
`FlattenIs` and `CountersAre` are instances.

* `WorkOnlyAdvances`: what `get_src_of_def` and `get_element_of_exp` give lies beyond
  the node they start from (`FollowedIs`), and `add_to_uselist` keeps the worklist in
  the set `Ahead` of those that start with the same operand, hold each once, and
  have got only operands beyond it.
* `RankingKeepsTaintAndOrder`: neither counting nor looking up ever sees the last node
  of the counters' list, so an address may get two nodes.  `Tally` is what remains true:
  the *first* node of an address has its count or is one short, and if it is also the
  last node it was met exactly once.  So a count is one short at most (`GetIs`),
  which never puts the more redundant of two instructions first.  The invariant
  `Sound` adds that nothing is marked once there are scores.

### Model-checked only

* Liveness: `PendingIsTaken`, `WatchdogBites`, `EveryRunReported`, `ProgressPastTrigger`,
  `RoundRobinFair`, `SysTickTicks`.
* `TaintComplete`, and of `RankingSound` the part `RaisedWroteIt`: they compare the marks
  with what the execution did, which would need an induction over the trace with
  the list and the slice side by side, and for the latter that the traces are
  those of executions, which the module's assumption does not say.
* `TypeOK` of `MemoryValues`.
* `ValueSet` and `StridedInterval` use bit operations, which no prover here can use.
* `BytesSound` does not hold for every choice of `Places` (section 4).

## 6. What is not modelled

* Of `ReverseExec`: writeback, instructions with two memory accesses, conditional
  execution, push and pop, and stores with empty resolvers (`strd`, `strex`).  Most of
  the 10,000 lines of `handler_arm.c` are functions that log "Please fill" and
  return; three copies of that file, its header and the engine, the header of a
  register map and a configure script make up most of the repository's lines, and
  have no behaviour of their own.
* Overlap of accesses and the engine's registers are not in one module:
  `MemoryValues` lets the value and the address of an operand become known at any
  time, which contains what the registers would do.
* Of `Nvic`: its snapshot (section 2).
* Values are numbers of one width; that the engine keeps them in 64-bit dwords of
  which 32 count is left out.
* POMP is a copy of the engine without the log, which `reverse_exec` covers in one
  of its two setups.  Of POMP++, value sets of memory and xor, mul and div are left
  out, and so is a value set with several regions, which the modelled
  operations never make from one with a single region.  So are the branches of
  `vs_res_expression` that are never reached (1344-1387, among them a shifted index
  taken without its shift), and what `valset_verify_noalias` would say of the sets they
  do not compute (481-497, with both sizes those of the first instruction).
* The experiment driver starts processes under a semaphore; parsing, generated
  serialisation code, logging, formatting, command lines, bindings and vendored
  code have no behaviour to check here.

## 7. Plan

1. Proofs: `TaintComplete`, one sink at a time, and `RaisedWroteIt` from it.
2. `ReverseExec` with writeback and two accesses to an instruction; the hypothesis
   test (`re_mem_alias.c`: fork, restore, `rec_count`) as it was meant.
3. Two triggers in `InterruptSources`, and the NVIC of `Nvic` in place of its promise.

## 8. Use

    tlc -workers 2 -config Nvic.cfg Nvic
    tlapm NvicProofs.tla

and likewise `InterruptSourcesProofs`, `TimersProofs`, `PageRestoreProofs`,
`ForkServerProofs`, `TaintRankProofs`, `ReverseExecProofs` and
`ReverseExecProgressProofs` (the last two take some minutes).

An operator whose comment says *mutant* or *bug* is a deliberately wrong version
of the definition that follows it; putting it in that one's place violates the
property named in `PROJECT.json`.  Each shows that its property can fail.
