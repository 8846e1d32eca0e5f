-------------------------- MODULE ForkServerProofs --------------------------
(***************************************************************************)
(* What ForkServer is checked for on small firmware, proved for firmware,  *)
(* inputs, limits and timeouts of any size.                                *)
(*                                                                         *)
(* Types: the operations are first described field by field, and Ran says  *)
(* what one block does to a process.                                       *)
(*                                                                         *)
(* The prefix: the child and then the parent walk one path through the     *)
(* firmware (Path), which the child's number of ticks measures and the     *)
(* parent's block limit cuts short (ChildInv, PrefixInv).                  *)
(*                                                                         *)
(* The runs: the cursor tells how much of its own input a run has read     *)
(* (RunInv), and is at the end of the buffer when none is on (ReadyInv).   *)
(*                                                                         *)
(* Runs on one input: Sim relates two processes that a block cannot tell   *)
(* apart.  A recorded run is a chain of processes (Chain); a later run on  *)
(* the same input starts alike and stays at an element of the chain, and   *)
(* so stops where it stops (AlikeInv).                                     *)
(***************************************************************************)
EXTENDS ForkServer, TLAPS

(* Types. *)

Byte == {0, 1}
Cell == [src : {"prefix", "input", "size", "stale"}, at : Nat, val : Byte]

MachineType ==
  [pc : Nat, log : Seq(Cell), last : Nat, hits : Nat, ticks : Nat, watchdog : Nat, limit : Nat,
   limitReload : Nat]

ProcType ==
  [m : MachineType, linear : Nat, fuzz : Seq(Cell), fuzz_size : Nat, fuzz_cursor : Nat,
   input_mode_SHM : BOOLEAN, input_already_given : BOOLEAN, duplicate_exit : BOOLEAN,
   custom_exit_reason : {"ok", "crash"}, is_discovery_child : BOOLEAN,
   report : Nat \cup {NoReport}, running : BOOLEAN, err : {"ok", "fault"}, exited : BOOLEAN]

\* The timers of a machine.
MachineOk(m) ==
  /\ m \in MachineType
  /\ m.pc \in DOMAIN setup.code
  /\ m.watchdog \in 0 .. FuzzConsumptionTimeout
  /\ FuzzConsumptionTimeout > 0 => m.watchdog > 0
  /\ m.limit \in 1 .. m.limitReload

\* The cursor stays within the input.
ProcOk(p) == p \in ProcType /\ MachineOk(p.m) /\ p.fuzz_cursor <= p.fuzz_size

SetupOk ==
  /\ setup.code \in Seq(Kinds) /\ setup.loop \in DOMAIN setup.code
  /\ setup.prefix \in Seq(Byte) /\ setup.mode \in {"shm", "file", "single"}
  /\ setup.finishes \in BOOLEAN

-----------------------------------------------------------------------------
(* The operations, field by field. *)

\* Only the machine and what do_exit sets may differ.
SameInput(p, q) ==
  /\ q.fuzz = p.fuzz /\ q.fuzz_size = p.fuzz_size /\ q.fuzz_cursor = p.fuzz_cursor
  /\ q.input_mode_SHM = p.input_mode_SHM /\ q.input_already_given = p.input_already_given
SameRole(p, q) ==
  /\ q.is_discovery_child = p.is_discovery_child /\ q.report = p.report
  /\ q.err = p.err /\ q.exited = p.exited /\ q.linear = p.linear

\* q is what do_exit makes of p.
Stopped(p, q, err) ==
  IF p.duplicate_exit
  THEN q.duplicate_exit /\ q.running = p.running /\ q.custom_exit_reason = p.custom_exit_reason
  ELSE q.duplicate_exit /\ ~q.running /\ q.custom_exit_reason = err
Unstopped(p, q) ==
  /\ q.duplicate_exit = p.duplicate_exit /\ q.running = p.running
  /\ q.custom_exit_reason = p.custom_exit_reason

\* The first exit is the one that counts.
LEMMA ExitIs ==
  ASSUME NEW p \in ProcType, NEW err \in {"ok", "crash"}
  PROVE  LET q == do_exit(p, err) IN
         /\ q \in ProcType /\ q.m = p.m /\ SameInput(p, q) /\ SameRole(p, q)
         /\ Stopped(p, q, err)
  BY DEF do_exit, ProcType, SameInput, SameRole, Stopped

\* Another machine for a process.
LEMMA MachineIs ==
  ASSUME NEW p \in ProcType, NEW m \in MachineType
  PROVE  LET q == [p EXCEPT !.m = m] IN
         q \in ProcType /\ q.m = m /\ SameInput(p, q) /\ SameRole(p, q) /\ Unstopped(p, q)
  BY DEF ProcType, SameInput, SameRole, Unstopped

\* What is assumed of the constants.
LEMMA Constants ==
  /\ MaxReloadVal \in Nat \ {0} /\ BlockLimit \in Nat /\ FuzzConsumptionTimeout \in Nat
  /\ BlockLimit < MaxReloadVal /\ ExitAtHitLimit \in Nat \ {0} /\ LinearVals \in Nat \ {0}
  /\ \A i \in Inputs : i \in Seq(Byte)
  BY ForkServerAssumption DEF Byte

\* The machine with other numbers in its timers.
Timed(m, t, w, l) == [m EXCEPT !.ticks = t, !.watchdog = w, !.limit = l]

\* Timed, field by field.
LEMMA TimedIs ==
  ASSUME NEW m \in MachineType, NEW t \in Nat, NEW w \in Nat, NEW l \in Nat
  PROVE  LET e == Timed(m, t, w, l) IN
         /\ e \in MachineType
         /\ e.pc = m.pc /\ e.log = m.log /\ e.last = m.last /\ e.hits = m.hits
         /\ e.ticks = t /\ e.watchdog = w /\ e.limit = l /\ e.limitReload = m.limitReload
  BY DEF MachineType, Timed

\* A tick of the timers.
LEMMA ElapsedIs ==
  ASSUME NEW m, MachineOk(m), NEW counted \in BOOLEAN
  PROVE  LET e == Elapsed(m, counted) IN
         /\ MachineOk(e) /\ e.pc = m.pc /\ e.log = m.log /\ e.last = m.last /\ e.hits = m.hits
         /\ e.ticks = IF counted THEN m.ticks + 1 ELSE m.ticks
         /\ e.limitReload = m.limitReload
         /\ BlockLimit > 0 => e.limit = IF m.limit = 1 THEN m.limitReload ELSE m.limit - 1
<1> DEFINE t == IF counted THEN m.ticks + 1 ELSE m.ticks
           w == IF FuzzConsumptionTimeout > 0 THEN Left(m.watchdog, FuzzConsumptionTimeout)
                ELSE m.watchdog
           l == IF BlockLimit > 0 THEN Left(m.limit, m.limitReload) ELSE m.limit
           e == Timed(m, t, w, l)
<1>1. Elapsed(m, counted) = e
  BY DEF Elapsed, Timed
<1>2. /\ m \in MachineType /\ m.pc \in DOMAIN setup.code /\ t \in Nat
      /\ w \in 0 .. FuzzConsumptionTimeout /\ w \in Nat
      /\ FuzzConsumptionTimeout > 0 => w > 0
      /\ l \in 1 .. m.limitReload /\ l \in Nat /\ m.limitReload \in Nat
      /\ BlockLimit > 0 => l = IF m.limit = 1 THEN m.limitReload ELSE m.limit - 1
  BY Constants DEF Left, MachineOk, MachineType
<1>3. t = IF counted THEN m.ticks + 1 ELSE m.ticks
  OBVIOUS
<1> HIDE DEF t, w, l
<1>4. /\ e \in MachineType /\ e.pc = m.pc /\ e.log = m.log /\ e.last = m.last /\ e.hits = m.hits
      /\ e.ticks = t /\ e.watchdog = w /\ e.limit = l /\ e.limitReload = m.limitReload
  <2>1. m \in MachineType /\ t \in Nat /\ w \in Nat /\ l \in Nat
    BY <1>2
  <2> QED
    BY <2>1, TimedIs
<1> HIDE DEF e
<1> QED
  BY <1>1, <1>2, <1>3, <1>4 DEF MachineOk

\* The block hook of the timers.
LEMMA TickIs ==
  ASSUME NEW p, ProcOk(p)
  PROVE  LET q == timer_tick(p) IN
         /\ q \in ProcType /\ MachineOk(q.m) /\ q.m = Elapsed(p.m, p.is_discovery_child)
         /\ SameInput(p, q) /\ SameRole(p, q)
         /\ IF Expired(p.m) THEN Stopped(p, q, "ok") ELSE Unstopped(p, q)
<1>1. p \in ProcType /\ MachineOk(p.m) /\ p.is_discovery_child \in BOOLEAN
  BY DEF ProcOk, ProcType
<1> DEFINE m == Elapsed(p.m, p.is_discovery_child)
           q == [p EXCEPT !.m = m]
<1>2. MachineOk(m) /\ m \in MachineType
  BY <1>1, ElapsedIs DEF MachineOk
<1> HIDE DEF m
<1>3. q \in ProcType /\ q.m = m /\ SameInput(p, q) /\ SameRole(p, q) /\ Unstopped(p, q)
  BY <1>1, <1>2, MachineIs
<1>4. timer_tick(p) = IF Expired(p.m) THEN do_exit(q, "ok") ELSE q
  BY DEF timer_tick, m
<1> HIDE DEF q
<1>5. CASE Expired(p.m)
  <2>1. LET x == do_exit(q, "ok") IN
        x \in ProcType /\ x.m = q.m /\ SameInput(q, x) /\ SameRole(q, x) /\ Stopped(q, x, "ok")
    BY <1>3, ExitIs
  <2> QED
    BY <2>1, <1>2, <1>3, <1>4, <1>5 DEF SameInput, SameRole, Stopped, Unstopped, m
<1>6. CASE ~Expired(p.m)
  BY <1>2, <1>3, <1>4, <1>6 DEF m
<1> QED
  BY <1>5, <1>6

\* A hit of an exit block.
LEMMA HitIs ==
  ASSUME NEW m, MachineOk(m)
  PROVE  LET e == Hit(m) IN
         /\ MachineOk(e) /\ e.pc = m.pc /\ e.log = m.log /\ e.last = m.last /\ e.ticks = m.ticks
         /\ e.limit = m.limit /\ e.limitReload = m.limitReload
  BY Constants DEF Hit, MachineOk, MachineType

\* What the hooks of a block leave alone.
HookKeeps(p, q) ==
  /\ ProcOk(q) /\ SameInput(p, q) /\ SameRole(p, q)
  /\ q.m.pc = p.m.pc /\ q.m.log = p.m.log /\ q.m.last = p.m.last
  /\ q.m.ticks = IF p.is_discovery_child THEN p.m.ticks + 1 ELSE p.m.ticks
  /\ q.m.limitReload = p.m.limitReload
  /\ BlockLimit > 0 => q.m.limit = IF p.m.limit = 1 THEN p.m.limitReload ELSE p.m.limit - 1
  /\ p.duplicate_exit => Unstopped(p, q)
  /\ ~p.duplicate_exit => \/ q.duplicate_exit /\ ~q.running /\ q.custom_exit_reason = "ok"
                          \/ Unstopped(p, q) /\ ~(BlockLimit > 0 /\ p.m.limit = 1)

\* The hooks of a block.
LEMMA HookedIs ==
  ASSUME NEW p, ProcOk(p)
  PROVE  HookKeeps(p, Hooked(p))
<1> DEFINE t == timer_tick(p)
<1>1. /\ t \in ProcType /\ MachineOk(t.m) /\ t.m = Elapsed(p.m, p.is_discovery_child)
      /\ SameInput(p, t) /\ SameRole(p, t)
      /\ IF Expired(p.m) THEN Stopped(p, t, "ok") ELSE Unstopped(p, t)
  BY TickIs
<1>2. /\ t.m.pc = p.m.pc /\ t.m.log = p.m.log /\ t.m.last = p.m.last
      /\ t.m.ticks = IF p.is_discovery_child THEN p.m.ticks + 1 ELSE p.m.ticks
      /\ t.m.limitReload = p.m.limitReload
      /\ BlockLimit > 0 => t.m.limit = IF p.m.limit = 1 THEN p.m.limitReload ELSE p.m.limit - 1
  <2>1. MachineOk(p.m) /\ p.is_discovery_child \in BOOLEAN
    BY DEF ProcOk, ProcType
  <2> QED
    BY <1>1, <2>1, ElapsedIs
<1>3. HookKeeps(p, t)
  BY <1>1, <1>2 DEF HookKeeps, ProcOk, SameInput, Stopped, Unstopped, Expired, ProcType
<1> HIDE DEF t
<1>4. CASE KindAt(p) # "exit"
  BY <1>3, <1>4 DEF Hooked, t
<1>5. CASE KindAt(p) = "exit"
  <2> DEFINE h == Hit(t.m)
             q == [t EXCEPT !.m = h]
  <2>1. /\ MachineOk(h) /\ h.pc = t.m.pc /\ h.log = t.m.log /\ h.last = t.m.last
        /\ h.ticks = t.m.ticks /\ h.limit = t.m.limit /\ h.limitReload = t.m.limitReload
    BY <1>1, HitIs
  <2> HIDE DEF h
  <2>2. h \in MachineType
    BY <2>1 DEF MachineOk
  <2>3. q \in ProcType /\ q.m = h /\ SameInput(t, q) /\ SameRole(t, q) /\ Unstopped(t, q)
    BY <1>1, <2>2, MachineIs
  <2> HIDE DEF q
  <2>4. Hooked(p) = IF q.m.hits = ExitAtHitLimit THEN do_exit(q, "ok") ELSE q
    BY <1>5 DEF Hooked, hook_block_exit_at, q, h, t
  <2>5. HookKeeps(p, q)
    BY <1>3, <2>1, <2>3 DEF HookKeeps, ProcOk, SameInput, SameRole, Unstopped
  <2>6. LET x == do_exit(q, "ok") IN
        x \in ProcType /\ x.m = q.m /\ SameInput(q, x) /\ SameRole(q, x) /\ Stopped(q, x, "ok")
    BY <2>3, ExitIs
  <2>7. HookKeeps(p, do_exit(q, "ok"))
    BY <2>5, <2>6 DEF HookKeeps, ProcOk, SameInput, SameRole, Stopped, Unstopped
  <2> QED
    BY <2>4, <2>5, <2>7
<1> QED
  BY <1>4, <1>5

-----------------------------------------------------------------------------
(* Input, field by field. *)

\* The elements of a concatenation.
LEMMA Joined ==
  ASSUME NEW S, NEW s \in Seq(S), NEW t \in Seq(S)
  PROVE  /\ s \o t \in Seq(S) /\ Len(s \o t) = Len(s) + Len(t)
         /\ \A i \in 1 .. Len(s) : (s \o t)[i] = s[i]
         /\ \A i \in 1 .. Len(t) : (s \o t)[Len(s) + i] = t[i]
  OBVIOUS

\* The cells of a buffer.
LEMMA CellsAre ==
  ASSUME NEW src \in {"prefix", "input"}, NEW s \in Seq(Byte)
  PROVE  /\ Cells(src, s) \in Seq(Cell) /\ Len(Cells(src, s)) = Len(s)
         /\ \A i \in 1 .. Len(s) : Cells(src, s)[i] = [src |-> src, at |-> i, val |-> s[i]]
<1>1. DOMAIN s = 1 .. Len(s) /\ Len(s) \in Nat /\ \A i \in 1 .. Len(s) : s[i] \in Byte
  OBVIOUS
<1>2. Cells(src, s) = [i \in 1 .. Len(s) |-> [src |-> src, at |-> i, val |-> s[i]]]
  BY <1>1 DEF Cells
<1>3. \A i \in 1 .. Len(s) : [src |-> src, at |-> i, val |-> s[i]] \in Cell
  BY <1>1 DEF Cell
<1> HIDE DEF Cell
<1> QED
  BY <1>1, <1>2, <1>3

\* What the pointer to the input points to.
LEMMA FuzzIs ==
  ASSUME NEW p \in ProcType, NEW input \in Seq(Byte)
  PROVE  /\ \A i \in Nat : FuzzAt(p, input, i) \in Cell
         /\ ~p.input_mode_SHM => \A i \in 1 .. Len(p.fuzz) : FuzzAt(p, input, i) = p.fuzz[i]
         /\ p.input_mode_SHM => \A i \in 2 .. Len(input) + 1 :
                                    FuzzAt(p, input, i) = Cells("input", input)[i - 1]
<1>1. /\ Cells("input", input) \in Seq(Cell) /\ Len(Cells("input", input)) = Len(input)
      /\ Len(input) \in Nat
  BY CellsAre
<1>2. SizeCell \in Cell /\ Stale \in Cell /\ p.fuzz \in Seq(Cell)
  BY DEF SizeCell, Stale, Cell, Byte, ProcType
<1> DEFINE c == Cells("input", input)
           t == <<SizeCell>> \o c
<1>3. /\ t \in Seq(Cell) /\ Len(t) = Len(input) + 1
      /\ \A i \in 2 .. Len(input) + 1 : t[i] = c[i - 1]
  <2>1. c \in Seq(Cell) /\ Len(c) = Len(input) /\ Len(input) \in Nat /\ SizeCell \in Cell
    BY <1>1, <1>2
  <2> DEFINE u == <<SizeCell>>
  <2>2. u \in Seq(Cell) /\ Len(u) = 1
    <3> HIDE DEF Cell
    <3> QED
      BY <2>1
  <2> HIDE DEF c, u
  <2>3. /\ u \o c \in Seq(Cell) /\ Len(u \o c) = 1 + Len(c)
        /\ \A j \in 1 .. Len(c) : (u \o c)[1 + j] = c[j]
    <3>1. u \in Seq(Cell) /\ c \in Seq(Cell)
      BY <2>1, <2>2
    <3>2. /\ u \o c \in Seq(Cell) /\ Len(u \o c) = Len(u) + Len(c)
          /\ \A j \in 1 .. Len(c) : (u \o c)[Len(u) + j] = c[j]
      BY <3>1, Joined
    <3> QED
      BY <2>2, <3>2
  <2>4. ASSUME NEW i \in 2 .. Len(input) + 1
        PROVE  (u \o c)[i] = c[i - 1]
    <3>1. i - 1 \in 1 .. Len(c) /\ 1 + (i - 1) = i
      BY <2>1
    <3> QED
      BY <2>3, <3>1
  <2> QED
    BY <2>1, <2>3, <2>4 DEF u
<1>4. Fuzz(p, input) = IF p.input_mode_SHM THEN t ELSE p.fuzz
  BY DEF Fuzz
<1> HIDE DEF t, c
<1>5. Fuzz(p, input) \in Seq(Cell)
  BY <1>2, <1>3, <1>4
<1>6. \A i \in Nat : FuzzAt(p, input, i) \in Cell
  BY <1>2, <1>5 DEF FuzzAt
<1>7. ASSUME ~p.input_mode_SHM, NEW i \in 1 .. Len(p.fuzz)
      PROVE  FuzzAt(p, input, i) = p.fuzz[i]
  BY <1>2, <1>4, <1>7 DEF FuzzAt
<1>8. ASSUME p.input_mode_SHM, NEW i \in 2 .. Len(input) + 1
      PROVE  FuzzAt(p, input, i) = c[i - 1]
  <2>1. i \in DOMAIN t
    BY <1>1, <1>3
  <2> QED
    BY <1>3, <1>4, <1>8, <2>1 DEF FuzzAt
<1> QED
  BY <1>6, <1>7, <1>8 DEF c

\* t is s and then as many bytes of the input.
Appended(s, t, size, p, input) ==
  /\ Len(t) = Len(s) + size
  /\ \A i \in 1 .. Len(s) : t[i] = s[i]
  /\ \A i \in 1 .. size : t[Len(s) + i] = FuzzAt(p, input, p.fuzz_cursor + i)

\* The machine after bytes are handed out.
LEMMA ReadsIs ==
  ASSUME NEW m, MachineOk(m), NEW cells \in Seq(Cell), Len(cells) > 0
  PROVE  LET e == Reads(m, cells) IN
         /\ MachineOk(e) /\ e.pc = m.pc /\ e.log = m.log \o cells /\ e.hits = m.hits
         /\ e.last = Last(cells).val
         /\ e.ticks = m.ticks /\ e.limit = m.limit /\ e.limitReload = m.limitReload
<1> DEFINE log == m.log \o cells
           last == Last(cells).val
           e == [m EXCEPT !.log = log, !.last = last, !.watchdog = FuzzConsumptionTimeout]
<1>1. Reads(m, cells) = e
  BY DEF Reads
<1>2. m \in MachineType
  BY DEF MachineOk
<1>3. m.log \in Seq(Cell)
  BY <1>2 DEF MachineType
<1>4. log \in Seq(Cell)
  BY <1>3
<1>5. last \in Nat
  <2>1. Last(cells) = cells[Len(cells)] /\ Len(cells) \in DOMAIN cells
    BY DEF Last
  <2>2. Last(cells) \in Cell
    BY <2>1
  <2> QED
    BY <2>2 DEF Cell, Byte
<1> HIDE DEF log, last
<1>6. /\ e \in MachineType /\ e.pc = m.pc /\ e.log = log /\ e.hits = m.hits /\ e.last = last
      /\ e.ticks = m.ticks /\ e.limit = m.limit /\ e.limitReload = m.limitReload
      /\ e.watchdog = FuzzConsumptionTimeout
  BY <1>2, <1>4, <1>5, Constants DEF MachineType
<1> HIDE DEF e
<1> QED
  BY <1>1, <1>6, Constants DEF log, last, MachineOk

\* What handing out bytes does.
Consumed(p, q, size, input) ==
  /\ ProcOk(q) /\ SameRole(p, q) /\ Unstopped(p, q)
  /\ q.fuzz = p.fuzz /\ q.fuzz_size = p.fuzz_size /\ q.fuzz_cursor = p.fuzz_cursor + size
  /\ q.input_mode_SHM = p.input_mode_SHM /\ q.input_already_given = p.input_already_given
  /\ q.m.pc = p.m.pc /\ q.m.ticks = p.m.ticks /\ q.m.limit = p.m.limit
  /\ q.m.limitReload = p.m.limitReload
  /\ q.m = Reads(p.m, [i \in 1 .. size |-> FuzzAt(p, input, p.fuzz_cursor + i)])
  /\ q.m.last = FuzzAt(p, input, p.fuzz_cursor + size).val
  /\ Appended(p.m.log, q.m.log, size, p, input)

\* Handing out bytes, field by field.
LEMMA ConsumeIs ==
  ASSUME NEW p, ProcOk(p), NEW input \in Seq(Byte), NEW size \in {1, 2}, Enough(p, size)
  PROVE  Consumed(p, Consume(p, size, input), size, input)
<1>1. p \in ProcType /\ MachineOk(p.m) /\ p.fuzz_cursor \in Nat /\ p.fuzz_size \in Nat
  BY DEF ProcOk, ProcType
<1> DEFINE cells == [i \in 1 .. size |-> FuzzAt(p, input, p.fuzz_cursor + i)]
           m == Reads(p.m, cells)
           c == p.fuzz_cursor + size
           q == [p EXCEPT !.m = m, !.fuzz_cursor = c]
<1>2. Consume(p, size, input) = q
  BY DEF Consume
<1>3. c \in Nat /\ c <= p.fuzz_size
  BY <1>1 DEF Enough
<1>4. \A i \in 1 .. size : FuzzAt(p, input, p.fuzz_cursor + i) \in Cell
  BY <1>1, FuzzIs
<1>5. cells \in Seq(Cell) /\ Len(cells) = size /\ Len(cells) > 0
  BY <1>4
<1>6. /\ MachineOk(m) /\ m.pc = p.m.pc /\ m.log = p.m.log \o cells
      /\ m.ticks = p.m.ticks /\ m.limit = p.m.limit /\ m.limitReload = p.m.limitReload
      /\ m.last = FuzzAt(p, input, p.fuzz_cursor + size).val
  <2>1. Last(cells) = FuzzAt(p, input, p.fuzz_cursor + size)
    BY <1>5 DEF Last
  <2> HIDE DEF cells
  <2> QED
    <3>1. /\ MachineOk(m) /\ m.pc = p.m.pc /\ m.log = p.m.log \o cells
          /\ m.ticks = p.m.ticks /\ m.limit = p.m.limit /\ m.limitReload = p.m.limitReload
          /\ m.last = Last(cells).val
      BY <1>1, <1>5, ReadsIs
    <3> HIDE DEF m
    <3> QED
      BY <2>1, <3>1
<1>7. Appended(p.m.log, m.log, size, p, input)
  <2>1. p.m.log \in Seq(Cell)
    BY <1>1 DEF MachineOk, MachineType
  <2>2. \A i \in 1 .. size : cells[i] = FuzzAt(p, input, p.fuzz_cursor + i)
    OBVIOUS
  <2> HIDE DEF cells, m
  <2> QED
    <3>1. Len(m.log) = Len(p.m.log) + size
      BY <1>5, <1>6, <2>1
    <3>2. ASSUME NEW i \in 1 .. Len(p.m.log)
          PROVE  m.log[i] = p.m.log[i]
      BY <1>5, <1>6, <2>1
    <3>3. ASSUME NEW i \in 1 .. size
          PROVE  m.log[Len(p.m.log) + i] = FuzzAt(p, input, p.fuzz_cursor + i)
      BY <1>5, <1>6, <2>1, <2>2
    <3> QED
      BY <3>1, <3>2, <3>3 DEF Appended
<1>71. m = Reads(p.m, [i \in 1 .. size |-> FuzzAt(p, input, p.fuzz_cursor + i)])
  OBVIOUS
<1> HIDE DEF m, c
<1>8. /\ q \in ProcType /\ q.m = m /\ q.fuzz_cursor = c /\ q.fuzz = p.fuzz
      /\ q.fuzz_size = p.fuzz_size /\ q.input_mode_SHM = p.input_mode_SHM
      /\ q.input_already_given = p.input_already_given /\ SameRole(p, q) /\ Unstopped(p, q)
  <2>1. m \in MachineType
    BY <1>6 DEF MachineOk
  <2> QED
    BY <1>1, <1>3, <2>1 DEF ProcType, SameRole, Unstopped
<1> HIDE DEF q
<1> QED
  BY <1>2, <1>3, <1>6, <1>7, <1>71, <1>8 DEF Consumed, ProcOk, c

\* What loading a buffer does.
Loaded(p, q, src, contents) ==
  /\ ProcOk(q) /\ q.m = p.m /\ q.linear = p.linear /\ q.err = p.err /\ q.report = p.report
  /\ q.is_discovery_child = p.is_discovery_child
  /\ q.input_mode_SHM = p.input_mode_SHM /\ q.duplicate_exit = p.duplicate_exit
  /\ q.custom_exit_reason = p.custom_exit_reason
  /\ p.input_mode_SHM \/ p.fuzz_size = p.fuzz_cursor =>
       q.exited = p.exited /\ q.running = p.running
  /\ ~p.input_mode_SHM /\ p.fuzz_size # p.fuzz_cursor => q.exited /\ ~q.running
  /\ p.input_mode_SHM => q.fuzz_size = Len(contents) + 1 /\ q.fuzz_cursor = 1
  /\ ~p.input_mode_SHM /\ p.fuzz_size = p.fuzz_cursor =>
       q.fuzz = Cells(src, contents) /\ q.fuzz_size = Len(contents) /\ q.fuzz_cursor = 0

\* Loading a buffer, field by field.
LEMMA LoadIs ==
  ASSUME NEW p, ProcOk(p), NEW src \in {"prefix", "input"}, NEW contents \in Seq(Byte)
  PROVE  /\ Loaded(p, load_fuzz(p, src, contents), src, contents)
         /\ load_fuzz(p, src, contents).input_already_given = p.input_already_given
<1>1. p \in ProcType /\ MachineOk(p.m) /\ p.fuzz_cursor <= p.fuzz_size /\ p.exited \in BOOLEAN
  BY DEF ProcOk, ProcType
<1>2. Cells(src, contents) \in Seq(Cell) /\ Len(contents) \in Nat
  BY CellsAre
<1> DEFINE c == Cells(src, contents)
           n == Len(contents)
           n1 == Len(contents) + 1
<1> HIDE DEF c, n
<1>3. CASE p.input_mode_SHM
  <2> DEFINE q == [p EXCEPT !.fuzz_size = n1, !.fuzz_cursor = 1]
  <2>1. load_fuzz(p, src, contents) = q
    BY <1>3 DEF load_fuzz
  <2>2. n1 \in Nat /\ 1 <= n1
    BY <1>2
  <2> HIDE DEF n1
  <2>3. q \in ProcType /\ q.m = p.m
    BY <1>1, <2>2 DEF ProcType
  <2>4. /\ q.fuzz_size = n1 /\ q.fuzz_cursor = 1
        /\ q.linear = p.linear /\ q.err = p.err /\ q.report = p.report
        /\ q.is_discovery_child = p.is_discovery_child
        /\ q.input_mode_SHM = p.input_mode_SHM /\ q.duplicate_exit = p.duplicate_exit
        /\ q.custom_exit_reason = p.custom_exit_reason
        /\ q.exited = p.exited /\ q.running = p.running
        /\ q.input_already_given = p.input_already_given
    BY <1>1 DEF ProcType
  <2> HIDE DEF q
  <2> QED
    BY <1>1, <1>3, <2>1, <2>2, <2>3, <2>4 DEF Loaded, ProcOk, n1
<1>4. CASE ~p.input_mode_SHM /\ p.fuzz_size # p.fuzz_cursor
  <2> DEFINE q == [p EXCEPT !.exited = TRUE, !.running = FALSE]
  <2>1. load_fuzz(p, src, contents) = q
    BY <1>4 DEF load_fuzz
  <2>3. /\ q \in ProcType /\ q.m = p.m /\ q.fuzz_size = p.fuzz_size /\ q.fuzz_cursor = p.fuzz_cursor
        /\ q.linear = p.linear /\ q.err = p.err /\ q.report = p.report
        /\ q.is_discovery_child = p.is_discovery_child
        /\ q.input_mode_SHM = p.input_mode_SHM /\ q.duplicate_exit = p.duplicate_exit
        /\ q.custom_exit_reason = p.custom_exit_reason
        /\ q.exited /\ ~q.running
        /\ q.input_already_given = p.input_already_given
    BY <1>1 DEF ProcType
  <2> HIDE DEF q
  <2> QED
    BY <1>1, <1>4, <2>1, <2>3 DEF Loaded, ProcOk
<1>5. CASE ~p.input_mode_SHM /\ p.fuzz_size = p.fuzz_cursor
  <2> DEFINE q == [p EXCEPT !.fuzz = c, !.fuzz_size = n, !.fuzz_cursor = 0]
  <2>1. load_fuzz(p, src, contents) = q
    BY <1>5 DEF load_fuzz, c, n
  <2>2. c \in Seq(Cell) /\ n \in Nat
    BY <1>2 DEF c, n
  <2>3. q \in ProcType
    BY <1>1, <2>2 DEF ProcType
  <2>4. /\ q.m = p.m /\ q.fuzz = c /\ q.fuzz_size = n /\ q.fuzz_cursor = 0
        /\ q.linear = p.linear /\ q.err = p.err /\ q.report = p.report
        /\ q.is_discovery_child = p.is_discovery_child
        /\ q.input_mode_SHM = p.input_mode_SHM /\ q.duplicate_exit = p.duplicate_exit
        /\ q.custom_exit_reason = p.custom_exit_reason
        /\ q.exited = p.exited /\ q.running = p.running
        /\ q.input_already_given = p.input_already_given
    BY <1>1 DEF ProcType
  <2> HIDE DEF q
  <2> QED
    BY <1>1, <1>5, <2>1, <2>2, <2>3, <2>4 DEF Loaded, ProcOk, c, n
<1> QED
  BY <1>1, <1>3, <1>4, <1>5

\* Loading the input, field by field.
LEMMA DelayedIs ==
  ASSUME NEW p, ProcOk(p), NEW input \in Seq(Byte)
  PROVE  LET q == load_delayed_input(p, input) IN
         Loaded(p, q, "input", input) /\ q.input_already_given
<1> DEFINE t == load_fuzz(p, "input", input)
           q == [t EXCEPT !.input_already_given = TRUE]
<1>1. Loaded(p, t, "input", input)
  BY LoadIs
<1>2. load_delayed_input(p, input) = q
  BY DEF load_delayed_input
<1> HIDE DEF t
<1>3. t \in ProcType
  BY <1>1 DEF Loaded, ProcOk
<1>4. /\ q \in ProcType /\ q.input_already_given
      /\ q.m = t.m /\ q.fuzz = t.fuzz /\ q.fuzz_size = t.fuzz_size /\ q.fuzz_cursor = t.fuzz_cursor
      /\ q.linear = t.linear /\ q.err = t.err /\ q.report = t.report
      /\ q.is_discovery_child = t.is_discovery_child
      /\ q.input_mode_SHM = t.input_mode_SHM /\ q.duplicate_exit = t.duplicate_exit
      /\ q.custom_exit_reason = t.custom_exit_reason
      /\ q.exited = t.exited /\ q.running = t.running
  BY <1>3 DEF ProcType
<1> HIDE DEF q
<1> QED
  BY <1>1, <1>2, <1>4 DEF Loaded, ProcOk

\* A process that is not allowed to load, or has loaded, keeps its buffer.
NoLoad(p, size) == Enough(p, size) \/ p.is_discovery_child \/ p.input_already_given

\* What becomes of a process in which there is nothing left to load.
Served(p, q, size, input) ==
  /\ p.exited => q = p
  /\ ~p.exited /\ Enough(p, size) => Consumed(p, q, size, input)
  /\ ~p.exited /\ ~Enough(p, size) =>
       /\ ProcOk(q) /\ q.m = p.m /\ SameInput(p, q) /\ q.linear = p.linear /\ q.err = p.err
       /\ q.exited = p.exited /\ q.is_discovery_child = p.is_discovery_child
       /\ IF p.is_discovery_child
          THEN /\ q.report = p.m.ticks /\ ~q.running /\ q.duplicate_exit = p.duplicate_exit
               /\ q.custom_exit_reason = p.custom_exit_reason
          ELSE q.report = p.report /\ Stopped(p, q, "ok")

\* A read.
LEMMA GetIs ==
  ASSUME NEW p, ProcOk(p), NEW size \in {1, 2}, NEW input \in Seq(Byte)
  PROVE  LET q == IF NoLoad(p, size) THEN p ELSE load_delayed_input(p, input)
         IN  ProcOk(q) /\ Served(q, get_fuzz(p, size, input), size, input)
<1> DEFINE q == IF NoLoad(p, size) THEN p ELSE load_delayed_input(p, input)
           r == get_fuzz(p, size, input)
<1>1. ProcOk(q)
  BY DelayedIs DEF Loaded
<1>2. r = CASE q.exited -> q
            [] ~q.exited /\ Enough(q, size) -> Consume(q, size, input)
            [] ~q.exited /\ ~Enough(q, size) /\ q.is_discovery_child ->
                   [q EXCEPT !.report = q.m.ticks, !.running = FALSE]
            [] ~q.exited /\ ~Enough(q, size) /\ ~q.is_discovery_child -> do_exit(q, "ok")
  BY DEF get_fuzz, NoLoad
<1> HIDE DEF q, r
<1>3. /\ q \in ProcType /\ q.exited \in BOOLEAN /\ q.is_discovery_child \in BOOLEAN /\ q.m.ticks \in Nat
      /\ Enough(q, size) \in BOOLEAN
  BY <1>1 DEF ProcOk, ProcType, MachineType, Enough
<1> SUFFICES Served(q, r, size, input)
  BY <1>1 DEF q, r
<1>4. CASE q.exited
  <2>1. r = q
    BY <1>2, <1>4
  <2> QED
    BY <1>3, <1>4, <2>1 DEF Served
<1>5. CASE ~q.exited /\ Enough(q, size)
  <2>1. Consumed(q, Consume(q, size, input), size, input)
    BY <1>1, <1>5, ConsumeIs
  <2>2. r = Consume(q, size, input)
    BY <1>2, <1>5
  <2> QED
    BY <1>5, <2>1, <2>2 DEF Served
<1>6. CASE ~q.exited /\ ~Enough(q, size) /\ q.is_discovery_child
  <2> DEFINE t == q.m.ticks
             x == [q EXCEPT !.report = t, !.running = FALSE]
  <2>1. r = x
    BY <1>2, <1>6
  <2>2. t \in Nat \cup {NoReport}
    BY <1>3
  <2> HIDE DEF t
  <2>3. x \in ProcType
    BY <1>3, <2>2 DEF ProcType
  <2>4. /\ x.m = q.m /\ SameInput(q, x) /\ x.linear = q.linear /\ x.err = q.err
        /\ x.exited = q.exited /\ x.is_discovery_child = q.is_discovery_child
        /\ x.report = t /\ ~x.running /\ x.duplicate_exit = q.duplicate_exit
        /\ x.custom_exit_reason = q.custom_exit_reason
    BY <1>3 DEF ProcType, SameInput
  <2> HIDE DEF x
  <2>5. ProcOk(x)
    BY <1>1, <2>3, <2>4 DEF ProcOk, SameInput
  <2> QED
    BY <1>6, <2>1, <2>4, <2>5 DEF Served, t
<1>7. CASE ~q.exited /\ ~Enough(q, size) /\ ~q.is_discovery_child
  <2>1. r = do_exit(q, "ok")
    BY <1>2, <1>7
  <2>2. r \in ProcType /\ r.m = q.m /\ SameInput(q, r) /\ SameRole(q, r) /\ Stopped(q, r, "ok")
    BY <1>3, <2>1, ExitIs
  <2>3. ProcOk(r)
    BY <1>1, <2>2 DEF ProcOk, SameInput
  <2> QED
    BY <1>7, <2>2, <2>3 DEF Served, SameRole
<1> QED
  BY <1>3, <1>4, <1>5, <1>6, <1>7

-----------------------------------------------------------------------------
(* A block. *)

NextAt(pc) == IF pc = Len(setup.code) THEN setup.loop ELSE pc + 1

\* What leaves the machine alone but for the value read last.
Keeps(p, q) ==
  /\ ProcOk(q) /\ SameInput(p, q)
  /\ q.is_discovery_child = p.is_discovery_child /\ q.report = p.report /\ q.exited = p.exited
  /\ q.m.pc = p.m.pc /\ q.m.log = p.m.log /\ q.m.ticks = p.m.ticks
  /\ q.m.limit = p.m.limit /\ q.m.limitReload = p.m.limitReload
  /\ q.running => p.running /\ q.duplicate_exit = p.duplicate_exit

\* The kinds of block that change the value read last, or give a reason to exit.
NoLinear == "linear" \notin Range(setup.code)
Otherwise(kind, p, q) ==
  /\ NoLinear => q.m.last = p.m.last
  /\ q.custom_exit_reason # p.custom_exit_reason =>
       kind = "crash" /\ p.m.last = 1 /\ ~p.duplicate_exit
  /\ kind = "crash" /\ p.m.last = 1 /\ ~p.duplicate_exit => ~q.running

\* What the hooks of a block and the step to the next one do.
EnteredKeeps(p, q) ==
  /\ ProcOk(q) /\ SameInput(p, q) /\ SameRole(p, q)
  /\ q.m.pc = NextAt(p.m.pc) /\ q.m.log = p.m.log /\ q.m.last = p.m.last
  /\ p.custom_exit_reason = "ok" => q.custom_exit_reason = "ok"
  /\ q.m.ticks = IF p.is_discovery_child THEN p.m.ticks + 1 ELSE p.m.ticks
  /\ BlockLimit > 0 => q.m.limit = IF p.m.limit = 1 THEN p.m.limitReload ELSE p.m.limit - 1
  /\ ~p.duplicate_exit => \/ q.duplicate_exit /\ ~q.running
                          \/ Unstopped(p, q) /\ ~(BlockLimit > 0 /\ p.m.limit = 1)

\* The step to the next block.
LEMMA NextPcIs ==
  ASSUME NEW m, MachineOk(m), SetupOk
  PROVE  LET e == NextPc(m) IN
         /\ MachineOk(e) /\ e.pc = NextAt(m.pc) /\ e.log = m.log /\ e.last = m.last
         /\ e.hits = m.hits /\ e.ticks = m.ticks /\ e.limit = m.limit
         /\ e.limitReload = m.limitReload
<1> DEFINE pc == NextAt(m.pc)
           e == [m EXCEPT !.pc = pc]
<1>1. setup.code \in Seq(Kinds) /\ setup.loop \in DOMAIN setup.code /\ m.pc \in DOMAIN setup.code
  BY DEF SetupOk, MachineOk
<1>2. pc \in DOMAIN setup.code /\ pc \in Nat
  BY <1>1 DEF NextAt
<1>3. NextPc(m) = e
  BY DEF NextPc, NextAt
<1>4. m \in MachineType
  BY DEF MachineOk
<1> HIDE DEF pc
<1>5. /\ e \in MachineType /\ e.pc = pc /\ e.log = m.log /\ e.last = m.last /\ e.hits = m.hits
      /\ e.ticks = m.ticks /\ e.watchdog = m.watchdog /\ e.limit = m.limit
      /\ e.limitReload = m.limitReload
  BY <1>2, <1>4 DEF MachineType
<1> HIDE DEF e
<1> QED
  BY <1>2, <1>3, <1>5 DEF MachineOk, pc

\* A process in its block, the hooks done and the step to the next one taken.
LEMMA EnteredIs ==
  ASSUME NEW p, ProcOk(p), SetupOk
  PROVE  EnteredKeeps(p, Advance(Hooked(p)))
<1> DEFINE h == Hooked(p)
           m == NextPc(h.m)
           q == [h EXCEPT !.m = m]
<1>1. HookKeeps(p, h)
  BY HookedIs
<1>2. h \in ProcType /\ MachineOk(h.m) /\ h.fuzz_cursor <= h.fuzz_size
  BY <1>1 DEF HookKeeps, ProcOk
<1>3. Advance(h) = q
  BY DEF Advance
<1> HIDE DEF h
<1>4. /\ MachineOk(m) /\ m.pc = NextAt(h.m.pc) /\ m.log = h.m.log /\ m.ticks = h.m.ticks
      /\ m.limit = h.m.limit /\ m.last = h.m.last /\ m \in MachineType
  BY <1>2, NextPcIs DEF MachineOk
<1> HIDE DEF m
<1>5. q \in ProcType /\ q.m = m /\ SameInput(h, q) /\ SameRole(h, q) /\ Unstopped(h, q)
  BY <1>2, <1>4, MachineIs
<1> HIDE DEF q
<1>6. ProcOk(q)
  BY <1>2, <1>4, <1>5 DEF ProcOk, SameInput
<1> QED
  BY <1>1, <1>3, <1>4, <1>5, <1>6 DEF HookKeeps, EnteredKeeps, SameInput, SameRole, Unstopped, h

\* The handler of a linear MMIO model changes the value read last only.
LEMMA LinearIs ==
  ASSUME NEW p, ProcOk(p)
  PROVE  LET q == linear_mmio_model_handler(p) IN
         Keeps(p, q) /\ q.custom_exit_reason = p.custom_exit_reason
<1> DEFINE v == (p.linear + 1) % LinearVals
           m == [p.m EXCEPT !.last = v]
           q == [p EXCEPT !.linear = v, !.m = m]
<1>1. linear_mmio_model_handler(p) = q
  BY DEF linear_mmio_model_handler
<1>2. p \in ProcType /\ MachineOk(p.m) /\ p.m \in MachineType /\ p.fuzz_cursor <= p.fuzz_size
  BY DEF ProcOk, MachineOk
<1>3. v \in Nat
  <2>1. p.linear \in Nat
    BY <1>2 DEF ProcType
  <2> QED
    BY <2>1, Constants
<1> HIDE DEF v
<1>4. /\ m \in MachineType /\ m.pc = p.m.pc /\ m.log = p.m.log /\ m.ticks = p.m.ticks
      /\ m.limit = p.m.limit /\ m.limitReload = p.m.limitReload /\ m.watchdog = p.m.watchdog
  BY <1>2, <1>3 DEF MachineType
<1> HIDE DEF m
<1>5. MachineOk(m)
  BY <1>2, <1>4 DEF MachineOk
<1>6. q \in ProcType
  BY <1>2, <1>3, <1>4 DEF ProcType
<1>7. /\ q.m = m /\ SameInput(p, q) /\ Unstopped(p, q)
      /\ q.is_discovery_child = p.is_discovery_child /\ q.report = p.report /\ q.exited = p.exited
  BY <1>2 DEF ProcType, SameInput, Unstopped
<1> HIDE DEF q
<1> QED
  BY <1>1, <1>2, <1>4, <1>5, <1>6, <1>7 DEF Keeps, ProcOk, SameInput, Unstopped

\* A crash the native code decides on: the reason is recorded, and the process stops.
LEMMA CrashIs ==
  ASSUME NEW p, ProcOk(p)
  PROVE  Keeps(p, ForcedCrash(p)) /\ Otherwise("crash", p, ForcedCrash(p))
<1>1. p \in ProcType /\ MachineOk(p.m) /\ p.fuzz_cursor <= p.fuzz_size
  BY DEF ProcOk
<1>2. CASE p.m.last = 1
  <2> DEFINE q == do_exit(p, "crash")
  <2>1. /\ q \in ProcType /\ q.m = p.m /\ SameInput(p, q) /\ SameRole(p, q)
        /\ Stopped(p, q, "crash")
    BY <1>1, ExitIs
  <2>2. ForcedCrash(p) = q
    BY <1>2 DEF ForcedCrash
  <2>3. q.running \in BOOLEAN /\ p.running \in BOOLEAN /\ p.duplicate_exit \in BOOLEAN
        /\ q.duplicate_exit \in BOOLEAN
    BY <1>1, <2>1 DEF ProcType
  <2> HIDE DEF q
  <2> QED
    <3>1. Keeps(p, q)
      BY <1>1, <2>1, <2>3 DEF Keeps, ProcOk, SameInput, SameRole, Stopped
    <3>2. Otherwise("crash", p, q)
      BY <1>2, <2>1, <2>3 DEF Otherwise, Stopped
    <3> QED
      BY <2>2, <3>1, <3>2
<1>3. CASE p.m.last # 1
  BY <1>1, <1>3 DEF ForcedCrash, Keeps, Otherwise, ProcOk, SameInput
<1> QED
  BY <1>2, <1>3

\* An access Unicorn refuses: the process stops, and no reason is recorded.
LEMMA RefusedIs ==
  ASSUME NEW p, ProcOk(p)
  PROVE  Keeps(p, Refused(p)) /\ Otherwise("fault", p, Refused(p))
<1>1. p \in ProcType /\ MachineOk(p.m) /\ p.fuzz_cursor <= p.fuzz_size
  BY DEF ProcOk
<1>2. CASE p.m.last = 1
  <2> DEFINE q == [p EXCEPT !.err = "fault", !.running = FALSE]
  <2>1. Refused(p) = q
    BY <1>2 DEF Refused
  <2>2. /\ q \in ProcType /\ q.m = p.m /\ SameInput(p, q) /\ q.exited = p.exited
        /\ q.is_discovery_child = p.is_discovery_child /\ q.report = p.report /\ ~q.running
        /\ q.custom_exit_reason = p.custom_exit_reason
    BY <1>1 DEF ProcType, SameInput
  <2> HIDE DEF q
  <2> QED
    BY <1>1, <2>1, <2>2 DEF Keeps, Otherwise, ProcOk, SameInput
<1>3. CASE p.m.last # 1
  BY <1>1, <1>3 DEF Refused, Keeps, Otherwise, ProcOk, SameInput
<1> QED
  BY <1>2, <1>3

\* Bytes a block reads.
Width(kind) == IF kind = "wide" THEN 2 ELSE IF kind = "read" THEN 1 ELSE 0

\* What a block does to the process: it is not executed, or it reads no input, or it reads some.
Ran(p, q, input) ==
  \/ HookKeeps(p, q) /\ ~q.running
  \/ /\ Width(KindAt(p)) = 0
     /\ \E e : EnteredKeeps(p, e) /\ Keeps(e, q) /\ Otherwise(KindAt(p), e, q)
  \/ /\ Width(KindAt(p)) > 0
     /\ \E e : EnteredKeeps(p, e) /\ q = get_fuzz(e, Width(KindAt(p)), input)

\* A block as a function.
Executed(kind, e, input) ==
  CASE kind = "read" -> get_fuzz(e, 1, input)
    [] kind = "wide" -> get_fuzz(e, 2, input)
    [] kind = "linear" -> linear_mmio_model_handler(e)
    [] kind = "crash" -> ForcedCrash(e)
    [] kind = "fault" -> Refused(e)
    [] kind \in {"quiet", "exit"} -> e
Exec(p, input) ==
  IF Hooked(p).running \/ setup.finishes
  THEN Executed(KindAt(p), Advance(Hooked(p)), input) ELSE Hooked(p)

\* What a block of each kind does.
LEMMA ExecutedIs ==
  ASSUME NEW e, NEW input
  PROVE  /\ Executed("read", e, input) = get_fuzz(e, 1, input)
         /\ Executed("wide", e, input) = get_fuzz(e, 2, input)
         /\ Executed("linear", e, input) = linear_mmio_model_handler(e)
         /\ Executed("crash", e, input) = ForcedCrash(e)
         /\ Executed("fault", e, input) = Refused(e)
         /\ Executed("quiet", e, input) = e
         /\ Executed("exit", e, input) = e
  BY Zenon DEF Executed

\* Block, as a function of the process.
LEMMA BlockIs ==
  ASSUME Block
  PROVE  /\ proc.running /\ proc' = Exec(proc, Given)
         /\ UNCHANGED <<setup, phase, parent, snapshot, afl, file, shmem, outcome>>
<1>1. ASSUME NEW kind, NEW done, BlockOf(kind, done), done = Executed(kind, Entered, Given)
      PROVE  /\ proc.running /\ proc' = Exec(proc, Given)
             /\ UNCHANGED <<setup, phase, parent, snapshot, afl, file, shmem, outcome>>
  BY <1>1 DEF BlockOf, Exec, Entered
<1>2. CASE QuietBlock
  BY <1>1, <1>2, ExecutedIs DEF QuietBlock
<1>3. CASE ExitAtBlock
  BY <1>1, <1>3, ExecutedIs DEF ExitAtBlock
<1>4. CASE ReadBlock
  BY <1>1, <1>4, ExecutedIs DEF ReadBlock
<1>5. CASE WideReadBlock
  BY <1>1, <1>5, ExecutedIs DEF WideReadBlock
<1>6. CASE LinearReadBlock
  BY <1>1, <1>6, ExecutedIs DEF LinearReadBlock
<1>7. CASE CrashBlock
  BY <1>1, <1>7, ExecutedIs DEF CrashBlock
<1>8. CASE FaultBlock
  BY <1>1, <1>8, ExecutedIs DEF FaultBlock
<1> QED
  BY <1>2, <1>3, <1>4, <1>5, <1>6, <1>7, <1>8 DEF Block

\* The process is at a block of the firmware.
LEMMA KindIs ==
  ASSUME NEW p, ProcOk(p), SetupOk
  PROVE  KindAt(p) \in Kinds /\ KindAt(p) \in Range(setup.code)
  BY DEF ProcOk, MachineOk, SetupOk, KindAt, Range

\* The function does to a process what Ran says.
LEMMA ExecRan ==
  ASSUME NEW p, ProcOk(p), SetupOk, NEW input
  PROVE  Ran(p, Exec(p, input), input)
<1> DEFINE h == Hooked(p)
           e == Advance(h)
           kind == KindAt(p)
           q == Executed(kind, e, input)
<1>1. HookKeeps(p, h) /\ EnteredKeeps(p, e) /\ kind \in Kinds /\ kind \in Range(setup.code)
  BY HookedIs, EnteredIs, KindIs
<1>2. Exec(p, input) = IF h.running \/ setup.finishes THEN q ELSE h
  BY DEF Exec
<1>3. CASE ~h.running /\ ~setup.finishes
  BY <1>1, <1>2, <1>3 DEF Ran
<1>4. kind = KindAt(p) /\ q = Executed(kind, e, input)
  OBVIOUS
<1> HIDE DEF kind, e, q
<1>5. ProcOk(e)
  BY <1>1 DEF EnteredKeeps
<1>6. Ran(p, q, input)
  <2>1. CASE kind \in {"quiet", "exit"}
    <3>1. Width(kind) = 0 /\ q = e
      BY <1>4, <2>1, ExecutedIs DEF Width
    <3>2. Keeps(e, e) /\ Otherwise(kind, e, e)
      BY <1>5, <2>1 DEF Keeps, SameInput, Otherwise
    <3> QED
      BY <1>1, <1>4, <3>1, <3>2 DEF Ran
  <2>2. CASE kind = "read"
    <3>1. Width(kind) = 1 /\ q = get_fuzz(e, 1, input)
      BY <1>4, <2>2, ExecutedIs DEF Width
    <3> QED
      BY <1>1, <1>4, <3>1 DEF Ran
  <2>3. CASE kind = "wide"
    <3>1. Width(kind) = 2 /\ q = get_fuzz(e, 2, input)
      BY <1>4, <2>3, ExecutedIs DEF Width
    <3> QED
      BY <1>1, <1>4, <3>1 DEF Ran
  <2>4. CASE kind = "linear"
    <3>1. Width(kind) = 0 /\ q = linear_mmio_model_handler(e) /\ ~NoLinear
      BY <1>1, <1>4, <2>4, ExecutedIs DEF Width, NoLinear
    <3>2. Keeps(e, q) /\ q.custom_exit_reason = e.custom_exit_reason
      BY <1>5, <3>1, LinearIs
    <3>3. Otherwise(kind, e, q)
      BY <2>4, <3>1, <3>2 DEF Otherwise
    <3> QED
      BY <1>1, <1>4, <3>1, <3>2, <3>3 DEF Ran
  <2>5. CASE kind = "crash"
    <3>1. Width(kind) = 0 /\ q = ForcedCrash(e)
      BY <1>4, <2>5, ExecutedIs DEF Width
    <3>2. Keeps(e, q) /\ Otherwise(kind, e, q)
      BY <1>5, <2>5, <3>1, CrashIs
    <3> QED
      BY <1>1, <1>4, <3>1, <3>2 DEF Ran
  <2>6. CASE kind = "fault"
    <3>1. Width(kind) = 0 /\ q = Refused(e)
      BY <1>4, <2>6, ExecutedIs DEF Width
    <3>2. Keeps(e, q) /\ Otherwise(kind, e, q)
      BY <1>5, <2>6, <3>1, RefusedIs
    <3> QED
      BY <1>1, <1>4, <3>1, <3>2 DEF Ran
  <2> QED
    BY <1>1, <2>1, <2>2, <2>3, <2>4, <2>5, <2>6 DEF Kinds
<1> QED
  BY <1>2, <1>3, <1>6

-----------------------------------------------------------------------------
(* emulate(): types. *)

Phases == {"discovery", "prefix", "ready", "run", "exited", "closed"}

TInv ==
  /\ SetupOk
  /\ phase \in Phases /\ afl \in Inputs \cup {NoInput} /\ file \in Inputs /\ shmem \in Seq(Byte)
  /\ ProcOk(proc) /\ ProcOk(parent) /\ MachineOk(snapshot)

\* TInv after a step, of the new values.
LEMMA TypesPrimed ==
  ASSUME setup' = setup, SetupOk, ProcOk(proc'), ProcOk(parent'), MachineOk(snapshot'),
         phase' \in Phases, afl' \in Inputs \cup {NoInput}, file' \in Inputs, shmem' \in Seq(Byte)
  PROVE  TInv'
<1>1. SetupOk'
  BY DEF SetupOk
<1>2. ProcOk(proc)' /\ ProcOk(parent)' /\ MachineOk(snapshot)'
  BY DEF ProcOk, MachineOk
<1> QED
  BY <1>1, <1>2 DEF TInv

\* TInv has the type invariant in it.
LEMMA Typed == TInv => TypeOK
<1> SUFFICES ASSUME TInv
             PROVE  TypeOK
  OBVIOUS
<1>1. /\ proc \in ProcType /\ MachineOk(proc.m) /\ proc.fuzz_cursor <= proc.fuzz_size
      /\ phase \in Phases /\ afl \in Inputs \cup {NoInput} /\ file \in Inputs
  BY DEF TInv, ProcOk
<1>2. /\ proc.fuzz_cursor \in Nat /\ proc.fuzz_size \in Nat
      /\ proc.custom_exit_reason \in {"ok", "crash"} /\ proc.err \in {"ok", "fault"}
  BY <1>1 DEF ProcType
<1> QED
  BY <1>1, <1>2 DEF TypeOK, Phases, MachineOk

\* A process after start-up, field by field.
LEMMA BootIs ==
  ASSUME SetupOk
  PROVE  /\ MachineOk(BootMachine) /\ ProcOk(Booted)
         /\ BootMachine.pc = 1 /\ BootMachine.log = <<>> /\ BootMachine.ticks = 0
         /\ BootMachine.last = 0 /\ Booted.custom_exit_reason = "ok"
         /\ BootMachine.limit = BootMachine.limitReload
         /\ Booted.m = BootMachine /\ Booted.fuzz_size = 0 /\ Booted.fuzz_cursor = 0
         /\ ~Booted.input_mode_SHM /\ ~Booted.input_already_given /\ ~Booted.duplicate_exit
         /\ ~Booted.is_discovery_child /\ Booted.report = NoReport /\ ~Booted.running
         /\ Booted.err = "ok" /\ ~Booted.exited
<1>1. Largest(BlockLimit) \in Nat \ {0}
  BY Constants DEF Largest
<1>2. 1 \in DOMAIN setup.code
  BY DEF SetupOk
<1>3. <<>> \in Seq(Cell)
  OBVIOUS
<1>4. BootMachine \in MachineType
  BY <1>1, <1>3, Constants DEF BootMachine, MachineType
<1>5. MachineOk(BootMachine)
  <2> DEFINE n == Largest(BlockLimit)
  <2>1. BootMachine.pc = 1 /\ BootMachine.watchdog = FuzzConsumptionTimeout
        /\ BootMachine.limit = n /\ BootMachine.limitReload = n
    BY DEF BootMachine
  <2>2. n \in 1 .. n
    BY <1>1
  <2> HIDE DEF n
  <2> QED
    BY <1>2, <1>4, <2>1, <2>2, Constants DEF MachineOk
<1>6. /\ Booted.m = BootMachine /\ Booted.fuzz_size = 0 /\ Booted.fuzz_cursor = 0
      /\ Booted.fuzz = <<>> /\ Booted.linear = 0 /\ Booted.custom_exit_reason = "ok"
      /\ ~Booted.input_mode_SHM /\ ~Booted.input_already_given /\ ~Booted.duplicate_exit
      /\ ~Booted.is_discovery_child /\ Booted.report = NoReport /\ ~Booted.running
      /\ Booted.err = "ok" /\ ~Booted.exited
  BY DEF Booted
<1>7. Booted \in ProcType
  BY <1>3, <1>4 DEF Booted, ProcType
<1>8. ProcOk(Booted)
  BY <1>5, <1>6, <1>7 DEF ProcOk
<1>9. /\ BootMachine.pc = 1 /\ BootMachine.log = <<>> /\ BootMachine.ticks = 0
      /\ BootMachine.last = 0
      /\ BootMachine.limit = BootMachine.limitReload
  BY DEF BootMachine
<1> QED
  BY <1>5, <1>6, <1>8, <1>9

\* The discovery child, as it is forked.
LEMMA ForkIs ==
  ASSUME Init
  PROVE  /\ proc \in ProcType /\ proc.m = parent.m /\ SameInput(parent, proc)
         /\ proc.is_discovery_child /\ proc.running /\ proc.report = parent.report
         /\ proc.exited = parent.exited /\ proc.duplicate_exit = parent.duplicate_exit
         /\ SetupOk /\ ProcOk(parent)
         /\ Loaded(Booted, parent, "prefix", setup.prefix)
         /\ ~parent.input_already_given
<1>1. SetupOk
  <2>1. PICK s \in Setups, m \in {"shm", "file", "single"}, f \in BOOLEAN :
               setup = [code |-> s.code, loop |-> s.loop, prefix |-> s.prefix,
                        mode |-> m, finishes |-> f]
    BY DEF Init
  <2> QED
    BY <2>1, ForkServerAssumption DEF SetupOk, Byte
<1>2. parent = load_fuzz(Booted, "prefix", setup.prefix) /\ setup.prefix \in Seq(Byte)
  BY <1>1 DEF Init, SetupOk
<1>3. /\ Loaded(Booted, parent, "prefix", setup.prefix)
      /\ parent.input_already_given = Booted.input_already_given
  BY <1>1, <1>2, BootIs, LoadIs
<1>4. ProcOk(parent) /\ parent \in ProcType
  BY <1>3 DEF Loaded, ProcOk
<1>5. proc = [parent EXCEPT !.is_discovery_child = TRUE, !.running = TRUE]
  BY DEF Init
<1>6. /\ proc \in ProcType /\ proc.m = parent.m /\ SameInput(parent, proc)
      /\ proc.is_discovery_child /\ proc.running /\ proc.report = parent.report
      /\ proc.exited = parent.exited /\ proc.duplicate_exit = parent.duplicate_exit
  BY <1>4, <1>5 DEF ProcType, SameInput
<1> QED
  BY <1>1, <1>3, <1>4, <1>6, BootIs

\* Types hold in the beginning.
LEMMA InitTyped == Init => TInv
<1> SUFFICES ASSUME Init
             PROVE  TInv
  OBVIOUS
<1>1. /\ proc \in ProcType /\ proc.m = parent.m /\ SameInput(parent, proc)
      /\ SetupOk /\ ProcOk(parent)
  BY ForkIs
<1>2. ProcOk(proc)
  BY <1>1 DEF ProcOk, SameInput
<1>3. MachineOk(snapshot) /\ phase \in Phases /\ afl \in Inputs \cup {NoInput}
      /\ file \in Inputs /\ shmem \in Seq(Byte)
  BY <1>1, BootIs DEF Init, Phases
<1> QED
  BY <1>1, <1>2, <1>3 DEF TInv

\* A new value in the block limit's timer.
LEMMA SetLimitIs ==
  ASSUME NEW m, MachineOk(m), NEW v \in Nat
  PROVE  LET e == SetLimit(m, v) IN
         /\ MachineOk(e) /\ e.pc = m.pc /\ e.log = m.log /\ e.ticks = m.ticks /\ e.last = m.last
         /\ m.limit = m.limitReload => e.limit = Largest(v)
<1> DEFINE r == Largest(v)
           x == [m EXCEPT !.limitReload = r, !.limit = r]
<1>1. SetLimit(m, v) = IF m.limitReload = r THEN m ELSE x
  BY DEF SetLimit
<1>2. r \in Nat \ {0}
  BY Constants DEF Largest
<1>3. m \in MachineType
  BY DEF MachineOk
<1> HIDE DEF r
<1>4. /\ x \in MachineType /\ x.pc = m.pc /\ x.log = m.log /\ x.ticks = m.ticks
      /\ x.last = m.last
      /\ x.watchdog = m.watchdog /\ x.limit = r /\ x.limitReload = r
  BY <1>2, <1>3 DEF MachineType
<1> HIDE DEF x
<1>5. MachineOk(x)
  BY <1>2, <1>4 DEF MachineOk
<1> QED
  BY <1>1, <1>4, <1>5 DEF r

\* The machine and the other fields of the process that goes on after the prefix.
Resumed(p, b) ==
  [p EXCEPT !.m = SetLimit(p.m, BlockLimit), !.input_mode_SHM = b, !.duplicate_exit = FALSE]
GoesOn(p, b) == [Resumed(p, b) EXCEPT !.running = TRUE]
Waits(p, b) == [Resumed(p, b) EXCEPT !.input_already_given = FALSE]

\* The process that goes on after the prefix, field by field.
LEMMA ResumedIs ==
  ASSUME NEW p, ProcOk(p), NEW b \in BOOLEAN
  PROVE  LET m == SetLimit(p.m, BlockLimit)
             r == GoesOn(p, b)
             s == Waits(p, b)
         IN  /\ MachineOk(m) /\ m.log = p.m.log /\ m.last = p.m.last
             /\ \A x \in {r, s} :
                  /\ ProcOk(x) /\ x.m = m /\ x.fuzz = p.fuzz /\ x.fuzz_size = p.fuzz_size
                  /\ x.fuzz_cursor = p.fuzz_cursor /\ x.input_mode_SHM = b
                  /\ x.is_discovery_child = p.is_discovery_child /\ x.exited = p.exited
                  /\ x.custom_exit_reason = p.custom_exit_reason /\ ~x.duplicate_exit
             /\ r.input_already_given = p.input_already_given
             /\ ~s.input_already_given /\ s.running = p.running
<1> DEFINE m == SetLimit(p.m, BlockLimit)
           q == [p EXCEPT !.m = m, !.input_mode_SHM = b, !.duplicate_exit = FALSE]
           r == [q EXCEPT !.running = TRUE]
           s == [q EXCEPT !.input_already_given = FALSE]
<1>1. p \in ProcType /\ MachineOk(p.m) /\ p.fuzz_cursor <= p.fuzz_size
  BY DEF ProcOk
<1>2. MachineOk(m) /\ m.log = p.m.log /\ m.last = p.m.last /\ m \in MachineType
  BY <1>1, Constants, SetLimitIs DEF MachineOk
<1> HIDE DEF m
<1>3. q \in ProcType
  BY <1>1, <1>2 DEF ProcType
<1>4. /\ q.m = m /\ q.fuzz = p.fuzz /\ q.fuzz_size = p.fuzz_size
      /\ q.fuzz_cursor = p.fuzz_cursor /\ q.input_mode_SHM = b
      /\ q.is_discovery_child = p.is_discovery_child /\ q.exited = p.exited
      /\ q.custom_exit_reason = p.custom_exit_reason /\ ~q.duplicate_exit
      /\ q.input_already_given = p.input_already_given /\ q.running = p.running
  BY <1>1 DEF ProcType
<1> HIDE DEF q
<1>5. /\ r \in ProcType /\ r.m = q.m /\ r.fuzz = q.fuzz /\ r.fuzz_size = q.fuzz_size
      /\ r.fuzz_cursor = q.fuzz_cursor /\ r.input_mode_SHM = q.input_mode_SHM
      /\ r.is_discovery_child = q.is_discovery_child /\ r.exited = q.exited
      /\ r.custom_exit_reason = q.custom_exit_reason /\ r.duplicate_exit = q.duplicate_exit
      /\ r.input_already_given = q.input_already_given
  BY <1>3 DEF ProcType
<1>6. /\ s \in ProcType /\ s.m = q.m /\ s.fuzz = q.fuzz /\ s.fuzz_size = q.fuzz_size
      /\ s.fuzz_cursor = q.fuzz_cursor /\ s.input_mode_SHM = q.input_mode_SHM
      /\ s.is_discovery_child = q.is_discovery_child /\ s.exited = q.exited
      /\ s.custom_exit_reason = q.custom_exit_reason /\ s.duplicate_exit = q.duplicate_exit
      /\ ~s.input_already_given /\ s.running = q.running
  BY <1>3 DEF ProcType
<1> HIDE DEF r, s
<1>7. ProcOk(r) /\ ProcOk(s)
  BY <1>1, <1>2, <1>4, <1>5, <1>6 DEF ProcOk
<1>8. /\ MachineOk(m) /\ m.log = p.m.log /\ m.last = p.m.last
      /\ \A x \in {r, s} :
           /\ ProcOk(x) /\ x.m = m /\ x.fuzz = p.fuzz /\ x.fuzz_size = p.fuzz_size
           /\ x.fuzz_cursor = p.fuzz_cursor /\ x.input_mode_SHM = b
           /\ x.is_discovery_child = p.is_discovery_child /\ x.exited = p.exited
           /\ x.custom_exit_reason = p.custom_exit_reason /\ ~x.duplicate_exit
      /\ r.input_already_given = p.input_already_given
      /\ ~s.input_already_given /\ s.running = p.running
  BY <1>2, <1>4, <1>5, <1>6, <1>7
<1> QED
  BY <1>8 DEF r, s, q, m, Resumed, GoesOn, Waits

\* A process after restore_snapshot, field by field.
LEMMA RestoredIs ==
  ASSUME NEW p, ProcOk(p), MachineOk(snapshot)
  PROVE  LET q == restore_snapshot(p) IN
         /\ ProcOk(q) /\ q.m = snapshot /\ q.fuzz = p.fuzz /\ q.fuzz_size = p.fuzz_size
         /\ q.fuzz_cursor = p.fuzz_size /\ ~q.input_already_given
         /\ q.input_mode_SHM = p.input_mode_SHM
         /\ q.is_discovery_child = p.is_discovery_child /\ q.exited = p.exited
         /\ q.running = p.running /\ q.custom_exit_reason = "ok" /\ ~q.duplicate_exit
<1> DEFINE c == p.fuzz_size
           q == [p EXCEPT !.m = snapshot, !.fuzz_cursor = c, !.input_already_given = FALSE,
                          !.duplicate_exit = FALSE, !.custom_exit_reason = "ok"]
<1>1. restore_snapshot(p) = q
  BY DEF restore_snapshot
<1>2. p \in ProcType /\ snapshot \in MachineType /\ c \in Nat /\ c <= c
  BY DEF ProcOk, MachineOk, ProcType
<1>3. c = p.fuzz_size
  OBVIOUS
<1> HIDE DEF c
<1>4. q \in ProcType
  BY <1>2 DEF ProcType
<1>5. /\ q.m = snapshot /\ q.fuzz = p.fuzz /\ q.fuzz_size = p.fuzz_size
      /\ q.fuzz_cursor = c /\ ~q.input_already_given
      /\ q.input_mode_SHM = p.input_mode_SHM
      /\ q.is_discovery_child = p.is_discovery_child /\ q.exited = p.exited
      /\ q.running = p.running /\ q.custom_exit_reason = "ok" /\ ~q.duplicate_exit
  BY <1>2 DEF ProcType
<1> HIDE DEF q
<1> QED
  BY <1>1, <1>2, <1>3, <1>4, <1>5 DEF ProcOk

\* The parent, when it executes the prefix under a block limit.
LEMMA PrefixIs ==
  ASSUME NEW p, ProcOk(p), NEW v \in Nat
  PROVE  LET q == [p EXCEPT !.m = SetLimit(@, v), !.running = TRUE] IN
         /\ ProcOk(q) /\ q.m = SetLimit(p.m, v) /\ SameInput(p, q) /\ SameRole(p, q)
         /\ q.duplicate_exit = p.duplicate_exit
         /\ q.custom_exit_reason = p.custom_exit_reason
<1> DEFINE m == SetLimit(p.m, v)
           q == [p EXCEPT !.m = m, !.running = TRUE]
<1>1. p \in ProcType /\ MachineOk(p.m) /\ p.fuzz_cursor <= p.fuzz_size
  BY DEF ProcOk
<1>2. MachineOk(m) /\ m \in MachineType
  BY <1>1, SetLimitIs DEF MachineOk
<1>3. m = SetLimit(p.m, v) /\ q = [p EXCEPT !.m = SetLimit(@, v), !.running = TRUE]
  OBVIOUS
<1> HIDE DEF m
<1>4. q \in ProcType
  BY <1>1, <1>2 DEF ProcType
<1>5. /\ q.m = m /\ SameInput(p, q) /\ SameRole(p, q)
      /\ q.duplicate_exit = p.duplicate_exit
      /\ q.custom_exit_reason = p.custom_exit_reason
  BY <1>1 DEF ProcType, SameInput, SameRole
<1> HIDE DEF q
<1>6. ProcOk(q)
  BY <1>1, <1>2, <1>4, <1>5 DEF ProcOk, SameInput
<1> QED
  BY <1>3, <1>5, <1>6

\* A process when a run starts, field by field.
LEMMA StartedIs ==
  ASSUME NEW p, ProcOk(p)
  PROVE  LET q == [p EXCEPT !.running = TRUE, !.err = "ok"] IN
         /\ ProcOk(q) /\ q.m = p.m /\ SameInput(p, q)
         /\ q.is_discovery_child = p.is_discovery_child /\ q.exited = p.exited
         /\ q.running /\ q.err = "ok" /\ q.duplicate_exit = p.duplicate_exit
         /\ q.custom_exit_reason = p.custom_exit_reason
<1> DEFINE q == [p EXCEPT !.running = TRUE, !.err = "ok"]
<1>1. p \in ProcType /\ MachineOk(p.m) /\ p.fuzz_cursor <= p.fuzz_size
  BY DEF ProcOk
<1>2. q \in ProcType
  BY <1>1 DEF ProcType
<1>3. /\ q.m = p.m /\ SameInput(p, q)
      /\ q.is_discovery_child = p.is_discovery_child /\ q.exited = p.exited
      /\ q.running /\ q.err = "ok" /\ q.duplicate_exit = p.duplicate_exit
      /\ q.custom_exit_reason = p.custom_exit_reason
  BY <1>1 DEF ProcType, SameInput
<1> HIDE DEF q
<1>4. ProcOk(q)
  BY <1>1, <1>2, <1>3 DEF ProcOk, SameInput
<1> QED
  BY <1>3, <1>4 DEF q

\* A block keeps the types.
LEMMA RanTyped ==
  ASSUME NEW p, ProcOk(p), NEW q, NEW input \in Seq(Byte), Ran(p, q, input)
  PROVE  ProcOk(q)
<1>1. CASE HookKeeps(p, q)
  BY <1>1 DEF HookKeeps
<1>2. CASE \E e : Keeps(e, q)
  BY <1>2 DEF Keeps
<1>3. CASE /\ Width(KindAt(p)) > 0
           /\ \E e : EnteredKeeps(p, e) /\ q = get_fuzz(e, Width(KindAt(p)), input)
  <2>1. PICK e : EnteredKeeps(p, e) /\ q = get_fuzz(e, Width(KindAt(p)), input)
    BY <1>3
  <2> DEFINE size == Width(KindAt(p))
             r == IF NoLoad(e, size) THEN e ELSE load_delayed_input(e, input)
  <2>2. size \in {1, 2} /\ ProcOk(e)
    BY <1>3, <2>1 DEF Width, EnteredKeeps
  <2>3. ProcOk(r) /\ Served(r, q, size, input)
    <3> HIDE DEF size
    <3>1. q = get_fuzz(e, size, input)
      BY <2>1 DEF size
    <3> QED
      BY <2>2, <3>1, GetIs
  <2> HIDE DEF r, size
  <2>4. r.exited \in BOOLEAN /\ Enough(r, size) \in BOOLEAN
    BY <2>3 DEF ProcOk, ProcType, Enough
  <2> QED
    BY <2>3, <2>4 DEF Served, Consumed
<1> QED
  BY <1>1, <1>2, <1>3 DEF Ran

\* The input is a sequence of bytes.
LEMMA GivenTyped == TInv => Given \in Seq(Byte)
  BY Constants DEF Given, TInv

\* Every step keeps the types.
LEMMA StepTyped == TInv /\ [Next]_vars => TInv'
<1> SUFFICES ASSUME TInv, [Next]_vars
             PROVE  TInv'
  OBVIOUS
<1>1. /\ SetupOk /\ phase \in Phases /\ afl \in Inputs \cup {NoInput} /\ file \in Inputs
      /\ shmem \in Seq(Byte) /\ ProcOk(proc) /\ ProcOk(parent) /\ MachineOk(snapshot)
  BY DEF TInv
<1>2. CASE Block
  <2>1. /\ Ran(proc, proc', Given)
        /\ UNCHANGED <<setup, phase, parent, snapshot, afl, file, shmem, outcome>>
    BY <1>1, <1>2, BlockIs, ExecRan
  <2>2. ProcOk(proc')
    BY <1>1, <2>1, RanTyped, GivenTyped
  <2> QED
    BY <1>1, <2>1, <2>2, TypesPrimed
<1>3. CASE RunPrefix
  <2>1. /\ UNCHANGED <<setup, parent, snapshot, afl, file, shmem, outcome>>
        /\ phase' = "prefix" /\ proc.report # NoReport
        /\ proc' = IF proc.report > 2
                   THEN [parent EXCEPT !.m = SetLimit(@, PrefixTicks(proc.report)),
                                       !.running = TRUE]
                   ELSE parent
    BY <1>3 DEF RunPrefix
  <2>2. proc.report \in Nat
    BY <1>1, <2>1 DEF ProcOk, ProcType
  <2>3. ProcOk(proc')
    <3>1. CASE proc.report > 2
      <4>1. PrefixTicks(proc.report) \in Nat
        BY <2>2, <3>1 DEF PrefixTicks
      <4> QED
        BY <1>1, <2>1, <3>1, <4>1, PrefixIs
    <3>2. CASE ~(proc.report > 2)
      BY <1>1, <2>1, <3>2
    <3> QED
      BY <3>1, <3>2
  <2> QED
    BY <1>1, <2>1, <2>3, TypesPrimed DEF Phases
<1>4. CASE DiscoveryFails \/ Exits \/ AflCloses
  <2>1. /\ UNCHANGED <<setup, proc, parent, snapshot, afl, file, shmem, outcome>>
        /\ phase' \in {"exited", "closed"}
    BY <1>4 DEF DiscoveryFails, Exits, AflCloses
  <2> QED
    BY <1>1, <2>1, TypesPrimed DEF Phases
<1>5. CASE TakeSnapshot
  <2> DEFINE b == setup.mode = "shm"
             m == SetLimit(proc.m, BlockLimit)
             r == GoesOn(proc, b)
             s == Waits(proc, b)
  <2>1. /\ UNCHANGED <<setup, parent, afl, file, shmem, outcome>>
        /\ phase' \in Phases /\ proc' \in {r, s} /\ snapshot' \in {m, snapshot}
    BY <1>5 DEF TakeSnapshot, Phases, Resumed, GoesOn, Waits
  <2>2. MachineOk(m) /\ \A x \in {r, s} : ProcOk(x)
    <3>1. b \in BOOLEAN
      OBVIOUS
    <3> HIDE DEF b
    <3> QED
      BY <1>1, <3>1, ResumedIs
  <2> HIDE DEF m, r, s
  <2>3. ProcOk(proc') /\ MachineOk(snapshot')
    BY <1>1, <2>1, <2>2
  <2> QED
    BY <1>1, <2>1, <2>3, TypesPrimed
<1>6. CASE StartRun
  <2>1. /\ UNCHANGED <<setup, parent, snapshot, afl, file, shmem, outcome>>
        /\ phase' = "run" /\ proc' = [proc EXCEPT !.running = TRUE, !.err = "ok"]
    BY <1>6 DEF StartRun
  <2>2. ProcOk(proc')
    BY <1>1, <2>1, StartedIs
  <2> QED
    BY <1>1, <2>1, <2>2, TypesPrimed DEF Phases
<1>7. CASE EndRun
  <2>1. /\ UNCHANGED <<setup, parent, snapshot, file, shmem>> /\ afl' = NoInput
        /\ phase' \in Phases /\ proc' \in {proc, restore_snapshot(proc)}
    BY <1>7 DEF EndRun, Phases
  <2>2. ProcOk(restore_snapshot(proc))
    BY <1>1, RestoredIs
  <2>3. ProcOk(proc')
    BY <1>1, <2>1, <2>2
  <2> QED
    BY <1>1, <2>1, <2>3, TypesPrimed
<1>8. CASE \E i \in Inputs : AflAsks(i)
  <2>1. PICK i \in Inputs : AflAsks(i)
    BY <1>8
  <2>2. /\ UNCHANGED <<setup, phase, proc, parent, snapshot, outcome>>
        /\ afl' = i /\ file' \in {i, file} /\ shmem' \in {i, shmem}
    BY <2>1 DEF AflAsks
  <2>3. i \in Seq(Byte)
    BY Constants
  <2> QED
    BY <1>1, <2>2, <2>3, TypesPrimed
<1>9. CASE UNCHANGED vars
  BY <1>1, <1>9, TypesPrimed DEF vars
<1> QED
  BY <1>2, <1>3, <1>4, <1>5, <1>6, <1>7, <1>8, <1>9 DEF Next, Server

(* The process that emulates stays within its buffers and timers: the      *)
(* cursor within the input (get_fuzz, load_fuzz, restore_snapshot), the    *)
(* watchdog and the block limit between their reloads (timer_tick), the    *)
(* program counter within the firmware.                                    *)
THEOREM TypeCorrect == Spec => []TypeOK
<1>1. Spec => []TInv
  BY InitTyped, StepTyped, PTL DEF Spec
<1> QED
  BY <1>1, Typed, PTL

-----------------------------------------------------------------------------
(* Discovery and the prefix: the child and then the parent walk the same   *)
(* path through the firmware, a[k] the block and u[k] the cursor after k   *)
(* blocks.                                                                 *)

\* The value read last when c bytes of the prefix input are read.
ByteAt(c) == IF c = 0 THEN 0 ELSE setup.prefix[c]

\* No block of the path crashes.
Path(a, u, n) ==
  /\ a[0] = 1 /\ u[0] = 0
  /\ \A k \in 0 .. n : a[k] \in Nat /\ u[k] \in 0 .. Len(setup.prefix)
  /\ \A k \in 0 .. n - 1 :
       /\ a[k + 1] = NextAt(a[k]) /\ u[k + 1] = u[k] + Width(setup.code[a[k]])
       /\ NoLinear /\ setup.code[a[k]] = "crash" => ByteAt(u[k]) # 1

AtStep(p, a, u, k) == p.m.pc = a[k] /\ p.fuzz_cursor = u[k]

\* The process reads the prefix input, and has read nothing else.
OwnPrefix(p) ==
  /\ ~p.input_mode_SHM /\ ~p.input_already_given /\ ~p.exited
  /\ p.fuzz = Cells("prefix", setup.prefix) /\ p.fuzz_size = Len(setup.prefix)
  /\ Len(p.m.log) = p.fuzz_cursor
  /\ \A i \in 1 .. p.fuzz_cursor : p.m.log[i] = p.fuzz[i]
  /\ NoLinear => p.m.last = ByteAt(p.fuzz_cursor)

\* The child after n blocks; n + 1 is the block in which it needs more than the prefix input.
ChildOn(n, a, u) ==
  /\ Path(a, u, n)
  /\ \/ proc.report = NoReport /\ (proc.running => proc.m.ticks = n /\ AtStep(proc, a, u, n)
                                                    /\ ~proc.duplicate_exit)
     \/ proc.report = n + 1 /\ ~proc.running

Forked(p) ==
  /\ OwnPrefix(p) /\ p.m = BootMachine /\ p.fuzz_cursor = 0
  /\ ~p.is_discovery_child /\ ~p.duplicate_exit /\ ~p.running
  /\ p.custom_exit_reason = "ok"

ChildInv ==
  phase = "discovery" =>
    /\ proc.is_discovery_child /\ OwnPrefix(proc) /\ Forked(parent)
    /\ \E n \in Nat : \E a, u : ChildOn(n, a, u)

\* The parent after k blocks of the prefix: the block limit stops it a block early.
ParentOn(n, k, a, u) == Path(a, u, n) /\ AtStep(proc, a, u, k) /\ k + proc.m.limit = n - 1

PrefixInv ==
  phase = "prefix" =>
    /\ ~proc.is_discovery_child /\ OwnPrefix(proc)
    /\ NoLinear => proc.custom_exit_reason = "ok"
    /\ proc.running => /\ ~proc.duplicate_exit
                       /\ \E n \in Nat, k \in Nat : \E a, u : ParentOn(n, k, a, u)

\* A path with one block more.
LEMMA PathGrows ==
  ASSUME SetupOk, NEW n \in Nat, NEW a, NEW u, Path(a, u, n), a[n] \in DOMAIN setup.code,
         u[n] + Width(setup.code[a[n]]) <= Len(setup.prefix),
         NoLinear /\ setup.code[a[n]] = "crash" => ByteAt(u[n]) # 1
  PROVE  \E b, v : /\ Path(b, v, n + 1) /\ b[n + 1] = NextAt(a[n])
                   /\ v[n + 1] = u[n] + Width(setup.code[a[n]])
<1> DEFINE c == NextAt(a[n])
           w == u[n] + Width(setup.code[a[n]])
           b == [k \in 0 .. n + 1 |-> IF k <= n THEN a[k] ELSE c]
           v == [k \in 0 .. n + 1 |-> IF k <= n THEN u[k] ELSE w]
<1>1. Width(setup.code[a[n]]) \in Nat
  BY DEF Width
<1>2. setup.code \in Seq(Kinds) /\ setup.loop \in Nat /\ setup.prefix \in Seq(Byte)
  BY DEF SetupOk
<1>3. c \in Nat /\ w \in 0 .. Len(setup.prefix)
  BY <1>1, <1>2 DEF NextAt, Path
<1>4. c = NextAt(a[n]) /\ w = u[n] + Width(setup.code[a[n]])
  OBVIOUS
<1> HIDE DEF c, w
<1>5. /\ \A k \in 0 .. n : b[k] = a[k] /\ v[k] = u[k]
      /\ b[n + 1] = c /\ v[n + 1] = w
  OBVIOUS
<1> HIDE DEF b, v
<1>6. ASSUME NEW k \in 0 .. n + 1
      PROVE  b[k] \in Nat /\ v[k] \in 0 .. Len(setup.prefix)
  <2>1. CASE k \in 0 .. n
    BY <1>5, <2>1 DEF Path
  <2>2. CASE k = n + 1
    BY <1>3, <1>5, <2>2
  <2> QED
    BY <2>1, <2>2
<1>7. ASSUME NEW k \in 0 .. (n + 1) - 1
      PROVE  /\ b[k + 1] = NextAt(b[k]) /\ v[k + 1] = v[k] + Width(setup.code[b[k]])
             /\ NoLinear /\ setup.code[b[k]] = "crash" => ByteAt(v[k]) # 1
  <2>1. CASE k = n
    BY <1>4, <1>5, <2>1
  <2>2. CASE k # n
    <3>1. k \in 0 .. n - 1 /\ k + 1 \in 0 .. n /\ k \in 0 .. n
      BY <2>2
    <3>2. /\ a[k + 1] = NextAt(a[k]) /\ u[k + 1] = u[k] + Width(setup.code[a[k]])
          /\ NoLinear /\ setup.code[a[k]] = "crash" => ByteAt(u[k]) # 1
      BY <3>1 DEF Path
    <3>3. b[k] = a[k] /\ b[k + 1] = a[k + 1] /\ v[k] = u[k] /\ v[k + 1] = u[k + 1]
      BY <1>5, <3>1
    <3> QED
      BY <3>2, <3>3
  <2> QED
    BY <2>1, <2>2
<1>8. b[0] = 1 /\ v[0] = 0
  BY <1>5 DEF Path
<1>9. Path(b, v, n + 1)
  BY <1>6, <1>7, <1>8 DEF Path
<1> QED
  BY <1>4, <1>5, <1>9

\* A read that the prefix input has bytes for.
LEMMA OwnRead ==
  ASSUME SetupOk, NEW p, ProcOk(p), OwnPrefix(p), NEW size \in {1, 2}, NEW input \in Seq(Byte),
         Enough(p, size)
  PROVE  LET q == get_fuzz(p, size, input) IN
         OwnPrefix(q) /\ Consumed(p, q, size, input)
<1> DEFINE q == get_fuzz(p, size, input)
<1>1. NoLoad(p, size)
  BY DEF NoLoad
<1>2. Served(p, q, size, input)
  BY <1>1, GetIs
<1> HIDE DEF q
<1>3. Consumed(p, q, size, input)
  BY <1>2 DEF Served, OwnPrefix
<1>4. p.fuzz_cursor \in Nat /\ p \in ProcType /\ Len(p.fuzz) = Len(setup.prefix) /\ p.fuzz_size \in Nat
  <2>1. setup.prefix \in Seq(Byte)
    BY DEF SetupOk
  <2> QED
    BY <2>1, CellsAre DEF OwnPrefix, ProcOk, ProcType
<1>5. ASSUME NEW i \in 1 .. q.fuzz_cursor
      PROVE  q.m.log[i] = q.fuzz[i]
  <2>1. q.fuzz = p.fuzz /\ q.fuzz_cursor = p.fuzz_cursor + size /\ Len(p.m.log) = p.fuzz_cursor
    BY <1>3 DEF Consumed, OwnPrefix
  <2>2. CASE i <= p.fuzz_cursor
    BY <1>3, <1>4, <2>1, <2>2 DEF Consumed, Appended, OwnPrefix
  <2>3. CASE i > p.fuzz_cursor
    <3> DEFINE j == i - p.fuzz_cursor
    <3>1. j \in 1 .. size /\ p.fuzz_cursor + j = i /\ i \in 1 .. Len(p.fuzz)
      BY <1>4, <2>1, <2>3 DEF Enough, OwnPrefix
    <3> HIDE DEF j
    <3>2. q.m.log[i] = FuzzAt(p, input, i)
      BY <1>3, <2>1, <3>1 DEF Consumed, Appended
    <3>3. FuzzAt(p, input, i) = p.fuzz[i]
      BY <1>4, <3>1, FuzzIs DEF OwnPrefix
    <3> QED
      BY <2>1, <3>2, <3>3
  <2> QED
    BY <1>4, <2>1, <2>2, <2>3
<1>55. q.m.last = ByteAt(q.fuzz_cursor)
  <2> DEFINE c == p.fuzz_cursor + size
  <2>1. q.fuzz_cursor = c /\ q.m.last = FuzzAt(p, input, c).val
    BY <1>3 DEF Consumed
  <2>2. c \in 1 .. Len(setup.prefix) /\ c \in 1 .. Len(p.fuzz) /\ c # 0
    BY <1>4 DEF Enough, OwnPrefix
  <2> HIDE DEF c
  <2>3. FuzzAt(p, input, c) = p.fuzz[c]
    BY <1>4, <2>2, FuzzIs DEF OwnPrefix
  <2>4. p.fuzz[c] = [src |-> "prefix", at |-> c, val |-> setup.prefix[c]]
    <3>1. setup.prefix \in Seq(Byte) /\ p.fuzz = Cells("prefix", setup.prefix)
      BY DEF SetupOk, OwnPrefix
    <3> QED
      BY <2>2, <3>1, CellsAre
  <2>5. FuzzAt(p, input, c).val = setup.prefix[c]
    BY <2>3, <2>4
  <2> QED
    BY <2>1, <2>2, <2>5 DEF ByteAt
<1>6. OwnPrefix(q)
  BY <1>3, <1>5, <1>55 DEF Consumed, OwnPrefix, SameRole, Appended
<1> QED
  BY <1>3, <1>6 DEF q

\* One more block for a process whose prefix input suffices.
StepsOn(p, q) ==
  /\ q.m.pc = NextAt(p.m.pc)
  /\ q.fuzz_cursor = p.fuzz_cursor + Width(KindAt(p))
  /\ q.m.ticks = IF p.is_discovery_child THEN p.m.ticks + 1 ELSE p.m.ticks
  /\ BlockLimit > 0 => q.m.limit = IF p.m.limit = 1 THEN p.m.limitReload ELSE p.m.limit - 1
  /\ ~p.duplicate_exit => ~q.duplicate_exit /\ ~(BlockLimit > 0 /\ p.m.limit = 1)
  /\ NoLinear /\ ~p.duplicate_exit /\ KindAt(p) = "crash" => ByteAt(p.fuzz_cursor) # 1

\* There is no reason to exit but what the block has read.
ReasonKept(p, q) ==
  p.custom_exit_reason = "ok" /\ (KindAt(p) = "crash" => ByteAt(p.fuzz_cursor) # 1)
    => q.custom_exit_reason = "ok"

\* A process that reads nothing keeps what it has read.
LEMMA OwnKept ==
  ASSUME NEW p, OwnPrefix(p), NEW q, SameInput(p, q), q.exited = p.exited, q.m.log = p.m.log,
         NoLinear => q.m.last = p.m.last
  PROVE  OwnPrefix(q)
  BY DEF OwnPrefix, SameInput

\* A block for which the prefix input suffices: it reads that, and leads one block on.
LEMMA RanInPrefix ==
  ASSUME SetupOk, NEW p, ProcOk(p), OwnPrefix(p), NEW q, NEW input \in Seq(Byte),
         Ran(p, q, input), Enough(p, Width(KindAt(p)))
  PROVE  /\ OwnPrefix(q) /\ q.is_discovery_child = p.is_discovery_child /\ q.report = p.report
         /\ q.running => StepsOn(p, q)
         /\ NoLinear => ReasonKept(p, q)
<1>1. CASE HookKeeps(p, q) /\ ~q.running
  BY <1>1, OwnKept DEF HookKeeps, SameRole, Unstopped, ReasonKept
<1>2. CASE /\ Width(KindAt(p)) = 0
           /\ \E e : EnteredKeeps(p, e) /\ Keeps(e, q) /\ Otherwise(KindAt(p), e, q)
  <2>1. PICK e : EnteredKeeps(p, e) /\ Keeps(e, q) /\ Otherwise(KindAt(p), e, q)
    BY <1>2
  <2>2. OwnPrefix(e)
    BY <2>1, OwnKept DEF EnteredKeeps, SameRole
  <2>3. OwnPrefix(q)
    BY <2>1, <2>2, OwnKept DEF Keeps, Otherwise
  <2>5. NoLinear => e.m.last = ByteAt(p.fuzz_cursor)
    BY <2>1 DEF EnteredKeeps, OwnPrefix
  <2>4. ASSUME q.running
        PROVE  StepsOn(p, q)
    <3>1. e.running /\ q.duplicate_exit = e.duplicate_exit
      BY <2>1, <2>4 DEF Keeps
    <3>2. p.fuzz_cursor \in Nat /\ q.fuzz_cursor = p.fuzz_cursor
      BY <2>1 DEF Keeps, EnteredKeeps, SameInput, ProcOk, ProcType
    <3> QED
      <4>1. /\ q.m.pc = NextAt(p.m.pc)
            /\ q.m.ticks = IF p.is_discovery_child THEN p.m.ticks + 1 ELSE p.m.ticks
            /\ BlockLimit > 0 =>
                 q.m.limit = IF p.m.limit = 1 THEN p.m.limitReload ELSE p.m.limit - 1
        BY <2>1 DEF EnteredKeeps, Keeps
      <4>2. ~p.duplicate_exit => ~q.duplicate_exit /\ ~(BlockLimit > 0 /\ p.m.limit = 1)
        BY <2>1, <3>1 DEF EnteredKeeps, Unstopped
      <4>3. q.fuzz_cursor = p.fuzz_cursor + Width(KindAt(p))
        BY <1>2, <3>2
      <4>4. NoLinear /\ ~p.duplicate_exit /\ KindAt(p) = "crash" => ByteAt(p.fuzz_cursor) # 1
        BY <2>1, <2>4, <2>5, <3>1 DEF EnteredKeeps, Otherwise, Unstopped
      <4> QED
        BY <4>1, <4>2, <4>3, <4>4 DEF StepsOn
  <2>6. NoLinear => ReasonKept(p, q)
    BY <2>1, <2>5 DEF EnteredKeeps, Otherwise, ReasonKept
  <2> QED
    BY <2>1, <2>3, <2>4, <2>6 DEF EnteredKeeps, Keeps, SameRole
<1>3. CASE /\ Width(KindAt(p)) > 0
           /\ \E e : EnteredKeeps(p, e) /\ q = get_fuzz(e, Width(KindAt(p)), input)
  <2> DEFINE size == Width(KindAt(p))
  <2>1. PICK e : EnteredKeeps(p, e) /\ q = get_fuzz(e, size, input)
    BY <1>3
  <2>2. size \in {1, 2}
    BY <1>3 DEF Width
  <2>3. ProcOk(e) /\ Enough(e, size) /\ OwnPrefix(e)
    BY <2>1, OwnKept DEF EnteredKeeps, SameRole, SameInput, Enough
  <2>4. size = Width(KindAt(p))
    OBVIOUS
  <2> HIDE DEF size
  <2>5. OwnPrefix(q) /\ Consumed(e, q, size, input)
    BY <2>1, <2>2, <2>3, OwnRead
  <2>6. ASSUME q.running
        PROVE  StepsOn(p, q)
    <3>1. e.running /\ q.duplicate_exit = e.duplicate_exit
      BY <2>5, <2>6 DEF Consumed, Unstopped
    <3>2. KindAt(p) # "crash"
      BY <1>3 DEF Width
    <3> QED
      BY <2>1, <2>4, <2>5, <3>1, <3>2 DEF EnteredKeeps, Consumed, SameInput, Unstopped, StepsOn
  <2>7. ReasonKept(p, q)
    BY <2>1, <2>5 DEF EnteredKeeps, Consumed, Unstopped, ReasonKept
  <2> QED
    BY <2>1, <2>5, <2>6, <2>7 DEF EnteredKeeps, Consumed, SameRole
<1> QED
  BY <1>1, <1>2, <1>3 DEF Ran

\* The child in the block that needs more input.
LEMMA RanShort ==
  ASSUME SetupOk, NEW p, ProcOk(p), OwnPrefix(p), p.is_discovery_child, NEW q,
         NEW input \in Seq(Byte), Ran(p, q, input), ~Enough(p, Width(KindAt(p)))
  PROVE  /\ OwnPrefix(q) /\ q.is_discovery_child /\ ~q.running
         /\ q.report = p.report \/ q.report = p.m.ticks + 1
<1>1. CASE HookKeeps(p, q) /\ ~q.running
  BY <1>1, OwnKept DEF HookKeeps, SameRole
<1>2. CASE Width(KindAt(p)) = 0
  BY <1>2 DEF Enough, ProcOk, ProcType
<1>3. CASE /\ Width(KindAt(p)) > 0
           /\ \E e : EnteredKeeps(p, e) /\ q = get_fuzz(e, Width(KindAt(p)), input)
  <2> DEFINE size == Width(KindAt(p))
  <2>1. PICK e : EnteredKeeps(p, e) /\ q = get_fuzz(e, size, input)
    BY <1>3
  <2>2. size \in {1, 2}
    BY <1>3 DEF Width
  <2>3. ProcOk(e) /\ ~Enough(e, size) /\ OwnPrefix(e) /\ e.is_discovery_child
    BY <2>1, OwnKept DEF EnteredKeeps, SameRole, SameInput, Enough
  <2> HIDE DEF size
  <2>4. Served(e, q, size, input)
    <3>1. NoLoad(e, size)
      BY <2>3 DEF NoLoad
    <3> QED
      BY <2>1, <2>2, <2>3, <3>1, GetIs
  <2>5. /\ q.m = e.m /\ SameInput(e, q) /\ q.exited = e.exited /\ q.is_discovery_child
        /\ q.report = e.m.ticks /\ ~q.running
    BY <2>3, <2>4 DEF Served, OwnPrefix
  <2>6. OwnPrefix(q)
    BY <2>3, <2>5, OwnKept
  <2> QED
    BY <2>1, <2>5, <2>6 DEF EnteredKeeps
<1> QED
  BY <1>1, <1>2, <1>3 DEF Ran

\* Which action leads to which phase.
LEMMA PhaseMoves ==
  ASSUME TInv, [Next]_vars
  PROVE  \/ Block /\ phase' = phase
         \/ RunPrefix /\ phase = "discovery" /\ phase' = "prefix"
         \/ TakeSnapshot /\ phase = "prefix" /\ phase' \in {"run", "ready"}
         \/ StartRun /\ phase = "ready" /\ phase' = "run"
         \/ EndRun /\ phase = "run" /\ phase' \in {"closed", "ready"}
         \/ phase' \in {"exited", "closed"}
         \/ (\E i \in Inputs : AflAsks(i)) /\ phase = "ready" /\ phase' = "ready"
         \/ UNCHANGED vars
<1>1. CASE Block
  BY <1>1, BlockIs
<1>2. CASE RunPrefix
  BY <1>2 DEF RunPrefix
<1>3. CASE TakeSnapshot
  BY <1>3 DEF TakeSnapshot
<1>4. CASE StartRun
  BY <1>4 DEF StartRun
<1>5. CASE EndRun
  BY <1>5 DEF EndRun
<1>6. CASE DiscoveryFails \/ Exits \/ AflCloses
  BY <1>6 DEF DiscoveryFails, Exits, AflCloses
<1>7. CASE \E i \in Inputs : AflAsks(i)
  BY <1>7 DEF AflAsks
<1>8. CASE UNCHANGED vars
  BY <1>8
<1> QED
  BY <1>1, <1>2, <1>3, <1>4, <1>5, <1>6, <1>7, <1>8 DEF Next, Server

\* A path as long as the setup stays.
LEMMA PathPrimed ==
  ASSUME setup' = setup, NEW CONSTANT a, NEW CONSTANT u, NEW CONSTANT n
  PROVE  Path(a, u, n)' <=> Path(a, u, n)
  BY DEF Path, NextAt, NoLinear, ByteAt

\* The prefix as long as the setup stays.
LEMMA OwnPrimed ==
  ASSUME setup' = setup
  PROVE  /\ OwnPrefix(proc)' <=> OwnPrefix(proc')
         /\ OwnPrefix(parent)' <=> OwnPrefix(parent')
  BY DEF OwnPrefix, Cells, NoLinear, ByteAt

\* ChildInv after a step, of the new values.
LEMMA ChildPrimed ==
  ASSUME setup' = setup, parent' = parent, proc'.is_discovery_child, OwnPrefix(proc'),
         Forked(parent),
         NEW CONSTANT n \in Nat, NEW CONSTANT a, NEW CONSTANT u, Path(a, u, n),
         \/ /\ proc'.report = NoReport
            /\ proc'.running => /\ proc'.m.ticks = n /\ AtStep(proc', a, u, n)
                                /\ ~proc'.duplicate_exit
         \/ proc'.report = n + 1 /\ ~proc'.running
  PROVE  ChildInv'
<1>1. Path(a, u, n)'
  BY PathPrimed
<1>2. ChildOn(n, a, u)'
  BY <1>1 DEF ChildOn, AtStep
<1>3. OwnPrefix(proc)' /\ OwnPrefix(parent)'
  BY OwnPrimed DEF Forked
<1>4. Forked(parent)'
  BY <1>3 DEF Forked, BootMachine
<1> QED
  BY <1>2, <1>3, <1>4 DEF ChildInv

\* The child starts at the first block, with nothing read.
LEMMA InitChild == Init => ChildInv
<1> SUFFICES ASSUME Init
             PROVE  ChildInv
  OBVIOUS
<1>1. /\ proc.m = parent.m /\ SameInput(parent, proc)
      /\ proc.is_discovery_child /\ proc.running /\ proc.report = parent.report
      /\ proc.exited = parent.exited /\ proc.duplicate_exit = parent.duplicate_exit /\ SetupOk
      /\ Loaded(Booted, parent, "prefix", setup.prefix) /\ ~parent.input_already_given
  BY ForkIs
<1>2. /\ Booted.m = BootMachine /\ Booted.fuzz_size = Booted.fuzz_cursor
      /\ BootMachine.pc = 1 /\ BootMachine.log = <<>> /\ BootMachine.ticks = 0
      /\ BootMachine.last = 0 /\ Booted.custom_exit_reason = "ok"
      /\ ~Booted.input_mode_SHM /\ ~Booted.duplicate_exit
      /\ ~Booted.is_discovery_child /\ Booted.report = NoReport /\ ~Booted.running
      /\ ~Booted.exited
  BY <1>1, BootIs
<1>3. /\ parent.m = BootMachine /\ ~parent.input_mode_SHM /\ ~parent.duplicate_exit
      /\ ~parent.is_discovery_child /\ parent.report = NoReport /\ ~parent.running
      /\ ~parent.exited /\ parent.fuzz = Cells("prefix", setup.prefix)
      /\ parent.fuzz_size = Len(setup.prefix) /\ parent.fuzz_cursor = 0
      /\ parent.custom_exit_reason = "ok"
  BY <1>1, <1>2 DEF Loaded
<1>4. OwnPrefix(parent)
  BY <1>1, <1>2, <1>3 DEF OwnPrefix, ByteAt
<1>5. OwnPrefix(proc) /\ Forked(parent)
  BY <1>1, <1>3, <1>4, OwnKept DEF Forked
<1> DEFINE a == [k \in 0 .. 0 |-> 1]
           u == [k \in 0 .. 0 |-> 0]
<1>6. Path(a, u, 0) /\ a[0] = 1 /\ u[0] = 0
  <2>1. Len(setup.prefix) \in Nat
    BY <1>1 DEF SetupOk
  <2> QED
    BY <2>1 DEF Path
<1> HIDE DEF a, u
<1>7. ChildOn(0, a, u)
  BY <1>1, <1>2, <1>3, <1>6 DEF ChildOn, AtStep, SameInput
<1> QED
  BY <1>1, <1>5, <1>7 DEF ChildInv

\* The child walks its path until the prefix input does not suffice.
LEMMA StepChild == TInv /\ ChildInv /\ [Next]_vars => ChildInv'
<1> SUFFICES ASSUME TInv, ChildInv, [Next]_vars, phase' = "discovery"
             PROVE  ChildInv'
  BY DEF ChildInv
<1>1. SetupOk /\ ProcOk(proc)
  BY DEF TInv
<1>2. phase = "discovery" /\ (Block \/ UNCHANGED vars)
  BY PhaseMoves DEF vars
<1>3. proc.is_discovery_child /\ OwnPrefix(proc) /\ Forked(parent)
  BY <1>2 DEF ChildInv
<1>4. PICK n \in Nat : \E a, u : ChildOn(n, a, u)
  BY <1>2 DEF ChildInv
<1>5. PICK a, u : ChildOn(n, a, u)
  BY <1>4
<1>6. CASE UNCHANGED vars
  BY <1>3, <1>5, <1>6, ChildPrimed DEF vars, ChildOn
<1>7. CASE Block
  <2>1. /\ proc.running /\ Ran(proc, proc', Given) /\ UNCHANGED <<setup, parent>>
    BY <1>1, <1>7, BlockIs, ExecRan
  <2>2. /\ Path(a, u, n) /\ proc.report = NoReport /\ proc.m.ticks = n /\ ~proc.duplicate_exit
        /\ proc.m.pc = a[n] /\ proc.fuzz_cursor = u[n]
    BY <1>5, <2>1 DEF ChildOn, AtStep
  <2>3. Given \in Seq(Byte)
    BY GivenTyped
  <2>4. CASE Enough(proc, Width(KindAt(proc)))
    <3>1. /\ OwnPrefix(proc') /\ proc'.is_discovery_child /\ proc'.report = NoReport
          /\ proc'.running => StepsOn(proc, proc')
      BY <1>1, <1>3, <2>1, <2>2, <2>3, <2>4, RanInPrefix
    <3>2. KindAt(proc) = setup.code[a[n]]
      BY <2>2 DEF KindAt
    <3>3. a[n] \in DOMAIN setup.code
      BY <1>1, <2>2 DEF ProcOk, MachineOk
    <3>4. u[n] + Width(setup.code[a[n]]) <= Len(setup.prefix)
      BY <1>3, <2>2, <2>4, <3>2 DEF Enough, OwnPrefix
    <3>51. ASSUME proc'.running
           PROVE  \E b, v : /\ Path(b, v, n + 1) /\ b[n + 1] = NextAt(a[n])
                            /\ v[n + 1] = u[n] + Width(setup.code[a[n]])
      <4>1. NoLinear /\ setup.code[a[n]] = "crash" => ByteAt(u[n]) # 1
        BY <2>2, <3>1, <3>2, <3>51 DEF StepsOn
      <4> QED
        BY <1>1, <2>2, <3>3, <3>4, <4>1, PathGrows
    <3>52. CASE ~proc'.running
      BY <1>3, <2>1, <2>2, <3>1, <3>52, ChildPrimed
    <3> SUFFICES ASSUME proc'.running
                 PROVE  ChildInv'
      BY <3>52
    <3>5. PICK b, v : /\ Path(b, v, n + 1) /\ b[n + 1] = NextAt(a[n])
                      /\ v[n + 1] = u[n] + Width(setup.code[a[n]])
      BY <3>51
    <3>6. /\ proc'.m.ticks = n + 1 /\ AtStep(proc', b, v, n + 1)
          /\ ~proc'.duplicate_exit
      BY <1>3, <2>2, <3>1, <3>2, <3>5 DEF StepsOn, AtStep
    <3>7. n + 1 \in Nat
      OBVIOUS
    <3> DEFINE n1 == n + 1
    <3> HIDE DEF n1
    <3>8. n1 \in Nat /\ Path(b, v, n1)
          /\ proc'.m.ticks = n1 /\ AtStep(proc', b, v, n1)
      BY <3>5, <3>6, <3>7 DEF n1
    <3> QED
      BY <1>3, <2>1, <3>1, <3>6, <3>8, ChildPrimed
  <2>5. CASE ~Enough(proc, Width(KindAt(proc)))
    <3>1. /\ OwnPrefix(proc') /\ proc'.is_discovery_child /\ ~proc'.running
          /\ proc'.report = NoReport \/ proc'.report = n + 1
      BY <1>1, <1>3, <2>1, <2>2, <2>3, <2>5, RanShort
    <3> QED
      BY <1>3, <2>1, <2>2, <3>1, ChildPrimed
  <2> QED
    BY <2>4, <2>5
<1> QED
  BY <1>2, <1>6, <1>7

\* PrefixInv after a step, of the new values.
LEMMA PrefixPrimed ==
  ASSUME setup' = setup, ~proc'.is_discovery_child, OwnPrefix(proc'),
         NoLinear => proc'.custom_exit_reason = "ok",
         proc'.running =>
           /\ ~proc'.duplicate_exit
           /\ \E n \in Nat, k \in Nat : \E a, u :
                Path(a, u, n) /\ AtStep(proc', a, u, k) /\ k + proc'.m.limit = n - 1
  PROVE  PrefixInv'
<1>1. OwnPrefix(proc)'
  BY OwnPrimed
<1>2. ASSUME proc'.running
      PROVE  \E n \in Nat, k \in Nat : \E a, u : ParentOn(n, k, a, u)'
  <2>1. PICK n \in Nat, k \in Nat :
          \E a, u : Path(a, u, n) /\ AtStep(proc', a, u, k) /\ k + proc'.m.limit = n - 1
    BY <1>2
  <2>2. PICK a, u : Path(a, u, n) /\ AtStep(proc', a, u, k) /\ k + proc'.m.limit = n - 1
    BY <2>1
  <2>3. Path(a, u, n)'
    BY <2>2, PathPrimed
  <2>4. ParentOn(n, k, a, u)'
    BY <2>2, <2>3 DEF ParentOn, AtStep
  <2> QED
    BY <2>4
<1> QED
  BY <1>1, <1>2 DEF PrefixInv, NoLinear

\* The parent walks the child's path, and the block limit stops it before its end.
LEMMA StepPrefix ==
  ASSUME BlockLimit > 0
  PROVE  TInv /\ ChildInv /\ PrefixInv /\ [Next]_vars => PrefixInv'
<1> SUFFICES ASSUME TInv, ChildInv, PrefixInv, [Next]_vars, phase' = "prefix"
             PROVE  PrefixInv'
  BY DEF PrefixInv
<1>1. SetupOk /\ ProcOk(proc) /\ ProcOk(parent)
  BY DEF TInv
<1>2. \/ phase = "prefix" /\ (Block \/ UNCHANGED vars)
      \/ RunPrefix
  BY PhaseMoves DEF vars
<1>3. CASE RunPrefix
  <2>1. /\ phase = "discovery" /\ proc.report # NoReport /\ setup' = setup
        /\ proc' = IF proc.report > 2
                   THEN [parent EXCEPT !.m = SetLimit(@, PrefixTicks(proc.report)),
                                       !.running = TRUE]
                   ELSE parent
    BY <1>3 DEF RunPrefix
  <2>2. Forked(parent)
    BY <2>1 DEF ChildInv
  <2>3. PICK n \in Nat : \E a, u : ChildOn(n, a, u)
    BY <2>1 DEF ChildInv
  <2>4. PICK a, u : ChildOn(n, a, u)
    BY <2>3
  <2>5. Path(a, u, n) /\ proc.report = n + 1
    BY <2>1, <2>4 DEF ChildOn
  <2>6. CASE proc.report > 2
    <3> DEFINE v == PrefixTicks(proc.report)
    <3>1. v \in Nat /\ v > 0 /\ v = n - 1
      BY <2>5, <2>6 DEF PrefixTicks
    <3>2. proc' = [parent EXCEPT !.m = SetLimit(@, v), !.running = TRUE]
      BY <2>1, <2>6
    <3> HIDE DEF v
    <3>3. /\ proc'.m = SetLimit(parent.m, v) /\ SameInput(parent, proc') /\ SameRole(parent, proc')
          /\ proc'.duplicate_exit = parent.duplicate_exit
          /\ proc'.custom_exit_reason = parent.custom_exit_reason
      BY <1>1, <3>1, <3>2, PrefixIs
    <3>4. /\ proc'.m.pc = 1 /\ proc'.m.log = parent.m.log /\ proc'.m.limit = v
          /\ proc'.m.last = parent.m.last
      <4>1. MachineOk(parent.m) /\ parent.m = BootMachine
        BY <1>1, <2>2 DEF ProcOk, Forked
      <4>2. BootMachine.pc = 1 /\ BootMachine.limit = BootMachine.limitReload
        BY <1>1, BootIs
      <4>3. Largest(v) = v
        BY <3>1 DEF Largest
      <4> QED
        BY <3>1, <3>3, <4>1, <4>2, <4>3, SetLimitIs
    <3>5. OwnPrefix(proc') /\ ~proc'.is_discovery_child /\ ~proc'.duplicate_exit
          /\ proc'.custom_exit_reason = "ok"
      BY <2>2, <3>3, <3>4, OwnKept DEF Forked, SameRole
    <3>6. AtStep(proc', a, u, 0) /\ 0 + proc'.m.limit = n - 1
      BY <2>2, <2>5, <3>1, <3>3, <3>4 DEF AtStep, Path, Forked, SameInput
    <3> QED
      BY <2>1, <2>5, <3>5, <3>6, PrefixPrimed
  <2>7. CASE ~(proc.report > 2)
    <3>1. proc' = parent
      BY <2>1, <2>7
    <3> QED
      BY <2>1, <2>2, <3>1, PrefixPrimed DEF Forked
  <2> QED
    BY <2>6, <2>7
<1>4. CASE phase = "prefix" /\ UNCHANGED vars
  BY <1>4, PrefixPrimed DEF vars, PrefixInv, ParentOn
<1>5. CASE phase = "prefix" /\ Block
  <2>1. /\ proc.running /\ Ran(proc, proc', Given) /\ setup' = setup
    BY <1>1, <1>5, BlockIs, ExecRan
  <2>2. /\ ~proc.is_discovery_child /\ OwnPrefix(proc) /\ ~proc.duplicate_exit
        /\ NoLinear => proc.custom_exit_reason = "ok"
    BY <1>5, <2>1 DEF PrefixInv
  <2>3. PICK n \in Nat, k \in Nat : \E a, u : ParentOn(n, k, a, u)
    BY <1>5, <2>1 DEF PrefixInv
  <2>4. PICK a, u : ParentOn(n, k, a, u)
    BY <2>3
  <2>5. /\ Path(a, u, n) /\ proc.m.pc = a[k] /\ proc.fuzz_cursor = u[k]
        /\ k + proc.m.limit = n - 1
    BY <2>4 DEF ParentOn, AtStep
  <2>6. proc.m.limit \in Nat /\ proc.m.limit >= 1
    BY <1>1 DEF ProcOk, MachineOk, MachineType
  <2>7. k \in 0 .. n - 1 /\ k + 1 \in 0 .. n
    BY <2>5, <2>6
  <2>8. /\ KindAt(proc) = setup.code[a[k]] /\ a[k + 1] = NextAt(a[k])
        /\ u[k + 1] = u[k] + Width(setup.code[a[k]]) /\ u[k + 1] <= Len(setup.prefix)
        /\ NoLinear /\ setup.code[a[k]] = "crash" => ByteAt(u[k]) # 1
    BY <2>5, <2>7 DEF Path, KindAt
  <2>9. Enough(proc, Width(KindAt(proc)))
    BY <2>2, <2>5, <2>8 DEF Enough, OwnPrefix
  <2>10. Given \in Seq(Byte)
    BY GivenTyped
  <2>11. /\ OwnPrefix(proc') /\ ~proc'.is_discovery_child
         /\ proc'.running => StepsOn(proc, proc')
         /\ NoLinear => ReasonKept(proc, proc')
    BY <1>1, <2>1, <2>2, <2>9, <2>10, RanInPrefix
  <2>12. ASSUME proc'.running
         PROVE  /\ ~proc'.duplicate_exit /\ AtStep(proc', a, u, k + 1)
                /\ (k + 1) + proc'.m.limit = n - 1
    BY <2>2, <2>5, <2>6, <2>8, <2>11, <2>12 DEF StepsOn, AtStep
  <2>14. NoLinear => proc'.custom_exit_reason = "ok"
    BY <2>2, <2>5, <2>8, <2>11 DEF ReasonKept
  <2> DEFINE k1 == k + 1
  <2>13. k1 \in Nat /\ k1 = k + 1
    OBVIOUS
  <2> HIDE DEF k1
  <2> QED
    BY <2>1, <2>5, <2>11, <2>12, <2>13, <2>14, PrefixPrimed
<1> QED
  BY <1>2, <1>3, <1>4, <1>5

-----------------------------------------------------------------------------
(* The runs.                                                               *)

\* The prefix input is used up when the snapshot is taken.
Used == setup.mode = "single" \/ Len(snapshot.log) = Len(setup.prefix)

PrefixUsed == phase \in {"ready", "run"} => Used

\* What a run should read.
Source == PrefixRead \o Cells("input", Current)

\* The log is the beginning of s.
Begins(log, s) == Len(log) <= Len(s) /\ \A i \in 1 .. Len(log) : log[i] = s[i]

\* Before the run's input is asked for ...
Unasked(p) ==
  IF setup.mode = "single" THEN OwnPrefix(p)
  ELSE p.fuzz_cursor = p.fuzz_size /\ Len(p.m.log) = Len(PrefixRead)

\* ... and after.
Asked(p) ==
  IF p.input_mode_SHM
  THEN /\ p.fuzz_size = Len(Current) + 1 /\ p.fuzz_cursor >= 1
       /\ Len(p.m.log) = Len(PrefixRead) + p.fuzz_cursor - 1
  ELSE /\ p.fuzz = Cells("input", Current) /\ p.fuzz_size = Len(Current)
       /\ Len(p.m.log) = Len(PrefixRead) + p.fuzz_cursor

RunOk(p) ==
  /\ Begins(p.m.log, Source)
  /\ ~p.exited /\ ~p.input_already_given => Unasked(p)
  /\ ~p.exited /\ p.input_already_given => Asked(p)

\* The snapshot is taken within the prefix input.
SnapshotOk == Begins(snapshot.log, Cells("prefix", setup.prefix))

Serving(p) == ~p.is_discovery_child /\ p.input_mode_SHM = (setup.mode = "shm")

ReadyInv ==
  phase = "ready" =>
    /\ setup.mode # "single" /\ SnapshotOk /\ Serving(proc) /\ proc.m = snapshot
    /\ ~proc.exited /\ ~proc.input_already_given /\ ~proc.running
    /\ ~proc.duplicate_exit /\ (NoLinear => proc.custom_exit_reason = "ok")
    /\ Used => proc.fuzz_cursor = proc.fuzz_size

RunInv ==
  phase = "run" =>
    /\ Serving(proc) /\ (setup.mode # "single" => SnapshotOk)
    /\ proc.running => ~proc.exited
    /\ Used => RunOk(proc)

\* What a run should read, cell by cell.
LEMMA SourceIs ==
  ASSUME TInv
  PROVE  /\ PrefixRead \in Seq(Cell) /\ Current \in Seq(Byte) /\ Cells("input", Current) \in Seq(Cell)
         /\ Source \in Seq(Cell) /\ Len(Source) = Len(PrefixRead) + Len(Current)
         /\ \A i \in 1 .. Len(PrefixRead) : Source[i] = PrefixRead[i]
         /\ \A i \in 1 .. Len(Current) :
              Source[Len(PrefixRead) + i] = Cells("input", Current)[i]
<1>1. Current \in Seq(Byte)
  BY Constants DEF Current, TInv
<1>2. PrefixRead \in Seq(Cell)
  <2>1. Cells("prefix", setup.prefix) \in Seq(Cell)
    BY CellsAre DEF TInv, SetupOk
  <2>2. snapshot.log \in Seq(Cell)
    BY DEF TInv, MachineOk, MachineType
  <2> QED
    BY <2>1, <2>2 DEF PrefixRead
<1>3. Cells("input", Current) \in Seq(Cell) /\ Len(Cells("input", Current)) = Len(Current)
  BY <1>1, CellsAre
<1> DEFINE x == PrefixRead
           y == Cells("input", Current)
<1>4. Source = x \o y
  BY DEF Source
<1>5. x \in Seq(Cell) /\ y \in Seq(Cell) /\ Len(y) = Len(Current)
  BY <1>2, <1>3
<1> HIDE DEF x, y
<1>6. /\ x \o y \in Seq(Cell) /\ Len(x \o y) = Len(x) + Len(y)
      /\ \A i \in 1 .. Len(x) : (x \o y)[i] = x[i]
      /\ \A i \in 1 .. Len(y) : (x \o y)[Len(x) + i] = y[i]
  <2>1. x \o y \in Seq(Cell) /\ Len(x \o y) = Len(x) + Len(y)
    BY <1>5
  <2>2. \A i \in 1 .. Len(x) : (x \o y)[i] = x[i]
    BY <1>5, Joined
  <2>3. \A i \in 1 .. Len(y) : (x \o y)[Len(x) + i] = y[i]
    BY <1>5, Joined
  <2> QED
    BY <2>1, <2>2, <2>3
<1>7. /\ Source \in Seq(Cell) /\ Len(Source) = Len(x) + Len(Current)
      /\ \A i \in 1 .. Len(x) : Source[i] = x[i]
      /\ \A i \in 1 .. Len(Current) : Source[Len(x) + i] = y[i]
  BY <1>4, <1>5, <1>6
<1> QED
  BY <1>1, <1>2, <1>3, <1>7 DEF x, y

\* A step that reads nothing keeps what a run has read.
LEMMA RunKept ==
  ASSUME NEW p, RunOk(p), NEW q, SameInput(p, q), q.exited = p.exited, q.m.log = p.m.log,
         NoLinear => q.m.last = p.m.last
  PROVE  RunOk(q)
  BY OwnKept DEF RunOk, Unasked, Asked, SameInput

\* A process that has its input reads on in it.
LEMMA ReadsOn ==
  ASSUME TInv, NEW p, ProcOk(p), RunOk(p), Serving(p), ~p.exited, p.input_already_given,
         NEW size \in {1, 2}, NEW q, Consumed(p, q, size, Current)
  PROVE  RunOk(q)
<1> DEFINE c == Cells("input", Current)
           b == Len(PrefixRead)
           d == IF p.input_mode_SHM THEN p.fuzz_cursor - 1 ELSE p.fuzz_cursor
<1>1. /\ Current \in Seq(Byte) /\ c \in Seq(Cell) /\ Len(c) = Len(Current) /\ b \in Nat
      /\ Len(Source) = b + Len(Current) /\ Len(Current) \in Nat
      /\ \A i \in 1 .. Len(Current) : Source[b + i] = c[i]
  BY SourceIs, CellsAre
<1>2. p \in ProcType /\ p.fuzz_cursor \in Nat /\ p.fuzz_size \in Nat
  BY DEF ProcOk, ProcType
<1>3. Asked(p) /\ Begins(p.m.log, Source)
  BY DEF RunOk
<1>4. d \in Nat /\ Len(p.m.log) = b + d /\ d + size <= Len(Current)
  <2>1. p.fuzz_cursor + size <= p.fuzz_size
    BY DEF Consumed, ProcOk
  <2> QED
    BY <1>1, <1>2, <1>3, <2>1 DEF Asked
<1>5. ASSUME NEW i \in 1 .. size
      PROVE  FuzzAt(p, Current, p.fuzz_cursor + i) = c[d + i]
  <2>1. CASE p.input_mode_SHM
    <3>1. p.fuzz_cursor + i \in 2 .. Len(Current) + 1 /\ (p.fuzz_cursor + i) - 1 = d + i
      <4>1. d = p.fuzz_cursor - 1
        BY <2>1
      <4> HIDE DEF d, b, c
      <4>2. /\ d \in Nat /\ d + size <= Len(Current) /\ Len(Current) \in Nat
            /\ p.fuzz_cursor \in Nat /\ i \in 1 .. size /\ size \in Nat
        BY <1>1, <1>2, <1>4
      <4>3. p.fuzz_cursor + i = d + 1 + i /\ d + i <= Len(Current) /\ i >= 1
        BY <4>1, <4>2
      <4> DEFINE n == p.fuzz_cursor + i
      <4>4. n \in Nat /\ n = d + 1 + i
        BY <4>2, <4>3
      <4> HIDE DEF n
      <4>5. n \in 2 .. Len(Current) + 1 /\ n - 1 = d + i
        BY <4>2, <4>3, <4>4
      <4> QED
        BY <4>5 DEF n
    <3> QED
      BY <1>1, <1>2, <2>1, <3>1, FuzzIs
  <2>2. CASE ~p.input_mode_SHM
    <3>1. p.fuzz_cursor + i \in 1 .. Len(p.fuzz) /\ p.fuzz_cursor + i = d + i /\ p.fuzz = c
      BY <1>1, <1>2, <1>3, <1>4, <2>2 DEF Asked
    <3> QED
      BY <1>1, <1>2, <2>2, <3>1, FuzzIs
  <2> QED
    BY <2>1, <2>2
<1>51. p.input_mode_SHM => d = p.fuzz_cursor - 1
  OBVIOUS
<1>52. ~p.input_mode_SHM => d = p.fuzz_cursor
  OBVIOUS
<1> HIDE DEF b, d, c
<1>6. Appended(p.m.log, q.m.log, size, p, Current)
  BY DEF Consumed
<1>7. Len(q.m.log) = b + d + size /\ Len(q.m.log) <= Len(Source)
  BY <1>1, <1>4, <1>6 DEF Appended
<1>8. ASSUME NEW i \in 1 .. Len(q.m.log)
      PROVE  q.m.log[i] = Source[i]
  <2>1. CASE i <= b + d
    BY <1>3, <1>4, <1>6, <2>1 DEF Appended, Begins
  <2>2. CASE i > b + d
    <3> DEFINE j == i - (b + d)
    <3>1. j \in 1 .. size /\ (b + d) + j = i /\ d + j \in 1 .. Len(Current) /\ b + (d + j) = i
      BY <1>1, <1>4, <1>7, <2>2
    <3> HIDE DEF j
    <3>2. q.m.log[i] = FuzzAt(p, Current, p.fuzz_cursor + j)
      BY <1>4, <1>6, <3>1 DEF Appended
    <3>3. Source[i] = c[d + j]
      BY <1>1, <3>1
    <3> QED
      BY <1>5, <3>1, <3>2, <3>3
  <2> QED
    BY <1>1, <1>4, <1>7, <2>1, <2>2
<1>9. Asked(q)
  <2>1. /\ q.input_mode_SHM = p.input_mode_SHM /\ q.fuzz = p.fuzz /\ q.fuzz_size = p.fuzz_size
        /\ q.fuzz_cursor = p.fuzz_cursor + size
    BY DEF Consumed
  <2>2. CASE p.input_mode_SHM
    <3>1. p.fuzz_size = Len(Current) + 1 /\ p.fuzz_cursor >= 1
      BY <1>3, <2>2 DEF Asked
    <3>2. Len(q.m.log) = b + q.fuzz_cursor - 1 /\ q.fuzz_cursor >= 1
      BY <1>1, <1>2, <1>4, <1>51, <1>7, <2>1, <2>2, <3>1
    <3> QED
      BY <2>1, <2>2, <3>1, <3>2 DEF Asked, b
  <2>3. CASE ~p.input_mode_SHM
    <3>1. p.fuzz = Cells("input", Current) /\ p.fuzz_size = Len(Current)
      BY <1>3, <2>3 DEF Asked
    <3>2. Len(q.m.log) = b + q.fuzz_cursor
      BY <1>1, <1>2, <1>4, <1>52, <1>7, <2>1, <2>3, <3>1
    <3> QED
      BY <2>1, <2>3, <3>1, <3>2 DEF Asked, b
  <2> QED
    BY <2>2, <2>3
<1>10. q.input_already_given /\ ~q.exited
  BY DEF Consumed, SameRole
<1> QED
  BY <1>7, <1>8, <1>9, <1>10 DEF RunOk, Begins

\* Loading the run's input.
LEMMA LoadsOwn ==
  ASSUME TInv, Used, NEW p, ProcOk(p), RunOk(p), Serving(p), ~p.exited,
         ~p.input_already_given,
         NEW q, Loaded(p, q, "input", Current), q.input_already_given
  PROVE  RunOk(q) /\ Serving(q)
<1>1. Begins(p.m.log, Source) /\ Unasked(p) /\ q.m = p.m
  BY DEF RunOk, Loaded
<1>2. Serving(q) /\ q.input_mode_SHM = p.input_mode_SHM
  BY DEF Serving, Loaded
<1>3. p.fuzz_cursor \in Nat /\ p.fuzz_size \in Nat /\ p.input_mode_SHM \in BOOLEAN
  BY DEF ProcOk, ProcType
<1>4. ASSUME ~q.exited
      PROVE  Asked(q)
  <2>1. p.input_mode_SHM \/ p.fuzz_size = p.fuzz_cursor
    BY <1>3, <1>4 DEF Loaded
  <2>2. Len(p.m.log) = Len(PrefixRead)
    <3>1. CASE setup.mode = "single"
      <4>1. ~p.input_mode_SHM /\ Len(p.m.log) = Len(setup.prefix)
        BY <1>1, <2>1, <3>1 DEF Unasked, OwnPrefix
      <4>2. Len(PrefixRead) = Len(setup.prefix)
        BY <3>1, CellsAre DEF PrefixRead, TInv, SetupOk
      <4> QED
        BY <4>1, <4>2
    <3>2. CASE setup.mode # "single"
      BY <1>1, <3>2 DEF Unasked
    <3> QED
      BY <3>1, <3>2
  <2>3. Len(PrefixRead) \in Nat
    BY SourceIs
  <2>4. CASE p.input_mode_SHM
    BY <1>1, <1>2, <2>2, <2>3, <2>4 DEF Asked, Loaded
  <2>5. CASE ~p.input_mode_SHM
    BY <1>1, <1>2, <2>1, <2>2, <2>3, <2>5 DEF Asked, Loaded
  <2> QED
    BY <2>4, <2>5
<1> QED
  BY <1>1, <1>2, <1>4 DEF RunOk

\* A read in a run.
LEMMA RunReads ==
  ASSUME TInv, Used, NEW p, ProcOk(p), RunOk(p), Serving(p), ~p.exited,
         NEW size \in {1, 2}
  PROVE  RunOk(get_fuzz(p, size, Current))
<1> DEFINE r == IF NoLoad(p, size) THEN p ELSE load_delayed_input(p, Current)
           q == get_fuzz(p, size, Current)
<1>1. Current \in Seq(Byte)
  BY SourceIs
<1>2. ProcOk(r) /\ Served(r, q, size, Current)
  BY <1>1, GetIs
<1>3. p.exited \in BOOLEAN /\ p.input_already_given \in BOOLEAN /\ Enough(p, size) \in BOOLEAN
  BY DEF ProcOk, ProcType, Enough
<1>4. CASE Enough(p, size) /\ ~p.input_already_given
  <2>1. setup.mode = "single" /\ OwnPrefix(p)
    <3>1. Unasked(p)
      BY <1>4 DEF RunOk
    <3>2. p.fuzz_cursor + size # p.fuzz_cursor /\ p.fuzz_cursor \in Nat
      BY DEF ProcOk, ProcType
    <3>3. p.fuzz_cursor + size > p.fuzz_cursor
      BY <3>2
    <3> QED
      BY <1>4, <3>1, <3>2, <3>3 DEF Unasked, Enough
  <2>2. SetupOk
    BY DEF TInv
  <2>3. OwnPrefix(q) /\ Consumed(p, q, size, Current)
    BY <1>1, <1>4, <2>1, <2>2, OwnRead
  <2> HIDE DEF q, r
  <2>4. Begins(q.m.log, Source)
    <3>1. /\ PrefixRead = Cells("prefix", setup.prefix)
          /\ Len(PrefixRead) = Len(setup.prefix)
      BY <2>1, <2>2, CellsAre DEF PrefixRead, SetupOk
    <3>2. q.fuzz_cursor <= Len(setup.prefix) /\ q.fuzz_cursor \in Nat
      BY <2>3 DEF Consumed, ProcOk, ProcType, OwnPrefix
    <3>3. Len(q.m.log) = q.fuzz_cursor /\ \A i \in 1 .. q.fuzz_cursor : q.m.log[i] = PrefixRead[i]
      BY <2>3, <3>1 DEF OwnPrefix
    <3>4. /\ Len(Source) = Len(PrefixRead) + Len(Current) /\ Len(Current) \in Nat
          /\ Len(PrefixRead) \in Nat
          /\ \A i \in 1 .. Len(PrefixRead) : Source[i] = PrefixRead[i]
      BY SourceIs
    <3> QED
      BY <3>1, <3>2, <3>3, <3>4 DEF Begins
  <2> QED
    BY <2>1, <2>3, <2>4 DEF RunOk, Unasked, OwnPrefix, q
<1>5. ASSUME RunOk(r), Serving(r), r.input_already_given
      PROVE  RunOk(q)
  <2> HIDE DEF r, q
  <2>1. r.exited \in BOOLEAN /\ Enough(r, size) \in BOOLEAN
    BY <1>2 DEF ProcOk, ProcType, Enough
  <2>2. CASE r.exited
    BY <1>2, <1>5, <2>2 DEF Served
  <2>3. CASE ~r.exited /\ Enough(r, size)
    <3>1. Consumed(r, q, size, Current)
      BY <1>2, <2>3 DEF Served
    <3> QED
      BY <1>2, <1>5, <2>3, <3>1, ReadsOn
  <2>4. CASE ~r.exited /\ ~Enough(r, size)
    <3>1. q.m = r.m /\ SameInput(r, q) /\ q.exited = r.exited
      BY <1>2, <2>4 DEF Served
    <3> QED
      BY <1>5, <3>1, RunKept
  <2> QED
    BY <2>1, <2>2, <2>3, <2>4
<1>6. CASE p.input_already_given
  <2>1. r = p
    BY <1>6 DEF NoLoad
  <2> QED
    BY <1>5, <1>6, <2>1
<1>7. CASE ~Enough(p, size) /\ ~p.input_already_given
  <2>1. r = load_delayed_input(p, Current)
    BY <1>7 DEF NoLoad, Serving
  <2>2. Loaded(p, r, "input", Current) /\ r.input_already_given
    BY <1>1, <2>1, DelayedIs
  <2> HIDE DEF r, q
  <2>3. RunOk(r) /\ Serving(r)
    BY <1>7, <2>2, LoadsOwn
  <2> QED
    BY <1>5, <2>2, <2>3 DEF q
<1> QED
  BY <1>3, <1>4, <1>6, <1>7

\* A block of a run reads the input of the run.
LEMMA RanRun ==
  ASSUME TInv, Used, NEW p, ProcOk(p), RunOk(p), Serving(p), ~p.exited,
         NEW q, Ran(p, q, Current)
  PROVE  RunOk(q)
<1>1. CASE HookKeeps(p, q)
  BY <1>1, RunKept DEF HookKeeps, SameRole
<1>2. CASE \E e : EnteredKeeps(p, e) /\ Keeps(e, q) /\ Otherwise(KindAt(p), e, q)
  <2>1. PICK e : EnteredKeeps(p, e) /\ Keeps(e, q) /\ Otherwise(KindAt(p), e, q)
    BY <1>2
  <2>2. RunOk(e)
    BY <2>1, RunKept DEF EnteredKeeps, SameRole
  <2> QED
    BY <2>1, <2>2, RunKept DEF Keeps, Otherwise
<1>3. CASE /\ Width(KindAt(p)) > 0
           /\ \E e : EnteredKeeps(p, e) /\ q = get_fuzz(e, Width(KindAt(p)), Current)
  <2> DEFINE size == Width(KindAt(p))
  <2>1. PICK e : EnteredKeeps(p, e) /\ q = get_fuzz(e, size, Current)
    BY <1>3
  <2>2. size \in {1, 2}
    BY <1>3 DEF Width
  <2>3. ProcOk(e) /\ RunOk(e) /\ Serving(e) /\ ~e.exited
    BY <2>1, RunKept DEF EnteredKeeps, SameRole, SameInput, Serving
  <2> HIDE DEF size
  <2> QED
    BY <2>1, <2>2, <2>3, RunReads
<1> QED
  BY <1>1, <1>2, <1>3 DEF Ran

\* A block leaves the mode, the role and a process that has exited as they are.
LEMMA RanServing ==
  ASSUME NEW p, ProcOk(p), Serving(p), ~p.exited, NEW q, NEW input \in Seq(Byte),
         Ran(p, q, input)
  PROVE  Serving(q) /\ (q.running => ~q.exited)
<1>1. CASE HookKeeps(p, q)
  BY <1>1 DEF HookKeeps, SameRole, SameInput, Serving
<1>2. CASE \E e : EnteredKeeps(p, e) /\ Keeps(e, q)
  BY <1>2 DEF EnteredKeeps, Keeps, SameRole, SameInput, Serving
<1>3. CASE /\ Width(KindAt(p)) > 0
           /\ \E e : EnteredKeeps(p, e) /\ q = get_fuzz(e, Width(KindAt(p)), input)
  <2> DEFINE size == Width(KindAt(p))
  <2>1. PICK e : EnteredKeeps(p, e) /\ q = get_fuzz(e, size, input)
    BY <1>3
  <2>2. size \in {1, 2}
    BY <1>3 DEF Width
  <2> DEFINE r == IF NoLoad(e, size) THEN e ELSE load_delayed_input(e, input)
  <2>3. ProcOk(e) /\ Serving(e) /\ ~e.exited
    BY <2>1 DEF EnteredKeeps, SameRole, SameInput, Serving
  <2> HIDE DEF size
  <2>4. ProcOk(r) /\ Served(r, q, size, input)
    BY <2>1, <2>2, <2>3, GetIs
  <2>5. Serving(r) /\ (r.exited => ~r.running)
    <3>1. e.input_mode_SHM \in BOOLEAN
      BY <2>3 DEF ProcOk, ProcType
    <3>2. CASE NoLoad(e, size)
      BY <2>3, <3>2
    <3>3. CASE ~NoLoad(e, size)
      <4> DEFINE x == load_delayed_input(e, input)
      <4>1. Loaded(e, x, "input", input)
        BY <2>3, DelayedIs
      <4>2. r = x
        BY <3>3
      <4> HIDE DEF r, x
      <4>3. Serving(x)
        BY <2>3, <4>1 DEF Loaded, Serving
      <4>4. x.exited => ~x.running
        BY <2>3, <3>1, <4>1 DEF Loaded
      <4> QED
        BY <4>2, <4>3, <4>4
    <3> QED
      BY <3>2, <3>3
  <2> HIDE DEF r
  <2>6. r.exited \in BOOLEAN /\ Enough(r, size) \in BOOLEAN
    BY <2>4 DEF ProcOk, ProcType, Enough
  <2> QED
    BY <2>4, <2>5, <2>6 DEF Served, Consumed, SameRole, SameInput, Serving
<1> QED
  BY <1>1, <1>2, <1>3 DEF Ran

\* The process looks for its input where AFL puts it.
LEMMA GivenIs == ASSUME Serving(proc) PROVE Given = Current
  BY DEF Serving, Given, Current

\* RunInv after a step, of the new values.
LEMMA RunPrimed ==
  ASSUME setup' = setup, snapshot' = snapshot, file' = file, shmem' = shmem, phase' = "run",
         Serving(proc'), proc'.running => ~proc'.exited, setup.mode # "single" => SnapshotOk, Used => RunOk(proc')
  PROVE  RunInv'
<1>1. Serving(proc)' /\ (SnapshotOk' <=> SnapshotOk) /\ (Used' <=> Used)
  BY DEF Serving, SnapshotOk, Used, Begins, Cells
<1>2. Current' = Current /\ PrefixRead' = PrefixRead /\ Source' = Source
      /\ Cells("input", Current)' = Cells("input", Current)
  BY DEF Current, PrefixRead, Source, Cells
<1>3. RunOk(proc') => RunOk(proc)'
  <2>1. Unasked(proc') => Unasked(proc)'
    BY <1>2, OwnPrimed DEF Unasked
  <2>2. Asked(proc') => Asked(proc)'
    BY <1>2 DEF Asked
  <2>3. Begins(proc'.m.log, Source) => Begins(proc.m.log, Source)'
    BY <1>2 DEF Begins
  <2> QED
    BY <2>1, <2>2, <2>3 DEF RunOk
<1> QED
  BY <1>1, <1>3 DEF RunInv

\* ReadyInv after a step, of the new values.
LEMMA ReadyPrimed ==
  ASSUME setup' = setup, setup.mode # "single", Serving(proc'), proc'.m = snapshot',
         Begins(snapshot'.log, Cells("prefix", setup.prefix)),
         ~proc'.exited, ~proc'.input_already_given, ~proc'.running,
         ~proc'.duplicate_exit, NoLinear => proc'.custom_exit_reason = "ok",
         Len(snapshot'.log) = Len(setup.prefix) => proc'.fuzz_cursor = proc'.fuzz_size
  PROVE  ReadyInv'
<1>1. Serving(proc)' /\ SnapshotOk'
  BY DEF Serving, SnapshotOk, Begins, Cells
<1> QED
  BY <1>1 DEF ReadyInv, Used, NoLinear

\* The prefix input read before the snapshot.
LEMMA OwnBegins ==
  ASSUME NEW p, ProcOk(p), OwnPrefix(p), SetupOk
  PROVE  /\ Begins(p.m.log, Cells("prefix", setup.prefix))
         /\ Len(p.m.log) = p.fuzz_cursor /\ p.fuzz_size = Len(setup.prefix)
  BY CellsAre DEF Begins, OwnPrefix, ProcOk, SetupOk

\* Every run starts before its input and reads on in it.
LEMMA StepRun ==
  TInv /\ PrefixInv /\ ReadyInv /\ RunInv /\ [Next]_vars => RunInv'
<1> SUFFICES ASSUME TInv, PrefixInv, ReadyInv, RunInv, [Next]_vars, phase' = "run"
             PROVE  RunInv'
  BY DEF RunInv
<1>1. SetupOk /\ ProcOk(proc)
  BY DEF TInv
<1>2. \/ phase = "run" /\ (Block \/ UNCHANGED vars)
      \/ TakeSnapshot /\ phase = "prefix"
      \/ StartRun /\ phase = "ready"
  BY PhaseMoves DEF vars
<1>3. CASE phase = "run" /\ UNCHANGED vars
  BY <1>3, RunPrimed DEF vars, RunInv
<1>4. CASE phase = "run" /\ Block
  <2>1. /\ proc.running /\ Ran(proc, proc', Given)
        /\ UNCHANGED <<setup, snapshot, file, shmem>>
    BY <1>1, <1>4, BlockIs, ExecRan
  <2>2. Serving(proc) /\ (setup.mode # "single" => SnapshotOk) /\ (Used => RunOk(proc))
    BY <1>4 DEF RunInv
  <2>3. Given = Current /\ Current \in Seq(Byte)
    BY <2>2, GivenIs, SourceIs
  <2>6. ~proc.exited
    BY <1>4, <2>1 DEF RunInv
  <2>4. Serving(proc') /\ (proc'.running => ~proc'.exited)
    BY <1>1, <2>1, <2>2, <2>3, <2>6, RanServing
  <2>5. ASSUME Used
        PROVE  RunOk(proc')
    BY <1>1, <2>1, <2>2, <2>3, <2>5, <2>6, RanRun
  <2> QED
    BY <2>1, <2>2, <2>4, <2>5, RunPrimed
<1>5. CASE StartRun /\ phase = "ready"
  <2>1. /\ UNCHANGED <<setup, snapshot, file, shmem>>
        /\ proc' = [proc EXCEPT !.running = TRUE, !.err = "ok"]
    BY <1>5 DEF StartRun
  <2>2. /\ ProcOk(proc') /\ proc'.m = proc.m /\ SameInput(proc, proc')
        /\ proc'.is_discovery_child = proc.is_discovery_child /\ proc'.exited = proc.exited
    BY <1>1, <2>1, StartedIs
  <2>3. /\ setup.mode # "single" /\ SnapshotOk /\ Serving(proc) /\ proc.m = snapshot
        /\ ~proc.exited /\ ~proc.input_already_given
        /\ Used => proc.fuzz_cursor = proc.fuzz_size
    BY <1>5 DEF ReadyInv
  <2>4. PrefixRead = snapshot.log
    BY <2>3 DEF PrefixRead
  <2>5. Begins(proc'.m.log, Source)
    <3>1. Len(Source) = Len(PrefixRead) + Len(Current) /\ Current \in Seq(Byte)
          /\ PrefixRead \in Seq(Cell) /\ \A i \in 1 .. Len(PrefixRead) : Source[i] = PrefixRead[i]
      BY SourceIs
    <3>2. Len(PrefixRead) \in Nat /\ Len(Current) \in Nat
      BY <3>1
    <3> QED
      BY <2>2, <2>3, <2>4, <3>1, <3>2 DEF Begins
  <2>6. Used => RunOk(proc')
    BY <2>2, <2>3, <2>4, <2>5 DEF RunOk, Unasked, SameInput
  <2>7. Serving(proc') /\ ~proc'.exited
    BY <2>2, <2>3 DEF Serving, SameInput
  <2> QED
    BY <2>1, <2>3, <2>6, <2>7, RunPrimed
<1>6. CASE TakeSnapshot /\ phase = "prefix"
  <2> DEFINE b == setup.mode = "shm"
  <2>1. /\ UNCHANGED <<setup, snapshot, file, shmem>>
        /\ setup.mode = "single" /\ proc' = GoesOn(proc, b)
    BY <1>6 DEF TakeSnapshot, Resumed, GoesOn
  <2>2. b = FALSE /\ b \in BOOLEAN
    BY <2>1
  <2> HIDE DEF b
  <2>3. /\ ProcOk(proc') /\ proc'.m.log = proc.m.log /\ proc'.m.last = proc.m.last
        /\ proc'.fuzz = proc.fuzz /\ proc'.fuzz_size = proc.fuzz_size
        /\ proc'.fuzz_cursor = proc.fuzz_cursor /\ proc'.input_mode_SHM = b
        /\ proc'.is_discovery_child = proc.is_discovery_child /\ proc'.exited = proc.exited
        /\ proc'.input_already_given = proc.input_already_given
    BY <1>1, <2>1, <2>2, ResumedIs
  <2>4. ~proc.is_discovery_child /\ OwnPrefix(proc)
    BY <1>6 DEF PrefixInv
  <2>5. OwnPrefix(proc') /\ Serving(proc') /\ ~proc'.exited
    <3>1. /\ setup.mode # "shm" /\ proc'.input_mode_SHM = FALSE
      BY <2>1, <2>2, <2>3
    <3> QED
      BY <2>3, <2>4, <3>1 DEF OwnPrefix, Serving
  <2>6. Begins(proc'.m.log, Source)
    <3>1. Begins(proc'.m.log, PrefixRead)
      BY <1>1, <2>1, <2>3, <2>5, OwnBegins DEF PrefixRead
    <3>2. Len(Source) = Len(PrefixRead) + Len(Current) /\ Current \in Seq(Byte)
          /\ PrefixRead \in Seq(Cell) /\ \A i \in 1 .. Len(PrefixRead) : Source[i] = PrefixRead[i]
      BY SourceIs
    <3>3. Len(PrefixRead) \in Nat /\ Len(Current) \in Nat /\ Len(proc'.m.log) \in Nat
      BY <2>3, <3>2 DEF ProcOk, ProcType, MachineType
    <3> QED
      BY <3>1, <3>2, <3>3 DEF Begins
  <2>7. RunOk(proc')
    BY <2>1, <2>5, <2>6 DEF RunOk, Unasked, OwnPrefix
  <2> QED
    BY <2>1, <2>5, <2>7, RunPrimed
<1> QED
  BY <1>2, <1>3, <1>4, <1>5, <1>6

\* Between two runs the process is what the snapshot was taken of, its buffer used up.
LEMMA StepReady ==
  TInv /\ PrefixInv /\ ReadyInv /\ RunInv /\ [Next]_vars => ReadyInv'
<1> SUFFICES ASSUME TInv, PrefixInv, ReadyInv, RunInv, [Next]_vars, phase' = "ready"
             PROVE  ReadyInv'
  BY DEF ReadyInv
<1>1. SetupOk /\ ProcOk(proc) /\ MachineOk(snapshot)
  BY DEF TInv
<1>2. \/ phase = "ready" /\ (UNCHANGED vars \/ \E i \in Inputs : AflAsks(i))
      \/ TakeSnapshot /\ phase = "prefix"
      \/ EndRun /\ phase = "run"
  <2>1. ~(phase = "ready" /\ Block)
    BY <1>1, BlockIs DEF ReadyInv
  <2> QED
    BY <2>1, PhaseMoves DEF vars
<1>3. CASE phase = "ready" /\ (UNCHANGED vars \/ \E i \in Inputs : AflAsks(i))
  <2>1. UNCHANGED <<setup, proc, snapshot>>
    BY <1>3 DEF vars, AflAsks
  <2> QED
    BY <1>3, <2>1, ReadyPrimed DEF ReadyInv, SnapshotOk, Used
<1>4. CASE TakeSnapshot /\ phase = "prefix"
  <2> DEFINE b == setup.mode = "shm"
             m == SetLimit(proc.m, BlockLimit)
  <2>1. /\ UNCHANGED setup /\ setup.mode # "single" /\ proc' = Waits(proc, b) /\ snapshot' = m
        /\ ~proc.running
    BY <1>4 DEF TakeSnapshot, Resumed, Waits
  <2>2. b \in BOOLEAN /\ b = (setup.mode = "shm")
    OBVIOUS
  <2> HIDE DEF b
  <2>3. /\ ProcOk(proc') /\ proc'.m = m /\ m.log = proc.m.log
        /\ proc'.fuzz_size = proc.fuzz_size
        /\ proc'.fuzz_cursor = proc.fuzz_cursor /\ proc'.input_mode_SHM = b
        /\ proc'.is_discovery_child = proc.is_discovery_child /\ proc'.exited = proc.exited
        /\ ~proc'.input_already_given /\ proc'.running = proc.running
        /\ ~proc'.duplicate_exit /\ proc'.custom_exit_reason = proc.custom_exit_reason
    BY <1>1, <2>1, <2>2, ResumedIs
  <2> HIDE DEF m
  <2>4. /\ ~proc.is_discovery_child /\ OwnPrefix(proc) /\ ~proc.exited
        /\ NoLinear => proc.custom_exit_reason = "ok"
    BY <1>4 DEF PrefixInv, OwnPrefix
  <2>5. /\ Begins(proc.m.log, Cells("prefix", setup.prefix))
        /\ Len(proc.m.log) = proc.fuzz_cursor /\ proc.fuzz_size = Len(setup.prefix)
    BY <1>1, <2>4, OwnBegins
  <2>6. Serving(proc')
    BY <2>2, <2>3, <2>4 DEF Serving
  <2> QED
    BY <2>1, <2>3, <2>4, <2>5, <2>6, ReadyPrimed
<1>5. CASE EndRun /\ phase = "run"
  <2>1. /\ UNCHANGED <<setup, snapshot>> /\ ~proc.exited /\ ~proc.running
        /\ setup.mode # "single" /\ proc' = restore_snapshot(proc)
    BY <1>5 DEF EndRun
  <2>2. /\ proc'.m = snapshot /\ proc'.fuzz_size = proc.fuzz_size
        /\ proc'.fuzz_cursor = proc.fuzz_size /\ ~proc'.input_already_given
        /\ proc'.input_mode_SHM = proc.input_mode_SHM
        /\ proc'.is_discovery_child = proc.is_discovery_child /\ proc'.exited = proc.exited
        /\ proc'.running = proc.running /\ ~proc'.duplicate_exit
        /\ proc'.custom_exit_reason = "ok"
    BY <1>1, <2>1, RestoredIs
  <2>3. Serving(proc) /\ SnapshotOk
    BY <1>5, <2>1 DEF RunInv
  <2>4. Serving(proc')
    BY <2>2, <2>3 DEF Serving
  <2> QED
    BY <2>1, <2>2, <2>3, <2>4, ReadyPrimed DEF SnapshotOk
<1> QED
  BY <1>2, <1>3, <1>4, <1>5

(* The execution prefix, and the snapshot every run starts from, have read *)
(* no dynamic input (discovery and prefix execution in emulate), whatever  *)
(* the firmware and the prefix input.  The hypothesis is that there is a   *)
(* block limit: with instr_limit 0 its timer is never started, nothing     *)
(* stops the prefix execution, and the property fails.                     *)
THEOREM PrefixReadsNoInput ==
  ASSUME BlockLimit > 0
  PROVE  Spec => []SnapshotBeforeInput
<1>1. Init => TInv /\ ChildInv /\ PrefixInv /\ ReadyInv /\ RunInv
  BY InitTyped, InitChild DEF Init, PrefixInv, ReadyInv, RunInv
<1>2. TInv /\ ChildInv /\ PrefixInv /\ ReadyInv /\ RunInv /\ [Next]_vars
        => (TInv /\ ChildInv /\ PrefixInv /\ ReadyInv /\ RunInv)'
  BY StepTyped, StepChild, StepPrefix, StepReady, StepRun
<1>3. TInv /\ PrefixInv /\ ReadyInv => SnapshotBeforeInput
  <2> SUFFICES ASSUME TInv, PrefixInv, ReadyInv, phase \in {"prefix", "ready"},
                      NEW n \in DOMAIN proc.m.log
               PROVE  proc.m.log[n].src # "input"
    BY DEF SnapshotBeforeInput
  <2>1. SetupOk /\ ProcOk(proc) /\ proc.m.log \in Seq(Cell)
    BY DEF TInv, ProcOk, ProcType, MachineType
  <2>2. Begins(proc.m.log, Cells("prefix", setup.prefix))
    BY <2>1, OwnBegins DEF PrefixInv, ReadyInv, SnapshotOk
  <2>3. /\ setup.prefix \in Seq(Byte) /\ Len(Cells("prefix", setup.prefix)) = Len(setup.prefix)
        /\ \A i \in 1 .. Len(setup.prefix) :
             Cells("prefix", setup.prefix)[i] = [src |-> "prefix", at |-> i, val |-> setup.prefix[i]]
    BY <2>1, CellsAre DEF SetupOk
  <2>4. n \in 1 .. Len(proc.m.log) /\ n \in 1 .. Len(setup.prefix)
    BY <2>1, <2>2, <2>3 DEF Begins
  <2>5. proc.m.log[n] = [src |-> "prefix", at |-> n, val |-> setup.prefix[n]]
    BY <2>2, <2>3, <2>4 DEF Begins
  <2> QED
    BY <2>5
<1> QED
  BY <1>1, <1>2, <1>3, PTL DEF Spec

(* Every run, the first, the later ones and the single one, reads the      *)
(* prefix input and then its own input in order (get_fuzz, load_fuzz,      *)
(* restore_snapshot), provided the prefix input was used up by the time of *)
(* the snapshot: emulate stops the prefix one block early, and input due   *)
(* in that block is read in the first run and lost in the later ones.      *)
THEOREM RunsReadTheirInput ==
  ASSUME BlockLimit > 0
  PROVE  Spec => [](PrefixUsed => ReadsOwnInput)
<1>1. Init => TInv /\ ChildInv /\ PrefixInv /\ ReadyInv /\ RunInv
  BY InitTyped, InitChild DEF Init, PrefixInv, ReadyInv, RunInv
<1>2. TInv /\ ChildInv /\ PrefixInv /\ ReadyInv /\ RunInv /\ [Next]_vars
        => (TInv /\ ChildInv /\ PrefixInv /\ ReadyInv /\ RunInv)'
  BY StepTyped, StepChild, StepPrefix, StepReady, StepRun
<1>3. TInv /\ RunInv => (PrefixUsed => ReadsOwnInput)
  <2> SUFFICES ASSUME TInv, RunInv, Used, phase = "run"
               PROVE  IsPrefix(proc.m.log, Source)
    BY DEF ReadsOwnInput, Source, PrefixUsed
  <2>1. Begins(proc.m.log, Source)
    BY DEF RunInv, RunOk
  <2>2. Source \in Seq(Cell)
    BY SourceIs
  <2>3. proc.m.log \in Seq(Cell)
    BY DEF TInv, ProcOk, ProcType, MachineType
  <2> DEFINE s == proc.m.log
             t == Source
  <2>4. s \in Seq(Cell) /\ t \in Seq(Cell) /\ Begins(s, t)
    BY <2>1, <2>2, <2>3
  <2> HIDE DEF s, t
  <2>5. SubSeq(s, 1, Len(s)) = SubSeq(t, 1, Len(s))
    BY <2>4 DEF Begins
  <2>6. IsPrefix(s, t)
    BY <2>4, <2>5 DEF IsPrefix, Begins
  <2> QED
    BY <2>6 DEF s, t
<1> QED
  BY <1>1, <1>2, <1>3, PTL DEF Spec

-----------------------------------------------------------------------------
(* Two runs on the same input.                                             *)

\* The processes differ at most in what their next steps do not depend on: what is left of the
\* buffer and the MMIO models by an earlier run.
Sim(p, q) ==
  /\ q.m = p.m /\ q.input_mode_SHM = p.input_mode_SHM
  /\ q.input_already_given = p.input_already_given
  /\ q.duplicate_exit = p.duplicate_exit /\ q.custom_exit_reason = p.custom_exit_reason
  /\ q.running = p.running /\ q.err = p.err
  /\ ~p.is_discovery_child /\ ~q.is_discovery_child /\ ~p.exited /\ ~q.exited
  /\ IF p.input_already_given
     THEN /\ q.fuzz_size = p.fuzz_size /\ q.fuzz_cursor = p.fuzz_cursor
          /\ ~p.input_mode_SHM => q.fuzz = p.fuzz
     ELSE p.fuzz_cursor = p.fuzz_size /\ q.fuzz_cursor = q.fuzz_size

\* Both have kept their input and role.
LEMMA SimSame ==
  ASSUME NEW p, NEW q, Sim(p, q), NEW x, NEW y,
         SameInput(p, x), SameInput(q, y), SameRole(p, x), SameRole(q, y), y.m = x.m,
         y.duplicate_exit = x.duplicate_exit, y.custom_exit_reason = x.custom_exit_reason,
         y.running = x.running
  PROVE  Sim(x, y)
  BY DEF Sim, SameInput, SameRole

\* do_exit in two processes that are alike.
LEMMA SimExit ==
  ASSUME NEW p, ProcOk(p), NEW q, ProcOk(q), Sim(p, q), NEW err \in {"ok", "crash"}
  PROVE  Sim(do_exit(p, err), do_exit(q, err))
<1> DEFINE x == do_exit(p, err)
           y == do_exit(q, err)
<1>1. /\ x \in ProcType /\ x.m = p.m /\ SameInput(p, x) /\ SameRole(p, x) /\ Stopped(p, x, err)
      /\ y \in ProcType /\ y.m = q.m /\ SameInput(q, y) /\ SameRole(q, y) /\ Stopped(q, y, err)
  BY ExitIs DEF ProcOk
<1> HIDE DEF x, y
<1>2. /\ p.duplicate_exit \in BOOLEAN /\ x.duplicate_exit \in BOOLEAN /\ y.duplicate_exit \in BOOLEAN
      /\ x.running \in BOOLEAN /\ y.running \in BOOLEAN
  BY <1>1 DEF ProcOk, ProcType
<1>3. /\ y.m = x.m /\ y.duplicate_exit = x.duplicate_exit
      /\ y.custom_exit_reason = x.custom_exit_reason /\ y.running = x.running
  BY <1>1, <1>2 DEF Sim, Stopped
<1>4. Sim(x, y)
  BY <1>1, <1>3, SimSame
<1> QED
  BY <1>4 DEF x, y

\* The same change of the machine in two processes that are alike.
LEMMA SimMachine ==
  ASSUME NEW p, ProcOk(p), NEW q, ProcOk(q), Sim(p, q), NEW m, MachineOk(m)
  PROVE  /\ Sim([p EXCEPT !.m = m], [q EXCEPT !.m = m])
         /\ ProcOk([p EXCEPT !.m = m]) /\ ProcOk([q EXCEPT !.m = m])
         /\ [p EXCEPT !.m = m].m = m
<1> DEFINE x == [p EXCEPT !.m = m]
           y == [q EXCEPT !.m = m]
<1>1. /\ x \in ProcType /\ x.m = m /\ SameInput(p, x) /\ SameRole(p, x) /\ Unstopped(p, x)
      /\ y \in ProcType /\ y.m = m /\ SameInput(q, y) /\ SameRole(q, y) /\ Unstopped(q, y)
  BY MachineIs DEF ProcOk, MachineOk
<1> HIDE DEF x, y
<1>2. /\ y.duplicate_exit = x.duplicate_exit /\ y.custom_exit_reason = x.custom_exit_reason
      /\ y.running = x.running
  BY <1>1 DEF Sim, Unstopped
<1>3. Sim(x, y)
  BY <1>1, <1>2, SimSame
<1>4. ProcOk(x) /\ ProcOk(y)
  BY <1>1 DEF ProcOk, SameInput
<1> QED
  BY <1>1, <1>3, <1>4 DEF x, y

\* do_exit keeps the types.
LEMMA ExitOk ==
  ASSUME NEW p, ProcOk(p), NEW err \in {"ok", "crash"}
  PROVE  ProcOk(do_exit(p, err))
<1>1. LET q == do_exit(p, err) IN q \in ProcType /\ q.m = p.m /\ SameInput(p, q)
  BY ExitIs DEF ProcOk
<1> QED
  BY <1>1 DEF ProcOk, SameInput

\* The block hook of the timers in two processes that are alike.
LEMMA SimTick ==
  ASSUME NEW p, ProcOk(p), NEW q, ProcOk(q), Sim(p, q)
  PROVE  Sim(timer_tick(p), timer_tick(q)) /\ ProcOk(timer_tick(p)) /\ ProcOk(timer_tick(q))
<1> DEFINE m == Elapsed(p.m, p.is_discovery_child)
           x == [p EXCEPT !.m = m]
           y == [q EXCEPT !.m = m]
<1>1. /\ timer_tick(p) = IF Expired(p.m) THEN do_exit(x, "ok") ELSE x
      /\ timer_tick(q) = IF Expired(p.m) THEN do_exit(y, "ok") ELSE y
  <2>1. q.m = p.m /\ q.is_discovery_child = p.is_discovery_child
    <3>1. p.is_discovery_child \in BOOLEAN /\ q.is_discovery_child \in BOOLEAN
      BY DEF ProcOk, ProcType
    <3> QED
      BY <3>1 DEF Sim
  <2> QED
    BY <2>1 DEF timer_tick
<1>2. MachineOk(m)
  BY ElapsedIs DEF ProcOk, ProcType
<1> HIDE DEF m
<1>3. Sim(x, y) /\ ProcOk(x) /\ ProcOk(y)
  BY <1>2, SimMachine
<1> HIDE DEF x, y
<1>4. Sim(do_exit(x, "ok"), do_exit(y, "ok")) /\ ProcOk(do_exit(x, "ok")) /\ ProcOk(do_exit(y, "ok"))
  BY <1>3, SimExit, ExitOk
<1> QED
  BY <1>1, <1>3, <1>4

\* The hook of an exit block in two processes that are alike.
LEMMA SimHit ==
  ASSUME NEW p, ProcOk(p), NEW q, ProcOk(q), Sim(p, q)
  PROVE  Sim(hook_block_exit_at(p), hook_block_exit_at(q))
<1> DEFINE m == Hit(p.m)
           x == [p EXCEPT !.m = m]
           y == [q EXCEPT !.m = m]
<1>1. MachineOk(m)
  BY HitIs DEF ProcOk
<1>2. q.m = p.m
  BY DEF Sim
<1>3. /\ hook_block_exit_at(p) = IF x.m.hits = ExitAtHitLimit THEN do_exit(x, "ok") ELSE x
      /\ hook_block_exit_at(q) = IF y.m.hits = ExitAtHitLimit THEN do_exit(y, "ok") ELSE y
  BY <1>2 DEF hook_block_exit_at
<1> HIDE DEF m
<1>4. Sim(x, y) /\ ProcOk(x) /\ ProcOk(y)
  BY <1>1, SimMachine
<1> HIDE DEF x, y
<1>5. Sim(do_exit(x, "ok"), do_exit(y, "ok")) /\ y.m = x.m
  BY <1>4, SimExit DEF Sim
<1> QED
  BY <1>3, <1>4, <1>5

\* The hooks and the step to the next block in two processes that are alike.
LEMMA SimEntered ==
  ASSUME NEW p, ProcOk(p), NEW q, ProcOk(q), Sim(p, q), SetupOk
  PROVE  /\ Sim(Hooked(p), Hooked(q)) /\ Sim(Advance(Hooked(p)), Advance(Hooked(q)))
         /\ ProcOk(Hooked(p)) /\ ProcOk(Hooked(q))
         /\ ProcOk(Advance(Hooked(p))) /\ ProcOk(Advance(Hooked(q)))
<1>1. ProcOk(Hooked(p)) /\ ProcOk(Hooked(q))
  BY HookedIs DEF HookKeeps
<1>2. KindAt(q) = KindAt(p)
  BY DEF KindAt, Sim
<1>3. Sim(Hooked(p), Hooked(q))
  <2>1. Sim(timer_tick(p), timer_tick(q)) /\ ProcOk(timer_tick(p)) /\ ProcOk(timer_tick(q))
    BY SimTick
  <2>2. Sim(hook_block_exit_at(timer_tick(p)), hook_block_exit_at(timer_tick(q)))
    BY <2>1, SimHit
  <2> QED
    BY <1>2, <2>1, <2>2 DEF Hooked
<1> DEFINE h == Hooked(p)
           i == Hooked(q)
           m == NextPc(h.m)
<1> HIDE DEF h, i
<1>4. ProcOk(h) /\ ProcOk(i) /\ Sim(h, i) /\ i.m = h.m
  BY <1>1, <1>3 DEF h, i, Sim
<1>5. MachineOk(m)
  BY <1>4, NextPcIs DEF ProcOk
<1>6. Advance(h) = [h EXCEPT !.m = m] /\ Advance(i) = [i EXCEPT !.m = m]
  BY <1>4 DEF Advance
<1> HIDE DEF m
<1>7. Sim(Advance(h), Advance(i)) /\ ProcOk(Advance(h)) /\ ProcOk(Advance(i))
  BY <1>4, <1>5, <1>6, SimMachine
<1> QED
  BY <1>1, <1>3, <1>7 DEF h, i

\* A crash the native code decides on in two processes that are alike.
LEMMA SimCrash ==
  ASSUME NEW p, ProcOk(p), NEW q, ProcOk(q), Sim(p, q)
  PROVE  Sim(ForcedCrash(p), ForcedCrash(q))
<1>1. q.m = p.m
  BY DEF Sim
<1>2. Sim(do_exit(p, "crash"), do_exit(q, "crash"))
  BY SimExit
<1> QED
  BY <1>1, <1>2 DEF ForcedCrash

\* A refused access in two processes that are alike.
LEMMA SimRefused ==
  ASSUME NEW p, ProcOk(p), NEW q, ProcOk(q), Sim(p, q)
  PROVE  Sim(Refused(p), Refused(q))
<1> DEFINE x == [p EXCEPT !.err = "fault", !.running = FALSE]
           y == [q EXCEPT !.err = "fault", !.running = FALSE]
<1>1. q.m = p.m /\ p \in ProcType /\ q \in ProcType
  BY DEF Sim, ProcOk
<1>2. /\ Refused(p) = IF p.m.last = 1 THEN x ELSE p
      /\ Refused(q) = IF p.m.last = 1 THEN y ELSE q
  BY <1>1 DEF Refused
<1>3. /\ x.m = p.m /\ SameInput(p, x) /\ x.exited = p.exited /\ x.err = "fault"
      /\ x.is_discovery_child = p.is_discovery_child /\ x.running = FALSE
      /\ x.custom_exit_reason = p.custom_exit_reason /\ x.duplicate_exit = p.duplicate_exit
  BY <1>1 DEF ProcType, SameInput
<1>4. /\ y.m = q.m /\ SameInput(q, y) /\ y.exited = q.exited /\ y.err = "fault"
      /\ y.is_discovery_child = q.is_discovery_child /\ y.running = FALSE
      /\ y.custom_exit_reason = q.custom_exit_reason /\ y.duplicate_exit = q.duplicate_exit
  BY <1>1 DEF ProcType, SameInput
<1> HIDE DEF x, y
<1>5. Sim(x, y)
  BY <1>3, <1>4 DEF Sim, SameInput
<1> QED
  BY <1>2, <1>5

\* Loading the input, which overwrites what an earlier run has left in the buffer.
LEMMA SimLoad ==
  ASSUME NEW p, ProcOk(p), NEW q, ProcOk(q), Sim(p, q), ~p.input_already_given,
         NEW input \in Seq(Byte)
  PROVE  /\ Sim(load_delayed_input(p, input), load_delayed_input(q, input))
         /\ load_delayed_input(p, input).input_already_given
<1> DEFINE x == load_delayed_input(p, input)
           y == load_delayed_input(q, input)
<1>1. /\ Loaded(p, x, "input", input) /\ x.input_already_given
      /\ Loaded(q, y, "input", input) /\ y.input_already_given
  BY DelayedIs
<1> HIDE DEF x, y
<1>2. /\ p.fuzz_size = p.fuzz_cursor /\ q.fuzz_size = q.fuzz_cursor /\ q.m = p.m
      /\ q.input_mode_SHM = p.input_mode_SHM
      /\ q.duplicate_exit = p.duplicate_exit /\ q.custom_exit_reason = p.custom_exit_reason
      /\ q.running = p.running /\ q.err = p.err
      /\ ~p.is_discovery_child /\ ~q.is_discovery_child /\ ~p.exited /\ ~q.exited
  BY DEF Sim
<1>3. x.input_already_given = TRUE /\ y.input_already_given = TRUE
  BY <1>1 DEF Loaded, ProcOk, ProcType
<1>4. /\ x.m = p.m /\ y.m = q.m /\ x.exited = p.exited /\ x.running = p.running
      /\ y.exited = q.exited /\ y.running = q.running
      /\ x.input_mode_SHM = p.input_mode_SHM /\ y.input_mode_SHM = q.input_mode_SHM
      /\ x.duplicate_exit = p.duplicate_exit /\ y.duplicate_exit = q.duplicate_exit
      /\ x.custom_exit_reason = p.custom_exit_reason
      /\ y.custom_exit_reason = q.custom_exit_reason /\ x.err = p.err /\ y.err = q.err
      /\ x.is_discovery_child = p.is_discovery_child /\ y.is_discovery_child = q.is_discovery_child
  BY <1>1, <1>2 DEF Loaded
<1>5. y.fuzz_size = x.fuzz_size /\ y.fuzz_cursor = x.fuzz_cursor
      /\ (~p.input_mode_SHM => y.fuzz = x.fuzz)
  <2>1. CASE p.input_mode_SHM
    BY <1>1, <1>2, <2>1 DEF Loaded
  <2>2. CASE ~p.input_mode_SHM
    BY <1>1, <1>2, <2>2 DEF Loaded
  <2> QED
    BY <2>1, <2>2
<1>6. Sim(x, y)
  BY <1>2, <1>3, <1>4, <1>5 DEF Sim
<1> QED
  BY <1>1, <1>6 DEF x, y

\* A read of the input by two processes that are alike.
LEMMA SimServed ==
  ASSUME NEW p, ProcOk(p), NEW q, ProcOk(q), Sim(p, q), p.input_already_given,
         NEW size \in {1, 2}, NEW input \in Seq(Byte),
         NEW x, Served(p, x, size, input), NEW y, Served(q, y, size, input)
  PROVE  Sim(x, y)
<1>1. /\ q.m = p.m /\ q.input_mode_SHM = p.input_mode_SHM /\ q.input_already_given
      /\ q.duplicate_exit = p.duplicate_exit /\ q.custom_exit_reason = p.custom_exit_reason
      /\ q.running = p.running /\ q.err = p.err
      /\ ~p.is_discovery_child /\ ~q.is_discovery_child /\ ~p.exited /\ ~q.exited
      /\ q.fuzz_size = p.fuzz_size /\ q.fuzz_cursor = p.fuzz_cursor
      /\ ~p.input_mode_SHM => q.fuzz = p.fuzz
  BY DEF Sim
<1>2. Enough(q, size) <=> Enough(p, size)
  BY <1>1 DEF Enough
<1>3. CASE Enough(p, size)
  <2>1. Consumed(p, x, size, input) /\ Consumed(q, y, size, input)
    BY <1>1, <1>2, <1>3 DEF Served
  <2>2. \A i : FuzzAt(q, input, i) = FuzzAt(p, input, i)
    <3>1. Fuzz(q, input) = Fuzz(p, input)
      BY <1>1 DEF Fuzz
    <3> QED
      BY <3>1 DEF FuzzAt
  <2> DEFINE c == [i \in 1 .. size |-> FuzzAt(p, input, p.fuzz_cursor + i)]
             d == [i \in 1 .. size |-> FuzzAt(q, input, q.fuzz_cursor + i)]
  <2>3. d = c
    BY <1>1, <2>2
  <2>4. x.m = Reads(p.m, c) /\ y.m = Reads(q.m, d)
    BY <2>1 DEF Consumed
  <2> HIDE DEF c, d
  <2>5. y.m = x.m
    BY <1>1, <2>3, <2>4
  <2> QED
    BY <1>1, <2>1, <2>5 DEF Consumed, SameRole, Unstopped, Sim
<1>4. CASE ~Enough(p, size)
  <2>1. /\ ProcOk(x) /\ x.m = p.m /\ SameInput(p, x) /\ x.err = p.err /\ x.exited = p.exited
        /\ x.is_discovery_child = p.is_discovery_child /\ Stopped(p, x, "ok")
        /\ ProcOk(y) /\ y.m = q.m /\ SameInput(q, y) /\ y.err = q.err /\ y.exited = q.exited
        /\ y.is_discovery_child = q.is_discovery_child /\ Stopped(q, y, "ok")
    BY <1>1, <1>2, <1>4 DEF Served
  <2>2. /\ p.duplicate_exit \in BOOLEAN /\ x.duplicate_exit \in BOOLEAN
        /\ y.duplicate_exit \in BOOLEAN /\ x.running \in BOOLEAN /\ y.running \in BOOLEAN
    BY <2>1 DEF ProcOk, ProcType
  <2>3. /\ y.duplicate_exit = x.duplicate_exit
        /\ y.custom_exit_reason = x.custom_exit_reason /\ y.running = x.running
    BY <1>1, <2>1, <2>2 DEF Stopped
  <2> QED
    BY <1>1, <2>1, <2>3 DEF SameInput, Sim
<1> QED
  BY <1>3, <1>4

\* A read by two processes that are alike, whether or not they have their input.
LEMMA SimGet ==
  ASSUME NEW p, ProcOk(p), NEW q, ProcOk(q), Sim(p, q), NEW size \in {1, 2},
         NEW input \in Seq(Byte)
  PROVE  Sim(get_fuzz(p, size, input), get_fuzz(q, size, input))
<1> DEFINE r == IF NoLoad(p, size) THEN p ELSE load_delayed_input(p, input)
           s == IF NoLoad(q, size) THEN q ELSE load_delayed_input(q, input)
           x == get_fuzz(p, size, input)
           y == get_fuzz(q, size, input)
<1>1. ProcOk(r) /\ Served(r, x, size, input) /\ ProcOk(s) /\ Served(s, y, size, input)
  BY GetIs
<1>2. Sim(r, s) /\ r.input_already_given
  <2>1. CASE p.input_already_given
    <3>1. NoLoad(p, size) /\ NoLoad(q, size)
      BY <2>1 DEF NoLoad, Sim
    <3> QED
      BY <2>1, <3>1
  <2>2. CASE ~p.input_already_given
    <3>1. ~Enough(p, size) /\ ~Enough(q, size)
      <4>1. /\ p.fuzz_cursor = p.fuzz_size /\ q.fuzz_cursor = q.fuzz_size
            /\ p.fuzz_size \in Nat /\ q.fuzz_size \in Nat
        BY <2>2 DEF Sim, ProcOk, ProcType
      <4> QED
        BY <4>1 DEF Enough
    <3>2. ~NoLoad(p, size) /\ ~NoLoad(q, size)
      BY <2>2, <3>1 DEF NoLoad, Sim
    <3>3. /\ Sim(load_delayed_input(p, input), load_delayed_input(q, input))
          /\ load_delayed_input(p, input).input_already_given
      BY <2>2, SimLoad
    <3> QED
      BY <3>2, <3>3
  <2> QED
    BY <2>1, <2>2
<1> HIDE DEF r, s, x, y
<1>3. Sim(x, y)
  BY <1>1, <1>2, SimServed
<1> QED
  BY <1>3 DEF x, y

\* The same block.
LEMMA SimExec ==
  ASSUME NEW p, ProcOk(p), NEW q, ProcOk(q), Sim(p, q), SetupOk, NoLinear,
         NEW input \in Seq(Byte)
  PROVE  Sim(Exec(p, input), Exec(q, input))
<1> DEFINE h == Hooked(p)
           i == Hooked(q)
           d == Advance(h)
           e == Advance(i)
           kind == KindAt(p)
<1>1. /\ Sim(h, i) /\ Sim(d, e) /\ ProcOk(d) /\ ProcOk(e)
  BY SimEntered
<1>2. kind \in Kinds /\ kind # "linear" /\ KindAt(q) = kind
  BY KindIs DEF NoLinear, KindAt, Sim
<1>3. /\ Exec(p, input) = IF h.running \/ setup.finishes THEN Executed(kind, d, input) ELSE h
      /\ Exec(q, input) = IF i.running \/ setup.finishes THEN Executed(kind, e, input) ELSE i
  BY <1>2 DEF Exec
<1> HIDE DEF h, i, d, e, kind
<1>4. i.running = h.running
  BY <1>1 DEF Sim
<1>5. Sim(Executed(kind, d, input), Executed(kind, e, input))
  <2>1. CASE kind \in {"quiet", "exit"}
    BY <1>1, <2>1, ExecutedIs
  <2>2. CASE kind = "read"
    <3>1. Sim(get_fuzz(d, 1, input), get_fuzz(e, 1, input))
      BY <1>1, SimGet
    <3> QED
      BY <2>2, <3>1, ExecutedIs
  <2>3. CASE kind = "wide"
    <3>1. Sim(get_fuzz(d, 2, input), get_fuzz(e, 2, input))
      BY <1>1, SimGet
    <3> QED
      BY <2>3, <3>1, ExecutedIs
  <2>4. CASE kind = "crash"
    BY <1>1, <2>4, ExecutedIs, SimCrash
  <2>5. CASE kind = "fault"
    BY <1>1, <2>5, ExecutedIs, SimRefused
  <2> QED
    BY <1>2, <2>1, <2>2, <2>3, <2>4, <2>5 DEF Kinds
<1> QED
  BY <1>1, <1>3, <1>4, <1>5

\* A run as it starts, with the snapshot restored.
StartOk(p) ==
  /\ p.m = snapshot /\ p.fuzz_cursor = p.fuzz_size /\ Serving(p) /\ p.running /\ ~p.exited
  /\ ~p.input_already_given /\ ~p.duplicate_exit /\ p.custom_exit_reason = "ok" /\ p.err = "ok"

\* The first n blocks of a run on input i.
Chain(g, n, i) ==
  /\ StartOk(g[0])
  /\ \A k \in 0 .. n : ProcOk(g[k])
  /\ \A k \in 0 .. n - 1 : g[k].running /\ g[k + 1] = Exec(g[k], i)

\* What EndRun records of a process.
Result(p) == [log |-> p.m.log, status |-> Status(p)]

\* The run on i that outcome tells of; if i is running again, it is somewhere on that run.
Recorded(g, n, i) ==
  /\ Chain(g, n, i) /\ ~g[n].running /\ outcome[i] = Result(g[n])
  /\ phase = "run" /\ Current = i => \E j \in 0 .. n : Sim(proc, g[j])
Running(g, n) == Chain(g, n, Current) /\ Sim(proc, g[n])

AskedInv ==
  /\ outcome = [i \in Inputs |-> outcome[i]]
  /\ phase \in {"discovery", "prefix"} => afl = NoInput
  /\ phase \in {"discovery", "prefix"} \/ (phase = "run" /\ setup.mode = "single")
       => \A i \in Inputs : outcome[i] = NoResult
  /\ setup.mode # "single" /\ (phase = "run" \/ (phase = "ready" /\ afl # NoInput))
       => afl \in Inputs /\ Current = afl

Comparable == setup.mode # "single" /\ Used /\ NoLinear /\ phase \in {"ready", "run"}
AlikeInv ==
  Comparable =>
    /\ phase = "run" => \E n \in Nat : \E g : Running(g, n)
    /\ \A i \in Inputs : outcome[i] # NoResult => \E n \in Nat : \E g : Recorded(g, n, i)

\* Two runs start alike.
LEMMA SimStart ==
  ASSUME NEW p, ProcOk(p), StartOk(p), NEW q, ProcOk(q), StartOk(q)
  PROVE  Sim(p, q)
<1>1. p \in ProcType /\ q \in ProcType
  BY DEF ProcOk
<1>2. /\ p.running = TRUE /\ q.running = TRUE
      /\ p.input_already_given = FALSE /\ q.input_already_given = FALSE
      /\ p.duplicate_exit = FALSE /\ q.duplicate_exit = FALSE
      /\ p.input_mode_SHM = q.input_mode_SHM
  BY <1>1 DEF ProcType, StartOk, Serving
<1> QED
  BY <1>2 DEF StartOk, Serving, Sim

\* They end alike.
LEMMA SimResult ==
  ASSUME NEW p, NEW q, Sim(p, q)
  PROVE  Result(q) = Result(p)
  BY DEF Sim, Result, Status

\* One block more of a run.
LEMMA ChainGrows ==
  ASSUME SetupOk, NEW i \in Seq(Byte), NEW n \in Nat, NEW g, Chain(g, n, i), g[n].running
  PROVE  \E h : Chain(h, n + 1, i) /\ h[n + 1] = Exec(g[n], i)
<1> DEFINE e == Exec(g[n], i)
           h == [k \in 0 .. n + 1 |-> IF k <= n THEN g[k] ELSE e]
<1>1. ProcOk(g[n]) /\ StartOk(g[0])
  BY DEF Chain
<1>2. ProcOk(e)
  <2>1. Ran(g[n], e, i)
    BY <1>1, ExecRan
  <2> HIDE DEF e
  <2> QED
    BY <1>1, <2>1, RanTyped
<1>3. e = Exec(g[n], i)
  OBVIOUS
<1> HIDE DEF e
<1>4. (\A k \in 0 .. n : h[k] = g[k]) /\ h[n + 1] = e
  OBVIOUS
<1> HIDE DEF h
<1>5. ASSUME NEW k \in 0 .. n + 1
      PROVE  ProcOk(h[k])
  <2>1. CASE k \in 0 .. n
    <3>1. ProcOk(g[k]) /\ h[k] = g[k]
      BY <1>4, <2>1 DEF Chain
    <3> QED
      BY <3>1
  <2>2. CASE k = n + 1
    BY <1>2, <1>4, <2>2
  <2> QED
    BY <2>1, <2>2
<1>6. ASSUME NEW k \in 0 .. (n + 1) - 1
      PROVE  h[k].running /\ h[k + 1] = Exec(h[k], i)
  <2>1. CASE k = n
    BY <1>3, <1>4, <2>1
  <2>2. CASE k # n
    <3>1. k \in 0 .. n - 1 /\ k + 1 \in 0 .. n /\ k \in 0 .. n
      BY <2>2
    <3>2. g[k].running /\ g[k + 1] = Exec(g[k], i)
      BY <3>1 DEF Chain
    <3>3. h[k] = g[k] /\ h[k + 1] = g[k + 1]
      BY <1>4, <3>1
    <3> QED
      BY <3>2, <3>3
  <2> QED
    BY <2>1, <2>2
<1>7. h[0] = g[0]
  BY <1>4
<1>8. Chain(h, n + 1, i)
  BY <1>1, <1>5, <1>6, <1>7 DEF Chain
<1> QED
  BY <1>3, <1>4, <1>8

\* A run that has just started.
LEMMA ChainStarts ==
  ASSUME NEW p, ProcOk(p), StartOk(p), NEW i
  PROVE  \E g : Chain(g, 0, i) /\ g[0] = p
<1> DEFINE g == [k \in 0 .. 0 |-> p]
<1>1. g[0] = p /\ \A k \in 0 .. 0 : g[k] = p
  OBVIOUS
<1> HIDE DEF g
<1>2. Chain(g, 0, i)
  BY <1>1 DEF Chain
<1> QED
  BY <1>1, <1>2

\* A run as long as the setup and the snapshot stay.
LEMMA ChainPrimed ==
  ASSUME setup' = setup, snapshot' = snapshot,
         NEW CONSTANT g, NEW CONSTANT n, NEW CONSTANT i
  PROVE  Chain(g, n, i)' <=> Chain(g, n, i)
<1>1. StartOk(g[0])' <=> StartOk(g[0])
  BY DEF StartOk, Serving
<1>2. \A k : ProcOk(g[k])' <=> ProcOk(g[k])
  BY DEF ProcOk, MachineOk
<1>3. \A k : Exec(g[k], i)' = Exec(g[k], i)
  BY DEF Exec, Hooked, KindAt, Advance, NextPc
<1> QED
  BY <1>1, <1>2, <1>3 DEF Chain

\* A recorded run after a step, of the new values.
LEMMA RecordedPrimed ==
  ASSUME setup' = setup, snapshot' = snapshot,
         NEW CONSTANT g, NEW CONSTANT n, NEW CONSTANT i, Chain(g, n, i), ~g[n].running,
         outcome'[i] = Result(g[n]),
         phase' = "run" /\ Current' = i => \E j \in 0 .. n : Sim(proc', g[j])
  PROVE  Recorded(g, n, i)'
<1>1. Chain(g, n, i)'
  BY ChainPrimed
<1>2. Result(g[n])' = Result(g[n])
  BY DEF Result, Status
<1> QED
  BY <1>1, <1>2 DEF Recorded

\* The run that is on after a step, of the new values.
LEMMA RunningPrimed ==
  ASSUME setup' = setup, snapshot' = snapshot, Current' = Current,
         NEW CONSTANT g, NEW CONSTANT n, Chain(g, n, Current), Sim(proc', g[n])
  PROVE  Running(g, n)'
<1>1. \A i : Chain(g, n, i)' <=> Chain(g, n, i)
  BY ChainPrimed
<1>2. PICK i : i = Current
  OBVIOUS
<1>3. Chain(g, n, i)' /\ i = Current'
  BY <1>1, <1>2
<1> QED
  BY <1>3 DEF Running

\* The input AFL asks about is where the emulator looks for it.
LEMMA StepAsked ==
  TInv /\ ReadyInv /\ AskedInv /\ [Next]_vars => AskedInv'
<1> SUFFICES ASSUME TInv, ReadyInv, AskedInv, [Next]_vars
             PROVE  AskedInv'
  OBVIOUS
<1>1. CASE UNCHANGED <<setup, phase, afl, file, shmem, outcome>>
  BY <1>1 DEF AskedInv, Current
<1>2. CASE Block
  BY <1>1, <1>2, BlockIs
<1>3. CASE RunPrefix
  BY <1>3 DEF RunPrefix, AskedInv, Current
<1>4. CASE DiscoveryFails \/ Exits \/ AflCloses
  BY <1>4 DEF DiscoveryFails, Exits, AflCloses, AskedInv
<1>5. CASE TakeSnapshot
  <2>1. /\ phase = "prefix" /\ UNCHANGED <<setup, afl, file, shmem, outcome>>
        /\ phase' = IF setup.mode = "single" THEN "run" ELSE "ready"
    BY <1>5 DEF TakeSnapshot
  <2>2. afl = NoInput
    BY <2>1 DEF AskedInv
  <2> QED
    BY <2>1, <2>2 DEF AskedInv, Current
<1>6. CASE StartRun
  BY <1>6 DEF StartRun, AskedInv, Current, ReadyInv
<1>7. CASE EndRun
  BY <1>7 DEF EndRun, AskedInv, Current
<1>8. CASE \E i \in Inputs : AflAsks(i)
  <2>1. PICK i \in Inputs : AflAsks(i)
    BY <1>8
  <2>2. Current' = i /\ afl' = i /\ phase' = "ready" /\ outcome' = outcome
    BY <2>1 DEF AflAsks, Current
  <2> QED
    BY <2>2 DEF AskedInv
<1>9. CASE UNCHANGED vars
  BY <1>1, <1>9 DEF vars
<1> QED
  BY <1>2, <1>3, <1>4, <1>5, <1>6, <1>7, <1>8, <1>9 DEF Next, Server

\* The run that is on, and any earlier run on its input, after one more block.
LEMMA BlockAlike ==
  TInv /\ ReadyInv /\ RunInv /\ AlikeInv /\ Comparable /\ Block => AlikeInv'
<1> SUFFICES ASSUME TInv, ReadyInv, RunInv, AlikeInv, Comparable, Block
             PROVE  AlikeInv'
  OBVIOUS
<1>1. /\ proc.running /\ proc' = Exec(proc, Given)
      /\ setup' = setup /\ snapshot' = snapshot /\ phase' = phase /\ outcome' = outcome
      /\ Current' = Current
  BY BlockIs DEF Current
<1>2. phase = "run" /\ NoLinear /\ SetupOk /\ ProcOk(proc)
  BY <1>1 DEF Comparable, ReadyInv, TInv
<1>3. Given = Current /\ Current \in Seq(Byte)
  BY <1>2, GivenIs, SourceIs DEF RunInv
<1>4. ASSUME NEW q, ProcOk(q), Sim(proc, q)
      PROVE  Sim(proc', Exec(q, Current)) /\ q.running
  <2>1. Sim(Exec(proc, Current), Exec(q, Current))
    BY <1>2, <1>3, <1>4, SimExec
  <2>2. q.running
    BY <1>1, <1>4 DEF Sim
  <2> QED
    BY <1>1, <1>3, <2>1, <2>2
<1>5. \E n \in Nat : \E g : Running(g, n)'
  <2>1. PICK n \in Nat : \E g : Running(g, n)
    BY <1>2 DEF AlikeInv
  <2>2. PICK g : Running(g, n)
    BY <2>1
  <2>3. Chain(g, n, Current) /\ Sim(proc, g[n]) /\ ProcOk(g[n])
    BY <2>2 DEF Running, Chain
  <2>4. Sim(proc', Exec(g[n], Current)) /\ g[n].running
    BY <1>4, <2>3
  <2>5. PICK h : Chain(h, n + 1, Current) /\ h[n + 1] = Exec(g[n], Current)
    BY <1>2, <1>3, <2>3, <2>4, ChainGrows
  <2> DEFINE m == n + 1
  <2>6. m \in Nat /\ Chain(h, m, Current) /\ Sim(proc', h[m])
    BY <2>4, <2>5
  <2> HIDE DEF m
  <2>7. Running(h, m)'
    BY <1>1, <2>6, RunningPrimed
  <2> QED
    BY <2>6, <2>7
<1>6. ASSUME NEW i \in Inputs, outcome[i] # NoResult
      PROVE  \E n \in Nat : \E g : Recorded(g, n, i)'
  <2>1. PICK n \in Nat : \E g : Recorded(g, n, i)
    BY <1>6 DEF AlikeInv
  <2>2. PICK g : Recorded(g, n, i)
    BY <2>1
  <2>3. Chain(g, n, i) /\ ~g[n].running /\ outcome'[i] = Result(g[n])
    BY <1>1, <2>2 DEF Recorded
  <2>4. ASSUME Current = i
        PROVE  \E j \in 0 .. n : Sim(proc', g[j])
    <3>1. PICK j \in 0 .. n : Sim(proc, g[j])
      BY <1>2, <2>2, <2>4 DEF Recorded
    <3>2. ProcOk(g[j])
      BY <2>3 DEF Chain
    <3>3. Sim(proc', Exec(g[j], i)) /\ g[j].running
      BY <1>4, <2>4, <3>1, <3>2
    <3>4. j \in 0 .. n - 1 /\ j + 1 \in 0 .. n
      BY <2>3, <3>3
    <3>5. g[j + 1] = Exec(g[j], i)
      BY <2>3, <3>4 DEF Chain
    <3> QED
      BY <3>3, <3>4, <3>5
  <2>5. Recorded(g, n, i)'
    BY <1>1, <2>3, <2>4, RecordedPrimed
  <2> QED
    BY <2>5
<1> QED
  BY <1>1, <1>5, <1>6 DEF AlikeInv

\* A run starts where every earlier run on its input started.
LEMMA StartAlike ==
  TInv /\ ReadyInv /\ AlikeInv /\ Comparable /\ StartRun => AlikeInv'
<1> SUFFICES ASSUME TInv, ReadyInv, AlikeInv, Comparable, StartRun
             PROVE  AlikeInv'
  OBVIOUS
<1>1. /\ phase = "ready" /\ phase' = "run" /\ setup' = setup /\ snapshot' = snapshot
      /\ proc' = [proc EXCEPT !.running = TRUE, !.err = "ok"]
      /\ outcome' = outcome /\ Current' = Current
  BY DEF StartRun, Current
<1>2. /\ ProcOk(proc') /\ proc'.m = proc.m /\ SameInput(proc, proc')
      /\ proc'.is_discovery_child = proc.is_discovery_child /\ proc'.exited = proc.exited
      /\ proc'.running /\ proc'.err = "ok" /\ proc'.duplicate_exit = proc.duplicate_exit
      /\ proc'.custom_exit_reason = proc.custom_exit_reason
  BY <1>1, StartedIs DEF TInv
<1>3. StartOk(proc')
  BY <1>1, <1>2 DEF ReadyInv, Comparable, StartOk, Serving, SameInput
<1>4. \E n \in Nat : \E g : Running(g, n)'
  <2>1. PICK g : Chain(g, 0, Current) /\ g[0] = proc'
    BY <1>2, <1>3, ChainStarts
  <2>2. Sim(proc', g[0])
    BY <1>2, <1>3, <2>1, SimStart
  <2>3. Running(g, 0)'
    BY <1>1, <2>1, <2>2, RunningPrimed
  <2> QED
    BY <2>3
<1>5. ASSUME NEW i \in Inputs, outcome[i] # NoResult
      PROVE  \E n \in Nat : \E g : Recorded(g, n, i)'
  <2>1. PICK n \in Nat : \E g : Recorded(g, n, i)
    BY <1>5 DEF AlikeInv, Comparable
  <2>2. PICK g : Recorded(g, n, i)
    BY <2>1
  <2>3. Chain(g, n, i) /\ ~g[n].running /\ outcome'[i] = Result(g[n])
    BY <1>1, <2>2 DEF Recorded
  <2>4. 0 \in 0 .. n /\ ProcOk(g[0]) /\ StartOk(g[0])
    BY <2>3 DEF Chain
  <2>5. Sim(proc', g[0])
    BY <1>2, <1>3, <2>4, SimStart
  <2>6. Recorded(g, n, i)'
    BY <1>1, <2>3, <2>4, <2>5, RecordedPrimed
  <2> QED
    BY <2>6
<1> QED
  BY <1>1, <1>4, <1>5 DEF AlikeInv

\* What a run did is what the run before it on its input did.
LEMMA EndIs ==
  ASSUME TInv, AskedInv, AlikeInv, Comparable, EndRun
  PROVE  /\ Current \in Inputs /\ outcome' = [outcome EXCEPT ![Current] = Result(proc)]
         /\ setup' = setup /\ snapshot' = snapshot /\ phase' = "ready"
         /\ \E n \in Nat : \E g : /\ Chain(g, n, Current) /\ ~g[n].running
                                  /\ Result(g[n]) = Result(proc)
         /\ outcome[Current] # NoResult => outcome[Current] = Result(proc)
<1>1. /\ phase = "run" /\ ~proc.running /\ setup.mode # "single"
      /\ outcome' = [outcome EXCEPT ![afl] = Result(proc)]
      /\ setup' = setup /\ snapshot' = snapshot /\ phase' = "ready"
  BY DEF EndRun, Comparable, Result
<1>2. afl \in Inputs /\ Current = afl
  BY <1>1 DEF AskedInv
<1>3. \E n \in Nat : \E g : Chain(g, n, Current) /\ ~g[n].running /\ Result(g[n]) = Result(proc)
  <2>1. PICK n \in Nat : \E g : Running(g, n)
    BY <1>1 DEF AlikeInv
  <2>2. PICK g : Running(g, n)
    BY <2>1
  <2>3. Chain(g, n, Current) /\ Sim(proc, g[n])
    BY <2>2 DEF Running
  <2>4. ~g[n].running /\ Result(g[n]) = Result(proc)
    BY <1>1, <2>3, SimResult DEF Sim
  <2> QED
    BY <2>3, <2>4
<1>4. ASSUME outcome[Current] # NoResult
      PROVE  outcome[Current] = Result(proc)
  <2>1. PICK n \in Nat : \E g : Recorded(g, n, Current)
    BY <1>2, <1>4 DEF AlikeInv
  <2>2. PICK g : Recorded(g, n, Current)
    BY <2>1
  <2>3. PICK j \in 0 .. n : Sim(proc, g[j])
    BY <1>1, <2>2 DEF Recorded
  <2>4. j = n
    <3>1. ~g[j].running
      BY <1>1, <2>3 DEF Sim
    <3>2. j \in 0 .. n - 1 => g[j].running
      BY <2>2 DEF Recorded, Chain
    <3> QED
      BY <3>1, <3>2
  <2> QED
    BY <2>2, <2>3, <2>4, SimResult DEF Recorded
<1> QED
  BY <1>1, <1>2, <1>3, <1>4

\* A run that has ended is recorded.
LEMMA EndAlike ==
  TInv /\ AskedInv /\ AlikeInv /\ Comparable /\ EndRun => AlikeInv'
<1> SUFFICES ASSUME TInv, AskedInv, AlikeInv, Comparable, EndRun
             PROVE  AlikeInv'
  OBVIOUS
<1>1. /\ Current \in Inputs /\ outcome' = [outcome EXCEPT ![Current] = Result(proc)]
      /\ setup' = setup /\ snapshot' = snapshot /\ phase' = "ready"
      /\ \E n \in Nat : \E g : /\ Chain(g, n, Current) /\ ~g[n].running
                               /\ Result(g[n]) = Result(proc)
  BY EndIs
<1>2. outcome = [i \in Inputs |-> outcome[i]]
  BY DEF AskedInv
<1>3. ASSUME NEW i \in Inputs, outcome'[i] # NoResult
      PROVE  \E n \in Nat : \E g : Recorded(g, n, i)'
  <2>1. CASE i = Current
    <3>1. outcome'[i] = Result(proc)
      BY <1>1, <1>2, <2>1
    <3>2. PICK n \in Nat : \E g : Chain(g, n, i) /\ ~g[n].running /\ Result(g[n]) = Result(proc)
      BY <1>1, <2>1
    <3>3. PICK g : Chain(g, n, i) /\ ~g[n].running /\ Result(g[n]) = Result(proc)
      BY <3>2
    <3>4. Recorded(g, n, i)'
      BY <1>1, <3>1, <3>3, RecordedPrimed
    <3> QED
      BY <3>4
  <2>2. CASE i # Current
    <3>1. outcome'[i] = outcome[i]
      BY <1>1, <1>2, <2>2
    <3>2. PICK n \in Nat : \E g : Recorded(g, n, i)
      BY <1>3, <3>1 DEF AlikeInv
    <3>3. PICK g : Recorded(g, n, i)
      BY <3>2
    <3>4. Recorded(g, n, i)'
      BY <1>1, <3>1, <3>3, RecordedPrimed DEF Recorded
    <3> QED
      BY <3>4
  <2> QED
    BY <2>1, <2>2
<1> QED
  BY <1>1, <1>3 DEF AlikeInv

\* Every step keeps the recorded runs, and the run that is on, at their chains.
LEMMA StepAlike ==
  TInv /\ ReadyInv /\ RunInv /\ AskedInv /\ AlikeInv /\ [Next]_vars => AlikeInv'
<1> SUFFICES ASSUME TInv, ReadyInv, RunInv, AskedInv, AlikeInv, [Next]_vars, Comparable'
             PROVE  AlikeInv'
  BY DEF AlikeInv
<1>1. /\ setup' = setup /\ setup.mode # "single" /\ NoLinear
      /\ phase' \in {"ready", "run"}
  <2>1. setup' = setup
    BY BlockIs DEF Next, Server, RunPrefix, DiscoveryFails, Exits, TakeSnapshot, StartRun, EndRun,
                   AflCloses, AflAsks, vars
  <2> QED
    BY <2>1 DEF Comparable, NoLinear
<1>2. \/ Block /\ phase' = phase
      \/ TakeSnapshot /\ phase = "prefix" /\ phase' = "ready"
      \/ StartRun /\ phase = "ready" /\ phase' = "run"
      \/ EndRun /\ phase = "run" /\ phase' = "ready"
      \/ (\E i \in Inputs : AflAsks(i)) /\ phase = "ready" /\ phase' = "ready"
      \/ UNCHANGED vars
  <2>1. TakeSnapshot => phase' = "ready"
    BY <1>1 DEF TakeSnapshot
  <2>2. EndRun => phase' = "ready"
    BY <1>1 DEF EndRun
  <2> QED
    BY <1>1, <2>1, <2>2, PhaseMoves
<1>3. CASE TakeSnapshot /\ phase = "prefix" /\ phase' = "ready"
  <2>1. outcome' = outcome
    BY <1>3 DEF TakeSnapshot
  <2> QED
    BY <1>3, <2>1 DEF AskedInv, AlikeInv
<1>4. ASSUME snapshot' = snapshot, phase \in {"ready", "run"}
      PROVE  Comparable
  BY <1>1, <1>4 DEF Comparable, Used
<1>5. CASE Block /\ phase' = phase
  BY <1>1, <1>4, <1>5, BlockIs, BlockAlike
<1>6. CASE StartRun /\ phase = "ready"
  BY <1>4, <1>6, StartAlike DEF StartRun
<1>7. CASE EndRun /\ phase = "run"
  BY <1>4, <1>7, EndAlike DEF EndRun
<1>8. CASE (\E i \in Inputs : AflAsks(i)) /\ phase = "ready" /\ phase' = "ready"
  <2>1. outcome' = outcome /\ snapshot' = snapshot /\ phase' = "ready" /\ Comparable
    BY <1>4, <1>8 DEF AflAsks
  <2>2. ASSUME NEW i \in Inputs, outcome[i] # NoResult
        PROVE  \E n \in Nat : \E g : Recorded(g, n, i)'
    <3>1. PICK n \in Nat : \E g : Recorded(g, n, i)
      BY <2>1, <2>2 DEF AlikeInv
    <3>2. PICK g : Recorded(g, n, i)
      BY <3>1
    <3>3. Recorded(g, n, i)'
      BY <1>1, <2>1, <3>2, RecordedPrimed DEF Recorded
    <3> QED
      BY <3>3
  <2> QED
    BY <2>1, <2>2 DEF AlikeInv
<1>9. CASE UNCHANGED vars
  <2>1. UNCHANGED <<setup, phase, proc, snapshot, file, shmem, outcome>> /\ Current' = Current
    BY <1>9 DEF vars, Current
  <2>2. Comparable
    BY <1>1, <1>4, <2>1
  <2>3. ASSUME phase = "run"
        PROVE  \E n \in Nat : \E g : Running(g, n)'
    <3>1. PICK n \in Nat : \E g : Running(g, n)
      BY <2>2, <2>3 DEF AlikeInv
    <3>2. PICK g : Running(g, n)
      BY <3>1
    <3>3. Running(g, n)'
      BY <2>1, <3>2, RunningPrimed DEF Running
    <3> QED
      BY <3>3
  <2>4. ASSUME NEW i \in Inputs, outcome[i] # NoResult
        PROVE  \E n \in Nat : \E g : Recorded(g, n, i)'
    <3>1. PICK n \in Nat : \E g : Recorded(g, n, i)
      BY <2>2, <2>4 DEF AlikeInv
    <3>2. PICK g : Recorded(g, n, i)
      BY <3>1
    <3>3. Recorded(g, n, i)'
      BY <2>1, <3>2, RecordedPrimed DEF Recorded
    <3> QED
      BY <3>3
  <2> QED
    BY <2>1, <2>3, <2>4 DEF AlikeInv
<1> QED
  BY <1>2, <1>3, <1>5, <1>6, <1>7, <1>8, <1>9

\* Runs asked for again.
LEMMA SameOutcome ==
  TInv /\ AskedInv /\ AlikeInv /\ PrefixUsed /\ [Next]_vars
    => \A i \in Inputs : outcome[i] # NoResult /\ NoLinear => outcome'[i] = outcome[i]
<1> SUFFICES ASSUME TInv, AskedInv, AlikeInv, PrefixUsed, [Next]_vars,
                    NEW i \in Inputs, outcome[i] # NoResult, NoLinear
             PROVE  outcome'[i] = outcome[i]
  OBVIOUS
<1>1. CASE EndRun
  <2>1. phase = "run" /\ Comparable
    BY <1>1 DEF EndRun, PrefixUsed, Comparable, AskedInv
  <2>2. /\ outcome' = [outcome EXCEPT ![Current] = Result(proc)] /\ Current \in Inputs
        /\ outcome[Current] # NoResult => outcome[Current] = Result(proc)
    BY <1>1, <2>1, EndIs
  <2>3. outcome = [x \in Inputs |-> outcome[x]]
    BY DEF AskedInv
  <2> QED
    BY <2>2, <2>3
<1>2. CASE ~EndRun
  <2>1. outcome' = outcome
    BY <1>2, BlockIs DEF Next, Server, RunPrefix, DiscoveryFails, Exits, TakeSnapshot, StartRun,
                         AflCloses, AflAsks, vars
  <2> QED
    BY <2>1
<1> QED
  BY <1>1, <1>2

(* Runs on the same input read the same values and end with the same       *)
(* status, however many runs on whatever inputs lie between                *)
(* (restore_snapshot, run_single), for firmware without a linear MMIO      *)
(* model; the hypotheses are those of RunsReadTheirInput.                  *)
THEOREM SameInputSameRun ==
  ASSUME BlockLimit > 0
  PROVE  Spec /\ []PrefixUsed => RunsAlike
<1> DEFINE Inv == /\ TInv /\ ChildInv /\ PrefixInv /\ ReadyInv /\ RunInv /\ AskedInv
                  /\ AlikeInv
<1>1. Init => Inv
  <2>1. Init => TInv /\ ChildInv /\ PrefixInv /\ ReadyInv /\ RunInv
    BY InitTyped, InitChild DEF Init, PrefixInv, ReadyInv, RunInv
  <2>2. Init => AskedInv /\ AlikeInv
    BY DEF Init, AskedInv, AlikeInv, Comparable
  <2> QED
    BY <2>1, <2>2
<1>2. Inv /\ [Next]_vars => Inv'
  BY StepTyped, StepChild, StepPrefix, StepReady, StepRun, StepAsked, StepAlike
<1>3. Inv /\ PrefixUsed /\ [Next]_vars
        => [\A i \in Inputs : (outcome[i] # NoResult /\ "linear" \notin Range(setup.code))
                                => outcome'[i] = outcome[i]]_vars
  BY SameOutcome DEF NoLinear
<1> HIDE DEF Inv
<1> QED
  BY <1>1, <1>2, <1>3, PTL DEF Spec, RunsAlike
=============================================================================
