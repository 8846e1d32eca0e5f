---------------------------- MODULE MCReverseExec ----------------------------
(* Instances of ReverseExec for TLC. *)
EXTENDS ReverseExec

mov(r, b) == [op |-> "mov", r |-> r, b |-> b, c |-> "imm", k |-> 0]
addi(r, b, k) == [op |-> "add", r |-> r, b |-> b, c |-> "imm", k |-> k]
add(r, b, c) == [op |-> "add", r |-> r, b |-> b, c |-> c, k |-> 0]
sub(r, b, c) == [op |-> "sub", r |-> r, b |-> b, c |-> c, k |-> 0]
rsb(r, b, c) == [op |-> "rsb", r |-> r, b |-> b, c |-> c, k |-> 0]
ldr(r, b, k) == [op |-> "ldr", r |-> r, b |-> b, c |-> "imm", k |-> k]
str(r, b, k) == [op |-> "str", r |-> r, b |-> b, c |-> "imm", k |-> k]
ldrx(r, b, x) == [op |-> "ldr", r |-> r, b |-> b, c |-> x, k |-> 0]
strx(r, b, x) == [op |-> "str", r |-> r, b |-> b, c |-> x, k |-> 0]

MCCode == {mov("r0", "r1"), addi("r1", "r1", 1), sub("r0", "r0", "r1"), ldrx("r0", "r0", "r1"),
           ldr("r1", "r0", 0), str("r1", "r0", 0), str("r0", "r1", 1),
           mov("r1", "r0"), strx("r1", "r0", "r1")}

\* The reverse subtraction, which rsb_resolver solves as a subtraction.
MCReverseSubtract == {rsb("r0", "r0", "r1"), mov("r1", "r0"), ldr("r0", "r0", 0)}

NoLog == [memac |-> FALSE, ram |-> {1, 2}, mmio |-> {}, untraced |-> {}]
Logged == [memac |-> TRUE, ram |-> {1}, mmio |-> {2}, untraced |-> {}]

\* All of memory in the core dump and no access log; or a device in memory, and the log.
MCSetups == {NoLog, Logged}
MCLogged == {Logged}

\* Bound: r0 is 0 at the crash and memory is in order.
MCCores == {c \in UNION {[reg : [Reg -> Val], mem : [s.ram -> Val]] : s \in Setups} :
               c.reg["r0"] = 0 /\ \A a, b \in DOMAIN c.mem : a < b => c.mem[a] <= c.mem[b]}
=============================================================================
