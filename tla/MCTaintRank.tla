---------------------------- MODULE MCTaintRank ----------------------------
(* Instances of TaintRank for TLC. *)
EXTENDS TaintRank

Ins(pc, op, d, s, b, x, w, a, v) ==
    [pc |-> pc, op |-> op, d |-> d, s |-> s, b |-> b, x |-> x, w |-> w, a |-> a, v |-> v, acnum |-> 1]

Moves == {Ins(1, "imm", <<"r1">>, <<"r1">>, "r0", <<>>, FALSE, 0, 0),
          Ins(2, "alu", <<"r0">>, <<"r0", "r1">>, "r0", <<>>, FALSE, 0, 0),
          Ins(3, "imm", <<"r2">>, <<>>, "r0", <<>>, FALSE, 0, 0)}
Loads(A, V) ==
    UNION {{Ins(4, "ldr", <<"r0">>, <<>>, "r1", <<>>, FALSE, a, v),
            Ins(5, "ldr", <<"r1">>, <<>>, "r2", <<>>, TRUE, a, v)} : a \in A, v \in V}
Stores(A, V) ==
    UNION {{Ins(6, "str", <<>>, <<"r0">>, "r2", <<>>, FALSE, a, v),
            Ins(7, "str", <<>>, <<"r2">>, "r0", <<"r1">>, TRUE, a, v)} : a \in A, v \in V}
Blocks == {Ins(8, "stm", <<>>, <<"r0", "r1">>, "r2", <<>>, TRUE, 1, 0),
           Ins(9, "ldm", <<"r0", "r1">>, <<>>, "r2", <<>>, FALSE, 1, 0),
           Ins(10, "ldr", <<"r0", "r1">>, <<>>, "r2", <<>>, FALSE, 1, 1)}

\* A store whose condition is false; its address is known nevertheless.
Skip == [Ins(6, "str", <<>>, <<"r2">>, "r2", <<>>, FALSE, 1, 2) EXCEPT !.acnum = 0]

Crashes == {Ins(4, "ldr", <<"r0">>, <<>>, "r1", <<>>, FALSE, 0, 0),
            Ins(7, "str", <<>>, <<"r2">>, "r0", <<"r1">>, TRUE, 0, 0),
            Ins(10, "ldr", <<"r0", "r1">>, <<>>, "r2", <<>>, FALSE, 0, 0),
            Ins(13, "str", <<>>, <<"r0", "r1">>, "r2", <<>>, FALSE, 0, 0),
            Ins(11, "bx", <<>>, <<"r0">>, "r0", <<>>, FALSE, 0, 0),
            Ins(12, "pop", <<"r0">>, <<>>, "r2", <<>>, FALSE, 1, 0)}

\* A load reads what the last store to its address wrote.
Consistent(t) ==
    \A i \in 2 .. Len(t) : t[i].op = "ldr" =>
        LET W == {j \in (i + 1) .. Len(t) :
                     t[i].a # 0 /\ Mem(t[i].a) \in {f[1] : f \in ComputedFrom(t[j])}}
        IN W # {} /\ t[Min(W)].op = "str" => t[Min(W)].v = t[i].v

Behind(S, n) == {t \in {<<c>> \o q : c \in Crashes, q \in [1 .. n -> S]} : Consistent(t)}

MCTraces == Behind(Moves \cup Loads({0, 1}, {1}) \cup Stores({1, 2}, {1, 2}) \cup Blocks, 3)
            \cup Behind({Ins(2, "alu", <<"r0">>, <<"r0", "r1">>, "r0", <<>>, FALSE, 0, 0),
                         Ins(5, "ldr", <<"r1">>, <<>>, "r2", <<>>, TRUE, 1, 1)}
                        \cup Loads({1}, {1}) \cup Stores({1}, {1, 2}) \cup {Skip}, 4)
=============================================================================
