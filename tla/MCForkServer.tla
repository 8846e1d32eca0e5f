---------------------------- MODULE MCForkServer ----------------------------
(* Instances of ForkServer for TLC. *)
EXTENDS ForkServer

Codes(kinds) == {<<a, b, c>> : a, b, c \in kinds}
NoPrefix(codes, loops) == {[code |-> c, loop |-> l, prefix |-> <<>>] : c \in codes, l \in loops}

\* Firmware of three blocks, firmware that crashes in one way or another
\* depending on the input, firmware that has used up its prefix input well
\* before it needs more, and firmware that needs more than is left of it.
MCSetups ==
    NoPrefix(Codes(Kinds \ {"linear"}), {1, 3})
        \cup NoPrefix(Codes({"read", "linear", "crash"}), {1})
        \cup NoPrefix({<<"read", "crash", "read", "fault">>}, {1})
        \cup {[code |-> <<kp[1], "quiet", "quiet", "quiet", "read", "crash">>, loop |-> 5,
               prefix |-> kp[2]] : kp \in {<<"read", <<1>>>>, <<"wide", <<0, 1>>>>}}
        \cup {[code |-> <<"quiet", "quiet", "quiet", "wide">>, loop |-> 1, prefix |-> <<1>>]}

MCInputs == {<<>>, <<1>>, <<0, 1>>}
=============================================================================
