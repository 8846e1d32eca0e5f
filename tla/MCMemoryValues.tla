---------------------------- MODULE MCMemoryValues ----------------------------
(* Instances of MemoryValues. *)
EXTENDS MemoryValues

\* A word and a halfword that start at one address, and the byte before them.
MCPlaces == {<<4, 4>>, <<4, 2>>, <<3, 1>>}

\* Two neighbouring words.
MCWords == {<<4, 4>>, <<8, 4>>}

\* A word and a byte inside it.
MCInner == {<<4, 4>>, <<5, 1>>}
==============================================================================
