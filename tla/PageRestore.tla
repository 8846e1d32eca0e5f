---------------------------- MODULE PageRestore -----------------------------
(***************************************************************************)
(* uc_snapshot.c: restoring the emulated memory between runs.  Taking the  *)
(* snapshot copies all writable memory, all-zero pages as null regions,    *)
(* and write-protects it; the first write to a page lists the page for     *)
(* restoration and makes it writable again; restoring writes the listed    *)
(* pages back.  The lists join adjacent pages and only ever grow.          *)
(*                                                                         *)
(* Addresses are page numbers.  A page holds 0 (all zero), its initial     *)
(* content, or what a run has written.                                     *)
(***************************************************************************)
EXTENDS Integers, Sequences, FiniteSets, SequencesExt

CONSTANTS
    Regions,        \* mapped regions: [begin, end, kind], end exclusive
    NativePages     \* pages the native code writes with uc_mem_write

Kinds == {"ram", "rom", "mmio"}
ASSUME PageRestoreAssumption ==
    /\ \A r \in Regions : /\ r.begin \in Nat /\ r.end \in Nat /\ r.begin < r.end
                          /\ r.kind \in Kinds
    /\ \A r, s \in Regions : r = s \/ r.end <= s.begin \/ s.end <= r.begin

PagesOf(kind) == UNION {r.begin .. r.end - 1 : r \in {r \in Regions : r.kind = kind}}
Ram == PagesOf("ram")
Page == Ram \cup PagesOf("rom") \cup PagesOf("mmio")

ASSUME NativeAssumption == NativePages \subseteq Page

Zero == 0                   \* a page of zeros
Content(p) == p + 1         \* what a page holds at boot that is not zero
Dirty == -1                 \* what a run writes
Garbage == -2               \* what lies outside an allocated buffer

VARIABLES
    phase,      \* "boot", "ready" for a run, "run", "crashed"
    mem,        \* contents of the pages
    readonly,   \* pages whose write permission was taken away
    snap,       \* the snapshot and its restore lists, struct NativeHooksState
    refused,    \* pages a write to which was not handled
    original,   \* history: mem when the snapshot was taken
    behind      \* history: protected pages the native code has written

vars == <<phase, mem, readonly, snap, refused, original, behind>>

-----------------------------------------------------------------------------
\* Taking the snapshot.

\* p is a page of the region, and all zero or not as asked.
Alike(r, nulls, p) == p \in r.begin .. r.end - 1 /\ (mem[p] = Zero) = nulls

\* The longest runs of null, or of content, pages of a mapped region.
Stretches(r, nulls) ==
    {s \in [start : r.begin .. r.end - 1, size : 1 .. r.end - r.begin] :
        /\ \A p \in s.start .. s.start + s.size - 1 : Alike(r, nulls, p)
        /\ ~Alike(r, nulls, s.start - 1) /\ ~Alike(r, nulls, s.start + s.size)}

\* The saved regions are disjoint, so their order is of no consequence.
Saved(nulls) == UNION {Stretches(r, nulls) : r \in {r \in Regions : r.kind = "ram"}}

Copy(s) == [start |-> s.start, size |-> s.size,
            data |-> [k \in 0 .. s.size - 1 |-> mem[s.start + k]]]

TakeSnapshot ==
    /\ phase = "boot"
    /\ snap' = [contents |-> {Copy(s) : s \in Saved(FALSE)}, nulls |-> Saved(TRUE),
                restoreContents |-> <<>>, restoreNulls |-> <<>>]
    /\ readonly' = Ram
    /\ original' = mem
    /\ phase' = "ready"
    /\ UNCHANGED <<mem, refused, behind>>

-----------------------------------------------------------------------------
\* Listing a page for restoration.

In(p, s) == s.start <= p /\ p < s.start + s.size

\* Mutant: pages of different saved regions are joined.
NeighbourAnywhere(list, region, p) ==
    SelectInSeq(list, LAMBDA e : In(p, e) \/ e.start + e.size = p \/ p + 1 = e.start)

\* The page is in the entry, follows it or precedes it; pages of different
\* saved regions are never joined.
Near(region, p, e) ==
    \/ In(p, e)
    \/ p # region.start /\ e.start + e.size = p
    \/ p + 1 # region.start + region.size /\ p + 1 = e.start

\* The first entry that is near, 0 if none.
Neighbour(list, region, p) == SelectInSeq(list, LAMBDA e : Near(region, p, e))

\* Mutant: the pointer to the saved contents is left behind.
PrependKeepingPointer(e) == [e EXCEPT !.start = @ - 1, !.size = @ + 1]

Prepend(e) == [e EXCEPT !.start = @ - 1, !.size = @ + 1, !.offset = @ - 1]
Append1(e) == [e EXCEPT !.size = @ + 1]

\* The saved region is the base of the pointer to its contents.
NewEntry(region, p) ==
    [start |-> p, size |-> 1, from |-> region, offset |-> p - region.start]

\* Mutant: a page that was joined is also added on its own.
ListAgain(list, region, p) ==
    LET j == Neighbour(list, region, p)
    IN  Append(IF j = 0 THEN list ELSE [list EXCEPT ![j] = Append1(@)], NewEntry(region, p))

\* The list with the page in it.
List(list, region, p) ==
    LET j == Neighbour(list, region, p)
    IN  CASE j = 0 -> Append(list, NewEntry(region, p))
          [] j # 0 /\ In(p, list[j]) -> list
          [] j # 0 /\ list[j].start + list[j].size = p -> [list EXCEPT ![j] = Append1(@)]
          [] j # 0 /\ p + 1 = list[j].start -> [list EXCEPT ![j] = Prepend(@)]

\* The saved region of a page.
Holds(saved, p) == \E r \in saved : In(p, r)
Holder(saved, p) == CHOOSE r \in saved : In(p, r)

\* Content regions are searched before null regions.
activate_page_staterestore(s, p) ==
    CASE Holds(s.contents, p) -> [s EXCEPT !.restoreContents = List(@, Holder(s.contents, p), p)]
      [] ~Holds(s.contents, p) /\ Holds(s.nulls, p) ->
            [s EXCEPT !.restoreNulls = List(@, Holder(s.nulls, p), p)]
      [] OTHER -> s

\* Mutant: the last page of a region is left out.
WritableButLast(p) == \E r \in Regions : r.kind # "rom" /\ r.begin <= p /\ p < r.end - 1

\* Whether the memory map before the snapshot allows writes.
Writable(p) == \E r \in Regions : r.kind # "rom" /\ r.begin <= p /\ p < r.end

\* A write of the guest to a page it may write.
Write(p) ==
    /\ phase = "run" /\ Writable(p) /\ p \notin readonly
    /\ mem' = [mem EXCEPT ![p] = Dirty]
    /\ UNCHANGED <<phase, readonly, snap, refused, original, behind>>

\* A write to a protected page is handled, if the page was listed and had been
\* writable, or else the guest crashes.
hook_invalid_write_on_demand_page_restore_handle(p) ==
    /\ phase = "run" /\ (p \in readonly \/ ~Writable(p))
    /\ snap' = activate_page_staterestore(snap, p)
    /\ IF snap' # snap /\ Writable(p)
       THEN /\ readonly' = readonly \ {p} /\ behind' = behind \ {p}
            /\ mem' = [mem EXCEPT ![p] = Dirty]
            /\ UNCHANGED <<phase, refused>>
       ELSE /\ refused' = refused \cup {p}
            /\ phase' = "crashed"
            /\ UNCHANGED <<readonly, mem, behind>>
    /\ UNCHANGED original

\* uc_mem_write of the native code: permissions do not apply, no hook runs.
NativeWrite(p) ==
    /\ phase = "run" /\ p \in NativePages
    /\ mem' = [mem EXCEPT ![p] = Dirty]
    /\ behind' = IF p \in readonly THEN behind \cup {p} ELSE behind
    /\ UNCHANGED <<phase, readonly, snap, refused, original>>

Run == /\ phase = "ready" /\ phase' = "run"
       /\ UNCHANGED <<mem, readonly, snap, refused, original, behind>>

\* What restoring leaves in a page.
SavedAt(e, p) ==
    LET data == e.from.data
        k == e.offset + (p - e.start)
    IN  IF k \in DOMAIN data THEN data[k] ELSE Garbage

Restored(p) ==
    LET c == SelectLastInSeq(snap.restoreContents, LAMBDA e : In(p, e))
    IN  CASE \E j \in DOMAIN snap.restoreNulls : In(p, snap.restoreNulls[j]) -> Zero
          [] OTHER -> IF c = 0 THEN mem[p] ELSE SavedAt(snap.restoreContents[c], p)

native_hooks_restore_snapshot ==
    /\ phase \in {"run", "crashed"}
    /\ mem' = [p \in Page |-> Restored(p)]
    /\ phase' = "ready"
    /\ UNCHANGED <<readonly, snap, refused, original, behind>>

Init ==
    /\ phase = "boot"
    /\ mem \in {[p \in Page |-> IF p \in full THEN Content(p) ELSE Zero] : full \in SUBSET Page}
    /\ original = mem /\ readonly = {} /\ refused = {} /\ behind = {}
    /\ snap = [contents |-> {}, nulls |-> {}, restoreContents |-> <<>>, restoreNulls |-> <<>>]

Next ==
    \/ TakeSnapshot \/ Run \/ native_hooks_restore_snapshot
    \/ \E p \in Page : \/ Write(p) \/ NativeWrite(p)
                       \/ hook_invalid_write_on_demand_page_restore_handle(p)

Spec == Init /\ [][Next]_vars

-----------------------------------------------------------------------------
(* Types, a page never being filled from outside a buffer; and a page of   *)
(* RAM is protected, or listed once and in the list of its kind, never     *)
(* both and never neither: no write is missed and none is refused.         *)
TypeOK ==
    /\ phase \in {"boot", "ready", "run", "crashed"} /\ readonly \subseteq Ram /\ refused \subseteq Page
    /\ \A p \in Page : mem[p] \in {Zero, Content(p), Dirty}
    /\ phase # "boot" => \A p \in Ram :
          Cardinality({j \in DOMAIN snap.restoreContents : In(p, snap.restoreContents[j])})
              + Cardinality({j \in DOMAIN snap.restoreNulls : In(p, snap.restoreNulls[j])})
          = IF p \in readonly THEN 0 ELSE 1

(* Every run starts from the memory the snapshot was taken of, except for  *)
(* device registers, whatever guest and native code have written in        *)
(* earlier runs and in what order their pages were listed.  What is left   *)
(* is a page that only native code has written: the protection does not    *)
(* see it, and nothing lists the page until the guest writes to it.        *)
RestoreExact == phase = "ready" => \A p \in Ram \ behind : mem[p] = original[p]

(* A write that the guest's own memory map allows is never refused: the    *)
(* write protection stays invisible to the firmware.                       *)
ProtectionInvisible == \A p \in refused : p \in PagesOf("rom")
=============================================================================
