------------------------------ MODULE MCMemory ------------------------------
(***************************************************************************)
(* Memory for TLC: four frames of two words.  Frame 0 is the root table,   *)
(* frame 1 a second-level table, frames 2 and 3 hold data.                 *)
(***************************************************************************)
EXTENDS Memory

PteOf(flags, n) ==
    [v |-> "v" \in flags, r |-> "r" \in flags, w |-> "w" \in flags, x |-> "x" \in flags,
     u |-> "u" \in flags, a |-> "a" \in flags, d |-> "d" \in flags, ppn |-> n]

(* The kinds of pages for the user and some for the supervisor, one that   *)
(* is writable and not readable, one that is only a pointer, and pages not *)
(* accessed yet or not written yet.                                        *)
PageFlags ==
    {{"v", "a", "d"} \cup f : f \in {{"r", "u"}, {"x", "u"}, {"r", "w", "u"}, {"r", "w", "x", "u"},
                                    {"r", "x"}, {"x"}, {"r", "w"}, {"w"}, {}}}
        \cup {{"v", "r", "w", "x"}, {"v", "r", "w", "x", "a"}}

PointTo1 == PteOf({"v"}, 1)

Image(rootEntry, tableEntry) ==
    [pa \in PhysAddr |-> CASE pa = <<0, 1>> -> rootEntry
                           [] pa = <<1, 1>> -> tableEntry
                           [] OTHER -> Zero]

(* A page of each kind below a pointer, superpages, a misaligned one, a    *)
(* page that maps the second-level table itself, a page number beyond 32   *)
(* bits, and no page at all.                                               *)
MCImages ==
    LET full == {"v", "r", "w", "x", "u", "a", "d"}
    IN  {Image(PointTo1, PteOf(f, 2)) : f \in PageFlags}
            \cup {Image(PointTo1, PteOf(full, n)) : n \in {1, 6}}
            \cup {Image(PteOf(full, n), Zero) : n \in {2, 3}}
            \cup {Image(PteOf(full \ {"u"}, 2), Zero), Image(Zero, Zero)}

MCValues == {Zero, One}

(* AMOSWAP, and an AMO of which the old word decides.                      *)
MCAmoOps == {"swap", "min"}
MCAmoResult(op, old, rs2) == IF op = "min" /\ old = Zero THEN Zero ELSE rs2

(* Everything; the second-level table hidden; one frame of data write-only *)
(* and the other read-only.                                                *)
All == Frames \X Accesses
MCPmpConfigs ==
    {All, All \ ({1} \X Accesses), All \ {<<2, "read">>, <<3, "write">>}}

MCStatuses == {s \in Status : s.mpp # M /\ ~(s.sum /\ s.mxr)}

MCVas == {<<1, 1, 0>>, <<0, 0, 0>>}
=============================================================================
