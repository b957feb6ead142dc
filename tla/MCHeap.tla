------------------------------- MODULE MCHeap -------------------------------
(* Small instances of Heap for TLC: one heap of each kind. *)
EXTENDS Heap

Kind(mem, spill, limit, ratio) ==
    [mem |-> mem, spill |-> spill, limit |-> limit, ratio |-> ratio]

MCSetups == {Kind("aiv", "none", 16, 0), Kind("system", "none", 12, 0),
             Kind("aiv", "vram", 16, 50), Kind("system", "file", 14, 45)}
=============================================================================
