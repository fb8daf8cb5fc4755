----------------------------- MODULE Exclusives -----------------------------
(***************************************************************************)
(* The exclusive monitors of the ARM11 cores (cpu/arm.cpp and the LDREX,   *)
(* STREX and CLREX instructions): a core reserves a region by a load; its  *)
(* store succeeds while both its local monitor and its entry of the global *)
(* one hold the address; a store of any core removes from the global       *)
(* monitor the regions it hits.                                            *)
(*                                                                         *)
(* Addresses are physical.  The program's atomic variables are disjoint    *)
(* cells, which it accesses by their own size (the two words of a          *)
(* doubleword also each by itself), and it follows a load-exclusive by a   *)
(* store-exclusive to the same cell, or by CLREX.  What a DMA writes does  *)
(* not concern the monitors: it is assumed to miss the cells.              *)
(***************************************************************************)
EXTENDS Integers

CONSTANTS
    Cores,  \* The cores.
    Cells   \* The atomic variables: records of address and size.

Bytes(x) == x.addr..(x.addr + x.size - 1)

ASSUME CellsAssumption ==
    /\ Cells \subseteq [addr : Nat \ {0}, size : {1, 2, 4, 8}]
    /\ \A x, y \in Cells : x # y => Bytes(x) \intersect Bytes(y) = {}

VARIABLES
    local,    \* local_exclusive_start and _end of each core,
    global,   \* and its entry in global_exclusive_start and _end.
    target,   \* The cell each core last reserved, or NoCell.
    touched   \* Was it written since?

vars == <<local, global, target, touched>>

NoCell == [addr |-> 0, size |-> 0]
NoRegion == [start |-> 0, end |-> 0]

Init ==
    /\ local = [c \in Cores |-> NoRegion]
    /\ global = [c \in Cores |-> NoRegion]
    /\ target = [c \in Cores |-> NoCell]
    /\ touched = [c \in Cores |-> FALSE]

(* has_exclusive: here the end of a region belongs to it. *)
Within(region, addr) == region.start <= addr /\ addr <= region.end

(* Mutant of has_exclusive: the global monitor is not looked at. *)
has_exclusive_LocalOnly(c, addr) == Within(local[c], addr)

has_exclusive(c, addr) == Within(local[c], addr) /\ Within(global[c], addr)

(* Mutant of Hits: the end belongs to the region, as in has_exclusive. *)
Hits_Inclusive(region, addr) == region.start <= addr /\ addr <= region.end

(* clear_global_exclusives, of some addresses: here it does not. *)
Hits(region, addr) == region.start <= addr /\ addr < region.end

Cleared(regions, addrs) ==
    [c \in Cores |-> IF \E addr \in addrs : Hits(regions[c], addr)
                     THEN NoRegion ELSE regions[c]]

(* The words of a doubleword are accessed one after the other. *)
Words(x) == IF x.size = 8 THEN {x.addr, x.addr + 4} ELSE {x.addr}

(* A store to addresses of x, after which every reservation of x is touched. *)
Written(x, addrs) ==
    /\ global' = Cleared(global, addrs)
    /\ touched' = [c \in Cores |-> touched[c] \/ target[c] = x]

-----------------------------------------------------------------------------
(* The instructions. *)

(* Mutant of LoadExclusive: the global monitor has one region for all. *)
LoadExclusive_TakesOver(c, x) ==
    LET region == [start |-> x.addr, end |-> x.addr + x.size]
    IN  /\ local' = [local EXCEPT ![c] = region]
        /\ global' = [d \in Cores |-> IF d = c THEN region ELSE NoRegion]
        /\ target' = [target EXCEPT ![c] = x]
        /\ touched' = [touched EXCEPT ![c] = FALSE]

(* set_exclusive. *)
LoadExclusive(c, x) ==
    LET region == [start |-> x.addr, end |-> x.addr + x.size]
    IN  /\ local' = [local EXCEPT ![c] = region]
        /\ global' = [global EXCEPT ![c] = region]
        /\ target' = [target EXCEPT ![c] = x]
        /\ touched' = [touched EXCEPT ![c] = FALSE]

(* clear_exclusive, which also ends every STREX. *)
ClearExclusive(c) ==
    /\ local' = [local EXCEPT ![c] = NoRegion]
    /\ global' = [global EXCEPT ![c] = NoRegion]
    /\ target' = [target EXCEPT ![c] = NoCell]
    /\ touched' = [touched EXCEPT ![c] = FALSE]

Holds(c, x) == \A addr \in Words(x) : has_exclusive(c, addr)

StoreExclusive(c, x) ==
    /\ target[c] = x
    /\ Holds(c, x)
    /\ local' = [local EXCEPT ![c] = NoRegion]
    /\ global' = [Cleared(global, Words(x)) EXCEPT ![c] = NoRegion]
    /\ target' = [target EXCEPT ![c] = NoCell]
    /\ touched' = [d \in Cores |-> d # c /\ (touched[d] \/ target[d] = x)]

StoreExclusiveFails(c, x) ==
    /\ target[c] = x
    /\ ~Holds(c, x)
    /\ ClearExclusive(c)

(* An ordinary store, to the cell or to one word of it. *)
Store(c, x, addrs) ==
    /\ Written(x, addrs)
    /\ UNCHANGED <<local, target>>

Reset ==
    /\ local' = [c \in Cores |-> NoRegion]
    /\ global' = [c \in Cores |-> NoRegion]
    /\ target' = [c \in Cores |-> NoCell]
    /\ touched' = [c \in Cores |-> FALSE]

Next ==
    \/ \E c \in Cores, x \in Cells :
           \/ LoadExclusive(c, x)
           \/ StoreExclusive(c, x)
           \/ StoreExclusiveFails(c, x)
           \/ \E addrs \in (SUBSET Words(x)) \ {{}} : Store(c, x, addrs)
    \/ \E c \in Cores : ClearExclusive(c)
    \/ Reset

Spec == Init /\ [][Next]_vars

-----------------------------------------------------------------------------

Region == [start : Nat, end : Nat]

TypeOK ==
    /\ local \in [Cores -> Region]
    /\ global \in [Cores -> Region]
    /\ target \in [Cores -> Cells \union {NoCell}]
    /\ touched \in [Cores -> BOOLEAN]
    /\ \A c \in Cores : global[c] \in {NoRegion, local[c]}

(* A STREX succeeds exactly if its cell was not written since the LDREX, by *)
(* any core and in either of its words; and a core that has reserved        *)
(* nothing holds nothing.                                                   *)
ReservationIsExact ==
    \A c \in Cores, x \in Cells :
        /\ target[c] = x => (Holds(c, x) <=> ~touched[c])
        /\ target[c] = NoCell => ~Holds(c, x)
=============================================================================
