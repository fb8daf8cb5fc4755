---------------------------------- MODULE Pu ----------------------------------
(***************************************************************************)
(* The protection unit of the ARM9: regions of memory with permissions, of   *)
(* which those with higher numbers have priority, and the pages that the    *)
(* emulator keeps of them.  The program places, moves, disables and enables *)
(* regions in any order; it puts none in the middle of a lower one.         *)
(***************************************************************************)
EXTENDS Integers, FiniteSetsExt

CONSTANTS NumRegions,  \* 8 in the code.
          NumPages,
          Places,      \* Where a program puts each region: a set of [base, size].
          Permissions  \* Types of regions that it uses.

(* No region lies in the middle of a lower one, which would lose what       *)
(* follows.                                                                 *)
ASSUME PuAssumption ==
    /\ NumRegions \in Nat /\ NumPages \in Nat
    /\ Places \in [0..(NumRegions - 1) -> SUBSET [base : Nat, size : Nat]]
    /\ \A i, k \in 0..(NumRegions - 1) : i < k =>
           \A low \in Places[i], high \in Places[k] :
               \/ high.base <= low.base
               \/ high.base + high.size >= low.base + low.size

Regions == 0..(NumRegions - 1)
PuPages == 0..(NumPages - 1)
NoRegion == [mapped |-> FALSE, perm |-> {}]

VARIABLES pu_regions,          \* base, size, enabled, data and instr: what privileged code may do.
          pu_mapping,
          leftover             \* Pages that a region was moved away from, not mapped anew since.

puVars == <<pu_regions, pu_mapping, leftover>>

End(r) == r.base + r.size

(* Mutant: lower regions have priority.                                     *)
Remaining_Lower(regions, i) ==
    {p \in regions[i].base..(End(regions[i]) - 1) :
        \A k \in 0..(i - 1) : ~(regions[k].enabled /\ p \in regions[k].base..(End(regions[k]) - 1))}

(* What a higher region leaves of a part: it cuts off its beginning, or its *)
(* end.                                                                     *)
Cut(part, higher) ==
    LET start == IF part[1] >= higher.base /\ part[1] < End(higher)
                 THEN End(higher) ELSE part[1]
        end == IF start < higher.base /\ part[2] >= higher.base
               THEN higher.base ELSE part[2]
    IN  IF higher.enabled THEN <<start, end>> ELSE part

(* The part of region i that remains to it.                                 *)
Remaining(regions, i) ==
    LET above == NumRegions - 1 - i
        part[k \in 0..above] == IF k = 0 THEN <<regions[i].base, End(regions[i])>>
                                ELSE Cut(part[k - 1], regions[i + k])
    IN  part[above][1]..(part[above][2] - 1)

Entry(region) == [mapped |-> TRUE, perm |-> region.data \cup region.instr]

unmap_pu_region(mapping, regions, i) ==
    [p \in PuPages |-> IF p \in Remaining(regions, i) THEN NoRegion ELSE mapping[p]]

remap_pu_region(mapping, regions, i) ==
    [p \in PuPages |-> IF p \in Remaining(regions, i)
                       THEN Entry(regions[i])
                       ELSE mapping[p]]

Remapped(mapping, regions, i) ==
    LET cleared == unmap_pu_region(mapping, regions, i) IN
    IF regions[i].enabled THEN remap_pu_region(cleared, regions, i) ELSE cleared

PuInit ==
    /\ pu_regions = [i \in Regions |-> [base |-> 0, size |-> 0, enabled |-> FALSE, data |-> {}, instr |-> {}]]
    /\ pu_mapping = [p \in PuPages |-> NoRegion]
    /\ leftover = {}

PrivilegedData(type) ==
    IF type \in 1..3 THEN {"r", "w"} ELSE IF type \in 5..6 THEN {"r"} ELSE {}

PrivilegedInstr(type) == IF type \in {1, 2, 3, 5, 6} THEN {"x"} ELSE {}

(* One register holds the types of all regions; each is updated in turn.    *)
set_pu_permissions_ex(is_data, type) ==
    LET region(i) == IF is_data THEN [pu_regions[i] EXCEPT !.data = PrivilegedData(type[i])]
                     ELSE [pu_regions[i] EXCEPT !.instr = PrivilegedInstr(type[i])]
        upto(i) == [k \in Regions |-> IF k <= i THEN region(k) ELSE pu_regions[k]]
        after[k \in 0..NumRegions] ==
            IF k = 0 THEN pu_mapping
            ELSE IF pu_regions[k - 1].enabled
            THEN Remapped(after[k - 1], upto(k - 1), k - 1)
            ELSE after[k - 1]
    IN /\ pu_regions' = upto(NumRegions - 1)
       /\ pu_mapping' = after[NumRegions]
       /\ leftover' = leftover \ UNION {Remaining(pu_regions, i) : i \in {k \in Regions : pu_regions[k].enabled}}

(* The pages of the place that a region had stay as they are.               *)
set_pu_region(i, place, enabled) ==
    /\ pu_regions' = [pu_regions EXCEPT ![i].enabled = enabled, ![i].base = place.base,
                                        ![i].size = place.size]
    /\ pu_mapping' = Remapped(pu_mapping, pu_regions', i)
    /\ leftover' = (leftover \cup Remaining(pu_regions, i)) \ Remaining(pu_regions', i)

(* A page that does not allow an access: all regions are mapped again, and  *)
(* those that are disabled unmapped.                                        *)
reload_pu ==
    LET after[k \in 0..NumRegions] ==
            IF k = 0 THEN pu_mapping ELSE Remapped(after[k - 1], pu_regions, k - 1)
    IN /\ pu_mapping' = after[NumRegions]
       /\ leftover' = leftover \ UNION {Remaining(pu_regions, i) : i \in Regions}
       /\ UNCHANGED pu_regions

PuNext ==
    \/ \E is_data \in BOOLEAN, type \in [Regions -> Permissions] : set_pu_permissions_ex(is_data, type)
    \/ \E i \in Regions, enabled \in BOOLEAN : \E place \in Places[i] : set_pu_region(i, place, enabled)
    \/ reload_pu

PuSpec == PuInit /\ [][PuNext]_puVars

-----------------------------------------------------------------------------

Within(p, region) == p \in region.base..(End(region) - 1)

Over(regions, p) == {i \in Regions : regions[i].enabled /\ Within(p, regions[i])}

(* What the page of the mapping should be.                                  *)
Meant(regions, p) ==
    IF Over(regions, p) = {} THEN NoRegion ELSE Entry(regions[Max(Over(regions, p))])

(* A disabled region above all that count has p in its place.               *)
Hidden(regions, p) ==
    \E i \in Regions :
        /\ Within(p, regions[i]) /\ ~regions[i].enabled
        /\ \A k \in Over(regions, p) : k < i

Good(regions, mapping, p) ==
    \/ mapping[p] = Meant(regions, p)
    \/ mapping[p] = NoRegion /\ Hidden(regions, p)

(* A page has the permissions of the highest enabled region that it lies    *)
(* in, in whatever order the program set the regions and their permissions  *)
(* up, but for two kinds of pages: those that a region was moved away from  *)
(* since they were last mapped, and those of a disabled region, which may   *)
(* have lost what the regions under it allow.                               *)
HighestRegionCounts == \A p \in PuPages \ leftover : Good(pu_regions, pu_mapping, p)
=============================================================================
