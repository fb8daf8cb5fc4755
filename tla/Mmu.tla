--------------------------------- MODULE Mmu ---------------------------------
(***************************************************************************)
(* The translation of addresses by an ARM11 core's MMU: page tables, which   *)
(* the program changes, and the translations of single pages that the       *)
(* emulator keeps of them and loads a section at a time when an access      *)
(* misses.  Pages and sections are numbers, frames of memory too.           *)
(***************************************************************************)
EXTENDS Naturals, FiniteSets

CONSTANTS NumSections,      \* 4096 in the code, of
          PagesPerSection,  \* 256 pages each.
          LargePages,       \* 16: the pages of a large page.
          SuperSections,    \* 16: the sections of a supersection.
          L1Tables,         \* First-level tables, by their base.
          L1AtStart,        \* What they hold when the program begins.
          L1Entries, L2Entries,  \* What the program writes in its tables,
          MaxWrites              \* and how often.

MappedPages == NumSections * PagesPerSection
Pages == 0..(MappedPages - 1)
SectionOf(p) == p \div PagesPerSection

Null == [frame |-> 0, perm |-> {}]

VARIABLES l1, l2,             \* The tables in memory; there is one of the second level.
          l1_table_base, l1_table_control,
          mmu_enabled,
          privileged_mapping, \* The translations that are kept.
          stale,              \* Ghost: the pages whose translation the program changed
                              \* and has not invalidated since.
          writes

mmuVars == <<l1, l2, l1_table_base, l1_table_control, mmu_enabled, privileged_mapping, stale, writes>>

(* The entries that repeat entry k, if it is of a supersection or large     *)
(* page.                                                                    *)
Group(k, size) == LET first == k - (k % size) IN first..(first + size - 1)

-----------------------------------------------------------------------------

(* The permission bits of privileged accesses.                              *)
get_privileged_apx_perms(apx, exec_never) ==
    (CASE apx \in {0, 4} -> {}
       [] apx \in 1..3   -> {"r", "w", "x"}
       [] apx \in 5..7   -> {"r", "x"})
    \ (IF exec_never THEN {"x"} ELSE {})

(* Of a supersection's entry the third permission bit does not count, of a  *)
(* large page's whether it forbids execution.                               *)
Translation(e, offset) ==
    [frame |-> e.frame + offset,
     perm |-> get_privileged_apx_perms(IF e.type = "super" THEN e.apx % 4 ELSE e.apx,
                                       e.type # "large" /\ e.xn)]

(* Table 0 covers the memory below the cutoff, table 1 the rest.            *)
l1_table_cutoff(control) == NumSections \div 2^control
TableOf(section, control) == IF section < l1_table_cutoff(control) THEN 0 ELSE 1

(* What the constants are: entries of the four types, both parts of memory  *)
(* of whole supersections, and tables that repeat a supersection's entry.   *)
ASSUME MmuAssumption ==
    /\ {NumSections, PagesPerSection, SuperSections} \subseteq Nat \ {0}
    /\ NumSections % SuperSections = 0
    /\ \A n \in 0..1 : /\ l1_table_cutoff(n) \in Nat
                       /\ l1_table_cutoff(n) % SuperSections = 0
    /\ \A e \in L1Entries : e.type \in {"none", "section", "super", "table"}
    /\ L1AtStart \in [L1Tables -> [0..(NumSections - 1) -> L1Entries]]
    /\ \A t \in L1Tables, k \in 0..(NumSections - 1) : L1AtStart[t][k].type = "super" =>
           \A j \in Group(k, SuperSections) : L1AtStart[t][j] = L1AtStart[t][k]

InRegion(p, base, size) == p \in base..(base + size - 1)

(* The miss at page: base is the first page of its section, or of all of a  *)
(* supersection's.  What has no translation is cleared from the page of the *)
(* miss on instead of from the beginning of the section; in the last        *)
(* section that reaches past the end of the mapping, into memory that is    *)
(* not modelled.                                                            *)
reload_tlb_section(page) ==
    LET section == SectionOf(page)
        e == l1[l1_table_base[TableOf(section, l1_table_control)]][section]
        base == IF e.type = "super" THEN (section - (section % SuperSections)) * PagesPerSection
                ELSE section * PagesPerSection
        size == IF e.type = "super" THEN SuperSections * PagesPerSection ELSE PagesPerSection
    IN privileged_mapping' = [p \in Pages |->
         CASE e.type = "none" -> IF InRegion(p, page, PagesPerSection) THEN Null
                                 ELSE privileged_mapping[p]
           [] e.type \in {"section", "super"} ->
                IF InRegion(p, base, size) THEN Translation(e, p - base)
                ELSE privileged_mapping[p]
           [] e.type = "table" ->
                IF InRegion(p, base, size) /\ l2[p - base].type # "none"
                THEN Translation(l2[p - base], IF l2[p - base].type = "large"
                                               THEN (p - base) % LargePages ELSE 0)
                ELSE IF InRegion(p, page, PagesPerSection) /\ l2[p - page].type = "none"
                THEN Null ELSE privileged_mapping[p]]

Forget(S) == privileged_mapping' = [p \in Pages |-> IF p \in S THEN Null ELSE privileged_mapping[p]]

(* Mutant: the two parts of memory are exchanged.                           *)
TablePages_Swapped(index) == {p \in Pages : TableOf(SectionOf(p), l1_table_control) # index}

TablePages(index) == {p \in Pages : TableOf(SectionOf(p), l1_table_control) = index}

-----------------------------------------------------------------------------
(* What the tables say of a page now.                                       *)

Walk(t1, t2, base, control, p) ==
    LET e == t1[base[TableOf(SectionOf(p), control)]][SectionOf(p)]
        k == p % PagesPerSection
    IN CASE e.type = "none"    -> Null
         [] e.type = "section" -> Translation(e, k)
         [] e.type = "super"   -> Translation(e, p % (SuperSections * PagesPerSection))
         [] e.type = "table"   ->
              IF t2[k].type = "none" THEN Null
              ELSE Translation(t2[k], IF t2[k].type = "large" THEN k % LargePages ELSE 0)

Current(p) == Walk(l1, l2, l1_table_base, l1_table_control, p)

(* The program's writes make those pages stale whose translation they       *)
(* change.                                                                  *)
Wrote ==
    /\ writes < MaxWrites
    /\ writes' = writes + 1
    /\ stale' = stale \cup {p \in Pages :
           Current(p) # Walk(l1', l2', l1_table_base', l1_table_control', p)}

-----------------------------------------------------------------------------

MmuInit ==
    /\ l1 = L1AtStart
    /\ l2 = [k \in 0..(PagesPerSection - 1) |-> [type |-> "none"]]
    /\ \E t \in L1Tables : l1_table_base = [index \in 0..1 |-> t]
    /\ l1_table_control = 0
    /\ mmu_enabled = FALSE
    /\ privileged_mapping = [p \in Pages |-> Null]
    /\ stale = {}
    /\ writes = 0

(* Entries of supersections and large pages are repeated as the             *)
(* architecture asks for.                                                   *)
write_l1(t, section, e) ==
    /\ \A k \in 0..(NumSections - 1) :
           l1[t][k].type = "super" /\ section \in Group(k, SuperSections) => e.type = "super"
    /\ l1' = [l1 EXCEPT ![t] = [k \in DOMAIN @ |->
           IF k \in (IF e.type = "super" THEN Group(section, SuperSections) ELSE {section})
           THEN e ELSE @[k]]]
    /\ UNCHANGED <<l2, l1_table_base, l1_table_control, mmu_enabled, privileged_mapping>>
    /\ Wrote

write_l2(k, e) ==
    /\ l2[k].type = "large" => e.type = "large"
    /\ l2' = [j \in DOMAIN l2 |->
           IF j \in (IF e.type = "large" THEN Group(k, LargePages) ELSE {k}) THEN e ELSE l2[j]]
    /\ UNCHANGED <<l1, l1_table_base, l1_table_control, mmu_enabled, privileged_mapping>>
    /\ Wrote

(* Mutant: the translations of the last table are kept.                     *)
set_l1_table_base_Keep(index, t) ==
    /\ l1_table_base' = [l1_table_base EXCEPT ![index] = t]
    /\ UNCHANGED <<l1, l2, l1_table_control, mmu_enabled, privileged_mapping, stale, writes>>

(* Registers of CP15.                                                       *)
set_l1_table_base(index, t) ==
    /\ l1_table_base' = [l1_table_base EXCEPT ![index] = t]
    /\ Forget(TablePages(index))
    /\ UNCHANGED <<l1, l2, l1_table_control, mmu_enabled, stale, writes>>

set_l1_table_control(n) ==
    /\ l1_table_control' = n
    /\ UNCHANGED <<l1, l2, l1_table_base, mmu_enabled, privileged_mapping>>
    /\ Wrote

mcr_control(enabled) ==
    /\ mmu_enabled' = enabled
    /\ IF enabled /\ mmu_enabled THEN reload_tlb_section(0) ELSE UNCHANGED privileged_mapping
    /\ UNCHANGED <<l1, l2, l1_table_base, l1_table_control, stale, writes>>

Invalidated(S) ==
    /\ Forget(S)
    /\ stale' = stale \ S
    /\ UNCHANGED <<l1, l2, l1_table_base, l1_table_control, mmu_enabled, writes>>

invalidate_tlb == Invalidated(Pages)
invalidate_tlb_by_addr(p) == Invalidated({p})
invalidate_tlb_by_asid == Invalidated(TablePages(0))

(* An access to the page that its translation does not allow.               *)
cp15_reload_tlb(page) ==
    /\ mmu_enabled /\ privileged_mapping[page].perm # {"r", "w", "x"}
    /\ reload_tlb_section(page)
    /\ UNCHANGED <<l1, l2, l1_table_base, l1_table_control, mmu_enabled, stale, writes>>

MmuNext ==
    \/ \E t \in L1Tables, s \in 0..(NumSections - 1), e \in L1Entries : write_l1(t, s, e)
    \/ \E k \in 0..(PagesPerSection - 1), e \in L2Entries : write_l2(k, e)
    \/ \E index \in 0..1, t \in L1Tables : set_l1_table_base(index, t)
    \/ \E n \in 0..1 : set_l1_table_control(n)
    \/ mcr_control(TRUE)
    \/ invalidate_tlb
    \/ invalidate_tlb_by_asid
    \/ \E p \in stale : invalidate_tlb_by_addr(p)
    \/ \E p \in Pages : cp15_reload_tlb(p)

MmuSpec == MmuInit /\ [][MmuNext]_mmuVars

(* A translation that is kept is what the page tables say, unless the       *)
(* program changed them and has not invalidated the page: the tables of     *)
(* another process, a section that replaces pages or an entry loaded along  *)
(* with its neighbours never leave another one behind.                      *)
TranslationsAreCurrent ==
    \A p \in Pages \ stale : privileged_mapping[p] \in {Null, Current(p)}
=============================================================================
