--------------------------- MODULE ProcessorProofs ---------------------------
(***************************************************************************)
(* The swaps of update_reg_mode keep the registers of the modes apart, for  *)
(* any registers, values and order of steps; the MMU keeps current          *)
(* translations, for page tables of any size and content; and of the ARM9's *)
(* regions the highest counts, for any number of them.                      *)
(***************************************************************************)
EXTENDS ArmBanks, Mmu, Pu, NumberLemmas

-----------------------------------------------------------------------------
(* The registers of the modes. *)

(* What a swap leaves where. *)
LEMMA SwapBankValues ==
    ASSUME NEW f \in Files, NEW m \in Modes
    PROVE  /\ SwapBank(f, m) \in Files
           /\ \A r \in Registers : SwapBank(f, m).gpr[r] =
                 IF r \in Banked(m) THEN f.bank[m][r] ELSE f.gpr[r]
           /\ \A k \in Modes, r \in Registers : SwapBank(f, m).bank[k][r] =
                 IF k = m /\ r \in Banked(m) THEN f.gpr[r] ELSE f.bank[k][r]
<1>1. DOMAIN f.gpr = Registers /\ \A k \in Modes : DOMAIN f.bank[k] = Registers
  BY DEF Files
<1>2. SwapBank(f, m) =
        [gpr  |-> [r \in Registers |-> IF r \in Banked(m) THEN f.bank[m][r] ELSE f.gpr[r]],
         bank |-> [k \in Modes |-> [r \in Registers |->
                      IF k = m /\ r \in Banked(m) THEN f.gpr[r] ELSE f.bank[k][r]]]]
  BY <1>1 DEF SwapBank
<1>3. \A k \in Modes, r \in Registers : f.bank[k][r] \in Values /\ f.gpr[r] \in Values
  BY DEF Files
<1> QED BY <1>2, <1>3 DEF Files

LEMMA SwapBankType ==
    ASSUME NEW f \in Files, NEW m \in Modes PROVE SwapBank(f, m) \in Files
BY SwapBankValues

(* A mode's bank and the user's registers are swapped out and in again: the *)
(* registers of every mode are what they were.                              *)
LEMMA LeaveKeepsFile ==
    ASSUME NEW f \in Files, NEW m \in Modes
    PROVE  FileOf(SwapBank(f, m), "usr") = FileOf(f, m)
<1> DEFINE g == SwapBank(f, m)
<1>1. SUFFICES ASSUME NEW k \in Modes, NEW r \in Registers
               PROVE  FileOf(g, "usr")[k][r] = FileOf(f, m)[k][r]
  BY DEF FileOf
<1>2. "usr" \in Modes /\ Banked("usr") = {}
  BY DEF Modes, Banked
<1>3. FileOf(g, "usr")[k][r] = IF k = "usr" THEN g.gpr[r] ELSE g.bank[k][r]
  BY <1>2 DEF FileOf
<1>4. m = "usr" => Banked(m) = {}
  BY <1>2
<1> HIDE DEF g
<1>5. /\ g.gpr[r] = IF r \in Banked(m) THEN f.bank[m][r] ELSE f.gpr[r]
      /\ g.bank[k][r] = IF k = m /\ r \in Banked(m) THEN f.gpr[r] ELSE f.bank[k][r]
  BY SwapBankValues DEF g
<1> QED BY <1>3, <1>4, <1>5 DEF FileOf

LEMMA EnterKeepsFile ==
    ASSUME NEW f \in Files, NEW m \in Modes
    PROVE  FileOf(SwapBank(f, m), m) = FileOf(f, "usr")
<1> DEFINE g == SwapBank(f, m)
<1>1. SUFFICES ASSUME NEW k \in Modes, NEW r \in Registers
               PROVE  FileOf(g, m)[k][r] = FileOf(f, "usr")[k][r]
  BY DEF FileOf
<1>2. "usr" \in Modes /\ Banked("usr") = {}
  BY DEF Modes, Banked
<1>3. FileOf(f, "usr")[k][r] = IF k = "usr" THEN f.gpr[r] ELSE f.bank[k][r]
  BY <1>2 DEF FileOf
<1>4. m = "usr" => Banked(m) = {}
  BY <1>2
<1> HIDE DEF g
<1>5. /\ g.gpr[r] = IF r \in Banked(m) THEN f.bank[m][r] ELSE f.gpr[r]
      /\ \A j \in Modes : g.bank[j][r] =
            IF j = m /\ r \in Banked(m) THEN f.gpr[r] ELSE f.bank[j][r]
  BY SwapBankValues DEF g
<1> QED BY <1>3, <1>4, <1>5 DEF FileOf

LEMMA SameModeKeepsFile ==
    ASSUME NEW f \in Files, NEW old \in Modes, NEW new \in Modes
    PROVE  /\ update_reg_mode(f, old, new) \in Files
           /\ FileOf(update_reg_mode(f, old, new), new) = FileOf(f, old)
<1>1. CASE new = old
  BY <1>1 DEF update_reg_mode
<1>2. CASE new # old
  <2> DEFINE g == SwapBank(f, old)
  <2>1. update_reg_mode(f, old, new) = SwapBank(g, new)
    BY <1>2 DEF update_reg_mode
  <2>2. g \in Files /\ FileOf(g, "usr") = FileOf(f, old)
    BY SwapBankType, LeaveKeepsFile
  <2> HIDE DEF g
  <2>3. SwapBank(g, new) \in Files /\ FileOf(SwapBank(g, new), new) = FileOf(g, "usr")
    BY <2>2, SwapBankType, EnterKeepsFile
  <2> QED BY <2>1, <2>2, <2>3
<1> QED BY <1>1, <1>2

(* A write of gpr is one of the register that the current mode owns.        *)
LEMMA WriteOwner ==
    ASSUME NEW f \in Files, NEW m \in Modes, NEW r \in Registers, NEW v \in Values
    PROVE  /\ SetRegister(f, r, v) \in Files
           /\ FileOf(SetRegister(f, r, v), m) =
                 [FileOf(f, m) EXCEPT ![Seen!Owner(m, r)][r] = v]
<1> DEFINE g == SetRegister(f, r, v)
           o == Seen!Owner(m, r)
<1>1. g \in Files /\ g.bank = f.bank /\ g.gpr = [f.gpr EXCEPT ![r] = v]
  BY DEF SetRegister, Files
<1>2. o \in Modes /\ o = IF r \in Banked(m) THEN m ELSE "usr"
  BY DEF Seen!Owner, Seen!Banked, Banked, Modes, Seen!SP, Seen!LR, SP, LR
<1>3. \A q \in Registers : g.gpr[q] = IF q = r THEN v ELSE f.gpr[q]
  BY <1>1 DEF Files
<1>4. m = "usr" => Banked(m) = {}
  BY DEF Banked
<1> HIDE DEF g, o
<1>5. ASSUME NEW k \in Modes, NEW q \in Registers
      PROVE  FileOf(g, m)[k][q] = IF k = o /\ q = r THEN v ELSE FileOf(f, m)[k][q]
  BY <1>1, <1>2, <1>3, <1>4, <1>5 DEF FileOf
<1>6. FileOf(g, m) = [k \in Modes |-> [q \in Registers |->
                         IF k = o /\ q = r THEN v ELSE FileOf(f, m)[k][q]]]
  BY <1>5 DEF FileOf
<1>7. \A k \in Modes : FileOf(f, m)[k] = [q \in Registers |-> FileOf(f, m)[k][q]]
  BY DEF FileOf
<1>8. [FileOf(f, m) EXCEPT ![o][r] = v] =
        [k \in Modes |-> [q \in Registers |->
            IF k = o /\ q = r THEN v ELSE FileOf(f, m)[k][q]]]
  <2>1. DOMAIN FileOf(f, m) = Modes
    BY DEF FileOf
  <2> QED BY <1>2, <1>7, <2>1
<1> QED BY <1>1, <1>6, <1>8 DEF g, o

(* A write of the slot of a mode's link register is one of that mode's link *)
(* register, or of the user's if the mode is the current one.               *)
SlotOwner(m, current) == IF m = current THEN "usr" ELSE m

LEMMA SlotIsOthers ==
    ASSUME NEW f \in Files, NEW current \in Modes, NEW v \in Values,
           NEW m \in ExceptionModes
    PROVE  /\ [f EXCEPT !.bank[m][LR] = v] \in Files
           /\ FileOf([f EXCEPT !.bank[m][LR] = v], current) =
                 [FileOf(f, current) EXCEPT ![SlotOwner(m, current)][LR] = v]
<1> DEFINE g == [f EXCEPT !.bank[m][LR] = v]
           o == SlotOwner(m, current)
<1>0. LR \in Registers /\ m \in Modes
  BY RegistersAssumption DEF ExceptionModes, Modes
<1>1. g \in Files /\ g.gpr = f.gpr
  BY <1>0 DEF Files
<1>2. \A k \in Modes, q \in Registers :
         g.bank[k][q] = IF k = m /\ q = LR THEN v ELSE f.bank[k][q]
  BY <1>0 DEF Files
<1>3. /\ m \notin {"usr", "sys"} /\ LR \in Banked(m)
      /\ o \in Modes /\ o = IF m = current THEN "usr" ELSE m
  BY <1>0 DEF ExceptionModes, Banked, LR, SP, SlotOwner, Modes
<1> HIDE DEF g, o
<1>4. ASSUME NEW k \in Modes, NEW q \in Registers
      PROVE  FileOf(g, current)[k][q] = IF k = o /\ q = LR THEN v ELSE FileOf(f, current)[k][q]
  BY <1>1, <1>2, <1>4, <1>3 DEF FileOf
<1>5. FileOf(g, current) = [k \in Modes |-> [q \in Registers |->
                               IF k = o /\ q = LR THEN v ELSE FileOf(f, current)[k][q]]]
  BY <1>4 DEF FileOf
<1>6. \A k \in Modes : FileOf(f, current)[k] = [q \in Registers |-> FileOf(f, current)[k][q]]
  BY DEF FileOf
<1>7. DOMAIN FileOf(f, current) = Modes
  BY DEF FileOf
<1>8. [FileOf(f, current) EXCEPT ![o][LR] = v] =
        [k \in Modes |-> [q \in Registers |->
            IF k = o /\ q = LR THEN v ELSE FileOf(f, current)[k][q]]]
  BY <1>0, <1>3, <1>6, <1>7
<1> QED BY <1>1, <1>5, <1>8 DEF g, o

(* The registers and banks hold values, and the mode is one of the seven.   *)
THEOREM BanksTypeOK == Spec => []TypeOK
<1>1. Init => TypeOK
  BY DEF Init, TypeOK, Files, Modes
<1>2. TypeOK /\ [Next]_vars => TypeOK'
  <2> SUFFICES ASSUME TypeOK, [Next]_vars PROVE TypeOK'
    OBVIOUS
  <2> USE DEF TypeOK
  <2>1. ASSUME NEW m \in Modes, ChangeMode(m) PROVE TypeOK'
    BY <2>1, SameModeKeepsFile DEF ChangeMode
  <2>2. ASSUME NEW r \in Registers, NEW v \in Values, WriteRegister(r, v) PROVE TypeOK'
    BY <2>2, WriteOwner DEF WriteRegister
  <2>3. ASSUME NEW m \in Modes, NEW r \in Registers, NEW v \in Values, WriteOther(m, r, v)
        PROVE  TypeOK'
    <3> DEFINE f == update_reg_mode(regs, mode, m)
    <3>1. f \in Files BY SameModeKeepsFile
    <3> HIDE DEF f
    <3>2. SetRegister(f, r, v) \in Files BY <3>1, WriteOwner
    <3> QED BY <2>3, <3>2, SameModeKeepsFile DEF WriteOther, f
  <2>4. ASSUME NEW m \in Modes, NEW v \in Values, TakeException(m, v) PROVE TypeOK'
    BY <2>4, SlotIsOthers, SameModeKeepsFile DEF TakeException, EnterException
  <2>5. CASE UNCHANGED vars
    BY <2>5 DEF vars
  <2> QED BY <2>1, <2>2, <2>3, <2>4, <2>5 DEF Next
<1> QED BY <1>1, <1>2, PTL DEF Spec

(* Exceptions, returns, changes of mode and transfers of another mode's     *)
(* registers never mix up the registers of two modes, but for an exception  *)
(* in its own mode, which writes the user's link register.                  *)
THEOREM BanksImplementRegisters == Spec => BanksArePrivate
<1>1. Init => Seen!Init
  <2> SUFFICES ASSUME Init PROVE Seen!Init
    OBVIOUS
  <2>1. PICK v \in Values : regs = [gpr  |-> [r \in Registers |-> v],
                                    bank |-> [m \in Modes |-> [r \in Registers |-> v]]]
    BY DEF Init
  <2>2. FileOf(regs, mode) = [m \in Modes |-> [r \in Registers |-> v]]
    BY <2>1 DEF Init, FileOf, Modes
  <2> QED BY <2>2 DEF Init, Seen!Init, Seen!Modes, Modes
<1>2. TypeOK /\ [Next]_vars => [Seen!Next]_(Seen!vars)
  <2> SUFFICES ASSUME TypeOK, [Next]_vars PROVE [Seen!Next]_(Seen!vars)
    OBVIOUS
  <2> USE DEF TypeOK
  <2>1. ASSUME NEW m \in Modes, ChangeMode(m) PROVE Seen!Next
    <3>1. Seen!Change(m)
      BY <2>1, SameModeKeepsFile DEF ChangeMode, Seen!Change
    <3> QED BY <3>1 DEF Seen!Next, Seen!Modes, Modes
  <2>2. ASSUME NEW r \in Registers, NEW v \in Values, WriteRegister(r, v) PROVE Seen!Next
    <3>1. Seen!Write(mode, r, v)
      BY <2>2, WriteOwner DEF WriteRegister, Seen!Write, Seen!Assign
    <3> QED BY <3>1 DEF Seen!Next, Seen!Modes, Modes
  <2>3. ASSUME NEW m \in Modes, NEW r \in Registers, NEW v \in Values, WriteOther(m, r, v)
        PROVE  Seen!Next
    <3> DEFINE f == update_reg_mode(regs, mode, m)
    <3>1. f \in Files /\ FileOf(f, m) = FileOf(regs, mode) BY SameModeKeepsFile
    <3> HIDE DEF f
    <3> DEFINE g == SetRegister(f, r, v)
    <3>2. g \in Files /\ FileOf(g, m) = [FileOf(f, m) EXCEPT ![Seen!Owner(m, r)][r] = v]
      BY <3>1, WriteOwner
    <3>3. regs' = update_reg_mode(g, m, mode) /\ mode' = mode
      BY <2>3 DEF WriteOther, f
    <3> HIDE DEF g
    <3>4. FileOf(regs', mode) = FileOf(g, m)
      BY <3>2, <3>3, SameModeKeepsFile
    <3>5. Seen!Write(m, r, v)
      BY <3>1, <3>2, <3>3, <3>4 DEF Seen!Write, Seen!Assign
    <3> QED BY <3>5 DEF Seen!Next, Seen!Modes, Modes
  <2>4. ASSUME NEW m \in Modes, NEW v \in Values, TakeException(m, v) PROVE Seen!Next
    <3> DEFINE g == [regs EXCEPT !.bank[m][LR] = v]
               o == SlotOwner(m, mode)
    <3>1. m \in ExceptionModes /\ regs' = update_reg_mode(g, mode, m) /\ mode' = m
      BY <2>4 DEF TakeException, EnterException
    <3>2. g \in Files /\ FileOf(g, mode) = [FileOf(regs, mode) EXCEPT ![o][LR] = v]
      BY <3>1, SlotIsOthers
    <3>3. o = IF m = mode THEN "usr" ELSE m
      BY DEF SlotOwner
    <3> HIDE DEF g, o
    <3>4. FileOf(regs', m) = FileOf(g, mode)
      BY <3>1, <3>2, SameModeKeepsFile
    <3>5. Seen!Owner(o, LR) = o
      BY <3>1, <3>3 DEF Seen!Owner, Seen!Banked, Seen!LR, Seen!SP, ExceptionModes, LR, SP
    <3>6. Seen!Except(m, v)
      BY <3>1, <3>2, <3>3, <3>4, <3>5
         DEF Seen!Except, Seen!Assign, Seen!LR, LR, Seen!ExceptionModes, ExceptionModes
    <3> QED BY <3>6 DEF Seen!Next, Seen!Modes, Modes
  <2>5. CASE UNCHANGED vars
    BY <2>5 DEF vars, Seen!vars
  <2> QED BY <2>1, <2>2, <2>3, <2>4, <2>5 DEF Next
<1> QED BY <1>1, <1>2, BanksTypeOK, PTL DEF Spec, BanksArePrivate, Seen!Spec
-----------------------------------------------------------------------------
(* The pages and sections of the MMU. *)

LEMMA Products == \A x, y \in Nat : x * y \in Nat /\ x * y = y * x
OBVIOUS

LEMMA SizesAre ==
    /\ NumSections \in Nat \ {0} /\ PagesPerSection \in Nat \ {0}
           /\ SuperSections \in Nat \ {0}
BY MmuAssumption

Sections == 0..(NumSections - 1)

LEMMA SectionOfPage ==
    ASSUME NEW p \in Pages
    PROVE  SectionOf(p) \in Sections
<1> DEFINE q == p \div PagesPerSection
           r == p % PagesPerSection
<1>1. NumSections \in Nat \ {0} /\ PagesPerSection \in Nat \ {0}
  BY SizesAre
<1>2. NumSections * PagesPerSection \in Nat
  BY <1>1, Products
<1>3. p \in Nat /\ p < NumSections * PagesPerSection
  BY <1>2 DEF Pages, MappedPages
<1>4. q \in Nat /\ r \in 0..(PagesPerSection - 1) /\ p = PagesPerSection * q + r
  BY <1>1, <1>3, DivMod
<1> HIDE DEF q, r
<1>5. ASSUME q >= NumSections PROVE FALSE
  <2>1. \A x, y, z \in Nat : x <= y => z * x <= z * y
    OBVIOUS
  <2>2. PagesPerSection * NumSections <= PagesPerSection * q
    BY <1>1, <1>4, <1>5, <2>1
  <2>3. PagesPerSection * NumSections = NumSections * PagesPerSection
        /\ PagesPerSection * q \in Nat
    BY <1>1, <1>4, Products
  <2> QED BY <1>2, <1>3, <1>4, <2>2, <2>3
<1> QED BY <1>1, <1>4, <1>5 DEF q, SectionOf, Sections

(* A group is the sections of one supersection. *)
LEMMA GroupIs ==
    ASSUME NEW k \in Sections, NEW j
    PROVE  j \in Group(k, SuperSections)
               <=> j \in Sections /\ j \div SuperSections = k \div SuperSections
<1> DEFINE S == SuperSections
           q == k \div S
           m == NumSections \div S
<1>1. S \in Nat \ {0} /\ NumSections \in Nat \ {0} /\ k \in Nat /\ k < NumSections
  BY SizesAre DEF Sections
<1> HIDE DEF S
<1>2. q \in Nat /\ k % S \in 0..(S - 1) /\ k = S * q + (k % S)
  BY <1>1, DivMod
<1>3. m \in Nat /\ NumSections = S * m
  <2>1. m \in Nat /\ NumSections = S * m + (NumSections % S)
    BY <1>1, DivMod
  <2>2. NumSections % S = 0
    BY MmuAssumption DEF S
  <2>3. S * m \in Nat
    BY <1>1, <2>1, Products
  <2> HIDE DEF m
  <2> QED BY <2>1, <2>2, <2>3
<1> HIDE DEF q, m
<1>4. S * q \in Nat /\ k - (k % S) = S * q
  BY <1>1, <1>2, Products
<1>5. Group(k, SuperSections) = (S * q)..(S * q + S - 1)
  BY <1>4 DEF Group, S
<1>6. S * q + S <= NumSections
  <2>1. \A x, y, z \in Nat : z * x < z * y => x < y
    OBVIOUS
  <2>2. q < m
    BY <1>1, <1>2, <1>3, <1>4, <2>1
  <2>3. \A x, y, z \in Nat : x <= y => z * x <= z * y
    OBVIOUS
  <2>4. S * (q + 1) <= S * m
    BY <1>1, <1>2, <1>3, <2>2, <2>3
  <2>5. S * (q + 1) = S * q + S
    BY <1>1, <1>2
  <2> QED BY <1>3, <2>4, <2>5
<1>7. ASSUME j \in Group(k, SuperSections)
      PROVE  j \in Sections /\ j \div S = q
  <2> DEFINE r == j - S * q
  <2>1. j \in Nat /\ j >= S * q /\ j < S * q + S
    BY <1>1, <1>4, <1>5, <1>7
  <2>2. r \in 0..(S - 1) /\ S * q + r = j
    BY <1>1, <1>4, <2>1
  <2> HIDE DEF r
  <2>3. (S * q + r) \div S = q
    <3>1. q \in Int
      BY <1>2
    <3> QED BY <1>1, <2>2, <3>1, DivUnique
  <2>4. j \in Sections
    BY <1>1, <1>4, <1>6, <2>1 DEF Sections
  <2> QED BY <2>2, <2>3, <2>4
<1>8. ASSUME j \in Sections, j \div S = q
      PROVE  j \in Group(k, SuperSections)
  <2>1. j \in Nat
    BY <1>8 DEF Sections
  <2>2. j % S \in 0..(S - 1) /\ j = S * q + (j % S)
    BY <1>1, <1>8, <2>1, DivMod
  <2> QED BY <1>1, <1>4, <1>5, <2>1, <2>2
<1> QED BY <1>7, <1>8 DEF S, q

(* A supersection lies in one part of the memory. *)
LEMMA TableOfGroup ==
    ASSUME NEW n \in 0..1, NEW k \in Sections, NEW j \in Sections,
           j \div SuperSections = k \div SuperSections
    PROVE  TableOf(j, n) = TableOf(k, n)
<1> DEFINE S == SuperSections
           q == k \div S
           cutoff == l1_table_cutoff(n)
           m == cutoff \div S
<1>1. S \in Nat \ {0} /\ k \in Nat /\ j \in Nat
  BY SizesAre DEF Sections
<1>2. cutoff \in Nat /\ cutoff % S = 0
  BY MmuAssumption
<1> HIDE DEF cutoff, S
<1>3. m \in Nat /\ cutoff = S * m
  <2>1. m \in Nat /\ cutoff = S * m + (cutoff % S)
    BY <1>1, <1>2, DivMod
  <2> HIDE DEF m
  <2> QED BY <1>1, <1>2, <2>1, Products
<1>4. j \div S = q
  BY DEF S
<1>5. /\ q \in Nat /\ k % S \in 0..(S - 1) /\ k = S * q + (k % S)
      /\ j % S \in 0..(S - 1) /\ j = S * q + (j % S)
  BY <1>1, <1>4, DivMod
<1> HIDE DEF q, m
<1>6. ASSUME NEW r \in 0..(S - 1)
      PROVE  S * q + r < S * m <=> q < m
  <2>1. S * q \in Nat /\ S * m \in Nat
    BY <1>1, <1>3, <1>5, Products
  <2>2. \A x, y, z \in Nat : x <= y => z * x <= z * y
    OBVIOUS
  <2>3. CASE q < m
    <3>1. S * (q + 1) <= S * m
      BY <1>1, <1>3, <1>5, <2>2, <2>3
    <3>2. S * (q + 1) = S * q + S
      BY <1>1, <1>5
    <3> QED BY <1>1, <2>1, <2>3, <3>1, <3>2
  <2>4. CASE ~(q < m)
    <3>1. S * m <= S * q
      BY <1>1, <1>3, <1>5, <2>2, <2>4
    <3> QED BY <1>1, <2>1, <2>4, <3>1
  <2> QED BY <2>3, <2>4
<1>7. j < cutoff <=> k < cutoff
  BY <1>3, <1>5, <1>6
<1> QED BY <1>7 DEF TableOf, cutoff

(* The pages that a section maps. *)
LEMMA PageOfSection ==
    ASSUME NEW section \in Sections, NEW p \in Pages,
           InRegion(p, section * PagesPerSection, PagesPerSection)
    PROVE  SectionOf(p) = section /\ p % PagesPerSection = p - section * PagesPerSection
<1> DEFINE base == section * PagesPerSection
           r == p - base
<1>1. section \in Nat /\ PagesPerSection \in Nat \ {0}
  BY SizesAre DEF Sections
<1>2. base \in Nat /\ base = PagesPerSection * section
  BY <1>1, Products
<1> HIDE DEF base
<1>3. p \in Int /\ p >= base /\ p < base + PagesPerSection
  BY <1>1, <1>2 DEF InRegion, base
<1>4. r \in 0..(PagesPerSection - 1) /\ base + r = p
  BY <1>1, <1>2, <1>3
<1> HIDE DEF r
<1>5. (PagesPerSection * section + r) \div PagesPerSection = section
      /\ (PagesPerSection * section + r) % PagesPerSection = r
  BY <1>1, <1>4, DivUnique
<1> QED BY <1>2, <1>4, <1>5 DEF SectionOf, r, base

(* The pages that a supersection maps. *)
LEMMA PageOfSupersection ==
    ASSUME NEW section \in Sections, NEW p \in Pages,
           InRegion(p, (section - (section % SuperSections)) * PagesPerSection,
                    SuperSections * PagesPerSection)
    PROVE  /\ SectionOf(p) \in Group(section, SuperSections)
           /\ p % (SuperSections * PagesPerSection)
                  = p - (section - (section % SuperSections)) * PagesPerSection
<1> DEFINE S == SuperSections
           size == S * PagesPerSection
           q == section \div S
           base == (section - (section % S)) * PagesPerSection
           r == p - base
           i == r \div PagesPerSection
           j == r % PagesPerSection
<1>1. section \in Nat /\ PagesPerSection \in Nat \ {0} /\ S \in Nat \ {0}
  BY SizesAre DEF Sections
<1>2. q \in Nat /\ section - (section % S) = S * q
  <2>1. q \in Nat /\ section % S \in 0..(S - 1) /\ section = S * q + (section % S)
    BY <1>1, DivMod
  <2>2. S * q \in Nat
    BY <1>1, <2>1, Products
  <2> HIDE DEF q, S
  <2> QED BY <1>1, <2>1, <2>2
<1> HIDE DEF S
<1>3. size \in Nat \ {0}
  <2>1. \A x, y \in Nat \ {0} : x * y \in Nat \ {0}
    OBVIOUS
  <2> QED BY <1>1, <2>1
<1>4. base = size * q /\ base = PagesPerSection * (S * q) /\ base \in Nat
  <2>1. \A x, y, z \in Nat : (x * z) * y = (x * y) * z /\ (x * z) * y = y * (x * z)
                            /\ (x * z) * y \in Nat
    OBVIOUS
  <2>2. base = (S * q) * PagesPerSection
    BY <1>2
  <2> HIDE DEF base, q
  <2> QED BY <1>1, <1>2, <2>1, <2>2
<1> HIDE DEF base, q
<1>5. p \in Int /\ p >= base /\ p < base + size
  <2>1. InRegion(p, base, size)
    BY DEF base, S
  <2> HIDE DEF size
  <2> QED BY <1>3, <1>4, <2>1 DEF InRegion
<1> HIDE DEF size
<1>6. r \in 0..(size - 1) /\ r \in Nat /\ base + r = p
  BY <1>3, <1>4, <1>5
<1> HIDE DEF r
<1>7. p % size = r
  <2>1. (size * q + r) % size = r
    BY <1>2, <1>3, <1>6, DivUnique
  <2> QED BY <1>4, <1>6, <2>1
<1>8. i \in Nat /\ j \in 0..(PagesPerSection - 1) /\ r = PagesPerSection * i + j
  BY <1>1, <1>6, DivMod
<1> HIDE DEF i, j
<1>9. i \in 0..(S - 1)
  <2> SUFFICES ASSUME i >= S PROVE FALSE
    BY <1>1, <1>8
  <2>1. \A x, y, z \in Nat : x <= y => z * x <= z * y
    OBVIOUS
  <2>2. PagesPerSection * S <= PagesPerSection * i
    BY <1>1, <1>8, <2>1
  <2>3. PagesPerSection * S = size /\ PagesPerSection * i \in Nat
    BY <1>1, <1>8, Products DEF size
  <2> QED BY <1>3, <1>6, <1>8, <2>2, <2>3
<1>10. SectionOf(p) = S * q + i
  <2> DEFINE k == S * q + i
  <2>1. S * q \in Nat /\ k \in Nat
    BY <1>1, <1>2, <1>8, Products
  <2>2. p = PagesPerSection * k + j
    <3>1. PagesPerSection * k = PagesPerSection * (S * q) + PagesPerSection * i
      BY <1>1, <1>8, <2>1
    <3> HIDE DEF k
    <3>2. PagesPerSection * i \in Nat /\ PagesPerSection * (S * q) \in Nat
      BY <1>1, <1>8, <2>1, Products
    <3> QED BY <1>4, <1>6, <1>8, <3>1, <3>2
  <2> HIDE DEF k
  <2>3. (PagesPerSection * k + j) \div PagesPerSection = k
    <3>1. k \in Int
      BY <2>1
    <3> QED BY <1>1, <1>8, <3>1, DivUnique
  <2> QED BY <2>2, <2>3 DEF SectionOf, k
<1>11. (S * q + i) \div S = q
  <2>1. q \in Int
    BY <1>2
  <2> QED BY <1>1, <1>9, <2>1, DivUnique
<1>12. SectionOf(p) \in Group(section, SuperSections)
  BY <1>10, <1>11, SectionOfPage, GroupIs DEF q, S
<1> QED BY <1>7, <1>12 DEF r, base, size, S

-----------------------------------------------------------------------------
(* The page tables and the translations. *)

(* A supersection's entry is repeated. *)
SupersectionsAreWhole ==
    \A t \in L1Tables, k \in Sections : l1[t][k].type = "super" =>
        \A j \in Group(k, SuperSections) : l1[t][j] = l1[t][k]

MmuInv ==
    /\ l1 \in [L1Tables -> [Sections -> L1Entries]]
    /\ l1_table_base \in [0..1 -> L1Tables]
    /\ l1_table_control \in 0..1
    /\ SupersectionsAreWhole
    /\ TranslationsAreCurrent

(* A load of the translations of a section loads current ones. *)
LEMMA ReloadIsCurrent ==
    ASSUME MmuInv, NEW page \in Pages, reload_tlb_section(page),
           NEW p \in Pages, p \notin stale
    PROVE  privileged_mapping'[p] \in {Null, Current(p)}
<1> DEFINE section == SectionOf(page)
           e == l1[l1_table_base[TableOf(section, l1_table_control)]][section]
           base == IF e.type = "super" THEN (section - (section % SuperSections)) * PagesPerSection
                   ELSE section * PagesPerSection
           size == IF e.type = "super" THEN SuperSections * PagesPerSection ELSE PagesPerSection
           kept == privileged_mapping[p]
           own == l1[l1_table_base[TableOf(SectionOf(p), l1_table_control)]][SectionOf(p)]
           k == p % PagesPerSection
<1>1. section \in Sections /\ SectionOf(p) \in Sections
  BY SectionOfPage
<1>2. kept \in {Null, Current(p)}
  BY DEF MmuInv, TranslationsAreCurrent
<1>3. TableOf(section, l1_table_control) \in 0..1
      /\ l1_table_base[TableOf(section, l1_table_control)] \in L1Tables /\ e \in L1Entries
  BY <1>1 DEF TableOf, MmuInv
<1>4. e.type \in {"none", "section", "super", "table"}
  BY <1>3, MmuAssumption
<1>5. privileged_mapping'[p] =
         CASE e.type = "none" -> IF InRegion(p, page, PagesPerSection) THEN Null ELSE kept
           [] e.type \in {"section", "super"} ->
                IF InRegion(p, base, size) THEN Translation(e, p - base) ELSE kept
           [] e.type = "table" ->
                IF InRegion(p, base, size) /\ l2[p - base].type # "none"
                THEN Translation(l2[p - base], IF l2[p - base].type = "large"
                                               THEN (p - base) % LargePages ELSE 0)
                ELSE IF InRegion(p, page, PagesPerSection) /\ l2[p - page].type = "none"
                THEN Null ELSE kept
  BY DEF reload_tlb_section
<1>6. Current(p) =
         CASE own.type = "none"    -> Null
           [] own.type = "section" -> Translation(own, k)
           [] own.type = "super"   -> Translation(own, p % (SuperSections * PagesPerSection))
           [] own.type = "table"   ->
                IF l2[k].type = "none" THEN Null
                ELSE Translation(l2[k], IF l2[k].type = "large" THEN k % LargePages ELSE 0)
  BY DEF Current, Walk
<1>7. CASE e.type = "none"
  <2> HIDE DEF e, kept
  <2>1. privileged_mapping'[p] \in {Null, kept}
    BY <1>5, <1>7
  <2> QED BY <1>2, <2>1
<1>8. ASSUME e.type \in {"section", "table"}, InRegion(p, base, size)
      PROVE  own = e /\ k = p - base
  <2>1. base = section * PagesPerSection /\ size = PagesPerSection
    BY <1>8
  <2>2. SectionOf(p) = section /\ k = p - base
    BY <1>1, <1>8, <2>1, PageOfSection
  <2> QED BY <2>2
<1>9. ASSUME e.type = "super", InRegion(p, base, size)
      PROVE  own = e /\ p % (SuperSections * PagesPerSection) = p - base
  <2>1. base = (section - (section % SuperSections)) * PagesPerSection
        /\ size = SuperSections * PagesPerSection
    BY <1>9
  <2>2. SectionOf(p) \in Group(section, SuperSections)
        /\ p % (SuperSections * PagesPerSection) = p - base
    BY <1>1, <1>9, <2>1, PageOfSupersection
  <2>3. TableOf(SectionOf(p), l1_table_control) = TableOf(section, l1_table_control)
    BY <1>1, <2>2, GroupIs, TableOfGroup DEF MmuInv
  <2>4. own = e
    BY <1>1, <1>3, <1>9, <2>2, <2>3 DEF MmuInv, SupersectionsAreWhole
  <2> QED BY <2>2, <2>4
<1> HIDE DEF e, own, base, size, kept, k
<1>10. CASE e.type = "section"
  BY <1>2, <1>5, <1>6, <1>8, <1>10
<1>11. CASE e.type = "super"
  BY <1>2, <1>5, <1>6, <1>9, <1>11
<1>12. CASE e.type = "table"
  <2>1. CASE InRegion(p, base, size) /\ l2[p - base].type # "none"
    BY <1>5, <1>6, <1>8, <1>12, <2>1
  <2>2. CASE ~(InRegion(p, base, size) /\ l2[p - base].type # "none")
    <3>1. privileged_mapping'[p] \in {Null, kept}
      BY <1>5, <1>12, <2>2
    <3> QED BY <1>2, <3>1
  <2> QED BY <2>1, <2>2
<1> QED BY <1>4, <1>7, <1>10, <1>11, <1>12

(* A write makes the pages stale whose translation it changes. *)
LEMMA WroteIsStale ==
    ASSUME TranslationsAreCurrent, Wrote, UNCHANGED privileged_mapping
    PROVE  TranslationsAreCurrent'
<1> SUFFICES ASSUME NEW p \in Pages, p \notin stale'
             PROVE  privileged_mapping'[p] \in {Null, Current(p)'}
  BY DEF TranslationsAreCurrent
<1>1. p \notin stale /\ Current(p) = Walk(l1', l2', l1_table_base', l1_table_control', p)
  BY DEF Wrote
<1>2. Current(p)' = Current(p)
  BY <1>1 DEF Current
<1>3. privileged_mapping[p] \in {Null, Current(p)}
  BY <1>1 DEF TranslationsAreCurrent
<1> QED BY <1>2, <1>3

(* A write keeps supersections whole. *)
LEMMA WriteL1Keeps ==
    ASSUME MmuInv,
           NEW t \in L1Tables, NEW section \in Sections, NEW e \in L1Entries,
           write_l1(t, section, e)
    PROVE  l1' \in [L1Tables -> [Sections -> L1Entries]] /\ SupersectionsAreWhole'
<1> DEFINE written == IF e.type = "super" THEN Group(section, SuperSections) ELSE {section}
           table == [k \in Sections |-> IF k \in written THEN e ELSE l1[t][k]]
<1>1. l1 \in [L1Tables -> [Sections -> L1Entries]]
  BY DEF MmuInv
<1>2. table \in [Sections -> L1Entries]
  BY <1>1
<1>3. l1' = [l1 EXCEPT ![t] = table]
  <2>1. DOMAIN l1[t] = Sections
    BY <1>1
  <2> QED BY <2>1 DEF write_l1
<1> HIDE DEF table
<1>4. l1' \in [L1Tables -> [Sections -> L1Entries]]
  BY <1>1, <1>2, <1>3
<1>5. ASSUME NEW k \in Sections, NEW j \in Group(k, SuperSections), table[k].type = "super"
      PROVE  table[j] = table[k]
  <2>1. j \in Sections /\ j \div SuperSections = k \div SuperSections
    BY GroupIs
  <2>2. CASE e.type = "super"
    <3>1. k \in written <=> j \in written
      BY <2>1, <2>2, GroupIs
    <3>2. CASE k \in written
      BY <2>1, <3>1, <3>2 DEF table
    <3>3. CASE k \notin written
      <4>1. table[k] = l1[t][k] /\ table[j] = l1[t][j]
        BY <2>1, <3>1, <3>3 DEF table
      <4> QED BY <1>5, <4>1 DEF MmuInv, SupersectionsAreWhole
    <3> QED BY <3>2, <3>3
  <2>3. CASE e.type # "super"
    <3>1. k # section /\ table[k] = l1[t][k]
      BY <1>5, <2>3 DEF table
    <3>2. section \notin Group(k, SuperSections)
      BY <1>5, <2>3, <3>1 DEF write_l1, Sections
    <3>3. table[j] = l1[t][j]
      BY <2>1, <2>3, <3>2 DEF table
    <3> QED BY <1>5, <3>1, <3>3 DEF MmuInv, SupersectionsAreWhole
  <2> QED BY <2>2, <2>3
<1>6. SupersectionsAreWhole'
  <2> SUFFICES ASSUME NEW u \in L1Tables, NEW k \in Sections, l1'[u][k].type = "super",
                      NEW j \in Group(k, SuperSections)
               PROVE  l1'[u][j] = l1'[u][k]
    BY DEF SupersectionsAreWhole
  <2>1. CASE u = t
    <3>1. l1'[u] = table
      BY <1>1, <1>3, <2>1
    <3> QED BY <1>5, <3>1
  <2>2. CASE u # t
    <3>1. l1'[u] = l1[u]
      BY <1>1, <1>3, <2>2
    <3> QED BY <3>1 DEF MmuInv, SupersectionsAreWhole
  <2> QED BY <2>1, <2>2
<1> QED BY <1>4, <1>6

LEMMA MmuInitInv ==
    ASSUME MmuInit
    PROVE  MmuInv
<1>1. \A p \in Pages : privileged_mapping[p] = Null
  BY DEF MmuInit
<1>2. PICK t \in L1Tables : l1_table_base = [index \in 0..1 |-> t]
  BY DEF MmuInit
<1>3. l1_table_base \in [0..1 -> L1Tables]
  BY <1>2
<1>4. l1 \in [L1Tables -> [Sections -> L1Entries]] /\ SupersectionsAreWhole
  BY MmuAssumption DEF MmuInit, SupersectionsAreWhole, Sections
<1>5. l1_table_control \in 0..1
  BY DEF MmuInit
<1> QED BY <1>1, <1>3, <1>4, <1>5 DEF MmuInv, TranslationsAreCurrent

LEMMA MmuNextInv ==
    ASSUME MmuInv, [MmuNext]_mmuVars
    PROVE  MmuInv'
<1>1. ASSUME NEW t \in L1Tables, NEW s \in 0..(NumSections - 1), NEW e \in L1Entries,
             write_l1(t, s, e)
      PROVE  MmuInv'
  <2>1. l1' \in [L1Tables -> [Sections -> L1Entries]] /\ SupersectionsAreWhole'
    BY <1>1, WriteL1Keeps DEF Sections
  <2>2. UNCHANGED <<l1_table_base, l1_table_control, privileged_mapping>> /\ Wrote
    BY <1>1 DEF write_l1
  <2>3. TranslationsAreCurrent'
    BY <2>2, WroteIsStale DEF MmuInv
  <2> QED BY <2>1, <2>2, <2>3 DEF MmuInv
<1>2. ASSUME NEW k \in 0..(PagesPerSection - 1), NEW e \in L2Entries, write_l2(k, e)
      PROVE  MmuInv'
  <2>1. UNCHANGED <<l1, l1_table_base, l1_table_control, privileged_mapping>> /\ Wrote
    BY <1>2 DEF write_l2
  <2>2. TranslationsAreCurrent'
    BY <2>1, WroteIsStale DEF MmuInv
  <2> QED BY <2>1, <2>2 DEF MmuInv, SupersectionsAreWhole
<1>3. ASSUME NEW index \in 0..1, NEW t \in L1Tables, set_l1_table_base(index, t)
      PROVE  MmuInv'
  <2>1. /\ UNCHANGED <<l1, l2, l1_table_control, stale>>
        /\ l1_table_base' = [l1_table_base EXCEPT ![index] = t]
        /\ Forget(TablePages(index))
    BY <1>3 DEF set_l1_table_base
  <2>2. l1_table_base' \in [0..1 -> L1Tables]
    BY <2>1 DEF MmuInv
  <2>3. ASSUME NEW p \in Pages, p \notin stale
        PROVE  privileged_mapping'[p] \in {Null, Current(p)'}
    <3> DEFINE own == TableOf(SectionOf(p), l1_table_control)
    <3>1. CASE own = index
      BY <2>1, <3>1 DEF Forget, TablePages
    <3>2. CASE own # index
      <4>1. privileged_mapping'[p] = privileged_mapping[p]
        BY <2>1, <3>2 DEF Forget, TablePages
      <4>2. l1_table_base'[own] = l1_table_base[own]
        BY <2>1, <3>2 DEF TableOf, MmuInv
      <4> HIDE DEF own
      <4>3. Current(p)' = Current(p)
        BY <2>1, <4>2 DEF Current, Walk, own
      <4> QED BY <2>3, <4>1, <4>3 DEF MmuInv, TranslationsAreCurrent
    <3> QED BY <3>1, <3>2
  <2> QED BY <2>1, <2>2, <2>3 DEF MmuInv, SupersectionsAreWhole, TranslationsAreCurrent
<1>4. ASSUME NEW n \in 0..1, set_l1_table_control(n)
      PROVE  MmuInv'
  <2>1. /\ UNCHANGED <<l1, l1_table_base, privileged_mapping>> /\ Wrote
        /\ l1_table_control' = n
    BY <1>4 DEF set_l1_table_control
  <2>2. TranslationsAreCurrent'
    BY <2>1, WroteIsStale DEF MmuInv
  <2> QED BY <2>1, <2>2 DEF MmuInv, SupersectionsAreWhole
<1>5. ASSUME NEW page \in Pages, reload_tlb_section(page),
             UNCHANGED <<l1, l2, l1_table_base, l1_table_control, stale>>
      PROVE  MmuInv'
  <2>1. ASSUME NEW p \in Pages, p \notin stale
        PROVE  privileged_mapping'[p] \in {Null, Current(p)'}
    <3>1. privileged_mapping'[p] \in {Null, Current(p)}
      BY <1>5, <2>1, ReloadIsCurrent
    <3>2. Current(p)' = Current(p)
      BY <1>5 DEF Current
    <3> QED BY <3>1, <3>2
  <2> QED BY <1>5, <2>1 DEF MmuInv, SupersectionsAreWhole, TranslationsAreCurrent
<1>6. ASSUME UNCHANGED <<l1, l2, l1_table_base, l1_table_control, privileged_mapping, stale>>
      PROVE  MmuInv'
  <2>1. \A p \in Pages : Current(p)' = Current(p)
    BY <1>6 DEF Current
  <2> QED BY <1>6, <2>1 DEF MmuInv, SupersectionsAreWhole, TranslationsAreCurrent
<1>7. CASE mcr_control(TRUE)
  <2>1. 0 \in Pages
    <3>1. \A x, y \in Nat \ {0} : x * y \in Nat \ {0}
      OBVIOUS
    <3>2. NumSections * PagesPerSection \in Nat \ {0}
      BY <3>1, SizesAre
    <3> QED BY <3>2 DEF Pages, MappedPages
  <2>2. UNCHANGED <<l1, l2, l1_table_base, l1_table_control, stale>>
        /\ (reload_tlb_section(0) \/ UNCHANGED privileged_mapping)
    BY <1>7 DEF mcr_control
  <2> QED BY <1>5, <1>6, <2>1, <2>2
<1>8. ASSUME NEW S, Invalidated(S)
      PROVE  MmuInv'
  <2>1. /\ UNCHANGED <<l1, l2, l1_table_base, l1_table_control>>
        /\ Forget(S) /\ stale' = stale \ S
    BY <1>8 DEF Invalidated
  <2>2. ASSUME NEW p \in Pages, p \notin stale'
        PROVE  privileged_mapping'[p] \in {Null, Current(p)'}
    <3>1. Current(p)' = Current(p)
      BY <2>1 DEF Current
    <3>2. CASE p \in S
      BY <2>1, <3>2 DEF Forget
    <3>3. CASE p \notin S
      BY <2>1, <2>2, <3>1, <3>3 DEF Forget, MmuInv, TranslationsAreCurrent
    <3> QED BY <3>2, <3>3
  <2> QED BY <2>1, <2>2 DEF MmuInv, SupersectionsAreWhole, TranslationsAreCurrent
<1>9. ASSUME NEW page \in Pages, cp15_reload_tlb(page)
      PROVE  MmuInv'
  BY <1>5, <1>9 DEF cp15_reload_tlb
<1>10. CASE UNCHANGED mmuVars
  BY <1>6, <1>10 DEF mmuVars
<1> QED BY <1>1, <1>2, <1>3, <1>4, <1>7, <1>8, <1>9, <1>10
        DEF MmuNext, invalidate_tlb, invalidate_tlb_by_asid, invalidate_tlb_by_addr

(* The MMU keeps no translation that the page tables do not say, but of     *)
(* pages the program owes an invalidation: see TranslationsAreCurrent.      *)
THEOREM MmuTranslationsAreCurrent ==
    MmuSpec => []TranslationsAreCurrent
<1>1. MmuInit => MmuInv
  BY MmuInitInv
<1>2. MmuInv /\ [MmuNext]_mmuVars => MmuInv'
  BY MmuNextInv
<1>3. MmuInv => TranslationsAreCurrent
  BY DEF MmuInv
<1> QED BY <1>1, <1>2, <1>3, PTL DEF MmuSpec

-----------------------------------------------------------------------------
(* The regions of the ARM9. *)

Perms == SUBSET {"r", "w", "x"}
PuRegion == [base : Nat, size : Nat, enabled : BOOLEAN, data : Perms, instr : Perms]
Mappings == [PuPages -> [mapped : BOOLEAN, perm : Perms]]

(* Regions of which none lies in the middle of a lower one. *)
Arranged(regions) ==
    /\ regions \in [Regions -> PuRegion]
    /\ \A i, k \in Regions : i < k /\ regions[k].enabled =>
           regions[k].base <= regions[i].base \/ End(regions[k]) >= End(regions[i])

(* What is left of a part when a higher region that reaches over one of the *)
(* ends of base..top has cut it.                                            *)
LEMMA CutIs ==
    ASSUME NEW base \in Nat, NEW top \in Nat, NEW part \in Nat \X Nat,
           base <= part[1], part[2] <= top, NEW higher \in PuRegion,
           higher.enabled => higher.base <= base \/ End(higher) >= top
    PROVE  /\ Cut(part, higher) \in Nat \X Nat
           /\ base <= Cut(part, higher)[1] /\ Cut(part, higher)[2] <= top
           /\ \A p \in Int : p \in Cut(part, higher)[1]..(Cut(part, higher)[2] - 1)
                  <=> p \in part[1]..(part[2] - 1) /\ ~(higher.enabled /\ Within(p, higher))
<1> DEFINE b == higher.base
           e == End(higher)
           from == part[1]
           to == part[2]
           start == IF from >= b /\ from < e THEN e ELSE from
           end == IF start < b /\ to >= b THEN b ELSE to
<1>1. /\ b \in Nat /\ e \in Nat /\ b <= e
      /\ from \in Nat /\ to \in Nat /\ base <= from /\ to <= top
  BY DEF PuRegion, End
<1>2. CASE ~higher.enabled
  <2>1. Cut(part, higher) = part
    BY <1>2 DEF Cut
  <2> QED BY <1>1, <1>2, <2>1
<1>3. CASE higher.enabled
  <2>1. Cut(part, higher) = <<start, end>>
    BY <1>3 DEF Cut
  <2>2. b <= base \/ e >= top
    BY <1>3
  <2>3. \A p \in Int : Within(p, higher) <=> b <= p /\ p < e
    BY <1>1 DEF Within
  <2> HIDE DEF b, e, from, to
  <2>4. start \in Nat /\ end \in Nat /\ base <= start /\ end <= top
    BY <1>1
  <2>5. \A p \in Int : start <= p /\ p < end
            <=> from <= p /\ p < to /\ ~(b <= p /\ p < e)
    BY <1>1, <2>2
  <2> HIDE DEF start, end
  <2>6. \A p \in Int : p \in from..(to - 1) <=> from <= p /\ p < to
    BY <1>1
  <2>7. \A p \in Int : p \in start..(end - 1) <=> start <= p /\ p < end
    BY <2>4
  <2> QED BY <1>3, <2>1, <2>3, <2>4, <2>5, <2>6, <2>7 DEF from, to
<1> QED BY <1>2, <1>3

(* What the loop over the higher regions leaves of a region: all that they  *)
(* do not cover.                                                            *)
LEMMA RemainingIs ==
    ASSUME NEW regions, Arranged(regions), NEW i \in Regions
    PROVE  \A p \in Int : p \in Remaining(regions, i)
               <=> /\ Within(p, regions[i])
                   /\ \A h \in Regions : h > i /\ regions[h].enabled => ~Within(p, regions[h])
<1> DEFINE above == NumRegions - 1 - i
           whole == <<regions[i].base, End(regions[i])>>
           Is(r) == r = [k \in 0..above |-> IF k = 0 THEN whole ELSE Cut(r[k - 1], regions[i + k])]
           part == CHOOSE r : Is(r)
           top == End(regions[i])
           base == regions[i].base
           Parts == {q \in Nat \X Nat : base <= q[1] /\ q[2] <= top}
           step == [k \in 1..above |-> [q \in Parts |-> Cut(q, regions[i + k])]]
<1>1. NumRegions \in Nat /\ i \in 0..(NumRegions - 1) /\ above \in Nat
  BY PuAssumption DEF Regions
<1>2. \A k \in Regions : regions[k] \in PuRegion
  BY DEF Arranged
<1>3. base \in Nat /\ top \in Nat /\ whole \in Parts
  BY <1>2 DEF PuRegion, End
<1>4. ASSUME NEW k \in 1..above
      PROVE  /\ i + k \in Regions /\ i < i + k
             /\ regions[i + k].enabled =>
                    regions[i + k].base <= base \/ End(regions[i + k]) >= top
  <2>1. i + k \in Regions /\ i < i + k
    BY <1>1 DEF Regions
  <2> QED BY <2>1 DEF Arranged
<1>5. \A p \in Int : Within(p, regions[i]) <=> p \in whole[1]..(whole[2] - 1)
  BY DEF Within
<1>6. \A p \in Int : p \in Remaining(regions, i) <=> p \in part[above][1]..(part[above][2] - 1)
  BY DEF Remaining
<1> HIDE DEF above, whole, top, base
<1>7. ASSUME NEW k \in 1..above, NEW q \in Parts
      PROVE  /\ Cut(q, regions[i + k]) \in Parts
             /\ \A p \in Int : p \in Cut(q, regions[i + k])[1]..(Cut(q, regions[i + k])[2] - 1)
                    <=> /\ p \in q[1]..(q[2] - 1)
                        /\ ~(regions[i + k].enabled /\ Within(p, regions[i + k]))
  <2>1. regions[i + k] \in PuRegion
    BY <1>2, <1>4
  <2> QED BY <1>3, <1>4, <2>1, CutIs
<1>8. step \in [1..above -> [Parts -> Parts]]
  BY <1>7
<1>9. \A k \in 1..above : \A q \in Parts : step[k][q] = Cut(q, regions[i + k])
  OBVIOUS
<1> HIDE DEF step, Parts
<1>10. PICK f \in [0..above -> Parts] :
           f[0] = whole /\ \A k \in 1..above : f[k] = step[k][f[k - 1]]
  BY <1>1, <1>3, <1>8, FiniteRecursion
<1>11. Is(f)
  <2>1. ASSUME NEW k \in 0..above
        PROVE  f[k] = IF k = 0 THEN whole ELSE Cut(f[k - 1], regions[i + k])
    <3>1. k # 0 => k \in 1..above /\ k - 1 \in 0..above
      BY <1>1
    <3> QED BY <1>9, <1>10, <3>1
  <2> QED BY <2>1
<1>12. Is(part)
  <2> HIDE DEF Is
  <2> QED BY <1>11
<1> HIDE DEF part
<1>13. part[0] = whole /\ \A k \in 1..above : part[k] = Cut(part[k - 1], regions[i + k])
  BY <1>1, <1>12
<1> DEFINE Left(p, k) == \A h \in Regions :
               i < h /\ h <= i + k /\ regions[h].enabled => ~Within(p, regions[h])
           P == {k \in 0..above :
                    /\ part[k] \in Parts
                    /\ \A p \in Int : p \in part[k][1]..(part[k][2] - 1)
                           <=> Within(p, regions[i]) /\ Left(p, k)}
<1>14. 0 \in P
  <2>1. \A p \in Int : Left(p, 0)
    BY <1>1 DEF Regions
  <2> HIDE DEF Left
  <2> QED BY <1>1, <1>3, <1>5, <1>13, <2>1
<1>15. ASSUME NEW k \in 1..above, k - 1 \in P
       PROVE  k \in P
  <2>1. ASSUME NEW p \in Int
        PROVE  Left(p, k) <=> /\ Left(p, k - 1)
                              /\ ~(regions[i + k].enabled /\ Within(p, regions[i + k]))
    <3>1. \A h \in Regions : i < h /\ h <= i + k <=> (i < h /\ h <= i + (k - 1)) \/ h = i + k
      BY <1>1 DEF Regions
    <3>2. i + k \in Regions
      BY <1>4
    <3> QED BY <3>1, <3>2
  <2> HIDE DEF Left
  <2>2. part[k] = Cut(part[k - 1], regions[i + k]) /\ part[k - 1] \in Parts
    BY <1>13, <1>15
  <2>3. part[k] \in Parts
        /\ \A p \in Int : p \in part[k][1]..(part[k][2] - 1)
               <=> /\ p \in part[k - 1][1]..(part[k - 1][2] - 1)
                   /\ ~(regions[i + k].enabled /\ Within(p, regions[i + k]))
    BY <1>7, <2>2
  <2>4. k \in 0..above
    BY <1>1
  <2> QED BY <1>15, <2>1, <2>3, <2>4
<1>16. above \in P
  <2> HIDE DEF P
  <2>1. 0..above \subseteq P
    BY <1>1, <1>14, <1>15, FiniteInduction
  <2> QED BY <1>1, <2>1
<1>17. \A h \in Regions : h <= i + above
  BY <1>1 DEF above, Regions
<1> QED BY <1>1, <1>6, <1>16, <1>17 DEF Regions

(* i is the highest region that p lies in. *)
IsTop(regions, p, i) == i \in Over(regions, p) /\ \A k \in Over(regions, p) : k <= i

LEMMA TopIs ==
    ASSUME NEW regions, NEW p
    PROVE  /\ Over(regions, p) # {} => IsTop(regions, p, Max(Over(regions, p)))
           /\ \A i : IsTop(regions, p, i) => Meant(regions, p) = Entry(regions[i])
<1> DEFINE S == Over(regions, p)
           Greatest(i) == i \in S /\ \A k \in S : i >= k
<1>1. S \subseteq Regions /\ Regions \subseteq Nat /\ \A k \in Regions : k <= NumRegions
  BY PuAssumption DEF Over, Regions
<1>2. Max(S) = CHOOSE i \in S : \A k \in S : i >= k
  BY DEF Max
<1>3. \A i : IsTop(regions, p, i) <=> Greatest(i)
  BY <1>1 DEF IsTop
<1> HIDE DEF S
<1>4. ASSUME S # {}
      PROVE  Greatest(Max(S))
  <2>1. S \in SUBSET Nat /\ NumRegions \in Nat /\ \A k \in S : k <= NumRegions
    BY <1>1, PuAssumption
  <2>2. PICK i \in S : \A k \in S : k <= i
    BY <1>4, <2>1, GreatestExists
  <2>3. Greatest(i)
    BY <1>1, <2>2
  <2> QED BY <1>2, <2>3
<1>5. ASSUME NEW i, Greatest(i)
      PROVE  i = Max(S) /\ S # {}
  <2>1. S # {}
    BY <1>5
  <2> DEFINE m == Max(S)
  <2>2. Greatest(m)
    BY <1>4, <2>1
  <2> HIDE DEF m
  <2>3. i >= m /\ m >= i /\ i \in Nat /\ m \in Nat
    BY <1>1, <1>5, <2>2
  <2>4. i = m
    BY <2>3
  <2> QED BY <2>1, <2>4 DEF m
<1> QED BY <1>3, <1>4, <1>5 DEF Meant, S

(* p is a page of region i that no higher region takes from it. *)
Bare(regions, p, i) ==
    /\ Within(p, regions[i])
    /\ \A h \in Regions : h > i /\ regions[h].enabled => ~Within(p, regions[h])

LEMMA BareIs ==
    ASSUME NEW regions, Arranged(regions), NEW i \in Regions, NEW p \in PuPages
    PROVE  p \in Remaining(regions, i) <=> Bare(regions, p, i)
<1>1. p \in Int
  BY PuAssumption DEF PuPages
<1> QED BY <1>1, RemainingIs DEF Bare

(* A region that is mapped takes the pages that no higher one takes; one    *)
(* that is disabled empties them.                                           *)
LEMMA RemappedIs ==
    ASSUME NEW regions, Arranged(regions), NEW i \in Regions, NEW mapping, NEW p \in PuPages
    PROVE  Remapped(mapping, regions, i)[p]
               = IF ~Bare(regions, p, i) THEN mapping[p]
                 ELSE IF regions[i].enabled THEN Entry(regions[i]) ELSE NoRegion
<1>1. p \in Remaining(regions, i) <=> Bare(regions, p, i)
  BY BareIs
<1> QED BY <1>1 DEF Remapped, remap_pu_region, unmap_pu_region

LEMMA BareIsTop ==
    ASSUME NEW regions, NEW i \in Regions, NEW p, regions[i].enabled
    PROVE  Bare(regions, p, i) <=> IsTop(regions, p, i)
<1>1. Regions \subseteq Int
  BY PuAssumption DEF Regions
<1>2. \A h \in Regions : h > i <=> ~(h <= i)
  BY <1>1
<1> QED BY <1>2 DEF Bare, IsTop, Over

(* A region that is mapped, or emptied, makes its pages as they may be and  *)
(* leaves the others so.                                                    *)
LEMMA RemappedIsGood ==
    ASSUME NEW regions, Arranged(regions), NEW i \in Regions, NEW mapping, NEW p \in PuPages,
           Bare(regions, p, i) \/ Good(regions, mapping, p)
    PROVE  Good(regions, Remapped(mapping, regions, i), p)
<1> DEFINE after == Remapped(mapping, regions, i)
<1>1. after[p] = IF ~Bare(regions, p, i) THEN mapping[p]
                 ELSE IF regions[i].enabled THEN Entry(regions[i]) ELSE NoRegion
  BY RemappedIs
<1> HIDE DEF after
<1>2. ASSUME ~Bare(regions, p, i)
      PROVE  Good(regions, after, p)
  <2>1. Good(regions, mapping, p) /\ after[p] = mapping[p]
    BY <1>1, <1>2
  <2> QED BY <2>1 DEF Good
<1>3. ASSUME Bare(regions, p, i), regions[i].enabled
      PROVE  Good(regions, after, p)
  <2>1. IsTop(regions, p, i)
    BY <1>3, BareIsTop
  <2>2. Meant(regions, p) = Entry(regions[i])
    BY <2>1, TopIs
  <2> QED BY <1>1, <1>3, <2>2 DEF Good
<1>4. ASSUME Bare(regions, p, i), ~regions[i].enabled
      PROVE  Good(regions, after, p)
  <2>1. Regions \subseteq Int
    BY PuAssumption DEF Regions
  <2>2. \A k \in Over(regions, p) : k < i
    BY <1>4, <2>1 DEF Bare, Over
  <2>3. Hidden(regions, p)
    BY <1>4, <2>2 DEF Bare, Hidden
  <2> QED BY <1>1, <1>4, <2>3 DEF Good
<1>5. Good(regions, after, p)
  BY <1>2, <1>3, <1>4
<1> QED BY <1>5 DEF after

LEMMA RemappedType ==
    ASSUME NEW regions, Arranged(regions), NEW i \in Regions, NEW mapping \in Mappings
    PROVE  Remapped(mapping, regions, i) \in Mappings
<1>1. regions[i].data \cup regions[i].instr \in Perms
  BY DEF Arranged, PuRegion, Perms
<1>2. NoRegion \in [mapped : BOOLEAN, perm : Perms]
  BY DEF NoRegion, Perms
<1>3. Entry(regions[i])
          \in [mapped : BOOLEAN, perm : Perms]
  BY <1>1 DEF Entry
<1>4. unmap_pu_region(mapping, regions, i) \in Mappings
  BY <1>2 DEF unmap_pu_region, Mappings
<1>5. \A m \in Mappings : remap_pu_region(m, regions, i) \in Mappings
  BY <1>3 DEF remap_pu_region, Mappings
<1> QED BY <1>4, <1>5 DEF Remapped

(* Where a region may be: where the program puts it, or nowhere yet. *)
Placed(region, i) ==
    \/ region.base = 0 /\ region.size = 0
    \/ \E place \in Places[i] : region.base = place.base /\ region.size = place.size

PuInv ==
    /\ pu_regions \in [Regions -> PuRegion]
    /\ \A i \in Regions : Placed(pu_regions[i], i)
    /\ pu_mapping \in Mappings
    /\ HighestRegionCounts

LEMMA PlacesAre ==
    /\ \A i \in Regions : \A place \in Places[i] : place.base \in Nat /\ place.size \in Nat
    /\ \A i, k \in Regions : i < k =>
           \A low \in Places[i], high \in Places[k] :
               high.base <= low.base \/ high.base + high.size >= low.base + low.size
BY PuAssumption DEF Regions

(* Regions at their places, or nowhere. *)
LEMMA PlacedAreArranged ==
    ASSUME NEW regions \in [Regions -> PuRegion], \A i \in Regions : Placed(regions[i], i)
    PROVE  Arranged(regions)
<1> SUFFICES ASSUME NEW i \in Regions, NEW k \in Regions, i < k, regions[k].enabled
             PROVE  regions[k].base <= regions[i].base \/ End(regions[k]) >= End(regions[i])
  BY DEF Arranged
<1>1. /\ regions[k].base \in Nat /\ regions[k].size \in Nat
      /\ regions[i].base \in Nat /\ regions[i].size \in Nat
  BY DEF PuRegion
<1>2. CASE regions[k].base = 0
  BY <1>1, <1>2
<1>3. CASE regions[i].base = 0 /\ regions[i].size = 0
  BY <1>1, <1>3 DEF End
<1>4. CASE regions[k].base # 0 /\ ~(regions[i].base = 0 /\ regions[i].size = 0)
  <2>1. PICK low \in Places[i] : regions[i].base = low.base /\ regions[i].size = low.size
    BY <1>4 DEF Placed
  <2>2. PICK high \in Places[k] : regions[k].base = high.base /\ regions[k].size = high.size
    BY <1>4 DEF Placed
  <2> QED BY <2>1, <2>2, PlacesAre DEF End
<1> QED BY <1>2, <1>3, <1>4

(* A region is placed, moved, disabled or enabled again. *)
LEMMA RegionStep ==
    ASSUME PuInv, NEW i \in Regions, NEW place \in Places[i], NEW enabled \in BOOLEAN,
           set_pu_region(i, place, enabled)
    PROVE  PuInv'
<1> DEFINE old == pu_regions
           new == pu_regions'
<1>1. /\ new = [old EXCEPT ![i].enabled = enabled, ![i].base = place.base, ![i].size = place.size]
      /\ pu_mapping' = Remapped(pu_mapping, new, i)
      /\ leftover' = (leftover \cup Remaining(old, i)) \ Remaining(new, i)
  BY DEF set_pu_region
<1>2. old \in [Regions -> PuRegion] /\ \A k \in Regions : Placed(old[k], k)
  BY DEF PuInv
<1>3. new \in [Regions -> PuRegion]
  <2>1. place.base \in Nat /\ place.size \in Nat
    BY PlacesAre
  <2> QED BY <1>1, <1>2, <2>1 DEF PuRegion
<1>4. /\ \A k \in Regions \ {i} : new[k] = old[k]
      /\ new[i].base = place.base /\ new[i].size = place.size
  BY <1>1, <1>2 DEF PuRegion
<1>5. \A k \in Regions : Placed(new[k], k)
  BY <1>2, <1>4 DEF Placed
<1>6. Arranged(old) /\ Arranged(new)
  BY <1>2, <1>3, <1>5, PlacedAreArranged
<1>7. pu_mapping' \in Mappings
  BY <1>1, <1>6, RemappedType DEF PuInv
<1>8. Regions \subseteq Int
  BY PuAssumption DEF Regions
<1> HIDE DEF new, old
<1>9. ASSUME NEW p \in PuPages \ leftover'
      PROVE  Good(new, pu_mapping', p)
  <2>1. p \in Remaining(new, i) <=> Bare(new, p, i)
    BY <1>6, BareIs
  <2>2. p \in Remaining(old, i) <=> Bare(old, p, i)
    BY <1>6, BareIs
  <2>3. CASE Bare(new, p, i)
    <3>1. Good(new, Remapped(pu_mapping, new, i), p)
      BY <1>6, <2>3, RemappedIsGood
    <3> QED BY <1>1, <3>1
  <2>4. CASE ~Bare(new, p, i)
    <3>1. ~Bare(old, p, i) /\ p \notin leftover
      BY <1>1, <1>9, <2>1, <2>2, <2>4
    <3>2. Good(old, pu_mapping, p)
      BY <3>1 DEF PuInv, HighestRegionCounts, old
    <3>3. CASE \E h \in Regions : h > i /\ old[h].enabled /\ Within(p, old[h])
      <4>1. PICK h \in Regions : h > i /\ old[h].enabled /\ Within(p, old[h])
        BY <3>3
      <4>2. h \in Over(old, p) /\ h \in Over(new, p)
        BY <1>4, <1>8, <4>1 DEF Over
      <4> DEFINE m == Max(Over(old, p))
      <4>3. IsTop(old, p, m)
        BY <4>2, TopIs
      <4> HIDE DEF m
      <4>4. m \in Regions /\ h <= m /\ m > i /\ \A k \in Over(old, p) : k <= m
        BY <1>8, <4>1, <4>2, <4>3 DEF IsTop, Over
      <4>5. \A k \in Regions \ {i} : k \in Over(new, p) <=> k \in Over(old, p)
        BY <1>4 DEF Over
      <4>6. IsTop(new, p, m)
        <5>1. m \in Over(new, p)
          BY <1>8, <4>3, <4>4, <4>5 DEF IsTop
        <5>2. ASSUME NEW k \in Over(new, p)
              PROVE  k <= m
          <6>1. k \in Regions /\ Over(new, p) \subseteq Regions
            BY DEF Over
          <6> QED BY <1>8, <4>4, <4>5, <6>1
        <5> QED BY <5>1, <5>2 DEF IsTop
      <4>7. Meant(new, p) = Meant(old, p)
        <5>1. m \in Regions \ {i}
          BY <1>8, <4>4
        <5> QED BY <1>4, <4>3, <4>6, <5>1, TopIs
      <4>8. Hidden(old, p) => Hidden(new, p)
        <5>1. ASSUME NEW j \in Regions, Within(p, old[j]), ~old[j].enabled,
                     \A k \in Over(old, p) : k < j
              PROVE  Hidden(new, p)
          <6>1. h < j
            BY <4>2, <5>1
          <6>2. j \in Regions \ {i} /\ m < j
            BY <1>8, <4>1, <4>3, <5>1, <6>1 DEF IsTop
          <6>3. \A k \in Over(new, p) : k < j
            <7>1. Over(new, p) \subseteq Regions
              BY DEF Over
            <7>2. \A k \in Over(new, p) : k <= m
              BY <4>6 DEF IsTop
            <7>3. m \in Int /\ j \in Int /\ Over(new, p) \subseteq Int
              BY <1>8, <4>4, <6>2, <7>1
            <7> QED BY <6>2, <7>2, <7>3
          <6> QED BY <1>4, <5>1, <6>2, <6>3 DEF Hidden
        <5> QED BY <5>1 DEF Hidden
      <4>9. pu_mapping'[p] = pu_mapping[p]
        BY <1>1, <1>6, <2>4, RemappedIs
      <4> QED BY <3>2, <4>7, <4>8, <4>9 DEF Good
    <3>4. CASE ~\E h \in Regions : h > i /\ old[h].enabled /\ Within(p, old[h])
      <4>1. ~Within(p, old[i]) /\ ~Within(p, new[i])
        <5>1. \A h \in Regions : h > i => new[h] = old[h]
          BY <1>4, <1>8
        <5> QED BY <2>4, <3>1, <3>4, <5>1 DEF Bare
      <4>2. \A k \in Regions : Within(p, new[k]) <=> Within(p, old[k])
        BY <1>4, <4>1
      <4>3. \A k \in Regions : Within(p, old[k]) => k # i /\ new[k] = old[k]
        BY <1>4, <4>1
      <4>4. Over(new, p) = Over(old, p)
        BY <4>2, <4>3 DEF Over
      <4>5. Hidden(new, p) <=> Hidden(old, p)
        BY <4>2, <4>3, <4>4 DEF Hidden
      <4>6. Over(old, p) # {} => Max(Over(old, p)) \in Over(old, p)
        BY TopIs DEF IsTop
      <4>7. Meant(new, p) = Meant(old, p)
        BY <4>3, <4>4, <4>6 DEF Meant, Over
      <4>8. pu_mapping'[p] = pu_mapping[p]
        BY <1>1, <1>6, <2>4, RemappedIs
      <4> QED BY <3>2, <4>5, <4>7, <4>8 DEF Good
    <3> QED BY <3>3, <3>4
  <2> QED BY <2>3, <2>4
<1>10. HighestRegionCounts'
  BY <1>9 DEF new, HighestRegionCounts
<1> QED BY <1>3, <1>5, <1>7, <1>10 DEF new, PuInv

(* All regions are mapped again, from the lowest to the highest. *)
LEMMA ReloadPuStep ==
    ASSUME PuInv, reload_pu
    PROVE  PuInv'
<1> DEFINE Is(r) == r = [k \in 0..NumRegions |->
               IF k = 0 THEN pu_mapping ELSE Remapped(r[k - 1], pu_regions, k - 1)]
           after == CHOOSE r : Is(r)
           step == [k \in 1..NumRegions |-> [m \in Mappings |-> Remapped(m, pu_regions, k - 1)]]
<1>1. /\ pu_mapping' = after[NumRegions] /\ UNCHANGED pu_regions
      /\ leftover' = leftover \ UNION {Remaining(pu_regions, i) : i \in Regions}
  BY DEF reload_pu
<1>2. /\ NumRegions \in Nat /\ pu_mapping \in Mappings /\ Arranged(pu_regions)
  BY PuAssumption, PlacedAreArranged DEF PuInv
<1>3. \A k \in 1..NumRegions : k - 1 \in Regions
  BY <1>2 DEF Regions
<1>4. \A k \in 1..NumRegions : \A m \in Mappings : Remapped(m, pu_regions, k - 1) \in Mappings
  BY <1>2, <1>3, RemappedType
<1>5. step \in [1..NumRegions -> [Mappings -> Mappings]]
  BY <1>4
<1>6. \A k \in 1..NumRegions : \A m \in Mappings : step[k][m] = Remapped(m, pu_regions, k - 1)
  OBVIOUS
<1> HIDE DEF step
<1>7. PICK f \in [0..NumRegions -> Mappings] :
          f[0] = pu_mapping /\ \A k \in 1..NumRegions : f[k] = step[k][f[k - 1]]
  BY <1>2, <1>5, FiniteRecursion
<1>8. \A k \in 1..NumRegions : k \in 0..NumRegions /\ k - 1 \in 0..NumRegions
  BY <1>2
<1>9. Is(f)
  <2>1. ASSUME NEW k \in 0..NumRegions
        PROVE  f[k] = IF k = 0 THEN pu_mapping ELSE Remapped(f[k - 1], pu_regions, k - 1)
    <3>1. k # 0 => k \in 1..NumRegions
      BY <1>2
    <3> QED BY <1>6, <1>7, <1>8, <3>1
  <2> QED BY <2>1
<1>10. Is(after)
  <2> HIDE DEF Is
  <2> QED BY <1>9
<1> HIDE DEF after
<1>11. after[0] = pu_mapping
       /\ \A k \in 1..NumRegions : after[k] = Remapped(after[k - 1], pu_regions, k - 1)
  BY <1>2, <1>8, <1>10
<1> DEFINE Done(p, k) == \E i \in Regions : i < k /\ Bare(pu_regions, p, i)
           P == {k \in 0..NumRegions :
                    /\ after[k] \in Mappings
                    /\ \A p \in PuPages :
                           p \notin leftover \/ Done(p, k) => Good(pu_regions, after[k], p)}
<1>12. 0 \in P
  <2>1. \A p : ~Done(p, 0)
    BY PuAssumption DEF Regions
  <2> HIDE DEF Done
  <2> QED BY <1>2, <1>11, <2>1 DEF PuInv, HighestRegionCounts
<1>13. ASSUME NEW k \in 1..NumRegions, k - 1 \in P
       PROVE  k \in P
  <2> DEFINE i == k - 1
  <2>1. after[k] = Remapped(after[i], pu_regions, i) /\ after[i] \in Mappings /\ i \in Regions
    BY <1>3, <1>11, <1>13
  <2>2. after[k] \in Mappings
    BY <1>4, <2>1
  <2>3. ASSUME NEW p \in PuPages, p \notin leftover \/ Done(p, k)
        PROVE  Good(pu_regions, after[k], p)
    <3>1. Done(p, k) => Bare(pu_regions, p, i) \/ Done(p, i)
      <4>1. \A h \in Regions : h < k => h = i \/ h < i
        BY PuAssumption DEF Regions
      <4> QED BY <4>1
    <3>2. Bare(pu_regions, p, i) \/ Good(pu_regions, after[i], p)
      <4> HIDE DEF Done
      <4> QED BY <1>13, <2>3, <3>1
    <3> HIDE DEF i
    <3> QED BY <1>2, <2>1, <3>2, RemappedIsGood
  <2> HIDE DEF Done
  <2> QED BY <1>8, <2>2, <2>3
<1>14. NumRegions \in P
  <2> HIDE DEF P
  <2>1. 0..NumRegions \subseteq P
    BY <1>2, <1>12, <1>13, FiniteInduction
  <2> QED BY <1>2, <2>1
<1>15. ASSUME NEW p \in PuPages \ leftover'
       PROVE  Good(pu_regions, pu_mapping', p)
  <2>1. ASSUME p \in leftover
        PROVE  Done(p, NumRegions)
    <3>1. PICK i \in Regions : p \in Remaining(pu_regions, i)
      BY <1>1, <1>15, <2>1
    <3>2. Bare(pu_regions, p, i) /\ i < NumRegions
      BY <1>2, <3>1, BareIs DEF Regions
    <3> QED BY <3>2
  <2> HIDE DEF Done
  <2> QED BY <1>1, <1>14, <2>1
<1>16. HighestRegionCounts'
  BY <1>1, <1>15 DEF HighestRegionCounts
<1> QED BY <1>1, <1>14, <1>16 DEF PuInv

(* The regions take their new permissions one after the other. *)
LEMMA PermissionsStep ==
    ASSUME PuInv, NEW is_data, NEW type, set_pu_permissions_ex(is_data, type)
    PROVE  PuInv'
<1> DEFINE region(i) == IF is_data THEN [pu_regions[i] EXCEPT !.data = PrivilegedData(type[i])]
                        ELSE [pu_regions[i] EXCEPT !.instr = PrivilegedInstr(type[i])]
           upto(i) == [k \in Regions |-> IF k <= i THEN region(k) ELSE pu_regions[k]]
           Is(r) == r = [k \in 0..NumRegions |->
               IF k = 0 THEN pu_mapping
               ELSE IF pu_regions[k - 1].enabled THEN Remapped(r[k - 1], upto(k - 1), k - 1)
               ELSE r[k - 1]]
           after == CHOOSE r : Is(r)
           turn(m, k) == IF pu_regions[k - 1].enabled THEN Remapped(m, upto(k - 1), k - 1) ELSE m
           step == [k \in 1..NumRegions |-> [m \in Mappings |-> turn(m, k)]]
<1>1. /\ pu_regions' = upto(NumRegions - 1) /\ pu_mapping' = after[NumRegions]
      /\ leftover' = leftover \ UNION {Remaining(pu_regions, i) : i \in {k \in Regions : pu_regions[k].enabled}}
  BY DEF set_pu_permissions_ex
<1>2. NumRegions \in Nat /\ pu_mapping \in Mappings
  BY PuAssumption DEF PuInv
<1>3. \A k \in 1..NumRegions : k - 1 \in Regions /\ k \in 0..NumRegions /\ k - 1 \in 0..NumRegions
  BY <1>2 DEF Regions
<1>4. ASSUME NEW k \in Regions
      PROVE  /\ region(k) \in PuRegion
             /\ region(k).base = pu_regions[k].base /\ region(k).size = pu_regions[k].size
             /\ region(k).enabled = pu_regions[k].enabled
  <2>1. pu_regions[k] \in PuRegion
    BY DEF PuInv
  <2>2. PrivilegedData(type[k]) \in Perms /\ PrivilegedInstr(type[k]) \in Perms
    BY DEF PrivilegedData, PrivilegedInstr, Perms
  <2> QED BY <2>1, <2>2 DEF PuRegion
<1> HIDE DEF region
<1>5. ASSUME NEW i \in Int
      PROVE  /\ upto(i) \in [Regions -> PuRegion]
             /\ \A k \in Regions : /\ upto(i)[k].base = pu_regions[k].base
                                   /\ upto(i)[k].size = pu_regions[k].size
                                   /\ upto(i)[k].enabled = pu_regions[k].enabled
                                   /\ Placed(upto(i)[k], k)
  BY <1>4 DEF PuInv, Placed
<1>6. ASSUME NEW i \in Int
      PROVE  /\ Arranged(upto(i))
             /\ \A p : Over(upto(i), p) = Over(pu_regions, p)
             /\ \A p : Hidden(upto(i), p) <=> Hidden(pu_regions, p)
  <2>1. Arranged(upto(i))
    <3> HIDE DEF upto
    <3> QED BY <1>5, PlacedAreArranged
  <2>2. \A p : Over(upto(i), p) = Over(pu_regions, p)
    <3> HIDE DEF upto
    <3> QED BY <1>5 DEF Over, Within, End
  <2>3. \A p : Hidden(upto(i), p) <=> Hidden(pu_regions, p)
    <3> HIDE DEF upto
    <3>1. \A p : \A k \in Regions : Within(p, upto(i)[k]) <=> Within(p, pu_regions[k])
      BY <1>5 DEF Within, End
    <3> QED BY <1>5, <2>2, <3>1 DEF Hidden
  <2> QED BY <2>1, <2>2, <2>3
<1>7. ASSUME NEW i \in Regions
      PROVE  \A k \in Regions \ {i} : upto(i)[k] = upto(i - 1)[k]
  <2>1. \A k \in Regions \ {i} : k <= i <=> k <= i - 1
    BY <1>2 DEF Regions
  <2> QED BY <2>1
<1>8. \A k \in Regions : upto(-1)[k] = pu_regions[k]
  BY <1>2 DEF Regions
<1>9. \A k \in 1..NumRegions : \A m \in Mappings : turn(m, k) \in Mappings
  <2>1. ASSUME NEW k \in 1..NumRegions, NEW m \in Mappings
        PROVE  Remapped(m, upto(k - 1), k - 1) \in Mappings
    <3>1. k - 1 \in Int
      OBVIOUS
    <3> HIDE DEF upto
    <3> QED BY <1>3, <1>6, <3>1, RemappedType
  <2> QED BY <2>1
<1> HIDE DEF upto
<1>10. step \in [1..NumRegions -> [Mappings -> Mappings]]
  <2> HIDE DEF turn
  <2> QED BY <1>9
<1>11. \A k \in 1..NumRegions : \A m \in Mappings : step[k][m] = turn(m, k)
  <2> HIDE DEF turn
  <2> QED OBVIOUS
<1> HIDE DEF step
<1>12. PICK f \in [0..NumRegions -> Mappings] :
           f[0] = pu_mapping /\ \A k \in 1..NumRegions : f[k] = step[k][f[k - 1]]
  BY <1>2, <1>10, FiniteRecursion
<1>13. Is(f)
  <2>1. ASSUME NEW k \in 0..NumRegions
        PROVE  f[k] = IF k = 0 THEN pu_mapping
                      ELSE IF pu_regions[k - 1].enabled
                      THEN Remapped(f[k - 1], upto(k - 1), k - 1) ELSE f[k - 1]
    <3>1. k # 0 => k \in 1..NumRegions
      BY <1>2
    <3> QED BY <1>3, <1>11, <1>12, <3>1
  <2> QED BY <2>1
<1>14. Is(after)
  <2> HIDE DEF Is
  <2> QED BY <1>13
<1> HIDE DEF after
<1>15. after[0] = pu_mapping /\ \A k \in 1..NumRegions : after[k] = turn(after[k - 1], k)
  BY <1>2, <1>3, <1>14
<1> DEFINE Done(p, k) == \E i \in Regions : i < k /\ IsTop(pu_regions, p, i)
           P == {k \in 0..NumRegions :
                    /\ after[k] \in Mappings
                    /\ \A p \in PuPages :
                           p \notin leftover \/ Done(p, k) => Good(upto(k - 1), after[k], p)}
<1>16. 0 \in P
  <2>1. \A p : ~Done(p, 0)
    BY PuAssumption DEF Regions
  <2>2. ASSUME NEW p \in PuPages, p \notin leftover
        PROVE  Good(upto(-1), pu_mapping, p)
    <3>1. Over(upto(-1), p) = Over(pu_regions, p) /\ (Hidden(upto(-1), p) <=> Hidden(pu_regions, p))
      BY <1>6
    <3>2. Over(pu_regions, p) # {} => Max(Over(pu_regions, p)) \in Regions
      BY TopIs DEF IsTop, Over
    <3>3. Meant(upto(-1), p) = Meant(pu_regions, p)
      BY <1>8, <3>1, <3>2 DEF Meant
    <3> QED BY <2>2, <3>1, <3>3 DEF PuInv, HighestRegionCounts, Good
  <2>3. 0 - 1 = -1
    OBVIOUS
  <2> HIDE DEF Done
  <2> QED BY <1>2, <1>15, <2>1, <2>2, <2>3
<1>17. ASSUME NEW k \in 1..NumRegions, k - 1 \in P
       PROVE  k \in P
  <2> DEFINE i == k - 1
             now == upto(i)
             before == upto(i - 1)
  <2>1. i \in Regions /\ i \in Int /\ i - 1 \in Int
    BY <1>3
  <2>2. after[k] = turn(after[i], k) /\ after[i] \in Mappings
    BY <1>15, <1>17
  <2>3. after[k] \in Mappings
    BY <1>9, <2>2
  <2>4. ASSUME NEW p \in PuPages, p \notin leftover \/ Done(p, k)
        PROVE  IsTop(pu_regions, p, i) \/ Good(before, after[i], p)
    <3>1. Done(p, k) => IsTop(pu_regions, p, i) \/ Done(p, i)
      <4>1. \A h \in Regions : h < k => h = i \/ h < i
        BY PuAssumption DEF Regions
      <4> QED BY <4>1
    <3> HIDE DEF Done
    <3> QED BY <1>17, <2>4, <3>1
  <2>5. after[k] = IF pu_regions[i].enabled THEN Remapped(after[i], now, i) ELSE after[i]
    BY <2>2
  <2> HIDE DEF i
  <2>6. Arranged(now) /\ \A j \in Regions : now[j].enabled = pu_regions[j].enabled
    BY <1>5, <1>6, <2>1
  <2>7. \A p : /\ Over(now, p) = Over(before, p) /\ Over(now, p) = Over(pu_regions, p)
               /\ Hidden(now, p) <=> Hidden(before, p)
    BY <1>6, <2>1
  <2>8. \A j \in Regions \ {i} : now[j] = before[j]
    BY <1>7, <2>1
  <2> HIDE DEF now, before
  <2>9. ASSUME NEW p \in PuPages, p \notin leftover \/ Done(p, k)
        PROVE  Good(now, after[k], p)
    <3>1. after[k][p] = IF IsTop(now, p, i) THEN Entry(now[i]) ELSE after[i][p]
      <4>1. CASE pu_regions[i].enabled
        <5>1. /\ Remapped(after[i], now, i)[p]
                    = IF ~Bare(now, p, i) THEN after[i][p]
                      ELSE IF now[i].enabled THEN Entry(now[i]) ELSE NoRegion
              /\ Bare(now, p, i) <=> IsTop(now, p, i)
          BY <2>1, <2>6, <4>1, RemappedIs, BareIsTop
        <5>2. now[i].enabled
          BY <2>1, <2>6, <4>1
        <5> QED BY <2>5, <4>1, <5>1, <5>2
      <4>2. CASE ~pu_regions[i].enabled
        BY <2>1, <2>5, <2>6, <4>2 DEF IsTop, Over
      <4> QED BY <4>1, <4>2
    <3>2. CASE IsTop(now, p, i)
      <4>1. Meant(now, p) = Entry(now[i])
        BY <3>2, TopIs
      <4> QED BY <3>1, <3>2, <4>1 DEF Good
    <3>3. CASE ~IsTop(now, p, i)
      <4>1. ~IsTop(pu_regions, p, i)
        BY <2>7, <3>3 DEF IsTop
      <4>2. Good(before, after[i], p)
        <5> HIDE DEF Done
        <5> QED BY <2>4, <2>9, <4>1
      <4>3. Over(now, p) = {} => Meant(now, p) = Meant(before, p)
        BY <2>7 DEF Meant
      <4>4. ASSUME Over(now, p) # {}
            PROVE  Meant(now, p) = Meant(before, p)
        <5> DEFINE m == Max(Over(now, p))
        <5>1. IsTop(now, p, m)
          BY <4>4, TopIs
        <5> HIDE DEF m
        <5>2. IsTop(before, p, m)
          BY <2>7, <5>1 DEF IsTop
        <5>3. m \in Regions \ {i}
          BY <3>3, <5>1 DEF IsTop, Over
        <5>4. Meant(now, p) = Entry(now[m]) /\ Meant(before, p) = Entry(before[m])
          BY <5>1, <5>2, TopIs
        <5> QED BY <2>8, <5>3, <5>4
      <4> QED BY <2>7, <3>1, <3>3, <4>2, <4>3, <4>4 DEF Good
    <3> QED BY <3>2, <3>3
  <2> HIDE DEF Done
  <2> QED BY <1>3, <2>3, <2>9 DEF now, i
<1>18. NumRegions \in P
  <2> HIDE DEF P
  <2>1. 0..NumRegions \subseteq P
    BY <1>2, <1>16, <1>17, FiniteInduction
  <2> QED BY <1>2, <2>1
<1>19. ASSUME NEW p \in PuPages \ leftover'
       PROVE  Good(upto(NumRegions - 1), pu_mapping', p)
  <2>1. ASSUME p \in leftover
        PROVE  Done(p, NumRegions)
    <3>1. PICK i \in Regions : pu_regions[i].enabled /\ p \in Remaining(pu_regions, i)
      BY <1>1, <1>19, <2>1
    <3>2. Arranged(pu_regions)
      BY PlacedAreArranged DEF PuInv
    <3>3. IsTop(pu_regions, p, i) /\ i < NumRegions
      BY <1>2, <3>1, <3>2, BareIs, BareIsTop DEF Regions
    <3> QED BY <3>3
  <2> HIDE DEF Done
  <2> QED BY <1>1, <1>18, <2>1
<1>20. HighestRegionCounts'
  BY <1>1, <1>19 DEF HighestRegionCounts
<1>21. NumRegions - 1 \in Int
  BY <1>2
<1> QED BY <1>1, <1>5, <1>18, <1>20, <1>21 DEF PuInv

LEMMA PuInitInv == PuInit => PuInv
<1> SUFFICES ASSUME PuInit PROVE PuInv
  OBVIOUS
<1>1. \A i \in Regions :
          pu_regions[i] = [base |-> 0, size |-> 0, enabled |-> FALSE, data |-> {}, instr |-> {}]
  BY DEF PuInit
<1>2. pu_regions \in [Regions -> PuRegion]
  BY <1>1 DEF PuInit, PuRegion, Perms
<1>3. \A p \in PuPages : Over(pu_regions, p) = {} /\ pu_mapping[p] = NoRegion
  BY <1>1 DEF Over, PuInit
<1>4. pu_mapping \in Mappings
  BY DEF PuInit, NoRegion, Mappings, Perms
<1>5. HighestRegionCounts
  BY <1>3 DEF HighestRegionCounts, Good, Meant
<1>6. \A i \in Regions : Placed(pu_regions[i], i)
  BY <1>1 DEF Placed
<1> QED BY <1>2, <1>4, <1>5, <1>6 DEF PuInv

(* A page has the permissions of the highest enabled region that it lies    *)
(* in, whatever sequence of placing, moving, disabling, enabling and        *)
(* changing permissions led there, but for the pages of a disabled region   *)
(* and those that a region was moved away from: see HighestRegionCounts.    *)
THEOREM PuHighestRegionCounts == PuSpec => []HighestRegionCounts
<1>1. PuInv /\ [PuNext]_puVars => PuInv'
  <2>1. ASSUME PuInv, UNCHANGED puVars
        PROVE  PuInv'
    BY <2>1 DEF PuInv, puVars, HighestRegionCounts
  <2> QED BY <2>1, RegionStep, ReloadPuStep, PermissionsStep DEF PuNext
<1>2. PuInv => HighestRegionCounts
  BY DEF PuInv
<1> QED BY <1>1, <1>2, PuInitInv, PTL DEF PuSpec

=============================================================================
