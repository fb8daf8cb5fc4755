-------------------------- MODULE MPCorePMRProofs --------------------------
(***************************************************************************)
(* Proofs about MPCorePMR, for any number of cores and any interrupts: the *)
(* type invariant; a signalled cause is the pending and enabled interrupt  *)
(* of highest priority; an acknowledging core has a cause; interrupts do   *)
(* not nest.  For a program that executes no WFE: a halted core has no     *)
(* interrupt, and a core in its vector is not halted.                      *)
(*                                                                         *)
(* The argument: CoreInv relates one core's line, mode and local registers *)
(* to the tables.  An evaluation of the line establishes it, whatever the  *)
(* tables have become (CheckEstablishes); an operation that evaluates only *)
(* some cores leaves what the others see alone (SameView).                 *)
(***************************************************************************)
EXTENDS MPCorePMR, NumberLemmas

USE PmrAssumption

(* Of the candidates of a core one comes before all others: priorities and  *)
(* ids are numbers, so the order is that of natural numbers.                *)
IsFirst(t, core, i) ==
    /\ i \in Candidates(t, core)
    /\ \A j \in Candidates(t, core) : Before(t, core, i, j)

Rank(t, core, i) == 128 * Priority(t, core, i) + i

LEMMA PriorityType ==
    ASSUME NEW t \in Tables, NEW c \in Cores, NEW i \in Ids
    PROVE  Priority(t, c, i) \in 0..15
<1>1. CASE i \in Privates
  <2>1. t.private_priority[c] \in [Privates -> 0..15]
    BY DEF Tables
  <2> QED BY <1>1, <2>1 DEF Priority
<1>2. CASE i \notin Privates
  <2>1. t.global_priority \in [Globals -> 0..15] /\ i \in Globals
    BY <1>2 DEF Tables, Globals
  <2> QED BY <1>2, <2>1 DEF Priority
<1> QED BY <1>1, <1>2

LEMMA FirstExists ==
    ASSUME NEW t \in Tables, NEW c \in Cores, Candidates(t, c) # {}
    PROVE  \E i : IsFirst(t, c, i)
<1> DEFINE ranks == {Rank(t, c, i) : i \in Candidates(t, c)}
<1>1. Candidates(t, c) \subseteq Ids
  BY DEF Candidates, Tables
<1>2. ranks \in SUBSET Nat /\ ranks # {}
  <2>1. ASSUME NEW i \in Candidates(t, c)
        PROVE  Rank(t, c, i) \in Nat
    <3>1. i \in 0..127 /\ Priority(t, c, i) \in 0..15
      BY <1>1, PriorityType
    <3> QED BY <3>1 DEF Rank
  <2> QED BY <2>1
<1>3. PICK x \in ranks : \A y \in ranks : x <= y
  <2> HIDE DEF ranks
  <2> QED BY <1>2, SmallestExists
<1>4. PICK i \in Candidates(t, c) : x = Rank(t, c, i)
  OBVIOUS
<1>5. ASSUME NEW j \in Candidates(t, c)
      PROVE  Before(t, c, i, j)
  <2>1. Rank(t, c, i) <= Rank(t, c, j)
    BY <1>3, <1>4
  <2>2. i \in 0..127 /\ j \in 0..127
    BY <1>1
  <2>3. Priority(t, c, i) \in 0..15 /\ Priority(t, c, j) \in 0..15
    BY <1>1, PriorityType
  <2> QED BY <2>1, <2>2, <2>3 DEF Rank, Before
<1> QED BY <1>5 DEF IsFirst

LEMMA FirstIsUnique ==
    ASSUME NEW t \in Tables, NEW c \in Cores, NEW i, NEW j,
           IsFirst(t, c, i), IsFirst(t, c, j)
    PROVE  i = j
<1>1. i \in Ids /\ j \in Ids
  BY DEF IsFirst, Candidates, Tables
<1>2. Priority(t, c, i) \in 0..15 /\ Priority(t, c, j) \in 0..15
  BY <1>1, PriorityType
<1>3. Before(t, c, i, j) /\ Before(t, c, j, i)
  BY DEF IsFirst
<1> QED BY <1>1, <1>2, <1>3 DEF Before

(* What find_highest_priority_pending returns. *)
Request(t, core, i) ==
    [id |-> i, from |-> IF i \in Swis THEN t.requestor[core][i] ELSE 0]

LEMMA HighestIsFirst ==
    ASSUME NEW t \in Tables, NEW c \in Cores, Candidates(t, c) # {}
    PROVE  \E i \in Candidates(t, c) :
               IsFirst(t, c, i) /\ Highest(t, c) = Request(t, c, i)
<1> DEFINE i == CHOOSE i \in Candidates(t, c) :
                    \A j \in Candidates(t, c) : Before(t, c, i, j)
<1>1. IsFirst(t, c, i)
  BY FirstExists DEF IsFirst
<1>2. Highest(t, c) = Request(t, c, i)
  BY DEF Highest, Request
<1> QED BY <1>1, <1>2 DEF IsFirst

LEMMA HighestType ==
    ASSUME NEW t \in Tables, NEW c \in Cores
    PROVE  /\ Highest(t, c) \in Cause
           /\ Candidates(t, c) # {} => /\ Highest(t, c) # Spurious
                                       /\ Highest(t, c).id \in Ids
<1>1. CASE Candidates(t, c) = {}
  BY <1>1 DEF Highest, Cause
<1>2. CASE Candidates(t, c) # {}
  <2>1. PICK i \in Candidates(t, c) : Highest(t, c) = Request(t, c, i)
    BY <1>2, HighestIsFirst
  <2>2. i \in Ids
    BY DEF Candidates, Tables
  <2>3. Request(t, c, i).id = i /\ Request(t, c, i).from \in Nat
    <3>1. i \in Swis => t.requestor[c][i] \in Cores
      <4>1. t.requestor[c] \in [Swis -> Cores]
        BY DEF Tables
      <4> QED BY <4>1
    <3> QED BY <3>1 DEF Request
  <2>4. Request(t, c, i) \in [id : Ids, from : Nat]
    BY <2>2, <2>3 DEF Request
  <2>5. Request(t, c, i) # Spurious
    BY <2>2, <2>3 DEF Spurious, SPURIOUS_INT
  <2> QED BY <2>1, <2>2, <2>3, <2>4, <2>5 DEF Cause
<1> QED BY <1>1, <1>2

(* Two tables show core c the same. *)
SameView(t, u, c) ==
    /\ u.pending[c] = t.pending[c]
    /\ u.requestor[c] = t.requestor[c]
    /\ u.enabled = t.enabled
    /\ u.private_priority[c] = t.private_priority[c]
    /\ u.global_priority = t.global_priority

LEMMA SameHighest ==
    ASSUME NEW t \in Tables, NEW u \in Tables, NEW c \in Cores, SameView(t, u, c)
    PROVE  Candidates(u, c) = Candidates(t, c) /\ Highest(u, c) = Highest(t, c)
<1>1. Candidates(u, c) = Candidates(t, c)
  BY DEF SameView, Candidates
<1>2. CASE Candidates(t, c) = {}
  BY <1>1, <1>2 DEF Highest
<1>3. CASE Candidates(t, c) # {}
  <2>1. PICK i \in Candidates(t, c) :
            IsFirst(t, c, i) /\ Highest(t, c) = Request(t, c, i)
    BY <1>3, HighestIsFirst
  <2>2. PICK j \in Candidates(u, c) :
            IsFirst(u, c, j) /\ Highest(u, c) = Request(u, c, j)
    BY <1>1, <1>3, HighestIsFirst
  <2>3. \A k \in Ids : Priority(u, c, k) = Priority(t, c, k)
    BY DEF SameView, Priority
  <2>4. IsFirst(t, c, j)
    <3>1. Candidates(t, c) \subseteq Ids
      BY DEF Candidates, Tables
    <3> QED BY <1>1, <2>2, <2>3, <3>1 DEF IsFirst, Before
  <2>5. i = j
    BY <2>1, <2>4, FirstIsUnique
  <2> QED BY <1>1, <2>1, <2>2, <2>5 DEF Request, SameView
<1> QED BY <1>2, <1>3

-----------------------------------------------------------------------------
(* The invariant of one core. *)

(* What its mode says about its processor and its local registers. *)
ModeInv(loc, proc) ==
    /\ proc.mode = "irq" => /\ loc.irq_cause # Spurious
                            /\ NoneActive(loc)
                            /\ proc.irq_disable
                            /\ ~UsesWfe => ~proc.halted
    /\ proc.mode = "handler" => proc.irq_disable
    /\ ~NoneActive(loc) => proc.mode = "handler"

(* What its line says about the tables t. *)
LineInv(t, core, loc, proc) ==
    proc.int_pending => /\ Candidates(t, core) # {}
                        /\ loc.irq_cause = Highest(t, core)
                        /\ NoneActive(loc)
                        /\ ~UsesWfe => ~proc.halted

CoreInv(t, core, loc, proc) ==
    ModeInv(loc, proc) /\ LineInv(t, core, loc, proc)

IInv == TypeOK /\ \A c \in Cores : CoreInv(tables, c, local[c], cpu[c])

(* The processor after the line was evaluated, in the three cases.  Since   *)
(* the line drops first, an interrupt is always a rising edge.              *)
LEMMA CheckedCpuIs ==
    ASSUME NEW t, NEW c, NEW loc, NEW proc \in Cpu
    PROVE  LET after == CheckedCpu(t, c, loc, proc)
           IN  /\ after \in Cpu
               /\ after.int_pending = Asserts(t, c, loc)
               /\ ~Asserts(t, c, loc) =>
                      /\ after.halted = proc.halted
                      /\ after.mode = proc.mode
                      /\ after.irq_disable = proc.irq_disable
               /\ Asserts(t, c, loc) =>
                      /\ ~after.halted
                      /\ after.irq_disable
                      /\ after.mode = IF proc.irq_disable THEN proc.mode ELSE "irq"
<1> DEFINE low == [proc EXCEPT !.int_pending = FALSE]
<1>1. Asserts(t, c, loc) \in BOOLEAN
  BY DEF Asserts, Sufficient, NoneActive
<1>2. SetIntSignal(proc, FALSE) = low
  BY DEF SetIntSignal, Cpu
<1>3. low \in Cpu /\ ~low.int_pending /\ low.halted = proc.halted
      /\ low.mode = proc.mode /\ low.irq_disable = proc.irq_disable
  BY DEF Cpu
<1> HIDE DEF low
<1>4. CASE ~Asserts(t, c, loc)
  <2>1. CheckedCpu(t, c, loc, proc) = [low EXCEPT !.int_pending = FALSE]
    BY <1>1, <1>2, <1>4 DEF CheckedCpu, SetIntSignal
  <2> QED BY <1>1, <1>3, <1>4, <2>1 DEF Cpu
<1>5. CASE Asserts(t, c, loc)
  <2>1. CheckedCpu(t, c, loc, proc) =
        [IntCheck([low EXCEPT !.halted = FALSE]) EXCEPT !.int_pending = TRUE]
    BY <1>1, <1>2, <1>3, <1>5 DEF CheckedCpu, SetIntSignal
  <2>2. CASE proc.irq_disable
    <3>1. CheckedCpu(t, c, loc, proc) =
          [low EXCEPT !.halted = FALSE, !.int_pending = TRUE]
      BY <1>3, <2>1, <2>2 DEF IntCheck, Cpu
    <3> QED BY <1>3, <1>5, <2>2, <3>1 DEF Cpu
  <2>3. CASE ~proc.irq_disable
    <3>1. CheckedCpu(t, c, loc, proc) =
          [low EXCEPT !.halted = FALSE, !.int_pending = TRUE,
                      !.irq_disable = TRUE, !.mode = "irq"]
      BY <1>3, <2>1, <2>3 DEF IntCheck, Cpu
    <3> QED BY <1>3, <1>5, <2>3, <3>1 DEF Cpu, Modes
  <2> QED BY <2>2, <2>3
<1> QED BY <1>1, <1>4, <1>5

LEMMA CheckedLocalIs ==
    ASSUME NEW t \in Tables, NEW c \in Cores, NEW loc \in Local
    PROVE  LET after == CheckedLocal(t, c, loc)
           IN  /\ after \in Local
               /\ after.cur_active_irq = loc.cur_active_irq
               /\ after.irq_cause = IF Asserts(t, c, loc) THEN Highest(t, c)
                                    ELSE loc.irq_cause
  BY HighestType DEF CheckedLocal, Local

(* Whatever the tables have become, an evaluation establishes the invariant *)
(* of the core.                                                             *)
LEMMA CheckEstablishes ==
    ASSUME NEW t \in Tables, NEW c \in Cores, NEW loc \in Local, NEW proc \in Cpu,
           ModeInv(loc, proc)
    PROVE  CoreInv(t, c, CheckedLocal(t, c, loc), CheckedCpu(t, c, loc, proc))
<1> DEFINE l == CheckedLocal(t, c, loc)
           p == CheckedCpu(t, c, loc, proc)
<1> SUFFICES CoreInv(t, c, l, p)
  OBVIOUS
<1>1. NoneActive(l) = NoneActive(loc)
  BY CheckedLocalIs DEF NoneActive
<1>2. CASE Asserts(t, c, loc)
  <2>1. Candidates(t, c) # {} /\ NoneActive(loc)
    BY <1>2 DEF Asserts, Sufficient
  <2>2. l.irq_cause = Highest(t, c) /\ Highest(t, c) # Spurious
    BY <1>2, <2>1, CheckedLocalIs, HighestType
  <2>3. ~p.halted /\ p.irq_disable
    BY <1>2, CheckedCpuIs
  <2> HIDE DEF l, p
  <2> QED BY <1>1, <2>1, <2>2, <2>3 DEF CoreInv, ModeInv, LineInv
<1>3. CASE ~Asserts(t, c, loc)
  <2>1. l.irq_cause = loc.irq_cause
    BY <1>3, CheckedLocalIs
  <2>2. /\ ~p.int_pending /\ p.halted = proc.halted
        /\ p.mode = proc.mode /\ p.irq_disable = proc.irq_disable
    BY <1>3, CheckedCpuIs
  <2> HIDE DEF l, p
  <2> QED BY <1>1, <2>1, <2>2 DEF CoreInv, ModeInv, LineInv
<1> QED BY <1>2, <1>3

-----------------------------------------------------------------------------
(* The two shapes of most steps: an evaluation of some lines after tables   *)
(* and local registers have changed, and an instruction of one core.        *)

LEMMA CheckPreserves ==
    ASSUME IInv,
           NEW cores \in SUBSET Cores, NEW t \in Tables, NEW l \in [Cores -> Local],
           \A c \in cores : ModeInv(l[c], cpu[c]),
           \A c \in Cores \ cores : SameView(tables, t, c) /\ l[c] = local[c],
           Check(cores, t, l),
           targets' \in [Globals -> SUBSET Cores],
           running' \in Cores \union {Nobody},
           sends' \in 0..MaxSends
    PROVE  IInv'
<1>1. tables' = t /\ tables \in Tables
  BY DEF Check, IInv, TypeOK
<1>2. ASSUME NEW c \in cores
      PROVE  /\ local'[c] \in Local /\ cpu'[c] \in Cpu
             /\ CoreInv(t, c, local'[c], cpu'[c])
  <2>1. c \in Cores /\ l[c] \in Local /\ cpu[c] \in Cpu
    BY DEF IInv, TypeOK
  <2>2. /\ local'[c] = CheckedLocal(t, c, l[c])
        /\ cpu'[c] = CheckedCpu(t, c, l[c], cpu[c])
    BY <2>1 DEF Check
  <2>3. local'[c] \in Local /\ cpu'[c] \in Cpu
    BY <2>1, <2>2, CheckedLocalIs, CheckedCpuIs
  <2> QED BY <2>1, <2>2, <2>3, CheckEstablishes
<1>3. ASSUME NEW c \in Cores \ cores
      PROVE  /\ local'[c] \in Local /\ cpu'[c] \in Cpu
             /\ CoreInv(t, c, local'[c], cpu'[c])
  <2>1. local[c] \in Local /\ cpu[c] \in Cpu /\ CoreInv(tables, c, local[c], cpu[c])
    BY DEF IInv, TypeOK
  <2>2. local'[c] = local[c] /\ cpu'[c] = cpu[c]
    BY DEF Check
  <2>3. /\ Candidates(t, c) = Candidates(tables, c)
        /\ Highest(t, c) = Highest(tables, c)
    BY <1>1, SameHighest
  <2> QED BY <2>1, <2>2, <2>3 DEF CoreInv, LineInv
<1>4. \A c \in Cores : /\ local'[c] \in Local /\ cpu'[c] \in Cpu
                       /\ CoreInv(tables', c, local'[c], cpu'[c])
  BY <1>1, <1>2, <1>3
<1>5. local' \in [Cores -> Local] /\ cpu' \in [Cores -> Cpu] /\ dead' \in BOOLEAN
  <2>1. /\ local' = [c \in Cores |-> local'[c]]
        /\ cpu' = [c \in Cores |-> cpu'[c]]
    BY DEF Check
  <2> QED BY <1>4, <2>1 DEF Check
<1> QED BY <1>1, <1>4, <1>5 DEF IInv, TypeOK

LEMMA SetCpuPreserves ==
    ASSUME IInv,
           NEW c \in Cores, NEW proc \in Cpu,
           CoreInv(tables, c, local[c], proc),
           SetCpu(c, proc),
           running' \in Cores \union {Nobody}
    PROVE  IInv'
<1>1. cpu' = [cpu EXCEPT ![c] = proc] /\ UNCHANGED <<tables, targets, local, dead, sends>>
  BY DEF SetCpu
<1>2. TypeOK'
  BY <1>1 DEF IInv, TypeOK
<1>3. \A d \in Cores : CoreInv(tables', d, local'[d], cpu'[d])
  <2> TAKE d \in Cores
  <2>1. cpu'[d] = IF d = c THEN proc ELSE cpu[d]
    BY <1>1 DEF IInv, TypeOK
  <2> QED BY <1>1, <2>1 DEF IInv
<1> QED BY <1>2, <1>3 DEF IInv

LEMMA InitInv == Init => IInv
<1> SUFFICES ASSUME Init PROVE IInv
  OBVIOUS
<1>1. ResetCpu \in Cpu /\ ResetLocal \in Local
  BY DEF ResetCpu, ResetLocal, Cpu, Modes, Local, Cause
<1>2. tables \in Tables
  <2>1. tables \in [pending : {[c \in Cores |-> {}]},
                    requestor : [Cores -> [Swis -> {0}]],
                    enabled : {Swis \union on : on \in SUBSET Globals},
                    private_priority : [Cores -> [Privates -> {0}]],
                    global_priority : [Globals -> Priorities]]
    BY DEF Init
  <2>2. [c \in Cores |-> {}] \in [Cores -> SUBSET Ids]
    OBVIOUS
  <2>3. [Cores -> [Swis -> {0}]] \subseteq [Cores -> [Swis -> Cores]]
    <3>1. [Swis -> {0}] \subseteq [Swis -> Cores]
      OBVIOUS
    <3> QED BY <3>1
  <2>4. {Swis \union on : on \in SUBSET Globals} \subseteq SUBSET Ids
    BY DEF Swis, Globals
  <2>5. [Cores -> [Privates -> {0}]] \subseteq [Cores -> [Privates -> 0..15]]
    <3>1. [Privates -> {0}] \subseteq [Privates -> 0..15]
      OBVIOUS
    <3> QED BY <3>1
  <2>6. [Globals -> Priorities] \subseteq [Globals -> 0..15]
    OBVIOUS
  <2> QED BY <2>1, <2>2, <2>3, <2>4, <2>5, <2>6 DEF Tables
<1>3. targets \in [Globals -> SUBSET Cores]
  BY DEF Init
<1>4. TypeOK
  <2>1. cpu \in [Cores -> Cpu] /\ local \in [Cores -> Local]
    BY <1>1 DEF Init
  <2>2. running \in Cores \union {Nobody} /\ dead \in BOOLEAN
    BY DEF Init
  <2>3. sends \in 0..MaxSends
    BY DEF Init
  <2> QED BY <1>2, <1>3, <2>1, <2>2, <2>3 DEF TypeOK
<1>5. ASSUME NEW c \in Cores
      PROVE  CoreInv(tables, c, local[c], cpu[c])
  <2>1. local[c] = ResetLocal /\ cpu[c] = ResetCpu
    BY DEF Init
  <2>2. CoreInv(tables, c, ResetLocal, ResetCpu)
    BY DEF CoreInv, ModeInv, LineInv, ResetLocal, ResetCpu, NoneActive, Spurious, SPURIOUS_INT
  <2> QED BY <2>1, <2>2
<1> QED BY <1>4, <1>5 DEF IInv

-----------------------------------------------------------------------------
(* The steps, one lemma for each group of actions. *)

LEMMA Unfolded ==
    ASSUME IInv
    PROVE  /\ tables \in Tables /\ local \in [Cores -> Local]
           /\ cpu \in [Cores -> Cpu] /\ targets \in [Globals -> SUBSET Cores]
           /\ running \in Cores \union {Nobody} /\ sends \in 0..MaxSends
           /\ \A c \in Cores : ModeInv(local[c], cpu[c])
  BY DEF IInv, TypeOK, CoreInv

LEMMA AddPendingType ==
    ASSUME tables \in Tables, NEW cores \in SUBSET Cores, NEW i \in Ids
    PROVE  [tables EXCEPT !.pending = AddPending(cores, i)] \in Tables
<1>1. AddPending(cores, i) \in [Cores -> SUBSET Ids]
  BY DEF AddPending, Tables
<1> QED BY <1>1 DEF Tables

LEMMA DevicesStep == IInv /\ Devices => IInv'
<1> SUFFICES ASSUME IInv, Devices PROVE IInv'
  OBVIOUS
<1> USE Unfolded
<1>1. ASSUME NEW i \in Ids, NEW cores \in SUBSET Cores, sends < MaxSends,
             sends' = sends + 1, UNCHANGED <<running, targets>>,
             Check(cores, [tables EXCEPT !.pending = AddPending(cores, i)], local)
      PROVE  IInv'
  <2> DEFINE t == [tables EXCEPT !.pending = AddPending(cores, i)]
  <2>1. t \in Tables
    BY AddPendingType
  <2>2. \A c \in Cores \ cores : SameView(tables, t, c)
    BY DEF SameView, AddPending, Tables
  <2>3. sends' \in 0..MaxSends
    BY <1>1
  <2>4. Check(cores, t, local)
    BY <1>1
  <2> HIDE DEF t
  <2> QED BY <1>1, <2>1, <2>2, <2>3, <2>4, CheckPreserves
<1>2. ASSUME NEW i \in Globals, AssertHwIrq(i)
      PROVE  IInv'
  <2>1. i \in Ids /\ targets[i] \in SUBSET Cores
    BY DEF Globals
  <2> QED BY <1>1, <1>2, <2>1 DEF AssertHwIrq
<1>3. ASSUME NEW c \in Cores, NEW i \in Privates \ Swis, AssertPrivateIrq(c, i)
      PROVE  IInv'
  <2>1. i \in Ids /\ {c} \in SUBSET Cores
    BY DEF Privates
  <2> QED BY <1>1, <1>3, <2>1 DEF AssertPrivateIrq
<1> QED BY <1>2, <1>3 DEF Devices

(* An operation that evaluates every line needs well-typed tables only. *)
LEMMA CheckAll ==
    ASSUME IInv, NEW t \in Tables, Check(Cores, t, local),
           UNCHANGED <<running, targets, sends>>
    PROVE  IInv'
  BY Unfolded, CheckPreserves

LEMMA SendSwiStep ==
    ASSUME IInv, NEW c \in Cores, NEW i \in Swis, NEW cores \in SUBSET Cores,
           SendSwi(c, i, cores)
    PROVE  IInv'
<1> USE Unfolded
<1> DEFINE p == AddPending(cores, i)
           r == [d \in Cores |-> IF d \in cores THEN [tables.requestor[d] EXCEPT ![i] = c]
                                 ELSE tables.requestor[d]]
           t == [tables EXCEPT !.pending = p, !.requestor = r]
<1>1. p \in [Cores -> SUBSET Ids] /\ r \in [Cores -> [Swis -> Cores]]
  <2>1. i \in Ids
    BY DEF Swis
  <2> QED BY <2>1 DEF AddPending, Tables
<1>2. t \in Tables
  <2> HIDE DEF p, r
  <2> QED BY <1>1 DEF Tables
<1>3. \A d \in Cores \ cores : SameView(tables, t, d)
  BY DEF SameView, AddPending, Tables
<1>4. Check(cores, t, local) /\ UNCHANGED <<running, targets>>
  BY DEF SendSwi, Tables
<1>5. sends' \in 0..MaxSends
  BY DEF SendSwi
<1> HIDE DEF t
<1> QED BY <1>2, <1>3, <1>4, <1>5, CheckPreserves

LEMMA MaskStep ==
    ASSUME IInv, NEW c \in Cores, NEW i \in Ids, SetMask(c, i) \/ ClearMask(c, i)
    PROVE  IInv'
<1> USE Unfolded
<1>1. CASE SetMask(c, i)
  <2>1. [tables EXCEPT !.enabled = tables.enabled \union {i}] \in Tables
    BY DEF Tables
  <2> QED BY <1>1, <2>1, CheckAll DEF SetMask
<1>2. CASE ClearMask(c, i)
  <2>1. [tables EXCEPT !.enabled = (tables.enabled \ {i}) \union Swis] \in Tables
    BY DEF Tables, Swis
  <2> QED BY <1>2, <2>1, CheckAll DEF ClearMask
<1> QED BY <1>1, <1>2

LEMMA ClearPendingStep ==
    ASSUME IInv, NEW c \in Cores, NEW i \in Ids, ClearPending(c, i)
    PROVE  IInv'
<1> USE Unfolded
<1> DEFINE cleared == IF i \in Privates THEN {c} ELSE Cores
           p == [d \in Cores |-> IF d \in cleared THEN tables.pending[d] \ {i}
                                 ELSE tables.pending[d]]
<1>1. p \in [Cores -> SUBSET Ids]
  BY DEF Tables
<1>2. [tables EXCEPT !.pending = p] \in Tables
  <2> HIDE DEF p
  <2> QED BY <1>1 DEF Tables
<1>3. Check(Cores, [tables EXCEPT !.pending = p], local)
  BY DEF ClearPending
<1> HIDE DEF p
<1> QED BY <1>2, <1>3, CheckAll DEF ClearPending

LEMMA PriorityStep ==
    ASSUME IInv, NEW c \in Cores, NEW i \in Ids, NEW q \in Priorities,
           WritePriority(c, i, q)
    PROVE  IInv'
<1> USE Unfolded
<1>1. CASE i \in Privates
  <2>1. [tables EXCEPT !.private_priority[c][i] = q] \in Tables
    <3>1. [tables.private_priority EXCEPT ![c][i] = q] \in [Cores -> [Privates -> 0..15]]
      BY <1>1 DEF Tables
    <3> QED BY <3>1 DEF Tables
  <2> QED BY <1>1, <2>1, CheckAll DEF WritePriority
<1>2. CASE i \notin Privates
  <2>1. [tables EXCEPT !.global_priority[i] = q] \in Tables
    <3>1. [tables.global_priority EXCEPT ![i] = q] \in [Globals -> 0..15]
      BY <1>2 DEF Tables, Globals
    <3> QED BY <3>1 DEF Tables
  <2> QED BY <1>2, <2>1, CheckAll DEF WritePriority
<1> QED BY <1>1, <1>2

(* The registers whose writes are not followed by an evaluation concern     *)
(* nothing that the invariant is about.                                     *)
LEMMA UncheckedStep ==
    ASSUME IInv, NEW c \in Cores,
           \/ \E i \in Globals, cores \in TargetLists : WriteTargets(c, i, cores)
           \/ \E m \in PriorityMasks : WritePriorityMask(c, m)
           \/ \E m \in PreemptionMasks : WritePreemptionMask(c, m)
    PROVE  IInv'
<1> USE Unfolded
<1>1. ASSUME NEW i \in Globals, NEW cores \in TargetLists, WriteTargets(c, i, cores)
      PROVE  IInv'
  <2>1. targets' \in [Globals -> SUBSET Cores]
    BY <1>1 DEF WriteTargets
  <2> QED BY <1>1, <2>1 DEF WriteTargets, IInv, TypeOK
<1>2. ASSUME NEW l \in Local, local' = [local EXCEPT ![c] = l],
             l.irq_cause = local[c].irq_cause,
             l.cur_active_irq = local[c].cur_active_irq,
             UNCHANGED <<cpu, running, tables, targets, dead, sends>>
      PROVE  IInv'
  <2>1. TypeOK'
    BY <1>2 DEF IInv, TypeOK
  <2>2. \A d \in Cores : /\ local'[d].irq_cause = local[d].irq_cause
                         /\ local'[d].cur_active_irq = local[d].cur_active_irq
    BY <1>2
  <2>3. \A d \in Cores : CoreInv(tables', d, local'[d], cpu'[d])
    BY <1>2, <2>2 DEF IInv, CoreInv, ModeInv, LineInv, NoneActive
  <2> QED BY <2>1, <2>3 DEF IInv
<1>3. ASSUME NEW m \in PriorityMasks, WritePriorityMask(c, m)
      PROVE  IInv'
  <2> DEFINE l == [local[c] EXCEPT !.priority_mask = m]
  <2>1. l \in Local /\ l.irq_cause = local[c].irq_cause
        /\ l.cur_active_irq = local[c].cur_active_irq
    BY DEF Local
  <2>2. local' = [local EXCEPT ![c] = l]
    BY <1>3 DEF WritePriorityMask
  <2> HIDE DEF l
  <2> QED BY <1>2, <1>3, <2>1, <2>2 DEF WritePriorityMask
<1>4. ASSUME NEW m \in PreemptionMasks, WritePreemptionMask(c, m)
      PROVE  IInv'
  <2> DEFINE l == [local[c] EXCEPT !.preemption_mask = IF m < 3 THEN 3 ELSE m]
  <2>1. l \in Local /\ l.irq_cause = local[c].irq_cause
        /\ l.cur_active_irq = local[c].cur_active_irq
    BY DEF Local
  <2>2. local' = [local EXCEPT ![c] = l]
    BY <1>4 DEF WritePreemptionMask
  <2> HIDE DEF l
  <2> QED BY <1>2, <1>4, <2>1, <2>2 DEF WritePreemptionMask
<1> QED BY <1>1, <1>3, <1>4

LEMMA RegistersStep ==
    ASSUME IInv, NEW c \in Cores, Registers(c)
    PROVE  IInv'
  BY SendSwiStep, MaskStep, ClearPendingStep, PriorityStep, UncheckedStep
     DEF Registers

(* The read that acknowledges: the line stays low, for now an interrupt is  *)
(* active.                                                                  *)
LEMMA AcknowledgeStep ==
    ASSUME IInv, NEW c \in Cores, Acknowledge(c)
    PROVE  IInv'
<1> USE Unfolded
<1> DEFINE cause == local[c].irq_cause
           t == [tables EXCEPT !.pending[c] = tables.pending[c] \ {cause.id}]
           l == [local[c] EXCEPT !.irq_cause = Spurious, !.cur_active_irq = cause]
           p == CheckedCpu(t, c, l, cpu[c])
<1>1. cpu[c].mode = "irq" /\ cpu[c].irq_disable /\ cause # Spurious
  BY DEF Acknowledge, ModeInv
<1>2. cause.id # SPURIOUS_INT
  <2>1. cause \in [id : Ids, from : Nat]
    BY <1>1 DEF Local, Cause
  <2> QED BY <2>1 DEF SPURIOUS_INT
<1>3. t \in Tables
  BY DEF Tables
<1>4. l \in Local
  <2>1. Spurious \in Cause
    BY DEF Cause
  <2>2. local[c] \in Local /\ cause \in Cause
    BY DEF Local
  <2> HIDE DEF cause
  <2> QED BY <2>1, <2>2 DEF Local
<1>5. ~NoneActive(l)
  BY <1>2 DEF NoneActive, Local
<1>6. ~Asserts(t, c, l)
  BY <1>5 DEF Asserts
<1>7. tables' = t
  BY DEF Acknowledge
<1>8. local' = [local EXCEPT ![c] = CheckedLocal(t, c, l)]
  BY <1>7 DEF Acknowledge
<1>9. cpu' = [cpu EXCEPT ![c] = [p EXCEPT !.mode = "handler"]]
  BY <1>7 DEF Acknowledge
<1>10. dead' \in BOOLEAN /\ UNCHANGED <<running, targets, sends>>
  BY DEF Acknowledge, Preempts, Sufficient
<1> SUFFICES TypeOK' /\ \A d \in Cores : CoreInv(tables', d, local'[d], cpu'[d])
  BY DEF IInv
<1>11. p \in Cpu /\ ~p.int_pending /\ p.irq_disable
  BY <1>1, <1>6, CheckedCpuIs
<1>12. /\ CheckedLocal(t, c, l) \in Local
       /\ CheckedLocal(t, c, l).cur_active_irq = l.cur_active_irq
  <2> HIDE DEF t, l
  <2> QED BY <1>3, <1>4, CheckedLocalIs
<1>13. CoreInv(t, c, CheckedLocal(t, c, l), [p EXCEPT !.mode = "handler"])
  <2>1. LET q == [p EXCEPT !.mode = "handler"]
        IN  q \in Cpu /\ ~q.int_pending /\ q.irq_disable /\ q.mode = "handler"
    <3> HIDE DEF p
    <3> QED BY <1>11 DEF Cpu, Modes
  <2> HIDE DEF p, l, t
  <2> QED BY <2>1 DEF CoreInv, ModeInv, LineInv
<1>14. ASSUME NEW d \in Cores
       PROVE  CoreInv(tables', d, local'[d], cpu'[d])
  <2>1. CASE d = c
    <3> HIDE DEF t, l, p
    <3> QED BY <1>7, <1>8, <1>9, <1>13, <2>1
  <2>2. CASE d # c
    <3>1. SameView(tables, t, d)
      BY <2>2 DEF SameView, Tables
    <3>2. local'[d] = local[d] /\ cpu'[d] = cpu[d]
      BY <1>8, <1>9, <2>2
    <3>3. CoreInv(tables, d, local[d], cpu[d])
      BY DEF IInv
    <3> HIDE DEF t
    <3>4. Candidates(t, d) = Candidates(tables, d) /\ Highest(t, d) = Highest(tables, d)
      BY <1>3, <3>1, SameHighest
    <3> QED BY <1>7, <3>2, <3>3, <3>4 DEF CoreInv, LineInv
  <2> QED BY <2>1, <2>2
<1>15. TypeOK'
  <2>1. [p EXCEPT !.mode = "handler"] \in Cpu
    <3> HIDE DEF p
    <3> QED BY <1>11 DEF Cpu, Modes
  <2> HIDE DEF p, l, t
  <2>2. cpu' \in [Cores -> Cpu] /\ local' \in [Cores -> Local]
    BY <1>8, <1>9, <1>12, <2>1
  <2> QED BY <1>3, <1>7, <1>10, <2>2 DEF TypeOK
<1> QED BY <1>14, <1>15

LEMMA EndInterruptStep ==
    ASSUME IInv, NEW c \in Cores, EndInterrupt(c)
    PROVE  IInv'
<1> USE Unfolded
<1> DEFINE l == [local EXCEPT ![c].cur_active_irq = Spurious]
<1>1. l \in [Cores -> Local]
  BY DEF Local, Cause
<1>2. ModeInv(l[c], cpu[c])
  <2>1. cpu[c].mode = "handler" /\ cpu[c].irq_disable
    BY DEF EndInterrupt, ModeInv
  <2> QED BY <2>1 DEF ModeInv
<1>3. \A d \in Cores \ {c} : SameView(tables, tables, d) /\ l[d] = local[d]
  BY DEF SameView
<1>4. Check({c}, tables, l) /\ UNCHANGED <<running, targets, sends>>
  BY DEF EndInterrupt
<1> HIDE DEF l
<1> QED BY <1>1, <1>2, <1>3, <1>4, CheckPreserves

LEMMA VectorStep ==
    ASSUME IInv, NEW c \in Cores, Vector(c)
    PROVE  IInv'
<1> USE Unfolded
<1>1. CASE Return(c)
  <2> DEFINE proc == ReturnFromIrq(cpu[c])
  <2>1. NoneActive(local[c])
    BY <1>1 DEF Return
  <2>2. /\ proc \in Cpu /\ proc.mode = "thread"
        /\ proc.int_pending = cpu[c].int_pending
        /\ proc.halted = cpu[c].halted
    <3>1. cpu[c] \in Cpu
      OBVIOUS
    <3> QED BY <3>1 DEF ReturnFromIrq, Cpu, Modes
  <2>3. CoreInv(tables, c, local[c], cpu[c])
    BY DEF IInv
  <2>4. SetCpu(c, proc) /\ UNCHANGED running
    BY <1>1 DEF Return
  <2> HIDE DEF proc
  <2>5. CoreInv(tables, c, local[c], proc)
    BY <2>1, <2>2, <2>3 DEF CoreInv, ModeInv, LineInv
  <2> QED BY <2>2, <2>4, <2>5, SetCpuPreserves
<1> QED BY <1>1, AcknowledgeStep, EndInterruptStep DEF Vector

(* The instructions of the program: it is in its own code, so that no       *)
(* interrupt is active.                                                     *)
LEMMA InstructionsStep ==
    ASSUME IInv, NEW c \in Cores, Instructions(c)
    PROVE  IInv'
<1> USE Unfolded
<1>1. CoreInv(tables, c, local[c], cpu[c])
  BY DEF IInv
<1>2. ASSUME NEW proc \in Cpu, cpu[c].mode = "thread", proc.mode = "thread",
             proc.int_pending = cpu[c].int_pending,
             ~UsesWfe => (proc.halted => cpu[c].halted \/ ~cpu[c].int_pending),
             SetCpu(c, proc), UNCHANGED running
      PROVE  IInv'
  <2>1. CoreInv(tables, c, local[c], proc)
    BY <1>1, <1>2 DEF CoreInv, ModeInv, LineInv
  <2> QED BY <1>2, <2>1, SetCpuPreserves
<1>3. CASE DisableIrq(c) \/ EnableIrq(c)
  <2>1. ASSUME NEW b \in BOOLEAN, cpu[c].mode = "thread", SetCpu(c, Cps(cpu[c], b)),
               UNCHANGED running
        PROVE  IInv'
    <3>1. LET proc == Cps(cpu[c], b)
          IN  /\ proc \in Cpu /\ proc.mode = "thread"
              /\ proc.int_pending = cpu[c].int_pending /\ proc.halted = cpu[c].halted
      BY <2>1 DEF Cps, Cpu
    <3> QED BY <1>2, <2>1, <3>1
  <2> QED BY <1>3, <2>1 DEF DisableIrq, EnableIrq
<1>4. CASE WaitForInterrupt(c)
  <2>1. LET proc == Halt(cpu[c])
        IN  /\ proc \in Cpu /\ proc.mode = cpu[c].mode
            /\ proc.int_pending = cpu[c].int_pending
            /\ proc.halted => cpu[c].halted \/ ~cpu[c].int_pending
    <3>1. cpu[c] \in Cpu
      OBVIOUS
    <3> QED BY <3>1 DEF Halt, Cpu
  <2> QED BY <1>2, <1>4, <2>1 DEF WaitForInterrupt
<1>5. CASE WaitForEvent(c)
  <2>1. UsesWfe
    BY <1>5 DEF WaitForEvent
  <2>2. LET proc == Wfe(cpu[c])
        IN  /\ proc \in Cpu /\ proc.mode = cpu[c].mode
            /\ proc.int_pending = cpu[c].int_pending
    <3>1. cpu[c] \in Cpu
      OBVIOUS
    <3> QED BY <3>1 DEF Wfe, Cpu
  <2> QED BY <1>2, <1>5, <2>1, <2>2 DEF WaitForEvent
<1>6. CASE SendEvents(c)
  <2>1. ASSUME NEW d \in Cores
        PROVE  /\ cpu'[d] \in Cpu
               /\ cpu'[d].mode = cpu[d].mode
               /\ cpu'[d].irq_disable = cpu[d].irq_disable
               /\ cpu'[d].int_pending = cpu[d].int_pending
    <3>1. cpu[d] \in Cpu
      OBVIOUS
    <3>2. cpu'[d] = IF d = c THEN cpu[d] ELSE SendEvent(cpu[d])
      BY <1>6 DEF SendEvents
    <3> QED BY <3>1, <3>2 DEF SendEvent, Cpu
  <2>2. UsesWfe /\ UNCHANGED <<running, tables, targets, local, dead, sends>>
    BY <1>6 DEF SendEvents
  <2>3. cpu' \in [Cores -> Cpu]
    <3>1. cpu' = [d \in Cores |-> cpu'[d]]
      BY <1>6 DEF SendEvents
    <3> QED BY <2>1, <3>1
  <2>4. \A d \in Cores : CoreInv(tables', d, local'[d], cpu'[d])
    BY <2>1, <2>2 DEF IInv, CoreInv, ModeInv, LineInv
  <2> QED BY <2>2, <2>3, <2>4 DEF IInv, TypeOK
<1> QED BY <1>3, <1>4, <1>5, <1>6 DEF Instructions

LEMMA RunStep ==
    ASSUME IInv, NEW c \in Cores, BeginRun(c) \/ FinishRun(c)
    PROVE  IInv'
<1> USE Unfolded
<1>1. CASE BeginRun(c)
  BY <1>1 DEF BeginRun, IInv, TypeOK
<1>2. CASE FinishRun(c)
  <2> DEFINE proc == EndRun(cpu[c])
  <2>1. CoreInv(tables, c, local[c], cpu[c])
    BY DEF IInv
  <2>2. CASE proc = cpu[c]
    BY <1>2, <2>1, <2>2, SetCpuPreserves DEF FinishRun
  <2>3. CASE proc # cpu[c]
    <3>1. cpu[c].int_pending /\ ~cpu[c].irq_disable
      BY <2>3 DEF EndRun, IntCheck
    <3>2. proc = [cpu[c] EXCEPT !.irq_disable = TRUE, !.mode = "irq"]
      BY <3>1 DEF EndRun, IntCheck
    <3>3. /\ proc \in Cpu /\ proc.mode = "irq" /\ proc.irq_disable
          /\ proc.int_pending = cpu[c].int_pending /\ proc.halted = cpu[c].halted
      <4>1. cpu[c] \in Cpu
        OBVIOUS
      <4> HIDE DEF proc
      <4> QED BY <3>2, <4>1 DEF Cpu, Modes
    <3>4. local[c].irq_cause # Spurious /\ NoneActive(local[c])
      BY <2>1, <3>1, HighestType DEF CoreInv, LineInv
    <3>5. SetCpu(c, proc)
      BY <1>2 DEF FinishRun
    <3> HIDE DEF proc
    <3>6. CoreInv(tables, c, local[c], proc)
      BY <2>1, <3>1, <3>3, <3>4 DEF CoreInv, ModeInv, LineInv
    <3> QED BY <1>2, <3>3, <3>5, <3>6, SetCpuPreserves DEF FinishRun
  <2> QED BY <2>2, <2>3
<1> QED BY <1>1, <1>2

LEMMA ResetStep == IInv /\ Reset => IInv'
<1> SUFFICES ASSUME IInv, Reset PROVE IInv'
  OBVIOUS
<1> USE Unfolded
<1>1. ResetCpu \in Cpu /\ ResetLocal \in Local
  BY DEF ResetCpu, ResetLocal, Cpu, Modes, Local, Cause
<1>2. tables' \in Tables
  <2> DEFINE p == [c \in Cores |-> {}]
             e == Swis \union (tables.enabled \intersect Globals)
             q == [c \in Cores |-> [i \in Privates |-> 0]]
  <2>1. p \in [Cores -> SUBSET Ids] /\ e \in SUBSET Ids
    BY DEF Swis, Globals
  <2>2. q \in [Cores -> [Privates -> 0..15]]
    OBVIOUS
  <2>3. tables' = [tables EXCEPT !.pending = p, !.enabled = e, !.private_priority = q]
    BY DEF Reset
  <2> HIDE DEF p, e, q
  <2> QED BY <2>1, <2>2, <2>3 DEF Tables
<1>3. cpu' \in [Cores -> Cpu] /\ local' \in [Cores -> Local] /\ sends' \in 0..MaxSends
  BY <1>1 DEF Reset
<1>4. TypeOK'
  BY <1>2, <1>3 DEF Reset, TypeOK, IInv
<1>5. ASSUME NEW c \in Cores
      PROVE  CoreInv(tables', c, local'[c], cpu'[c])
  <2>1. local'[c] = ResetLocal /\ cpu'[c] = ResetCpu
    BY DEF Reset
  <2>2. CoreInv(tables', c, ResetLocal, ResetCpu)
    BY DEF CoreInv, ModeInv, LineInv, ResetLocal, ResetCpu, NoneActive, Spurious, SPURIOUS_INT
  <2> QED BY <2>1, <2>2
<1> QED BY <1>4, <1>5 DEF IInv

-----------------------------------------------------------------------------
(* The theorems. *)

(* The invariant of every core is inductive. *)
LEMMA Inductive == IInv /\ [Next]_vars => IInv'
<1>1. ASSUME IInv, UNCHANGED vars
      PROVE  IInv'
  BY <1>1 DEF vars, IInv, TypeOK
<1>2. ASSUME IInv, Next
      PROVE  IInv'
  BY <1>2, DevicesStep, RegistersStep, InstructionsStep, VectorStep, RunStep, ResetStep
     DEF Next
<1> QED BY <1>1, <1>2

LEMMA AlwaysIInv == Spec => []IInv
  BY InitInv, Inductive, PTL DEF Spec

(* Every register and table keeps a value of its type: no write of a guest  *)
(* makes a priority, a target list or a cause that the code cannot index by.*)
THEOREM PmrTypeOK == Spec => []TypeOK
<1>1. IInv => TypeOK
  BY DEF IInv
<1> QED BY <1>1, AlwaysIInv, PTL

(* A signalled cause is the pending and enabled interrupt that comes first, *)
(* on any number of cores.                                                  *)
THEOREM PmrSignalledIsHighest == Spec => []SignalledIsHighest
<1>1. IInv => SignalledIsHighest
  BY DEF IInv, CoreInv, LineInv, SignalledIsHighest
<1> QED BY <1>1, AlwaysIInv, PTL

(* A core in its IRQ vector reads a cause: the index of the acknowledging   *)
(* read is in bounds.                                                       *)
THEOREM PmrAcknowledgeHasCause == Spec => []AcknowledgeHasCause
<1>1. IInv => AcknowledgeHasCause
  BY DEF IInv, CoreInv, ModeInv, AcknowledgeHasCause
<1> QED BY <1>1, AlwaysIInv, PTL

(* Interrupts do not nest. *)
THEOREM PmrNoNesting == Spec => []NoNesting
<1>1. IInv => NoNesting
  BY DEF IInv, CoreInv, ModeInv, LineInv, NoNesting
<1> QED BY <1>1, AlwaysIInv, PTL

(* A program that executes no WFE never leaves a core halted with its line  *)
(* high, nor in its IRQ vector.  With WFE either happens: wfe() does not    *)
(* look at the line.                                                        *)
THEOREM PmrHaltedHasNoInterrupt ==
    ASSUME ~UsesWfe
    PROVE  Spec => []HaltedHasNoInterrupt
<1>1. IInv => HaltedHasNoInterrupt
  BY DEF IInv, CoreInv, LineInv, ModeInv, HaltedHasNoInterrupt
<1> QED BY <1>1, AlwaysIInv, PTL
=============================================================================
