---------------------------- MODULE ArmCpuProofs ----------------------------
(***************************************************************************)
(* Proofs about the processors of ArmCpu, in what surrounds them: a lock   *)
(* of the ARM11's cores (Exclusives, SpinLock), and the line of the ARM9   *)
(* (Interrupt9).                                                           *)
(*                                                                         *)
(* For any number of cores and any disjoint cells, a store-exclusive       *)
(* succeeds exactly if its cell was not written since the load, and a lock *)
(* built of the two excludes and lets nobody sleep in vain.  A monitor     *)
(* holds nothing but the region of the cell its core reserved last, and    *)
(* the global one holds it until the cell is written (MonitorInv); cells   *)
(* being disjoint, a store hits the regions of its own cell only, although *)
(* a region's end may be where another starts (HitsOwnCell).  A core about *)
(* to take the lock that still holds its reservation saw it free, and so   *)
(* it still is (LockInv).  A core that sleeps, or will without an event    *)
(* pending, has one on its way from the core that has the lock (SleepInv). *)
(*                                                                         *)
(* For any devices and any program, after any history, reboots with stale  *)
(* registers included, the ARM9 sleeps on a low line only, and an          *)
(* interrupt that is asserted wakes it: every method ends by giving the    *)
(* processor its line (SignalKeeps), halt() looks at the line, and nothing *)
(* else halts.                                                             *)
(***************************************************************************)
EXTENDS SpinLock, Interrupt9, TLAPS

RegionOf(x) == IF x = NoCell THEN NoRegion ELSE [start |-> x.addr, end |-> x.addr + x.size]

MonitorInv ==
    /\ TypeOK
    /\ \A c \in Cores :
        /\ local[c] = RegionOf(target[c])
        /\ global[c] = IF touched[c] THEN NoRegion ELSE local[c]
        /\ target[c] = NoCell => ~touched[c]

LEMMA CellType ==
    ASSUME NEW x \in Cells
    PROVE  /\ x.addr \in Nat \ {0} /\ x.size \in {1, 2, 4, 8}
           /\ x # NoCell
           /\ RegionOf(x) = [start |-> x.addr, end |-> x.addr + x.size]
           /\ RegionOf(x) \in Region
           /\ Words(x) # {} /\ Words(x) \subseteq Bytes(x)
<1>1. x.addr \in Nat \ {0} /\ x.size \in {1, 2, 4, 8}
  BY CellsAssumption
<1>2. x # NoCell
  BY <1>1 DEF NoCell
<1>3. x.addr + x.size \in Nat
  BY <1>1
<1>4. Words(x) # {} /\ Words(x) \subseteq Bytes(x)
  BY <1>1 DEF Words, Bytes
<1> QED BY <1>1, <1>2, <1>3, <1>4 DEF RegionOf, Region

(* A store to some words of a cell hits the region of that cell and no      *)
(* other.                                                                   *)
LEMMA HitsOwnCell ==
    ASSUME NEW x \in Cells, NEW y \in Cells \union {NoCell}, NEW addrs,
           addrs \subseteq Words(x), addrs # {}
    PROVE  (\E addr \in addrs : Hits(RegionOf(y), addr)) <=> y = x
<1>1. CASE y = NoCell
  <2>1. RegionOf(y) = NoRegion /\ y # x
    BY <1>1, CellType DEF RegionOf
  <2>2. \A addr \in addrs : addr \in Nat
    BY CellType DEF Words
  <2>3. ASSUME NEW addr \in addrs
        PROVE  ~Hits(NoRegion, addr)
    BY <2>2 DEF Hits, NoRegion
  <2> QED BY <2>1, <2>3
<1>2. CASE y \in Cells
  <2>1. \A addr \in addrs : addr \in Bytes(x) /\ addr \in Nat
    BY CellType DEF Bytes
  <2>2. ASSUME NEW addr \in addrs
        PROVE  Hits(RegionOf(y), addr) <=> addr \in Bytes(y)
    BY <1>2, <2>1, CellType DEF Hits, Bytes
  <2>3. y # x => Bytes(x) \intersect Bytes(y) = {}
    BY <1>2, CellsAssumption
  <2> QED BY <2>1, <2>2, <2>3
<1> QED BY <1>1, <1>2

LEMMA InitMonitor == Init => MonitorInv
BY DEF Init, MonitorInv, TypeOK, Region, NoRegion, RegionOf

(* What a core holds, in a state of the invariant. *)
LEMMA HoldsIs ==
    ASSUME MonitorInv, NEW c \in Cores, NEW x \in Cells
    PROVE  /\ target[c] = x => (Holds(c, x) <=> ~touched[c])
           /\ target[c] = NoCell => ~Holds(c, x)
<1>1. /\ x.addr \in Nat \ {0} /\ x.size \in {1, 2, 4, 8} /\ x # NoCell
      /\ Words(x) # {}
  BY CellType
<1>2. ASSUME NEW addr \in Words(x)
      PROVE  /\ Within(RegionOf(x), addr)
             /\ ~Within(NoRegion, addr)
  BY <1>1 DEF Words, RegionOf, NoRegion, Within
<1>3. /\ local[c] = RegionOf(target[c])
      /\ global[c] = IF touched[c] THEN NoRegion ELSE local[c]
  BY DEF MonitorInv
<1>4. CASE target[c] = x
  BY <1>1, <1>2, <1>3, <1>4 DEF Holds, has_exclusive
<1>5. CASE target[c] = NoCell
  BY <1>1, <1>2, <1>3, <1>5 DEF Holds, has_exclusive, RegionOf
<1> QED BY <1>4, <1>5

(* What a store leaves of the global monitor. *)
LEMMA ClearedIs ==
    ASSUME MonitorInv, NEW x \in Cells, NEW addrs, addrs \subseteq Words(x), addrs # {},
           NEW c \in Cores
    PROVE  Cleared(global, addrs)[c] = IF target[c] = x THEN NoRegion ELSE global[c]
<1>1. target[c] \in Cells \union {NoCell}
  BY DEF MonitorInv, TypeOK
<1>2. global[c] \in {NoRegion, RegionOf(target[c])}
  BY DEF MonitorInv
<1>3. (\E addr \in addrs : Hits(RegionOf(target[c]), addr)) <=> target[c] = x
  BY <1>1, HitsOwnCell
<1>4. Cleared(global, addrs)[c] = IF \E addr \in addrs : Hits(global[c], addr)
                                  THEN NoRegion ELSE global[c]
  BY DEF Cleared
<1>5. CASE global[c] = NoRegion
  BY <1>4, <1>5
<1>6. CASE global[c] = RegionOf(target[c])
  BY <1>3, <1>4, <1>6
<1> QED BY <1>2, <1>5, <1>6

(* The instructions keep the invariant. *)
LEMMA LoadStep ==
    ASSUME MonitorInv, NEW c \in Cores, NEW x \in Cells, LoadExclusive(c, x)
    PROVE  MonitorInv'
<1>1. x # NoCell /\ RegionOf(x) = [start |-> x.addr, end |-> x.addr + x.size]
      /\ RegionOf(x) \in Region
  BY CellType
<1>2. /\ local' = [local EXCEPT ![c] = RegionOf(x)]
      /\ global' = [global EXCEPT ![c] = RegionOf(x)]
      /\ target' = [target EXCEPT ![c] = x]
      /\ touched' = [touched EXCEPT ![c] = FALSE]
  BY <1>1 DEF LoadExclusive
<1> QED BY <1>1, <1>2 DEF MonitorInv, TypeOK

LEMMA ClearStep ==
    ASSUME MonitorInv, NEW c \in Cores, ClearExclusive(c)
    PROVE  MonitorInv'
<1>1. NoRegion \in Region /\ RegionOf(NoCell) = NoRegion
  BY DEF NoRegion, Region, RegionOf
<1> QED BY <1>1 DEF ClearExclusive, MonitorInv, TypeOK

LEMMA StoreExclusiveStep ==
    ASSUME MonitorInv, NEW c \in Cores, NEW x \in Cells, StoreExclusive(c, x)
    PROVE  MonitorInv'
<1>1. NoRegion \in Region /\ RegionOf(NoCell) = NoRegion
  BY DEF NoRegion, Region, RegionOf
<1>2. x # NoCell /\ Words(x) # {}
  BY CellType
<1>3. /\ local' = [local EXCEPT ![c] = NoRegion]
      /\ target' = [target EXCEPT ![c] = NoCell]
      /\ touched' = [d \in Cores |-> d # c /\ (touched[d] \/ target[d] = x)]
  BY DEF StoreExclusive
<1>4. global' = [d \in Cores |-> IF d = c \/ target[d] = x THEN NoRegion ELSE global[d]]
  <2>1. global' = [Cleared(global, Words(x)) EXCEPT ![c] = NoRegion]
    BY DEF StoreExclusive
  <2>2. \A d \in Cores :
           Cleared(global, Words(x))[d] = IF target[d] = x THEN NoRegion ELSE global[d]
    BY <1>2, ClearedIs
  <2>3. DOMAIN Cleared(global, Words(x)) = Cores
    BY DEF Cleared
  <2> HIDE DEF Cleared
  <2> QED BY <2>1, <2>2, <2>3
<1> QED BY <1>1, <1>2, <1>3, <1>4 DEF MonitorInv, TypeOK

LEMMA StoreStep ==
    ASSUME MonitorInv, NEW c \in Cores, NEW x \in Cells,
           NEW addrs \in (SUBSET Words(x)) \ {{}}, Store(c, x, addrs)
    PROVE  MonitorInv'
<1>1. NoRegion \in Region /\ x # NoCell
  BY CellType DEF NoRegion, Region
<1>2. /\ touched' = [d \in Cores |-> touched[d] \/ target[d] = x]
      /\ UNCHANGED <<local, target>>
  BY DEF Store, Written
<1>3. global' = [d \in Cores |-> IF target[d] = x THEN NoRegion ELSE global[d]]
  <2>1. global' = Cleared(global, addrs)
    BY DEF Store, Written
  <2>2. \A d \in Cores :
           Cleared(global, addrs)[d] = IF target[d] = x THEN NoRegion ELSE global[d]
    BY ClearedIs
  <2>3. global' = [d \in Cores |-> global'[d]]
    BY <2>1 DEF Cleared
  <2> QED BY <2>1, <2>2, <2>3
<1> QED BY <1>1, <1>2, <1>3 DEF MonitorInv, TypeOK

LEMMA FailStep ==
    ASSUME MonitorInv, NEW c \in Cores, NEW x \in Cells, StoreExclusiveFails(c, x)
    PROVE  MonitorInv'
BY ClearStep DEF StoreExclusiveFails

LEMMA ResetStep == MonitorInv /\ Reset => MonitorInv'
BY DEF Reset, MonitorInv, TypeOK, Region, NoRegion, RegionOf

LEMMA StutterStep == MonitorInv /\ UNCHANGED vars => MonitorInv'
BY DEF vars, MonitorInv, TypeOK

-----------------------------------------------------------------------------
(* The lock. *)

LockInv ==
    /\ MonitorInv
    /\ LTypeOK
    /\ MutualExclusion
    /\ \A c \in Cores : pc[c] = "take" =>
           target[c] = TheLock /\ (~touched[c] => ~lock)

LEMMA TheLockIsCell == TheLock \in Cells
BY LockAssumption DEF TheLock

LEMMA ResetCpuType == ResetCpu \in Cpu
BY DEF ResetCpu, Cpu, Modes

LEMMA InitLock == LInit => LockInv
<1> SUFFICES ASSUME LInit PROVE LockInv
  OBVIOUS
<1>1. MonitorInv /\ TypeOK
  BY InitMonitor DEF LInit, MonitorInv
<1>2. LTypeOK
  BY <1>1, ResetCpuType DEF LInit, LTypeOK, Places
<1>3. \A c \in Cores : pc[c] = "idle"
  BY DEF LInit
<1> QED BY <1>1, <1>2, <1>3 DEF LInit, LockInv, MutualExclusion, Holders

(* What the instructions about other cells leave of a reservation of the    *)
(* lock by another core.                                                    *)
LEMMA OtherKeeps ==
    ASSUME LockInv, NEW c \in Cores, Other(c)
    PROVE  /\ MonitorInv'
           /\ \A d \in Cores : pc[d] = "take" =>
                  target'[d] = target[d] /\ touched'[d] = touched[d]
<1>1. pc[c] = "idle" /\ MonitorInv
  BY DEF Other, Goto, LockInv
<1>2. CASE ClearExclusive(c)
  BY <1>1, <1>2, ClearStep DEF ClearExclusive, MonitorInv, TypeOK
<1>3. ASSUME NEW x \in Cells \ {TheLock}, LoadExclusive(c, x)
      PROVE  /\ MonitorInv'
             /\ \A d \in Cores : pc[d] = "take" =>
                    target'[d] = target[d] /\ touched'[d] = touched[d]
  BY <1>1, <1>3, LoadStep DEF LoadExclusive, MonitorInv, TypeOK
<1>4. ASSUME NEW x \in Cells \ {TheLock}, StoreExclusive(c, x)
      PROVE  /\ MonitorInv'
             /\ \A d \in Cores : pc[d] = "take" =>
                    target'[d] = target[d] /\ touched'[d] = touched[d]
  BY <1>1, <1>4, StoreExclusiveStep DEF StoreExclusive, MonitorInv, LockInv, TypeOK
<1>5. ASSUME NEW x \in Cells \ {TheLock}, StoreExclusiveFails(c, x)
      PROVE  /\ MonitorInv'
             /\ \A d \in Cores : pc[d] = "take" =>
                    target'[d] = target[d] /\ touched'[d] = touched[d]
  BY <1>1, <1>5, FailStep DEF StoreExclusiveFails, ClearExclusive, MonitorInv, TypeOK
<1>6. ASSUME NEW x \in Cells \ {TheLock}, NEW addrs \in (SUBSET Words(x)) \ {{}},
             Store(c, x, addrs)
      PROVE  /\ MonitorInv'
             /\ \A d \in Cores : pc[d] = "take" =>
                    target'[d] = target[d] /\ touched'[d] = touched[d]
  BY <1>1, <1>6, StoreStep DEF Store, Written, MonitorInv, LockInv, TypeOK
<1> QED BY <1>2, <1>3, <1>4, <1>5, <1>6 DEF Other

LEMMA CpuOperators ==
    ASSUME NEW p \in Cpu
    PROVE  Wfe(p) \in Cpu /\ SendEvent(p) \in Cpu
BY DEF Wfe, SendEvent, Cpu

LEMMA LockStep ==
    ASSUME LockInv, NEW c \in Cores,
           Want(c) \/ Try(c) \/ Wait(c) \/ Take(c) \/ Fail(c) \/ Free(c) \/ Signal(c) \/ Other(c)
    PROVE  LockInv'
<1> USE DEF Goto, LockInv, LTypeOK, MutualExclusion, Holders, Places
<1>1. MonitorInv /\ MonitorInv' => TypeOK /\ TypeOK'
  BY DEF MonitorInv
<1>2. CASE Want(c)
  BY <1>1, <1>2, StutterStep DEF Want, vars
<1>3. CASE Try(c)
  <2>1. MonitorInv'
    BY <1>3, LoadStep, TheLockIsCell DEF Try
  <2>2. /\ target' = [target EXCEPT ![c] = TheLock]
        /\ touched' = [touched EXCEPT ![c] = FALSE]
    BY <1>3 DEF Try, LoadExclusive
  <2> QED BY <1>1, <1>3, <2>1, <2>2 DEF Try, TypeOK
<1>4. CASE Wait(c)
  <2>1. cpu' \in [Cores -> Cpu]
    BY <1>4, CpuOperators DEF Wait
  <2> QED BY <1>1, <1>4, <2>1, StutterStep DEF Wait, vars
<1>5. CASE Take(c)
  <2>1. MonitorInv'
    BY <1>5, StoreExclusiveStep, TheLockIsCell DEF Take
  <2>2. ~touched[c] /\ target[c] = TheLock
    BY <1>5, HoldsIs, TheLockIsCell DEF Take, StoreExclusive
  <2>3. touched' = [d \in Cores |-> d # c /\ (touched[d] \/ target[d] = TheLock)]
    BY <1>5 DEF Take, StoreExclusive
  <2>4. target' = [target EXCEPT ![c] = NoCell]
    BY <1>5 DEF Take, StoreExclusive
  <2>5. pc[c] = "take" /\ ~lock
    BY <1>5, <2>2 DEF Take
  <2> QED BY <1>1, <1>5, <2>1, <2>3, <2>4, <2>5 DEF Take, TypeOK
<1>6. CASE Fail(c)
  <2>1. MonitorInv'
    BY <1>6, FailStep, TheLockIsCell DEF Fail
  <2>2. /\ target' = [target EXCEPT ![c] = NoCell]
        /\ touched' = [touched EXCEPT ![c] = FALSE]
    BY <1>6 DEF Fail, StoreExclusiveFails, ClearExclusive
  <2> QED BY <1>1, <1>6, <2>1, <2>2 DEF Fail, TypeOK
<1>7. CASE Free(c)
  <2>1. MonitorInv'
    <3>1. Words(TheLock) \in (SUBSET Words(TheLock)) \ {{}}
      BY TheLockIsCell, CellType
    <3> QED BY <1>7, <3>1, StoreStep, TheLockIsCell DEF Free
  <2>2. target' = target
    BY <1>7 DEF Free, Store
  <2>3. /\ pc[c] = "critical" /\ pc' = [pc EXCEPT ![c] = "signal"]
        /\ lock' = FALSE /\ cpu' = cpu
    BY <1>7 DEF Free
  <2>4. \A d \in Cores : pc[d] = "critical" => d = c
    BY <2>3
  <2>5. \A d \in Cores : pc'[d] # "critical"
    BY <2>3, <2>4
  <2>6. MutualExclusion'
    BY <2>3, <2>5
  <2>7. LTypeOK'
    BY <1>1, <2>1, <2>3
  <2>8. \A d \in Cores : pc'[d] = "take" => target'[d] = TheLock
    BY <2>2, <2>3
  <2> QED BY <2>1, <2>3, <2>6, <2>7, <2>8
<1>8. CASE Signal(c)
  <2>1. cpu' \in [Cores -> Cpu]
    BY <1>8, CpuOperators DEF Signal
  <2> QED BY <1>1, <1>8, <2>1, StutterStep DEF Signal, vars
<1>9. CASE Other(c)
  BY <1>1, <1>9, OtherKeeps DEF Other
<1> QED BY <1>2, <1>3, <1>4, <1>5, <1>6, <1>7, <1>8, <1>9

LEMMA RestartStep == LockInv /\ Restart => LockInv'
<1> SUFFICES ASSUME LockInv, Restart PROVE LockInv'
  OBVIOUS
<1>1. MonitorInv' /\ TypeOK'
  BY ResetStep DEF LockInv, Restart, MonitorInv
<1>2. LTypeOK'
  BY <1>1, ResetCpuType DEF Restart, LTypeOK, Places
<1>3. \A c \in Cores : pc'[c] = "idle"
  BY DEF Restart
<1> QED BY <1>1, <1>2, <1>3 DEF Restart, LockInv, MutualExclusion, Holders

LEMMA LockNext == LockInv /\ [LNext]_lock_vars => LockInv'
<1>1. LockInv /\ UNCHANGED lock_vars => LockInv'
  BY StutterStep
     DEF LockInv, lock_vars, vars, LTypeOK, MutualExclusion, Holders, MonitorInv, TypeOK
<1> QED BY <1>1, LockStep, RestartStep DEF LNext

LEMMA AlwaysLockInv == LSpec => []LockInv
BY LockNext, InitLock, PTL DEF LSpec

-----------------------------------------------------------------------------
(* Sleep.  A core in Signal wakes every sleeper and leaves its event with   *)
(* every core that is about to sleep.                                       *)

Signalling == \E d \in Cores : pc[d] \in {"critical", "signal"}

(* A core that sleeps, or will at its next instruction. *)
Drowsy(c) == cpu[c].halted \/ (pc[c] = "wait" /\ ~cpu[c].event_pending)

SleepInv ==
    /\ LockInv
    /\ \A c \in Cores :
           /\ cpu[c].halted <=> cpu[c].waiting_for_event
           /\ cpu[c].halted => pc[c] = "try"
           /\ Drowsy(c) => Signalling

LEMMA InitSleep == LInit => SleepInv
BY InitLock DEF LInit, SleepInv, Drowsy, ResetCpu

(* An instruction that leaves the processors alone, and its program neither *)
(* about to sleep nor past its signal.                                      *)
LEMMA AwakeStep ==
    ASSUME SleepInv, LockInv', NEW c \in Cores, NEW from, NEW to, Goto(c, from, to),
           cpu' = cpu, to = "wait" => Signalling,
           from \in {"critical", "signal"} => to \in {"critical", "signal"}
    PROVE  SleepInv'
<1>1. /\ ~cpu[c].halted /\ pc[c] = from
      /\ \A d \in Cores : pc'[d] = IF d = c THEN to ELSE pc[d]
  BY DEF Goto, SleepInv, LockInv, LTypeOK
<1>2. Signalling => Signalling'
  BY <1>1 DEF Signalling
<1>3. \A d \in Cores : Drowsy(d)' => Drowsy(d) \/ (d = c /\ to = "wait")
  BY <1>1 DEF Drowsy
<1> QED BY <1>1, <1>2, <1>3 DEF SleepInv

LEMMA WaitStep ==
    ASSUME SleepInv, LockInv', NEW c \in Cores, Wait(c)
    PROVE  SleepInv'
<1>1. /\ ~cpu[c].halted /\ pc[c] = "wait" /\ cpu[c] \in Cpu
      /\ \A d \in Cores : pc'[d] = IF d = c THEN "try" ELSE pc[d]
      /\ \A d \in Cores : cpu'[d] = IF d = c THEN Wfe(cpu[c]) ELSE cpu[d]
  BY DEF Wait, Goto, SleepInv, LockInv, LTypeOK
<1>2. Signalling => Signalling'
  BY <1>1 DEF Signalling
<1>3. \A d \in Cores : Drowsy(d)' => Drowsy(d)
  BY <1>1 DEF Drowsy, Wfe, Cpu
<1>4. cpu'[c].halted <=> cpu'[c].waiting_for_event
  BY <1>1 DEF Wfe, Cpu, SleepInv
<1> QED BY <1>1, <1>2, <1>3, <1>4 DEF SleepInv

LEMMA SignalStep ==
    ASSUME SleepInv, LockInv', NEW c \in Cores, Signal(c)
    PROVE  SleepInv'
<1>1. /\ ~cpu[c].halted
      /\ \A d \in Cores : /\ pc'[d] = IF d = c THEN "idle" ELSE pc[d]
                          /\ cpu[d] \in Cpu
                          /\ cpu'[d] = IF d = c THEN cpu[d] ELSE SendEvent(cpu[d])
  BY DEF Signal, Goto, SleepInv, LockInv, LTypeOK
<1>2. ASSUME NEW d \in Cores
      PROVE  /\ ~cpu'[d].halted /\ ~cpu'[d].waiting_for_event
             /\ pc'[d] = "wait" => cpu'[d].event_pending
  <2>1. /\ cpu[d].halted <=> cpu[d].waiting_for_event
        /\ cpu[d].halted => pc[d] = "try"
    BY DEF SleepInv
  <2>2. CASE d = c
    BY <1>1, <2>1, <2>2
  <2>3. CASE d # c
    <3>1. cpu'[d] = SendEvent(cpu[d]) /\ cpu[d] \in Cpu /\ pc'[d] = pc[d]
      BY <1>1, <2>3
    <3>2. CASE cpu[d].waiting_for_event
      BY <2>1, <3>1, <3>2 DEF SendEvent, Cpu
    <3>3. CASE ~cpu[d].waiting_for_event
      BY <2>1, <3>1, <3>3 DEF SendEvent, Cpu
    <3> QED BY <3>2, <3>3
  <2> QED BY <2>2, <2>3
<1> QED BY <1>2 DEF SleepInv, Drowsy

LEMMA SleepStep == SleepInv /\ [LNext]_lock_vars => SleepInv'
<1> SUFFICES ASSUME SleepInv, [LNext]_lock_vars PROVE SleepInv'
  OBVIOUS
<1>1. LockInv'
  BY LockNext DEF SleepInv
<1>2. ASSUME NEW c \in Cores, Want(c) \/ Take(c) \/ Fail(c) \/ Free(c) \/ Other(c)
      PROVE  SleepInv'
  BY <1>1, <1>2, AwakeStep DEF Want, Take, Fail, Free, Other
<1>3. ASSUME NEW c \in Cores, Try(c)
      PROVE  SleepInv'
  <2>1. lock => Signalling
    BY DEF SleepInv, LockInv, MutualExclusion, Holders, Signalling
  <2> QED BY <1>1, <1>3, <2>1, AwakeStep DEF Try
<1>4. CASE Restart
  BY <1>1, <1>4 DEF Restart, SleepInv, Drowsy, ResetCpu
<1>5. CASE UNCHANGED lock_vars
  BY <1>1, <1>5 DEF lock_vars, SleepInv, Drowsy, Signalling
<1> QED BY <1>1, <1>2, <1>3, <1>4, <1>5, WaitStep, SignalStep DEF LNext

-----------------------------------------------------------------------------
(* The theorems. *)

(* The program and the monitors keep their types. *)
THEOREM SpinLockTypeOK == LSpec => []LTypeOK
<1>1. LockInv => LTypeOK
  BY DEF LockInv
<1> QED BY <1>1, AlwaysLockInv, PTL

(* A STREX succeeds exactly if its cell was not written since the LDREX, by *)
(* any core and in any of its words, whatever cells adjoin it.              *)
THEOREM SpinLockReservationIsExact == LSpec => []ReservationIsExact
<1>1. LockInv => ReservationIsExact
  BY HoldsIs DEF LockInv, ReservationIsExact
<1> QED BY <1>1, AlwaysLockInv, PTL

(* A lock built of LDREX and STREX is held by one core at most. *)
THEOREM SpinLockMutualExclusion == LSpec => []MutualExclusion
<1>1. LockInv => MutualExclusion
  BY DEF LockInv
<1> QED BY <1>1, AlwaysLockInv, PTL

(* No core sleeps on a lock that nobody has or is about to signal: an event *)
(* between a core's look at the lock and its WFE is not lost.               *)
THEOREM SpinLockNobodySleepsOnAFreeLock == LSpec => []NobodySleepsOnAFreeLock
<1>1. SleepInv => NobodySleepsOnAFreeLock
  BY DEF SleepInv, Drowsy, Signalling, NobodySleepsOnAFreeLock
<1> QED BY <1>1, InitSleep, SleepStep, PTL DEF LSpec

-----------------------------------------------------------------------------
(* The line of the ARM9. *)

LineInv == Arm9TypeOK /\ LineMeansInterrupt /\ SleepsOnLowLine

LEMMA ResetLine ==
    ResetCpu \in Cpu /\ ~ResetCpu.int_pending /\ ~ResetCpu.halted
BY DEF ResetCpu, Cpu, Modes

(* The operators of ArmCpu, on a processor that does not sleep on a high    *)
(* line.                                                                    *)
LEMMA LineOperators ==
    ASSUME NEW p \in Cpu, p.halted => ~p.int_pending, NEW b \in BOOLEAN
    PROVE  /\ SetIntSignal(p, b) \in Cpu
           /\ SetIntSignal(p, b).int_pending = b
           /\ SetIntSignal(p, b).halted => ~b
           /\ \A q \in {Cps(p, b), Halt(p), ReturnFromIrq(p), EndRun(p),
                        [p EXCEPT !.mode = "handler"]} :
                  /\ q \in Cpu /\ q.int_pending = p.int_pending
                  /\ q.halted => ~q.int_pending
<1>1. ASSUME NEW r \in Cpu
      PROVE  /\ IntCheck(r) \in Cpu /\ IntCheck(r).halted = r.halted
             /\ IntCheck(r).int_pending = r.int_pending
  BY DEF IntCheck, Cpu, Modes
<1>2. [p EXCEPT !.halted = FALSE] \in Cpu
  BY DEF Cpu
<1>3. /\ SetIntSignal(p, b) \in Cpu
      /\ SetIntSignal(p, b).int_pending = b
      /\ SetIntSignal(p, b).halted => ~b
  <2> DEFINE woken == IF ~p.int_pending /\ b
                      THEN IntCheck([p EXCEPT !.halted = FALSE]) ELSE p
  <2>1. woken \in Cpu /\ (woken.halted => ~b)
    BY <1>1, <1>2 DEF Cpu
  <2>2. SetIntSignal(p, b) = [woken EXCEPT !.int_pending = b]
    BY DEF SetIntSignal
  <2> HIDE DEF woken
  <2> QED BY <2>1, <2>2 DEF Cpu
<1>4. EndRun(p) \in Cpu /\ EndRun(p).int_pending = p.int_pending
      /\ EndRun(p).halted = p.halted
  BY <1>1 DEF EndRun
<1>5. Cps(p, b) \in Cpu /\ Cps(p, b).int_pending = p.int_pending
      /\ Cps(p, b).halted = p.halted
  BY DEF Cps, Cpu
<1>6. Halt(p) \in Cpu /\ Halt(p).int_pending = p.int_pending
      /\ (Halt(p).halted => ~p.int_pending)
  BY DEF Halt, Cpu
<1>7. ReturnFromIrq(p) \in Cpu /\ ReturnFromIrq(p).int_pending = p.int_pending
      /\ ReturnFromIrq(p).halted = p.halted
  BY DEF ReturnFromIrq, Cpu, Modes
<1>8. LET q == [p EXCEPT !.mode = "handler"]
      IN  q \in Cpu /\ q.int_pending = p.int_pending /\ q.halted = p.halted
  BY DEF Cpu, Modes
<1> QED BY <1>3, <1>4, <1>5, <1>6, <1>7, <1>8

(* A method that ends with the line. *)
LEMMA SignalKeeps ==
    ASSUME LineInv, IE' \in SUBSET Irqs, IF_' \in SUBSET Irqs, SignalLine
    PROVE  LineInv' /\ (IE' \intersect IF_' # {} => ~arm9'.halted)
BY LineOperators DEF LineInv, Arm9TypeOK, LineMeansInterrupt, SleepsOnLowLine, SignalLine

LEMMA InstructionKeeps ==
    ASSUME LineInv, NEW arm \in Cpu, NEW mode, Instruction(mode, arm),
           arm.int_pending = arm9.int_pending, arm.halted => ~arm.int_pending
    PROVE  LineInv'
BY DEF LineInv, Arm9TypeOK, LineMeansInterrupt, SleepsOnLowLine, Instruction

LEMMA Arm9ProgramStep ==
    ASSUME LineInv, Program \/ FinishRun
    PROVE  LineInv'
<1> USE DEF LineInv, Arm9TypeOK, SleepsOnLowLine
<1>1. CASE DisableIrq
  BY <1>1, InstructionKeeps, LineOperators DEF DisableIrq
<1>2. CASE EnableIrq
  BY <1>2, InstructionKeeps, LineOperators DEF EnableIrq
<1>3. CASE WaitForInterrupt
  BY <1>3, InstructionKeeps, LineOperators DEF WaitForInterrupt
<1>4. CASE EnterHandler
  BY <1>4, InstructionKeeps, LineOperators DEF EnterHandler
<1>5. CASE Return
  BY <1>5, InstructionKeeps, LineOperators DEF Return
<1>6. CASE FinishRun
  BY <1>6, InstructionKeeps, LineOperators DEF FinishRun
<1> QED BY <1>1, <1>2, <1>3, <1>4, <1>5, <1>6 DEF Program

LEMMA Arm9RegisterStep ==
    ASSUME LineInv,
           \/ \E id \in Irqs : assert_irq(id)
           \/ \E value \in SUBSET Irqs : write_ie(value) \/ write_if(value)
    PROVE  LineInv' /\ (IE' \intersect IF_' # {} => ~arm9'.halted)
<1>1. IE' \in SUBSET Irqs /\ IF_' \in SUBSET Irqs /\ SignalLine
  BY DEF LineInv, Arm9TypeOK, assert_irq, write_ie, write_if
<1> QED BY <1>1, SignalKeeps

LEMMA InitLine == Arm9Init => LineInv
BY ResetLine DEF Arm9Init, LineInv, Arm9TypeOK, LineMeansInterrupt, SleepsOnLowLine

LEMMA LineNext == LineInv /\ [Arm9Next]_arm9Vars => LineInv'
<1>1. ASSUME LineInv, UNCHANGED arm9Vars
      PROVE  LineInv'
  BY <1>1 DEF arm9Vars, LineInv, Arm9TypeOK, LineMeansInterrupt, SleepsOnLowLine
<1>2. ASSUME LineInv, Arm9Reset
      PROVE  LineInv'
  BY <1>2, ResetLine DEF Arm9Reset, LineInv, Arm9TypeOK, LineMeansInterrupt, SleepsOnLowLine
<1> QED BY <1>1, <1>2, Arm9ProgramStep, Arm9RegisterStep DEF Arm9Next

LEMMA AlwaysLineInv == Arm9Spec => []LineInv
BY InitLine, LineNext, PTL DEF Arm9Spec

-----------------------------------------------------------------------------
(* The theorems about the ARM9. *)

(* The line is high only for an interrupt that is enabled and asserted.     *)
THEOREM Interrupt9LineMeansInterrupt == Arm9Spec => []LineMeansInterrupt
<1>1. LineInv => LineMeansInterrupt
  BY DEF LineInv
<1> QED BY <1>1, AlwaysLineInv, PTL

(* The ARM9 does not sleep on a high line. *)
THEOREM Interrupt9SleepsOnLowLine == Arm9Spec => []SleepsOnLowLine
<1>1. LineInv => SleepsOnLowLine
  BY DEF LineInv
<1> QED BY <1>1, AlwaysLineInv, PTL

(* No interrupt is asserted to a sleeping ARM9 without waking it, also when *)
(* the program masked or enabled it by IE before.                           *)
THEOREM Interrupt9AssertionWakes == Arm9Spec => AssertionWakes
<1> DEFINE Wakes == IF_' # IF_ /\ IE \intersect IF_' # {} => ~arm9'.halted
<1>1. ASSUME LineInv, Program \/ FinishRun \/ Arm9Reset \/ UNCHANGED arm9Vars
      PROVE  IF_' = IF_
  BY <1>1 DEF Program, FinishRun, DisableIrq, EnableIrq, WaitForInterrupt, EnterHandler,
              Return, Instruction, Arm9Reset, arm9Vars
<1>2. ASSUME LineInv, NEW id \in Irqs, assert_irq(id)
      PROVE  Wakes
  BY <1>2, Arm9RegisterStep DEF assert_irq
<1>3. ASSUME LineInv, NEW value \in SUBSET Irqs, write_ie(value) \/ write_if(value)
      PROVE  Wakes
  BY <1>3, Arm9RegisterStep DEF write_ie, write_if
<1>4. LineInv /\ [Arm9Next]_arm9Vars => [Wakes]_arm9Vars
  BY <1>1, <1>2, <1>3 DEF Arm9Next
<1> QED BY <1>4, AlwaysLineInv, PTL DEF Arm9Spec, AssertionWakes
=============================================================================
