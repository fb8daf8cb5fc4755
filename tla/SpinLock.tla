------------------------------ MODULE SpinLock ------------------------------
(***************************************************************************)
(* A lock that the cores take with the exclusive monitors (Exclusives) and *)
(* wait for with the events of ArmCpu: the way the programs of the ARM11   *)
(* use both.  The program is not part of the emulator; what is checked is  *)
(* that the emulator's instructions suffice for it.                        *)
(*                                                                         *)
(*   try:   LDREX the lock; if it is taken, WFE and try again              *)
(*          STREX; if it failed, try again                                 *)
(*   free:  STR 0 to the lock; SEV                                         *)
(*                                                                         *)
(* While it does not want the lock, a core accesses the cells next to it   *)
(* in any way.  There are no interrupts: one that came between a core's    *)
(* WFE and the event would leave waiting_for_event set, and the core would *)
(* miss the event after the next WFE.                                      *)
(***************************************************************************)
EXTENDS Exclusives, ArmCpu

VARIABLES
    cpu,   \* The processors.
    pc,    \* Where their programs are.
    lock   \* Is the lock taken?

lock_vars == <<vars, cpu, pc, lock>>

(* The lock is the word among the cells. *)
TheLock == CHOOSE x \in Cells : x.size = 4

ASSUME LockAssumption == \E x \in Cells : x.size = 4

LInit ==
    /\ Init
    /\ cpu = [c \in Cores |-> ResetCpu]
    /\ pc = [c \in Cores |-> "idle"]
    /\ lock = FALSE

(* A core that is not halted executes an instruction and goes on. *)
Goto(c, from, to) ==
    /\ ~cpu[c].halted
    /\ pc[c] = from
    /\ pc' = [pc EXCEPT ![c] = to]

Want(c) ==
    /\ Goto(c, "idle", "try")
    /\ UNCHANGED <<vars, cpu, lock>>

Try(c) ==
    /\ Goto(c, "try", IF lock THEN "wait" ELSE "take")
    /\ LoadExclusive(c, TheLock)
    /\ UNCHANGED <<cpu, lock>>

Wait(c) ==
    /\ Goto(c, "wait", "try")
    /\ cpu' = [cpu EXCEPT ![c] = Wfe(@)]
    /\ UNCHANGED <<vars, lock>>

Take(c) ==
    /\ Goto(c, "take", "critical")
    /\ StoreExclusive(c, TheLock)
    /\ lock' = TRUE
    /\ UNCHANGED cpu

Fail(c) ==
    /\ Goto(c, "take", "try")
    /\ StoreExclusiveFails(c, TheLock)
    /\ UNCHANGED <<cpu, lock>>

Free(c) ==
    /\ Goto(c, "critical", "signal")
    /\ Store(c, TheLock, Words(TheLock))
    /\ lock' = FALSE
    /\ UNCHANGED cpu

Signal(c) ==
    /\ Goto(c, "signal", "idle")
    /\ cpu' = [d \in Cores |-> IF d = c THEN cpu[d] ELSE SendEvent(cpu[d])]
    /\ UNCHANGED <<vars, lock>>

(* Code that has nothing to do with the lock. *)
Other(c) ==
    /\ Goto(c, "idle", "idle")
    /\ \/ ClearExclusive(c)
       \/ \E x \in Cells \ {TheLock} :
              \/ LoadExclusive(c, x)
              \/ StoreExclusive(c, x)
              \/ StoreExclusiveFails(c, x)
              \/ \E addrs \in (SUBSET Words(x)) \ {{}} : Store(c, x, addrs)
    /\ UNCHANGED <<cpu, lock>>

(* Emulator::reset; the program starts again, and frees its lock. *)
Restart ==
    /\ Reset
    /\ cpu' = [c \in Cores |-> ResetCpu]
    /\ pc' = [c \in Cores |-> "idle"]
    /\ lock' = FALSE

LNext ==
    \/ \E c \in Cores :
           \/ Want(c) \/ Try(c) \/ Wait(c) \/ Take(c) \/ Fail(c) \/ Free(c) \/ Signal(c)
           \/ Other(c)
    \/ Restart

(* The cores run in turn; one that has the lock frees it. *)
Runs(c) == Try(c) \/ Wait(c) \/ Take(c) \/ Fail(c) \/ Free(c) \/ Signal(c)

LSpec == LInit /\ [][LNext]_lock_vars /\ \A c \in Cores : WF_lock_vars(Runs(c))

-----------------------------------------------------------------------------

Places == {"idle", "try", "wait", "take", "critical", "signal"}

LTypeOK ==
    /\ TypeOK
    /\ cpu \in [Cores -> Cpu]
    /\ pc \in [Cores -> Places]
    /\ lock \in BOOLEAN

(* The lock is held by one core at most, and by one if it is taken. *)
Holders == {c \in Cores : pc[c] = "critical"}
MutualExclusion ==
    /\ \A c, d \in Holders : c = d
    /\ lock <=> Holders # {}

(* No core sleeps on a lock that nobody has or is about to signal: the      *)
(* event of a core between its look at the lock and its WFE is kept.        *)
NobodySleepsOnAFreeLock ==
    \A c \in Cores : cpu[c].halted =>
        \E d \in Cores : pc[d] \in {"critical", "signal"}

(* The lock is taken again and again as long as some core wants it: failing *)
(* stores are the consequence of another's success.                         *)
LockIsTaken ==
    (\E c \in Cores : pc[c] \in {"try", "wait", "take"})
        ~> (lock \/ pc = [c \in Cores |-> "idle"])
=============================================================================
