----------------------------- MODULE Processors -----------------------------
(***************************************************************************)
(* The processors and their address translation, each of which is observed  *)
(* on its own: focus says which of them runs.                               *)
(***************************************************************************)
EXTENDS ArmPrograms, ArmBanks, Mmu, Pu

CONSTANTS
    NumWindows, FirstNmi, MaxIrqs, SomeWords,
    WordBits, MmioBase, Commands

VARIABLES focus,
    core, task, taken,
    dsp, program, irqs_raised, host

X == INSTANCE XtensaPrograms
D == INSTANCE TeakPrograms

xtensaVars == <<core, task, taken>>
dspVars == <<dsp, program, irqs_raised, host>>
processorVars == <<focus, armVars, vars, mmuVars, puVars, xtensaVars, dspVars>>

-----------------------------------------------------------------------------

Machines == {"arm", "banks", "mmu", "pu", "xtensa", "dsp"}
AnyOf(S) == CHOOSE x \in S : TRUE

Off == <<>>

(* Of a machine that does not run there is one state, or none.              *)
ProcessorsInit ==
    /\ focus \in Machines
    /\ IF focus = "arm" THEN \E j \in Jobs : ArmInit(j)
       ELSE arm = Off /\ job = Off /\ raised = 0
    /\ IF focus = "xtensa" THEN \E t \in X!AllTasks : X!XtensaInit(t)
       ELSE core = Off /\ task = Off /\ taken = Off
    /\ IF focus = "dsp" THEN \E p \in D!AllPrograms : D!TeakInit(p)
       ELSE dsp = Off /\ program = Off /\ irqs_raised = Off /\ host = Off
    /\ Init /\ (focus = "banks" \/ regs.gpr[LR] = AnyOf(Values))
    /\ MmuInit /\ (focus = "mmu" \/ l1_table_base[0] = AnyOf(L1Tables))
    /\ PuInit

ProcessorsNext ==
    /\ UNCHANGED focus
    /\ \/ focus = "arm" /\ ArmNext /\ UNCHANGED <<vars, mmuVars, puVars, xtensaVars, dspVars>>
       \/ focus = "banks" /\ Next /\ UNCHANGED <<armVars, mmuVars, puVars, xtensaVars, dspVars>>
       \/ focus = "mmu" /\ MmuNext /\ UNCHANGED <<armVars, vars, puVars, xtensaVars, dspVars>>
       \/ focus = "pu" /\ PuNext /\ UNCHANGED <<armVars, vars, mmuVars, xtensaVars, dspVars>>
       \/ focus = "xtensa" /\ X!XtensaNext /\ UNCHANGED <<armVars, vars, mmuVars, puVars, dspVars>>
       \/ focus = "dsp" /\ D!TeakNext /\ UNCHANGED <<armVars, vars, mmuVars, puVars, xtensaVars>>

ArmRuns == IF focus = "arm" THEN ~AtHalt ELSE FALSE
XtensaRuns == IF focus = "xtensa" THEN ~X!TaskEnded ELSE FALSE
DspRuns == IF focus = "dsp" THEN dsp.died \/ D!CanRun ELSE FALSE
Asleep == IF XtensaRuns THEN core.halted ELSE FALSE

CanMove == IF ArmRuns THEN ~arm.died /\ RunInstr(arm) # arm ELSE FALSE

(* The emulator's loop gives each core its slices: a core that is not at    *)
(* the end of its program and whose next instruction does anything runs it  *)
(* (the weak fairness of Step, XtensaStep and TeakStep, with what enables   *)
(* them).                                                                   *)
Fairness ==
    /\ <>[]CanMove => []<><<Step>>_arm
    /\ <>[](XtensaRuns /\ ~Asleep /\ ~core.died) => []<><<X!XtensaStep>>_core
    /\ <>[](DspRuns /\ ~dsp.died) => []<><<D!TeakStep>>_dsp

ProcessorsSpec == ProcessorsInit /\ [][ProcessorsNext]_processorVars /\ Fairness

-----------------------------------------------------------------------------

(* The ARM cores: see ProgramsComputeTheirFunction.                         *)
ArmProgramsAreRight == focus = "arm" => ProgramsComputeTheirFunction

(* The Wi-Fi core: see TasksComputeTheirFunction.                           *)
XtensaProgramsAreRight == focus = "xtensa" => X!TasksComputeTheirFunction

(* The DSP: see ProgramsComputeTheirFunction of its programs.               *)
DspProgramsAreRight == focus = "dsp" => D!ProgramsComputeTheirFunction

(* Every program reaches its end, however often it is interrupted and       *)
(* whichever pages its accesses and its code miss: no handler, restarted    *)
(* instruction, loop or return address leads it round and round.  A task of *)
(* the Wi-Fi core that waits for an interrupt may wait forever, as may a     *)
(* program of the DSP.                                                      *)
ProgramsEnd ==
    /\ []<>~ArmRuns
    /\ []<>(~XtensaRuns \/ Asleep)
    /\ []<>~DspRuns
=============================================================================
