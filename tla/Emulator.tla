------------------------------ MODULE Emulator ------------------------------
(***************************************************************************)
(* Emulator::run (core/emulator.cpp): the emulator thread runs one frame   *)
(* at a time on the event scheduler.  A frame adds the two events of its   *)
(* vertical blank and repeats slices until the second is called: its       *)
(* callback sets the local frame_ended of the call of run() that added it, *)
(* through a captured reference.  Any device may end the call early with   *)
(* an exception: FatalError stops the thread until the user boots again,   *)
(* RebootException, thrown by the transfer event of the MCU, resets the    *)
(* machine and goes on with the next frame.                                *)
(***************************************************************************)
EXTENDS Scheduler

CONSTANTS
    FrameStart,  \* The requests of run(): 4,000,000 and
    FrameEnd     \* 4,400,000 cycles at ARM11_CLOCKRATE.

ASSUME FrameAssumption ==
    /\ {FrameStart, FrameEnd} \subseteq IdleRequests
    /\ FrameStart.kind = "vblank_start"
    /\ FrameEnd.kind = "vblank_end"
    /\ Ticks(FrameStart) < Ticks(FrameEnd)
    /\ \A request \in Requests \ {FrameStart, FrameEnd} :
           request.kind \in Kinds \ {"vblank_start", "vblank_end"}
    /\ {FrameStart, FrameEnd} \intersect (SliceRequests \union CallbackRequests) = {}

VARIABLES
    thread,       \* Between two frames, entering run(), running, or stopped.
    frame_ended,  \* The local of run().
    end_event,    \* The event that captured frame_ended; None outside run().
    vblank        \* Was GPU interrupt 0x2A raised in this frame?

frameVars == <<thread, frame_ended, end_event, vblank>>
emuVars == <<vars, frameVars>>

None == -1

EInit ==
    /\ Init
    /\ thread = "between"
    /\ frame_ended = FALSE
    /\ end_event = None
    /\ vblank = FALSE

(* run() begins: the event of VBLANK start. *)
RunBegins ==
    /\ thread = "between"
    /\ phase = "idle"
    /\ next_id + 2 <= MaxEvents
    /\ quantum + Ticks(FrameEnd) <= MaxTime
    /\ AddEvent(FrameStart)
    /\ thread' = "entering"
    /\ frame_ended' = FALSE
    /\ vblank' = FALSE
    /\ UNCHANGED end_event

(* The event of VBLANK end captures frame_ended. *)
RunArmsFrameEnd ==
    /\ thread = "entering"
    /\ phase = "idle"
    /\ AddEvent(FrameEnd)
    /\ end_event' = next_id
    /\ thread' = "running"
    /\ UNCHANGED <<frame_ended, vblank>>

(* pass_frame_settings: the power button asks for an interrupt of the MCU.  *)
PowerButton ==
    /\ thread = "between"
    /\ phase = "idle"
    /\ \E request \in IdleRequests \ {FrameStart, FrameEnd} : AddEvent(request)
    /\ UNCHANGED frameVars

(* The loop of run(): one slice, while the frame has not ended. *)
SliceBegins ==
    /\ thread = "running"
    /\ ~frame_ended
    /\ CalculateCycles
    /\ UNCHANGED frameVars

DeviceAddsEvent ==
    /\ thread = "running"
    /\ AddInSlice \/ AddInCallback
    /\ UNCHANGED frameVars

ClockAdvances ==
    /\ thread = "running"
    /\ ProcessEvents \/ Scan \/ SetClockrate11
    /\ UNCHANGED frameVars

(* The event whose callback runs. *)
Called == {e \in events : e.id = it}

(* Mutant of CallbackReturns: every callback ends the frame. *)
CallbackReturns_OnAny ==
    /\ thread = "running"
    /\ Erase
    /\ vblank' = (vblank \/ \E e \in Called : e.kind = "vblank_start")
    /\ frame_ended' = TRUE
    /\ UNCHANGED <<thread, end_event>>

(* A callback returns.  That of VBLANK start raised interrupt 0x2A, that of *)
(* VBLANK end stored TRUE through its reference.                            *)
CallbackReturns ==
    /\ thread = "running"
    /\ Erase
    /\ vblank' = (vblank \/ \E e \in Called : e.kind = "vblank_start")
    /\ frame_ended' = (frame_ended \/ \E e \in Called : e.kind = "vblank_end")
    /\ UNCHANGED <<thread, end_event>>

(* run() returns, its local is gone; the thread asks for the next frame. *)
RunReturns ==
    /\ thread = "running"
    /\ phase = "idle"
    /\ frame_ended
    /\ thread' = "between"
    /\ end_event' = None
    /\ UNCHANGED <<vars, frame_ended, vblank>>

(* EmuException::die anywhere in a slice or a callback: run() is left, with *)
(* the scheduler as it is.                                                  *)
FatalError ==
    /\ thread = "running"
    /\ phase \in {"slice", "callback"}
    /\ thread' = "stopped"
    /\ end_event' = None
    /\ UNCHANGED <<vars, frame_ended, vblank>>

(* Mutant of Reboot: the thread goes on without resetting the machine. *)
Reboot_WithoutReset ==
    /\ thread = "running"
    /\ phase = "callback"
    /\ \E e \in Called : e.kind \notin {"vblank_start", "vblank_end"}
    /\ phase' = "idle"
    /\ thread' = "between"
    /\ end_event' = None
    /\ UNCHANGED <<events, next_id, closest, quantum, quantum_cycles, rate11,
                   to_run, it, new_time, frame_ended, vblank>>

(* EmuException::reboot in the callback of a device: the thread resets the  *)
(* machine and asks for the next frame.                                     *)
Reboot ==
    /\ thread = "running"
    /\ phase = "callback"
    /\ \E e \in Called : e.kind \notin {"vblank_start", "vblank_end"}
    /\ Reset
    /\ thread' = "between"
    /\ end_event' = None
    /\ UNCHANGED <<frame_ended, vblank>>

(* boot_emulator resets the machine: after an error, or when the user ran   *)
(* the program again.                                                       *)
Boot ==
    /\ thread \in {"between", "stopped"}
    /\ Reset
    /\ thread' = "between"
    /\ UNCHANGED <<frame_ended, end_event, vblank>>

ENext ==
    \/ RunBegins
    \/ RunArmsFrameEnd
    \/ PowerButton
    \/ SliceBegins
    \/ DeviceAddsEvent
    \/ ClockAdvances
    \/ CallbackReturns
    \/ RunReturns
    \/ FatalError
    \/ Reboot
    \/ Boot

(* The thread runs; what the devices and the user do is up to them. *)
EFairness ==
    /\ WF_emuVars(RunArmsFrameEnd \/ SliceBegins \/ CallbackReturns \/ RunReturns)
    /\ WF_emuVars(thread = "running" /\ (ProcessEvents \/ Scan) /\ UNCHANGED frameVars)

ESpec == EInit /\ [][ENext]_emuVars /\ EFairness

-----------------------------------------------------------------------------

ETypeOK ==
    /\ TypeOK
    /\ thread \in {"between", "entering", "running", "stopped"}
    /\ frame_ended \in BOOLEAN
    /\ end_event \in Nat \union {None}
    /\ vblank \in BOOLEAN

(* A callback never stores through a reference to the frame_ended of a call *)
(* of run() that returned or was left by an exception: the VBLANK end that  *)
(* is called is the one that the running call added.                        *)
NoDanglingCapture ==
    phase = "callback" /\ thread = "running" =>
        \A e \in Called : e.kind = "vblank_end" => e.id = end_event

(* Between two frames the list holds no event of a frame. *)
FrameLeavesNothing ==
    thread = "between" =>
        \A e \in events : e.kind \notin {"vblank_start", "vblank_end"}

(* A frame does not end before its VBLANK interrupt, on which the frame is  *)
(* drawn, whatever else the scheduler does meanwhile.                       *)
VblankBeforeFrameEnd == thread = "running" /\ frame_ended => vblank

(* Every step of the thread is a step the scheduler allows, or leaves it    *)
(* alone: the theorems about the scheduler hold of the emulator.            *)
ImplementsScheduler == Init /\ [][Next]_vars

(* A call of run() ends: with the frame, or with an exception. *)
FramesEnd == thread = "running" ~> thread # "running"
=============================================================================
