----------------------------- MODULE EmuThread -----------------------------
(***************************************************************************)
(* The hand-over between the UI thread and the emulator thread             *)
(* (qt/emuthread.cpp, qt/emuwindow.cpp).  The emulator thread runs a frame *)
(* for each frame settings the UI passes, and posts frame_complete or      *)
(* emu_error to the UI's event queue.  The UI draws and passes the next    *)
(* settings, or enables its boot menu; a boot loads and resets the         *)
(* emulator in the UI thread and starts the emulator thread.  The two      *)
(* share the emulator and the flags quit and has_frame_settings, without a *)
(* lock: each access is a step.                                            *)
(***************************************************************************)
EXTENDS Naturals, Sequences

VARIABLES
    quit,                \* EmuThread::quit, a plain bool.
    has_frame_settings,  \* EmuThread::has_frame_settings, atomic.
    emu,                 \* Where the emulator thread is, see EmuPlaces.
    ui,                  \* Where the UI thread is, see UiPlaces.
    signals,             \* Queued signals to the UI thread.
    boot_enabled,        \* Are the boot entries of the menu enabled?
    home_button,         \* frame_settings: the HOME key is held,
    old_home_button,     \* and was, when settings were last passed.
    mcu_home             \* The last HOME interrupt of the MCU since the boot
                         \* was "pressed"; a reboot of the guest keeps it.

homeVars == <<home_button, old_home_button, mcu_home>>
threadVars == <<quit, has_frame_settings, emu, ui, signals, boot_enabled, homeVars>>

(* run(): at the test of quit, spinning, about to clear the flag, in        *)
(* Emulator::run, about to post frame_complete or emu_error, about to set   *)
(* quit, out of run() but not yet finished, finished.                       *)
EmuPlaces == {"test", "wait", "take", "frame", "emit", "report", "stop",
              "leave", "finished"}

(* In the event loop; in frame_complete; in boot_emulator loading, about to *)
(* set quit and has_frame_settings; passing the first settings; about to    *)
(* start the thread.                                                        *)
UiPlaces == {"events", "draw", "load", "arm", "clear", "pass", "start"}

Signals == {"frame_complete", "emu_error"}

ThreadInit ==
    /\ quit = TRUE
    /\ has_frame_settings = FALSE
    /\ emu = "finished"
    /\ ui = "events"
    /\ signals = <<>>
    /\ boot_enabled = TRUE
    /\ home_button = FALSE
    /\ old_home_button = FALSE
    /\ mcu_home = FALSE

-----------------------------------------------------------------------------
(* The emulator thread: EmuThread::run. *)

TestQuit ==
    /\ emu = "test"
    /\ emu' = IF quit THEN "leave" ELSE "wait"
    /\ UNCHANGED <<quit, has_frame_settings, ui, signals, boot_enabled, homeVars>>

(* while (!has_frame_settings); *)
EndWait ==
    /\ emu = "wait"
    /\ has_frame_settings
    /\ emu' = "take"
    /\ UNCHANGED <<quit, has_frame_settings, ui, signals, boot_enabled, homeVars>>

(* Mutant of TakeSettings: the flag is not cleared. *)
TakeSettings_KeepsFlag ==
    /\ emu = "take"
    /\ emu' = "frame"
    /\ UNCHANGED <<quit, has_frame_settings, ui, signals, boot_enabled, homeVars>>

TakeSettings ==
    /\ emu = "take"
    /\ has_frame_settings' = FALSE
    /\ emu' = "frame"
    /\ UNCHANGED <<quit, ui, signals, boot_enabled, homeVars>>

(* e.run() returns, or throws RebootException and the thread resets e. *)
FrameEnds ==
    /\ emu = "frame"
    /\ emu' = "emit"
    /\ UNCHANGED <<quit, has_frame_settings, ui, signals, boot_enabled, homeVars>>

EmitFrameComplete ==
    /\ emu = "emit"
    /\ signals' = Append(signals, "frame_complete")
    /\ emu' = "test"
    /\ UNCHANGED <<quit, has_frame_settings, ui, boot_enabled, homeVars>>

(* e.run() throws FatalError. *)
FrameFails ==
    /\ emu = "frame"
    /\ emu' = "report"
    /\ UNCHANGED <<quit, has_frame_settings, ui, signals, boot_enabled, homeVars>>

(* The state of e is printed and the error posted, before quit is set. *)
EmitError ==
    /\ emu = "report"
    /\ signals' = Append(signals, "emu_error")
    /\ emu' = "stop"
    /\ UNCHANGED <<quit, has_frame_settings, ui, boot_enabled, homeVars>>

SetQuit ==
    /\ emu = "stop"
    /\ quit' = TRUE
    /\ emu' = "leave"
    /\ UNCHANGED <<has_frame_settings, ui, signals, boot_enabled, homeVars>>

(* run() returned: the thread is finished once QThread says so. *)
Finish ==
    /\ emu = "leave"
    /\ emu' = "finished"
    /\ UNCHANGED <<quit, has_frame_settings, ui, signals, boot_enabled, homeVars>>

EmuStep ==
    \/ TestQuit \/ EndWait \/ TakeSettings \/ FrameEnds \/ EmitFrameComplete
    \/ FrameFails \/ EmitError \/ SetQuit \/ Finish

-----------------------------------------------------------------------------
(* The UI thread: EmuWindow, and the slots of EmuThread it calls. *)

(* frame_complete begins: the screens are drawn from e's buffers. *)
FrameComplete ==
    /\ ui = "events"
    /\ signals # <<>> /\ Head(signals) = "frame_complete"
    /\ signals' = Tail(signals)
    /\ ui' = "draw"
    /\ UNCHANGED <<quit, has_frame_settings, emu, boot_enabled, homeVars>>

(* Mutant of PassFrameSettings: the flag is forgotten. *)
PassFrameSettings_NoFlag ==
    /\ old_home_button' = home_button
    /\ mcu_home' = IF home_button # old_home_button THEN home_button ELSE mcu_home
    /\ UNCHANGED <<has_frame_settings, home_button>>

(* pass_frame_settings: pad, touch screen and buttons are given to e, the   *)
(* HOME button when it changed; then the flag is set.                       *)
PassFrameSettings ==
    /\ old_home_button' = home_button
    /\ mcu_home' = IF home_button # old_home_button THEN home_button ELSE mcu_home
    /\ has_frame_settings' = TRUE
    /\ UNCHANGED home_button

(* frame_complete ends with it. *)
PassNextSettings ==
    /\ ui = "draw"
    /\ PassFrameSettings
    /\ ui' = "events"
    /\ UNCHANGED <<quit, emu, signals, boot_enabled>>

(* keyPressEvent, keyReleaseEvent: the UI's own copy changes. *)
HomeKey ==
    /\ ui = "events"
    /\ home_button' = ~home_button
    /\ UNCHANGED <<quit, has_frame_settings, emu, ui, signals, boot_enabled,
                   old_home_button, mcu_home>>

DisplayEmuError ==
    /\ ui = "events"
    /\ signals # <<>> /\ Head(signals) = "emu_error"
    /\ signals' = Tail(signals)
    /\ boot_enabled' = TRUE
    /\ UNCHANGED <<quit, has_frame_settings, emu, ui, homeVars>>

(* Mutant of UserBoots: the entries of the menu are never disabled. *)
UserBoots_AnyTime ==
    /\ ui = "events"
    /\ quit' = TRUE
    /\ ui' = "load"
    /\ UNCHANGED <<has_frame_settings, emu, signals, boot_enabled, homeVars>>

(* The user picks a boot entry: boot_emulator begins. *)
UserBoots ==
    /\ ui = "events"
    /\ boot_enabled
    /\ quit' = TRUE
    /\ ui' = "load"
    /\ UNCHANGED <<has_frame_settings, emu, signals, boot_enabled, homeVars>>

(* A file is missing or is not what it should be: boot_error. *)
LoadFails ==
    /\ ui = "load"
    /\ boot_enabled' = TRUE
    /\ ui' = "events"
    /\ UNCHANGED <<quit, has_frame_settings, emu, signals, homeVars>>

(* Everything is loaded, and e.reset() returns. *)
LoadSucceeds ==
    /\ ui = "load"
    /\ mcu_home' = FALSE
    /\ ui' = "arm"
    /\ UNCHANGED <<quit, has_frame_settings, emu, signals, boot_enabled,
                   home_button, old_home_button>>

ClearQuit ==
    /\ ui = "arm"
    /\ quit' = FALSE
    /\ ui' = "clear"
    /\ UNCHANGED <<has_frame_settings, emu, signals, boot_enabled, homeVars>>

(* Mutant of ClearSettings: the buttons survive the boot. *)
ClearSettings_KeepsButtons ==
    /\ ui = "clear"
    /\ has_frame_settings' = FALSE
    /\ boot_enabled' = FALSE
    /\ ui' = "pass"
    /\ UNCHANGED <<quit, emu, signals, homeVars>>

(* boot_emulator returns true; the window disables its boot entries and     *)
(* forgets the buttons.                                                     *)
ClearSettings ==
    /\ ui = "clear"
    /\ has_frame_settings' = FALSE
    /\ boot_enabled' = FALSE
    /\ home_button' = FALSE
    /\ old_home_button' = FALSE
    /\ ui' = "pass"
    /\ UNCHANGED <<quit, emu, signals, mcu_home>>

PassFirstSettings ==
    /\ ui = "pass"
    /\ PassFrameSettings
    /\ ui' = "start"
    /\ UNCHANGED <<quit, emu, signals, boot_enabled>>

(* QThread::start does nothing when the thread is still running. *)
Start ==
    /\ ui = "start"
    /\ emu' = IF emu = "finished" THEN "test" ELSE emu
    /\ ui' = "events"
    /\ UNCHANGED <<quit, has_frame_settings, signals, boot_enabled, homeVars>>

UiStep ==
    \/ FrameComplete \/ PassNextSettings \/ DisplayEmuError
    \/ LoadFails \/ LoadSucceeds \/ ClearQuit \/ ClearSettings
    \/ PassFirstSettings \/ Start

ThreadNext == EmuStep \/ UiStep \/ UserBoots \/ HomeKey

(* Both threads are scheduled by the host, and a frame ends: FramesEnd of   *)
(* Emulator.  The user need not boot.                                       *)
ThreadSpec ==
    /\ ThreadInit /\ [][ThreadNext]_threadVars
    /\ WF_threadVars(EmuStep) /\ WF_threadVars(UiStep)

-----------------------------------------------------------------------------

ThreadTypeOK ==
    /\ quit \in BOOLEAN
    /\ has_frame_settings \in BOOLEAN
    /\ emu \in EmuPlaces
    /\ ui \in UiPlaces
    /\ signals \in Seq(Signals)
    /\ boot_enabled \in BOOLEAN
    /\ <<home_button, old_home_button, mcu_home>> \in BOOLEAN \X BOOLEAN \X BOOLEAN

(* The threads never use the emulator at the same time: while one runs a    *)
(* frame, resets after a reboot, prints the state or reads the frame        *)
(* buffers' addresses, the other does not load, reset, draw or set the pad. *)
EmulatorIsNotShared ==
    ~(emu \in {"frame", "emit", "report"} /\ ui \in {"load", "draw", "pass"})

(* There is one frame in flight: at most one of unread settings, a running  *)
(* frame and an unanswered signal.                                          *)
OneFrameInFlight ==
    LET tokens == <<has_frame_settings /\ emu # "take",
                    emu \in {"take", "frame", "emit", "report"},
                    signals # <<>>, ui = "draw">>
    IN  /\ \A i, j \in 1..4 : tokens[i] /\ tokens[j] => i = j
        /\ Len(signals) <= 1

(* The edge detection on the UI's side never disagrees with what the MCU    *)
(* was told, so that HOME interrupts alternate between pressed and released *)
(* from a boot on, whatever the user does between two frames.               *)
HomeInterruptsAlternate ==
    ui \notin {"arm", "clear"} => mcu_home = old_home_button

(* An emulator thread that waits for settings gets them. *)
WaitEnds == emu = "wait" ~> emu = "frame"

(* A boot that succeeds starts emulation. *)
BootStartsEmulation == ui = "start" ~> emu = "frame"
=============================================================================
