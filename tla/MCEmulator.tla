---------------------------- MODULE MCEmulator -----------------------------
(***************************************************************************)
(* An instance of Emulator for TLC: a frame of 15 ticks, slices of at most *)
(* 8, and devices whose delays are shorter and longer than a slice.        *)
(***************************************************************************)
EXTENDS Emulator

MCRates11 == {20, 40}
MCKinds == {"vblank_start", "vblank_end", "device"}
MCFrameStart == [cycles |-> 4, clockrate |-> 20, kind |-> "vblank_start"]
MCFrameEnd == [cycles |-> 5, clockrate |-> 20, kind |-> "vblank_end"]
MCIdle == {MCFrameStart, MCFrameEnd,
           [cycles |-> 3, clockrate |-> 20, kind |-> "device"]}

(* In the scale of a slice of 8 ticks for 256: the 6 ticks of an NDMA       *)
(* request are less than one, the 96 of a change of the clock rate are 3.   *)
MCSlice == {[cycles |-> 0, clockrate |-> 20, kind |-> "device"],
            [cycles |-> 1, clockrate |-> 20, kind |-> "device"],
            [cycles |-> 4, clockrate |-> 20, kind |-> "device"]}

MCCallback == {[cycles |-> 0, clockrate |-> 20, kind |-> "device"],
               [cycles |-> 2, clockrate |-> 20, kind |-> "device"]}
=============================================================================
