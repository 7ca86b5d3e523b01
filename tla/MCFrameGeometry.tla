---------------------------- MODULE MCFrameGeometry ----------------------------
(* An instance of FrameGeometry: three sizes of which one is no multiple of *)
(* 64 wide and one is no multiple of 16 high, and displays wider and        *)
(* narrower than both ratios.                                               *)
EXTENDS FrameGeometry

MCSizes == {[w |-> 1920, h |-> 1080], [w |-> 1366, h |-> 768], [w |-> 640, h |-> 480]}
MCModes == {[w |-> 3840, h |-> 2160], [w |-> 1024, h |-> 768], [w |-> 2560, h |-> 1080],
            [w |-> 1080, h |-> 1920]}
==============================================================================
