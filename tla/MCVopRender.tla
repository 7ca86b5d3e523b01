----------------------------- MODULE MCVopRender -----------------------------
(* Two displays, two renderers: workThread and the event thread.            *)
EXTENDS VopRender
==============================================================================
