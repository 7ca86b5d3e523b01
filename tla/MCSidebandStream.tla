--------------------------- MODULE MCSidebandStream ---------------------------
(* SidebandStream with few buffers and ring slots; the .cfg files choose    *)
(* the faults.                                                              *)
EXTENDS SidebandStream
==============================================================================
