---------------------------- MODULE MCEncodeServer ----------------------------
(* EncodeServer with a few record buffers; the .cfg files choose what may   *)
(* overlap.                                                                 *)
EXTENDS EncodeServer
==============================================================================
