--------------------------- MODULE MCCaptureStream ---------------------------
(* CaptureStream on APP_PREVIEW_BUFF_CNT buffers; the .cfg files choose the *)
(* faults.                                                                  *)
EXTENDS CaptureStream
==============================================================================
