------------------------------ MODULE MCIepRing ------------------------------
(* Instances of IepRing: Interlaced.cfg.                                    *)
EXTENDS IepRing
==============================================================================
