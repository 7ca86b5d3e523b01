------------------------------- MODULE MppEncoder -------------------------------
(***************************************************************************)
(* RKMppEncApi and MppEncodeServer::initOther                               *)
(* (enc/RKMppEncApi.cpp, enc/MppEncodeServer.cpp): the configuration that   *)
(* a recording asks of the encoder library, as operators on the size and    *)
(* the frame rate of the picture.  The encoder itself is a service.         *)
(***************************************************************************)
EXTENDS Integers

Aligned(x, a) == ((x + a - 1) \div a) * a

(* What setupEncCfg() makes.                                                *)
Configs ==
  [prep  : [width : Nat, height : Nat, horStride : Nat, verStride : Nat],
   rate  : [gop : Nat, fps : Nat],
   bps   : [target : Nat, max : Nat, min : Nat],
   codec : [profile : Nat, level : Nat, cabac : BOOLEAN],
   qp    : [min : Nat, max : Nat, minI : Nat, maxI : Nat, init : Nat]]

IDRInterval == 1
DefaultBitRate == 20000000
EndlessGop == 8640000

(* initOther(): the EncCfgInfo for a picture of w x h at fps.               *)
EncCfgInfo(w, h, fps) ==
  [width |-> w, height |-> h, framerate |-> fps, bitRate |-> DefaultBitRate,
   bitrateMode |-> "BITRATE_CONST", profile |-> 66, level |-> 41]

H264_PROFILE_HIGH == 100

Kept(cfg, horStride, verStride) ==
  [width |-> cfg.width, height |-> cfg.height,
   horStride |-> horStride, verStride |-> verStride,
   framerate |-> cfg.framerate, bitRate |-> cfg.bitRate,
   bitrateMode |-> cfg.bitrateMode, profile |-> cfg.profile, level |-> cfg.level]

(* Mutant: the rows are not rounded.                                        *)
UnroundedRows(cfg) == Kept(cfg, Aligned(cfg.width, 16), cfg.height)

(* RKMppEncApi::init(): the members; both strides are rounded to 16.         *)
InitEncoder(cfg) == Kept(cfg, Aligned(cfg.width, 16), Aligned(cfg.height, 16))

setupBaseCodec(info) ==
  [width |-> info.width, height |-> info.height,
   horStride |-> info.horStride, verStride |-> info.verStride]

(* setupFrameRate(): a rate of 1 means 60, and the group of pictures is the *)
(* interval, or with the interval of 1 as many pictures as a second has.    *)
setupFrameRate(info) ==
  [gop |-> IF IDRInterval \in 2 .. EndlessGop - 1
             THEN IDRInterval ELSE info.framerate * IDRInterval,
   fps |-> IF info.framerate = 1 THEN 60 ELSE info.framerate]

(* setupBitRate(): the bounds are close to the target for a constant rate   *)
(* and wide below it for a variable one.                                    *)
setupBitRate(info) ==
  [target |-> info.bitRate, max |-> (info.bitRate * 17) \div 16,
   min |-> (info.bitRate * (IF info.bitrateMode \in {"BITRATE_IGNORE",
                "BITRATE_VARIABLE_SKIP_ALLOWED", "BITRATE_VARIABLE"} THEN 1 ELSE 15))
             \div 16]

setupProfileParams(info) ==
  [profile |-> info.profile, level |-> info.level,
   cabac |-> info.profile >= H264_PROFILE_HIGH]

(* setupQp() for AVC: an initial value outside the bounds becomes the lower.*)
setupQp ==
  LET iMin == 10  iMax == 51  pMin == 10  pMax == 49  init == 26
  IN  [min |-> pMin, max |-> pMax, minI |-> iMin, maxI |-> iMax,
       init |-> IF init \in iMin .. iMax THEN init ELSE iMin]

(* setupEncCfg(): what MPP_ENC_SET_CFG is called with.                      *)
setupEncCfg(info) ==
  [prep |-> setupBaseCodec(info), rate |-> setupFrameRate(info),
   bps |-> setupBitRate(info), codec |-> setupProfileParams(info), qp |-> setupQp]

(* The encoder library takes a configuration whose picture fits its         *)
(* strides, whose rates are positive and whose bounds enclose the targets.  *)
MppAccepts(cfg) ==
  /\ cfg.prep.width \in 1 .. cfg.prep.horStride
  /\ cfg.prep.height \in 1 .. cfg.prep.verStride
  /\ cfg.rate.fps > 0 /\ cfg.rate.gop > 0
  /\ cfg.bps.target \in cfg.bps.min .. cfg.bps.max
  /\ cfg.qp.init \in cfg.qp.min .. cfg.qp.max
  /\ cfg.qp.init \in cfg.qp.minI .. cfg.qp.maxI

(* sendFrame() describes every picture to the encoder by the strides of     *)
(* init(): the rows of luma lie horStride apart, and the chroma begins      *)
(* after verStride of them.                                                 *)
EncoderReads(cfg) ==
  [stride |-> cfg.prep.horStride,
   chroma |-> cfg.prep.horStride * cfg.prep.verStride,
   end |-> (cfg.prep.horStride * cfg.prep.verStride * 3) \div 2]
==============================================================================
