------------------------------ MODULE FrameGeometry ------------------------------
(***************************************************************************)
(* The size and the layout of the pictures on their way from the receiver   *)
(* to the screen and to the encoder.  HinDevImpl keeps them in several      *)
(* places that are written at different times: the frame (mSrcFrameWidth,   *)
(* mPixelFormat, ...), the sideband window, the buffers allocated for it,   *)
(* the PQ engine, the record buffers and the encoder.  The module follows   *)
(* those copies through a session and says which bytes of which buffer      *)
(* every consumer touches.                                                  *)
(***************************************************************************)
EXTENDS MppEncoder, Sequences

CONSTANTS
  Sizes,        \* pictures a source may send and an owner may ask for, [w, h]
  Modes,        \* pictures of the connected displays, [w, h]
  Rates,        \* frame rates the driver may report
  MaxChanges,   \* how often the source changes while the device is in use
  None          \* no buffer, no engine, no encoder

Formats == {"BGR24", "NV12", "NV16", "NV24"}
Ratios == {"FULL_SCREEN", "SCREEN_16_9", "SCREEN_4_3"}
Frames == [size : Sizes, fmt : Formats]

(* getNativeWindowFormat(): the formats that the receiver delivers.         *)
getNativeWindowFormat ==
  [BGR24 |-> "BGR_888", NV12 |-> "YCrCb_NV12", NV16 |-> "YCbCr_422_SP",
   NV24 |-> "YCbCr_444_888"]

---------------------------------------------------------------------------
(* Buffers, by the descriptor that they were allocated with.  Of the usage  *)
(* bits only the one that makes gralloc round the rows matters here.        *)

Usages == SUBSET {"STRIDE_ALIGN_64"}

HalFormats ==
  {"BGR_888", "YCrCb_NV12", "YCbCr_422_SP", "YCbCr_444_888", "YCrCb_NV12_10"}

(* The window is made with the format of a frame, before set_format().      *)
Buffers ==
  [w : Nat \ {0}, h : Nat \ {0}, fmt : HalFormats \cup Formats, usage : Usages]

(* mSidebandInfo of a window: the descriptor of the next buffer that it is  *)
(* asked for, and the crop (left, top, right and bottom).                   *)
Windows == [next : Buffers, crop : Sizes]

ASSUME GeometryAssumption ==
  /\ Sizes \subseteq [w : Nat \ {0}, h : Nat \ {0}]
  /\ Modes \subseteq [w : Nat \ {0}, h : Nat \ {0}]
  /\ Rates \subseteq Nat /\ MaxChanges \in Nat
  /\ None \notin Frames /\ None \notin Buffers /\ None \notin Configs

sBufferDescriptorInfo(size, fmt, usage) ==
  [w |-> size.w, h |-> size.h, fmt |-> fmt, usage |-> usage]

BufferSize(b) == [w |-> b.w, h |-> b.h]

(* allocateSidebandHandle(): every caller asks for rounded rows.            *)
allocateSidebandHandle(size, fmt) ==
  sBufferDescriptorInfo(size, fmt, {"STRIDE_ALIGN_64"})

(* The allocator rounds rows of bytes to 64, if told to, and their number   *)
(* to 16.  The planes are what it says of a buffer in PlaneLayouts.         *)
RowAlign(b) == IF "STRIDE_ALIGN_64" \in b.usage THEN 64 ELSE 16

RowBytes(b) == CASE b.fmt = "BGR_888"        -> Aligned(3 * b.w, RowAlign(b))
                 [] b.fmt = "YCrCb_NV12_10"  -> Aligned((b.w * 10) \div 8, RowAlign(b))
                 [] OTHER                    -> Aligned(b.w, RowAlign(b))

PlaneLayouts(b) ==
  LET rows == Aligned(b.h, 16)
      Plane(bytes, n) == [strideInBytes |-> bytes, totalSizeInBytes |-> bytes * n]
      first == Plane(RowBytes(b), rows)
  IN CASE b.fmt = "BGR_888"       -> <<first>>
       [] b.fmt = "YCbCr_422_SP"  -> <<first, first>>
       [] b.fmt = "YCbCr_444_888" -> <<first, Plane(Aligned(2 * b.w, RowAlign(b)), rows)>>
       [] OTHER                   -> <<first, Plane(RowBytes(b), rows \div 2)>>

Room(b) ==
  LET planes == PlaneLayouts(b)
  IN  planes[1].totalSizeInBytes
        + (IF Len(planes) = 1 THEN 0 ELSE planes[2].totalSizeInBytes)

(* What the buffer manager reads from the metadata of a buffer.             *)
GetHalPixelFormat(b) == b.fmt
GetWidth(b) == b.w
GetHeight(b) == b.h

(* GetNumPlanes() does not know the format of ten bits.                     *)
GetNumPlanes(b) ==
  IF GetHalPixelFormat(b) \in {"YCrCb_NV12", "YCbCr_444_888", "YCbCr_422_SP"} THEN 2 ELSE 1

(* For ten bits the stride, and the size too, is the width.                 *)
GetPlaneStride(b, plane) ==
  IF plane >= GetNumPlanes(b) THEN 0
  ELSE IF GetHalPixelFormat(b) = "YCrCb_NV12_10" THEN GetWidth(b)
  ELSE PlaneLayouts(b)[plane + 1].strideInBytes

GetPlaneSize(b, plane) ==
  IF plane >= GetNumPlanes(b) THEN 0
  ELSE IF GetHalPixelFormat(b) = "YCrCb_NV12_10" THEN GetWidth(b)
  ELSE PlaneLayouts(b)[plane + 1].totalSizeInBytes

(* Bytes of a picture whose rows are as long as its pixels need, times the  *)
(* length of a row of one byte per pixel.                                   *)
PictureBytes(fmt, stride, h) ==
  CASE fmt = "BGR24" -> 3 * stride * h
    [] fmt = "NV12"  -> (3 * stride * h) \div 2
    [] fmt = "NV16"  -> 2 * stride * h
    [] fmt = "NV24"  -> 3 * stride * h

(* getFbid(): pitches and the offset of the second plane, 0 for one plane.  *)
FbLayout(b) ==
  LET stride == GetPlaneStride(b, 0)
      pitch == IF GetHalPixelFormat(b) = "YCrCb_NV12_10" THEN Aligned((stride \div 4) * 5, 64)
                                         ELSE stride
      second == CASE b.fmt = "BGR_888" -> 0
                  [] b.fmt = "YCbCr_444_888" ->
                       IF GetWidth(b) = stride THEN 2 * pitch
                                               ELSE Aligned(2 * GetWidth(b), 64)
                  [] OTHER -> pitch
  IN [pitch |-> pitch, second |-> second, offset |-> pitch * GetHeight(b)]

FbRows(b) == IF b.fmt \in {"YCbCr_422_SP", "YCbCr_444_888"} THEN b.h ELSE b.h \div 2

(* drmModeAddFB2() refuses planes beyond the buffer, and rows that its      *)
(* pitch does not hold.                                                     *)
AddFB2Accepts(b) ==
  /\ FbLayout(b).offset + FbLayout(b).second * FbRows(b) <= Room(b)
  /\ FbLayout(b).pitch >= RowBytes(b)

(* SetDrmPlane(): the part of the display that the picture is put on.       *)
DisplayRect(mode, ratio) ==
  LET highFor(w) == CASE ratio = "SCREEN_16_9" -> (w * 9) \div 16
                      [] ratio = "SCREEN_4_3"  -> (w * 3) \div 4
                      [] OTHER                 -> mode.h
      wideFor(h) == CASE ratio = "SCREEN_16_9" -> (h * 16) \div 9
                      [] ratio = "SCREEN_4_3"  -> (h * 4) \div 3
                      [] OTHER                 -> mode.w
      tooHigh == mode.h < highFor(mode.w)
      h == IF tooHigh THEN mode.h ELSE highFor(mode.w)
      wide == IF tooHigh THEN wideFor(mode.h) ELSE mode.w
      w == IF mode.w < wide THEN mode.w ELSE wide
  IN [x |-> (mode.w - w) \div 2, y |-> (mode.h - h) \div 2, w |-> w, h |-> h]

---------------------------------------------------------------------------
VARIABLES
  source,      \* what the receiver delivers, with its pending change
  dev,         \* "none", "found", "ready" (initialised) or "open"
  mState,      \* START or STOPED
  streamSize,  \* s_HinDevStreamWidth/Height of tv_input
  frame,       \* mSrcFrameWidth/Height (= mDstFrame...) and mPixelFormat
  window,      \* mSidebandInfo of the window
  driver,      \* what the driver writes since VIDIOC_STREAMON
  bufs,        \* geometry of the capture, signal, PQ, IEP and record buffers
  mRkpq,       \* the frame that the PQ engine was initialised for, or None
  mPqMode,     \* "off", "normal" or "range"
  mUseIep,     \* the source is interlaced
  enc,         \* configuration of the encoder, or None
  changed      \* the geometry changed while a stream was open

vars == <<source, dev, mState, streamSize, frame, window, driver, bufs, mRkpq,
          mPqMode, mUseIep, enc, changed>>

sessionVars == <<dev, mUseIep, driver>>
pqVars == <<mRkpq, mPqMode>>

NoBufs == [cap |-> None, sig |-> None, pq |-> None, iep |-> None, rec |-> None]

(* The receiver's driver delivers the source as it is, whatever size it is  *)
(* asked for; rows of bytes are rounded to 64.                              *)
DriverBytes(f) ==
  LET b == allocateSidebandHandle(f.size, getNativeWindowFormat[f.fmt])
  IN  IF f.fmt = "NV24" THEN (RowBytes(b) + Aligned(2 * b.w, 64)) * b.h
                        ELSE IF f.fmt = "BGR24" THEN RowBytes(b) * b.h
                        ELSE PictureBytes(f.fmt, RowBytes(b), b.h)

(* RTSidebandWindow, which is made with the device; nothing is allocated    *)
(* before init() has set its descriptor.                                    *)
NewWindow(size) == [next |-> sBufferDescriptorInfo(size, "BGR_888", {}), crop |-> size]

setBufferGeometry(win, size, fmt) ==
  [win EXCEPT !.next = sBufferDescriptorInfo(size, fmt, @.usage)]

setCrop(win, size) == [win EXCEPT !.crop = size]

Init ==
  /\ source \in [now : Frames, pending : {FALSE}, left : {MaxChanges}]
  /\ dev = "none" /\ mState = "STOPED"
  /\ streamSize = source.now.size /\ frame = source.now
  /\ window = NewWindow(source.now.size)
  /\ driver = source.now
  /\ bufs = NoBufs
  /\ mRkpq = None /\ mPqMode = "off" /\ mUseIep = FALSE
  /\ enc = None
  /\ changed = FALSE

(* The device at the other end of the cable changes its picture.            *)
SourceChanges ==
  /\ source.left > 0
  /\ \E f \in Frames \ {source.now} :
       source' = [now |-> f, pending |-> dev # "none",
                  left |-> IF dev = "none" THEN source.left ELSE source.left - 1]
  /\ UNCHANGED <<sessionVars, mState, streamSize, frame, window, bufs, pqVars, enc,
                 changed>>

(* set_interlaced(): the IEP is for interlaced sources with PQ enabled.     *)
set_interlaced(interlaced, pqEnable) == pqEnable = 1 /\ interlaced = 1

(* hin_dev_open(): findDevice(), get_format(), and set_interlaced() with    *)
(* what check_interlaced() said at the last change of a source, in whichever*)
(* session that was.                                                        *)
findDevice ==
  /\ dev = "none"
  /\ dev' = "found"
  /\ source' = [source EXCEPT !.pending = FALSE]
  /\ streamSize' = source.now.size
  /\ frame' = source.now
  /\ \E interlaced, pqEnable \in {0, 1} : mUseIep' = set_interlaced(interlaced, pqEnable)
  /\ UNCHANGED <<mState, window, driver, bufs, pqVars, enc, changed>>

(* init(): the window takes the frame, its format unconverted.              *)
init ==
  /\ dev = "found"
  /\ frame.fmt \in DOMAIN getNativeWindowFormat
  /\ dev' = "ready" /\ mState' = "STOPED"
  /\ window' = [window EXCEPT !.next =
                  sBufferDescriptorInfo(frame.size, frame.fmt, {"STRIDE_ALIGN_64"})]
  /\ UNCHANGED <<source, streamSize, frame, mUseIep, driver, bufs, pqVars, enc, changed>>

set_crop(size) == window' = setCrop(window, size)

(* Mutant: the window keeps the geometry that it was initialised with.      *)
ForgetsWindow(size) ==
  IF dev = "open" THEN UNCHANGED <<frame, window>>
  ELSE /\ frame' = [frame EXCEPT !.size = size]
       /\ set_crop(size)

(* set_format(): nothing once the stream is open.                           *)
set_format(size) ==
  IF dev = "open" THEN UNCHANGED <<frame, window>>
  ELSE /\ frame' = [frame EXCEPT !.size = size]
       /\ window' = setCrop(setBufferGeometry(window, size, getNativeWindowFormat[frame.fmt]),
                            size)

(* allocateBuffer(): a capture buffer is what the window says at the time.  *)
allocateBuffer(win) == win.next

(* start(): the driver refuses buffers that its pictures do not fit into.   *)
start ==
  IF dev = "open" \/ Room(window'.next) < DriverBytes(source.now)
    THEN UNCHANGED <<dev, mState, driver, bufs>>
    ELSE /\ dev' = "open" /\ mState' = "START"
         /\ driver' = source.now
         /\ bufs' = [bufs EXCEPT !.cap = allocateBuffer(window'),
                        !.sig = allocateSidebandHandle(BufferSize(window'.next), "BGR_888")]

(* tv_input_open_stream(): the size of the source, or the one the owner has *)
(* set; set_crop() follows set_format() whatever that did.                  *)
open_stream(size) ==
  /\ dev \in {"ready", "open"}
  /\ IF dev = "open"
       THEN frame' = frame /\ set_crop(size)
       ELSE set_format(size)
  /\ start
  /\ changed' = (changed \/ (dev = "open" /\ size # window.crop))
  /\ UNCHANGED <<source, streamSize, mUseIep, pqVars, enc>>

OpenStream == open_stream(streamSize) \/ \E size \in Sizes : open_stream(size)

(* V4L2_EVENT_SOURCE_CHANGE: get_current_sourcesize(), which also says      *)
(* START.                                                                   *)
get_current_sourcesize ==
  /\ dev # "none" /\ source.pending
  /\ source' = [source EXCEPT !.pending = FALSE]
  /\ streamSize' = source.now.size
  /\ frame' = source.now
  /\ mState' = "START"
  /\ changed' = (changed \/ (dev = "open" /\ frame' # frame))
  /\ UNCHANGED <<sessionVars, window, bufs, pqVars, enc>>

(* stopRecord(): the encoder and the record buffers are gone.               *)
stopRecord == enc' = None /\ bufs' = [bufs EXCEPT !.rec = None]

(* deal_priv_message("hdmiinout"), from a lost signal or, with STOPED, from *)
(* a lost cable: the signal buffer is shown.                                *)
hdmiinout ==
  /\ dev = "open"
  /\ mState' \in {mState, "STOPED"}
  /\ stopRecord
  /\ UNCHANGED <<sessionVars, source, streamSize, frame, window, pqVars, changed>>

(* doPQCmd() with the mode off, or with status 0, which deletes the engine  *)
(* and takes whatever mode comes with it.  In another state than START the  *)
(* command turns PQ off and leaves the engine.                              *)
pqOff(mode) ==
  /\ dev = "open"
  /\ mPqMode' = IF mState = "START" THEN mode ELSE "off"
  /\ mRkpq' = IF mState = "START" THEN None ELSE mRkpq
  /\ UNCHANGED <<sessionVars, source, mState, streamSize, frame, window, bufs, enc,
                 changed>>

(* Mutant: PQ buffers of eight bits.                                        *)
EightBits ==
  [bufs EXCEPT
     !.pq = IF @ = None THEN allocateSidebandHandle(frame.size, "YCrCb_NV12") ELSE @,
     !.iep = IF @ = None /\ mUseIep
               THEN allocateSidebandHandle(frame.size, "YCrCb_NV12") ELSE @]

(* doPQCmd() to a mode.  Buffers are allocated when there are none, and the engine is made when   *)
(* there is none.                                                           *)
PqBuffers ==
  [bufs EXCEPT
     !.pq = IF @ = None THEN allocateSidebandHandle(frame.size, "YCrCb_NV12_10") ELSE @,
     !.iep = IF @ = None /\ mUseIep
               THEN allocateSidebandHandle(frame.size, "YCrCb_NV12") ELSE @]

doPQCmd(mode) ==
  /\ dev = "open" /\ mState = "START" /\ mPqMode # mode
  /\ mPqMode' = mode
  /\ IF mPqMode = "off"
       THEN /\ bufs' = PqBuffers
            /\ mRkpq' = IF mRkpq = None THEN frame ELSE mRkpq
       ELSE UNCHANGED <<bufs, mRkpq>>
  /\ UNCHANGED <<sessionVars, source, mState, streamSize, frame, window, enc, changed>>

(* Mutant: the rate is taken as reported.                                   *)
AsReported(reported) == reported

(* doRecordCmd() with status 1: the rate is asked for again when it is not  *)
(* known and is 60 when the driver does not know either; record buffers are *)
(* allocated when there are none; the encoder is made anew.                 *)
recordRate(reported) == IF reported < 1 THEN 60 ELSE reported

RecordConfig(reported) ==
  setupEncCfg(InitEncoder(EncCfgInfo(frame.size.w, frame.size.h, recordRate(reported))))

doRecordCmd(reported) ==
  /\ dev = "open" /\ mState = "START"
  /\ IF MppAccepts(RecordConfig(reported))
       THEN /\ enc' = RecordConfig(reported)
            /\ bufs' = [bufs EXCEPT
                 !.rec = IF @ = None THEN allocateSidebandHandle(frame.size, "YCrCb_NV12")
                                     ELSE @]
       ELSE stopRecord
  /\ UNCHANGED <<sessionVars, source, mState, streamSize, frame, window, pqVars, changed>>

recordOff ==
  /\ dev = "open" /\ mState = "START"
  /\ stopRecord
  /\ UNCHANGED <<sessionVars, source, mState, streamSize, frame, window, pqVars, changed>>

(* close_stream(): stop() frees everything, and the device is forgotten.    *)
(* What is left of the sizes is written before the next session reads it.   *)
close_stream ==
  /\ dev \in {"ready", "open"}
  /\ dev' = "none" /\ mState' = "STOPED"
  /\ source' = [source EXCEPT !.pending = FALSE, !.left = MaxChanges]
  /\ bufs' = NoBufs /\ enc' = None
  /\ mRkpq' = None /\ mPqMode' = "off"
  /\ changed' = FALSE
  /\ streamSize' = source.now.size /\ frame' = source.now /\ driver' = source.now
  /\ window' = NewWindow(source.now.size)
  /\ mUseIep' = FALSE

Next ==
  \/ SourceChanges \/ findDevice \/ init \/ OpenStream
  \/ get_current_sourcesize \/ hdmiinout
  \/ (\E mode \in {"off", "normal", "range"} : pqOff(mode))
  \/ (\E mode \in {"normal", "range"} : doPQCmd(mode))
  \/ (\E reported \in Rates : doRecordCmd(reported)) \/ recordOff
  \/ close_stream

Spec == Init /\ [][Next]_vars

---------------------------------------------------------------------------
(* What the threads touch.  An access is [buffer, end]: the bytes 0 .. end-1*)

Access(b, end) == [buffer |-> b, end |-> end]
Fits(a) == a.end <= Room(a.buffer)

(* dumpImage(), which a debug property asks for, writes all planes of the   *)
(* captured frame to a file.                                                *)
dumpImage(b) ==
  Access(b, GetPlaneSize(b, 0)
              + (IF GetNumPlanes(b) = 2 THEN GetPlaneSize(b, 1) ELSE 0))

DumpAccesses == IF dev = "open" /\ mState = "START" THEN {dumpImage(bufs.cap)} ELSE {}

(* buffDataTransfer(): the RGA converts BGR24, NV12 and NV16.  CropScale    *)
(* reads a picture whose rows are as long as its pixels and writes one of   *)
(* the record buffer's size, its rows verStride = width long and its chroma *)
(* after horStride = the rounded height.                                    *)
RgaConverts == frame.fmt \in {"BGR24", "NV12", "NV16"}
RgaLimit == 4096

RgaTarget(rec) == [stride |-> rec.w, rows |-> Aligned(rec.h, 16), h |-> rec.h]

RgaWrites(rec) ==
  LET t == RgaTarget(rec) IN Access(rec, t.stride * t.rows + t.stride * (t.h \div 2))

CropScale(cap, rec) ==
  IF rec.w > RgaLimit \/ rec.h > RgaLimit THEN {}
  ELSE {Access(cap, PictureBytes(frame.fmt, frame.size.w, frame.size.h)), RgaWrites(rec)}

(* NV24ToNV12(): copies the luma and every second pair of the chroma with   *)
(* the CPU, from and to rows that are as long as the picture is wide.       *)
NV24ToNV12(cap, rec) ==
  LET w == frame.size.w  h == frame.size.h
  IN {Access(cap, w * h + (h \div 2 - 1) * 4 * w + (w \div 2 - 1) * 4 + 2),
      Access(rec, w * h + (h \div 2 - 1) * w + (w \div 2 - 1) * 2 + 2)}

Recording == dev = "open" /\ mState = "START" /\ enc # None /\ bufs.rec # None

RecordAccesses ==
  IF ~Recording THEN {}
  ELSE (IF RgaConverts THEN CropScale(bufs.cap, bufs.rec)
                       ELSE NV24ToNV12(bufs.cap, bufs.rec))
       \cup {Access(bufs.rec, EncoderReads(enc).end)}

(* The strides that doPQCmd() gives the engine: rounded for a picture whose *)
(* width is no multiple of 64, else, and for NV12, those of its pixels.     *)
PqStride(f) ==
  IF f.size.w % 64 = 0 \/ f.fmt = "NV12" THEN f.size.w
  ELSE IF f.fmt = "BGR24" THEN Aligned(3 * f.size.w, 64) ELSE Aligned(f.size.w, 64)

PqReadEnd(f) ==
  IF f.size.w % 64 = 0 \/ f.fmt # "BGR24"
    THEN IF f.fmt = "NV24" /\ f.size.w % 64 # 0
           THEN (PqStride(f) + Aligned(2 * f.size.w, 64)) * f.size.h
           ELSE PictureBytes(f.fmt, PqStride(f), f.size.h)
    ELSE PqStride(f) * f.size.h

(* dopq(): out of a capture buffer, into a PQ buffer of ten bits or, for an *)
(* interlaced source, into an IEP buffer of eight.                          *)
PqTarget == IF mUseIep /\ mPqMode = "normal" THEN bufs.iep ELSE bufs.pq

PqOutput(f) ==
  allocateSidebandHandle(f.size, IF mUseIep THEN "YCrCb_NV12" ELSE "YCrCb_NV12_10")

PqRunning == /\ dev = "open" /\ mState = "START" /\ mPqMode # "off"
             /\ mRkpq # None /\ bufs.pq # None

PqAccesses ==
  IF ~PqRunning THEN {}
  ELSE {Access(bufs.cap, PqReadEnd(mRkpq)),
        Access(PqTarget, (3 * RowBytes(PqOutput(mRkpq)) * mRkpq.size.h) \div 2)}
       \cup (IF mUseIep /\ mPqMode = "normal"
               THEN {Access(bufs.iep, (3 * Aligned(mRkpq.size.w, 64) * mRkpq.size.h) \div 2)}
               ELSE {})

(* show() of the window: the plane takes the crop out of the buffer.        *)
Shown ==
  IF dev # "open" THEN {}
  ELSE {bufs.cap, bufs.sig} \cup
       (IF PqRunning THEN {PqTarget} ELSE {})

---------------------------------------------------------------------------
TypeOK ==
  /\ source \in [now : Frames, pending : BOOLEAN, left : 0 .. MaxChanges]
  /\ dev \in {"none", "found", "ready", "open"} /\ mState \in {"START", "STOPED"}
  /\ streamSize \in Sizes /\ frame \in Frames /\ driver \in Frames
  /\ window \in Windows
  /\ bufs \in [cap : Buffers \cup {None}, sig : Buffers \cup {None},
               pq : Buffers \cup {None}, iep : Buffers \cup {None},
               rec : Buffers \cup {None}]
  /\ enc \in Configs \cup {None}
  /\ mRkpq \in Frames \cup {None} /\ mPqMode \in {"off", "normal", "range"}
  /\ mUseIep \in BOOLEAN /\ changed \in BOOLEAN

(* As long as the geometry is the one the stream was opened with, no        *)
(* conversion, no PQ pass and no encoder reads or writes beyond the end of a*)
(* buffer, although each computes the extent from a copy of its own (frame, *)
(* record buffer, engine, encoder) and none asks the buffer.  A change of   *)
(* the source while a recording runs does not make the RGA leave the record *)
(* buffers: it scales into the size they were made with, which NV24ToNV12() *)
(* does not.                                                                *)
AccessesFit ==
  /\ ~changed => \A a \in RecordAccesses \cup PqAccesses \cup DumpAccesses : Fits(a)
  /\ Recording /\ RgaConverts => Fits(RgaWrites(bufs.rec))

(* What the conversion wrote is what the encoder reads: rows of the capture *)
(* buffer are taken as long as the driver made them, and rows and chroma of *)
(* the record buffer are where sendFrame() says.  It takes a width that is  *)
(* a multiple of 64, and for NV24 a height that is one of 16.               *)
RecordedPictureIsRight ==
  (Recording /\ ~changed /\ frame = driver /\ frame.size.w % 64 = 0
     /\ (RgaConverts \/ frame.size.h % 16 = 0)) =>
    LET chroma == IF RgaConverts
                    THEN RgaTarget(bufs.rec).stride * RgaTarget(bufs.rec).rows
                    ELSE frame.size.w * frame.size.h
    IN  /\ frame.size.w = RowBytes(bufs.cap) \div (IF frame.fmt = "BGR24" THEN 3 ELSE 1)
        /\ EncoderReads(enc).stride = bufs.rec.w
        /\ EncoderReads(enc).chroma = chroma

(* Every buffer that goes to the screen makes a framebuffer, the part that  *)
(* the plane takes of it is the whole of it, and lands inside the display.  *)
WholePictureShown ==
  ~changed =>
    /\ \A b \in Shown : AddFB2Accepts(b) /\ window.crop = BufferSize(b)
    /\ \A m \in Modes, ratio \in Ratios :
         LET r == DisplayRect(m, ratio)
         IN r.x >= 0 /\ r.y >= 0 /\ r.x + r.w <= m.w /\ r.y + r.h <= m.h

(* A record command of a running stream leaves an encoder whatever rate the *)
(* driver reports.                                                          *)
RecordingStarts ==
  [][\A reported \in Rates : doRecordCmd(reported) => enc' # None /\ bufs'.rec # None]_vars
==============================================================================
