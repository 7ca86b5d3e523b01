-------------------------- MODULE FrameGeometryProofs --------------------------
(* What holds of FrameGeometry for every size of the source, of the owner   *)
(* and of the displays, and for every frame rate.                           *)
EXTENDS FrameGeometry, TLAPS

(* Rounding up to 64: the least multiple that is not below.                 *)
LEMMA Aligned64 ==
  ASSUME NEW x \in Nat
  PROVE  /\ Aligned(x, 64) \in Nat /\ x <= Aligned(x, 64)
         /\ Aligned(x, 64) = 64 * ((x + 63) \div 64) /\ (x + 63) \div 64 \in Nat
         /\ x % 64 = 0 => Aligned(x, 64) = x
         /\ \A q \in Nat : x <= 64 * q => Aligned(x, 64) <= 64 * q
BY DEF Aligned

LEMMA Aligned16 ==
  ASSUME NEW x \in Nat
  PROVE  /\ Aligned(x, 16) \in Nat /\ x <= Aligned(x, 16)
         /\ Aligned(x, 16) = 16 * ((x + 15) \div 16) /\ (x + 15) \div 16 \in Nat
         /\ x % 16 = 0 => Aligned(x, 16) = x
         /\ \A q \in Nat : x <= 16 * q => Aligned(x, 16) <= 16 * q
BY DEF Aligned

(* A picture rounded to 64 holds one rounded to 16.                         *)
LEMMA Aligned16And64 ==
  ASSUME NEW x \in Nat
  PROVE  /\ Aligned(x, 16) <= Aligned(x, 64)
         /\ x % 64 = 0 => Aligned(x, 16) = x
<1>1. /\ x <= Aligned(x, 64) /\ Aligned(x, 64) = 16 * (4 * ((x + 63) \div 64))
      /\ 4 * ((x + 63) \div 64) \in Nat
  BY Aligned64
<1>2. Aligned(x, 16) <= 16 * (4 * ((x + 63) \div 64))
  BY <1>1, Aligned16
<1>3. x % 64 = 0 => x % 16 = 0
  OBVIOUS
<1> QED BY <1>1, <1>2, <1>3, Aligned16

(* A product grows with each factor.                                        *)
LEMMA Products ==
  ASSUME NEW a \in Nat, NEW b \in Nat, NEW c \in Nat, NEW d \in Nat, a <= c, b <= d
  PROVE  /\ a * b \in Nat /\ c * d \in Nat /\ a * b <= c * d
<1>1. a * b <= c * b
  <2>1. c * b = a * b + (c - a) * b
    OBVIOUS
  <2>2. (c - a) * b >= 0
    OBVIOUS
  <2> QED BY <2>1, <2>2
<1>2. c * b <= c * d
  <2>1. c * d = c * b + c * (d - b)
    OBVIOUS
  <2>2. c * (d - b) >= 0
    OBVIOUS
  <2> QED BY <2>1, <2>2
<1> QED BY <1>1, <1>2
------------------------------------------------------------------------------
(* Before the stream is open nothing is allocated, and from init() on the   *)
(* window asks for rounded rows.                                            *)
ClosedInv ==
  /\ dev # "open" => bufs = NoBufs /\ enc = None /\ mRkpq = None
  /\ dev \in {"ready", "open"} => window.next.usage = {"STRIDE_ALIGN_64"}

(* Record buffers are made for some size, not always for that of the frame. *)
RecInv ==
  bufs.rec # None =>
    \E size \in Sizes : bufs.rec = allocateSidebandHandle(size, "YCrCb_NV12")

(* As long as nothing changed, the copies of the geometry are one.          *)
CopiesAgree ==
  /\ bufs.cap = allocateSidebandHandle(frame.size, getNativeWindowFormat[frame.fmt])
  /\ bufs.sig = allocateSidebandHandle(frame.size, "BGR_888")
  /\ window.crop = frame.size
  /\ bufs.pq \in {None, allocateSidebandHandle(frame.size, "YCrCb_NV12_10")}
  /\ bufs.iep \in {None, allocateSidebandHandle(frame.size, "YCrCb_NV12")}
  /\ bufs.pq # None /\ mUseIep => bufs.iep # None
  /\ bufs.rec \in {None, allocateSidebandHandle(frame.size, "YCrCb_NV12")}
  /\ mRkpq \in {None, frame}
  /\ enc # None =>
       enc.prep = [width |-> frame.size.w, height |-> frame.size.h,
                   horStride |-> Aligned(frame.size.w, 16),
                   verStride |-> Aligned(frame.size.h, 16)]

AgreeInv == dev = "open" /\ ~changed => CopiesAgree

GeometryInv == TypeOK /\ ClosedInv /\ RecInv /\ AgreeInv

(* Buffers are of their type, and no buffer is None.                        *)
LEMMA BufferType ==
  ASSUME NEW size \in Sizes, NEW fmt \in HalFormats \cup Formats, NEW usage \in Usages
  PROVE  /\ sBufferDescriptorInfo(size, fmt, usage) \in Buffers
         /\ sBufferDescriptorInfo(size, fmt, usage).usage = usage
         /\ sBufferDescriptorInfo(size, fmt, usage) # None
<1>1. size.w \in Nat \ {0} /\ size.h \in Nat \ {0}
  BY GeometryAssumption
<1>2. sBufferDescriptorInfo(size, fmt, usage) \in Buffers
  BY <1>1 DEF sBufferDescriptorInfo, Buffers
<1> QED BY <1>2, GeometryAssumption DEF sBufferDescriptorInfo

LEMMA HandleType ==
  ASSUME NEW size \in Sizes, NEW fmt \in HalFormats
  PROVE  /\ allocateSidebandHandle(size, fmt) \in Buffers
         /\ allocateSidebandHandle(size, fmt) # None
BY BufferType DEF allocateSidebandHandle, Usages

LEMMA NativeFormat ==
  ASSUME NEW fmt \in Formats
  PROVE  getNativeWindowFormat[fmt] \in HalFormats
BY DEF Formats, getNativeWindowFormat, HalFormats

(* The bounds that a constant bit rate is given enclose it.                 *)
LEMMA AroundTarget ==
  ASSUME NEW rate \in Nat
  PROVE  /\ (rate * 17) \div 16 \in Nat /\ (rate * 15) \div 16 \in Nat
         /\ rate \in (rate * 15) \div 16 .. (rate * 17) \div 16
OBVIOUS

(* Whatever rate the driver reports, the encoder takes the configuration.   *)
LEMMA RecordAccepted ==
  ASSUME frame \in Frames, NEW reported \in Rates
  PROVE  /\ MppAccepts(RecordConfig(reported))
         /\ RecordConfig(reported) \in Configs
         /\ RecordConfig(reported) # None
         /\ RecordConfig(reported).prep =
              [width |-> frame.size.w, height |-> frame.size.h,
               horStride |-> Aligned(frame.size.w, 16),
               verStride |-> Aligned(frame.size.h, 16)]
<1> DEFINE w == frame.size.w
           h == frame.size.h
           rate == recordRate(reported)
           info == InitEncoder(EncCfgInfo(w, h, rate))
<1>1. frame.size \in Sizes /\ w \in Nat \ {0} /\ h \in Nat \ {0}
  BY GeometryAssumption DEF Frames
<1>2. rate \in Nat /\ rate >= 1
  BY GeometryAssumption DEF recordRate
<1>3. /\ Aligned(w, 16) \in Nat /\ w <= Aligned(w, 16)
      /\ Aligned(h, 16) \in Nat /\ h <= Aligned(h, 16)
  BY <1>1, Aligned16
<1> HIDE DEF w, h, rate
<1>4. setupEncCfg(info).prep =
        [width |-> w, height |-> h, horStride |-> Aligned(w, 16),
         verStride |-> Aligned(h, 16)]
  BY DEF setupEncCfg, setupBaseCodec, InitEncoder, Kept, EncCfgInfo
<1>5. /\ setupEncCfg(info).rate \in [gop : Nat, fps : Nat]
      /\ setupEncCfg(info).rate.gop > 0 /\ setupEncCfg(info).rate.fps > 0
  <2>0. info.framerate = rate
    BY DEF InitEncoder, Kept, EncCfgInfo
  <2>1. IDRInterval \notin 2 .. EndlessGop - 1
    BY SMT DEF IDRInterval
  <2>2. info.framerate * IDRInterval = rate
    BY <1>2, <2>0 DEF IDRInterval
  <2>3. setupFrameRate(info) = [gop |-> rate, fps |-> IF rate = 1 THEN 60 ELSE rate]
    BY <2>0, <2>1, <2>2 DEF setupFrameRate
  <2> QED BY <1>2, <2>3 DEF setupEncCfg
<1>6. /\ setupEncCfg(info).bps \in [target : Nat, max : Nat, min : Nat]
      /\ setupEncCfg(info).bps.target \in setupEncCfg(info).bps.min .. setupEncCfg(info).bps.max
  <2>1. info.bitRate = DefaultBitRate /\ info.bitrateMode = "BITRATE_CONST"
    BY SMT DEF InitEncoder, Kept, EncCfgInfo
  <2>2. setupBitRate(info) = [target |-> DefaultBitRate, max |-> (DefaultBitRate * 17) \div 16,
                              min |-> (DefaultBitRate * 15) \div 16]
    BY SMT, <2>1 DEF setupBitRate
  <2>3. /\ DefaultBitRate \in Nat
        /\ (DefaultBitRate * 17) \div 16 \in Nat /\ (DefaultBitRate * 15) \div 16 \in Nat
        /\ DefaultBitRate \in (DefaultBitRate * 15) \div 16 .. (DefaultBitRate * 17) \div 16
    <3>1. DefaultBitRate \in Nat
      BY SMT DEF DefaultBitRate
    <3> QED BY SMT, <3>1, AroundTarget
  <2>4. setupEncCfg(info).bps = setupBitRate(info)
    BY SMT DEF setupEncCfg
  <2> QED BY SMT, <2>2, <2>3, <2>4
<1>7. setupEncCfg(info).codec \in [profile : Nat, level : Nat, cabac : BOOLEAN]
  BY DEF setupEncCfg, setupProfileParams, InitEncoder, Kept, EncCfgInfo, H264_PROFILE_HIGH
<1>8. /\ setupEncCfg(info).qp \in [min : Nat, max : Nat, minI : Nat, maxI : Nat, init : Nat]
      /\ setupEncCfg(info).qp.init \in setupEncCfg(info).qp.min .. setupEncCfg(info).qp.max
      /\ setupEncCfg(info).qp.init \in setupEncCfg(info).qp.minI .. setupEncCfg(info).qp.maxI
  BY DEF setupEncCfg, setupQp
<1>9. MppAccepts(setupEncCfg(info))
  BY <1>1, <1>3, <1>4, <1>5, <1>6, <1>8 DEF MppAccepts
<1>10. setupEncCfg(info) \in Configs
  BY <1>1, <1>3, <1>4, <1>5, <1>6, <1>7, <1>8 DEF Configs, setupEncCfg
<1>11. RecordConfig(reported) = setupEncCfg(info)
  BY DEF RecordConfig, w, h, rate
<1> QED BY <1>4, <1>9, <1>10, <1>11, GeometryAssumption DEF w, h
(* What opening a stream makes of the window, the frame and the buffers.    *)
LEMMA OpenedStream ==
  ASSUME TypeOK, NEW size \in Sizes, open_stream(size)
  PROVE  /\ dev \in {"ready", "open"}
         /\ dev = "open" =>
              /\ UNCHANGED <<frame, dev, mState, driver, bufs>>
              /\ window' = [window EXCEPT !.crop = size]
              /\ changed' = (changed \/ size # window.crop)
         /\ dev = "ready" =>
              /\ frame' = [size |-> size, fmt |-> frame.fmt]
              /\ window' = [next |-> sBufferDescriptorInfo(size, getNativeWindowFormat[frame.fmt],
                                                           window.next.usage),
                            crop |-> size]
              /\ \/ UNCHANGED <<dev, mState, driver, bufs>>
                 \/ /\ dev' = "open" /\ mState' = "START" /\ driver' = source.now
                    /\ bufs' = [bufs EXCEPT
                         !.cap = window'.next,
                         !.sig = allocateSidebandHandle(BufferSize(window'.next), "BGR_888")]
         /\ UNCHANGED <<source, streamSize, mUseIep, pqVars, enc>>
<1>1. /\ dev \in {"ready", "open"}
      /\ UNCHANGED <<source, streamSize, mUseIep, pqVars, enc>>
  BY DEF open_stream
<1>2. CASE dev = "open"
  BY <1>1, <1>2 DEF open_stream, set_crop, setCrop, start, allocateBuffer
<1>3. CASE dev = "ready"
  <2>1. frame' = [size |-> size, fmt |-> frame.fmt]
    BY <1>3 DEF open_stream, set_format, TypeOK, Frames
  <2>2. window' = [next |-> sBufferDescriptorInfo(size, getNativeWindowFormat[frame.fmt],
                                                  window.next.usage),
                   crop |-> size]
    BY <1>3 DEF open_stream, set_format, setCrop, setBufferGeometry, TypeOK, Windows
  <2>3. \/ UNCHANGED <<dev, mState, driver, bufs>>
        \/ /\ dev' = "open" /\ mState' = "START" /\ driver' = source.now
           /\ bufs' = [bufs EXCEPT
                !.cap = window'.next,
                !.sig = allocateSidebandHandle(BufferSize(window'.next), "BGR_888")]
    BY <1>3 DEF open_stream, start, allocateBuffer
  <2> QED BY <1>1, <1>3, <2>1, <2>2, <2>3
<1> QED BY <1>1, <1>2, <1>3

BufferTypes ==
  [cap : Buffers \cup {None}, sig : Buffers \cup {None}, pq : Buffers \cup {None},
   iep : Buffers \cup {None}, rec : Buffers \cup {None}]

LEMMA NextType ==
  ASSUME TypeOK, [Next]_vars
  PROVE  TypeOK'
<1>0. /\ source.now \in Frames /\ source.now.size \in Sizes
      /\ frame.size \in Sizes /\ frame.fmt \in Formats
      /\ bufs \in BufferTypes /\ NoBufs \in BufferTypes
  BY DEF TypeOK, Frames, BufferTypes, NoBufs
<1>s. ASSUME source' = [source EXCEPT !.pending = FALSE]
      PROVE  source' \in [now : Frames, pending : BOOLEAN, left : 0 .. MaxChanges]
  BY <1>s DEF TypeOK
<1>1. CASE SourceChanges
  <2>1. source' \in [now : Frames, pending : BOOLEAN, left : 0 .. MaxChanges]
    BY <1>1, GeometryAssumption DEF SourceChanges, TypeOK
  <2> QED BY <1>1, <2>1 DEF SourceChanges, TypeOK, sessionVars, pqVars
<1>2. CASE findDevice
  <2>1. mUseIep' \in BOOLEAN
    BY <1>2 DEF findDevice, set_interlaced
  <2>2. source' \in [now : Frames, pending : BOOLEAN, left : 0 .. MaxChanges]
    BY <1>s, <1>2 DEF findDevice
  <2>3. /\ dev' = "found" /\ streamSize' \in Sizes /\ frame' \in Frames
        /\ UNCHANGED <<mState, window, driver, bufs, mRkpq, mPqMode, enc, changed>>
    BY <1>0, <1>2 DEF findDevice, pqVars
  <2> QED BY <2>1, <2>2, <2>3 DEF TypeOK
<1>3. CASE init
  <2>1. window' \in Windows
    <3>1. {"STRIDE_ALIGN_64"} \in Usages
      BY DEF Usages
    <3>2. sBufferDescriptorInfo(frame.size, frame.fmt, {"STRIDE_ALIGN_64"}) \in Buffers
      BY <1>0, <3>1, BufferType
    <3> QED BY <1>3, <3>2 DEF init, TypeOK, Windows
  <2> QED BY <1>3, <2>1 DEF init, TypeOK, pqVars
<1>4. CASE OpenStream
  <2>1. PICK size \in Sizes : open_stream(size)
    BY <1>4 DEF OpenStream, TypeOK
  <2>2. CASE dev = "open"
    <3>1. /\ UNCHANGED <<source, streamSize, mUseIep, pqVars, enc, frame, dev, mState, driver, bufs>>
          /\ window' = [window EXCEPT !.crop = size]
          /\ changed' = (changed \/ size # window.crop)
      BY <2>1, <2>2, OpenedStream
    <3>2. window' \in Windows
      BY <3>1 DEF TypeOK, Windows
    <3>3. changed' \in BOOLEAN
      BY <3>1
    <3> QED BY <3>1, <3>2, <3>3 DEF TypeOK, pqVars
  <2>3. CASE dev = "ready"
    <3>1. window.next.usage \in Usages
      BY DEF TypeOK, Buffers, Windows
    <3>2. window' \in Windows /\ BufferSize(window'.next) = size
      <4> DEFINE next == sBufferDescriptorInfo(size, getNativeWindowFormat[frame.fmt],
                                               window.next.usage)
      <4>1. next \in Buffers
        BY <1>0, <3>1, NativeFormat, BufferType
      <4>2. BufferSize(next) = [w |-> size.w, h |-> size.h] /\ size = [w |-> size.w, h |-> size.h]
        BY GeometryAssumption DEF BufferSize, sBufferDescriptorInfo
      <4>3. window' = [next |-> next, crop |-> size]
        BY <2>1, <2>3, OpenedStream
      <4> QED BY <4>1, <4>2, <4>3 DEF Windows
    <3>3. frame' \in Frames
      BY <1>0, <2>1, <2>3, OpenedStream DEF Frames
    <3>4. bufs' \in BufferTypes
      <4>1. allocateSidebandHandle(size, "BGR_888") \in Buffers
        BY HandleType DEF HalFormats
      <4>2. \/ bufs' = bufs
            \/ bufs' = [bufs EXCEPT !.cap = window'.next,
                                    !.sig = allocateSidebandHandle(size, "BGR_888")]
        BY <2>1, <2>3, <3>2, OpenedStream
      <4>3. window'.next \in Buffers
        BY <3>2 DEF Windows
      <4> QED BY <1>0, <4>1, <4>2, <4>3 DEF BufferTypes
    <3>5. /\ dev' \in {"ready", "open"} /\ mState' \in {"START", "STOPED"} /\ driver' \in Frames
          /\ UNCHANGED <<source, streamSize, mUseIep, pqVars, enc>>
      BY <1>0, <2>1, <2>3, OpenedStream DEF TypeOK
    <3>6. changed' \in BOOLEAN
      BY <2>1 DEF open_stream
    <3> QED BY <3>2, <3>3, <3>4, <3>5, <3>6 DEF TypeOK, BufferTypes, pqVars
  <2> QED BY <2>1, <2>2, <2>3, OpenedStream
<1>5. CASE get_current_sourcesize
  <2>1. changed' \in BOOLEAN
    BY <1>5 DEF get_current_sourcesize
  <2>2. source' \in [now : Frames, pending : BOOLEAN, left : 0 .. MaxChanges]
    BY <1>s, <1>5 DEF get_current_sourcesize
  <2>3. /\ streamSize' \in Sizes /\ frame' \in Frames /\ mState' = "START"
        /\ UNCHANGED <<dev, mUseIep, driver, window, bufs, mRkpq, mPqMode, enc>>
    BY <1>0, <1>5 DEF get_current_sourcesize, sessionVars, pqVars
  <2> QED BY <2>1, <2>2, <2>3 DEF TypeOK
<1>6. CASE hdmiinout
  <2>1. bufs' \in BufferTypes
    BY <1>0, <1>6 DEF hdmiinout, stopRecord, BufferTypes
  <2> QED BY <1>6, <2>1 DEF hdmiinout, stopRecord, TypeOK, BufferTypes, sessionVars, pqVars
<1>7. ASSUME NEW mode \in {"off", "normal", "range"}, pqOff(mode)
      PROVE  TypeOK'
  BY <1>7 DEF pqOff, TypeOK, sessionVars
<1>8. ASSUME NEW mode \in {"normal", "range"}, doPQCmd(mode)
      PROVE  TypeOK'
  <2>1. PqBuffers \in BufferTypes
    <3>1. /\ allocateSidebandHandle(frame.size, "YCrCb_NV12_10") \in Buffers
          /\ allocateSidebandHandle(frame.size, "YCrCb_NV12") \in Buffers
      BY <1>0, HandleType DEF HalFormats
    <3> QED BY <1>0, <3>1 DEF PqBuffers, BufferTypes
  <2>2. bufs' \in BufferTypes /\ mRkpq' \in Frames \cup {None}
    BY <1>0, <1>8, <2>1 DEF doPQCmd, TypeOK
  <2> QED BY <1>8, <2>2 DEF doPQCmd, TypeOK, BufferTypes, sessionVars
<1>9. ASSUME NEW reported \in Rates, doRecordCmd(reported)
      PROVE  TypeOK'
  <2>1. allocateSidebandHandle(frame.size, "YCrCb_NV12") \in Buffers
    BY <1>0, HandleType DEF HalFormats
  <2>2. enc' = RecordConfig(reported) /\ RecordConfig(reported) \in Configs
    BY <1>9, RecordAccepted DEF doRecordCmd, TypeOK
  <2>3. bufs' \in BufferTypes
    BY <1>0, <1>9, <2>1, RecordAccepted DEF doRecordCmd, BufferTypes, TypeOK
  <2> QED BY <1>9, <2>2, <2>3 DEF doRecordCmd, TypeOK, BufferTypes, sessionVars, pqVars
<1>10. CASE recordOff
  <2>1. bufs' \in BufferTypes
    BY <1>0, <1>10 DEF recordOff, stopRecord, BufferTypes
  <2> QED BY <1>10, <2>1 DEF recordOff, stopRecord, TypeOK, BufferTypes, sessionVars, pqVars
<1>11. CASE close_stream
  <2>1. window' \in Windows
    <3>1. {} \in Usages /\ "BGR_888" \in HalFormats
      BY DEF Usages, HalFormats
    <3>2. sBufferDescriptorInfo(source.now.size, "BGR_888", {}) \in Buffers
      BY <1>0, <3>1, BufferType
    <3> QED BY <1>0, <1>11, <3>2 DEF close_stream, NewWindow, Windows
  <2>2. source' \in [now : Frames, pending : BOOLEAN, left : 0 .. MaxChanges]
    <3>1. /\ source \in [now : Frames, pending : BOOLEAN, left : 0 .. MaxChanges]
          /\ source' = [source EXCEPT !.pending = FALSE, !.left = MaxChanges]
      BY <1>11 DEF close_stream, TypeOK
    <3>2. MaxChanges \in 0 .. MaxChanges
      BY GeometryAssumption
    <3> QED BY <3>1, <3>2
  <2> QED BY <1>0, <1>11, <2>1, <2>2 DEF close_stream, TypeOK, BufferTypes
<1>12. CASE UNCHANGED vars
  BY <1>12 DEF vars, TypeOK
<1> QED BY <1>1, <1>2, <1>3, <1>4, <1>5, <1>6, <1>7, <1>8, <1>9, <1>10, <1>11, <1>12 DEF Next
LEMMA NextClosed ==
  ASSUME TypeOK, ClosedInv, [Next]_vars
  PROVE  ClosedInv'
<1>1. CASE SourceChanges \/ UNCHANGED vars
  BY <1>1 DEF SourceChanges, vars, ClosedInv, sessionVars, pqVars
<1>2. CASE findDevice
  BY <1>2 DEF findDevice, ClosedInv, pqVars
<1>3. CASE init
  <2>1. window'.next.usage = {"STRIDE_ALIGN_64"}
    BY <1>3 DEF init, TypeOK, sBufferDescriptorInfo
  <2> QED BY <1>3, <2>1 DEF init, ClosedInv, pqVars
<1>4. CASE OpenStream
  <2>1. PICK size \in Sizes : open_stream(size)
    BY <1>4 DEF OpenStream, TypeOK
  <2>2. window'.next.usage = {"STRIDE_ALIGN_64"}
    <3>1. window.next.usage = {"STRIDE_ALIGN_64"} /\ window \in Windows
      BY <2>1, OpenedStream DEF ClosedInv, TypeOK
    <3>2. CASE dev = "open"
      BY <2>1, <3>1, <3>2, OpenedStream DEF Windows
    <3>3. CASE dev = "ready"
      BY <2>1, <3>1, <3>3, OpenedStream DEF sBufferDescriptorInfo
    <3> QED BY <2>1, <3>2, <3>3, OpenedStream
  <2>3. dev' # "open" => bufs' = NoBufs /\ enc' = None /\ mRkpq' = None
    BY <2>1, OpenedStream DEF ClosedInv, pqVars
  <2> QED BY <2>2, <2>3 DEF ClosedInv
<1>5. CASE get_current_sourcesize
  BY <1>5 DEF get_current_sourcesize, ClosedInv, sessionVars, pqVars
<1>6. CASE hdmiinout \/ recordOff \/ \E mode \in {"off", "normal", "range"} : pqOff(mode)
  BY <1>6 DEF hdmiinout, pqOff, recordOff, ClosedInv, sessionVars
<1>7. ASSUME NEW mode \in {"normal", "range"}, doPQCmd(mode)
      PROVE  ClosedInv'
  BY <1>7 DEF doPQCmd, ClosedInv, sessionVars
<1>8. ASSUME NEW reported \in Rates, doRecordCmd(reported)
      PROVE  ClosedInv'
  BY <1>8 DEF doRecordCmd, ClosedInv, sessionVars
<1>9. CASE close_stream
  BY <1>9 DEF close_stream, ClosedInv
<1> QED BY <1>1, <1>2, <1>3, <1>4, <1>5, <1>6, <1>7, <1>8, <1>9 DEF Next

LEMMA NextRec ==
  ASSUME TypeOK, RecInv, [Next]_vars
  PROVE  RecInv'
<1>0. bufs \in BufferTypes /\ frame.size \in Sizes
  BY DEF TypeOK, BufferTypes, Frames
<1>1. CASE bufs'.rec \in {bufs.rec, None}
  BY <1>1 DEF RecInv
<1>2. ASSUME NEW reported \in Rates, doRecordCmd(reported)
      PROVE  RecInv'
  <2>1. bufs'.rec \in {bufs.rec, allocateSidebandHandle(frame.size, "YCrCb_NV12")}
    BY <1>0, <1>2, RecordAccepted DEF doRecordCmd, TypeOK, BufferTypes
  <2> QED BY <1>0, <2>1 DEF RecInv
<1>3. CASE SourceChanges \/ findDevice \/ init \/ get_current_sourcesize \/ (\E mode \in {"off", "normal", "range"} : pqOff(mode))
           \/ UNCHANGED vars
  BY <1>1, <1>3 DEF SourceChanges, findDevice, init, get_current_sourcesize, pqOff, vars
<1>4. CASE OpenStream
  <2>1. PICK size \in Sizes : open_stream(size)
    BY <1>4 DEF OpenStream, TypeOK
  <2>2. bufs'.rec = bufs.rec
    BY <1>0, <2>1, OpenedStream DEF BufferTypes
  <2> QED BY <1>1, <2>2
<1>5. CASE hdmiinout \/ recordOff
  BY <1>0, <1>1, <1>5 DEF hdmiinout, recordOff, stopRecord, BufferTypes
<1>6. ASSUME NEW mode \in {"normal", "range"}, doPQCmd(mode)
      PROVE  RecInv'
  BY <1>0, <1>1, <1>6 DEF doPQCmd, PqBuffers, BufferTypes
<1>7. CASE close_stream
  BY <1>1, <1>7 DEF close_stream, NoBufs
<1> QED BY <1>2, <1>3, <1>4, <1>5, <1>6, <1>7 DEF Next

LEMMA NextAgree ==
  ASSUME TypeOK, ClosedInv, AgreeInv, [Next]_vars
  PROVE  AgreeInv'
<1> SUFFICES ASSUME dev' = "open", ~changed' PROVE CopiesAgree'
  BY DEF AgreeInv
<1>0. bufs \in BufferTypes /\ frame.size \in Sizes /\ frame.fmt \in Formats
  BY DEF TypeOK, BufferTypes, Frames
<1> DEFINE NV12 == allocateSidebandHandle(frame.size, "YCrCb_NV12")
           TenBit == allocateSidebandHandle(frame.size, "YCrCb_NV12_10")
           NothingElse == UNCHANGED <<frame, window, mUseIep, bufs, mRkpq, enc>>
<1>1. ASSUME dev = "open", ~changed, NothingElse
      PROVE  CopiesAgree'
  BY <1>1 DEF AgreeInv, CopiesAgree
<1>2. CASE SourceChanges \/ UNCHANGED vars
  BY <1>1, <1>2 DEF SourceChanges, vars, sessionVars, pqVars
<1>3. CASE findDevice \/ init \/ close_stream
  BY <1>3 DEF findDevice, init, close_stream
<1>4. CASE OpenStream
  <2>1. PICK size \in Sizes : open_stream(size)
    BY <1>4 DEF OpenStream, TypeOK
  <2>2. CASE dev = "open"
    <3>1. ~changed /\ size = window.crop /\ UNCHANGED <<frame, mUseIep, bufs, mRkpq, enc>>
      BY <2>1, <2>2, OpenedStream DEF pqVars
    <3>2. window' = [window EXCEPT !.crop = size] /\ window \in Windows
      BY <2>1, <2>2, OpenedStream DEF TypeOK
    <3>3. window'.crop = window.crop
      BY <3>1, <3>2
    <3> QED BY <2>2, <3>1, <3>3 DEF AgreeInv, CopiesAgree
  <2>3. CASE dev = "ready"
    <3>1. bufs = NoBufs /\ enc = None /\ mRkpq = None /\ window.next.usage = {"STRIDE_ALIGN_64"}
      BY <2>3 DEF ClosedInv
    <3> DEFINE next == sBufferDescriptorInfo(size, getNativeWindowFormat[frame.fmt],
                                             {"STRIDE_ALIGN_64"})
    <3>2. /\ frame' = [size |-> size, fmt |-> frame.fmt]
          /\ window' = [next |-> next, crop |-> size]
          /\ bufs' = [bufs EXCEPT
               !.cap = window'.next,
               !.sig = allocateSidebandHandle(BufferSize(window'.next), "BGR_888")]
          /\ UNCHANGED <<mRkpq, mUseIep, enc>>
      BY <2>1, <2>3, <3>1, OpenedStream DEF pqVars
    <3>3. next = allocateSidebandHandle(size, getNativeWindowFormat[frame.fmt])
      BY DEF allocateSidebandHandle
    <3>4. BufferSize(next) = size
      BY GeometryAssumption DEF BufferSize, sBufferDescriptorInfo
    <3>5. /\ window'.crop = size /\ window'.next = next
          /\ frame'.size = size /\ frame'.fmt = frame.fmt
      BY <3>2
    <3> HIDE DEF next
    <3>6. /\ bufs'.cap = next /\ bufs'.sig = allocateSidebandHandle(size, "BGR_888")
          /\ bufs'.pq = None /\ bufs'.iep = None /\ bufs'.rec = None
      BY <3>1, <3>2, <3>4, <3>5 DEF NoBufs
    <3> QED BY <3>1, <3>2, <3>3, <3>5, <3>6 DEF CopiesAgree
  <2> QED BY <2>1, <2>2, <2>3, OpenedStream
<1>5. CASE get_current_sourcesize
  <2>1. dev = "open" /\ ~changed /\ NothingElse
    BY <1>5 DEF get_current_sourcesize, sessionVars, pqVars
  <2> QED BY <1>1, <2>1
<1>6. CASE hdmiinout \/ recordOff
  <2>1. dev = "open" /\ ~changed /\ UNCHANGED <<frame, window, mUseIep, mRkpq>>
    BY <1>6 DEF hdmiinout, recordOff, sessionVars, pqVars
  <2>2. enc' = None /\ bufs' = [bufs EXCEPT !.rec = None]
    BY <1>6 DEF hdmiinout, recordOff, stopRecord
  <2>3. /\ bufs'.cap = bufs.cap /\ bufs'.sig = bufs.sig /\ bufs'.pq = bufs.pq
        /\ bufs'.iep = bufs.iep /\ bufs'.rec = None
    BY <1>0, <2>2 DEF BufferTypes
  <2> QED BY <2>1, <2>2, <2>3 DEF AgreeInv, CopiesAgree
<1>7. ASSUME NEW mode \in {"off", "normal", "range"}, pqOff(mode)
      PROVE  CopiesAgree'
  <2>1. dev = "open" /\ ~changed /\ UNCHANGED <<frame, window, mUseIep, bufs, enc>>
    BY <1>7 DEF pqOff, sessionVars
  <2>2. mRkpq' \in {None, mRkpq}
    BY <1>7 DEF pqOff
  <2> QED BY <2>1, <2>2 DEF AgreeInv, CopiesAgree
<1>8. ASSUME NEW mode \in {"normal", "range"}, doPQCmd(mode)
      PROVE  CopiesAgree'
  <2>1. dev = "open" /\ ~changed /\ UNCHANGED <<frame, window, mUseIep, enc>>
    BY <1>8 DEF doPQCmd, sessionVars
  <2>2. CopiesAgree
    BY <2>1 DEF AgreeInv
  <2>3. mRkpq' \in {None, frame}
    BY <1>8, <2>2 DEF doPQCmd, CopiesAgree
  <2>4. bufs' = bufs \/ bufs' = PqBuffers
    BY <1>8 DEF doPQCmd
  <2>5. /\ bufs'.cap = bufs.cap /\ bufs'.sig = bufs.sig /\ bufs'.rec = bufs.rec
        /\ bufs'.pq \in {None, TenBit} /\ bufs'.iep \in {None, NV12}
        /\ bufs'.pq # None /\ mUseIep => bufs'.iep # None
    <3>1. NV12 # None
      BY <1>0, HandleType DEF HalFormats
    <3>2. CASE bufs' = bufs
      BY <2>2, <3>2 DEF CopiesAgree
    <3>3. CASE bufs' = PqBuffers
      <4>1. /\ bufs'.cap = bufs.cap /\ bufs'.sig = bufs.sig /\ bufs'.rec = bufs.rec
            /\ bufs'.pq = IF bufs.pq = None THEN TenBit ELSE bufs.pq
            /\ bufs'.iep = IF bufs.iep = None /\ mUseIep THEN NV12 ELSE bufs.iep
        BY <1>0, <3>3 DEF PqBuffers, BufferTypes
      <4> QED BY <2>2, <3>1, <4>1 DEF CopiesAgree
    <3> QED BY <2>4, <3>2, <3>3
  <2> QED BY <2>1, <2>2, <2>3, <2>5 DEF CopiesAgree
<1>9. ASSUME NEW reported \in Rates, doRecordCmd(reported)
      PROVE  CopiesAgree'
  <2>1. dev = "open" /\ ~changed /\ UNCHANGED <<frame, window, mUseIep, mRkpq>>
    BY <1>9 DEF doRecordCmd, sessionVars, pqVars
  <2>2. frame \in Frames
    BY DEF TypeOK
  <2>3. /\ enc' = RecordConfig(reported)
        /\ bufs' = [bufs EXCEPT !.rec = IF @ = None THEN NV12 ELSE @]
    BY <1>9, <2>2, RecordAccepted DEF doRecordCmd
  <2>4. enc'.prep = [width |-> frame.size.w, height |-> frame.size.h,
                     horStride |-> Aligned(frame.size.w, 16),
                     verStride |-> Aligned(frame.size.h, 16)]
    BY <2>2, <2>3, RecordAccepted
  <2>5. /\ bufs'.cap = bufs.cap /\ bufs'.sig = bufs.sig /\ bufs'.pq = bufs.pq
        /\ bufs'.iep = bufs.iep /\ bufs'.rec = IF bufs.rec = None THEN NV12 ELSE bufs.rec
    BY <1>0, <2>3 DEF BufferTypes
  <2> QED BY <2>1, <2>4, <2>5 DEF AgreeInv, CopiesAgree
<1> QED BY <1>2, <1>3, <1>4, <1>5, <1>6, <1>7, <1>8, <1>9 DEF Next

(* What every state satisfies, whatever was opened, changed and recorded.   *)
THEOREM AlwaysGeometry == Spec => []GeometryInv
<1>1. Init => GeometryInv
  <2> SUFFICES ASSUME Init PROVE GeometryInv
    OBVIOUS
  <2>1. source \in [now : Frames, pending : BOOLEAN, left : 0 .. MaxChanges]
    <3>1. MaxChanges \in 0 .. MaxChanges
      BY GeometryAssumption
    <3> QED BY <3>1 DEF Init
  <2>2. source.now \in Frames /\ source.now.size \in Sizes
    BY <2>1 DEF Frames
  <2>3. window \in Windows
    <3>1. {} \in Usages /\ "BGR_888" \in HalFormats
      BY DEF Usages, HalFormats
    <3>2. sBufferDescriptorInfo(source.now.size, "BGR_888", {}) \in Buffers
      BY <2>2, <3>1, BufferType
    <3> QED BY <2>2, <3>2 DEF Init, NewWindow, Windows
  <2>4. TypeOK
    BY <2>1, <2>2, <2>3 DEF Init, TypeOK, NoBufs
  <2> QED BY <2>4 DEF Init, GeometryInv, ClosedInv, RecInv, AgreeInv, NoBufs
<1>2. GeometryInv /\ [Next]_vars => GeometryInv'
  BY NextType, NextClosed, NextRec, NextAgree DEF GeometryInv
<1> QED BY <1>1, <1>2, PTL DEF Spec

(* Every record command of a running stream leaves an encoder and buffers   *)
(* for it: whatever the sizes and the rate are, the library takes what      *)
(* setupEncCfg() asks of it.                                                *)
THEOREM RecordCommandSucceeds == Spec => RecordingStarts
<1>1. TypeOK /\ [Next]_vars =>
        [\A reported \in Rates : doRecordCmd(reported) => enc' # None /\ bufs'.rec # None]_vars
  <2> SUFFICES ASSUME TypeOK, NEW reported \in Rates, doRecordCmd(reported)
               PROVE  enc' # None /\ bufs'.rec # None
    OBVIOUS
  <2>1. bufs \in BufferTypes /\ frame.size \in Sizes /\ frame \in Frames
    BY DEF TypeOK, BufferTypes, Frames
  <2>2. allocateSidebandHandle(frame.size, "YCrCb_NV12") # None
    BY <2>1, HandleType DEF HalFormats
  <2> QED BY <2>1, <2>2, RecordAccepted DEF doRecordCmd, BufferTypes
<1>2. GeometryInv => TypeOK
  BY DEF GeometryInv
<1> QED BY <1>1, <1>2, AlwaysGeometry, PTL DEF Spec, RecordingStarts
------------------------------------------------------------------------------
(* What a buffer of a format has room for.                                  *)
LEMMA RoomIs ==
  ASSUME NEW size \in Sizes, NEW fmt \in HalFormats
  PROVE  LET b == allocateSidebandHandle(size, fmt)
             rows == Aligned(size.h, 16)
         IN  /\ b.w = size.w /\ b.h = size.h /\ b.fmt = fmt
             /\ RowBytes(b) = CASE fmt = "BGR_888"       -> Aligned(3 * size.w, 64)
                                [] fmt = "YCrCb_NV12_10" -> Aligned((size.w * 10) \div 8, 64)
                                [] OTHER                 -> Aligned(size.w, 64)
             /\ Room(b) = RowBytes(b) * rows
                            + (CASE fmt = "BGR_888"       -> 0
                                 [] fmt = "YCbCr_422_SP"  -> RowBytes(b) * rows
                                 [] fmt = "YCbCr_444_888" -> Aligned(2 * size.w, 64) * rows
                                 [] OTHER                 -> RowBytes(b) * (rows \div 2))
<1> DEFINE b == allocateSidebandHandle(size, fmt)
           rows == Aligned(size.h, 16)
<1>1. /\ b.w = size.w /\ b.h = size.h /\ b.fmt = fmt /\ RowAlign(b) = 64
  BY DEF allocateSidebandHandle, sBufferDescriptorInfo, RowAlign
<1>2. /\ size.w \in Nat /\ size.h \in Nat /\ rows \in Nat
      /\ 2 * size.w \in Nat /\ 3 * size.w \in Nat /\ (size.w * 10) \div 8 \in Nat
  BY GeometryAssumption, Aligned16
<1>3. /\ Aligned(size.w, 64) \in Nat /\ Aligned(2 * size.w, 64) \in Nat
      /\ Aligned(3 * size.w, 64) \in Nat /\ Aligned((size.w * 10) \div 8, 64) \in Nat
  BY <1>2, Aligned64
<1>4. RowBytes(b) = CASE fmt = "BGR_888"       -> Aligned(3 * size.w, 64)
                      [] fmt = "YCrCb_NV12_10" -> Aligned((size.w * 10) \div 8, 64)
                      [] OTHER                 -> Aligned(size.w, 64)
  BY <1>1 DEF RowBytes
<1>5. RowBytes(b) \in Nat
  BY <1>3, <1>4 DEF HalFormats
<1> HIDE DEF b
<1>6. Aligned(b.h, 16) = rows /\ Aligned(2 * b.w, RowAlign(b)) = Aligned(2 * size.w, 64)
  BY <1>1
<1> HIDE DEF rows
<1>7. RowBytes(b) * rows \in Nat
  BY <1>2, <1>5, Products
<1> DEFINE Plane(n) == [strideInBytes |-> RowBytes(b), totalSizeInBytes |-> RowBytes(b) * n]
           chroma == [strideInBytes |-> Aligned(2 * size.w, 64),
                      totalSizeInBytes |-> Aligned(2 * size.w, 64) * rows]
<1>8. PlaneLayouts(b) = CASE fmt = "BGR_888"       -> <<Plane(rows)>>
                          [] fmt = "YCbCr_422_SP"  -> <<Plane(rows), Plane(rows)>>
                          [] fmt = "YCbCr_444_888" -> <<Plane(rows), chroma>>
                          [] OTHER                 -> <<Plane(rows), Plane(rows \div 2)>>
  BY <1>1, <1>6 DEF PlaneLayouts
<1>9. Room(b) = RowBytes(b) * rows
                   + (CASE fmt = "BGR_888"       -> 0
                        [] fmt = "YCbCr_422_SP"  -> RowBytes(b) * rows
                        [] fmt = "YCbCr_444_888" -> Aligned(2 * size.w, 64) * rows
                        [] OTHER                 -> RowBytes(b) * (rows \div 2))
  <2>1. CASE fmt = "BGR_888"
    <3>1. PlaneLayouts(b) = <<Plane(rows)>>
      BY <1>8, <2>1
    <3>2. Len(PlaneLayouts(b)) = 1 /\ PlaneLayouts(b)[1].totalSizeInBytes = RowBytes(b) * rows
      BY <3>1
    <3> QED BY <1>7, <2>1, <3>2 DEF Room
  <2>2. CASE fmt # "BGR_888"
    <3> DEFINE second == CASE fmt = "YCbCr_422_SP"  -> Plane(rows)
                           [] fmt = "YCbCr_444_888" -> chroma
                           [] OTHER                 -> Plane(rows \div 2)
    <3>1. PlaneLayouts(b) = <<Plane(rows), second>>
      BY <1>8, <2>2
    <3>2. /\ Len(PlaneLayouts(b)) # 1
          /\ PlaneLayouts(b)[1].totalSizeInBytes = RowBytes(b) * rows
          /\ PlaneLayouts(b)[2].totalSizeInBytes = second.totalSizeInBytes
      BY <3>1
    <3>3. Room(b) = RowBytes(b) * rows + second.totalSizeInBytes
      BY <3>2 DEF Room
    <3> QED BY <2>2, <3>3
  <2> QED BY <2>1, <2>2
<1> QED BY <1>1, <1>4, <1>9 DEF b, rows

(* A picture of three half-bytes per pixel fits where its rows and their    *)
(* number do, if that number is even.                                       *)
LEMMA Halves ==
  ASSUME NEW a \in Nat, NEW n \in Nat, NEW bytes \in Nat, NEW rows \in Nat,
         a <= bytes, n <= rows, rows % 2 = 0
  PROVE  (3 * a * n) \div 2 <= bytes * rows + bytes * (rows \div 2)
<1> DEFINE half == rows \div 2
           p == a * n
           q == bytes * half
<1>1. half \in Nat /\ rows = 2 * half
  OBVIOUS
<1>2. p <= bytes * rows /\ p \in Nat /\ q \in Nat
  BY <1>1, Products
<1>3. bytes * rows = 2 * q
  BY <1>1
<1>4. 3 * a * n = 3 * p
  OBVIOUS
<1> HIDE DEF p, q
<1>5. (3 * p) \div 2 <= 3 * q
  BY <1>2, <1>3
<1> QED BY <1>3, <1>4, <1>5 DEF q
(* The sides of a picture, and the sides that it is rounded to.             *)
LEMMA Sides ==
  ASSUME NEW size \in Sizes
  PROVE  /\ size.w \in Nat /\ size.h \in Nat /\ size.w >= 1 /\ size.h >= 1
         /\ Aligned(size.w, 64) \in Nat /\ size.w <= Aligned(size.w, 64)
         /\ Aligned(size.w, 16) \in Nat /\ Aligned(size.w, 16) <= Aligned(size.w, 64)
         /\ Aligned(2 * size.w, 64) \in Nat /\ 2 * size.w <= Aligned(2 * size.w, 64)
         /\ Aligned(3 * size.w, 64) \in Nat /\ 3 * size.w <= Aligned(3 * size.w, 64)
         /\ Aligned(size.h, 16) \in Nat /\ size.h <= Aligned(size.h, 16)
         /\ Aligned(size.h, 16) % 2 = 0
<1>1. size.w \in Nat /\ size.h \in Nat /\ size.w >= 1 /\ size.h >= 1
  BY GeometryAssumption
<1>2. 2 * size.w \in Nat /\ 3 * size.w \in Nat
  BY <1>1
<1>3. Aligned(size.h, 16) % 2 = 0
  <2>1. PICK q \in Nat : Aligned(size.h, 16) = 16 * q
    BY <1>1, Aligned16
  <2> QED BY <2>1
<1>4. /\ Aligned(size.w, 16) \in Nat
      /\ Aligned(size.h, 16) \in Nat /\ size.h <= Aligned(size.h, 16)
  BY <1>1, Aligned16
<1>5. \A n \in {size.w, 2 * size.w, 3 * size.w} : Aligned(n, 64) \in Nat /\ n <= Aligned(n, 64)
  BY <1>1, <1>2, Aligned64
<1>6. Aligned(size.w, 16) <= Aligned(size.w, 64)
  BY <1>1, Aligned16And64
<1> QED BY <1>1, <1>3, <1>4, <1>5, <1>6

(* Rows of ten bits are not shorter than rows of eight.                     *)
LEMMA TenBitRows ==
  ASSUME NEW w \in Nat
  PROVE  /\ Aligned((w * 10) \div 8, 64) \in Nat
         /\ Aligned(w, 64) <= Aligned((w * 10) \div 8, 64)
<1>1. (w * 10) \div 8 \in Nat /\ w <= (w * 10) \div 8
  OBVIOUS
<1>2. PICK q \in Nat : Aligned((w * 10) \div 8, 64) = 64 * q
  BY <1>1, Aligned64
<1>3. (w * 10) \div 8 <= 64 * q
  BY <1>1, <1>2, Aligned64
<1> QED BY <1>1, <1>2, <1>3, Aligned64

(* The RGA stays inside the record buffer, whatever size that was made for. *)
LEMMA RgaFits ==
  ASSUME NEW size \in Sizes
  PROVE  Fits(RgaWrites(allocateSidebandHandle(size, "YCrCb_NV12")))
<1> DEFINE b == allocateSidebandHandle(size, "YCrCb_NV12")
           w == size.w
           h == size.h
           bytes == Aligned(w, 64)
           rows == Aligned(h, 16)
<1>1. b.w = w /\ b.h = h /\ Room(b) = bytes * rows + bytes * (rows \div 2)
  BY RoomIs DEF HalFormats
<1>2. /\ w \in Nat /\ h \in Nat /\ bytes \in Nat /\ w <= bytes
      /\ rows \in Nat /\ h <= rows
  BY Sides
<1>3. RgaWrites(b).end = w * rows + w * (h \div 2) /\ RgaWrites(b).buffer = b
  BY <1>1 DEF RgaWrites, RgaTarget, Access
<1> HIDE DEF b, w, h, bytes, rows
<1>4. h \div 2 \in Nat /\ rows \div 2 \in Nat /\ h \div 2 <= rows \div 2
  BY <1>2
<1>5. w * rows <= bytes * rows /\ w * rows \in Nat /\ bytes * rows \in Nat
  BY <1>2, Products
<1>6. /\ w * (h \div 2) <= bytes * (rows \div 2)
      /\ w * (h \div 2) \in Nat /\ bytes * (rows \div 2) \in Nat
  BY <1>2, <1>4, Products
<1>7. Fits(RgaWrites(b))
  BY <1>1, <1>3, <1>5, <1>6 DEF Fits
<1> QED BY <1>7 DEF b

(* What a conversion reads of the captured picture, for the formats of which*)
(* the RGA assumes that rows are as long as their pixels.                   *)
LEMMA PictureFits ==
  ASSUME NEW size \in Sizes, NEW fmt \in Formats, NEW stride \in Nat, stride <= Aligned(size.w, 64),
         fmt \in {"BGR24", "NV24"} => stride = size.w
  PROVE  PictureBytes(fmt, stride, size.h)
           <= Room(allocateSidebandHandle(size, getNativeWindowFormat[fmt]))
<1> DEFINE h == size.h
           bytes == Aligned(size.w, 64)
           rows == Aligned(h, 16)
           room == Room(allocateSidebandHandle(size, getNativeWindowFormat[fmt]))
<1>1. /\ h \in Nat /\ bytes \in Nat /\ rows \in Nat /\ h <= rows /\ rows % 2 = 0
  BY Sides
<1>2. CASE fmt = "BGR24"
  <2>1. room = Aligned(3 * size.w, 64) * rows + 0
    BY <1>2, RoomIs DEF getNativeWindowFormat, HalFormats
  <2>2. 3 * stride \in Nat /\ 3 * stride <= Aligned(3 * size.w, 64) /\ Aligned(3 * size.w, 64) \in Nat
    BY <1>2, Sides
  <2>3. /\ (3 * stride) * h <= Aligned(3 * size.w, 64) * rows
        /\ Aligned(3 * size.w, 64) * rows \in Nat
    BY <1>1, <2>2, Products
  <2> QED BY <1>2, <2>1, <2>3 DEF PictureBytes
<1>3. CASE fmt = "NV12"
  <2>1. room = bytes * rows + bytes * (rows \div 2)
    BY <1>3, RoomIs DEF getNativeWindowFormat, HalFormats
  <2>2. PictureBytes(fmt, stride, h) = (3 * stride * h) \div 2
    BY <1>3 DEF PictureBytes
  <2> HIDE DEF room, bytes, rows, h
  <2>3. (3 * stride * h) \div 2 <= bytes * rows + bytes * (rows \div 2)
    BY <1>1, Halves DEF bytes
  <2> QED BY <2>1, <2>2, <2>3 DEF h, room
<1>4. CASE fmt = "NV16"
  <2>1. room = bytes * rows + bytes * rows
    BY <1>4, RoomIs DEF getNativeWindowFormat, HalFormats
  <2>2. stride * h <= bytes * rows /\ stride * h \in Nat /\ bytes * rows \in Nat
    BY <1>1, Products
  <2>3. PictureBytes(fmt, stride, h) = 2 * (stride * h)
    BY <1>1, <1>4 DEF PictureBytes
  <2> QED BY <2>1, <2>2, <2>3
<1>5. CASE fmt = "NV24"
  <2>1. room = bytes * rows + Aligned(2 * size.w, 64) * rows
    BY <1>5, RoomIs DEF getNativeWindowFormat, HalFormats
  <2>2. /\ stride = size.w /\ 2 * stride \in Nat /\ Aligned(2 * size.w, 64) \in Nat
        /\ 2 * stride <= Aligned(2 * size.w, 64)
    BY <1>5, Sides
  <2>3. stride * h <= bytes * rows /\ stride * h \in Nat /\ bytes * rows \in Nat
    BY <1>1, Products
  <2>4. /\ (2 * stride) * h <= Aligned(2 * size.w, 64) * rows
        /\ (2 * stride) * h \in Nat /\ Aligned(2 * size.w, 64) * rows \in Nat
    BY <1>1, <2>2, Products
  <2>5. PictureBytes(fmt, stride, h) = stride * h + (2 * stride) * h
    BY <1>1, <1>5 DEF PictureBytes
  <2> QED BY <2>1, <2>3, <2>4, <2>5
<1> QED BY <1>2, <1>3, <1>4, <1>5 DEF Formats
(* What the engine reads with the strides it is given.                      *)
LEMMA PqReadsFit ==
  ASSUME NEW f \in Frames
  PROVE  PqReadEnd(f) <= Room(allocateSidebandHandle(f.size, getNativeWindowFormat[f.fmt]))
<1> DEFINE w == f.size.w
           h == f.size.h
           bytes == Aligned(w, 64)
           two == Aligned(2 * w, 64)
           three == Aligned(3 * w, 64)
           rows == Aligned(h, 16)
           room == Room(allocateSidebandHandle(f.size, getNativeWindowFormat[f.fmt]))
<1>0. f.size \in Sizes /\ f.fmt \in Formats
  BY DEF Frames
<1>1. /\ w \in Nat /\ h \in Nat /\ bytes \in Nat /\ rows \in Nat /\ h <= rows /\ w <= bytes
      /\ two \in Nat /\ three \in Nat
  BY <1>0, Sides
<1>2. CASE f.fmt = "BGR24" /\ w % 64 # 0
  <2>1. PqReadEnd(f) = three * h
    BY <1>2 DEF PqReadEnd, PqStride
  <2>2. room = three * rows + 0
    BY <1>0, <1>2, RoomIs DEF getNativeWindowFormat, HalFormats
  <2>3. three * h <= three * rows /\ three * rows \in Nat
    BY <1>1, Products
  <2> QED BY <2>1, <2>2, <2>3
<1>3. CASE f.fmt = "NV24" /\ w % 64 # 0
  <2>1. PqReadEnd(f) = (bytes + two) * h
    BY <1>3 DEF PqReadEnd, PqStride
  <2>2. room = bytes * rows + two * rows
    BY <1>0, <1>3, RoomIs DEF getNativeWindowFormat, HalFormats
  <2> HIDE DEF bytes, two, rows, h, room
  <2>3. (bytes + two) * h <= (bytes + two) * rows /\ bytes + two \in Nat
    BY <1>1, Products
  <2>4. (bytes + two) * rows = bytes * rows + two * rows
    BY <1>1
  <2>5. PqReadEnd(f) <= room
    BY <2>1, <2>2, <2>3, <2>4
  <2> QED BY <2>5 DEF room
<1>4. CASE w % 64 = 0 \/ f.fmt \in {"NV12", "NV16"}
  <2>1. PqReadEnd(f) = PictureBytes(f.fmt, PqStride(f), h)
    BY <1>4 DEF PqReadEnd
  <2>2. /\ PqStride(f) \in Nat /\ PqStride(f) <= bytes
        /\ f.fmt \in {"BGR24", "NV24"} => PqStride(f) = w
    BY <1>1, <1>4 DEF PqStride
  <2> QED BY <1>0, <2>1, <2>2, PictureFits
<1> QED BY <1>0, <1>2, <1>3, <1>4 DEF Formats

(* What is written of a picture with the rows of one format fits a buffer   *)
(* whose rows are not shorter.                                              *)
LEMMA RowsFit ==
  ASSUME NEW size \in Sizes, NEW bytes \in Nat, NEW fmt \in {"YCrCb_NV12", "YCrCb_NV12_10"},
         bytes <= Aligned(size.w, 64) \/
           (fmt = "YCrCb_NV12_10" /\ bytes = Aligned((size.w * 10) \div 8, 64))
  PROVE  (3 * bytes * size.h) \div 2 <= Room(allocateSidebandHandle(size, fmt))
<1> DEFINE h == size.h
           rows == Aligned(h, 16)
           held == RowBytes(allocateSidebandHandle(size, fmt))
<1>1. h \in Nat /\ rows \in Nat /\ h <= rows /\ rows % 2 = 0
  BY Sides
<1>2. held \in Nat /\ bytes <= held
  <2>1. held = IF fmt = "YCrCb_NV12_10" THEN Aligned((size.w * 10) \div 8, 64)
                                        ELSE Aligned(size.w, 64)
    BY RoomIs DEF HalFormats
  <2> HIDE DEF held
  <2>2. /\ Aligned(size.w, 64) \in Nat /\ Aligned((size.w * 10) \div 8, 64) \in Nat
        /\ Aligned(size.w, 64) <= Aligned((size.w * 10) \div 8, 64)
    BY Sides, TenBitRows
  <2> QED BY <2>1, <2>2
<1>3. Room(allocateSidebandHandle(size, fmt)) = held * rows + held * (rows \div 2)
  BY RoomIs DEF HalFormats
<1> HIDE DEF h, rows, held
<1>4. (3 * bytes * h) \div 2 <= held * rows + held * (rows \div 2)
  BY <1>1, <1>2, Halves
<1> QED BY <1>3, <1>4 DEF h

(* What the CPU copies of a picture whose chroma has full resolution.       *)
LEMMA CopyFits ==
  ASSUME NEW size \in Sizes
  PROVE  LET w == size.w
             h == size.h
         IN  /\ w * h + (h \div 2 - 1) * 4 * w + (w \div 2 - 1) * 4 + 2
                  <= Room(allocateSidebandHandle(size, "YCbCr_444_888"))
             /\ w * h + (h \div 2 - 1) * w + (w \div 2 - 1) * 2 + 2
                  <= Room(allocateSidebandHandle(size, "YCrCb_NV12"))
<1> DEFINE w == size.w
           h == size.h
           bytes == Aligned(w, 64)
           two == Aligned(2 * w, 64)
           rows == Aligned(h, 16)
           half == h \div 2
<1>1. /\ w \in Nat /\ h \in Nat /\ bytes \in Nat /\ w <= bytes
      /\ two \in Nat /\ 2 * w <= two /\ rows \in Nat /\ h <= rows
  BY Sides
<1>2. /\ Room(allocateSidebandHandle(size, "YCbCr_444_888")) = bytes * rows + two * rows
      /\ Room(allocateSidebandHandle(size, "YCrCb_NV12")) = bytes * rows + bytes * (rows \div 2)
  BY RoomIs DEF HalFormats
<1>3. half \in Nat /\ 2 * half <= h /\ rows \div 2 \in Nat /\ half <= rows \div 2
  BY <1>1
<1> HIDE DEF w, h, bytes, two, rows, half
<1>4. w * h <= bytes * rows /\ w * h \in Nat /\ bytes * rows \in Nat
  BY <1>1, Products
<1>5. (half - 1) * 4 * w + (w \div 2 - 1) * 4 + 2 <= two * rows
  <2>1. (2 * half) * (2 * w) <= rows * two /\ rows * two \in Nat
    <3>1. 2 * half \in Nat /\ 2 * half <= rows /\ 2 * w \in Nat
      BY <1>1, <1>3
    <3> QED BY <1>1, <3>1, Products
  <2>2. (half - 1) * 4 * w = (2 * half) * (2 * w) - 4 * w
    BY <1>1, <1>3
  <2>3. (w \div 2 - 1) * 4 + 2 <= 4 * w
    BY <1>1
  <2>4. rows * two = two * rows
    BY <1>1
  <2> DEFINE p == (2 * half) * (2 * w)
             q == rows * two
             c == (w \div 2 - 1) * 4 + 2
  <2>5. p \in Nat /\ c \in Int
    BY <1>1, <1>3
  <2> HIDE DEF p, q, c
  <2>6. p - 4 * w + c <= q
    BY <1>1, <2>1, <2>3, <2>5 DEF p, q, c
  <2>7. p - 4 * w + c = (half - 1) * 4 * w + (w \div 2 - 1) * 4 + 2
    BY <1>1, <1>3, <2>2 DEF p, c
  <2> QED BY <2>4, <2>6, <2>7 DEF q
<1>6. (half - 1) * w + (w \div 2 - 1) * 2 + 2 <= bytes * (rows \div 2)
  <2>1. half * w <= (rows \div 2) * bytes /\ half * w \in Nat /\ (rows \div 2) * bytes \in Nat
    BY <1>1, <1>3, Products
  <2>2. (half - 1) * w = half * w - w
    BY <1>1, <1>3
  <2>3. (w \div 2 - 1) * 2 + 2 <= w
    BY <1>1
  <2>4. (rows \div 2) * bytes = bytes * (rows \div 2)
    BY <1>1, <1>3
  <2> DEFINE p == half * w
             q == (rows \div 2) * bytes
             c == (w \div 2 - 1) * 2
  <2>5. c \in Int
    BY <1>1
  <2> HIDE DEF p, q, c
  <2>6. p - w + c + 2 <= q
    BY <1>1, <2>1, <2>3, <2>5 DEF p, q, c
  <2>7. p - w + c + 2 = (half - 1) * w + (w \div 2 - 1) * 2 + 2
    BY <2>2 DEF p, c
  <2> QED BY <2>4, <2>6, <2>7 DEF q
<1>7. /\ w * h + (half - 1) * 4 * w + (w \div 2 - 1) * 4 + 2 <= bytes * rows + two * rows
      /\ w * h + (half - 1) * w + (w \div 2 - 1) * 2 + 2 <= bytes * rows + bytes * (rows \div 2)
  <2> DEFINE c4 == (half - 1) * 4 * w
             d4 == (w \div 2 - 1) * 4
             c1 == (half - 1) * w
             d1 == (w \div 2 - 1) * 2
             p == w * h
             q == bytes * rows
             r == two * rows
             t == bytes * (rows \div 2)
  <2>1. c4 \in Int /\ d4 \in Int /\ c1 \in Int /\ d1 \in Int /\ r \in Int /\ t \in Int
    BY <1>1, <1>3
  <2>2. p <= q /\ p \in Nat /\ q \in Nat /\ c4 + d4 + 2 <= r /\ c1 + d1 + 2 <= t
    BY <1>4, <1>5, <1>6
  <2> HIDE DEF c4, d4, c1, d1, p, q, r, t
  <2>3. p + c4 + d4 + 2 <= q + r /\ p + c1 + d1 + 2 <= q + t
    BY <2>1, <2>2
  <2> QED BY <2>3 DEF c4, d4, c1, d1, p, q, r, t
<1> QED BY <1>2, <1>7 DEF w, h, half
LEMMA RoomNat ==
  ASSUME NEW size \in Sizes, NEW fmt \in HalFormats
  PROVE  /\ Room(allocateSidebandHandle(size, fmt)) \in Nat
         /\ RowBytes(allocateSidebandHandle(size, fmt)) \in Nat
<1> DEFINE bytes == RowBytes(allocateSidebandHandle(size, fmt))
           rows == Aligned(size.h, 16)
           two == Aligned(2 * size.w, 64)
           room == Room(allocateSidebandHandle(size, fmt))
<1>1. rows \in Nat /\ rows \div 2 \in Nat /\ two \in Nat
  BY Sides
<1>2. bytes \in Nat
  <2>1. size.w \in Nat /\ Aligned(size.w, 64) \in Nat /\ Aligned(3 * size.w, 64) \in Nat
    BY Sides
  <2>2. Aligned((size.w * 10) \div 8, 64) \in Nat
    BY <2>1, TenBitRows
  <2> QED BY <2>1, <2>2, RoomIs
<1>3. room = bytes * rows + (CASE fmt = "BGR_888"       -> 0
                               [] fmt = "YCbCr_422_SP"  -> bytes * rows
                               [] fmt = "YCbCr_444_888" -> two * rows
                               [] OTHER                 -> bytes * (rows \div 2))
  BY RoomIs
<1> HIDE DEF bytes, rows, two, room
<1>4. bytes * rows \in Nat /\ two * rows \in Nat /\ bytes * (rows \div 2) \in Nat
  BY <1>1, <1>2, Products
<1>5. room \in Nat
  BY <1>3, <1>4
<1> QED BY <1>2, <1>5 DEF room, bytes
------------------------------------------------------------------------------
LEMMA RecordFits ==
  ASSUME TypeOK, CopiesAgree, NEW a \in RecordAccesses
  PROVE  Fits(a)
<1> DEFINE w == frame.size.w
           h == frame.size.h
           NV12 == allocateSidebandHandle(frame.size, "YCrCb_NV12")
           cap == allocateSidebandHandle(frame.size, getNativeWindowFormat[frame.fmt])
<1>0. frame.size \in Sizes /\ frame.fmt \in Formats
  BY DEF TypeOK, Frames
<1>1. Recording /\ bufs.rec = NV12 /\ bufs.cap = cap /\ enc # None
  BY DEF RecordAccesses, Recording, CopiesAgree
<1>2. \/ RgaConverts /\ a \in CropScale(bufs.cap, bufs.rec)
      \/ ~RgaConverts /\ a \in NV24ToNV12(bufs.cap, bufs.rec)
      \/ a = Access(bufs.rec, EncoderReads(enc).end)
  BY DEF RecordAccesses
<1>3. CASE RgaConverts /\ a \in CropScale(bufs.cap, bufs.rec)
  <2>1. \/ a = Access(cap, PictureBytes(frame.fmt, w, h))
        \/ a = RgaWrites(NV12)
    BY <1>1, <1>3 DEF CropScale
  <2>2. PictureBytes(frame.fmt, w, h) <= Room(cap)
    <3>1. w \in Nat /\ w <= Aligned(w, 64)
      BY <1>0, Sides
    <3> QED BY <1>0, <3>1, PictureFits
  <2>3. Fits(Access(cap, PictureBytes(frame.fmt, w, h)))
    <3> HIDE DEF cap, w, h
    <3> QED BY <2>2 DEF Fits, Access
  <2>4. Fits(RgaWrites(NV12))
    BY <1>0, RgaFits
  <2> QED BY <2>1, <2>3, <2>4
<1>4. CASE ~RgaConverts /\ a \in NV24ToNV12(bufs.cap, bufs.rec)
  <2> DEFINE reads == w * h + (h \div 2 - 1) * 4 * w + (w \div 2 - 1) * 4 + 2
             writes == w * h + (h \div 2 - 1) * w + (w \div 2 - 1) * 2 + 2
  <2>1. a = Access(cap, reads) \/ a = Access(NV12, writes)
    BY <1>1, <1>4 DEF NV24ToNV12
  <2>2. cap = allocateSidebandHandle(frame.size, "YCbCr_444_888")
    BY <1>0, <1>4 DEF RgaConverts, Formats, getNativeWindowFormat
  <2>3. reads <= Room(cap) /\ writes <= Room(NV12)
    BY <1>0, <2>2, CopyFits
  <2> HIDE DEF reads, writes, cap, NV12
  <2> QED BY <2>1, <2>3 DEF Fits, Access
<1>5. CASE a = Access(bufs.rec, EncoderReads(enc).end)
  <2> DEFINE bytes == Aligned(w, 16)
             rows == Aligned(h, 16)
  <2>1. enc.prep.horStride = bytes /\ enc.prep.verStride = rows
    BY <1>1 DEF CopiesAgree
  <2>2. EncoderReads(enc).end = (bytes * rows * 3) \div 2
    BY <2>1 DEF EncoderReads
  <2>3. Room(NV12) = Aligned(w, 64) * rows + Aligned(w, 64) * (rows \div 2)
    BY <1>0, RoomIs DEF HalFormats
  <2>4. /\ bytes \in Nat /\ rows \in Nat /\ rows % 2 = 0
        /\ Aligned(w, 64) \in Nat /\ bytes <= Aligned(w, 64)
    BY <1>0, Sides
  <2> DEFINE held == Aligned(w, 64)
  <2> HIDE DEF bytes, rows, held, NV12
  <2>5. (3 * bytes * rows) \div 2 <= held * rows + held * (rows \div 2)
    <3>1. bytes \in Nat /\ rows \in Nat /\ held \in Nat /\ bytes <= held /\ rows % 2 = 0
      BY <2>4 DEF held
    <3>2. rows <= rows
      BY <3>1
    <3> QED BY <3>1, <3>2, Halves
  <2>6. bytes * rows * 3 = 3 * bytes * rows
    BY <2>4
  <2> QED BY <1>1, <1>5, <2>2, <2>3, <2>5, <2>6 DEF Fits, Access, held
<1> QED BY <1>2, <1>3, <1>4, <1>5

LEMMA PqFits ==
  ASSUME TypeOK, CopiesAgree, NEW a \in PqAccesses
  PROVE  Fits(a)
<1> DEFINE size == frame.size
           NV12 == allocateSidebandHandle(size, "YCrCb_NV12")
           TenBit == allocateSidebandHandle(size, "YCrCb_NV12_10")
           cap == allocateSidebandHandle(size, getNativeWindowFormat[frame.fmt])
           out == RowBytes(PqOutput(frame))
<1>0. frame \in Frames /\ size \in Sizes
  BY DEF TypeOK, Frames
<1>1. PqRunning /\ bufs.pq = TenBit /\ bufs.cap = cap /\ mRkpq = frame
  BY DEF PqAccesses, PqRunning, CopiesAgree
<1>2. mUseIep => bufs.iep = NV12
  BY <1>1 DEF PqRunning, CopiesAgree
<1>3. \/ a = Access(cap, PqReadEnd(frame))
      \/ a = Access(PqTarget, (3 * out * size.h) \div 2)
      \/ /\ mUseIep
         /\ a = Access(bufs.iep, (3 * Aligned(size.w, 64) * size.h) \div 2)
  BY <1>1 DEF PqAccesses
<1>4. Aligned(size.w, 64) \in Nat /\ Aligned((size.w * 10) \div 8, 64) \in Nat
  <2>1. size.w \in Nat
    BY <1>0, Sides
  <2> QED BY <1>0, <2>1, Sides, TenBitRows
<1>5. CASE a = Access(cap, PqReadEnd(frame))
  <2>1. PqReadEnd(frame) <= Room(cap)
    BY <1>0, PqReadsFit
  <2> HIDE DEF cap
  <2> QED BY <1>5, <2>1 DEF Fits, Access
<1>6. CASE a = Access(PqTarget, (3 * out * size.h) \div 2)
  <2>1. CASE mUseIep
    <3>1. out = Aligned(size.w, 64)
      BY <1>0, <2>1, RoomIs DEF PqOutput, HalFormats
    <3>2. PqTarget \in {NV12, TenBit}
      BY <1>1, <1>2, <2>1 DEF PqTarget
    <3> HIDE DEF out, size
    <3>3. (3 * out * size.h) \div 2 <= Room(NV12) /\ (3 * out * size.h) \div 2 <= Room(TenBit)
      BY <1>0, <1>4, <3>1, RowsFit
    <3> HIDE DEF NV12, TenBit
    <3> QED BY <1>6, <3>2, <3>3 DEF Fits, Access
  <2>2. CASE ~mUseIep
    <3>1. out = Aligned((size.w * 10) \div 8, 64)
      BY <1>0, <2>2, RoomIs DEF PqOutput, HalFormats
    <3>2. PqTarget = TenBit
      BY <1>1, <2>2 DEF PqTarget
    <3> HIDE DEF out, size
    <3>3. (3 * out * size.h) \div 2 <= Room(TenBit)
      BY <1>0, <1>4, <3>1, RowsFit
    <3> HIDE DEF TenBit
    <3> QED BY <1>6, <3>2, <3>3 DEF Fits, Access
  <2> QED BY <2>1, <2>2
<1>7. CASE mUseIep /\ a = Access(bufs.iep, (3 * Aligned(size.w, 64) * size.h) \div 2)
  <2>1. (3 * Aligned(size.w, 64) * size.h) \div 2 <= Room(NV12)
    BY <1>0, <1>4, RowsFit
  <2> HIDE DEF NV12, size
  <2> QED BY <1>2, <1>7, <2>1 DEF Fits, Access
<1> QED BY <1>3, <1>5, <1>6, <1>7

LEMMA DumpFits ==
  ASSUME TypeOK, CopiesAgree, NEW a \in DumpAccesses
  PROVE  Fits(a)
<1> DEFINE fmt == getNativeWindowFormat[frame.fmt]
           b == allocateSidebandHandle(frame.size, fmt)
           first == RowBytes(b) * Aligned(frame.size.h, 16)
<1>0. frame.size \in Sizes /\ frame.fmt \in Formats
  BY DEF TypeOK, Frames
<1>1. fmt \in HalFormats \ {"YCrCb_NV12_10"}
  BY <1>0 DEF Formats, getNativeWindowFormat, HalFormats
<1>2. a = dumpImage(b)
  BY DEF DumpAccesses, CopiesAgree
<1>3. b.fmt = fmt
  BY <1>0, <1>1, RoomIs
<1>4. GetNumPlanes(b) = IF fmt = "BGR_888" THEN 1 ELSE 2
  BY <1>1, <1>3 DEF GetNumPlanes, GetHalPixelFormat, HalFormats
<1> HIDE DEF b, fmt
<1>5. /\ GetPlaneSize(b, 0) = PlaneLayouts(b)[1].totalSizeInBytes
      /\ GetNumPlanes(b) = 2 => GetPlaneSize(b, 1) = PlaneLayouts(b)[2].totalSizeInBytes
  BY <1>1, <1>3, <1>4 DEF GetPlaneSize, GetHalPixelFormat
<1>6. Len(PlaneLayouts(b)) = GetNumPlanes(b)
  BY <1>1, <1>3, <1>4 DEF PlaneLayouts, HalFormats
<1>7. dumpImage(b) = Access(b, Room(b))
  BY <1>4, <1>5, <1>6 DEF dumpImage, Room
<1>8. Room(b) <= Room(b)
  <2>1. Room(b) \in Int
    <3>1. frame.size.w \in Nat /\ Aligned(frame.size.h, 16) \in Nat
      BY <1>0, Sides
    <3> QED BY <1>0, <1>1, <3>1, RoomNat DEF b
  <2> QED BY <2>1
<1> QED BY <1>2, <1>7, <1>8 DEF Fits, Access
(* As long as the geometry is the one the stream was opened with, nothing   *)
(* reads or writes beyond the end of a buffer; and the RGA never writes     *)
(* beyond the end of a record buffer, even when the source has changed.     *)
THEOREM NothingOverruns == Spec => []AccessesFit
<1>1. GeometryInv => AccessesFit
  <2> SUFFICES ASSUME GeometryInv PROVE AccessesFit
    OBVIOUS
  <2>0. TypeOK /\ RecInv /\ AgreeInv
    BY DEF GeometryInv
  <2>1. ASSUME ~changed, NEW a \in RecordAccesses \cup PqAccesses \cup DumpAccesses
        PROVE  Fits(a)
    <3>1. dev = "open"
      BY <2>1 DEF RecordAccesses, Recording, PqAccesses, PqRunning, DumpAccesses
    <3>2. CopiesAgree
      BY <2>0, <2>1, <3>1 DEF AgreeInv
    <3> QED BY <2>0, <2>1, <3>2, RecordFits, PqFits, DumpFits
  <2>2. ASSUME Recording PROVE Fits(RgaWrites(bufs.rec))
    BY <2>0, <2>2, RgaFits DEF Recording, RecInv
  <2> QED BY <2>1, <2>2 DEF AccessesFit
<1> QED BY <1>1, AlwaysGeometry, PTL

(* The conversion and the encoder agree on where the rows and the chroma of *)
(* the recorded picture are.                                                *)
THEOREM RecordingIsRight == Spec => []RecordedPictureIsRight
<1>1. GeometryInv => RecordedPictureIsRight
  <2> SUFFICES ASSUME GeometryInv, Recording, ~changed, frame.size.w % 64 = 0,
                      RgaConverts \/ frame.size.h % 16 = 0
               PROVE  /\ frame.size.w = RowBytes(bufs.cap) \div (IF frame.fmt = "BGR24" THEN 3 ELSE 1)
                      /\ EncoderReads(enc).stride = bufs.rec.w
                      /\ EncoderReads(enc).chroma =
                           IF RgaConverts
                             THEN RgaTarget(bufs.rec).stride * RgaTarget(bufs.rec).rows
                             ELSE frame.size.w * frame.size.h
    BY DEF RecordedPictureIsRight
  <2> DEFINE w == frame.size.w
             h == frame.size.h
             NV12 == allocateSidebandHandle(frame.size, "YCrCb_NV12")
  <2>0. frame.size \in Sizes /\ frame.fmt \in Formats
    BY DEF GeometryInv, TypeOK, Frames
  <2>1. CopiesAgree
    BY DEF GeometryInv, AgreeInv, Recording
  <2>2. w \in Nat /\ h \in Nat /\ Aligned(w, 16) = w /\ (h % 16 = 0 => Aligned(h, 16) = h)
    BY <2>0, Sides, Aligned16, Aligned16And64
  <2>3. bufs.rec = NV12 /\ NV12.w = w /\ NV12.h = h
    <3>1. bufs.rec = NV12
      BY <2>1 DEF CopiesAgree, Recording
    <3> QED BY <2>0, <3>1, RoomIs DEF HalFormats
  <2>4. enc.prep.horStride = w /\ enc.prep.verStride = Aligned(h, 16)
    BY <2>1, <2>2 DEF CopiesAgree, Recording
  <2>5. RowBytes(bufs.cap) = IF frame.fmt = "BGR24" THEN 3 * w ELSE w
    <3>1. bufs.cap = allocateSidebandHandle(frame.size, getNativeWindowFormat[frame.fmt])
      BY <2>1 DEF CopiesAgree
    <3>2. Aligned(w, 64) = w /\ Aligned(3 * w, 64) = 3 * w
      <4>1. 3 * w \in Nat /\ (3 * w) % 64 = 0
        BY <2>2
      <4> QED BY <2>2, <4>1, Aligned64
    <3>3. RowBytes(bufs.cap) = IF frame.fmt = "BGR24" THEN Aligned(3 * w, 64) ELSE Aligned(w, 64)
      BY <2>0, <3>1, RoomIs DEF Formats, getNativeWindowFormat, HalFormats
    <3> QED BY <3>2, <3>3
  <2>6. RgaTarget(bufs.rec).stride = w /\ RgaTarget(bufs.rec).rows = Aligned(h, 16)
    BY <2>3 DEF RgaTarget
  <2>7. EncoderReads(enc).stride = w /\ EncoderReads(enc).chroma = w * Aligned(h, 16)
    BY <2>4 DEF EncoderReads
  <2>8. w = RowBytes(bufs.cap) \div (IF frame.fmt = "BGR24" THEN 3 ELSE 1)
    <3> HIDE DEF w
    <3>1. (3 * w) \div 3 = w /\ w \div 1 = w
      BY <2>2
    <3> QED BY <2>5, <3>1
  <2> QED BY <2>2, <2>3, <2>6, <2>7, <2>8
<1> QED BY <1>1, AlwaysGeometry, PTL
------------------------------------------------------------------------------
(* The part of the display that the picture is put on lies in the display.  *)
LEMMA InsideDisplay ==
  ASSUME NEW m \in Modes, NEW ratio \in Ratios
  PROVE  LET r == DisplayRect(m, ratio)
         IN  r.x >= 0 /\ r.y >= 0 /\ r.x + r.w <= m.w /\ r.y + r.h <= m.h
<1>1. m.w \in Nat /\ m.h \in Nat
  BY GeometryAssumption
<1>2. CASE ratio = "SCREEN_16_9"
  BY <1>1, <1>2 DEF DisplayRect
<1>3. CASE ratio = "SCREEN_4_3"
  BY <1>1, <1>3 DEF DisplayRect
<1>4. CASE ratio = "FULL_SCREEN"
  BY <1>1, <1>4 DEF DisplayRect
<1> QED BY <1>2, <1>3, <1>4 DEF Ratios

(* getFbid() divides the width by four before it counts the bytes of ten    *)
(* bits, so that what is left of a width that is no multiple of four is not *)
(* in the pitch.  Its rounding makes up for it unless it ends in the gap.   *)
TenBitRowsHeld ==
  \A size \in Sizes : (size.w * 10) \div 8 <= Aligned((size.w \div 4) * 5, 64)

(* DRM takes a framebuffer of every buffer of the stream.                   *)
LEMMA FbAccepted ==
  ASSUME TenBitRowsHeld, NEW size \in Sizes, NEW fmt \in HalFormats
  PROVE  AddFB2Accepts(allocateSidebandHandle(size, fmt))
<1> DEFINE b == allocateSidebandHandle(size, fmt)
           w == size.w
           h == size.h
           rows == Aligned(h, 16)
           bytes == RowBytes(b)
           two == Aligned(2 * w, 64)
           half == h \div 2
<1>1. /\ w \in Nat /\ h \in Nat /\ rows \in Nat /\ h <= rows /\ two \in Nat /\ bytes \in Nat
      /\ rows \div 2 \in Nat /\ half \in Nat /\ half <= rows \div 2
  <2>1. /\ w \in Nat /\ h \in Nat /\ rows \in Nat /\ h <= rows /\ two \in Nat
    BY Sides
  <2>2. bytes \in Nat
    BY RoomNat
  <2> HIDE DEF rows, h
  <2> QED BY <2>1, <2>2
<1>2. b.w = w /\ b.h = h /\ b.fmt = fmt
  BY RoomIs
<1>3. bytes = CASE fmt = "BGR_888"       -> Aligned(3 * w, 64)
                [] fmt = "YCrCb_NV12_10" -> Aligned((w * 10) \div 8, 64)
                [] OTHER                 -> Aligned(w, 64)
  BY RoomIs
<1>4. Room(b) = bytes * rows + (CASE fmt = "BGR_888"       -> 0
                                  [] fmt = "YCbCr_422_SP"  -> bytes * rows
                                  [] fmt = "YCbCr_444_888" -> two * rows
                                  [] OTHER                 -> bytes * (rows \div 2))
  BY RoomIs
<1>5. PlaneLayouts(b)[1].strideInBytes = bytes
  BY <1>2 DEF PlaneLayouts
<1>6. GetPlaneStride(b, 0) = IF fmt = "YCrCb_NV12_10" THEN w ELSE bytes
  BY <1>2, <1>5 DEF GetPlaneStride, GetNumPlanes, GetHalPixelFormat, GetWidth
<1>7. FbLayout(b).pitch = bytes
  <2>1. CASE fmt # "YCrCb_NV12_10"
    BY <1>2, <1>6, <2>1 DEF FbLayout, GetHalPixelFormat
  <2>2. CASE fmt = "YCrCb_NV12_10"
    <3> DEFINE ten == (w * 10) \div 8
               five == (w \div 4) * 5
    <3>1. FbLayout(b).pitch = Aligned(five, 64)
      BY <1>2, <1>6, <2>2 DEF FbLayout, GetHalPixelFormat
    <3>2. five \in Nat /\ ten \in Nat /\ five <= ten
      BY <1>1
    <3>3. ten <= Aligned(five, 64)
      BY DEF TenBitRowsHeld
    <3> HIDE DEF ten, five
    <3>4. PICK p \in Nat : Aligned(five, 64) = 64 * p
      BY <3>2, Aligned64
    <3>5. PICK q \in Nat : Aligned(ten, 64) = 64 * q
      BY <3>2, Aligned64
    <3>6. Aligned(ten, 64) <= 64 * p
      BY <3>2, <3>3, <3>4, Aligned64
    <3>7. five <= 64 * q
      BY <3>2, <3>5, Aligned64
    <3>8. Aligned(five, 64) <= 64 * q
      BY <3>2, <3>7, Aligned64
    <3>9. Aligned(five, 64) = Aligned(ten, 64)
      BY <3>4, <3>5, <3>6, <3>8
    <3> QED BY <1>3, <2>2, <3>1, <3>9 DEF ten
  <2> QED BY <2>1, <2>2
<1>8. FbLayout(b).offset = bytes * h
  BY <1>2, <1>7 DEF FbLayout, GetHeight
<1>9. FbLayout(b).second = CASE fmt = "BGR_888"       -> 0
                             [] fmt = "YCbCr_444_888" -> two
                             [] OTHER                 -> bytes
  <2>1. CASE fmt # "YCbCr_444_888"
    BY <1>2, <1>7, <2>1 DEF FbLayout
  <2>2. CASE fmt = "YCbCr_444_888"
    <3>1. FbLayout(b).second = IF w = bytes THEN 2 * bytes ELSE two
      BY <1>2, <1>6, <1>7, <2>2 DEF FbLayout, GetWidth
    <3>2. w = bytes => two = 2 * bytes
      <4> SUFFICES ASSUME w = bytes PROVE two = 2 * bytes
        OBVIOUS
      <4>1. bytes = Aligned(w, 64)
        BY <1>3, <2>2
      <4>2. PICK q \in Nat : Aligned(w, 64) = 64 * q
        BY <1>1, Aligned64
      <4>3. w = 64 * q
        BY <4>1, <4>2
      <4>4. 2 * w \in Nat /\ (2 * w) % 64 = 0
        BY <4>3
      <4> QED BY <4>4, Aligned64
    <3> QED BY <2>2, <3>1, <3>2
  <2> QED BY <2>1, <2>2
<1>10. FbRows(b) = IF fmt \in {"YCbCr_422_SP", "YCbCr_444_888"} THEN h ELSE half
  BY <1>2 DEF FbRows
<1>11. AddFB2Accepts(b) <=> FbLayout(b).offset + FbLayout(b).second * FbRows(b) <= Room(b)
  BY <1>1, <1>7 DEF AddFB2Accepts
<1> HIDE DEF b, w, h, rows, bytes, two, half
<1>12. /\ bytes * h <= bytes * rows /\ bytes * h \in Nat /\ bytes * rows \in Nat
       /\ two * h <= two * rows /\ two * h \in Nat /\ two * rows \in Nat
       /\ bytes * half <= bytes * (rows \div 2) /\ bytes * half \in Nat
       /\ bytes * (rows \div 2) \in Nat
  BY <1>1, Products
<1>13. CASE fmt = "BGR_888"
  <2>1. FbLayout(b).second * FbRows(b) = 0
    BY <1>1, <1>9, <1>10, <1>13
  <2> QED BY <1>4, <1>8, <1>11, <1>12, <1>13, <2>1 DEF b
<1>14. CASE fmt = "YCbCr_422_SP"
  BY <1>4, <1>8, <1>9, <1>10, <1>11, <1>12, <1>14 DEF b
<1>15. CASE fmt = "YCbCr_444_888"
  BY <1>4, <1>8, <1>9, <1>10, <1>11, <1>12, <1>15 DEF b
<1>16. CASE fmt \in {"YCrCb_NV12", "YCrCb_NV12_10"}
  BY <1>4, <1>8, <1>9, <1>10, <1>11, <1>12, <1>16 DEF b
<1> QED BY <1>13, <1>14, <1>15, <1>16 DEF HalFormats

(* Whatever is shown makes a framebuffer and is shown whole, inside the     *)
(* display, until the source changes.                                       *)
THEOREM PictureIsWhole ==
  ASSUME TenBitRowsHeld
  PROVE  Spec => []WholePictureShown
<1>1. GeometryInv => WholePictureShown
  <2> SUFFICES ASSUME GeometryInv, ~changed PROVE WholePictureShown
    BY DEF WholePictureShown
  <2>1. ASSUME NEW b \in Shown
        PROVE  AddFB2Accepts(b) /\ window.crop = BufferSize(b)
    <3>0. frame.size \in Sizes /\ frame.fmt \in Formats
      BY DEF GeometryInv, TypeOK, Frames
    <3>1. CopiesAgree /\ dev = "open"
      BY <2>1 DEF Shown, GeometryInv, AgreeInv
    <3>2. \E fmt \in HalFormats : b = allocateSidebandHandle(frame.size, fmt)
      <4>1. b \in {bufs.cap, bufs.sig} \/ (PqRunning /\ b = PqTarget)
        BY <2>1 DEF Shown
      <4>2. bufs.cap = allocateSidebandHandle(frame.size, getNativeWindowFormat[frame.fmt])
        BY <3>1 DEF CopiesAgree
      <4>3. bufs.sig = allocateSidebandHandle(frame.size, "BGR_888")
        BY <3>1 DEF CopiesAgree
      <4>4. PqRunning =>
              PqTarget \in {allocateSidebandHandle(frame.size, "YCrCb_NV12"),
                            allocateSidebandHandle(frame.size, "YCrCb_NV12_10")}
        BY <3>1 DEF PqRunning, PqTarget, CopiesAgree
      <4>5. /\ getNativeWindowFormat[frame.fmt] \in HalFormats
            /\ {"BGR_888", "YCrCb_NV12", "YCrCb_NV12_10"} \subseteq HalFormats
        BY <3>0, NativeFormat DEF HalFormats
      <4> QED BY <4>1, <4>2, <4>3, <4>4, <4>5
    <3>3. PICK fmt \in HalFormats : b = allocateSidebandHandle(frame.size, fmt)
      BY <3>2
    <3>4. BufferSize(b) = frame.size
      BY <3>0, <3>3, GeometryAssumption
         DEF BufferSize, allocateSidebandHandle, sBufferDescriptorInfo
    <3> QED BY <3>0, <3>1, <3>3, <3>4, FbAccepted DEF CopiesAgree
  <2> QED BY <2>1, InsideDisplay DEF WholePictureShown
<1> QED BY <1>1, AlwaysGeometry, PTL
==============================================================================
