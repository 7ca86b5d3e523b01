---------------------------- MODULE SidebandStream ----------------------------
(***************************************************************************)
(* Capture to the screen (TYPF_SIDEBAND_WINDOW), with picture quality (PQ): *)
(*   - WorkThread dequeues a buffer, flushes its cache, hands it to PQ,     *)
(*     shows it unless PQ will, and queues it again (workThread());         *)
(*   - PqBufferThread follows the PQ properties, and processes and shows    *)
(*     what the ring holds (pqBufferThread()), under mBufferLock;           *)
(*   - the binder thread may send a "pq" command, under mBufferLock;        *)
(*   - the V4L2 event thread stops and resumes the capture.                 *)
(* workThread() takes no lock.  The interlaced path (mUseIep) and recording *)
(* are not in this module.                                                  *)
(*                                                                          *)
(* Buffer b is V4L2 buffer b, and also buffer_handle_poll[b], the gralloc   *)
(* handle that aquire_buffer() gave it.                                     *)
(***************************************************************************)
EXTENDS V4L2Queue

CONSTANTS
  K,          \* SIDEBAND_PQ_BUFF_CNT, slots of the PQ ring
  Faults      \* which of FaultKinds may happen

(***************************************************************************)
(* flush      flushCache() fails;                                           *)
(* signal     the event thread stops and resumes the capture;               *)
(* command    "pq" commands arrive;                                         *)
(* stop_mode  one of them has status 0 and a mode other than PQ_OFF;        *)
(* pq_off     the PQ property is switched off again;                        *)
(* race       PQ is switched off and on again while workThread() stands     *)
(*            between its test of mPqMode and its last use of the ring.     *)
(***************************************************************************)
FaultKinds == {"flush", "signal", "command", "stop_mode", "pq_off", "race"}

ASSUME KAssumption == K \in Nat \ {0}
ASSUME FaultsAssumption == Faults \subseteq FaultKinds

VARIABLES
  mState,                  \* "START" or "STOPED"
  currBufferHandleIndex,
  bufferArray,             \* which buffer each v4l2_buffer slot describes
  work,                    \* where workThread() stands
  slot,                    \* mPqBuffIndex as workThread() has loaded it
  property,                \* the PQ mode the properties ask for
  mPqMode,                 \* a set of PqFlags; {} is PQ_OFF
  mPqIniting, mLastPqStatus,
  mRkpq,                   \* mRkpq is not nullptr
  allocated,               \* mPqBufferHandle is not empty
  srcHandle, isFilled,     \* mPqBufferHandle: the PQ ring
  mPqBuffIndex, mPqBuffOutIndex,
  pq,                      \* where the owner of mBufferLock stands
  newMode, back,           \* the mode doPQCmd() switches to, and its caller
  torn                     \* history: the last restart met workThread() in the ring

slots == <<currBufferHandleIndex, bufferArray>>
mode == <<mPqMode, mPqIniting, mLastPqStatus, mRkpq, allocated>>
ring == <<srcHandle, isFilled, mPqBuffIndex, mPqBuffOutIndex>>
locals == <<slot, newMode, back, torn>>
vars == <<driverVars, slots, work, mState, property, mode, ring, pq, locals>>

(* PQ_NORMAL, which stands for PQ_LF_RANGE too, and PQ_CACL_LUMA.           *)
PqFlags == {"normal", "luma"}

NoBuffer == -1
Slots == 0 .. (N - 1)
RingSlots == 0 .. (K - 1)

(* After start(): every buffer is queued, and WorkThread has its one ticket,*)
(* which it keeps (HinDevImpl.cpp:292-294, 1543-1546).                      *)
Init ==
  /\ queued = [i \in 1 .. N |-> i - 1] /\ done = <<>>
  /\ mState = "START" /\ work = "top"
  /\ currBufferHandleIndex = 0 /\ bufferArray = [s \in Slots |-> s]
  /\ property = {}
  /\ mPqMode = {} /\ mPqIniting = FALSE /\ mLastPqStatus = FALSE /\ mRkpq = FALSE
  /\ allocated = FALSE
  /\ srcHandle = [i \in RingSlots |-> NoBuffer]
  /\ isFilled = [i \in RingSlots |-> FALSE]
  /\ mPqBuffIndex = 0 /\ mPqBuffOutIndex = 0
  /\ pq = "top" /\ slot = 0 /\ newMode = {} /\ back = "top"
  /\ torn = FALSE
------------------------------------------------------------------------------
(* workThread().                                                            *)

(* Mutant: the last slot is skipped.                                        *)
WrapsEarly == IF currBufferHandleIndex = N - 1 THEN 0 ELSE currBufferHandleIndex

WrappedIndex == IF currBufferHandleIndex = N THEN 0 ELSE currBufferHandleIndex

(* select() has reported a frame.  (When it times out nothing has changed.) *)
Select ==
  /\ work = "top" /\ mState = "START" /\ Readable
  /\ currBufferHandleIndex' = WrappedIndex
  /\ work' = "dqbuf"
  /\ UNCHANGED <<driverVars, bufferArray, mState, property, mode, ring, pq, locals>>

(* VIDIOC_DQBUF; a capture stopped meanwhile leaves the buffer where it is. *)
Dequeue ==
  /\ work = "dqbuf"
  /\ \E b \in Buffers :
       /\ Dqbuf(b)
       /\ bufferArray' = [bufferArray EXCEPT ![currBufferHandleIndex] = b]
  /\ work' = IF mState = "START" THEN "flush" ELSE "top"
  /\ UNCHANGED <<currBufferHandleIndex, mState, property, mode, ring, pq, locals>>

(* flushCache() of the handle with the number of the slot.                  *)
FlushCache ==
  /\ work = "flush"
  /\ \/ work' = "pq"
     \/ "flush" \in Faults /\ work' = "top"
  /\ UNCHANGED <<driverVars, slots, mState, property, mode, ring, pq, locals>>

RingFull == isFilled[mPqBuffIndex]

(* With PQ on, and room in the ring, the frame is put there.                *)
TestPq ==
  /\ work = "pq"
  /\ work' = IF mPqMode # {} /\ allocated /\ ~RingFull THEN "store" ELSE "show"
  /\ slot' = IF work' = "store" THEN mPqBuffIndex ELSE slot
  /\ UNCHANGED <<driverVars, slots, mState, property, mode, ring, pq, newMode, back,
                 torn>>

(* The index may be read from memory again at each use, or be kept in a     *)
(* register.                                                                *)
Loaded == {slot, mPqBuffIndex}

NextSlot(i) == IF i + 1 = K THEN 0 ELSE i + 1

StoreHandle ==
  /\ work = "store" /\ work' = "fill"
  /\ slot' \in Loaded
  /\ srcHandle' = [srcHandle EXCEPT ![slot'] = currBufferHandleIndex]
  /\ UNCHANGED <<driverVars, slots, mState, property, mode, isFilled,
                 mPqBuffIndex, mPqBuffOutIndex, pq, newMode, back, torn>>

FillSlot ==
  /\ work = "fill" /\ work' = "advance"
  /\ slot' \in Loaded
  /\ isFilled' = [isFilled EXCEPT ![slot'] = TRUE]
  /\ UNCHANGED <<driverVars, slots, mState, property, mode, srcHandle,
                 mPqBuffIndex, mPqBuffOutIndex, pq, newMode, back, torn>>

Advance ==
  /\ work = "advance" /\ work' = "show"
  /\ \E i \in Loaded : mPqBuffIndex' = NextSlot(i)
  /\ slot' = 0
  /\ UNCHANGED <<driverVars, slots, mState, property, mode, srcHandle, isFilled,
                 mPqBuffOutIndex, pq, newMode, back, torn>>

(* Mutant: every PQ mode is taken for one that shows.                       *)
WorkShowsWithoutPq == mPqMode = {} /\ ~mPqIniting

(* Nothing is shown while PQ shows, or is being initialised.                *)
WorkShows == ~("normal" \in mPqMode \/ mPqIniting)

Show ==
  /\ work = "show" /\ WorkShows
  /\ work' = "qbuf"
  /\ UNCHANGED <<driverVars, slots, mState, property, mode, ring, pq, locals>>

ShowNot ==
  /\ work = "show" /\ ~WorkShows
  /\ work' = "qbuf"
  /\ UNCHANGED <<driverVars, slots, mState, property, mode, ring, pq, locals>>

Requeue ==
  /\ work = "qbuf" /\ work' = "top"
  /\ Qbuf(bufferArray[currBufferHandleIndex])
  /\ currBufferHandleIndex' = currBufferHandleIndex + 1
  /\ UNCHANGED <<bufferArray, mState, property, mode, ring, pq, locals>>
------------------------------------------------------------------------------
(* pqBufferThread().                                                        *)

UsesRing == work \in {"store", "fill", "advance"}

(* PQ was on at workThread()'s test and is off when it is switched on, so   *)
(* only an off and an on that both fall into those few instructions meet    *)
(* it there.  No lock rules that out: without race it is an assumption      *)
(* about time.                                                              *)
MayReset == "race" \in Faults \/ ~UsesRing

(* Mutant: the slots keep isFilled.                                         *)
KeepFilled == isFilled' = isFilled

ClearFilled == isFilled' = [i \in RingSlots |-> FALSE]

(* doPQCmd(), whose caller goes on at next.  Switching on is in three steps *)
(* that workThread() may see between: this one, Rewind and StartEngine.     *)
IgnoreCommand(next) ==
  /\ mState # "START"
  /\ mPqMode' = {} /\ pq' = next
  /\ UNCHANGED <<mRkpq, allocated, ring, newMode, back, torn>>

StopEngine(stopPq, m, next) ==
  /\ mState = "START" /\ (stopPq \/ m = {})
  /\ mPqMode' = m /\ mRkpq' = FALSE /\ pq' = next
  /\ UNCHANGED <<allocated, ring, newMode, back, torn>>

SwitchOn(stopPq, m, next) ==
  /\ mState = "START" /\ ~stopPq /\ m # {} /\ mPqMode = {}
  /\ MayReset
  /\ allocated' = TRUE /\ ClearFilled
  /\ newMode' = m /\ back' = next /\ pq' = "rewind" /\ torn' = UsesRing
  /\ UNCHANGED <<mPqMode, mRkpq, srcHandle, mPqBuffIndex, mPqBuffOutIndex>>

ChangeMode(stopPq, m, next) ==
  /\ mState = "START" /\ ~stopPq /\ m # {} /\ mPqMode # {}
  /\ mPqMode' = m /\ pq' = next
  /\ UNCHANGED <<mRkpq, allocated, ring, newMode, back, torn>>

doPQCmd(stopPq, m, next) ==
  \/ IgnoreCommand(next)
  \/ StopEngine(stopPq, m, next)
  \/ SwitchOn(stopPq, m, next)
  \/ ChangeMode(stopPq, m, next)

Rewind ==
  /\ pq = "rewind" /\ pq' = "start"
  /\ mPqBuffIndex' = 0 /\ mPqBuffOutIndex' = 0
  /\ UNCHANGED <<driverVars, slots, work, mState, property, mode, srcHandle, isFilled,
                 locals>>

StartEngine ==
  /\ pq = "start" /\ pq' = back
  /\ mRkpq' = TRUE /\ mPqMode' = newMode
  /\ newMode' = {} /\ back' = "top"
  /\ UNCHANGED <<driverVars, slots, work, mState, property, mPqIniting, mLastPqStatus,
                 allocated, ring, slot, torn>>

FollowProperties ==
  /\ pq = "top"
  /\ mLastPqStatus' = ("normal" \in property)
  /\ mPqIniting' = (mPqIniting \/ mLastPqStatus # ("normal" \in property))
  /\ IF mPqMode # property THEN doPQCmd(FALSE, property, "test")
     ELSE /\ pq' = "test"
          /\ UNCHANGED <<mPqMode, mRkpq, allocated, ring, newMode, back, torn>>
  /\ UNCHANGED <<driverVars, slots, work, mState, property, slot>>

(* Mutant: frames left in the ring are processed whatever the mode.         *)
HasFrameAnyMode == mState = "START" /\ isFilled[mPqBuffOutIndex]

HasFrame ==
  mState = "START" /\ mPqMode # {} /\ allocated /\ isFilled[mPqBuffOutIndex]

TestFrame ==
  /\ pq = "test"
  /\ pq' = IF HasFrame THEN "dopq" ELSE "top"
  /\ UNCHANGED <<driverVars, slots, work, mState, property, mode, ring, locals>>

(* mRkpq->dopq().                                                           *)
DoPq ==
  /\ pq = "dopq" /\ pq' = "show"
  /\ mRkpq
  /\ UNCHANGED <<driverVars, slots, work, mState, property, mode, ring, locals>>

(* Mutant: the slot is not given back.                                      *)
KeepSlot ==
  /\ mPqBuffOutIndex' = NextSlot(mPqBuffOutIndex)
  /\ UNCHANGED <<srcHandle, isFilled, mPqBuffIndex>>

TakeSlot ==
  /\ isFilled' = [isFilled EXCEPT ![mPqBuffOutIndex] = FALSE]
  /\ mPqBuffOutIndex' = NextSlot(mPqBuffOutIndex)
  /\ UNCHANGED <<srcHandle, mPqBuffIndex>>

(* The processed frame is shown and its slot given back.                    *)
ShowPq ==
  /\ pq = "show" /\ pq' = "top" /\ mState = "START"
  /\ "normal" \in mPqMode
  /\ TakeSlot
  /\ UNCHANGED <<driverVars, slots, work, mState, property, mode, locals>>

(* Only the luminance was wanted: nothing to show.                          *)
PassPq ==
  /\ pq = "show" /\ pq' = "top" /\ mState = "START"
  /\ "normal" \notin mPqMode
  /\ TakeSlot
  /\ UNCHANGED <<driverVars, slots, work, mState, property, mode, locals>>

(* The capture was stopped: the frame stays in the ring.                    *)
KeepPq ==
  /\ pq = "show" /\ pq' = "top" /\ mState # "START"
  /\ UNCHANGED <<driverVars, slots, work, mState, property, mode, ring, locals>>
------------------------------------------------------------------------------
(* The environment.                                                         *)

Fill ==
  /\ FillFrame
  /\ UNCHANGED <<slots, work, mState, property, mode, ring, pq, locals>>

SetProperty ==
  /\ \E m \in SUBSET PqFlags :
       /\ "normal" \in property \ m => "pq_off" \in Faults
       /\ property' = m
  /\ UNCHANGED <<driverVars, slots, work, mState, mode, ring, pq, locals>>

(* deal_priv_message("pq") waits for mBufferLock.                           *)
PqCommand ==
  /\ "command" \in Faults /\ pq = "top"
  /\ \E stopPq \in BOOLEAN, m \in SUBSET PqFlags :
       /\ stopPq /\ m # {} => "stop_mode" \in Faults
       /\ doPQCmd(stopPq, m, "top")
  /\ UNCHANGED <<driverVars, slots, work, mState, property, mPqIniting,
                 mLastPqStatus, slot>>

StopOrResume ==
  /\ "signal" \in Faults
  /\ mState' \in {"START", "STOPED"} \ {mState}
  /\ UNCHANGED <<driverVars, slots, work, property, mode, ring, pq, locals>>
------------------------------------------------------------------------------
WorkStep == Select \/ Dequeue \/ FlushCache \/ TestPq \/ StoreHandle \/ FillSlot
              \/ Advance \/ Show \/ ShowNot \/ Requeue
PqStep == FollowProperties \/ Rewind \/ StartEngine \/ TestFrame \/ DoPq \/ ShowPq
            \/ PassPq \/ KeepPq

Next == WorkStep \/ PqStep \/ Fill \/ SetProperty \/ PqCommand \/ StopOrResume

Fairness == WF_vars(WorkStep) /\ WF_vars(PqStep) /\ WF_vars(Fill)

Spec == Init /\ [][Next]_vars /\ Fairness
------------------------------------------------------------------------------
(* workThread() has a buffer that it has not queued again.                  *)
Holding == {"flush", "pq", "store", "fill", "advance", "show", "qbuf"}

(* The slot and ring indexes stay within their arrays, in every mode.       *)
TypeOK ==
  /\ DriverTypeOK
  /\ mState \in {"START", "STOPED"}
  /\ currBufferHandleIndex \in 0 .. N
  /\ work \in {"top", "dqbuf"} \cup Holding
  /\ work # "top" => currBufferHandleIndex \in Slots
  /\ bufferArray \in [Slots -> Buffers]
  /\ property \subseteq PqFlags /\ mPqMode \subseteq PqFlags
  /\ mPqIniting \in BOOLEAN /\ mLastPqStatus \in BOOLEAN /\ mRkpq \in BOOLEAN
  /\ allocated \in BOOLEAN
  /\ srcHandle \in [RingSlots -> Slots \cup {NoBuffer}]
  /\ isFilled \in [RingSlots -> BOOLEAN]
  /\ mPqBuffIndex \in RingSlots /\ mPqBuffOutIndex \in RingSlots /\ slot \in RingSlots
  /\ pq \in {"top", "test", "dopq", "show", "rewind", "start"}
  /\ newMode \subseteq PqFlags /\ back \in {"top", "test"} /\ torn \in BOOLEAN

(* flushCache(), PQ and show() work on the frame just dequeued: "add        *)
(* flushCache to prevent image tearing and ghosting" (HinDevImpl.cpp:1601)  *)
(* does so only for the buffer it flushes.                                  *)
FlushedIsDequeued ==
  work \in Holding => bufferArray[currBufferHandleIndex] = currBufferHandleIndex

(* pqBufferThread() calls dopq() only on a live mRkpq and on a slot that    *)
(* has a source buffer, though properties and "pq" commands switch PQ off   *)
(* and on again while workThread() puts a frame in the ring without a lock. *)
DoPqIsSafe ==
  pq = "dopq" => /\ mRkpq
                 /\ isFilled[mPqBuffOutIndex]
                 /\ srcHandle[mPqBuffOutIndex] # NoBuffer

(* Where the next frame goes, once workThread() is done with this one.      *)
Writer == IF work = "advance" THEN NextSlot(slot) ELSE mPqBuffIndex

(* The frames in the ring, oldest first.                                    *)
Distance == IF Writer >= mPqBuffOutIndex THEN Writer - mPqBuffOutIndex
            ELSE Writer - mPqBuffOutIndex + K
Held == IF isFilled[mPqBuffOutIndex] /\ Distance = 0 THEN K ELSE Distance
At(i) == IF i >= K THEN i - K ELSE i
InRing == [j \in 1 .. Held |-> srcHandle[At(mPqBuffOutIndex + j - 1)]]

(* The filled slots are those from the reader's index up to the writer's,   *)
(* but while doPQCmd() has cleared the slots and not yet the indexes.       *)
(* Excepted is the time from a restart of PQ that meets workThread() in the *)
(* middle of a fill (HinDevImpl.cpp:1612-1620) to the next one that does    *)
(* not: the fill goes on in the ring that has been reset under it.          *)
RingIsWindow ==
  pq # "rewind" /\ ~torn =>
    \A j \in 0 .. (K - 1) : isFilled[At(mPqBuffOutIndex + j)] <=> j < Held

(* The ring is a queue: PQ processes each frame it accepts once, in the     *)
(* order of capture, unless switching PQ on clears it first.                *)
Queue == INSTANCE FrameQueue WITH Frames <- Slots, q <- InRing

RefinesQueue == Queue!Spec

(* While frames arrive and PQ is not switched off, the screen gets a new    *)
(* frame again and again, from workThread() or from pqBufferThread().       *)
ScreenMoves == []<><<Show \/ ShowPq>>_vars
==============================================================================
