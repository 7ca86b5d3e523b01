------------------------ MODULE SidebandStreamProofs ------------------------
(* What holds of SidebandStream for every number of buffers and ring slots, *)
(* and that its ring implements FrameQueue.                                 *)
EXTENDS SidebandStream, TLAPS, SequenceTheorems

LEMMA InitType == Init => TypeOK
<1> SUFFICES ASSUME Init PROVE TypeOK
  OBVIOUS
<1>1. N \in Nat /\ N > 0 /\ K \in Nat /\ K > 0
  BY NAssumption, KAssumption
<1>2. [i \in 1 .. N |-> i - 1] \in Seq(Buffers)
  <2>1. \A i \in 1 .. N : i - 1 \in Buffers
    BY <1>1 DEF Buffers
  <2> QED BY <1>1, <2>1, IsASeq
<1>3. DriverTypeOK
  BY <1>2 DEF Init, DriverTypeOK
<1>4. /\ currBufferHandleIndex \in 0 .. N /\ bufferArray \in [Slots -> Buffers]
      /\ mPqBuffIndex \in RingSlots /\ mPqBuffOutIndex \in RingSlots
  BY <1>1 DEF Init, Slots, Buffers, RingSlots
<1> QED BY <1>3, <1>4 DEF Init, TypeOK

LEMMA CommandType ==
  ASSUME TypeOK, NEW stopPq \in BOOLEAN, NEW m \in SUBSET PqFlags, NEW next \in {"top", "test"},
         doPQCmd(stopPq, m, next)
  PROVE  /\ mPqMode' \subseteq PqFlags /\ mRkpq' \in BOOLEAN /\ allocated' \in BOOLEAN
         /\ UNCHANGED <<srcHandle, mPqBuffIndex, mPqBuffOutIndex>>
         /\ isFilled' \in [RingSlots -> BOOLEAN]
         /\ pq' \in {"top", "test", "rewind"}
         /\ newMode' \subseteq PqFlags /\ back' \in {"top", "test"} /\ torn' \in BOOLEAN
<1>1. CASE IgnoreCommand(next)
  BY <1>1 DEF TypeOK, IgnoreCommand, ring
<1>2. CASE StopEngine(stopPq, m, next)
  BY <1>2 DEF TypeOK, StopEngine, ring
<1>3. CASE SwitchOn(stopPq, m, next)
  BY <1>3 DEF TypeOK, SwitchOn, ClearFilled, UsesRing
<1>4. CASE ChangeMode(stopPq, m, next)
  BY <1>4 DEF TypeOK, ChangeMode, ring
<1> QED BY <1>1, <1>2, <1>3, <1>4 DEF doPQCmd

LEMMA NextSlotType == ASSUME NEW i \in RingSlots PROVE NextSlot(i) \in RingSlots
BY KAssumption DEF RingSlots, NextSlot

LEMMA LoadedType == TypeOK => Loaded \subseteq RingSlots
BY DEF TypeOK, Loaded

LEMMA NextType == TypeOK /\ [Next]_vars => TypeOK'
<1> SUFFICES ASSUME TypeOK, [Next]_vars PROVE TypeOK'
  OBVIOUS
<1> USE DEF TypeOK, DriverTypeOK
<1>0. N \in Nat /\ N > 0 /\ Slots = 0 .. (N - 1) /\ Buffers = 0 .. (N - 1)
  BY NAssumption DEF Slots, Buffers
<1>1. CASE Select
  <2>1. WrappedIndex \in Slots
    BY <1>0 DEF WrappedIndex
  <2>2. currBufferHandleIndex' \in Slots /\ currBufferHandleIndex' \in 0 .. N
        /\ work' = "dqbuf"
    BY <1>0, <1>1, <2>1 DEF Select
  <2>3. UNCHANGED <<queued, done, bufferArray, mState, property, mPqMode, mPqIniting,
                    mLastPqStatus, mRkpq, allocated, srcHandle, isFilled, mPqBuffIndex,
                    mPqBuffOutIndex, pq, slot, newMode, back, torn>>
    BY <1>1 DEF Select, driverVars, mode, ring, locals
  <2> QED BY <2>2, <2>3
<1>2. CASE Dequeue
  <2>1. PICK b \in Buffers : /\ Dqbuf(b)
                             /\ bufferArray' = [bufferArray EXCEPT ![currBufferHandleIndex] = b]
    BY <1>2 DEF Dequeue
  <2>2. DriverTypeOK'
    BY <2>1, HeadTailProperties DEF Dqbuf, Readable
  <2> QED BY <1>2, <2>1, <2>2 DEF Dequeue, mode, ring, locals, Holding
<1>3. CASE FlushCache
  BY <1>3 DEF FlushCache, driverVars, slots, mode, ring, locals, Holding
<1>4. CASE TestPq
  BY <1>4 DEF TestPq, driverVars, slots, mode, ring, Holding
<1>5. CASE StoreHandle
  <2>1. slot' \in RingSlots /\ currBufferHandleIndex \in Slots
    BY <1>5, LoadedType DEF StoreHandle
  <2>2. srcHandle' \in [RingSlots -> Slots \cup {NoBuffer}]
    BY <1>5, <2>1 DEF StoreHandle
  <2> QED BY <1>5, <2>1, <2>2 DEF StoreHandle, driverVars, slots, mode, Holding
<1>6. CASE FillSlot
  <2>1. slot' \in RingSlots
    BY <1>6, LoadedType DEF FillSlot
  <2>2. isFilled' \in [RingSlots -> BOOLEAN]
    BY <1>6 DEF FillSlot
  <2> QED BY <1>6, <2>1, <2>2 DEF FillSlot, driverVars, slots, mode, Holding
<1>19. CASE Advance
  <2>1. mPqBuffIndex' \in RingSlots
    BY <1>19, LoadedType, NextSlotType DEF Advance
  <2>2. slot' \in RingSlots
    BY <1>19, KAssumption DEF Advance, RingSlots
  <2> QED BY <1>19, <2>1, <2>2 DEF Advance, driverVars, slots, mode, Holding
<1>7. CASE Show \/ ShowNot
  BY <1>7 DEF Show, ShowNot, driverVars, slots, mode, ring, locals, Holding
<1>8. CASE Requeue
  <2>1. bufferArray[currBufferHandleIndex] \in Buffers
    BY <1>8 DEF Requeue
  <2>2. DriverTypeOK'
    BY <1>8, <2>1, AppendProperties DEF Requeue, Qbuf
  <2>3. currBufferHandleIndex' \in 0 .. N
    BY <1>0, <1>8 DEF Requeue
  <2> QED BY <1>8, <2>2, <2>3 DEF Requeue, mode, ring, locals
<1>9. CASE FollowProperties
  <2> DEFINE Result == /\ mPqMode' \subseteq PqFlags /\ mRkpq' \in BOOLEAN /\ allocated' \in BOOLEAN
                       /\ UNCHANGED <<srcHandle, mPqBuffIndex, mPqBuffOutIndex>>
                       /\ isFilled' \in [RingSlots -> BOOLEAN]
                       /\ pq' \in {"top", "test", "rewind"}
                       /\ newMode' \subseteq PqFlags /\ back' \in {"top", "test"}
                       /\ torn' \in BOOLEAN
  <2>1. Result
    <3>1. CASE mPqMode # property
      BY <1>9, <3>1, CommandType DEF FollowProperties
    <3>2. CASE mPqMode = property
      BY <1>9, <3>2 DEF FollowProperties, ring
    <3> QED BY <3>1, <3>2
  <2> HIDE DEF Result
  <2>2. mPqIniting' \in BOOLEAN /\ mLastPqStatus' \in BOOLEAN
    BY <1>9 DEF FollowProperties
  <2>3. UNCHANGED <<driverVars, slots, work, mState, property, slot>>
    BY <1>9 DEF FollowProperties
  <2> QED BY <2>1, <2>2, <2>3 DEF Result, driverVars, slots
<1>20. CASE Rewind
  BY <1>20, KAssumption DEF Rewind, RingSlots, driverVars, slots, mode, locals
<1>21. CASE StartEngine
  BY <1>21 DEF StartEngine, driverVars, slots, ring
<1>10. CASE TestFrame
  BY <1>10 DEF TestFrame, driverVars, slots, mode, ring, locals
<1>11. CASE DoPq
  BY <1>11 DEF DoPq, driverVars, slots, mode, ring, locals
<1>12. CASE ShowPq \/ PassPq
  BY <1>12, NextSlotType DEF ShowPq, PassPq, TakeSlot, driverVars, slots, mode, locals
<1>13. CASE KeepPq
  BY <1>13 DEF KeepPq, driverVars, slots, mode, ring, locals
<1>14. CASE Fill
  <2>1. DriverTypeOK'
    BY <1>14, HeadTailProperties, AppendProperties DEF Fill, FillFrame
  <2> QED BY <1>14, <2>1 DEF Fill, slots, mode, ring, locals
<1>15. CASE SetProperty
  BY <1>15 DEF SetProperty, driverVars, slots, mode, ring, locals
<1>16. CASE PqCommand
  <2>1. PICK stopPq \in BOOLEAN, m \in SUBSET PqFlags : doPQCmd(stopPq, m, "top")
    BY <1>16 DEF PqCommand
  <2>2. UNCHANGED <<driverVars, slots, work, mState, property, mPqIniting, mLastPqStatus, slot>>
    BY <1>16 DEF PqCommand
  <2> QED BY <2>1, <2>2, CommandType DEF driverVars, slots
<1>17. CASE StopOrResume
  BY <1>17 DEF StopOrResume, driverVars, slots, mode, ring, locals
<1>18. CASE UNCHANGED vars
  BY <1>18 DEF vars, driverVars, slots, mode, ring, locals
<1> QED
  BY <1>1, <1>2, <1>3, <1>4, <1>5, <1>6, <1>7, <1>8, <1>9, <1>10, <1>11, <1>12,
     <1>13, <1>14, <1>15, <1>16, <1>17, <1>18, <1>19, <1>20, <1>21 DEF Next, WorkStep, PqStep

(* The indexes of the capture slots and of the PQ ring stay within their    *)
(* arrays, whatever faults occur.                                           *)
THEOREM TypeCorrect == Spec => []TypeOK
BY InitType, NextType, PTL DEF Spec
------------------------------------------------------------------------------
(* The ring.  Offset(i) is how far slot i lies behind the reader's index.   *)
Offset(i) == IF i >= mPqBuffOutIndex THEN i - mPqBuffOutIndex
             ELSE i - mPqBuffOutIndex + K

(* RingIsWindow, said of each slot.                                         *)
Window == \A i \in RingSlots : isFilled[i] <=> Offset(i) < Held

LEMMA WriterType == TypeOK => Writer \in RingSlots
BY NextSlotType DEF TypeOK, Writer

LEMMA WindowIsRing == ASSUME TypeOK, pq # "rewind", ~torn PROVE Window <=> RingIsWindow
<1>0. /\ K \in Nat /\ RingSlots = 0 .. (K - 1) /\ mPqBuffOutIndex \in 0 .. (K - 1)
      /\ Writer \in 0 .. (K - 1) /\ Held \in Int
  BY KAssumption, WriterType DEF TypeOK, RingSlots, Held, Distance
<1>1. \A j \in 0 .. (K - 1) : /\ At(mPqBuffOutIndex + j) \in RingSlots
                              /\ Offset(At(mPqBuffOutIndex + j)) = j
  BY <1>0 DEF At, Offset
<1>2. \A i \in RingSlots : /\ Offset(i) \in 0 .. (K - 1)
                           /\ At(mPqBuffOutIndex + Offset(i)) = i
  BY <1>0 DEF At, Offset
<1> QED BY <1>0, <1>1, <1>2 DEF Window, RingIsWindow

(* The slot workThread() is about to fill is free and is the one it has     *)
(* loaded, the one that pqBufferThread() works on is filled, and PQ is off  *)
(* while it is being switched on.                                           *)
RingInv ==
  /\ pq = "rewind" => \A i \in RingSlots : ~isFilled[i]
  /\ pq # "rewind" => Window
  /\ UsesRing => slot = mPqBuffIndex
  /\ work \in {"store", "fill"} => ~isFilled[mPqBuffIndex]
  /\ pq \in {"rewind", "start"} => ~UsesRing /\ mPqMode = {}
  /\ pq \in {"dopq", "show"} => isFilled[mPqBuffOutIndex]

LEMMA WriterIsNext ==
  ASSUME TypeOK, Window, ~isFilled[Writer]
  PROVE  Held = Distance /\ Held < K /\ Offset(Writer) = Held /\ Held \in Nat
<1>0. K \in Nat /\ mPqBuffOutIndex \in 0 .. (K - 1) /\ Writer \in 0 .. (K - 1)
  BY KAssumption, WriterType DEF TypeOK, RingSlots
<1>1. ~ (Offset(Writer) < Held)
  BY WriterType DEF Window
<1> QED BY <1>0, <1>1 DEF Held, Distance, Offset

(* Filling the writer's slot makes the window one slot longer.              *)
LEMMA FillGrows ==
  ASSUME TypeOK, Window, NEW i0 \in RingSlots, Writer = i0, ~isFilled[i0],
         isFilled' = [isFilled EXCEPT ![i0] = TRUE],
         Writer' = NextSlot(i0), mPqBuffOutIndex' = mPqBuffOutIndex
  PROVE  Held' = Held + 1 /\ Window'
<1>0. /\ K \in Nat /\ RingSlots = 0 .. (K - 1) /\ isFilled \in [RingSlots -> BOOLEAN]
      /\ mPqBuffOutIndex \in 0 .. (K - 1) /\ i0 \in 0 .. (K - 1)
  BY KAssumption DEF TypeOK, RingSlots
<1>1. Held = Distance /\ Held < K /\ Offset(i0) = Held
  BY WriterIsNext
<1>2. isFilled'[mPqBuffOutIndex]
  <2>1. Offset(mPqBuffOutIndex) = 0
    BY <1>0 DEF Offset
  <2>2. CASE mPqBuffOutIndex = i0
    BY <1>0, <2>2
  <2>3. CASE mPqBuffOutIndex # i0
    <3>1. 0 < Held
      BY <1>0, <1>1, <2>3 DEF Offset
    <3>2. isFilled[mPqBuffOutIndex]
      BY <1>0, <2>1, <3>1 DEF Window
    <3> QED BY <1>0, <2>3, <3>2
  <2> QED BY <2>2, <2>3
<1>3. Held' = Held + 1
  <2>1. Held' = IF Distance' = 0 THEN K ELSE Distance'
    BY <1>2 DEF Held
  <2>2. Distance' = IF Distance + 1 = K THEN 0 ELSE Distance + 1
    BY <1>0 DEF Distance, NextSlot
  <2> QED BY <1>0, <1>1, <2>1, <2>2 DEF Distance
<1>4. \A i \in RingSlots : Offset(i)' = Offset(i)
  BY DEF Offset
<1>5. \A i \in RingSlots : Offset(i) = Offset(i0) => i = i0
  BY <1>0 DEF Offset
<1>6. ASSUME NEW i \in RingSlots PROVE isFilled'[i] <=> Offset(i)' < Held'
  <2>1. Offset(i) \in Int /\ Held \in Int
    BY <1>0, <1>1 DEF Offset, Distance
  <2>2. isFilled[i] <=> Offset(i) < Held
    BY DEF Window
  <2>3. CASE i = i0
    BY <1>0, <1>1, <1>3, <1>4, <2>1, <2>3
  <2>4. CASE i # i0
    BY <1>0, <1>1, <1>3, <1>4, <1>5, <2>1, <2>2, <2>4
  <2> QED BY <2>3, <2>4
<1> QED BY <1>3, <1>6 DEF Window

(* Giving the reader's slot back makes it one slot shorter.                 *)
LEMMA TakeShrinks ==
  ASSUME TypeOK, Window, isFilled[mPqBuffOutIndex], TakeSlot, Writer' = Writer
  PROVE  Held' = Held - 1 /\ Held \in 1 .. K /\ Window'
<1>0. /\ K \in Nat /\ K > 0 /\ RingSlots = 0 .. (K - 1) /\ isFilled \in [RingSlots -> BOOLEAN]
      /\ mPqBuffOutIndex \in 0 .. (K - 1) /\ Writer \in 0 .. (K - 1)
      /\ Writer' = Writer
      /\ mPqBuffOutIndex' = NextSlot(mPqBuffOutIndex)
      /\ isFilled' = [isFilled EXCEPT ![mPqBuffOutIndex] = FALSE]
  BY KAssumption, WriterType DEF TypeOK, RingSlots, TakeSlot
<1>1. Held \in 1 .. K /\ Held = IF Distance = 0 THEN K ELSE Distance
  BY <1>0 DEF Held, Distance
<1>2. Distance' = IF Distance = 0 THEN K - 1 ELSE Distance - 1
  BY <1>0 DEF Distance, NextSlot
<1>3. Held' = Held - 1
  <2>1. CASE Held = K /\ K = 1
    <3>1. mPqBuffOutIndex' = mPqBuffOutIndex
      BY <1>0, <2>1 DEF NextSlot
    <3>2. ~ isFilled'[mPqBuffOutIndex']
      BY <1>0, <3>1
    <3> QED BY <1>0, <1>1, <1>2, <2>1, <3>2 DEF Held, Distance
  <2>2. CASE K # 1 /\ Distance = 1
    <3>1. ~ isFilled[mPqBuffOutIndex']
      <4>1. mPqBuffOutIndex' \in RingSlots /\ Offset(mPqBuffOutIndex') = 1
        BY <1>0, <2>2 DEF Offset, NextSlot
      <4>2. ~ (Offset(mPqBuffOutIndex') < Held)
        BY <1>1, <2>2, <4>1
      <4> QED BY <4>1, <4>2 DEF Window
    <3>2. mPqBuffOutIndex' # mPqBuffOutIndex /\ mPqBuffOutIndex' \in RingSlots
      BY <1>0, <2>2 DEF NextSlot
    <3>3. ~ isFilled'[mPqBuffOutIndex']
      BY <1>0, <3>1, <3>2
    <3> QED BY <1>1, <1>2, <2>2, <3>3 DEF Held
  <2>3. CASE K # 1 /\ Distance # 1
    BY <1>0, <1>1, <1>2, <2>3 DEF Held, Distance
  <2> QED BY <1>0, <1>1, <2>1, <2>2, <2>3 DEF Distance
<1>4. ASSUME NEW i \in RingSlots PROVE isFilled'[i] <=> Offset(i)' < Held'
  <2>1. isFilled[i] <=> Offset(i) < Held
    BY DEF Window
  <2>2. CASE i = mPqBuffOutIndex
    <3>1. Offset(i)' = K - 1
      BY <1>0, <2>2 DEF Offset, NextSlot
    <3> QED BY <1>0, <1>1, <1>3, <2>2, <3>1
  <2>3. CASE i # mPqBuffOutIndex
    <3>1. Offset(i)' = Offset(i) - 1 /\ Offset(i) \in Int
      BY <1>0, <2>3 DEF Offset, NextSlot
    <3> QED BY <1>0, <1>1, <1>3, <2>1, <2>3, <3>1
  <2> QED BY <2>2, <2>3
<1> QED BY <1>1, <1>3, <1>4 DEF Window

(* With the slots cleared, setting the indexes back empties it.             *)
LEMMA RewindEmpties ==
  ASSUME TypeOK, \A i \in RingSlots : ~isFilled[i], isFilled' = isFilled,
         Writer' = 0, mPqBuffOutIndex' = 0
  PROVE  Held' = 0 /\ Window'
<1>1. K \in Nat /\ K > 0 /\ RingSlots = 0 .. (K - 1)
  BY KAssumption DEF RingSlots
<1>2. Held' = 0
  BY <1>1 DEF Held, Distance
<1>3. ASSUME NEW i \in RingSlots PROVE isFilled'[i] <=> Offset(i)' < Held'
  BY <1>1, <1>2 DEF Offset
<1> QED BY <1>2, <1>3 DEF Window

LEMMA WindowKept ==
  ASSUME isFilled' = isFilled, Writer' = Writer, mPqBuffOutIndex' = mPqBuffOutIndex
  PROVE  Held' = Held /\ (Window => Window')
<1>1. Held' = Held
  BY DEF Held, Distance
<1>2. \A i : Offset(i)' = Offset(i)
  BY DEF Offset
<1> QED BY <1>1, <1>2 DEF Window

(* workThread() stays in the same part of its iteration.                    *)
LEMMA WriterKept ==
  ASSUME UNCHANGED <<work, slot, mPqBuffIndex>>
  PROVE  Writer' = Writer /\ (UsesRing' <=> UsesRing)
BY DEF Writer, UsesRing

(* A restart that finds workThread() outside the ring empties it, whatever   *)
(* was in it.                                                               *)
LEMMA RestartRing ==
  ASSUME ~torn', UNCHANGED <<work, slot>>, NEW stopPq, NEW m, NEW next,
         SwitchOn(stopPq, m, next)
  PROVE  RingInv'
<1>1. ~UsesRing /\ ~UsesRing' /\ pq' = "rewind" /\ mPqMode' = {}
  BY DEF SwitchOn, UsesRing
<1>2. \A i \in RingSlots : ~isFilled'[i]
  BY DEF SwitchOn, ClearFilled
<1> QED BY <1>1, <1>2 DEF RingInv, UsesRing

LEMMA CommandRing ==
  ASSUME TypeOK, RingInv, ~torn', pq = "top", UNCHANGED <<work, slot>>,
         NEW stopPq \in BOOLEAN, NEW m \in SUBSET PqFlags, NEW next \in {"top", "test"},
         doPQCmd(stopPq, m, next)
  PROVE  RingInv'
<1>1. CASE UNCHANGED ring /\ pq' = next
  <2>1. UNCHANGED <<isFilled, mPqBuffIndex, mPqBuffOutIndex>>
    BY <1>1 DEF ring
  <2>2. Window /\ Window'
    BY <2>1, WriterKept, WindowKept DEF RingInv
  <2> QED BY <1>1, <2>1, <2>2, WriterKept DEF RingInv
<1>2. CASE SwitchOn(stopPq, m, next)
  BY <1>2, RestartRing
<1> QED BY <1>1, <1>2 DEF doPQCmd, IgnoreCommand, StopEngine, ChangeMode

LEMMA InitRing == Init => RingInv
<1> SUFFICES ASSUME Init PROVE RingInv
  OBVIOUS
<1>1. K \in Nat /\ K > 0 /\ RingSlots = 0 .. (K - 1)
  BY KAssumption DEF RingSlots
<1>2. Held = 0
  BY <1>1 DEF Init, Held, Distance, Writer
<1>3. Window
  BY <1>1, <1>2 DEF Init, Window, Offset
<1> QED BY <1>3 DEF Init, RingInv, UsesRing

LEMMA NextRing == TypeOK /\ RingInv /\ [Next]_vars => torn' \/ RingInv'
<1> SUFFICES ASSUME TypeOK, RingInv, [Next]_vars, ~torn' PROVE RingInv'
  OBVIOUS
<1>1. ASSUME UNCHANGED <<ring, work, slot>>, pq' = pq, mPqMode' = mPqMode
      PROVE  RingInv'
  BY <1>1, WindowKept, WriterKept DEF ring, RingInv
<1>2. CASE Select \/ Dequeue \/ FlushCache \/ Show \/ ShowNot \/ Requeue
  <2>1. UNCHANGED <<ring, pq, mPqMode>> /\ ~UsesRing /\ ~UsesRing' /\ Writer' = Writer
        /\ work' \notin {"store", "fill"}
    BY <1>2 DEF Select, Dequeue, FlushCache, Show, ShowNot, Requeue, UsesRing, Writer,
                ring, mode
  <2> QED BY <2>1, WindowKept DEF ring, RingInv
<1>3. CASE TestPq
  <2>1. UNCHANGED <<ring, pq, mPqMode>> /\ Writer' = Writer
    BY <1>3 DEF TestPq, Writer, ring, mode
  <2>2. CASE work' = "store"
    <3>1. mPqMode # {} /\ ~isFilled[mPqBuffIndex] /\ slot' = mPqBuffIndex
      BY <1>3, <2>2 DEF TestPq, RingFull
    <3>2. pq \notin {"rewind", "start"}
      BY <3>1 DEF RingInv
    <3> QED BY <2>1, <2>2, <3>1, <3>2, WindowKept DEF ring, RingInv
  <2>3. CASE work' = "show"
    BY <1>3, <2>1, <2>3, WindowKept DEF ring, RingInv, UsesRing
  <2> QED BY <1>3, <2>2, <2>3 DEF TestPq
<1>4. CASE StoreHandle
  <2>1. /\ slot = mPqBuffIndex /\ slot' = mPqBuffIndex /\ pq \notin {"rewind", "start"}
        /\ Writer' = Writer
    BY <1>4 DEF StoreHandle, RingInv, UsesRing, Loaded, Writer
  <2>2. UNCHANGED <<isFilled, mPqBuffIndex, mPqBuffOutIndex, pq>>
        /\ ~isFilled[mPqBuffIndex] /\ work' = "fill"
    BY <1>4 DEF StoreHandle, RingInv
  <2> QED BY <2>1, <2>2, WindowKept DEF RingInv
<1>5. CASE FillSlot
  <2>1. /\ slot = mPqBuffIndex /\ slot' = mPqBuffIndex /\ pq \notin {"rewind", "start"}
        /\ Writer = slot /\ Writer' = NextSlot(slot) /\ ~isFilled[slot]
    BY <1>5 DEF FillSlot, RingInv, UsesRing, Loaded, Writer
  <2>2. UNCHANGED <<mPqBuffIndex, mPqBuffOutIndex, pq>> /\ work' = "advance"
        /\ isFilled' = [isFilled EXCEPT ![slot] = TRUE]
    BY <1>5, <2>1 DEF FillSlot
  <2>3. Window'
    <3>1. slot \in RingSlots /\ Window
      BY <2>1 DEF TypeOK, RingInv
    <3> QED BY <2>1, <2>2, <3>1, FillGrows
  <2>4. isFilled[mPqBuffOutIndex] => isFilled'[mPqBuffOutIndex']
    BY <2>2 DEF TypeOK
  <2> QED BY <2>1, <2>2, <2>3, <2>4 DEF RingInv, UsesRing
<1>6. CASE Advance
  <2>1. /\ Writer' = Writer /\ work' = "show" /\ pq \notin {"rewind", "start"}
        /\ UNCHANGED <<isFilled, mPqBuffOutIndex, pq>>
    BY <1>6 DEF Advance, RingInv, UsesRing, Loaded, Writer
  <2> QED BY <2>1, WindowKept DEF RingInv, UsesRing
<1>7. CASE FollowProperties
  <2>1. CASE mPqMode = property
    <3>1. UNCHANGED <<ring, work, slot, mPqMode>> /\ pq = "top" /\ pq' = "test"
      BY <1>7, <2>1 DEF FollowProperties
    <3> QED BY <3>1, WindowKept, WriterKept DEF ring, RingInv
  <2>2. CASE mPqMode # property
    <3>1. /\ pq = "top" /\ UNCHANGED <<work, slot>> /\ property \in SUBSET PqFlags
          /\ doPQCmd(FALSE, property, "test")
      BY <1>7, <2>2 DEF FollowProperties, TypeOK
    <3> QED BY <3>1, CommandRing
  <2> QED BY <2>1, <2>2
<1>8. CASE Rewind
  <2>1. /\ ~UsesRing /\ ~UsesRing' /\ pq' = "start" /\ mPqMode' = {}
        /\ work' = work /\ Writer' = 0 /\ mPqBuffOutIndex' = 0 /\ isFilled' = isFilled
        /\ \A i \in RingSlots : ~isFilled[i]
    BY <1>8 DEF Rewind, RingInv, UsesRing, Writer, mode
  <2>2. Window'
    BY <2>1, RewindEmpties
  <2> QED BY <2>1, <2>2 DEF RingInv, UsesRing
<1>9. CASE StartEngine
  <2>1. /\ UNCHANGED <<ring, work, slot>> /\ pq = "start" /\ pq' = back
        /\ back \in {"top", "test"}
    BY <1>9 DEF StartEngine, TypeOK
  <2> QED BY <2>1, WindowKept, WriterKept DEF ring, RingInv
<1>10. CASE TestFrame
  <2>1. UNCHANGED <<ring, work, slot>> /\ pq = "test" /\ pq' \in {"top", "dopq"}
        /\ (pq' = "dopq" => isFilled[mPqBuffOutIndex])
    BY <1>10 DEF TestFrame, HasFrame, locals
  <2> QED BY <2>1, WindowKept, WriterKept DEF ring, RingInv
<1>11. CASE DoPq \/ KeepPq
  <2>1. UNCHANGED <<ring, work, slot>> /\ pq \in {"dopq", "show"} /\ pq' \in {"top", "show"}
    BY <1>11 DEF DoPq, KeepPq, locals
  <2> QED BY <2>1, WindowKept, WriterKept DEF ring, RingInv
<1>12. CASE ShowPq \/ PassPq
  <2>1. TakeSlot /\ pq = "show" /\ pq' = "top" /\ UNCHANGED <<work, slot, mPqBuffIndex>>
    BY <1>12 DEF ShowPq, PassPq, TakeSlot, locals
  <2>2. Window'
    BY <2>1, TakeShrinks, WriterKept DEF RingInv
  <2>3. ~isFilled[mPqBuffIndex] => ~isFilled'[mPqBuffIndex']
    BY <2>1 DEF TakeSlot, TypeOK
  <2> QED BY <2>1, <2>2, <2>3, WriterKept DEF RingInv
<1>13. CASE Fill \/ SetProperty \/ StopOrResume \/ UNCHANGED vars
  BY <1>1, <1>13 DEF Fill, SetProperty, StopOrResume, vars, mode, locals
<1>14. CASE PqCommand
  <2>1. PICK stopPq \in BOOLEAN, m \in SUBSET PqFlags : doPQCmd(stopPq, m, "top")
    BY <1>14 DEF PqCommand
  <2>2. pq = "top" /\ UNCHANGED <<work, slot>>
    BY <1>14 DEF PqCommand
  <2> QED BY <2>1, <2>2, CommandRing
<1> QED
  BY <1>2, <1>3, <1>4, <1>5, <1>6, <1>7, <1>8, <1>9, <1>10, <1>11, <1>12, <1>13, <1>14
     DEF Next, WorkStep, PqStep

(* Only a restart makes the ring whole again.                               *)
LEMMA TornRing == torn /\ [Next]_vars => torn' \/ RingInv'
<1> SUFFICES ASSUME torn, [Next]_vars, ~torn' PROVE RingInv'
  OBVIOUS
<1>1. PICK stopPq, m, next : SwitchOn(stopPq, m, next) /\ UNCHANGED <<work, slot>>
  <2>1. CASE FollowProperties
    BY <2>1 DEF FollowProperties, doPQCmd, IgnoreCommand, StopEngine, ChangeMode
  <2>2. CASE PqCommand
    BY <2>2 DEF PqCommand, doPQCmd, IgnoreCommand, StopEngine, ChangeMode
  <2>3. CASE WorkStep \/ Rewind \/ StartEngine \/ TestFrame \/ DoPq \/ ShowPq \/ PassPq
             \/ KeepPq \/ Fill \/ SetProperty \/ StopOrResume \/ UNCHANGED vars
    BY <2>3 DEF WorkStep, Select, Dequeue, FlushCache, TestPq, StoreHandle, FillSlot, Advance,
                Show, ShowNot, Requeue, Rewind, StartEngine, TestFrame, DoPq, ShowPq, PassPq,
                KeepPq, Fill, SetProperty, StopOrResume, vars, locals
  <2> QED BY <2>1, <2>2, <2>3 DEF Next, PqStep
<1> QED BY <1>1, RestartRing

LEMMA AlwaysRing == Spec => [](TypeOK /\ (torn \/ RingInv))
<1>1. Init => TypeOK /\ RingInv
  BY InitType, InitRing
<1>2. TypeOK /\ (torn \/ RingInv) /\ [Next]_vars => torn' \/ RingInv'
  BY NextRing, TornRing
<1> QED BY <1>1, <1>2, NextType, PTL DEF Spec

(* The slots marked filled are exactly those from the reader's index up to  *)
(* the writer's, however many slots there are and whatever faults occur;    *)
(* excepted is what follows a restart of PQ in the middle of a fill, until  *)
(* the next restart outside of one.                                         *)
THEOREM RingStaysWindow == Spec => []RingIsWindow
<1>1. TypeOK /\ (torn \/ RingInv) => RingIsWindow
  BY WindowIsRing DEF RingInv, RingIsWindow
<1> QED BY <1>1, AlwaysRing, PTL

(* Where restarts do not meet fills, none has.                              *)
LEMMA NeverTorn == ASSUME "race" \notin Faults PROVE Spec => []~torn
<1>1. Init => ~torn
  BY DEF Init
<1>2. ~torn /\ [Next]_vars => ~torn'
  <2> SUFFICES ASSUME ~torn, [Next]_vars PROVE ~torn'
    OBVIOUS
  <2>1. ASSUME NEW stopPq, NEW m, NEW next, doPQCmd(stopPq, m, next) PROVE ~torn'
    BY <2>1 DEF doPQCmd, IgnoreCommand, StopEngine, SwitchOn, ChangeMode, MayReset
  <2>2. CASE FollowProperties
    BY <2>1, <2>2 DEF FollowProperties
  <2>3. CASE PqCommand
    BY <2>1, <2>3 DEF PqCommand
  <2>4. CASE WorkStep \/ Rewind \/ StartEngine \/ TestFrame \/ DoPq \/ ShowPq \/ PassPq
             \/ KeepPq \/ Fill \/ SetProperty \/ StopOrResume \/ UNCHANGED vars
    BY <2>4 DEF WorkStep, Select, Dequeue, FlushCache, TestPq, StoreHandle, FillSlot, Advance,
                Show, ShowNot, Requeue, Rewind, StartEngine, TestFrame, DoPq, ShowPq, PassPq,
                KeepPq, Fill, SetProperty, StopOrResume, vars, locals
  <2> QED BY <2>2, <2>3, <2>4 DEF Next, PqStep
<1> QED BY <1>1, <1>2, PTL DEF Spec
------------------------------------------------------------------------------
(* What the slots hold, with race too: the slots are first used in order,   *)
(* so those below an index of workThread() have had a handle since.         *)
HandleInv ==
  /\ \A i \in RingSlots : i < mPqBuffIndex \/ isFilled[i] => srcHandle[i] \in Slots
  /\ UsesRing => /\ mPqBuffIndex \in {slot, 0}
                 /\ \A i \in RingSlots : i < slot => srcHandle[i] \in Slots
  /\ work \in {"fill", "advance"} => srcHandle[slot] \in Slots

LEMMA InitHandles == Init => HandleInv
<1> SUFFICES ASSUME Init PROVE HandleInv
  OBVIOUS
<1>1. \A i \in RingSlots : ~ (i < mPqBuffIndex) /\ ~isFilled[i]
  BY DEF Init, RingSlots
<1> QED BY <1>1 DEF Init, HandleInv, UsesRing

LEMMA NextHandles == TypeOK /\ HandleInv /\ [Next]_vars => HandleInv'
<1> SUFFICES ASSUME TypeOK, HandleInv, [Next]_vars PROVE HandleInv'
  OBVIOUS
<1>0. /\ K \in Nat /\ RingSlots = 0 .. (K - 1) /\ slot \in RingSlots
      /\ mPqBuffIndex \in RingSlots /\ srcHandle \in [RingSlots -> Slots \cup {NoBuffer}]
      /\ isFilled \in [RingSlots -> BOOLEAN]
  BY KAssumption DEF TypeOK, RingSlots
<1>1. CASE Select \/ Dequeue \/ FlushCache \/ Show \/ ShowNot \/ Requeue
  <2>1. UNCHANGED ring /\ ~UsesRing' /\ work' \notin {"fill", "advance"}
    BY <1>1 DEF Select, Dequeue, FlushCache, Show, ShowNot, Requeue, UsesRing
  <2> QED BY <2>1 DEF HandleInv, ring
<1>2. CASE TestPq
  <2>1. UNCHANGED ring /\ work' \notin {"fill", "advance"}
        /\ (UsesRing' => slot' = mPqBuffIndex)
    BY <1>2 DEF TestPq, UsesRing
  <2> QED BY <2>1 DEF HandleInv, ring
<1>3. CASE StoreHandle
  <2>1. /\ slot' \in RingSlots /\ slot' \in {slot, mPqBuffIndex}
        /\ srcHandle' = [srcHandle EXCEPT ![slot'] = currBufferHandleIndex]
        /\ currBufferHandleIndex \in Slots
        /\ UNCHANGED <<isFilled, mPqBuffIndex>> /\ work' = "fill" /\ UsesRing
    BY <1>0, <1>3 DEF StoreHandle, Loaded, TypeOK, UsesRing
  <2>2. /\ srcHandle'[slot'] \in Slots
        /\ \A i \in RingSlots : srcHandle[i] \in Slots => srcHandle'[i] \in Slots
    BY <1>0, <2>1
  <2>3. mPqBuffIndex' \in {slot', 0}
        /\ \A i \in RingSlots : i < slot' => srcHandle[i] \in Slots
    BY <2>1 DEF HandleInv
  <2> QED BY <2>1, <2>2, <2>3 DEF HandleInv
<1>4. CASE FillSlot
  <2>1. /\ slot' \in RingSlots /\ slot' \in {slot, mPqBuffIndex}
        /\ isFilled' = [isFilled EXCEPT ![slot'] = TRUE]
        /\ UNCHANGED <<srcHandle, mPqBuffIndex>> /\ work = "fill" /\ UsesRing
    BY <1>0, <1>4 DEF FillSlot, Loaded, UsesRing
  <2>2. srcHandle[slot'] \in Slots
    <3>1. CASE slot' = slot
      BY <2>1, <3>1 DEF HandleInv
    <3>2. CASE slot' # slot
      <4>1. slot' = 0 /\ slot' < slot
        BY <1>0, <2>1, <3>2 DEF HandleInv
      <4> QED BY <2>1, <4>1 DEF HandleInv
    <3> QED BY <3>1, <3>2
  <2>3. mPqBuffIndex' \in {slot', 0}
        /\ \A i \in RingSlots : i < slot' => srcHandle[i] \in Slots
    BY <2>1 DEF HandleInv
  <2>4. ASSUME NEW i \in RingSlots, isFilled'[i] PROVE srcHandle[i] \in Slots
    BY <1>0, <2>1, <2>2, <2>4 DEF HandleInv
  <2> QED BY <2>1, <2>2, <2>3, <2>4 DEF HandleInv
<1>5. CASE Advance
  <2>1. PICK i0 \in {slot, mPqBuffIndex} : mPqBuffIndex' = NextSlot(i0)
    BY <1>5 DEF Advance, Loaded
  <2>2. /\ UNCHANGED <<srcHandle, isFilled>> /\ work = "advance" /\ UsesRing
        /\ ~UsesRing' /\ work' = "show"
    BY <1>5 DEF Advance, UsesRing
  <2>3. i0 \in RingSlots /\ i0 \in {slot, 0}
    BY <1>0, <2>2 DEF HandleInv
  <2>4. ASSUME NEW i \in RingSlots, i < mPqBuffIndex' PROVE srcHandle[i] \in Slots
    <3>1. i < slot \/ i = slot
      BY <1>0, <2>1, <2>3, <2>4 DEF NextSlot
    <3> QED BY <2>2, <3>1 DEF HandleInv
  <2> QED BY <2>2, <2>4 DEF HandleInv
<1>6. CASE FollowProperties \/ PqCommand
  <2>1. UNCHANGED <<work, slot, srcHandle, mPqBuffIndex>>
        /\ (isFilled' = isFilled \/ ClearFilled)
    BY <1>6 DEF FollowProperties, PqCommand, doPQCmd, IgnoreCommand, StopEngine, SwitchOn,
                ChangeMode, ring
  <2>2. \A i \in RingSlots : isFilled'[i] => isFilled[i]
    BY <2>1 DEF ClearFilled
  <2> QED BY <2>1, <2>2 DEF HandleInv, UsesRing
<1>7. CASE Rewind
  <2>1. UNCHANGED <<work, slot, srcHandle, isFilled>> /\ mPqBuffIndex' = 0
    BY <1>7 DEF Rewind, locals
  <2>2. \A i \in RingSlots : ~ (i < mPqBuffIndex')
    BY <1>0, <2>1
  <2> QED BY <2>1, <2>2 DEF HandleInv, UsesRing
<1>8. CASE ShowPq \/ PassPq
  <2>1. UNCHANGED <<work, slot, srcHandle, mPqBuffIndex>>
        /\ isFilled' = [isFilled EXCEPT ![mPqBuffOutIndex] = FALSE]
    BY <1>8 DEF ShowPq, PassPq, TakeSlot, locals
  <2>2. \A i \in RingSlots : isFilled'[i] => isFilled[i]
    BY <1>0, <2>1
  <2> QED BY <2>1, <2>2 DEF HandleInv, UsesRing
<1>9. CASE StartEngine \/ TestFrame \/ DoPq \/ KeepPq \/ Fill \/ SetProperty \/ StopOrResume
           \/ UNCHANGED vars
  <2>1. UNCHANGED <<work, slot, ring>>
    BY <1>9 DEF StartEngine, TestFrame, DoPq, KeepPq, Fill, SetProperty, StopOrResume, vars,
                locals
  <2> QED BY <2>1 DEF HandleInv, UsesRing, ring
<1> QED
  BY <1>1, <1>2, <1>3, <1>4, <1>5, <1>6, <1>7, <1>8, <1>9
     DEF Next, WorkStep, PqStep

(* PQ that is on, or in use, has an engine, unless a command has both       *)
(* status 0 and a mode; the frame in use is the one marked.                 *)
EngineInv ==
  /\ mPqMode # {} => mRkpq
  /\ pq = "dopq" => mRkpq /\ isFilled[mPqBuffOutIndex]

LEMMA CommandEngine ==
  ASSUME EngineInv, NEW stopPq \in BOOLEAN, NEW m, NEW next \in {"top", "test"},
         ~ (stopPq /\ m # {}), doPQCmd(stopPq, m, next)
  PROVE  EngineInv'
<1>1. CASE IgnoreCommand(next)
  BY <1>1 DEF IgnoreCommand, EngineInv
<1>2. CASE StopEngine(stopPq, m, next)
  BY <1>2 DEF StopEngine, EngineInv
<1>3. CASE SwitchOn(stopPq, m, next)
  BY <1>3 DEF SwitchOn, EngineInv
<1>4. CASE ChangeMode(stopPq, m, next)
  BY <1>4 DEF ChangeMode, EngineInv
<1> QED BY <1>1, <1>2, <1>3, <1>4 DEF doPQCmd

LEMMA NextEngine ==
  ASSUME "stop_mode" \notin Faults
  PROVE  TypeOK /\ EngineInv /\ [Next]_vars => EngineInv'
<1> SUFFICES ASSUME TypeOK, EngineInv, [Next]_vars PROVE EngineInv'
  OBVIOUS
<1>1. CASE UNCHANGED <<mode, ring, pq>>
  BY <1>1 DEF EngineInv, mode, ring
<1>2. CASE FillSlot
  BY <1>2 DEF FillSlot, EngineInv, TypeOK, mode
<1>3. CASE StoreHandle \/ Advance
  BY <1>3 DEF StoreHandle, Advance, EngineInv, mode
<1>4. CASE FollowProperties
  <2>1. CASE mPqMode = property
    BY <1>4, <2>1 DEF FollowProperties, EngineInv
  <2>2. CASE mPqMode # property
    BY <1>4, <2>2, CommandEngine DEF FollowProperties
  <2> QED BY <2>1, <2>2
<1>5. CASE PqCommand
  BY <1>5, CommandEngine DEF PqCommand
<1>6. CASE Rewind \/ StartEngine
  BY <1>6 DEF Rewind, StartEngine, EngineInv, TypeOK, mode
<1>7. CASE TestFrame
  BY <1>7 DEF TestFrame, HasFrame, EngineInv, mode, ring
<1>8. CASE DoPq \/ KeepPq
  BY <1>8 DEF DoPq, KeepPq, EngineInv, mode
<1>9. CASE ShowPq \/ PassPq
  BY <1>9 DEF ShowPq, PassPq, EngineInv, mode
<1>10. CASE Select \/ Dequeue \/ FlushCache \/ TestPq \/ Show \/ ShowNot \/ Requeue \/ Fill
            \/ SetProperty \/ StopOrResume \/ UNCHANGED vars
  BY <1>1, <1>10 DEF Select, Dequeue, FlushCache, TestPq, Show, ShowNot, Requeue, Fill,
                     SetProperty, StopOrResume, vars
<1> QED
  BY <1>2, <1>3, <1>4, <1>5, <1>6, <1>7, <1>8, <1>9, <1>10 DEF Next, WorkStep, PqStep

(* pqBufferThread() calls dopq() only on a live mRkpq and on a slot with a  *)
(* source buffer, whatever order properties, "pq" commands and stops of the *)
(* capture change the mode in, also while workThread() puts a frame in the  *)
(* ring; excepted is a command that asks for status 0 and for a mode.       *)
THEOREM PqIsSafe == ASSUME "stop_mode" \notin Faults PROVE Spec => []DoPqIsSafe
<1>1. Init => HandleInv /\ EngineInv
  BY InitHandles DEF Init, EngineInv
<1>2. TypeOK /\ EngineInv /\ [Next]_vars => EngineInv'
  BY NextEngine
<1>3. TypeOK /\ HandleInv /\ EngineInv => DoPqIsSafe
  <2>1. NoBuffer \notin Slots
    BY NAssumption DEF NoBuffer, Slots
  <2> QED BY <2>1 DEF HandleInv, EngineInv, DoPqIsSafe, TypeOK
<1> QED BY <1>1, <1>2, <1>3, NextHandles, TypeCorrect, PTL DEF Spec
------------------------------------------------------------------------------
(* The ring implements FrameQueue.                                          *)

Contents ==
  /\ Held \in 0 .. K /\ InRing \in Seq(Slots) /\ Len(InRing) = Held
  /\ \A j \in 1 .. Held : /\ InRing[j] = srcHandle[At(mPqBuffOutIndex + j - 1)]
                          /\ At(mPqBuffOutIndex + j - 1) \in RingSlots
                          /\ isFilled[At(mPqBuffOutIndex + j - 1)]

LEMMA RingContents == TypeOK /\ Window /\ HandleInv => Contents
<1> SUFFICES ASSUME TypeOK, Window, HandleInv PROVE Contents
  OBVIOUS
<1>0. /\ K \in Nat /\ K > 0 /\ RingSlots = 0 .. (K - 1)
      /\ mPqBuffOutIndex \in 0 .. (K - 1) /\ Writer \in 0 .. (K - 1)
  BY KAssumption, WriterType DEF TypeOK, RingSlots
<1>1. Held \in 0 .. K
  BY <1>0 DEF Held, Distance
<1>2. ASSUME NEW j \in 1 .. Held
      PROVE  /\ At(mPqBuffOutIndex + j - 1) \in RingSlots
             /\ isFilled[At(mPqBuffOutIndex + j - 1)]
  <2>1. /\ At(mPqBuffOutIndex + j - 1) \in RingSlots
        /\ Offset(At(mPqBuffOutIndex + j - 1)) = j - 1
    BY <1>0, <1>1 DEF At, Offset
  <2> QED BY <1>1, <2>1 DEF Window
<1>3. \A j \in 1 .. Held : srcHandle[At(mPqBuffOutIndex + j - 1)] \in Slots
  BY <1>2 DEF HandleInv
<1>4. InRing \in Seq(Slots)
  BY <1>1, <1>3, IsASeq DEF InRing
<1>5. Len(InRing) = Held
  BY <1>1 DEF InRing
<1> QED BY <1>1, <1>2, <1>4, <1>5 DEF InRing, Contents

LEMMA InRingKept ==
  ASSUME UNCHANGED ring, Writer' = Writer
  PROVE  InRing' = InRing
<1>1. Held' = Held
  BY WindowKept DEF ring
<1> QED BY <1>1 DEF InRing, ring, At

(* workThread() fills the slot it stored the handle in: a Put.              *)
LEMMA FillIsPut ==
  ASSUME TypeOK, RingInv, HandleInv, TypeOK', HandleInv', FillSlot
  PROVE  Queue!Put(srcHandle[slot]) /\ srcHandle[slot] \in Slots
<1> DEFINE f == srcHandle[slot]
<1>a. /\ slot = mPqBuffIndex /\ slot' = slot /\ pq \notin {"rewind", "start"}
      /\ Writer = slot /\ Writer' = NextSlot(slot) /\ ~isFilled[slot] /\ Window
  BY DEF FillSlot, RingInv, UsesRing, Loaded, Writer
<1>b. /\ isFilled' = [isFilled EXCEPT ![slot] = TRUE]
      /\ UNCHANGED <<srcHandle, mPqBuffOutIndex>> /\ slot \in RingSlots
  BY <1>a DEF FillSlot, TypeOK
<1>0. /\ K \in Nat /\ mPqBuffOutIndex \in 0 .. (K - 1) /\ slot \in 0 .. (K - 1)
      /\ f \in Slots
  BY KAssumption DEF TypeOK, RingSlots, FillSlot, HandleInv
<1>1. /\ Held = Distance /\ Held < K /\ Held \in Nat
      /\ Held' = Held + 1 /\ Window'
  BY <1>a, <1>b, WriterIsNext, FillGrows
<1>2. InRing \in Seq(Slots) /\ Len(InRing) = Held
      /\ \A j \in 1 .. Held : InRing[j] = srcHandle[At(mPqBuffOutIndex + j - 1)]
  BY <1>a, RingContents DEF Contents
<1>3. InRing' \in Seq(Slots) /\ Len(InRing') = Held + 1
      /\ \A j \in 1 .. Held + 1 : InRing'[j] = srcHandle[At(mPqBuffOutIndex + j - 1)]
  <2>1. UNCHANGED <<srcHandle, mPqBuffOutIndex>>
    BY <1>b
  <2>2. \A j : At(mPqBuffOutIndex + j - 1)' = At(mPqBuffOutIndex + j - 1)
    BY <2>1 DEF At
  <2>3. InRing' \in Seq(Slots) /\ Len(InRing') = Held'
        /\ \A j \in 1 .. Held' : InRing'[j] = srcHandle'[At(mPqBuffOutIndex + j - 1)']
    <3>1. Contents'
      BY <1>1, RingContents, PTL
    <3> QED BY <3>1 DEF Contents
  <2> QED BY <1>1, <2>1, <2>2, <2>3
<1>4. At(mPqBuffOutIndex + (Held + 1) - 1) = slot
  BY <1>0, <1>1, <1>a DEF At, Distance
<1>5. InRing' = Append(InRing, f)
  <2>1. /\ Append(InRing, f) \in Seq(Slots) /\ Len(Append(InRing, f)) = Held + 1
        /\ \A j \in 1 .. Held : Append(InRing, f)[j] = InRing[j]
        /\ Append(InRing, f)[Held + 1] = f
    BY <1>0, <1>1, <1>2, AppendProperties
  <2>2. ASSUME NEW j \in 1 .. Held + 1 PROVE InRing'[j] = Append(InRing, f)[j]
    <3>1. CASE j = Held + 1
      BY <1>3, <1>4, <2>1, <3>1
    <3>2. CASE j # Held + 1
      <4>1. j \in 1 .. Held
        BY <1>1, <3>2
      <4> QED BY <1>2, <1>3, <2>1, <4>1
    <3> QED BY <3>1, <3>2
  <2> QED BY <1>3, <2>1, <2>2, SeqEqual
<1> QED BY <1>0, <1>1, <1>2, <1>5 DEF Queue!Put

(* pqBufferThread() gives the oldest slot back: a Take.                     *)
LEMMA TakeIsTake ==
  ASSUME TypeOK, RingInv, HandleInv, TypeOK', HandleInv', TakeSlot, pq = "show",
         Writer' = Writer
  PROVE  Queue!Take
<1>0. /\ K \in Nat /\ K > 0 /\ mPqBuffOutIndex \in 0 .. (K - 1)
      /\ mPqBuffOutIndex' = NextSlot(mPqBuffOutIndex) /\ srcHandle' = srcHandle
  BY KAssumption DEF TypeOK, RingSlots, TakeSlot
<1>1. Held' = Held - 1 /\ Held \in 1 .. K /\ Window /\ Window'
  BY TakeShrinks DEF RingInv
<1>2. InRing \in Seq(Slots) /\ Len(InRing) = Held
      /\ \A j \in 1 .. Held : InRing[j] = srcHandle[At(mPqBuffOutIndex + j - 1)]
  BY <1>1, RingContents DEF Contents
<1>3. InRing' \in Seq(Slots) /\ Len(InRing') = Held'
      /\ \A j \in 1 .. Held' : InRing'[j] = srcHandle'[At(mPqBuffOutIndex + j - 1)']
  <2>1. Contents'
    BY <1>1, RingContents, PTL
  <2> QED BY <2>1 DEF Contents
<1>4. \A j \in 1 .. Held - 1 :
        At(mPqBuffOutIndex + j - 1)' = At(mPqBuffOutIndex + (j + 1) - 1)
  BY <1>0, <1>1 DEF At, NextSlot
<1>5. InRing # <<>>
  BY <1>1, <1>2
<1>6. /\ Tail(InRing) \in Seq(Slots) /\ Len(Tail(InRing)) = Held - 1
      /\ \A j \in 1 .. Held - 1 : Tail(InRing)[j] = InRing[j + 1]
  BY <1>2, <1>5, HeadTailProperties
<1>7. ASSUME NEW j \in 1 .. Held - 1 PROVE InRing'[j] = Tail(InRing)[j]
  <2>1. j \in 1 .. Held' /\ j + 1 \in 1 .. Held
    BY <1>1
  <2>2. InRing'[j] = srcHandle[At(mPqBuffOutIndex + (j + 1) - 1)]
    BY <1>0, <1>3, <1>4, <2>1
  <2> QED BY <1>2, <1>6, <2>1, <2>2
<1>8. InRing' = Tail(InRing)
  BY <1>1, <1>3, <1>6, <1>7, SeqEqual
<1> QED BY <1>5, <1>8 DEF Queue!Take

(* Clearing the slots leaves what the indexes say; a full ring is empty.    *)
LEMMA ClearIsClear ==
  ASSUME TypeOK, ClearFilled, UNCHANGED <<srcHandle, mPqBuffOutIndex>>, Writer' = Writer
  PROVE  InRing' = InRing \/ Queue!Clear
<1>1. mPqBuffOutIndex \in RingSlots /\ ~isFilled'[mPqBuffOutIndex']
  BY DEF TypeOK, ClearFilled
<1>2. Distance' = Distance /\ Held' = Distance
  BY <1>1 DEF Distance, Held
<1>3. CASE Held = Distance
  <2>1. \A j : At(mPqBuffOutIndex + j - 1)' = At(mPqBuffOutIndex + j - 1)
    BY DEF At
  <2> QED BY <1>2, <1>3, <2>1 DEF InRing
<1>4. CASE Held # Distance
  <2>1. Held' = 0
    BY <1>2, <1>4 DEF Held
  <2>2. InRing' = <<>>
    BY <2>1 DEF InRing
  <2> QED BY <2>2 DEF Queue!Clear
<1> QED BY <1>3, <1>4

LEMMA CommandIsClear ==
  ASSUME TypeOK, NEW stopPq, NEW m, NEW next, doPQCmd(stopPq, m, next),
         UNCHANGED <<work, slot>>
  PROVE  InRing' = InRing \/ Queue!Clear
<1>1. CASE SwitchOn(stopPq, m, next)
  <2>1. Writer' = Writer
    BY <1>1, WriterKept DEF SwitchOn
  <2> QED BY <1>1, <2>1, ClearIsClear DEF SwitchOn
<1>2. CASE UNCHANGED ring
  <2>1. Writer' = Writer
    BY <1>2, WriterKept DEF ring
  <2> QED BY <1>2, <2>1, InRingKept
<1> QED BY <1>1, <1>2 DEF doPQCmd, IgnoreCommand, StopEngine, ChangeMode

(* The ring between workThread() and pqBufferThread() is a first-in         *)
(* first-out queue of at most K frames: each frame it accepts is processed  *)
(* once, in the order of capture, and lost only when PQ is switched on.  It *)
(* holds unless PQ is switched off and on again while workThread() puts a   *)
(* frame in the ring.                                                       *)
THEOREM ImplementsQueue == ASSUME "race" \notin Faults PROVE Spec => RefinesQueue
<1> DEFINE Inv == TypeOK /\ RingInv /\ HandleInv
<1>1. Init => Queue!Init
  <2> SUFFICES ASSUME Init PROVE InRing = <<>>
    BY DEF Queue!Init
  <2>1. Held = 0
    BY KAssumption DEF Init, Held, Distance, Writer, RingSlots
  <2> QED BY <2>1 DEF InRing
<1>2. Inv /\ Inv' /\ [Next]_vars => [Queue!Next]_InRing
  <2> SUFFICES ASSUME Inv, Inv', [Next]_vars PROVE Queue!Next \/ InRing' = InRing
    OBVIOUS
  <2>1. CASE Select \/ Dequeue \/ FlushCache \/ TestPq \/ Show \/ ShowNot \/ Requeue
    <3>1. UNCHANGED ring /\ Writer' = Writer
      BY <2>1 DEF Select, Dequeue, FlushCache, TestPq, Show, ShowNot, Requeue, Writer, ring
    <3> QED BY <3>1, InRingKept
  <2>2. CASE StoreHandle
    <3>1. ~isFilled[slot] /\ slot' = slot /\ slot \in RingSlots /\ Window
          /\ UNCHANGED <<isFilled, mPqBuffIndex, mPqBuffOutIndex>>
          /\ srcHandle' = [srcHandle EXCEPT ![slot] = currBufferHandleIndex]
      BY <2>2 DEF StoreHandle, RingInv, UsesRing, Loaded, TypeOK
    <3>2. Held' = Held
      <4>1. Writer' = Writer
        BY <2>2, <3>1 DEF StoreHandle, Writer
      <4> QED BY <3>1, <4>1, WindowKept
    <3>3. \A j \in 1 .. Held : srcHandle'[At(mPqBuffOutIndex + j - 1)']
                                 = srcHandle[At(mPqBuffOutIndex + j - 1)]
      <4> SUFFICES ASSUME NEW j \in 1 .. Held
                   PROVE  srcHandle'[At(mPqBuffOutIndex + j - 1)']
                            = srcHandle[At(mPqBuffOutIndex + j - 1)]
        OBVIOUS
      <4>1. /\ At(mPqBuffOutIndex + j - 1) \in RingSlots
            /\ isFilled[At(mPqBuffOutIndex + j - 1)]
        BY <3>1, RingContents DEF Contents
      <4>2. At(mPqBuffOutIndex + j - 1)' = At(mPqBuffOutIndex + j - 1)
        BY <3>1 DEF At
      <4> QED BY <3>1, <4>1, <4>2 DEF TypeOK
    <3> QED BY <3>2, <3>3 DEF InRing
  <2>3. CASE FillSlot
    <3>1. Queue!Put(srcHandle[slot]) /\ srcHandle[slot] \in Slots
      BY <2>3, FillIsPut
    <3> QED BY <3>1 DEF Queue!Next
  <2>4. CASE Advance
    <3>1. /\ slot = mPqBuffIndex /\ Writer' = Writer
          /\ UNCHANGED <<isFilled, mPqBuffOutIndex, srcHandle>>
      BY <2>4 DEF Advance, RingInv, UsesRing, Loaded, Writer
    <3>2. Held' = Held
      BY <3>1, WindowKept
    <3> QED BY <3>1, <3>2 DEF InRing, At
  <2>5. CASE FollowProperties
    <3>1. CASE mPqMode = property
      <4>1. UNCHANGED ring /\ Writer' = Writer
        BY <2>5, <3>1 DEF FollowProperties, Writer, ring
      <4> QED BY <4>1, InRingKept
    <3>2. CASE mPqMode # property
      <4>1. doPQCmd(FALSE, property, "test") /\ UNCHANGED <<work, slot>>
        BY <2>5, <3>2 DEF FollowProperties
      <4> QED BY <4>1, CommandIsClear DEF Queue!Next
    <3> QED BY <3>1, <3>2
  <2>6. CASE Rewind
    <3>1. /\ ~UsesRing /\ UNCHANGED work /\ Writer' = 0 /\ mPqBuffOutIndex' = 0
          /\ isFilled' = isFilled /\ \A i \in RingSlots : ~isFilled[i]
      BY <2>6 DEF Rewind, RingInv, UsesRing, Writer
    <3>2. Held' = 0
      BY <3>1, RewindEmpties
    <3>3. InRing' = <<>>
      BY <3>2 DEF InRing
    <3> QED BY <3>3 DEF Queue!Clear, Queue!Next
  <2>7. CASE StartEngine \/ TestFrame \/ DoPq \/ KeepPq \/ Fill \/ SetProperty \/ StopOrResume
             \/ UNCHANGED vars
    <3>1. UNCHANGED <<ring, work, slot>>
      BY <2>7 DEF StartEngine, TestFrame, DoPq, KeepPq, Fill, SetProperty, StopOrResume, vars,
                  locals
    <3> QED BY <3>1, WriterKept, InRingKept DEF ring
  <2>8. CASE ShowPq \/ PassPq
    <3>1. TakeSlot /\ pq = "show" /\ Writer' = Writer
      BY <2>8 DEF ShowPq, PassPq, TakeSlot, Writer, locals
    <3> QED BY <3>1, TakeIsTake DEF Queue!Next
  <2>9. CASE PqCommand
    <3>1. PICK stopPq \in BOOLEAN, m \in SUBSET PqFlags : doPQCmd(stopPq, m, "top")
      BY <2>9 DEF PqCommand
    <3>2. UNCHANGED <<work, slot>>
      BY <2>9 DEF PqCommand
    <3> QED BY <3>1, <3>2, CommandIsClear DEF Queue!Next
  <2> QED
    BY <2>1, <2>2, <2>3, <2>4, <2>5, <2>6, <2>7, <2>8, <2>9 DEF Next, WorkStep, PqStep
<1>3. Spec => []Inv
  BY AlwaysRing, NeverTorn, InitHandles, NextHandles, TypeCorrect, PTL DEF Spec
<1> QED BY <1>1, <1>2, <1>3, PTL DEF Spec, RefinesQueue, Queue!Spec
------------------------------------------------------------------------------
(* The buffers go round in order.  workThread() holds the one it dequeued   *)
(* until it queues it again; the others are with the driver, in the order   *)
(* of the slots that will receive them.                                     *)
Holds == work \in Holding
WrapN(i) == IF i >= N THEN i - N ELSE i
First == IF Holds THEN currBufferHandleIndex + 1 ELSE WrappedIndex
OutOfDriver == IF Holds THEN 1 ELSE 0

OrderInv ==
  /\ mState = "START"
  /\ Len(done) + Len(queued) = N - OutOfDriver
  /\ \A i \in 1 .. Len(done) : done[i] = WrapN(First + i - 1)
  /\ \A i \in 1 .. Len(queued) : queued[i] = WrapN(First + Len(done) + i - 1)
  /\ FlushedIsDequeued

LEMMA InitOrder == Init => OrderInv
<1> SUFFICES ASSUME Init PROVE OrderInv
  OBVIOUS
<1>1. N \in Nat /\ N > 0
  BY NAssumption
<1>2. Len(queued) = N /\ Len(done) = 0
  BY <1>1 DEF Init
<1>3. ~Holds /\ First = 0 /\ OutOfDriver = 0
  BY <1>1 DEF Init, Holds, Holding, First, OutOfDriver, WrappedIndex
<1>4. \A i \in 1 .. N : queued[i] = WrapN(i - 1)
  BY <1>1 DEF Init, WrapN
<1> QED BY <1>1, <1>2, <1>3, <1>4 DEF Init, OrderInv, FlushedIsDequeued, Holding

LEMMA FillOrder == TypeOK /\ OrderInv /\ Fill => OrderInv'
<1> SUFFICES ASSUME TypeOK, OrderInv, Fill PROVE OrderInv'
  OBVIOUS
<1>1. queued \in Seq(Buffers) /\ done \in Seq(Buffers) /\ queued # <<>>
      /\ Len(done) \in Nat /\ Len(queued) \in Nat /\ Len(queued) > 0
      /\ First \in Int
  BY NAssumption, LenProperties, EmptySeq
     DEF TypeOK, DriverTypeOK, Fill, FillFrame, First, WrappedIndex
<1>2. /\ UNCHANGED <<slots, work, mState>>
      /\ First' = First /\ OutOfDriver' = OutOfDriver
  BY DEF Fill, slots, First, OutOfDriver, Holds, Holding, WrappedIndex
<1>3. Head(queued) = queued[1] /\ Head(queued) \in Buffers
  BY <1>1, HeadTailProperties
<1>4. /\ Len(done') = Len(done) + 1
      /\ \A i \in 1 .. Len(done) : done'[i] = done[i]
      /\ done'[Len(done) + 1] = queued[1]
  BY <1>1, <1>3, AppendProperties DEF Fill, FillFrame
<1>5. /\ Len(queued') = Len(queued) - 1
      /\ \A i \in 1 .. Len(queued) - 1 : queued'[i] = queued[i + 1]
  BY <1>1, HeadTailProperties DEF Fill, FillFrame
<1>6. ASSUME NEW i \in 1 .. Len(done') PROVE done'[i] = WrapN(First + i - 1)
  <2>1. CASE i = Len(done) + 1
    <3>1. queued[1] = WrapN(First + Len(done) + 1 - 1)
      BY <1>1 DEF OrderInv
    <3>2. First + Len(done) + 1 - 1 = First + i - 1
      BY <1>1, <2>1
    <3> QED BY <1>4, <2>1, <3>1, <3>2
  <2>2. CASE i # Len(done) + 1
    <3>1. i \in 1 .. Len(done)
      BY <1>1, <1>4, <2>2
    <3> QED BY <1>4, <3>1 DEF OrderInv
  <2> QED BY <2>1, <2>2
<1>7. ASSUME NEW i \in 1 .. Len(queued') PROVE queued'[i] = WrapN(First + Len(done') + i - 1)
  <2>1. i \in 1 .. Len(queued) - 1 /\ i + 1 \in 1 .. Len(queued)
    BY <1>1, <1>5
  <2>2. queued[i + 1] = WrapN(First + Len(done) + (i + 1) - 1)
    BY <2>1 DEF OrderInv
  <2>3. First + Len(done) + (i + 1) - 1 = First + Len(done') + i - 1
    BY <1>1, <1>4, <2>1
  <2> QED BY <1>5, <2>1, <2>2, <2>3
<1>8. FlushedIsDequeued'
  BY <1>2 DEF OrderInv, FlushedIsDequeued, slots
<1>9. WrapN(First + 1)' = WrapN(First + 1) /\ \A j : WrapN(j)' = WrapN(j)
  BY <1>2 DEF WrapN
<1> QED BY <1>1, <1>2, <1>4, <1>5, <1>6, <1>7, <1>8, <1>9 DEF OrderInv

LEMMA DequeueOrder ==
  TypeOK /\ OrderInv /\ TypeOK' /\ Dequeue /\ currBufferHandleIndex = WrappedIndex
    => OrderInv'
<1> SUFFICES ASSUME TypeOK, OrderInv, TypeOK', Dequeue,
                    currBufferHandleIndex = WrappedIndex
             PROVE  OrderInv'
  OBVIOUS
<1>0. PICK b \in Buffers : /\ Dqbuf(b)
                           /\ bufferArray' = [bufferArray EXCEPT ![currBufferHandleIndex] = b]
  BY DEF Dequeue
<1>1. /\ queued \in Seq(Buffers) /\ done \in Seq(Buffers) /\ done # <<>>
      /\ Len(done) \in Nat /\ Len(queued) \in Nat /\ Len(done) > 0
      /\ N \in Nat /\ N > 0 /\ currBufferHandleIndex \in 0 .. (N - 1)
      /\ bufferArray \in [Slots -> Buffers] /\ currBufferHandleIndex \in Slots
  BY <1>0, NAssumption, LenProperties, EmptySeq
     DEF TypeOK, DriverTypeOK, Dequeue, Dqbuf, Readable, Slots
<1>2. /\ work = "dqbuf" /\ work' = "flush"
      /\ UNCHANGED <<queued, currBufferHandleIndex, mState>> /\ done' = Tail(done)
  BY <1>0 DEF Dequeue, OrderInv, Dqbuf
<1>3. /\ First = currBufferHandleIndex /\ First' = currBufferHandleIndex + 1
      /\ OutOfDriver = 0 /\ OutOfDriver' = 1
  BY <1>2 DEF First, OutOfDriver, Holds, Holding
<1>4. b = currBufferHandleIndex
  <2>1. b = done[1]
    BY <1>0, <1>1 DEF Dqbuf
  <2>2. done[1] = WrapN(First + 1 - 1)
    BY <1>1 DEF OrderInv
  <2> QED BY <1>1, <1>3, <2>1, <2>2 DEF WrapN
<1>5. /\ Len(done') = Len(done) - 1
      /\ \A i \in 1 .. Len(done) - 1 : done'[i] = done[i + 1]
  BY <1>1, <1>2, HeadTailProperties
<1>6. ASSUME NEW i \in 1 .. Len(done') PROVE done'[i] = WrapN(First' + i - 1)
  <2>1. i \in 1 .. Len(done) - 1 /\ i + 1 \in 1 .. Len(done)
    BY <1>1, <1>5
  <2>2. done[i + 1] = WrapN(First + (i + 1) - 1)
    BY <2>1 DEF OrderInv
  <2>3. First + (i + 1) - 1 = First' + i - 1
    BY <1>1, <1>3, <2>1
  <2> QED BY <1>5, <2>1, <2>2, <2>3
<1>7. ASSUME NEW i \in 1 .. Len(queued') PROVE queued'[i] = WrapN(First' + Len(done') + i - 1)
  <2>1. queued[i] = WrapN(First + Len(done) + i - 1)
    BY <1>2 DEF OrderInv
  <2>2. First + Len(done) + i - 1 = First' + Len(done') + i - 1
    BY <1>1, <1>2, <1>3, <1>5
  <2> QED BY <1>2, <2>1, <2>2
<1>8. FlushedIsDequeued'
  BY <1>0, <1>1, <1>2, <1>4 DEF FlushedIsDequeued
<1>9. \A j : WrapN(j)' = WrapN(j)
  BY DEF WrapN
<1> QED BY <1>1, <1>2, <1>3, <1>5, <1>6, <1>7, <1>8, <1>9 DEF OrderInv

LEMMA RequeueOrder == TypeOK /\ OrderInv /\ Requeue => OrderInv'
<1> SUFFICES ASSUME TypeOK, OrderInv, Requeue PROVE OrderInv'
  OBVIOUS
<1> DEFINE c == currBufferHandleIndex
<1>1. /\ queued \in Seq(Buffers) /\ done \in Seq(Buffers)
      /\ Len(done) \in Nat /\ Len(queued) \in Nat
      /\ N \in Nat /\ N > 0 /\ c \in 0 .. (N - 1) /\ c \in Buffers
  BY NAssumption, LenProperties DEF TypeOK, DriverTypeOK, Requeue, Slots, Buffers
<1>2. /\ work = "qbuf" /\ work' = "top" /\ bufferArray[c] = c
      /\ First = c + 1 /\ OutOfDriver = 1 /\ OutOfDriver' = 0
      /\ First' = (IF c + 1 = N THEN 0 ELSE c + 1)
      /\ mState' = mState /\ done' = done
  BY DEF Requeue, OrderInv, FlushedIsDequeued, First, OutOfDriver, Holds, Holding,
         WrappedIndex, Qbuf
<1>3. c \notin InDriver
  <2>1. ASSUME NEW i \in 1 .. Len(done) PROVE done[i] # c
    <3>1. done[i] = WrapN(c + 1 + i - 1)
      BY <1>2 DEF OrderInv
    <3> QED BY <1>1, <1>2, <3>1 DEF WrapN, OrderInv
  <2>2. ASSUME NEW i \in 1 .. Len(queued) PROVE queued[i] # c
    <3>1. queued[i] = WrapN(c + 1 + Len(done) + i - 1)
      BY <1>2 DEF OrderInv
    <3> QED BY <1>1, <1>2, <3>1 DEF WrapN, OrderInv
  <2> QED BY <1>1, <2>1, <2>2, LenProperties DEF InDriver, ElementsOf
<1>4. queued' = Append(queued, c)
  BY <1>2, <1>3 DEF Requeue, Qbuf
<1>5. /\ Len(queued') = Len(queued) + 1
      /\ \A i \in 1 .. Len(queued) : queued'[i] = queued[i]
      /\ queued'[Len(queued) + 1] = c
  BY <1>1, <1>4, AppendProperties
<1>6. ASSUME NEW i \in 1 .. Len(done') PROVE done'[i] = WrapN(First' + i - 1)
  <2>1. done[i] = WrapN(First + i - 1)
    BY <1>2 DEF OrderInv
  <2>2. WrapN(First + i - 1) = WrapN(First' + i - 1)
    BY <1>1, <1>2 DEF WrapN, OrderInv
  <2> QED BY <1>2, <2>1, <2>2
<1>7. ASSUME NEW i \in 1 .. Len(queued') PROVE queued'[i] = WrapN(First' + Len(done') + i - 1)
  <2>1. CASE i = Len(queued) + 1
    <3>1. Len(done) + i = N
      BY <1>1, <1>2, <2>1 DEF OrderInv
    <3>2. WrapN(First' + Len(done') + i - 1) = c
      BY <1>1, <1>2, <3>1 DEF WrapN
    <3> QED BY <1>5, <2>1, <3>2
  <2>2. CASE i # Len(queued) + 1
    <3>1. i \in 1 .. Len(queued)
      BY <1>1, <1>5, <2>2
    <3>2. queued[i] = WrapN(First + Len(done) + i - 1)
      BY <3>1 DEF OrderInv
    <3>3. WrapN(First + Len(done) + i - 1) = WrapN(First' + Len(done') + i - 1)
      <4> DEFINE k == Len(done) + i
      <4>1. k \in 1 .. N - 1
        BY <1>1, <1>2, <3>1 DEF OrderInv
      <4>2. /\ First + Len(done) + i - 1 = c + k
            /\ First' + Len(done') + i - 1 = (IF c + 1 = N THEN k - 1 ELSE c + k)
        BY <1>1, <1>2, <3>1
      <4> HIDE DEF k
      <4>3. CASE c + 1 = N
        <5>1. WrapN(c + k) = k - 1 /\ WrapN(k - 1) = k - 1
          BY <1>1, <4>1, <4>3 DEF WrapN
        <5> QED BY <4>2, <4>3, <5>1
      <4>4. CASE c + 1 # N
        BY <4>2, <4>4
      <4> QED BY <4>3, <4>4
    <3> QED BY <1>5, <3>1, <3>2, <3>3
  <2> QED BY <2>1, <2>2
<1>8. FlushedIsDequeued'
  BY <1>2 DEF FlushedIsDequeued, Holding
<1>9. \A j : WrapN(j)' = WrapN(j)
  BY DEF WrapN
<1> QED BY <1>1, <1>2, <1>5, <1>6, <1>7, <1>8, <1>9 DEF OrderInv

(* Between select() and VIDIOC_DQBUF the index is within the slots, so it   *)
(* is its own wrapped value.                                                *)
LEMMA NextOrder ==
  ASSUME Faults \cap {"flush", "signal"} = {}
  PROVE  TypeOK /\ OrderInv /\ TypeOK' /\ [Next]_vars => OrderInv'
<1> SUFFICES ASSUME TypeOK, OrderInv, TypeOK', [Next]_vars PROVE OrderInv'
  OBVIOUS
<1>0. N \in Nat /\ N > 0 /\ currBufferHandleIndex \in 0 .. N
  BY NAssumption DEF TypeOK
<1>1. ASSUME UNCHANGED <<driverVars, bufferArray, mState>>, First' = First,
             Holds' <=> Holds, currBufferHandleIndex' = currBufferHandleIndex \/ ~Holds
      PROVE  OrderInv'
  <2>1. OutOfDriver' = OutOfDriver /\ \A j : WrapN(j)' = WrapN(j)
    BY <1>1 DEF OutOfDriver, WrapN
  <2>2. FlushedIsDequeued'
    BY <1>1 DEF FlushedIsDequeued, OrderInv, Holds, Holding
  <2> QED BY <1>1, <2>1, <2>2 DEF OrderInv, driverVars
<1>2. CASE Select
  <2>1. First' = First /\ ~Holds /\ ~Holds'
    BY <1>0, <1>2 DEF Select, First, Holds, Holding, WrappedIndex
  <2> QED BY <1>1, <1>2, <2>1 DEF Select
<1>3. CASE Dequeue
  <2>1. currBufferHandleIndex = WrappedIndex
    BY <1>0, <1>3 DEF Dequeue, TypeOK, WrappedIndex, Slots
  <2> QED BY <1>3, <2>1, DequeueOrder
<1>4. CASE FlushCache \/ TestPq \/ StoreHandle \/ FillSlot \/ Advance \/ Show \/ ShowNot
  <2>1. UNCHANGED <<driverVars, slots, mState>> /\ Holds /\ Holds'
    BY <1>4 DEF FlushCache, TestPq, StoreHandle, FillSlot, Advance, Show, ShowNot, Holds,
                Holding
  <2> QED BY <1>1, <2>1 DEF slots, First
<1>5. CASE Requeue
  BY <1>5, RequeueOrder
<1>6. CASE PqStep \/ SetProperty \/ PqCommand \/ UNCHANGED vars
  <2>1. UNCHANGED <<driverVars, slots, mState, work>>
    BY <1>6 DEF PqStep, FollowProperties, Rewind, StartEngine, TestFrame, DoPq, ShowPq, PassPq, KeepPq,
                SetProperty, PqCommand, vars
  <2> QED BY <1>1, <2>1 DEF slots, First, Holds, Holding, WrappedIndex
<1>7. CASE Fill
  BY <1>7, FillOrder
<1>8. CASE StopOrResume
  BY <1>8 DEF StopOrResume
<1> QED BY <1>2, <1>3, <1>4, <1>5, <1>6, <1>7, <1>8 DEF Next, WorkStep

(* While no cache flush fails and the capture is not stopped, the buffer    *)
(* whose cache workThread() flushes, and which it hands to PQ and to the    *)
(* screen, is the one it has just dequeued, for every number of buffers.    *)
THEOREM FlushesDequeued ==
  ASSUME Faults \cap {"flush", "signal"} = {}
  PROVE  Spec => []FlushedIsDequeued
<1>1. TypeOK /\ OrderInv /\ TypeOK' /\ [Next]_vars => OrderInv'
  BY NextOrder
<1>2. OrderInv => FlushedIsDequeued
  BY DEF OrderInv
<1> QED BY <1>1, <1>2, InitOrder, TypeCorrect, PTL DEF Spec

=============================================================================
