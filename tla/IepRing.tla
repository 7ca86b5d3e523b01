------------------------------- MODULE IepRing -------------------------------
(***************************************************************************)
(* Interlaced output (mUseIep): pqBufferThread() processes the fields of    *)
(* the PQ ring into a ring of K field buffers, and iepBufferThread()        *)
(* deinterlaces three of them into the output buffers and shows one.        *)
(* pqBufferThread() and doPQCmd() hold mBufferLock; iepBufferThread() holds *)
(* no lock, "will happend rob wait if mBufferLock" (HinDevImpl.cpp:1852).   *)
(*                                                                          *)
(* The binder thread may send a "pq" command, under that lock too.          *)
(*                                                                          *)
(* The PQ ring itself is SidebandStream's; here it has a frame or has not.  *)
(* mOutRange is never assigned: doPQCmd()'s new-range branch never runs.    *)
(***************************************************************************)
EXTENDS Naturals

CONSTANTS
  K,          \* SIDEBAND_IEP_BUFF_CNT, "iep >=4"
  Stamps      \* the fields stored are numbered modulo Stamps

ASSUME KAssumption == K \in Nat /\ K >= 4
ASSUME StampsAssumption == Stamps \in Nat /\ Stamps > K

VARIABLES
  mState,                  \* "START" or "STOPED"
  property,                \* the PQ mode the properties ask for
  mPqMode,                 \* one of PqModes
  tempPqMode, back,        \* the mode doPQCmd() was asked for, and its caller
  pqFilled,                \* mPqBufferHandle[mPqBuffOutIndex].isFilled
  mRkiep,                  \* mRkiep is not nullptr, and so is mRkpq
  srcHandle, isFilled,     \* mIepBufferHandle: the field in each slot
  mIepBuffIndex, mIepBuffOutIndex,
  pq,                      \* where the owner of mBufferLock stands
  iep,                     \* where iepBufferThread() stands
  cur,                     \* its locals cur and curIepOutIndex
  screen,                  \* whose outHandle was shown last since ResetRings
  field,                   \* number of the next field
  skewed,                  \* history: the last reset met a deinterlace
  crashed                  \* an engine that is not there was called

ring == <<srcHandle, isFilled, mIepBuffIndex, mIepBuffOutIndex>>
command == <<mPqMode, tempPqMode, back, mRkiep>>
world == <<mState, property, crashed>>
consumer == <<iep, cur, screen>>
vars == <<world, command, pqFilled, ring, pq, consumer, field, skewed>>

(* PQ_OFF, PQ_CACL_LUMA alone, and every mode with PQ_NORMAL.               *)
PqModes == {"off", "luma", "normal"}

Slots == 0 .. (K - 1)
Nothing == K
Unwritten == Stamps        \* what an empty slot, and one in dopq(), holds

(* start(), with mIepBufferHandle already allocated.                        *)
Init ==
  /\ mState = "START" /\ property = "off" /\ crashed = FALSE
  /\ mPqMode = "off" /\ tempPqMode = "off" /\ back = "test"
  /\ pqFilled = FALSE /\ mRkiep = FALSE
  /\ srcHandle = [s \in Slots |-> Unwritten] /\ isFilled = [s \in Slots |-> FALSE]
  /\ mIepBuffIndex = 0 /\ mIepBuffOutIndex = 0
  /\ pq = "top" /\ iep = "top" /\ cur = 0 /\ screen = Nothing
  /\ field = 0 /\ skewed = FALSE
------------------------------------------------------------------------------
(* doPQCmd(), in the steps iepBufferThread() can come between.              *)

FollowProperties ==
  /\ pq = "top" /\ back' = "test"
  /\ \/ mPqMode # property /\ pq' = "command" /\ tempPqMode' = property
     \/ mPqMode = property /\ pq' = "test" /\ UNCHANGED tempPqMode
  /\ UNCHANGED <<world, mPqMode, pqFilled, mRkiep, ring, consumer, field, skewed>>

(* A "pq" command with any mode, and with status 0 or without.              *)
PqCommand ==
  /\ pq = "top" /\ back' = "top"
  /\ pq' \in {"command", "stop"} /\ tempPqMode' \in PqModes
  /\ UNCHANGED <<world, mPqMode, pqFilled, mRkiep, ring, consumer, field, skewed>>

(* Not started: PQ is off, and the engine left alone.                       *)
RefuseCommand ==
  /\ pq \in {"command", "stop"} /\ mState # "START"
  /\ mPqMode' = "off" /\ tempPqMode' = "off" /\ pq' = back
  /\ UNCHANGED <<world, pqFilled, back, mRkiep, ring, consumer, field, skewed>>

(* Off, or status 0: the engines are deleted before the mode says so, and   *)
(* with status 0 the mode need not say so at all.                           *)
DeleteEngine ==
  /\ mState = "START"
  /\ pq = "stop" \/ (pq = "command" /\ tempPqMode = "off")
  /\ mRkiep' = FALSE /\ pq' = "mode"
  /\ UNCHANGED <<world, mPqMode, tempPqMode, back, pqFilled, ring, consumer,
                 field, skewed>>

(* Mutant: the writer's index is not reset.                                 *)
ForgetFieldsOnly ==
  /\ isFilled' = [s \in Slots |-> FALSE]
  /\ srcHandle' = [s \in Slots |-> Unwritten]
  /\ mIepBuffOutIndex' = 0 /\ UNCHANGED mIepBuffIndex

ForgetFields ==
  /\ isFilled' = [s \in Slots |-> FALSE]
  /\ srcHandle' = [s \in Slots |-> Unwritten]
  /\ mIepBuffIndex' = 0 /\ mIepBuffOutIndex' = 0

(* From off to on: both rings are emptied, then the engine is made.         *)
ResetRings ==
  /\ pq = "command" /\ mState = "START"
  /\ tempPqMode # "off" /\ mPqMode = "off"
  /\ pqFilled' = FALSE /\ ForgetFields /\ pq' = "create"
  /\ skewed' = (iep = "deinterlace") /\ screen' = Nothing /\ field' = 0
  /\ UNCHANGED <<world, command, iep, cur>>

CreateEngine ==
  /\ pq = "create" /\ mRkiep' = TRUE /\ pq' = "mode"
  /\ UNCHANGED <<world, mPqMode, tempPqMode, back, pqFilled, ring, consumer,
                 field, skewed>>

(* From one mode that is on to another.                                     *)
KeepEngine ==
  /\ pq = "command" /\ mState = "START"
  /\ tempPqMode # "off" /\ mPqMode # "off" /\ pq' = "mode"
  /\ UNCHANGED <<world, command, pqFilled, ring, consumer, field, skewed>>

SetMode ==
  /\ pq = "mode" /\ mPqMode' = tempPqMode /\ tempPqMode' = "off" /\ pq' = back
  /\ UNCHANGED <<world, pqFilled, back, mRkiep, ring, consumer, field, skewed>>
------------------------------------------------------------------------------
(* The rest of pqBufferThread()'s turn.                                     *)

(* Mutant: the last slot is left out.                                       *)
NextShort(i) == IF i + 2 >= K THEN 0 ELSE i + 1

NextSlot(i) == IF i + 1 = K THEN 0 ELSE i + 1

NoFrame ==
  /\ pq = "test" /\ ~(mState = "START" /\ mPqMode # "off" /\ pqFilled)
  /\ pq' = "top"
  /\ UNCHANGED <<world, command, pqFilled, ring, consumer, field, skewed>>

HasRoom == ~isFilled[mIepBuffIndex]

(* dopq() writes the field into the slot.                                   *)
StartField ==
  /\ pq = "test" /\ mState = "START" /\ pqFilled /\ mPqMode = "normal" /\ HasRoom
  /\ mRkiep
  /\ srcHandle' = [srcHandle EXCEPT ![mIepBuffIndex] = Unwritten]
  /\ pq' = "dopq"
  /\ UNCHANGED <<world, command, pqFilled, isFilled, mIepBuffIndex,
                 mIepBuffOutIndex, consumer, field, skewed>>

StoreField ==
  /\ pq = "dopq" /\ pq' = "taken"
  /\ srcHandle' = [srcHandle EXCEPT ![mIepBuffIndex] = field]
  /\ isFilled' = [isFilled EXCEPT ![mIepBuffIndex] = TRUE]
  /\ mIepBuffIndex' = NextSlot(mIepBuffIndex)
  /\ field' = (field + 1) % Stamps
  /\ UNCHANGED <<world, command, pqFilled, mIepBuffOutIndex, consumer, skewed>>

(* The slot is still full: its field is lost, and the next slot is up.      *)
DropField ==
  /\ pq = "test" /\ mState = "START" /\ pqFilled /\ mPqMode = "normal" /\ ~HasRoom
  /\ mIepBuffIndex' = NextSlot(mIepBuffIndex) /\ pq' = "taken"
  /\ UNCHANGED <<world, command, pqFilled, srcHandle, isFilled,
                 mIepBuffOutIndex, consumer, field, skewed>>

(* Luminance only: no field is stored.                                      *)
MeasureField ==
  /\ pq = "test" /\ mState = "START" /\ pqFilled /\ mPqMode = "luma" /\ mRkiep
  /\ pq' = "taken"
  /\ UNCHANGED <<world, command, pqFilled, ring, consumer, field, skewed>>

(* The PQ ring's slot is given back, unless the capture stopped meanwhile.  *)
GiveBack ==
  /\ pq = "taken" /\ pq' = "top"
  /\ pqFilled' = (mState # "START")
  /\ UNCHANGED <<world, command, ring, consumer, field, skewed>>
------------------------------------------------------------------------------
(* iepBufferThread().                                                       *)

Before(i) == IF i = 0 THEN K - 1 ELSE i - 1
last1 == Before(mIepBuffOutIndex)
last2 == Before(last1)

HasThree ==
  isFilled[mIepBuffOutIndex] /\ isFilled[last1] /\ isFilled[last2]

MayDeinterlace ==
  iep = "top" /\ mState = "START" /\ mPqMode # "off" /\ HasThree

(* mRkiep->iep2_deinterlace() reads the three fields and writes outHandle   *)
(* of cur and of the slot after it.                                         *)
Deinterlace ==
  /\ MayDeinterlace /\ mRkiep
  /\ iep' = "deinterlace" /\ cur' = mIepBuffOutIndex
  /\ UNCHANGED <<world, command, pqFilled, ring, pq, screen, field, skewed>>

(* Neither thread tests for its engine.  A call of a null one crashes; one  *)
(* whose engine is deleted meanwhile crashes or comes to an end.            *)
CallsNoEngine ==
  /\ ~mRkiep
  /\ \/ MayDeinterlace \/ iep = "deinterlace"
     \/ /\ pq = "test" /\ mState = "START" /\ pqFilled
        /\ mPqMode = "luma" \/ (mPqMode = "normal" /\ HasRoom)

Crash ==
  /\ CallsNoEngine /\ crashed' = TRUE
  /\ UNCHANGED <<mState, property, command, pqFilled, ring, pq, consumer, field,
                 skewed>>

EmptySlot ==
  /\ isFilled' = [isFilled EXCEPT ![cur] = FALSE]
  /\ srcHandle' = [srcHandle EXCEPT ![cur] = Unwritten]

(* Mutant: the index stays.                                                 *)
EmptySlotOnly == EmptySlot /\ UNCHANGED mIepBuffOutIndex

ReleaseSlot == EmptySlot /\ mIepBuffOutIndex' = NextSlot(mIepBuffOutIndex)

(* show() of the one, and the slot is free.  A reset between these stores   *)
(* leaves the indexes as a reset before them does.                          *)
ShowField ==
  /\ iep = "deinterlace" /\ mState = "START"
  /\ iep' = "top" /\ screen' = cur /\ cur' = 0 /\ ReleaseSlot
  /\ UNCHANGED <<world, command, pqFilled, mIepBuffIndex, pq, field, skewed>>

(* The capture stopped meanwhile: the fields stay.                          *)
ShowNothing ==
  /\ iep = "deinterlace" /\ mState # "START" /\ iep' = "top" /\ cur' = 0
  /\ UNCHANGED <<world, command, pqFilled, ring, pq, screen, field, skewed>>
------------------------------------------------------------------------------
(* The environment.                                                         *)

(* workThread() puts a field into the PQ ring.                              *)
FieldArrives ==
  /\ mState = "START" /\ mPqMode # "off" /\ ~pqFilled /\ pqFilled' = TRUE
  /\ UNCHANGED <<world, command, ring, pq, consumer, field, skewed>>

SetProperty ==
  /\ property' \in PqModes \ {property}
  /\ UNCHANGED <<mState, crashed, command, pqFilled, ring, pq, consumer, field, skewed>>

(* The event thread stops and resumes the capture.                          *)
StopOrResume ==
  /\ mState' \in {"START", "STOPED"} \ {mState}
  /\ UNCHANGED <<property, crashed, command, pqFilled, ring, pq, consumer, field, skewed>>
------------------------------------------------------------------------------
PqStep == \/ FollowProperties \/ RefuseCommand \/ DeleteEngine \/ ResetRings
          \/ CreateEngine \/ KeepEngine \/ SetMode
          \/ NoFrame \/ StartField \/ StoreField \/ DropField \/ MeasureField
          \/ GiveBack
IepStep == Deinterlace \/ ShowField \/ ShowNothing

Next ==
  /\ ~crashed
  /\ \/ PqStep \/ PqCommand \/ IepStep \/ Crash
     \/ FieldArrives \/ SetProperty \/ StopOrResume

Fairness ==
  /\ WF_vars(~crashed /\ PqStep) /\ WF_vars(~crashed /\ (IepStep \/ Crash))
  /\ WF_vars(~crashed /\ FieldArrives)

Spec == Init /\ [][Next]_vars /\ Fairness
------------------------------------------------------------------------------
(* The ring indexes stay within the ring, whatever the mode does.           *)
TypeOK ==
  /\ mState \in {"START", "STOPED"}
  /\ {property, mPqMode, tempPqMode} \subseteq PqModes
  /\ {pqFilled, mRkiep, skewed, crashed} \subseteq BOOLEAN
  /\ srcHandle \in [Slots -> 0 .. Stamps] /\ isFilled \in [Slots -> BOOLEAN]
  /\ mIepBuffIndex \in Slots /\ mIepBuffOutIndex \in Slots /\ cur \in Slots
  /\ pq \in {"top", "command", "stop", "create", "mode", "test", "dopq", "taken"}
  /\ back \in {"top", "test"}
  /\ iep \in {"top", "deinterlace"}
  /\ screen \in Slots \cup {Nothing} /\ field \in 0 .. (Stamps - 1)

After(f, n) == (f + n) % Stamps

(* All through a deinterlace its three slots hold whole fields: cur the     *)
(* oldest of the last K stored, the slot before it the newest of them, and  *)
(* the slot before that the one stored just before the newest.  No lock     *)
(* keeps pqBufferThread() out of them (HinDevImpl.cpp:1852).  Excepted is   *)
(* the time from a PQ restart that meets a deinterlace under way to the     *)
(* next restart that does not: iepBufferThread() then still advances the    *)
(* index the restart has reset (1872), and reads one slot ahead for good.   *)
FieldsInOrder ==
  iep = "deinterlace" /\ ~skewed =>
    LET oldest == srcHandle[cur]
    IN  /\ oldest # Unwritten
        /\ srcHandle[Before(cur)] = After(oldest, K - 1)
        /\ srcHandle[Before(Before(cur))] = After(oldest, K - 2)

(* Deinterlacing never writes the buffer that was shown last since PQ was   *)
(* switched on: the two it writes are others.  The time after a restart     *)
(* that met a deinterlace is excepted as above.                             *)
ScreenNotWritten ==
  iep = "deinterlace" /\ ~skewed => screen \notin {cur, NextSlot(cur)}

(* Once the capture and the PQ property stay on and commands stop coming,   *)
(* fields are shown again and again, however many slots the writer found    *)
(* full, whenever it was restarted, skewed or not, and whatever a stop left *)
(* in the ring: or else an engine was called that is not there.             *)
KeepsShowing ==
  <>[](mState = "START" /\ property = "normal" /\ back = "test") =>
    []<><<ShowField>>_vars \/ <>crashed
==============================================================================
