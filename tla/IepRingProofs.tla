---------------------------- MODULE IepRingProofs ----------------------------
(* What holds of IepRing for every number of field buffers.                 *)
EXTENDS IepRing, TLAPS

(* The steps of the ring from slot i on to slot s.                          *)
Distance(i, s) == IF s >= i THEN s - i ELSE s - i + K

Oldest == srcHandle[mIepBuffOutIndex]
LastSlot == Before(mIepBuffOutIndex)

(* An empty slot holds no field; the slot dopq() writes is empty.           *)
SlotsAgree ==
  /\ \A s \in Slots : isFilled[s] <=> srcHandle[s] # Unwritten
  /\ pq = "dopq" => ~isFilled[mIepBuffIndex]

(* Since the reset no slot has been released, nor has the writer come       *)
(* round: the slots hold the first fields, and the rest are empty.          *)
Filling ==
  /\ iep = "top" /\ screen = Nothing
  /\ mIepBuffOutIndex = 0 /\ field = mIepBuffIndex
  /\ \A s \in Slots : srcHandle[s] = IF s < mIepBuffIndex THEN s ELSE Unwritten

(* From then on the fields follow one another from the oldest on, and the   *)
(* last slot, shown at most, has the newest field or waits for it, wherever *)
(* the writer looks for it.                                                 *)
Cycling ==
  /\ iep = "deinterlace" => cur = mIepBuffOutIndex /\ isFilled[LastSlot]
  /\ screen \in {Nothing, LastSlot}
  /\ isFilled[mIepBuffOutIndex]
  /\ \A s \in Slots : s # LastSlot =>
       srcHandle[s] = After(Oldest, Distance(mIepBuffOutIndex, s))
  /\ \/ /\ srcHandle[LastSlot] = After(Oldest, K - 1)
        /\ field = After(Oldest, K)
     \/ /\ srcHandle[LastSlot] = Unwritten
        /\ field = After(Oldest, K - 1)

RingInv == TypeOK /\ SlotsAgree /\ (skewed \/ Filling \/ Cycling)
------------------------------------------------------------------------------
(* What % gives within two rounds.                                          *)
LEMMA ModuloSmall ==
  ASSUME NEW a \in Nat, a < 2 * Stamps
  PROVE  a % Stamps = IF a < Stamps THEN a ELSE a - Stamps
<1>0. Stamps \in Nat /\ Stamps > 0
  BY StampsAssumption, KAssumption
<1>1. CASE a < Stamps
  <2>1. a % Stamps = a
    BY <1>0, <1>1, Z3
  <2> QED BY <1>1, <2>1
<1>2. CASE ~(a < Stamps)
  <2>1. a >= Stamps
    BY <1>0, <1>2
  <2>2. a % Stamps = a - Stamps
    BY <1>0, <2>1, Z3
  <2> QED BY <1>2, <2>2
<1> QED BY <1>1, <1>2

Fields == 0 .. (Stamps - 1)

LEMMA NextField ==
  ASSUME NEW f \in Fields
  PROVE  /\ (f + 1) % Stamps = IF f + 1 < Stamps THEN f + 1 ELSE f + 1 - Stamps
         /\ (f + 1) % Stamps \in Fields
<1> DEFINE m == f + 1
<1>1. Stamps \in Nat /\ Stamps > 1 /\ f \in Nat /\ f < Stamps
  BY StampsAssumption, KAssumption DEF Fields
<1>2. m \in Nat /\ m > 0 /\ m <= Stamps /\ m < 2 * Stamps
  BY <1>1
<1> HIDE DEF m
<1>3. m % Stamps = IF m < Stamps THEN m ELSE m - Stamps
  BY <1>2, ModuloSmall
<1>4. m % Stamps \in Fields
  BY <1>1, <1>2, <1>3 DEF Fields
<1>5. m = f + 1
  BY DEF m
<1> QED BY <1>1, <1>3, <1>4, <1>5

LEMMA AfterValue ==
  ASSUME NEW f \in Fields, NEW n \in 0 .. K
  PROVE  /\ After(f, n) = IF f + n < Stamps THEN f + n ELSE f + n - Stamps
         /\ After(f, n) \in Fields
<1> DEFINE m == f + n
<1>1. /\ m \in Nat /\ m < 2 * Stamps /\ Stamps \in Nat /\ Stamps > 0
      /\ f \in Nat /\ n \in Nat
  BY KAssumption, StampsAssumption DEF Fields
<1>2. After(f, n) = m % Stamps
  BY DEF After
<1> HIDE DEF m
<1>3. m % Stamps = IF m < Stamps THEN m ELSE m - Stamps
  BY <1>1, ModuloSmall
<1>4. m % Stamps \in Fields
  BY <1>1, <1>3 DEF Fields
<1>5. m = f + n
  BY DEF m
<1> QED BY <1>1, <1>2, <1>3, <1>4, <1>5

(* One more field is the next one.                                          *)
LEMMA AfterNext ==
  ASSUME NEW f \in Fields, NEW n \in 0 .. (K - 1)
  PROVE  /\ (After(f, n) + 1) % Stamps = After(f, n + 1)
         /\ After(After(f, 1), n) = After(f, n + 1)
<1> DEFINE g == After(f, n)
           h == After(f, 1)
<1>0. /\ Stamps \in Nat /\ K \in Nat /\ K < Stamps /\ 4 <= K
      /\ f \in Nat /\ f < Stamps /\ n \in Nat /\ n < K
      /\ 1 \in 0 .. K /\ n \in 0 .. K /\ n + 1 \in 0 .. K
  BY KAssumption, StampsAssumption DEF Fields
<1>1. g \in Fields /\ g = IF f + n < Stamps THEN f + n ELSE f + n - Stamps
  BY <1>0, AfterValue
<1>2. h \in Fields /\ h = IF f + 1 < Stamps THEN f + 1 ELSE f + 1 - Stamps
  BY <1>0, AfterValue
<1>3. After(f, n + 1)
        = IF f + (n + 1) < Stamps THEN f + (n + 1) ELSE f + (n + 1) - Stamps
  BY <1>0, AfterValue
<1>4. After(h, n) = IF h + n < Stamps THEN h + n ELSE h + n - Stamps
  BY <1>0, <1>2, AfterValue
<1> HIDE DEF g, h
<1>5. h \in Nat /\ h < Stamps /\ g \in Nat /\ g < Stamps
  BY <1>0, <1>1, <1>2 DEF Fields
<1>6. (g + 1) % Stamps = After(f, n + 1)
  <2>1. (g + 1) % Stamps = IF g + 1 < Stamps THEN g + 1 ELSE g + 1 - Stamps
    BY <1>1, NextField
  <2> QED BY <1>0, <1>1, <1>3, <1>5, <2>1
<1>7. After(h, n) = After(f, n + 1)
  BY <1>0, <1>2, <1>3, <1>4, <1>5
<1> QED BY <1>6, <1>7 DEF g, h

LEMMA SlotTypes ==
  ASSUME NEW i \in Slots
  PROVE  /\ NextSlot(i) \in Slots /\ Before(i) \in Slots
         /\ Before(NextSlot(i)) = i /\ NextSlot(Before(i)) = i
         /\ Before(i) # i /\ Before(i) # NextSlot(i) /\ NextSlot(i) # i
         /\ Before(Before(i)) # i /\ Before(Before(i)) # Before(i)
BY KAssumption DEF Slots, NextSlot, Before

LEMMA DistanceTypes ==
  ASSUME NEW i \in Slots, NEW s \in Slots
  PROVE  /\ Distance(i, s) \in 0 .. (K - 1)
         /\ Distance(i, i) = 0 /\ Distance(i, Before(i)) = K - 1
         /\ Distance(i, Before(Before(i))) = K - 2
         /\ s # i => Distance(i, s) = Distance(NextSlot(i), s) + 1
         /\ s # Before(i) => Distance(i, s) < K - 1
BY KAssumption DEF Slots, NextSlot, Before, Distance
------------------------------------------------------------------------------
LEMMA InitType == Init => TypeOK
<1> SUFFICES ASSUME Init PROVE TypeOK
  OBVIOUS
<1>1. 0 \in Slots /\ 0 \in 0 .. (Stamps - 1) /\ Unwritten \in 0 .. Stamps
  BY KAssumption, StampsAssumption DEF Slots, Unwritten
<1> QED BY <1>1 DEF Init, TypeOK, PqModes

LEMMA NextType == TypeOK /\ [Next]_vars => TypeOK'
<1> SUFFICES ASSUME TypeOK, [Next]_vars PROVE TypeOK'
  OBVIOUS
<1> USE DEF TypeOK
<1>0. 0 \in Slots /\ 0 \in 0 .. (Stamps - 1) /\ Unwritten \in 0 .. Stamps
  BY KAssumption, StampsAssumption DEF Slots, Unwritten
<1>1. CASE FollowProperties \/ PqCommand
  <2>1. {property', mPqMode', tempPqMode'} \subseteq PqModes
    BY <1>1 DEF FollowProperties, PqCommand, world
  <2> QED BY <1>1, <2>1 DEF FollowProperties, PqCommand, world, ring, consumer
<1>2. CASE RefuseCommand
  BY <1>2 DEF RefuseCommand, world, ring, consumer, PqModes
<1>3. CASE DeleteEngine
  BY <1>3 DEF DeleteEngine, world, ring, consumer
<1>4. CASE ResetRings
  BY <1>0, <1>4 DEF ResetRings, ForgetFields, world, command
<1>5. CASE CreateEngine
  BY <1>5 DEF CreateEngine, world, ring, consumer
<1>6. CASE KeepEngine
  BY <1>6 DEF KeepEngine, world, command, ring, consumer
<1>7. CASE SetMode
  BY <1>7 DEF SetMode, world, ring, consumer, PqModes
<1>8. CASE NoFrame \/ MeasureField \/ GiveBack
  BY <1>8 DEF NoFrame, MeasureField, GiveBack, world, command, ring, consumer
<1>9. CASE StartField
  BY <1>0, <1>9 DEF StartField, world, command, consumer
<1>10. CASE StoreField
  <2>1. field \in 0 .. Stamps
    BY StampsAssumption, KAssumption
  <2>2. field' \in 0 .. (Stamps - 1)
    BY <1>10, NextField DEF StoreField, Fields
  <2> QED BY <1>10, <2>1, <2>2, SlotTypes DEF StoreField, world, command, consumer
<1>11. CASE DropField
  BY <1>11, SlotTypes DEF DropField, world, command, consumer
<1>12. CASE Deinterlace
  BY <1>12 DEF Deinterlace, world, command, ring
<1>13. CASE ShowField
  BY <1>0, <1>13, SlotTypes DEF ShowField, ReleaseSlot, EmptySlot, world, command
<1>14. CASE ShowNothing
  BY <1>0, <1>14 DEF ShowNothing, world, command, ring
<1>15. CASE FieldArrives \/ SetProperty \/ StopOrResume \/ Crash
  BY <1>15 DEF FieldArrives, SetProperty, StopOrResume, Crash, command, ring, consumer, world
<1>16. CASE UNCHANGED vars
  BY <1>16 DEF vars, world, command, ring, consumer
<1> QED
  BY <1>1, <1>2, <1>3, <1>4, <1>5, <1>6, <1>7, <1>8, <1>9, <1>10, <1>11, <1>12, <1>13,
     <1>14, <1>15, <1>16 DEF Next, PqStep, IepStep

LEMMA NextAgree == TypeOK /\ SlotsAgree /\ [Next]_vars => SlotsAgree'
<1> SUFFICES ASSUME TypeOK, SlotsAgree, [Next]_vars PROVE SlotsAgree'
  OBVIOUS
<1> USE DEF SlotsAgree
<1>1. CASE /\ UNCHANGED <<isFilled, srcHandle, mIepBuffIndex>>
           /\ pq' = pq \/ pq' # "dopq"
  BY <1>1
<1>2. CASE ResetRings
  BY <1>2 DEF ResetRings, ForgetFields
<1>3. CASE StartField
  BY <1>3 DEF StartField, HasRoom, TypeOK
<1>4. CASE StoreField
  <2>1. field # Unwritten
    BY StampsAssumption, KAssumption DEF TypeOK, Unwritten
  <2> QED BY <1>4, <2>1 DEF StoreField, TypeOK
<1>5. CASE DropField
  BY <1>5 DEF DropField
<1>6. CASE ShowField
  BY <1>6 DEF ShowField, ReleaseSlot, EmptySlot, TypeOK
<1>7. (\/ FollowProperties \/ PqCommand \/ RefuseCommand \/ DeleteEngine
       \/ CreateEngine \/ KeepEngine \/ SetMode \/ NoFrame \/ MeasureField
       \/ GiveBack \/ Deinterlace \/ ShowNothing \/ Crash \/ FieldArrives
       \/ SetProperty \/ StopOrResume \/ UNCHANGED vars)
      => UNCHANGED <<isFilled, srcHandle, mIepBuffIndex>> /\ (pq' = pq \/ pq' # "dopq")
  <2>1. back # "dopq"
    BY DEF TypeOK
  <2> QED BY <2>1 DEF FollowProperties, PqCommand, RefuseCommand, DeleteEngine,
    CreateEngine, KeepEngine, SetMode, NoFrame, MeasureField, GiveBack, Deinterlace,
    ShowNothing, Crash, FieldArrives, SetProperty, StopOrResume, vars, world, command, ring, consumer
<1> QED
  BY <1>1, <1>2, <1>3, <1>4, <1>5, <1>6, <1>7 DEF Next, PqStep, IepStep
------------------------------------------------------------------------------
(* The steps that touch neither the ring nor the consumer.                  *)
Elsewhere == UNCHANGED <<ring, consumer, field, skewed>>

LEMMA StepsOfRing ==
  ASSUME [Next]_vars
  PROVE  \/ Elsewhere \/ ResetRings \/ StartField \/ StoreField \/ DropField
         \/ Deinterlace \/ ShowField \/ ShowNothing
BY DEF Elsewhere, Next, PqStep, IepStep, FollowProperties, PqCommand, RefuseCommand,
  DeleteEngine, CreateEngine, KeepEngine, SetMode, NoFrame, MeasureField, GiveBack, Crash,
  FieldArrives,
  SetProperty, StopOrResume, vars, world, command, ring, consumer

(* A reset between two deinterlaces starts a new filling.                   *)
LEMMA ResetFills ==
  ASSUME TypeOK, ResetRings
  PROVE  skewed' \/ Filling'
<1> SUFFICES ASSUME ~skewed' PROVE Filling'
  OBVIOUS
<1>1. \A s \in Slots : s \in Nat /\ ~(s < 0)
  BY KAssumption DEF Slots
<1>2. iep = "top" /\ iep' = iep
  BY DEF ResetRings, TypeOK
<1> QED BY <1>1, <1>2 DEF ResetRings, ForgetFields, Filling

(* Until all slots have been written nothing is deinterlaced, and the last  *)
(* one completes the cycle.                                                 *)
LEMMA FillingStep ==
  ASSUME TypeOK, SlotsAgree, Filling, ~skewed, [Next]_vars
  PROVE  (skewed \/ Filling \/ Cycling)'
<1> USE DEF Filling
<1>0. /\ mIepBuffIndex \in Slots /\ srcHandle[mIepBuffIndex] = Unwritten
      /\ ~isFilled[mIepBuffIndex] /\ 0 \in Slots
  BY KAssumption DEF TypeOK, SlotsAgree, Slots
<1>1. CASE Elsewhere
  BY <1>1 DEF Elsewhere, ring, consumer
<1>2. CASE ResetRings
  BY <1>2, ResetFills
<1>3. CASE StartField
  BY <1>0, <1>3 DEF StartField, consumer, TypeOK
<1>4. CASE StoreField
  <2> DEFINE w == mIepBuffIndex
  <2>0. w \in Nat /\ w < K /\ field = w /\ field \in Fields
    BY KAssumption DEF TypeOK, Slots, Fields
  <2>1. field' = w + 1
    BY <1>4, <2>0, NextField, KAssumption, StampsAssumption DEF StoreField
  <2>2. /\ UNCHANGED <<iep, cur, screen, mIepBuffOutIndex>>
        /\ \A s \in Slots : srcHandle'[s] = IF s < w + 1 THEN s ELSE Unwritten
        /\ isFilled' = [isFilled EXCEPT ![w] = TRUE]
    BY <1>4, <2>0 DEF StoreField, consumer, TypeOK, Slots
  <2>3. CASE w + 1 = K
    <3>1. Cycling'
      <4>1. mIepBuffOutIndex' = 0 /\ LastSlot' = K - 1 /\ K - 1 \in Slots
        BY <2>2, KAssumption DEF LastSlot, Before, Slots
      <4>2. \A s \in Slots : srcHandle'[s] = s
        BY <2>2, <2>3, KAssumption DEF Slots
      <4>3. Oldest' = 0 /\ 0 \in Fields
        BY <1>0, <4>1, <4>2, KAssumption, StampsAssumption DEF Oldest, Fields
      <4>4. \A n \in 0 .. K : After(0, n) = n
        BY <4>3, AfterValue, KAssumption, StampsAssumption
      <4>5. \A s \in Slots : Distance(0, s) = s /\ s \in 0 .. K
        BY KAssumption DEF Distance, Slots
      <4>6. isFilled'[0]
        <5>1. srcHandle[0] # Unwritten
          BY <1>0, <2>0, <2>3, KAssumption, StampsAssumption DEF Unwritten
        <5> QED BY <1>0, <2>2, <5>1 DEF SlotsAgree, TypeOK
      <4>7. K - 1 \in 0 .. K /\ K \in 0 .. K
        BY KAssumption
      <4>8. field' = After(0, K) /\ srcHandle'[K - 1] = After(0, K - 1)
        BY <2>1, <2>3, <4>1, <4>2, <4>4, <4>7
      <4> QED BY <2>2, <4>1, <4>2, <4>3, <4>4, <4>5, <4>6, <4>8 DEF Cycling
    <3> QED BY <3>1
  <2>4. CASE w + 1 # K
    BY <1>4, <2>0, <2>1, <2>2, <2>4 DEF StoreField, NextSlot
  <2> QED BY <2>3, <2>4
<1>5. CASE DropField
  BY <1>0, <1>5 DEF DropField, HasRoom
<1>6. CASE Deinterlace
  <2>1. K - 1 \in Slots /\ ~(K - 1 < mIepBuffIndex)
    BY <1>0, KAssumption DEF Slots
  <2>2. ~isFilled[K - 1]
    BY <2>1 DEF SlotsAgree
  <2> QED BY <1>6, <2>2 DEF Deinterlace, MayDeinterlace, HasThree, last1, Before
<1>7. CASE ShowField \/ ShowNothing
  BY <1>7 DEF ShowField, ShowNothing
<1> QED BY <1>1, <1>2, <1>3, <1>4, <1>5, <1>6, <1>7, StepsOfRing

(* A released slot is the one left for the newest field.                    *)
LEMMA CyclingStep ==
  ASSUME TypeOK, SlotsAgree, Cycling, ~skewed, [Next]_vars
  PROVE  (skewed \/ Filling \/ Cycling)'
<1> DEFINE o == mIepBuffOutIndex
<1>0. /\ o \in Slots /\ LastSlot \in Slots /\ LastSlot # o /\ isFilled[o]
      /\ Oldest \in Fields /\ 0 \in Slots
  <2>1. o \in Slots /\ isFilled[o] /\ srcHandle[o] \in 0 .. Stamps /\ 0 \in Slots
    BY KAssumption DEF TypeOK, Cycling, Slots
  <2>2. srcHandle[o] # Unwritten
    BY <2>1 DEF SlotsAgree
  <2> QED BY <2>1, <2>2, SlotTypes, StampsAssumption DEF LastSlot, Oldest, Fields, Unwritten
<1>1. CASE Elsewhere
  BY <1>1 DEF Elsewhere, ring, consumer, Cycling, LastSlot, Oldest
<1>2. CASE ResetRings
  BY <1>2, ResetFills
<1>3. CASE StartField
  <2>1. srcHandle[mIepBuffIndex] = Unwritten /\ mIepBuffIndex \in Slots
    BY <1>3 DEF StartField, HasRoom, SlotsAgree, TypeOK
  <2>2. srcHandle' = srcHandle
    BY <1>3, <2>1 DEF StartField, TypeOK
  <2> QED BY <1>3, <2>2 DEF StartField, consumer, Cycling, LastSlot, Oldest
<1>4. CASE StoreField
  <2>1. mIepBuffIndex \in Slots /\ ~isFilled[mIepBuffIndex]
    BY <1>4 DEF StoreField, SlotsAgree, TypeOK
  <2>2. mIepBuffIndex = LastSlot
    <3> SUFFICES ASSUME mIepBuffIndex # LastSlot PROVE FALSE
      OBVIOUS
    <3>1. Distance(o, mIepBuffIndex) \in 0 .. K
      BY <1>0, <2>1, DistanceTypes, KAssumption
    <3>2. srcHandle[mIepBuffIndex] \in Fields
      BY <1>0, <2>1, <3>1, AfterValue DEF Cycling
    <3>3. srcHandle[mIepBuffIndex] # Unwritten
      BY <3>2, StampsAssumption DEF Fields, Unwritten
    <3> QED BY <2>1, <3>3 DEF SlotsAgree
  <2>3. srcHandle[LastSlot] = Unwritten
    BY <1>0, <2>1, <2>2 DEF SlotsAgree
  <2>4. K - 1 \in 0 .. (K - 1) /\ K - 1 \in 0 .. K /\ (K - 1) + 1 = K
    BY KAssumption
  <2>5. After(Oldest, K - 1) # Unwritten
    BY <1>0, <2>4, AfterValue, StampsAssumption DEF Fields, Unwritten
  <2>6. field = After(Oldest, K - 1) /\ iep # "deinterlace"
    BY <1>0, <2>1, <2>2, <2>3, <2>5 DEF Cycling
  <2>7. field' = After(Oldest, K)
    BY <1>0, <1>4, <2>4, <2>6, AfterNext DEF StoreField
  <2>8. /\ UNCHANGED <<iep, cur, screen, mIepBuffOutIndex>>
        /\ srcHandle' = [srcHandle EXCEPT ![LastSlot] = After(Oldest, K - 1)]
        /\ isFilled' = [isFilled EXCEPT ![LastSlot] = TRUE]
    BY <1>4, <2>2, <2>6 DEF StoreField, consumer
  <2>9. LastSlot' = LastSlot /\ Oldest' = Oldest /\ isFilled'[o]
    BY <1>0, <2>8 DEF LastSlot, Oldest, TypeOK
  <2>10. \A s \in Slots : s # LastSlot => srcHandle'[s] = srcHandle[s]
    BY <2>8 DEF TypeOK
  <2>11. srcHandle'[LastSlot] = After(Oldest, K - 1)
    BY <1>0, <2>8 DEF TypeOK
  <2>12. Cycling'
    BY <2>6, <2>7, <2>8, <2>9, <2>10, <2>11 DEF Cycling
  <2> QED BY <2>12
<1>5. CASE DropField
  BY <1>5 DEF DropField, consumer, Cycling, LastSlot, Oldest
<1>6. CASE Deinterlace
  BY <1>6 DEF Deinterlace, MayDeinterlace, ring, HasThree, last1, Cycling, LastSlot, Oldest
<1>7. CASE ShowField
  <2> DEFINE n == NextSlot(o)
  <2>1. /\ cur = o /\ isFilled[LastSlot] /\ n \in Slots /\ n # o /\ n # LastSlot
        /\ Before(n) = o
    BY <1>0, <1>7, SlotTypes DEF ShowField, Cycling, LastSlot
  <2>2. srcHandle[LastSlot] # Unwritten
    BY <1>0, <2>1 DEF SlotsAgree
  <2>3. srcHandle[LastSlot] = After(Oldest, K - 1) /\ field = After(Oldest, K)
    BY <2>2 DEF Cycling
  <2>4. \A s \in Slots : srcHandle[s] = After(Oldest, Distance(o, s))
    BY <1>0, <2>3, DistanceTypes DEF Cycling, LastSlot
  <2>5. /\ UNCHANGED field /\ iep' = "top" /\ screen' = o /\ mIepBuffOutIndex' = n
        /\ srcHandle' = [srcHandle EXCEPT ![o] = Unwritten]
        /\ isFilled' = [isFilled EXCEPT ![o] = FALSE]
    BY <1>7, <2>1 DEF ShowField, ReleaseSlot, EmptySlot
  <2>6. /\ LastSlot' = o /\ srcHandle'[o] = Unwritten
        /\ \A s \in Slots : s # o => srcHandle'[s] = srcHandle[s]
    BY <1>0, <2>1, <2>5 DEF LastSlot, TypeOK
  <2>7. isFilled'[n]
    <3>1. n # LastSlot /\ Distance(o, n) \in 0 .. K
      BY <1>0, <2>1, DistanceTypes, KAssumption
    <3>2. srcHandle[n] # Unwritten
      BY <1>0, <2>1, <2>4, <3>1, AfterValue, StampsAssumption DEF Fields, Unwritten
    <3> QED BY <2>1, <2>5, <3>2 DEF SlotsAgree, TypeOK
  <2>8. Oldest' = After(Oldest, 1)
    <3>1. Distance(o, n) = Distance(n, n) + 1 /\ Distance(n, n) = 0
      BY <1>0, <2>1, DistanceTypes
    <3> QED BY <2>1, <2>4, <2>5, <2>6, <3>1 DEF Oldest
  <2>9. \A s \in Slots : s # o => srcHandle'[s] = After(Oldest', Distance(n, s))
    <3> SUFFICES ASSUME NEW s \in Slots, s # o
                 PROVE  srcHandle'[s] = After(Oldest', Distance(n, s))
      OBVIOUS
    <3>1. Distance(o, s) = Distance(n, s) + 1 /\ Distance(n, s) \in 0 .. (K - 1)
      BY <1>0, <2>1, DistanceTypes
    <3>2. After(After(Oldest, 1), Distance(n, s)) = After(Oldest, Distance(n, s) + 1)
      BY <1>0, <3>1, AfterNext
    <3> QED BY <2>4, <2>6, <2>8, <3>1, <3>2
  <2>10. field' = After(Oldest', K - 1)
    <3>1. K - 1 \in 0 .. (K - 1) /\ (K - 1) + 1 = K
      BY KAssumption
    <3>2. After(After(Oldest, 1), K - 1) = After(Oldest, K)
      BY <1>0, <3>1, AfterNext
    <3> QED BY <2>3, <2>5, <2>8, <3>2
  <2>11. Cycling'
    BY <2>5, <2>6, <2>7, <2>9, <2>10 DEF Cycling
  <2> QED BY <2>11
<1>8. CASE ShowNothing
  BY <1>8 DEF ShowNothing, ring, Cycling, LastSlot, Oldest
<1> QED BY <1>1, <1>2, <1>3, <1>4, <1>5, <1>6, <1>7, <1>8, StepsOfRing

(* A reset during a deinterlace stays in force until the next one.          *)
LEMMA SkewedStep ==
  ASSUME TypeOK, skewed, [Next]_vars
  PROVE  (skewed \/ Filling \/ Cycling)'
<1>1. CASE ResetRings
  BY <1>1, ResetFills
<1>2. CASE ~ResetRings
  BY <1>2, StepsOfRing DEF Elsewhere, StartField, StoreField, DropField, Deinterlace,
     ShowField, ShowNothing
<1> QED BY <1>1, <1>2

(* The ring is type-correct and in order in every reachable state.          *)
THEOREM TypeCorrect == Spec => []TypeOK
<1> QED BY InitType, NextType, PTL DEF Spec

THEOREM AlwaysRing == Spec => []RingInv
<1>1. Init => RingInv
  <2> SUFFICES ASSUME Init PROVE RingInv
    OBVIOUS
  <2>1. TypeOK
    BY InitType
  <2>2. \A s \in Slots : s \in Nat /\ ~(s < 0)
    BY KAssumption DEF Slots
  <2> QED BY <2>1, <2>2 DEF Init, RingInv, SlotsAgree, Filling
<1>2. RingInv /\ [Next]_vars => RingInv'
  BY NextType, NextAgree, FillingStep, CyclingStep, SkewedStep DEF RingInv, TypeOK
<1> QED BY <1>1, <1>2, PTL DEF Spec

(* The deinterlacer reads whole fields, in order, for every size of the     *)
(* ring from the code's four up, though it holds no lock: from a restart of *)
(* PQ that meets no deinterlace to the next one that does.                  *)
THEOREM FieldsStayInOrder == Spec => []FieldsInOrder
<1>1. RingInv => FieldsInOrder
  <2> SUFFICES ASSUME RingInv, iep = "deinterlace", ~skewed
               PROVE  /\ srcHandle[cur] # Unwritten
                      /\ srcHandle[Before(cur)] = After(srcHandle[cur], K - 1)
                      /\ srcHandle[Before(Before(cur))] = After(srcHandle[cur], K - 2)
    BY DEF FieldsInOrder
  <2>1. Cycling /\ TypeOK /\ SlotsAgree /\ cur = mIepBuffOutIndex /\ isFilled[LastSlot]
    BY DEF RingInv, Filling, Cycling
  <2>2. /\ cur \in Slots /\ LastSlot = Before(cur) /\ LastSlot \in Slots
        /\ Before(Before(cur)) \in Slots /\ Before(Before(cur)) # LastSlot
        /\ Distance(cur, Before(Before(cur))) = K - 2
    BY <2>1, SlotTypes, DistanceTypes DEF TypeOK, LastSlot
  <2>3. srcHandle[LastSlot] = After(Oldest, K - 1) /\ srcHandle[cur] # Unwritten
    BY <2>1, <2>2 DEF Cycling, SlotsAgree
  <2> QED BY <2>1, <2>2, <2>3 DEF Cycling, Oldest
<1> QED BY <1>1, AlwaysRing, PTL

(* The deinterlacer does not write the buffer shown last since PQ was       *)
(* switched on, over the same stretches of time.                            *)
THEOREM ShownIsNotWritten == Spec => []ScreenNotWritten
<1>1. RingInv => ScreenNotWritten
  <2> SUFFICES ASSUME RingInv, iep = "deinterlace", ~skewed
               PROVE  screen \notin {cur, NextSlot(cur)}
    BY DEF ScreenNotWritten
  <2>1. Cycling /\ TypeOK /\ cur = mIepBuffOutIndex /\ cur \in Slots
    BY DEF RingInv, Filling, Cycling, TypeOK
  <2>2. NextSlot(cur) \in Slots /\ Before(cur) # cur /\ Before(cur) # NextSlot(cur)
    BY <2>1, SlotTypes
  <2>3. Nothing \notin Slots
    BY KAssumption DEF Nothing, Slots
  <2> QED BY <2>1, <2>2, <2>3 DEF Cycling, LastSlot
<1> QED BY <1>1, AlwaysRing, PTL
==============================================================================
