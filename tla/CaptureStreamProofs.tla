------------------------- MODULE CaptureStreamProofs -------------------------
(* What holds of CaptureStream for every number of buffers, every MaxCount  *)
(* and every choice of faults.                                              *)
EXTENDS CaptureStream, TLAPS, SequenceTheorems, FiniteSetTheorems, WellFoundedInduction

(* The first slot that describes b exists whenever some slot does, so the   *)
(* search of request_capture returns a slot or -1.                          *)
LEMMA SlotOfType ==
  ASSUME NEW b
  PROVE  /\ SlotOf(b) \in Slots \cup {-1}
         /\ (\E s \in Slots : bufferArray[s] = b) => SlotOf(b) \in Slots
<1> DEFINE T == {s \in Slots : bufferArray[s] = b}
<1>1. CASE T = {}
  BY <1>1 DEF SlotOf
<1>2. CASE T # {}
  <2> DEFINE R == {ss \in Nat \X Nat : ss[1] < ss[2]}
  <2>1. IsWellFoundedOn(R, Nat)
    <3>1. R = OpToRel(<, Nat)
      BY DEF OpToRel
    <3> QED BY <3>1, NatLessThanWellFounded
  <2>2. T \subseteq Nat
    BY NAssumption DEF Slots
  <2>3. \E x \in T : \A y \in T : ~ (<<y, x>> \in R)
    <3> HIDE DEF T, R
    <3> QED BY <1>2, <2>1, <2>2, WFMin
  <2>4. PICK x \in T : \A y \in T : ~ (<<y, x>> \in R)
    BY <2>3
  <2>5. \A y \in T : x <= y
    <3> SUFFICES ASSUME NEW y \in T PROVE x <= y
      OBVIOUS
    <3>1. x \in Nat /\ y \in Nat
      BY <2>2, <2>4
    <3>2. ~ (y < x)
      <4>1. <<y, x>> \notin R
        BY <2>4
      <4> QED BY <4>1, <3>1
    <3> QED BY <3>1, <3>2
  <2> QED BY <2>4, <2>5 DEF SlotOf
<1> QED BY <1>1, <1>2

LEMMA RemoveAtType ==
  ASSUME NEW S, NEW s \in Seq(S), NEW i \in DOMAIN s
  PROVE  /\ RemoveAt(s, i) \in Seq(S)
         /\ Len(RemoveAt(s, i)) = Len(s) - 1
<1>1. /\ Len(s) \in Nat /\ i \in 1 .. Len(s)
      /\ \A j \in 1 .. Len(s) : s[j] \in S
  BY LenProperties, ElementOfSeq
<1> DEFINE before == SubSeq(s, 1, i - 1)
           after == SubSeq(s, i + 1, Len(s))
<1>2. before \in Seq(S) /\ Len(before) = i - 1
  BY <1>1, SubSeqProperties
<1>3. after \in Seq(S) /\ Len(after) = Len(s) - i
  BY <1>1, SubSeqProperties
<1>4. RemoveAt(s, i) = before \o after
  BY DEF RemoveAt
<1> HIDE DEF before, after
<1>5. before \o after \in Seq(S) /\ Len(before \o after) = Len(before) + Len(after)
  BY <1>2, <1>3, ConcatProperties
<1> QED BY <1>1, <1>2, <1>3, <1>4, <1>5

LEMMA PostType ==
  ASSUME NEW q, NEW e \in {"ctrl", "source_change"}
  PROVE  Post(q, e) \in Seq({"ctrl", "source_change"})
<1> DEFINE S == {"ctrl", "source_change"}
<1>1. OtherEvent(e) \in S
  BY DEF OtherEvent
<1>2. \A a, b \in S : <<a>> \in Seq(S) /\ <<a, b>> \in Seq(S)
  OBVIOUS
<1> QED BY <1>1, <1>2 DEF Post
------------------------------------------------------------------------------
(* A ticket that is being taken was there: the load of the decrement saw a  *)
(* positive counter.                                                        *)
TypeInv ==
  /\ TypeOK
  /\ work.pc = "decrement" => work.reg > 0

LEMMA InitType == Init => TypeInv
<1>1. 0 \in Buffers /\ <<>> \in Seq(Buffers) /\ <<>> \in Seq({"ctrl", "source_change"})
  BY NAssumption DEF Buffers
<1> QED BY <1>1, NAssumption DEF Init, TypeInv, TypeOK, DriverTypeOK, Slots, Buffers,
                   IdleRequest, NoBuffer

(* What the threads assign to their states.                                 *)
WorkStates == [pc : {"top", "decrement", "select", "dqbuf", "notify"}, reg : Nat]
ReqStates == [pc : {"idle", "lookup", "state", "increment", "qbuf"},
              buf : Buffers \cup {NoBuffer}, slot : Slots \cup {-1}, reg : Nat]

LEMMA WorkFields ==
  ASSUME NEW w \in WorkStates, NEW pc \in {"top", "decrement", "select", "dqbuf", "notify"}
  PROVE  [w EXCEPT !.pc = pc] \in WorkStates /\ [w EXCEPT !.pc = pc].pc = pc
BY DEF WorkStates

LEMMA ReqFields ==
  ASSUME NEW r \in ReqStates, NEW pc \in {"idle", "lookup", "state", "increment", "qbuf"}
  PROVE  /\ [r EXCEPT !.pc = pc] \in ReqStates /\ [r EXCEPT !.pc = pc].buf = r.buf
         /\ \A s \in Slots \cup {-1} : /\ [r EXCEPT !.pc = pc, !.slot = s] \in ReqStates
                                       /\ [r EXCEPT !.pc = pc, !.slot = s].buf = r.buf
         /\ \A n \in Nat : /\ [r EXCEPT !.pc = pc, !.reg = n] \in ReqStates
                           /\ [r EXCEPT !.pc = pc, !.reg = n].buf = r.buf
         /\ \A b \in Buffers : /\ [r EXCEPT !.pc = pc, !.buf = b] \in ReqStates
                               /\ [r EXCEPT !.pc = pc, !.buf = b].buf = b
BY DEF ReqStates

LEMMA IdleReq == IdleRequest \in ReqStates /\ IdleRequest.pc = "idle"
BY DEF IdleRequest, ReqStates, NoBuffer

(* TypeInv by what may disturb it: a step proves the parts it touches.      *)
HalTyped ==
  /\ mState \in {"START", "STOPED"}
  /\ mOpen \in BOOLEAN /\ mFirstRequestCapture \in BOOLEAN
  /\ mRequestCaptureCount \in Nat
  /\ bufferArray \in [Slots -> Buffers]

WorkTyped ==
  /\ work \in WorkStates
  /\ work.pc = "decrement" => work.reg > 0
  /\ currBufferHandleIndex \in 0 .. N
  /\ work.pc # "top" => currBufferHandleIndex \in Slots

ReqTyped == req \in ReqStates /\ (req.pc # "idle" => req.buf \in Buffers)

ClientTyped == streamOpened \in BOOLEAN /\ held \in Seq(Buffers)

EventTyped ==
  /\ signal \in BOOLEAN
  /\ events \in Seq({"ctrl", "source_change"})
  /\ eventPc \in {"idle", "stop"}

LEMMA TypeParts ==
  TypeInv <=> DriverTypeOK /\ HalTyped /\ WorkTyped /\ ReqTyped /\ ClientTyped /\ EventTyped
BY DEF TypeInv, TypeOK, HalTyped, WorkTyped, ReqTyped, ClientTyped, EventTyped,
       WorkStates, ReqStates

LEMMA TypePartsNext ==
  TypeInv' <=> /\ DriverTypeOK' /\ HalTyped' /\ WorkTyped' /\ ReqTyped'
               /\ ClientTyped' /\ EventTyped'
BY DEF TypeInv, TypeOK, HalTyped, WorkTyped, ReqTyped, ClientTyped, EventTyped,
       WorkStates, ReqStates

LEMMA PartsStay ==
  /\ DriverTypeOK /\ UNCHANGED driverVars => DriverTypeOK'
  /\ HalTyped /\ UNCHANGED <<mState, mOpen, mFirstRequestCapture,
                             mRequestCaptureCount, bufferArray>> => HalTyped'
  /\ WorkTyped /\ UNCHANGED <<work, currBufferHandleIndex>> => WorkTyped'
  /\ ReqTyped /\ UNCHANGED req => ReqTyped'
  /\ ClientTyped /\ UNCHANGED client => ClientTyped'
  /\ EventTyped /\ UNCHANGED eventVars => EventTyped'
BY DEF DriverTypeOK, driverVars, HalTyped, WorkTyped, ReqTyped, ClientTyped, client,
       EventTyped, eventVars

LEMMA NextType == TypeInv /\ [Next]_vars => TypeInv'
<1> SUFFICES ASSUME DriverTypeOK, HalTyped, WorkTyped, ReqTyped, ClientTyped, EventTyped,
                    [Next]_vars
             PROVE  /\ DriverTypeOK' /\ HalTyped' /\ WorkTyped' /\ ReqTyped'
                    /\ ClientTyped' /\ EventTyped'
  BY TypeParts, TypePartsNext
<1> DEFINE Kept == /\ DriverTypeOK' /\ HalTyped' /\ WorkTyped' /\ ReqTyped'
                   /\ ClientTyped' /\ EventTyped'
<1>0. N \in Nat /\ N > 0 /\ Slots = 0 .. (N - 1) /\ Buffers = 0 .. (N - 1)
  BY NAssumption DEF Slots, Buffers
<1>w. work \in WorkStates /\ currBufferHandleIndex \in 0 .. N
  BY DEF WorkTyped
<1>r. req \in ReqStates /\ (req.pc # "idle" => req.buf \in Buffers)
      /\ req.slot \in Slots \cup {-1} /\ req.reg \in Nat
  BY DEF ReqTyped, ReqStates
<1>1. CASE Start
  <2>1. PICK d \in 0 .. N, k \in 0 .. N : StartDevice(d, k)
    BY <1>0, <1>1 DEF Start
  <2>2. DriverTypeOK'
    <3>1. \A i \in 1 .. k : i - 1 \in Buffers
      BY <1>0
    <3>2. [i \in 1 .. k |-> i - 1] \in Seq(Buffers)
      BY <3>1, IsASeq, <1>0
    <3> QED BY <2>1, <3>2 DEF StartDevice, QueueFirst, DriverTypeOK
  <2>3. HalTyped'
    <3>1. aquire_buffer(d) \in [Slots -> Buffers]
      BY <1>0 DEF aquire_buffer, HalTyped
    <3> QED BY <1>1, <2>1, <3>1 DEF StartDevice, Start, HalTyped
  <2>4. ClientTyped'
    BY <1>1 DEF Start, ClientTyped
  <2> QED BY <1>1, <2>2, <2>3, <2>4, PartsStay DEF Start
<1>2. CASE FirstRequest
  <2>1. HalTyped'
    BY <1>2 DEF FirstRequest, FirstTickets, HalTyped
  <2>2. WorkTyped'
    BY <1>0, <1>2 DEF FirstRequest, WorkTyped
  <2> QED BY <1>2, <2>1, <2>2, PartsStay DEF FirstRequest
<1>3. ASSUME NEW i \in Returnable, RequestCapture(i) PROVE Kept
  <2>1. i \in DOMAIN held
    BY DEF Returnable
  <2>2. held[i] \in Buffers /\ RemoveAt(held, i) \in Seq(Buffers)
    BY <2>1, RemoveAtType, ElementOfSeq, LenProperties DEF ClientTyped
  <2>3. ReqTyped'
    <3>1. req' = [IdleRequest EXCEPT !.pc = "lookup", !.buf = held[i]]
      BY <1>3 DEF RequestCapture
    <3> QED BY <2>2, <3>1, IdleReq, ReqFields DEF ReqTyped
  <2>4. ClientTyped'
    BY <1>3, <2>2 DEF RequestCapture, ClientTyped
  <2> QED BY <1>3, <2>3, <2>4, PartsStay DEF RequestCapture, hal
<1>4. CASE FindSlot
  <2>1. ReqTyped'
    <3>1. /\ req' = [req EXCEPT !.pc = "state", !.slot = SlotOf(req.buf)]
          /\ req.pc = "lookup"
      BY <1>4 DEF FindSlot
    <3>2. SlotOf(req.buf) \in Slots \cup {-1}
      BY SlotOfType
    <3> QED BY <1>r, <3>1, <3>2, ReqFields DEF ReqTyped
  <2> QED BY <1>4, <2>1, PartsStay DEF FindSlot, hal
<1>5. CASE RefuseRequest
  <2>1. ReqTyped'
    BY <1>5, IdleReq DEF RefuseRequest, ReqTyped
  <2> QED BY <1>5, <2>1, PartsStay DEF RefuseRequest, hal
<1>6. CASE LoadForIncrement
  <2>1. ReqTyped'
    <3>1. /\ req' = [req EXCEPT !.pc = "increment", !.reg = mRequestCaptureCount]
          /\ req.pc = "state" /\ mRequestCaptureCount \in Nat
      BY <1>6 DEF LoadForIncrement, HalTyped
    <3> QED BY <1>r, <3>1, ReqFields DEF ReqTyped
  <2> QED BY <1>6, <2>1, PartsStay DEF LoadForIncrement, hal
<1>7. CASE StoreIncrement
  <2>1. HalTyped'
    BY <1>r, <1>7 DEF StoreIncrement, HalTyped
  <2>2. ReqTyped'
    <3>1. req' = [req EXCEPT !.pc = "qbuf"] /\ req.pc = "increment"
      BY <1>7 DEF StoreIncrement
    <3> QED BY <1>r, <3>1, ReqFields DEF ReqTyped
  <2> QED BY <1>7, <2>1, <2>2, PartsStay DEF StoreIncrement
<1>8. CASE QueueRequested
  <2>1. DriverTypeOK'
    <3>1. CASE UNCHANGED driverVars
      BY <3>1, PartsStay
    <3>2. CASE req.slot # -1 /\ Qbuf(RequestedBuffer)
      <4>1. bufferArray[req.slot] \in Buffers
        BY <1>r, <3>2 DEF HalTyped
      <4>2. Qbuf(bufferArray[req.slot])
        BY <3>2 DEF RequestedBuffer
      <4> QED BY <4>1, <4>2, AppendProperties DEF Qbuf, DriverTypeOK
    <3> QED BY <1>8, <3>1, <3>2 DEF QueueRequested
  <2>2. ReqTyped'
    BY <1>8, IdleReq DEF QueueRequested, ReqTyped
  <2> QED BY <1>8, <2>1, <2>2, PartsStay DEF QueueRequested, hal
<1>9. CASE TakeTicket
  <2>1. WrappedIndex \in Slots
    BY <1>0, <1>w DEF WrappedIndex
  <2>2. WorkTyped'
    BY <1>0, <1>9, <2>1 DEF TakeTicket, WorkTyped, WorkStates, HalTyped
  <2> QED BY <1>9, <2>2, PartsStay DEF TakeTicket
<1>10. CASE StoreDecrement
  <2>1. HalTyped'
    BY <1>10 DEF StoreDecrement, HalTyped, WorkTyped, WorkStates
  <2>2. WorkTyped'
    <3>1. work' = [work EXCEPT !.pc = "select"] /\ work.pc = "decrement"
      BY <1>10 DEF StoreDecrement
    <3> QED BY <1>10, <3>1, WorkFields DEF StoreDecrement, WorkTyped
  <2> QED BY <1>10, <2>1, <2>2, PartsStay DEF StoreDecrement
<1>11. ASSUME NEW pc \in {"top", "dqbuf"}, work' = [work EXCEPT !.pc = pc], work.pc # "top",
              UNCHANGED <<driverVars, hal, req, client, eventVars>>
       PROVE  Kept
  <2>1. WorkTyped'
    BY <1>11, WorkFields DEF hal, WorkTyped
  <2> QED BY <1>11, <2>1, PartsStay DEF hal
<1>12. CASE GiveUp
  BY <1>11, <1>12 DEF GiveUp
<1>13. CASE SelectReadable
  BY <1>11, <1>13 DEF SelectReadable
<1>14. CASE DequeueFails
  BY <1>11, <1>14 DEF DequeueFails
<1>15. CASE Dequeue
  <2>1. DriverTypeOK'
    BY <1>15, HeadTailProperties DEF Dequeue, Dqbuf, Readable, DriverTypeOK
  <2>2. HalTyped'
    BY <1>15 DEF Dequeue, HalTyped
  <2>3. WorkTyped'
    <3>1. PICK pc \in {"notify", "top"} : work' = [work EXCEPT !.pc = pc]
      BY <1>15 DEF Dequeue
    <3>2. work' \in WorkStates /\ work'.pc \in {"notify", "top"}
      BY <1>w, <3>1, WorkFields
    <3>3. currBufferHandleIndex' = currBufferHandleIndex /\ currBufferHandleIndex \in Slots
      BY <1>15 DEF Dequeue, WorkTyped
    <3> QED BY <1>w, <3>2, <3>3 DEF WorkTyped
  <2> QED BY <1>15, <2>1, <2>2, <2>3, PartsStay DEF Dequeue
<1>16. CASE Notify
  <2>0. currBufferHandleIndex \in Slots
    BY <1>16 DEF Notify, WorkTyped
  <2>1. ClientTyped'
    <3>1. held' \in Seq(Buffers)
      <4>1. bufferArray[currBufferHandleIndex] \in Buffers /\ held \in Seq(Buffers)
        BY <2>0 DEF HalTyped, ClientTyped
      <4>2. Append(held, bufferArray[currBufferHandleIndex]) \in Seq(Buffers)
        BY <4>1, AppendProperties
      <4> QED BY <1>16, <4>1, <4>2 DEF Notify, wrapCaptureResultAndNotify, dataCallback
    <3> QED BY <1>16, <3>1 DEF Notify, ClientTyped
  <2>2. WorkTyped'
    <3>1. /\ work' = [work EXCEPT !.pc = "top"]
          /\ currBufferHandleIndex' = currBufferHandleIndex + 1
      BY <1>16 DEF Notify
    <3>2. currBufferHandleIndex' \in 0 .. N
      BY <1>0, <2>0, <3>1
    <3> QED BY <1>w, <3>1, <3>2, WorkFields DEF WorkTyped
  <2> QED BY <1>16, <2>1, <2>2, PartsStay DEF Notify
<1>17. CASE Fill
  <2>1. DriverTypeOK'
    BY <1>17, HeadTailProperties, AppendProperties DEF Fill, FillFrame, DriverTypeOK
  <2> QED BY <1>17, <2>1, PartsStay DEF Fill, hal
<1>18. CASE CableStep
  <2>1. EventTyped'
    BY <1>18, PostType DEF CableStep, Unplug, Plug, ModeChange, EventTyped
  <2> QED BY <1>18, <2>1, PartsStay DEF CableStep, Unplug, Plug, ModeChange, hal
<1>19. CASE HandleCtrl
  <2>1. EventTyped'
    BY <1>19, HeadTailProperties DEF HandleCtrl, EventTyped
  <2> QED BY <1>19, <2>1, PartsStay DEF HandleCtrl, hal
<1>20. CASE StopCapture
  <2>1. HalTyped' /\ EventTyped'
    BY <1>20 DEF StopCapture, HalTyped, EventTyped
  <2> QED BY <1>20, <2>1, PartsStay DEF StopCapture
<1>21. CASE HandleSourceChange
  <2>1. HalTyped' /\ EventTyped'
    BY <1>21, HeadTailProperties DEF HandleSourceChange, HalTyped, EventTyped
  <2> QED BY <1>21, <2>1, PartsStay DEF HandleSourceChange
<1>22. CASE UNCHANGED vars
  BY <1>22, PartsStay DEF vars, hal
<1> QED
  BY <1>1, <1>2, <1>3, <1>4, <1>5, <1>6, <1>7, <1>8, <1>9, <1>10, <1>12, <1>13,
     <1>14, <1>15, <1>16, <1>17, <1>18, <1>19, <1>20, <1>21, <1>22
     DEF Next, ClientStep, RequestStep, WorkStep, EventStep

LEMMA AlwaysTyped == Spec => []TypeInv
BY InitType, NextType, PTL DEF Spec

(* Every variable keeps the type its declaration in HinDev.h suggests, the  *)
(* capture counter never becomes negative, and the slot index workThread    *)
(* uses stays within bufferArray, whatever faults occur.                    *)
THEOREM TypeCorrect == Spec => []TypeOK
BY AlwaysTyped, PTL DEF TypeInv
------------------------------------------------------------------------------
(* The tickets.  The counter a thread loaded is still the counter when it   *)
(* stores, unless the two threads overlap; before the first request, and    *)
(* before start() has succeeded, no ticket is under way.                    *)
Exact ==
  /\ work.pc = "decrement" => work.reg = mRequestCaptureCount
  /\ req.pc = "increment" => req.reg = mRequestCaptureCount
  /\ ~ (work.pc = "decrement" /\ req.pc = "increment")

NothingUnderWay == held = <<>> /\ req.pc = "idle" /\ work.pc = "top"

BeforeFirstRequest ==
  /\ ~mOpen => NothingUnderWay
  /\ mFirstRequestCapture => NothingUnderWay /\ mRequestCaptureCount = 0

TicketInv == Exact /\ BeforeFirstRequest /\ AtMostTwoTickets

LEMMA InitTickets == Init => TicketInv
BY DEF Init, TicketInv, Exact, BeforeFirstRequest, NothingUnderWay,
       AtMostTwoTickets, Tickets, Count, IdleRequest, FirstTickets

LEMMA NextTickets ==
  ASSUME "race" \notin Faults
  PROVE  TypeInv /\ TicketInv /\ [Next]_vars => TicketInv'
<1> SUFFICES ASSUME TypeInv, TicketInv, [Next]_vars PROVE TicketInv'
  OBVIOUS
<1> USE DEF TicketInv, Exact, BeforeFirstRequest, NothingUnderWay,
            AtMostTwoTickets, Tickets, Count, FirstTickets
<1>0. /\ mRequestCaptureCount \in Nat /\ work.reg \in Nat /\ req.reg \in Nat
      /\ held \in Seq(Buffers) /\ Len(held) \in Nat
      /\ work \in [pc : {"top", "decrement", "select", "dqbuf", "notify"}, reg : Nat]
      /\ req \in [pc : {"idle", "lookup", "state", "increment", "qbuf"},
                  buf : Buffers \cup {NoBuffer}, slot : Slots \cup {-1}, reg : Nat]
  BY LenProperties DEF TypeInv, TypeOK
<1>1. CASE Start
  <2>1. PICK d \in 0 .. N, k \in 0 .. N : StartDevice(d, k)
    BY <1>1, NAssumption DEF Start
  <2>2. mRequestCaptureCount' = 0 /\ ~mOpen
    BY <1>1, <2>1 DEF Start, StartDevice
  <2>3. UNCHANGED <<work, req, held>>
    BY <1>1 DEF Start
  <2> QED BY <2>2, <2>3
<1>2. CASE FirstRequest
  BY <1>0, <1>2 DEF FirstRequest, MayRequest, client
<1>3. ASSUME NEW i \in Returnable, RequestCapture(i) PROVE TicketInv'
  <2>1. Len(held') = Len(held) - 1 /\ held # <<>>
    <3>1. i \in DOMAIN held
      BY DEF Returnable
    <3> QED BY <1>0, <1>3, <3>1, RemoveAtType DEF RequestCapture, MayRequest
  <2>2. /\ req.pc = "idle" /\ req'.pc = "lookup" /\ mOpen /\ ~mFirstRequestCapture
        /\ UNCHANGED <<hal, work>>
    BY <1>3, <2>1 DEF RequestCapture, MayRequest, IdleRequest
  <2> QED BY <1>0, <2>1, <2>2 DEF hal
<1>4. CASE FindSlot
  BY <1>0, <1>4 DEF FindSlot, hal, client
<1>5. CASE RefuseRequest
  BY <1>0, <1>5 DEF RefuseRequest, IdleRequest, hal, client
<1>6. CASE LoadForIncrement
  BY <1>0, <1>6 DEF LoadForIncrement, hal, client
<1>7. CASE StoreIncrement
  BY <1>0, <1>7 DEF StoreIncrement, client
<1>8. CASE QueueRequested
  BY <1>0, <1>8 DEF QueueRequested, IdleRequest, hal, client
<1>9. CASE TakeTicket
  BY <1>0, <1>9 DEF TakeTicket, client
<1>10. CASE StoreDecrement
  BY <1>0, <1>10 DEF StoreDecrement, client
<1>11. CASE GiveUp
  BY <1>0, <1>11 DEF GiveUp, hal, client
<1>12. CASE SelectReadable
  BY <1>0, <1>12 DEF SelectReadable, hal, client
<1>13. CASE DequeueFails
  BY <1>0, <1>13 DEF DequeueFails, hal, client
<1>14. CASE Dequeue
  BY <1>0, <1>14 DEF Dequeue, client
<1>15. CASE Notify
  <2>1. Len(held') <= Len(held) + 1 /\ Len(held') \in Nat
    <3>1. bufferArray[currBufferHandleIndex] \in Buffers
      BY <1>15 DEF Notify, wrapCaptureResultAndNotify, dataCallback, TypeInv, TypeOK
    <3> QED BY <1>0, <1>15, <3>1, AppendProperties DEF Notify, wrapCaptureResultAndNotify, dataCallback
  <2>2. /\ work.pc = "notify" /\ work' = [work EXCEPT !.pc = "top"]
        /\ UNCHANGED <<mOpen, mFirstRequestCapture, mRequestCaptureCount, req>>
    BY <1>15 DEF Notify, wrapCaptureResultAndNotify, dataCallback
  <2> QED BY <1>0, <2>1, <2>2
<1>16. CASE Fill
  BY <1>0, <1>16 DEF Fill, hal, client
<1>17. CASE CableStep
  <2>1. UNCHANGED <<hal, work, req, client>>
    BY <1>17 DEF CableStep, Unplug, Plug, ModeChange
  <2> QED BY <1>0, <2>1 DEF hal, client
<1>18. CASE EventStep
  <2>1. UNCHANGED <<mOpen, mFirstRequestCapture, mRequestCaptureCount, work, req, client>>
    BY <1>18 DEF EventStep, HandleCtrl, StopCapture, HandleSourceChange, hal
  <2> QED BY <1>0, <2>1 DEF client
<1>19. CASE UNCHANGED vars
  BY <1>0, <1>19 DEF vars, hal, client
<1> QED
  BY <1>1, <1>2, <1>3, <1>4, <1>5, <1>6, <1>7, <1>8, <1>9, <1>10, <1>11, <1>12,
     <1>13, <1>14, <1>15, <1>16, <1>17, <1>18, <1>19
     DEF Next, ClientStep, RequestStep, WorkStep

(* However many buffers there are, and whatever times out, fails, is        *)
(* unplugged or comes back out of order: as long as the increment and the   *)
(* decrement of mRequestCaptureCount do not overlap, the two tickets of the *)
(* first request_capture never become three.                                *)
THEOREM TicketsBounded ==
  ASSUME "race" \notin Faults
  PROVE  Spec => []AtMostTwoTickets
<1>1. Spec => []TypeInv
  BY AlwaysTyped
<1>2. TypeInv /\ TicketInv /\ [Next]_vars => TicketInv'
  BY NextTickets
<1>3. TicketInv => AtMostTwoTickets
  BY DEF TicketInv
<1> QED BY <1>1, <1>2, <1>3, InitTickets, PTL DEF Spec
------------------------------------------------------------------------------
(* The slots.  A buffer the client holds was delivered from some slot, and  *)
(* every delivery since took another buffer out of the driver: as long as   *)
(* the driver has one left, workThread has not come round to that slot.     *)
(* Buffers may get lost on the way, in the driver's hands or at a stop.     *)

(* The slot k places before the one workThread uses next.                   *)
Before(k) == IF currBufferHandleIndex >= k THEN currBufferHandleIndex - k
                                           ELSE currBufferHandleIndex - k + N

(* The buffers that are neither with the client nor looked up.              *)
Rest ==
  Len(done) + Len(queued) + Count(work.pc = "notify")
    + Count(req.pc \in {"state", "increment", "qbuf"})

(* The i-th held buffer was delivered d[i] places ago, and the one that is  *)
(* being looked up d[0].                                                    *)
Delivered(d) ==
  /\ \A i \in 0 .. Len(held) : d[i] \in Nat /\ d[i] >= 1
  /\ \A i, j \in 0 .. Len(held) : i < j => d[j] < d[i]
  /\ \A i \in 1 .. Len(held) : d[i] + Rest <= N /\ bufferArray[Before(d[i])] = held[i]
  /\ req.pc = "lookup" => d[0] + Rest <= N /\ bufferArray[Before(d[0])] = req.buf

TrailInv ==
  /\ Rest <= N
  /\ \E d : Delivered(d)

LEMMA TrailTypes ==
  ASSUME TypeInv
  PROVE  /\ N \in Nat /\ N > 0 /\ Slots = 0 .. (N - 1) /\ Buffers = 0 .. (N - 1)
         /\ Len(done) \in Nat /\ Len(queued) \in Nat /\ Len(held) \in Nat
         /\ done \in Seq(Buffers) /\ queued \in Seq(Buffers) /\ held \in Seq(Buffers)
         /\ currBufferHandleIndex \in 0 .. N
         /\ Rest \in Nat /\ Rest >= Len(done) + Len(queued)
<1>1. /\ done \in Seq(Buffers) /\ queued \in Seq(Buffers) /\ held \in Seq(Buffers)
      /\ currBufferHandleIndex \in 0 .. N
  BY DEF TypeInv, TypeOK, DriverTypeOK
<1>2. Len(done) \in Nat /\ Len(queued) \in Nat /\ Len(held) \in Nat
  BY <1>1, LenProperties
<1>3. Rest \in Nat /\ Rest >= Len(done) + Len(queued)
  BY <1>2 DEF Rest, Count
<1> QED BY <1>1, <1>2, <1>3, NAssumption DEF Slots, Buffers

(* A step that only lets go of buffers.                                     *)
LEMMA TrailLeft ==
  ASSUME TypeInv, TypeInv', TrailInv, Rest' <= Rest,
         UNCHANGED <<held, currBufferHandleIndex, bufferArray>>,
         req'.pc = "lookup" => req.pc = "lookup" /\ req'.buf = req.buf
  PROVE  TrailInv'
<1>1. PICK d : Delivered(d)
  BY DEF TrailInv
<1>2. \A i \in 0 .. Len(held) : d[i] \in Nat
  BY <1>1 DEF Delivered
<1>3. Rest \in Nat /\ Rest' \in Nat /\ N \in Nat
  <2>1. done' \in Seq(Buffers) /\ queued' \in Seq(Buffers)
    BY DEF TypeInv, TypeOK, DriverTypeOK
  <2>2. Len(done') \in Nat /\ Len(queued') \in Nat
    BY <2>1, LenProperties
  <2> QED BY <2>2, TrailTypes DEF Rest, Count
<1>4. \A k : Before(k)' = Before(k)
  BY DEF Before
<1>5. 0 \in 0 .. Len(held) /\ \A i \in 1 .. Len(held) : i \in 0 .. Len(held)
  BY TrailTypes
<1>6. Delivered(d)'
  BY <1>1, <1>2, <1>3, <1>4, <1>5 DEF Delivered
<1> QED BY <1>3, <1>6 DEF TrailInv

(* Without buffers at the client there is no trail.                         *)
LEMMA NoTrail ==
  ASSUME TypeInv, held = <<>>, req.pc # "lookup", Rest <= N
  PROVE  TrailInv
<1>1. Len(held) = 0
  OBVIOUS
<1>2. PICK d : d = [i \in 0 .. 0 |-> 1]
  OBVIOUS
<1>3. Delivered(d)
  BY <1>1, <1>2 DEF Delivered
<1> QED BY <1>3 DEF TrailInv

LEMMA NoTrailAfter ==
  ASSUME TypeInv', held' = <<>>, req'.pc # "lookup", Rest' <= N
  PROVE  TrailInv'
<1>1. Len(held') = 0
  OBVIOUS
<1>2. PICK d : d = [i \in 0 .. 0 |-> 1]
  OBVIOUS
<1>3. Delivered(d)'
  BY <1>1, <1>2 DEF Delivered
<1> QED BY <1>3 DEF TrailInv

LEMMA FirstKept ==
  ASSUME TypeInv, BeforeFirstRequest, [Next]_vars
  PROVE  BeforeFirstRequest'
<1> USE DEF BeforeFirstRequest, NothingUnderWay
<1>1. CASE Start
  BY <1>1 DEF Start, StartDevice
<1>2. CASE FirstRequest
  BY <1>2 DEF FirstRequest, MayRequest, client
<1>3. ASSUME NEW i \in Returnable, RequestCapture(i) PROVE BeforeFirstRequest'
  <2>1. i \in DOMAIN held /\ held \in Seq(Buffers)
    BY DEF Returnable, TypeInv, TypeOK
  <2>2. held # <<>>
    BY <2>1
  <2> QED BY <1>3, <2>2 DEF RequestCapture, hal
<1>4. CASE RequestStep
  BY <1>4 DEF RequestStep, FindSlot, RefuseRequest, LoadForIncrement, StoreIncrement,
              QueueRequested, hal, client
<1>5. CASE TakeTicket \/ StoreDecrement \/ GiveUp \/ SelectReadable \/ DequeueFails
  BY <1>5 DEF TakeTicket, StoreDecrement, GiveUp, SelectReadable, DequeueFails,
              hal, client, TypeInv, TypeOK
<1>6. CASE Dequeue \/ Notify
  BY <1>6 DEF Dequeue, Notify, hal, client
<1>7. CASE Fill \/ EventStep \/ CableStep
  BY <1>7 DEF Fill, EventStep, HandleCtrl, StopCapture, HandleSourceChange, CableStep,
              Unplug, Plug, ModeChange, hal, client
<1>8. CASE UNCHANGED vars
  BY <1>8 DEF vars, hal, client
<1> QED BY <1>1, <1>2, <1>3, <1>4, <1>5, <1>6, <1>7, <1>8
        DEF Next, ClientStep, WorkStep

(* The oldest held buffer is looked up.                                     *)
LEMMA TrailRequest ==
  ASSUME TypeInv, TypeInv', TrailInv, RequestCapture(1), 1 \in DOMAIN held
  PROVE  TrailInv'
<1>1. PICK d : Delivered(d)
  BY DEF TrailInv
<1>2. Len(held) \in Nat /\ Len(held) >= 1 /\ held \in Seq(Buffers)
  BY TrailTypes
<1>3. /\ req.pc = "idle" /\ req'.pc = "lookup" /\ req'.buf = held[1]
      /\ held' = RemoveAt(held, 1)
      /\ UNCHANGED <<driverVars, hal, work>>
  BY DEF RequestCapture, MayRequest, IdleRequest
<1>4. held' = Tail(held)
  <2>1. held # <<>>
    BY <1>2
  <2>2. SubSeq(held, 1, 1 - 1) = <<>>
    BY SubSeqEmpty
  <2>3. SubSeq(held, 1 + 1, Len(held)) = Tail(held)
    BY <1>2, <2>1, TailIsSubSeq
  <2>4. Tail(held) \in Seq(Buffers)
    BY <1>2, <2>1, HeadTailProperties
  <2> QED BY <1>3, <2>1, <2>2, <2>3, <2>4, ConcatEmptySeq DEF RemoveAt
<1>5. Len(held') = Len(held) - 1 /\ \A i \in 1 .. Len(held') : held'[i] = held[i + 1]
  BY <1>2, <1>4, HeadTailProperties
<1>6. Rest' = Rest /\ \A k : Before(k)' = Before(k)
  BY <1>3 DEF Rest, Before, driverVars, hal, Count
<1>7. PICK e : e = [i \in 0 .. Len(held') |-> d[i + 1]]
  OBVIOUS
<1>8. \A i \in 0 .. Len(held') : e[i] = d[i + 1] /\ i + 1 \in 0 .. Len(held)
  BY <1>2, <1>5, <1>7
<1>9. bufferArray' = bufferArray
  BY <1>3 DEF hal
<1>10. Delivered(e)'
  <2>1. \A i \in 0 .. Len(held') : e[i] \in Nat /\ e[i] >= 1
    BY <1>1, <1>8 DEF Delivered
  <2>2. ASSUME NEW i \in 0 .. Len(held'), NEW j \in 0 .. Len(held'), i < j
        PROVE  e[j] < e[i]
    BY <1>1, <1>2, <1>5, <1>8, <2>2 DEF Delivered
  <2>3. ASSUME NEW i \in 1 .. Len(held')
        PROVE  e[i] + Rest' <= N /\ bufferArray'[Before(e[i])'] = held'[i]
    <3>1. e[i] = d[i + 1] /\ i + 1 \in 1 .. Len(held) /\ held'[i] = held[i + 1]
      BY <1>2, <1>5, <1>8
    <3> QED BY <1>1, <1>6, <1>9, <3>1 DEF Delivered
  <2>4. e[0] + Rest' <= N /\ bufferArray'[Before(e[0])'] = req'.buf
    <3>1. e[0] = d[1] /\ 1 \in 1 .. Len(held)
      BY <1>2, <1>5, <1>8
    <3> QED BY <1>1, <1>3, <1>6, <1>9, <3>1 DEF Delivered
  <2> QED BY <2>1, <2>2, <2>3, <2>4 DEF Delivered
<1> QED BY <1>6, <1>10 DEF TrailInv

(* The buffer that has been looked up is not with the client.               *)
LEMMA TrailFound ==
  ASSUME TypeInv, TypeInv', TrailInv, FindSlot
  PROVE  TrailInv'
<1>1. PICK d : Delivered(d)
  BY DEF TrailInv
<1>2. /\ req.pc = "lookup" /\ req'.pc = "state"
      /\ UNCHANGED <<driverVars, hal, work, held>>
  BY DEF FindSlot, client, TypeInv, TypeOK
<1>3. Rest' = Rest + 1 /\ Rest \in Nat /\ Len(held) \in Nat
  <2>1. Count(req.pc \in {"state", "increment", "qbuf"}) = 0
        /\ Count(req'.pc \in {"state", "increment", "qbuf"}) = 1
    BY <1>2 DEF Count
  <2> QED BY <1>2, <2>1, TrailTypes DEF Rest, driverVars, Count
<1>4. \A k : Before(k)' = Before(k)
  BY <1>2 DEF Before, hal
<1>5. d[0] \in Nat /\ d[0] >= 1 /\ d[0] + Rest <= N
  BY <1>1, <1>2, <1>3 DEF Delivered
<1>6. \A i \in 1 .. Len(held) : i \in 0 .. Len(held) /\ d[i] \in Nat /\ d[i] < d[0]
  BY <1>1, <1>3 DEF Delivered
<1>7. N \in Nat
  BY TrailTypes
<1>8. \A i \in 1 .. Len(held) : d[i] + Rest' <= N
  BY <1>3, <1>5, <1>6, <1>7
<1>9. Delivered(d)'
  BY <1>1, <1>2, <1>4, <1>8 DEF Delivered, hal
<1>10. Rest' <= N
  BY <1>3, <1>5, <1>7
<1> QED BY <1>9, <1>10 DEF TrailInv

(* The slot that DQBUF fills is none of those the held buffers came from.   *)
LEMMA TrailDequeue ==
  ASSUME TypeInv, TypeInv', TrailInv, Dequeue
  PROVE  TrailInv'
<1>1. PICK d : Delivered(d)
  BY DEF TrailInv
<1>2. PICK b \in Buffers :
        /\ work.pc = "dqbuf" /\ done # <<>> /\ done' = Tail(done) /\ queued' = queued
        /\ bufferArray' = [bufferArray EXCEPT ![currBufferHandleIndex] = b]
        /\ UNCHANGED <<currBufferHandleIndex, req, held>>
  BY DEF Dequeue, Dqbuf, Readable, client
<1>3. /\ N \in Nat /\ N > 0 /\ Rest \in Nat /\ Len(done) \in Nat /\ Len(queued) \in Nat
      /\ Len(held) \in Nat /\ Rest >= Len(done) + Len(queued)
  BY TrailTypes
<1>4. Len(done) >= 1 /\ Len(done') = Len(done) - 1
  <2>1. done \in Seq(Buffers)
    BY TrailTypes
  <2> QED BY <1>2, <1>3, <2>1, HeadTailProperties, EmptySeq
<1>5. Rest' <= Rest /\ Rest' \in Nat
  <2>1. Count(work.pc = "notify") = 0 /\ Count(work.pc = "notify")' \in {0, 1}
    BY <1>2 DEF Count
  <2>2. Count(req.pc \in {"state", "increment", "qbuf"})' = Count(req.pc \in {"state", "increment", "qbuf"})
        /\ Count(req.pc \in {"state", "increment", "qbuf"}) \in {0, 1}
    BY <1>2 DEF Count
  <2> QED BY <1>2, <1>3, <1>4, <2>1, <2>2 DEF Rest
<1>6. currBufferHandleIndex \in Slots /\ Slots = 0 .. (N - 1) /\ bufferArray \in [Slots -> Buffers]
  BY <1>2, TrailTypes DEF TypeInv, TypeOK
<1>7. ASSUME NEW k \in Nat, k >= 1, k + Rest <= N
      PROVE  /\ k + Rest' <= N
             /\ bufferArray'[Before(k)'] = bufferArray[Before(k)]
  <2>1. k + Rest' <= N
    <3>1. PICK r, q : r = Rest /\ q = Rest'
      OBVIOUS
    <3>2. q \in Nat /\ r \in Nat /\ q <= r /\ k + r <= N /\ N \in Nat
      BY <1>3, <1>5, <1>7, <3>1
    <3>3. k + q <= N
      BY <3>2
    <3> QED BY <3>1, <3>3
  <2>2. Rest >= 1
    BY <1>3, <1>4
  <2>3. k <= N - 1
    BY <1>3, <1>7, <2>2
  <2>4. Before(k) \in Slots /\ Before(k) # currBufferHandleIndex /\ Before(k)' = Before(k)
    <3>1. PICK c : c = currBufferHandleIndex
      OBVIOUS
    <3>2. c \in 0 .. (N - 1) /\ k \in 1 .. (N - 1) /\ N \in Nat
      BY <1>3, <1>6, <1>7, <2>3, <3>1
    <3>3. Before(k) = IF c >= k THEN c - k ELSE c - k + N
      BY <3>1 DEF Before
    <3>4. Before(k) \in 0 .. (N - 1) /\ Before(k) # c
      BY <3>2, <3>3
    <3>5. Before(k)' = Before(k)
      BY <1>2 DEF Before
    <3> QED BY <1>6, <3>1, <3>4, <3>5
  <2> QED BY <1>2, <1>6, <2>1, <2>4
<1>8. 0 \in 0 .. Len(held) /\ \A i \in 1 .. Len(held) : i \in 0 .. Len(held)
  BY <1>3
<1>9. Delivered(d)'
  <2>1. \A i \in 1 .. Len(held) : d[i] + Rest' <= N /\ bufferArray'[Before(d[i])'] = held[i]
    BY <1>1, <1>7, <1>8 DEF Delivered
  <2>2. req.pc = "lookup" => d[0] + Rest' <= N /\ bufferArray'[Before(d[0])'] = req.buf
    BY <1>1, <1>7, <1>8 DEF Delivered
  <2> QED BY <1>1, <1>2, <2>1, <2>2 DEF Delivered
<1>10. Rest' <= N
  BY <1>3, <1>5 DEF TrailInv
<1> QED BY <1>9, <1>10 DEF TrailInv

(* What is delivered was in the slot workThread leaves; a result that is    *)
(* dropped leaves a gap.                                                    *)
LEMMA TrailNotify ==
  ASSUME TypeInv, TypeInv', TrailInv, Notify
  PROVE  TrailInv'
<1>1. PICK d : Delivered(d)
  BY DEF TrailInv
<1>2. /\ work.pc = "notify" /\ work'.pc = "top" /\ UNCHANGED <<driverVars, req, bufferArray>>
      /\ currBufferHandleIndex' = currBufferHandleIndex + 1
      /\ \/ held' = held
         \/ held' = Append(held, bufferArray[currBufferHandleIndex])
  BY DEF Notify, wrapCaptureResultAndNotify, dataCallback, TypeInv, TypeOK
<1>3. /\ N \in Nat /\ N > 0 /\ Rest \in Nat /\ Len(held) \in Nat /\ held \in Seq(Buffers)
      /\ currBufferHandleIndex \in 0 .. (N - 1)
  BY <1>2, TrailTypes DEF TypeInv, TypeOK
<1>4. Rest' = Rest - 1 /\ Rest' \in Nat
  <2>1. Count(work.pc = "notify") = 1 /\ Count(work.pc = "notify")' = 0
    BY <1>2 DEF Count
  <2>2. Count(req.pc \in {"state", "increment", "qbuf"})' = Count(req.pc \in {"state", "increment", "qbuf"})
        /\ Count(req.pc \in {"state", "increment", "qbuf"}) \in {0, 1}
    BY <1>2 DEF Count
  <2>3. Len(done) \in Nat /\ Len(queued) \in Nat /\ done' = done /\ queued' = queued
    BY <1>2, TrailTypes DEF driverVars
  <2> QED BY <2>1, <2>2, <2>3 DEF Rest
<1>5. ASSUME NEW k \in Nat, k >= 1
      PROVE  k + 1 \in Nat /\ Before(k + 1)' = Before(k) /\ (k + Rest <= N => k + 1 + Rest' <= N)
  BY <1>2, <1>3, <1>4, <1>5 DEF Before
<1>6. Before(1)' = currBufferHandleIndex
  BY <1>2, <1>3 DEF Before
<1>7. \A i \in 0 .. Len(held) : d[i] \in Nat /\ d[i] >= 1
  BY <1>1 DEF Delivered
<1>8. 0 \in 0 .. Len(held) /\ \A i \in 1 .. Len(held) : i \in 0 .. Len(held)
  BY <1>3
<1>9. PICK e : e = [i \in 0 .. Len(held') |-> IF i <= Len(held) THEN d[i] + 1 ELSE 1]
  OBVIOUS
<1>10. /\ Len(held') \in {Len(held), Len(held) + 1}
       /\ \A i \in 1 .. Len(held) : held'[i] = held[i]
       /\ Len(held') = Len(held) + 1 => held'[Len(held) + 1] = bufferArray[currBufferHandleIndex]
  <2>1. bufferArray[currBufferHandleIndex] \in Buffers
    BY <1>3, TrailTypes DEF TypeInv, TypeOK
  <2> QED BY <1>2, <1>3, <2>1, AppendProperties
<1>11. \A i \in 0 .. Len(held') : i \in 0 .. Len(held) \/ (i = Len(held) + 1 /\ i = Len(held'))
  BY <1>3, <1>10
<1>12. /\ \A i \in 0 .. Len(held) : e[i] = d[i] + 1
       /\ Len(held') = Len(held) + 1 => e[Len(held) + 1] = 1
  BY <1>3, <1>9, <1>10
<1>13. Delivered(e)'
  <2>1. \A i \in 0 .. Len(held') : e[i] \in Nat /\ e[i] >= 1
    BY <1>7, <1>11, <1>12
  <2>2. ASSUME NEW i \in 0 .. Len(held'), NEW j \in 0 .. Len(held'), i < j
        PROVE  e[j] < e[i]
    <3>1. i \in 0 .. Len(held)
      BY <1>3, <1>10, <2>2
    <3>2. CASE j \in 0 .. Len(held)
      <4>1. d[j] < d[i]
        BY <1>1, <2>2, <3>1, <3>2 DEF Delivered
      <4> QED BY <1>7, <1>12, <3>1, <3>2, <4>1
    <3>3. CASE j = Len(held) + 1 /\ j = Len(held')
      BY <1>7, <1>12, <3>1, <3>3
    <3> QED BY <1>11, <3>2, <3>3
  <2>3. ASSUME NEW i \in 1 .. Len(held')
        PROVE  e[i] + Rest' <= N /\ bufferArray'[Before(e[i])'] = held'[i]
    <3>1. CASE i \in 1 .. Len(held)
      <4>1. d[i] \in Nat /\ d[i] >= 1 /\ e[i] = d[i] + 1
        BY <1>7, <1>8, <1>12, <3>1
      <4>2. d[i] + Rest <= N /\ bufferArray[Before(d[i])] = held[i]
        BY <1>1, <3>1 DEF Delivered
      <4> QED BY <1>2, <1>5, <1>10, <3>1, <4>1, <4>2
    <3>2. CASE i = Len(held) + 1 /\ i = Len(held')
      <4>1. e[i] = 1 /\ held'[i] = bufferArray[currBufferHandleIndex]
        BY <1>10, <1>12, <3>2
      <4>2. 1 + Rest' <= N
        BY <1>3, <1>4 DEF TrailInv
      <4> QED BY <1>2, <1>6, <4>1, <4>2
    <3> QED BY <1>3, <1>11, <3>1, <3>2
  <2>4. req'.pc = "lookup" => e[0] + Rest' <= N /\ bufferArray'[Before(e[0])'] = req'.buf
    <3> SUFFICES ASSUME req.pc = "lookup"
                 PROVE  e[0] + Rest' <= N /\ bufferArray'[Before(e[0])'] = req'.buf
      BY <1>2
    <3>1. d[0] + Rest <= N /\ bufferArray[Before(d[0])] = req.buf
      BY <1>1 DEF Delivered
    <3>2. d[0] \in Nat /\ d[0] >= 1 /\ e[0] = d[0] + 1
      BY <1>7, <1>8, <1>12
    <3> QED BY <1>2, <1>5, <3>1, <3>2
  <2> QED BY <2>1, <2>2, <2>3, <2>4 DEF Delivered
<1>14. Rest' <= N
  BY <1>3, <1>4 DEF TrailInv
<1> QED BY <1>13, <1>14 DEF TrailInv

LEMMA InitTrail == Init => TrailInv
<1> SUFFICES ASSUME Init PROVE TrailInv
  OBVIOUS
<1>1. TypeInv
  BY InitType
<1>2. held = <<>> /\ req.pc # "lookup" /\ done = <<>> /\ queued = <<>> /\ work.pc = "top"
      /\ req.pc = "idle"
  BY DEF Init, IdleRequest
<1>3. Rest = 0
  BY <1>2 DEF Rest, Count
<1> QED BY <1>1, <1>2, <1>3, NAssumption, NoTrail

LEMMA NextTrail ==
  ASSUME "reorder" \notin Faults, TypeInv, TypeInv', BeforeFirstRequest, TrailInv, [Next]_vars
  PROVE  TrailInv'
<1>0. /\ N \in Nat /\ N > 0 /\ Rest \in Nat /\ Len(done) \in Nat /\ Len(queued) \in Nat
      /\ done \in Seq(Buffers) /\ queued \in Seq(Buffers)
      /\ DOMAIN work = {"pc", "reg"} /\ DOMAIN req = {"pc", "buf", "slot", "reg"}
  BY TrailTypes DEF TypeInv, TypeOK
<1>1. ASSUME UNCHANGED <<driverVars, held, currBufferHandleIndex, bufferArray>>,
             req' = req \/ (req.pc # "lookup" /\ req'.pc # "lookup"
                             /\ (req'.pc = "idle" \/ req.pc \in {"state", "increment", "qbuf"})),
             work'.pc = "notify" => work.pc = "notify"
      PROVE  TrailInv'
  <2>1. Rest' <= Rest
    <3>1. Count(work.pc = "notify")' \in Nat /\ Count(work.pc = "notify") \in Nat
          /\ Count(work.pc = "notify")' <= Count(work.pc = "notify")
      BY <1>1 DEF Count
    <3>2. Count(req.pc \in {"state", "increment", "qbuf"})' \in Nat
          /\ Count(req.pc \in {"state", "increment", "qbuf"}) \in Nat
          /\ Count(req.pc \in {"state", "increment", "qbuf"})' <= Count(req.pc \in {"state", "increment", "qbuf"})
      BY <1>1 DEF Count
    <3> QED BY <1>0, <1>1, <3>1, <3>2 DEF Rest, driverVars
  <2>2. req'.pc = "lookup" => req.pc = "lookup" /\ req'.buf = req.buf
    BY <1>1
  <2> QED BY <1>1, <2>1, <2>2, TrailLeft
<1>2. CASE Start
  <2>1. PICK d \in 0 .. N, k \in 0 .. N : StartDevice(d, k)
    BY <1>0, <1>2 DEF Start
  <2>2. NothingUnderWay /\ UNCHANGED <<work, req, held>>
    BY <1>2 DEF Start, BeforeFirstRequest
  <2>3. held' = <<>> /\ req'.pc = "idle" /\ work'.pc = "top"
    BY <2>2 DEF NothingUnderWay
  <2>4. Len(queued') = k /\ Len(done') = 0
    BY <1>0, <2>1 DEF StartDevice, QueueFirst
  <2>5. Rest' = k
    BY <2>3, <2>4 DEF Rest, Count
  <2> QED BY <1>0, <2>3, <2>5, NoTrailAfter
<1>3. CASE FirstRequest
  <2>1. NothingUnderWay /\ UNCHANGED <<driverVars, work, req, held>>
    BY <1>3 DEF FirstRequest, BeforeFirstRequest, client
  <2>2. held' = <<>> /\ req'.pc = "idle" /\ Rest' = Rest
    BY <2>1 DEF NothingUnderWay, Rest, driverVars
  <2> QED BY <1>0, <2>2, NoTrailAfter DEF TrailInv
<1>4. ASSUME NEW i \in Returnable, RequestCapture(i) PROVE TrailInv'
  <2>1. i = 1 /\ 1 \in DOMAIN held
    BY DEF Returnable
  <2> QED BY <1>4, <2>1, TrailRequest
<1>5. CASE FindSlot
  BY <1>5, TrailFound
<1>6. CASE RefuseRequest
  BY <1>1, <1>6 DEF RefuseRequest, IdleRequest, hal, client
<1>7. CASE LoadForIncrement
  BY <1>0, <1>1, <1>7 DEF LoadForIncrement, hal, client
<1>8. CASE StoreIncrement
  BY <1>0, <1>1, <1>8 DEF StoreIncrement, client
(* The driver has one more at most, and the request is over.                *)
<1>9. CASE QueueRequested
  <2>1. /\ req.pc = "qbuf" /\ req'.pc = "idle" /\ done' = done /\ work' = work
        /\ queued' = queued \/ \E b \in Buffers : queued' = Append(queued, b)
        /\ UNCHANGED <<held, currBufferHandleIndex, bufferArray>>
    <3>1. req.slot # -1 => RequestedBuffer \in Buffers
      BY DEF RequestedBuffer, TypeInv, TypeOK
    <3> QED BY <1>9, <3>1 DEF QueueRequested, Qbuf, IdleRequest, hal, client, driverVars
  <2>2. Len(queued') \in Nat /\ Len(queued') <= Len(queued) + 1
    BY <1>0, <2>1, AppendProperties
  <2>3. /\ Count(req.pc \in {"state", "increment", "qbuf"}) = 1
        /\ Count(req.pc \in {"state", "increment", "qbuf"})' = 0
        /\ Count(work.pc = "notify")' = Count(work.pc = "notify")
        /\ Count(work.pc = "notify") \in Nat
    BY <2>1 DEF Count
  <2>4. Rest' <= Rest
    BY <1>0, <2>1, <2>2, <2>3 DEF Rest
  <2> QED BY <2>1, <2>4, TrailLeft
(* The index is wrapped, and the slots behind it are the same.              *)
<1>10. CASE TakeTicket
  <2>1. /\ currBufferHandleIndex' = WrappedIndex /\ work.pc = "top" /\ work'.pc = "decrement"
        /\ UNCHANGED <<driverVars, held, bufferArray, req>>
    BY <1>10 DEF TakeTicket, client
  <2>2. Rest' = Rest
    BY <2>1 DEF Rest, Count, driverVars
  <2>3. \A k \in Nat : k >= 1 /\ k <= N => Before(k)' = Before(k)
    <3>1. currBufferHandleIndex \in 0 .. N
      BY TrailTypes
    <3> QED BY <1>0, <2>1, <3>1 DEF Before, WrappedIndex
  <2>4. PICK d : Delivered(d)
    BY DEF TrailInv
  <2>5. \A k \in Nat : k + Rest <= N => k <= N
    BY <1>0
  <2>6. \A i \in 1 .. Len(held) : i \in 0 .. Len(held)
    BY TrailTypes
  <2>7. 0 \in 0 .. Len(held)
    BY TrailTypes
  <2>8. \A i \in 1 .. Len(held) : Before(d[i])' = Before(d[i])
    BY <2>3, <2>4, <2>5, <2>6 DEF Delivered
  <2>9. req.pc = "lookup" => Before(d[0])' = Before(d[0])
    BY <2>3, <2>4, <2>5, <2>7 DEF Delivered
  <2>10. Delivered(d)'
    BY <2>1, <2>2, <2>4, <2>8, <2>9 DEF Delivered
  <2> QED BY <2>2, <2>10 DEF TrailInv
<1>11. CASE StoreDecrement \/ GiveUp \/ SelectReadable \/ DequeueFails
  BY <1>0, <1>1, <1>11 DEF StoreDecrement, GiveUp, SelectReadable, DequeueFails, hal, client
<1>12. CASE Dequeue
  BY <1>12, TrailDequeue
<1>13. CASE Notify
  BY <1>13, TrailNotify
<1>14. CASE Fill
  <2>1. /\ queued # <<>> /\ done' = Append(done, Head(queued)) /\ queued' = Tail(queued)
        /\ UNCHANGED <<work, req, held, currBufferHandleIndex, bufferArray>>
    BY <1>14 DEF Fill, FillFrame, hal, client
  <2>2. Len(queued') = Len(queued) - 1 /\ Head(queued) \in Buffers
    BY <1>0, <2>1, HeadTailProperties
  <2>3. Len(done') = Len(done) + 1
    BY <1>0, <2>1, <2>2, AppendProperties
  <2>4. Rest' = Rest
    <3>1. Count(work.pc = "notify") \in Nat
          /\ Count(req.pc \in {"state", "increment", "qbuf"}) \in Nat
      BY DEF Count
    <3> QED BY <1>0, <2>1, <2>2, <2>3, <3>1 DEF Rest
  <2>5. Rest' <= Rest
    BY <1>0, <2>4
  <2> QED BY <2>1, <2>5, TrailLeft
<1>15. CASE EventStep \/ CableStep
  BY <1>1, <1>15 DEF EventStep, HandleCtrl, StopCapture, HandleSourceChange, CableStep,
                     Unplug, Plug, ModeChange, hal, client
<1>16. CASE UNCHANGED vars
  BY <1>1, <1>16 DEF vars, hal, client
<1> QED
  BY <1>2, <1>3, <1>4, <1>5, <1>6, <1>7, <1>8, <1>9, <1>10, <1>11, <1>12, <1>13, <1>14,
     <1>15, <1>16 DEF Next, ClientStep, RequestStep, WorkStep

(* The lookup of request_capture finds a slot for every buffer the client   *)
(* may give back, for every number of buffers, whatever times out, fails or *)
(* is unplugged and however the updates of the counter overlap, as long as  *)
(* the client gives its buffers back in the order it got them.              *)
THEOREM LookupSucceeds ==
  ASSUME "reorder" \notin Faults
  PROVE  Spec => []HeldHasSlot
<1>1. Init => BeforeFirstRequest
  BY DEF Init, BeforeFirstRequest, NothingUnderWay, IdleRequest
<1>2. TypeInv /\ TypeInv' /\ BeforeFirstRequest /\ TrailInv /\ [Next]_vars
        => BeforeFirstRequest' /\ TrailInv'
  BY FirstKept, NextTrail
<1>3. TypeInv /\ TrailInv => HeldHasSlot
  <2> SUFFICES ASSUME TypeInv, TrailInv,
                      NEW b \in ElementsOf(held) \cup (IF req.pc = "lookup" THEN {req.buf} ELSE {})
               PROVE  SlotOf(b) # -1
    BY DEF HeldHasSlot
  <2>1. PICK d : Delivered(d)
    BY DEF TrailInv
  <2>2. /\ N \in Nat /\ N > 0 /\ Slots = 0 .. (N - 1) /\ Rest \in Nat
        /\ currBufferHandleIndex \in 0 .. N /\ Len(held) \in Nat /\ held \in Seq(Buffers)
    BY TrailTypes
  <2>3. ASSUME NEW k \in Nat, k >= 1, k + Rest <= N PROVE Before(k) \in Slots
    <3>1. k <= N
      BY <2>2, <2>3
    <3> QED BY <2>2, <2>3, <3>1 DEF Before
  <2>4. \E s \in Slots : bufferArray[s] = b
    <3>1. CASE b \in ElementsOf(held)
      <4>1. PICK i \in 1 .. Len(held) : held[i] = b
        BY <2>2, <3>1, LenProperties DEF ElementsOf
      <4>2. d[i] \in Nat /\ d[i] >= 1 /\ d[i] + Rest <= N /\ bufferArray[Before(d[i])] = b
        BY <2>1, <2>2, <4>1 DEF Delivered
      <4> QED BY <2>3, <4>2
    <3>2. CASE req.pc = "lookup" /\ b = req.buf
      <4>1. d[0] \in Nat /\ d[0] >= 1 /\ d[0] + Rest <= N /\ bufferArray[Before(d[0])] = b
        BY <2>1, <2>2, <3>2 DEF Delivered
      <4> QED BY <2>3, <4>1
    <3> QED BY <3>1, <3>2
  <2> QED BY <2>2, <2>4, SlotOfType
<1> QED BY <1>1, <1>2, <1>3, InitTrail, AlwaysTyped, PTL DEF Spec
------------------------------------------------------------------------------
(* The events.  With the signal there and no change of the source pending,  *)
(* nothing is about to stop the capture.                                    *)
SignalInv ==
  signal /\ "source_change" \notin ElementsOf(events) =>
    /\ eventPc = "idle"
    /\ mState = "START" \/ (~mOpen /\ events = <<>>)

(* What the kernel keeps after one more event.                              *)
LEMMA PostElements ==
  ASSUME NEW q, NEW e \in {"ctrl", "source_change"}
  PROVE  ElementsOf(Post(q, e)) = {e} \cup (ElementsOf(q) \cap {OtherEvent(e)})
<1>1. \A a, b : ElementsOf(<<a>>) = {a} /\ ElementsOf(<<a, b>>) = {a, b}
  BY DEF ElementsOf
<1> QED BY <1>1 DEF Post

LEMMA TakenEvent ==
  ASSUME NEW q \in Seq({"ctrl", "source_change"}), q # <<>>
  PROVE  ElementsOf(q) \subseteq {Head(q)} \cup ElementsOf(Tail(q))
         /\ ElementsOf(Tail(q)) \subseteq ElementsOf(q)
<1>1. Len(q) \in Nat /\ Len(q) >= 1 /\ Head(q) = q[1] /\ Len(Tail(q)) = Len(q) - 1
      /\ DOMAIN q = 1 .. Len(q) /\ DOMAIN Tail(q) = 1 .. (Len(q) - 1)
  BY HeadTailProperties, EmptySeq, LenProperties
<1>2. \A i \in 1 .. (Len(q) - 1) : Tail(q)[i] = q[i + 1] /\ i + 1 \in 1 .. Len(q)
  BY <1>1, HeadTailProperties
<1>3. \A i \in 1 .. Len(q) : i = 1 \/ (i - 1 \in 1 .. (Len(q) - 1) /\ q[i] = Tail(q)[i - 1])
  <2> SUFFICES ASSUME NEW i \in 1 .. Len(q), i # 1
               PROVE  i - 1 \in 1 .. (Len(q) - 1) /\ q[i] = Tail(q)[i - 1]
    OBVIOUS
  <2>1. i - 1 \in 1 .. (Len(q) - 1) /\ (i - 1) + 1 = i
    BY <1>1
  <2> QED BY <1>2, <2>1
<1>4. ASSUME NEW e \in ElementsOf(q) PROVE e = Head(q) \/ e \in ElementsOf(Tail(q))
  <2>1. PICK i \in 1 .. Len(q) : e = q[i]
    BY <1>1, <1>4 DEF ElementsOf
  <2> QED BY <1>1, <1>3, <2>1 DEF ElementsOf
<1>5. ASSUME NEW e \in ElementsOf(Tail(q)) PROVE e \in ElementsOf(q)
  <2>1. PICK i \in 1 .. (Len(q) - 1) : e = Tail(q)[i]
    BY <1>1, <1>5 DEF ElementsOf
  <2> QED BY <1>1, <1>2, <2>1 DEF ElementsOf
<1> QED BY <1>4, <1>5

LEMMA NextSignal ==
  ASSUME "ioctl" \notin Faults, TypeInv, SignalInv, [Next]_vars
  PROVE  SignalInv'
<1> USE DEF SignalInv
<1>0. events \in Seq({"ctrl", "source_change"})
  BY DEF TypeInv, TypeOK
<1>1. ASSUME UNCHANGED <<signal, events, eventPc, mState>>, mOpen' => mOpen PROVE SignalInv'
  BY <1>1
<1>2. CASE Start
  BY <1>2 DEF Start, eventVars
<1>3. CASE FirstRequest \/ RequestStep
  BY <1>1, <1>3 DEF FirstRequest, RequestStep, FindSlot, RefuseRequest, LoadForIncrement,
                    StoreIncrement, QueueRequested, hal, eventVars
<1>4. CASE \E i \in Returnable : RequestCapture(i)
  BY <1>1, <1>4 DEF RequestCapture, hal, eventVars
<1>5. CASE WorkStep
  BY <1>1, <1>5 DEF WorkStep, TakeTicket, StoreDecrement, GiveUp, SelectReadable,
                    DequeueFails, Dequeue, Notify, hal, eventVars
<1>6. CASE Fill
  BY <1>1, <1>6 DEF Fill, hal, eventVars
<1>7. CASE Unplug
  BY <1>7 DEF Unplug
<1>8. CASE Plug
  <2>1. "source_change" \in ElementsOf(Post(Post(events, "ctrl"), "source_change"))
    BY PostElements
  <2>2. "source_change" \in ElementsOf(Post(Post(events, "source_change"), "ctrl"))
    BY PostElements DEF OtherEvent
  <2> QED BY <1>8, <2>1, <2>2 DEF Plug
<1>9. CASE ModeChange
  <2>1. "source_change" \in ElementsOf(Post(events, "source_change"))
    BY PostElements
  <2> QED BY <1>9, <2>1 DEF ModeChange
<1>10. CASE HandleCtrl
  <2>1. /\ events # <<>> /\ Head(events) = "ctrl" /\ events' = Tail(events)
        /\ eventPc' = IF KeepsRunning THEN "idle" ELSE "stop"
        /\ UNCHANGED <<signal, mState, mOpen>>
    BY <1>10 DEF HandleCtrl, hal
  <2>2. "source_change" \in ElementsOf(events) => "source_change" \in ElementsOf(events')
    BY <1>0, <2>1, TakenEvent
  <2> QED BY <2>1, <2>2 DEF KeepsRunning
<1>11. CASE StopCapture
  BY <1>11 DEF StopCapture
<1>12. CASE HandleSourceChange
  BY <1>12 DEF HandleSourceChange
<1>13. CASE UNCHANGED vars
  BY <1>1, <1>13 DEF vars, hal, eventVars
<1> QED
  BY <1>2, <1>3, <1>4, <1>5, <1>6, <1>7, <1>8, <1>9, <1>10, <1>11, <1>12, <1>13
     DEF Next, ClientStep, EventStep, CableStep

(* Whatever the order of plugging, unplugging and changes of the mode, the  *)
(* capture runs once the events have been handled, unless an ioctl fails.   *)
THEOREM CaptureSettles ==
  ASSUME "ioctl" \notin Faults
  PROVE  Spec => []SettledIsRunning
<1>1. Init => SignalInv
  BY DEF Init, SignalInv
<1>2. TypeInv /\ SignalInv /\ [Next]_vars => SignalInv'
  BY NextSignal
<1>3. SignalInv => SettledIsRunning
  BY DEF SignalInv, SettledIsRunning, ElementsOf
<1> QED BY <1>1, <1>2, <1>3, AlwaysTyped, PTL DEF Spec
------------------------------------------------------------------------------
(* Who owns a buffer: what holds of CaptureStream, for every number of      *)
(* buffers, as long as the signal stays and the client gives its buffers    *)
(* back in the order it got them.  select() may time out, ioctls may fail   *)
(* and the updates of mRequestCaptureCount may overlap.                     *)
(*                                                                          *)
(* The argument: the buffers go round in one fixed order.  Seen from the    *)
(* slot workThread uses next, they are the filled ones, the queued ones,    *)
(* the one being given back and the held ones, numbered without a gap.  So  *)
(* DQBUF returns to each slot the buffer it described before, the lookup of *)
(* request_capture finds the buffer's own slot, and nobody else has it.     *)

(* The buffer that comes k places behind slot c.                            *)
Behind(c, k) == IF c + k >= N THEN c + k - N ELSE c + k

(* s holds the buffers from the k-th place behind slot c on.                *)
InTurn(s, c, k) == \A i \in 1 .. Len(s) : s[i] = Behind(c, k + i - 1)

Delivering == Count(work.pc = "notify")
Returning == Count(req.pc # "idle")
InDriverCount == Len(done) + Len(queued)

(* All buffers, in the order in which workThread will dequeue them.         *)
CyclicOrder ==
  /\ Delivering + InDriverCount + Returning + Len(held) = N
  /\ InTurn(done, WrappedIndex, Delivering)
  /\ InTurn(queued, WrappedIndex, Delivering + Len(done))
  /\ req.pc # "idle" =>
       req.buf = Behind(WrappedIndex, Delivering + InDriverCount)
  /\ InTurn(held, WrappedIndex, Delivering + InDriverCount + Returning)

SlotsKept ==
  /\ mOpen => bufferArray = [s \in Slots |-> s]
  /\ req.pc \in {"state", "increment", "qbuf"} => req.slot = req.buf

(* No V4L2 event ever comes, so only start() decides mState.                *)
Undisturbed ==
  /\ signal /\ events = <<>> /\ eventPc = "idle"
  /\ mOpen => mState = "START"

AtFirst == mFirstRequestCapture \/ ~mOpen => currBufferHandleIndex = 0

OwnerInv ==
  /\ BeforeFirstRequest /\ AtFirst /\ Undisturbed /\ SlotsKept
  /\ mOpen => CyclicOrder
------------------------------------------------------------------------------
LEMMA NumberOfBuffers ==
  /\ N \in Nat /\ N > 0
  /\ Slots = 0 .. (N - 1) /\ Buffers = 0 .. (N - 1)
BY NAssumption DEF Slots, Buffers

(* Different places hold different buffers.                                 *)
LEMMA BehindInjective ==
  ASSUME NEW c \in Slots, NEW j \in 0 .. (N - 1), NEW k \in 0 .. (N - 1)
  PROVE  /\ Behind(c, j) \in Buffers
         /\ Behind(c, j) = Behind(c, k) => j = k
BY NumberOfBuffers DEF Behind

LEMMA InTurnTail ==
  ASSUME NEW s \in Seq(Buffers), NEW c \in Slots, NEW k \in Nat,
         s # <<>>, InTurn(s, c, k)
  PROVE  /\ Head(s) = Behind(c, k) /\ Len(s) > 0
         /\ Tail(s) \in Seq(Buffers) /\ Len(Tail(s)) = Len(s) - 1
         /\ InTurn(Tail(s), c, k + 1)
<1>1. Len(s) \in Nat /\ Len(s) > 0 /\ Head(s) = s[1]
  BY EmptySeq, LenProperties
<1>2. /\ Tail(s) \in Seq(Buffers) /\ Len(Tail(s)) = Len(s) - 1
      /\ \A i \in 1 .. Len(Tail(s)) : Tail(s)[i] = s[i + 1]
  BY HeadTailProperties
<1>3. Head(s) = Behind(c, k)
  BY <1>1 DEF InTurn
<1>4. InTurn(Tail(s), c, k + 1)
  <2> SUFFICES ASSUME NEW i \in 1 .. (Len(s) - 1)
               PROVE  s[i + 1] = Behind(c, k + 1 + i - 1)
    BY <1>2 DEF InTurn
  <2>1. i + 1 \in 1 .. Len(s) /\ k + (i + 1) - 1 = k + 1 + i - 1
    BY <1>1
  <2> QED BY <2>1 DEF InTurn
<1> QED BY <1>1, <1>2, <1>3, <1>4

LEMMA InTurnAppend ==
  ASSUME NEW s \in Seq(Buffers), NEW c \in Slots, NEW k \in Nat, NEW b \in Buffers,
         InTurn(s, c, k), b = Behind(c, k + Len(s))
  PROVE  /\ InTurn(Append(s, b), c, k)
         /\ Len(Append(s, b)) = Len(s) + 1
<1>1. /\ Len(s) \in Nat /\ Len(Append(s, b)) = Len(s) + 1
      /\ \A i \in 1 .. Len(s) : Append(s, b)[i] = s[i]
      /\ Append(s, b)[Len(s) + 1] = b
  BY LenProperties, AppendProperties
<1>2. ASSUME NEW i \in 1 .. (Len(s) + 1)
      PROVE  Append(s, b)[i] = Behind(c, k + i - 1)
  <2>1. CASE i = Len(s) + 1
    BY <1>1, <2>1
  <2>2. CASE i \in 1 .. Len(s)
    BY <1>1, <2>2 DEF InTurn
  <2> QED BY <1>1, <2>1, <2>2
<1> QED BY <1>1, <1>2 DEF InTurn

(* Seen from the next slot everything is one place nearer.                  *)
LEMMA BehindNext ==
  ASSUME NEW c \in Slots, NEW d \in Slots, NEW k \in Nat,
         d = (IF c + 1 = N THEN 0 ELSE c + 1), 1 + k < N
  PROVE  Behind(c, 1 + k) = Behind(d, k)
BY NumberOfBuffers DEF Behind

(* Slot c itself is now the last.                                           *)
LEMMA BehindLast ==
  ASSUME NEW c \in Slots, NEW d \in Slots, d = (IF c + 1 = N THEN 0 ELSE c + 1)
  PROVE  c = Behind(d, N - 1)
BY NumberOfBuffers DEF Behind

LEMMA InTurnNext ==
  ASSUME NEW s \in Seq(Buffers), NEW c \in Slots, NEW d \in Slots, NEW k \in Nat,
         d = (IF c + 1 = N THEN 0 ELSE c + 1),
         k + 1 + Len(s) <= N, InTurn(s, c, k + 1)
  PROVE  InTurn(s, d, k)
<1> SUFFICES ASSUME NEW i \in 1 .. Len(s) PROVE s[i] = Behind(d, k + i - 1)
  BY DEF InTurn
<1>1. s[i] = Behind(c, k + 1 + i - 1)
  BY DEF InTurn
<1>2. k + i < N /\ Len(s) \in Nat
  BY LenProperties, NumberOfBuffers
<1> QED BY <1>1, <1>2, NumberOfBuffers DEF Behind

LEMMA InTurnEmpty ==
  ASSUME NEW c, NEW k
  PROVE  InTurn(<<>>, c, k) /\ Len(<<>>) = 0
BY DEF InTurn
------------------------------------------------------------------------------
(* The faults the argument bears: all but those three.                      *)
Tolerated == Faults \cap {"signal", "reorder", "requeue"} = {}

LEMMA InitOwner == Init => OwnerInv
BY DEF Init, OwnerInv, BeforeFirstRequest, NothingUnderWay, AtFirst, Undisturbed,
       SlotsKept, IdleRequest

LEMMA Sizes ==
  ASSUME TypeInv
  PROVE  /\ done \in Seq(Buffers) /\ queued \in Seq(Buffers) /\ held \in Seq(Buffers)
         /\ Len(done) \in Nat /\ Len(queued) \in Nat /\ Len(held) \in Nat
         /\ WrappedIndex \in Slots
         /\ Delivering \in {0, 1} /\ Returning \in {0, 1}
         /\ InDriverCount = Len(done) + Len(queued) /\ InDriverCount \in Nat
<1>1. done \in Seq(Buffers) /\ queued \in Seq(Buffers) /\ held \in Seq(Buffers)
  BY DEF TypeInv, TypeOK, DriverTypeOK
<1>2. Len(done) \in Nat /\ Len(queued) \in Nat /\ Len(held) \in Nat
  BY <1>1, LenProperties
<1>3. WrappedIndex \in Slots
  <2>1. currBufferHandleIndex \in 0 .. N
    BY DEF TypeInv, TypeOK
  <2> QED BY <2>1, NumberOfBuffers DEF WrappedIndex
<1>4. Delivering \in {0, 1} /\ Returning \in {0, 1}
  BY DEF Delivering, Returning, Count
<1> QED BY <1>1, <1>2, <1>3, <1>4 DEF InDriverCount

(* start() queues the buffers in the order of their slots.                  *)
LEMMA StartOwner ==
  ASSUME TypeInv, OwnerInv, Start
  PROVE  OwnerInv'
<1>1. PICK d \in 0 .. N, k \in 0 .. N :
        StartDevice(d, k) /\ (mOpen' => d = N /\ k = N /\ mState' = "START")
  BY NumberOfBuffers DEF Start
<1>2. /\ ~mOpen /\ currBufferHandleIndex = 0 /\ NothingUnderWay
      /\ UNCHANGED <<currBufferHandleIndex, work, req, held, eventVars>>
  BY DEF Start, OwnerInv, AtFirst, BeforeFirstRequest
<1>3. NothingUnderWay' /\ mRequestCaptureCount' = 0
  BY <1>1, <1>2 DEF StartDevice, NothingUnderWay
<1>4. /\ queued' = [i \in 1 .. k |-> i - 1] /\ done' = <<>>
      /\ mOpen' => bufferArray' = [s \in Slots |-> s]
  BY <1>1, NumberOfBuffers DEF StartDevice, QueueFirst, aquire_buffer
<1>5. mOpen' => CyclicOrder'
  <2> SUFFICES ASSUME mOpen' PROVE CyclicOrder'
    OBVIOUS
  <2>1. Len(queued') = N /\ \A i \in 1 .. N : queued'[i] = i - 1
    BY <1>1, <1>4, NumberOfBuffers
  <2>2. WrappedIndex' = 0
    BY <1>2, NumberOfBuffers DEF WrappedIndex
  <2>3. /\ Delivering' = 0 /\ Returning' = 0 /\ held' = <<>> /\ req'.pc = "idle"
        /\ Len(done') = 0 /\ Len(held') = 0
    BY <1>3, <1>4 DEF NothingUnderWay, Delivering, Returning, Count
  <2>4. InTurn(queued', 0, 0)
    BY <2>1, NumberOfBuffers DEF InTurn, Behind
  <2>5. (Delivering + InDriverCount + Returning + Len(held) = N)'
    BY <2>1, <2>3, NumberOfBuffers DEF InDriverCount
  <2>6. Delivering' + Len(done') = 0
    BY <2>3
  <2> QED BY <1>4, <2>2, <2>3, <2>4, <2>5, <2>6, InTurnEmpty DEF CyclicOrder
<1>6. AtFirst' /\ Undisturbed' /\ SlotsKept' /\ BeforeFirstRequest'
  BY <1>1, <1>2, <1>3, <1>4
     DEF OwnerInv, AtFirst, Undisturbed, SlotsKept, BeforeFirstRequest, eventVars,
         NothingUnderWay
<1> QED BY <1>5, <1>6 DEF OwnerInv

(* The buffer the client gives back is its oldest, next in turn after the   *)
(* queued ones.                                                             *)
LEMMA RequestOwner ==
  ASSUME TypeInv, OwnerInv, Tolerated, NEW i \in Returnable, RequestCapture(i)
  PROVE  OwnerInv'
<1>1. /\ i = 1 /\ 1 \in 1 .. Len(held) /\ held \in Seq(Buffers) /\ Len(held) \in Nat
  <2>1. "reorder" \notin Faults
    BY DEF Tolerated
  <2>2. i = 1 /\ i \in DOMAIN held
    BY <2>1 DEF Returnable
  <2> QED BY <2>2, LenProperties DEF TypeInv, TypeOK
<1>2. held # <<>> /\ RemoveAt(held, 1) = Tail(held)
  <2>1. held # <<>>
    BY <1>1
  <2>2. SubSeq(held, 1, 1 - 1) = <<>>
    BY SubSeqEmpty
  <2>3. SubSeq(held, 1 + 1, Len(held)) = Tail(held)
    BY <1>1, <2>1, TailIsSubSeq
  <2>4. Tail(held) \in Seq(Buffers)
    BY <1>1, <2>1, HeadTailProperties
  <2> QED BY <2>1, <2>2, <2>3, <2>4, ConcatEmptySeq DEF RemoveAt
<1>3. /\ mOpen /\ ~mFirstRequestCapture
  BY <1>2 DEF RequestCapture, MayRequest, OwnerInv, BeforeFirstRequest, NothingUnderWay
<1>4. /\ req.pc = "idle" /\ req'.pc = "lookup" /\ req'.buf = held[1]
      /\ held' = Tail(held)
      /\ UNCHANGED <<driverVars, hal, work, streamOpened, eventVars>>
  BY <1>1, <1>2 DEF RequestCapture, MayRequest, IdleRequest
<1>5. CyclicOrder
  BY <1>3 DEF OwnerInv
<1>6. /\ WrappedIndex \in Slots /\ Len(done) \in Nat /\ Len(queued) \in Nat
      /\ Delivering \in {0, 1} /\ Returning = 0 /\ Returning' = 1
      /\ Delivering' = Delivering /\ InDriverCount' = InDriverCount
      /\ WrappedIndex' = WrappedIndex
  <2>1. Returning = 0 /\ Returning' = 1
    BY <1>4 DEF Returning, Count
  <2>2. Delivering' = Delivering /\ InDriverCount' = InDriverCount
    BY <1>4 DEF Delivering, InDriverCount, driverVars
  <2>3. WrappedIndex' = WrappedIndex
    BY <1>4 DEF WrappedIndex, hal
  <2> QED BY <2>1, <2>2, <2>3, Sizes
<1> DEFINE front == Delivering + InDriverCount
<1>7. front \in Nat /\ front + Returning = front
  BY <1>6 DEF InDriverCount
<1>8. InTurn(held, WrappedIndex, front)
  BY <1>5, <1>7 DEF CyclicOrder
<1>9. /\ Head(held) = held[1] /\ held[1] = Behind(WrappedIndex, front)
      /\ Len(Tail(held)) = Len(held) - 1
      /\ InTurn(Tail(held), WrappedIndex, front + 1)
  BY <1>1, <1>2, <1>6, <1>7, <1>8, InTurnTail, HeadTailProperties DEF InTurn
<1>10. CyclicOrder'
  <2>1. (Delivering + InDriverCount + Returning + Len(held) = N)'
    BY <1>1, <1>4, <1>5, <1>6, <1>7, <1>9 DEF CyclicOrder
  <2>2. UNCHANGED <<done, queued>>
    BY <1>4 DEF driverVars
  <2> QED BY <1>4, <1>5, <1>6, <1>9, <2>1, <2>2 DEF CyclicOrder
<1>11. AtFirst' /\ Undisturbed' /\ SlotsKept' /\ BeforeFirstRequest'
  BY <1>3, <1>4
     DEF OwnerInv, AtFirst, Undisturbed, SlotsKept, BeforeFirstRequest, eventVars, hal
<1> QED BY <1>10, <1>11 DEF OwnerInv

(* With the buffers in turn a buffer's slot has the number of the buffer.   *)
LEMMA OwnSlot ==
  ASSUME SlotsKept, mOpen, NEW b \in Buffers
  PROVE  SlotOf(b) = b /\ b \in Slots /\ bufferArray[b] = b
<1>1. b \in Slots /\ \A s \in Slots : bufferArray[s] = s
  BY DEF SlotsKept, Slots, Buffers
<1>2. \E s \in Slots : bufferArray[s] = b
  BY <1>1
<1>3. \A s \in Slots : bufferArray[s] = b => s = b
  BY <1>1
<1>4. bufferArray[b] = b /\ \A t \in Slots : bufferArray[t] = b => b <= t
  BY <1>1, <1>3, NumberOfBuffers
<1> DEFINE first(s) == bufferArray[s] = b /\ \A t \in Slots : bufferArray[t] = b => s <= t
<1>5. first(b) /\ \A s \in Slots : first(s) => s = b
  BY <1>3, <1>4
<1>6. (CHOOSE s \in Slots : first(s)) = b
  <2> HIDE DEF first
  <2> QED BY <1>1, <1>5
<1> QED BY <1>1, <1>2, <1>4, <1>6 DEF SlotOf

(* While a buffer is being given back the driver does not have it: QBUF is  *)
(* accepted, and the buffer goes to the end of the queue.                   *)
LEMMA QueueOwner ==
  ASSUME TypeInv, OwnerInv, Tolerated, QueueRequested
  PROVE  OwnerInv'
<1>1. /\ req.pc = "qbuf" /\ req'.pc = "idle"
      /\ UNCHANGED <<hal, work, client, eventVars>>
  BY DEF QueueRequested, IdleRequest
<1>2. /\ req.buf \in Buffers /\ req.slot = req.buf /\ SlotsKept
      /\ done \in Seq(Buffers) /\ queued \in Seq(Buffers) /\ held \in Seq(Buffers)
  BY <1>1 DEF TypeInv, TypeOK, DriverTypeOK, OwnerInv, SlotsKept
<1>3. mOpen /\ CyclicOrder /\ ~mFirstRequestCapture
  BY <1>1 DEF OwnerInv, BeforeFirstRequest, NothingUnderWay
<1>4. Qbuf(req.buf)
  <2>1. req.slot # -1 /\ bufferArray[req.slot] = req.buf
    BY <1>2, <1>3, OwnSlot, NumberOfBuffers
  <2>2. "requeue" \notin Faults
    BY DEF Tolerated
  <2> QED BY <2>1, <2>2 DEF QueueRequested, RequestedBuffer
<1>5. /\ Len(done) \in Nat /\ Len(queued) \in Nat /\ Len(held) \in Nat
      /\ Delivering \in {0, 1} /\ Returning = 1 /\ Returning' = 0
      /\ Delivering' = Delivering
      /\ WrappedIndex \in Slots /\ WrappedIndex' = WrappedIndex
  <2>1. Returning = 1 /\ Returning' = 0
    BY <1>1 DEF Returning, Count
  <2>2. Delivering' = Delivering /\ WrappedIndex' = WrappedIndex
    BY <1>1 DEF Delivering, WrappedIndex, hal
  <2> QED BY <2>1, <2>2, Sizes
<1> DEFINE c == WrappedIndex
           place == Delivering + InDriverCount
<1>6. place < N /\ place \in Nat /\ req.buf = Behind(c, place)
  BY <1>1, <1>3, <1>5 DEF CyclicOrder, InDriverCount
<1>7. req.buf \notin InDriver
  <2>1. ASSUME NEW j \in 1 .. Len(done) PROVE done[j] # req.buf
    <3>1. done[j] = Behind(c, Delivering + j - 1)
      BY <1>3 DEF CyclicOrder, InTurn
    <3>2. /\ Delivering + j - 1 \in 0 .. (N - 1) /\ place \in 0 .. (N - 1)
          /\ Delivering + j - 1 # place
      BY <1>5, <1>6, NumberOfBuffers DEF InDriverCount
    <3> QED BY <1>5, <1>6, <3>1, <3>2, BehindInjective
  <2>2. ASSUME NEW j \in 1 .. Len(queued) PROVE queued[j] # req.buf
    <3>1. queued[j] = Behind(c, Delivering + Len(done) + j - 1)
      BY <1>3 DEF CyclicOrder, InTurn
    <3>2. /\ Delivering + Len(done) + j - 1 \in 0 .. (N - 1) /\ place \in 0 .. (N - 1)
          /\ Delivering + Len(done) + j - 1 # place
      BY <1>5, <1>6, NumberOfBuffers DEF InDriverCount
    <3> QED BY <1>5, <1>6, <3>1, <3>2, BehindInjective
  <2> QED BY <1>2, <2>1, <2>2, LenProperties DEF InDriver, ElementsOf
<1>8. queued' = Append(queued, req.buf) /\ done' = done
  BY <1>4, <1>7 DEF Qbuf
<1>9. /\ InTurn(queued', c, Delivering + Len(done))
      /\ Len(queued') = Len(queued) + 1
  <2>1. InTurn(queued, c, Delivering + Len(done))
    BY <1>3 DEF CyclicOrder
  <2>2. Delivering + Len(done) \in Nat
        /\ req.buf = Behind(c, Delivering + Len(done) + Len(queued))
    BY <1>5, <1>6 DEF InDriverCount
  <2> HIDE DEF c
  <2> QED BY <1>2, <1>5, <1>8, <2>1, <2>2, InTurnAppend DEF c
<1>10. CyclicOrder'
  <2>1. InDriverCount' = InDriverCount + 1
    BY <1>5, <1>8, <1>9 DEF InDriverCount
  <2>2. (Delivering + InDriverCount)' + Returning' = Delivering + InDriverCount + Returning
    BY <1>5, <2>1 DEF InDriverCount
  <2>3. held' = held
    BY <1>1 DEF client
  <2>4. (Delivering + InDriverCount + Returning + Len(held) = N)'
    BY <1>3, <2>2, <2>3 DEF CyclicOrder
  <2>5. InTurn(done', WrappedIndex', Delivering')
    BY <1>3, <1>5, <1>8 DEF CyclicOrder
  <2>6. InTurn(held', WrappedIndex', (Delivering + InDriverCount + Returning)')
    BY <1>3, <1>5, <2>2, <2>3 DEF CyclicOrder
  <2> QED BY <1>1, <1>5, <1>8, <1>9, <2>4, <2>5, <2>6 DEF CyclicOrder
<1>11. AtFirst' /\ Undisturbed' /\ SlotsKept' /\ BeforeFirstRequest'
  BY <1>1, <1>3
     DEF OwnerInv, AtFirst, Undisturbed, SlotsKept, BeforeFirstRequest, eventVars, hal
<1> QED BY <1>10, <1>11 DEF OwnerInv

(* The receiver moves the first queued buffer to the end of the filled ones.*)
LEMMA FillOwner ==
  ASSUME TypeInv, OwnerInv, Fill
  PROVE  OwnerInv'
<1>1. /\ mOpen /\ queued # <<>> /\ done' = Append(done, Head(queued))
      /\ queued' = Tail(queued)
      /\ UNCHANGED <<hal, work, req, client, eventVars>>
  BY DEF Fill, FillFrame
<1>2. /\ done \in Seq(Buffers) /\ queued \in Seq(Buffers)
      /\ Len(done) \in Nat /\ Len(queued) \in Nat
      /\ Delivering \in {0, 1} /\ Delivering' = Delivering /\ Returning' = Returning
      /\ WrappedIndex \in Slots /\ WrappedIndex' = WrappedIndex
  <2>1. /\ Delivering' = Delivering /\ Returning' = Returning
        /\ WrappedIndex' = WrappedIndex
    BY <1>1 DEF Delivering, Returning, WrappedIndex, hal
  <2> QED BY <2>1, Sizes
<1>3. CyclicOrder
  BY <1>1 DEF OwnerInv
<1> DEFINE c == WrappedIndex
           k == Delivering + Len(done)
<1>4. /\ Head(queued) = Behind(c, k) /\ Head(queued) \in Buffers
      /\ Len(queued') = Len(queued) - 1 /\ InTurn(queued', c, k + 1)
  <2>1. k \in Nat /\ InTurn(queued, c, k)
    BY <1>2, <1>3 DEF CyclicOrder
  <2> HIDE DEF c, k
  <2> QED BY <1>1, <1>2, <2>1, InTurnTail, HeadTailProperties DEF c
<1>5. /\ InTurn(done', c, Delivering) /\ Len(done') = Len(done) + 1
  <2>1. InTurn(done, c, Delivering) /\ Delivering \in Nat
    BY <1>2, <1>3 DEF CyclicOrder
  <2> QED BY <1>1, <1>2, <1>4, <2>1, InTurnAppend
<1>6. CyclicOrder'
  <2>1. InDriverCount' = InDriverCount /\ (Delivering + Len(done))' = k + 1
    BY <1>2, <1>4, <1>5 DEF InDriverCount
  <2>2. held' = held /\ req' = req
    BY <1>1 DEF client
  <2> QED BY <1>2, <1>3, <1>4, <1>5, <2>1, <2>2 DEF CyclicOrder
<1>7. AtFirst' /\ Undisturbed' /\ SlotsKept' /\ BeforeFirstRequest'
  BY <1>1
     DEF OwnerInv, AtFirst, Undisturbed, SlotsKept, BeforeFirstRequest, NothingUnderWay,
         eventVars, hal, client
<1> QED BY <1>6, <1>7 DEF OwnerInv

(* DQBUF gives the slot workThread is at the buffer that belongs there.     *)
LEMMA DequeueOwner ==
  ASSUME TypeInv, OwnerInv, Dequeue
  PROVE  OwnerInv'
<1>1. /\ work.pc = "dqbuf" /\ done # <<>> /\ done' = Tail(done) /\ queued' = queued
      /\ bufferArray' = [bufferArray EXCEPT ![currBufferHandleIndex] = Head(done)]
      /\ UNCHANGED <<mState, mOpen, mFirstRequestCapture, mRequestCaptureCount,
                     currBufferHandleIndex, req, client, eventVars>>
  BY DEF Dequeue, Dqbuf, Readable
<1>2. mOpen /\ mState = "START" /\ ~mFirstRequestCapture /\ CyclicOrder
  BY <1>1 DEF OwnerInv, BeforeFirstRequest, NothingUnderWay, Undisturbed
<1>3. /\ done \in Seq(Buffers) /\ Len(done) \in Nat /\ Len(queued) \in Nat
      /\ currBufferHandleIndex \in Slots /\ WrappedIndex = currBufferHandleIndex
      /\ WrappedIndex' = WrappedIndex
  <2>1. currBufferHandleIndex \in Slots
    BY <1>1 DEF TypeInv, TypeOK
  <2>2. WrappedIndex = currBufferHandleIndex /\ WrappedIndex' = WrappedIndex
    BY <1>1, <2>1, NumberOfBuffers DEF WrappedIndex
  <2> QED BY <2>1, <2>2, Sizes
<1>4. /\ Delivering = 0 /\ Delivering' = 1 /\ Returning' = Returning
      /\ Returning \in {0, 1} /\ work'.pc = "notify"
  <2>1. work'.pc = "notify"
    BY <1>2 DEF Dequeue, TypeInv, TypeOK
  <2>2. Delivering = 0 /\ Delivering' = 1 /\ Returning' = Returning
    BY <1>1, <2>1 DEF Delivering, Returning, Count
  <2> QED BY <2>1, <2>2, Sizes
<1> DEFINE c == WrappedIndex
<1>5. /\ Head(done) = Behind(c, 0) /\ Len(done') = Len(done) - 1
      /\ InTurn(done', c, 1)
  <2>1. InTurn(done, c, 0) /\ c \in Slots /\ 0 \in Nat /\ 0 + 1 = 1
    BY <1>2, <1>3, <1>4 DEF CyclicOrder
  <2> HIDE DEF c
  <2> QED BY <1>1, <1>3, <2>1, InTurnTail
<1>6. bufferArray' = bufferArray
  <2>1. Head(done) = currBufferHandleIndex
    BY <1>3, <1>5, NumberOfBuffers DEF Behind
  <2> QED BY <1>1, <1>2, <1>3, <2>1 DEF OwnerInv, SlotsKept
<1>7. CyclicOrder'
  <2>1. (Delivering + InDriverCount)' = Delivering + InDriverCount
    BY <1>1, <1>3, <1>4, <1>5 DEF InDriverCount
  <2>2. (Delivering + Len(done))' = Delivering + Len(done)
    BY <1>3, <1>4, <1>5
  <2>3. held' = held
    BY <1>1 DEF client
  <2> QED BY <1>1, <1>2, <1>3, <1>4, <1>5, <2>1, <2>2, <2>3 DEF CyclicOrder
<1>8. AtFirst' /\ Undisturbed' /\ SlotsKept' /\ BeforeFirstRequest'
  BY <1>1, <1>2, <1>6
     DEF OwnerInv, AtFirst, Undisturbed, SlotsKept, BeforeFirstRequest, eventVars
<1> QED BY <1>7, <1>8 DEF OwnerInv

(* The buffer workThread hands out becomes the client's newest.             *)
LEMMA NotifyOwner ==
  ASSUME TypeInv, OwnerInv, Notify
  PROVE  OwnerInv'
<1>1. /\ work.pc = "notify" /\ work'.pc = "top"
      /\ currBufferHandleIndex' = currBufferHandleIndex + 1
      /\ UNCHANGED <<driverVars, mState, mOpen, mFirstRequestCapture,
                     mRequestCaptureCount, bufferArray, req, streamOpened, eventVars>>
  BY DEF Notify, wrapCaptureResultAndNotify, dataCallback, TypeInv, TypeOK
<1>2. mOpen /\ mState = "START" /\ ~mFirstRequestCapture /\ CyclicOrder
  BY <1>1 DEF OwnerInv, BeforeFirstRequest, NothingUnderWay, Undisturbed
<1> DEFINE c == WrappedIndex
           d == WrappedIndex'
<1>3. /\ c \in Slots /\ currBufferHandleIndex = c
      /\ d \in Slots /\ d = (IF c + 1 = N THEN 0 ELSE c + 1)
  <2>1. currBufferHandleIndex \in Slots
    BY <1>1 DEF TypeInv, TypeOK
  <2> QED BY <1>1, <2>1, NumberOfBuffers DEF WrappedIndex
<1>4. held' = Append(held, c) /\ c \in Buffers
  BY <1>2, <1>3, NumberOfBuffers DEF Notify, wrapCaptureResultAndNotify, dataCallback, OwnerInv, SlotsKept
<1>5. /\ done \in Seq(Buffers) /\ queued \in Seq(Buffers) /\ held \in Seq(Buffers)
      /\ Len(done) \in Nat /\ Len(queued) \in Nat /\ Len(held) \in Nat
      /\ done' = done /\ queued' = queued
  BY <1>1, Sizes DEF driverVars
<1>6. /\ Delivering = 1 /\ Delivering' = 0 /\ Returning' = Returning
      /\ Returning \in {0, 1} /\ InDriverCount' = InDriverCount
      /\ InDriverCount \in Nat /\ InDriverCount = Len(done) + Len(queued)
      /\ 1 + InDriverCount + Returning + Len(held) = N
  BY <1>1, <1>2, <1>5 DEF Delivering, Returning, Count, InDriverCount, CyclicOrder
<1>7. InTurn(done, d, 0) /\ InTurn(queued, d, Len(done))
  <2>1. InTurn(done, c, 0 + 1) /\ InTurn(queued, c, Len(done) + 1)
    BY <1>2, <1>5, <1>6 DEF CyclicOrder
  <2>2. 0 + 1 + Len(done) <= N /\ Len(done) + 1 + Len(queued) <= N
    BY <1>5, <1>6, NumberOfBuffers
  <2> HIDE DEF c, d
  <2> QED BY <1>3, <1>5, <2>1, <2>2, InTurnNext
<1>8. InTurn(held, d, InDriverCount + Returning)
  <2>1. InTurn(held, c, InDriverCount + Returning + 1)
    BY <1>2, <1>6 DEF CyclicOrder
  <2>2. /\ InDriverCount + Returning + 1 + Len(held) <= N
        /\ InDriverCount + Returning \in Nat
    BY <1>5, <1>6, NumberOfBuffers
  <2> HIDE DEF c, d
  <2> QED BY <1>3, <1>5, <2>1, <2>2, InTurnNext
<1>9. InTurn(held', d, InDriverCount + Returning) /\ Len(held') = Len(held) + 1
  <2>1. c = Behind(d, InDriverCount + Returning + Len(held))
    <3>1. InDriverCount + Returning + Len(held) = N - 1
      BY <1>5, <1>6, NumberOfBuffers
    <3> HIDE DEF c, d
    <3> QED BY <1>3, <3>1, BehindLast
  <2>2. InDriverCount + Returning \in Nat
    BY <1>6
  <2> HIDE DEF c, d
  <2> QED BY <1>3, <1>4, <1>5, <1>8, <2>1, <2>2, InTurnAppend
<1>10. req.pc # "idle" => req.buf = Behind(d, InDriverCount)
  <2> SUFFICES ASSUME req.pc # "idle" PROVE req.buf = Behind(d, InDriverCount)
    OBVIOUS
  <2>1. req.buf = Behind(c, 1 + InDriverCount)
    BY <1>2, <1>6 DEF CyclicOrder
  <2>2. Returning = 1
    BY DEF Returning, Count
  <2>3. 1 + InDriverCount < N
    BY <1>5, <1>6, <2>2, NumberOfBuffers
  <2> HIDE DEF c, d
  <2> QED BY <1>3, <1>6, <2>1, <2>3, BehindNext
<1>11. CyclicOrder'
  <2>1. /\ (Delivering + InDriverCount)' = InDriverCount
        /\ (Delivering + Len(done))' = Len(done)
    BY <1>5, <1>6
  <2>2. (Delivering + InDriverCount + Returning + Len(held) = N)'
    BY <1>5, <1>6, <1>9, <2>1
  <2>3. req' = req
    BY <1>1
  <2> QED BY <1>5, <1>6, <1>7, <1>9, <1>10, <2>1, <2>2, <2>3 DEF CyclicOrder
<1>12. AtFirst' /\ Undisturbed' /\ SlotsKept' /\ BeforeFirstRequest'
  BY <1>1, <1>2
     DEF OwnerInv, AtFirst, Undisturbed, SlotsKept, BeforeFirstRequest, eventVars
<1> QED BY <1>11, <1>12 DEF OwnerInv

(* The other steps move no buffer between its places.                       *)
LEMMA OtherOwner ==
  ASSUME TypeInv, OwnerInv,
         UNCHANGED <<driverVars, held, bufferArray, mOpen, eventVars>>,
         Delivering' = Delivering, WrappedIndex' = WrappedIndex,
         req'.pc = "idle" <=> req.pc = "idle", req'.buf = req.buf,
         mState' = mState, AtFirst', BeforeFirstRequest',
         req'.pc \in {"state", "increment", "qbuf"} => req'.slot = req.buf
  PROVE  OwnerInv'
<1>1. Returning' = Returning /\ InDriverCount' = InDriverCount
  BY DEF Returning, Count, InDriverCount, driverVars
<1>2. CyclicOrder => CyclicOrder'
  BY <1>1 DEF CyclicOrder, driverVars
<1>3. Undisturbed' /\ SlotsKept'
  BY DEF OwnerInv, Undisturbed, SlotsKept, eventVars
<1> QED BY <1>2, <1>3 DEF OwnerInv

LEMMA NextOwner ==
  ASSUME Tolerated
  PROVE  TypeInv /\ OwnerInv /\ [Next]_vars => OwnerInv'
<1> SUFFICES ASSUME TypeInv, OwnerInv, [Next]_vars PROVE OwnerInv'
  OBVIOUS
<1> USE DEF OwnerInv
<1>0. /\ "signal" \notin Faults
      /\ work \in [pc : {"top", "decrement", "select", "dqbuf", "notify"}, reg : Nat]
      /\ req \in [pc : {"idle", "lookup", "state", "increment", "qbuf"},
                  buf : Buffers \cup {NoBuffer}, slot : Slots \cup {-1}, reg : Nat]
      /\ req.pc # "idle" => mOpen /\ ~mFirstRequestCapture /\ req.buf \in Buffers
      /\ work.pc # "top" => mOpen /\ ~mFirstRequestCapture
  BY DEF Tolerated, TypeInv, TypeOK, BeforeFirstRequest, NothingUnderWay
<1>1. CASE Start
  BY <1>1, StartOwner
<1>2. CASE FirstRequest
  <2>1. /\ mFirstRequestCapture /\ ~mFirstRequestCapture' /\ currBufferHandleIndex' = 0
        /\ UNCHANGED <<driverVars, mState, mOpen, bufferArray, work, req, client,
                       eventVars>>
    BY <1>2 DEF FirstRequest, MayRequest
  <2>2. currBufferHandleIndex = 0
    BY <2>1 DEF AtFirst
  <2>3. WrappedIndex' = WrappedIndex /\ Delivering' = Delivering
    BY <2>1, <2>2 DEF WrappedIndex, Delivering
  <2>4. AtFirst' /\ BeforeFirstRequest'
    BY <2>1 DEF AtFirst, BeforeFirstRequest, NothingUnderWay, client
  <2> QED BY <2>1, <2>3, <2>4, OtherOwner DEF SlotsKept, client
<1>3. ASSUME NEW i \in Returnable, RequestCapture(i) PROVE OwnerInv'
  BY <1>3, RequestOwner
<1>4. CASE FindSlot
  <2>1. /\ req.pc = "lookup" /\ req' = [req EXCEPT !.pc = "state", !.slot = SlotOf(req.buf)]
        /\ UNCHANGED <<driverVars, hal, work, client, eventVars>>
    BY <1>4 DEF FindSlot
  <2>2. SlotOf(req.buf) = req.buf
    BY <1>0, <2>1, OwnSlot
  <2>3. req'.pc = "state" /\ req'.slot = req.buf /\ req'.buf = req.buf
    BY <1>0, <2>1, <2>2
  <2>4. WrappedIndex' = WrappedIndex /\ Delivering' = Delivering /\ AtFirst' /\ mState' = mState
    BY <2>1 DEF WrappedIndex, Delivering, AtFirst, hal
  <2>5. BeforeFirstRequest'
    BY <1>0, <2>1 DEF BeforeFirstRequest, hal
  <2> QED BY <2>1, <2>3, <2>4, <2>5, OtherOwner DEF hal, client
<1>5. CASE RefuseRequest
  BY <1>0, <1>5 DEF RefuseRequest, Undisturbed
<1>6. CASE LoadForIncrement
  <2>1. /\ req.pc = "state" /\ req' = [req EXCEPT !.pc = "increment", !.reg = mRequestCaptureCount]
        /\ UNCHANGED <<driverVars, hal, work, client, eventVars>>
    BY <1>6 DEF LoadForIncrement
  <2>2. req'.pc = "increment" /\ req'.slot = req.slot /\ req'.buf = req.buf
    BY <1>0, <2>1
  <2>3. WrappedIndex' = WrappedIndex /\ Delivering' = Delivering /\ AtFirst' /\ mState' = mState
    BY <2>1 DEF WrappedIndex, Delivering, AtFirst, hal
  <2>4. BeforeFirstRequest'
    BY <1>0, <2>1 DEF BeforeFirstRequest, hal
  <2> QED BY <2>1, <2>2, <2>3, <2>4, OtherOwner DEF SlotsKept, hal, client
<1>7. CASE StoreIncrement
  <2>1. /\ req.pc = "increment" /\ req' = [req EXCEPT !.pc = "qbuf"]
        /\ UNCHANGED <<driverVars, mState, mOpen, mFirstRequestCapture,
                       currBufferHandleIndex, bufferArray, work, client, eventVars>>
    BY <1>7 DEF StoreIncrement
  <2>2. req'.pc = "qbuf" /\ req'.slot = req.slot /\ req'.buf = req.buf
    BY <1>0, <2>1
  <2>3. WrappedIndex' = WrappedIndex /\ Delivering' = Delivering /\ AtFirst'
    BY <2>1 DEF WrappedIndex, Delivering, AtFirst
  <2>4. BeforeFirstRequest'
    BY <1>0, <2>1 DEF BeforeFirstRequest
  <2> QED BY <2>1, <2>2, <2>3, <2>4, OtherOwner DEF SlotsKept, client
<1>8. CASE QueueRequested
  BY <1>8, QueueOwner
<1>9. CASE TakeTicket
  <2>1. /\ work.pc = "top" /\ mOpen /\ mRequestCaptureCount > 0
        /\ currBufferHandleIndex' = WrappedIndex /\ work'.pc = "decrement"
        /\ UNCHANGED <<driverVars, mState, mOpen, mFirstRequestCapture,
                       mRequestCaptureCount, bufferArray, req, client, eventVars>>
    BY <1>9 DEF TakeTicket
  <2>2. ~mFirstRequestCapture
    BY <2>1 DEF BeforeFirstRequest
  <2>3. WrappedIndex' = WrappedIndex
    BY <2>1, NumberOfBuffers DEF WrappedIndex
  <2>4. Delivering' = Delivering /\ AtFirst' /\ BeforeFirstRequest'
    BY <2>1, <2>2 DEF Delivering, Count, AtFirst, BeforeFirstRequest
  <2> QED BY <2>1, <2>3, <2>4, OtherOwner DEF SlotsKept, client
<1>10. CASE StoreDecrement \/ GiveUp \/ SelectReadable \/ DequeueFails
  <2>1. /\ work.pc \notin {"top", "notify"} /\ work'.pc # "notify"
        /\ UNCHANGED <<driverVars, mState, mOpen, mFirstRequestCapture,
                       currBufferHandleIndex, bufferArray, req, client, eventVars>>
    BY <1>0, <1>10 DEF StoreDecrement, GiveUp, SelectReadable, DequeueFails, hal
  <2>2. /\ WrappedIndex' = WrappedIndex /\ Delivering' = Delivering /\ AtFirst'
        /\ BeforeFirstRequest'
    BY <1>0, <2>1 DEF WrappedIndex, Delivering, Count, AtFirst, BeforeFirstRequest
  <2> QED BY <2>1, <2>2, OtherOwner DEF SlotsKept, client
<1>11. CASE Dequeue
  BY <1>11, DequeueOwner
<1>12. CASE Notify
  BY <1>12, NotifyOwner
<1>13. CASE Fill
  BY <1>13, FillOwner
<1>14. CASE CableStep \/ EventStep
  BY <1>0, <1>14 DEF CableStep, EventStep, Unplug, Plug, ModeChange, HandleCtrl,
                     StopCapture, HandleSourceChange, Undisturbed
<1>15. CASE UNCHANGED vars
  <2>1. UNCHANGED <<driverVars, hal, work, req, client, eventVars>>
    BY <1>15 DEF vars
  <2>2. /\ WrappedIndex' = WrappedIndex /\ Delivering' = Delivering /\ AtFirst'
        /\ BeforeFirstRequest'
    BY <2>1 DEF WrappedIndex, Delivering, AtFirst, BeforeFirstRequest, NothingUnderWay,
                hal, client
  <2> QED BY <2>1, <2>2, OtherOwner DEF SlotsKept, hal, client
<1> QED
  BY <1>1, <1>2, <1>3, <1>4, <1>5, <1>6, <1>7, <1>8, <1>9, <1>10, <1>11, <1>12,
     <1>13, <1>14, <1>15 DEF Next, ClientStep, RequestStep, WorkStep
------------------------------------------------------------------------------
LEMMA AlwaysInTurn ==
  ASSUME Tolerated
  PROVE  Spec => [](TypeInv /\ OwnerInv)
<1>1. Spec => []TypeInv
  BY AlwaysTyped
<1>2. TypeInv /\ OwnerInv /\ [Next]_vars => OwnerInv'
  BY NextOwner
<1> QED BY <1>1, <1>2, InitOwner, PTL DEF Spec

(* Every buffer has a place in the order, seen from any slot.               *)
LEMMA BehindCovers ==
  ASSUME NEW c \in Slots, NEW b \in Buffers
  PROVE  \E k \in 0 .. (N - 1) : b = Behind(c, k)
<1>1. CASE b >= c
  <2>1. b - c \in 0 .. (N - 1) /\ b = Behind(c, b - c)
    BY <1>1, NumberOfBuffers DEF Behind
  <2> QED BY <2>1
<1>2. CASE b < c
  <2>1. b + N - c \in 0 .. (N - 1) /\ b = Behind(c, b + N - c)
    BY <1>2, NumberOfBuffers DEF Behind
  <2> QED BY <2>1
<1> QED BY <1>1, <1>2, NumberOfBuffers

(* Buffers in turn leave no gap: the k-th place is somebody's.              *)
LEMMA InTurnCovers ==
  ASSUME NEW s \in Seq(Buffers), NEW c \in Slots, NEW k \in Nat, NEW j \in Nat,
         InTurn(s, c, k), k <= j, j < k + Len(s)
  PROVE  Behind(c, j) \in ElementsOf(s)
<1>1. DOMAIN s = 1 .. Len(s) /\ Len(s) \in Nat
  BY LenProperties
<1>2. j - k + 1 \in 1 .. Len(s) /\ k + (j - k + 1) - 1 = j
  BY <1>1
<1>3. s[j - k + 1] = Behind(c, j)
  BY <1>2 DEF InTurn
<1> QED BY <1>1, <1>2, <1>3 DEF ElementsOf

LEMMA InTurnKeepsAll ==
  ASSUME TypeInv, OwnerInv
  PROVE  NoBufferLost
<1> SUFFICES ASSUME mOpen, NEW b \in Buffers
             PROVE  b \in InDriver \cup InWork \cup InRequest \cup ElementsOf(held)
  BY DEF NoBufferLost
<1> DEFINE c == WrappedIndex
           first == Delivering + InDriverCount
<1>1. /\ CyclicOrder /\ c \in Slots
      /\ Len(done) \in Nat /\ Len(queued) \in Nat /\ Len(held) \in Nat
      /\ Delivering \in {0, 1} /\ Returning \in {0, 1}
      /\ InDriverCount = Len(done) + Len(queued)
      /\ done \in Seq(Buffers) /\ queued \in Seq(Buffers) /\ held \in Seq(Buffers)
  BY Sizes DEF OwnerInv
<1>2. PICK k \in 0 .. (N - 1) : b = Behind(c, k)
  BY <1>1, BehindCovers
<1>3. first + Returning + Len(held) = N /\ k \in Nat /\ k < N /\ N \in Nat
  BY <1>1, NumberOfBuffers DEF CyclicOrder
<1>4. CASE k < Delivering
  <2>1. k = 0 /\ work.pc = "notify"
    BY <1>1, <1>3, <1>4 DEF Delivering, Count
  <2>2. currBufferHandleIndex \in Slots /\ c = currBufferHandleIndex
    BY <2>1, NumberOfBuffers DEF TypeInv, TypeOK, WrappedIndex
  <2>3. b = c
    BY <1>2, <2>1, <2>2, NumberOfBuffers DEF Behind
  <2>4. bufferArray[currBufferHandleIndex] = b
    BY <2>2, <2>3 DEF OwnerInv, SlotsKept
  <2> QED BY <2>1, <2>4 DEF InWork
<1>5. CASE Delivering <= k /\ k < Delivering + Len(done)
  BY <1>1, <1>2, <1>3, <1>5, InTurnCovers DEF CyclicOrder, InDriver
<1>6. CASE Delivering + Len(done) <= k /\ k < first
  <2>1. /\ InTurn(queued, c, Delivering + Len(done)) /\ Delivering + Len(done) \in Nat
        /\ k < Delivering + Len(done) + Len(queued)
    BY <1>1, <1>6 DEF CyclicOrder
  <2> QED BY <1>1, <1>2, <1>3, <1>6, <2>1, InTurnCovers DEF InDriver
<1>7. CASE first <= k /\ k < first + Returning
  <2>1. req.pc # "idle" /\ k = first
    BY <1>1, <1>3, <1>7 DEF Returning, Count
  <2>2. req.buf = b
    BY <1>1, <1>2, <2>1 DEF CyclicOrder
  <2> QED BY <2>1, <2>2 DEF InRequest
<1>8. CASE first + Returning <= k
  <2>1. /\ InTurn(held, c, first + Returning) /\ first + Returning \in Nat
        /\ k < first + Returning + Len(held)
    BY <1>1, <1>3 DEF CyclicOrder
  <2> QED BY <1>1, <1>2, <1>3, <1>8, <2>1, InTurnCovers
<1> QED BY <1>1, <1>3, <1>4, <1>5, <1>6, <1>7, <1>8

(* Buffers in turn have one owner each.                                     *)
LEMMA InTurnOneOwner ==
  ASSUME TypeInv, OwnerInv
  PROVE  OneOwner /\ HandleMatchesSlot
<1>0. NoBufferLost
  BY InTurnKeepsAll
<1>1. CASE ~mOpen
  <2>1. held = <<>> /\ req.pc = "idle" /\ work.pc = "top"
    BY <1>1 DEF OwnerInv, BeforeFirstRequest, NothingUnderWay
  <2>2. InWork = {} /\ InRequest = {} /\ ElementsOf(held) = {} /\ Len(held) = 0
    BY <2>1 DEF InWork, InRequest, ElementsOf
  <2> QED BY <1>0, <2>1, <2>2, FS_EmptySet DEF OneOwner, HandleMatchesSlot
<1>2. CASE mOpen
  <2> DEFINE c == WrappedIndex
             first == Delivering + InDriverCount + Returning
  <2>1. /\ CyclicOrder /\ c \in Slots
        /\ Len(done) \in Nat /\ Len(queued) \in Nat /\ Len(held) \in Nat
        /\ Delivering \in {0, 1} /\ Returning \in {0, 1}
        /\ InDriverCount = Len(done) + Len(queued)
        /\ done \in Seq(Buffers) /\ queued \in Seq(Buffers) /\ held \in Seq(Buffers)
    BY <1>2, Sizes DEF OwnerInv
  <2>2. Delivering + InDriverCount + Returning + Len(held) = N
    BY <2>1 DEF CyclicOrder
  <2>3. ASSUME NEW b \in InWork
        PROVE  b = Behind(c, 0) /\ Delivering = 1
    <3>1. work.pc = "notify" /\ b = bufferArray[currBufferHandleIndex]
      BY DEF InWork
    <3>2. currBufferHandleIndex \in Slots /\ c = currBufferHandleIndex
      BY <3>1, NumberOfBuffers DEF TypeInv, TypeOK, WrappedIndex
    <3>3. b = c
      BY <1>2, <3>1, <3>2 DEF OwnerInv, SlotsKept
    <3> QED BY <3>1, <3>2, <3>3, NumberOfBuffers DEF Behind, Delivering, Count
  <2>4. ASSUME NEW b \in InDriver
        PROVE  \E j \in Delivering .. (Delivering + InDriverCount - 1) : b = Behind(c, j)
    <3>1. CASE \E i \in 1 .. Len(done) : b = done[i]
      <4>1. PICK i \in 1 .. Len(done) : b = done[i]
        BY <3>1
      <4>2. b = Behind(c, Delivering + i - 1)
        BY <2>1, <4>1 DEF CyclicOrder, InTurn
      <4> QED BY <2>1, <4>2
    <3>2. CASE \E i \in 1 .. Len(queued) : b = queued[i]
      <4>1. PICK i \in 1 .. Len(queued) : b = queued[i]
        BY <3>2
      <4>2. b = Behind(c, Delivering + Len(done) + i - 1)
        BY <2>1, <4>1 DEF CyclicOrder, InTurn
      <4> QED BY <2>1, <4>2
    <3> QED BY <2>1, <3>1, <3>2, LenProperties DEF InDriver, ElementsOf
  <2>5. ASSUME NEW b \in InRequest
        PROVE  b = Behind(c, Delivering + InDriverCount) /\ Returning = 1
    BY <2>1 DEF InRequest, CyclicOrder, Returning, Count
  <2>6. ASSUME NEW i \in 1 .. Len(held)
        PROVE  held[i] = Behind(c, first + i - 1) /\ first + i - 1 \in 0 .. (N - 1)
    BY <2>1, <2>2 DEF CyclicOrder, InTurn
  <2>7. ASSUME NEW b \in ElementsOf(held)
        PROVE  \E j \in first .. (N - 1) : b = Behind(c, j)
    <3>1. PICK i \in 1 .. Len(held) : b = held[i]
      BY <2>1, LenProperties DEF ElementsOf
    <3> QED BY <2>1, <2>2, <2>6, <3>1
  <2>8. \A b \in InWork \cup ElementsOf(held) : b \notin InDriver
    <3> SUFFICES ASSUME NEW b \in InWork \cup ElementsOf(held), b \in InDriver
                 PROVE  FALSE
      OBVIOUS
    <3>1. PICK j \in Delivering .. (Delivering + InDriverCount - 1) : b = Behind(c, j)
      BY <2>4
    <3>2. PICK k \in 0 .. (N - 1) :
            b = Behind(c, k) /\ k \notin Delivering .. (Delivering + InDriverCount - 1)
      BY <2>1, <2>2, <2>3, <2>7
    <3>3. j \in 0 .. (N - 1) /\ j # k
      BY <2>1, <2>2, <3>2
    <3> HIDE DEF c
    <3> QED BY <2>1, <3>1, <3>2, <3>3, BehindInjective
  <2>9. InWork \cap ElementsOf(held) = {}
    <3> SUFFICES ASSUME NEW b \in InWork, b \in ElementsOf(held) PROVE FALSE
      OBVIOUS
    <3>1. PICK j \in first .. (N - 1) : b = Behind(c, j)
      BY <2>7
    <3>2. j \in 0 .. (N - 1) /\ 0 \in 0 .. (N - 1) /\ j # 0 /\ b = Behind(c, 0)
      BY <2>1, <2>3, <3>1, NumberOfBuffers
    <3> QED BY <2>1, <3>1, <3>2, BehindInjective
  <2>10. InRequest \cap (InWork \cup ElementsOf(held)) = {}
    <3> SUFFICES ASSUME NEW b \in InRequest, b \in InWork \cup ElementsOf(held)
                 PROVE  FALSE
      OBVIOUS
    <3> DEFINE k == Delivering + InDriverCount
    <3>1. b = Behind(c, k) /\ k \in 0 .. (N - 1) /\ Returning = 1
      BY <2>1, <2>2, <2>5, NumberOfBuffers
    <3>2. \E j \in 0 .. (N - 1) : b = Behind(c, j) /\ j # k
      BY <2>1, <2>2, <2>3, <2>7, <3>1, NumberOfBuffers
    <3> QED BY <2>1, <3>1, <3>2, BehindInjective
  <2>11. Cardinality(ElementsOf(held)) = Len(held)
    <3> DEFINE n == Len(held)
               S == ElementsOf(held)
    <3>1. \A i, j \in 1 .. n : held[i] = held[j] => i = j
      <4> SUFFICES ASSUME NEW i \in 1 .. n, NEW j \in 1 .. n, held[i] = held[j]
                   PROVE  i = j
        OBVIOUS
      <4>1. first + i - 1 = first + j - 1
        BY <2>1, <2>6, BehindInjective
      <4> QED BY <2>1, <4>1
    <3>2. S = {held[i] : i \in 1 .. n} /\ held \in [1 .. n -> S]
      BY <2>1, LenProperties DEF ElementsOf
    <3>3. held \in Bijection(1 .. n, S)
      BY <3>1, <3>2 DEF Bijection, Injection, Surjection, IsInjective
    <3>4. ExistsBijection(1 .. n, S)
      BY <3>3 DEF ExistsBijection
    <3> QED BY <2>1, <3>4, FS_CountingElements
  <2>12. HandleMatchesSlot
    BY <1>2, NumberOfBuffers DEF HandleMatchesSlot, OwnerInv, SlotsKept, TypeInv, TypeOK
  <2> QED BY <1>0, <2>8, <2>9, <2>10, <2>11, <2>12 DEF OneOwner
<1> QED BY <1>1, <1>2

(* However many buffers there are, and whatever times out, races or fails   *)
(* in start(), DQBUF and G_FMT: every buffer is somewhere, a buffer the     *)
(* client reads, or is about to be told to read, is not with the driver,    *)
(* and nothing is handed out twice.  Left out are a source that changes, a  *)
(* client that gives its buffers back out of order, and the VIDIOC_QBUF of  *)
(* request_capture failing (HinDevImpl.cpp:1142), which loses its buffer.   *)
THEOREM OwnersDistinct ==
  ASSUME Tolerated
  PROVE  Spec => []OneOwner
BY AlwaysInTurn, InTurnOneOwner, PTL

(* Under the same assumption the frame is always in the handle that         *)
(* workThread works on.                                                     *)
THEOREM SlotsKeepHandles ==
  ASSUME Tolerated
  PROVE  Spec => []HandleMatchesSlot
BY AlwaysInTurn, InTurnOneOwner, PTL
------------------------------------------------------------------------------
(* Without any fault no ticket is lost: select() waits for its frame, and   *)
(* no request finds the capture stopped.                                    *)
FaultlessInv ==
  /\ TicketsConserved
  /\ streamOpened => mOpen

LEMMA InitFaultless == Init => FaultlessInv
BY DEF Init, FaultlessInv, TicketsConserved

LEMMA NextFaultless ==
  ASSUME Faults = {}
  PROVE  TypeInv /\ OwnerInv /\ TicketInv /\ FaultlessInv /\ [Next]_vars => FaultlessInv'
<1> SUFFICES ASSUME TypeInv, OwnerInv, TicketInv, FaultlessInv, [Next]_vars
             PROVE  FaultlessInv'
  OBVIOUS
<1> USE DEF FaultlessInv, TicketsConserved, Tickets, Count, FirstTickets, Exact, TicketInv
<1>0. /\ mRequestCaptureCount \in Nat /\ work.reg \in Nat /\ req.reg \in Nat
      /\ held \in Seq(Buffers) /\ Len(held) \in Nat
      /\ work \in [pc : {"top", "decrement", "select", "dqbuf", "notify"}, reg : Nat]
      /\ req \in [pc : {"idle", "lookup", "state", "increment", "qbuf"},
                  buf : Buffers \cup {NoBuffer}, slot : Slots \cup {-1}, reg : Nat]
      /\ work.pc # "top" \/ req.pc # "idle" => mOpen /\ mState = "START"
      /\ signal /\ events = <<>> /\ eventPc = "idle"
  BY LenProperties
     DEF TypeInv, TypeOK, OwnerInv, BeforeFirstRequest, NothingUnderWay, Undisturbed
<1>1. CASE Start
  BY <1>1, NumberOfBuffers DEF Start, StartDevice
<1>2. CASE FirstRequest
  <2>1. work.pc = "top" /\ req.pc = "idle" /\ held = <<>>
    BY <1>2 DEF FirstRequest, MayRequest, BeforeFirstRequest, NothingUnderWay
  <2>2. /\ mRequestCaptureCount' = 2
        /\ UNCHANGED <<mOpen, work, req, held, streamOpened>>
    BY <1>2 DEF FirstRequest, MayRequest, client
  <2> QED BY <2>1, <2>2
<1>3. ASSUME NEW i \in Returnable, RequestCapture(i) PROVE FaultlessInv'
  <2>1. Len(held') = Len(held) - 1
    <3>1. i \in DOMAIN held
      BY DEF Returnable
    <3> QED BY <1>0, <1>3, <3>1, RemoveAtType DEF RequestCapture, MayRequest
  <2>2. req.pc = "idle" /\ req'.pc = "lookup" /\ UNCHANGED <<hal, work, streamOpened>>
    BY <1>3 DEF RequestCapture, MayRequest, IdleRequest
  <2> QED BY <1>0, <2>1, <2>2 DEF hal
<1>4. CASE FindSlot
  BY <1>0, <1>4 DEF FindSlot, hal, client
<1>5. CASE RefuseRequest
  BY <1>0, <1>5 DEF RefuseRequest
<1>6. CASE LoadForIncrement
  BY <1>0, <1>6 DEF LoadForIncrement, hal, client
<1>7. CASE StoreIncrement
  BY <1>0, <1>7 DEF StoreIncrement, client
<1>8. CASE QueueRequested
  BY <1>0, <1>8 DEF QueueRequested, IdleRequest, hal, client
<1>9. CASE TakeTicket
  BY <1>0, <1>9 DEF TakeTicket, client
<1>10. CASE StoreDecrement
  BY <1>0, <1>10 DEF StoreDecrement, client
<1>11. CASE GiveUp \/ DequeueFails
  BY <1>0, <1>11 DEF GiveUp, DequeueFails
<1>12. CASE SelectReadable
  BY <1>0, <1>12 DEF SelectReadable, hal, client
<1>13. CASE Dequeue
  BY <1>0, <1>13 DEF Dequeue, client
<1>14. CASE Notify
  <2>1. work.pc = "notify" /\ mState = "START"
    BY <1>0, <1>14 DEF Notify, wrapCaptureResultAndNotify, dataCallback
  <2>2. Len(held') = Len(held) + 1
    <3>1. bufferArray[currBufferHandleIndex] \in Buffers
      BY <2>1 DEF TypeInv, TypeOK
    <3> QED BY <1>0, <1>14, <2>1, <3>1, AppendProperties DEF Notify, wrapCaptureResultAndNotify, dataCallback
  <2>3. /\ work' = [work EXCEPT !.pc = "top"]
        /\ UNCHANGED <<mOpen, mFirstRequestCapture, mRequestCaptureCount, req, streamOpened>>
    BY <1>14 DEF Notify, wrapCaptureResultAndNotify, dataCallback
  <2> QED BY <1>0, <2>1, <2>2, <2>3
<1>15. CASE Fill
  BY <1>0, <1>15 DEF Fill, hal, client
<1>16. CASE CableStep \/ EventStep
  BY <1>0, <1>16 DEF CableStep, EventStep, Unplug, Plug, ModeChange, HandleCtrl,
                     StopCapture, HandleSourceChange
<1>17. CASE UNCHANGED vars
  BY <1>0, <1>17 DEF vars, hal, client
<1> QED
  BY <1>1, <1>2, <1>3, <1>4, <1>5, <1>6, <1>7, <1>8, <1>9, <1>10, <1>11, <1>12,
     <1>13, <1>14, <1>15, <1>16, <1>17 DEF Next, ClientStep, RequestStep, WorkStep

LEMMA AlwaysFaultless ==
  ASSUME Faults = {}
  PROVE  Spec => [](TypeInv /\ OwnerInv /\ TicketInv /\ FaultlessInv)
<1>1. Spec => [](TypeInv /\ OwnerInv)
  BY AlwaysInTurn DEF Tolerated
<1>2. TypeInv /\ TicketInv /\ [Next]_vars => TicketInv'
  BY NextTickets
<1>3. TypeInv /\ OwnerInv /\ TicketInv /\ FaultlessInv /\ [Next]_vars => FaultlessInv'
  BY NextFaultless
<1> QED BY <1>1, <1>2, <1>3, InitTickets, InitFaultless, PTL DEF Spec

(* Without faults the two tickets of the first request are always there: in *)
(* the counter, with workThread, with the client or on their way back.      *)
THEOREM TicketsKept ==
  ASSUME Faults = {}
  PROVE  Spec => []TicketsConserved
BY AlwaysFaultless, PTL DEF FaultlessInv

(* Then the driver, too, always owns all buffers but three, empty or filled *)
(* ones: what is out of it is covered by the tickets, except for the one    *)
(* buffer between the increment and VIDIOC_QBUF in request_capture.         *)
THEOREM DriverFed ==
  ASSUME Faults = {}
  PROVE  Spec => []DriverNeverStarves
<1>1. TypeInv /\ OwnerInv /\ TicketInv /\ FaultlessInv => DriverNeverStarves
  <2> SUFFICES ASSUME TypeInv, OwnerInv, TicketInv, FaultlessInv, mOpen
               PROVE  Len(queued) + Len(done) >= N - 3
    BY DEF DriverNeverStarves
  <2>1. /\ Len(done) \in Nat /\ Len(queued) \in Nat /\ Len(held) \in Nat
        /\ mRequestCaptureCount \in Nat
    BY LenProperties DEF TypeInv, TypeOK, DriverTypeOK
  <2>2. Delivering + (Len(done) + Len(queued)) + Returning + Len(held) = N
    BY DEF OwnerInv, CyclicOrder, InDriverCount
  <2>3. Delivering + Len(held) + Returning <= 3
    <3>1. CASE mFirstRequestCapture
      <4>1. work.pc = "top" /\ req.pc = "idle" /\ held = <<>>
        BY <3>1 DEF TicketInv, BeforeFirstRequest, NothingUnderWay
      <4>2. Delivering = 0 /\ Returning = 0 /\ Len(held) = 0
        BY <4>1 DEF Delivering, Returning, Count
      <4> QED BY <4>2
    <3>2. CASE ~mFirstRequestCapture
      <4>1. mRequestCaptureCount + Count(work.pc \in {"select", "dqbuf", "notify"})
              + Len(held) + Count(req.pc \in {"lookup", "state", "increment"}) = 2
        BY <3>2 DEF FaultlessInv, TicketsConserved, Tickets, FirstTickets
      <4>2. /\ Delivering \in {0, 1} /\ Returning \in {0, 1}
            /\ Delivering <= Count(work.pc \in {"select", "dqbuf", "notify"})
            /\ Count(work.pc \in {"select", "dqbuf", "notify"}) \in {0, 1}
            /\ Count(req.pc \in {"lookup", "state", "increment"}) \in {0, 1}
        BY DEF Delivering, Returning, Count
      <4> QED BY <2>1, <4>1, <4>2
    <3> QED BY <3>1, <3>2
  <2>4. Delivering \in {0, 1} /\ Returning \in {0, 1}
    BY Sizes
  <2> QED BY <2>1, <2>2, <2>3, <2>4, NumberOfBuffers
<1> QED BY <1>1, AlwaysFaultless, PTL
==============================================================================
