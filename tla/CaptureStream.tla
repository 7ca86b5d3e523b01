---------------------------- MODULE CaptureStream ----------------------------
(***************************************************************************)
(* Capture into application buffers (TYPE_STREAM_BUFFER_PRODUCER): HinDev-  *)
(* Impl between set_preview_buffer and stop().  Three threads share the     *)
(* object without a lock:                                                   *)
(*   - the binder thread in start() and request_capture();                  *)
(*   - WorkThread, which runs workThread() over and over;                   *)
(*   - the V4L2 event thread in hinDevEventCallback().                      *)
(* A step of the model is a stretch of one thread's code that reads or      *)
(* writes shared state once, so every interleaving that matters is a        *)
(* behaviour.  The receiver, the driver and the client are the environment. *)
(*                                                                          *)
(* Buffer b stands for the b-th registered preview buffer: its bufferId,    *)
(* its dma-buf fd and its V4L2 index, which the code keeps in step.         *)
(***************************************************************************)
EXTENDS V4L2Queue, SequencesExt

CONSTANTS
  Faults,     \* which of FaultKinds may happen
  MaxCount    \* model bound: no capture request starts at this many tickets

(***************************************************************************)
(* timeout  select() runs into its 1 s limit although the signal is there;  *)
(* signal   the cable is pulled and plugged, the source changes its mode;   *)
(* ioctl    QUERYBUF, QBUF and STREAMON in start(), DQBUF and G_FMT fail;   *)
(* requeue  VIDIOC_QBUF in request_capture() fails, which is only logged;   *)
(* race     the increment and the decrement of mRequestCaptureCount, a      *)
(*          plain int, overlap;                                             *)
(* reorder  the client gives buffers back in another order than it got them.*)
(***************************************************************************)
FaultKinds == {"timeout", "signal", "ioctl", "requeue", "race", "reorder"}

ASSUME FaultsAssumption == Faults \subseteq FaultKinds
ASSUME MaxCountAssumption == MaxCount \in Nat \ {0}

VARIABLES
  mState,                \* "START" or "STOPED"
  mOpen,                 \* start() has succeeded and WorkThread runs
  mFirstRequestCapture,
  mRequestCaptureCount,
  currBufferHandleIndex,
  bufferArray,           \* which buffer each v4l2_buffer slot describes
  work,                  \* WorkThread: pc, and the count it loaded
  req,                   \* request_capture: pc, buffer, slot, loaded count
  streamOpened,          \* open_stream has returned to the client
  held,                  \* captured buffers the client holds, oldest first
  signal,                \* TMDS signal present at the receiver
  events,                \* V4L2 events not yet dequeued, one per type
  eventPc                \* where get_HdmiIn(false) stands

hal == <<mState, mOpen, mFirstRequestCapture, mRequestCaptureCount,
         currBufferHandleIndex, bufferArray>>
client == <<streamOpened, held>>
eventVars == <<signal, events, eventPc>>
vars == <<driverVars, hal, work, req, client, eventVars>>

FirstTickets == 2

NoBuffer == -1
Slots == 0 .. (N - 1)                    \* of bufferArray
IdleRequest == [pc |-> "idle", buf |-> NoBuffer, slot |-> -1, reg |-> 0]

(* After init(), which fills mHinNodeInfo with zeros.                       *)
Init ==
  /\ queued = <<>> /\ done = <<>>
  /\ mState = "STOPED" /\ mOpen = FALSE
  /\ mFirstRequestCapture = TRUE /\ mRequestCaptureCount = 0
  /\ currBufferHandleIndex = 0
  /\ bufferArray = [s \in Slots |-> 0]
  /\ work = [pc |-> "top", reg |-> 0]
  /\ req = IdleRequest
  /\ streamOpened = FALSE /\ held = <<>>
  /\ signal = TRUE /\ events = <<>> /\ eventPc = "idle"
------------------------------------------------------------------------------
(* start(): start_device() describes buffer i in slot i, queues every       *)
(* buffer and turns the stream on, then the threads are created.  It may    *)
(* fail on the way; open_stream ignores the result, and a later open_stream *)
(* tries again.                                                             *)

(* aquire_buffer() with d successful VIDIOC_QUERYBUFs.  Slot d has got its  *)
(* index then, but no dma-buf; the slots after it are what they were.       *)
aquire_buffer(d) == [s \in Slots |-> IF s <= d THEN s ELSE bufferArray[s]]

(* Mutant: the queueing loop stops one buffer short.                        *)
StartDeviceOneShort(d, k) ==
  /\ mRequestCaptureCount' = 0
  /\ mFirstRequestCapture' = TRUE
  /\ bufferArray' = aquire_buffer(d)
  /\ QueueFirst(k - 1)

(* start_device() up to STREAMON, which does not look at the result of      *)
(* aquire_buffer(), with k successful VIDIOC_QBUFs.                         *)
StartDevice(d, k) ==
  /\ mRequestCaptureCount' = 0
  /\ mFirstRequestCapture' = TRUE
  /\ bufferArray' = aquire_buffer(d)
  /\ QueueFirst(k)

Start ==
  /\ ~mOpen /\ req.pc = "idle"
  /\ streamOpened' = TRUE
  /\ \/ /\ StartDevice(N, N)
        /\ mState' = "START" /\ mOpen' = TRUE
     \/ /\ "ioctl" \in Faults
        /\ \E d \in 0 .. N : \E k \in 0 .. d : StartDevice(d, k)
        /\ UNCHANGED <<mState, mOpen>>
  /\ UNCHANGED <<currBufferHandleIndex, work, req, held, eventVars>>
------------------------------------------------------------------------------
(* request_capture().                                                       *)

(* The HAL takes a request when its stream is initialised.                  *)
MayRequest == streamOpened /\ req.pc = "idle"

(* Mutant: mFirstRequestCapture is not cleared.                             *)
FirstRequestEveryTime ==
  /\ MayRequest /\ mFirstRequestCapture
  /\ currBufferHandleIndex' = 0
  /\ mRequestCaptureCount' = mRequestCaptureCount + FirstTickets
  /\ UNCHANGED <<driverVars, mState, mOpen, mFirstRequestCapture, bufferArray,
                 work, req, client, eventVars>>

(* The first request only opens the gate: two buffers may be dequeued.      *)
FirstRequest ==
  /\ MayRequest /\ mFirstRequestCapture
  /\ mFirstRequestCapture' = FALSE
  /\ currBufferHandleIndex' = 0
  /\ mRequestCaptureCount' = FirstTickets
  /\ UNCHANGED <<driverVars, mState, mOpen, bufferArray, work, req, client,
                 eventVars>>

(* The client may give back its oldest buffer; with reorder, any of them.   *)
Returnable == IF "reorder" \in Faults THEN DOMAIN held
              ELSE {i \in DOMAIN held : i = 1}

RequestCapture(i) ==
  /\ MayRequest /\ ~mFirstRequestCapture
  /\ mRequestCaptureCount < MaxCount
  /\ req' = [IdleRequest EXCEPT !.pc = "lookup", !.buf = held[i]]
  /\ held' = RemoveAt(held, i)
  /\ UNCHANGED <<driverVars, hal, work, streamOpened, eventVars>>

(* Mutant: the loop starts at slot 1.                                       *)
SlotOfFromOne(b) ==
  IF \E s \in Slots \ {0} : bufferArray[s] = b
  THEN CHOOSE s \in Slots \ {0} : bufferArray[s] = b
  ELSE -1

(* The loop over bufferArray: the first slot that describes b, or -1.       *)
SlotOf(b) ==
  IF \E s \in Slots : bufferArray[s] = b
  THEN CHOOSE s \in Slots :
         bufferArray[s] = b /\ \A t \in Slots : bufferArray[t] = b => s <= t
  ELSE -1

FindSlot ==
  /\ req.pc = "lookup"
  /\ req' = [req EXCEPT !.pc = "state", !.slot = SlotOf(req.buf)]
  /\ UNCHANGED <<driverVars, hal, work, client, eventVars>>

(* Capture is stopped: return 0 and do nothing with the buffer.             *)
RefuseRequest ==
  /\ req.pc = "state" /\ mState # "START"
  /\ req' = IdleRequest
  /\ UNCHANGED <<driverVars, hal, work, client, eventVars>>

(* mRequestCaptureCount++ is a load and a store.                            *)
LoadForIncrement ==
  /\ req.pc = "state" /\ mState = "START"
  /\ "race" \in Faults \/ work.pc # "decrement"
  /\ req' = [req EXCEPT !.pc = "increment", !.reg = mRequestCaptureCount]
  /\ UNCHANGED <<driverVars, hal, work, client, eventVars>>

StoreIncrement ==
  /\ req.pc = "increment"
  /\ mRequestCaptureCount' = req.reg + 1
  /\ req' = [req EXCEPT !.pc = "qbuf"]
  /\ UNCHANGED <<driverVars, mState, mOpen, mFirstRequestCapture,
                 currBufferHandleIndex, bufferArray, work, client, eventVars>>

(* Mutant: workThread's slot is queued instead of the one found above.      *)
RequestedBufferIsCurrent == bufferArray[currBufferHandleIndex % N]

(* VIDIOC_QBUF of the slot found above, as it reads now.  The memory in     *)
(* front of bufferArray (slot -1) is no valid v4l2_buffer: QBUF refuses it. *)
RequestedBuffer == bufferArray[req.slot]

QueueRequested ==
  /\ req.pc = "qbuf"
  /\ \/ /\ req.slot = -1 \/ "requeue" \in Faults
        /\ UNCHANGED driverVars
     \/ req.slot # -1 /\ Qbuf(RequestedBuffer)
  /\ req' = IdleRequest
  /\ UNCHANGED <<hal, work, client, eventVars>>
------------------------------------------------------------------------------
(* workThread().                                                            *)

(* Mutant: the index is wrapped one slot early.                              *)
WrapsEarly ==
  IF currBufferHandleIndex = N - 1 THEN 0 ELSE currBufferHandleIndex

(* The slots are used in turn.                                              *)
WrappedIndex == IF currBufferHandleIndex = N THEN 0 ELSE currBufferHandleIndex

(* A ticket is there: the load of the decrement.                            *)
TakeTicket ==
  /\ mOpen /\ work.pc = "top"
  /\ mState = "START" /\ mRequestCaptureCount > 0
  /\ "race" \in Faults \/ req.pc # "increment"
  /\ currBufferHandleIndex' = WrappedIndex
  /\ work' = [pc |-> "decrement", reg |-> mRequestCaptureCount]
  /\ UNCHANGED <<driverVars, mState, mOpen, mFirstRequestCapture,
                 mRequestCaptureCount, bufferArray, req, client, eventVars>>

(* Mutant: the ticket is not taken off the counter.                         *)
StoreUndecremented ==
  /\ work.pc = "decrement"
  /\ mRequestCaptureCount' = work.reg
  /\ work' = [work EXCEPT !.pc = "select"]
  /\ UNCHANGED <<driverVars, mState, mOpen, mFirstRequestCapture,
                 currBufferHandleIndex, bufferArray, req, client, eventVars>>

StoreDecrement ==
  /\ work.pc = "decrement"
  /\ mRequestCaptureCount' = work.reg - 1
  /\ work' = [work EXCEPT !.pc = "select"]
  /\ UNCHANGED <<driverVars, mState, mOpen, mFirstRequestCapture,
                 currBufferHandleIndex, bufferArray, req, client, eventVars>>

(* select() times out, or the capture was stopped while it waited: the      *)
(* iteration ends, and its ticket is spent.                                 *)
GiveUp ==
  /\ work.pc = "select"
  /\ \/ mState # "START"
     \/ ~Readable /\ ("timeout" \in Faults \/ ~signal)
  /\ work' = [work EXCEPT !.pc = "top"]
  /\ UNCHANGED <<driverVars, hal, req, client, eventVars>>

SelectReadable ==
  /\ work.pc = "select" /\ Readable /\ mState = "START"
  /\ work' = [work EXCEPT !.pc = "dqbuf"]
  /\ UNCHANGED <<driverVars, hal, req, client, eventVars>>

DequeueFails ==
  /\ work.pc = "dqbuf" /\ "ioctl" \in Faults
  /\ work' = [work EXCEPT !.pc = "top"]
  /\ UNCHANGED <<driverVars, hal, req, client, eventVars>>

(* VIDIOC_DQBUF overwrites the current slot with the buffer it returns.     *)
(* If the capture was stopped meanwhile, that buffer is left where it is.   *)
Dequeue ==
  /\ work.pc = "dqbuf"
  /\ \E b \in Buffers :
       /\ Dqbuf(b)
       /\ bufferArray' = [bufferArray EXCEPT ![currBufferHandleIndex] = b]
  /\ work' = [work EXCEPT !.pc = IF mState = "START" THEN "notify" ELSE "top"]
  /\ UNCHANGED <<mState, mOpen, mFirstRequestCapture, mRequestCaptureCount,
                 currBufferHandleIndex, req, client, eventVars>>

(* CAPTURE_SUCCEEDED for the client, which holds the buffer from now on.    *)
dataCallback(b) == Append(held, b)

(* A result is dropped when the capture is stopped.                         *)
wrapCaptureResultAndNotify(b) ==
  held' = IF mState = "STOPED" THEN held ELSE dataCallback(b)

(* The result is about the preview buffer with the fd of the current slot.  *)
Notify ==
  /\ work.pc = "notify"
  /\ wrapCaptureResultAndNotify(bufferArray[currBufferHandleIndex])
  /\ currBufferHandleIndex' = currBufferHandleIndex + 1
  /\ work' = [work EXCEPT !.pc = "top"]
  /\ UNCHANGED <<driverVars, mState, mOpen, mFirstRequestCapture,
                 mRequestCaptureCount, bufferArray, req, streamOpened, eventVars>>
------------------------------------------------------------------------------
(* The receiver and the V4L2 event thread.                                  *)

Fill ==
  /\ mOpen /\ signal /\ FillFrame
  /\ UNCHANGED <<hal, work, req, client, eventVars>>

(* The kernel keeps one pending event per subscribed type: the newest.      *)
OtherEvent(e) == IF e = "ctrl" THEN "source_change" ELSE "ctrl"

Post(q, e) ==
  IF OtherEvent(e) \in ElementsOf(q) THEN <<OtherEvent(e), e>> ELSE <<e>>

Unplug ==
  /\ "signal" \in Faults /\ signal
  /\ signal' = FALSE
  /\ events' = Post(events, "ctrl")
  /\ UNCHANGED <<driverVars, hal, work, req, client, eventPc>>

(* The power-present control changes, then the receiver locks to a mode.    *)
Plug ==
  /\ ~signal
  /\ signal' = TRUE
  /\ \/ events' = Post(Post(events, "ctrl"), "source_change")
     \/ events' = Post(Post(events, "source_change"), "ctrl")
  /\ UNCHANGED <<driverVars, hal, work, req, client, eventPc>>

ModeChange ==
  /\ "signal" \in Faults /\ signal
  /\ events' = Post(events, "source_change")
  /\ UNCHANGED <<driverVars, hal, work, req, client, signal, eventPc>>

(* Mutant: the test of mState is inverted.                                  *)
KeepsStopped == signal /\ mState # "START"

(* V4L2_EVENT_CTRL, get_HdmiIn(false): a capture that runs with the signal  *)
(* present goes on; everything else is about to be stopped.                 *)
KeepsRunning == signal /\ mState = "START"

HandleCtrl ==
  /\ eventPc = "idle" /\ events # <<>> /\ Head(events) = "ctrl"
  /\ events' = Tail(events)
  /\ \/ eventPc' = IF KeepsRunning THEN "idle" ELSE "stop"
     \/ "ioctl" \in Faults /\ UNCHANGED eventPc
  /\ UNCHANGED <<driverVars, hal, work, req, client, signal>>

StopCapture ==
  /\ eventPc = "stop"
  /\ mState' = "STOPED"
  /\ eventPc' = "idle"
  /\ UNCHANGED <<driverVars, mOpen, mFirstRequestCapture, mRequestCaptureCount,
                 currBufferHandleIndex, bufferArray, work, req, client, signal,
                 events>>

(* V4L2_EVENT_SOURCE_CHANGE, get_current_sourcesize().                      *)
HandleSourceChange ==
  /\ eventPc = "idle" /\ events # <<>> /\ Head(events) = "source_change"
  /\ events' = Tail(events)
  /\ \/ mState' = "START"
     \/ "ioctl" \in Faults /\ UNCHANGED mState
  /\ UNCHANGED <<driverVars, mOpen, mFirstRequestCapture, mRequestCaptureCount,
                 currBufferHandleIndex, bufferArray, work, req, client, signal,
                 eventPc>>
------------------------------------------------------------------------------
ClientStep == Start \/ FirstRequest \/ \E i \in Returnable : RequestCapture(i)
RequestStep == FindSlot \/ RefuseRequest \/ LoadForIncrement \/ StoreIncrement
                 \/ QueueRequested
WorkStep == TakeTicket \/ StoreDecrement \/ GiveUp \/ SelectReadable
              \/ DequeueFails \/ Dequeue \/ Notify
EventStep == HandleCtrl \/ StopCapture \/ HandleSourceChange
CableStep == Unplug \/ Plug \/ ModeChange

Next == ClientStep \/ RequestStep \/ WorkStep \/ Fill \/ EventStep \/ CableStep

(* The HAL's threads and the receiver are scheduled.                        *)
Fairness ==
  /\ WF_vars(RequestStep) /\ WF_vars(WorkStep) /\ WF_vars(EventStep)
  /\ WF_vars(Fill)

Spec == Init /\ [][Next]_vars /\ Fairness

(* The client gives every buffer back some time after it was notified.      *)
RecyclingSpec == Spec /\ WF_vars(ClientStep)
------------------------------------------------------------------------------
(* Buffers on their way through the HAL, outside driver and client.         *)
InWork == IF work.pc = "notify" THEN {bufferArray[currBufferHandleIndex]} ELSE {}
InRequest == IF req.pc = "idle" THEN {} ELSE {req.buf}

(* Every variable has the type its declaration in HinDev.h suggests.        *)
TypeOK ==
  /\ DriverTypeOK
  /\ mState \in {"START", "STOPED"}
  /\ mOpen \in BOOLEAN /\ mFirstRequestCapture \in BOOLEAN
  /\ mRequestCaptureCount \in Nat
  /\ currBufferHandleIndex \in 0 .. N
  /\ bufferArray \in [Slots -> Buffers]
  /\ work \in [pc : {"top", "decrement", "select", "dqbuf", "notify"},
               reg : Nat]
  /\ work.pc # "top" => currBufferHandleIndex \in Slots
  /\ req \in [pc : {"idle", "lookup", "state", "increment", "qbuf"},
              buf : Buffers \cup {NoBuffer}, slot : Slots \cup {-1}, reg : Nat]
  /\ req.pc # "idle" => req.buf \in Buffers
  /\ streamOpened \in BOOLEAN
  /\ held \in Seq(Buffers)
  /\ signal \in BOOLEAN
  /\ events \in Seq({"ctrl", "source_change"})
  /\ eventPc \in {"idle", "stop"}

(* No buffer gets lost on its way: while the capture runs each one is with  *)
(* the driver, about to be delivered, with the client, or on its way back.  *)
(* A QBUF refused because the slot describes another buffer than the client *)
(* returned (HinDevImpl.cpp:1142) would drop one for good, unnoticed: the   *)
(* error is only logged.                                                    *)
NoBufferLost ==
  mOpen => Buffers \subseteq InDriver \cup InWork \cup InRequest \cup ElementsOf(held)

(* Every buffer has one owner, and none has two.  What the client reads, or *)
(* has just been told to read, is not in the driver, where the next frame   *)
(* would overwrite it, and nothing is handed out twice                      *)
(* (HinDevImpl.cpp:1142, 1570, 1701).                                       *)
OneOwner ==
  /\ NoBufferLost
  /\ \A b \in InWork \cup ElementsOf(held) : b \notin InDriver
  /\ InWork \cap ElementsOf(held) = {}
  /\ InRequest \cap (InWork \cup ElementsOf(held)) = {}
  /\ Cardinality(ElementsOf(held)) = Len(held)

(* A buffer the client may give back is described by some slot: the lookup  *)
(* of request_capture (HinDevImpl.cpp:1106-1113) never ends with -1.        *)
HeldHasSlot ==
  \A b \in ElementsOf(held) \cup (IF req.pc = "lookup" THEN {req.buf} ELSE {}) :
    SlotOf(b) # -1

(* The frame workThread delivers is in the handle it works on: slot i never *)
(* comes to describe another buffer than buffer_handle_poll[i], which the   *)
(* dump and the format conversion read (HinDevImpl.cpp:1589, 1697).         *)
HandleMatchesSlot ==
  work.pc = "notify" => bufferArray[currBufferHandleIndex] = currBufferHandleIndex

Count(condition) == IF condition THEN 1 ELSE 0

(* The tickets: permission to dequeue one buffer each.  A ticket is in the  *)
(* counter, with the buffer workThread is about to deliver, with a buffer   *)
(* the client holds, or with a request that has not incremented the counter.*)
Tickets ==
  mRequestCaptureCount
    + Count(work.pc \in {"select", "dqbuf", "notify"})
    + Len(held)
    + Count(req.pc \in {"lookup", "state", "increment"})

(* Whatever times out, fails or is unplugged, and in whatever order buffers *)
(* come back, the first request's two tickets never become three: the       *)
(* client is never given more than the two buffers that the comment         *)
(* "deque first two buffer" (HinDevImpl.cpp:1117) reckons with.             *)
AtMostTwoTickets == Tickets <= FirstTickets

(* As long as nothing fails no ticket is lost either.                       *)
TicketsConserved == ~mFirstRequestCapture => Tickets = FirstTickets

(* At most three buffers are ever outside the driver (the third is between  *)
(* the increment at 1130 and the QBUF at 1142), so that of the four of      *)
(* APP_PREVIEW_BUFF_CNT the driver always owns one, empty or filled: the    *)
(* receiver is without an empty one only while filled ones wait for         *)
(* workThread, never because all are with the client and its requests.      *)
DriverNeverStarves == mOpen => Len(queued) + Len(done) >= N - 3

(* When the last pending V4L2 event has been handled and the signal is      *)
(* there, capture runs: no order of plug, unplug and mode events, nor an    *)
(* event handled in the middle of start(), leaves it stopped for good.      *)
SettledIsRunning ==
  mOpen /\ signal /\ events = <<>> /\ eventPc = "idle" => mState = "START"

(* As long as the client recycles its buffers, it gets every buffer over    *)
(* and over: no request is forgotten and no thread waits for another one.   *)
EveryBufferDelivered ==
  \A b \in Buffers : []<>(b \in ElementsOf(held))
==============================================================================
