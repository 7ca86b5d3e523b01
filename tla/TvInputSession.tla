----------------------------- MODULE TvInputSession -----------------------------
(***************************************************************************)
(* The life of a stream as the TV input service sees it: the entry points   *)
(* of tv_input.cpp, the HinDevImpl object they create, start, stop and      *)
(* delete, and the thread that waits for V4L2 events and calls back         *)
(* (TvDeviceV4L2Event.cpp).  close_stream() leaves the object and its       *)
(* threads behind: a session s of the model is one HinDevImpl, whose        *)
(* threads may still run when the next one has begun, with file             *)
(* descriptors that are numbers, and the kernel uses the lowest free one.   *)
(*                                                                          *)
(* The pipe of a session stands for both its ends.  The client calls one    *)
(* entry point at a time and closes the device only when no stream runs.    *)
(***************************************************************************)
EXTENDS Naturals, FiniteSets, FiniteSetsExt, Sequences

CONSTANTS
  Sessions,    \* model bound: 1 .. number of HinDevImpl objects
  FdNumbers,   \* model bound: numbers for the files of this model
  Modes,       \* the timings a source may send
  MaxChanges,  \* model bound: how often the world below changes
  Faults       \* which of FaultKinds may happen

(***************************************************************************)
(* signal  the source changes its mode, the cable is pulled and plugged;    *)
(* ioctl   S_FMT fails, or start_device() does;                             *)
(* other   other code of the process opens and closes files;                *)
(* absent  /dev holds no node of the receiver.                              *)
(***************************************************************************)
FaultKinds == {"signal", "ioctl", "other", "absent"}

ASSUME SessionsAssumption == IsFiniteSet(Sessions) /\ Sessions = 1 .. Cardinality(Sessions)
ASSUME FdsAssumption == IsFiniteSet(FdNumbers) /\ FdNumbers \subseteq Nat \ {0}
ASSUME ModesAssumption == Modes # {} /\ Modes \subseteq Nat \ {0}
ASSUME MaxChangesAssumption == MaxChanges \in Nat
ASSUME FaultsAssumption == Faults \subseteq FaultKinds

VARIABLES
  mDev, isOpened, isInitialized,  \* s_TvInputPriv
  ctl,            \* where the client's call stands
  opened,         \* HinDevImpl objects made so far
  out_buffer,     \* the cloned sideband handle is remembered
  clones,         \* cloned handles that are open
  s_HinDevStream, \* the size and format the HAL reports
  missed,         \* history: an event was refused while open was under way
  mBufferLock, mHinDevHandle, pipefd, mSidebandHandle,  \* HinDevImpl
  deleted,        \* objects that have been deleted
  work, event,    \* WorkThread and V4L2EventThread of each session
  exitPending,    \* threads asked to exit
  files,          \* what each fd number refers to
  quit,           \* sessions whose pipe holds a 'q'
  events,         \* V4L2 events of each session's file, one per type
  robbed,         \* history: objects that closed a file of somebody else
  mode,           \* timings at the receiver; 0 without a signal
  changes         \* how often the world has changed

priv == <<mDev, isOpened, isInitialized>>
streamVars == <<out_buffer, clones>>
sizeVars == <<s_HinDevStream, missed>>
objectVars == <<opened, mBufferLock, mHinDevHandle, pipefd, mSidebandHandle, deleted>>
threadVars == <<work, event, exitPending>>
source == <<mode, changes>>
fileVars == <<files, quit, robbed>>
vars == <<priv, ctl, streamVars, sizeVars, objectVars, threadVars, fileVars, events, source>>

NULL == 0
NoFd == 0

(* subscribeEvent(): of the controls only DV_RX_POWER_PRESENT.              *)
EventTypes == {"SOURCE_CHANGE", "CTRL", "SIGNAL_LOST"}
NoThread == [pc |-> "none", type |-> "none", of |-> NULL, size |-> 0]

Unused == [kind |-> "free", of |-> NULL]
Video(s) == [kind |-> "video", of |-> s]
Pipe(s) == [kind |-> "pipe", of |-> s]
Other == [kind |-> "other", of |-> NULL]

file(n) == IF n = NoFd THEN Unused ELSE files[n]

Init ==
  /\ mDev = NULL /\ isOpened = FALSE /\ isInitialized = FALSE
  /\ ctl = "idle" /\ opened = 0
  /\ out_buffer = FALSE /\ clones = 0
  /\ s_HinDevStream = 0 /\ missed = FALSE
  /\ mBufferLock = [s \in Sessions |-> "free"]
  /\ mHinDevHandle = [s \in Sessions |-> NoFd]
  /\ pipefd = [s \in Sessions |-> NoFd]
  /\ mSidebandHandle = [s \in Sessions |-> FALSE]
  /\ deleted = {}
  /\ work = [s \in Sessions |-> "none"]
  /\ event = [s \in Sessions |-> NoThread]
  /\ exitPending = {}
  /\ files = [n \in FdNumbers |-> Unused]
  /\ quit = {} /\ robbed = {}
  /\ events = [s \in Sessions |-> {}]
  /\ mode \in {0, Min(Modes)} /\ changes = 0
------------------------------------------------------------------------------
(* Files.                                                                   *)

free == {n \in FdNumbers : files[n] = Unused}

(* close(): whatever the number refers to now.                              *)
closes(s, n, what) ==
  /\ files' = [files EXCEPT ![n] = Unused]
  /\ robbed' = IF files[n] \in {what, Unused} THEN robbed ELSE robbed \cup {s}

(* Events go to the open files that have subscribed to them.                *)
post(types) ==
  events' = [s \in Sessions |->
               IF \E n \in FdNumbers : files[n] = Video(s)
                 THEN events[s] \cup (types \cap EventTypes) ELSE {}]
------------------------------------------------------------------------------
(* What the service is told of: initialize() announces two devices.         *)

getHdmiPortID(source_type) ==
  CASE source_type = "HDMI1" -> 1 [] source_type = "HDMI2" -> 2 [] OTHER -> 0

generateEvent(source_type, event_type) ==
  [device |-> source_type, event |-> event_type,
   type |-> IF source_type \in {"HDMI1", "HDMI2"} THEN "HDMI" ELSE "TUNER",
   port |-> getHdmiPortID(source_type)]

findTvDevices ==
  {generateEvent(d, e) : d \in {"HDMI1", "DTV"},
                         e \in {"DEVICE_AVAILABLE", "STREAM_CONFIGURATIONS_CHANGED"}}

(* get_stream_configurations() reports one size and format for both streams *)
(* (but the width for the height of the second).                            *)
configurations == [stream \in {"GENERIC", "FRAME_CAPTURE"} |-> s_HinDevStream]
------------------------------------------------------------------------------
(* hin_dev_open(), from get_stream_configurations().                        *)

(* What /dev/video* may be: UVC gadgets are not opened, and of the other    *)
(* nodes findDevice() keeps the first one of the receiver's driver open.    *)
devNodes ==
  {<<"gadget", "other", "hdmirx">>}
    \cup (IF "absent" \in Faults THEN {<<"unopenable", "other">>} ELSE {})

scanned(nodes) == SelectSeq(nodes, LAMBDA node : node \notin {"gadget", "unopenable"})
isFound(nodes) == \E i \in DOMAIN scanned(nodes) : scanned(nodes)[i] = "hdmirx"

(* The directory is open while the node is opened.                          *)
videoNumber == Min(free \ {Min(free)})

(* V4L2DeviceEvent::initialize(): the pipe, and a thread that polls.        *)
startEventThread(s, video) ==
  LET pipe == Min(free \ {video})
  IN  /\ pipefd' = [pipefd EXCEPT ![s] = pipe]
      /\ files' = [files EXCEPT ![video] = Video(s), ![pipe] = Pipe(s)]
      /\ event' = [event EXCEPT ![s].pc = "poll"]

(* The device that the service may open is SOURCE_DTV.                      *)
hin_dev_open ==
  /\ ctl = "idle" /\ ~isOpened /\ mDev = NULL
  /\ opened + 1 \in Sessions /\ Cardinality(free) >= 2
  /\ \E e \in findTvDevices : e.device = "DTV"
  /\ opened' = opened + 1 /\ mDev' = opened + 1
  /\ \E nodes \in devNodes :
       IF isFound(nodes)
         THEN /\ mHinDevHandle' = [mHinDevHandle EXCEPT ![opened + 1] = videoNumber]
              /\ startEventThread(opened + 1, videoNumber)
              /\ ctl' = "get_format"
         ELSE ctl' = "delete" /\ UNCHANGED <<mHinDevHandle, pipefd, files, event>>
  /\ UNCHANGED <<isOpened, isInitialized, streamVars, sizeVars, mBufferLock, mSidebandHandle,
                 deleted, work, exitPending, quit, robbed, events, source>>

get_format ==
  /\ ctl = "get_format" /\ mode # 0
  /\ s_HinDevStream' = mode /\ missed' = FALSE
  /\ ctl' = "opened"
  /\ UNCHANGED <<priv, streamVars, objectVars, threadVars, fileVars, events, source>>

(* Without a signal the size is 0: findDevice() closes the node and fails,  *)
(* and the object is deleted.                                               *)
get_formatFails ==
  /\ ctl = "get_format" /\ mode = 0
  /\ s_HinDevStream' = 0 /\ missed' = FALSE
  /\ closes(mDev, mHinDevHandle[mDev], Video(mDev))
  /\ ctl' = "delete"
  /\ UNCHANGED <<priv, streamVars, objectVars, threadVars, quit, events, source>>

setOpened ==
  /\ ctl = "opened"
  /\ isOpened' = TRUE
  /\ ctl' = "idle"
  /\ UNCHANGED <<mDev, isInitialized, streamVars, sizeVars, objectVars, threadVars,
                 fileVars, events, source>>
------------------------------------------------------------------------------
(* ~HinDevImpl(): the event thread is joined, its destructor closes the     *)
(* pipe, and the video node is closed, whoever has closed it before.        *)

(* Mutant: the thread is asked to exit and not waited for.                  *)
DoesNotJoin(s) == exitPending' = exitPending \cup {<<"event", s>>}

closeEventThread(s) ==
  /\ event[s].pc \in {"none", "gone"}
  /\ exitPending' = exitPending \cup {<<"event", s>>}

requestExit ==
  /\ ctl = "delete" /\ <<"event", mDev>> \notin exitPending
  /\ exitPending' = exitPending \cup {<<"event", mDev>>}
  /\ UNCHANGED <<priv, ctl, streamVars, sizeVars, objectVars, work, event, fileVars, events, source>>

deleteDevice ==
  /\ ctl = "delete" /\ <<"event", mDev>> \in exitPending
  /\ closeEventThread(mDev)
  /\ deleted' = deleted \cup {mDev}
  /\ LET s == mDev
         handle == mHinDevHandle[s]
     IN  /\ files' = [n \in FdNumbers |-> IF n \in {pipefd[s], handle} THEN Unused
                                                                      ELSE files[n]]
         /\ robbed' = IF file(handle) \in {Video(s), Unused} THEN robbed
                                                             ELSE robbed \cup {s}
  /\ mDev' = NULL
  /\ ctl' = IF isOpened THEN "deleted" ELSE "idle"
  /\ UNCHANGED <<isOpened, isInitialized, streamVars, sizeVars, opened, mBufferLock, mHinDevHandle,
                 pipefd, mSidebandHandle, work, event,
                 quit, events, source>>

(* device_close(), and then device_open(), which clears what it allocates,  *)
(* and initialize() once more.                                              *)
device_close ==
  /\ ctl = "idle" /\ isOpened /\ ~out_buffer
  /\ mDev # NULL
  /\ ctl' = "delete"
  /\ UNCHANGED <<priv, streamVars, sizeVars, objectVars, threadVars, fileVars, events, source>>

device_open == isOpened' = FALSE /\ isInitialized' = FALSE

initialize ==
  /\ ctl = "deleted"
  /\ device_open
  /\ ctl' = "idle"
  /\ UNCHANGED <<mDev, streamVars, sizeVars, objectVars, threadVars, fileVars, events, source>>
------------------------------------------------------------------------------
(* set_preview_info(): init() needs the cable in.                           *)
set_preview_info ==
  /\ ctl = "idle" /\ mDev # NULL /\ ~isInitialized /\ mode # 0
  /\ isInitialized' = TRUE
  /\ UNCHANGED <<mDev, isOpened, ctl, streamVars, sizeVars, opened, mBufferLock,
                 mHinDevHandle, pipefd, mSidebandHandle, deleted, threadVars, fileVars, events, source>>

(* open_stream() of a sideband stream: S_FMT, the cloned handle, start().   *)
(* Mutant: the handle is cloned before S_FMT may fail.                      *)
ClonesFirst(ok) ==
  /\ clones' = clones + 1
  /\ out_buffer' = (ok \/ out_buffer)
  /\ mSidebandHandle' = [mSidebandHandle EXCEPT ![mDev] = TRUE]

(* The object's own handle is allocated when it is first asked for.         *)
getSindebandBufferHandle(s) == mSidebandHandle' = [mSidebandHandle EXCEPT ![s] = TRUE]

clone(ok) ==
  IF ok
    THEN clones' = clones + 1 /\ out_buffer' = TRUE /\ getSindebandBufferHandle(mDev)
    ELSE UNCHANGED <<streamVars, mSidebandHandle>>

open_stream ==
  /\ ctl = "idle" /\ mDev # NULL /\ isInitialized /\ ~out_buffer
  /\ \/ /\ clone(TRUE)
        /\ \/ work' = [work EXCEPT ![mDev] = "running"]
           \/ "ioctl" \in Faults /\ UNCHANGED work
     \/ "ioctl" \in Faults /\ clones < 2 /\ clone(FALSE) /\ UNCHANGED work
  /\ UNCHANGED <<priv, ctl, sizeVars, opened, mBufferLock, mHinDevHandle,
                 pipefd, deleted, event, exitPending, fileVars, events, source>>
------------------------------------------------------------------------------
(* close_stream(): stop(), and the object is left behind.                   *)

close_stream ==
  /\ ctl = "idle" /\ mDev # NULL /\ isOpened
  /\ clones' = IF out_buffer THEN clones - 1 ELSE clones
  /\ out_buffer' = FALSE
  /\ ctl' = "stop"
  /\ UNCHANGED <<priv, sizeVars, opened, mBufferLock, mHinDevHandle,
                 pipefd, mSidebandHandle, deleted, threadVars, fileVars, events, source>>

(* requestExit() of the workers, which nobody joins.                        *)
requestWorkExit(s) == exitPending' = exitPending \cup {<<"work", s>>}

(* The handle of the sideband goes with the buffers of the stream.          *)
release_buffer(s) == mSidebandHandle' = [mSidebandHandle EXCEPT ![s] = FALSE]

(* Under mBufferLock: threads, STREAMOFF, buffers, mHinNodeInfo.            *)
stopThreads ==
  /\ ctl = "stop" /\ mBufferLock[mDev] = "free"
  /\ mBufferLock' = [mBufferLock EXCEPT ![mDev] = "stop"]
  /\ requestWorkExit(mDev)
  /\ release_buffer(mDev)
  /\ ctl' = "quit"
  /\ UNCHANGED <<priv, streamVars, sizeVars, opened, mHinDevHandle, pipefd, deleted, work, event, fileVars, events, source>>

(* Mutant: the event thread is asked to exit and joined, as in ~HinDevImpl. *)
JoinsEventThread(s) ==
  \/ /\ <<"event", s>> \notin exitPending
     /\ exitPending' = exitPending \cup {<<"event", s>>}
     /\ UNCHANGED <<ctl, quit>>
  \/ /\ <<"event", s>> \in exitPending /\ event[s].pc = "gone"
     /\ quit' = quit \cup {s}
     /\ ctl' = "close pipe" /\ UNCHANGED exitPending

(* closePipe(): a 'q' for the event thread, and both ends are closed, be it *)
(* that the thread has seen the 'q' or not.                                 *)
writeQuit(s) ==
  /\ quit' = quit \cup {s}
  /\ ctl' = "close pipe" /\ UNCHANGED exitPending

closePipe ==
  /\ ctl = "quit" /\ writeQuit(mDev)
  /\ UNCHANGED <<priv, streamVars, sizeVars, objectVars, work, event, files, robbed,
                 events, source>>

closePipeEnds ==
  /\ ctl = "close pipe"
  /\ closes(mDev, pipefd[mDev], Pipe(mDev))
  /\ ctl' = "close"
  /\ UNCHANGED <<priv, streamVars, sizeVars, objectVars, threadVars, quit, events, source>>

(* Mutant: the thread object goes with the pipe, and closes it once more.   *)
ClosesPipeAgain(s) ==
  /\ files' = [files EXCEPT ![mHinDevHandle[s]] = Unused, ![pipefd[s]] = Unused]
  /\ robbed' = IF files[pipefd[s]] \in {Pipe(s), Unused} THEN robbed ELSE robbed \cup {s}

closesVideo(s) == closes(s, mHinDevHandle[s], Video(s))

closeVideo ==
  /\ ctl = "close"
  /\ closesVideo(mDev)
  /\ mBufferLock' = [mBufferLock EXCEPT ![mDev] = "free"]
  /\ ctl' = "stopped"
  /\ UNCHANGED <<priv, streamVars, sizeVars, opened, mHinDevHandle, pipefd, mSidebandHandle, deleted, threadVars, quit, events, source>>

(* Mutant: the device goes before the flag.                                 *)
ForgetsDeviceFirst ==
  \/ ctl = "stopped" /\ mDev' = NULL /\ ctl' = "closing" /\ UNCHANGED <<isOpened, isInitialized>>
  \/ ctl = "closing" /\ isInitialized' = FALSE /\ isOpened' = FALSE /\ ctl' = "idle"
       /\ UNCHANGED mDev

forgetDevice ==
  \/ ctl = "stopped" /\ isInitialized' = FALSE /\ isOpened' = FALSE /\ ctl' = "closing"
       /\ UNCHANGED mDev
  \/ ctl = "closing" /\ mDev' = NULL /\ ctl' = "idle" /\ UNCHANGED <<isOpened, isInitialized>>

closed ==
  /\ forgetDevice
  /\ UNCHANGED <<streamVars, sizeVars, objectVars, threadVars, fileVars, events, source>>
------------------------------------------------------------------------------
(* WorkThread: an iteration, of which CaptureStream and SidebandStream tell  *)
(* more, takes a second at most; then the request to exit is looked at.     *)
workThread(s) ==
  /\ work[s] = "running" /\ <<"work", s>> \in exitPending
  /\ work' = [work EXCEPT ![s] = "gone"]
  /\ UNCHANGED <<priv, ctl, streamVars, sizeVars, objectVars, event, exitPending,
                 fileVars, events, source>>
------------------------------------------------------------------------------
(* V4L2EventThread::threadLoop().  poll() looks its numbers up each time.   *)

(* Mutant: the thread ends with its first event.                            *)
LeavesAfterOne(s) == event' = [event EXCEPT ![s] = [NoThread EXCEPT !.pc = "gone"]]

(* What a request to exit finds: the thread leaves between two iterations.  *)
eventLoop(s) ==
  event' = [event EXCEPT ![s] =
    [NoThread EXCEPT !.pc = IF <<"event", s>> \in exitPending THEN "gone" ELSE "poll"]]

eventEnds(s, where) == event' = [event EXCEPT ![s] = [NoThread EXCEPT !.pc = where]]

pollQuit(s) ==
  /\ event[s].pc = "poll"
  /\ \/ \E t \in quit : file(pipefd[s]) = Pipe(t)
     \/ file(pipefd[s]).kind \in {"video", "other"}
     \/ <<"event", s>> \in exitPending
  /\ eventEnds(s, "gone")
  /\ UNCHANGED <<priv, ctl, streamVars, sizeVars, objectVars, work, exitPending,
                 fileVars, events, source>>

pollEvent(s) ==
  /\ event[s].pc = "poll"
  /\ ~ \E t \in quit : file(pipefd[s]) = Pipe(t)
  /\ \E t \in Sessions : file(mHinDevHandle[s]) = Video(t) /\ events[t] # {}
  /\ eventEnds(s, "dqevent")
  /\ UNCHANGED <<priv, ctl, streamVars, sizeVars, objectVars, work, exitPending,
                 fileVars, events, source>>

(* Mutant: the queue of events is emptied, and the last one is handled.      *)
TakesAll(s, t, type) ==
  /\ events' = [events EXCEPT ![t] = {}]
  /\ event' = [event EXCEPT ![s] = [NoThread EXCEPT !.pc = "callback", !.type = type]]

taken(s, t, type) ==
  /\ events' = [events EXCEPT ![t] = @ \ {type}]
  /\ event' = [event EXCEPT ![s] = [NoThread EXCEPT !.pc = "callback", !.type = type]]

(* VIDIOC_DQEVENT waits when another thread has been faster.                *)
dequeueEvent(s) ==
  /\ event[s].pc \in {"dqevent", "blocked"}
  /\ LET t == IF event[s].pc = "blocked" THEN event[s].of ELSE file(mHinDevHandle[s]).of
         isVideo == event[s].pc = "blocked" \/ file(mHinDevHandle[s]).kind = "video"
     IN  \/ /\ ~isVideo
            /\ eventLoop(s) /\ UNCHANGED events
         \/ /\ isVideo /\ event[s].pc = "dqevent" /\ events[t] = {}
            /\ event' = [event EXCEPT ![s] = [NoThread EXCEPT !.pc = "blocked", !.of = t]]
            /\ UNCHANGED events
         \/ /\ isVideo
            /\ \E type \in events[t] : taken(s, t, type)
  /\ UNCHANGED <<priv, ctl, streamVars, sizeVars, objectVars, work, exitPending,
                 fileVars, source>>

(* hinDevEventCallback(): refused unless the device is open.                *)
refuse(s) ==
  /\ event[s].pc = "callback" /\ ~isOpened
  /\ eventLoop(s)
  /\ missed' = (missed \/ (event[s].type = "SOURCE_CHANGE" /\ ctl = "opened"))
  /\ UNCHANGED <<priv, ctl, streamVars, s_HinDevStream, objectVars, work, exitPending,
                 fileVars, events, source>>

accept(s) ==
  /\ event[s].pc = "callback" /\ isOpened
  /\ event' = [event EXCEPT ![s].pc = "handle"]
  /\ UNCHANGED <<priv, ctl, streamVars, sizeVars, objectVars, work, exitPending,
                 fileVars, events, source>>

isVideoOf(d) == file(mHinDevHandle[d]).kind = "video"

(* get_current_sourcesize(): VIDIOC_G_FMT, and nothing when it fails.       *)
handleSourceChange(s) ==
  /\ event[s].pc = "handle" /\ event[s].type = "SOURCE_CHANGE"
  /\ IF mDev = NULL THEN eventEnds(s, "crashed")
     ELSE IF isVideoOf(mDev)
       THEN event' = [event EXCEPT ![s].pc = "store", ![s].of = mDev, ![s].size = mode]
       ELSE eventLoop(s)
  /\ UNCHANGED <<priv, ctl, streamVars, sizeVars, objectVars, work, exitPending,
                 fileVars, events, source>>

(* The size is stored, mState is START, and check_interlaced() wants mDev.  *)
storeSize(s) ==
  /\ event[s].pc = "store"
  /\ s_HinDevStream' = event[s].size
  /\ missed' = (missed \/ s # mDev)
  /\ IF mDev = NULL THEN eventEnds(s, "crashed") ELSE eventLoop(s)
  /\ UNCHANGED <<priv, ctl, streamVars, opened, mBufferLock,
                 mHinDevHandle, pipefd, mSidebandHandle, deleted, work, exitPending, fileVars, events, source>>

(* get_HdmiIn(false) stops the capture unless it runs and has a signal.     *)
handleCtrl(s) ==
  /\ event[s].pc = "handle" /\ event[s].type = "CTRL"
  /\ IF mDev = NULL THEN eventEnds(s, "crashed")
     ELSE IF isVideoOf(mDev) /\ mode = 0
       THEN event' = [event EXCEPT ![s].pc = "lock", ![s].of = mDev]
       ELSE eventLoop(s)
  /\ UNCHANGED <<priv, ctl, streamVars, sizeVars, objectVars, work, exitPending,
                 fileVars, events, source>>

handleSignalLost(s) ==
  /\ event[s].pc = "handle" /\ event[s].type = "SIGNAL_LOST"
  /\ IF mDev = NULL THEN eventLoop(s)
                    ELSE event' = [event EXCEPT ![s].pc = "lock", ![s].of = mDev]
  /\ UNCHANGED <<priv, ctl, streamVars, sizeVars, objectVars, work, exitPending,
                 fileVars, events, source>>

(* deal_priv_message("hdmiinout") under mBufferLock.                        *)
hdmiinout(s) ==
  /\ \/ /\ event[s].pc = "lock" /\ mBufferLock[event[s].of] = "free"
        /\ mBufferLock' = [mBufferLock EXCEPT ![event[s].of] = "event"]
        /\ event' = [event EXCEPT ![s].pc = "locked"]
     \/ /\ event[s].pc = "locked"
        /\ mBufferLock' = [mBufferLock EXCEPT ![event[s].of] = "free"]
        /\ eventLoop(s)
  /\ UNCHANGED <<priv, ctl, streamVars, sizeVars, opened, mHinDevHandle, pipefd, mSidebandHandle, deleted, work, exitPending, fileVars, events, source>>
------------------------------------------------------------------------------
(* The source, and the rest of the process.                                 *)

changeMode(m) ==
  /\ "signal" \in Faults /\ m # mode /\ changes < MaxChanges
  /\ mode' = m /\ changes' = changes + 1
  /\ \/ m = 0 /\ post({"CTRL"})
     \/ m = 0 /\ post({"SIGNAL_LOST"})
     \/ m # 0 /\ post({"SOURCE_CHANGE"})
  /\ UNCHANGED <<priv, ctl, streamVars, sizeVars, objectVars, threadVars, fileVars>>

openOther ==
  /\ "other" \in Faults /\ free # {} /\ changes < MaxChanges
  /\ files' = [files EXCEPT ![Min(free)] = Other]
  /\ changes' = changes + 1
  /\ UNCHANGED <<priv, ctl, streamVars, sizeVars, objectVars, threadVars, quit, robbed,
                 events, mode>>
------------------------------------------------------------------------------
CallStep ==
  \/ get_format \/ get_formatFails \/ setOpened \/ requestExit \/ deleteDevice
  \/ initialize \/ stopThreads \/ closePipe \/ closePipeEnds
  \/ closeVideo \/ closed

NewCall == hin_dev_open \/ device_close \/ set_preview_info \/ open_stream \/ close_stream

EventStep(s) ==
  \/ pollQuit(s) \/ pollEvent(s) \/ dequeueEvent(s) \/ refuse(s) \/ accept(s)
  \/ handleSourceChange(s) \/ storeSize(s) \/ handleCtrl(s) \/ handleSignalLost(s)
  \/ hdmiinout(s)

World == (\E m \in Modes \cup {0} : changeMode(m)) \/ openOther

(* A null mDev ends the process.                                            *)
Alive == \A s \in Sessions : event[s].pc # "crashed"

Next ==
  /\ Alive
  /\ \/ CallStep \/ NewCall \/ World
     \/ \E s \in Sessions : workThread(s) \/ EventStep(s)

(* Every thread runs; nobody makes the client call or the source change.    *)
Fairness ==
  /\ WF_vars(CallStep) /\ SF_vars(stopThreads)
  /\ \A s \in Sessions : WF_vars(workThread(s)) /\ WF_vars(EventStep(s))

Spec == Init /\ [][Next]_vars /\ Fairness
------------------------------------------------------------------------------
TypeOK ==
  /\ mDev \in Sessions \cup {NULL} /\ isOpened \in BOOLEAN /\ isInitialized \in BOOLEAN
  /\ opened \in 0 .. Cardinality(Sessions)
  /\ out_buffer \in BOOLEAN /\ clones \in Nat
  /\ s_HinDevStream \in Modes \cup {0} /\ missed \in BOOLEAN
  /\ mBufferLock \in [Sessions -> {"free", "stop", "event"}]
  /\ mHinDevHandle \in [Sessions -> FdNumbers \cup {NoFd}]
  /\ pipefd \in [Sessions -> FdNumbers \cup {NoFd}]
  /\ mSidebandHandle \in [Sessions -> BOOLEAN]
  /\ deleted \subseteq Sessions /\ quit \subseteq Sessions /\ robbed \subseteq Sessions
  /\ work \in [Sessions -> {"none", "running", "gone"}]
  /\ \A s \in Sessions : event[s].of \in Sessions \cup {NULL} /\ events[s] \subseteq EventTypes
  /\ \A n \in FdNumbers : files[n] \in {Unused, Other} \cup {Video(s) : s \in Sessions}
                                         \cup {Pipe(s) : s \in Sessions}
  /\ mode \in Modes \cup {0} /\ changes \in 0 .. MaxChanges

(* isOpened is never set without a device: hinDevEventCallback() tests the   *)
(* one and dereferences the other later, in threads of this session and of  *)
(* earlier ones, so close_stream() has to clear isOpened first and          *)
(* hin_dev_open() to set it last.  It says nothing of a callback that was   *)
(* accepted before close_stream() cleared both, which meets a null mDev.    *)
(* device_close(), which clears the two in the other order, has joined the  *)
(* thread of its device.                                                    *)
OpenedHasDevice == isOpened => mDev # NULL \/ ctl = "deleted"

(* Files are numbers, and stop(), the pipe and the destructor each close    *)
(* some.  Nobody closes a file somebody else has opened meanwhile, but for  *)
(* ~HinDevImpl() after findDevice() has failed and closed the node itself.  *)
ClosesOwnFiles == [][robbed' # robbed => ctl = "delete" /\ ~isOpened]_vars

(* No handle the client was given stays open when the stream is closed, nor *)
(* the one it was cloned from, also when open_stream() failed before it     *)
(* succeeded.                                                               *)
NoHandleLeak ==
  mDev = NULL /\ ctl = "idle" => clones = 0 /\ \A s \in Sessions : ~mSidebandHandle[s]

(* A deleted HinDevImpl has no thread left that could call back into it.    *)
NoUseAfterDelete ==
  \A s \in deleted : work[s] \in {"none", "gone"} /\ event[s].pc \in {"none", "gone"}

Announced ==
  \/ mDev # NULL /\ "SOURCE_CHANGE" \in events[mDev]
  \/ \E s \in Sessions : event[s].type = "SOURCE_CHANGE"

(* The size the HAL reports is the one the source sends, or a change is     *)
(* still to be handled.  It is lost in two ways only: the event came        *)
(* between get_format() and isOpened, or an event thread that never saw the *)
(* quit of its own session took it and stored the size late.                *)
SizeIsCurrent ==
  isOpened /\ ctl = "idle" /\ mode # 0 /\ ~Announced /\ ~missed =>
    \A stream \in DOMAIN configurations : configurations[stream] = mode

(* Every entry point returns: stop() does not wait for the thread whose     *)
(* callback wants mBufferLock.  Deleting a device does wait, and for ever   *)
(* if its thread waits in VIDIOC_DQEVENT for an event that a thread of an   *)
(* earlier session has taken.                                               *)
JoinsBlocked == ctl = "delete" /\ event[mDev].pc = "blocked"
CallsReturn == ctl # "idle" ~> ctl = "idle" \/ JoinsBlocked \/ ~Alive

(* An event of the device is handled or refused while the device is there,  *)
(* whichever thread polls its number.                                       *)
EventsHandled ==
  \A s \in Sessions : mDev = s /\ events[s] # {} ~> events[s] = {} \/ mDev # s \/ ~Alive
==============================================================================
