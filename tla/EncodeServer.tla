----------------------------- MODULE EncodeServer -----------------------------
(***************************************************************************)
(* Recording: HinDevImpl's record commands, the ring of record buffers that *)
(* workThread() fills, and MppEncodeServer with its looper and its output   *)
(* thread.  Four threads meet here:                                         *)
(*   - the binder thread, in doRecordCmd() and stopRecord() (mBufferLock    *)
(*     keeps a second one out);                                             *)
(*   - WorkThread, which tests and uses gMppEnCodeServer without that lock; *)
(*   - the looper thread in WorkHandler::onMessageReceived();               *)
(*   - the output thread in MppEncodeServer::run().                         *)
(* The MPP encoder is external: it returns packets in the order of frames.  *)
(***************************************************************************)
EXTENDS Integers, Sequences

CONSTANTS
  R,          \* SIDEBAND_RECORD_BUFF_CNT, the record buffers
  Overlaps,   \* which of OverlapKinds may happen
  MaxPosts    \* model bound: no record command while the looper has so much to do

(***************************************************************************)
(* early_stop  recording is stopped before the looper has run what start()  *)
(*             posted, or before workThread() has seen the server;          *)
(* slow_frame  workThread is still handing over a frame when the encoder is *)
(*             deleted;                                                     *)
(* restart     status "1" arrives while recording is on;                    *)
(* init_fails  the encoder cannot be created or initialised;                *)
(* frame_lost  encode_put_frame fails, or the packet comes back empty.      *)
(***************************************************************************)
OverlapKinds == {"early_stop", "slow_frame", "restart", "init_fails", "frame_lost"}

ASSUME RAssumption == R \in Nat \ {0}
ASSUME OverlapsAssumption == Overlaps \subseteq OverlapKinds
ASSUME MaxPostsAssumption == MaxPosts \in Nat \ {0}

VARIABLES
  control,               \* where the record command stands
  server,                \* gMppEnCodeServer is not nullptr
  mState,                \* MppEncodeServer::mExecState
  mEncoder,              \* "null", or an RKMppEncApi: "fresh" (mMppMpi is null),
                         \* "unready" (its calls return errors), "live"
  mThreadEnabled, mThreadExited,
  mHasThread,            \* OutFrameThread has a thread that is not joined
  looper,                \* messages posted to WorkHandler
  out,                   \* output thread: pc, slot index of its packet, and
                         \* whether it waits in an encoder since replaced
  mRecordHandle,         \* the record buffers are allocated
  isCoding, mRecordCodingBuffIndex,
  coding,                \* frames in mEncoder: buffer, and index given along
  replaced,              \* frames in the encoder the output thread waits in
  work,                  \* WorkThread: pc, buffer it fills, index it gave
  mEncodeThreadRunning,  \* workThread() has called start()
  crashed                \* the thread that went through a null pointer, if any

serverVars == <<server, mState, mEncoder>>
flags == <<mThreadEnabled, mThreadExited, mHasThread>>
ring == <<mRecordHandle, isCoding, mRecordCodingBuffIndex>>
encoder == <<coding, replaced>>
workVars == <<work, mEncodeThreadRunning>>
vars == <<control, serverVars, flags, looper, out, ring, encoder, workVars,
          crashed>>

Slots == 0 .. (R - 1)
NoneCoding == [s \in Slots |-> FALSE]
IdleWork == [pc |-> "idle", buf |-> 0, index |-> 0]
NoThread == [pc |-> "none", index |-> 0, stale |-> FALSE]

Init ==
  /\ control = "idle"
  /\ server = FALSE /\ mState = "UNINITIALIZED" /\ mEncoder = "null"
  /\ mThreadEnabled = FALSE /\ mThreadExited = FALSE /\ mHasThread = FALSE
  /\ looper = <<>> /\ out = NoThread
  /\ mRecordHandle = FALSE /\ isCoding = NoneCoding /\ mRecordCodingBuffIndex = 0
  /\ coding = <<>> /\ replaced = <<>>
  /\ work = IdleWork /\ mEncodeThreadRunning = FALSE
  /\ crashed = "nobody"
------------------------------------------------------------------------------
(* doRecordCmd(), status "1".                                               *)

RecordOn ==
  /\ control = "idle"
  /\ ~server \/ "restart" \in Overlaps
  /\ Len(looper) < MaxPosts
  /\ mRecordHandle' = TRUE /\ isCoding' = NoneCoding /\ mRecordCodingBuffIndex' = 0
  /\ control' = "create"
  /\ UNCHANGED <<serverVars, flags, looper, out, encoder, workVars>>

(* MppEncodeServer(): no encoder yet, and a looper of its own is started.   *)
Construct == server' = TRUE /\ mEncoder' = "null" /\ looper' = <<>>

(* init_encodeserver() makes the server if there is none.                   *)
CreateServer ==
  /\ control = "create" /\ control' = "init"
  /\ IF server THEN UNCHANGED <<server, mEncoder, looper>> ELSE Construct
  /\ UNCHANGED <<mState, flags, out, ring, encoder, workVars>>

(* RKMppEncApi(): mMppCtx and mMppMpi are null until mpp_create().          *)
NewApi == mEncoder' = "fresh" /\ coding' = <<>>

(* MppEncodeServer::init(): a new encoder takes the place of the old one,   *)
(* in which the output thread may be waiting.                               *)
NewEncoder ==
  /\ control = "init" /\ control' = "createMpp"
  /\ mState' = "UNINITIALIZED" /\ NewApi
  /\ IF out.pc = "get" /\ ~out.stale
     THEN replaced' = coding /\ out' = [out EXCEPT !.stale = TRUE]
     ELSE UNCHANGED <<replaced, out>>
  /\ UNCHANGED <<server, flags, looper, ring, workVars>>

initOtherFails == "init_fails" \in Overlaps

(* RKMppEncApi::init() up to mpp_create(), which can fail and leave mMppMpi *)
(* null; until mpp_init() the encoder takes no frame.                       *)
CreateMpp ==
  /\ control = "createMpp"
  /\ \/ mEncoder' = "unready" /\ control' = "initOther"
     \/ initOtherFails /\ control' = "stop" /\ UNCHANGED mEncoder
  /\ UNCHANGED <<server, mState, flags, looper, out, ring, encoder, workVars>>

(* ~RKMppEncApi() and the error path of its init(): mpp_destroy() drops the  *)
(* frames that the encoder still has; mMppMpi stays set.                    *)
releaseEncoder == coding' = <<>>

(* mpp_init() and setupEncCfg() have succeeded, and so has init().          *)
initialised == mEncoder' = "live" /\ mState' = "STOPPED"

InitDone ==
  /\ control = "initOther"
  /\ initialised /\ control' = "start"
  /\ UNCHANGED <<server, flags, looper, out, ring, encoder, workVars>>

(* doRecordCmd() turns to stopRecord(); the RKMppEncApi object is there all *)
(* the same.                                                                *)
InitFails ==
  /\ control = "initOther" /\ initOtherFails
  /\ control' = "stop"
  /\ releaseEncoder
  /\ UNCHANGED <<serverVars, flags, looper, out, ring, replaced, workVars>>

(* MppEncodeServer::start(), which holds the lock of mExecState throughout. *)
Start ==
  IF mState = "UNINITIALIZED" THEN UNCHANGED <<mState, looper>>
  ELSE /\ looper' = looper \o <<"kWhatStart", "kWhatProcess">>
       /\ mState' = "RUNNING"

StartServer ==
  /\ control = "start" /\ control' = "idle"
  /\ Start
  /\ UNCHANGED <<server, mEncoder, flags, out, ring, encoder, workVars>>
------------------------------------------------------------------------------
(* stopRecord(); HinDevImpl::stop() makes the same calls.                   *)

(* workThread() has been through an iteration with the server, the looper   *)
(* has done what was posted, and no frame is being handed over.             *)
Settled == mEncodeThreadRunning /\ looper = <<>> /\ work.pc = "idle"

(* Mutant: the server is deleted without being stopped.                     *)
RecordOffUnstopped ==
  /\ control = "idle" /\ server
  /\ Settled \/ "early_stop" \in Overlaps
  /\ control' = "release"
  /\ UNCHANGED <<serverVars, flags, looper, out, ring, encoder, workVars>>

RecordOff ==
  /\ control = "idle" /\ server
  /\ Settled \/ "early_stop" \in Overlaps
  /\ control' = "stop"
  /\ UNCHANGED <<serverVars, flags, looper, out, ring, encoder, workVars>>

(* MppEncodeServer::stop().                                                 *)
ClearEnabled ==
  /\ control = "stop" /\ control' = "wait"
  /\ mThreadEnabled' = FALSE
  /\ UNCHANGED <<serverVars, mThreadExited, mHasThread, looper, out, ring,
                 encoder, workVars>>

(* The loop ends when mThreadExited is seen.                                *)
SeeExited ==
  /\ control = "wait" /\ mThreadExited
  /\ control' = "join"
  /\ UNCHANGED <<serverVars, flags, looper, out, ring, encoder, workVars>>

(* OutFrameThread::stop().                                                  *)
Join ==
  /\ control = "join" /\ control' = "state"
  /\ mHasThread => out.pc = "ended"
  /\ mHasThread' = FALSE
  /\ out' = IF mHasThread THEN NoThread ELSE out
  /\ UNCHANGED <<serverVars, mThreadEnabled, mThreadExited, looper, ring,
                 encoder, workVars>>

(* Only a RUNNING server is sent kWhatStop, and its answer awaited.         *)
LeaveRunning ==
  /\ control = "state"
  /\ IF mState = "RUNNING"
     THEN /\ mState' = "STOPPED" /\ looper' = Append(looper, "kWhatStop")
          /\ control' = "awaitStop"
     ELSE control' = "release" /\ UNCHANGED <<mState, looper>>
  /\ UNCHANGED <<server, mEncoder, flags, out, ring, encoder, workVars>>

(* ~MppEncodeServer() calls release().                                      *)
DeleteEncoder ==
  /\ control = "release" /\ control' = "awaitRelease"
  /\ work.pc = "idle" \/ "slow_frame" \in Overlaps
  /\ mEncoder' = "null" /\ releaseEncoder
  /\ looper' = Append(looper, "kWhatRelease")
  /\ UNCHANGED <<server, mState, flags, out, ring, replaced, workVars>>

(* ~MppEncodeServer() ends with its members and its looper.                 *)
ServerGone ==
  /\ server' = FALSE /\ mState' = "UNINITIALIZED"
  /\ mThreadEnabled' = FALSE /\ mThreadExited' = FALSE /\ mHasThread' = FALSE
  /\ looper' = <<>>

(* The object is gone and the record buffers are freed.                     *)
DeleteServer ==
  /\ control = "delete" /\ control' = "idle"
  /\ ServerGone
  /\ mRecordHandle' = FALSE /\ isCoding' = NoneCoding
  /\ UNCHANGED <<mEncoder, out, mRecordCodingBuffIndex, encoder, workVars>>
------------------------------------------------------------------------------
(* WorkHandler::onMessageReceived().                                        *)

Receive(what) == looper # <<>> /\ Head(looper) = what /\ looper' = Tail(looper)

(* The answer to a message whose sender waits for it.                       *)
Reply(next) == control' = next

(* OutFrameThread::start(): refused while there is a thread.                *)
StartThread ==
  /\ mHasThread' = TRUE
  /\ out' = IF mHasThread THEN out ELSE [NoThread EXCEPT !.pc = "run"]

HandleStart ==
  /\ Receive("kWhatStart")
  /\ mThreadExited' = FALSE /\ mThreadEnabled' = TRUE
  /\ StartThread
  /\ UNCHANGED <<control, serverVars, ring, encoder, workVars>>

HandleProcess ==
  /\ Receive("kWhatProcess")
  /\ mThreadEnabled' = TRUE
  /\ UNCHANGED <<control, serverVars, mThreadExited, mHasThread, out, ring,
                 encoder, workVars>>

(* The encoder is asked to stop, which leaves its frames where they are.    *)
onStop == UNCHANGED encoder

HandleStop ==
  /\ Receive("kWhatStop") /\ Reply("release")
  /\ onStop
  /\ UNCHANGED <<serverVars, flags, out, ring, workVars>>

HandleRelease ==
  /\ Receive("kWhatRelease") /\ Reply("delete")
  /\ mThreadEnabled' = FALSE
  /\ UNCHANGED <<serverVars, mThreadExited, mHasThread, out, ring, encoder,
                 workVars>>
------------------------------------------------------------------------------
(* MppEncodeServer::run() and processQueue().                               *)

(* The new thread finds its way to the runnable it was started for.         *)
dispatched == out.pc = "run"

Run ==
  /\ dispatched /\ out' = [out EXCEPT !.pc = "test"]
  /\ mThreadExited' = FALSE
  /\ UNCHANGED <<control, serverVars, mThreadEnabled, mHasThread, looper, ring,
                 encoder, workVars>>

TestEnabled ==
  /\ out.pc = "test"
  /\ out' = [out EXCEPT !.pc = IF mThreadEnabled THEN "call" ELSE "exit"]
  /\ UNCHANGED <<control, serverVars, flags, looper, ring, encoder, workVars>>

(* mMppMpi can be called through mEncoder.                                  *)
Callable == mEncoder \in {"unready", "live"}

CallEncoder ==
  /\ out.pc = "call" /\ Callable
  /\ out' = [out EXCEPT !.pc = "get"]
  /\ UNCHANGED <<control, serverVars, flags, looper, ring, encoder, workVars>>

(* getoutpacket() of the encoder that mEncoder pointed to when it was called.*)
Waited == IF out.stale THEN replaced ELSE coding

GetNothing ==
  /\ out.pc = "get" /\ Waited = <<>>
  /\ out' = [out EXCEPT !.pc = "test", !.stale = FALSE]
  /\ UNCHANGED <<control, serverVars, flags, looper, ring, encoder, workVars>>

GetPacket ==
  /\ out.pc = "get" /\ Waited # <<>>
  /\ IF out.stale THEN replaced' = <<>> /\ UNCHANGED coding
     ELSE coding' = Tail(coding) /\ UNCHANGED replaced
  /\ \/ out' = [pc |-> "notify", index |-> Head(Waited).index, stale |-> FALSE]
     \/ /\ "frame_lost" \in Overlaps
        /\ out' = [out EXCEPT !.pc = "test", !.stale = FALSE]
  /\ UNCHANGED <<control, serverVars, flags, looper, ring, workVars>>

(* The end of processQueue(): the callback is called with the index that    *)
(* the packet's frame was given along.                                      *)
Notifies == out.pc = "notify" /\ out' = [out EXCEPT !.pc = "test"]

(* Mutant: the buffer after the returned one is released.                   *)
NextReturned(i) == [isCoding EXCEPT ![(i + 1) % R] = FALSE]

(* OnInputAvailableCB().                                                    *)
Returned(i) == [isCoding EXCEPT ![i] = FALSE]

OnInputAvailable ==
  /\ Notifies
  /\ isCoding' = IF mRecordHandle THEN Returned(out.index) ELSE isCoding
  /\ UNCHANGED <<control, serverVars, flags, looper, mRecordHandle,
                 mRecordCodingBuffIndex, encoder, workVars>>

(* Mutant: run() ends without saying so.                                    *)
ExitUnsaid ==
  /\ out.pc = "exit" /\ out' = [out EXCEPT !.pc = "ended"]
  /\ UNCHANGED <<control, serverVars, flags, looper, ring, encoder, workVars>>

Exit ==
  /\ out.pc = "exit" /\ out' = [out EXCEPT !.pc = "ended"]
  /\ mThreadExited' = TRUE
  /\ UNCHANGED <<control, serverVars, mThreadEnabled, mHasThread, looper, ring,
                 encoder, workVars>>
------------------------------------------------------------------------------
(* workThread(), the recording part.                                        *)

(* Mutant: isCoding is not looked at.                                       *)
AlwaysFree == TRUE

(* The record buffer that is next in the ring may be filled.                *)
Free == ~isCoding[mRecordCodingBuffIndex]

FillRecordBuffer ==
  /\ work.pc = "idle" /\ server /\ mThreadEnabled /\ mRecordHandle
  /\ Free
  /\ work' = [work EXCEPT !.pc = "mark", !.buf = mRecordCodingBuffIndex]
  /\ UNCHANGED <<control, serverVars, flags, looper, out, ring, encoder,
                 mEncodeThreadRunning>>

NextIndex == IF mRecordCodingBuffIndex + 1 = R THEN 0 ELSE mRecordCodingBuffIndex + 1

(* gMppEnCodeServer is tested a second time.                                *)
SkipRecord ==
  /\ work.pc = "mark" /\ ~server
  /\ work' = IdleWork
  /\ UNCHANGED <<control, serverVars, flags, looper, out, ring, encoder,
                 mEncodeThreadRunning>>

MarkCoding ==
  /\ work.pc = "mark" /\ server /\ mEncoder # "null"
  /\ work' = [work EXCEPT !.pc = "send", !.index = mRecordCodingBuffIndex]
  /\ isCoding' = [isCoding EXCEPT ![mRecordCodingBuffIndex] = TRUE]
  /\ mRecordCodingBuffIndex' = NextIndex
  /\ UNCHANGED <<control, serverVars, flags, looper, out, mRecordHandle, encoder,
                 mEncodeThreadRunning>>

(* RKMppEncApi::sendFrame() can fail; the buffer stays marked.              *)
FrameLost ==
  /\ "frame_lost" \in Overlaps \/ mEncoder = "unready"
  /\ UNCHANGED coding

SendFrame ==
  /\ work.pc = "send" /\ Callable
  /\ \/ /\ mEncoder = "live"
        /\ coding' = Append(coding, [buf |-> work.buf, index |-> work.index])
     \/ FrameLost
  /\ work' = IdleWork
  /\ UNCHANGED <<control, serverVars, flags, looper, out, ring, replaced,
                 mEncodeThreadRunning>>

(* The first iteration that sees a server starts it, once and for all.      *)
StartAgain ==
  /\ work.pc = "idle" /\ server /\ ~mEncodeThreadRunning
  /\ Start
  /\ mEncodeThreadRunning' = TRUE
  /\ UNCHANGED <<control, server, mEncoder, flags, out, ring, encoder, work>>
------------------------------------------------------------------------------
(* A call through a null mEncoder or mMppMpi is the end of the process.     *)
Crash(thread) ==
  /\ crashed = "nobody" /\ crashed' = thread
  /\ UNCHANGED <<control, serverVars, flags, looper, out, ring, encoder, workVars>>

OutCrashes == out.pc = "call" /\ ~Callable /\ Crash("output")

WorkCrashes ==
  /\ \/ work.pc = "mark" /\ server /\ mEncoder = "null"
     \/ work.pc = "send" /\ ~Callable
  /\ Crash("work")

Alive == crashed = "nobody" /\ UNCHANGED crashed

StartStep == Alive /\ (CreateServer \/ NewEncoder \/ CreateMpp \/ InitDone \/ InitFails
                         \/ StartServer)
StopStep == Alive /\ (ClearEnabled \/ SeeExited \/ Join \/ LeaveRunning \/ DeleteEncoder
                        \/ DeleteServer)
LooperStep == Alive /\ (HandleStart \/ HandleProcess \/ HandleStop \/ HandleRelease)
OutStep == \/ Alive /\ (Run \/ TestEnabled \/ CallEncoder \/ GetNothing \/ GetPacket
                         \/ OnInputAvailable \/ Exit)
           \/ OutCrashes
HandOver == (Alive /\ (SkipRecord \/ MarkCoding \/ SendFrame)) \/ WorkCrashes
WorkStep == (Alive /\ (FillRecordBuffer \/ StartAgain)) \/ HandOver
Command == Alive /\ (RecordOn \/ RecordOff)

Next == Command \/ StartStep \/ StopStep \/ LooperStep \/ OutStep \/ WorkStep

(* Every thread that can take a step is scheduled; what the client asks     *)
(* for, and whether a frame arrives, is not.                                *)
Fairness ==
  /\ WF_vars(StartStep) /\ WF_vars(StopStep) /\ WF_vars(LooperStep)
  /\ WF_vars(OutStep) /\ WF_vars(HandOver)

Spec == Init /\ [][Next]_vars /\ Fairness
------------------------------------------------------------------------------
Frames == {coding[i] : i \in DOMAIN coding} \cup {replaced[i] : i \in DOMAIN replaced}
OutRuns == out.pc \in {"run", "test", "call", "get", "notify", "exit"}

(* The ring index stays within mRecordHandle, whichever threads moved it.   *)
TypeOK ==
  /\ control \in {"idle", "create", "init", "createMpp", "initOther", "start", "stop",
                  "wait", "join", "state", "awaitStop", "release", "awaitRelease",
                  "delete"}
  /\ server \in BOOLEAN /\ mState \in {"UNINITIALIZED", "STOPPED", "RUNNING"}
  /\ mEncoder \in {"null", "fresh", "unready", "live"}
  /\ mThreadEnabled \in BOOLEAN /\ mThreadExited \in BOOLEAN /\ mHasThread \in BOOLEAN
  /\ looper \in Seq({"kWhatStart", "kWhatProcess", "kWhatStop", "kWhatRelease"})
  /\ out \in [pc : {"none", "run", "test", "call", "get", "notify", "exit", "ended"},
              index : Slots, stale : BOOLEAN]
  /\ mRecordHandle \in BOOLEAN /\ isCoding \in [Slots -> BOOLEAN]
  /\ mRecordCodingBuffIndex \in Slots
  /\ coding \in Seq([buf : Slots, index : Slots])
  /\ replaced \in Seq([buf : Slots, index : Slots])
  /\ work \in [pc : {"idle", "mark", "send"}, buf : Slots, index : Slots]
  /\ mEncodeThreadRunning \in BOOLEAN
  /\ crashed \in {"nobody", "output", "work"}

(* stop() returns whatever the output thread is doing - not yet dispatched, *)
(* between its test and its call, in an encoder since replaced - and however *)
(* early the recording is stopped, once the looper has handled what start() *)
(* posted, if mThreadEnabled is still FALSE then (MppEncodeServer.cpp:187-  *)
(* 203).  It does wait for ever when no thread was created, and when a      *)
(* kWhatStart or kWhatProcess that is handled after the exchange() at 191   *)
(* sets mThreadEnabled again: neither is claimed.  Nor is anything for a    *)
(* process that has crashed.                                                *)
Told == mHasThread /\ looper = <<>> /\ ~mThreadEnabled /\ mEncodeThreadRunning
ToldStopReturns ==
  control = "wait" /\ Told ~> control # "wait" \/ crashed # "nobody"

(* The output thread runs no longer than the server it is a member of, and  *)
(* never calls an encoder that has been deleted: delete comes after the join *)
(* (MppEncodeServer.cpp:196, 250).  The one call it makes through a null    *)
(* pointer is during a restart, between new RKMppEncApi() (65) and          *)
(* mpp_create() (RKMppEncApi.cpp:88): then mEncoder is "fresh".             *)
OutlivedByServer ==
  /\ OutRuns => server
  /\ out.pc = "get" => out.stale \/ Callable
  /\ crashed = "output" => mEncoder = "fresh" /\ control = "createMpp"

(* workThread writes no record buffer the encoder still has to read, though *)
(* isCoding is cleared by another thread, by the index of the packet        *)
(* (HinDevImpl.cpp:1648-1652, 1172-1175).                                   *)
NotOverwritten ==
  work.pc \in {"mark", "send"} => \A f \in Frames : f.buf # work.buf

(* A record buffer marked as coding is on its way through the encoder: with *)
(* workThread, in the encoder, or in the packet processQueue() is about to  *)
(* report (HinDevImpl.cpp:1666-1675, MppEncodeServer.cpp:362-379).  A mark  *)
(* that nobody will take off again would cost a slot of the ring, until the *)
(* record command that resets it; only the dying encoder may drop frames.   *)
NoSlotLost ==
  control \notin {"awaitRelease", "delete"} =>
    \A s \in Slots :
      isCoding[s] => \/ work.pc = "send" /\ work.index = s
                     \/ \E i \in DOMAIN coding : coding[i].index = s
                     \/ out.pc = "notify" /\ out.index = s

(* A record buffer that was sent to coding comes back, so recording does    *)
(* not run out of buffers.                                                  *)
SlotComesBack == \A s \in Slots : isCoding[s] ~> ~isCoding[s]
==============================================================================
