-------------------------- MODULE EncodeServerProofs --------------------------
(* What holds of the recording for every number of record buffers, and      *)
(* which overlaps of its four threads each property survives.               *)
EXTENDS EncodeServer, TLAPS, SequenceTheorems

Messages == {"kWhatStart", "kWhatProcess", "kWhatStop", "kWhatRelease"}
Frame == [buf : Slots, index : Slots]
OutStates == [pc : {"none", "run", "test", "call", "get", "notify", "exit", "ended"},
              index : Slots, stale : BOOLEAN]
WorkStates == [pc : {"idle", "mark", "send"}, buf : Slots, index : Slots]

(* TypeOK with its larger sets named.                                       *)
Typed ==
  /\ control \in {"idle", "create", "init", "createMpp", "initOther", "start", "stop",
                  "wait", "join", "state", "awaitStop", "release", "awaitRelease",
                  "delete"}
  /\ server \in BOOLEAN /\ mState \in {"UNINITIALIZED", "STOPPED", "RUNNING"}
  /\ mEncoder \in {"null", "fresh", "unready", "live"}
  /\ mThreadEnabled \in BOOLEAN /\ mThreadExited \in BOOLEAN /\ mHasThread \in BOOLEAN
  /\ looper \in Seq(Messages) /\ out \in OutStates
  /\ mRecordHandle \in BOOLEAN /\ isCoding \in [Slots -> BOOLEAN]
  /\ mRecordCodingBuffIndex \in Slots
  /\ coding \in Seq(Frame) /\ replaced \in Seq(Frame)
  /\ work \in WorkStates /\ mEncodeThreadRunning \in BOOLEAN
  /\ crashed \in {"nobody", "output", "work"}

LEMMA TypedIsTypeOK == Typed <=> TypeOK
BY DEF Typed, TypeOK, Messages, Frame, OutStates, WorkStates

LEMMA InitType == Init => Typed
<1> SUFFICES ASSUME Init PROVE Typed
  OBVIOUS
<1>1. 0 \in Slots
  BY RAssumption DEF Slots
<1>2. \A S : <<>> \in Seq(S)
  BY EmptySeq
<1>3. IdleWork \in WorkStates /\ NoThread \in OutStates
  BY <1>1 DEF IdleWork, WorkStates, NoThread, OutStates
<1> QED BY <1>1, <1>2, <1>3 DEF Init, Typed, NoneCoding

(* start() posts two messages or none.                                      *)
LEMMA StartType ==
  ASSUME Typed, Start
  PROVE  looper' \in Seq(Messages) /\ mState' \in {"UNINITIALIZED", "STOPPED", "RUNNING"}
<1>1. <<"kWhatStart", "kWhatProcess">> \in Seq(Messages)
  BY DEF Messages
<1>2. looper \in Seq(Messages)
  BY DEF Typed
<1>3. looper \o <<"kWhatStart", "kWhatProcess">> \in Seq(Messages)
  BY <1>1, <1>2, ConcatProperties
<1> QED BY <1>2, <1>3 DEF Start, Typed

LEMMA ReceiveType ==
  ASSUME Typed, NEW what, Receive(what)
  PROVE  looper' \in Seq(Messages)
BY HeadTailProperties DEF Typed, Receive

LEMMA PostType ==
  ASSUME Typed, NEW what \in Messages, looper' = Append(looper, what)
  PROVE  looper' \in Seq(Messages)
BY AppendProperties DEF Typed

(* What the threads assign to their states.                                 *)
LEMMA OutFields ==
  ASSUME NEW o \in OutStates,
         NEW pc \in {"none", "run", "test", "call", "get", "notify", "exit", "ended"}
  PROVE  /\ o.index \in Slots
         /\ [o EXCEPT !.pc = pc] \in OutStates
         /\ [o EXCEPT !.stale = TRUE] \in OutStates
         /\ [o EXCEPT !.pc = pc, !.stale = FALSE] \in OutStates
BY DEF OutStates

LEMMA WorkFields ==
  ASSUME NEW w \in WorkStates, NEW pc \in {"idle", "mark", "send"}, NEW s \in Slots
  PROVE  /\ [buf |-> w.buf, index |-> w.index] \in Frame
         /\ [w EXCEPT !.pc = pc, !.buf = s] \in WorkStates
         /\ [w EXCEPT !.pc = pc, !.index = s] \in WorkStates
BY DEF WorkStates, Frame

(* Typed by what may disturb it: a step proves the parts it touches.        *)
ControlTyped ==
  control \in {"idle", "create", "init", "createMpp", "initOther", "start", "stop", "wait",
               "join", "state", "awaitStop", "release", "awaitRelease", "delete"}
ServerTyped ==
  /\ server \in BOOLEAN /\ mState \in {"UNINITIALIZED", "STOPPED", "RUNNING"}
  /\ mEncoder \in {"null", "fresh", "unready", "live"}
FlagsTyped == mThreadEnabled \in BOOLEAN /\ mThreadExited \in BOOLEAN /\ mHasThread \in BOOLEAN
RingTyped ==
  /\ mRecordHandle \in BOOLEAN /\ isCoding \in [Slots -> BOOLEAN]
  /\ mRecordCodingBuffIndex \in Slots
EncoderTyped == coding \in Seq(Frame) /\ replaced \in Seq(Frame)
WorkTyped == work \in WorkStates /\ mEncodeThreadRunning \in BOOLEAN
CrashTyped == crashed \in {"nobody", "output", "work"}

LEMMA TypedParts ==
  Typed <=> /\ ControlTyped /\ ServerTyped /\ FlagsTyped /\ looper \in Seq(Messages)
            /\ out \in OutStates /\ RingTyped /\ EncoderTyped /\ WorkTyped /\ CrashTyped
BY DEF Typed, ControlTyped, ServerTyped, FlagsTyped, RingTyped, EncoderTyped, WorkTyped,
       CrashTyped

LEMMA TypedPartsNext ==
  Typed' <=> /\ ControlTyped' /\ ServerTyped' /\ FlagsTyped' /\ looper' \in Seq(Messages)
             /\ out' \in OutStates /\ RingTyped' /\ EncoderTyped' /\ WorkTyped' /\ CrashTyped'
BY DEF Typed, ControlTyped, ServerTyped, FlagsTyped, RingTyped, EncoderTyped, WorkTyped,
       CrashTyped

LEMMA PartsStay ==
  /\ ControlTyped /\ UNCHANGED control => ControlTyped'
  /\ ServerTyped /\ UNCHANGED serverVars => ServerTyped'
  /\ FlagsTyped /\ UNCHANGED flags => FlagsTyped'
  /\ looper \in Seq(Messages) /\ UNCHANGED looper => looper' \in Seq(Messages)
  /\ out \in OutStates /\ UNCHANGED out => out' \in OutStates
  /\ RingTyped /\ UNCHANGED ring => RingTyped'
  /\ EncoderTyped /\ UNCHANGED encoder => EncoderTyped'
  /\ WorkTyped /\ UNCHANGED workVars => WorkTyped'
BY DEF ControlTyped, ServerTyped, serverVars, FlagsTyped, flags, RingTyped, ring,
       EncoderTyped, encoder, WorkTyped, workVars

(* A step of a running process, or the one that ends it.                    *)
LEMMA NextCrash ==
  ASSUME [Next]_vars
  PROVE  \/ crashed' = crashed
         \/ OutCrashes /\ crashed' = "output"
         \/ WorkCrashes /\ crashed' = "work"
<1>1. CASE Command \/ StartStep \/ StopStep \/ LooperStep
  BY <1>1 DEF Command, StartStep, StopStep, LooperStep, Alive
<1>2. CASE OutStep
  BY <1>2 DEF OutStep, Alive, OutCrashes, Crash
<1>3. CASE WorkStep
  BY <1>3 DEF WorkStep, HandOver, Alive, WorkCrashes, Crash
<1>4. CASE UNCHANGED vars
  BY <1>4 DEF vars
<1> QED BY <1>1, <1>2, <1>3, <1>4 DEF Next

LEMMA CrashType == CrashTyped /\ [Next]_vars => CrashTyped'
BY NextCrash DEF CrashTyped

LEMMA NextType == Typed /\ [Next]_vars => Typed'
<1> SUFFICES ASSUME Typed, [Next]_vars,
                    ControlTyped, ServerTyped, FlagsTyped, looper \in Seq(Messages),
                    out \in OutStates, RingTyped, EncoderTyped, WorkTyped, CrashTyped
             PROVE  /\ ControlTyped' /\ ServerTyped' /\ FlagsTyped' /\ looper' \in Seq(Messages)
                    /\ out' \in OutStates /\ RingTyped' /\ EncoderTyped' /\ WorkTyped'
  BY CrashType, TypedParts, TypedPartsNext
<1>0. /\ R \in Nat /\ R > 0 /\ Slots = 0 .. (R - 1) /\ 0 \in Slots
      /\ \A S : <<>> \in Seq(S)
      /\ NoneCoding \in [Slots -> BOOLEAN]
      /\ IdleWork \in WorkStates /\ NoThread \in OutStates
  BY RAssumption, EmptySeq DEF Slots, NoneCoding, IdleWork, WorkStates, NoThread, OutStates
<1>w. work \in WorkStates /\ mRecordCodingBuffIndex \in Slots /\ isCoding \in [Slots -> BOOLEAN]
  BY DEF WorkTyped, RingTyped
<1>1. CASE RecordOn
  <2>1. ControlTyped' /\ RingTyped'
    BY <1>0, <1>1 DEF RecordOn, ControlTyped, RingTyped
  <2> QED BY <1>1, <2>1, PartsStay DEF RecordOn
<1>2. CASE CreateServer
  <2>1. ControlTyped' /\ ServerTyped'
    BY <1>2 DEF CreateServer, Construct, ControlTyped, ServerTyped
  <2>2. looper' \in Seq(Messages)
    BY <1>0, <1>2 DEF CreateServer, Construct
  <2> QED BY <1>2, <2>1, <2>2, PartsStay DEF CreateServer
<1>3. CASE NewEncoder
  <2>1. out' \in OutStates
    BY <1>3, OutFields DEF NewEncoder
  <2>2. ControlTyped' /\ ServerTyped'
    BY <1>3 DEF NewEncoder, NewApi, ControlTyped, ServerTyped
  <2>3. EncoderTyped'
    BY <1>0, <1>3 DEF NewEncoder, NewApi, EncoderTyped
  <2> QED BY <1>3, <2>1, <2>2, <2>3, PartsStay DEF NewEncoder
<1>29. CASE CreateMpp
  <2>1. ControlTyped' /\ ServerTyped'
    BY <1>29 DEF CreateMpp, ControlTyped, ServerTyped
  <2> QED BY <1>29, <2>1, PartsStay DEF CreateMpp
<1>4. CASE InitDone
  <2>1. ControlTyped' /\ ServerTyped'
    BY <1>4 DEF InitDone, initialised, ControlTyped, ServerTyped
  <2> QED BY <1>4, <2>1, PartsStay DEF InitDone
<1>5. CASE InitFails
  <2>1. ControlTyped' /\ EncoderTyped'
    BY <1>0, <1>5 DEF InitFails, releaseEncoder, ControlTyped, EncoderTyped
  <2> QED BY <1>5, <2>1, PartsStay DEF InitFails
<1>6. CASE StartServer
  <2>1. looper' \in Seq(Messages) /\ ServerTyped'
    BY <1>6, StartType DEF StartServer, ServerTyped
  <2>2. ControlTyped'
    BY <1>6 DEF StartServer, ControlTyped
  <2> QED BY <1>6, <2>1, <2>2, PartsStay DEF StartServer
<1>7. CASE RecordOff
  <2>1. ControlTyped'
    BY <1>7 DEF RecordOff, ControlTyped
  <2> QED BY <1>7, <2>1, PartsStay DEF RecordOff
<1>8. CASE ClearEnabled
  <2>1. ControlTyped' /\ FlagsTyped'
    BY <1>8 DEF ClearEnabled, ControlTyped, FlagsTyped
  <2> QED BY <1>8, <2>1, PartsStay DEF ClearEnabled
<1>9. CASE SeeExited
  <2>1. ControlTyped'
    BY <1>9 DEF SeeExited, ControlTyped
  <2> QED BY <1>9, <2>1, PartsStay DEF SeeExited
<1>10. CASE Join
  <2>1. ControlTyped' /\ FlagsTyped'
    BY <1>10 DEF Join, ControlTyped, FlagsTyped
  <2>2. out' \in OutStates
    BY <1>0, <1>10 DEF Join
  <2> QED BY <1>10, <2>1, <2>2, PartsStay DEF Join
<1>11. CASE LeaveRunning
  <2>1. ControlTyped' /\ ServerTyped'
    BY <1>11 DEF LeaveRunning, ControlTyped, ServerTyped
  <2>2. looper' \in Seq(Messages)
    BY <1>11, PostType DEF LeaveRunning, Messages
  <2> QED BY <1>11, <2>1, <2>2, PartsStay DEF LeaveRunning
<1>12. CASE DeleteEncoder
  <2>1. ControlTyped' /\ ServerTyped'
    BY <1>12 DEF DeleteEncoder, ControlTyped, ServerTyped
  <2>2. EncoderTyped'
    BY <1>0, <1>12 DEF DeleteEncoder, releaseEncoder, EncoderTyped
  <2>3. looper' \in Seq(Messages)
    BY <1>12, PostType DEF DeleteEncoder, Messages
  <2> QED BY <1>12, <2>1, <2>2, <2>3, PartsStay DEF DeleteEncoder
<1>13. CASE DeleteServer
  <2>1. ControlTyped' /\ ServerTyped' /\ FlagsTyped'
    BY <1>13 DEF DeleteServer, ServerGone, ControlTyped, ServerTyped, FlagsTyped
  <2>2. looper' \in Seq(Messages) /\ RingTyped'
    BY <1>0, <1>13 DEF DeleteServer, ServerGone, RingTyped
  <2> QED BY <1>13, <2>1, <2>2, PartsStay DEF DeleteServer
<1>14. CASE HandleStart
  <2>1. out' \in OutStates
    BY <1>0, <1>14, OutFields DEF HandleStart, StartThread
  <2>2. FlagsTyped'
    BY <1>14 DEF HandleStart, StartThread, FlagsTyped
  <2>3. looper' \in Seq(Messages)
    BY <1>14, ReceiveType DEF HandleStart
  <2> QED BY <1>14, <2>1, <2>2, <2>3, PartsStay DEF HandleStart
<1>15. CASE HandleProcess
  <2>1. looper' \in Seq(Messages)
    BY <1>15, ReceiveType DEF HandleProcess
  <2>2. FlagsTyped'
    BY <1>15 DEF HandleProcess, FlagsTyped
  <2> QED BY <1>15, <2>1, <2>2, PartsStay DEF HandleProcess
<1>16. CASE HandleStop
  <2>1. looper' \in Seq(Messages)
    BY <1>16, ReceiveType DEF HandleStop
  <2>2. ControlTyped'
    BY <1>16 DEF HandleStop, Reply, ControlTyped
  <2> QED BY <1>16, <2>1, <2>2, PartsStay DEF HandleStop, onStop
<1>17. CASE HandleRelease
  <2>1. looper' \in Seq(Messages)
    BY <1>17, ReceiveType DEF HandleRelease
  <2>2. ControlTyped' /\ FlagsTyped'
    BY <1>17 DEF HandleRelease, Reply, ControlTyped, FlagsTyped
  <2> QED BY <1>17, <2>1, <2>2, PartsStay DEF HandleRelease
<1>18. CASE Run
  <2>1. out' \in OutStates
    BY <1>18, OutFields DEF Run
  <2>2. FlagsTyped'
    BY <1>18 DEF Run, FlagsTyped
  <2> QED BY <1>18, <2>1, <2>2, PartsStay DEF Run
<1>19. CASE TestEnabled
  <2>1. PICK pc \in {"call", "exit"} : out' = [out EXCEPT !.pc = pc]
    BY <1>19 DEF TestEnabled
  <2>2. out' \in OutStates
    BY <2>1, OutFields
  <2> QED BY <1>19, <2>2, PartsStay DEF TestEnabled
<1>30. CASE CallEncoder
  <2>1. out' \in OutStates
    BY <1>30, OutFields DEF CallEncoder
  <2> QED BY <1>30, <2>1, PartsStay DEF CallEncoder
<1>20. CASE GetNothing
  <2>1. out' \in OutStates
    BY <1>20, OutFields DEF GetNothing
  <2> QED BY <1>20, <2>1, PartsStay DEF GetNothing
<1>21. CASE GetPacket
  <2>1. Waited \in Seq(Frame) /\ Waited # <<>>
    BY <1>21 DEF GetPacket, Waited, EncoderTyped
  <2>2. Head(Waited) \in Frame /\ Tail(Waited) \in Seq(Frame)
    BY <2>1, HeadTailProperties
  <2>3. EncoderTyped'
    <3>1. CASE out.stale
      BY <1>0, <1>21, <3>1 DEF GetPacket, EncoderTyped
    <3>2. CASE ~out.stale
      <4>1. coding' = Tail(coding) /\ replaced' = replaced /\ Waited = coding
        BY <1>21, <3>2 DEF GetPacket, Waited
      <4> QED BY <2>2, <4>1 DEF EncoderTyped
    <3> QED BY <3>1, <3>2
  <2>4. out' \in OutStates
    <3>1. Head(Waited).index \in Slots
      BY <2>2 DEF Frame
    <3>2. CASE out' = [pc |-> "notify", index |-> Head(Waited).index, stale |-> FALSE]
      BY <3>1, <3>2 DEF OutStates
    <3>3. CASE out' = [out EXCEPT !.pc = "test", !.stale = FALSE]
      BY <3>3, OutFields
    <3> QED BY <1>21, <3>2, <3>3 DEF GetPacket
  <2> QED BY <1>21, <2>3, <2>4, PartsStay DEF GetPacket
<1>22. CASE OnInputAvailable
  <2>1. out' \in OutStates
    BY <1>22, OutFields DEF OnInputAvailable, Notifies
  <2>2. RingTyped'
    BY <1>22 DEF OnInputAvailable, Returned, RingTyped
  <2> QED BY <1>22, <2>1, <2>2, PartsStay DEF OnInputAvailable
<1>23. CASE Exit
  <2>1. out' \in OutStates
    BY <1>23, OutFields DEF Exit
  <2>2. FlagsTyped'
    BY <1>23 DEF Exit, FlagsTyped
  <2> QED BY <1>23, <2>1, <2>2, PartsStay DEF Exit
<1>24. CASE FillRecordBuffer
  <2>1. WorkTyped'
    BY <1>w, <1>24, WorkFields DEF FillRecordBuffer, WorkTyped
  <2> QED BY <1>24, <2>1, PartsStay DEF FillRecordBuffer
<1>25. CASE MarkCoding
  <2>1. WorkTyped'
    BY <1>w, <1>25, WorkFields DEF MarkCoding, WorkTyped
  <2>2. NextIndex \in Slots
    BY <1>0, <1>w DEF NextIndex
  <2>3. RingTyped'
    BY <1>w, <1>25, <2>2 DEF MarkCoding, RingTyped
  <2> QED BY <1>25, <2>1, <2>3, PartsStay DEF MarkCoding
<1>26. CASE SendFrame
  <2>1. [buf |-> work.buf, index |-> work.index] \in Frame
    BY <1>0, <1>w, WorkFields
  <2>2. EncoderTyped'
    <3>1. CASE coding' = Append(coding, [buf |-> work.buf, index |-> work.index])
      BY <1>26, <2>1, <3>1, AppendProperties DEF SendFrame, EncoderTyped
    <3>2. CASE UNCHANGED coding
      BY <1>26, <3>2 DEF SendFrame, EncoderTyped
    <3> QED BY <1>26, <3>1, <3>2 DEF SendFrame, FrameLost
  <2>3. WorkTyped'
    BY <1>0, <1>26 DEF SendFrame, WorkTyped
  <2> QED BY <1>26, <2>2, <2>3, PartsStay DEF SendFrame
<1>27. CASE StartAgain
  <2>1. looper' \in Seq(Messages) /\ ServerTyped'
    BY <1>27, StartType DEF StartAgain, ServerTyped
  <2>2. WorkTyped'
    BY <1>27 DEF StartAgain, WorkTyped
  <2> QED BY <1>27, <2>1, <2>2, PartsStay DEF StartAgain
<1>31. CASE SkipRecord
  <2>1. WorkTyped'
    BY <1>0, <1>31 DEF SkipRecord, WorkTyped
  <2> QED BY <1>31, <2>1, PartsStay DEF SkipRecord
<1>32. CASE OutCrashes \/ WorkCrashes
  BY <1>32, PartsStay DEF OutCrashes, WorkCrashes, Crash
<1>28. CASE UNCHANGED vars
  BY <1>28, PartsStay DEF vars
<1> QED
  BY <1>1, <1>2, <1>3, <1>4, <1>5, <1>6, <1>7, <1>8, <1>9, <1>10, <1>11, <1>12,
     <1>13, <1>14, <1>15, <1>16, <1>17, <1>18, <1>19, <1>20, <1>21, <1>22, <1>23,
     <1>24, <1>25, <1>26, <1>27, <1>28, <1>29, <1>30, <1>31, <1>32
     DEF Next, Command, StartStep, StopStep, LooperStep, OutStep, WorkStep, HandOver

(* The ring index, the slot of each packet and the looper's messages keep   *)
(* their types, whichever threads overlap.                                  *)
THEOREM TypeCorrect == Spec => []TypeOK
BY InitType, NextType, TypedIsTypeOK, PTL DEF Spec
------------------------------------------------------------------------------
(* The output thread and the object it belongs to.                          *)

Recording == control \in {"idle", "create", "init", "createMpp", "initOther", "start"}
Stopping == control \in {"stop", "wait", "join", "state"}
Deleting == control \in {"awaitStop", "release", "awaitRelease", "delete"}

(* A server that nothing has been asked of.                                 *)
Untouched == ~mHasThread /\ looper = <<>> /\ mState = "UNINITIALIZED"

(* One whose encoder could not be initialised.                              *)
Failed == control \in {"stop", "wait"} /\ Untouched

(* While recording is on, or being stopped, the output thread has not been  *)
(* told to end, and its encoder is there.                                   *)
ThreadInv ==
  /\ mHasThread <=> out.pc # "none"
  /\ ~server => Untouched /\ control \in {"idle", "create"}
  /\ server /\ mEncoder = "null" =>
       \/ control = "init" /\ Untouched
       \/ control \in {"awaitRelease", "delete"}
  /\ server /\ mEncoder = "fresh" => control = "createMpp" \/ Failed
  /\ server /\ mEncoder = "unready" => control = "initOther" \/ Failed
  /\ out.pc = "get" => out.stale \/ Callable
  /\ Recording \/ control = "stop" =>
       ~mThreadExited /\ out.pc \notin {"exit", "ended"} /\ (mHasThread => mThreadEnabled)
  /\ Recording => \A i \in 1 .. Len(looper) : looper[i] \in {"kWhatStart", "kWhatProcess"}

(* The stop protocol: what the looper still has to do at each of its        *)
(* points, and what it has seen of the thread.                              *)
StopInv ==
  /\ Stopping \/ Deleting => mEncodeThreadRunning \/ mState = "UNINITIALIZED"
  /\ Stopping \/ control \in {"release", "delete"} => looper = <<>>
  /\ control = "awaitStop" => looper = <<"kWhatStop">>
  /\ control = "awaitRelease" => looper = <<"kWhatRelease">>
  /\ control \in {"wait", "join"} /\ mThreadExited => out.pc = "ended"
  /\ control = "wait" => ~mThreadEnabled
  /\ control = "join" => mThreadExited
  /\ control = "state" \/ Deleting => ~mHasThread

(* Where a start can fail, the server is a new one, unless recording was    *)
(* already on.                                                              *)
StartInv ==
  /\ control = "initOther" => mEncoder = "unready" /\ mState = "UNINITIALIZED"
  /\ control = "createMpp" => mEncoder = "fresh" /\ mState = "UNINITIALIZED"
  /\ "restart" \notin Overlaps /\ control \in {"create", "init", "createMpp", "initOther"} =>
       Untouched /\ (control = "create" => ~server)

(* The output thread meets a null pointer nowhere else.                     *)
CrashInv == crashed = "output" => mEncoder = "fresh" /\ control = "createMpp"

ServerInv == ThreadInv /\ StopInv /\ StartInv

LEMMA InitServer == Init => ServerInv
BY DEF Init, ServerInv, ThreadInv, StopInv, StartInv, Untouched, Failed, Recording,
       Stopping, Deleting, NoThread

(* What start() posts is what the looper may hold while recording is on.    *)
LEMMA StartPosts ==
  ASSUME Typed, Start,
         \A i \in 1 .. Len(looper) : looper[i] \in {"kWhatStart", "kWhatProcess"}
  PROVE  \A i \in 1 .. Len(looper') : looper'[i] \in {"kWhatStart", "kWhatProcess"}
<1>1. CASE mState = "UNINITIALIZED"
  BY <1>1 DEF Start
<1>2. CASE mState # "UNINITIALIZED"
  <2> DEFINE two == <<"kWhatStart", "kWhatProcess">>
  <2>1. looper' = looper \o two
    BY <1>2 DEF Start
  <2>2. looper \in Seq(Messages) /\ two \in Seq(Messages) /\ Len(two) = 2
        /\ Len(looper) \in Nat
    BY LenProperties DEF Typed, Messages
  <2>3. /\ Len(looper') = Len(looper) + 2
        /\ \A i \in 1 .. Len(looper) + 2 :
             looper'[i] = IF i <= Len(looper) THEN looper[i] ELSE two[i - Len(looper)]
    BY <2>1, <2>2, ConcatProperties
  <2>4. \A i \in 1 .. 2 : two[i] \in {"kWhatStart", "kWhatProcess"}
    OBVIOUS
  <2> HIDE DEF two
  <2> QED BY <2>2, <2>3, <2>4
<1> QED BY <1>1, <1>2

LEMMA ReceiveKeeps ==
  ASSUME Typed, NEW what, Receive(what)
  PROVE  /\ looper # <<>> /\ looper[1] = what /\ Len(looper) > 0
         /\ \A i \in 1 .. Len(looper') : \E j \in 1 .. Len(looper) : looper'[i] = looper[j]
<1>1. looper \in Seq(Messages) /\ looper # <<>> /\ looper' = Tail(looper)
  BY DEF Typed, Receive
<1>2. Len(looper) \in Nat \ {0} /\ looper[1] = what
  BY <1>1, EmptySeq DEF Receive
<1>3. /\ Len(looper') = Len(looper) - 1
      /\ \A i \in 1 .. Len(looper') : looper'[i] = looper[i + 1]
  BY <1>1, HeadTailProperties
<1> QED BY <1>1, <1>2, <1>3

(* getoutpacket() either ends in a notification of the packet's index or,   *)
(* when the packet is empty, in another round.                              *)
LEMMA GetResult ==
  ASSUME out \in OutStates, GetPacket
  PROVE  /\ out.pc = "get" /\ ~out'.stale
         /\ \/ out'.pc = "notify" /\ out'.index = Head(Waited).index
            \/ out'.pc = "test"
<1>1. CASE out' = [pc |-> "notify", index |-> Head(Waited).index, stale |-> FALSE]
  BY <1>1 DEF GetPacket
<1>2. CASE out' = [out EXCEPT !.pc = "test", !.stale = FALSE]
  BY <1>2 DEF GetPacket, OutStates
<1> QED BY <1>1, <1>2 DEF GetPacket

LEMMA NextServer ==
  ASSUME "early_stop" \notin Overlaps, ~ ({"restart", "init_fails"} \subseteq Overlaps)
  PROVE  Typed /\ ServerInv /\ [Next]_vars => ServerInv'
<1> SUFFICES ASSUME Typed, ServerInv, [Next]_vars PROVE ServerInv'
  OBVIOUS
<1> USE DEF ServerInv, ThreadInv, StopInv, StartInv, Untouched, Failed, Recording, Stopping,
            Deleting, Callable
<1>0. Len(<<>>) = 0 /\ out \in OutStates /\ server \in BOOLEAN
      /\ mThreadEnabled \in BOOLEAN /\ mThreadExited \in BOOLEAN /\ mHasThread \in BOOLEAN
  BY EmptySeq DEF Typed
<1>1. CASE RecordOn
  BY <1>0, <1>1 DEF RecordOn, serverVars, flags, workVars
<1>2. CASE CreateServer
  BY <1>0, <1>2 DEF CreateServer, Construct, flags, workVars
<1>3. CASE NewEncoder
  BY <1>0, <1>3 DEF NewEncoder, NewApi, Callable, flags, workVars, OutStates
<1>27. CASE CreateMpp
  BY <1>0, <1>27 DEF CreateMpp, initOtherFails, Callable, flags, workVars
<1>4. CASE InitDone
  BY <1>0, <1>4 DEF InitDone, initialised, Callable, flags, workVars
<1>5. CASE InitFails
  BY <1>0, <1>5 DEF InitFails, initOtherFails, serverVars, flags, workVars
<1>6. CASE StartServer
  BY <1>0, <1>6, StartPosts DEF StartServer, flags, workVars
<1>7. CASE RecordOff
  BY <1>0, <1>7 DEF RecordOff, Settled, serverVars, flags, workVars
<1>8. CASE ClearEnabled
  BY <1>0, <1>8 DEF ClearEnabled, serverVars, workVars
<1>9. CASE SeeExited
  BY <1>0, <1>9 DEF SeeExited, serverVars, flags, workVars
<1>10. CASE Join
  BY <1>0, <1>10 DEF Join, NoThread, serverVars, workVars
<1>11. CASE LeaveRunning
  BY <1>0, <1>11 DEF LeaveRunning, flags, workVars
<1>12. CASE DeleteEncoder
  BY <1>0, <1>12 DEF DeleteEncoder, flags, workVars
<1>13. CASE DeleteServer
  BY <1>0, <1>13 DEF DeleteServer, ServerGone, workVars
<1>14. CASE HandleStart
  <2>1. looper # <<>> /\ looper[1] = "kWhatStart" /\ Len(looper) > 0
    BY <1>14, ReceiveKeeps DEF HandleStart
  <2> QED BY <1>0, <1>14, <2>1, ReceiveKeeps
     DEF HandleStart, StartThread, NoThread, serverVars, workVars
<1>15. CASE HandleProcess
  BY <1>0, <1>15, ReceiveKeeps DEF HandleProcess, serverVars, workVars
<1>16. CASE HandleStop
  <2>1. looper # <<>> /\ looper[1] = "kWhatStop" /\ Len(looper) > 0 /\ looper' = Tail(looper)
    BY <1>16, ReceiveKeeps DEF HandleStop, Receive
  <2>2. control = "awaitStop"
    <3>1. ~Recording
      BY <2>1
    <3>2. control \notin {"awaitRelease", "release", "delete"} /\ ~Stopping
      BY <2>1
    <3> QED BY <3>1, <3>2 DEF Typed
  <2>3. looper' = <<>>
    BY <2>1, <2>2
  <2> QED BY <1>0, <1>16, <2>2, <2>3 DEF HandleStop, Reply, serverVars, flags, workVars
<1>17. CASE HandleRelease
  <2>1. looper # <<>> /\ looper[1] = "kWhatRelease" /\ Len(looper) > 0 /\ looper' = Tail(looper)
    BY <1>17, ReceiveKeeps DEF HandleRelease, Receive
  <2>2. control = "awaitRelease"
    <3>1. ~Recording
      BY <2>1
    <3>2. control \notin {"awaitStop", "release", "delete"} /\ ~Stopping
      BY <2>1
    <3> QED BY <3>1, <3>2 DEF Typed
  <2>3. looper' = <<>>
    BY <2>1, <2>2
  <2> QED BY <1>0, <1>17, <2>2, <2>3 DEF HandleRelease, Reply, serverVars, workVars
<1>18. CASE Run
  BY <1>0, <1>18 DEF Run, dispatched, OutStates, serverVars, workVars
<1>19. CASE TestEnabled
  BY <1>0, <1>19 DEF TestEnabled, OutStates, serverVars, flags, workVars
<1>28. CASE CallEncoder
  <2>1. out.pc = "call" /\ out'.pc = "get" /\ Callable'
    BY <1>0, <1>28 DEF CallEncoder, Callable, OutStates, serverVars
  <2> QED BY <2>1, <1>28 DEF CallEncoder, serverVars, flags, workVars
<1>20. CASE GetNothing
  <2>1. out.pc = "get" /\ out'.pc = "test"
    BY <1>0, <1>20 DEF GetNothing, OutStates
  <2> QED BY <2>1, <1>20 DEF GetNothing, serverVars, flags, workVars
<1>21. CASE GetPacket
  <2>1. out.pc = "get" /\ out'.pc \in {"notify", "test"}
    BY <1>0, <1>21, GetResult
  <2> QED BY <2>1, <1>21 DEF GetPacket, serverVars, flags, workVars
<1>22. CASE OnInputAvailable
  BY <1>0, <1>22 DEF OnInputAvailable, Notifies, OutStates, serverVars, flags, workVars
<1>23. CASE Exit
  BY <1>0, <1>23 DEF Exit, OutStates, serverVars, workVars
<1>24. CASE FillRecordBuffer \/ SkipRecord \/ MarkCoding \/ SendFrame
  <2>1. UNCHANGED <<control, serverVars, flags, looper, out>>
        /\ (UNCHANGED mEncodeThreadRunning)
    BY <1>24 DEF FillRecordBuffer, SkipRecord, MarkCoding, SendFrame
  <2> QED BY <1>0, <2>1 DEF serverVars, flags
<1>29. CASE OutCrashes \/ WorkCrashes
  <2>1. UNCHANGED <<control, serverVars, flags, looper, out, workVars>>
    BY <1>29 DEF OutCrashes, WorkCrashes, Crash
  <2> QED BY <1>0, <2>1 DEF serverVars, flags, workVars
<1>25. CASE StartAgain
  BY <1>0, <1>25, StartPosts DEF StartAgain, Start, flags
<1>26. CASE UNCHANGED vars
  BY <1>26 DEF vars, serverVars, flags, workVars
<1> QED
  BY <1>1, <1>2, <1>3, <1>4, <1>5, <1>6, <1>7, <1>8, <1>9, <1>10, <1>11, <1>12,
     <1>13, <1>14, <1>15, <1>16, <1>17, <1>18, <1>19, <1>20, <1>21, <1>22, <1>23,
     <1>24, <1>25, <1>26, <1>27, <1>28, <1>29
     DEF Next, Command, StartStep, StopStep, LooperStep, OutStep, WorkStep, HandOver

LEMMA NextCrashInv ==
  Typed /\ ServerInv /\ CrashInv /\ [Next]_vars => CrashInv'
<1> SUFFICES ASSUME Typed, ServerInv, CrashInv, [Next]_vars, crashed' = "output" PROVE CrashInv'
  BY DEF CrashInv
<1>1. CASE crashed = "output"
  <2>1. UNCHANGED vars
    BY <1>1 DEF Next, Command, StartStep, StopStep, LooperStep, OutStep, WorkStep, HandOver,
               Alive, OutCrashes, WorkCrashes, Crash
  <2> QED BY <1>1, <2>1 DEF vars, serverVars, CrashInv
<1>2. CASE crashed # "output"
  <2>1. OutCrashes
    BY <1>2, NextCrash
  <2>2. out.pc = "call" /\ ~Callable /\ UNCHANGED <<control, serverVars>>
    BY <2>1 DEF OutCrashes, Crash
  <2>3. mHasThread /\ server
    BY <2>2 DEF ServerInv, ThreadInv, Untouched
  <2>4. mEncoder \in {"null", "fresh"}
    BY <2>2 DEF Callable, Typed
  <2>5. control \notin {"awaitRelease", "delete"}
    BY <2>3 DEF ServerInv, StopInv, Deleting
  <2>6. mEncoder = "fresh" /\ control = "createMpp"
    BY <2>3, <2>4, <2>5 DEF ServerInv, ThreadInv, Untouched, Failed
  <2> QED BY <2>2, <2>6 DEF CrashInv, serverVars
<1> QED BY <1>1, <1>2

(* The output thread runs no longer than its server, and calls no deleted   *)
(* encoder; if it meets a null pointer, then between new RKMppEncApi() and  *)
(* mpp_create() of a restart.  Frames handed over late, lost frames and a   *)
(* failing initialisation, or a second start in its stead, change nothing   *)
(* in that.  No recording is stopped before it has started.                 *)
THEOREM ThreadOutlived ==
  ASSUME "early_stop" \notin Overlaps, ~ ({"restart", "init_fails"} \subseteq Overlaps)
  PROVE  Spec => []OutlivedByServer
<1>1. Typed /\ ServerInv /\ [Next]_vars => ServerInv'
  BY NextServer
<1>2. Init => CrashInv
  BY DEF Init, CrashInv
<1>3. Typed /\ ServerInv /\ CrashInv => OutlivedByServer
  <2> SUFFICES ASSUME Typed, ServerInv, CrashInv PROVE OutlivedByServer
    OBVIOUS
  <2>1. OutRuns => mHasThread
    BY DEF ServerInv, ThreadInv, OutRuns
  <2>2. mHasThread => server
    BY DEF ServerInv, ThreadInv, Untouched
  <2>3. out.pc = "get" => out.stale \/ Callable
    BY DEF ServerInv, ThreadInv
  <2> QED BY <2>1, <2>2, <2>3 DEF CrashInv, OutlivedByServer
<1> QED BY <1>1, <1>2, <1>3, InitServer, InitType, NextType, NextCrashInv, PTL DEF Spec
------------------------------------------------------------------------------
(* The record buffers, when no two threads overlap but those the protocol   *)
(* lets overlap.  A buffer is being filled, or on its way to the encoder, in *)
(* it, or on its way back: one of these at a time.                          *)
Coded(b) == \E i \in 1 .. Len(coding) : coding[i].buf = b

CodingInv ==
  /\ replaced = <<>> /\ ~out.stale
  /\ \A i \in 1 .. Len(coding) : coding[i].buf = coding[i].index /\ isCoding[coding[i].buf]
  /\ \A i, j \in 1 .. Len(coding) : coding[i].buf = coding[j].buf => i = j

BufferInv ==
  /\ out.pc = "notify" => isCoding[out.index] /\ ~Coded(out.index)
  /\ work.pc = "mark" => work.buf = mRecordCodingBuffIndex /\ ~isCoding[work.buf]
  /\ work.pc = "send" =>
       /\ work.buf = work.index /\ isCoding[work.buf] /\ ~Coded(work.buf)
       /\ out.pc = "notify" => out.index # work.buf

(* Nothing is recorded before the server has been started and after it has  *)
(* been told to stop.                                                       *)
QuietInv ==
  /\ (\/ ~server \/ mEncoder # "live"
      \/ control \in {"create", "init", "createMpp", "initOther", "awaitRelease", "delete"}) =>
       work.pc = "idle" /\ coding = <<>> /\ ~mThreadEnabled
  /\ control \in {"wait", "join", "state"} \/ Deleting => ~mThreadEnabled

RecordInv == CodingInv /\ BufferInv /\ QuietInv

LEMMA InitRecord == Init => RecordInv
BY EmptySeq DEF Init, RecordInv, CodingInv, BufferInv, QuietInv, Deleting, IdleWork, NoThread

LEMMA CodingProperties ==
  ASSUME Typed
  PROVE  /\ Len(coding) \in Nat /\ coding \in Seq(Frame) /\ (Len(coding) = 0 => coding = <<>>)
         /\ \A i \in 1 .. Len(coding) : coding[i] \in Frame
         /\ Len(<<>>) = 0
BY LenProperties, ElementOfSeq, EmptySeq DEF Typed

(* The encoder drops what it has.                                           *)
LEMMA EmptyCoding ==
  ASSUME coding' = <<>>, replaced' = <<>>, ~out'.stale
  PROVE  CodingInv' /\ \A b : ~Coded(b)'
BY EmptySeq DEF CodingInv, Coded

LEMMA CodingKept ==
  ASSUME CodingInv, UNCHANGED <<coding, replaced>>, ~out'.stale,
         \A i \in 1 .. Len(coding) : isCoding'[coding[i].buf]
  PROVE  CodingInv' /\ \A b : Coded(b)' <=> Coded(b)
BY DEF CodingInv, Coded

LEMMA SendKeeps ==
  ASSUME Typed, RecordInv, SendFrame
  PROVE  RecordInv'
<1>0. /\ work.pc = "send" /\ work' = IdleWork /\ work' = [pc |-> "idle", buf |-> 0, index |-> 0]
      /\ UNCHANGED <<control, serverVars, flags, out, ring, replaced>>
      /\ work \in WorkStates /\ work.buf = work.index /\ ~Coded(work.buf) /\ isCoding[work.buf]
  BY DEF SendFrame, IdleWork, Typed, RecordInv, BufferInv
<1>1. QuietInv'
  BY <1>0 DEF RecordInv, QuietInv, Deleting, serverVars, flags
<1>2. CASE coding' = coding
  <2>1. \A i \in 1 .. Len(coding) : isCoding'[coding[i].buf]
    BY <1>0 DEF ring, RecordInv, CodingInv
  <2>2. CodingInv' /\ \A b : Coded(b)' <=> Coded(b)
    BY <1>0, <1>2, <2>1, CodingKept DEF RecordInv, CodingInv
  <2>3. BufferInv'
    BY <1>0, <2>2 DEF RecordInv, BufferInv, ring
  <2> QED BY <1>1, <2>2, <2>3 DEF RecordInv
<1>3. CASE coding' = Append(coding, [buf |-> work.buf, index |-> work.index])
  <2> DEFINE f == [buf |-> work.buf, index |-> work.index]
             n == Len(coding)
  <2>1. f \in Frame /\ f.buf = work.buf /\ f.index = work.index
    BY <1>0 DEF WorkStates, Frame
  <2>2. n \in Nat /\ Len(coding') = n + 1 /\ coding'[n + 1] = f
        /\ \A i \in 1 .. n : coding'[i] = coding[i]
    BY <1>3, <2>1, CodingProperties, AppendProperties
  <2> HIDE DEF f
  <2>3. \A i \in 1 .. n + 1 : i \in 1 .. n \/ i = n + 1
    BY <2>2
  <2>4. \A i \in 1 .. n : coding[i].buf # work.buf
    BY <1>0 DEF Coded
  <2>5. CodingInv'
    BY <1>0, <2>1, <2>2, <2>3, <2>4 DEF RecordInv, CodingInv, ring
  <2>6. \A b : Coded(b)' => Coded(b) \/ b = work.buf
    BY <2>1, <2>2, <2>3 DEF Coded
  <2>7. out.pc = "notify" => out.index # work.buf
    BY <1>0 DEF RecordInv, BufferInv
  <2>8. BufferInv'
    BY <1>0, <2>6, <2>7 DEF RecordInv, BufferInv, ring
  <2> QED BY <1>1, <2>5, <2>8 DEF RecordInv
<1> QED BY <1>2, <1>3 DEF SendFrame, FrameLost

LEMMA GetKeeps ==
  ASSUME Typed, RecordInv, GetPacket
  PROVE  RecordInv'
<1> DEFINE n == Len(coding)
<1>0. /\ coding # <<>> /\ coding' = Tail(coding) /\ replaced' = replaced
      /\ out.pc = "get" /\ replaced = <<>> /\ ~out.stale /\ out \in OutStates
      /\ UNCHANGED <<control, serverVars, flags, ring, workVars>>
  BY DEF GetPacket, Waited, RecordInv, CodingInv, Typed
<1>1. /\ n \in Nat /\ n > 0 /\ Len(coding') = n - 1
      /\ \A i \in 1 .. n - 1 : coding'[i] = coding[i + 1]
  BY <1>0, CodingProperties, HeadTailProperties
<1>2. Head(coding) = coding[1] /\ coding[1] \in Frame
  BY <1>0, <1>1, CodingProperties
<1>3. \A i \in 1 .. n - 1 : i + 1 \in 1 .. n
  BY <1>1
<1>4. /\ \/ out'.pc = "notify" /\ out'.index = coding[1].index
         \/ out'.pc = "test"
      /\ ~out'.stale
  BY <1>0, <1>2, GetResult DEF Waited
<1> DEFINE Distinct == \A i, j \in 1 .. n : coding[i].buf = coding[j].buf => i = j
           Marked == \A i \in 1 .. n : coding[i].buf = coding[i].index /\ isCoding[coding[i].buf]
<1>a. Distinct /\ Marked
  BY DEF RecordInv, CodingInv
<1>5. CodingInv'
  <2>1. ASSUME NEW i \in 1 .. n - 1, NEW j \in 1 .. n - 1, coding'[i].buf = coding'[j].buf
        PROVE  i = j
    <3>1. coding[i + 1].buf = coding[j + 1].buf
      BY <1>1, <2>1
    <3>2. i + 1 = j + 1
      BY <1>3, <1>a, <3>1
    <3> QED BY <1>1, <3>2
  <2>2. ASSUME NEW i \in 1 .. n - 1
        PROVE  coding'[i].buf = coding'[i].index /\ isCoding'[coding'[i].buf]
    BY <1>0, <1>1, <1>3, <1>a DEF ring
  <2> QED BY <1>0, <1>1, <1>4, <2>1, <2>2 DEF CodingInv
<1>6. \A b : Coded(b)' => Coded(b)
  BY <1>1, <1>3 DEF Coded
<1>7. PICK b \in Slots : b = coding[1].buf
  BY <1>2 DEF Frame
<1>8. 1 \in 1 .. n /\ coding[1].index = b /\ isCoding[b]
  BY <1>1, <1>7, <1>a
<1>9. ~Coded(b)'
  <2> SUFFICES ASSUME NEW i \in 1 .. n - 1, coding[i + 1].buf = b PROVE FALSE
    BY <1>1 DEF Coded
  <2>1. i + 1 # 1 /\ i + 1 \in 1 .. n
    BY <1>1
  <2> QED BY <1>7, <1>8, <1>a, <2>1
<1>10. BufferInv'
  <2>1. work.pc = "send" => work.buf # b
    BY <1>7, <1>8 DEF RecordInv, BufferInv, Coded
  <2>2. out'.pc = "notify" => out'.index = b /\ isCoding'[b]
    BY <1>0, <1>4, <1>8 DEF ring
  <2>3. UNCHANGED <<work, isCoding, mRecordCodingBuffIndex>>
    BY <1>0 DEF ring, workVars
  <2> QED BY <1>4, <1>6, <1>9, <2>1, <2>2, <2>3 DEF RecordInv, BufferInv
<1>11. QuietInv'
  <2>1. coding = <<>> => FALSE
    BY <1>0
  <2> QED BY <1>0, <2>1 DEF RecordInv, QuietInv, Deleting, serverVars, flags, workVars
<1> QED BY <1>5, <1>10, <1>11 DEF RecordInv

(* Steps that touch neither the buffers nor who works on them.              *)
LEMMA BuffersKept ==
  ASSUME RecordInv, UNCHANGED <<isCoding, mRecordCodingBuffIndex, encoder, work>>,
         ~out'.stale, out'.pc = "notify" => out.pc = "notify" /\ out'.index = out.index
  PROVE  CodingInv' /\ BufferInv'
<1>1. CodingInv' /\ \A b : Coded(b)' <=> Coded(b)
  BY CodingKept DEF RecordInv, CodingInv, encoder
<1> QED BY <1>1 DEF RecordInv, BufferInv

LEMMA NextRecord ==
  ASSUME Overlaps \subseteq {"init_fails", "frame_lost"}
  PROVE  Typed /\ ServerInv /\ RecordInv /\ [Next]_vars => RecordInv'
<1> SUFFICES ASSUME Typed, ServerInv, RecordInv, [Next]_vars PROVE RecordInv'
  OBVIOUS
<1>0. /\ {"early_stop", "slow_frame", "restart"} \cap Overlaps = {}
      /\ out \in OutStates /\ work \in WorkStates /\ ~out.stale /\ replaced = <<>>
      /\ isCoding \in [Slots -> BOOLEAN] /\ mThreadEnabled \in BOOLEAN
  BY DEF Typed, RecordInv, CodingInv
<1>1. CASE RecordOn
  <2>1. /\ ~server /\ control = "idle" /\ control' = "create" /\ isCoding' = NoneCoding
        /\ UNCHANGED <<server, flags, out, encoder, workVars>>
    BY <1>0, <1>1 DEF RecordOn, serverVars
  <2>2. /\ coding = <<>> /\ work.pc = "idle" /\ ~mThreadEnabled /\ out.pc = "none"
    BY <2>1 DEF RecordInv, QuietInv, ServerInv, ThreadInv, Untouched
  <2>3. CodingInv' /\ \A b : ~Coded(b)'
    BY <1>0, <2>1, <2>2, EmptyCoding DEF encoder
  <2> QED BY <2>1, <2>2, <2>3
     DEF RecordInv, BufferInv, QuietInv, Deleting, flags, workVars, encoder
<1>2. CASE CreateServer
  <2>1. CodingInv' /\ BufferInv'
    BY <1>0, <1>2, BuffersKept DEF CreateServer, ring, encoder, workVars
  <2>2. QuietInv'
    BY <1>2 DEF CreateServer, Construct, RecordInv, QuietInv, Deleting, flags, encoder, workVars
  <2> QED BY <2>1, <2>2 DEF RecordInv
<1>3. CASE NewEncoder
  <2>1. ~mHasThread /\ out.pc = "none" /\ work.pc = "idle" /\ ~mThreadEnabled
    BY <1>0, <1>3
       DEF NewEncoder, ServerInv, ThreadInv, StartInv, Untouched, RecordInv, QuietInv
  <2>2. coding' = <<>> /\ replaced' = <<>> /\ out' = out /\ UNCHANGED <<flags, ring, workVars>>
        /\ control' = "createMpp"
    BY <1>0, <1>3, <2>1 DEF NewEncoder, NewApi
  <2>3. CodingInv' /\ \A b : ~Coded(b)'
    BY <1>0, <2>2, EmptyCoding
  <2> QED BY <2>1, <2>2, <2>3 DEF RecordInv, BufferInv, QuietInv, Deleting, flags, workVars
<1>4. CASE CreateMpp \/ InitDone \/ StartServer \/ StartAgain
  <2>1. CodingInv' /\ BufferInv'
    BY <1>0, <1>4, BuffersKept
       DEF CreateMpp, InitDone, StartServer, StartAgain, ring, encoder, workVars
  <2>2. QuietInv'
    BY <1>4 DEF CreateMpp, InitDone, StartServer, StartAgain, Start, RecordInv, QuietInv, Deleting,
                flags, encoder, workVars, initialised, Typed
  <2> QED BY <2>1, <2>2 DEF RecordInv
<1>5. CASE InitFails
  <2>1. coding' = <<>> /\ UNCHANGED <<serverVars, flags, out, ring, replaced, workVars>>
        /\ control = "initOther" /\ control' = "stop"
    BY <1>5 DEF InitFails, releaseEncoder
  <2>2. out.pc = "none" /\ work.pc = "idle" /\ ~mThreadEnabled
    BY <1>0, <2>1 DEF ServerInv, ThreadInv, StartInv, Untouched, RecordInv, QuietInv
  <2>3. CodingInv' /\ \A b : ~Coded(b)'
    BY <1>0, <2>1, EmptyCoding
  <2> QED BY <2>1, <2>2, <2>3 DEF RecordInv, BufferInv, QuietInv, Deleting, flags, workVars
<1>6. CASE RecordOff \/ SeeExited \/ LeaveRunning \/ ClearEnabled
  <2>1. CodingInv' /\ BufferInv'
    BY <1>0, <1>6, BuffersKept
       DEF RecordOff, SeeExited, LeaveRunning, ClearEnabled, ring, encoder, workVars
  <2>2. QuietInv'
    BY <1>6 DEF RecordOff, SeeExited, LeaveRunning, ClearEnabled, RecordInv, QuietInv,
                Deleting, serverVars, flags, encoder, workVars
  <2> QED BY <2>1, <2>2 DEF RecordInv
<1>7. CASE Join
  <2>1. CodingInv' /\ BufferInv'
    BY <1>0, <1>7, BuffersKept DEF Join, NoThread, ring, encoder, workVars
  <2>2. QuietInv'
    BY <1>7 DEF Join, RecordInv, QuietInv, Deleting, serverVars, encoder, workVars
  <2> QED BY <2>1, <2>2 DEF RecordInv
<1>8. CASE DeleteEncoder
  <2>1. coding' = <<>> /\ UNCHANGED <<server, flags, out, ring, replaced, workVars>>
        /\ control = "release" /\ control' = "awaitRelease" /\ work.pc = "idle"
    BY <1>0, <1>8 DEF DeleteEncoder, releaseEncoder
  <2>2. out.pc = "none" /\ ~mThreadEnabled
    BY <2>1 DEF ServerInv, ThreadInv, StopInv, Deleting, RecordInv, QuietInv
  <2>3. CodingInv' /\ \A b : ~Coded(b)'
    BY <1>0, <2>1, EmptyCoding
  <2> QED BY <2>1, <2>2, <2>3 DEF RecordInv, BufferInv, QuietInv, Deleting, flags, workVars
<1>9. CASE DeleteServer
  <2>1. /\ control = "delete" /\ control' = "idle" /\ ~mThreadEnabled'
        /\ UNCHANGED <<out, encoder, workVars>>
    BY <1>9 DEF DeleteServer, ServerGone
  <2>2. coding = <<>> /\ work.pc = "idle" /\ out.pc = "none"
    BY <2>1 DEF RecordInv, QuietInv, ServerInv, ThreadInv, StopInv, Deleting
  <2>3. CodingInv' /\ \A b : ~Coded(b)'
    BY <1>0, <2>1, <2>2, EmptyCoding DEF encoder
  <2> QED BY <2>1, <2>2, <2>3 DEF RecordInv, BufferInv, QuietInv, Deleting, workVars, encoder
<1>10. CASE HandleStart \/ HandleProcess
  <2>1. /\ UNCHANGED <<control, serverVars, ring, encoder, workVars>>
        /\ looper # <<>> /\ looper[1] \in {"kWhatStart", "kWhatProcess"} /\ Len(looper) > 0
    BY <1>10, ReceiveKeeps DEF HandleStart, HandleProcess
  <2>2. out' = out \/ (out'.pc = "run" /\ ~out'.stale)
    <3>1. CASE HandleStart
      BY <3>1 DEF HandleStart, StartThread, NoThread
    <3>2. CASE HandleProcess
      BY <3>2 DEF HandleProcess
    <3> QED BY <1>10, <3>1, <3>2
  <2>3. CodingInv' /\ BufferInv'
    BY <1>0, <2>1, <2>2, BuffersKept DEF ring, workVars
  <2>4. server /\ mEncoder = "live" /\ control \notin {"create", "init", "createMpp", "initOther", "awaitRelease", "delete",
                                 "wait", "join", "state"} /\ ~Deleting
    BY <1>0, <2>1
       DEF ServerInv, ThreadInv, StopInv, StartInv, Untouched, Failed, Stopping, Deleting, Typed
  <2> QED BY <2>1, <2>3, <2>4 DEF RecordInv, QuietInv, Deleting, serverVars
<1>11. CASE HandleStop \/ HandleRelease
  <2>1. CodingInv' /\ BufferInv'
    BY <1>0, <1>11, BuffersKept
       DEF HandleStop, HandleRelease, onStop, ring, workVars
  <2>2. looper # <<>> /\ looper[1] \in {"kWhatStop", "kWhatRelease"} /\ Len(looper) > 0
        /\ (looper[1] = "kWhatStop" => HandleStop)
    BY <1>11, ReceiveKeeps DEF HandleStop, HandleRelease
  <2>3. control \in {"awaitStop", "awaitRelease"}
    BY <2>2 DEF ServerInv, ThreadInv, StopInv, Typed, Recording, Stopping
  <2>4. looper[1] = "kWhatStop" => control = "awaitStop"
    BY <2>3 DEF ServerInv, StopInv
  <2>5. looper[1] = "kWhatRelease" => HandleRelease /\ control = "awaitRelease"
    BY <1>11, <2>3, ReceiveKeeps DEF HandleStop, HandleRelease, ServerInv, StopInv
  <2>6. QuietInv'
    BY <2>2, <2>4, <2>5
       DEF HandleStop, HandleRelease, onStop, Reply, RecordInv, QuietInv, Deleting,
           serverVars, flags, encoder, workVars
  <2> QED BY <2>1, <2>6 DEF RecordInv
<1>12. CASE Run \/ TestEnabled \/ CallEncoder \/ GetNothing \/ Exit
  <2>1. /\ UNCHANGED <<control, serverVars, mThreadEnabled, ring, encoder, workVars>>
        /\ ~out'.stale /\ out'.pc # "notify"
    BY <1>0, <1>12 DEF Run, TestEnabled, CallEncoder, GetNothing, Exit, flags, OutStates
  <2>2. CodingInv' /\ BufferInv'
    BY <2>1, BuffersKept DEF ring, workVars
  <2> QED BY <2>1, <2>2 DEF RecordInv, QuietInv, Deleting, serverVars, encoder, workVars
<1>13. CASE GetPacket
  BY <1>13, GetKeeps
<1>14. CASE OnInputAvailable
  <2>1. /\ out.pc = "notify" /\ out'.pc = "test" /\ ~out'.stale
        /\ UNCHANGED <<control, serverVars, flags, mRecordCodingBuffIndex, encoder, workVars>>
    BY <1>0, <1>14 DEF OnInputAvailable, Notifies, OutStates
  <2>2. \A b \in Slots : b # out.index => isCoding'[b] = isCoding[b]
    BY <1>0, <1>14 DEF OnInputAvailable, Returned
  <2>3. \A b : isCoding'[b] => isCoding[b]
    BY <1>0, <1>14 DEF OnInputAvailable, Returned
  <2>4. ASSUME NEW i \in 1 .. Len(coding) PROVE isCoding'[coding[i].buf]
    <3>1. coding[i].buf # out.index /\ coding[i].buf \in Slots
      BY <2>1, CodingProperties DEF RecordInv, BufferInv, Coded, Frame
    <3> QED BY <2>2, <3>1 DEF RecordInv, CodingInv
  <2>5. CodingInv' /\ \A b : Coded(b)' <=> Coded(b)
    BY <2>1, <2>4, CodingKept DEF RecordInv, encoder
  <2>6. BufferInv'
    BY <1>0, <2>1, <2>2, <2>3, <2>5 DEF RecordInv, BufferInv, workVars, WorkStates
  <2> QED BY <2>1, <2>5, <2>6
     DEF RecordInv, QuietInv, Deleting, serverVars, flags, encoder, workVars
<1>15. CASE FillRecordBuffer
  <2>1. /\ work'.pc = "mark" /\ work'.buf = mRecordCodingBuffIndex /\ server /\ mThreadEnabled
        /\ ~isCoding[mRecordCodingBuffIndex]
        /\ UNCHANGED <<control, serverVars, flags, out, ring, encoder>>
    BY <1>0, <1>15 DEF FillRecordBuffer, Free, WorkStates
  <2>2. CodingInv' /\ \A b : Coded(b)' <=> Coded(b)
    BY <1>0, <2>1, CodingKept DEF RecordInv, CodingInv, ring, encoder
  <2> QED BY <2>1, <2>2 DEF RecordInv, BufferInv, QuietInv, Deleting, ring, serverVars, flags
<1>16. CASE MarkCoding
  <2> DEFINE b == mRecordCodingBuffIndex
  <2>1. /\ work.pc = "mark" /\ work'.pc = "send" /\ work'.buf = b /\ work'.index = b
        /\ isCoding' = [isCoding EXCEPT ![b] = TRUE] /\ b \in Slots /\ ~isCoding[b]
        /\ UNCHANGED <<control, serverVars, flags, out, encoder>>
    BY <1>0, <1>16 DEF MarkCoding, WorkStates, RecordInv, BufferInv, Typed
  <2>2. \A c : isCoding[c] => isCoding'[c]
    BY <1>0, <2>1
  <2>3. CodingInv' /\ \A c : Coded(c)' <=> Coded(c)
    BY <1>0, <2>1, <2>2, CodingKept DEF RecordInv, CodingInv, encoder
  <2>4. ~Coded(b) /\ (out.pc = "notify" => out.index # b)
    BY <2>1 DEF RecordInv, CodingInv, BufferInv, Coded
  <2>5. BufferInv'
    BY <1>0, <2>1, <2>2, <2>3, <2>4 DEF RecordInv, BufferInv
  <2>6. QuietInv'
    BY <2>1 DEF RecordInv, QuietInv, Deleting, serverVars, flags
  <2> QED BY <2>3, <2>5, <2>6 DEF RecordInv
<1>17. CASE SendFrame
  BY <1>17, SendKeeps
<1>19. CASE SkipRecord
  BY <1>19 DEF SkipRecord, RecordInv, QuietInv
<1>18. CASE UNCHANGED vars \/ OutCrashes \/ WorkCrashes
  <2>0. UNCHANGED <<control, serverVars, flags, out, ring, encoder, workVars>>
    BY <1>18 DEF vars, OutCrashes, WorkCrashes, Crash
  <2>1. CodingInv' /\ BufferInv'
    BY <1>0, <2>0, BuffersKept DEF ring, workVars
  <2> QED BY <2>0, <2>1
     DEF RecordInv, QuietInv, Deleting, serverVars, flags, encoder, workVars
<1> QED
  BY <1>1, <1>2, <1>3, <1>4, <1>5, <1>6, <1>7, <1>8, <1>9, <1>10, <1>11, <1>12,
     <1>13, <1>14, <1>15, <1>16, <1>17, <1>18, <1>19
     DEF Next, Command, StartStep, StopStep, LooperStep, OutStep, WorkStep, HandOver

(* For any number of record buffers, and whether or not initialisations     *)
(* fail and frames or packets are lost: workThread() never fills a buffer   *)
(* that the encoder still has to read.                                      *)
THEOREM NeverOverwritten ==
  ASSUME Overlaps \subseteq {"init_fails", "frame_lost"}
  PROVE  Spec => []NotOverwritten
<1>1. Typed /\ ServerInv /\ [Next]_vars => ServerInv'
  BY NextServer
<1>2. Typed /\ ServerInv /\ RecordInv /\ [Next]_vars => RecordInv'
  BY NextRecord
<1>3. Typed /\ RecordInv => NotOverwritten
  <2> SUFFICES ASSUME Typed, RecordInv, work.pc \in {"mark", "send"}, NEW f \in Frames
               PROVE  f.buf # work.buf
    BY DEF NotOverwritten
  <2>1. ~Coded(work.buf)
    BY DEF RecordInv, BufferInv, CodingInv, Coded
  <2>2. PICK i \in 1 .. Len(coding) : f = coding[i]
    BY CodingProperties, LenProperties, EmptySeq DEF Frames, RecordInv, CodingInv
  <2> QED BY <2>1, <2>2 DEF Coded
<1> QED BY <1>1, <1>2, <1>3, InitServer, InitRecord, InitType, NextType, PTL DEF Spec
------------------------------------------------------------------------------
(* The marks of the record buffers, when no frame is lost.                  *)
OnItsWay(s) ==
  \/ work.pc = "send" /\ work.index = s
  \/ \E i \in 1 .. Len(coding) : coding[i].index = s
  \/ out.pc = "notify" /\ out.index = s

Dying == control \in {"awaitRelease", "delete"}

Marked == \A s \in Slots : isCoding[s] => OnItsWay(s)

SlotInv ==
  /\ server \/ control # "idle" => mRecordHandle
  /\ ~Dying => Marked

LEMMA InitSlot == Init => SlotInv
BY DEF Init, SlotInv, Marked, NoneCoding

(* A step that takes no buffer from where it is.                            *)
LEMMA MarksKept ==
  ASSUME Marked, UNCHANGED <<isCoding, coding, work>>,
         out.pc = "notify" => out'.pc = "notify" /\ out'.index = out.index
  PROVE  Marked'
BY DEF Marked, OnItsWay

(* A server that has only been made, or asked for, has no buffer.           *)
LEMMA NoMarks ==
  ASSUME Typed, ServerInv, RecordInv, SlotInv, "restart" \notin Overlaps,
         control \in {"create", "init", "createMpp", "initOther"}
  PROVE  \A s \in Slots : ~isCoding[s]
<1>1. work.pc = "idle" /\ coding = <<>>
  BY DEF RecordInv, QuietInv
<1>2. out.pc = "none"
  BY DEF ServerInv, ThreadInv, StartInv, Untouched, Typed
<1>3. Len(coding) = 0
  BY <1>1, CodingProperties
<1> QED BY <1>1, <1>2, <1>3 DEF SlotInv, Dying, Marked, OnItsWay

(* The buffers of one getoutpacket(): the first frame's is now the packet's.*)
LEMMA GetMarks ==
  ASSUME Typed, RecordInv, "frame_lost" \notin Overlaps, Marked, GetPacket
  PROVE  Marked'
<1> DEFINE n == Len(coding)
<1>1. /\ coding # <<>> /\ coding' = Tail(coding) /\ out.pc = "get"
      /\ out' = [pc |-> "notify", index |-> Head(coding).index, stale |-> FALSE]
      /\ UNCHANGED <<isCoding, work>>
  BY DEF GetPacket, Waited, RecordInv, CodingInv, ring, workVars
<1>2. /\ n \in Nat /\ n > 0 /\ Head(coding) = coding[1]
      /\ Len(coding') = n - 1 /\ \A i \in 1 .. n - 1 : coding'[i] = coding[i + 1]
  BY <1>1, CodingProperties, HeadTailProperties
<1>3. out'.pc = "notify" /\ out'.index = coding[1].index
  BY <1>1, <1>2
<1>4. ASSUME NEW s \in Slots, isCoding[s] PROVE OnItsWay(s)'
  <2>1. CASE work.pc = "send" /\ work.index = s
    BY <1>1, <2>1 DEF OnItsWay
  <2>2. CASE \E i \in 1 .. n : coding[i].index = s
    <3>1. PICK i \in 1 .. n : coding[i].index = s
      BY <2>2
    <3>2. CASE i = 1
      BY <1>3, <3>1, <3>2 DEF OnItsWay
    <3>3. CASE i # 1
      <4>1. i - 1 \in 1 .. n - 1 /\ (i - 1) + 1 = i
        BY <1>2, <3>3
      <4>2. coding'[i - 1].index = s
        BY <1>2, <3>1, <4>1
      <4> QED BY <1>2, <4>1, <4>2 DEF OnItsWay
    <3> QED BY <3>2, <3>3
  <2> QED BY <1>1, <1>4, <2>1, <2>2 DEF Marked, OnItsWay
<1> QED BY <1>1, <1>4 DEF Marked

(* What workThread() hands over is in the encoder.                          *)
LEMMA SendMarks ==
  ASSUME Typed, RecordInv, "frame_lost" \notin Overlaps, Marked, SendFrame
  PROVE  Marked'
<1> DEFINE f == [buf |-> work.buf, index |-> work.index]
           n == Len(coding)
<1>1. /\ work.pc = "send" /\ coding' = Append(coding, f) /\ UNCHANGED <<isCoding, out>>
      /\ work \in WorkStates
  BY DEF SendFrame, FrameLost, ring, Typed, RecordInv, QuietInv
<1>2. f \in Frame /\ f.index = work.index
  BY <1>1 DEF WorkStates, Frame
<1>3. /\ n \in Nat /\ Len(coding') = n + 1 /\ coding'[n + 1] = f
      /\ \A i \in 1 .. n : coding'[i] = coding[i]
  BY <1>1, <1>2, CodingProperties, AppendProperties
<1> HIDE DEF f
<1>4. ASSUME NEW s \in Slots, isCoding[s] PROVE OnItsWay(s)'
  <2>1. CASE work.index = s
    <3>1. n + 1 \in 1 .. Len(coding') /\ coding'[n + 1].index = s
      BY <1>2, <1>3, <2>1
    <3> QED BY <3>1 DEF OnItsWay
  <2>2. CASE \E i \in 1 .. n : coding[i].index = s
    <3>1. PICK i \in 1 .. n : coding[i].index = s
      BY <2>2
    <3>2. i \in 1 .. Len(coding') /\ coding'[i].index = s
      BY <1>3, <3>1
    <3> QED BY <3>2 DEF OnItsWay
  <2>3. CASE out.pc = "notify" /\ out.index = s
    BY <1>1, <2>3 DEF OnItsWay
  <2> QED BY <1>4, <2>1, <2>2, <2>3 DEF Marked, OnItsWay
<1> QED BY <1>1, <1>4 DEF Marked

LEMMA NextSlot ==
  ASSUME Overlaps \subseteq {"init_fails"}
  PROVE  Typed /\ ServerInv /\ RecordInv /\ SlotInv /\ [Next]_vars => SlotInv'
<1> SUFFICES ASSUME Typed, ServerInv, RecordInv, SlotInv, [Next]_vars PROVE SlotInv'
  OBVIOUS
<1>0. /\ "restart" \notin Overlaps /\ "frame_lost" \notin Overlaps
      /\ out \in OutStates /\ work \in WorkStates
      /\ isCoding \in [Slots -> BOOLEAN] /\ mRecordCodingBuffIndex \in Slots
  BY DEF Typed
<1>1. CASE RecordOn \/ DeleteServer
  <2>1. isCoding' = NoneCoding
    BY <1>1 DEF RecordOn, DeleteServer
  <2>2. Marked'
    BY <2>1 DEF Marked, NoneCoding
  <2>3. (server \/ control # "idle" => mRecordHandle)'
    BY <1>1 DEF RecordOn, DeleteServer, ServerGone
  <2> QED BY <2>2, <2>3 DEF SlotInv
<1>2. CASE NewEncoder \/ InitFails
  <2>1. control \in {"create", "init", "createMpp", "initOther"} /\ UNCHANGED ring
    BY <1>2 DEF NewEncoder, InitFails
  <2>2. Marked'
    BY <1>0, <2>1, NoMarks DEF ring, Marked
  <2>3. mRecordHandle'
    BY <2>1 DEF SlotInv, ring
  <2> QED BY <2>2, <2>3 DEF SlotInv
<1>3. CASE CreateServer \/ CreateMpp \/ InitDone \/ StartServer \/ RecordOff \/ ClearEnabled
             \/ SeeExited \/ LeaveRunning
  <2>1. /\ ~Dying /\ UNCHANGED <<ring, coding, work, out>>
        /\ server \/ control # "idle"
    BY <1>3 DEF CreateServer, CreateMpp, InitDone, StartServer, RecordOff, ClearEnabled, SeeExited,
               LeaveRunning, Dying, encoder, workVars
  <2>2. Marked'
    BY <2>1, MarksKept DEF SlotInv, ring
  <2> QED BY <2>1, <2>2 DEF SlotInv, ring
<1>4. CASE Join
  <2>1. /\ ~Dying /\ UNCHANGED <<ring, coding, work>> /\ control # "idle"
        /\ out.pc = "notify" => out' = out
    BY <1>4 DEF Join, Dying, encoder, workVars
  <2>2. Marked'
    BY <2>1, MarksKept DEF SlotInv, ring
  <2> QED BY <2>1, <2>2 DEF SlotInv, ring
<1>5. CASE DeleteEncoder
  BY <1>5 DEF DeleteEncoder, SlotInv, Dying, ring
<1>6. CASE HandleStop \/ HandleRelease
  <2>1. looper # <<>> /\ Len(looper) > 0 /\ looper[1] \in {"kWhatStop", "kWhatRelease"}
        /\ (looper[1] = "kWhatStop" <=> HandleStop)
    BY <1>6, ReceiveKeeps DEF HandleStop, HandleRelease
  <2>2. control \in {"awaitStop", "awaitRelease"}
    BY <2>1 DEF ServerInv, ThreadInv, StopInv, Typed, Recording, Stopping
  <2>3. UNCHANGED <<ring, coding, work, out>>
    BY <1>6 DEF HandleStop, HandleRelease, onStop, encoder, workVars
  <2>4. mRecordHandle'
    BY <2>2, <2>3 DEF SlotInv, ring
  <2>5. CASE control = "awaitStop"
    <3>1. ~Dying
      BY <2>5 DEF Dying
    <3> QED BY <2>3, <2>4, <3>1, MarksKept DEF SlotInv, ring
  <2>6. CASE control = "awaitRelease"
    <3>1. looper[1] = "kWhatRelease" /\ HandleRelease
      BY <1>6, <2>1, <2>6 DEF ServerInv, StopInv
    <3>2. Dying'
      BY <3>1 DEF HandleRelease, Reply, Dying
    <3> QED BY <2>4, <3>2 DEF SlotInv
  <2> QED BY <2>2, <2>5, <2>6
<1>7. CASE HandleStart \/ HandleProcess \/ Run \/ TestEnabled \/ CallEncoder
             \/ GetNothing \/ Exit \/ StartAgain \/ OutCrashes \/ WorkCrashes
  <2>1. UNCHANGED <<control, server, ring, coding, work>>
    BY <1>7 DEF HandleStart, HandleProcess, Run, TestEnabled, CallEncoder, GetNothing, Exit,
               StartAgain, OutCrashes, WorkCrashes, Crash, serverVars, encoder, workVars
  <2>2. out.pc = "notify" => out' = out
    <3>1. out.pc # "none" => mHasThread
      BY DEF ServerInv, ThreadInv
    <3> QED BY <1>7, <3>1
       DEF HandleStart, StartThread, HandleProcess, Run, dispatched, TestEnabled,
           CallEncoder, GetNothing, Exit, StartAgain, OutCrashes, WorkCrashes, Crash
  <2>3. ~Dying' => Marked'
    BY <2>1, <2>2, MarksKept DEF SlotInv, Dying, ring
  <2> QED BY <2>1, <2>3 DEF SlotInv, ring
<1>8. CASE GetPacket
  <2>1. UNCHANGED <<control, server, mRecordHandle>>
    BY <1>8 DEF GetPacket, serverVars, ring
  <2>2. ~Dying' => Marked'
    BY <1>0, <1>8, <2>1, GetMarks DEF SlotInv, Dying
  <2> QED BY <2>1, <2>2 DEF SlotInv
<1>9. CASE OnInputAvailable
  <2>1. /\ out.pc = "notify" /\ out.index \in Slots
        /\ UNCHANGED <<control, server, mRecordHandle, coding, work>>
    BY <1>0, <1>9 DEF OnInputAvailable, Notifies, serverVars, encoder, workVars, OutStates
  <2>2. mRecordHandle
    <3>1. server
      BY <2>1 DEF ServerInv, ThreadInv, Untouched
    <3> QED BY <3>1 DEF SlotInv
  <2>3. isCoding' = [isCoding EXCEPT ![out.index] = FALSE]
    BY <1>9, <2>2 DEF OnInputAvailable, Returned
  <2>4. \A s \in Slots : isCoding'[s] => isCoding[s] /\ s # out.index
    BY <1>0, <2>1, <2>3
  <2>5. ~Dying' => Marked'
    BY <2>1, <2>4 DEF SlotInv, Dying, Marked, OnItsWay
  <2> QED BY <2>1, <2>5 DEF SlotInv
<1>10. CASE FillRecordBuffer
  <2>1. /\ work.pc = "idle" /\ UNCHANGED <<control, server, ring, coding, out>>
    BY <1>10 DEF FillRecordBuffer, serverVars, encoder
  <2>2. ~Dying' => Marked'
    BY <2>1 DEF SlotInv, Dying, Marked, OnItsWay, ring
  <2> QED BY <2>1, <2>2 DEF SlotInv, ring
<1>14. CASE SkipRecord
  BY <1>14 DEF SkipRecord, RecordInv, QuietInv
<1>11. CASE MarkCoding
  <2> DEFINE b == mRecordCodingBuffIndex
  <2>1. /\ work.pc = "mark" /\ work'.pc = "send" /\ work'.index = b
        /\ isCoding' = [isCoding EXCEPT ![b] = TRUE]
        /\ UNCHANGED <<control, server, mRecordHandle, coding, out>>
    BY <1>0, <1>11 DEF MarkCoding, serverVars, encoder, WorkStates
  <2>2. \A s \in Slots : isCoding'[s] => isCoding[s] \/ s = b
    BY <1>0, <2>1
  <2> HIDE DEF b
  <2>3. ~Dying' => Marked'
    BY <2>1, <2>2 DEF SlotInv, Dying, Marked, OnItsWay
  <2> QED BY <2>1, <2>3 DEF SlotInv
<1>12. CASE SendFrame
  <2>1. UNCHANGED <<control, server, mRecordHandle>>
    BY <1>12 DEF SendFrame, serverVars, ring
  <2>2. ~Dying' => Marked'
    BY <1>0, <1>12, <2>1, SendMarks DEF SlotInv, Dying
  <2> QED BY <2>1, <2>2 DEF SlotInv
<1>13. CASE UNCHANGED vars
  <2>1. UNCHANGED <<control, server, ring, coding, work, out>>
    BY <1>13 DEF vars, serverVars, encoder, workVars
  <2>2. ~Dying' => Marked'
    BY <2>1, MarksKept DEF SlotInv, Dying, ring
  <2> QED BY <2>1, <2>2 DEF SlotInv, ring
<1> QED
  BY <1>1, <1>2, <1>3, <1>4, <1>5, <1>6, <1>7, <1>8, <1>9, <1>10, <1>11, <1>12, <1>13, <1>14
     DEF Next, Command, StartStep, StopStep, LooperStep, OutStep, WorkStep, HandOver

(* For any number of record buffers, as long as the encoder takes every     *)
(* frame and returns every packet: a buffer marked as coding is with        *)
(* workThread, the encoder or the output thread, each of which passes it on.*)
THEOREM SlotsAccounted ==
  ASSUME Overlaps \subseteq {"init_fails"}
  PROVE  Spec => []NoSlotLost
<1>1. Typed /\ ServerInv /\ [Next]_vars => ServerInv'
  BY NextServer
<1>2. Typed /\ ServerInv /\ RecordInv /\ [Next]_vars => RecordInv'
  BY NextRecord
<1>3. Typed /\ ServerInv /\ RecordInv /\ SlotInv /\ [Next]_vars => SlotInv'
  BY NextSlot
<1>4. Typed /\ SlotInv => NoSlotLost
  <2> SUFFICES ASSUME Typed, SlotInv PROVE NoSlotLost
    OBVIOUS
  <2>1. DOMAIN coding = 1 .. Len(coding)
    BY LenProperties DEF Typed
  <2> QED BY <2>1 DEF SlotInv, Dying, Marked, OnItsWay, NoSlotLost
<1> QED BY <1>1, <1>2, <1>3, <1>4, InitServer, InitRecord, InitSlot, InitType, NextType,
           PTL DEF Spec
=============================================================================
