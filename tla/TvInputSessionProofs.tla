------------------------ MODULE TvInputSessionProofs ------------------------
(* The life of a stream for any number of sessions, files, modes, changes   *)
(* of the source, and any choice of faults.                                 *)
EXTENDS TvInputSession, TLAPS, FiniteSetTheorems, WellFoundedInduction

(* The lowest of some numbers is one of them.                               *)
LEMMA MinIsOne ==
  ASSUME NEW S, S \subseteq Nat, S # {}
  PROVE  Min(S) \in S
<1> DEFINE less == {ss \in Nat \X Nat : ss[1] < ss[2]}
<1>1. IsWellFoundedOn(less, Nat)
  BY NatLessThanWellFounded DEF OpToRel
<1>2. PICK x \in S : \A y \in S : ~ (<<y, x>> \in less)
  <2> HIDE DEF less
  <2> QED BY <1>1, WFMin
<1>3. ASSUME NEW y \in S PROVE x \leq y
  <2>1. x \in Nat /\ y \in Nat
    OBVIOUS
  <2>2. y < x => <<y, x>> \in less
    BY <2>1
  <2> QED BY <1>2, <2>1, <2>2
<1> QED BY <1>3 DEF Min

(* Sessions are numbered from 1.                                            *)
LEMMA SessionNumbers ==
  /\ Cardinality(Sessions) \in Nat
  /\ \A s \in Sessions : s \in Nat /\ s # 0 /\ s \leq Cardinality(Sessions)
  /\ \A n \in 1 .. Cardinality(Sessions) : n \in Sessions
<1>1. PICK n \in Nat : n = Cardinality(Sessions) /\ Sessions = 1 .. n
  BY SessionsAssumption, FS_CardinalityType
<1>2. \A s \in 1 .. n : s \in Nat /\ s # 0 /\ s \leq n
  OBVIOUS
<1>3. \A s \in Sessions : s \in Nat /\ s # 0 /\ s \leq n
  BY ONLY <1>1, <1>2
<1>4. \A s \in 1 .. n : s \in Sessions
  BY ONLY <1>1
<1> QED BY ONLY <1>1, <1>3, <1>4
------------------------------------------------------------------------------
(* Types.                                                                   *)

FilesOpen ==
  {Unused, Other} \cup {Video(s) : s \in Sessions} \cup {Pipe(s) : s \in Sessions}

ThreadPlaces ==
  {"none", "poll", "gone", "dqevent", "blocked", "callback", "handle", "store",
   "lock", "locked", "crashed"}

Threads ==
  [pc : ThreadPlaces, type : EventTypes \cup {"none"}, of : Sessions \cup {NULL},
   size : Modes \cup {0}]

(* What the arguments below need of the types.                              *)
Typed ==
  /\ isOpened \in BOOLEAN /\ out_buffer \in BOOLEAN
  /\ mHinDevHandle \in [Sessions -> FdNumbers \cup {NoFd}]
  /\ pipefd \in [Sessions -> FdNumbers \cup {NoFd}]
  /\ mSidebandHandle \in [Sessions -> BOOLEAN]
  /\ work \in [Sessions -> {"none", "running", "gone"}]
  /\ event \in [Sessions -> Threads]
  /\ \A s \in Sessions : event[s].pc = "blocked" => event[s].of \in Sessions
  /\ files \in [FdNumbers -> FilesOpen]
  /\ events \in [Sessions -> SUBSET EventTypes]
  /\ mode \in Modes \cup {0}
  /\ robbed \subseteq Sessions

------------------------------------------------------------------------------
(* Where the client's call stands.                                          *)

Stopping == {"stop", "quit", "close pipe", "close", "stopped"}

(* The steps of the one call that is under way, and what they leave of      *)
(* s_TvInputPriv.                                                           *)
CallInv ==
  /\ opened \in Nat /\ opened \leq Cardinality(Sessions)
  /\ mDev # NULL => mDev = opened
  /\ ctl \in {"idle", "get_format", "opened", "delete", "deleted", "closing"} \cup Stopping
  /\ ctl \in {"get_format", "opened", "delete", "closing"} \cup Stopping => mDev # NULL
  /\ ctl = "deleted" => mDev = NULL
  /\ ctl \in {"get_format", "opened", "closing"} => isOpened = FALSE
  /\ ctl \in Stopping => isOpened = TRUE
  /\ ctl = "idle" => (isOpened = TRUE <=> mDev # NULL)
  /\ out_buffer = TRUE => ctl = "idle" /\ mDev # NULL

(* The one clone is the one that out_buffer remembers, and the handle it    *)
(* was cloned from is that of the device, until stop() releases it.         *)
HandleInv ==
  /\ clones = IF out_buffer = TRUE THEN 1 ELSE 0
  /\ \A s \in Sessions :
       mSidebandHandle[s] = TRUE => s = mDev /\ (out_buffer = TRUE \/ ctl = "stop")

LEMMA DeviceIsSession ==
  ASSUME CallInv, mDev # NULL
  PROVE  mDev \in Sessions
<1>1. mDev \in Nat /\ mDev # 0 /\ mDev \leq Cardinality(Sessions)
  BY DEF CallInv, NULL
<1> QED BY <1>1, SessionNumbers

LEMMA ThreadStepLeaves ==
  ASSUME NEW s \in Sessions, EventStep(s) \/ workThread(s)
  PROVE  UNCHANGED <<priv, ctl, streamVars, opened, mHinDevHandle, pipefd, mSidebandHandle,
                     deleted, fileVars, source>>
<1>1. CASE pollQuit(s) \/ pollEvent(s) \/ dequeueEvent(s) \/ refuse(s) \/ accept(s) \/ workThread(s)
  BY <1>1 DEF pollQuit, pollEvent, dequeueEvent, refuse, accept, workThread, objectVars
<1>2. CASE handleSourceChange(s) \/ storeSize(s) \/ handleCtrl(s) \/ handleSignalLost(s) \/ hdmiinout(s)
  BY <1>2 DEF handleSourceChange, storeSize, handleCtrl, handleSignalLost, hdmiinout, objectVars
<1> QED BY <1>1, <1>2 DEF EventStep

LEMMA WorldLeaves ==
  ASSUME World
  PROVE  UNCHANGED <<priv, ctl, streamVars, objectVars, threadVars, sizeVars, quit, robbed>>
BY DEF World, changeMode, openOther, fileVars

LEMMA CallKept ==
  ASSUME Typed, CallInv, HandleInv, [Next]_vars
  PROVE  CallInv' /\ HandleInv'
<1> USE DEF CallInv, HandleInv, Stopping, NULL
<1>1. ASSUME UNCHANGED <<priv, ctl, streamVars, opened, mSidebandHandle>>
      PROVE  CallInv' /\ HandleInv'
  BY <1>1 DEF priv, streamVars
<1>2. CASE hin_dev_open
  <2>1. opened' = opened + 1 /\ mDev' = opened + 1 /\ opened + 1 \in Sessions
        /\ ctl' \in {"get_format", "delete"} /\ mDev = NULL /\ isOpened = FALSE
        /\ UNCHANGED <<isOpened, streamVars, mSidebandHandle>>
    BY <1>2 DEF hin_dev_open, Typed
  <2>2. opened' \in Nat /\ opened' \leq Cardinality(Sessions) /\ mDev' # NULL
    <3>1. PICK n \in Sessions : opened + 1 = n
      BY <2>1
    <3>2. n \in Nat /\ n \leq Cardinality(Sessions) /\ n # 0
      BY SessionNumbers
    <3> QED BY <2>1, <3>1, <3>2
  <2>3. 0 \notin Sessions
    BY SessionNumbers
  <2> QED BY <2>1, <2>2, <2>3 DEF streamVars
<1>3. CASE get_format \/ get_formatFails
  <2>1. UNCHANGED <<priv, streamVars, opened, mSidebandHandle>> /\ ctl = "get_format"
        /\ ctl' \in {"opened", "delete"}
    BY <1>3 DEF get_format, get_formatFails, objectVars
  <2> QED BY <2>1 DEF priv, streamVars
<1>4. CASE setOpened
  <2>1. UNCHANGED <<mDev, streamVars, opened, mSidebandHandle>> /\ ctl = "opened"
        /\ ctl' = "idle" /\ isOpened' = TRUE
    BY <1>4 DEF setOpened, objectVars
  <2> QED BY <2>1 DEF streamVars
<1>5. CASE device_close \/ requestExit
  <2>1. UNCHANGED <<priv, streamVars, opened, mSidebandHandle>> /\ ctl' = "delete"
        /\ ctl \in {"idle", "delete"} /\ mDev # NULL /\ out_buffer # TRUE
    BY <1>5 DEF device_close, requestExit, objectVars
  <2>2. out_buffer = FALSE
    BY <2>1 DEF Typed
  <2> QED BY <2>1, <2>2 DEF priv, streamVars
<1>6. CASE deleteDevice
  <2>1. UNCHANGED <<isOpened, streamVars, opened, mSidebandHandle>> /\ ctl = "delete"
        /\ mDev' = NULL /\ ctl' = IF isOpened THEN "deleted" ELSE "idle"
    BY <1>6 DEF deleteDevice
  <2>2. out_buffer = FALSE
    BY <2>1 DEF Typed
  <2>3. \/ isOpened = TRUE /\ ctl' = "deleted"
        \/ isOpened = FALSE /\ ctl' = "idle"
    BY <2>1 DEF Typed
  <2> QED BY <2>1, <2>2, <2>3 DEF streamVars
<1>7. CASE initialize
  <2>1. UNCHANGED <<mDev, streamVars, opened, mSidebandHandle>> /\ ctl = "deleted"
        /\ isOpened' = FALSE /\ ctl' = "idle"
    BY <1>7 DEF initialize, device_open, objectVars
  <2> QED BY <2>1 DEF streamVars
<1>8. CASE set_preview_info
  <2>1. UNCHANGED <<mDev, isOpened, ctl, streamVars, opened, mSidebandHandle>>
    BY <1>8 DEF set_preview_info
  <2> QED BY <2>1 DEF streamVars
<1>9. CASE open_stream
  <2>1. UNCHANGED <<priv, ctl, opened>> /\ ctl = "idle" /\ mDev # NULL /\ out_buffer = FALSE
        /\ (clone(TRUE) \/ clone(FALSE))
    BY <1>9 DEF open_stream, Typed
  <2>2. CASE clone(TRUE)
    BY <2>1, <2>2 DEF clone, getSindebandBufferHandle, priv, Typed
  <2>3. CASE clone(FALSE)
    BY <2>1, <2>3 DEF clone, priv, streamVars
  <2> QED BY <2>1, <2>2, <2>3
<1>10. CASE close_stream
  <2>1. UNCHANGED <<priv, opened, mSidebandHandle>> /\ ctl = "idle" /\ mDev # NULL
        /\ ctl' = "stop" /\ out_buffer' = FALSE /\ isOpened = TRUE
        /\ clones' = IF out_buffer THEN clones - 1 ELSE clones
    BY <1>10 DEF close_stream, Typed
  <2>2. clones' = 0
    BY <2>1 DEF Typed
  <2> QED BY <2>1, <2>2 DEF priv
<1>11. CASE stopThreads
  <2>1. UNCHANGED <<priv, streamVars, opened>> /\ ctl = "stop" /\ ctl' = "quit"
        /\ mSidebandHandle' = [mSidebandHandle EXCEPT ![mDev] = FALSE]
    BY <1>11 DEF stopThreads, release_buffer
  <2>2. \A s \in Sessions : mSidebandHandle'[s] # TRUE
    BY <2>1 DEF Typed
  <2> QED BY <2>1, <2>2 DEF priv, streamVars
<1>12. CASE closePipe \/ closePipeEnds \/ closeVideo
  <2>1. UNCHANGED <<priv, streamVars, opened, mSidebandHandle>>
        /\ ctl \in Stopping \ {"stop"} /\ ctl' \in Stopping \ {"stop"}
    BY <1>12 DEF closePipe, writeQuit, closePipeEnds, closeVideo, objectVars
  <2> QED BY <2>1 DEF priv, streamVars
<1>13. CASE closed
  <2>1. UNCHANGED <<streamVars, opened, mSidebandHandle>>
    BY <1>13 DEF closed, objectVars
  <2>2. \/ ctl = "stopped" /\ isOpened' = FALSE /\ ctl' = "closing" /\ mDev' = mDev
        \/ ctl = "closing" /\ mDev' = NULL /\ ctl' = "idle" /\ isOpened' = isOpened
    BY <1>13 DEF closed, forgetDevice
  <2> QED BY <2>1, <2>2 DEF streamVars, Typed
<1>14. CASE World
  BY <1>1, <1>14, WorldLeaves DEF objectVars
<1>15. CASE \E s \in Sessions : workThread(s) \/ EventStep(s)
  BY <1>1, <1>15, ThreadStepLeaves
<1>16. CASE UNCHANGED vars
  BY <1>1, <1>16 DEF vars, objectVars
<1> QED BY <1>2, <1>3, <1>4, <1>5, <1>6, <1>7, <1>8, <1>9, <1>10, <1>11, <1>12, <1>13,
           <1>14, <1>15, <1>16 DEF Next, CallStep, NewCall

------------------------------------------------------------------------------
(* The steps of the event threads.                                          *)

LEMMA FileKinds ==
  ASSUME Typed, NEW n \in FdNumbers \cup {NoFd}
  PROVE  /\ file(n).of \in Sessions \cup {NULL}
         /\ file(n).kind = "video" => file(n).of \in Sessions /\ file(n) = Video(file(n).of)
<1>1. file(n) \in FilesOpen
  BY DEF file, Typed, FilesOpen
<1>2. CASE file(n) \in {Unused, Other}
  BY <1>2 DEF Unused, Other
<1>3. ASSUME NEW s \in Sessions, file(n) = Video(s)
      PROVE  file(n).of = s
  BY <1>3 DEF Video
<1>4. ASSUME NEW s \in Sessions, file(n) = Pipe(s)
      PROVE  file(n).of = s /\ file(n).kind # "video"
  BY <1>4 DEF Pipe
<1> QED BY <1>1, <1>2, <1>3, <1>4 DEF FilesOpen

LEMMA ThreadFields ==
  /\ NoThread \in Threads
  /\ \A where \in ThreadPlaces : [NoThread EXCEPT !.pc = where] \in Threads
  /\ \A where \in ThreadPlaces, type \in EventTypes :
       [NoThread EXCEPT !.pc = where, !.type = type] \in Threads
  /\ \A where \in ThreadPlaces, t \in Sessions :
       [NoThread EXCEPT !.pc = where, !.of = t] \in Threads
  /\ \A thread \in Threads, where \in ThreadPlaces : [thread EXCEPT !.pc = where] \in Threads
  /\ \A thread \in Threads, where \in ThreadPlaces, t \in Sessions :
       [thread EXCEPT !.pc = where, !.of = t] \in Threads
  /\ \A thread \in Threads, where \in ThreadPlaces, t \in Sessions, m \in Modes \cup {0} :
       [thread EXCEPT !.pc = where, !.of = t, !.size = m] \in Threads
<1>1. NoThread \in Threads
  BY DEF NoThread, Threads, ThreadPlaces
<1>2. \A thread \in Threads, where \in ThreadPlaces : [thread EXCEPT !.pc = where] \in Threads
  BY DEF Threads
<1>3. \A thread \in Threads, where \in ThreadPlaces, type \in EventTypes :
        [thread EXCEPT !.pc = where, !.type = type] \in Threads
  BY DEF Threads, EventTypes
<1>4. \A thread \in Threads, where \in ThreadPlaces, t \in Sessions :
        [thread EXCEPT !.pc = where, !.of = t] \in Threads
  BY DEF Threads
<1>5. \A thread \in Threads, where \in ThreadPlaces, t \in Sessions, m \in Modes \cup {0} :
        [thread EXCEPT !.pc = where, !.of = t, !.size = m] \in Threads
  BY DEF Threads
<1> QED BY <1>1, <1>2, <1>3, <1>4, <1>5

(* A thread that has not begun or has ended does nothing, and no step       *)
(* touches another thread.                                                  *)
ThreadMoves(s) ==
  /\ event[s].pc \notin {"none", "gone", "crashed"}
  /\ \E thread \in Threads : /\ event' = [event EXCEPT ![s] = thread]
                             /\ thread.pc = "blocked" => thread.of \in Sessions

LEMMA EventMoves ==
  ASSUME Typed, CallInv, NEW s \in Sessions, EventStep(s)
  PROVE  ThreadMoves(s) /\ events' \in [Sessions -> SUBSET EventTypes]
<1> USE DEF ThreadMoves
<1>0. event[s] \in Threads /\ events \in [Sessions -> SUBSET EventTypes]
      /\ event[s].of \in Sessions \cup {NULL} /\ mode \in Modes \cup {0}
      /\ DOMAIN event = Sessions
  BY DEF Typed, Threads
<1>1. ASSUME NEW where \in ThreadPlaces \ {"blocked"}, eventEnds(s, where)
      PROVE  \E thread \in Threads : event' = [event EXCEPT ![s] = thread]
                                     /\ (thread.pc = "blocked" => thread.of \in Sessions)
  BY <1>1, ThreadFields DEF eventEnds, NoThread
<1>2. ASSUME eventLoop(s)
      PROVE  \E thread \in Threads : event' = [event EXCEPT ![s] = thread]
                                     /\ (thread.pc = "blocked" => thread.of \in Sessions)
  <2>1. PICK where \in {"gone", "poll"} : event' = [event EXCEPT ![s] = [NoThread EXCEPT !.pc = where]]
    BY <1>2 DEF eventLoop
  <2> QED BY <2>1, ThreadFields DEF NoThread, ThreadPlaces
<1>3. ASSUME NEW where \in ThreadPlaces \ {"blocked"}, event' = [event EXCEPT ![s].pc = where]
      PROVE  \E thread \in Threads : event' = [event EXCEPT ![s] = thread]
                                     /\ (thread.pc = "blocked" => thread.of \in Sessions)
  <2>1. event' = [event EXCEPT ![s] = [event[s] EXCEPT !.pc = where]]
    BY <1>3
  <2>2. [event[s] EXCEPT !.pc = where] \in Threads /\ [event[s] EXCEPT !.pc = where].pc = where
    BY <1>0, ThreadFields DEF Threads
  <2> QED BY <2>1, <2>2
<1>4. CASE pollQuit(s)
  BY <1>1, <1>4, <1>0 DEF pollQuit, ThreadPlaces
<1>5. CASE pollEvent(s)
  BY <1>1, <1>5, <1>0 DEF pollEvent, ThreadPlaces
<1>6. CASE dequeueEvent(s)
  <2>1. PICK t \in Sessions \cup {NULL}, isVideo \in BOOLEAN :
          /\ isVideo = TRUE => t \in Sessions
          /\ \/ isVideo = FALSE /\ eventLoop(s) /\ UNCHANGED events
             \/ /\ isVideo = TRUE /\ UNCHANGED events
                /\ event' = [event EXCEPT ![s] = [NoThread EXCEPT !.pc = "blocked", !.of = t]]
             \/ isVideo = TRUE /\ \E type \in events[t] : taken(s, t, type)
    <3>1. PICK t, isVideo :
            /\ t = IF event[s].pc = "blocked" THEN event[s].of ELSE file(mHinDevHandle[s]).of
            /\ isVideo = (event[s].pc = "blocked" \/ file(mHinDevHandle[s]).kind = "video")
      OBVIOUS
    <3>2. mHinDevHandle[s] \in FdNumbers \cup {NoFd}
      BY DEF Typed
    <3>3. t \in Sessions \cup {NULL} /\ isVideo \in BOOLEAN /\ (isVideo = TRUE => t \in Sessions)
      BY <1>0, <3>1, <3>2, FileKinds DEF Typed
    <3> QED BY <1>6, <3>1, <3>3 DEF dequeueEvent
  <2>2. event[s].pc \in {"dqevent", "blocked"}
    BY <1>6 DEF dequeueEvent
  <2>3. CASE isVideo = FALSE /\ eventLoop(s) /\ UNCHANGED events
    BY <1>0, <1>2, <2>2, <2>3
  <2>4. CASE isVideo = TRUE /\ UNCHANGED events
             /\ event' = [event EXCEPT ![s] = [NoThread EXCEPT !.pc = "blocked", !.of = t]]
    <3>1. t \in Sessions
      BY <2>1, <2>4
    <3>2. PICK thread : thread = [NoThread EXCEPT !.pc = "blocked", !.of = t]
      OBVIOUS
    <3>3. thread \in Threads
      BY <3>1, <3>2, ThreadFields DEF ThreadPlaces
    <3>4. thread.of = t
      BY <3>2 DEF NoThread
    <3> QED BY <1>0, <2>2, <2>4, <3>1, <3>2, <3>3, <3>4
  <2>5. CASE isVideo = TRUE /\ \E type \in events[t] : taken(s, t, type)
    <3>1. PICK type \in events[t] : taken(s, t, type)
      BY <2>5
    <3>2. t \in Sessions /\ type \in EventTypes
      BY <1>0, <2>1, <2>5, <3>1
    <3>3. events' \in [Sessions -> SUBSET EventTypes]
      BY <1>0, <3>1, <3>2 DEF taken
    <3>4. PICK thread : /\ thread = [NoThread EXCEPT !.pc = "callback", !.type = type]
                        /\ event' = [event EXCEPT ![s] = thread]
      BY <3>1 DEF taken
    <3>5. thread \in Threads
      BY <3>2, <3>4, ThreadFields DEF ThreadPlaces
    <3>6. thread.pc # "blocked"
      BY <3>4 DEF NoThread
    <3> QED BY <2>2, <3>3, <3>4, <3>5, <3>6
  <2> QED BY <2>1, <2>3, <2>4, <2>5
<1>7. CASE refuse(s)
  BY <1>0, <1>2, <1>7 DEF refuse
<1>8. CASE accept(s)
  BY <1>0, <1>3, <1>8 DEF accept, ThreadPlaces
<1>9. CASE handleSourceChange(s)
  <2>1. event[s].pc = "handle" /\ UNCHANGED events
    BY <1>9 DEF handleSourceChange
  <2>2. CASE mDev # NULL /\ event' = [event EXCEPT ![s].pc = "store", ![s].of = mDev, ![s].size = mode]
    <3>1. event' = [event EXCEPT ![s] = [event[s] EXCEPT !.pc = "store", !.of = mDev, !.size = mode]]
      BY <1>0, <2>2 DEF Threads
    <3>2. [event[s] EXCEPT !.pc = "store", !.of = mDev, !.size = mode] \in Threads
      BY <1>0, <2>2, DeviceIsSession, ThreadFields DEF ThreadPlaces
    <3> QED BY <1>0, <2>1, <3>1, <3>2, DeviceIsSession, <2>2 DEF Threads
  <2> QED BY <1>0, <1>1, <1>2, <1>9, <2>1, <2>2 DEF handleSourceChange, ThreadPlaces
<1>10. CASE storeSize(s)
  BY <1>0, <1>1, <1>2, <1>10 DEF storeSize, ThreadPlaces
<1>11. ASSUME mDev # NULL, event' = [event EXCEPT ![s].pc = "lock", ![s].of = mDev]
       PROVE  \E thread \in Threads : event' = [event EXCEPT ![s] = thread]
                                      /\ (thread.pc = "blocked" => thread.of \in Sessions)
  <2>1. event' = [event EXCEPT ![s] = [event[s] EXCEPT !.pc = "lock", !.of = mDev]]
    BY <1>0, <1>11 DEF Threads
  <2>2. [event[s] EXCEPT !.pc = "lock", !.of = mDev] \in Threads
    BY <1>0, <1>11, DeviceIsSession, ThreadFields DEF ThreadPlaces
  <2> QED BY <1>0, <1>11, <2>1, <2>2, DeviceIsSession DEF Threads
<1>12. CASE handleCtrl(s)
  BY <1>0, <1>1, <1>2, <1>11, <1>12 DEF handleCtrl, ThreadPlaces
<1>13. CASE handleSignalLost(s)
  BY <1>0, <1>2, <1>11, <1>13 DEF handleSignalLost, ThreadPlaces
<1>14. CASE hdmiinout(s)
  BY <1>0, <1>2, <1>3, <1>14 DEF hdmiinout, ThreadPlaces
<1> QED BY <1>4, <1>5, <1>6, <1>7, <1>8, <1>9, <1>10, <1>12, <1>13, <1>14 DEF EventStep

------------------------------------------------------------------------------
(* The files.                                                               *)

(* The device has its node and its pipe open under the numbers it knows,    *)
(* until stop() or the destructor closes them; after a get_format() that    *)
(* failed the number of the node may be anybody's.                          *)
HasFiles ==
  \/ mDev # NULL /\ ctl \in {"get_format", "opened", "idle", "stop", "quit", "close pipe"}
  \/ ctl = "delete" /\ isOpened = TRUE

FileInv ==
  /\ HasFiles =>
        /\ mHinDevHandle[mDev] \in FdNumbers /\ pipefd[mDev] \in FdNumbers
        /\ files[mHinDevHandle[mDev]] = Video(mDev)
        /\ files[pipefd[mDev]] = Pipe(mDev)
  /\ ctl = "close" => /\ mHinDevHandle[mDev] \in FdNumbers
                      /\ files[mHinDevHandle[mDev]] = Video(mDev)

LEMMA NumbersFree ==
  ASSUME Cardinality(free) >= 2
  PROVE  /\ videoNumber \in free /\ Min(free \ {videoNumber}) \in free
         /\ Min(free \ {videoNumber}) # videoNumber
<1>1. free \subseteq Nat
  BY FdsAssumption DEF free
<1>2. free # {}
  BY FS_EmptySet
<1>3. free \ {Min(free)} # {}
  <2>1. SUFFICES ASSUME free \subseteq {Min(free)} PROVE FALSE
    OBVIOUS
  <2>2. IsFiniteSet({Min(free)}) /\ Cardinality({Min(free)}) = 1
    BY FS_Singleton
  <2>3. IsFiniteSet(free) /\ Cardinality(free) \leq 1
    BY <2>1, <2>2, FS_Subset
  <2>4. Cardinality(free) \in Nat
    BY <2>3, FS_CardinalityType
  <2> QED BY <2>3, <2>4
<1>4. Min(free) \in free
  BY <1>1, <1>2, MinIsOne
<1>5. videoNumber \in free \ {Min(free)}
  BY <1>1, <1>3, MinIsOne DEF videoNumber
<1>6. free \ {videoNumber} # {}
  BY <1>4, <1>5
<1>7. Min(free \ {videoNumber}) \in free \ {videoNumber}
  BY <1>1, <1>6, MinIsOne
<1> QED BY <1>5, <1>7

LEMMA KindsDiffer ==
  ASSUME NEW s, NEW t
  PROVE  Video(s) # Unused /\ Pipe(s) # Unused /\ Video(s) # Pipe(t) /\ Other # Unused
         /\ Video(s) # Other /\ Pipe(s) # Other
BY DEF Video, Pipe, Unused, Other

(* Opening a device: two numbers that nobody uses become its files.         *)
LEMMA OpenFiles ==
  ASSUME Typed, CallInv, hin_dev_open
  PROVE  /\ opened' = opened + 1 /\ mDev' = opened + 1 /\ opened + 1 \in Sessions
         /\ opened' # NULL /\ opened' \notin 0 .. opened
         /\ \/ /\ ctl' = "delete"
               /\ UNCHANGED <<mHinDevHandle, pipefd, files, event>>
            \/ \E video, pipe \in FdNumbers :
                 /\ ctl' = "get_format" /\ video # pipe
                 /\ files[video] = Unused /\ files[pipe] = Unused
                 /\ mHinDevHandle' = [mHinDevHandle EXCEPT ![opened + 1] = video]
                 /\ pipefd' = [pipefd EXCEPT ![opened + 1] = pipe]
                 /\ files' = [files EXCEPT ![video] = Video(opened + 1), ![pipe] = Pipe(opened + 1)]
                 /\ event' = [event EXCEPT ![opened + 1].pc = "poll"]
<1>1. opened' = opened + 1 /\ mDev' = opened + 1 /\ opened + 1 \in Sessions
  BY DEF hin_dev_open
<1>2. opened' # NULL /\ opened' \notin 0 .. opened
  BY <1>1 DEF CallInv, NULL
<1>3. videoNumber \in free /\ Min(free \ {videoNumber}) \in free
      /\ Min(free \ {videoNumber}) # videoNumber
  BY NumbersFree DEF hin_dev_open
<1>4. PICK video, pipe : video = videoNumber /\ pipe = Min(free \ {videoNumber})
  OBVIOUS
<1>5. video \in FdNumbers /\ pipe \in FdNumbers /\ video # pipe
      /\ files[video] = Unused /\ files[pipe] = Unused
  BY <1>3, <1>4 DEF free
<1>6. CASE ctl' = "delete" /\ UNCHANGED <<mHinDevHandle, pipefd, files, event>>
  BY <1>1, <1>2, <1>6
<1>7. CASE /\ mHinDevHandle' = [mHinDevHandle EXCEPT ![opened + 1] = videoNumber]
           /\ startEventThread(opened + 1, videoNumber)
           /\ ctl' = "get_format"
  BY <1>1, <1>2, <1>4, <1>5, <1>7 DEF startEventThread
<1>8. \/ ctl' = "delete" /\ UNCHANGED <<mHinDevHandle, pipefd, files, event>>
      \/ /\ mHinDevHandle' = [mHinDevHandle EXCEPT ![opened + 1] = videoNumber]
         /\ startEventThread(opened + 1, videoNumber)
         /\ ctl' = "get_format"
  BY DEF hin_dev_open
<1> QED BY <1>6, <1>7, <1>8

LEMMA FilesKept ==
  ASSUME Typed, CallInv, FileInv, [Next]_vars
  PROVE  FileInv' /\ files' \in [FdNumbers -> FilesOpen]
<1> USE DEF FileInv, HasFiles
<1>0. files \in [FdNumbers -> FilesOpen] /\ \A s : Video(s) # Pipe(s)
  BY KindsDiffer DEF Typed
<1>1. ASSUME UNCHANGED <<mDev, isOpened, ctl, files, mHinDevHandle, pipefd>>
      PROVE  FileInv' /\ files' \in [FdNumbers -> FilesOpen]
  BY <1>0, <1>1
<1>2. CASE hin_dev_open
  <2>1. isOpened = FALSE /\ isOpened' = isOpened /\ mDev' # NULL
    BY <1>2, OpenFiles DEF hin_dev_open, Typed
  <2>2. CASE ctl' = "delete" /\ UNCHANGED <<mHinDevHandle, pipefd, files, event>>
    BY <1>0, <2>1, <2>2
  <2>3. ASSUME NEW video \in FdNumbers, NEW pipe \in FdNumbers,
               ctl' = "get_format", video # pipe,
               mHinDevHandle' = [mHinDevHandle EXCEPT ![opened + 1] = video],
               pipefd' = [pipefd EXCEPT ![opened + 1] = pipe],
               files' = [files EXCEPT ![video] = Video(opened + 1), ![pipe] = Pipe(opened + 1)]
        PROVE  FileInv' /\ files' \in [FdNumbers -> FilesOpen]
    <3>1. PICK s \in Sessions : s = opened + 1 /\ mDev' = s
      BY <1>2, OpenFiles
    <3>2. mHinDevHandle'[s] = video /\ pipefd'[s] = pipe
      BY <2>3, <3>1 DEF Typed
    <3>3. files' = [files EXCEPT ![video] = Video(s), ![pipe] = Pipe(s)]
      BY <2>3, <3>1
    <3>4. files'[video] = Video(s) /\ files'[pipe] = Pipe(s)
      BY <1>0, <2>3, <3>3
    <3>5. Video(s) \in FilesOpen /\ Pipe(s) \in FilesOpen
      BY DEF FilesOpen
    <3>6. files' \in [FdNumbers -> FilesOpen]
      BY <1>0, <3>3, <3>5
    <3> QED BY <2>3, <3>1, <3>2, <3>4, <3>6
  <2> QED BY <1>2, <2>2, <2>3, OpenFiles
<1>3. CASE get_format \/ setOpened
  BY <1>0, <1>3 DEF get_format, setOpened, priv, objectVars, fileVars, CallInv
<1>4. ASSUME NEW n \in FdNumbers \cup {NoFd}, NEW t,
             files' = [files EXCEPT ![n] = Unused] \/ files' = files
      PROVE  files' \in [FdNumbers -> FilesOpen]
  <2>1. Unused \in FilesOpen
    BY DEF FilesOpen
  <2> QED BY <1>0, <1>4, <2>1
<1>5. CASE get_formatFails
  <2>1. files' = [files EXCEPT ![mHinDevHandle[mDev]] = Unused] /\ ctl' = "delete"
        /\ isOpened' = isOpened /\ isOpened = FALSE /\ mDev \in Sessions
    BY <1>5, DeviceIsSession DEF get_formatFails, closes, priv, CallInv
  <2>2. mHinDevHandle[mDev] \in FdNumbers \cup {NoFd}
    BY <2>1 DEF Typed
  <2>3. files' \in [FdNumbers -> FilesOpen]
    BY <1>4, <2>1, <2>2
  <2> QED BY <2>1, <2>3
<1>6. CASE requestExit \/ set_preview_info \/ open_stream
  <2>1. UNCHANGED <<mDev, isOpened, ctl, files, mHinDevHandle, pipefd>>
    BY <1>6 DEF requestExit, set_preview_info, open_stream, priv, objectVars, fileVars
  <2> QED BY <1>1, <2>1
<1>7. CASE device_close \/ close_stream
  <2>1. UNCHANGED <<mDev, isOpened, files, mHinDevHandle, pipefd>> /\ ctl = "idle" /\ mDev # NULL
        /\ ctl' \in {"delete", "stop"}
    BY <1>7 DEF device_close, close_stream, priv, objectVars, fileVars
  <2> QED BY <1>0, <2>1
<1>8. CASE deleteDevice
  <2>1. mDev' = NULL /\ ctl' \in {"deleted", "idle"} /\ isOpened' = isOpened
    BY <1>8 DEF deleteDevice
  <2>2. files' = [n \in FdNumbers |-> IF n \in {pipefd[mDev], mHinDevHandle[mDev]} THEN Unused
                                                                                 ELSE files[n]]
    BY <1>8 DEF deleteDevice
  <2>3. Unused \in FilesOpen
    BY DEF FilesOpen
  <2>4. files' \in [FdNumbers -> FilesOpen]
    BY <1>0, <2>2, <2>3
  <2> QED BY <2>1, <2>4
<1>9. CASE initialize
  BY <1>0, <1>9 DEF initialize, fileVars, CallInv
<1>10. CASE stopThreads \/ closePipe
  <2>1. UNCHANGED <<mDev, isOpened, files, mHinDevHandle, pipefd>> /\ ctl \in {"stop", "quit"}
        /\ ctl' \in {"quit", "close pipe"}
    BY <1>10 DEF stopThreads, closePipe, writeQuit, priv, objectVars, fileVars
  <2> QED BY <1>0, <2>1 DEF CallInv, Stopping
<1>11. CASE closePipeEnds
  <2>1. files' = [files EXCEPT ![pipefd[mDev]] = Unused] /\ ctl = "close pipe" /\ ctl' = "close"
        /\ UNCHANGED <<mDev, isOpened, mHinDevHandle>>
    BY <1>11 DEF closePipeEnds, closes, priv, objectVars
  <2>2. pipefd[mDev] \in FdNumbers /\ mHinDevHandle[mDev] \in FdNumbers
        /\ files[pipefd[mDev]] = Pipe(mDev) /\ files[mHinDevHandle[mDev]] = Video(mDev)
    BY <2>1 DEF CallInv, Stopping
  <2>3. files'[mHinDevHandle[mDev]] = Video(mDev)
    BY <1>0, <2>1, <2>2
  <2>4. files' \in [FdNumbers -> FilesOpen]
    BY <1>4, <2>1, <2>2
  <2> QED BY <2>1, <2>2, <2>3, <2>4
<1>12. CASE closeVideo
  <2>1. files' = [files EXCEPT ![mHinDevHandle[mDev]] = Unused] /\ ctl = "close" /\ ctl' = "stopped"
    BY <1>12 DEF closeVideo, closesVideo, closes
  <2>2. files' \in [FdNumbers -> FilesOpen]
    BY <1>4, <2>1
  <2> QED BY <2>1, <2>2
<1>13. CASE closed
  <2>1. \/ ctl' = "closing"
        \/ ctl' = "idle" /\ mDev' = NULL
    BY <1>13 DEF closed, forgetDevice
  <2>2. files' = files
    BY <1>13 DEF closed, fileVars
  <2> QED BY <1>0, <2>1, <2>2
<1>14. CASE World
  <2>1. UNCHANGED <<mDev, isOpened, ctl, mHinDevHandle, pipefd>>
    BY <1>14, WorldLeaves DEF priv, objectVars
  <2>2. CASE files' = files
    BY <1>1, <2>1, <2>2
  <2>3. CASE openOther
    <3>1. free # {} /\ files' = [files EXCEPT ![Min(free)] = Other]
      BY <2>3 DEF openOther
    <3>2. Min(free) \in FdNumbers /\ files[Min(free)] = Unused
      <4>1. free \subseteq Nat
        BY FdsAssumption DEF free
      <4>2. Min(free) \in free
        BY <3>1, <4>1, MinIsOne
      <4> QED BY <4>2 DEF free
    <3>3. Other \in FilesOpen
      BY DEF FilesOpen
    <3>4. files' \in [FdNumbers -> FilesOpen]
      BY <1>0, <3>1, <3>2, <3>3
    <3>5. \A n \in FdNumbers : files[n] # Unused => files'[n] = files[n]
      BY <1>0, <3>1, <3>2
    <3>6. \A s : Video(s) # Unused /\ Pipe(s) # Unused
      BY KindsDiffer
    <3> QED BY <2>1, <3>4, <3>5, <3>6
  <2> QED BY <1>14, <2>2, <2>3 DEF World, changeMode, fileVars
<1>15. CASE \E s \in Sessions : workThread(s) \/ EventStep(s)
  <2>1. UNCHANGED <<mDev, isOpened, ctl, files, mHinDevHandle, pipefd>>
    BY <1>15, ThreadStepLeaves DEF priv, fileVars
  <2> QED BY <1>1, <2>1
<1>16. CASE UNCHANGED vars
  BY <1>1, <1>16 DEF vars, objectVars, priv, fileVars
<1> QED BY <1>2, <1>3, <1>5, <1>6, <1>7, <1>8, <1>9, <1>10, <1>11, <1>12, <1>13,
           <1>14, <1>15, <1>16 DEF Next, CallStep, NewCall

(* Only the destructor after a get_format() that failed can close a file    *)
(* that is not its own.                                                     *)
LEMMA RobbedSteps ==
  ASSUME Typed, CallInv, FileInv, [Next]_vars, robbed' # robbed
  PROVE  ctl = "delete" /\ isOpened = FALSE
<1> SUFFICES ASSUME ~(ctl = "delete" /\ isOpened = FALSE) PROVE FALSE
  OBVIOUS
<1> USE DEF FileInv, HasFiles
<1>1. ASSUME NEW s, NEW n, NEW what, closes(s, n, what), files[n] = what PROVE FALSE
  BY <1>1 DEF closes
<1>2. CASE get_formatFails
  <2>1. closes(mDev, mHinDevHandle[mDev], Video(mDev)) /\ ctl = "get_format"
    BY <1>2 DEF get_formatFails
  <2> QED BY <1>1, <2>1 DEF CallInv
<1>3. CASE closePipeEnds
  <2>1. closes(mDev, pipefd[mDev], Pipe(mDev)) /\ ctl = "close pipe"
    BY <1>3 DEF closePipeEnds
  <2> QED BY <1>1, <2>1 DEF CallInv, Stopping
<1>4. CASE closeVideo
  <2>1. closes(mDev, mHinDevHandle[mDev], Video(mDev)) /\ ctl = "close"
    BY <1>4 DEF closeVideo, closesVideo
  <2> QED BY <1>1, <2>1
<1>5. CASE deleteDevice
  <2>1. ctl = "delete" /\ isOpened = TRUE
    BY <1>5 DEF deleteDevice, Typed
  <2>2. files[mHinDevHandle[mDev]] = Video(mDev) /\ mHinDevHandle[mDev] \in FdNumbers
    BY <2>1
  <2>3. mHinDevHandle[mDev] # NoFd
    BY <2>2, FdsAssumption DEF NoFd
  <2>4. file(mHinDevHandle[mDev]) = Video(mDev)
    BY <2>2, <2>3 DEF file
  <2> QED BY <1>5, <2>4 DEF deleteDevice
<1>6. CASE hin_dev_open \/ get_format \/ setOpened \/ requestExit \/ initialize \/ stopThreads
  BY <1>6 DEF hin_dev_open, get_format, setOpened, requestExit, initialize, stopThreads, fileVars
<1>7. CASE closePipe \/ closed \/ device_close \/ set_preview_info \/ open_stream \/ close_stream
  BY <1>7 DEF closePipe, closed, device_close, set_preview_info, open_stream, close_stream, fileVars
<1>8. CASE World
  BY <1>8, WorldLeaves
<1>9. CASE \E s \in Sessions : workThread(s) \/ EventStep(s)
  BY <1>9, ThreadStepLeaves DEF fileVars
<1>10. CASE UNCHANGED vars
  BY <1>10 DEF vars, fileVars
<1> QED BY <1>2, <1>3, <1>4, <1>5, <1>6, <1>7, <1>8, <1>9, <1>10 DEF Next, CallStep, NewCall

LEMMA TypesKept ==
  ASSUME Typed, CallInv, FileInv, [Next]_vars
  PROVE  Typed'
<1>1. files' \in [FdNumbers -> FilesOpen]
  BY FilesKept
<1>2. ASSUME NEW s \in Sessions, EventStep(s) PROVE Typed'
  <2>1. ThreadMoves(s) /\ events' \in [Sessions -> SUBSET EventTypes]
    BY <1>2, EventMoves
  <2>2. PICK thread \in Threads : event' = [event EXCEPT ![s] = thread]
                                  /\ (thread.pc = "blocked" => thread.of \in Sessions)
    BY <2>1 DEF ThreadMoves
  <2>3. event' \in [Sessions -> Threads]
    BY <2>2 DEF Typed
  <2>4. \A t \in Sessions : event'[t].pc = "blocked" => event'[t].of \in Sessions
    BY <2>2 DEF Typed
  <2>5. UNCHANGED <<isOpened, out_buffer, mHinDevHandle, pipefd, mSidebandHandle, files, mode, robbed>>
    BY <1>2, ThreadStepLeaves DEF priv, streamVars, fileVars, source
  <2>6. UNCHANGED work
    BY <1>2 DEF EventStep, pollQuit, pollEvent, dequeueEvent, refuse, accept,
                handleSourceChange, storeSize, handleCtrl, handleSignalLost, hdmiinout
  <2> QED BY <2>1, <2>3, <2>4, <2>5, <2>6 DEF Typed
<1>3. CASE \E s \in Sessions : workThread(s)
  <2>1. PICK s \in Sessions : work' = [work EXCEPT ![s] = "gone"]
    BY <1>3 DEF workThread
  <2>2. UNCHANGED <<isOpened, out_buffer, mHinDevHandle, pipefd, mSidebandHandle, files, mode,
                    robbed, event, events>>
    BY <1>3 DEF workThread, priv, streamVars, objectVars, fileVars, source
  <2> QED BY <2>1, <2>2 DEF Typed
<1>4. CASE World
  <2>1. UNCHANGED <<isOpened, out_buffer, mHinDevHandle, pipefd, mSidebandHandle, work, event, robbed>>
    BY <1>4, WorldLeaves DEF priv, streamVars, objectVars, threadVars
  <2>2. mode' \in Modes \cup {0} /\ events' \in [Sessions -> SUBSET EventTypes]
    <3>1. CASE openOther
      BY <3>1 DEF openOther, Typed
    <3>2. ASSUME NEW m \in Modes \cup {0}, changeMode(m)
          PROVE  mode' \in Modes \cup {0} /\ events' \in [Sessions -> SUBSET EventTypes]
      <4>1. mode' = m /\ \E types : post(types)
        BY <3>2 DEF changeMode
      <4>2. ASSUME NEW types, post(types) PROVE events' \in [Sessions -> SUBSET EventTypes]
        BY <4>2 DEF post, Typed
      <4> QED BY <4>1, <4>2
    <3> QED BY <1>4, <3>1, <3>2 DEF World
  <2> QED BY <1>1, <2>1, <2>2 DEF Typed
<1>5. ASSUME UNCHANGED <<event, events, mode>>, robbed' \subseteq Sessions,
             isOpened' \in BOOLEAN, out_buffer' \in BOOLEAN,
             mSidebandHandle' \in [Sessions -> BOOLEAN],
             work' \in [Sessions -> {"none", "running", "gone"}],
             UNCHANGED <<mHinDevHandle, pipefd>>
      PROVE  Typed'
  BY <1>1, <1>5 DEF Typed
<1>6. CASE hin_dev_open
  <2>1. UNCHANGED <<isOpened, out_buffer, mSidebandHandle, work, robbed, events, mode>>
    BY <1>6 DEF hin_dev_open, streamVars, source
  <2>2. CASE ctl' = "delete" /\ UNCHANGED <<mHinDevHandle, pipefd, files, event>>
    BY <1>1, <2>1, <2>2 DEF Typed
  <2>3. ASSUME NEW video \in FdNumbers, NEW pipe \in FdNumbers,
               mHinDevHandle' = [mHinDevHandle EXCEPT ![opened + 1] = video],
               pipefd' = [pipefd EXCEPT ![opened + 1] = pipe],
               event' = [event EXCEPT ![opened + 1].pc = "poll"]
        PROVE  Typed'
    <3>1. PICK s \in Sessions : s = opened + 1
      BY <1>6, OpenFiles
    <3>2. event' = [event EXCEPT ![s] = [event[s] EXCEPT !.pc = "poll"]]
      BY <2>3, <3>1
    <3>3. [event[s] EXCEPT !.pc = "poll"] \in Threads /\ [event[s] EXCEPT !.pc = "poll"].pc = "poll"
      <4>1. event[s] \in Threads
        BY DEF Typed
      <4>2. [event[s] EXCEPT !.pc = "poll"] \in Threads
        BY <4>1, ThreadFields DEF ThreadPlaces
      <4>3. [event[s] EXCEPT !.pc = "poll"].pc = "poll"
        BY <4>1 DEF Threads
      <4> QED BY <4>2, <4>3
    <3>4. event' \in [Sessions -> Threads]
          /\ \A t \in Sessions : event'[t].pc = "blocked" => event'[t].of \in Sessions
      BY <3>2, <3>3 DEF Typed
    <3>5. mHinDevHandle' \in [Sessions -> FdNumbers \cup {NoFd}]
          /\ pipefd' \in [Sessions -> FdNumbers \cup {NoFd}]
      BY <2>3, <3>1 DEF Typed
    <3> QED BY <1>1, <2>1, <3>4, <3>5 DEF Typed
  <2> QED BY <1>6, <2>2, <2>3, OpenFiles
<1>7. CASE get_format \/ setOpened \/ requestExit \/ initialize \/ closePipe
  <2>1. UNCHANGED <<event, events, mode, robbed, out_buffer, mSidebandHandle, work,
                    mHinDevHandle, pipefd>> /\ isOpened' \in {isOpened, TRUE, FALSE}
    BY <1>7 DEF get_format, setOpened, requestExit, initialize, device_open, closePipe,
                priv, streamVars, objectVars, threadVars, fileVars, source
  <2> QED BY <1>5, <2>1 DEF Typed
<1>8. CASE closed \/ device_close \/ set_preview_info \/ close_stream
  <2>1. UNCHANGED <<event, events, mode, robbed, mSidebandHandle, work, mHinDevHandle, pipefd>>
        /\ isOpened' \in {isOpened, FALSE} /\ out_buffer' \in {out_buffer, FALSE}
    BY <1>8 DEF closed, forgetDevice, device_close, set_preview_info, close_stream,
                priv, streamVars, objectVars, threadVars, fileVars, source
  <2> QED BY <1>5, <2>1 DEF Typed
<1>9. ASSUME closes(mDev, mHinDevHandle[mDev], Video(mDev)) \/ closes(mDev, pipefd[mDev], Pipe(mDev))
             \/ deleteDevice, mDev # NULL
      PROVE  robbed' \subseteq Sessions
  BY <1>9, DeviceIsSession DEF closes, deleteDevice, Typed
<1>10. CASE get_formatFails \/ closePipeEnds \/ closeVideo \/ deleteDevice
  <2>1. UNCHANGED <<event, events, mode, isOpened, out_buffer, mSidebandHandle, work,
                    mHinDevHandle, pipefd>>
    BY <1>10 DEF get_formatFails, closePipeEnds, closeVideo, deleteDevice,
                 priv, streamVars, objectVars, threadVars, source
  <2>2. mDev # NULL
    BY <1>10 DEF get_formatFails, closePipeEnds, closeVideo, deleteDevice, CallInv, Stopping
  <2>3. robbed' \subseteq Sessions
    BY <1>9, <1>10, <2>2 DEF get_formatFails, closePipeEnds, closeVideo, closesVideo
  <2> QED BY <1>5, <2>1, <2>3 DEF Typed
<1>11. CASE open_stream
  <2>1. UNCHANGED <<event, events, mode, isOpened, robbed, mHinDevHandle, pipefd>>
        /\ work' \in {work, [work EXCEPT ![mDev] = "running"]} /\ (clone(TRUE) \/ clone(FALSE))
    BY <1>11 DEF open_stream, priv, fileVars, source
  <2>2. out_buffer' \in {out_buffer, TRUE}
        /\ mSidebandHandle' \in {mSidebandHandle, [mSidebandHandle EXCEPT ![mDev] = TRUE]}
    BY <2>1 DEF clone, getSindebandBufferHandle, streamVars
  <2> QED BY <1>5, <2>1, <2>2 DEF Typed
<1>12. CASE stopThreads
  <2>1. UNCHANGED <<event, events, mode, isOpened, out_buffer, robbed, work, mHinDevHandle, pipefd>>
        /\ mSidebandHandle' = [mSidebandHandle EXCEPT ![mDev] = FALSE]
    BY <1>12 DEF stopThreads, release_buffer, priv, streamVars, fileVars, source
  <2> QED BY <1>5, <2>1 DEF Typed
<1>13. CASE UNCHANGED vars
  <2>1. UNCHANGED <<event, events, mode, isOpened, out_buffer, mSidebandHandle, robbed, work,
                    mHinDevHandle, pipefd>>
    BY <1>13 DEF vars, priv, streamVars, objectVars, threadVars, fileVars, source
  <2> QED BY <1>5, <2>1 DEF Typed
<1> QED BY <1>2, <1>3, <1>4, <1>6, <1>7, <1>8, <1>10, <1>11, <1>12, <1>13
        DEF Next, CallStep, NewCall

------------------------------------------------------------------------------
(* The threads of deleted objects.                                          *)

(* An object that runs a stream is never deleted: close_stream() leaves it  *)
(* behind.  One that is deleted has had no WorkThread and has joined its    *)
(* event thread.                                                            *)
ThreadInv ==
  /\ \A s \in Sessions : s > opened => work[s] = "none" /\ event[s] = NoThread
  /\ deleted \subseteq 1 .. opened /\ mDev \notin deleted
  /\ mDev # NULL /\ out_buffer = FALSE /\ ctl \notin Stopping \cup {"closing"}
       => work[mDev] = "none"
  /\ NoUseAfterDelete

LEMMA DeletedAreSessions ==
  ASSUME CallInv, ThreadInv
  PROVE  \A s \in deleted : s \in Sessions
<1>1. \A s \in deleted : s \in 1 .. Cardinality(Sessions)
  BY SessionNumbers DEF CallInv, ThreadInv
<1> QED BY <1>1, SessionNumbers

LEMMA ThreadsKept ==
  ASSUME Typed, CallInv, ThreadInv, [Next]_vars
  PROVE  ThreadInv'
<1> USE DEF ThreadInv, NoUseAfterDelete
<1>0. \A s \in Sessions : s \in Nat /\ s # 0
  BY SessionNumbers
<1>1. ASSUME UNCHANGED <<opened, deleted, mDev, event, work>>,
             mDev # NULL /\ out_buffer' = FALSE /\ ctl' \notin Stopping \cup {"closing"}
               => out_buffer = FALSE /\ ctl \notin Stopping \cup {"closing"}
      PROVE  ThreadInv'
  BY <1>1
<1>2. CASE hin_dev_open
  <2>1. PICK d \in Sessions : d = opened + 1 /\ opened' = d /\ mDev' = d
    BY <1>2, OpenFiles
  <2>2. UNCHANGED <<work, deleted, out_buffer>>
    BY <1>2 DEF hin_dev_open, streamVars
  <2>3. d > opened /\ work[d] = "none" /\ d \notin deleted /\ deleted \subseteq 1 .. opened'
    BY <1>0, <2>1 DEF CallInv
  <2>4. \A s \in Sessions : s # d => event'[s] = event[s]
    <3>1. \/ UNCHANGED event
          \/ event' = [event EXCEPT ![opened + 1].pc = "poll"]
      BY <1>2, OpenFiles
    <3> QED BY <2>1, <3>1 DEF Typed
  <2>5. \A s \in Sessions : s > opened' => s > opened /\ s # d
    BY <1>0, <2>1 DEF CallInv
  <2>6. \A s \in deleted : s \in Sessions
    BY DeletedAreSessions
  <2> QED BY <2>1, <2>2, <2>3, <2>4, <2>5, <2>6
<1>3. CASE get_format \/ setOpened \/ get_formatFails \/ requestExit \/ device_close
  <2>1. UNCHANGED <<opened, deleted, mDev, event, work, out_buffer>>
    BY <1>3 DEF get_format, setOpened, get_formatFails, requestExit, device_close,
                priv, streamVars, objectVars, threadVars
  <2>2. ctl \notin Stopping \cup {"closing"}
    BY <1>3 DEF get_format, setOpened, get_formatFails, requestExit, device_close, Stopping
  <2> QED BY <1>1, <2>1, <2>2
<1>4. CASE deleteDevice
  <2>1. ctl = "delete" /\ deleted' = deleted \cup {mDev} /\ mDev' = NULL
        /\ event[mDev].pc \in {"none", "gone"} /\ UNCHANGED <<opened, event, work>>
    BY <1>4 DEF deleteDevice, closeEventThread
  <2>2. out_buffer = FALSE /\ mDev # NULL
    BY <2>1 DEF CallInv, Typed
  <2>3. work[mDev] = "none"
    BY <2>1, <2>2 DEF Stopping
  <2>4. mDev \in 1 .. opened /\ NULL \notin 1 .. opened
    BY <1>0, <2>2, DeviceIsSession DEF CallInv, NULL
  <2> QED BY <2>1, <2>3, <2>4
<1>5. CASE initialize \/ set_preview_info \/ closePipe
  <2>1. UNCHANGED <<opened, deleted, mDev, event, work, out_buffer>>
    BY <1>5 DEF initialize, set_preview_info, closePipe, priv, streamVars, objectVars, threadVars
  <2>2. ctl \notin Stopping \cup {"closing"} \/ ctl' \in Stopping
    BY <1>5 DEF initialize, set_preview_info, closePipe, writeQuit, Stopping
  <2> QED BY <1>1, <2>1, <2>2
<1>6. CASE open_stream
  <2>1. UNCHANGED <<opened, deleted, mDev, event>> /\ mDev # NULL /\ out_buffer = FALSE
        /\ ctl = "idle" /\ (clone(TRUE) \/ (clone(FALSE) /\ UNCHANGED work))
        /\ (work' = [work EXCEPT ![mDev] = "running"] \/ work' = work)
    BY <1>6 DEF open_stream, priv, Typed
  <2>2. mDev \in Sessions /\ mDev = opened
    BY <2>1, DeviceIsSession DEF CallInv
  <2>3. CASE clone(TRUE)
    <3>1. out_buffer' = TRUE
      BY <2>3 DEF clone
    <3>2. \A s \in Sessions : s # mDev => work'[s] = work[s]
      BY <2>1, <2>2 DEF Typed
    <3>3. \A s \in Sessions : s > opened => s # mDev
      BY <1>0, <2>2 DEF CallInv
    <3>4. \A s \in deleted : s \in Sessions /\ s # mDev
      BY DeletedAreSessions
    <3> QED BY <2>1, <3>1, <3>2, <3>3, <3>4
  <2>4. CASE clone(FALSE) /\ UNCHANGED work
    BY <1>1, <2>1, <2>4 DEF Stopping, clone, streamVars
  <2> QED BY <2>1, <2>3, <2>4
<1>7. CASE close_stream
  <2>1. UNCHANGED <<opened, deleted, mDev, event, work>> /\ ctl' = "stop"
    BY <1>7 DEF close_stream, priv, threadVars
  <2> QED BY <1>1, <2>1 DEF Stopping
<1>8. CASE stopThreads \/ closePipeEnds \/ closeVideo
  <2>1. UNCHANGED <<opened, deleted, mDev, event, work>> /\ ctl' \in Stopping
    BY <1>8 DEF stopThreads, closePipeEnds, closeVideo, Stopping, priv, objectVars, threadVars
  <2> QED BY <1>1, <2>1
<1>9. CASE closed
  <2>1. UNCHANGED <<opened, deleted, event, work>>
    BY <1>9 DEF closed, objectVars, threadVars
  <2>2. \/ mDev' = mDev /\ ctl' = "closing"
        \/ mDev' = NULL
    BY <1>9 DEF closed, forgetDevice
  <2>3. NULL \notin deleted
    BY DEF NULL
  <2> QED BY <2>1, <2>2, <2>3
<1>10. CASE World
  BY <1>1, <1>10, WorldLeaves DEF priv, objectVars, threadVars, streamVars
<1>11. ASSUME NEW s \in Sessions, workThread(s) PROVE ThreadInv'
  <2>1. UNCHANGED <<opened, deleted, mDev, event, out_buffer, ctl>>
    BY <1>11 DEF workThread, priv, objectVars, streamVars
  <2>2. work[s] = "running" /\ work' = [work EXCEPT ![s] = "gone"]
    BY <1>11 DEF workThread
  <2>3. s \notin deleted /\ ~(s > opened) /\ \A t \in Sessions : t # s => work'[t] = work[t]
    BY <2>2 DEF Typed
  <2>4. \A t \in deleted : t \in Sessions
    BY DeletedAreSessions
  <2>5. mDev # NULL => mDev \in Sessions
    BY DeviceIsSession
  <2> QED BY <2>1, <2>2, <2>3, <2>4, <2>5
<1>12. ASSUME NEW s \in Sessions, EventStep(s) PROVE ThreadInv'
  <2>1. UNCHANGED <<opened, deleted, mDev, out_buffer, ctl>>
    BY <1>12, ThreadStepLeaves DEF priv, streamVars
  <2>2. UNCHANGED work
    BY <1>12 DEF EventStep, pollQuit, pollEvent, dequeueEvent, refuse, accept,
                handleSourceChange, storeSize, handleCtrl, handleSignalLost, hdmiinout
  <2>3. event[s].pc \notin {"none", "gone", "crashed"} /\ \A t \in Sessions : t # s => event'[t] = event[t]
    BY <1>12, EventMoves DEF ThreadMoves, Typed
  <2>4. s \notin deleted /\ ~(s > opened)
    <3>1. NoThread.pc = "none"
      BY DEF NoThread
    <3> QED BY <2>3, <3>1
  <2>5. \A t \in deleted : t \in Sessions
    BY DeletedAreSessions
  <2> QED BY <2>1, <2>2, <2>3, <2>4, <2>5
<1>13. CASE UNCHANGED vars
  BY <1>1, <1>13 DEF vars, priv, streamVars, objectVars, threadVars
<1> QED BY <1>2, <1>3, <1>4, <1>5, <1>6, <1>7, <1>8, <1>9, <1>10, <1>11, <1>12, <1>13
        DEF Next, CallStep, NewCall

------------------------------------------------------------------------------
(* The size that is reported.                                               *)

SourceChange == "SOURCE_CHANGE"

(* A change is still to be heard of, or is known to be lost.  A thread of   *)
(* an earlier session that is about to store a size counts: the change is   *)
(* lost then.                                                               *)
Coming ==
  \/ mode = 0 \/ missed = TRUE \/ SourceChange \in events[mDev]
  \/ \E s \in Sessions : event[s].type = SourceChange /\ (event[s].pc # "store" \/ s # mDev)

Kept(size) == size = mode \/ Coming

EventRule(s) ==
  /\ event[s].type = SourceChange => event[s].pc \in {"callback", "handle", "store"}
  /\ event[s].pc = "store" => event[s].type = SourceChange

Reporting == mDev # NULL /\ ctl \in {"opened", "idle"}

SizeInv ==
  /\ missed \in BOOLEAN
  /\ \A s \in Sessions : EventRule(s)
  /\ ctl \in {"get_format", "opened"} => event[mDev].pc \notin {"handle", "store"}
  /\ Reporting => \/ event[mDev].pc = "store" /\ Kept(event[mDev].size)
                  \/ event[mDev].pc # "store" /\ Kept(s_HinDevStream)

sizeOf == <<mDev, ctl, s_HinDevStream, mode>>

(* A step of a thread that holds no change of the source before or after.   *)
LEMMA OtherEvent ==
  ASSUME Typed, CallInv, SizeInv, NEW s \in Sessions, NEW thread,
         event[s].type # SourceChange, event' = [event EXCEPT ![s] = thread],
         thread.type # SourceChange, thread.pc # "store",
         thread.pc = "handle" => ctl \notin {"get_format", "opened"},
         missed' = missed, UNCHANGED <<sizeOf, events>>
  PROVE  SizeInv'
<1>1. event'[s] = thread /\ \A t \in Sessions : t # s => event'[t] = event[t]
  BY DEF Typed
<1>2. UNCHANGED <<mDev, ctl, s_HinDevStream, mode>>
  BY DEF sizeOf
<1>3. \A t \in Sessions : EventRule(t)'
  BY <1>1 DEF SizeInv, EventRule
<1>4. mDev # NULL => mDev \in Sessions
  BY DeviceIsSession
<1>5. event[s].pc # "store"
  BY DEF SizeInv, EventRule
<1>6. Coming => Coming'
  BY <1>1, <1>2 DEF Coming
<1>7. ctl \in {"get_format", "opened"} => mDev \in Sessions
  BY <1>4 DEF CallInv
<1> QED BY <1>1, <1>2, <1>3, <1>4, <1>5, <1>6, <1>7 DEF SizeInv, Reporting, Kept

(* What leaves no event with the thread.                                    *)
LEMMA EventDropped ==
  ASSUME NEW s \in Sessions,
         eventLoop(s) \/ \E where \in {"gone", "dqevent", "crashed"} : eventEnds(s, where)
  PROVE  \E thread : /\ event' = [event EXCEPT ![s] = thread]
                     /\ thread.type = "none" /\ thread.pc \notin {"handle", "store"}
<1>1. PICK where \in {"gone", "dqevent", "crashed", "poll"} :
        event' = [event EXCEPT ![s] = [NoThread EXCEPT !.pc = where]]
  BY DEF eventLoop, eventEnds
<1>2. [NoThread EXCEPT !.pc = where].type = "none" /\ [NoThread EXCEPT !.pc = where].pc = where
  BY DEF NoThread
<1> QED BY <1>1, <1>2

LEMMA SizeByEvent ==
  ASSUME Typed, CallInv, FileInv, SizeInv, NEW s \in Sessions, EventStep(s)
  PROVE  SizeInv'
<1>0. /\ UNCHANGED <<mDev, isOpened, ctl, mode>>
      /\ event[s] \in Threads /\ DOMAIN event = Sessions
      /\ mDev # NULL => mDev \in Sessions
      /\ EventRule(s)
  BY ThreadStepLeaves, DeviceIsSession DEF priv, source, Typed, SizeInv
<1> USE DEF SourceChange
<1>1. CASE pollQuit(s) \/ pollEvent(s)
  <2>1. event[s].pc = "poll" /\ UNCHANGED <<s_HinDevStream, missed, events>>
        /\ \E where \in {"gone", "dqevent", "crashed"} : eventEnds(s, where)
    BY <1>1 DEF pollQuit, pollEvent, sizeVars
  <2>2. event[s].type # SourceChange
    BY <1>0, <2>1 DEF EventRule
  <2> QED BY <1>0, <2>1, <2>2, EventDropped, OtherEvent DEF sizeOf
<1>2. CASE dequeueEvent(s)
  <2>1. event[s].pc \in {"dqevent", "blocked"} /\ UNCHANGED <<s_HinDevStream, missed>>
    BY <1>2 DEF dequeueEvent, sizeVars
  <2>2. event[s].type # SourceChange /\ event[s].pc # "store"
    BY <1>0, <2>1 DEF EventRule
  <2>3. PICK t :
          \/ eventLoop(s) /\ UNCHANGED events
          \/ /\ UNCHANGED events
             /\ event' = [event EXCEPT ![s] = [NoThread EXCEPT !.pc = "blocked", !.of = t]]
          \/ \E type \in events[t] : taken(s, t, type)
    BY <1>2 DEF dequeueEvent
  <2>4. CASE eventLoop(s) /\ UNCHANGED events
    BY <1>0, <2>1, <2>2, <2>4, EventDropped, OtherEvent DEF sizeOf
  <2>5. CASE UNCHANGED events
             /\ event' = [event EXCEPT ![s] = [NoThread EXCEPT !.pc = "blocked", !.of = t]]
    <3>1. PICK thread : thread = [NoThread EXCEPT !.pc = "blocked", !.of = t]
      OBVIOUS
    <3>2. thread.type = "none" /\ thread.pc = "blocked"
      BY <3>1 DEF NoThread
    <3> QED BY <1>0, <2>1, <2>2, <2>5, <3>1, <3>2, OtherEvent DEF sizeOf
  <2>6. ASSUME NEW type \in events[t], taken(s, t, type) PROVE SizeInv'
    <3>1. PICK thread : thread = [NoThread EXCEPT !.pc = "callback", !.type = type]
      OBVIOUS
    <3>2. thread.type = type /\ thread.pc = "callback"
      BY <3>1 DEF NoThread
    <3>3. event'[s] = thread /\ \A u \in Sessions : u # s => event'[u] = event[u]
      BY <1>0, <2>6, <3>1 DEF taken
    <3>4. \A u \in Sessions : EventRule(u)'
      BY <3>2, <3>3 DEF SizeInv, EventRule
    <3>5. ASSUME mDev \in Sessions, Coming PROVE Coming'
      <4>1. SourceChange \in events[mDev]
              => SourceChange \in events'[mDev] \/ type = SourceChange
        <5>1. events' = [events EXCEPT ![t] = @ \ {type}] /\ DOMAIN events = Sessions
          BY <2>6 DEF taken, Typed
        <5> QED BY <3>5, <5>1
      <4>2. CASE type = SourceChange
        BY <1>0, <3>2, <3>3, <4>2 DEF Coming
      <4>3. CASE type # SourceChange
        BY <1>0, <2>1, <2>2, <3>3, <3>5, <4>1, <4>3 DEF Coming
      <4> QED BY <4>2, <4>3
    <3> QED BY <1>0, <2>1, <2>2, <3>2, <3>3, <3>4, <3>5 DEF SizeInv, Reporting, Kept, CallInv
  <2> QED BY <2>3, <2>4, <2>5, <2>6
<1>3. CASE refuse(s)
  <2>1. event[s].pc = "callback" /\ isOpened = FALSE /\ eventLoop(s)
        /\ UNCHANGED <<events, s_HinDevStream>>
        /\ missed' = (missed \/ (event[s].type = "SOURCE_CHANGE" /\ ctl = "opened"))
    BY <1>3 DEF refuse, Typed
  <2>2. CASE event[s].type # SourceChange
    <3>1. missed' = missed
      BY <2>1, <2>2 DEF SizeInv
    <3> QED BY <1>0, <2>1, <2>2, <3>1, EventDropped, OtherEvent DEF sizeOf
  <2>3. CASE event[s].type = SourceChange
    <3>1. PICK thread : event' = [event EXCEPT ![s] = thread]
                        /\ thread.type = "none" /\ thread.pc \notin {"handle", "store"}
      BY <2>1, EventDropped
    <3>2. event'[s] = thread /\ \A u \in Sessions : u # s => event'[u] = event[u]
      BY <1>0, <3>1
    <3>3. \A u \in Sessions : EventRule(u)'
      BY <3>1, <3>2 DEF SizeInv, EventRule
    <3>4. missed' \in BOOLEAN /\ (ctl = "opened" => missed' = TRUE)
      BY <2>1, <2>3 DEF SizeInv
    <3>5. Reporting => ctl = "opened"
      BY <2>1 DEF Reporting, CallInv
    <3>6. ctl = "opened" => Coming'
      BY <3>4 DEF Coming
    <3>7. ctl \in {"get_format", "opened"} => event'[mDev].pc \notin {"handle", "store"}
      BY <1>0, <3>1, <3>2 DEF SizeInv, CallInv
    <3> QED BY <1>0, <3>3, <3>4, <3>5, <3>6, <3>7 DEF SizeInv, Reporting, Kept
  <2> QED BY <2>2, <2>3
<1>4. CASE accept(s)
  <2>1. event[s].pc = "callback" /\ isOpened = TRUE /\ event' = [event EXCEPT ![s].pc = "handle"]
        /\ UNCHANGED <<events, s_HinDevStream, missed>>
    BY <1>4 DEF accept, sizeVars, Typed
  <2>2. event'[s].pc = "handle" /\ event'[s].type = event[s].type
        /\ \A u \in Sessions : u # s => event'[u] = event[u]
    BY <1>0, <2>1 DEF Threads
  <2>3. \A u \in Sessions : EventRule(u)'
    BY <2>2 DEF SizeInv, EventRule
  <2>4. Coming => Coming'
    BY <1>0, <2>1, <2>2 DEF Coming
  <2> QED BY <1>0, <2>1, <2>2, <2>3, <2>4 DEF SizeInv, Reporting, Kept, CallInv
<1>5. CASE handleSourceChange(s)
  <2>1. event[s].pc = "handle" /\ event[s].type = SourceChange
        /\ UNCHANGED <<events, s_HinDevStream, missed>>
    BY <1>5 DEF handleSourceChange, sizeVars
  <2>2. ASSUME ~Reporting, NEW thread, event' = [event EXCEPT ![s] = thread],
               thread.type = "none", thread.pc \notin {"handle", "store"}
        PROVE  SizeInv'
    <3>1. event'[s] = thread /\ \A u \in Sessions : u # s => event'[u] = event[u]
      BY <1>0, <2>2
    <3>2. \A u \in Sessions : EventRule(u)'
      BY <2>2, <3>1 DEF SizeInv, EventRule
    <3> QED BY <1>0, <2>1, <2>2, <3>1, <3>2 DEF SizeInv, Reporting, CallInv
  <2>3. CASE mDev = NULL
    <3>1. eventEnds(s, "crashed") /\ ~Reporting
      BY <1>5, <2>3 DEF handleSourceChange, Reporting
    <3> QED BY <2>2, <3>1, EventDropped
  <2>4. CASE mDev # NULL /\ ~isVideoOf(mDev)
    <3>1. eventLoop(s)
      BY <1>5, <2>4 DEF handleSourceChange
    <3>2. ~Reporting
      <4>1. SUFFICES ASSUME Reporting PROVE FALSE
        OBVIOUS
      <4>2. mHinDevHandle[mDev] \in FdNumbers /\ files[mHinDevHandle[mDev]] = Video(mDev)
        BY <4>1 DEF Reporting, FileInv, HasFiles
      <4>3. file(mHinDevHandle[mDev]) = Video(mDev)
        BY <4>2, FdsAssumption DEF file, NoFd
      <4> QED BY <2>4, <4>3 DEF isVideoOf, Video
    <3> QED BY <2>2, <3>1, <3>2, EventDropped
  <2>5. CASE mDev # NULL /\ isVideoOf(mDev)
    <3>1. event' = [event EXCEPT ![s].pc = "store", ![s].of = mDev, ![s].size = mode]
      BY <1>5, <2>5 DEF handleSourceChange
    <3>2. event'[s].pc = "store" /\ event'[s].type = SourceChange /\ event'[s].size = mode
          /\ \A u \in Sessions : u # s => event'[u] = event[u]
      BY <1>0, <2>1, <3>1 DEF Threads
    <3>3. \A u \in Sessions : EventRule(u)'
      BY <3>2 DEF SizeInv, EventRule
    <3>4. CASE s = mDev
      BY <1>0, <2>1, <3>2, <3>3, <3>4 DEF SizeInv, Reporting, Kept
    <3>5. CASE s # mDev
      <4>1. Coming'
        BY <1>0, <3>2, <3>5 DEF Coming
      <4> QED BY <1>0, <2>1, <2>5, <3>2, <3>3, <3>5, <4>1 DEF SizeInv, Reporting, Kept
    <3> QED BY <3>4, <3>5
  <2> QED BY <2>3, <2>4, <2>5
<1>6. CASE storeSize(s)
  <2>1. event[s].pc = "store" /\ s_HinDevStream' = event[s].size
        /\ missed' = (missed \/ s # mDev) /\ UNCHANGED events
        /\ IF mDev = NULL THEN eventEnds(s, "crashed") ELSE eventLoop(s)
    BY <1>6 DEF storeSize
  <2>2. PICK thread : event' = [event EXCEPT ![s] = thread]
                      /\ thread.type = "none" /\ thread.pc \notin {"handle", "store"}
    BY <2>1, EventDropped
  <2>3. event'[s] = thread /\ \A u \in Sessions : u # s => event'[u] = event[u]
    BY <1>0, <2>2
  <2>4. \A u \in Sessions : EventRule(u)'
    BY <2>2, <2>3 DEF SizeInv, EventRule
  <2>5. missed' \in BOOLEAN /\ (s # mDev => missed' = TRUE) /\ (s = mDev => missed' = missed)
    BY <2>1 DEF SizeInv
  <2>6. CASE s # mDev
    <3>1. Coming'
      BY <2>5, <2>6 DEF Coming
    <3> QED BY <1>0, <2>2, <2>3, <2>4, <2>5, <2>6, <3>1 DEF SizeInv, Reporting, Kept
  <2>7. CASE s = mDev
    <3>1. Coming => Coming'
      BY <1>0, <2>1, <2>3, <2>5, <2>7 DEF Coming
    <3> QED BY <1>0, <2>1, <2>2, <2>3, <2>4, <2>5, <2>7, <3>1 DEF SizeInv, Reporting, Kept
  <2> QED BY <2>6, <2>7
<1>7. CASE handleCtrl(s) \/ handleSignalLost(s) \/ hdmiinout(s)
  <2>1. UNCHANGED <<events, s_HinDevStream, missed>>
    BY <1>7 DEF handleCtrl, handleSignalLost, hdmiinout, sizeVars
  <2>2. event[s].type # SourceChange
    BY <1>0, <1>7 DEF handleCtrl, handleSignalLost, hdmiinout, EventRule
  <2>3. ASSUME NEW where \in {"lock", "locked"},
               \/ event' = [event EXCEPT ![s].pc = where]
               \/ event' = [event EXCEPT ![s].pc = where, ![s].of = mDev]
        PROVE  SizeInv'
    <3>1. PICK thread \in {[event[s] EXCEPT !.pc = where], [event[s] EXCEPT !.pc = where, !.of = mDev]} :
            event' = [event EXCEPT ![s] = thread]
      BY <1>0, <2>3
    <3>2. thread.type = event[s].type /\ thread.pc = where
      BY <1>0, <3>1 DEF Threads
    <3> QED BY <1>0, <2>1, <2>2, <3>1, <3>2, OtherEvent DEF sizeOf
  <2>4. \/ eventLoop(s) \/ eventEnds(s, "crashed")
        \/ event' = [event EXCEPT ![s].pc = "lock", ![s].of = mDev]
        \/ event' = [event EXCEPT ![s].pc = "locked"]
    BY <1>7 DEF handleCtrl, handleSignalLost, hdmiinout
  <2> QED BY <1>0, <2>1, <2>2, <2>3, <2>4, EventDropped, OtherEvent DEF sizeOf
<1> QED BY <1>1, <1>2, <1>3, <1>4, <1>5, <1>6, <1>7 DEF EventStep

LEMMA SizeKept ==
  ASSUME Typed, CallInv, FileInv, ThreadInv, SizeInv, [Next]_vars
  PROVE  SizeInv'
<1>0. mDev # NULL => mDev \in Sessions
  BY DeviceIsSession
<1> USE DEF SourceChange
<1>1. ASSUME UNCHANGED <<event, events, sizeVars, mDev, mode>>,
             Reporting' => Reporting,
             ctl' \in {"get_format", "opened"} => ctl \in {"get_format", "opened"}
      PROVE  SizeInv'
  <2>1. Coming' <=> Coming
    BY <1>1 DEF Coming, sizeVars
  <2>2. \A s \in Sessions : EventRule(s)'
    BY <1>1 DEF SizeInv, EventRule
  <2> QED BY <1>1, <2>1, <2>2 DEF SizeInv, Kept, sizeVars
(* Outside the scope of the report only the events matter.                  *)
<1>2. ASSUME UNCHANGED <<event, missed>>, ~Reporting',
             ctl' \notin {"get_format", "opened"}
      PROVE  SizeInv'
  <2>1. \A s \in Sessions : EventRule(s)'
    BY <1>2 DEF SizeInv, EventRule
  <2> QED BY <1>2, <2>1 DEF SizeInv
<1>3. CASE hin_dev_open
  <2>1. UNCHANGED missed /\ ctl' \in {"delete", "get_format"}
    BY <1>3, OpenFiles DEF hin_dev_open, sizeVars
  <2>2. CASE ctl' = "delete" /\ UNCHANGED event
    BY <1>2, <2>1, <2>2 DEF Reporting
  <2>3. CASE ctl' = "get_format" /\ event' = [event EXCEPT ![opened + 1].pc = "poll"]
    <3>1. PICK d \in Sessions : d = opened + 1 /\ mDev' = d
      BY <1>3, OpenFiles
    <3>2. d > opened
      BY <3>1 DEF CallInv
    <3>3. event[d].type = "none"
      BY <3>2 DEF ThreadInv, NoThread
    <3>4. event'[d].pc = "poll" /\ event'[d].type = "none"
          /\ \A s \in Sessions : s # d => event'[s] = event[s]
      <4>1. event[d] \in Threads
        BY DEF Typed
      <4> QED BY <2>3, <3>1, <3>3, <4>1 DEF Typed, Threads
    <3>5. \A s \in Sessions : EventRule(s)'
      BY <3>4 DEF SizeInv, EventRule
    <3> QED BY <2>1, <2>3, <3>1, <3>4, <3>5 DEF SizeInv, Reporting
  <2> QED BY <1>3, <2>2, <2>3, OpenFiles
<1>4. CASE get_format
  <2>1. s_HinDevStream' = mode /\ missed' = FALSE /\ ctl = "get_format" /\ ctl' = "opened"
        /\ UNCHANGED <<mDev, event, mode>>
    BY <1>4 DEF get_format, priv, threadVars, source
  <2>2. event'[mDev].pc \notin {"handle", "store"}
    BY <2>1 DEF SizeInv
  <2>3. \A s \in Sessions : EventRule(s)'
    BY <2>1 DEF SizeInv, EventRule
  <2> QED BY <2>1, <2>2, <2>3 DEF SizeInv, Reporting, Kept
<1>5. CASE get_formatFails
  <2>1. missed' = FALSE /\ ctl' = "delete" /\ UNCHANGED event
    BY <1>5 DEF get_formatFails, threadVars
  <2>2. \A s \in Sessions : EventRule(s)'
    BY <2>1 DEF SizeInv, EventRule
  <2> QED BY <2>1, <2>2 DEF SizeInv, Reporting
<1>6. CASE setOpened \/ set_preview_info \/ open_stream
  <2>1. UNCHANGED <<event, events, sizeVars, mDev, mode>>
        /\ (\/ ctl = "opened" /\ ctl' = "idle"
            \/ UNCHANGED ctl)
    BY <1>6 DEF setOpened, set_preview_info, open_stream, priv, threadVars, source
  <2> QED BY <1>1, <2>1 DEF Reporting
<1>7. CASE requestExit \/ device_close \/ close_stream
  <2>1. UNCHANGED <<event, sizeVars>> /\ ctl' \in {"delete", "stop"}
    BY <1>7 DEF requestExit, device_close, close_stream, threadVars
  <2> QED BY <1>2, <2>1 DEF Reporting, sizeVars
<1>8. CASE deleteDevice
  <2>1. UNCHANGED <<event, sizeVars>> /\ ctl' \in {"deleted", "idle"} /\ mDev' = NULL
    BY <1>8 DEF deleteDevice
  <2> QED BY <1>2, <2>1 DEF Reporting, sizeVars
<1>9. CASE initialize
  <2>1. UNCHANGED <<event, sizeVars, mDev>> /\ ctl = "deleted" /\ ctl' = "idle"
    BY <1>9 DEF initialize, threadVars
  <2>2. mDev' = NULL
    BY <2>1 DEF CallInv
  <2> QED BY <1>2, <2>1, <2>2 DEF Reporting, sizeVars
<1>10. CASE stopThreads \/ closePipe \/ closePipeEnds \/ closeVideo
  <2>1. UNCHANGED <<event, sizeVars>> /\ ctl' \in {"quit", "close pipe", "close", "stopped"}
    BY <1>10 DEF stopThreads, closePipe, writeQuit, closePipeEnds, closeVideo, threadVars
  <2> QED BY <1>2, <2>1 DEF Reporting, sizeVars
<1>11. CASE closed
  <2>1. UNCHANGED <<event, sizeVars>>
        /\ (ctl' = "closing" \/ (ctl' = "idle" /\ mDev' = NULL))
    BY <1>11 DEF closed, forgetDevice, threadVars
  <2> QED BY <1>2, <2>1 DEF Reporting, sizeVars
<1>12. CASE openOther
  <2>1. UNCHANGED <<event, events, sizeVars, mDev, mode, ctl>>
    BY <1>12 DEF openOther, priv, threadVars
  <2> QED BY <1>1, <2>1 DEF Reporting
<1>13. ASSUME NEW m \in Modes \cup {0}, changeMode(m) PROVE SizeInv'
  <2>1. UNCHANGED <<mDev, ctl, event, sizeVars>> /\ mode' = m
        /\ (m = 0 \/ (m # 0 /\ post({"SOURCE_CHANGE"})))
    BY <1>13 DEF changeMode, priv, threadVars
  <2>2. \A s \in Sessions : EventRule(s)'
    BY <2>1 DEF SizeInv, EventRule
  <2>3. ASSUME Reporting PROVE Coming'
    <3>1. CASE m = 0
      BY <2>1, <3>1 DEF Coming
    <3>2. CASE m # 0
      <4>1. mHinDevHandle[mDev] \in FdNumbers /\ files[mHinDevHandle[mDev]] = Video(mDev)
            /\ mDev \in Sessions
        BY <1>0, <2>3 DEF Reporting, FileInv, HasFiles
      <4>2. events'[mDev] = events[mDev] \cup ({"SOURCE_CHANGE"} \cap EventTypes)
        BY <2>1, <3>2, <4>1 DEF post
      <4> QED BY <2>1, <4>2 DEF Coming, EventTypes
    <3> QED BY <3>1, <3>2
  <2>4. Reporting' => Reporting
    BY <2>1 DEF Reporting
  <2>5. missed' \in BOOLEAN
        /\ (ctl' \in {"get_format", "opened"} => event'[mDev'].pc \notin {"handle", "store"})
    BY <2>1 DEF SizeInv, sizeVars
  <2> QED BY <2>2, <2>3, <2>4, <2>5 DEF SizeInv, Kept
<1>14. ASSUME NEW s \in Sessions, workThread(s) PROVE SizeInv'
  <2>1. UNCHANGED <<event, events, sizeVars, mDev, mode, ctl>>
    BY <1>14 DEF workThread, priv, source
  <2> QED BY <1>1, <2>1 DEF Reporting
<1>15. CASE UNCHANGED vars
  <2>1. UNCHANGED <<event, events, sizeVars, mDev, mode, ctl>>
    BY <1>15 DEF vars, priv, threadVars, source
  <2> QED BY <1>1, <2>1 DEF Reporting
<1> QED BY <1>3, <1>4, <1>5, <1>6, <1>7, <1>8, <1>9, <1>10, <1>11, <1>12, <1>13, <1>14,
           <1>15, SizeByEvent DEF Next, CallStep, NewCall, World
------------------------------------------------------------------------------
(* The specification.                                                       *)

SessionInv == Typed /\ CallInv /\ HandleInv /\ FileInv /\ ThreadInv /\ SizeInv

LEMMA Begins ==
  Init => SessionInv
<1> SUFFICES ASSUME Init PROVE SessionInv
  OBVIOUS
<1> USE DEF Init
<1>1. Typed
  <2>1. event \in [Sessions -> Threads]
        /\ \A s \in Sessions : event[s].pc = "blocked" => event[s].of \in Sessions
    BY ThreadFields DEF NoThread
  <2>2. files \in [FdNumbers -> FilesOpen]
    BY DEF FilesOpen
  <2>3. mode \in Modes \cup {0}
    BY ModesAssumption, MinIsOne
  <2>4. events \in [Sessions -> SUBSET EventTypes]
    OBVIOUS
  <2> QED BY <2>1, <2>2, <2>3, <2>4 DEF Typed
<1>2. CallInv /\ HandleInv
  BY SessionNumbers DEF CallInv, HandleInv, Stopping
<1>3. FileInv
  BY DEF FileInv, HasFiles
<1>4. ThreadInv
  BY DEF ThreadInv, NoUseAfterDelete
<1>5. SizeInv
  BY DEF SizeInv, EventRule, Reporting, NoThread, SourceChange
<1> QED BY <1>1, <1>2, <1>3, <1>4, <1>5 DEF SessionInv

(* In every reachable state the call is where it should be and one clone is *)
(* counted, the device has its files, deleted objects have no threads, and  *)
(* a size that is not reported is still to be heard of.                     *)
THEOREM AlwaysSession == Spec => []SessionInv
<1>1. SessionInv /\ [Next]_vars => SessionInv'
  BY TypesKept, CallKept, FilesKept, ThreadsKept, SizeKept DEF SessionInv
<1> QED BY Begins, <1>1, PTL DEF Spec

(* Between two steps of the entry points isOpened is not set without a      *)
(* device (hin_dev_open, close_stream).                                     *)
THEOREM DeviceThere == Spec => []OpenedHasDevice
<1>1. SessionInv => OpenedHasDevice
  <2> SUFFICES ASSUME SessionInv, isOpened, mDev = NULL PROVE ctl = "deleted"
    BY DEF OpenedHasDevice
  <2> QED BY DEF SessionInv, CallInv, Stopping
<1> QED BY <1>1, AlwaysSession, PTL

(* close_stream() gives back the clone and the handle it was made from.     *)
THEOREM HandlesGivenBack == Spec => []NoHandleLeak
<1>1. SessionInv => NoHandleLeak
  <2> SUFFICES ASSUME SessionInv, mDev = NULL, ctl = "idle"
               PROVE  clones = 0 /\ \A s \in Sessions : ~mSidebandHandle[s]
    BY DEF NoHandleLeak
  <2>1. out_buffer # TRUE
    BY DEF SessionInv, CallInv
  <2>2. \A s \in Sessions : mSidebandHandle[s] # TRUE /\ mSidebandHandle[s] \in BOOLEAN
    BY <2>1 DEF SessionInv, HandleInv, Typed
  <2> QED BY <2>1, <2>2 DEF SessionInv, HandleInv
<1> QED BY <1>1, AlwaysSession, PTL

(* Deleted objects have no threads, in whichever order sessions, deletions  *)
(* and events follow each other.                                            *)
THEOREM DeletedIsQuiet == Spec => []NoUseAfterDelete
<1>1. SessionInv => NoUseAfterDelete
  BY DEF SessionInv, ThreadInv
<1> QED BY <1>1, AlwaysSession, PTL

(* The size the HAL reports is that of the source, or the change is on its  *)
(* way to the callback, or is one that was missed.                          *)
THEOREM SizeFollows == Spec => []SizeIsCurrent
<1>1. SessionInv => SizeIsCurrent
  <2> SUFFICES ASSUME SessionInv, isOpened, ctl = "idle", mode # 0, ~Announced, ~missed
               PROVE  s_HinDevStream = mode
    BY DEF SizeIsCurrent, configurations
  <2>1. mDev # NULL
    BY DEF SessionInv, CallInv
  <2>2. mDev \in Sessions
    BY <2>1, DeviceIsSession DEF SessionInv
  <2>3. ~Coming
    BY <2>1 DEF Announced, Coming, SourceChange
  <2>4. event[mDev].pc # "store"
    BY <2>2 DEF SessionInv, SizeInv, EventRule, Announced, SourceChange
  <2> QED BY <2>1, <2>3, <2>4 DEF SessionInv, SizeInv, Reporting, Kept
<1> QED BY <1>1, AlwaysSession, PTL

(* Whoever closes a number closes a file of its own, but for the destructor *)
(* after a failed get_format().                                             *)
THEOREM OwnFilesClosed == Spec => ClosesOwnFiles
<1>1. SessionInv /\ [Next]_vars => [robbed' # robbed => ctl = "delete" /\ ~isOpened]_vars
  BY RobbedSteps DEF SessionInv
<1> QED BY <1>1, AlwaysSession, PTL DEF Spec, ClosesOwnFiles
=============================================================================
