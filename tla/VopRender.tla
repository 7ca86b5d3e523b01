------------------------------ MODULE VopRender ------------------------------
(***************************************************************************)
(* DrmVopRender, the singleton that puts buffers on display planes          *)
(* (sideband/DrmVopRender.cpp), in the session HinDevImpl gives it: init()  *)
(* opens the DRM device and detects the displays, start() allocates the     *)
(* buffers, several threads show them, stop() clears the screen, closes the *)
(* device and frees the buffers.  Threads are asked to leave and not waited *)
(* for, so a show may be under way during all of stop().  drmModeSetPlane() *)
(* and the setting of a property are taken to succeed for a plane the crtc  *)
(* can use.                                                                 *)
(***************************************************************************)
EXTENDS BufferManager, SequencesExt

CONSTANTS
  FbIds,       \* framebuffer ids the kernel may give
  Displays,    \* 1 .. number of displays; a crtc and a plane of its own each
  Renderers,   \* threads that call show(): workThread, event thread, ...
  Slots,       \* which of SlotKinds are allocated
  Faults       \* which of FaultKinds may happen

SlotKinds == {"capture", "preview", "signal", "pq", "record"}

(***************************************************************************)
(* alloc  the allocator fails;          addfb  drmModeAddFB2 fails;         *)
(* drm    card0 does not open, or drmModeGetResources fails;                *)
(* plug   a display is plugged or unplugged, as often as it likes.          *)
(***************************************************************************)
FaultKinds == {"alloc", "addfb", "drm", "plug"}

ASSUME DisplaysAssumption == IsFiniteSet(Displays) /\ Displays = 1 .. Cardinality(Displays)
ASSUME SlotsAssumption == Slots \subseteq SlotKinds
ASSUME FaultsAssumption == Faults \subseteq FaultKinds
ASSUME FbIdsAssumption == IsFiniteSet(FbIds) /\ \A f \in FbIds : f \in Nat /\ f > 0

VARIABLES
  mInitialized,      \* the DRM device is open as mDrmFd
  mFbidMap,          \* fd -> framebuffer id; 0 when adding it failed
  mDisplayInfos,     \* empty, or the connected flag of each display
  mDrmModeInfos,     \* of the primary output: a crtc and its plane_id
  plane_res,         \* the planes of the primary output are known
  mEnableSkipFrame,  \* "no", or TRUE since "recent"-ly or "old"
  fbs,               \* the kernel's framebuffers: id -> buffer it was made of
  screen,            \* the framebuffer on the plane of each display
  async,             \* planes with ASYNC_COMMIT set, by the composer
  plugged,           \* displays that are connected
  pc, shown, fbid,   \* each renderer: where, with which handle and fb
  copying,           \* the handles workThread has locked
  ctl,               \* where init(), start() and stop() stand
  slot,              \* the handle in each slot of HinDevImpl
  crashed            \* a null plane was used: the process is gone

renderVars == <<mInitialized, mFbidMap, mDisplayInfos, mDrmModeInfos, plane_res,
                mEnableSkipFrame>>
kernelVars == <<fbs, screen>>
worldVars == <<async, plugged>>
threadVars == <<pc, shown, fbid, copying>>
vars == <<bufferVars, renderVars, kernelVars, worldVars, threadVars, ctl, slot, crashed>>

NoFb == 0
Orphan == "Orphan"       \* the memory of a buffer that has been freed
NoPlane == 0             \* plane_id is -1
noMap == [fd \in {} |-> NoFb]

Init ==
  /\ BufferInit
  /\ mInitialized = FALSE /\ mFbidMap = noMap
  /\ mDisplayInfos = <<>> /\ mDrmModeInfos = <<>> /\ plane_res = FALSE
  /\ mEnableSkipFrame = "no" /\ crashed = FALSE
  /\ fbs = noMap /\ screen = [d \in Displays |-> NoFb]
  /\ async = {} /\ plugged \in SUBSET Displays
  /\ pc = [r \in Renderers |-> "idle"]
  /\ shown = [r \in Renderers |-> NULL] /\ fbid = [r \in Renderers |-> NoFb]
  /\ copying = <<>>
  /\ ctl = "closed"
  /\ slot = [s \in Slots |-> NULL]
------------------------------------------------------------------------------
(* The kernel.                                                              *)

(* drmModeRmFB of some ids: planes that show them are turned off.           *)
RmFB(ids) ==
  /\ fbs' = [f \in DOMAIN fbs \ ids |-> fbs[f]]
  /\ screen' = [d \in Displays |-> IF screen[d] \in ids THEN NoFb ELSE screen[d]]

(* drmModeSetPlane: refused for a plane the crtc cannot use.                *)
SetPlane(fb) ==
  screen' = [d \in Displays |->
               IF fb \in DOMAIN fbs
                    /\ \E i \in DOMAIN mDrmModeInfos :
                         mDrmModeInfos[i] = [crtc |-> d, plane_id |-> d]
                 THEN fb ELSE screen[d]]

(* A framebuffer keeps the memory of a freed buffer.                        *)
Orphaned(h) == fbs' = [f \in DOMAIN fbs |-> IF fbs[f] = h THEN Orphan ELSE fbs[f]]
------------------------------------------------------------------------------
(* The operations of DrmVopRender that hold mVopPlaneLock.                  *)

(* Mutant: the cache of the last session is kept.                           *)
KeepsCache ==
  /\ mInitialized' = TRUE
  /\ mDrmModeInfos' = <<>> /\ plane_res' = FALSE
  /\ UNCHANGED <<mFbidMap, mDisplayInfos, mEnableSkipFrame>>

(* The ids of the last session are removed through the new fd, which does   *)
(* not know them.                                                           *)
initialize ==
  /\ mInitialized' = TRUE
  /\ mFbidMap' = noMap
  /\ mDrmModeInfos' = <<>> /\ plane_res' = FALSE
  /\ UNCHANGED <<mDisplayInfos, mEnableSkipFrame>>

(* Mutant: only the ids of the map are removed, with the fd closed.         *)
NeverCloses ==
  /\ mDrmModeInfos' = <<>>
  /\ mInitialized' = FALSE
  /\ UNCHANGED <<mFbidMap, mDisplayInfos, plane_res, mEnableSkipFrame, kernelVars>>

(* Closing mDrmFd removes every framebuffer; the calls of drmModeRmFB come  *)
(* too late, and the map stays.  So does plane_res.                         *)
deinitialize ==
  IF mInitialized
    THEN /\ RmFB(DOMAIN fbs)
         /\ mDrmModeInfos' = <<>>
         /\ mInitialized' = FALSE
         /\ UNCHANGED <<mFbidMap, mDisplayInfos, plane_res, mEnableSkipFrame>>
    ELSE UNCHANGED <<renderVars, kernelVars>>

cachedFbs == {mFbidMap[fd] : fd \in DOMAIN mFbidMap}

(* Mutant: the map is cleared and the framebuffers stay.                    *)
OnlyForgets ==
  /\ mFbidMap' = noMap
  /\ UNCHANGED <<mInitialized, mDisplayInfos, mDrmModeInfos, plane_res, mEnableSkipFrame,
                 kernelVars>>

DestoryFB ==
  /\ IF mInitialized THEN RmFB(cachedFbs) ELSE UNCHANGED kernelVars
  /\ mFbidMap' = noMap
  /\ UNCHANGED <<mInitialized, mDisplayInfos, mDrmModeInfos, plane_res, mEnableSkipFrame>>

(* Nothing is cleared before a detection has found the planes.  They are    *)
(* not forgotten with the device: drmModeGetPlane() then gives no plane,    *)
(* and its plane_id is read all the same.                                   *)
ClearDrmPlaneContent ==
  /\ async' = IF plane_res /\ mInitialized THEN {} ELSE async
  /\ crashed' = (plane_res /\ ~mInitialized)

(* FindSidebandPlane(): the planes the loop assigns.  plane_id is not       *)
(* initialised for a plane without ASYNC_COMMIT: it may still hold the one  *)
(* before it.                                                               *)
PlaneIds ==
  {ids \in [Displays -> {NoPlane} \cup async] :
     \A d \in Displays : IF d \in async THEN ids[d] = d ELSE ids[d] < d}

(* The first entry with the plane's crtc gets it.                           *)
isFirstOfCrtc(i) == \A j \in 1 .. i - 1 : mDrmModeInfos[j].crtc # mDrmModeInfos[i].crtc

withPlanes(ids) ==
  [i \in DOMAIN mDrmModeInfos |->
     [mDrmModeInfos[i] EXCEPT !.plane_id =
        IF isFirstOfCrtc(i) THEN ids[mDrmModeInfos[i].crtc] ELSE NoPlane]]

foundPlane(infos) == \E i \in DOMAIN infos : infos[i].plane_id # NoPlane

(* std::map::insert() keeps the value of a key that is there already.       *)
insert(map, key, value) ==
  [k \in DOMAIN map \cup {key} |-> IF k \in DOMAIN map THEN map[k] ELSE value]

(* getFbid() with an fd that is not in the map: drmModeAddFB2 gives a new   *)
(* id, or fails (always for a bad fd, or when the device is closed), and    *)
(* either is remembered for the fd.                                         *)
AddFB2(h, fd, fb) ==
  /\ fb \in FbIds \ DOMAIN fbs
  /\ mInitialized /\ fd # BadFd
  /\ fbs' = insert(fbs, fb, h)
  /\ mFbidMap' = insert(mFbidMap, fd, fb)

AddFB2Fails(fd) ==
  /\ ~mInitialized \/ fd = BadFd \/ "addfb" \in Faults
  /\ mFbidMap' = insert(mFbidMap, fd, NoFb)
  /\ UNCHANGED fbs
------------------------------------------------------------------------------
(* detect(int), which holds the lock only when init() calls it: first the   *)
(* flags and resetOutput(), then an entry for every connector.              *)

(* The connectors, encoders and crtcs of the output are given back.         *)
resetOutput == mDrmModeInfos' = <<>>

detectFlags ==
  /\ mDisplayInfos' = [d \in Displays |-> d \in plugged]
  /\ resetOutput
  /\ UNCHANGED <<mInitialized, mFbidMap, plane_res, kernelVars>>

connectorInfos ==
  LET crtcs == SetToSortSeq(plugged, LAMBDA a, b : a < b)
  IN  [i \in DOMAIN crtcs |-> [crtc |-> crtcs[i], plane_id |-> NoPlane]]

(* drmModeGetPlaneResources(), for every connector that is connected.       *)
foundPlanes == plane_res' = (plane_res \/ connectorInfos # <<>>)

(* Two neighbours on the same crtc make the next show() detect again.       *)
sameCrtc(infos) ==
  \E i \in 1 .. Len(infos) - 1 : infos[i].crtc = infos[i + 1].crtc

detectConnectors ==
  LET infos == mDrmModeInfos \o connectorInfos
  IN  /\ mInitialized
      /\ mDrmModeInfos' = infos /\ foundPlanes
      /\ mDisplayInfos' = IF sameCrtc(infos) THEN [d \in Displays |-> FALSE]
                                             ELSE mDisplayInfos

(* Also when the device has been closed since detect(int) began.            *)
detectFails ==
  /\ ~mInitialized \/ "drm" \in Faults
  /\ UNCHANGED <<mDrmModeInfos, plane_res, mDisplayInfos>>

(* Mutant: a display that has been unplugged is not noticed.                *)
OnlyUnplugged ==
  mDisplayInfos # <<>> /\ \E d \in Displays : mDisplayInfos[d] /\ d \notin plugged
needRedetect ==
  mDisplayInfos # <<>> /\ \E d \in Displays : mDisplayInfos[d] # (d \in plugged)

------------------------------------------------------------------------------
(* RTSidebandWindow::show(), that is SetDrmPlane(), by one renderer.        *)

Goto(r, where) == pc' = [pc EXCEPT ![r] = where]

Return(r) ==
  /\ Goto(r, "idle")
  /\ shown' = [shown EXCEPT ![r] = NULL] /\ fbid' = [fbid EXCEPT ![r] = NoFb]

(* RTSidebandWindow::flushCache().                                          *)
flushCache(h) == h # NULL /\ FlushCacheSucceeds(h)

(* workThread has flushed the frame that it shows; the other threads show a *)
(* handle or NULL.                                                          *)
handleToShow(r, s) ==
  IF r = "work" THEN s = "capture" /\ flushCache(slot[s]) ELSE s \notin {"record", "preview"}

(* The thread has seen mState == START.                                     *)
show(r) ==
  /\ pc[r] = "idle" /\ ctl = "open"
  /\ \E s \in Slots : handleToShow(r, s) /\ shown' = [shown EXCEPT ![r] = slot[s]]
  /\ IF mInitialized /\ needRedetect
       THEN Goto(r, "destroy")
       ELSE mEnableSkipFrame # "recent" /\ Goto(r, "find")
  /\ UNCHANGED <<bufferVars, renderVars, kernelVars, worldVars, fbid, copying, ctl, slot>>

RedetectDestroy(r) ==
  /\ pc[r] = "destroy" /\ DestoryFB /\ Goto(r, "clear")
  /\ UNCHANGED <<bufferVars, worldVars, shown, fbid, copying, ctl, slot>>

RedetectClear(r) ==
  /\ pc[r] = "clear" /\ ClearDrmPlaneContent /\ Goto(r, "flags")
  /\ UNCHANGED <<bufferVars, renderVars, kernelVars, plugged, shown, fbid, copying, ctl, slot>>

(* detect(int) returns at once when the device has been closed.  Whatever   *)
(* it does, frames are skipped from now on.                                 *)
RedetectFlags(r) ==
  /\ pc[r] = "flags"
  /\ IF mInitialized
       THEN detectFlags /\ Goto(r, "connectors") /\ UNCHANGED <<mEnableSkipFrame, shown, fbid>>
       ELSE /\ mEnableSkipFrame' = "recent" /\ Return(r)
            /\ UNCHANGED <<mInitialized, mFbidMap, mDisplayInfos, mDrmModeInfos, plane_res,
                            kernelVars>>
  /\ UNCHANGED <<bufferVars, worldVars, copying, ctl, slot>>

RedetectConnectors(r) ==
  /\ pc[r] = "connectors"
  /\ detectConnectors \/ detectFails
  /\ mEnableSkipFrame' = "recent" /\ Return(r)
  /\ UNCHANGED <<bufferVars, mInitialized, mFbidMap, kernelVars, worldVars, copying, ctl, slot>>

FindSidebandPlane(r) ==
  /\ pc[r] = "find"
  /\ \E ids \in PlaneIds :
       LET infos == withPlanes(ids)
       IN  /\ mDrmModeInfos' = infos
           /\ IF foundPlane(infos) THEN Goto(r, "fbid") /\ UNCHANGED <<shown, fbid>>
                                   ELSE Return(r)
  /\ UNCHANGED <<bufferVars, mInitialized, mFbidMap, mDisplayInfos, plane_res,
                 mEnableSkipFrame, kernelVars, worldVars, copying, ctl, slot>>

getFbidFails(r, fd) ==
  \/ fd \notin DOMAIN mFbidMap /\ AddFB2Fails(fd)
  \/ fd \in DOMAIN mFbidMap /\ mFbidMap[fd] = NoFb /\ UNCHANGED <<mFbidMap, fbs>>

getFbid(r) ==
  /\ pc[r] = "fbid"
  /\ LET h == shown[r]
         fd == GetHandleFd(h)
     IN  \/ h = NULL /\ Return(r) /\ UNCHANGED <<mFbidMap, fbs>>
         \/ h # NULL /\ getFbidFails(r, fd) /\ Return(r)
         \/ /\ h # NULL
            /\ \E fb \in FbIds :
                 /\ \/ fd \notin DOMAIN mFbidMap /\ AddFB2(h, fd, fb)
                    \/ fd \in DOMAIN mFbidMap /\ mFbidMap[fd] = fb
                         /\ UNCHANGED <<mFbidMap, fbs>>
                 /\ fbid' = [fbid EXCEPT ![r] = fb]
            /\ Goto(r, "plane") /\ shown' = [shown EXCEPT ![r] = NULL]
  /\ UNCHANGED <<bufferVars, mInitialized, mDisplayInfos, mDrmModeInfos, plane_res,
                 mEnableSkipFrame, screen, worldVars, copying, ctl, slot>>

SetDrmPlane(r) ==
  /\ pc[r] = "plane"
  /\ IF mInitialized THEN SetPlane(fbid[r]) ELSE UNCHANGED screen
  /\ Return(r)
  /\ UNCHANGED <<bufferVars, renderVars, fbs, worldVars, copying, ctl, slot>>

(***************************************************************************)
(* NV24ToNV12() copies a captured frame for the encoder: Lock() the source, *)
(* LockLocked() the target, copy, and unlock both in the other order.       *)
(***************************************************************************)
lockFrame(r) ==
  /\ r = "work" /\ pc[r] = "idle" /\ ctl = "open" /\ {"capture", "record"} \subseteq Slots
  /\ copying' = <<slot["capture"], slot["record"]>> /\ NULL \notin Range(copying')
  /\ LockBoth(copying'[1], copying'[2])
  /\ Goto(r, "copy")
  /\ UNCHANGED <<renderVars, kernelVars, worldVars, shown, fbid, ctl, slot>>

unlockFrame(r) ==
  /\ pc[r] = "copy"
  /\ UnlockBoth(copying[1], copying[2])
  /\ copying' = <<>> /\ Goto(r, "idle")
  /\ UNCHANGED <<renderVars, kernelVars, worldVars, shown, fbid, ctl, slot>>
------------------------------------------------------------------------------
(* The session: init(), start() and stop() of HinDevImpl.                   *)

firstSlot == IF "capture" \in Slots THEN "capture" ELSE "signal"

(* A show takes milliseconds: those of the last session are over.  init()   *)
(* holds the lock while it detects.                                         *)
initWindow ==
  /\ ctl = "closed" /\ \A r \in Renderers : pc[r] = "idle"
  /\ \/ initialize /\ ctl' = "detect"
     \/ "drm" \in Faults /\ ctl' = firstSlot /\ UNCHANGED renderVars
  /\ UNCHANGED <<bufferVars, kernelVars, worldVars, threadVars, slot>>

initDetect ==
  /\ ctl = "detect"
  /\ \/ mDrmModeInfos' = connectorInfos /\ foundPlanes
     \/ "drm" \in Faults /\ mDrmModeInfos' = <<>> /\ UNCHANGED plane_res
  /\ mDisplayInfos' = [d \in Displays |-> d \in plugged]
  /\ mEnableSkipFrame' = "no"
  /\ ctl' = firstSlot
  /\ UNCHANGED <<bufferVars, mInitialized, mFbidMap, kernelVars, worldVars, threadVars, slot>>

allocateInto(s, h) == Allocate(h) /\ slot' = [slot EXCEPT ![s] = h]

(* aquire_buffer() gets the capture buffers and start() then the signal     *)
(* picture.  Without capture buffers start() fails: no thread will run.     *)
allocateStart(s, next, failed) ==
  /\ ctl = s
  /\ \/ s \notin Slots /\ ctl' = next /\ UNCHANGED <<bufferVars, slot>>
     \/ s \in Slots /\ ctl' = next /\ \E h \in Handles : allocateInto(s, h)
     \/ s \in Slots /\ "alloc" \in Faults /\ AllocateFails /\ ctl' = failed /\ UNCHANGED slot
  /\ UNCHANGED <<renderVars, kernelVars, worldVars, threadVars>>

allocateCapture == allocateStart("capture", "signal", "failed")

(* What importHidlHandleBufferLocked() returns: the fd of the handle, or -1. *)
importHidlHandleBufferLocked(h, fd) ==
  \/ ImportBufferLocked(h) /\ fd = getBufferHandleFd(h)'
  \/ "alloc" \in Faults /\ fd = BadFd /\ UNCHANGED bufferVars

(* tv_input_set_preview_buffer(): once the device is initialised.           *)
MaySetPreview == ctl = "capture" /\ "preview" \in Slots

(* set_preview_buffer(): a stream into the buffers of an application has    *)
(* imported handles in place of capture buffers.  Without an fd VIDIOC_QBUF *)
(* fails.                                                                   *)
importPreview ==
  /\ MaySetPreview
  /\ \E h \in Handles, fd \in Fds \cup {BadFd} :
       /\ importHidlHandleBufferLocked(h, fd)
       /\ IF fd # BadFd
            THEN slot' = [slot EXCEPT !["preview"] = h] /\ ctl' = "signal"
            ELSE ctl' = "failed" /\ UNCHANGED slot
  /\ UNCHANGED <<renderVars, kernelVars, worldVars, threadVars>>

allocateSignal == allocateStart("signal", "open", "open")

(* doPQCmd() allocates the output of the picture quality engine, and        *)
(* doRecordCmd() the buffers of a recording.                                *)
allocateLate ==
  /\ ctl = "open"
  /\ \E s \in Slots \cap {"pq", "record"}, h \in Handles : slot[s] = NULL /\ allocateInto(s, h)
  /\ UNCHANGED <<renderVars, kernelVars, worldVars, threadVars, ctl>>

(* freeBuffer(): type 1 frees with FreeLocked().                            *)
freeSlot(s) ==
  /\ IF s \in {"pq", "record", "preview"} THEN FreeLocked(slot[s]) ELSE Free(slot[s])
  /\ Orphaned(slot[s])
  /\ slot' = [slot EXCEPT ![s] = NULL]

(* workThread may be copying into a buffer that stopRecord() frees.         *)
stopRecord ==
  /\ ctl = "open" /\ "record" \in Slots /\ slot["record"] # NULL
  /\ freeSlot("record")
  /\ UNCHANGED <<renderVars, screen, worldVars, threadVars, ctl>>

stopClearsFb ==
  /\ ctl \in {"open", "failed"}
  /\ DestoryFB /\ ctl' = "clearing"
  /\ UNCHANGED <<bufferVars, worldVars, threadVars, slot>>

stopClearsPlane ==
  /\ ctl = "clearing"
  /\ ClearDrmPlaneContent /\ ctl' = "stopping"
  /\ UNCHANGED <<bufferVars, renderVars, kernelVars, plugged, threadVars, slot>>

stopWindow ==
  /\ ctl = "stopping"
  /\ deinitialize /\ ctl' = "free"
  /\ UNCHANGED <<bufferVars, worldVars, threadVars, slot>>

(* release_buffer(), one buffer after the other.                            *)
releaseOrder == <<"signal", "record", "pq", "preview", "capture">>

filled(s) == s \in Slots /\ slot[s] # NULL

release ==
  /\ ctl = "free"
  /\ \/ /\ \A s \in Slots : ~filled(s)
        /\ ctl' = "closed" /\ UNCHANGED <<bufferVars, fbs, slot>>
     \/ \E i \in DOMAIN releaseOrder :
          /\ filled(releaseOrder[i])
          /\ \A j \in 1 .. i - 1 : ~filled(releaseOrder[j])
          /\ freeSlot(releaseOrder[i]) /\ UNCHANGED ctl
  /\ UNCHANGED <<renderVars, screen, worldVars, threadVars>>
------------------------------------------------------------------------------
(* The displays, the composer and the clock.                                *)

hotplug ==
  /\ "plug" \in Faults /\ ctl \in {"closed", "open"}
  /\ \E d \in Displays : plugged' = (plugged \cup {d}) \ (plugged \cap {d})
  /\ UNCHANGED <<bufferVars, renderVars, kernelVars, async, threadVars, ctl, slot>>

(* The composer marks the plane of a connected display for the sideband.    *)
markAsync(d) ==
  /\ d \in plugged /\ ctl \notin {"closed", "free"}
  /\ async' = async \cup {d}
  /\ UNCHANGED <<bufferVars, renderVars, kernelVars, plugged, threadVars, ctl, slot>>

(* SKIP_FRAME_TIME, two seconds, is longer than any show under way.         *)
skipExpires ==
  /\ mEnableSkipFrame = "recent" /\ \A r \in Renderers : pc[r] \in {"idle", "copy"}
  /\ mEnableSkipFrame' = "old"
  /\ UNCHANGED <<bufferVars, mInitialized, mFbidMap, mDisplayInfos, mDrmModeInfos,
                 plane_res, kernelVars, worldVars, threadVars, ctl, slot>>
------------------------------------------------------------------------------
Quiet(r) ==
  \/ show(r)
  \/ RedetectDestroy(r) \/ RedetectFlags(r) \/ RedetectConnectors(r)
  \/ FindSidebandPlane(r) \/ getFbid(r) \/ SetDrmPlane(r)
  \/ lockFrame(r) \/ unlockFrame(r)

Rendering(r) == RedetectClear(r) \/ (Quiet(r) /\ UNCHANGED crashed)

Session ==
  \/ initWindow \/ initDetect \/ allocateCapture \/ importPreview \/ allocateSignal
  \/ allocateLate \/ stopRecord
  \/ stopClearsFb \/ stopWindow \/ release

World == hotplug \/ (\E d \in Displays : markAsync(d)) \/ skipExpires

Next ==
  /\ ~crashed
  /\ \/ \E r \in Renderers : Rendering(r)
     \/ stopClearsPlane
     \/ (Session \/ World) /\ UNCHANGED crashed

(* What a thread has begun it finishes, each iteration of workThread shows  *)
(* its frame, the composer marks its planes and time passes.  Nothing makes *)
(* the event thread show anything or the application open a stream.         *)
Fairness ==
  /\ \A r \in Renderers : WF_vars(~crashed /\ pc[r] # "idle" /\ Rendering(r))
  /\ SF_vars(~crashed /\ show("work") /\ UNCHANGED crashed)
  /\ \A d \in Displays : WF_vars(~crashed /\ markAsync(d) /\ UNCHANGED crashed)
  /\ WF_vars(~crashed /\ skipExpires /\ UNCHANGED crashed)

Spec == Init /\ [][Next]_vars /\ Fairness
------------------------------------------------------------------------------
TypeOK ==
  /\ BufferTypeOK
  /\ mInitialized \in BOOLEAN
  /\ DOMAIN mFbidMap \subseteq Fds \cup {BadFd}
  /\ cachedFbs \subseteq FbIds \cup {NoFb}
  /\ mDisplayInfos = <<>> \/ mDisplayInfos \in [Displays -> BOOLEAN]
  /\ \A i \in DOMAIN mDrmModeInfos :
       mDrmModeInfos[i] \in [crtc : Displays, plane_id : Displays \cup {NoPlane}]
  /\ mEnableSkipFrame \in {"no", "recent", "old"}
  /\ plane_res \in BOOLEAN /\ crashed \in BOOLEAN
  /\ DOMAIN fbs \subseteq FbIds
  /\ screen \in [Displays -> FbIds \cup {NoFb}]
  /\ async \subseteq Displays /\ plugged \subseteq Displays
  /\ shown \in [Renderers -> Handles \cup {NULL}]
  /\ fbid \in [Renderers -> FbIds \cup {NoFb}]
  /\ slot \in [Slots -> Handles \cup {NULL}]

(* A buffer is locked for the CPU only while workThread copies a frame,     *)
(* also when the buffer it copies into is freed and its address used again. *)
LocksBalanced == copying = <<>> => \A h \in live : locked[h] = 0

(* The cache is by fd number, and fd numbers are used again: whatever       *)
(* getFbid() finds for a buffer while the device is open is the framebuffer *)
(* of that buffer (getFbid, initialize, DestoryFB).                         *)
FbIsBuffer ==
  mInitialized =>
    \A h \in live : fdOf[h] \in DOMAIN mFbidMap /\ mFbidMap[fdOf[h]] # NoFb
                      => mFbidMap[fdOf[h]] \in DOMAIN fbs /\ fbs[mFbidMap[fdOf[h]]] = h

(* The screen never shows a buffer that has been freed, however late the    *)
(* threads are that stop() did not wait for.                                *)
ScreenShowsLiveBuffer ==
  \A d \in Displays : screen[d] # NoFb => screen[d] \in DOMAIN fbs /\ fbs[screen[d]] \in live

(* Every framebuffer can still be removed: it is in the map while the       *)
(* device is open, and there is none once the device is closed.             *)
NoFbLeak == DOMAIN fbs \subseteq (IF mInitialized THEN cachedFbs ELSE {})

(* stop() gives back every buffer, those of a start() that failed half way  *)
(* included.                                                                *)
AllFreedAtClose == ctl = "closed" => live = {}

(* When the displays stop changing while a sideband stream is open, every   *)
(* connected one shows the stream in the end, though a redetection turns    *)
(* the planes off and two threads may run detect(int) at the same time.     *)
(* That takes that the event thread, which shows a picture now and then, is *)
(* quiet in the end, and that the screen is not lost: a device that did not *)
(* open stays away, a framebuffer cached as failed stays failed, and a      *)
(* display whose flag is right and whose connector was not found is not     *)
(* looked for again, be it that DRM failed or that the display was away for *)
(* the moment between the flags and the connectors.                         *)
ScreenLost ==
  \/ ~mInitialized
  \/ NoFb \in cachedFbs
  \/ /\ plugged \ {mDrmModeInfos[i].crtc : i \in DOMAIN mDrmModeInfos} # {}
     /\ mDisplayInfos = [d \in Displays |-> d \in plugged]
     /\ \A r \in Renderers : pc[r] \in {"idle", "find", "fbid", "plane", "copy"}

ScreenComesBack ==
  \A ds \in SUBSET Displays \ {{}} :
     <>[](/\ ctl = "open" /\ slot["capture"] # NULL /\ plugged = ds /\ ~ScreenLost
          /\ \A r \in Renderers \ {"work"} : pc[r] = "idle")
       => <>[](\A d \in ds : screen[d] # NoFb)
==============================================================================
