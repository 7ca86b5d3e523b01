--------------------------- MODULE VopRenderProofs ---------------------------
(* What holds of the renderer and of the buffers it shows for any number of *)
(* handles, fds, displays and threads, and any choice of faults.            *)
EXTENDS VopRender, TLAPS, SequenceTheorems

(* The buffer manager.                                                      *)

BufferInv == BufferTypeOK /\ \A g, h \in live : fdOf[g] = fdOf[h] => g = h

(* get_metadata() finds the fd of a buffer the mapper knows, and no other.  *)
LEMMA FdOfHandle ==
  ASSUME NEW h
  PROVE  /\ h \in live => GetHandleFd(h) = fdOf[h]
         /\ h \notin live => GetHandleFd(h) = BadFd
<1>1. SubSeq(<<fdOf[h]>>, 1, 1)[1] = fdOf[h]
  <2> DEFINE one == <<fdOf[h]>>
  <2>1. \A i \in 1 .. 1 : one[i] \in {fdOf[h]}
    OBVIOUS
  <2>2. \A i \in 1 .. 1 - 1 + 1 : SubSeq(one, 1, 1)[i] = one[1 + i - 1]
    <3> HIDE DEF one
    <3> QED BY <2>1, SubSeqProperties
  <2> QED BY <2>2
<1> QED BY <1>1 DEF GetHandleFd, get_metadata, decodeArmPlaneFds, PlaneFds

FdsKnown == \A h \in live : GetHandleFd(h) = fdOf[h]

LEMMA FdsOfHandles == FdsKnown
BY FdOfHandle DEF FdsKnown

LEMMA ImportKeeps ==
  ASSUME BufferInv, NEW h, Import(h),
         buffer_context_' \in {buffer_context_, buffer_context_ \cup {h}}
  PROVE  /\ BufferInv' /\ h \in Handles /\ h # NULL /\ h \notin live
         /\ live' = live \cup {h} /\ fdOf'[h] \in Fds /\ locked' = locked
         /\ \A g \in live : fdOf'[g] = fdOf[g]
<1>1. PICK fd \in Fds \ {fdOf[g] : g \in live} : fdOf' = [fdOf EXCEPT ![h] = fd]
  BY DEF Import
<1>2. h \in Handles /\ h \notin live /\ live' = live \cup {h} /\ locked' = locked
  BY DEF Import
<1>3. fd # BadFd /\ h # NULL
  BY <1>1, <1>2, HandlesAssumption
<1>4. fdOf'[h] = fd /\ \A g \in Handles : g # h => fdOf'[g] = fdOf[g]
  BY <1>1, <1>2 DEF BufferInv, BufferTypeOK
<1>5. BufferTypeOK'
  BY <1>1, <1>2, <1>3, <1>4 DEF BufferInv, BufferTypeOK
<1>6. \A g \in live : fdOf[g] # fd
  BY <1>1
<1>7. \A g \in live : g \in Handles /\ g # h
  BY <1>2 DEF BufferInv, BufferTypeOK
<1>8. ASSUME NEW g \in live', NEW k \in live', fdOf'[g] = fdOf'[k] PROVE g = k
  <2>1. CASE g = h \/ k = h
    BY <1>2, <1>4, <1>6, <1>7, <1>8, <2>1
  <2>2. CASE g # h /\ k # h
    BY <1>2, <1>4, <1>7, <1>8, <2>2 DEF BufferInv
  <2> QED BY <2>1, <2>2
<1>9. BufferInv'
  BY <1>5, <1>8 DEF BufferInv
<1>10. fdOf'[h] \in Fds
  BY <1>1, <1>4
<1> QED BY <1>2, <1>3, <1>4, <1>7, <1>9, <1>10

LEMMA FreeKeeps ==
  ASSUME BufferInv, NEW h, freeBuffer(h)
  PROVE  /\ BufferInv' /\ live' = live \ {h}
         /\ \A g \in live : g # h => fdOf'[g] = fdOf[g]
<1>1. live' = live \ {h} /\ live \subseteq Handles /\ buffer_context_' = buffer_context_
  BY DEF freeBuffer, BufferInv, BufferTypeOK
<1>2. \A g \in live : g # h => fdOf'[g] = fdOf[g]
  BY DEF freeBuffer, BufferInv, BufferTypeOK
<1>3. fdOf' \in [Handles -> Fds \cup {BadFd}]
  BY DEF freeBuffer, BufferInv, BufferTypeOK
<1>4. locked' \in [Handles -> 0 .. 2]
  <2>1. locked \in [Handles -> 0 .. 2] /\ locked' = [locked EXCEPT ![h] = 0]
    BY DEF freeBuffer, BufferInv, BufferTypeOK
  <2>2. 0 \in 0 .. 2
    OBVIOUS
  <2> QED BY <2>1, <2>2
<1>5. \A g \in live' : fdOf'[g] # BadFd
  BY <1>1, <1>2 DEF BufferInv, BufferTypeOK
<1>6. \A g, k \in live' : fdOf'[g] = fdOf'[k] => g = k
  BY <1>1, <1>2 DEF BufferInv
<1>7. BufferTypeOK'
  BY <1>1, <1>3, <1>4, <1>5 DEF BufferTypeOK, BufferInv
<1> QED BY <1>1, <1>2, <1>6, <1>7 DEF BufferInv

LEMMA LockKeeps ==
  ASSUME BufferInv, UNCHANGED <<live, fdOf, buffer_context_>>, locked' \in [Handles -> 0 .. 2]
  PROVE  BufferInv'
BY DEF BufferInv, BufferTypeOK
------------------------------------------------------------------------------
(* The slots of HinDevImpl.                                                 *)

(* The slots hold every live buffer, each once, and what Free() will free   *)
(* has a context.                                                           *)
SlotsOwn ==
  /\ slot \in [Slots -> Handles \cup {NULL}]
  /\ live = {slot[s] : s \in Slots} \ {NULL}
  /\ \A s, t \in Slots : slot[s] # NULL /\ slot[s] = slot[t] => s = t
  /\ \A s \in Slots \cap {"capture", "signal"} : slot[s] # NULL => slot[s] \in buffer_context_

(* No slot is allocated twice.                                              *)
SlotsEmpty ==
  /\ ctl \in {"closed", "detect", "capture"} => \A s \in Slots : slot[s] = NULL
  /\ ctl = "signal" => \A s \in Slots \ {"capture", "preview"} : slot[s] = NULL

SlotInv == SlotsOwn /\ SlotsEmpty

LEMMA FillSlot ==
  ASSUME BufferInv, SlotsOwn, NEW s \in Slots, slot[s] = NULL, NEW h,
         slot' = [slot EXCEPT ![s] = h],
         Allocate(h) \/ (ImportBufferLocked(h) /\ s \notin {"capture", "signal"})
  PROVE  SlotsOwn'
<1>1. Import(h) /\ buffer_context_' \in {buffer_context_, buffer_context_ \cup {h}}
      /\ buffer_context_ \subseteq buffer_context_'
  BY DEF Allocate, ImportBufferLocked
<1>2. h \in Handles /\ h # NULL /\ h \notin live /\ live' = live \cup {h}
  BY <1>1, ImportKeeps
<1>3. s \in {"capture", "signal"} => h \in buffer_context_'
  BY DEF Allocate
<1>4. slot'[s] = h /\ \A t \in Slots : t # s => slot'[t] = slot[t]
  BY DEF SlotsOwn
<1>5. \A t \in Slots : slot[t] # h
  BY <1>2 DEF SlotsOwn
<1>6. slot' \in [Slots -> Handles \cup {NULL}]
  BY <1>2 DEF SlotsOwn
<1>7. live' = {slot'[t] : t \in Slots} \ {NULL}
  <2>1. ASSUME NEW x \in live' PROVE x \in {slot'[t] : t \in Slots} \ {NULL}
    BY <1>2, <1>4, <2>1 DEF SlotsOwn
  <2>2. ASSUME NEW t \in Slots, slot'[t] # NULL PROVE slot'[t] \in live'
    BY <1>2, <1>4, <2>2 DEF SlotsOwn
  <2> QED BY <2>1, <2>2
<1>8. \A t, u \in Slots : slot'[t] # NULL /\ slot'[t] = slot'[u] => t = u
  BY <1>4, <1>5 DEF SlotsOwn
<1>9. \A t \in Slots \cap {"capture", "signal"} : slot'[t] # NULL => slot'[t] \in buffer_context_'
  BY <1>1, <1>3, <1>4 DEF SlotsOwn
<1> QED BY <1>6, <1>7, <1>8, <1>9 DEF SlotsOwn

LEMMA EmptySlot ==
  ASSUME BufferInv, SlotsOwn, NEW s \in Slots, slot[s] # NULL, freeSlot(s)
  PROVE  /\ freeBuffer(slot[s]) /\ SlotsOwn' /\ slot'[s] = NULL
         /\ \A t \in Slots : t # s => slot'[t] = slot[t] /\ slot[t] # slot[s]
<1>1. s \in SlotKinds
  BY SlotsAssumption
<1>2. freeBuffer(slot[s]) /\ slot' = [slot EXCEPT ![s] = NULL]
  BY <1>1 DEF freeSlot, Free, FreeLocked, SlotsOwn, SlotKinds
<1>3. live' = live \ {slot[s]} /\ buffer_context_' = buffer_context_
  BY <1>2 DEF freeBuffer
<1>4. slot'[s] = NULL /\ \A t \in Slots : t # s => slot'[t] = slot[t] /\ slot[t] # slot[s]
  BY <1>2 DEF SlotsOwn
<1>5. live' = {slot'[t] : t \in Slots} \ {NULL}
  <2>1. ASSUME NEW x \in live' PROVE x \in {slot'[t] : t \in Slots} \ {NULL}
    BY <1>3, <1>4, <2>1 DEF SlotsOwn
  <2>2. ASSUME NEW t \in Slots, slot'[t] # NULL PROVE slot'[t] \in live'
    BY <1>3, <1>4, <2>2 DEF SlotsOwn
  <2> QED BY <2>1, <2>2
<1> QED BY <1>2, <1>3, <1>4, <1>5 DEF SlotsOwn

------------------------------------------------------------------------------
(* The copy of workThread.                                                  *)

(* Where a renderer can stand.                                              *)
Places == {"idle", "destroy", "clear", "flags", "connectors", "find", "fbid", "plane", "copy"}

(* Only the two handles of the copy under way are locked, each at most      *)
(* once, and only while the mapper knows them.                              *)
CopyLocks(a, b) ==
  /\ copying = <<a, b>> /\ a # b
  /\ \A h \in Handles : locked[h] > 0 => h \in {a, b}
  /\ locked[a] > 0 => a \in buffer_context_
  /\ locked[a] < 2 /\ locked[b] < 2

LockInv ==
  /\ pc \in [Renderers -> Places]
  /\ copying # <<>> => "work" \in Renderers /\ pc["work"] = "copy"
  /\ \A r \in Renderers : pc[r] = "copy" => r = "work" /\ \E a, b \in Handles : CopyLocks(a, b)
  /\ copying = <<>> => \A h \in Handles : locked[h] = 0
  /\ \A h \in Handles : locked[h] > 0 => h \in live

LEMMA LockStep ==
  ASSUME BufferInv, SlotInv, LockInv, NEW r \in Renderers, lockFrame(r)
  PROVE  BufferInv' /\ LockInv'
<1> DEFINE a == slot["capture"]
           b == slot["record"]
<1>1. r = "work" /\ pc[r] = "idle" /\ pc' = [pc EXCEPT ![r] = "copy"]
      /\ copying' = <<a, b>> /\ LockBoth(copying'[1], copying'[2])
      /\ "capture" \in Slots /\ "record" \in Slots /\ NULL \notin Range(copying')
  BY DEF lockFrame, Goto
<1>2. a # NULL /\ b # NULL
  BY <1>1 DEF Range
<1>3. a \in Handles /\ b \in Handles /\ a # b
  BY <1>1, <1>2 DEF SlotInv, SlotsOwn
<1>4. LockBoth(a, b)
  BY <1>1
<1>5. \A h \in Handles : locked[h] = 0
  BY <1>1 DEF LockInv
<1>6. /\ locked'[a] \in {0, 1} /\ (locked'[a] > 0 => a \in buffer_context_ /\ a \in live)
      /\ locked'[b] \in {0, 1} /\ (locked'[b] > 0 => b \in live)
      /\ \A h \in Handles : h \notin {a, b} => locked'[h] = 0
  BY <1>3, <1>4, <1>5 DEF LockBoth, LockGetsAddress, LockLockedGetsAddress
<1>7. locked' \in [Handles -> 0 .. 2]
  <2>1. \A h \in Handles : locked'[h] \in {0, 1}
    BY <1>6
  <2>2. locked' = [h \in Handles |-> locked'[h]]
    BY <1>4 DEF LockBoth
  <2> HIDE DEF a, b
  <2> QED BY <2>1, <2>2
<1>8. UNCHANGED <<live, fdOf, buffer_context_>>
  BY <1>4 DEF LockBoth
<1>9. BufferInv'
  BY <1>7, <1>8, LockKeeps
<1>10. CopyLocks(a, b)'
  <2>1. copying' = <<a, b>> /\ a # b /\ UNCHANGED <<a, b>>
    BY <1>1, <1>3 DEF lockFrame
  <2>2. /\ \A h \in Handles : locked'[h] > 0 => h \in {a, b}
        /\ locked'[a] > 0 => a \in buffer_context_'
        /\ locked'[a] < 2 /\ locked'[b] < 2
    BY <1>6, <1>8
  <2> HIDE DEF a, b
  <2> QED BY <2>1, <2>2 DEF CopyLocks
<1>11. \A h \in Handles : locked'[h] > 0 => h \in live'
  BY <1>6, <1>8
<1>12. pc' \in [Renderers -> Places] /\ pc'["work"] = "copy"
       /\ \A q \in Renderers : pc'[q] = "copy" => q = "work"
  BY <1>1 DEF LockInv, Places
<1>13. copying' # <<>>
  BY <1>1
<1>14. \E x, y \in Handles : CopyLocks(x, y)'
  <2>1. slot' = slot
    BY DEF lockFrame
  <2>2. PICK x \in Handles, y \in Handles : x = a /\ y = b
    BY <1>3
  <2>3. CopyLocks(x, y)'
    BY <1>10, <2>1, <2>2
  <2> QED BY <2>3
<1> QED BY <1>1, <1>9, <1>11, <1>12, <1>13, <1>14 DEF LockInv

LEMMA UnlockStep ==
  ASSUME BufferInv, LockInv, NEW r \in Renderers, unlockFrame(r)
  PROVE  BufferInv' /\ LockInv'
<1>1. pc[r] = "copy" /\ pc' = [pc EXCEPT ![r] = "idle"] /\ copying' = <<>>
      /\ UnlockBoth(copying[1], copying[2])
  BY DEF unlockFrame, Goto
<1>2. r = "work" /\ \E a, b \in Handles : CopyLocks(a, b)
  BY <1>1 DEF LockInv
<1>3. PICK a \in Handles, b \in Handles : CopyLocks(a, b)
  BY <1>2
<1>4. UnlockBoth(a, b)
  <2>1. copying = <<a, b>>
    BY <1>3 DEF CopyLocks
  <2> QED BY <1>1, <2>1
<1>5. \A h \in Handles : locked[h] \in 0 .. 2 /\ (locked[h] > 0 => h \in live)
  BY DEF BufferInv, BufferTypeOK, LockInv
<1>6. \A h \in Handles : locked'[h] = 0
  <2>1. \A h \in Handles :
          locked'[h] = IF (h = b /\ UnlocksLocked(h)) \/ (h = a /\ Unlocks(h))
                         THEN locked[h] - 1 ELSE locked[h]
    BY <1>4 DEF UnlockBoth
  <2>2. ASSUME NEW h \in Handles, locked[h] = 0 PROVE locked'[h] = 0
    BY <2>1, <2>2 DEF UnlocksLocked, Unlocks
  <2>3. ASSUME NEW h \in Handles, locked[h] # 0 PROVE locked'[h] = 0
    <3>1. h \in {a, b} /\ locked[h] = 1 /\ h \in live /\ (h = a => h \in buffer_context_)
      BY <1>3, <1>5, <2>3 DEF CopyLocks
    <3> QED BY <2>1, <3>1 DEF UnlocksLocked, Unlocks
  <2> QED BY <2>2, <2>3
<1>7. UNCHANGED <<live, fdOf, buffer_context_>> /\ locked' = [h \in Handles |-> locked'[h]]
  BY <1>4 DEF UnlockBoth
<1>8. BufferInv'
  BY <1>6, <1>7, LockKeeps
<1>9. pc' \in [Renderers -> Places] /\ \A q \in Renderers : pc'[q] # "copy"
  BY <1>1, <1>2 DEF LockInv, Places
<1> QED BY <1>1, <1>6, <1>8, <1>9 DEF LockInv

------------------------------------------------------------------------------
(* The buffers and the slots, action by action.                             *)

LEMMA RendererKeeps ==
  ASSUME NEW r \in Renderers, Rendering(r)
  PROVE  /\ UNCHANGED <<ctl, slot>>
         /\ \/ lockFrame(r) /\ UNCHANGED <<shown, renderVars, kernelVars>>
            \/ unlockFrame(r) /\ UNCHANGED <<shown, renderVars, kernelVars>>
            \/ UNCHANGED <<bufferVars, copying>>
<1>1. CASE lockFrame(r)
  BY <1>1 DEF lockFrame
<1>2. CASE unlockFrame(r)
  BY <1>2 DEF unlockFrame
<1>3. CASE show(r) \/ RedetectDestroy(r) \/ RedetectClear(r) \/ RedetectFlags(r)
  BY <1>3 DEF show, RedetectDestroy, RedetectClear, RedetectFlags
<1>4. CASE RedetectConnectors(r) \/ FindSidebandPlane(r) \/ getFbid(r) \/ SetDrmPlane(r)
  BY <1>4 DEF RedetectConnectors, FindSidebandPlane, getFbid, SetDrmPlane
<1> QED BY <1>1, <1>2, <1>3, <1>4 DEF Rendering, Quiet

LEMMA QuietBuffers ==
  ASSUME BufferInv, SlotInv, UNCHANGED <<bufferVars, slot>>,
         \/ ctl' = ctl
         \/ ctl' \notin {"closed", "detect", "capture", "signal"}
         \/ ctl \in {"closed", "detect"}
  PROVE  BufferInv' /\ SlotInv'
<1>1. BufferInv'
  BY DEF BufferInv, BufferTypeOK, bufferVars
<1>2. SlotsOwn'
  BY DEF SlotInv, SlotsOwn, bufferVars
<1>3. SlotsEmpty'
  BY DEF SlotInv, SlotsEmpty
<1> QED BY <1>1, <1>2, <1>3 DEF SlotInv

LEMMA AllocateBuffers ==
  ASSUME BufferInv, SlotInv, NEW s \in Slots, NEW h, slot[s] = NULL, allocateInto(s, h),
         \/ s = "capture" /\ ctl' = "signal" /\ ctl = "capture"
         \/ ctl' = "open"
  PROVE  BufferInv' /\ SlotInv'
<1>1. Allocate(h) /\ slot' = [slot EXCEPT ![s] = h]
  BY DEF allocateInto
<1>2. BufferInv'
  BY <1>1, ImportKeeps DEF Allocate
<1>3. SlotsOwn'
  BY <1>1, FillSlot DEF SlotInv
<1>4. SlotsEmpty'
  BY <1>1 DEF SlotInv, SlotsEmpty, SlotsOwn
<1> QED BY <1>2, <1>3, <1>4 DEF SlotInv

LEMMA FailBuffers ==
  ASSUME BufferInv, SlotInv, AllocateFails, UNCHANGED slot,
         ctl' \in {"failed", "open"}
  PROVE  BufferInv' /\ SlotInv'
<1>1. UNCHANGED <<live, fdOf, locked>> /\ buffer_context_ \subseteq buffer_context_'
      /\ buffer_context_' \subseteq buffer_context_ \cup {NULL}
  BY DEF AllocateFails, createDescriptorFails, importFails
<1>2. BufferInv'
  BY <1>1 DEF BufferInv, BufferTypeOK
<1>3. SlotsOwn'
  BY <1>1 DEF SlotInv, SlotsOwn
<1>4. SlotsEmpty'
  BY DEF SlotsEmpty
<1> QED BY <1>2, <1>3, <1>4 DEF SlotInv

LEMMA StartBuffers ==
  ASSUME BufferInv, SlotInv, allocateCapture \/ allocateSignal
  PROVE  BufferInv' /\ SlotInv'
<1>1. PICK s \in {"capture", "signal"}, next \in {"signal", "open"}, failed \in {"failed", "open"} :
        allocateStart(s, next, failed) /\ (next = "signal" => s = "capture")
  BY DEF allocateCapture, allocateSignal
<1>2. CASE ctl = s /\ s \notin Slots /\ ctl' = next /\ UNCHANGED <<bufferVars, slot>>
  <2>1. SlotsEmpty'
    BY <1>1, <1>2 DEF SlotInv, SlotsEmpty
  <2>2. BufferInv' /\ SlotsOwn'
    BY <1>2 DEF BufferInv, BufferTypeOK, bufferVars, SlotInv, SlotsOwn
  <2> QED BY <2>1, <2>2 DEF SlotInv
<1>3. CASE ctl = s /\ s \in Slots /\ ctl' = next /\ \E h \in Handles : allocateInto(s, h)
  <2>1. slot[s] = NULL
    BY <1>1, <1>3 DEF SlotInv, SlotsEmpty
  <2> QED BY <1>1, <1>3, <2>1, AllocateBuffers
<1>4. CASE s \in Slots /\ AllocateFails /\ ctl' = failed /\ UNCHANGED slot
  BY <1>1, <1>4, FailBuffers
<1> QED BY <1>1, <1>2, <1>3, <1>4 DEF allocateStart

LEMMA PreviewBuffers ==
  ASSUME BufferInv, SlotInv, importPreview
  PROVE  BufferInv' /\ SlotInv'
<1>1. PICK h \in Handles, fd \in Fds \cup {BadFd} :
        /\ importHidlHandleBufferLocked(h, fd)
        /\ IF fd # BadFd
             THEN slot' = [slot EXCEPT !["preview"] = h] /\ ctl' = "signal"
             ELSE ctl' = "failed" /\ UNCHANGED slot
  BY DEF importPreview, MaySetPreview
<1>2. CASE ImportBufferLocked(h) /\ fd = getBufferHandleFd(h)'
  <2>1. BufferInv' /\ h \in live' /\ fdOf'[h] \in Fds /\ h # NULL
    BY <1>2, ImportKeeps DEF ImportBufferLocked
  <2>2. fd = fdOf'[h]
    <3>1. FdsKnown'
      BY FdsOfHandles, PTL
    <3> QED BY <1>2, <2>1, <3>1 DEF FdsKnown, getBufferHandleFd
  <2>3. fd # BadFd
    BY <2>1, <2>2, HandlesAssumption
  <2>4. "preview" \in Slots /\ slot["preview"] = NULL /\ ctl = "capture"
    BY DEF importPreview, MaySetPreview, SlotInv, SlotsEmpty
  <2>5. slot' = [slot EXCEPT !["preview"] = h] /\ ctl' = "signal"
    BY <1>1, <2>3
  <2>6. SlotsOwn'
    BY <1>2, <2>4, <2>5, FillSlot DEF SlotInv
  <2>7. SlotsEmpty'
    BY <2>4, <2>5 DEF SlotInv, SlotsEmpty, SlotsOwn
  <2> QED BY <2>1, <2>6, <2>7 DEF SlotInv
<1>3. CASE fd = BadFd /\ UNCHANGED bufferVars
  BY <1>1, <1>3, QuietBuffers
<1> QED BY <1>1, <1>2, <1>3 DEF importHidlHandleBufferLocked

LEMMA FreeBuffers ==
  ASSUME BufferInv, SlotInv, NEW s \in Slots, slot[s] # NULL, freeSlot(s),
         ctl' \in {"open", "free"}
  PROVE  BufferInv' /\ SlotInv'
<1>1. freeBuffer(slot[s]) /\ SlotsOwn'
  BY EmptySlot DEF SlotInv
<1>2. BufferInv'
  BY <1>1, FreeKeeps
<1>3. SlotsEmpty'
  BY DEF SlotsEmpty
<1> QED BY <1>1, <1>2, <1>3 DEF SlotInv

LEMMA ReleaseBuffers ==
  ASSUME release
  PROVE  \/ (\A s \in Slots : slot[s] = NULL) /\ ctl' = "closed" /\ UNCHANGED <<bufferVars, fbs, slot>>
         \/ \E s \in Slots : slot[s] # NULL /\ freeSlot(s) /\ ctl = "free" /\ ctl' = "free"
<1>1. CASE (\A s \in Slots : ~filled(s)) /\ ctl' = "closed" /\ UNCHANGED <<bufferVars, fbs, slot>>
  BY <1>1 DEF filled
<1>2. CASE \E i \in DOMAIN releaseOrder :
             filled(releaseOrder[i]) /\ freeSlot(releaseOrder[i]) /\ UNCHANGED ctl
  BY <1>2 DEF filled, release
<1> QED BY <1>1, <1>2 DEF release

LEMMA BufferStep ==
  ASSUME BufferInv, SlotInv, LockInv, Next
  PROVE  BufferInv' /\ SlotInv'
<1>1. ASSUME NEW r \in Renderers, Rendering(r) PROVE BufferInv' /\ SlotInv'
  <2>1. UNCHANGED <<ctl, slot>>
    BY <1>1, RendererKeeps
  <2>2. CASE UNCHANGED bufferVars
    BY <2>1, <2>2, QuietBuffers
  <2>3. CASE lockFrame(r) \/ unlockFrame(r)
    <3>1. BufferInv'
      BY <2>3, LockStep, UnlockStep
    <3>2. UNCHANGED <<live, buffer_context_>>
      BY <2>3 DEF lockFrame, unlockFrame, LockBoth, UnlockBoth
    <3>3. SlotInv'
      BY <2>1, <3>2 DEF SlotInv, SlotsOwn, SlotsEmpty
    <3> QED BY <3>1, <3>3
  <2> QED BY <1>1, <2>2, <2>3, RendererKeeps
<1>2. CASE initWindow \/ initDetect
  BY <1>2, QuietBuffers DEF initWindow, initDetect
<1>3. CASE allocateCapture \/ allocateSignal
  BY <1>3, StartBuffers
<1>4. CASE importPreview
  BY <1>4, PreviewBuffers
<1>5. CASE allocateLate
  <2>1. PICK s \in Slots, h \in Handles : slot[s] = NULL /\ allocateInto(s, h) /\ ctl' = "open"
    BY <1>5 DEF allocateLate
  <2> QED BY <2>1, AllocateBuffers
<1>6. CASE stopRecord
  BY <1>6, FreeBuffers DEF stopRecord
<1>7. CASE stopClearsFb \/ stopClearsPlane \/ stopWindow
  BY <1>7, QuietBuffers DEF stopClearsFb, stopClearsPlane, stopWindow
<1>8. CASE release
  <2>1. CASE (\A s \in Slots : slot[s] = NULL) /\ ctl' = "closed" /\ UNCHANGED <<bufferVars, fbs, slot>>
    BY <2>1 DEF BufferInv, BufferTypeOK, bufferVars, SlotInv, SlotsOwn, SlotsEmpty
  <2>2. CASE \E s \in Slots : slot[s] # NULL /\ freeSlot(s) /\ ctl = "free" /\ ctl' = "free"
    BY <2>2, FreeBuffers
  <2> QED BY <1>8, <2>1, <2>2, ReleaseBuffers
<1>9. CASE World
  BY <1>9, QuietBuffers DEF World, hotplug, markAsync, skipExpires
<1> QED BY <1>1, <1>2, <1>3, <1>4, <1>5, <1>6, <1>7, <1>8, <1>9 DEF Next, Session

LEMMA FreeLocks ==
  ASSUME BufferInv, LockInv, NEW h, freeBuffer(h), UNCHANGED <<pc, copying>>
  PROVE  LockInv'
<1>1. locked' = [locked EXCEPT ![h] = 0] /\ live' = live \ {h} /\ buffer_context_' = buffer_context_
  BY DEF freeBuffer
<1>2. \A g \in Handles : locked'[g] = locked[g] \/ locked'[g] = 0
  BY <1>1 DEF BufferInv, BufferTypeOK
<1>3. \A g \in Handles : locked'[g] > 0 => locked[g] > 0 /\ g # h
  BY <1>1, <1>2 DEF BufferInv, BufferTypeOK
<1>4. ASSUME NEW a \in Handles, NEW b \in Handles, CopyLocks(a, b) PROVE CopyLocks(a, b)'
  BY <1>1, <1>2, <1>3, <1>4 DEF CopyLocks
<1>5. \A g \in Handles : locked'[g] > 0 => g \in live'
  BY <1>1, <1>3 DEF LockInv
<1>6. \A r \in Renderers : pc'[r] = "copy" => r = "work" /\ \E a, b \in Handles : CopyLocks(a, b)'
  BY <1>4 DEF LockInv
<1> QED BY <1>2, <1>5, <1>6 DEF LockInv

LEMMA QuietLocks ==
  ASSUME BufferInv, LockInv, UNCHANGED <<locked, copying>>,
         live \subseteq live', buffer_context_ \subseteq buffer_context_',
         pc' \in [Renderers -> Places],
         \A r \in Renderers : pc'[r] = pc[r] \/ (pc[r] # "copy" /\ pc'[r] # "copy")
  PROVE  LockInv'
<1>1. \A a, b \in Handles : CopyLocks(a, b) => CopyLocks(a, b)'
  BY DEF CopyLocks
<1>2. \A r \in Renderers : pc'[r] = "copy" => r = "work" /\ \E a, b \in Handles : CopyLocks(a, b)'
  BY <1>1 DEF LockInv
<1>3. copying' # <<>> => "work" \in Renderers /\ pc'["work"] = "copy"
  BY DEF LockInv
<1> QED BY <1>2, <1>3 DEF LockInv

LEMMA LocksKept ==
  ASSUME BufferInv, SlotInv, LockInv, Next
  PROVE  LockInv'
<1>1. ASSUME NEW r \in Renderers, Rendering(r) PROVE LockInv'
  <2>1. CASE lockFrame(r) \/ unlockFrame(r)
    BY <2>1, LockStep, UnlockStep
  <2>2. CASE show(r) \/ RedetectDestroy(r) \/ RedetectClear(r) \/ RedetectFlags(r)
    <3>1. PICK where \in Places \ {"copy"} : pc' = [pc EXCEPT ![r] = where] /\ pc[r] # "copy"
      BY <2>2 DEF show, RedetectDestroy, RedetectClear, RedetectFlags, Goto, Return, Places
    <3>2. UNCHANGED <<bufferVars, copying>>
      BY <2>2 DEF show, RedetectDestroy, RedetectClear, RedetectFlags
    <3> QED BY <3>1, <3>2, QuietLocks DEF LockInv, bufferVars
  <2>3. CASE RedetectConnectors(r) \/ FindSidebandPlane(r) \/ getFbid(r) \/ SetDrmPlane(r)
    <3>1. PICK where \in Places \ {"copy"} : pc' = [pc EXCEPT ![r] = where] /\ pc[r] # "copy"
      BY <2>3 DEF RedetectConnectors, FindSidebandPlane, getFbid, SetDrmPlane, Goto, Return, Places
    <3>2. UNCHANGED <<bufferVars, copying>>
      BY <2>3 DEF RedetectConnectors, FindSidebandPlane, getFbid, SetDrmPlane
    <3> QED BY <3>1, <3>2, QuietLocks DEF LockInv, bufferVars
  <2> QED BY <1>1, <2>1, <2>2, <2>3 DEF Rendering, Quiet
<1>2. CASE initWindow \/ initDetect \/ stopClearsFb \/ stopClearsPlane \/ stopWindow \/ World
  <2>1. UNCHANGED <<bufferVars, pc, copying>>
    BY <1>2 DEF initWindow, initDetect, stopClearsFb, stopClearsPlane, stopWindow, World,
                hotplug, markAsync, skipExpires, threadVars
  <2> QED BY <2>1, QuietLocks DEF LockInv, bufferVars
<1>3. CASE allocateCapture \/ allocateSignal \/ allocateLate \/ importPreview
  <2>1. UNCHANGED <<pc, copying, locked>>
    BY <1>3 DEF allocateCapture, allocateSignal, allocateStart, allocateLate, importPreview,
                allocateInto, Allocate, Import, AllocateFails, importHidlHandleBufferLocked,
                ImportBufferLocked, threadVars, bufferVars
  <2>2. live \subseteq live' /\ buffer_context_ \subseteq buffer_context_'
    BY <1>3 DEF allocateCapture, allocateSignal, allocateStart, allocateLate, importPreview,
                allocateInto, Allocate, Import, AllocateFails, createDescriptorFails, importFails,
                importHidlHandleBufferLocked, ImportBufferLocked, bufferVars
  <2> QED BY <2>1, <2>2, QuietLocks DEF LockInv
<1>4. ASSUME NEW s \in Slots, slot[s] # NULL, freeSlot(s), UNCHANGED threadVars
      PROVE  LockInv'
  <2>1. freeBuffer(slot[s])
    BY <1>4, EmptySlot DEF SlotInv
  <2> QED BY <1>4, <2>1, FreeLocks DEF threadVars
<1>5. CASE stopRecord
  BY <1>4, <1>5 DEF stopRecord
<1>6. CASE release
  <2>1. UNCHANGED threadVars
    BY <1>6 DEF release
  <2>2. CASE UNCHANGED bufferVars
    BY <2>1, <2>2, QuietLocks DEF LockInv, bufferVars, threadVars
  <2> QED BY <1>4, <1>6, <2>1, <2>2, ReleaseBuffers
<1> QED BY <1>1, <1>2, <1>3, <1>5, <1>6 DEF Next, Session
------------------------------------------------------------------------------
(* What the threads are showing.                                            *)

Open == ctl \in {"open", "clearing", "stopping"}

Showable == Slots \ {"record", "preview"}

(* A thread that is under way shows a buffer of the session, or it has been *)
(* overtaken by stop(): the device is closed then.                          *)
ShownInv ==
  /\ shown \in [Renderers -> Handles \cup {NULL}]
  /\ \A r \in Renderers :
       /\ pc[r] \in {"idle", "copy", "plane"} => shown[r] = NULL
       /\ pc[r] # "idle" => Open \/ ctl \in {"free", "closed"}
       /\ Open /\ shown[r] # NULL => \E s \in Showable : slot[s] = shown[r]

LEMMA ShownKept ==
  ASSUME BufferInv, SlotInv, LockInv, ShownInv, Next
  PROVE  ShownInv'
<1>1. ASSUME NEW r \in Renderers, Rendering(r) PROVE ShownInv'
  <2> USE DEF ShownInv, LockInv, Open
  <2>1. UNCHANGED <<ctl, slot>>
    BY <1>1, RendererKeeps
  <2>2. CASE lockFrame(r)
    BY <2>1, <2>2 DEF lockFrame, Goto
  <2>3. CASE unlockFrame(r)
    BY <2>1, <2>3 DEF unlockFrame, Goto
  <2>4. CASE show(r)
    <3>1. PICK s \in Slots : handleToShow(r, s) /\ shown' = [shown EXCEPT ![r] = slot[s]]
      BY <2>4 DEF show
    <3>2. s \in Showable
      BY <3>1 DEF handleToShow, Showable
    <3>3. PICK where \in {"destroy", "find"} : pc' = [pc EXCEPT ![r] = where] /\ ctl = "open"
      BY <2>4 DEF show, Goto
    <3>4. slot[s] \in Handles \cup {NULL}
      BY DEF SlotInv, SlotsOwn
    <3> QED BY <2>1, <3>1, <3>2, <3>3, <3>4
  <2>5. CASE RedetectDestroy(r) \/ RedetectClear(r)
    <3>1. PICK where \in {"clear", "flags"} : pc' = [pc EXCEPT ![r] = where]
            /\ pc[r] # "idle" /\ shown' = shown
      BY <2>5 DEF RedetectDestroy, RedetectClear, Goto
    <3> QED BY <2>1, <3>1
  <2>6. ASSUME Return(r) PROVE ShownInv'
    BY <2>1, <2>6 DEF Return, Goto
  <2>7. CASE RedetectFlags(r)
    <3>1. CASE Goto(r, "connectors") /\ shown' = shown /\ pc[r] = "flags"
      BY <2>1, <3>1 DEF Goto
    <3> QED BY <2>6, <2>7, <3>1 DEF RedetectFlags
  <2>8. CASE RedetectConnectors(r) \/ SetDrmPlane(r)
    BY <2>6, <2>8 DEF RedetectConnectors, SetDrmPlane
  <2>9. CASE FindSidebandPlane(r)
    <3>1. CASE Goto(r, "fbid") /\ shown' = shown /\ pc[r] = "find"
      BY <2>1, <3>1 DEF Goto
    <3> QED BY <2>6, <2>9, <3>1 DEF FindSidebandPlane
  <2>10. CASE getFbid(r)
    <3>1. CASE Goto(r, "plane") /\ shown' = [shown EXCEPT ![r] = NULL] /\ pc[r] = "fbid"
      BY <2>1, <3>1 DEF Goto
    <3> QED BY <2>6, <2>10, <3>1 DEF getFbid
  <2> QED BY <1>1, <2>2, <2>3, <2>4, <2>5, <2>7, <2>8, <2>9, <2>10 DEF Rendering, Quiet
<1>2. ASSUME UNCHANGED <<pc, shown>>,
             ctl' = ctl \/ ctl' \in {"clearing", "stopping", "free", "closed", "open"}
               \/ \A r \in Renderers : pc[r] = "idle",
             Open' => Open \/ \A r \in Renderers : pc[r] = "idle",
             \A s \in Showable : slot[s] # NULL /\ Open' => slot'[s] = slot[s]
      PROVE  ShownInv'
  BY <1>2 DEF ShownInv, Open
<1>3. CASE initWindow \/ initDetect \/ allocateCapture \/ importPreview \/ allocateSignal
  <2>1. UNCHANGED <<pc, shown>>
    BY <1>3 DEF initWindow, initDetect, allocateCapture, importPreview, allocateSignal,
                allocateStart, threadVars
  <2>2. \A r \in Renderers : pc[r] = "idle"
    <3>1. CASE initWindow
      BY <3>1 DEF initWindow
    <3>2. CASE initDetect \/ allocateCapture \/ importPreview \/ allocateSignal
      BY <3>2 DEF initDetect, allocateCapture, importPreview, MaySetPreview, allocateSignal, allocateStart,
                  ShownInv, Open
    <3> QED BY <1>3, <3>1, <3>2
  <2> QED BY <2>1, <2>2 DEF ShownInv, LockInv
<1>4. CASE allocateLate
  <2>1. PICK s \in Slots, h \in Handles : slot[s] = NULL /\ slot' = [slot EXCEPT ![s] = h]
    BY <1>4 DEF allocateLate, allocateInto
  <2>2. UNCHANGED <<pc, shown, ctl>>
    BY <1>4 DEF allocateLate, threadVars
  <2> QED BY <1>2, <2>1, <2>2 DEF SlotInv, SlotsOwn, Showable, Open
<1>5. CASE stopRecord
  <2>1. UNCHANGED <<pc, shown, ctl>> /\ slot' = [slot EXCEPT !["record"] = NULL]
    BY <1>5 DEF stopRecord, threadVars, freeSlot
  <2> QED BY <1>2, <2>1 DEF SlotInv, SlotsOwn, Showable, Open
<1>6. CASE stopClearsFb \/ stopClearsPlane \/ stopWindow
  <2>1. UNCHANGED <<pc, shown, slot>>
    BY <1>6 DEF stopClearsFb, stopClearsPlane, stopWindow, threadVars
  <2>2. \/ ctl = "failed" /\ ctl' = "clearing" /\ \A r \in Renderers : pc[r] = "idle"
        \/ Open /\ ctl' \in {"clearing", "stopping", "free"}
    BY <1>6 DEF stopClearsFb, stopClearsPlane, stopWindow, ShownInv, Open
  <2> QED BY <1>2, <2>1, <2>2 DEF Open
<1>7. CASE release
  <2>1. UNCHANGED <<pc, shown>>
    BY <1>7 DEF release, threadVars
  <2>2. ctl' \in {"free", "closed"}
    BY <1>7 DEF release
  <2> QED BY <1>2, <2>1, <2>2 DEF Open
<1>8. CASE World
  <2>1. UNCHANGED <<pc, shown, ctl, slot>>
    BY <1>8 DEF World, hotplug, markAsync, skipExpires, threadVars
  <2> QED BY <1>2, <2>1 DEF Open
<1> QED BY <1>1, <1>3, <1>4, <1>5, <1>6, <1>7, <1>8 DEF Next, Session

------------------------------------------------------------------------------
(* The framebuffers.                                                        *)

(* A cached framebuffer is the one of the buffer with that fd, and that     *)
(* buffer is in a slot that is not emptied while the device is open.        *)
Cached(fd) ==
  mFbidMap[fd] # NoFb =>
    /\ mFbidMap[fd] \in DOMAIN fbs
    /\ \E s \in Showable : slot[s] # NULL /\ fdOf[slot[s]] = fd /\ fbs[mFbidMap[fd]] = slot[s]

DeviceInv ==
  /\ mInitialized \in BOOLEAN
  /\ ctl \in {"closed", "free"} => mInitialized = FALSE
  /\ NoFbLeak
  /\ \A d \in Displays : screen[d] # NoFb => screen[d] \in DOMAIN fbs
  /\ mInitialized = TRUE => \A fd \in DOMAIN mFbidMap : Cached(fd)

LEMMA RemoveAll ==
  ASSUME DeviceInv, NEW ids, DOMAIN fbs \subseteq ids, RmFB(ids)
  PROVE  DOMAIN fbs' = {} /\ \A d \in Displays : screen'[d] = NoFb
BY DEF RmFB, DeviceInv

LEMMA NoFbs ==
  ASSUME mInitialized' \in BOOLEAN, ctl' \in {"closed", "free"} => mInitialized' = FALSE,
         DOMAIN fbs' = {}, \A d \in Displays : screen'[d] = NoFb,
         mInitialized' = TRUE => DOMAIN mFbidMap' = {}
  PROVE  DeviceInv'
BY DEF DeviceInv, NoFbLeak

LEMMA QuietDevice ==
  ASSUME SlotInv, DeviceInv, UNCHANGED <<mInitialized, mFbidMap, fbs, screen>>,
         ctl' \in {"closed", "free"} => mInitialized = FALSE,
         \A s \in Showable : slot[s] # NULL
            => slot'[s] = slot[s] /\ fdOf'[slot[s]] = fdOf[slot[s]]
  PROVE  DeviceInv'
<1>1. \A fd \in DOMAIN mFbidMap : Cached(fd) => Cached(fd)'
  BY DEF Cached
<1> QED BY <1>1 DEF DeviceInv, NoFbLeak, cachedFbs

LEMMA DestroyFbs ==
  ASSUME DeviceInv, DestoryFB, ctl' \notin {"closed", "free"} \/ ctl' = ctl
  PROVE  DeviceInv'
<1>1. DOMAIN mFbidMap' = {} /\ mInitialized' = mInitialized
  BY DEF DestoryFB, noMap
<1>2. DOMAIN fbs' = {} /\ \A d \in Displays : screen'[d] = NoFb
  <2>1. CASE mInitialized = TRUE
    <3>1. RmFB(cachedFbs) /\ DOMAIN fbs \subseteq cachedFbs
      BY <2>1 DEF DestoryFB, DeviceInv, NoFbLeak
    <3> QED BY <3>1, RemoveAll
  <2>2. CASE mInitialized = FALSE
    BY <2>2 DEF DestoryFB, DeviceInv, NoFbLeak, kernelVars
  <2> QED BY <2>1, <2>2 DEF DeviceInv
<1> QED BY <1>1, <1>2, NoFbs DEF DeviceInv

LEMMA Deinitialized ==
  ASSUME DeviceInv, deinitialize
  PROVE  DeviceInv'
<1>1. mInitialized' = FALSE
  BY DEF deinitialize, renderVars, DeviceInv
<1>2. DOMAIN fbs' = {} /\ \A d \in Displays : screen'[d] = NoFb
  <2>1. CASE mInitialized = TRUE
    BY <2>1, RemoveAll DEF deinitialize
  <2>2. CASE mInitialized = FALSE
    BY <2>2 DEF deinitialize, DeviceInv, NoFbLeak, kernelVars
  <2> QED BY <2>1, <2>2 DEF DeviceInv
<1> QED BY <1>1, <1>2, NoFbs

(* A thread that gets a framebuffer while the device is open shows a buffer *)
(* of the session.                                                          *)
LEMMA GetFbidDevice ==
  ASSUME BufferInv, SlotInv, ShownInv, DeviceInv, NEW r \in Renderers, getFbid(r)
  PROVE  DeviceInv'
<1>1. PICK h, fd : h = shown[r] /\ fd = GetHandleFd(shown[r])
  OBVIOUS
<1>2. UNCHANGED <<fdOf, live, slot, ctl, mInitialized, screen>> /\ pc[r] = "fbid"
  BY DEF getFbid, bufferVars
<1>3. \/ UNCHANGED <<mFbidMap, fbs>>
      \/ fd \notin DOMAIN mFbidMap /\ AddFB2Fails(fd)
      \/ h # NULL /\ fd \notin DOMAIN mFbidMap /\ \E fb \in FbIds : AddFB2(h, fd, fb)
  BY <1>1 DEF getFbid, getFbidFails
<1>4. CASE UNCHANGED <<mFbidMap, fbs>>
  BY <1>2, <1>4, QuietDevice DEF DeviceInv
<1>5. CASE fd \notin DOMAIN mFbidMap /\ AddFB2Fails(fd)
  <2>1. fbs' = fbs /\ mFbidMap' = insert(mFbidMap, fd, NoFb)
    BY <1>5 DEF AddFB2Fails
  <2>2. DOMAIN mFbidMap' = DOMAIN mFbidMap \cup {fd} /\ mFbidMap'[fd] = NoFb
        /\ \A x \in DOMAIN mFbidMap : mFbidMap'[x] = mFbidMap[x]
    BY <1>5, <2>1 DEF insert
  <2>3. cachedFbs \subseteq cachedFbs'
    BY <2>2 DEF cachedFbs
  <2>4. \A x \in DOMAIN mFbidMap : Cached(x) => Cached(x)'
    BY <1>2, <2>1, <2>2 DEF Cached
  <2>5. Cached(fd)'
    BY <2>2 DEF Cached
  <2> QED BY <1>2, <2>1, <2>2, <2>3, <2>4, <2>5 DEF DeviceInv, NoFbLeak
<1>6. ASSUME h # NULL, fd \notin DOMAIN mFbidMap, NEW fb \in FbIds, AddFB2(h, fd, fb)
      PROVE  DeviceInv'
  <2>1. mInitialized /\ fd # BadFd /\ fb \notin DOMAIN fbs
        /\ fbs' = insert(fbs, fb, h) /\ mFbidMap' = insert(mFbidMap, fd, fb)
    BY <1>6 DEF AddFB2
  <2>2. DOMAIN mFbidMap' = DOMAIN mFbidMap \cup {fd} /\ mFbidMap'[fd] = fb
        /\ \A x \in DOMAIN mFbidMap : mFbidMap'[x] = mFbidMap[x]
    BY <1>6, <2>1 DEF insert
  <2>3. DOMAIN fbs' = DOMAIN fbs \cup {fb} /\ fbs'[fb] = h
        /\ \A x \in DOMAIN fbs : fbs'[x] = fbs[x]
    BY <2>1 DEF insert
  <2>4. PICK s \in Showable : slot[s] = h
    <3>1. Open
      BY <1>2, <2>1 DEF ShownInv, DeviceInv
    <3> QED BY <1>1, <1>6, <3>1 DEF ShownInv
  <2>5. fdOf[h] = fd
    <3>1. h \in live
      BY <1>6, <2>4 DEF SlotInv, SlotsOwn, Showable
    <3> QED BY <1>1, <3>1, FdOfHandle
  <2>6. Cached(fd)'
    BY <1>2, <1>6, <2>2, <2>3, <2>4, <2>5 DEF Cached
  <2>7. \A x \in DOMAIN mFbidMap : Cached(x) => Cached(x)'
    BY <1>2, <2>2, <2>3 DEF Cached
  <2>8. DOMAIN fbs' \subseteq cachedFbs'
    <3>1. \A f \in DOMAIN fbs : \E x \in DOMAIN mFbidMap : f = mFbidMap[x]
      BY <2>1 DEF DeviceInv, NoFbLeak, cachedFbs
    <3> QED BY <2>2, <2>3, <3>1 DEF cachedFbs
  <2>9. NoFbLeak'
    BY <1>2, <2>1, <2>8 DEF NoFbLeak
  <2> QED BY <1>2, <2>2, <2>3, <2>6, <2>7, <2>9 DEF DeviceInv
<1> QED BY <1>3, <1>4, <1>5, <1>6

(* A freed buffer is not one of those the open device shows.                *)
LEMMA FreeDevice ==
  ASSUME BufferInv, SlotInv, DeviceInv, NEW s \in Slots, slot[s] # NULL, freeSlot(s),
         s = "record" \/ ctl = "free", ctl' = ctl,
         UNCHANGED <<mInitialized, mFbidMap, screen>>
  PROVE  DeviceInv'
<1>1. freeBuffer(slot[s]) /\ \A t \in Slots : t # s => slot'[t] = slot[t] /\ slot[t] # slot[s]
  BY EmptySlot DEF SlotInv
<1>2. DOMAIN fbs' = DOMAIN fbs /\ \A f \in DOMAIN fbs : fbs[f] # slot[s] => fbs'[f] = fbs[f]
  BY DEF freeSlot, Orphaned
<1>3. CASE ctl = "free"
  BY <1>2, <1>3 DEF DeviceInv, NoFbLeak
<1>4. CASE s = "record"
  <2>1. \A t \in Showable : t \in Slots /\ t # s
    BY <1>4 DEF Showable
  <2>2. \A t \in Showable : slot[t] # NULL =>
          /\ slot'[t] = slot[t] /\ slot[t] # slot[s]
          /\ fdOf'[slot[t]] = fdOf[slot[t]]
    <3>1. \A g \in live : g # slot[s] => fdOf'[g] = fdOf[g]
      BY <1>1, FreeKeeps
    <3> QED BY <1>1, <2>1, <3>1 DEF SlotInv, SlotsOwn
  <2>3. ASSUME NEW fd \in DOMAIN mFbidMap, Cached(fd) PROVE Cached(fd)'
    BY <1>2, <2>2, <2>3 DEF Cached
  <2>4. NoFbLeak'
    BY <1>2 DEF DeviceInv, NoFbLeak, cachedFbs
  <2> QED BY <1>2, <2>3, <2>4 DEF DeviceInv
<1> QED BY <1>3, <1>4

LEMMA DeviceKept ==
  ASSUME BufferInv, SlotInv, ShownInv, DeviceInv, Next
  PROVE  DeviceInv'
<1>1. ASSUME NEW r \in Renderers, Rendering(r) PROVE DeviceInv'
  <2>1. UNCHANGED <<ctl, slot>>
    BY <1>1, RendererKeeps
  <2>2. CASE lockFrame(r) \/ unlockFrame(r)
    <3>1. UNCHANGED <<mInitialized, mFbidMap, fbs, screen, fdOf>>
      BY <2>2 DEF lockFrame, unlockFrame, LockBoth, UnlockBoth, renderVars, kernelVars
    <3> QED BY <2>1, <3>1, QuietDevice DEF DeviceInv
  <2>3. CASE show(r) \/ RedetectClear(r) \/ RedetectConnectors(r) \/ FindSidebandPlane(r)
    <3>1. UNCHANGED <<mInitialized, mFbidMap, fbs, screen, fdOf>>
      BY <2>3 DEF show, RedetectClear, RedetectConnectors, FindSidebandPlane,
                  bufferVars, renderVars, kernelVars
    <3> QED BY <2>1, <3>1, QuietDevice DEF DeviceInv
  <2>4. CASE RedetectDestroy(r)
    BY <2>1, <2>4, DestroyFbs DEF RedetectDestroy
  <2>5. CASE RedetectFlags(r)
    <3>1. UNCHANGED <<mInitialized, mFbidMap, fbs, screen, fdOf>>
      BY <2>5 DEF RedetectFlags, detectFlags, bufferVars, kernelVars
    <3> QED BY <2>1, <3>1, QuietDevice DEF DeviceInv
  <2>6. CASE getFbid(r)
    BY <2>6, GetFbidDevice
  <2>7. CASE SetDrmPlane(r)
    <3>1. UNCHANGED <<mInitialized, mFbidMap, fbs, fdOf>>
      BY <2>7 DEF SetDrmPlane, bufferVars, renderVars
    <3>2. \A d \in Displays : screen'[d] = screen[d] \/ screen'[d] \in DOMAIN fbs
      BY <2>7 DEF SetDrmPlane, SetPlane
    <3>3. \A fd : Cached(fd) => Cached(fd)'
      BY <2>1, <3>1 DEF Cached
    <3> QED BY <2>1, <3>1, <3>2, <3>3 DEF DeviceInv, NoFbLeak, cachedFbs
  <2> QED BY <1>1, <2>2, <2>3, <2>4, <2>5, <2>6, <2>7 DEF Rendering, Quiet
<1>2. CASE initWindow
  <2>1. CASE initialize /\ ctl' = "detect"
    <3>1. mInitialized' = TRUE /\ DOMAIN mFbidMap' = {}
      BY <2>1 DEF initialize, noMap
    <3>2. UNCHANGED <<fbs, screen>> /\ ctl = "closed"
      BY <1>2 DEF initWindow, kernelVars
    <3>3. DOMAIN fbs = {} /\ \A d \in Displays : screen[d] = NoFb
      BY <3>2 DEF DeviceInv, NoFbLeak
    <3> QED BY <2>1, <3>1, <3>2, <3>3, NoFbs
  <2>2. CASE UNCHANGED renderVars /\ ctl' = firstSlot
    <3>1. UNCHANGED <<mInitialized, mFbidMap, fbs, screen, fdOf, slot>>
      BY <1>2, <2>2 DEF initWindow, renderVars, kernelVars, bufferVars
    <3> QED BY <2>2, <3>1, QuietDevice DEF firstSlot
  <2> QED BY <1>2, <2>1, <2>2 DEF initWindow
<1>3. CASE initDetect \/ stopClearsPlane \/ World
  <2>1. UNCHANGED <<mInitialized, mFbidMap, fbs, screen, fdOf, slot>>
    BY <1>3 DEF initDetect, stopClearsPlane, World, hotplug, markAsync, skipExpires,
                renderVars, kernelVars, bufferVars
  <2>2. ctl' \in {"capture", "signal", "stopping", ctl}
    BY <1>3 DEF initDetect, stopClearsPlane, World, hotplug, markAsync, skipExpires, firstSlot
  <2> QED BY <2>1, <2>2, QuietDevice DEF DeviceInv
<1>4. ASSUME NEW s \in Slots, NEW h, slot[s] = NULL, Import(h), slot' = [slot EXCEPT ![s] = h],
             UNCHANGED <<mInitialized, mFbidMap, fbs, screen>>, ctl' \in {"signal", "open"},
             buffer_context_' \in {buffer_context_, buffer_context_ \cup {h}}
      PROVE  DeviceInv'
  <2>1. \A g \in live : fdOf'[g] = fdOf[g]
    BY <1>4, ImportKeeps
  <2>2. \A t \in Slots : slot[t] # NULL
          => slot'[t] = slot[t] /\ fdOf'[slot[t]] = fdOf[slot[t]]
    BY <1>4, <2>1 DEF SlotInv, SlotsOwn
  <2> QED BY <1>4, <2>2, QuietDevice DEF Showable
<1>5. ASSUME UNCHANGED <<mInitialized, mFbidMap, fbs, screen, fdOf, slot>>,
             ctl' \in {"signal", "open", "failed"}
      PROVE  DeviceInv'
  BY <1>5, QuietDevice
<1>6. CASE allocateCapture \/ allocateSignal
  <2>1. PICK s \in {"capture", "signal"}, next \in {"signal", "open"}, failed \in {"failed", "open"} :
          allocateStart(s, next, failed)
    BY <1>6 DEF allocateCapture, allocateSignal
  <2>2. UNCHANGED <<mInitialized, mFbidMap, fbs, screen>>
    BY <2>1 DEF allocateStart, renderVars, kernelVars
  <2>3. CASE s \in Slots /\ ctl' = next /\ \E h \in Handles : allocateInto(s, h)
    <3>1. PICK h \in Handles : allocateInto(s, h)
      BY <2>3
    <3>2. slot[s] = NULL
      BY <2>1, <2>3 DEF SlotInv, SlotsEmpty, allocateStart, allocateCapture, allocateSignal
    <3> QED BY <1>4, <2>2, <2>3, <3>1, <3>2 DEF allocateInto, Allocate
  <2>4. CASE UNCHANGED <<fdOf, slot>> /\ ctl' \in {next, failed}
    BY <1>5, <2>2, <2>4
  <2> QED BY <2>1, <2>3, <2>4 DEF allocateStart, AllocateFails, bufferVars
<1>7. CASE importPreview
  <2>1. UNCHANGED <<mInitialized, mFbidMap, fbs, screen>> /\ "preview" \in Slots /\ ctl = "capture"
    BY <1>7 DEF importPreview, MaySetPreview, renderVars, kernelVars
  <2>2. PICK h \in Handles, fd \in Fds \cup {BadFd} :
          /\ importHidlHandleBufferLocked(h, fd)
          /\ \/ slot' = [slot EXCEPT !["preview"] = h] /\ ctl' = "signal"
             \/ ctl' = "failed" /\ UNCHANGED slot
    BY <1>7 DEF importPreview
  <2>3. \A s \in Showable : slot'[s] = slot[s]
    BY <2>2 DEF Showable, SlotInv, SlotsOwn
  <2>4. \A g \in live : fdOf'[g] = fdOf[g]
    BY <2>2, ImportKeeps DEF importHidlHandleBufferLocked, ImportBufferLocked, bufferVars
  <2>5. \A s \in Showable : slot[s] # NULL => slot[s] \in live
    BY DEF Showable, SlotInv, SlotsOwn
  <2> QED BY <2>1, <2>2, <2>3, <2>4, <2>5, QuietDevice
<1>8. CASE allocateLate
  <2>1. PICK s \in Slots, h \in Handles : slot[s] = NULL /\ allocateInto(s, h)
    BY <1>8 DEF allocateLate
  <2> QED BY <1>4, <1>8, <2>1 DEF allocateLate, allocateInto, Allocate, renderVars, kernelVars
<1>9. CASE stopRecord
  BY <1>9, FreeDevice DEF stopRecord, renderVars
<1>10. CASE stopClearsFb
  BY <1>10, DestroyFbs DEF stopClearsFb
<1>11. CASE stopWindow
  BY <1>11, Deinitialized DEF stopWindow
<1>12. CASE release
  <2>1. UNCHANGED <<mInitialized, mFbidMap, screen>> /\ ctl = "free"
    BY <1>12 DEF release, renderVars
  <2>2. CASE UNCHANGED <<bufferVars, fbs, slot>>
    BY <2>1, <2>2, QuietDevice DEF DeviceInv, bufferVars
  <2> QED BY <1>12, <2>1, <2>2, ReleaseBuffers, FreeDevice
<1> QED BY <1>1, <1>2, <1>3, <1>6, <1>7, <1>8, <1>9, <1>10, <1>11, <1>12 DEF Next, Session
------------------------------------------------------------------------------
(* The properties.                                                          *)

RenderInv == BufferInv /\ SlotInv /\ LockInv /\ ShownInv /\ DeviceInv

LEMMA InitRender ==
  ASSUME Init
  PROVE  RenderInv
<1>1. BufferInv
  BY DEF Init, BufferInit, BufferInv, BufferTypeOK
<1>2. SlotInv
  BY DEF Init, BufferInit, SlotInv, SlotsOwn, SlotsEmpty
<1>3. LockInv
  BY DEF Init, BufferInit, LockInv, Places
<1>4. ShownInv
  BY DEF Init, ShownInv, Open
<1>5. DeviceInv
  <2>1. mInitialized = FALSE /\ DOMAIN fbs = {} /\ \A d \in Displays : screen[d] = NoFb
    BY DEF Init, noMap
  <2> QED BY <2>1 DEF DeviceInv, NoFbLeak
<1> QED BY <1>1, <1>2, <1>3, <1>4, <1>5 DEF RenderInv

LEMMA NextRender ==
  ASSUME RenderInv, [Next]_vars
  PROVE  RenderInv'
<1>1. CASE Next
  BY <1>1, BufferStep, LocksKept, ShownKept, DeviceKept DEF RenderInv
<1>2. CASE UNCHANGED vars
  <2>1. UNCHANGED <<bufferVars, renderVars, kernelVars, threadVars, ctl, slot>>
    BY <1>2 DEF vars
  <2>2. BufferInv' /\ SlotInv'
    BY <2>1, QuietBuffers DEF RenderInv
  <2>3. LockInv'
    BY <2>1, QuietLocks DEF RenderInv, LockInv, bufferVars, threadVars
  <2>4. ShownInv'
    BY <2>1 DEF RenderInv, ShownInv, Open, threadVars
  <2>5. DeviceInv'
    BY <2>1, QuietDevice DEF RenderInv, DeviceInv, renderVars, kernelVars, bufferVars
  <2> QED BY <2>2, <2>3, <2>4, <2>5 DEF RenderInv
<1> QED BY <1>1, <1>2

THEOREM AlwaysRender == Spec => []RenderInv
<1>1. RenderInv /\ [Next]_vars => RenderInv'
  BY NextRender
<1> QED BY <1>1, InitRender, PTL DEF Spec

(* getFbid() caches by fd number and never asks whether the number still    *)
(* means the same dma-buf.  It finds the right framebuffer all the same:    *)
(* the buffers it caches live as long as the device is open.                *)
THEOREM CacheIsRight == Spec => []FbIsBuffer
<1>1. RenderInv => FbIsBuffer
  <2> SUFFICES ASSUME RenderInv, mInitialized, NEW h \in live,
                      fdOf[h] \in DOMAIN mFbidMap, mFbidMap[fdOf[h]] # NoFb
               PROVE  mFbidMap[fdOf[h]] \in DOMAIN fbs /\ fbs[mFbidMap[fdOf[h]]] = h
    BY DEF FbIsBuffer
  <2>1. Cached(fdOf[h])
    BY DEF RenderInv, DeviceInv
  <2>2. PICK s \in Showable :
          slot[s] # NULL /\ fdOf[slot[s]] = fdOf[h] /\ fbs[mFbidMap[fdOf[h]]] = slot[s]
    BY <2>1 DEF Cached
  <2>3. slot[s] \in live
    BY <2>2 DEF RenderInv, SlotInv, SlotsOwn, Showable
  <2>4. slot[s] = h
    BY <2>2, <2>3 DEF RenderInv, BufferInv
  <2> QED BY <2>1, <2>2, <2>4 DEF Cached
<1> QED BY <1>1, AlwaysRender, PTL

(* Whatever threads are late, the screen shows a live buffer or nothing.    *)
THEOREM ScreenIsLive == Spec => []ScreenShowsLiveBuffer
<1>1. RenderInv => ScreenShowsLiveBuffer
  <2> SUFFICES ASSUME RenderInv, NEW d \in Displays, screen[d] # NoFb
               PROVE  screen[d] \in DOMAIN fbs /\ fbs[screen[d]] \in live
    BY DEF ScreenShowsLiveBuffer
  <2>1. screen[d] \in DOMAIN fbs
    BY DEF RenderInv, DeviceInv
  <2>2. mInitialized = TRUE /\ screen[d] \in cachedFbs
    BY <2>1 DEF RenderInv, DeviceInv, NoFbLeak
  <2>3. PICK fd \in DOMAIN mFbidMap : screen[d] = mFbidMap[fd]
    BY <2>2 DEF cachedFbs
  <2>4. Cached(fd)
    BY <2>2, <2>3 DEF RenderInv, DeviceInv
  <2>5. PICK s \in Showable : slot[s] # NULL /\ fbs[screen[d]] = slot[s]
    BY <2>3, <2>4 DEF Cached
  <2> QED BY <2>1, <2>5 DEF RenderInv, SlotInv, SlotsOwn, Showable
<1> QED BY <1>1, AlwaysRender, PTL

(* deinitialize() removes its framebuffers through the fd it has just       *)
(* closed, and clears no map.  None is lost: the kernel has none while the  *)
(* device is closed, and else each is in the map that DestoryFB() walks.    *)
THEOREM NoFbLost == Spec => []NoFbLeak
<1>1. RenderInv => NoFbLeak
  BY DEF RenderInv, DeviceInv
<1> QED BY <1>1, AlwaysRender, PTL

(* release_buffer() frees the buffers of every slot, and Free() finds the   *)
(* context it asks for.                                                     *)
THEOREM AllFreed == Spec => []AllFreedAtClose
<1>1. RenderInv => AllFreedAtClose
  BY DEF RenderInv, SlotInv, SlotsOwn, SlotsEmpty, AllFreedAtClose
<1> QED BY <1>1, AlwaysRender, PTL

(* NV24ToNV12() takes back the locks it took: between two copies no buffer   *)
(* is locked, at an address that was freed during a copy and given to       *)
(* another buffer neither.  That a buffer is unlocked before it is freed is *)
(* not said: stopRecord() may free one that is being copied into, and the   *)
(* mapper forgets its lock with it.                                         *)
THEOREM LocksGivenBack == Spec => []LocksBalanced
<1>1. RenderInv => LocksBalanced
  BY DEF RenderInv, LockInv, BufferInv, BufferTypeOK, LocksBalanced
<1> QED BY <1>1, AlwaysRender, PTL

=============================================================================
