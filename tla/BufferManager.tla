----------------------------- MODULE BufferManager -----------------------------
(***************************************************************************)
(* TvInputBufferManagerImpl over gralloc 4                                  *)
(* (common/TvInput_Buffer_Manager_gralloc4_impl.cpp): which buffer handles  *)
(* it knows, and what allocate, import, free and lock do to them.  The      *)
(* mapper and the allocator are services: a handle is an address and an fd  *)
(* a number, and both are given out again once they are free.               *)
(***************************************************************************)
EXTENDS Naturals, Sequences, FiniteSets

CONSTANTS
  Handles,    \* addresses of native handles
  Fds         \* file descriptors that dma-bufs may get

NULL == "NULL"
BadFd == "BAD_VALUE"

ASSUME HandlesAssumption ==
  /\ IsFiniteSet(Handles) /\ IsFiniteSet(Fds)
  /\ Cardinality(Handles) <= Cardinality(Fds)
  /\ NULL \notin Handles /\ BadFd \notin Fds

VARIABLES
  live,            \* handles the mapper has imported and not freed
  fdOf,            \* the fd of a live handle
  buffer_context_, \* handles the manager holds a context for
  locked           \* how often a handle is locked for the CPU

bufferVars == <<live, fdOf, buffer_context_, locked>>

BufferInit ==
  /\ live = {}
  /\ fdOf = [h \in Handles |-> BadFd]
  /\ buffer_context_ = {}
  /\ locked = [h \in Handles |-> 0]

(* The mapper gives a new buffer an address and an fd that nobody uses.      *)
Import(h) ==
  /\ h \in Handles \ live
  /\ live' = live \cup {h}
  /\ \E fd \in Fds \ {fdOf[g] : g \in live} : fdOf' = [fdOf EXCEPT ![h] = fd]
  /\ UNCHANGED locked

(* Mutant: an allocated buffer is treated like an imported one.             *)
WithoutContext(h) == Import(h) /\ UNCHANGED buffer_context_

(* AllocateGrallocBuffer(): a context is entered under *out_buffer.          *)
Allocate(h) ==
  /\ Import(h)
  /\ buffer_context_' = buffer_context_ \cup {h}

(* createDescriptor(): the mapper refuses the descriptor.                   *)
createDescriptorFails == UNCHANGED buffer_context_

(* The allocator or the import fails: *out_buffer is still NULL, and the    *)
(* context is entered all the same.                                         *)
importFails == buffer_context_' = buffer_context_ \cup {NULL}

AllocateFails ==
  /\ createDescriptorFails \/ importFails
  /\ UNCHANGED <<live, fdOf, locked>>

(* ImportBufferLocked(): no context.                                        *)
ImportBufferLocked(h) == Import(h) /\ UNCHANGED buffer_context_

(* mapper.freeBuffer(): refused for a handle that is not imported.          *)
freeBuffer(h) ==
  /\ live' = live \ {h}
  /\ fdOf' = [fdOf EXCEPT ![h] = BadFd]
  /\ locked' = [locked EXCEPT ![h] = 0]
  /\ UNCHANGED buffer_context_

(* Free() asks for a context, and leaves it.                                *)
Free(h) == IF h \in buffer_context_ THEN freeBuffer(h) ELSE UNCHANGED bufferVars

(* FreeLocked() does not ask.                                               *)
FreeLocked(h) == freeBuffer(h)

(* What the mapper tells of the planes of a buffer.                         *)
PlaneFds(h) == [size |-> 1, fds |-> <<fdOf[h]>>]

decodeArmPlaneFds(data) ==
  IF data.size < 0 THEN <<BadFd>> ELSE SubSeq(data.fds, 1, data.size)

(* get_metadata(): the mapper's error comes back as a number.               *)
get_metadata(h, decoded) == IF h \in live THEN decoded ELSE <<BadFd>>

GetHandleFd(h) == get_metadata(h, decodeArmPlaneFds(PlaneFds(h)))[1]

getBufferHandleFd(h) == IF h = NULL THEN BadFd ELSE GetHandleFd(h)

(* FlushCache() only looks the fd up: the ioctl is commented out.           *)
FlushCacheSucceeds(h) == get_metadata(h, decodeArmPlaneFds(PlaneFds(h)))[1] # BadFd

(* Lock() asks for a context and LockLocked() does not; neither gets an      *)
(* address for a handle that the mapper does not know.                      *)
LockGetsAddress(h) == h \in buffer_context_ /\ h \in live
LockLockedGetsAddress(h) == h \in live

LockBoth(src, dst) ==
  /\ locked' = [h \in Handles |->
                  locked[h] + (IF h = src /\ LockGetsAddress(h) THEN 1 ELSE 0)
                            + (IF h = dst /\ LockLockedGetsAddress(h) THEN 1 ELSE 0)]
  /\ UNCHANGED <<live, fdOf, buffer_context_>>

(* Unlock() asks for a context and UnlockLocked() does not; the mapper has   *)
(* nothing to unlock for a handle that is not locked.                       *)
Unlocks(h) == h \in buffer_context_ /\ h \in live /\ locked[h] > 0
UnlocksLocked(h) == h \in live /\ locked[h] > 0

(* Mutant: only the target is unlocked.                                     *)
UnlockTarget(src, dst) ==
  /\ locked' = [h \in Handles |-> IF h = dst /\ UnlocksLocked(h) THEN locked[h] - 1
                                                                ELSE locked[h]]
  /\ UNCHANGED <<live, fdOf, buffer_context_>>

(* UnlockLocked(dst) and Unlock(src), when the copy is done.                *)
UnlockBoth(src, dst) ==
  /\ locked' = [h \in Handles |->
                  IF (h = dst /\ UnlocksLocked(h)) \/ (h = src /\ Unlocks(h))
                    THEN locked[h] - 1 ELSE locked[h]]
  /\ UNCHANGED <<live, fdOf, buffer_context_>>

BufferTypeOK ==
  /\ live \subseteq Handles
  /\ fdOf \in [Handles -> Fds \cup {BadFd}]
  /\ \A h \in live : fdOf[h] # BadFd
  /\ buffer_context_ \subseteq Handles \cup {NULL}
  /\ locked \in [Handles -> 0 .. 2]
==============================================================================
