# Rockchip TV input HAL: a TLA+ model

The repository is the Android TV input HAL for Rockchip boards: it takes pictures
from an HDMI receiver (a V4L2 capture device), and hands them to the TV input
service in preview buffers, shows them itself in a sideband window, improves them
on the way (PQ), deinterlaces them (IEP), and records them. This directory holds
TLA+ modules that model the HAL from its entry points to the display planes, TLC
configurations that check them on small instances, and TLAPS proofs of every safety
property for any number of buffers, sessions, handles and sizes.

Line numbers below are lines of the files under `src/`.

## 1. Inventory

### The parts, their state and their operations

| part | source | state | operations | modules |
|---|---|---|---|---|
| HAL entry points | `tv_input.cpp` | `s_TvInputPriv` (device, session, stream, callback, preview buffer), `mHinDevEventCb` | `initialize`, `get_stream_configurations`, `open_stream`, `close_stream`, `request_capture`, `set_preview_info`, `device_close`, the V4L2 event callback | `TvInputSession` |
| capture device | `HinDevImpl.cpp`, `HinDev.h` | `mState`, `mOpen`, `bufferArray`, `currBufferHandleIndex`, `mRequestCaptureCount`, `mFirstRequestCapture`, buffer handles | `findDevice`, `init`, `start_device`, `start`, `stop`, `set_preview_buffer`, `request_capture`, `workThread`, `get_HdmiIn`, `get_current_sourcesize` | `CaptureStream`, `TvInputSession` |
| PQ and the screen | `HinDevImpl.cpp` | `mPqMode`, `mPqIniting`, `mPqBufferHandle[]`, `mPqBuffIndex`, `mPqBuffOutIndex`, `mRkpq` | the sideband branch of `workThread`, `doPQCmd`, `pqBufferThread`, `deal_priv_message("pq")` | `SidebandStream`, `FrameQueue` |
| interlaced output | `HinDevImpl.cpp` | `mIepBufferHandle[]`, `mIepBuffIndex`, `mIepBuffOutIndex`, `mRkiep` | `pqBufferThread` (producer), `iepBufferThread` (consumer) | `IepRing` |
| recording | `HinDevImpl.cpp`, `enc/MppEncodeServer.*`, `enc/OutFrameThread.*`, `enc/RKMppEncApi.*` | `gMppEnCodeServer`, `mRecordHandle[]` with `isCoding`, `mRecordCodingBuffIndex`, `mExecState`, `mThreadEnabled`, `mThreadExited` | `doRecordCmd`, `stopRecord`, `init`/`start`/`stop`/`release`, the looper's messages, `run`/`processQueue`, `OnInputAvailableCB`; the encoder's configuration | `EncodeServer`, `MppEncoder` |
| V4L2 event thread | `TvDeviceV4L2Event.*` | quit pipe, `mVideoFd`, subscriptions | `initialize`, `threadLoop`, `closePipe`, `closeEventThread` | `TvInputSession` |
| sideband window | `sideband/RTSidebandWindow.*`, `sideband/MessageQueue.*`, `sideband/MessageThread.*` | the geometry of the window; a message queue that nothing serves | `allocateBuffer`, `freeBuffer`, `show`, `flushCache`, `buffDataTransfer`, `clearVopArea`, `stop`; not modelled: the message loop and what sends to it (section 7) | `VopRender`, `FrameGeometry` |
| DRM/VOP renderer | `sideband/DrmVopRender.*` | outputs, cached framebuffers by fd | `initialize`, `deinitialize`, `detect`, `needRedetect`, `FindSidebandPlane`, `SetDrmPlane`, `getFbid`, `DestoryFB` | `VopRender` |
| gralloc buffers | `common/TvInput_Buffer_Manager*` | buffer contexts by handle | `Allocate`, `ImportBufferLocked`, `Lock`/`Unlock`, `Free`, metadata | `BufferManager`, `FrameGeometry` |
| formats and scaling | `HinDevImpl.cpp`, `common/RgaCropScale.*`, `enc/RKMppEncApi.*` | copies of width, height, format and strides in six places | `set_format`, `set_crop`, `setBufferGeometry`, `doPQCmd`, `doRecordCmd`, `CropScale`, `NV24ToNV12` | `FrameGeometry`, `MppEncoder` |
| the driver, MPP, rkpq, gralloc, the kernel's DRM, the TV input service | outside `src/` | | `QBUF`, `DQBUF`, `select`; `sendFrame`, `getoutpacket`; `dopq`; `drmModeAddFB2`, `drmModeSetPlane` | `V4L2Queue`, and as guards of the modules above |

### How they interact

The binder thread calls the entry points, which call `HinDevImpl`. `start()`
creates `WorkThread` and, for a sideband window, `PqBufferThread` (and
`IepBufferThread`); each calls its thread function over and over
(`HinDev.h:187-240`). The event thread calls `get_HdmiIn(false)` and
`get_current_sourcesize()` on the same object. The first recorded frame adds the
encoder's looper and output thread. The output thread calls back into
`HinDevImpl` to release the record buffer. `mBufferLock` serialises the binder
thread's commands with `pqBufferThread`; `workThread`, `iepBufferThread` and the
event thread's size changes take no lock, and the counters and state they share
are plain variables. The driver owns a buffer from `QBUF` to `DQBUF`, the client
from the notification to `request_capture`. `workThread`, `pqBufferThread`,
`iepBufferThread` and the event thread all show buffers through one `DrmVopRender`
singleton, which asks the buffer manager for the fd of a handle and keeps
framebuffers by fd number. `close_stream()` leaves the `HinDevImpl` object and its
threads behind; the next open makes another one.

### What is hard

- Three threads on `mState`, `mRequestCaptureCount`, `bufferArray` without a lock.
- Who owns a buffer, when each owner identifies it differently: V4L2 index, slot
  number, fd, `bufferId`.
- A capture that stops and resumes with the signal in the middle of an iteration.
- A second ring (PQ) read by another thread, reset when PQ is switched on; a third
  (IEP) whose consumer holds no lock; a fourth (recording) whose slots are released
  by index from another thread, and a stop protocol over two flags and a looper.
- Numbers that are used again: fds by the kernel, handle addresses by the mapper,
  framebuffer ids by DRM, each with a table in the HAL that is keyed by them.
- Threads that outlive the session that made them.
- Displays that come and go while two threads show and may both detect again.
- Six copies of the picture's geometry, updated by different events.
- Time-outs that consume tickets; ioctls that fail half-way through a loop.

### What makes each part correct

| part | properties |
|---|---|
| capture | one owner per buffer; tickets neither multiply nor vanish; the driver always owns one, empty or filled; a settled signal means a running capture; every buffer comes round |
| PQ and screen | the ring is a FIFO; `dopq` gets a live PQ object and a source; the flushed handle is the dequeued one; the picture moves |
| interlaced output | the deinterlacer reads whole fields, in order; it does not write what is shown; fields keep being shown |
| recording | a frame being coded is not overwritten; what was sent comes back; `stop()` returns once told to; the output thread calls no deleted encoder |
| event thread, session | `isOpened` is never set without a device; nobody closes another's file; no thread outlives a deleted object; no handle leaks; calls return and events are handled; the reported size is current |
| renderer, gralloc | a cached framebuffer belongs to the buffer shown; no freed buffer on the screen; no framebuffer and no buffer is left behind; locks are balanced; a connected display shows the stream again |
| geometry | each consumer stays within its buffer; converter and encoder agree; the whole picture is shown; recording starts |

`PROJECT.json` lists the hazards line by line with the properties that cover them.

## 2. Plan

Order of importance: pictures reach the client, pictures reach the screen,
recording, then life cycle and helpers. All modules of the plan are written:

1. `V4L2Queue`, `CaptureStream`: capture into application buffers, with proofs.
2. `EncodeServer`: recording.
3. `FrameQueue`, `SidebandStream`: the screen, with the PQ ring shown to implement a
   bounded FIFO.
4. `TvInputSession`: open, close, reopen and teardown against running threads; entry
   points, event thread and file descriptors in one module, because what can go
   wrong lies between them.
5. `IepRing`: the ring between PQ and deinterlacing. It is no FIFO queue (a writer
   that finds a slot full goes on to the next one), so it has its own properties.
6. `BufferManager` and `VopRender`: the path of a buffer to the screen, over numbers
   that are used again.
7. `MppEncoder` and `FrameGeometry`: sizes, strides and alignments through a session.
8. The proofs, one module per model (section 6): every invariant and action property of
   the runs, and the refinement of `FrameQueue`.

Left: what is still true of these properties under the faults that section 6 excludes; a
driver that is writing into a buffer PQ still reads (section 7).

## 3. Modules

Modules without recursion, so that every one of them can be proved about. A module
keeps the names of the source where it can; operators whose comment begins with
"Mutant" are deliberate errors that a run must notice, and no behaviour uses them.

### `V4L2Queue` (external)

The driver: `queued` (to be filled) and `done` (to be dequeued), both FIFO. `Qbuf`
is refused for a buffer the driver has already; `Readable` is `select()`. There is
no source for it here: it is the contract the code relies on.

### `CaptureStream`

`HinDevImpl` between `set_preview_buffer` and `stop()`. A step is a stretch of
code that touches shared state once.

| model | code |
|---|---|
| `Start`, `StartDevice`, `aquire_buffer` | `start()` 512-561, `start_device()` 433-497, `aquire_buffer()` 962-1009; `QUERYBUF` or `QBUF` may fail after any number of buffers |
| `FirstRequest` | 1116-1125 |
| `RequestCapture`, `FindSlot`, `RefuseRequest`, `LoadForIncrement`, `StoreIncrement`, `QueueRequested` | the rest of `request_capture()` 1092-1150; the increment is two steps; a failing `QBUF` (1142, fault `requeue`) loses the buffer |
| `TakeTicket`, `StoreDecrement`, `GiveUp`, `SelectReadable`, `DequeueFails`, `Dequeue`, `Notify` | `workThread()` 1539-1707, preview branch |
| `HandleCtrl`, `StopCapture`, `HandleSourceChange` | `get_HdmiIn(false)` 747-782, `get_current_sourcesize()` 915-949 |
| `Fill`, `Unplug`, `Plug`, `ModeChange`, `Returnable` | receiver, cable, client |

Buffer b stands for the b-th preview buffer, whose `bufferId`, fd and V4L2 index the
code keeps in step. Format, size, the metadata of the result and the dump options
are left out. Out-of-bounds reads such as `bufferArray[-1]` (1142 with a failed
lookup) are taken as a `v4l2_buffer` that `QBUF` refuses.

### `EncodeServer`

The record command's path (`control`), `MppEncodeServer` with its looper (`looper`)
and output thread (`out`), the ring of record buffers, and what `workThread` does for
it. `coding` is what is in the current encoder, `replaced` what was in an encoder
that was replaced while the output thread waited in it. `mEncoder` is null, or an
`RKMppEncApi` that is *fresh* (constructed, `mMppMpi` still null), *unready* (`mpp_create`
has succeeded, its calls return errors) or *live*: `NewEncoder`, `CreateMpp` and `InitDone`
are three steps of the record command, and the output thread and `workThread` may come
between them. A call through a null pointer is `OutCrashes` or `WorkCrashes`, after which
nothing happens; `OutlivedByServer` says when the output thread can do so. Frame contents
and the output file are left out; the configuration of the encoder is `MppEncoder`.

### `SidebandStream` and `FrameQueue`

`workThread()`'s sideband branch (`Select` to `Requeue`), `pqBufferThread()`
(`FollowProperties` to `KeepPq`) and `doPQCmd()` with both of its keys: `stopPq` is status
0, and `m` the mode. PQ modes are the subsets of {normal, luma}. `workThread()` uses the
ring in three steps (`StoreHandle`, `FillSlot`, `Advance`) and switching PQ on is three more
(`SwitchOn`, which clears the slots, `Rewind`, `StartEngine`), so that a reset may fall
between any two uses of the ring: with the fault `race`, since an off and an on must both
fall into those few instructions. `torn` remembers that the last reset met `workThread()`
there. The fault `stop_mode` is a command of status 0 with a mode; no run has it,
because `DoPqIsSafe` fails under it, and the theorems on the ring bear it. `FrameQueue`
is a FIFO of at most K frames; `InRing` maps the ring (two indexes, K flags, K handles)
to its content, and `RefinesQueue` is the refinement. Recording and the interlaced path
are in modules of their own.

### `TvInputSession`

A session s is one `HinDevImpl`, with its `WorkThread` and `V4L2EventThread`, its lock,
its pipe (both ends as one file) and its video node. `files` maps each fd number to
what it refers to now: the kernel gives the lowest free number, so a number that one
session keeps may be another's file. `opened` counts the objects; `deleted` are those
the destructor has run for.

| model | code |
|---|---|
| `hin_dev_open`, `get_format`, `get_formatFails`, `setOpened` | `tv_input.cpp` 163-192 with `findDevice`, `init_device`, `V4L2DeviceEvent::initialize` |
| `device_close`, `requestExit`, `deleteDevice`, `initialize` | `device_close`, `~HinDevImpl`, `closeEventThread`, and the next `device_open` |
| `set_preview_info`, `open_stream`, `close_stream`, `stopThreads`, `closePipe`, `closePipeEnds`, `closeVideo`, `closed` | the entry points and `HinDevImpl::stop()` |
| `pollQuit`, `pollEvent`, `dequeueEvent` | `V4L2EventThread::threadLoop` |
| `refuse`, `accept`, `handle...`, `storeSize`, `hdmiinout` | `hinDevEventCallback` and what it calls |
| `changeMode`, `openOther` | the source; other code of the process that opens and closes files |

What a capture does between `start` and `stop` is left to `CaptureStream` and
`SidebandStream`: `mState` is theirs, and an iteration of `WorkThread` appears here only
as the look at its exit request.

### `IepRing`

`pqBufferThread` as the producer of fields, with `doPQCmd()` cut where
`iepBufferThread` can come between, and `iepBufferThread` as their consumer. Fields are
numbered modulo `Stamps` so that their order can be seen. The PQ ring in front of it is
one flag, since `SidebandStream` has the ring. `PqCommand` may ask for any mode, with
status 0 (`pq = "stop"`) or without. The history variable `skewed` says that the last reset
met a deinterlace; `Crash` is a call of an engine that is not there.

### `BufferManager` and `VopRender`

`BufferManager` is the table of contexts over the mapper: a handle is an address and
an fd, both of which are given out again once they are free. `VopRender` adds the
DRM device, the cache `mFbidMap` by fd, the displays, the rendering threads and the
session (`init`, `start`, `stop`, in the order of `HinDevImpl`). `SetDrmPlane` is cut
where another thread or a hotplug can come between: the redetection in four steps,
`FindSidebandPlane`, `getFbid` and `drmModeSetPlane`. `plane_res` outlives the device, and
clearing a plane then goes through a null pointer (`crashed`). The planes' positions are
in `FrameGeometry`.

### `MppEncoder` and `FrameGeometry`

`MppEncoder` is the configuration as operators on width, height and rate, with the
requests the library is known to refuse (`MppAccepts`, external). `FrameGeometry`
follows the six copies of the geometry (stream size, frame, window, buffers, PQ engine,
encoder) through a session, with the `pq` and record commands between them; `Access(b,
n)` says that a consumer touches the first n bytes of b, and `Room(b)` what the
allocator gave. Pixels are left out.

### Proof modules and MC modules

`CaptureStreamProofs`, `SidebandStreamProofs`, `EncodeServerProofs`, `VopRenderProofs`
(which is also about `BufferManager`), `TvInputSessionProofs`, `IepRingProofs` and
`FrameGeometryProofs` (with `MppEncoder`) extend the module they are named after: see
section 6.

`MCCaptureStream`, `MCEncodeServer`, `MCSidebandStream`, `MCVopRender`,
`MCTvInputSession` and `MCIepRing` extend the specification with nothing to add: the
`.cfg` files give the constants. `MCFrameGeometry` names the sizes and the displays.
Buffers, slots and sessions are numbers with a fixed order, so no symmetry is used
there; handles could be permuted, but that run checks liveness.

## 4. Runs

| run | instance | states | shows |
|---|---|---|---|
| `CaptureSteady` | N=4, no fault, client recycles | 807 | one owner, no buffer lost, exactly two tickets, a fed driver; every buffer is delivered again and again |
| `CaptureSignal` | N=3, MaxCount=3; signal, timeout, race | 858 058 | the slot lookup never fails, a settled signal finds capture running |
| `CaptureFaults` | N=3; timeout, signal, ioctl, requeue, reorder | 3.9 million | two tickets never become three |
| `EncodeOrderly` | R=4; init_fails | 2 898 | no record buffer is overwritten while coded, no mark is left behind, and each buffer comes back |
| `EncodeRestart` | R=2; restart, frame_lost | 1.04 million | replacing the encoder under the output thread: it calls no deleted encoder, and a null one only before `mpp_create()` |
| `EncodeEarlyStop` | R=2, MaxPosts=2; early_stop, slow_frame, restart, init_fails | 666 917 | a `stop()` at any moment returns, but where `mThreadEnabled` is set again or no thread was made |
| `SidebandSteady` | N=3, K=2, PQ switched on at will | 166 872 | FIFO ring, right handle flushed, the screen moves |
| `SidebandFaults` | N=1, K=4; flush, signal, command, pq_off, race | 793 264 | the ring stays a window and `dopq` safe, also where PQ is restarted around a fill |
| `Lifecycle` | 2 sessions, 3 fd numbers, 2 modes, 2 changes; signal, ioctl, other, absent | 424 277 | reopening over late threads and reused numbers; calls return, events are handled |
| `Interlaced` | K=4, Stamps=5 | 1.02 million | whole fields in order, the shown picture is not written, fields keep being shown |
| `ScreenHotplug` | 2 handles, 2 fds, 1 framebuffer id, 1 display, 2 renderers; plug, alloc, addfb, drm | 685 752 | the cache is right, nothing freed is shown, nothing leaks, the picture comes back |
| `Geometry` | 3 sizes x 4 formats, 4 displays, rates 0, 1, 50, 1 change | 465 024 | extents, strides, crop and rates |

### Bounds

- N. The code has four preview buffers (`APP_PREVIEW_BUFF_CNT`) and that number is
  used where ownership is counted against it (`CaptureSteady`). Three buffers
  already give a buffer each to the driver, to `workThread` and to the client, with
  a slot wrap; `CaptureSignal` also passes with N=4, MaxCount=4 (31.8 million
  states, more than four minutes). The proofs of section 6 hold for every N.
- MaxCount caps the ticket counter, which only overlapping updates let grow: no
  request starts at that many tickets. Without `race` the counter never reaches it.
- R. The code has four record buffers. Two are enough for a wrap with one buffer
  in the encoder and one being filled.
- MaxPosts: no record command while the looper has three messages to handle (two in
  `EncodeEarlyStop`). Only restarts ever get near it.
- K of `SidebandStream`. The runs with faults have the code's own four PQ slots
  (`SIDEBAND_PQ_BUFF_CNT`), with one capture buffer: the properties are about the slots, and
  one buffer that comes round fills them all. `SidebandSteady`, which is about the buffers
  and checks liveness, has three of them and two slots; N=3, K=3 passes too.
- K of `IepRing` is the code's own four; `Stamps` is K+1, which tells the K fields in
  the ring from the one before and the one after.
- Sessions. Two are a device and one that comes after it with the first one's threads
  still there. A third would meet the same kinds of leftovers.
- FdNumbers. A session holds two numbers, the video node and the pipe; the third lets
  the first free number be one that nobody, this session, an earlier one or other
  code held. `Modes` are two so that a size can be stale; MaxChanges is 2: one change
  to be noticed and one while it is handled.
- Handles, Fds, FbIds. Two handles and two fds are enough for an address with a new fd,
  an fd with a new address and both reused at once; one framebuffer id is reused as
  soon as it is free. With one display each flag and each entry has one position to
  be wrong in; two renderers are `workThread`, and any other thread that shows.
- Geometry. 1920x1080 is a multiple of 64 wide and not of 16 high, 1366x768 the other
  way round, 640x480 both. The displays are wider and narrower than 16:9 and 4:3. One
  change of the source between any two operations makes every pair of copies differ.
  The rate 0 is no rate, 1 the value the encoder treats specially, 50 an ordinary one.

### Where deadlock is not checked

The recording runs stop by design when nobody records, or when a null pointer has been
called. In the sideband runs the capture may be stopped (`signal`), or every buffer
stranded (`flush`). In `Lifecycle` the sessions are used up, and a null `mDev` ends the
process (section 5). In `Interlaced` the call of a null or deleted engine ends it, in
`ScreenHotplug` a null plane does, and the allocator may have no handle left. The
capture runs and `Geometry` check deadlock.

### Fairness, and why the code has it

- `WorkStep`, `PqStep`, `IepStep`, `RequestStep`, `EventStep`, `StartStep`, `StopStep`,
  `LooperStep`, `OutStep`, `HandOver`, `CallStep`, `workThread`: weak fairness.
  Each belongs to a thread that loops or has a call to finish, and the scheduler runs
  threads that can run. The waiting loop of `MppEncodeServer::stop()` (193-203) sleeps and
  polls, which is `SeeExited` with weak fairness. Where a module has crashes, its fairness
  is that of a process that has not crashed.
- `Fill`, `FieldArrives`: while there is a signal the receiver fills queued buffers.
- The client: only `RecyclingSpec`, used for `EveryBufferDelivered` alone, assumes that
  the service gives buffers back. Nothing is assumed of cable, properties, commands
  and the opening and closing of streams.
- `stopThreads` of `TvInputSession` is strongly fair: it waits for `mBufferLock`, which the
  callback takes and gives back; a mutex that is free again and again is obtained.
- `VopRender`: a show that has begun is finished; `show("work")` is strongly fair, because
  it is enabled whenever no frame is being skipped, and `workThread` shows one in each
  iteration; the composer marks the plane of a connected display (`markAsync`) and the
  two seconds of `SKIP_FRAME_TIME` pass. Nothing makes the event thread show anything.
- `FrameGeometry` has no liveness property and no fairness.

## 5. Observations

What the code does that a reader of the properties should know. Each is a condition
under which a property does not hold, or an exception written into it; the
properties are checked without them, as the module's comments say.

Capture and screen:
- A failing `QBUF` in `request_capture` (1142) is logged and the buffer is lost. With
  `reorder`, a held buffer may be left without a slot; with `timeout`,
  `TicketsConserved` fails, and after two time-outs capture stalls.
- One failing `flushCache()` (1606) strands a buffer; from then on slot i describes another
  buffer than handle i, and the wrong buffer is flushed, processed and shown.
- `mPqIniting` (1731) is never cleared: the picture stands still once PQ is switched off.
- Switched off and on again while `workThread` is between its test of `mPqMode` and the last
  use of the ring, PQ clears the ring under it (1352-1374). The fill goes on with the index
  it had or with the new one: the writer may be ahead of an empty slot, a stale frame may be
  processed, or the writer may stand before a filled slot and the reader before an empty
  one, and then PQ shows nothing until it is switched off and on once more.
- A `pq` command with status 0 and a mode deletes `mRkpq` (1331-1335) and sets `mPqMode` to
  that mode all the same (1440). PQ is then on without an engine, and the next frame calls
  `dopq()` through a null pointer.
- In `IepRing`, a reset during a deinterlace makes `iepBufferThread` advance the index that
  was reset (1872). From then on it reads one slot ahead of the oldest field, out of order
  and into the picture shown, until a restart of PQ that meets no deinterlace (`skewed`). Up
  to K-1 fields are dropped while the writer looks for the empty slot (1766). The engine
  deleted by `doPQCmd` (1337) or `stop()` (603) may still be in use, or be called when it is
  null.

Recording:
- Recording stopped right after it began (`early_stop`): `stop()` clears `mThreadEnabled`
  (`MppEncodeServer.cpp:191`), the looper still has `kWhatStart`/`kWhatProcess` to handle and
  sets it again (304-315), and `stop()` waits for ever, with `mBufferLock` held.
  `ToldStopReturns` claims only that it returns once the looper is through and the flag is
  clear.
- A restart makes a new `RKMppEncApi` (`MppEncodeServer.cpp:65`) whose `mMppMpi` is null until
  `mpp_create()` (`RKMppEncApi.cpp:88`). The output thread of the old encoder goes on, and
  when it calls `getoutpacket()` in between it goes through the null pointer, as does
  `workThread` with a frame.
- When the encoder's initialisation fails, `stopRecord()` (1292) waits for an output thread
  that was never created.
- With `frame_lost`, `SlotComesBack` and `NoSlotLost` fail; with `restart`, `NotOverwritten`
  and `NoSlotLost`, which also fails with `init_fails` together with `early_stop` or
  `slow_frame` (a frame handed over late goes into the new encoder, which drops it when
  its initialisation fails).
- `StartAgain` may start the server between `init()` and `setNotifyCallback` (1184-1190).

Session (`TvInputSession`):
- An event refused between `get_format` and `isOpened = true` leaves the reported size stale.
- An event thread that misses the 'q' lingers on numbers that are reused, and may take
  the next session's events.
- Deleting a device joins for ever if its thread waits in `VIDIOC_DQEVENT` for an event
  another thread has taken.
- A callback accepted before `close_stream()` cleared `isOpened` can find `mDev` null.
- After `findDevice()` has failed and closed the node, `~HinDevImpl` closes the number again.
- HDMI1 and DTV are announced; `hin_dev_open` opens DTV only.
- `tv_input.cpp:269` reports the width as the height of the second configuration.

Renderer:
- `plane_res` stays when the device is closed. A redetection that comes after `deinitialize()`,
  or the `stop()` of a session whose card0 did not open, takes `plane_id` of the null plane
  that `drmModeGetPlane` returns (`DrmVopRender.cpp:769-770`). Without `plane_res` nothing is
  cleared (762-766).
- `stopRecord()` may free a record buffer that `workThread` is converting into and has
  locked.
- A display that goes and comes between the flags and the connectors of a detection
  (`DrmVopRender.cpp:139`, 184) stays dark; a failed framebuffer is cached as failed (570).
- `deinitialize()` removes framebuffers after it has closed the device (95-103): closing has
  removed them, the calls fail, and the map stays until the next `initialize()`.
- Two threads that detect at the same time append the connectors twice (126, 650);
  `sameCrtc` then makes the next show detect again.

Geometry:
- After a change of the source in mid-stream, the NV24 conversion writes past the record
  buffers, which keep their size; a record command sent again makes a new encoder over the
  old buffers; PQ switched off and on keeps old PQ buffers; and a second `open_stream` sets
  the crop only.
- A width that is no multiple of 64 (or, for NV24, a height that is none of 16) gives a
  skewed recording.
- `getFbid()` divides the width of a ten-bit buffer by four before it counts bytes
  (`DrmVopRender.cpp:538`). For a width that is no multiple of four the pitch may be
  shorter than the rows, unless rounding to 64 makes up for it: it does for 1366, not for
  258 or 3842. There `WholePictureShown` fails; the proof of it needed the condition.
- Record and PQ commands before `open_stream` would allocate with the size before it;
  `FrameGeometry` has them only while the stream is open.
- The interlaced flag is set by the source-change callback only (`tv_input.cpp:125`), and is
  stale at the next open (188).
- `set_format` ignores a size that the driver has adjusted; `check_zme` is always false; the
  dump of a ten-bit buffer is as long as the picture is wide.

## 6. Proofs

Every invariant and action property that a run checks is also a theorem, and so is the
refinement. The constants are arbitrary but for the assumptions named in the modules:

- N, R, MaxCount, MaxPosts and K of the PQ ring are positive; `MaxChanges` is a natural
  number; fault and overlap sets hold the kinds that the module names.
- `IepRing`: K is at least 4 and `Stamps` more than K, so that a field is not taken for
  one of an earlier round. The code's K is 4 (`SIDEBAND_IEP_BUFF_CNT`).
- `BufferManager`: finitely many handles and fds, at least as many fds as handles; a
  handle's address is not null and an fd is not -1.
- `TvInputSession`: sessions are numbered from 1, there is at least one mode, fd numbers
  and modes are positive. `VopRender`: displays are numbered from 1, framebuffer ids are
  positive.
- `FrameGeometry`: pictures have at least one row and one column, rates are natural
  numbers, and `None` is no frame, no buffer and no configuration.

What a theorem assumes besides is in its statement, and here under "assumes".

| theorem | property | assumes | inductive invariant |
|---|---|---|---|
| **CaptureStreamProofs** | | | |
| `TypeCorrect` | (`TypeOK`) | nothing | `TypeInv`: `TypeOK`, and a decrement in progress has loaded a positive count. Without the second conjunct the counter could become negative. |
| `TicketsBounded` | `AtMostTwoTickets` | no `race` | `TicketInv`: what a thread has loaded is still the counter and the two updates do not overlap (`Exact`), and nothing is under way before the first request or before `start()` succeeded (`BeforeFirstRequest`), so that `FirstRequest` and `Start`, which overwrite the counter, create no third ticket. |
| `LookupSucceeds` | `HeldHasSlot` | no `reorder` | `TrailInv`: each held buffer is still where some `DQBUF` d dequeues ago put it, later ones nearer, and what is left with the driver cannot bring the index round to that slot. |
| `CaptureSettles` | `SettledIsRunning` | no `ioctl` | `SignalInv`: with the signal there and no source change pending, nothing is under way that would stop the capture. |
| `OwnersDistinct`, `SlotsKeepHandles` | `OneOwner` with `NoBufferLost`, `HandleMatchesSlot` | no `signal`, no `reorder`, no `requeue` | `OwnerInv`, below. |
| `TicketsKept` | `TicketsConserved` | no fault | `OwnerInv` excludes a stopped capture; `Exact` makes each update move one ticket. |
| `DriverFed` | `DriverNeverStarves` | no fault | the buffers are counted by `OwnerInv`, those outside the driver by the tickets. |
| **SidebandStreamProofs** | | | |
| `TypeCorrect` | (`TypeOK`) | nothing | itself |
| `RingStaysWindow` | `RingIsWindow` | nothing | `RingInv`, unless the last restart met a fill (`torn`): the filled slots are those between the indexes (`Window`, slot by slot), the slot about to be filled is empty, the one PQ works on is filled, and nobody is in the ring between `SwitchOn` and `StartEngine`. A restart outside a fill establishes it whatever was before. |
| `PqIsSafe` | `DoPqIsSafe` | no `stop_mode` | `EngineInv`: PQ that is on, or in use, has an engine and a filled slot. `HandleInv`: a filled slot has a handle, also when a fill goes on after a reset, because the slots below any index `workThread` may hold have been stored to before. |
| `ImplementsQueue` | `RefinesQueue` | no `race` | `RingInv` and `HandleInv`; each step appends to `InRing`, removes its head, empties it, or leaves it. |
| `FlushesDequeued` | `FlushedIsDequeued` | no `flush`, no `signal` | `OrderInv`: done and queued buffers are the ones that follow `workThread`'s, in the order of the slots. |
| **EncodeServerProofs** | | | |
| `TypeCorrect` | (`TypeOK`) | nothing | itself |
| `ThreadOutlived` | `OutlivedByServer` | no `early_stop`; not both `restart` and `init_fails` | `CrashInv` (the output thread crashes before `CreateMpp` only) and `ServerInv`: the thread's flags while recording (`ThreadInv`), what the looper still has to do at each point of the stop protocol (`StopInv`), and where a start may still fail (`StartInv`). |
| `NeverOverwritten` | `NotOverwritten` | no `early_stop`, no `slow_frame`, no `restart` | `RecordInv`: what the encoder has is marked in `isCoding`, each buffer once, and the buffers being filled, sent and given back are three different ones. |
| `SlotsAccounted` | `NoSlotLost` | no overlap but `init_fails` | `RecordInv` and `SlotInv`: every mark has a bearer (`Marked`), which hands it on or takes it off, unless the encoder is being deleted; the ring is allocated as long as there is a server. |
| **VopRenderProofs** | | | |
| `CacheIsRight`, `ScreenIsLive`, `NoFbLost`, `AllFreed`, `LocksGivenBack` | `FbIsBuffer`, `ScreenShowsLiveBuffer`, `NoFbLeak`, `AllFreedAtClose`, `LocksBalanced` | nothing | `RenderInv`, below. |
| **TvInputSessionProofs** | | | |
| `DeviceThere`, `HandlesGivenBack`, `DeletedIsQuiet`, `SizeFollows`; `OwnFilesClosed` | `OpenedHasDevice`, `NoHandleLeak`, `NoUseAfterDelete`, `SizeIsCurrent`; `ClosesOwnFiles` | nothing | `SessionInv`, below. |
| **IepRingProofs** | | | |
| `TypeCorrect` | (`TypeOK`) | nothing | itself |
| `FieldsStayInOrder`, `ShownIsNotWritten` | `FieldsInOrder`, `ScreenNotWritten` | nothing | `RingInv`, below. |
| **FrameGeometryProofs** | | | |
| `NothingOverruns` | `AccessesFit` | nothing | `GeometryInv`, below. |
| `RecordingIsRight` | `RecordedPictureIsRight` | nothing | `GeometryInv` |
| `PictureIsWhole` | `WholePictureShown` | `TenBitRowsHeld` | `GeometryInv` |
| `RecordCommandSucceeds` | `RecordingStarts` | nothing | the types of frames and buffers |

The excluded overlaps of `EncodeServer` are those under which TLC finds a counterexample,
each by itself (`restart` and `init_fails` together), with one exception: `SlotsAccounted`
excludes `early_stop` and `slow_frame` because of what they do together with `init_fails`.
The excluded faults of the streams are the ones of section 5. `TicketsKept` and `DriverFed`
are about the undisturbed system, as the steady run is. Everything else holds under every
combination of the faults that are not named.

Three statements are narrower than their names may suggest. `DriverFed` says that the
driver owns a buffer, not that it is an empty one. `LocksGivenBack` says that no buffer is
locked between two conversions, not that a buffer is unlocked before it is freed.
`DeviceThere` orders two stores of `close_stream()`; a callback accepted before them can
still find `mDev` null.

**Owners of capture buffers.** `OneOwner` is far from inductive: nothing in it says that
the slot a request found still describes the same buffer when it is queued, or that the
driver accepts it. The inductive invariant is that the buffers go round in one fixed
order: `CyclicOrder` numbers the filled, the queued, the returning and the held buffers
consecutively from the slot that `workThread` uses next. From it every `DQBUF` puts into
a slot the buffer that was there (`SlotsKept`), so that the lookup finds a buffer's own
slot, and distinct places hold distinct buffers (`BehindInjective`). It needs no count of
tickets, which is why it survives time-outs, failing ioctls and overlapping counter
updates. It does not survive `signal` (a stop between `DQBUF` and the notification strands
a buffer) or `reorder`, and there `OneOwner` is indeed false. The numbers run from 0 to
N-1, so the same order says that nothing is missing (`NoBufferLost`): each buffer has a
place (`BehindCovers`), and each place an owner (`InTurnCovers`). A failing `QBUF` of
`request_capture` is excluded because it does lose one.

**The screen.** A cached framebuffer is right as long as the fd it is kept by has not been
freed and given out again. `RenderInv` says why it has not: each slot of the session owns a
buffer of its own and none after it has been freed (`SlotInv`), live handles have distinct
fds (`BufferInv`), a thread that renders has a buffer of a slot in hand as long as the
session is open (`ShownInv`), nothing is locked but what the conversion locked (`LockInv`),
and whatever is cached while the device is open belongs to the buffer that has the fd now
(`DeviceInv`). `stop()` deinitialises the renderer before it frees, which is where the
order of the code matters.

**Sessions.** `SessionInv` follows the one call under way (`CallInv`), the files of the
current device (`FileInv`: while it has them they are its own, whatever numbers late
threads keep), the clone of the sideband handle (`HandleInv`), the threads of deleted
objects (`ThreadInv`: an object that is deleted never ran a stream and has joined its event
thread) and the size (`SizeInv`: the size reported is that of the source, or the event that
says otherwise is on its way, or one was refused).

**The ring of fields.** The property says that the deinterlacer reads consecutive fields;
the invariant says where all of them are. Until the reader has released a slot they are
the first fields in the first slots (`Filling`); from then on the slots from the reader's on
hold consecutive fields and only the last may be empty (`Cycling`), so that a writer that
skips filled slots can find no other. A reset that meets a deinterlace ends both
(`skewed`), until one that does not; nothing is claimed in between, because there the code
does read out of order.

**Geometry.** Each consumer computes its extent from a copy of its own. `GeometryInv` says
that the copies agree from `open_stream()` until something changes (`CopiesAgree`), and that
a record buffer was made for some size (`RecInv`), which is enough for the RGA. The rest is
arithmetic for every width and height: rounding (`Aligned64`, `Aligned16`), products
(`Products`, `Halves`) and the room of each format (`RoomIs`).

TLC confirmed each inductive invariant on an instance before it was proved: `OwnerInv` with
N=4 under timeout, ioctl and race; `SessionInv`, `RingInv` of `IepRing`, `GeometryInv` on the
runs' own instances. The type invariants (in parentheses in the table) are theorems only:
no run repeats them.

**Only model-checked.** `EveryBufferDelivered`, `SlotComesBack`, `ToldStopReturns`,
`ScreenMoves`, `ScreenComesBack`, `CallsReturn`, `EventsHandled` and `KeepsShowing`:
they are liveness properties under fairness, which the prover does not reach. Of two the
safety half is proved: what is waited for is still on its way (`NoBufferLost` in
`OneOwner`, `NoSlotLost`). No module declares a recursive operator.

## 7. Not modelled

- The message queue of the sideband window. The thread that would serve it is started in
  a region under `#if 0` (`RTSidebandWindow.cpp:77-82`), and `HinDevImpl` calls none of the
  operations that send to it (`queueBuffer`, `dequeueBuffer`, `remainBuffer`, `flush`,
  `release`; the last would wait for ever). The program runs no message through it.
- Undefined behaviour after a free: `workThread` with a freed `mHinNodeInfo` (582, 947),
  a deleted `gMppEnCodeServer` (1642) or an engine deleted under a call. A model has no
  state for it. What the late threads do to the screen, to descriptors and to the next
  session is modelled.
- The memory of a buffer while the driver writes into it: which of two concurrent
  accesses to it comes first has no state here. `SidebandStream` re-queues a buffer
  that PQ still reads, as the code does (1615); this is a hazard without a property.
- The branch of `doPQCmd` that drops and re-creates the PQ engine for a new output range
  (1317-1331): `mOutRange` is never assigned, so it does not run.
- The re-use of a framebuffer id between `getFbid` and `drmModeSetPlane`; a failing
  `pthread_create`; a failing `makeHwcSidebandHandle`; the frame-skip counters of the first
  frames; a client that opens a stream twice, or closes the device under a running stream.
- What is assumed of services: gralloc rounds row bytes to 64 when asked to and rows to
  16; the receiver's driver delivers the source's size and refuses buffers that are too
  small; the encoder library has the resources it needs.
- Code that nothing calls: the two-argument `buffDataTransfer` functions,
  `rga_nv12_scale_crop`, `Register`, `Deregister`, `LockYCbCr`, `Lockinternal`,
  `Unlockinternal`, `GetV4L2PixelFormat`, `GetBufferId`, `set_rotation`, `set_frame_rate`,
  `hin_crop`, `set_screen_mode`, `set_mode`, `stop_device`, the query and set functions of
  `V4L2DeviceEvent`, `memcpy_align32`, `MppEncodeServer::reset`, the other `sendFrame`
  overloads, `getFbLength`, `writeData2File`, `previewBuffThread` and the encoder setup
  functions whose bodies are commented out. `common/Utils.cpp` is not built;
  `HandleImporter.cpp` is built and not used.
- `enc/Tools`, `MpiDebug`, logging, `debugShowFPS`: environment and text, without behaviour of
  their own; the vendored MPP headers are declarations.
