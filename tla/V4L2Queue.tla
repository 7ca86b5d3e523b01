------------------------------ MODULE V4L2Queue ------------------------------
(***************************************************************************)
(* The buffer queue of the /dev/video* capture device, as HinDevImpl uses   *)
(* it through VIDIOC_QBUF, VIDIOC_DQBUF and select().  The driver is not in *)
(* the repository: this is the V4L2 contract the code relies on.  A queued  *)
(* buffer is filled in the order of queueing and handed back in the order   *)
(* of filling; QBUF of a buffer the driver already owns is refused.         *)
(***************************************************************************)
EXTENDS Integers, Sequences

CONSTANT
  N           \* mBufferCount: buffers requested with VIDIOC_REQBUFS

ASSUME NAssumption == N \in Nat \ {0}

VARIABLES
  queued,     \* buffers waiting to be filled, oldest first
  done        \* filled buffers not yet dequeued, oldest first

driverVars == <<queued, done>>

Buffers == 0 .. (N - 1)

ElementsOf(s) == {s[i] : i \in DOMAIN s}

InDriver == ElementsOf(queued) \cup ElementsOf(done)

(* VIDIOC_REQBUFS followed by the first k VIDIOC_QBUFs of start_device.     *)
QueueFirst(k) ==
  /\ queued' = [i \in 1 .. k |-> i - 1]
  /\ done' = <<>>

(* VIDIOC_QBUF: -EINVAL, and nothing changes, when the driver owns b.       *)
Qbuf(b) ==
  /\ queued' = IF b \in InDriver THEN queued ELSE Append(queued, b)
  /\ done' = done

(* select() reports the device readable.                                    *)
Readable == done # <<>>

(* VIDIOC_DQBUF returns the oldest filled buffer.                           *)
Dqbuf(b) ==
  /\ Readable
  /\ b = Head(done)
  /\ done' = Tail(done)
  /\ queued' = queued

(* The receiver finishes a frame.                                           *)
FillFrame ==
  /\ queued # <<>>
  /\ done' = Append(done, Head(queued))
  /\ queued' = Tail(queued)

DriverTypeOK ==
  /\ queued \in Seq(Buffers)
  /\ done \in Seq(Buffers)
==============================================================================
