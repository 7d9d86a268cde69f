------------------------------ MODULE RxBuffer ------------------------------
(***************************************************************************)
(* The receive buffer of detail::base_peer.  Bytes arrive in pieces that   *)
(* have nothing to do with frames; complete frames are processed in place, *)
(* the incomplete rest is moved to the front, and the buffer doubles, up   *)
(* to its maximum, when one frame fills it.                                *)
(*                                                                         *)
(* A byte is its position in the stream the remote end sends.  A frame is  *)
(* where it ends; whether it is a WebSocket frame or a packet makes no     *)
(* difference here, and WireFormat shows that the decoders recognise a     *)
(* frame exactly when all of it has arrived.                               *)
(***************************************************************************)
EXTENDS Integers, Sequences

CONSTANTS InitialSize,  \* INITIAL_RX_BUFFER_SIZE
          MaxSize,      \* rx_buffer_size
          FrameLengths, \* lengths of the frames the remote end sends
          MaxStream     \* bound: bytes the remote end sends in one behaviour

ASSUME RxAssumption ==
  /\ InitialSize \in Nat \ {0} /\ MaxSize \in Nat \ {0}
  /\ FrameLengths \subseteq Nat \ {0}
  /\ MaxStream \in Nat

VARIABLES rx,       \* where run() and the receive cycle are
          capacity, \* _rx_buffer.size()
          buffer,   \* the content of _rx_buffer
          bytes,    \* _rx_buffer_bytes
          offset,   \* the local variable offset of the running process_buffer
          frames,   \* the stream positions where the frames not yet processed end
          sent,     \* how many bytes the remote end has sent
          received, \* how many of them were taken from the socket
          processed, \* where the frame processed last ends
          lastFrame, \* the bytes of that frame
          handover   \* the argument size of run(data, size), 0 before it is called

vars ==
  <<rx, capacity, buffer, bytes, offset, frames, sent, received, processed, lastFrame, handover>>

MinOf(a, b) == IF a <= b THEN a ELSE b

Init ==
  /\ rx = "new"
  /\ capacity = MinOf(InitialSize, MaxSize)
  /\ buffer = [i \in 1..capacity |-> 0]
  /\ bytes = 0 /\ offset = 0
  /\ frames = <<>> /\ sent = 0 /\ received = 0
  /\ processed = 0 /\ lastFrame = <<>>
  /\ handover = 0

\* The remote end sends a frame.
RemoteSend(n) ==
  /\ sent + n <= MaxStream
  /\ sent' = sent + n
  /\ frames' = Append(frames, sent + n)
  /\ UNCHANGED <<rx, capacity, buffer, bytes, offset, received, processed, lastFrame, handover>>

\* The size grow_rx_buffer gives a buffer that is below its maximum.
Grown == MinOf(2 * capacity, MaxSize)

\* resize(): the content b stays, new bytes are zero.
Resized(b) == [i \in 1..Grown |-> IF i <= capacity THEN b[i] ELSE 0]

\* The next k bytes of the stream are copied behind the buffered ones.
Filled(k) ==
  [i \in 1..capacity |->
     IF i \in (bytes + 1)..(bytes + k) THEN received + i - bytes ELSE buffer[i]]

\* run(): reading starts with an empty buffer.
Run ==
  /\ rx = "new"
  /\ rx' = "reading"
  /\ UNCHANGED <<capacity, buffer, bytes, offset, frames, sent, received, processed, lastFrame, handover>>

\* run(data, size): size bytes are handed over before any read.
StartHandover(k) ==
  /\ rx = "new" /\ k <= sent
  /\ rx' = "handover" /\ handover' = k
  /\ UNCHANGED <<capacity, buffer, bytes, offset, frames, sent, received, processed, lastFrame>>

\* One iteration of its while loop.
GrowForHandover ==
  /\ rx = "handover" /\ handover > capacity
  /\ capacity < MaxSize
  /\ capacity' = Grown
  /\ buffer' = Resized(buffer)
  /\ UNCHANGED <<rx, bytes, offset, frames, sent, received, processed, lastFrame, handover>>

\* Mutant of AcceptHandover: process_buffer is not posted; a read is
\* started instead.
AcceptHandoverNoPost ==
  /\ rx = "handover" /\ handover <= capacity
  /\ rx' = "reading"
  /\ buffer' = Filled(handover)
  /\ bytes' = handover /\ received' = handover
  /\ UNCHANGED <<capacity, offset, frames, sent, processed, lastFrame, handover>>

\* After the loop: copy the bytes and post process_buffer.
AcceptHandover ==
  /\ rx = "handover" /\ handover <= capacity
  /\ rx' = "processing"
  /\ buffer' = Filled(handover)
  /\ bytes' = handover /\ received' = handover
  /\ UNCHANGED <<capacity, offset, frames, sent, processed, lastFrame, handover>>

\* After the loop: the bytes do not fit; post a close.
RefuseHandover ==
  /\ rx = "handover" /\ handover > capacity
  /\ capacity >= MaxSize
  /\ rx' = "refused"
  /\ UNCHANGED <<capacity, buffer, bytes, offset, frames, sent, received, processed, lastFrame, handover>>

\* finish_wait_rx: receive() into the free part of the buffer.
Receive(k) ==
  /\ rx = "reading"
  /\ k \in 1..(capacity - bytes) /\ k <= sent - received
  /\ rx' = "processing"
  /\ buffer' = Filled(k)
  /\ bytes' = bytes + k /\ received' = received + k
  /\ offset' = 0
  /\ UNCHANGED <<capacity, frames, sent, processed, lastFrame, handover>>

\* The length of the next frame, which its header tells.
Length == Head(frames) - processed

\* What is left from offset on holds a complete frame.
HasFrame == frames # <<>> /\ bytes - offset >= Length

\* Mutant of ProcessFrame: the header is not counted as consumed.
ProcessFrameHeaderKept ==
  /\ rx = "processing" /\ HasFrame
  /\ lastFrame' = SubSeq(buffer, offset + 1, offset + Length)
  /\ offset' = offset + Length - 1
  /\ frames' = Tail(frames) /\ processed' = Head(frames)
  /\ UNCHANGED <<rx, capacity, buffer, bytes, sent, received, handover>>

\* One iteration of process_buffer's loop.
ProcessFrame ==
  /\ rx = "processing" /\ HasFrame
  /\ lastFrame' = SubSeq(buffer, offset + 1, offset + Length)
  /\ offset' = offset + Length
  /\ frames' = Tail(frames) /\ processed' = Head(frames)
  /\ UNCHANGED <<rx, capacity, buffer, bytes, sent, received, handover>>

\* memmove() of the unprocessed rest to the front.
Slid == [i \in 1..capacity |-> IF i <= bytes - offset THEN buffer[i + offset] ELSE buffer[i]]

\* Mutant of FinishProcess: the buffer is never grown.
FinishProcessNoGrowth ==
  /\ rx = "processing" /\ ~HasFrame
  /\ bytes' = bytes - offset
  /\ offset' = 0
  /\ capacity' = capacity /\ buffer' = Slid
  /\ rx' = IF bytes' < capacity THEN "reading" ELSE "closed"
  /\ UNCHANGED <<frames, sent, received, processed, lastFrame, handover>>

\* process_buffer after its loop: slide, grow if full, and read on or close.
FinishProcess ==
  /\ rx = "processing" /\ ~HasFrame
  /\ bytes' = bytes - offset
  /\ offset' = 0
  /\ \/ /\ bytes' < capacity
        /\ rx' = "reading" /\ capacity' = capacity /\ buffer' = Slid
     \/ /\ bytes' = capacity /\ capacity < MaxSize
        /\ rx' = "reading"
        /\ capacity' = Grown /\ buffer' = Resized(Slid)
     \/ /\ bytes' = capacity /\ capacity >= MaxSize
        /\ rx' = "closed" /\ capacity' = capacity /\ buffer' = Slid
  /\ UNCHANGED <<frames, sent, received, processed, lastFrame, handover>>

Next ==
  \/ \E n \in FrameLengths : RemoteSend(n)
  \/ Run
  \/ \E k \in 0..MaxStream : StartHandover(k) \/ Receive(k)
  \/ GrowForHandover \/ AcceptHandover \/ RefuseHandover
  \/ ProcessFrame \/ FinishProcess

Spec == Init /\ [][Next]_vars

\* Bytes that were sent arrive, the execution context runs the handlers, and
\* run(data, size), one synchronous call, does not stop halfway.
FairSpec ==
  /\ Spec
  /\ WF_vars(GrowForHandover) /\ WF_vars(AcceptHandover) /\ WF_vars(RefuseHandover)
  /\ WF_vars(\E k \in 1..MaxStream : Receive(k))
  /\ WF_vars(ProcessFrame) /\ WF_vars(FinishProcess)
-----------------------------------------------------------------------------
(* Properties. *)

\* Every variable has its type, and the buffer its bounds.
TypeOK ==
  /\ rx \in {"new", "handover", "reading", "processing", "closed", "refused"}
  /\ capacity \in 1..MaxSize
  /\ buffer \in [1..capacity -> Nat]
  /\ bytes \in 0..capacity /\ offset \in 0..bytes
  /\ frames \in Seq(Nat) /\ processed \in Nat
  /\ sent \in Nat /\ received \in 0..sent
  /\ lastFrame \in Seq(Nat) /\ handover \in Nat

\* Whenever a read is started there is room for at least one byte.  Otherwise
\* receive() would return 0, which finish_wait_rx takes for the end of the
\* stream.
RoomToRead == rx = "reading" => bytes < capacity

\* What is buffered is the stream's latest bytes, in order: sliding, growing
\* and receiving behind the rest neither lose nor repeat any.
BufferIsStream ==
  \A i \in 1..bytes : buffer[i] = received - bytes + i

\* A connection is closed for lack of room only if the maximum is really
\* exceeded.  While reading, that takes a single frame longer than the maximum,
\* whatever was buffered before it: the buffer then holds the beginning of that
\* frame alone.  At the start it takes more handed-over bytes than the maximum
\* (run(data, size) refuses those however short the frames in them are), never
\* merely more than the buffer started out with.
RefusesOnlyOversize ==
  /\ rx = "closed" => frames # <<>> /\ Length > MaxSize
  /\ rx = "refused" => handover > MaxSize

\* Frames are handed on whole: from where the one before ended to its own end,
\* with every byte in its place.
FramesWhole ==
  \A i \in 1..Len(lastFrame) : lastFrame[i] = processed - Len(lastFrame) + i

\* Once run() was called, with or without handed-over bytes, every frame is
\* processed eventually, whatever pieces it arrives in and however small the
\* buffer starts, unless the connection is closed for lack of room.
FramesProcessed ==
  \A m \in 1..MaxStream :
    (rx # "new" /\ sent = m)
      ~> (sent # m \/ frames = <<>> \/ rx \in {"closed", "refused"})
=============================================================================
