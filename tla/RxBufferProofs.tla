--------------------------- MODULE RxBufferProofs ---------------------------
(***************************************************************************)
(* The safety of the receive buffer for every initial and maximum size,    *)
(* every set of frame lengths and every way the stream is cut into reads.  *)
(***************************************************************************)
EXTENDS RxBuffer, SequenceTheorems, TLAPS

\* The next frame starts at offset, which is 0 except inside process_buffer,
\* and a buffer that has not been used yet is empty.
Aligned ==
  /\ processed = received - bytes + offset
  /\ rx # "processing" => offset = 0
  /\ rx \in {"new", "handover"} => bytes = 0 /\ received = 0
  /\ rx = "handover" => handover <= sent

\* The frames still to come end in order, the last one where the stream ends.
FramesOrdered ==
  /\ \A i \in 1..Len(frames) : processed < frames[i]
  /\ \A i, j \in 1..Len(frames) : i < j => frames[i] < frames[j]
  /\ frames = <<>> => processed = sent
  /\ frames # <<>> => frames[Len(frames)] = sent

\* The inductive invariant.  RoomToRead and BufferIsStream need to know where
\* the next frame starts; RefusesOnlyOversize that there is one as long as
\* unprocessed bytes are.
IInv ==
  /\ TypeOK /\ RoomToRead /\ BufferIsStream /\ RefusesOnlyOversize /\ FramesWhole
  /\ Aligned /\ FramesOrdered
-----------------------------------------------------------------------------
LEMMA InitIInv == Init => IInv
<1> SUFFICES ASSUME Init PROVE IInv
  OBVIOUS
<1> USE RxAssumption DEF Init
<1>1. TypeOK
  BY DEF TypeOK, MinOf
<1>2. FramesWhole
  BY DEF FramesWhole
<1>3. RoomToRead /\ BufferIsStream /\ RefusesOnlyOversize
  BY DEF RoomToRead, BufferIsStream, RefusesOnlyOversize
<1>4. Aligned /\ FramesOrdered
  BY DEF Aligned, FramesOrdered
<1> QED BY <1>1, <1>2, <1>3, <1>4 DEF IInv

\* Growing keeps the buffer below its maximum, and makes it larger.
LEMMA GrownBounds ==
  ASSUME TypeOK, capacity < MaxSize
  PROVE  Grown \in 1..MaxSize /\ Grown > capacity
BY RxAssumption DEF TypeOK, Grown, MinOf

\* A frame that the remote end adds comes after the others.
LEMMA RemoteSendIInv ==
  ASSUME IInv, NEW n \in FrameLengths, RemoteSend(n)
  PROVE  IInv'
<1> USE RxAssumption DEF IInv
<1>1. n \in Nat /\ n > 0 /\ sent + n \in Nat /\ frames \in Seq(Nat)
  BY DEF TypeOK
<1>2. /\ frames' \in Seq(Nat) /\ frames' # <<>> /\ Len(frames') = Len(frames) + 1
      /\ \A i \in 1..Len(frames) : frames'[i] = frames[i]
      /\ frames'[Len(frames) + 1] = sent + n
  BY <1>1, AppendProperties DEF RemoteSend
<1>3. TypeOK'
  BY <1>1, <1>2 DEF TypeOK, RemoteSend
<1>4. RoomToRead' /\ BufferIsStream' /\ FramesWhole'
  BY DEF RoomToRead, BufferIsStream, FramesWhole, RemoteSend
<1>5. Aligned'
  BY <1>1 DEF Aligned, RemoteSend, TypeOK
<1>6. RefusesOnlyOversize'
  <2> SUFFICES ASSUME rx' = "closed" PROVE frames' # <<>> /\ Length' > MaxSize
    BY DEF RefusesOnlyOversize, RemoteSend
  <2>1. frames # <<>> /\ Length > MaxSize
    BY DEF RefusesOnlyOversize, RemoteSend
  <2>2. Len(frames) > 0
    BY <1>1, <2>1
  <2>3. Head(frames') = Head(frames)
    BY <1>1, <1>2, <2>2
  <2> QED BY <1>2, <2>1, <2>3 DEF Length, RemoteSend
<1>7. FramesOrdered'
  <2> USE DEF FramesOrdered
  <2>0. /\ Len(frames) \in Nat /\ processed \in Nat /\ sent \in Nat
        /\ \A i \in 1..Len(frames) : frames[i] \in Nat
        /\ frames # <<>> <=> Len(frames) > 0
    BY <1>1 DEF TypeOK
  <2>1. \A i \in 1..Len(frames) : frames[i] <= sent
    <3> TAKE i \in 1..Len(frames)
    <3>1. frames[Len(frames)] = sent
      BY <2>0
    <3>2. CASE i = Len(frames)
      BY <2>0, <3>1, <3>2
    <3>3. CASE i < Len(frames)
      <4>1. Len(frames) \in 1..Len(frames)
        BY <2>0
      <4>2. frames[i] < frames[Len(frames)]
        BY <3>3, <4>1
      <4> QED BY <2>0, <3>1, <4>2
    <3> QED BY <2>0, <3>2, <3>3
  <2>2. processed <= sent
    <3>1. CASE frames = <<>>
      BY <2>0, <3>1
    <3>2. CASE frames # <<>>
      <4>1. Len(frames) \in 1..Len(frames)
        BY <2>0, <3>2
      <4> QED BY <2>0, <3>2, <4>1
    <3> QED BY <3>1, <3>2
  <2>3. processed' = processed /\ sent' = sent + n
    BY DEF RemoteSend
  <2>4. \A i \in 1..Len(frames') : i \in 1..Len(frames) \/ i = Len(frames) + 1
    BY <1>2, <2>0
  <2>5. \A i \in 1..Len(frames') : processed' < frames'[i]
    <3> TAKE i \in 1..Len(frames')
    <3>1. CASE i \in 1..Len(frames)
      BY <1>2, <2>3, <3>1
    <3>2. CASE i = Len(frames) + 1
      <4>1. processed < sent + n
        BY <1>1, <2>0, <2>2
      <4> QED BY <1>2, <2>3, <3>2, <4>1
    <3> QED BY <2>4, <3>1, <3>2
  <2>6. ASSUME NEW i \in 1..Len(frames'), NEW j \in 1..Len(frames'), i < j
        PROVE  frames'[i] < frames'[j]
    <3>1. i \in 1..Len(frames)
      BY <1>2, <2>0, <2>6
    <3>2. CASE j \in 1..Len(frames)
      BY <1>2, <2>6, <3>1, <3>2
    <3>3. CASE j = Len(frames) + 1
      BY <1>1, <1>2, <2>0, <2>1, <3>1, <3>3
    <3> QED BY <2>4, <3>2, <3>3
  <2> QED BY <1>2, <2>3, <2>5, <2>6
<1> QED BY <1>3, <1>4, <1>5, <1>6, <1>7

\* The steps before the receive cycle.
LEMMA StartIInv ==
  ASSUME IInv, NEW k \in Nat,
         Run \/ StartHandover(k) \/ GrowForHandover \/ AcceptHandover \/ RefuseHandover
  PROVE  IInv'
<1> USE RxAssumption DEF IInv
<1>1. CASE Run
  BY <1>1 DEF Run, TypeOK, RoomToRead, BufferIsStream, RefusesOnlyOversize, FramesWhole,
              Aligned, FramesOrdered, Length
<1>2. CASE StartHandover(k)
  BY <1>2 DEF StartHandover, TypeOK, RoomToRead, BufferIsStream, RefusesOnlyOversize, FramesWhole,
              Aligned, FramesOrdered, Length
<1>3. CASE GrowForHandover
  <2>1. Grown \in 1..MaxSize /\ Grown > capacity
    BY <1>3, GrownBounds DEF GrowForHandover
  <2>2. TypeOK'
    BY <1>3, <2>1 DEF GrowForHandover, Resized, TypeOK
  <2> QED BY <1>3, <2>2 DEF GrowForHandover, RoomToRead, BufferIsStream, RefusesOnlyOversize,
              FramesWhole, Aligned, FramesOrdered, TypeOK
<1>4. CASE AcceptHandover
  <2>1. TypeOK'
    BY <1>4 DEF AcceptHandover, Filled, TypeOK, Aligned
  <2>2. BufferIsStream'
    BY <1>4 DEF AcceptHandover, Filled, BufferIsStream, TypeOK, Aligned
  <2> QED BY <1>4, <2>1, <2>2 DEF AcceptHandover, RoomToRead, RefusesOnlyOversize,
              FramesWhole, Aligned, FramesOrdered, TypeOK
<1>5. CASE RefuseHandover
  BY <1>5 DEF RefuseHandover, TypeOK, RoomToRead, BufferIsStream, RefusesOnlyOversize, FramesWhole,
              Aligned, FramesOrdered, Length
<1> QED BY <1>1, <1>2, <1>3, <1>4, <1>5

\* Received bytes continue the ones that are buffered.
LEMMA ReceiveIInv ==
  ASSUME IInv, NEW k \in Nat, Receive(k)
  PROVE  IInv'
<1> USE RxAssumption DEF IInv, Receive
<1>1. TypeOK'
  BY DEF Filled, TypeOK
<1>2. BufferIsStream'
  BY DEF Filled, BufferIsStream, TypeOK
<1>3. RoomToRead' /\ RefusesOnlyOversize' /\ FramesWhole' /\ FramesOrdered'
  BY DEF RoomToRead, RefusesOnlyOversize, FramesWhole, FramesOrdered
<1>4. Aligned'
  BY DEF Aligned, TypeOK
<1> QED BY <1>1, <1>2, <1>3, <1>4

\* What Head and Tail return.
LEMMA HeadTailNat ==
  ASSUME NEW f \in Seq(Nat), f # <<>>
  PROVE  /\ Len(f) \in Nat /\ Len(f) > 0
         /\ Head(f) = f[1] /\ Head(f) \in Nat
         /\ Tail(f) \in Seq(Nat) /\ Len(Tail(f)) = Len(f) - 1
         /\ \A i \in 1..Len(Tail(f)) : Tail(f)[i] = f[i + 1]
<1>1. Len(f) \in Nat /\ Len(f) > 0
  OBVIOUS
<1>2. Head(f) = f[1] /\ Head(f) \in Nat
  BY <1>1
<1>3. Tail(f) \in Seq(Nat) /\ Len(Tail(f)) = Len(f) - 1
  BY <1>1
<1>4. \A i \in 1..Len(Tail(f)) : Tail(f)[i] = f[i + 1]
  BY <1>1
<1> QED BY <1>1, <1>2, <1>3, <1>4

\* What SubSeq returns, for a piece of a buffer of numbers that starts at
\* position o + 1 and has length n.
LEMMA PieceOfBuffer ==
  ASSUME NEW c \in Nat, NEW b \in [1..c -> Nat],
         NEW o \in Nat, NEW n \in Nat, n > 0, o + n <= c
  PROVE  /\ SubSeq(b, o + 1, o + n) \in Seq(Nat)
         /\ Len(SubSeq(b, o + 1, o + n)) = n
         /\ \A i \in 1..n : SubSeq(b, o + 1, o + n)[i] = b[o + i]
<1>1. b \in Seq(Nat) /\ Len(b) = c
  OBVIOUS
<1>2. o + 1 \in 1..c /\ o + n \in 1..c /\ o + 1 <= o + n
  OBVIOUS
<1>3. (o + n) - (o + 1) + 1 = n
  OBVIOUS
<1>4. \A i \in 1..n : (o + 1) + i - 1 = o + i
  OBVIOUS
<1> QED BY <1>1, <1>2, <1>3, <1>4

\* The frame at the offset is the next one, and offset moves to its end.
LEMMA ProcessFrameIInv ==
  ASSUME IInv, ProcessFrame
  PROVE  IInv'
<1> USE RxAssumption DEF IInv
<1>1. /\ rx = "processing" /\ frames # <<>> /\ bytes - offset >= Length
      /\ lastFrame' = SubSeq(buffer, offset + 1, offset + Length)
      /\ offset' = offset + Length
      /\ frames' = Tail(frames) /\ processed' = Head(frames)
      /\ UNCHANGED <<rx, capacity, buffer, bytes, sent, received, handover>>
  BY DEF ProcessFrame, HasFrame
<1>2. /\ frames \in Seq(Nat) /\ processed \in Nat /\ received \in Nat /\ sent \in Nat
      /\ capacity \in Nat /\ bytes \in Nat /\ bytes <= capacity
      /\ offset \in Nat /\ offset <= bytes
      /\ buffer \in [1..capacity -> Nat]
  BY DEF TypeOK
<1>3. Len(frames) \in Nat /\ Len(frames) > 0 /\ Head(frames) = frames[1]
  BY <1>1, <1>2, HeadTailNat
<1>4. /\ Head(frames) \in Nat
      /\ frames' \in Seq(Nat) /\ Len(frames') = Len(frames) - 1
      /\ \A i \in 1..Len(frames') : frames'[i] = frames[i + 1]
  <2>1. /\ Head(frames) \in Nat
        /\ Tail(frames) \in Seq(Nat) /\ Len(Tail(frames)) = Len(frames) - 1
        /\ \A i \in 1..Len(Tail(frames)) : Tail(frames)[i] = frames[i + 1]
    BY <1>1, <1>2, HeadTailNat
  <2>2. frames' = Tail(frames)
    BY <1>1
  <2> QED BY <2>1, <2>2
<1>5. PICK n \in Nat : n = Length /\ n > 0 /\ n = Head(frames) - processed
  <2>1. 1 \in 1..Len(frames)
    BY <1>3
  <2>2. processed < frames[1]
    BY <2>1 DEF FramesOrdered
  <2>3. Head(frames) - processed \in Nat /\ Head(frames) - processed > 0
    BY <1>2, <1>3, <1>4, <2>2
  <2> QED BY <2>3 DEF Length
<1>6. /\ offset + n <= bytes
      /\ offset' = offset + n
      /\ lastFrame' = SubSeq(buffer, offset + 1, offset + n)
      /\ processed' = processed + n
  <2>1. bytes - offset >= n
    BY <1>1, <1>5, Zenon
  <2>2. offset + n <= bytes
    BY <1>2, <2>1
  <2>3. processed' = Head(frames)
    BY <1>1
  <2>4. processed' = processed + n
    BY <1>2, <1>4, <1>5, <2>3
  <2>5. offset' = offset + n
    BY <1>1, <1>5, Zenon
  <2>6. lastFrame' = SubSeq(buffer, offset + 1, offset + n)
    BY <1>1, <1>5, Zenon
  <2> QED BY <2>2, <2>4, <2>5, <2>6
<1>7. /\ lastFrame' \in Seq(Nat) /\ Len(lastFrame') = n
      /\ \A i \in 1..n : lastFrame'[i] = buffer[offset + i]
  <2>1. n > 0
    BY <1>5
  <2>2. offset + n <= bytes
    BY <1>6
  <2>3. offset + n <= capacity
    BY <1>2, <2>2
  <2>4. lastFrame' = SubSeq(buffer, offset + 1, offset + n)
    BY <1>6
  <2> QED BY <1>2, <2>1, <2>3, <2>4, PieceOfBuffer
<1>8. TypeOK'
  <2>0. offset + n <= bytes
    BY <1>6
  <2>1. offset + n \in 0..bytes /\ processed + n \in Nat
    BY <1>2, <2>0
  <2> QED BY <1>1, <1>4, <1>6, <1>7, <2>1 DEF TypeOK
<1>9. processed = received - bytes + offset
  BY DEF Aligned
<1>10. FramesWhole' /\ Aligned'
  <2>1. ASSUME NEW i \in 1..n PROVE lastFrame'[i] = processed' - n + i
    <3>0. offset + n <= bytes
      BY <1>6
    <3>1. offset + i \in 1..bytes
      BY <1>2, <3>0
    <3>2. buffer[offset + i] = received - bytes + (offset + i)
      BY <3>1 DEF BufferIsStream
    <3>3. lastFrame'[i] = received - bytes + (offset + i)
      BY <1>7, <3>2
    <3>4. received - bytes + (offset + i) = (processed + n) - n + i
      BY <1>2, <1>9
    <3> QED BY <1>6, <3>3, <3>4
  <2>2. FramesWhole'
    BY <1>7, <2>1 DEF FramesWhole
  <2>3. processed + n = received - bytes + (offset + n)
    BY <1>2, <1>9
  <2>4. Aligned'
    BY <1>1, <1>6, <2>3 DEF Aligned
  <2> QED BY <2>2, <2>4
<1>11. FramesOrdered'
  <2>0. \A i \in 1..Len(frames) : frames[i] \in Nat
    BY <1>2
  <2>1. \A i \in 1..Len(frames') : i + 1 \in 1..Len(frames)
    BY <1>3, <1>4
  <2>2. 1 \in 1..Len(frames) /\ Len(frames) \in 1..Len(frames)
    BY <1>3
  <2>3. \A i \in 1..Len(frames') : processed' < frames'[i]
    <3> TAKE i \in 1..Len(frames')
    <3>1. frames[1] < frames[i + 1]
      BY <2>1, <2>2, <1>3 DEF FramesOrdered
    <3> QED BY <1>1, <1>3, <1>4, <3>1
  <2>4. \A i, j \in 1..Len(frames') : i < j => frames'[i] < frames'[j]
    <3> TAKE i, j \in 1..Len(frames')
    <3>1. i < j => frames[i + 1] < frames[j + 1]
      BY <2>1 DEF FramesOrdered
    <3> QED BY <1>4, <3>1
  <2>5. frames[Len(frames)] = sent
    BY <1>1 DEF FramesOrdered
  <2>6. frames' = <<>> => processed' = sent'
    <3> HAVE frames' = <<>>
    <3>1. Len(frames') = 0
      OBVIOUS
    <3>2. Len(frames) = 1
      BY <1>3, <1>4, <3>1
    <3> QED BY <1>1, <1>3, <2>5, <3>2
  <2>7. frames' # <<>> => frames'[Len(frames')] = sent'
    <3> HAVE frames' # <<>>
    <3>1. Len(frames') \in 1..Len(frames') /\ Len(frames') + 1 = Len(frames)
      BY <1>3, <1>4
    <3> QED BY <1>1, <1>4, <2>5, <3>1
  <2> QED BY <2>3, <2>4, <2>6, <2>7 DEF FramesOrdered
<1>12. RoomToRead' /\ BufferIsStream' /\ RefusesOnlyOversize'
  BY <1>1 DEF RoomToRead, BufferIsStream, RefusesOnlyOversize
<1> QED BY <1>8, <1>10, <1>11, <1>12

\* Sliding moves the rest of the stream to the front; the buffer is full after
\* it only if the next frame does not fit.
LEMMA FinishProcessIInv ==
  ASSUME IInv, FinishProcess
  PROVE  IInv'
<1> USE RxAssumption DEF IInv
<1>1. /\ rx = "processing" /\ ~HasFrame
      /\ bytes' = bytes - offset /\ offset' = 0
      /\ UNCHANGED <<frames, sent, received, processed, lastFrame, handover>>
  BY DEF FinishProcess
<1>2. Slid \in [1..capacity -> Nat]
  BY DEF Slid, TypeOK
<1>3. \A i \in 1..bytes' : Slid[i] = received - bytes' + i
  <2> TAKE i \in 1..bytes'
  <2>1. Slid[i] = buffer[i + offset]
    BY <1>1 DEF Slid, TypeOK
  <2>2. buffer[i + offset] = received - bytes + (i + offset)
    BY <1>1 DEF BufferIsStream, TypeOK
  <2> QED BY <1>1, <2>1, <2>2 DEF TypeOK
<1>4. Aligned' /\ FramesOrdered' /\ FramesWhole'
  BY <1>1 DEF Aligned, FramesOrdered, FramesWhole, TypeOK, FinishProcess
<1>5. CASE rx' = "reading" /\ bytes' < capacity /\ capacity' = capacity /\ buffer' = Slid
  <2>1. TypeOK'
    BY <1>1, <1>2, <1>5 DEF TypeOK
  <2>2. BufferIsStream'
    BY <1>1, <1>3, <1>5 DEF BufferIsStream
  <2> QED BY <1>1, <1>4, <1>5, <2>1, <2>2 DEF RoomToRead, RefusesOnlyOversize
<1>6. CASE /\ rx' = "reading" /\ bytes' = capacity /\ capacity < MaxSize
           /\ capacity' = Grown /\ buffer' = Resized(Slid)
  <2>1. Grown \in 1..MaxSize /\ Grown > capacity
    BY <1>6, GrownBounds
  <2>2. TypeOK'
    BY <1>1, <1>2, <1>6, <2>1 DEF TypeOK, Resized
  <2>3. BufferIsStream'
    BY <1>1, <1>3, <1>6, <2>1 DEF BufferIsStream, Resized, TypeOK
  <2> QED BY <1>1, <1>4, <1>6, <2>1, <2>2, <2>3 DEF RoomToRead, RefusesOnlyOversize, TypeOK
<1>7. CASE /\ rx' = "closed" /\ bytes' = capacity /\ capacity >= MaxSize
           /\ capacity' = capacity /\ buffer' = Slid
  <2>1. TypeOK'
    BY <1>1, <1>2, <1>7 DEF TypeOK
  <2>2. BufferIsStream'
    BY <1>1, <1>3, <1>7 DEF BufferIsStream
  <2>3. processed < sent
    BY <1>1, <1>7 DEF Aligned, TypeOK
  <2>4. frames # <<>>
    BY <2>3 DEF FramesOrdered, TypeOK
  <2>5. Head(frames) \in Nat
    BY <2>4, HeadTailProperties DEF TypeOK
  <2>6. Length > MaxSize
    BY <1>1, <1>7, <2>4, <2>5 DEF HasFrame, Length, TypeOK
  <2>7. RefusesOnlyOversize'
    BY <1>1, <1>7, <2>4, <2>6 DEF RefusesOnlyOversize, Length
  <2> QED BY <1>4, <1>7, <2>1, <2>2, <2>7 DEF RoomToRead
<1> QED BY <1>5, <1>6, <1>7 DEF FinishProcess

LEMMA NextIInv == IInv /\ [Next]_vars => IInv'
<1> SUFFICES ASSUME IInv, [Next]_vars PROVE IInv'
  OBVIOUS
<1>1. CASE UNCHANGED vars
  BY <1>1 DEF vars, IInv, TypeOK, RoomToRead, BufferIsStream, RefusesOnlyOversize, FramesWhole,
              Aligned, FramesOrdered, Length
<1>2. ASSUME NEW n \in FrameLengths, RemoteSend(n) PROVE IInv'
  BY <1>2, RemoteSendIInv
<1>3. CASE Run \/ GrowForHandover \/ AcceptHandover \/ RefuseHandover
  BY <1>3, StartIInv
<1>4. ASSUME NEW k \in 0..MaxStream, StartHandover(k) PROVE IInv'
  BY <1>4, StartIInv, RxAssumption
<1>5. ASSUME NEW k \in 0..MaxStream, Receive(k) PROVE IInv'
  BY <1>5, ReceiveIInv, RxAssumption
<1>6. CASE ProcessFrame
  BY <1>6, ProcessFrameIInv
<1>7. CASE FinishProcess
  BY <1>7, FinishProcessIInv
<1> QED BY <1>1, <1>2, <1>3, <1>4, <1>5, <1>6, <1>7 DEF Next
-----------------------------------------------------------------------------
\* The invariant holds in every reachable state.
THEOREM RxIInvHolds == Spec => []IInv
BY InitIInv, NextIInv, PTL DEF Spec

\* Type correctness; in particular no index leaves the buffer, and the buffer
\* never exceeds rx_buffer_size.
THEOREM RxTypeCorrect == Spec => []TypeOK
<1>1. IInv => TypeOK
  BY DEF IInv
<1> QED BY <1>1, RxIInvHolds, PTL

\* do_read is never called on a full buffer.
THEOREM RxRoomToRead == Spec => []RoomToRead
<1>1. IInv => RoomToRead
  BY DEF IInv
<1> QED BY <1>1, RxIInvHolds, PTL

\* The buffer always holds the latest bytes of the stream, in order.
THEOREM RxBufferIsStream == Spec => []BufferIsStream
<1>1. IInv => BufferIsStream
  BY DEF IInv
<1> QED BY <1>1, RxIInvHolds, PTL

\* Only a frame longer than rx_buffer_size, or more handed-over bytes than
\* that, closes the connection for lack of room.
THEOREM RxRefusesOnlyOversize == Spec => []RefusesOnlyOversize
<1>1. IInv => RefusesOnlyOversize
  BY DEF IInv
<1> QED BY <1>1, RxIInvHolds, PTL

\* Every frame is handed on whole.
THEOREM RxFramesWhole == Spec => []FramesWhole
<1>1. IInv => FramesWhole
  BY DEF IInv
<1> QED BY <1>1, RxIInvHolds, PTL
=============================================================================
