----------------------------- MODULE WireFormat -----------------------------
(***************************************************************************)
(* How a packet is laid out on the wire and read back: the streaming       *)
(* protocol header and, unless the direct TCP protocol is used, the        *)
(* WebSocket frame around it.  The bytes of one packet arrive little by    *)
(* little, and the receiver decodes whatever it has each time.             *)
(*                                                                         *)
(* Data is a sequence that holds its first bytes, and its length: only the *)
(* headers and the metadata encoding are ever looked at.                   *)
(***************************************************************************)
EXTENDS Integers, Sequences

CONSTANTS Transports,  \* among "ws", "masked" (a WebSocket peer that masks) and "tcp"
          Signos,      \* signal numbers
          Sizes,       \* payload sizes
          MaskingKey,  \* the key of a masking peer
          MaxCut       \* bound: how far into a packet every cut is tried

ASSUME WireAssumption ==
  /\ Transports \subseteq {"ws", "masked", "tcp"}
  /\ \A s \in Signos : s \in Nat /\ s < 1048576  \* what fits the 20 bits of the header field
  /\ \A n \in Sizes : n \in Nat /\ n <= 1073741824
  /\ MaskingKey \in [1..4 -> 0..255]
  /\ MaxCut \in Nat

VARIABLES transport, \* how the packet travels
          packet,    \* what was sent
          available  \* how many of its bytes have arrived

wireVars == <<transport, packet, available>>

DATA == 1
METADATA == 2
MSGPACK == 2
BINARY == 2
FIN == 128
-----------------------------------------------------------------------------
(* Encoding. *)

\* The weights of the bytes of a word, the least significant first.
Weight == <<1, 256, 65536, 16777216>>

\* The n low bytes of v, least significant or most significant first.
LittleEndian(v, n) == [i \in 1..n |-> (v \div Weight[i]) % 256]
BigEndian(v, n) == [i \in 1..n |-> IF n - i > 3 THEN 0 ELSE (v \div Weight[n - i + 1]) % 256]

\* The first word of a packet header: 20 bits of signal number, 8 of size, the type.
FirstWord(signo, size, type) == signo + size * 1048576 + type * 268435456

\* Mutant of PacketHeader: the size in the second word is in network order.
PacketHeaderNetworkOrder(p) ==
  IF p.size < 256
    THEN LittleEndian(FirstWord(p.signo, p.size, p.type), 4)
    ELSE LittleEndian(FirstWord(p.signo, 0, p.type), 4) \o BigEndian(p.size, 4)

\* streaming_protocol::generate_header; the fields do not overlap.
PacketHeader(p) ==
  IF p.size < 256
    THEN LittleEndian(FirstWord(p.signo, p.size, p.type), 4)
    ELSE LittleEndian(FirstWord(p.signo, 0, p.type), 4) \o LittleEndian(p.size, 4)

\* websocket_protocol::generate_header.
FrameHeader(opcode, flags, size) ==
  <<opcode + flags>> \o
    (IF size <= 125 THEN <<size>>
     ELSE IF size <= 65535 THEN <<126>> \o BigEndian(size, 2)
     ELSE <<127>> \o BigEndian(size, 8))

\* The first payload bytes: send_metadata starts with the encoding.
PayloadStart(p) ==
  IF p.type = METADATA THEN LittleEndian(MSGPACK, 4) ELSE [i \in 1..4 |-> 255]

\* Exclusive or of two bytes, bit by bit.
XorBit(a, b, w) == IF (a \div w) % 2 = (b \div w) % 2 THEN 0 ELSE w
Xor(a, b) ==
  XorBit(a, b, 1) + XorBit(a, b, 2) + XorBit(a, b, 4) + XorBit(a, b, 8)
    + XorBit(a, b, 16) + XorBit(a, b, 32) + XorBit(a, b, 64) + XorBit(a, b, 128)

\* The key byte that goes with the i-th byte of a payload.
KeyByte(key, i) == key[((i - 1) % 4) + 1]

Mask(bytes, key) == [i \in DOMAIN bytes |-> Xor(bytes[i], KeyByte(key, i))]

\* The frame header of a peer that masks: the mask bit and the key.
MaskedFrameHeader(opcode, flags, size) ==
  [FrameHeader(opcode, flags, size) EXCEPT ![2] = @ + 128] \o MaskingKey

\* send_packet: what is written to the socket, as its first bytes and length.
Encoded(t, p) ==
  LET header == PacketHeader(p)
      start  == header \o PayloadStart(p)
      length == Len(header) + p.size
      frame  == IF t = "masked" THEN MaskedFrameHeader(BINARY, FIN, length)
                ELSE FrameHeader(BINARY, FIN, length)
  IN  IF t = "tcp" THEN [bytes |-> start, length |-> length]
      ELSE [bytes |-> frame \o (IF t = "masked" THEN Mask(start, MaskingKey) ELSE start),
            length |-> Len(frame) + length]
-----------------------------------------------------------------------------
(* Decoding. *)

\* The word of four bytes, the least significant first.
WordOf(b1, b2, b3, b4) == b1 + b2 * 256 + b3 * 65536 + b4 * 16777216

From(bytes, n) == SubSeq(bytes, n + 1, Len(bytes))

Incomplete == [header |-> 0]

\* The header of hdr bytes and the payload size, if the payload is all there.
Complete(fields, hdr, payload, length) ==
  IF length - hdr >= payload
    THEN [header |-> hdr, payload |-> payload, fields |-> fields]
    ELSE Incomplete

\* streaming_protocol::decode_header.
DecodePacketHeader(bytes, length) ==
  LET type   == bytes[4] \div 16
      signo  == (bytes[3] % 16) * 65536 + bytes[2] * 256 + bytes[1]
      inline == (bytes[4] % 16) * 16 + (bytes[3] \div 16)
      extended == WordOf(bytes[5], bytes[6], bytes[7], bytes[8])
      fields == [signo |-> signo, type |-> type]
  IN  IF length < 4 THEN Incomplete
      ELSE IF inline # 0 THEN Complete(fields, 4, inline, length)
      ELSE IF length < 8 THEN Incomplete
      ELSE Complete(fields, 8, extended, length)

\* What the seven low bits of the second byte of a frame announce: how many
\* bytes of size follow, and the size.
SizeBytes(short) == CASE short = 126 -> 2 [] short = 127 -> 8 [] OTHER -> 0
SizeOf(bytes, short) ==
  CASE short = 126 -> bytes[3] * 256 + bytes[4]
    [] short = 127 -> WordOf(bytes[10], bytes[9], bytes[8], bytes[7])
    [] OTHER -> short

FrameFields(bytes, wide) ==
  [opcode |-> bytes[1] % 16, flags |-> bytes[1] - (bytes[1] % 16), masked |-> bytes[2] >= 128,
   key |-> SubSeq(bytes, 3 + wide, 6 + wide)]

\* Mutant of DecodeFrameHeader: the masking key is not skipped.
DecodeFrameHeaderUnmasked(bytes, length) ==
  LET short == bytes[2] % 128
      wide  == SizeBytes(short)
  IN  IF length < 2 + wide THEN Incomplete
      ELSE Complete(FrameFields(bytes, wide), 2 + wide, SizeOf(bytes, short), length)

\* websocket_protocol::decode_header; sizes here stay below 2^31.
DecodeFrameHeader(bytes, length) ==
  LET short == bytes[2] % 128
      wide  == SizeBytes(short)
      hdr == 2 + wide + (IF bytes[2] >= 128 THEN 4 ELSE 0)
  IN  IF length < 2 \/ length < 2 + wide \/ length < hdr THEN Incomplete
      ELSE Complete(FrameFields(bytes, wide), hdr, SizeOf(bytes, short), length)

\* The encoding word as process_metadata_packet reads it.
MetadataEncoding(tcp, bytes) ==
  IF tcp THEN WordOf(bytes[4], bytes[3], bytes[2], bytes[1])
         ELSE WordOf(bytes[1], bytes[2], bytes[3], bytes[4])

\* process_packet: the packet it dispatches, if it finds a whole one.
ProcessPacket(tcp, bytes, length) ==
  LET h == DecodePacketHeader(bytes, length)
  IN  IF h.header = 0 THEN <<>>
      ELSE <<[signo |-> h.fields.signo, type |-> h.fields.type, size |-> h.payload,
              encoding |-> IF h.fields.type = METADATA /\ h.payload >= 4
                             THEN MetadataEncoding(tcp, From(bytes, h.header)) ELSE 0]>>

\* process_buffer: what is dispatched of the first n bytes, and the bytes left
\* behind.  Frames other than binary ones with FIN are Peer's subject.
Processed(t, p, n) ==
  LET sent == Encoded(t, p)
      h == DecodeFrameHeader(sent.bytes, n)
      body == From(sent.bytes, h.header)
      plain == IF h.fields.masked THEN Mask(body, h.fields.key) ELSE body
      found == ProcessPacket(TRUE, sent.bytes, n)
  IN  IF t = "tcp"
        THEN [packets |-> found, consumed |-> IF found = <<>> THEN 0
                                   ELSE DecodePacketHeader(sent.bytes, n).header + found[1].size]
        ELSE IF h.header = 0 THEN [packets |-> <<>>, consumed |-> 0]
        ELSE [packets |-> ProcessPacket(FALSE, plain, h.payload),
              consumed |-> h.header + h.payload]
-----------------------------------------------------------------------------
Packet == [signo : Signos, type : {DATA, METADATA}, size : Sizes]

WireInit ==
  /\ transport \in Transports
  /\ packet \in {p \in Packet : p.type = METADATA => p.size >= 4}
  /\ available = 0

\* More bytes arrive: up to any point in the first MaxCut, just before the
\* end, or to the end.
Arrive ==
  LET length == Encoded(transport, packet).length
  IN  /\ \E n \in (0..MaxCut) \cup {length - 1, length} :
           available < n /\ n <= length /\ available' = n
      /\ UNCHANGED <<transport, packet>>

WireNext == Arrive

WireSpec == WireInit /\ [][WireNext]_wireVars
-----------------------------------------------------------------------------
(* Properties. *)

Length == Encoded(transport, packet).length
Result == Processed(transport, packet, available)

\* A packet is dispatched as it was sent when its last byte has arrived, and
\* not before: no cut through the headers or the payload is misread.  In
\* WebSocket frames the encoding of metadata is understood as well.
PacketRoundTrip ==
  /\ transport # "tcp" =>
       \A i \in DOMAIN Result.packets :
         Result.packets[i].type = METADATA => Result.packets[i].encoding = MSGPACK
  /\ [i \in DOMAIN Result.packets |->
        [signo |-> Result.packets[i].signo, type |-> Result.packets[i].type, size |-> Result.packets[i].size]]
       = IF available = Length THEN <<packet>> ELSE <<>>

\* The receiver consumes exactly what the sender wrote for one packet, so that
\* the next one is looked for where it starts.
NextFrameAligned == Result.consumed = IF available = Length THEN Length ELSE 0
=============================================================================
