---------------------------- MODULE MCWireFormat ----------------------------
(* WireFormat with payload sizes around every change of representation.    *)
EXTENDS WireFormat

Key == <<161, 7, 255, 64>>

SomeSignos == {0, 7, 2^16 + 2^8 + 3, 2^20 - 1}

\* With its 4- or 8-byte packet header, a payload fills frames of 125, 126,
\* 65535 and 65536 bytes.
EdgeSizes == {1, 4, 15, 16, 121, 122, 255, 256, 65527, 65528, 2^24}
=============================================================================
