------------------------------ MODULE ByteFifo ------------------------------
(***************************************************************************)
(* What the class comment of detail::dynamic_buffer promises its callers:  *)
(* a bounded queue of bytes.  Data comes back in the order it was written; *)
(* write() appends as much as fits and reports the count; an amount fits   *)
(* for certain when it leaves one block of the nominal limit unused, since *)
(* up to one block may be tied up by data that was already consumed; an    *)
(* empty buffer always offers the whole limit.                             *)
(***************************************************************************)
EXTENDS Integers, Sequences

CONSTANTS Capacity,   \* the allocation limit, in bytes
          Slack,      \* bytes that consumed data may tie up: less than a block
          MaxRequest, \* bound: the longest write() and consume() considered
          Modulus     \* bytes are numbered modulo this

VARIABLES queue,      \* the buffered bytes, oldest first
          nextByte    \* the number of the next byte write() is given

vars == <<queue, nextByte>>

\* The first k of the bytes that a write() starting at byte n offers.
Bytes(n, k) == [i \in 1..k |-> (n + i - 1) % Modulus]

\* How many bytes of a request of n the buffer may accept.
Acceptable(n) ==
  {k \in 0..n :
     /\ Len(queue) + k <= Capacity
     /\ (Len(queue) + n <= Capacity - Slack) => k = n
     /\ (k < n) => Len(queue) + k >= Capacity - Slack
     /\ (queue = <<>> /\ n <= Capacity) => k = n}

Init == queue = <<>> /\ nextByte = 0

Write(n) ==
  \E k \in Acceptable(n) :
    /\ queue' = queue \o Bytes(nextByte, k)
    /\ nextByte' = (nextByte + k) % Modulus

Consume(n) ==
  /\ queue' = SubSeq(queue, n + 1, Len(queue))
  /\ UNCHANGED nextByte

Next == \E n \in 0..MaxRequest : Write(n) \/ Consume(n)

Spec == Init /\ [][Next]_vars
=============================================================================
