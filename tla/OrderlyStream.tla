---------------------------- MODULE OrderlyStream ----------------------------
(***************************************************************************)
(* What a connection promises about the bytes it is asked to send, whether *)
(* it is a detail::peer or a detail::peer_tls: they go out once and in the *)
(* order they were accepted; when the connection ends nothing goes out any *)
(* more; and an end that was asked for with a CLOSE frame comes when all   *)
(* accepted bytes have gone out, the CLOSE frame included.                 *)
(***************************************************************************)
EXTENDS Integers, Sequences

VARIABLES accepted, \* how many bytes were accepted for transmission
          sent,     \* the bytes that went out, numbered in the order of acceptance
          end       \* "no", "cut" (an error or a local stop) or "orderly"

vars == <<accepted, sent, end>>

FirstBytes(n) == [i \in 1..n |-> i]

Init == accepted = 0 /\ sent = <<>> /\ end = "no"

\* More bytes are accepted, more bytes go out, or both.
Progress ==
  /\ accepted' \in Nat /\ accepted' >= accepted
  /\ \E n \in Len(sent)..accepted' : sent' = FirstBytes(n)

Transfer == end = "no" /\ Progress /\ end' = end

Cut == end = "no" /\ Progress /\ end' = "cut"

Finish == end = "no" /\ Progress /\ sent' = FirstBytes(accepted') /\ end' = "orderly"

\* Bytes offered after the end are dropped.
Discard ==
  /\ end # "no" /\ end' = end
  /\ sent' = sent
  /\ accepted' \in Nat /\ accepted' >= accepted

Next == Transfer \/ Cut \/ Finish \/ Discard

Spec == Init /\ [][Next]_vars
=============================================================================
