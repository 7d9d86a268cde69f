-------------------------- MODULE MCDynamicBuffer ---------------------------
(* DynamicBuffer with a limit of three blocks of two bytes (and one byte   *)
(* that no whole block can use), and a data() of at most two descriptors.  *)
EXTENDS DynamicBuffer
=============================================================================
