----------------------------- MODULE ByteStream -----------------------------
(***************************************************************************)
(* What one direction of a reassembled TCP connection promises: the bytes  *)
(* made available are always a prefix of the sender's stream, and they     *)
(* only grow at the end.  Position 1 is the first byte after the SYN.      *)
(***************************************************************************)
EXTENDS Naturals, Sequences

CONSTANT StreamLen      \* number of bytes the sender writes

VARIABLE out            \* positions made available so far, in order

Prefix(n) == [i \in 1 .. n |-> i]

Init == out = << >>

Deliver ==
  \E n \in 1 .. StreamLen :
    /\ n > Len(out)
    /\ out' = Prefix(n)

Next == Deliver

Spec == Init /\ [][Next]_out
==============================================================================
