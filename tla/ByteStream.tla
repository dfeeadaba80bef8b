----------------------------- MODULE ByteStream -----------------------------
(***************************************************************************)
(* What a buffer between one writer and one reader promises: the reader    *)
(* gets the bytes the writer put, each once and in their order, and never  *)
(* more than Capacity of them are on their way.  The n-th byte put is      *)
(* named n.                                                                *)
(***************************************************************************)
EXTENDS Naturals, Sequences

CONSTANT Capacity

VARIABLES
    put,  \* how many bytes the writer has put
    out   \* the bytes the reader has got

Init == put = 0 /\ out = <<>>

Put(n) ==
    /\ put + n - Len(out) <= Capacity
    /\ put' = put + n
    /\ UNCHANGED out

Get(n) ==
    /\ Len(out) + n <= put
    /\ out' = [i \in 1..(Len(out) + n) |-> i]
    /\ UNCHANGED put

Next == \E n \in 1..Capacity : Put(n) \/ Get(n)

Spec == Init /\ [][Next]_<<put, out>>
=============================================================================
