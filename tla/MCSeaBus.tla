------------------------------ MODULE MCSeaBus ------------------------------
(***************************************************************************)
(* Instances of SeaBus.  The code copies four strings for an inbound       *)
(* message and three for an outbound one, all in the same way; two of      *)
(* them (the channel, then a longer one) show every interleaving of two    *)
(* allocations and one message whose strings straddle another's.           *)
(***************************************************************************)
EXTENDS SeaBus

StringSizes == [d \in Dirs |-> <<1, 2>>]
ContentOnly == [d \in Dirs |-> <<1>>]
=============================================================================
