------------------------------ MODULE MCLatch ------------------------------
(* Three transactions over two keys of one slot: one may hold key 1 and wait  *)
(* for key 2 while another waits for key 1, in one waiting list, and the list *)
(* of nodes is long enough to be recycled.                                    *)
EXTENDS Latch

MCSlotOf == [k \in Keys |-> 0]
MCKeySeqs == {<<2>>, <<1, 2>>}
=============================================================================
