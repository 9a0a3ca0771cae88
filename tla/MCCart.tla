------------------------------- MODULE MCCart -------------------------------
(***************************************************************************)
(* Small instances of CartService: sectors of 4 bytes, cache lines of 2, a *)
(* cartridge of 5 sectors, a RAM region of 32 bytes with the shim in its   *)
(* last 8, words of 8 bits.                                                *)
(***************************************************************************)
EXTENDS CartService

Reg(h, l, len, star, dirty) ==
  [h |-> h, l |-> l, len |-> len, star |-> star, dirty |-> dirty]

(* Legal transfers of every shape (head, body, tail, aligned or not), with *)
(* dirty lines nowhere, inside the target, at both ends of it and beyond.  *)
MCStreams == {Reg(0, l, len, star, d) :
                l \in {0, 2, 3, 10}, len \in {1, 4, 10},
                star \in {32, 33}, d \in {{}, {16, 18}, {17, 21}}}

(* Range checks at their edges, and junk above the masks.                  *)
MCEdges == {Reg(h, l, len, star, {}) :
              h \in {0, 1, 17}, l \in {3, 4, 19}, len \in {0, 1, 16, 17, 32, 33, 254},
              star \in {31, 32, 39, 55, 56, 64, 99, 160, 255}}

(* A boot preload in pieces of several sizes.                              *)
MCPreload == {Reg(0, 0, len, 32, {}) : len \in 1 .. 5}
MCRequests == MCStreams \cup MCEdges \cup MCPreload
=============================================================================
