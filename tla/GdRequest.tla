----------------------------- MODULE GdRequest ------------------------------
(***************************************************************************)
(* The vocabulary of a sector read: the request gd_read_sectors and        *)
(* gd_read_sectors_dma (shims/src/gd.c) take, and the destination buffer.  *)
(*                                                                         *)
(* The destination is a buffer of MaxSectors sector slots.  A slot is      *)
(* described by the data stored in it last: a disc sector number (FAD),    *)
(* Old for what was there before the call, or Raw for sector data read in  *)
(* the wrong mode.  A store goes straight to RAM, so a slot of which the   *)
(* D-cache holds a dirty line is undone when that line is written back.    *)
(***************************************************************************)
EXTENDS Integers

CONSTANTS
  MaxSectors,   \* slots of the destination buffer
  Fads          \* disc sectors a request may start at

ASSUME GdRequestAssumption ==
  /\ MaxSectors \in Nat \ {0}
  /\ Fads \subseteq Nat
  /\ Fads # {}

Old == -1
Raw == -2

Slots == 0 .. MaxSectors - 1

(* dma: which of the two functions; dirty: the slots the D-cache holds     *)
(* dirty behind an uncached (P2) destination.  The bounce buffer is read   *)
(* and written through one cached view, so its calls have dirty = {}.      *)
Calls == [fad : Fads, n : 1 .. MaxSectors, dma : BOOLEAN, dirty : SUBSET Slots]

NoCall == [fad |-> (CHOOSE f \in Fads : TRUE), n |-> 1, dma |-> FALSE, dirty |-> {}]

Requested(c) == 0 .. c.n - 1
Wanted(c, i) == c.fad + i

(* The slots a call is allowed to leave undone: a PIO read does no cache   *)
(* maintenance.                                                            *)
Exposed(c) == IF c.dma THEN {} ELSE c.dirty

(* Slots d, of which u are undone, carry all that call c asked for.        *)
Complete(c, d, u) ==
  /\ \A i \in Requested(c) : d[i] = Wanted(c, i)
  /\ u \cap Requested(c) \subseteq Exposed(c)
=============================================================================
