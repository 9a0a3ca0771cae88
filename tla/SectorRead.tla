----------------------------- MODULE SectorRead -----------------------------
(***************************************************************************)
(* What gd_read_sectors and gd_read_sectors_dma (shims/src/gd.c), called   *)
(* through gd_or_die (shims/src/cart.c), promise their caller: a call      *)
(* either returns with every sector of the request in RAM, or the machine  *)
(* stops on a death screen.  There is no third outcome, and no sector      *)
(* outside the request is written.                                         *)
(***************************************************************************)
EXTENDS GdRequest

VARIABLES
  status,       \* "idle", "reading", "ok" or "dead"
  call,         \* the request: [fad, n, dma, dirty]
  dst,          \* what was stored last in each slot
  undone        \* slots a write-back has overwritten since

vars == <<status, call, dst, undone>>

Blank == [i \in Slots |-> Old]

Init == status = "idle" /\ call = NoCall /\ dst = Blank /\ undone = {}

Request ==
  /\ status \in {"idle", "ok"}
  /\ status' = "reading"
  /\ call' \in Calls
  /\ dst' = Blank /\ undone' = {}

(* Partial data, and the data of abandoned attempts, may appear meanwhile. *)
Transfer ==
  /\ status = "reading"
  /\ \A i \in Slots :
       \/ dst'[i] = dst[i]
       \/ i \in Requested(call) /\ dst'[i] \in {Wanted(call, i), Raw}
  /\ undone' \subseteq undone \cup call.dirty
  /\ UNCHANGED <<status, call>>

Return ==
  /\ status = "reading"
  /\ Complete(call, dst, undone)
  /\ status' = "ok"
  /\ UNCHANGED <<call, dst, undone>>

Die ==
  /\ status = "reading"
  /\ status' = "dead"
  /\ UNCHANGED <<call, dst, undone>>

(* A dirty line reaches RAM outside a call.  After a DMA read only lines   *)
(* beyond the request can still be dirty.                                  *)
WriteBack ==
  /\ status # "reading"
  /\ \E i \in call.dirty :
       /\ status = "ok" /\ call.dma => i \notin Requested(call)
       /\ undone' = undone \cup {i}
  /\ UNCHANGED <<status, call, dst>>

(* The caller is done with the data.                                       *)
Release ==
  /\ status = "ok"
  /\ status' = "idle"
  /\ call' = NoCall
  /\ dst' = Blank /\ undone' = {}

Next == Request \/ Transfer \/ Return \/ Die \/ WriteBack \/ Release

Spec == Init /\ [][Next]_vars
=============================================================================
