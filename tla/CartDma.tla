------------------------------ MODULE CartDma -------------------------------
(***************************************************************************)
(* What the game expects of a cartridge DMA: the device it was written     *)
(* for.  It arms a transfer of len cartridge bytes from off to RAM address *)
(* dest and polls SB_GDST; when the register reads 0 the bytes are there   *)
(* and nothing else in RAM has changed.  As on the original board the      *)
(* device does no cache maintenance, so a byte in a line the CPU left      *)
(* dirty may be overwritten by a write-back at any time.                   *)
(*                                                                         *)
(* A RAM byte holds the cartridge offset of its value, Old for the value   *)
(* it had when the transfer was armed, or Raw for a value in transit.      *)
(***************************************************************************)
EXTENDS Integers

CONSTANTS Ram, Transfers    \* RAM addresses; [off, len, dest, legal, exposed]

VARIABLES gdst, transfer, mem, halted

vars == <<gdst, transfer, mem, halted>>

Old == -1
Raw == -2

Target(t)  == t.dest .. t.dest + t.len - 1
Byte(t, a) == t.off + (a - t.dest)

Delivered(t, m) ==
  \A a \in Target(t) \ t.exposed : m[a] = Byte(t, a)

Init ==
  /\ gdst = 0 /\ halted = FALSE
  /\ transfer \in Transfers
  /\ mem = [a \in Ram |-> Old]

Arm ==
  /\ gdst = 0 /\ ~halted
  /\ gdst' = 1
  /\ transfer' \in Transfers
  /\ mem' = [a \in Ram |-> Old]
  /\ UNCHANGED halted

Move ==
  /\ gdst = 1 /\ transfer.legal
  /\ mem' \in [Ram -> Int]
  /\ \A a \in Ram :
       \/ mem'[a] = mem[a]
       \/ a \in Target(transfer) /\ mem'[a] \in {Byte(transfer, a), Raw}
       \/ a \in transfer.exposed /\ mem'[a] = Old
  /\ UNCHANGED <<gdst, transfer, halted>>

Finish ==
  /\ gdst = 1 /\ ~halted
  /\ transfer.legal /\ Delivered(transfer, mem)
  /\ gdst' = 0
  /\ UNCHANGED <<transfer, mem, halted>>

Halt ==
  /\ gdst = 1
  /\ halted' = TRUE
  /\ UNCHANGED <<gdst, transfer, mem>>

WriteBack ==
  /\ mem' \in [Ram -> Int]
  /\ \A a \in Ram :
       mem'[a] = mem[a] \/ (a \in transfer.exposed /\ mem'[a] = Old)
  /\ UNCHANGED <<gdst, transfer, halted>>

Next == Arm \/ Move \/ Finish \/ Halt \/ WriteBack

Spec == Init /\ [][Next]_vars
=============================================================================
