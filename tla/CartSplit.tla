----------------------------- MODULE CartSplit ------------------------------
(***************************************************************************)
(* cart_split (shims/src/cart.c): a byte range of the cartridge is read as *)
(* a partial head sector, a run of whole sectors and a partial tail.       *)
(***************************************************************************)
EXTENDS Integers

CONSTANT SectorSize     \* 2048

ASSUME SectorSizeAssumption == SectorSize \in Nat \ {0}

HeadSkip(off) == off % SectorSize

HeadTake(off, len) ==
  IF HeadSkip(off) = 0
    THEN 0
    ELSE IF SectorSize - HeadSkip(off) > len THEN len
         ELSE SectorSize - HeadSkip(off)

HeadFad(off) == off \div SectorSize

BodyFad(off) == HeadFad(off) + (IF HeadSkip(off) = 0 THEN 0 ELSE 1)

BodySectors(off, len) == (len - HeadTake(off, len)) \div SectorSize

TailFad(off, len) == BodyFad(off) + BodySectors(off, len)

TailTake(off, len) == (len - HeadTake(off, len)) % SectorSize

(* Where the three pieces start in the destination (dst in cart_read).     *)
BodyAt(off, len) == HeadTake(off, len)
TailAt(off, len) == BodyAt(off, len) + BodySectors(off, len) * SectorSize
=============================================================================
