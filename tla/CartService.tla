---------------------------- MODULE CartService -----------------------------
(***************************************************************************)
(* The cartridge stream service, shims/src/cart.c: shim_cart_service,      *)
(* hooked onto the game's wait for a cartridge DMA, with cart_read and the *)
(* boot load bar.  The game writes the mirrored G1 registers and calls;    *)
(* the service decodes them, checks the range, reads the sectors through   *)
(* the GD driver (the promise SectorRead, implemented by GdDriver), copies *)
(* the partial ones through the bounce buffer and clears SB_GDST.          *)
(*                                                                         *)
(* RAM bytes hold cartridge offsets, Old for what was there when the game  *)
(* armed the transfer, Raw for bytes of an abandoned attempt.  lines is    *)
(* the set of D-cache lines the game left dirty; the cache may write one   *)
(* back at any time.  Registers are 32-bit: sums wrap at Word.             *)
(***************************************************************************)
EXTENDS SectorRead, CartSplit

CONSTANTS
  Word,                 \* 2^32
  Half,                 \* 2^16: the offset comes in two half words
  OffLimit,             \* 2^28: mask of the offset
  PhysLimit,            \* 2^29: mask of the destination
  RegionSize,           \* 2^24: granularity of the RAM check
  RamRegion,            \* 0x0c
  MaxLen,               \* 0x01000000
  CartSize,             \* 0x06800000
  ShimBase,             \* 0x0cfc0000, end of the game's RAM
  CartFad,              \* first disc sector of the cartridge image
  LineSize,             \* 32: D-cache line, and alignment a G1-DMA needs
  PbTotal, PbPixel,     \* 320 << 15 and 1 << 15
  Preload,              \* bytes the game streams before its title: measured, 11.4 MiB
  Requests              \* register values the game writes (a bound)

RamBase == RamRegion * RegionSize

ASSUME CartServiceAssumption ==
  /\ {Word, Half, OffLimit, PhysLimit, RegionSize, RamRegion, MaxLen,
      CartSize, ShimBase, LineSize, PbTotal, PbPixel} \subseteq Nat \ {0}
  /\ CartFad \in Nat
  /\ OffLimit + MaxLen <= Word
  /\ PhysLimit + MaxLen <= Word
  /\ ShimBase < RamBase + RegionSize
  /\ \A r \in Requests :
       /\ {r.h, r.l, r.len, r.star} \subseteq 0 .. Word - 1
       /\ r.dirty \subseteq Int

(* cart.c:64-69: the countdown is deliberately under the boot preload.     *)
ASSUME PreloadAssumption == Preload \in Nat /\ PbTotal <= Preload

VARIABLES
  pc,         \* step of the service
  gdst,       \* SB_GDST mirror: 1 while the game waits
  req,        \* mirrored registers of the current transfer
  mem,        \* game RAM
  lines,      \* dirty D-cache lines
  pb_left,    \* boot-preload bytes the load bar still waits for
  bar,        \* pixels painted
  streamed,   \* boot-preload bytes delivered, saturating at Preload
  screen      \* what was drawn last: the load bar or the game's own title

svcVars == <<pc, gdst, req, mem, lines, pb_left, bar, streamed, screen>>
cartVars == <<svcVars, vars>>

Ram == RamBase .. RamBase + RegionSize - 1
Line(a) == a \div LineSize

(* The registers as the service decodes them.                              *)
Off  == ((req.h % Half) * Half + (req.l % Half)) % OffLimit
Len  == req.len
Dest == req.star % PhysLimit

(* Variant: no length check before the sums.                               *)
Accepted_NoLenCheck ==
  /\ Len # 0
  /\ (Off + Len) % Word <= CartSize
  /\ Dest \div RegionSize = RamRegion
  /\ (Dest + Len) % Word <= ShimBase

Accepted ==
  /\ Len # 0
  /\ Len <= MaxLen
  /\ (Off + Len) % Word <= CartSize
  /\ Dest \div RegionSize = RamRegion
  /\ (Dest + Len) % Word <= ShimBase

BodyDest == Dest + BodyAt(Off, Len)
TailDest == Dest + TailAt(Off, Len)

(* Variant: every body goes through G1-DMA.                                *)
Aligned_Always == TRUE

Aligned == BodyDest % LineSize = 0

(* Lines of the n sectors that start at RAM address a.                     *)
SectorLines(a, n) == Line(a) .. Line(a + n * SectorSize - 1)

CartInit ==
  /\ Init
  /\ pc = "run" /\ gdst = 0 /\ req \in Requests
  /\ mem = [a \in Ram |-> Old] /\ lines = {}
  /\ pb_left = PbTotal /\ bar = 0 /\ streamed = 0 /\ screen = "bar"

-----------------------------------------------------------------------------
(* The game arms a transfer and calls the hooked wait.                     *)
Arm ==
  /\ pc = "run" /\ pc' = "service"
  /\ gdst' = 1
  /\ req' \in Requests
  /\ mem' = [a \in Ram |-> Old] /\ lines' = req'.dirty
  /\ IF status = "ok" THEN Release ELSE UNCHANGED vars
  /\ UNCHANGED <<pb_left, bar, streamed, screen>>

(* shim_cart_service: the range check, shim_die(2) when it fails.          *)
Service ==
  /\ pc = "service"
  /\ pc' = IF Accepted THEN "head" ELSE "dead"
  /\ UNCHANGED <<vars, gdst, req, mem, lines, pb_left, bar, streamed, screen>>

-----------------------------------------------------------------------------
(* cart_read.                                                              *)

Skip(from, to) ==
  /\ pc = from /\ pc' = to
  /\ UNCHANGED <<vars, gdst, req, mem, lines, pb_left, bar, streamed, screen>>

(* gd_or_die on the bounce buffer: one sector.                             *)
ReadBounce(from, to, rel) ==
  /\ pc = from /\ pc' = to
  /\ call' = [fad |-> CartFad + rel, n |-> 1, dma |-> FALSE, dirty |-> {}]
  /\ Request
  /\ UNCHANGED <<gdst, req, mem, lines, pb_left, bar, streamed, screen>>

(* xmemcpy of take bytes from bounce + skip to RAM address a.  Byte k of   *)
(* the bounce buffer is a byte of the sector the driver left there.        *)
BounceByte(k) ==
  IF dst[0] \in {Old, Raw} THEN dst[0] ELSE (dst[0] - CartFad) * SectorSize + k

CopyBounce(from, to, a, skip, take) ==
  /\ pc = from /\ pc' = to
  /\ mem' = [b \in Ram |-> IF b \in a .. a + take - 1
                             THEN BounceByte(skip + b - a) ELSE mem[b]]
  /\ UNCHANGED <<vars, gdst, req, lines, pb_left, bar, streamed, screen>>

(* Variant: the bytes before the offset are not skipped.                   *)
Head_NoSkip ==
  \/ HeadTake(Off, Len) = 0 /\ Skip("head", "body")
  \/ HeadTake(Off, Len) > 0 /\ ReadBounce("head", "headRead", HeadFad(Off))
  \/ CopyBounce("headCopy", "body", Dest, 0, HeadTake(Off, Len))

Head ==
  \/ HeadTake(Off, Len) = 0 /\ Skip("head", "body")
  \/ HeadTake(Off, Len) > 0 /\ ReadBounce("head", "headRead", HeadFad(Off))
  \/ CopyBounce("headCopy", "body", Dest, HeadSkip(Off), HeadTake(Off, Len))

(* Slots of the body some bytes of which lie in dirty lines.               *)
SlotLines(i)  == SectorLines(BodyDest + i * SectorSize, 1)
DirtySlots(n) == {i \in Slots : i < n /\ SlotLines(i) \cap lines # {}}

(* gd_or_die_dma when the body is line aligned, gd_or_die otherwise; the   *)
(* DMA driver invalidates the body's lines first.                          *)
ReadBody ==
  LET n == BodySectors(Off, Len) IN
  /\ pc = "body" /\ n > 0 /\ pc' = "bodyRead"
  /\ call' = [fad |-> CartFad + BodyFad(Off), n |-> n,
              dma |-> Aligned, dirty |-> DirtySlots(n)]
  /\ Request
  /\ lines' = IF Aligned THEN lines \ SectorLines(BodyDest, n) ELSE lines
  /\ UNCHANGED <<gdst, req, mem, pb_left, bar, streamed, screen>>

Body == ReadBody \/ (BodySectors(Off, Len) = 0 /\ Skip("body", "tail"))

(* Variant: the tail sector is read even when there is no tail.            *)
Tail_Unconditional ==
  \/ ReadBounce("tail", "tailRead", TailFad(Off, Len))
  \/ CopyBounce("tailCopy", "done", TailDest, 0, TailTake(Off, Len))

Tail ==
  \/ TailTake(Off, Len) = 0 /\ Skip("tail", "done")
  \/ TailTake(Off, Len) > 0 /\ ReadBounce("tail", "tailRead", TailFad(Off, Len))
  \/ CopyBounce("tailCopy", "done", TailDest, 0, TailTake(Off, Len))

-----------------------------------------------------------------------------
(* The driver at work on a read: a sector arrives, it returns, or it dies. *)

SectorByte(v, k) == IF v = Raw THEN Raw ELSE (v - CartFad) * SectorSize + k

(* A body sector is stored straight to its place in RAM.                   *)
StoreSector(i, v) ==
  LET a == BodyDest + i * SectorSize IN
  mem' = [b \in Ram |-> IF b \in a .. a + SectorSize - 1
                          THEN SectorByte(v, b - a) ELSE mem[b]]

SectorArrives ==
  /\ \E i \in Requested(call), v \in {0, 1} :
       /\ dst' = [dst EXCEPT ![i] = IF v = 0 THEN Wanted(call, i) ELSE Raw]
       /\ undone' = undone \ {i}
       /\ IF pc = "bodyRead" THEN StoreSector(i, dst'[i]) ELSE mem' = mem
  /\ Transfer
  /\ UNCHANGED <<pc, gdst, req, lines, pb_left, bar, streamed, screen>>

(* Variant: a tail is forgotten after a body.                              *)
AfterRead_NoTail == [headRead |-> "headCopy", bodyRead |-> "done", tailRead |-> "tailCopy"]

AfterRead == [headRead |-> "headCopy", bodyRead |-> "tail", tailRead |-> "tailCopy"]

ReadReturns ==
  /\ Return
  /\ pc' = AfterRead[pc]
  /\ UNCHANGED <<gdst, req, mem, lines, pb_left, bar, streamed, screen>>

(* Variant: a failed read is tried again instead of ending on screen.      *)
ReadDies_Retries ==
  /\ status = "reading" /\ status' = "idle"
  /\ pc' = "service"
  /\ UNCHANGED <<call, dst, undone, gdst, req, mem, lines, pb_left, bar, streamed, screen>>

ReadDies ==
  /\ Die
  /\ pc' = "dead"
  /\ UNCHANGED <<gdst, req, mem, lines, pb_left, bar, streamed, screen>>

-----------------------------------------------------------------------------
(* Variant: the bar is painted after every transfer.                       *)
Done_AlwaysPaints ==
  /\ pc = "done" /\ pc' = "run"
  /\ gdst' = 0
  /\ pb_left' = IF Len >= pb_left THEN 0 ELSE pb_left - Len
  /\ bar' = (PbTotal - pb_left') \div PbPixel /\ screen' = "bar"
  /\ streamed' = IF streamed + Len < Preload THEN streamed + Len ELSE Preload
  /\ UNCHANGED <<vars, req, mem, lines>>

(* Back in shim_cart_service: SB_GDST reads done; the load bar advances    *)
(* and is painted until the countdown is over, then never again.           *)
Done ==
  /\ pc = "done" /\ pc' = "run"
  /\ gdst' = 0
  /\ IF pb_left > 0
       THEN /\ pb_left' = IF Len >= pb_left THEN 0 ELSE pb_left - Len
            /\ bar' = (PbTotal - pb_left') \div PbPixel /\ screen' = "bar"
       ELSE UNCHANGED <<pb_left, bar, screen>>
  /\ streamed' = IF streamed + Len < Preload THEN streamed + Len ELSE Preload
  /\ UNCHANGED <<vars, req, mem, lines>>

(* The game has its boot preload and presents its title; it goes on to     *)
(* stream at every stage boundary.                                         *)
Present ==
  /\ pc = "run" /\ streamed = Preload
  /\ screen' = "title"
  /\ UNCHANGED <<vars, pc, gdst, req, mem, lines, pb_left, bar, streamed>>

(* The cache writes a dirty line back.                                     *)
Evict ==
  /\ \E l \in lines :
       /\ lines' = lines \ {l}
       /\ mem' = [b \in Ram |-> IF Line(b) = l THEN Old ELSE mem[b]]
       /\ undone' = IF pc = "bodyRead"
                      THEN undone \cup {i \in call.dirty : l \in SlotLines(i)}
                      ELSE undone
  /\ UNCHANGED <<pc, gdst, req, pb_left, bar, streamed, screen, status, call, dst>>

CartRead == Service \/ Head \/ Body \/ Tail \/ Done

CartNext == Arm \/ Present \/ CartRead \/ SectorArrives \/ ReadReturns \/ ReadDies \/ Evict

CartSpec == CartInit /\ [][CartNext]_cartVars

(* The service runs to its end; the driver ends every read (GdDriver's     *)
(* ReadEnds).                                                              *)
CartFairSpec ==
  CartSpec /\ WF_cartVars(CartRead) /\ WF_cartVars(ReadReturns \/ ReadDies)

-----------------------------------------------------------------------------
(* What is checked.                                                        *)

PCs == {"run", "service", "head", "headRead", "headCopy", "body", "bodyRead",
        "tail", "tailRead", "tailCopy", "done", "dead"}

TypeOK ==
  /\ pc \in PCs /\ gdst \in {0, 1} /\ req \in Requests
  /\ mem \in [Ram -> Int] /\ lines \subseteq Int
  /\ pb_left \in 0 .. PbTotal /\ bar \in Nat
  /\ streamed \in 0 .. Preload /\ screen \in {"bar", "title"}
  /\ status \in {"idle", "reading", "ok", "dead"}
  /\ call \in Calls /\ dst \in [Slots -> Int] /\ undone \subseteq Slots

Serving == pc \notin {"run", "service", "dead"}

Target == Dest .. Dest + Len - 1

(* A transfer the service goes on to serve lies inside the cartridge and   *)
(* inside game RAM below the shim, computed without wrap-around            *)
(* (cart.c:147-152).                                                       *)
ServedInBounds ==
  Serving => /\ Len \in 1 .. MaxLen
             /\ Off + Len <= CartSize
             /\ Dest >= RamBase
             /\ Dest + Len <= ShimBase

(* No byte outside the armed range changes: not the game's, not the shim's *)
(* (cart.c:99-130, 147-150).                                               *)
OutsideUntouched == \A a \in Ram \ Target : mem[a] = Old

(* The drive is asked only for sectors that hold a byte of the range, so   *)
(* for none beyond the cartridge image (cart.c:12-26, 75-83).              *)
ReadsWhatIsAsked ==
  status = "reading" =>
    \A i \in Requested(call) :
      LET first == (call.fad + i - CartFad) * SectorSize IN
      first < Off + Len /\ first + SectorSize > Off

(* Only lines wholly inside the destination are thrown away: OCBI never    *)
(* discards data the game holds dirty next to it (cart.c:113-119,          *)
(* gd.c:174-184).                                                          *)
NoCollateralLoss ==
  [][status # "reading" /\ status' = "reading" =>
       \A l \in lines \ lines' : l * LineSize .. l * LineSize + LineSize - 1 \subseteq Target]_cartVars

(* A sector is a whole number of lines, 2048 bytes and 32.                 *)
WholeLines == SectorSize % LineSize = 0

(* The load bar is full before the title presents, and no later stream     *)
(* paints it over the game (cart.c:64-69, 192-195).                        *)
BarBeforeTitle ==
  [][/\ screen' = "title" => bar' = PbTotal \div PbPixel
     /\ screen = "title" => screen' = "title"]_cartVars

(* Every transfer the game waits for ends: served, or a death screen       *)
(* (cart.c:138-178).                                                       *)
ServiceEnds == pc = "service" ~> pc \in {"run", "dead"}

(* The service is the cartridge DMA the game was written for.              *)
Legal == /\ Len \in 1 .. MaxLen /\ Off + Len <= CartSize
         /\ Dest >= RamBase /\ Dest + Len <= ShimBase

transfer == [off |-> Off, len |-> Len, dest |-> Dest, legal |-> Legal,
             exposed |-> {a \in Ram : Line(a) \in req.dirty}]

Board == INSTANCE CartDma WITH
  halted <- pc = "dead",
  Transfers <- [off : Nat, len : Nat, dest : Nat, legal : BOOLEAN, exposed : SUBSET Ram]
ImplementsCartDma == Board!Spec

(* cart.c:89-98: the bytes land "in RAM with nothing stale left in the     *)
(* D-cache".                                                               *)
NothingStaleInDcache ==
  pc = "done" => \A a \in Target : Line(a) \notin lines

(* What is true of it: a stale line can only hide bytes of the head, of    *)
(* the tail or of a body off a line, which come by PIO (cart.c:99-130).    *)
StaleOnlyAfterPio ==
  pc = "done" =>
    \A a \in Target : Line(a) \in lines => ~Aligned \/ a < BodyDest \/ a >= TailDest

(* The driver has room for every request, and the image the sectors asked  *)
(* for: given these, the guard of Request never holds the service up.      *)
DriverTakes ==
  /\ CartFad .. CartFad + CartSize \div SectorSize \subseteq Fads
  /\ CartSize \div SectorSize <= MaxSectors

RequestsFit ==
  /\ pc = "head" /\ HeadTake(Off, Len) > 0 => CartFad + HeadFad(Off) \in Fads
  /\ pc = "body" /\ BodySectors(Off, Len) > 0 =>
       CartFad + BodyFad(Off) \in Fads /\ BodySectors(Off, Len) <= MaxSectors
  /\ pc = "tail" /\ TailTake(Off, Len) > 0 => CartFad + TailFad(Off, Len) \in Fads

-----------------------------------------------------------------------------
(* The inductive invariant behind these properties.                        *)

(* Only a checked transfer is served; the driver is at work exactly while  *)
(* the service waits for it.                                               *)
ControlInv ==
  /\ Serving => Accepted
  /\ gdst = IF pc = "run" THEN 0 ELSE 1
  /\ status = "reading" <=> pc \in {"headRead", "bodyRead", "tailRead"}
  /\ status = "dead" => pc = "dead"
  /\ lines \subseteq req.dirty

(* The piece being read is the one cart_split computed; a bounce buffer    *)
(* about to be copied holds its sector.                                    *)
PieceInv ==
  /\ pc \in {"headRead", "headCopy"} =>
       HeadTake(Off, Len) > 0 /\ call.n = 1 /\ call.fad = CartFad + HeadFad(Off)
  /\ pc = "bodyRead" =>
       call.n = BodySectors(Off, Len) /\ call.fad = CartFad + BodyFad(Off)
  /\ pc \in {"tailRead", "tailCopy"} =>
       TailTake(Off, Len) > 0 /\ call.n = 1 /\ call.fad = CartFad + TailFad(Off, Len)
  /\ pc \in {"headCopy", "tailCopy"} => dst[0] = call.fad

(* The first n bytes of the transfer are in RAM, except where a dirty line *)
(* may have come down on them.                                             *)
Stored(n) ==
  \A a \in Dest .. Dest + n - 1 : Line(a) \notin req.dirty => mem[a] = Off + (a - Dest)

(* So are the body sectors that have arrived.                              *)
SectorsStored ==
  \A i \in Requested(call), k \in 0 .. SectorSize - 1 :
    dst[i] = Wanted(call, i) /\ Line(BodyDest + i * SectorSize + k) \notin req.dirty =>
      mem[BodyDest + i * SectorSize + k] = Off + BodyAt(Off, Len) + i * SectorSize + k

MemInv ==
  /\ OutsideUntouched
  /\ pc \in {"body", "bodyRead"} => Stored(BodyAt(Off, Len))
  /\ pc = "bodyRead" => SectorsStored
  /\ pc \in {"tail", "tailRead", "tailCopy"} => Stored(TailAt(Off, Len))
  /\ pc = "done" => Stored(Len)

(* A body that comes by DMA has no dirty line left.                        *)
LineInv ==
  /\ pc \in {"bodyRead", "tail", "tailRead", "tailCopy", "done"}
  /\ Aligned /\ BodySectors(Off, Len) > 0
  => SectorLines(BodyDest, BodySectors(Off, Len)) \cap lines = {}

(* The countdown is over, and the bar with it, before the preload is in.   *)
BarInv ==
  /\ pb_left = IF streamed >= PbTotal THEN 0 ELSE PbTotal - streamed
  /\ bar = (PbTotal - pb_left) \div PbPixel
  /\ screen = "title" => streamed = Preload

(* What is left of a service.                                              *)
StepsLeft ==
  CASE pc = "service"  -> 10
    [] pc = "head"     -> 9
    [] pc = "headRead" -> 8
    [] pc = "headCopy" -> 7
    [] pc = "body"     -> 6
    [] pc = "bodyRead" -> 5
    [] pc = "tail"     -> 4
    [] pc = "tailRead" -> 3
    [] pc = "tailCopy" -> 2
    [] pc = "done"     -> 1
    [] OTHER           -> 0

(* Each step of the service and each end of a read is one step less; the   *)
(* sectors that arrive and the cache leave it where it is.                 *)
ServiceShrinks ==
  [][/\ CartRead \/ ReadReturns \/ ReadDies => StepsLeft' < StepsLeft
     /\ SectorArrives \/ Evict => StepsLeft' = StepsLeft]_cartVars

CartInv == TypeOK /\ ControlInv /\ PieceInv /\ MemInv /\ LineInv /\ BarInv
=============================================================================
