------------------------- MODULE CartServiceProofs --------------------------
(***************************************************************************)
(* Theorems about the cartridge stream service, for every sector, line,    *)
(* word and RAM size the assumptions allow and every sequence of register  *)
(* values: cart_split's three pieces are the range asked for, in order and *)
(* without a gap; a served transfer lies inside the cartridge and inside   *)
(* game RAM, no other byte changes, only the sectors asked for are read,   *)
(* and the service implements CartDma.  They rest on the inductive         *)
(* invariant CartInv of CartService.                                       *)
(***************************************************************************)
EXTENDS CartService, TLAPS

(* Division by the sector size.                                            *)
LEMMA Division ==
  ASSUME NEW a \in Nat
  PROVE  /\ a \div SectorSize \in Nat
         /\ a % SectorSize \in 0 .. SectorSize - 1
         /\ a = (a \div SectorSize) * SectorSize + (a % SectorSize)
  BY SectorSizeAssumption

(* The pieces are natural numbers, the partial ones shorter than a sector. *)
SplitTyped(off, len) ==
  /\ HeadSkip(off) \in 0 .. SectorSize - 1
  /\ HeadTake(off, len) \in 0 .. len
  /\ HeadTake(off, len) < SectorSize
  /\ HeadFad(off) \in Nat
  /\ BodyFad(off) \in Nat
  /\ BodySectors(off, len) \in Nat
  /\ BodySectors(off, len) * SectorSize \in Nat
  /\ BodyAt(off, len) \in Nat
  /\ TailFad(off, len) \in Nat
  /\ TailAt(off, len) \in Nat
  /\ TailTake(off, len) \in 0 .. SectorSize - 1

LEMMA SplitTypes ==
  ASSUME NEW off \in Nat, NEW len \in Nat
  PROVE  SplitTyped(off, len)
  <1>1. /\ HeadSkip(off) \in 0 .. SectorSize - 1
        /\ HeadFad(off) \in Nat
    BY Division DEF HeadSkip, HeadFad
  <1>2. BodyFad(off) \in Nat
    BY <1>1 DEF BodyFad
  <1>3. /\ HeadTake(off, len) \in 0 .. len
        /\ HeadTake(off, len) < SectorSize
    BY <1>1, SectorSizeAssumption DEF HeadTake
  <1>4. len - HeadTake(off, len) \in Nat
    BY <1>3
  <1>5. /\ BodySectors(off, len) \in Nat
        /\ TailTake(off, len) \in 0 .. SectorSize - 1
    BY <1>4, Division DEF BodySectors, TailTake
  <1>6. BodySectors(off, len) * SectorSize \in Nat
    BY <1>5, SectorSizeAssumption
  <1>. QED
    BY <1>1, <1>2, <1>3, <1>5, <1>6
    DEF SplitTyped, TailFad, TailAt, BodyAt

(* Head, body and tail add up to the length asked for, so the pieces tile  *)
(* the destination (cart.c:12-26, 107-129).                                *)
THEOREM SplitTiles ==
  ASSUME NEW off \in Nat, NEW len \in Nat
  PROVE  TailAt(off, len) + TailTake(off, len) = len
  <1>1. SplitTyped(off, len)
    BY SplitTypes
  <1>2. len - HeadTake(off, len) \in Nat
    BY <1>1 DEF SplitTyped
  <1>3. len - HeadTake(off, len)
          = BodySectors(off, len) * SectorSize + TailTake(off, len)
    BY <1>2, Division DEF BodySectors, TailTake
  <1>. QED
    BY <1>1, <1>3 DEF SplitTyped, TailAt, BodyAt

(* The head comes from the middle of its sector, body and tail from the    *)
(* start of theirs, each at the cartridge offset its destination stands    *)
(* for (cart.c:12-26).                                                     *)
SplitSourced(off, len) ==
  /\ HeadFad(off) * SectorSize + HeadSkip(off) = off
  /\ HeadSkip(off) + HeadTake(off, len) <= SectorSize
  /\ BodySectors(off, len) > 0 => BodyFad(off) * SectorSize = off + BodyAt(off, len)
  /\ TailTake(off, len) > 0 => TailFad(off, len) * SectorSize = off + TailAt(off, len)

THEOREM SplitSources ==
  ASSUME NEW off \in Nat, NEW len \in Nat
  PROVE  SplitSourced(off, len)
  <1>0. SplitTyped(off, len)
    BY SplitTypes
  <1>1. HeadFad(off) * SectorSize + HeadSkip(off) = off
    BY Division DEF HeadFad, HeadSkip
  <1>2. HeadSkip(off) + HeadTake(off, len) <= SectorSize
    BY <1>0, SectorSizeAssumption DEF HeadTake, SplitTyped
  <1>3. ASSUME len # HeadTake(off, len)
        PROVE  BodyFad(off) * SectorSize = off + BodyAt(off, len)
    <2>1. CASE HeadSkip(off) = 0
      <3>1. BodyFad(off) = HeadFad(off) /\ BodyAt(off, len) = 0
        BY <1>0, <2>1 DEF BodyFad, BodyAt, HeadTake, SplitTyped
      <3>. QED
        BY <1>0, <1>1, <2>1, <3>1, SectorSizeAssumption DEF SplitTyped
    <2>2. CASE HeadSkip(off) # 0
      <3>1. BodyAt(off, len) = SectorSize - HeadSkip(off)
        BY <1>3, <2>2 DEF HeadTake, BodyAt
      <3>2. BodyFad(off) = HeadFad(off) + 1
        BY <2>2 DEF BodyFad
      <3>3. (HeadFad(off) + 1) * SectorSize = HeadFad(off) * SectorSize + SectorSize
        BY <1>0, SectorSizeAssumption DEF SplitTyped
      <3>4. HeadFad(off) * SectorSize \in Nat
        BY <1>0, SectorSizeAssumption DEF SplitTyped
      <3>. QED
        BY <1>0, <1>1, <3>1, <3>2, <3>3, <3>4, SectorSizeAssumption DEF SplitTyped
    <2>. QED
      BY <2>1, <2>2
  <1>4. ASSUME len = HeadTake(off, len)
        PROVE  BodySectors(off, len) = 0 /\ TailTake(off, len) = 0
    <2>1. len - HeadTake(off, len) = 0
      BY <1>4
    <2>. QED
      BY <2>1, SectorSizeAssumption DEF BodySectors, TailTake
  <1>5. BodySectors(off, len) > 0 => BodyFad(off) * SectorSize = off + BodyAt(off, len)
    BY <1>3, <1>4
  <1>6. ASSUME TailTake(off, len) > 0
        PROVE  TailFad(off, len) * SectorSize = off + TailAt(off, len)
    <2>1. BodyFad(off) * SectorSize = off + BodyAt(off, len)
      BY <1>3, <1>4, <1>6
    <2>2. TailFad(off, len) * SectorSize
            = BodyFad(off) * SectorSize + BodySectors(off, len) * SectorSize
      BY <1>0, SectorSizeAssumption DEF TailFad, SplitTyped
    <2>. QED
      BY <1>0, <2>1, <2>2 DEF TailAt, SplitTyped
  <1>. QED
    BY <1>1, <1>2, <1>5, <1>6 DEF SplitSourced
-----------------------------------------------------------------------------

(* Arithmetic.                                                             *)
Divided(a, b) ==
  /\ a \div b \in Nat
  /\ b * (a \div b) <= a
  /\ a < b * (a \div b) + b

LEMMA DivMod ==
  ASSUME NEW a \in Nat, NEW b \in Nat \ {0}
  PROVE  Divided(a, b)
  BY DEF Divided

(* The registers of a request decode to numbers below their masks.         *)
LEMMA DecodeTypes ==
  ASSUME req \in Requests
  PROVE  /\ Off \in 0 .. OffLimit - 1
         /\ Len \in 0 .. Word - 1
         /\ Dest \in 0 .. PhysLimit - 1
         /\ req.dirty \subseteq Int
  <1>1. /\ req.h \in Nat /\ req.l \in Nat /\ req.star \in Nat
        /\ req.len \in 0 .. Word - 1 /\ req.dirty \subseteq Int
    BY CartServiceAssumption
  <1>2. /\ Half \in Nat \ {0} /\ OffLimit \in Nat \ {0} /\ PhysLimit \in Nat \ {0}
    BY CartServiceAssumption
  <1>3. req.h % Half \in Nat /\ req.l % Half \in Nat
    BY <1>1, <1>2
  <1>4. (req.h % Half) * Half + (req.l % Half) \in Nat
    BY <1>2, <1>3
  <1>. QED
    BY <1>1, <1>2, <1>4 DEF Off, Len, Dest

(* The range check admits no sum that wrapped.                             *)
LEMMA AcceptedInBounds ==
  ASSUME req \in Requests, Accepted
  PROVE  /\ Len \in 1 .. MaxLen
         /\ Off + Len <= CartSize
         /\ Dest >= RamBase
         /\ Dest + Len <= ShimBase
  <1>1. /\ {Word, OffLimit, PhysLimit, RegionSize, RamRegion, MaxLen} \subseteq Nat \ {0}
        /\ OffLimit + MaxLen <= Word /\ PhysLimit + MaxLen <= Word
    BY CartServiceAssumption
  <1>2. Len \in 1 .. MaxLen
    BY <1>1, DecodeTypes DEF Accepted
  <1>3. Off + Len \in 0 .. Word - 1 /\ Dest + Len \in 0 .. Word - 1
    BY <1>1, <1>2, DecodeTypes
  <1>4. (Off + Len) % Word = Off + Len /\ (Dest + Len) % Word = Dest + Len
    BY <1>1, <1>3
  <1>5. Dest >= RamRegion * RegionSize
    <2>1. Dest \in Nat /\ RegionSize \in Nat \ {0} /\ RamRegion \in Nat
      BY <1>1, DecodeTypes
    <2>2. Divided(Dest, RegionSize)
      BY <2>1, DivMod
    <2>3. RegionSize * RamRegion <= Dest
      BY <2>2 DEF Divided, Accepted
    <2>. QED
      BY <2>1, <2>3
  <1>. QED
    BY <1>2, <1>4, <1>5 DEF Accepted, RamBase

(* A sector has room in a run of n, and n sectors hold the bytes below     *)
(* n * SectorSize.                                                         *)
LEMMA SectorRoom ==
  ASSUME NEW n \in Nat, NEW i \in Nat, i < n
  PROVE  i * SectorSize \in Nat /\ i * SectorSize + SectorSize <= n * SectorSize
  <1>1. SectorSize \in Nat \ {0}
    BY SectorSizeAssumption
  <1>2. PICK d \in Nat : n = i + 1 + d
    <2>1. n - i - 1 \in Nat /\ n = i + 1 + (n - i - 1)
      OBVIOUS
    <2>. QED BY <2>1
  <1>3. n * SectorSize = i * SectorSize + SectorSize + d * SectorSize
    BY <1>1, <1>2
  <1>. QED
    BY <1>1, <1>3

Located(x, n) == \E i \in 0 .. n - 1, k \in 0 .. SectorSize - 1 : x = i * SectorSize + k

LEMMA SectorOf ==
  ASSUME NEW n \in Nat, NEW x \in Nat, x < n * SectorSize
  PROVE  Located(x, n)
  <1>1. /\ x \div SectorSize \in Nat /\ x % SectorSize \in 0 .. SectorSize - 1
        /\ x = (x \div SectorSize) * SectorSize + (x % SectorSize)
    BY Division
  <1>2. PICK i \in Nat, k \in 0 .. SectorSize - 1 : x = i * SectorSize + k
    BY <1>1
  <1>3. i < n
    <2>. SUFFICES ASSUME i >= n PROVE FALSE
      OBVIOUS
    <2>1. PICK d \in Nat : i = n + d
      <3>1. i - n \in Nat /\ i = n + (i - n)
        OBVIOUS
      <3>. QED BY <3>1
    <2>2. i * SectorSize = n * SectorSize + d * SectorSize /\ d * SectorSize \in Nat /\ n * SectorSize \in Nat
      BY <2>1, SectorSizeAssumption
    <2>. QED
      BY <1>2, <2>2, SectorSizeAssumption
  <1>. QED
    BY <1>2, <1>3 DEF Located

(* The layout of a served transfer: where its pieces come from and go to.  *)
Layout ==
  /\ Off \in Nat /\ Len \in Nat /\ Dest \in Nat
  /\ SplitTyped(Off, Len) /\ SplitSourced(Off, Len)
  /\ TailAt(Off, Len) + TailTake(Off, Len) = Len
  /\ Dest >= RamBase /\ Dest + Len <= ShimBase
  /\ Target \subseteq Ram

LEMMA ServedLayout ==
  ASSUME req \in Requests, Accepted
  PROVE  Layout
  <1>1. Off \in Nat /\ Len \in Nat /\ Dest \in Nat /\ Len >= 1
    BY DecodeTypes, AcceptedInBounds, CartServiceAssumption
  <1>2. SplitTyped(Off, Len) /\ SplitSourced(Off, Len)
    BY <1>1, SplitTypes, SplitSources
  <1>3. TailAt(Off, Len) + TailTake(Off, Len) = Len
    BY <1>1, SplitTiles
  <1>4. Dest >= RamBase /\ Dest + Len <= ShimBase
    BY AcceptedInBounds
  <1>5. RamBase \in Nat /\ ShimBase \in Nat /\ ShimBase < RamBase + RegionSize /\ RegionSize \in Nat
    BY CartServiceAssumption DEF RamBase
  <1>6. Target \subseteq Ram
    BY <1>1, <1>4, <1>5 DEF Target, Ram
  <1>. QED
    BY <1>1, <1>2, <1>3, <1>4, <1>6 DEF Layout

-----------------------------------------------------------------------------
(* Type correctness and control.                                           *)

ConstantTypes ==
  /\ SectorSize \in Nat \ {0} /\ CartFad \in Nat /\ PbTotal \in Nat \ {0}
  /\ PbPixel \in Nat \ {0} /\ MaxSectors \in Nat \ {0} /\ Fads \subseteq Nat
  /\ 0 \in Slots /\ Preload \in Nat /\ PbTotal <= Preload

LEMMA ConstantsTyped == ConstantTypes
  BY SectorSizeAssumption, CartServiceAssumption, PreloadAssumption, GdRequestAssumption
  DEF ConstantTypes, Slots

LEMMA CallTypes ==
  ASSUME call \in Calls
  PROVE  /\ call.fad \in Nat /\ call.n \in 1 .. MaxSectors
         /\ Requested(call) \subseteq Slots /\ 0 \in Requested(call)
         /\ \A i \in Requested(call) : Wanted(call, i) \in Nat
  <1>1. call.fad \in Nat /\ call.n \in 1 .. MaxSectors
    BY GdRequestAssumption DEF Calls
  <1>. QED
    BY <1>1, GdRequestAssumption DEF Requested, Slots, Wanted

LEMMA RamTypes == RamBase \in Nat /\ Ram \subseteq Int
  <1>1. RamRegion \in Nat /\ RegionSize \in Nat
    BY CartServiceAssumption
  <1>2. RamBase \in Nat
    BY <1>1 DEF RamBase
  <1>. QED
    BY <1>1, <1>2 DEF Ram

LEMMA InitInv == CartInit => CartInv
  <1>. SUFFICES ASSUME CartInit PROVE CartInv
    OBVIOUS
  <1>1. NoCall \in Calls
    BY GdRequestAssumption DEF NoCall, Calls
  <1>2. TypeOK
    <2>1. mem \in [Ram -> Int] /\ dst \in [Slots -> Int]
      BY DEF CartInit, Init, Blank, Old
    <2>. QED
      BY <1>1, <2>1, ConstantsTyped DEF CartInit, Init, TypeOK, PCs, ConstantTypes
  <1>3. ControlInv
    BY DEF CartInit, Init, ControlInv, Serving
  <1>4. PieceInv
    BY DEF CartInit, PieceInv
  <1>5. MemInv
    BY DEF CartInit, MemInv, OutsideUntouched
  <1>6. LineInv
    BY DEF CartInit, LineInv
  <1>7. BarInv
    BY ConstantsTyped DEF CartInit, BarInv, ConstantTypes
  <1>. QED
    BY <1>2, <1>3, <1>4, <1>5, <1>6, <1>7 DEF CartInv

LEMMA NextTypes == CartInv /\ [CartNext]_cartVars => TypeOK'
  <1>. SUFFICES ASSUME TypeOK, ControlInv, PieceInv, [CartNext]_cartVars PROVE TypeOK'
    BY DEF CartInv
  <1>. USE ConstantsTyped DEF ConstantTypes
  <1>0. Off \in Nat /\ Len \in Nat /\ Dest \in Nat /\ req.dirty \subseteq Int
    BY DecodeTypes, CartServiceAssumption DEF TypeOK
  <1>s. SplitTyped(Off, Len)
    BY <1>0, SplitTypes
  <1>r. RamBase \in Nat /\ Ram \subseteq Int
    BY RamTypes
  <1>1. CASE Arm
    <2>1. gdst' \in {0, 1} /\ req' \in Requests /\ pc' \in PCs
      BY <1>1 DEF Arm, PCs
    <2>2. mem' \in [Ram -> Int]
      BY <1>1 DEF Arm, Old
    <2>3. lines' \subseteq Int
      BY <1>1, <2>1, CartServiceAssumption DEF Arm
    <2>4. /\ status' \in {"idle", "ok", "reading", "dead"} /\ call' \in Calls
          /\ dst' \in [Slots -> Int] /\ undone' \subseteq Slots
      <3>1. CASE status = "ok"
        <4>1. NoCall \in Calls /\ Blank \in [Slots -> Int]
          BY GdRequestAssumption DEF NoCall, Calls, Blank, Old
        <4>. QED
          BY <1>1, <3>1, <4>1 DEF Arm, Release
      <3>2. CASE status # "ok"
        BY <1>1, <3>2 DEF Arm, vars, TypeOK
      <3>. QED BY <3>1, <3>2
    <2>. QED BY <1>1, <2>1, <2>2, <2>3, <2>4 DEF Arm, TypeOK
  <1>2. CASE Service
    BY <1>2 DEF Service, TypeOK, PCs, vars
  <1>3. ASSUME NEW from, NEW to \in PCs, Skip(from, to) PROVE TypeOK'
    BY <1>3 DEF Skip, TypeOK, vars
  <1>4. ASSUME NEW from, NEW to \in PCs, NEW rel, ReadBounce(from, to, rel) PROVE TypeOK'
    <2>1. Blank \in [Slots -> Int]
      BY DEF Blank, Old
    <2>. QED
      BY <1>4, <2>1 DEF ReadBounce, Request, TypeOK
  <1>5. ASSUME NEW from, NEW to \in PCs, NEW a \in Nat, NEW skip \in Nat, NEW take,
               CopyBounce(from, to, a, skip, take)
        PROVE  TypeOK'
    <2>1. \A b \in Ram : BounceByte(skip + b - a) \in Int
      <3>1. ASSUME NEW b \in Ram PROVE BounceByte(skip + b - a) \in Int
        <4>1. skip + b - a \in Int
          BY <1>r
        <4>2. dst[0] \in Int
          BY DEF TypeOK
        <4>. QED
          BY <4>1, <4>2 DEF BounceByte
      <3>. QED
        BY <3>1
    <2>2. mem' \in [Ram -> Int]
      BY <1>5, <2>1 DEF CopyBounce, TypeOK
    <2>. QED
      BY <1>5, <2>2 DEF CopyBounce, TypeOK, vars
  <1>6. CASE ReadBody
    <2>1. Blank \in [Slots -> Int]
      BY DEF Blank, Old
    <2>2. pc' \in PCs /\ status' = "reading" /\ call' \in Calls /\ dst' = Blank /\ undone' = {}
      BY <1>6 DEF ReadBody, Request, PCs
    <2>3. lines' \subseteq Int
      BY <1>6 DEF ReadBody, TypeOK
    <2>. QED
      BY <1>6, <2>1, <2>2, <2>3 DEF ReadBody, TypeOK
  <1>7. CASE SectorArrives
    <2>1. PICK i \in Requested(call), v \in {0, 1} :
            /\ dst' = [dst EXCEPT ![i] = IF v = 0 THEN Wanted(call, i) ELSE Raw]
            /\ undone' = undone \ {i}
            /\ IF pc = "bodyRead" THEN StoreSector(i, dst'[i]) ELSE mem' = mem
      BY <1>7 DEF SectorArrives
    <2>2. i \in Slots /\ Wanted(call, i) \in Int /\ Raw \in Int
      BY CallTypes DEF TypeOK, Raw
    <2>3. dst' \in [Slots -> Int] /\ undone' \subseteq Slots
      BY <2>1, <2>2 DEF TypeOK
    <2>4. \A b \in Ram : SectorByte(dst'[i], b - (BodyDest + i * SectorSize)) \in Int
      <3>1. BodyDest \in Int /\ i * SectorSize \in Int /\ dst'[i] \in Int
        <4>1. BodyDest \in Int
          BY <1>0, <1>s DEF BodyDest, SplitTyped
        <4>2. i * SectorSize \in Int
          BY <2>2 DEF Slots
        <4>. QED BY <2>2, <2>3, <4>1, <4>2
      <3>. QED
        BY <3>1, CartServiceAssumption DEF SectorByte, Raw, Ram, RamBase
    <2>5. mem' \in [Ram -> Int]
      BY <2>1, <2>4 DEF StoreSector, TypeOK
    <2>. QED
      BY <1>7, <2>3, <2>5 DEF SectorArrives, Transfer, TypeOK
  <1>8. CASE ReadReturns
    BY <1>8 DEF ReadReturns, Return, AfterRead, ControlInv, TypeOK, PCs
  <1>9. CASE ReadDies
    BY <1>9 DEF ReadDies, Die, TypeOK, PCs
  <1>10. CASE Done
    <2>1. pb_left' \in 0 .. PbTotal
      BY <1>0, <1>10 DEF Done, TypeOK
    <2>2. bar' \in Nat
      <3>1. ASSUME NEW x \in 0 .. PbTotal PROVE (PbTotal - x) \div PbPixel \in Nat
        OBVIOUS
      <3>. QED
        BY <1>10, <2>1, <3>1 DEF Done, TypeOK
    <2>3. streamed' \in 0 .. Preload /\ screen' \in {"bar", "title"}
      BY <1>0, <1>10 DEF Done, TypeOK
    <2>. QED
      BY <1>10, <2>1, <2>2, <2>3 DEF Done, TypeOK, PCs, vars
  <1>11. CASE Evict
    <2>1. PICK l \in lines :
            /\ lines' = lines \ {l}
            /\ mem' = [b \in Ram |-> IF Line(b) = l THEN Old ELSE mem[b]]
            /\ undone' = IF pc = "bodyRead"
                           THEN undone \cup {i \in call.dirty : l \in SlotLines(i)}
                           ELSE undone
      BY <1>11 DEF Evict
    <2>2. mem' \in [Ram -> Int]
      BY <2>1 DEF TypeOK, Old
    <2>3. undone' \subseteq Slots
      BY <2>1 DEF TypeOK, Calls
    <2>. QED
      BY <1>11, <2>1, <2>2, <2>3 DEF Evict, TypeOK
  <1>12. CASE UNCHANGED cartVars
    BY <1>12 DEF cartVars, svcVars, vars, TypeOK
  <1>13. {"body", "headRead", "tail", "done", "tailRead"} \subseteq PCs
    BY DEF PCs
  <1>14. CASE Head
    <2>1. Dest \in Nat /\ HeadSkip(Off) \in Nat
      BY <1>0, <1>s DEF SplitTyped
    <2>. QED
      BY <1>3, <1>4, <1>5, <1>13, <1>14, <2>1 DEF Head
  <1>15. CASE Body
    BY <1>3, <1>6, <1>13, <1>15 DEF Body
  <1>16. CASE Tail
    <2>1. TailDest \in Nat
      BY <1>0, <1>s DEF TailDest, SplitTyped
    <2>. QED
      BY <1>3, <1>4, <1>5, <1>13, <1>16, <2>1 DEF Tail
  <1>17. CASE Present
    BY <1>17 DEF Present, TypeOK, vars
  <1>. QED
    BY <1>1, <1>2, <1>7, <1>8, <1>9, <1>10, <1>11, <1>12, <1>14, <1>15, <1>16, <1>17
    DEF CartNext, CartRead

(* What depends on the registers alone stays while they do.                *)
LEMMA SameRequest ==
  ASSUME req' = req
  PROVE  /\ Off' = Off /\ Len' = Len /\ Dest' = Dest
         /\ BodyDest' = BodyDest /\ TailDest' = TailDest /\ Target' = Target
         /\ Accepted' = Accepted
  <1>1. Off' = Off /\ Len' = Len /\ Dest' = Dest
    BY DEF Off, Len, Dest
  <1>. QED
    BY <1>1 DEF BodyDest, TailDest, Target, Accepted

(* The steps of cart_read never touch the registers.                       *)
LEMMA NextControl == CartInv /\ [CartNext]_cartVars => ControlInv'
  <1>. SUFFICES ASSUME ControlInv, [CartNext]_cartVars PROVE ControlInv'
    BY DEF CartInv
  <1>. USE DEF ControlInv, Serving
  <1>1. CASE Arm
    BY <1>1 DEF Arm, Release, vars
  <1>2. CASE Service
    BY <1>2, SameRequest DEF Service, vars
  <1>3. CASE Head
    BY <1>3, SameRequest DEF Head, Skip, ReadBounce, CopyBounce, Request, vars
  <1>4. CASE Body
    BY <1>4, SameRequest DEF Body, ReadBody, Skip, Request, vars
  <1>5. CASE Tail
    BY <1>5, SameRequest DEF Tail, Skip, ReadBounce, CopyBounce, Request, vars
  <1>6. CASE Done
    BY <1>6 DEF Done, vars
  <1>7. CASE SectorArrives
    BY <1>7, SameRequest DEF SectorArrives, Transfer
  <1>8. CASE ReadReturns
    BY <1>8, SameRequest DEF ReadReturns, Return, AfterRead
  <1>9. CASE ReadDies
    BY <1>9 DEF ReadDies, Die
  <1>10. CASE Evict
    BY <1>10, SameRequest DEF Evict
  <1>11. CASE UNCHANGED cartVars
    BY <1>11, SameRequest DEF cartVars, svcVars, vars
  <1>12. CASE Present
    BY <1>12, SameRequest DEF Present, vars
  <1>. QED
    BY <1>1, <1>2, <1>3, <1>4, <1>5, <1>6, <1>7, <1>8, <1>9, <1>10, <1>11, <1>12
    DEF CartNext, CartRead

LEMMA NextPiece == CartInv /\ [CartNext]_cartVars => PieceInv'
  <1>. SUFFICES ASSUME TypeOK, ControlInv, PieceInv, [CartNext]_cartVars PROVE PieceInv'
    BY DEF CartInv
  <1>. USE DEF PieceInv
  <1>1. CASE Arm
    BY <1>1 DEF Arm
  <1>2. CASE Service
    BY <1>2 DEF Service
  <1>3. CASE Head
    BY <1>3, SameRequest DEF Head, Skip, ReadBounce, CopyBounce
  <1>4. CASE Body
    BY <1>4, SameRequest DEF Body, ReadBody, Skip
  <1>5. CASE Tail
    BY <1>5, SameRequest DEF Tail, Skip, ReadBounce, CopyBounce
  <1>6. CASE Done
    BY <1>6 DEF Done
  <1>7. CASE SectorArrives
    <2>1. UNCHANGED <<pc, call, req>> /\ status = "reading"
      BY <1>7 DEF SectorArrives, Transfer
    <2>2. pc \notin {"headCopy", "tailCopy"}
      BY <2>1 DEF ControlInv
    <2>. QED
      BY <2>1, <2>2, SameRequest
  <1>8. CASE ReadReturns
    <2>1. dst[0] = call.fad
      <3>1. dst[0] = Wanted(call, 0)
        BY <1>8, CallTypes DEF ReadReturns, Return, Complete, TypeOK
      <3>. QED
        BY <3>1, CallTypes DEF Wanted, TypeOK
    <2>2. UNCHANGED <<call, dst, req>> /\ pc' = AfterRead[pc] /\ status = "reading"
      BY <1>8 DEF ReadReturns, Return
    <2>. QED
      BY <2>1, <2>2, SameRequest DEF AfterRead, ControlInv
  <1>9. CASE ReadDies
    BY <1>9 DEF ReadDies
  <1>10. CASE Evict
    BY <1>10, SameRequest DEF Evict
  <1>11. CASE UNCHANGED cartVars
    BY <1>11, SameRequest DEF cartVars, svcVars, vars
  <1>12. CASE Present
    BY <1>12, SameRequest DEF Present, vars
  <1>. QED
    BY <1>1, <1>2, <1>3, <1>4, <1>5, <1>6, <1>7, <1>8, <1>9, <1>10, <1>11, <1>12
    DEF CartNext, CartRead

(* Only ReadBody starts a DMA, and it cleans the lines of the body; no     *)
(* step of the service dirties one.                                        *)
LEMMA NextLines == CartInv /\ [CartNext]_cartVars => LineInv'
  <1>. SUFFICES ASSUME LineInv, ControlInv, [CartNext]_cartVars PROVE LineInv'
    BY DEF CartInv
  <1>. DEFINE Ended == {"bodyRead", "tail", "tailRead", "tailCopy", "done"}
  <1>1. ASSUME req' = req, lines' \subseteq lines,
               pc' \in Ended => pc \in Ended \/ BodySectors(Off, Len) = 0
        PROVE  LineInv'
    <2>1. Aligned' = Aligned /\ BodySectors(Off, Len)' = BodySectors(Off, Len)
          /\ SectorLines(BodyDest, BodySectors(Off, Len))' = SectorLines(BodyDest, BodySectors(Off, Len))
      BY <1>1, SameRequest DEF Aligned, SectorLines, Line
    <2>2. BodySectors(Off, Len) > 0 => BodySectors(Off, Len) # 0
      OBVIOUS
    <2>. QED
      BY <1>1, <2>1, <2>2 DEF LineInv
  <1>2. CASE Arm \/ ReadDies
    BY <1>2 DEF Arm, ReadDies, LineInv
  <1>3. CASE Service \/ Head
    BY <1>1, <1>3 DEF Service, Head, Skip, ReadBounce, CopyBounce
  <1>4. CASE Body
    <2>1. CASE ReadBody
      <3>1. req' = req /\ (Aligned => lines' = lines \ SectorLines(BodyDest, BodySectors(Off, Len)))
        BY <2>1 DEF ReadBody
      <3>2. Aligned' = Aligned /\ BodySectors(Off, Len)' = BodySectors(Off, Len)
            /\ SectorLines(BodyDest, BodySectors(Off, Len))' = SectorLines(BodyDest, BodySectors(Off, Len))
        BY <3>1, SameRequest DEF Aligned, SectorLines, Line
      <3>. QED
        BY <3>1, <3>2 DEF LineInv
    <2>. QED
      BY <1>1, <1>4, <2>1 DEF Body, Skip
  <1>5. CASE Tail \/ Done
    BY <1>1, <1>5 DEF Tail, Done, Skip, ReadBounce, CopyBounce
  <1>6. CASE SectorArrives \/ Evict
    BY <1>1, <1>6 DEF SectorArrives, Evict
  <1>7. CASE ReadReturns
    BY <1>1, <1>7 DEF ReadReturns, Return, AfterRead, ControlInv
  <1>8. CASE UNCHANGED cartVars
    BY <1>1, <1>8 DEF cartVars, svcVars
  <1>9. CASE Present
    BY <1>1, <1>9 DEF Present
  <1>. QED
    BY <1>2, <1>3, <1>4, <1>5, <1>6, <1>7, <1>8, <1>9 DEF CartNext, CartRead

(* Only a service that ends moves the countdown; a full bar stays full.    *)
LEMMA NextBar == CartInv /\ [CartNext]_cartVars => BarInv'
  <1>. SUFFICES ASSUME TypeOK, BarInv, [CartNext]_cartVars PROVE BarInv'
    BY DEF CartInv
  <1>. USE ConstantsTyped DEF ConstantTypes
  <1>1. CASE UNCHANGED <<pb_left, bar, streamed, screen>>
    BY <1>1 DEF BarInv
  <1>2. CASE Present
    BY <1>2 DEF Present, BarInv
  <1>3. CASE Done
    <2>1. Len \in Nat
      BY DecodeTypes, CartServiceAssumption DEF TypeOK
    <2>2. pb_left' = IF streamed' >= PbTotal THEN 0 ELSE PbTotal - streamed'
      BY <1>3, <2>1 DEF Done, BarInv, TypeOK
    <2>3. bar' = (PbTotal - pb_left') \div PbPixel
      BY <1>3 DEF Done, BarInv
    <2>4. screen' = "title" => streamed' = Preload
      <3>1. screen' = "title" => screen = "title"
        BY <1>3 DEF Done
      <3>2. streamed = Preload => streamed' = Preload
        BY <1>3, <2>1 DEF Done
      <3>. QED
        BY <3>1, <3>2 DEF BarInv
    <2>. QED
      BY <2>2, <2>3, <2>4 DEF BarInv
  <1>. QED
    BY <1>1, <1>2, <1>3
    DEF CartNext, CartRead, Arm, Service, Head, Body, Tail, SectorArrives, ReadReturns,
        ReadDies, Evict, Skip, ReadBounce, CopyBounce, ReadBody, cartVars, svcVars

-----------------------------------------------------------------------------
(* Data: which bytes of RAM hold what.                                     *)

(* Sector f is in the bounce buffer; take bytes of it, after skip others,  *)
(* are the bytes p, p + 1, ... of the transfer.                            *)
CopyReady(p, f, skip, take) ==
  /\ p \in Nat /\ f \in Nat /\ skip \in Nat /\ take \in Nat
  /\ dst[0] = CartFad + f
  /\ f * SectorSize + skip = Off + p
  /\ p + take <= Len

Moved(p, take) ==
  \A b \in Ram : mem'[b] = IF b \in Dest + p .. Dest + p + take - 1
                            THEN Off + (b - Dest) ELSE mem[b]

(* A copy out of the bounce buffer extends the stored prefix.              *)
LEMMA CopyStores ==
  ASSUME TypeOK, Layout, OutsideUntouched, NEW p, NEW f, NEW skip, NEW take, NEW from, NEW to,
         Stored(p), CopyReady(p, f, skip, take),
         CopyBounce(from, to, Dest + p, skip, take)
  PROVE  OutsideUntouched' /\ Stored(p + take)' /\ Moved(p, take)
  <1>. USE DEF CopyReady
  <1>1. req' = req
    BY DEF CopyBounce
  <1>2. Off \in Nat /\ Len \in Nat /\ Dest \in Nat /\ Target \subseteq Ram
    BY DEF Layout
  <1>3. \A b \in Ram : mem'[b] = IF b \in Dest + p .. Dest + p + take - 1
                                  THEN Off + (b - Dest) ELSE mem[b]
    <2>. SUFFICES ASSUME NEW b \in Ram, b \in Dest + p .. Dest + p + take - 1
                  PROVE  BounceByte(skip + b - (Dest + p)) = Off + (b - Dest)
      BY DEF CopyBounce
    <2>1. dst[0] \notin {Old, Raw} /\ dst[0] - CartFad = f
      BY ConstantsTyped DEF ConstantTypes, Old, Raw
    <2>2. f * SectorSize \in Nat
      BY ConstantsTyped DEF ConstantTypes
    <2>3. BounceByte(skip + b - (Dest + p)) = f * SectorSize + (skip + b - (Dest + p))
      BY <2>1 DEF BounceByte
    <2>. QED
      BY <1>2, <2>2, <2>3, RamTypes
  <1>4. Dest + p .. Dest + p + take - 1 \subseteq Target
    BY <1>2 DEF Target
  <1>5. \A b \in Ram \ Target : mem'[b] = Old
    BY <1>3, <1>4 DEF OutsideUntouched
  <1>6. \A a \in Dest .. Dest + (p + take) - 1 :
          Line(a) \notin req.dirty => mem'[a] = Off + (a - Dest)
    <2>. SUFFICES ASSUME NEW a \in Dest .. Dest + (p + take) - 1, Line(a) \notin req.dirty
                  PROVE  mem'[a] = Off + (a - Dest)
      OBVIOUS
    <2>1. a \in Ram
      BY <1>2 DEF Target
    <2>2. CASE a \in Dest + p .. Dest + p + take - 1
      BY <1>3, <2>1, <2>2
    <2>3. CASE a \notin Dest + p .. Dest + p + take - 1
      <3>1. a \in Dest .. Dest + p - 1
        BY <1>2, <2>3
      <3>. QED
        BY <1>3, <2>1, <2>3, <3>1 DEF Stored
    <2>. QED
      BY <2>2, <2>3
  <1>7. OutsideUntouched'
    BY <1>1, <1>5, SameRequest DEF OutsideUntouched
  <1>8. Stored(p + take)'
    BY <1>1, <1>6, SameRequest DEF Stored, Line
  <1>. QED
    BY <1>3, <1>7, <1>8 DEF Moved

(* The head and the tail of a served transfer, when they are copied.       *)
LEMMA HeadStores ==
  ASSUME CartInv, Layout, CopyBounce("headCopy", "body", Dest, HeadSkip(Off), HeadTake(Off, Len))
  PROVE  OutsideUntouched' /\ Stored(BodyAt(Off, Len))' /\ Moved(0, HeadTake(Off, Len))
  <1>1. /\ HeadFad(Off) \in Nat /\ HeadSkip(Off) \in Nat
        /\ HeadTake(Off, Len) \in Nat /\ HeadTake(Off, Len) <= Len
    BY DEF Layout, SplitTyped
  <1>2. PICK f \in Nat, skip \in Nat, take \in Nat :
          f = HeadFad(Off) /\ skip = HeadSkip(Off) /\ take = HeadTake(Off, Len)
    BY <1>1
  <1>3. CopyReady(0, f, skip, take)
    <2>1. dst[0] = CartFad + f
      BY <1>2 DEF CopyBounce, CartInv, PieceInv
    <2>2. f * SectorSize + skip = Off + 0
      BY <1>2 DEF Layout, SplitSourced
    <2>. QED
      BY <1>1, <1>2, <2>1, <2>2 DEF CopyReady
  <1>4. Stored(0) /\ OutsideUntouched /\ TypeOK
    BY DEF Stored, CartInv, MemInv, Layout
  <1>5. CopyBounce("headCopy", "body", Dest + 0, skip, take)
    BY <1>2 DEF Layout
  <1>6. OutsideUntouched' /\ Stored(0 + take)' /\ Moved(0, take)
    BY <1>3, <1>4, <1>5, CopyStores
  <1>7. BodyAt(Off, Len)' = 0 + take
    BY <1>2, SameRequest DEF BodyAt, CopyBounce
  <1>. QED
    BY <1>2, <1>6, <1>7 DEF Stored

LEMMA TailStores ==
  ASSUME CartInv, Layout, CopyBounce("tailCopy", "done", TailDest, 0, TailTake(Off, Len))
  PROVE  OutsideUntouched' /\ Stored(Len)' /\ Moved(TailAt(Off, Len), TailTake(Off, Len))
  <1>1. /\ TailFad(Off, Len) \in Nat /\ TailAt(Off, Len) \in Nat /\ TailTake(Off, Len) \in Nat
        /\ TailAt(Off, Len) + TailTake(Off, Len) = Len /\ Len \in Nat /\ TailTake(Off, Len) > 0
    BY DEF Layout, SplitTyped, CopyBounce, CartInv, PieceInv
  <1>2. PICK f \in Nat, p \in Nat, take \in Nat :
          f = TailFad(Off, Len) /\ p = TailAt(Off, Len) /\ take = TailTake(Off, Len)
    BY <1>1
  <1>3. CopyReady(p, f, 0, take)
    <2>1. dst[0] = CartFad + f
      BY <1>2 DEF CopyBounce, CartInv, PieceInv
    <2>2. f * SectorSize = Off + p
      BY <1>1, <1>2 DEF Layout, SplitSourced
    <2>3. f * SectorSize + 0 = Off + p
      BY <1>2, <2>2 DEF Layout
    <2>. QED
      BY <1>1, <1>2, <2>1, <2>3 DEF CopyReady
  <1>4. Stored(p) /\ OutsideUntouched /\ TypeOK
    BY <1>2 DEF CopyBounce, CartInv, MemInv
  <1>5. CopyBounce("tailCopy", "done", Dest + p, 0, take)
    BY <1>2 DEF TailDest
  <1>6. OutsideUntouched' /\ Stored(p + take)' /\ Moved(p, take)
    BY <1>3, <1>4, <1>5, CopyStores
  <1>7. Len' = p + take
    BY <1>1, <1>2, SameRequest DEF CopyBounce
  <1>. QED
    BY <1>2, <1>6, <1>7 DEF Stored

(* A body sector that arrives lands on its own bytes.                      *)
InPlace(b) == mem'[b] = mem[b] \/ (b \in Target /\ mem'[b] \in {Off + (b - Dest), Raw})

LEMMA BodyPlace ==
  ASSUME CartInv, Layout, pc = "bodyRead"
  PROVE  /\ call.n = BodySectors(Off, Len) /\ call.n \in Nat \ {0}
         /\ call.fad = CartFad + BodyFad(Off) /\ BodyFad(Off) \in Nat
         /\ BodyAt(Off, Len) \in Nat /\ BodyDest = Dest + BodyAt(Off, Len)
         /\ TailAt(Off, Len) = BodyAt(Off, Len) + call.n * SectorSize
         /\ TailAt(Off, Len) <= Len
         /\ BodyFad(Off) * SectorSize = Off + BodyAt(Off, Len)
         /\ Requested(call) \subseteq Nat /\ \A i \in Requested(call) : i < call.n
  <1>1. /\ call.n = BodySectors(Off, Len) /\ call.fad = CartFad + BodyFad(Off)
        /\ call.n \in Nat \ {0}
    BY CallTypes, GdRequestAssumption DEF CartInv, PieceInv, TypeOK
  <1>2. BodyFad(Off) * SectorSize = Off + BodyAt(Off, Len)
    BY <1>1 DEF Layout, SplitSourced
  <1>3. TailAt(Off, Len) \in Nat /\ TailTake(Off, Len) \in Nat /\ TailAt(Off, Len) <= Len
    BY ConstantsTyped DEF Layout, SplitTyped, ConstantTypes
  <1>. QED
    BY <1>1, <1>2, <1>3 DEF Layout, SplitTyped, BodyDest, TailAt, Requested

LEMMA SectorStores ==
  ASSUME CartInv, Layout, pc = "bodyRead", NEW i \in Requested(call), NEW v,
         v = Wanted(call, i) \/ v = Raw,
         dst' = [dst EXCEPT ![i] = v], StoreSector(i, v), UNCHANGED <<req, call>>
  PROVE  /\ OutsideUntouched' /\ Stored(BodyAt(Off, Len))' /\ SectorsStored'
         /\ \A b \in Ram : InPlace(b)
  <1>. DEFINE at == BodyAt(Off, Len)
              a  == BodyDest + i * SectorSize
  <1>1. /\ at \in Nat /\ BodyDest = Dest + at /\ i \in Nat /\ i < call.n /\ call.n \in Nat
        /\ at + call.n * SectorSize <= Len
        /\ BodyFad(Off) \in Nat /\ BodyFad(Off) * SectorSize = Off + at
        /\ call.fad = CartFad + BodyFad(Off)
    BY BodyPlace
  <1>2. Off \in Nat /\ Len \in Nat /\ Dest \in Nat /\ Target \subseteq Ram
    BY DEF Layout
  <1>3. SectorSize \in Nat \ {0} /\ CartFad \in Nat /\ Ram \subseteq Int
    BY ConstantsTyped, RamTypes DEF ConstantTypes
  <1>4. i * SectorSize \in Nat /\ i * SectorSize + SectorSize <= call.n * SectorSize
    BY <1>1, SectorRoom
  <1>5. call.n * SectorSize \in Nat
    BY <1>1, <1>3
  <1>. HIDE DEF at
  <1>6. a .. a + SectorSize - 1 \subseteq Target /\ a >= Dest + at
    BY <1>1, <1>2, <1>3, <1>4, <1>5 DEF Target
  <1>7. \A b \in a .. a + SectorSize - 1 :
          SectorByte(v, b - a) = IF v = Raw THEN Raw ELSE Off + (b - Dest)
    <2>1. CASE v = Raw
      BY <2>1 DEF SectorByte
    <2>2. CASE v = Wanted(call, i) /\ v # Raw
      <3>1. v - CartFad = BodyFad(Off) + i
        BY <1>1, <1>3, <2>2 DEF Wanted
      <3>2. (BodyFad(Off) + i) * SectorSize = BodyFad(Off) * SectorSize + i * SectorSize
        BY <1>1, <1>3
      <3>3. \A b \in a .. a + SectorSize - 1 : SectorByte(v, b - a) = Off + at + i * SectorSize + (b - a)
        BY <1>1, <2>2, <3>1, <3>2 DEF SectorByte
      <3>. QED
        BY <1>1, <1>2, <1>3, <1>4, <2>2, <3>3
    <2>. QED
      BY <2>1, <2>2
  <1>8. \A b \in Ram : mem'[b] = IF b \in a .. a + SectorSize - 1
                                  THEN (IF v = Raw THEN Raw ELSE Off + (b - Dest)) ELSE mem[b]
    BY <1>7 DEF StoreSector
  <1>9. \A b \in Ram : InPlace(b)
    BY <1>6, <1>8 DEF InPlace
  <1>10. OutsideUntouched'
    <2>1. Target' = Target
      BY SameRequest
    <2>. QED
      BY <1>6, <1>8, <2>1 DEF OutsideUntouched, CartInv, MemInv
  <1>11. Stored(BodyAt(Off, Len))'
    <2>1. Stored(at)
      BY DEF CartInv, MemInv, at
    <2>2. \A b \in Dest .. Dest + at - 1 : b \in Ram /\ b \notin a .. a + SectorSize - 1
      BY <1>1, <1>2, <1>3, <1>5, <1>6 DEF Target
    <2>3. \A b \in Dest .. Dest + at - 1 : Line(b) \notin req.dirty => mem'[b] = Off + (b - Dest)
      BY <1>8, <2>1, <2>2 DEF Stored
    <2>4. Off' = Off /\ Dest' = Dest /\ BodyAt(Off, Len)' = at /\ req' = req
      BY SameRequest DEF at, BodyAt
    <2>. QED
      BY <2>3, <2>4 DEF Stored, Line
  <1>12. ASSUME NEW j \in Requested(call), NEW k \in 0 .. SectorSize - 1, dst'[j] = Wanted(call, j),
                Line(BodyDest + j * SectorSize + k) \notin req.dirty
         PROVE  mem'[BodyDest + j * SectorSize + k] = Off + at + j * SectorSize + k
    <2>1. j \in Nat /\ j < call.n /\ j \in Slots
      BY BodyPlace, CallTypes DEF CartInv, TypeOK
    <2>2. j * SectorSize \in Nat /\ j * SectorSize + SectorSize <= call.n * SectorSize
      BY <1>1, <2>1, SectorRoom
    <2>3. BodyDest + j * SectorSize + k \in Ram
      BY <1>1, <1>2, <1>3, <1>5, <2>2 DEF Target
    <2>4. CASE j = i
      <3>1. v # Raw
        <4>1. v = Wanted(call, i)
          BY <2>1, <2>4, <1>12 DEF CartInv, TypeOK
        <4>. QED
          BY <4>1, <1>1, <1>3 DEF Wanted, Raw
      <3>2. BodyDest + j * SectorSize + k \in a .. a + SectorSize - 1
        BY <1>1, <1>2, <1>3, <1>4, <2>4
      <3>3. mem'[BodyDest + j * SectorSize + k] = Off + ((BodyDest + j * SectorSize + k) - Dest)
        <4>1. PICK b \in Ram : b = BodyDest + j * SectorSize + k
          BY <2>3
        <4>2. mem'[b] = Off + (b - Dest)
          BY <1>8, <3>1, <3>2, <4>1
        <4>. QED
          BY <4>1, <4>2
      <3>. QED
        BY <1>1, <1>2, <1>3, <2>2, <3>3
    <2>5. CASE j # i
      <3>1. dst[j] = Wanted(call, j)
        BY <1>12, <2>1, <2>5 DEF CartInv, TypeOK
      <3>2. BodyDest + j * SectorSize + k \notin a .. a + SectorSize - 1
        <4>1. CASE i < j
          <5>1. i * SectorSize + SectorSize <= j * SectorSize
            BY <1>1, <2>1, <4>1, SectorRoom
          <5>. QED
            BY <1>1, <1>2, <1>3, <1>4, <2>2, <5>1
        <4>2. CASE j < i
          <5>1. j * SectorSize + SectorSize <= i * SectorSize
            BY <1>1, <2>1, <4>2, SectorRoom
          <5>. QED
            BY <1>1, <1>2, <1>3, <1>4, <2>2, <5>1
        <4>. QED
          BY <1>1, <2>1, <2>5, <4>1, <4>2
      <3>3. mem'[BodyDest + j * SectorSize + k] = mem[BodyDest + j * SectorSize + k]
        BY <1>8, <2>3, <3>2
      <3>. QED
        BY <1>12, <3>1, <3>3 DEF CartInv, MemInv, SectorsStored, at
    <2>. QED
      BY <2>4, <2>5
  <1>13. SectorsStored'
    <2>1. /\ Off' = Off /\ Len' = Len /\ BodyDest' = BodyDest /\ BodyAt(Off, Len)' = at
          /\ req' = req /\ call' = call
      BY SameRequest DEF at, BodyAt
    <2>. QED
      BY <1>12, <2>1 DEF SectorsStored, Requested, Wanted, Line
  <1>. QED
    BY <1>9, <1>10, <1>11, <1>13

(* A complete body leaves everything up to the tail stored.                *)
LEMMA BodyStores ==
  ASSUME CartInv, Layout, pc = "bodyRead", Complete(call, dst, undone)
  PROVE  Stored(TailAt(Off, Len))
  <1>1. /\ BodyAt(Off, Len) \in Nat /\ BodyDest = Dest + BodyAt(Off, Len) /\ call.n \in Nat
        /\ TailAt(Off, Len) = BodyAt(Off, Len) + call.n * SectorSize
    BY BodyPlace
  <1>2. Off \in Nat /\ Dest \in Nat /\ SectorSize \in Nat /\ call.n * SectorSize \in Nat
    BY <1>1, ConstantsTyped DEF Layout, ConstantTypes
  <1>3. Stored(BodyAt(Off, Len)) /\ SectorsStored
    BY DEF CartInv, MemInv
  <1>. SUFFICES ASSUME NEW a \in Dest .. Dest + TailAt(Off, Len) - 1, Line(a) \notin req.dirty
                PROVE  mem[a] = Off + (a - Dest)
    BY DEF Stored
  <1>4. CASE a < BodyDest
    <2>1. a \in Dest .. Dest + BodyAt(Off, Len) - 1
      BY <1>1, <1>2, <1>4
    <2>. QED
      BY <1>3, <2>1 DEF Stored
  <1>5. CASE a >= BodyDest
    <2>1. a - BodyDest \in Nat /\ a - BodyDest < call.n * SectorSize
      BY <1>1, <1>2, <1>5
    <2>2. Located(a - BodyDest, call.n)
      BY <1>1, <2>1, SectorOf
    <2>3. PICK i \in 0 .. call.n - 1, k \in 0 .. SectorSize - 1 : a - BodyDest = i * SectorSize + k
      BY <2>2 DEF Located
    <2>4. i * SectorSize \in Nat
      BY <1>2, <2>3
    <2>5. /\ BodyDest \in Nat /\ a \in Int /\ a = BodyDest + i * SectorSize + k
          /\ i \in Requested(call)
      <3>1. BodyDest \in Nat
        BY <1>1, <1>2
      <3>2. a \in Int
        BY <1>1, <1>2
      <3>3. a = BodyDest + i * SectorSize + k
        BY <2>3, <2>4, <3>1, <3>2
      <3>. QED
        BY <1>1, <2>3, <3>1, <3>2, <3>3 DEF Requested
    <2>6. dst[i] = Wanted(call, i)
      BY <2>5 DEF Complete
    <2>7. mem[a] = Off + BodyAt(Off, Len) + i * SectorSize + k
      BY <1>3, <2>5, <2>6 DEF SectorsStored
    <2>. QED
      BY <1>1, <1>2, <2>4, <2>5, <2>7
  <1>. QED
    BY <1>1, <1>2, <1>4, <1>5

(* A write-back only touches bytes of lines the game left dirty.           *)
LEMMA EvictKeeps ==
  ASSUME CartInv, Evict
  PROVE  \A b \in Ram : mem'[b] = mem[b] \/ (Line(b) \in req.dirty /\ mem'[b] = Old)
  BY DEF Evict, CartInv, ControlInv, TypeOK

LEMMA EvictStores ==
  ASSUME CartInv, Evict
  PROVE  MemInv'
  <1>0. UNCHANGED <<pc, req, call, dst>>
    BY DEF Evict
  <1>1. \A b \in Ram : mem'[b] = mem[b] \/ (Line(b) \in req.dirty /\ mem'[b] = Old)
    BY EvictKeeps
  <1>2. \A b \in Ram \ Target : mem'[b] = Old
    BY <1>1 DEF CartInv, MemInv, OutsideUntouched
  <1>3. OutsideUntouched'
    BY <1>0, <1>2, SameRequest DEF OutsideUntouched
  <1>4. CASE ~Serving
    BY <1>0, <1>3, <1>4 DEF Serving, MemInv
  <1>5. CASE Serving
    <2>1. Layout
      BY <1>5, ServedLayout DEF CartInv, ControlInv, TypeOK
    <2>2. Off \in Nat /\ Len \in Nat /\ Dest \in Nat /\ Target \subseteq Ram
      BY <2>1 DEF Layout
    <2>3. ASSUME NEW n \in Nat, n <= Len, Stored(n)
          PROVE  \A a \in Dest .. Dest + n - 1 : Line(a) \notin req.dirty => mem'[a] = Off + (a - Dest)
      BY <1>1, <2>2, <2>3 DEF Stored, Target
    <2>4. /\ BodyAt(Off, Len) \in Nat /\ BodyAt(Off, Len) <= Len
          /\ TailAt(Off, Len) \in Nat /\ TailAt(Off, Len) <= Len /\ Len <= Len
      <3>1. BodyAt(Off, Len) \in 0 .. Len
        BY <2>1 DEF Layout, SplitTyped, BodyAt
      <3>2. TailAt(Off, Len) \in Nat /\ TailTake(Off, Len) \in Nat
        BY <2>1, ConstantsTyped DEF Layout, SplitTyped, ConstantTypes
      <3>. QED
        BY <2>1, <2>2, <3>1, <3>2 DEF Layout
    <2>5. Off' = Off /\ Len' = Len /\ Dest' = Dest /\ BodyDest' = BodyDest /\ req' = req
      BY <1>0, SameRequest
    <2>6. pc \in {"body", "bodyRead"} => Stored(BodyAt(Off, Len))'
      <3>1. BodyAt(Off, Len)' = BodyAt(Off, Len)
        BY <2>5 DEF BodyAt
      <3>. QED
        BY <2>3, <2>4, <2>5, <3>1 DEF Stored, Line, CartInv, MemInv
    <2>7. pc \in {"tail", "tailRead", "tailCopy"} => Stored(TailAt(Off, Len))'
      <3>1. TailAt(Off, Len)' = TailAt(Off, Len)
        BY <2>5 DEF TailAt
      <3>. QED
        BY <2>3, <2>4, <2>5, <3>1 DEF Stored, Line, CartInv, MemInv
    <2>8. pc = "done" => Stored(Len)'
      BY <2>2, <2>3, <2>4, <2>5 DEF Stored, Line, CartInv, MemInv
    <2>9. ASSUME pc = "bodyRead" PROVE SectorsStored'
      <3>1. ASSUME NEW i \in Requested(call), NEW k \in 0 .. SectorSize - 1, dst[i] = Wanted(call, i),
                   Line(BodyDest + i * SectorSize + k) \notin req.dirty
            PROVE  mem'[BodyDest + i * SectorSize + k] = Off + BodyAt(Off, Len) + i * SectorSize + k
        <4>1. BodyDest + i * SectorSize + k \in Ram
          <5>1. /\ BodyAt(Off, Len) \in Nat /\ BodyDest = Dest + BodyAt(Off, Len) /\ i \in Nat
                /\ i < call.n /\ call.n \in Nat /\ BodyAt(Off, Len) + call.n * SectorSize <= Len
            BY <2>1, <2>9, BodyPlace DEF CartInv
          <5>2. i * SectorSize \in Nat /\ i * SectorSize + SectorSize <= call.n * SectorSize
            BY <5>1, SectorRoom
          <5>3. call.n * SectorSize \in Nat /\ SectorSize \in Nat
            BY <5>1, ConstantsTyped DEF ConstantTypes
          <5>. QED
            BY <2>2, <5>1, <5>2, <5>3 DEF Target
        <4>2. mem[BodyDest + i * SectorSize + k] = Off + BodyAt(Off, Len) + i * SectorSize + k
          BY <2>9, <3>1 DEF CartInv, MemInv, SectorsStored
        <4>. QED
          BY <1>1, <3>1, <4>1, <4>2
      <3>2. BodyAt(Off, Len)' = BodyAt(Off, Len)
        BY <2>5 DEF BodyAt
      <3>. QED
        BY <1>0, <2>5, <3>1, <3>2 DEF SectorsStored, Requested, Wanted, Line
    <2>. QED
      BY <1>0, <1>3, <2>6, <2>7, <2>8, <2>9 DEF MemInv
  <1>. QED
    BY <1>4, <1>5

(* A step that leaves RAM and registers alone keeps what is stored.        *)
LEMMA SameMemory ==
  ASSUME UNCHANGED <<mem, req>>
  PROVE  /\ OutsideUntouched' = OutsideUntouched
         /\ Stored(BodyAt(Off, Len))' = Stored(BodyAt(Off, Len))
         /\ Stored(TailAt(Off, Len))' = Stored(TailAt(Off, Len))
         /\ Stored(Len)' = Stored(Len)
  <1>1. Off' = Off /\ Len' = Len /\ Dest' = Dest /\ Target' = Target
    BY SameRequest
  <1>2. BodyAt(Off, Len)' = BodyAt(Off, Len) /\ TailAt(Off, Len)' = TailAt(Off, Len)
    BY <1>1 DEF BodyAt, TailAt
  <1>3. OutsideUntouched' = OutsideUntouched
    BY <1>1 DEF OutsideUntouched
  <1>4. Stored(BodyAt(Off, Len))' = Stored(BodyAt(Off, Len))
    BY <1>1, <1>2 DEF Stored, Line
  <1>5. Stored(TailAt(Off, Len))' = Stored(TailAt(Off, Len))
    BY <1>1, <1>2 DEF Stored, Line
  <1>6. Stored(Len)' = Stored(Len)
    BY <1>1, <1>2 DEF Stored, Line
  <1>. QED
    BY <1>3, <1>4, <1>5, <1>6

LEMMA NextMem == CartInv /\ [CartNext]_cartVars => MemInv'
  <1>. SUFFICES ASSUME CartInv, [CartNext]_cartVars PROVE MemInv'
    OBVIOUS
  <1>1. CASE Arm
    BY <1>1 DEF Arm, MemInv, OutsideUntouched
  <1>2. CASE Service
    BY <1>2, SameMemory DEF Service, MemInv, CartInv
  <1>3. CASE Head
    <2>1. CASE HeadTake(Off, Len) = 0 /\ Skip("head", "body")
      <3>1. Stored(BodyAt(Off, Len))
        <4>1. Layout
          BY <2>1, ServedLayout DEF Skip, CartInv, ControlInv, Serving, TypeOK
        <4>2. BodyAt(Off, Len) = 0 /\ Dest \in Nat
          BY <2>1, <4>1 DEF BodyAt, Layout
        <4>. QED
          BY <4>2 DEF Stored
      <3>. QED
        BY <2>1, <3>1, SameMemory DEF Skip, MemInv, CartInv
    <2>2. CASE ReadBounce("head", "headRead", HeadFad(Off))
      BY <2>2, SameMemory DEF ReadBounce, MemInv, CartInv
    <2>3. CASE CopyBounce("headCopy", "body", Dest, HeadSkip(Off), HeadTake(Off, Len))
      <3>1. Layout
        BY <2>3, ServedLayout DEF CopyBounce, CartInv, ControlInv, Serving, TypeOK
      <3>. QED
        BY <2>3, <3>1, HeadStores DEF CopyBounce, MemInv
    <2>. QED
      BY <1>3, <2>1, <2>2, <2>3 DEF Head
  <1>4. CASE Body
    <2>1. CASE BodySectors(Off, Len) = 0 /\ Skip("body", "tail")
      <3>1. Stored(TailAt(Off, Len))
        <4>1. Layout
          BY <2>1, ServedLayout DEF Skip, CartInv, ControlInv, Serving, TypeOK
        <4>2. TailAt(Off, Len) = BodyAt(Off, Len)
          BY <2>1, <4>1, ConstantsTyped DEF TailAt, Layout, SplitTyped, ConstantTypes
        <4>. QED
          BY <2>1, <4>2 DEF Skip, CartInv, MemInv
      <3>. QED
        BY <2>1, <3>1, SameMemory DEF Skip, MemInv, CartInv
    <2>2. CASE ReadBody
      <3>1. pc = "body" /\ pc' = "bodyRead" /\ UNCHANGED <<mem, req>> /\ dst' = Blank
            /\ call' \in Calls
        BY <2>2 DEF ReadBody, Request
      <3>2. SectorsStored'
        <4>1. \A i \in Requested(call') : i \in Slots /\ Wanted(call', i) \in Nat
          <5>1. Requested(call') \subseteq Slots
            BY <3>1, GdRequestAssumption DEF Requested, Slots, Calls
          <5>2. call'.fad \in Nat
            BY <3>1, GdRequestAssumption DEF Calls
          <5>. QED
            BY <5>1, <5>2 DEF Wanted, Requested, Slots
        <4>2. \A i \in Requested(call') : dst'[i] # Wanted(call', i)
          BY <3>1, <4>1 DEF Blank, Old
        <4>. QED
          BY <4>2 DEF SectorsStored, Requested, Wanted
      <3>. QED
        BY <3>1, <3>2, SameMemory DEF MemInv, CartInv
    <2>. QED
      BY <1>4, <2>1, <2>2 DEF Body
  <1>5. CASE Tail
    <2>1. CASE TailTake(Off, Len) = 0 /\ Skip("tail", "done")
      <3>1. Stored(Len)
        <4>1. Layout
          BY <2>1, ServedLayout DEF Skip, CartInv, ControlInv, Serving, TypeOK
        <4>2. TailAt(Off, Len) = Len
          BY <2>1, <4>1 DEF Layout, SplitTyped
        <4>. QED
          BY <2>1, <4>2 DEF Skip, CartInv, MemInv
      <3>. QED
        BY <2>1, <3>1, SameMemory DEF Skip, MemInv, CartInv
    <2>2. CASE ReadBounce("tail", "tailRead", TailFad(Off, Len))
      BY <2>2, SameMemory DEF ReadBounce, MemInv, CartInv
    <2>3. CASE CopyBounce("tailCopy", "done", TailDest, 0, TailTake(Off, Len))
      <3>1. Layout
        BY <2>3, ServedLayout DEF CopyBounce, CartInv, ControlInv, Serving, TypeOK
      <3>. QED
        BY <2>3, <3>1, TailStores DEF CopyBounce, MemInv
    <2>. QED
      BY <1>5, <2>1, <2>2, <2>3 DEF Tail
  <1>6. CASE Done
    BY <1>6, SameMemory DEF Done, MemInv, CartInv
  <1>7. CASE SectorArrives
    <2>1. PICK i \in Requested(call), v \in {0, 1} :
            /\ dst' = [dst EXCEPT ![i] = IF v = 0 THEN Wanted(call, i) ELSE Raw]
            /\ IF pc = "bodyRead" THEN StoreSector(i, dst'[i]) ELSE mem' = mem
      BY <1>7 DEF SectorArrives
    <2>2. UNCHANGED <<pc, req, call>> /\ status = "reading"
      BY <1>7 DEF SectorArrives, Transfer
    <2>3. CASE pc # "bodyRead"
      BY <2>1, <2>2, <2>3, SameMemory DEF MemInv, CartInv
    <2>4. CASE pc = "bodyRead"
      <3>1. Layout
        BY <2>4, ServedLayout DEF CartInv, ControlInv, Serving, TypeOK
      <3>2. PICK w : w = IF v = 0 THEN Wanted(call, i) ELSE Raw
        OBVIOUS
      <3>3. (w = Wanted(call, i) \/ w = Raw) /\ dst' = [dst EXCEPT ![i] = w]
        BY <2>1, <3>2
      <3>4. dst'[i] = w
        BY <3>3, CallTypes DEF CartInv, TypeOK
      <3>5. StoreSector(i, w)
        BY <2>1, <2>4, <3>4
      <3>. QED
        BY <2>2, <2>4, <3>1, <3>3, <3>5, SectorStores DEF MemInv
    <2>. QED
      BY <2>3, <2>4
  <1>8. CASE ReadReturns
    <2>1. UNCHANGED <<mem, req, call, dst>> /\ pc' = AfterRead[pc] /\ Complete(call, dst, undone)
          /\ pc \in {"headRead", "bodyRead", "tailRead"}
      BY <1>8 DEF ReadReturns, Return, CartInv, ControlInv
    <2>2. CASE pc = "bodyRead"
      <3>1. Layout
        BY <2>2, ServedLayout DEF CartInv, ControlInv, Serving, TypeOK
      <3>2. Stored(TailAt(Off, Len)) /\ pc' = "tail"
        BY <2>1, <2>2, <3>1, BodyStores DEF AfterRead
      <3>. QED
        BY <2>1, <3>2, SameMemory DEF MemInv, CartInv
    <2>3. CASE pc \in {"headRead", "tailRead"}
      BY <2>1, <2>3, SameMemory DEF MemInv, CartInv, AfterRead
    <2>. QED
      BY <2>1, <2>2, <2>3
  <1>9. CASE ReadDies
    BY <1>9, SameMemory DEF ReadDies, MemInv, CartInv
  <1>10. CASE Evict
    BY <1>10, EvictStores
  <1>11. CASE UNCHANGED cartVars
    <2>1. UNCHANGED <<pc, req, mem, call, dst>>
      BY <1>11 DEF cartVars, svcVars, vars
    <2>2. SectorsStored' = SectorsStored
      <3>1. Off' = Off /\ Len' = Len /\ BodyDest' = BodyDest
        BY <2>1, SameRequest
      <3>2. BodyAt(Off, Len)' = BodyAt(Off, Len)
        BY <3>1 DEF BodyAt
      <3>. QED
        BY <2>1, <3>1, <3>2 DEF SectorsStored, Requested, Wanted, Line
    <2>. QED
      BY <2>1, <2>2, SameMemory DEF MemInv, CartInv
  <1>12. CASE Present
    BY <1>12, SameMemory DEF Present, MemInv, CartInv
  <1>. QED
    BY <1>1, <1>2, <1>3, <1>4, <1>5, <1>6, <1>7, <1>8, <1>9, <1>10, <1>11, <1>12
    DEF CartNext, CartRead

-----------------------------------------------------------------------------
(* The theorems.                                                           *)

(* The invariant holds in every reachable state of the service.            *)
THEOREM Invariance == CartSpec => []CartInv
  <1>1. CartInv /\ [CartNext]_cartVars => CartInv'
    BY NextTypes, NextControl, NextPiece, NextMem, NextLines, NextBar DEF CartInv
  <1>. QED
    BY InitInv, <1>1, PTL DEF CartSpec

(* The service's variables keep their types; the preload countdown stays   *)
(* in 0 .. PbTotal (cart.c:71, 192-195).                                   *)
THEOREM TypeCorrect == CartSpec => []TypeOK
  <1>1. CartInv => TypeOK
    BY DEF CartInv
  <1>. QED
    BY <1>1, Invariance, PTL

(* What is served lies inside the cartridge and inside game RAM, for every *)
(* register value: no sum in the check wraps (cart.c:147-152).             *)
THEOREM ServesInBounds == CartSpec => []ServedInBounds
  <1>1. CartInv => ServedInBounds
    BY AcceptedInBounds DEF CartInv, TypeOK, ControlInv, ServedInBounds
  <1>. QED
    BY <1>1, Invariance, PTL

(* No byte of RAM outside the armed range changes (cart.c:99-130).         *)
THEOREM WritesInside == CartSpec => []OutsideUntouched
  <1>1. CartInv => OutsideUntouched
    BY DEF CartInv, MemInv
  <1>. QED
    BY <1>1, Invariance, PTL

(* A line that is dirty before an address and after it is in the run       *)
(* between.                                                                *)
LEMMA LineBetween ==
  ASSUME NEW a \in Nat, NEW b \in Nat, NEW c \in Nat, a <= b, b <= c
  PROVE  Line(b) \in Line(a) .. Line(c)
  <1>1. LineSize \in Nat \ {0}
    BY CartServiceAssumption
  <1>2. PICK l \in Nat \ {0} : l = LineSize
    BY <1>1
  <1>3. ASSUME NEW x \in Nat, NEW y \in Nat, x <= y PROVE x \div l <= y \div l
    <2>1. Divided(x, l) /\ Divided(y, l)
      BY DivMod
    <2>2. PICK p \in Nat, q \in Nat : p = x \div l /\ q = y \div l
      BY <2>1 DEF Divided
    <2>3. l * p <= x /\ y < l * q + l
      BY <2>1, <2>2 DEF Divided
    <2>4. ~(p >= q + 1)
      <3>. SUFFICES ASSUME p >= q + 1 PROVE FALSE
        OBVIOUS
      <3>1. PICK d \in Nat : p = q + 1 + d
        <4>1. p - (q + 1) \in Nat /\ p = q + 1 + (p - (q + 1))
          OBVIOUS
        <4>. QED BY <4>1
      <3>2. l * p = l * q + l + l * d /\ l * d \in Nat /\ l * q \in Nat
        BY <3>1
      <3>. QED
        BY <1>3, <2>3, <3>2
    <2>. QED
      BY <2>2, <2>4
  <1>4. Divided(a, l) /\ Divided(b, l) /\ Divided(c, l)
    BY DivMod
  <1>. QED
    BY <1>2, <1>3, <1>4 DEF Line, Divided

(* When a transfer is done, no line over bytes that came by DMA is dirty:  *)
(* what a stale line can hide came by PIO (cart.c:89-98, 99-130).          *)
THEOREM DmaLeavesNothingStale == CartSpec => []StaleOnlyAfterPio
  <1>1. ASSUME CartInv PROVE StaleOnlyAfterPio
    <2>. SUFFICES ASSUME pc = "done", NEW a \in Target, Line(a) \in lines,
                         Aligned, a >= BodyDest, a < TailDest
                  PROVE  FALSE
      <3>1. Off \in Nat /\ Len \in Nat /\ Dest \in Nat
        BY <1>1, DecodeTypes, CartServiceAssumption DEF CartInv, TypeOK
      <3>2. SplitTyped(Off, Len)
        BY <3>1, SplitTypes
      <3>3. BodyDest \in Nat /\ TailDest \in Nat /\ Target \subseteq Int
        BY <3>1, <3>2 DEF SplitTyped, BodyDest, TailDest, Target
      <3>. QED
        BY <3>3 DEF StaleOnlyAfterPio
    <2>1. Off \in Nat /\ Len \in Nat /\ Dest \in Nat
      BY <1>1, DecodeTypes, CartServiceAssumption DEF CartInv, TypeOK
    <2>2. SplitTyped(Off, Len)
      BY <2>1, SplitTypes
    <2>3. PICK n \in Nat, x \in Nat, b \in Nat :
            n = BodySectors(Off, Len) /\ x = n * SectorSize /\ b = BodyDest
      BY <2>1, <2>2 DEF SplitTyped, BodyDest
    <2>4. TailDest = b + x
      BY <2>1, <2>2, <2>3 DEF SplitTyped, BodyDest, TailDest, TailAt
    <2>5. a \in Nat /\ a >= b /\ a <= b + x - 1 /\ b + x - 1 \in Nat
      BY <2>1, <2>3, <2>4 DEF Target
    <2>6. n > 0
      BY <2>3, <2>5, SectorSizeAssumption
    <2>7. Line(a) \in Line(b) .. Line(b + x - 1)
      BY <2>3, <2>5, LineBetween
    <2>8. Line(a) \in SectorLines(BodyDest, BodySectors(Off, Len))
      BY <2>3, <2>7 DEF SectorLines
    <2>. QED
      BY <1>1, <2>3, <2>6, <2>8 DEF CartInv, LineInv
  <1>. QED
    BY <1>1, Invariance, PTL

(* Sectors that begin below the end of the cartridge are in its image.     *)
LEMMA InImage ==
  ASSUME NEW f \in Nat, f * SectorSize <= CartSize
  PROVE  f <= CartSize \div SectorSize
  <1>1. PICK s \in Nat \ {0}, c \in Nat : s = SectorSize /\ c = CartSize
    BY SectorSizeAssumption, CartServiceAssumption
  <1>2. Divided(c, s)
    BY DivMod
  <1>3. PICK q \in Nat : q = c \div s /\ c < s * q + s
    BY <1>2 DEF Divided
  <1>4. ~(f >= q + 1)
    <2>. SUFFICES ASSUME f >= q + 1 PROVE FALSE
      OBVIOUS
    <2>1. PICK d \in Nat : f = q + 1 + d
      <3>1. f - (q + 1) \in Nat /\ f = q + 1 + (f - (q + 1))
        OBVIOUS
      <3>. QED BY <3>1
    <2>2. f * s = s * q + s + s * d /\ s * d \in Nat /\ s * q \in Nat
      BY <2>1
    <2>3. f * s <= c
      BY <1>1
    <2>. QED
      BY <1>3, <2>2, <2>3
  <1>. QED
    BY <1>1, <1>3, <1>4

(* The driver's buffer and the disc's image have room for every request    *)
(* of an accepted transfer (cart.c:12-26, 147-152).                        *)
THEOREM EveryRequestFits == ASSUME DriverTakes PROVE CartSpec => []RequestsFit
  <1>1. ASSUME CartInv PROVE RequestsFit
    <2>. SUFFICES ASSUME pc \in {"head", "body", "tail"} PROVE RequestsFit
      BY DEF RequestsFit
    <2>1. Layout
      BY <1>1, ServedLayout DEF CartInv, ControlInv, Serving, TypeOK
    <2>2. Off \in Nat /\ Len \in Nat /\ Off + Len <= CartSize /\ CartSize \in Nat
      BY <1>1, <2>1, AcceptedInBounds, CartServiceAssumption
      DEF CartInv, ControlInv, Serving, TypeOK, Layout
    <2>3. PICK n \in Nat, x \in Nat : n = BodySectors(Off, Len) /\ x = n * SectorSize
      BY <2>1 DEF Layout, SplitTyped
    <2>4. /\ BodyAt(Off, Len) \in Nat /\ TailAt(Off, Len) \in Nat /\ TailTake(Off, Len) \in Nat
          /\ TailAt(Off, Len) = BodyAt(Off, Len) + x
          /\ TailAt(Off, Len) + TailTake(Off, Len) = Len
      BY <2>1, <2>3 DEF Layout, SplitTyped, TailAt
    <2>5. ASSUME NEW f \in Nat, f * SectorSize <= CartSize PROVE CartFad + f \in Fads
      <3>1. f <= CartSize \div SectorSize
        BY <2>5, InImage
      <3>2. PICK q \in Nat : q = CartSize \div SectorSize
        BY <2>2, Division
      <3>. QED
        BY <3>1, <3>2, CartServiceAssumption DEF DriverTakes
    <2>6. CartFad + HeadFad(Off) \in Fads
      <3>1. PICK f \in Nat, k \in Nat, y \in Nat : f = HeadFad(Off) /\ y = f * SectorSize /\ y + k = Off
        BY <2>1, ConstantsTyped DEF Layout, SplitTyped, SplitSourced, ConstantTypes
      <3>. QED
        BY <2>2, <2>5, <3>1
    <2>7. ASSUME n > 0 PROVE CartFad + BodyFad(Off) \in Fads /\ n <= MaxSectors
      <3>1. BodyFad(Off) \in Nat /\ BodyFad(Off) * SectorSize = Off + BodyAt(Off, Len)
        BY <2>1, <2>3, <2>7 DEF Layout, SplitTyped, SplitSourced
      <3>2. n * SectorSize <= CartSize
        BY <2>2, <2>3, <2>4
      <3>3. n <= CartSize \div SectorSize
        BY <3>2, InImage
      <3>4. PICK q \in Nat : q = CartSize \div SectorSize
        BY <2>2, Division
      <3>5. n <= MaxSectors
        BY <3>3, <3>4, GdRequestAssumption DEF DriverTakes
      <3>6. Off + BodyAt(Off, Len) <= CartSize
        BY <2>2, <2>4
      <3>. QED
        BY <2>5, <3>1, <3>5, <3>6
    <2>8. ASSUME TailTake(Off, Len) > 0 PROVE CartFad + TailFad(Off, Len) \in Fads
      <3>1. /\ TailFad(Off, Len) \in Nat
            /\ TailFad(Off, Len) * SectorSize = Off + TailAt(Off, Len)
        BY <2>1, <2>8 DEF Layout, SplitTyped, SplitSourced
      <3>2. Off + TailAt(Off, Len) <= CartSize
        BY <2>2, <2>4
      <3>. QED
        BY <2>5, <3>1, <3>2
    <2>. QED
      BY <2>3, <2>6, <2>7, <2>8 DEF RequestsFit
  <1>. QED
    BY <1>1, Invariance, PTL

(* The load bar is full before the title presents, and no transfer after   *)
(* that paints it over the game, for every pixel weight, every split of    *)
(* the preload into transfers and every preload at least as long as the    *)
(* countdown (cart.c:64-71, 192-195).                                      *)
THEOREM BarFullBeforeTitle == CartSpec => BarBeforeTitle
  <1>. DEFINE Kept == /\ screen' = "title" => bar' = PbTotal \div PbPixel
                      /\ screen = "title" => screen' = "title"
  <1>1. ASSUME CartInv, CartInv', [CartNext]_cartVars PROVE Kept
    <2>. USE ConstantsTyped DEF ConstantTypes
    <2>1. ASSUME screen' = "title" PROVE bar' = PbTotal \div PbPixel
      <3>1. streamed' = Preload
        BY <1>1, <2>1 DEF CartInv, BarInv
      <3>2. pb_left' = 0
        BY <1>1, <3>1 DEF CartInv, BarInv
      <3>3. bar' = (PbTotal - pb_left') \div PbPixel
        BY <1>1 DEF CartInv, BarInv
      <3>4. PbTotal - pb_left' = PbTotal
        BY <3>2
      <3>. QED
        BY <3>3, <3>4
    <2>2. ASSUME screen = "title" PROVE screen' = "title"
      <3>1. pb_left = 0
        BY <1>1, <2>2 DEF CartInv, BarInv
      <3>2. CASE Done
        BY <2>2, <3>1, <3>2 DEF Done
      <3>3. CASE Present
        BY <3>3 DEF Present
      <3>4. CASE screen' = screen
        BY <2>2, <3>4
      <3>. QED
        BY <1>1, <3>2, <3>3, <3>4
        DEF CartNext, CartRead, Arm, Service, Head, Body, Tail, SectorArrives, ReadReturns,
            ReadDies, Evict, Skip, ReadBounce, CopyBounce, ReadBody, cartVars, svcVars
    <2>. QED
      BY <2>1, <2>2
  <1>2. CartInv /\ CartInv' /\ [CartNext]_cartVars => [Kept]_cartVars
    BY <1>1
  <1>. QED
    BY <1>2, Invariance, PTL DEF CartSpec, BarBeforeTitle

(* Every sector read holds a byte of the range asked for (cart.c:12-26).   *)
THEOREM ReadsOnlyAsked == CartSpec => []ReadsWhatIsAsked
  <1>1. ASSUME CartInv PROVE ReadsWhatIsAsked
    <2>. SUFFICES ASSUME status = "reading", NEW i \in Requested(call)
                  PROVE  LET first == (call.fad + i - CartFad) * SectorSize
                         IN  first < Off + Len /\ first + SectorSize > Off
      BY DEF ReadsWhatIsAsked
    <2>1. pc \in {"headRead", "bodyRead", "tailRead"}
      BY <1>1 DEF CartInv, ControlInv
    <2>2. Layout
      BY <1>1, <2>1, ServedLayout DEF CartInv, ControlInv, Serving, TypeOK
    <2>3. Off \in Nat /\ Len \in Nat /\ CartFad \in Nat /\ SectorSize \in Nat \ {0}
      BY <2>2, ConstantsTyped DEF Layout, ConstantTypes
    <2>4. CASE pc = "headRead"
      <3>1. i = 0 /\ call.fad = CartFad + HeadFad(Off) /\ HeadTake(Off, Len) > 0
        BY <1>1, <2>4 DEF CartInv, PieceInv, Requested
      <3>2. /\ HeadFad(Off) \in Nat /\ HeadFad(Off) * SectorSize + HeadSkip(Off) = Off
            /\ HeadSkip(Off) \in 0 .. SectorSize - 1 /\ HeadTake(Off, Len) \in 0 .. Len
        BY <2>2 DEF Layout, SplitTyped, SplitSourced
      <3>3. (call.fad + i - CartFad) * SectorSize = HeadFad(Off) * SectorSize
            /\ HeadFad(Off) * SectorSize \in Nat
        BY <2>3, <3>1, <3>2
      <3>. QED
        BY <2>3, <3>1, <3>2, <3>3
    <2>5. CASE pc = "bodyRead"
      <3>1. /\ i \in Nat /\ i < call.n /\ call.n \in Nat /\ call.fad = CartFad + BodyFad(Off)
            /\ BodyFad(Off) \in Nat /\ BodyFad(Off) * SectorSize = Off + BodyAt(Off, Len)
            /\ BodyAt(Off, Len) \in Nat /\ BodyAt(Off, Len) + call.n * SectorSize <= Len
        BY <1>1, <2>2, <2>5, BodyPlace
      <3>2. i * SectorSize \in Nat /\ i * SectorSize + SectorSize <= call.n * SectorSize
        BY <3>1, SectorRoom
      <3>3. (call.fad + i - CartFad) * SectorSize = Off + BodyAt(Off, Len) + i * SectorSize
        <4>1. call.fad + i - CartFad = BodyFad(Off) + i
          BY <2>3, <3>1
        <4>2. (BodyFad(Off) + i) * SectorSize = BodyFad(Off) * SectorSize + i * SectorSize
          BY <2>3, <3>1
        <4>. QED
          BY <3>1, <4>1, <4>2
      <3>4. call.n * SectorSize \in Nat
        BY <2>3, <3>1
      <3>. QED
        BY <2>3, <3>1, <3>2, <3>3, <3>4
    <2>6. CASE pc = "tailRead"
      <3>1. i = 0 /\ call.fad = CartFad + TailFad(Off, Len) /\ TailTake(Off, Len) > 0
        BY <1>1, <2>6 DEF CartInv, PieceInv, Requested
      <3>2. /\ TailFad(Off, Len) \in Nat /\ TailFad(Off, Len) * SectorSize = Off + TailAt(Off, Len)
            /\ TailAt(Off, Len) \in Nat /\ TailTake(Off, Len) \in Nat
            /\ TailAt(Off, Len) + TailTake(Off, Len) = Len
        BY <2>2, <3>1 DEF Layout, SplitTyped, SplitSourced
      <3>3. (call.fad + i - CartFad) * SectorSize = Off + TailAt(Off, Len)
        BY <2>3, <3>1, <3>2
      <3>. QED
        BY <2>3, <3>1, <3>2, <3>3
    <2>. QED
      BY <2>1, <2>4, <2>5, <2>6
  <1>. QED
    BY <1>1, Invariance, PTL

-----------------------------------------------------------------------------
(* The service keeps the driver's protocol: it asks, waits for the answer, *)
(* and takes the data before it asks again.  So one specification stands   *)
(* between the two, SectorRead, which the driver is shown to implement and *)
(* the service never leaves (cart.c:74-83, 107-129).                       *)
THEOREM KeepsProtocol == CartSpec => Spec
  <1>1. CartInit => Init
    BY DEF CartInit
  <1>2. ASSUME CartInv, [CartNext]_cartVars PROVE [Next]_vars
    <2>1. CASE Arm
      BY <2>1 DEF Arm, Next
    <2>2. CASE Service \/ Done
      BY <2>2 DEF Service, Done
    <2>3. CASE Head \/ Body \/ Tail
      BY <2>3 DEF Head, Body, ReadBody, Tail, Skip, ReadBounce, CopyBounce, Next
    <2>4. CASE SectorArrives \/ ReadReturns \/ ReadDies
      BY <2>4 DEF SectorArrives, ReadReturns, ReadDies, Next
    <2>5. CASE Evict
      <3>1. CASE pc = "bodyRead"
        <4>1. status = "reading"
          BY <1>2, <3>1 DEF CartInv, ControlInv
        <4>2. PICK l : undone' = undone \cup {i \in call.dirty : l \in SlotLines(i)}
          BY <2>5, <3>1 DEF Evict
        <4>3. undone' \subseteq undone \cup call.dirty
          BY <4>2
        <4>4. Transfer
          BY <2>5, <4>1, <4>3 DEF Evict, Transfer
        <4>. QED
          BY <4>4 DEF Next
      <3>2. CASE pc # "bodyRead"
        BY <2>5, <3>2 DEF Evict, vars
      <3>. QED
        BY <3>1, <3>2
    <2>6. CASE UNCHANGED cartVars
      BY <2>6 DEF cartVars
    <2>7. CASE Present
      BY <2>7 DEF Present
    <2>. QED
      BY <1>2, <2>1, <2>2, <2>3, <2>4, <2>5, <2>6, <2>7 DEF CartNext, CartRead
  <1>. QED
    BY <1>1, <1>2, Invariance, PTL DEF CartSpec, Spec

-----------------------------------------------------------------------------
(* The service implements CartDma.                                         *)

TransferTyped == transfer \in [off : Nat, len : Nat, dest : Nat, legal : BOOLEAN, exposed : SUBSET Ram]

LEMMA TransferTypes ==
  ASSUME req \in Requests
  PROVE  TransferTyped
  <1>1. Off \in Nat /\ Len \in Nat /\ Dest \in Nat
    BY DecodeTypes, CartServiceAssumption
  <1>2. Legal \in BOOLEAN
    BY DEF Legal
  <1>. QED
    BY <1>1, <1>2 DEF TransferTyped, transfer

LEMMA RefinementInit == CartInit => Board!Init
  <1>. SUFFICES ASSUME CartInit PROVE Board!Init
    OBVIOUS
  <1>1. TransferTyped
    BY TransferTypes DEF CartInit
  <1>. QED
    BY <1>1 DEF CartInit, TransferTyped, Board!Init, Board!Old, Old

(* A change of RAM that stays in the transfer is a move of the device.     *)
LEMMA MoveRefines ==
  ASSUME Layout, Legal, gdst = 1, mem' \in [Ram -> Int], UNCHANGED <<req, gdst>>,
         pc # "dead", pc' # "dead", \A b \in Ram : InPlace(b)
  PROVE  Board!Move
  <1>1. transfer' = transfer
    <2>1. Off' = Off /\ Len' = Len /\ Dest' = Dest
      BY SameRequest
    <2>. QED
      BY <2>1 DEF transfer, Legal, Line
  <1>2. \A b \in Ram :
          \/ mem'[b] = mem[b]
          \/ b \in Board!Target(transfer) /\ mem'[b] \in {Board!Byte(transfer, b), Board!Raw}
    BY DEF InPlace, Board!Target, Board!Byte, Board!Raw, Raw, transfer, Target
  <1>. QED
    BY <1>1, <1>2 DEF Board!Move, transfer

LEMMA RefinementStep ==
  CartInv /\ CartInv' /\ [CartNext]_cartVars => [Board!Next]_Board!vars
  <1>. SUFFICES ASSUME CartInv, CartInv', [CartNext]_cartVars
                PROVE  [Board!Next]_Board!vars
    OBVIOUS
  <1>1. ASSUME UNCHANGED <<gdst, req, mem>>, (pc = "dead") = (pc' = "dead")
        PROVE  UNCHANGED Board!vars
    <2>1. Off' = Off /\ Len' = Len /\ Dest' = Dest /\ req' = req
      BY <1>1, SameRequest
    <2>. QED
      BY <1>1, <2>1 DEF Board!vars, transfer, Legal, Line
  <1>2. gdst = (IF pc = "run" THEN 0 ELSE 1) /\ gdst' = (IF pc' = "run" THEN 0 ELSE 1)
    BY DEF CartInv, ControlInv
  <1>3. ASSUME Serving PROVE Layout /\ Legal
    BY <1>3, ServedLayout, AcceptedInBounds DEF CartInv, ControlInv, TypeOK, Legal
  <1>4. mem' \in [Ram -> Int] /\ mem \in [Ram -> Int]
    BY DEF CartInv, TypeOK
  <1>5. CASE Arm
    <2>1. TransferTyped'
      <3>1. req' \in Requests
        BY DEF CartInv, TypeOK
      <3>2. Off' \in Nat /\ Len' \in Nat /\ Dest' \in Nat
        <4>1. /\ req'.h \in Nat /\ req'.l \in Nat /\ req'.star \in Nat /\ req'.len \in Nat
          BY <3>1, CartServiceAssumption
        <4>2. /\ Half \in Nat \ {0} /\ OffLimit \in Nat \ {0} /\ PhysLimit \in Nat \ {0}
          BY CartServiceAssumption
        <4>3. req'.h % Half \in Nat /\ req'.l % Half \in Nat
          BY <4>1, <4>2
        <4>4. (req'.h % Half) * Half + (req'.l % Half) \in Nat
          BY <4>2, <4>3
        <4>. QED
          BY <4>1, <4>2, <4>4 DEF Off, Len, Dest
      <3>3. Legal' \in BOOLEAN
        BY DEF Legal
      <3>. QED
        BY <3>2, <3>3 DEF TransferTyped, transfer
    <2>2. mem' = [a \in Ram |-> Board!Old]
      BY <1>5 DEF Arm, Board!Old, Old
    <2>. QED
      BY <1>2, <1>5, <2>1, <2>2 DEF Arm, TransferTyped, Board!Next, Board!Arm
  <1>6. CASE Service
    <2>1. UNCHANGED <<gdst, req, mem>> /\ pc = "service" /\ pc' \in {"head", "dead"}
      BY <1>6 DEF Service
    <2>2. CASE pc' = "head"
      BY <1>1, <2>1, <2>2
    <2>3. CASE pc' = "dead"
      <3>1. Off' = Off /\ Len' = Len /\ Dest' = Dest /\ req' = req
        BY <2>1, SameRequest
      <3>2. transfer' = transfer
        BY <3>1 DEF transfer, Legal, Line
      <3>. QED
        BY <1>2, <2>1, <2>3, <3>2 DEF Board!Next, Board!Halt
    <2>. QED
      BY <2>1, <2>2, <2>3
  <1>7. ASSUME NEW p, NEW take, Moved(p, take), p \in Nat, take \in Nat, p + take <= Len, Layout
        PROVE  \A b \in Ram : InPlace(b)
    <2>1. Dest + p .. Dest + p + take - 1 \subseteq Target
      BY <1>7 DEF Layout, Target
    <2>. QED
      BY <1>7, <2>1 DEF Moved, InPlace
  <1>8. CASE Head
    <2>1. CASE HeadTake(Off, Len) = 0 /\ Skip("head", "body")
      BY <1>1, <2>1 DEF Skip
    <2>2. CASE ReadBounce("head", "headRead", HeadFad(Off))
      BY <1>1, <2>2 DEF ReadBounce
    <2>3. CASE CopyBounce("headCopy", "body", Dest, HeadSkip(Off), HeadTake(Off, Len))
      <3>1. Layout /\ Legal
        BY <1>3, <2>3 DEF CopyBounce, Serving
      <3>2. HeadTake(Off, Len) \in Nat /\ 0 + HeadTake(Off, Len) <= Len
        BY <3>1 DEF Layout, SplitTyped
      <3>3. \A b \in Ram : InPlace(b)
        BY <1>7, <2>3, <3>1, <3>2, HeadStores
      <3>4. UNCHANGED <<req, gdst>> /\ pc = "headCopy" /\ pc' = "body"
        BY <2>3 DEF CopyBounce
      <3>. QED
        BY <1>2, <1>4, <3>1, <3>3, <3>4, MoveRefines DEF Board!Next
    <2>. QED
      BY <1>8, <2>1, <2>2, <2>3 DEF Head
  <1>9. CASE Body
    BY <1>1, <1>9 DEF Body, ReadBody, Skip
  <1>10. CASE Tail
    <2>1. CASE TailTake(Off, Len) = 0 /\ Skip("tail", "done")
      BY <1>1, <2>1 DEF Skip
    <2>2. CASE ReadBounce("tail", "tailRead", TailFad(Off, Len))
      BY <1>1, <2>2 DEF ReadBounce
    <2>3. CASE CopyBounce("tailCopy", "done", TailDest, 0, TailTake(Off, Len))
      <3>1. Layout /\ Legal
        BY <1>3, <2>3 DEF CopyBounce, Serving
      <3>2. TailAt(Off, Len) \in Nat /\ TailTake(Off, Len) \in Nat /\ TailAt(Off, Len) + TailTake(Off, Len) <= Len
        BY <3>1, ConstantsTyped DEF Layout, SplitTyped, ConstantTypes
      <3>3. \A b \in Ram : InPlace(b)
        BY <1>7, <2>3, <3>1, <3>2, TailStores
      <3>4. UNCHANGED <<req, gdst>> /\ pc = "tailCopy" /\ pc' = "done"
        BY <2>3 DEF CopyBounce
      <3>. QED
        BY <1>2, <1>4, <3>1, <3>3, <3>4, MoveRefines DEF Board!Next
    <2>. QED
      BY <1>10, <2>1, <2>2, <2>3 DEF Tail
  <1>11. CASE Done
    <2>1. pc = "done" /\ pc' = "run" /\ gdst' = 0 /\ UNCHANGED <<req, mem>>
      BY <1>11 DEF Done
    <2>2. Layout /\ Legal
      BY <1>3, <2>1 DEF Serving
    <2>3. transfer' = transfer
      <3>1. Off' = Off /\ Len' = Len /\ Dest' = Dest
        BY <2>1, SameRequest
      <3>. QED
        BY <2>1, <3>1 DEF transfer, Legal, Line
    <2>4. Board!Delivered(transfer, mem)
      <3>1. Stored(Len)
        BY <2>1 DEF CartInv, MemInv
      <3>2. Target \subseteq Ram
        BY <2>2 DEF Layout
      <3>. QED
        BY <3>1, <3>2 DEF Board!Delivered, Board!Target, Board!Byte, transfer, Stored, Target
    <2>. QED
      BY <1>2, <2>1, <2>2, <2>3, <2>4 DEF Board!Next, Board!Finish, transfer
  <1>12. CASE SectorArrives
    <2>1. PICK i \in Requested(call), v \in {0, 1} :
            /\ dst' = [dst EXCEPT ![i] = IF v = 0 THEN Wanted(call, i) ELSE Raw]
            /\ IF pc = "bodyRead" THEN StoreSector(i, dst'[i]) ELSE mem' = mem
      BY <1>12 DEF SectorArrives
    <2>2. UNCHANGED <<pc, req, call, gdst>> /\ status = "reading"
      BY <1>12 DEF SectorArrives, Transfer
    <2>3. CASE pc # "bodyRead"
      BY <1>1, <2>1, <2>2, <2>3
    <2>4. CASE pc = "bodyRead"
      <3>1. Layout /\ Legal
        BY <1>3, <2>4 DEF Serving
      <3>2. PICK w : w = IF v = 0 THEN Wanted(call, i) ELSE Raw
        OBVIOUS
      <3>3. (w = Wanted(call, i) \/ w = Raw) /\ dst' = [dst EXCEPT ![i] = w]
        BY <2>1, <3>2
      <3>4. dst'[i] = w
        BY <3>3, CallTypes DEF CartInv, TypeOK
      <3>5. StoreSector(i, w)
        BY <2>1, <2>4, <3>4
      <3>6. \A b \in Ram : InPlace(b)
        BY <2>2, <2>4, <3>1, <3>3, <3>5, SectorStores
      <3>. QED
        BY <1>2, <1>4, <2>2, <2>4, <3>1, <3>6, MoveRefines DEF Board!Next
    <2>. QED
      BY <2>3, <2>4
  <1>13. CASE ReadReturns
    BY <1>1, <1>13 DEF ReadReturns, Return, AfterRead, CartInv, ControlInv
  <1>14. CASE ReadDies
    <2>1. UNCHANGED <<gdst, req, mem>> /\ pc # "run" /\ pc' = "dead"
      BY <1>14 DEF ReadDies, Die, CartInv, ControlInv
    <2>2. Off' = Off /\ Len' = Len /\ Dest' = Dest /\ req' = req
      BY <2>1, SameRequest
    <2>3. transfer' = transfer
      BY <2>2 DEF transfer, Legal, Line
    <2>. QED
      BY <1>2, <2>1, <2>3 DEF Board!Next, Board!Halt
  <1>15. CASE Evict
    <2>1. \A b \in Ram : mem'[b] = mem[b] \/ (Line(b) \in req.dirty /\ mem'[b] = Old)
      BY <1>15, EvictKeeps
    <2>2. UNCHANGED <<pc, gdst, req>>
      BY <1>15 DEF Evict
    <2>3. transfer' = transfer
      <3>1. Off' = Off /\ Len' = Len /\ Dest' = Dest
        BY <2>2, SameRequest
      <3>. QED
        BY <2>2, <3>1 DEF transfer, Legal, Line
    <2>4. \A b \in Ram : mem'[b] = mem[b] \/ (b \in transfer.exposed /\ mem'[b] = Board!Old)
      BY <2>1 DEF transfer, Board!Old, Old
    <2>. QED
      BY <1>4, <2>2, <2>3, <2>4 DEF Board!Next, Board!WriteBack
  <1>16. CASE UNCHANGED cartVars
    BY <1>1, <1>16 DEF cartVars, svcVars
  <1>17. CASE Present
    BY <1>1, <1>17 DEF Present
  <1>. QED
    BY <1>5, <1>6, <1>8, <1>9, <1>10, <1>11, <1>12, <1>13, <1>14, <1>15, <1>16, <1>17
    DEF CartNext, CartRead

(* The stream service is the cartridge DMA the game was written for: when  *)
(* SB_GDST reads 0, the transfer is in RAM and nothing else has changed    *)
(* (cart.c:99-178).                                                        *)
THEOREM ImplementsDevice == CartSpec => ImplementsCartDma
  BY RefinementInit, RefinementStep, Invariance, PTL
  DEF CartSpec, ImplementsCartDma, Board!Spec

-----------------------------------------------------------------------------
(* A run of whole lines that starts at address q * b: each of its lines    *)
(* lies inside it.                                                         *)
LEMMA InsideRun ==
  ASSUME NEW b \in Nat \ {0}, NEW q \in Nat, NEW m \in Nat,
         NEW l \in Nat, NEW z \in Nat, q <= l, l <= z,
         b * z <= q * b + m * b - 1
  PROVE  q * b <= l * b /\ l * b + b - 1 <= q * b + m * b - 1
  <1>1. PICK d \in Nat : l = q + d
    <2>1. l - q \in Nat /\ l = q + (l - q)
      OBVIOUS
    <2>. QED BY <2>1
  <1>2. l * b = q * b + d * b /\ d * b \in Nat /\ q * b \in Nat /\ m * b \in Nat
    BY <1>1
  <1>3. PICK e \in Nat : z = l + e
    <2>1. z - l \in Nat /\ z = l + (z - l)
      OBVIOUS
    <2>. QED BY <2>1
  <1>4. b * z = l * b + e * b /\ e * b \in Nat
    BY <1>3
  <1>5. l * b < q * b + m * b
    BY <1>2, <1>4
  <1>6. l < q + m
    <2>. SUFFICES ASSUME l >= q + m PROVE FALSE
      OBVIOUS
    <2>1. PICK c \in Nat : l = q + m + c
      <3>1. l - (q + m) \in Nat /\ l = q + m + (l - (q + m))
        OBVIOUS
      <3>. QED BY <3>1
    <2>2. l * b = q * b + m * b + c * b /\ c * b \in Nat
      BY <2>1
    <2>. QED
      BY <1>2, <1>5, <2>2
  <1>7. PICK f \in Nat : q + m = l + 1 + f
    <2>1. q + m - l - 1 \in Nat /\ q + m = l + 1 + (q + m - l - 1)
      BY <1>6
    <2>. QED BY <2>1
  <1>8. q * b + m * b = l * b + b + f * b /\ f * b \in Nat
    <2>1. (q + m) * b = (l + 1 + f) * b
      BY <1>7
    <2>2. (q + m) * b = q * b + m * b /\ (l + 1 + f) * b = l * b + b + f * b
      OBVIOUS
    <2>. QED
      BY <2>1, <2>2
  <1>. QED
    BY <1>2, <1>8

(* The lines of an aligned run of sectors are the lines inside it.         *)
LEMMA RunLines ==
  ASSUME WholeLines, NEW a \in Nat, a % LineSize = 0, NEW n \in Nat \ {0},
         NEW l \in SectorLines(a, n)
  PROVE  a <= l * LineSize /\ l * LineSize + LineSize - 1 <= a + n * SectorSize - 1
  <1>1. PICK b \in Nat \ {0}, s \in Nat \ {0} : b = LineSize /\ s = SectorSize
    BY CartServiceAssumption, SectorSizeAssumption
  <1>2. PICK q \in Nat : a = q * b
    <2>1. PICK y \in Nat, r \in Nat : a = y * b + r /\ r = a % b
      <3>1. a = (a \div b) * b + (a % b) /\ a \div b \in Nat /\ a % b \in Nat
        OBVIOUS
      <3>. QED
        BY <3>1
    <2>2. r = 0
      BY <1>1, <2>1
    <2>3. a = y * b
      BY <2>1, <2>2
    <2>. QED
      BY <2>3, Zenon
  <1>3. PICK w \in Nat : s = w * b
    <2>1. PICK y \in Nat, r \in Nat : s = y * b + r /\ r = s % b
      <3>1. s = (s \div b) * b + (s % b) /\ s \div b \in Nat /\ s % b \in Nat
        OBVIOUS
      <3>. QED
        BY <3>1
    <2>2. r = 0
      BY <1>1, <2>1 DEF WholeLines
    <2>3. s = y * b
      BY <2>1, <2>2
    <2>. QED
      BY <2>3, Zenon
  <1>4. PICK m \in Nat : m = n * w
    BY <1>3
  <1>5. n * s = m * b /\ n * s \in Nat \ {0}
    <2>1. n * s = n * (w * b) /\ n * (w * b) = (n * w) * b
      BY <1>3
    <2>2. n * s \in Nat
      BY <1>1
    <2>3. n * s # 0
      BY <1>1
    <2>4. n * s = m * b
      BY <1>4, <2>1, Zenon
    <2>. QED
      BY <2>2, <2>3, <2>4
  <1>6. PICK e \in Nat : e = a + n * s - 1
    BY <1>5
  <1>7. l \in Int /\ a \div b <= l /\ l <= e \div b
    BY <1>1, <1>6 DEF SectorLines, Line
  <1>8. a \div b = q
    <2>1. Divided(a, b)
      BY DivMod
    <2>2. PICK y \in Nat : y = a \div b
      BY <2>1 DEF Divided
    <2>3. b * y <= q * b /\ q * b < b * y + b
      BY <1>2, <2>1, <2>2 DEF Divided
    <2>4. y < q => y * b + b <= q * b
      <3>. SUFFICES ASSUME y < q PROVE y * b + b <= q * b
        OBVIOUS
      <3>1. PICK d \in Nat : q = y + 1 + d
        <4>1. q - y - 1 \in Nat /\ q = y + 1 + (q - y - 1)
          OBVIOUS
        <4>. QED BY <4>1
      <3>2. q * b = y * b + b + d * b /\ d * b \in Nat
        BY <3>1
      <3>. QED
        BY <3>2
    <2>5. y > q => q * b + b <= y * b
      <3>. SUFFICES ASSUME y > q PROVE q * b + b <= y * b
        OBVIOUS
      <3>1. PICK d \in Nat : y = q + 1 + d
        <4>1. y - q - 1 \in Nat /\ y = q + 1 + (y - q - 1)
          OBVIOUS
        <4>. QED BY <4>1
      <3>2. y * b = q * b + b + d * b /\ d * b \in Nat
        BY <3>1
      <3>. QED
        BY <3>2
    <2>6. b * y = y * b /\ y * b \in Nat /\ q * b \in Nat
      OBVIOUS
    <2>. QED
      BY <2>2, <2>3, <2>4, <2>5, <2>6
  <1>9. PICK z \in Nat : z = e \div b /\ b * z <= e
    <2>1. Divided(e, b)
      BY DivMod
    <2>. QED
      BY <2>1 DEF Divided
  <1>10. q <= l /\ l <= z /\ l \in Nat /\ b * z <= q * b + m * b - 1
    BY <1>2, <1>5, <1>6, <1>7, <1>8, <1>9
  <1>11. q * b <= l * b /\ l * b + b - 1 <= q * b + m * b - 1
    BY <1>10, InsideRun
  <1>. QED
    BY <1>1, <1>2, <1>5, <1>11

(* Only lines wholly inside the destination are thrown away, for every     *)
(* line and sector size, offset and destination (cart.c:113-119,           *)
(* gd.c:174-184).                                                          *)
THEOREM LosesNothing == ASSUME WholeLines PROVE CartSpec => NoCollateralLoss
  <1>1. ASSUME CartInv, [CartNext]_cartVars, status # "reading", status' = "reading",
               NEW l \in lines \ lines'
        PROVE  l * LineSize .. l * LineSize + LineSize - 1 \subseteq Target
    <2>1. ReadBody
      <3>1. CASE Arm
        BY <1>1, <3>1 DEF Arm, Release, vars
      <3>2. CASE Service \/ Head \/ Tail \/ Done
        BY <1>1, <3>2 DEF Service, Head, Tail, Done, Skip, ReadBounce, CopyBounce, vars
      <3>3. CASE Body
        BY <1>1, <3>3 DEF Body, Skip, vars
      <3>4. CASE SectorArrives \/ ReadReturns \/ ReadDies \/ Evict
        BY <1>1, <3>4 DEF SectorArrives, Transfer, ReadReturns, Return, ReadDies, Die, Evict
      <3>5. CASE UNCHANGED cartVars
        BY <1>1, <3>5 DEF cartVars, vars
      <3>6. CASE Present
        BY <1>1, <3>6 DEF Present, vars
      <3>. QED
        BY <1>1, <3>1, <3>2, <3>3, <3>4, <3>5, <3>6 DEF CartNext, CartRead
    <2>2. Layout
      <3>1. pc = "body"
        BY <2>1 DEF ReadBody
      <3>. QED
        BY <1>1, <3>1, ServedLayout DEF CartInv, ControlInv, TypeOK, Serving
    <2>3. PICK n \in Nat \ {0} : n = BodySectors(Off, Len)
      BY <2>1, <2>2 DEF ReadBody, Layout, SplitTyped
    <2>4. PICK a \in Nat : a = BodyDest
      BY <2>2 DEF Layout, SplitTyped, BodyDest
    <2>5. a % LineSize = 0 /\ l \in SectorLines(a, n)
      BY <1>1, <2>1, <2>3, <2>4 DEF ReadBody, Aligned
    <2>6. a <= l * LineSize /\ l * LineSize + LineSize - 1 <= a + n * SectorSize - 1
      BY <2>5, RunLines
    <2>7. Dest <= a /\ a + n * SectorSize <= Dest + Len
      <3>1. PICK x \in Nat : x = n * SectorSize
        BY <2>2, <2>3 DEF Layout, SplitTyped
      <3>2. a = Dest + BodyAt(Off, Len) /\ BodyAt(Off, Len) \in Nat
        BY <2>2, <2>4 DEF BodyDest, Layout, SplitTyped
      <3>3. BodyAt(Off, Len) + x + TailTake(Off, Len) = Len /\ TailTake(Off, Len) \in Nat
        BY <2>2, <2>3, <3>1, ConstantsTyped DEF Layout, SplitTyped, TailAt, ConstantTypes
      <3>. QED
        BY <2>2, <3>1, <3>2, <3>3 DEF Layout
    <2>8. l * LineSize \in Int /\ LineSize \in Nat /\ n * SectorSize \in Int
      <3>1. l \in Int
        BY <1>1 DEF CartInv, TypeOK
      <3>2. LineSize \in Nat /\ SectorSize \in Nat
        BY CartServiceAssumption, SectorSizeAssumption
      <3>. QED
        BY <2>3, <3>1, <3>2
    <2>9. PICK u \in Int, v \in Int, y \in Int : u = l * LineSize /\ v = LineSize /\ y = n * SectorSize
      BY <2>8
    <2>. QED
      BY <2>2, <2>4, <2>6, <2>7, <2>9 DEF Target, Layout
  <1>2. ASSUME CartInv, [CartNext]_cartVars
        PROVE  [status # "reading" /\ status' = "reading" =>
                 \A l \in lines \ lines' : l * LineSize .. l * LineSize + LineSize - 1 \subseteq Target]_cartVars
    BY <1>1, <1>2
  <1>. QED
    BY <1>2, Invariance, PTL DEF CartSpec, NoCollateralLoss

-----------------------------------------------------------------------------
(* A service is at most ten steps and the sectors of its reads: none of    *)
(* its steps is ever taken twice, whatever the drive and the cache do in   *)
(* between (cart.c:99-130, 138-178).                                       *)
THEOREM ServiceIsBounded == CartSpec => ServiceShrinks
  <1>. DEFINE Shrinks ==
         /\ CartRead \/ ReadReturns \/ ReadDies => StepsLeft' < StepsLeft
         /\ SectorArrives \/ Evict => StepsLeft' = StepsLeft
  <1>1. ASSUME CartInv, [CartNext]_cartVars PROVE [Shrinks]_cartVars
    <2>1. ASSUME CartRead PROVE StepsLeft' < StepsLeft
      BY <2>1 DEF CartRead, Service, Head, Body, ReadBody, Tail, Done, Skip, ReadBounce, CopyBounce,
                  StepsLeft
    <2>2. ASSUME ReadReturns \/ ReadDies PROVE StepsLeft' < StepsLeft
      <3>1. status = "reading"
        BY <2>2 DEF ReadReturns, ReadDies, Return, Die
      <3>2. pc \in {"headRead", "bodyRead", "tailRead"}
        BY <1>1, <3>1 DEF CartInv, ControlInv
      <3>3. pc' = AfterRead[pc] \/ pc' = "dead"
        BY <2>2 DEF ReadReturns, ReadDies
      <3>. QED
        BY <3>2, <3>3 DEF AfterRead, StepsLeft
    <2>3. ASSUME SectorArrives \/ Evict PROVE StepsLeft' = StepsLeft
      BY <2>3 DEF SectorArrives, Evict, StepsLeft
    <2>. QED
      BY <2>1, <2>2, <2>3
  <1>. QED
    BY <1>1, Invariance, PTL DEF CartSpec, ServiceShrinks
=============================================================================
