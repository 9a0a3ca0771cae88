-------------------------- MODULE LoaderBootProofs --------------------------
(***************************************************************************)
(* Theorems about the loader, for every number of image pieces, every list *)
(* of patches and every write-back by the cache: a game that is entered    *)
(* finds the right image, whole and patched, and all it will look at, in   *)
(* RAM and through the cache alike.                                        *)
(***************************************************************************)
EXTENDS LoaderBoot, TLAPS

Things == {Shim, Bss, Bios60000, Bios1ffd00}

(* No two blocks have the same name.                                       *)
BlockNames ==
  /\ \A c, d \in 1 .. Chunks : Stage(c) # Game(d)
  /\ \A c, d \in 1 .. Chunks : (Stage(c) = Stage(d) => c = d) /\ (Game(c) = Game(d) => c = d)
  /\ \A c \in 1 .. Chunks : Stage(c) \in Blocks /\ Game(c) \in Blocks
  /\ Blocks = StageBlocks \cup GameBlocks \cup Mirrors \cup Things \cup {Stub}
  /\ StageBlocks \cap GameBlocks = {} /\ Stub \notin Things \cup Mirrors
  /\ Mirrors \cap Things = {}
  /\ (StageBlocks \cup GameBlocks) \cap (Mirrors \cup Things \cup {Stub}) = {}

LEMMA Names == BlockNames
  <1>. USE DEF Stage, Game, StageBlocks, GameBlocks, Mirrors, Things, G1Mirror, MapleMirror,
               Shim, Bss, Bios60000, Bios1ffd00, Stub
  <1>1. /\ \A c, d \in 1 .. Chunks : Stage(c) # Game(d)
        /\ \A c, d \in 1 .. Chunks : (Stage(c) = Stage(d) => c = d) /\ (Game(c) = Game(d) => c = d)
    OBVIOUS
  <1>2. Blocks = StageBlocks \cup GameBlocks \cup Mirrors \cup Things \cup {Stub}
    BY DEF Blocks
  <1>3. StageBlocks \cap GameBlocks = {} /\ Stub \notin Things \cup Mirrors /\ Mirrors \cap Things = {}
    OBVIOUS
  <1>4. (StageBlocks \cup GameBlocks) \cap (Mirrors \cup Things \cup {Stub}) = {}
    OBVIOUS
  <1>5. \A c \in 1 .. Chunks : Stage(c) \in Blocks /\ Game(c) \in Blocks
    BY DEF Blocks
  <1>. QED
    BY <1>1, <1>2, <1>3, <1>4, <1>5 DEF BlockNames

LEMMA RangeNames ==
  /\ DOMAIN PurgeRanges = 1 .. 5
  /\ PurgeRanges[1] = StageBlocks /\ PurgeRanges[2] = {Shim, Bss} /\ PurgeRanges[3] = {Stub}
  /\ PurgeRanges[4] = {Bios60000} /\ PurgeRanges[5] = {Bios1ffd00}
  BY DEF PurgeRanges

LEMMA RangeBlocks ==
  /\ \A k \in 1 .. 5 : PurgeRanges[k] \subseteq Blocks \ (Mirrors \cup GameBlocks)
  /\ \A b \in StageBlocks \cup Things \cup {Stub} : \E k \in 1 .. 5 : b \in PurgeRanges[k]
  <1>1. \A k \in 1 .. 5 : k = 1 \/ k = 2 \/ k = 3 \/ k = 4 \/ k = 5
    OBVIOUS
  <1>2. \A k \in 1 .. 5 : PurgeRanges[k] \subseteq Blocks \ (Mirrors \cup GameBlocks)
    BY <1>1, Names, RangeNames DEF BlockNames, Things
  <1>3. /\ \A b \in StageBlocks : b \in PurgeRanges[1]
        /\ Shim \in PurgeRanges[2] /\ Bss \in PurgeRanges[2] /\ Stub \in PurgeRanges[3]
        /\ Bios60000 \in PurgeRanges[4] /\ Bios1ffd00 \in PurgeRanges[5]
    BY RangeNames
  <1>. QED
    BY <1>2, <1>3 DEF Things

LEMMA WantedValues ==
  /\ \A b \in Blocks : Wanted(b) \in Values
  /\ \A c \in 1 .. Chunks : /\ Wanted(Stage(c)) = Image("right", PatchesOf(c))
                            /\ Wanted(Game(c)) = Image("right", PatchesOf(c))
  /\ \A b \in Mirrors : Wanted(b) = Thing("zero")
  /\ Wanted(Stub) = Thing("stub")
  <1>1. \A c \in 1 .. Chunks : /\ Wanted(Stage(c)) = Image("right", PatchesOf(c))
                               /\ Wanted(Game(c)) = Image("right", PatchesOf(c))
    BY DEF Wanted, StageBlocks, GameBlocks, Stage, Game
  <1>2. \A b \in Mirrors : Wanted(b) = Thing("zero")
    BY Names DEF Wanted, BlockNames
  <1>3. Wanted(Stub) = Thing("stub")
    BY Names DEF Wanted, BlockNames, Things, Stub
  <1>4. \A b \in Things : Wanted(b) \in {Thing("zero"), Thing("shim"), Thing("bios60000"),
                                         Thing("bios1ffd00")}
    BY Names DEF Wanted, BlockNames, Things, Shim, Bss, Bios60000, Bios1ffd00
  <1>5. \A c \in 1 .. Chunks : Image("right", PatchesOf(c)) \in Values
    BY DEF Values, Versions, PatchesOf
  <1>6. \A n \in {"junk", "loader", "shim", "zero", "bios60000", "bios1ffd00", "stub"} :
          Thing(n) \in Values
    BY DEF Values
  <1>7. \A b \in StageBlocks \cup GameBlocks : Wanted(b) \in Values
    BY <1>1, <1>5 DEF StageBlocks, GameBlocks
  <1>8. \A b \in Blocks : Wanted(b) \in Values
    BY <1>2, <1>3, <1>4, <1>6, <1>7, Names DEF BlockNames
  <1>. QED
    BY <1>1, <1>2, <1>3, <1>8

-----------------------------------------------------------------------------
(* The cache.                                                              *)

LEMMA NotNoLine ==
  ASSUME NEW v \in Values
  PROVE  /\ Dirty(v) # NoLine /\ Clean(v) # NoLine
         /\ Dirty(v).val = v /\ Clean(v).val = v /\ Dirty(v).dirty /\ ~Clean(v).dirty
         /\ Dirty(v) \in [val : Values, dirty : BOOLEAN]
         /\ Clean(v) \in [val : Values, dirty : BOOLEAN]
  <1>1. /\ Dirty(v) \in [val : Values, dirty : BOOLEAN]
        /\ Clean(v) \in [val : Values, dirty : BOOLEAN]
    BY DEF Dirty, Clean
  <1>2. Dirty(v) # NoLine /\ Clean(v) # NoLine
    BY <1>1, NoLineAssumption, Zenon
  <1>3. Dirty(v).val = v /\ Clean(v).val = v /\ Dirty(v).dirty /\ ~Clean(v).dirty
    BY DEF Dirty, Clean
  <1>. QED
    BY <1>1, <1>2, <1>3

LEMMA LoadTyped == TypeOK => \A b \in Blocks : Load(b) \in Values
  BY DEF TypeOK, Load

LEMMA StoreLoads ==
  ASSUME TypeOK, NEW vals, DOMAIN vals \subseteq Blocks, Store(vals),
         \A b \in DOMAIN vals : vals[b] \in Values
  PROVE  /\ \A b \in Blocks : Load(b)' = IF b \in DOMAIN vals THEN vals[b] ELSE Load(b)
         /\ \A b \in DOMAIN vals : line'[b] = Dirty(vals[b])
         /\ \A b \in Blocks \ DOMAIN vals : line'[b] = line[b]
         /\ ram' = ram
         /\ line' \in [Blocks -> [val : Values, dirty : BOOLEAN] \cup {NoLine}]
  <1>1. /\ ram' = ram
        /\ \A b \in Blocks : line'[b] = IF b \in DOMAIN vals THEN Dirty(vals[b]) ELSE line[b]
    BY DEF Store
  <1>2. line' \in [Blocks -> [val : Values, dirty : BOOLEAN] \cup {NoLine}]
    BY NotNoLine DEF Store, TypeOK
  <1>3. \A b \in Blocks : Load(b)' = IF b \in DOMAIN vals THEN vals[b] ELSE Load(b)
    BY <1>1, NotNoLine DEF Load
  <1>. QED
    BY <1>1, <1>2, <1>3

LEMMA PurgeLoads ==
  ASSUME TypeOK, NEW B \in SUBSET Blocks, Purge(B)
  PROVE  /\ \A b \in Blocks : Load(b)' = Load(b)
         /\ \A b \in B : line'[b] = NoLine
         /\ \A b \in Blocks \ B : line'[b] = line[b] /\ ram'[b] = ram[b]
         /\ ram' \in [Blocks -> Values]
         /\ line' \in [Blocks -> [val : Values, dirty : BOOLEAN] \cup {NoLine}]
  <1>1. \A b \in Blocks : /\ ram'[b] = IF b \in B THEN Load(b) ELSE ram[b]
                          /\ line'[b] = IF b \in B THEN NoLine ELSE line[b]
    BY DEF Purge
  <1>2. /\ ram' \in [Blocks -> Values]
        /\ line' \in [Blocks -> [val : Values, dirty : BOOLEAN] \cup {NoLine}]
    BY LoadTyped DEF Purge, TypeOK
  <1>3. \A b \in Blocks : Load(b)' = Load(b)
    BY <1>1 DEF Load
  <1>. QED
    BY <1>1, <1>2, <1>3

LEMMA EvictLoads ==
  ASSUME TypeOK, LineInv, Evict
  PROVE  /\ \A b \in Blocks \ Mirrors : Load(b)' = Load(b)
         /\ \A b \in Mirrors : ram'[b] = ram[b]
         /\ \A b \in Blocks : line[b] = NoLine => line'[b] = NoLine /\ ram'[b] = ram[b]
         /\ \A b \in Blocks : line'[b] \in {line[b], NoLine}
         /\ ram' \in [Blocks -> Values]
         /\ line' \in [Blocks -> [val : Values, dirty : BOOLEAN] \cup {NoLine}]
  <1>1. PICK e \in Blocks :
          /\ line[e] # NoLine
          /\ line' = [line EXCEPT ![e] = NoLine]
          /\ ram' = IF line[e].dirty THEN [ram EXCEPT ![e] = line[e].val] ELSE ram
    BY DEF Evict
  <1>2. line[e].val \in Values
    BY <1>1 DEF TypeOK
  <1>3. /\ \A b \in Blocks : line'[b] = IF b = e THEN NoLine ELSE line[b]
        /\ line' \in [Blocks -> [val : Values, dirty : BOOLEAN] \cup {NoLine}]
    BY <1>1 DEF TypeOK
  <1>4. CASE line[e].dirty
    <2>1. /\ \A b \in Blocks : ram'[b] = IF b = e THEN line[e].val ELSE ram[b]
          /\ ram' \in [Blocks -> Values]
      BY <1>1, <1>2, <1>4 DEF TypeOK
    <2>2. e \notin Mirrors
      BY <1>1, <1>4 DEF LineInv
    <2>. QED
      BY <1>1, <1>3, <2>1, <2>2 DEF Load
  <1>5. CASE ~line[e].dirty
    <2>1. ram' = ram /\ e \in Mirrors
      BY <1>1, <1>5 DEF LineInv
    <2>. QED
      BY <1>1, <1>3, <2>1 DEF Load, TypeOK
  <1>. QED
    BY <1>4, <1>5
-----------------------------------------------------------------------------
(* The image is the right one, with the patches before the next.           *)
LEMMA PatchKnown ==
  ASSUME PatchInv, pc = "patch"
  PROVE  /\ Version \in Versions
         /\ \A c \in 1 .. Chunks : /\ Load(Stage(c)) = Image(Version, Applied(c))
                                   /\ Applied(c) = {i \in PatchesOf(c) : i < next}
  <1>1. PICK v \in Versions : \A c \in 1 .. Chunks :
          Load(Stage(c)) = Image(v, {i \in PatchesOf(c) : i < next})
    BY DEF PatchInv
  <1>2. 1 \in 1 .. Chunks
    BY LoaderAssumption
  <1>3. \A c \in 1 .. Chunks : Load(Stage(c))[1] = v /\ Applied(c) = {i \in PatchesOf(c) : i < next}
    BY <1>1 DEF Image, Applied
  <1>4. Version = v
    BY <1>2, <1>3 DEF Version
  <1>. QED
    BY <1>1, <1>3, <1>4

LEMMA PatchIndex ==
  /\ Patches = 1 .. Len(PatchAt) /\ Len(PatchAt) \in Nat /\ Len(PatchAt) > 0
  /\ \A i \in Patches : PatchAt[i] \in 1 .. Chunks /\ i \in PatchesOf(PatchAt[i])
  BY LoaderAssumption DEF Patches, PatchesOf

LEMMA PatchValues ==
  ASSUME NEW v \in Versions, NEW a \in SUBSET Patches
  PROVE  Image(v, a) \in Values
  BY DEF Values

LEMMA Unmoved ==
  ASSUME UNCHANGED <<ram, line>>
  PROVE  \A b \in Blocks : Load(b)' = Load(b)
  BY DEF Load

-----------------------------------------------------------------------------
LEMMA InitInv == BootInit => BootInv
  <1>. SUFFICES ASSUME BootInit PROVE BootInv
    OBVIOUS
  <1>1. Thing("loader") \in Values /\ Thing("junk") \in Values
    BY DEF Values
  <1>2. TypeOK
    <2>1. ram \in [Blocks -> Values]
      BY <1>1 DEF BootInit
    <2>2. line \in [Blocks -> [val : Values, dirty : BOOLEAN] \cup {NoLine}]
      BY <1>1, NotNoLine DEF BootInit
    <2>. QED
      BY <2>1, <2>2 DEF BootInit, TypeOK
  <1>3. LineInv
    <2>1. \A b \in Blocks \ Mirrors : line[b] # NoLine => line[b] = Dirty(Thing("loader"))
      BY DEF BootInit
    <2>2. \A b \in Mirrors : b \in Blocks /\ b \notin GameBlocks
      BY Names DEF BlockNames
    <2>3. \A b \in Mirrors : line[b] # NoLine => line[b] = Clean(Thing("junk"))
      BY <2>2 DEF BootInit
    <2>. QED
      BY <1>1, <2>1, <2>3, NotNoLine DEF LineInv, BootInit
  <1>4. PatchInv
    BY DEF BootInit, PatchInv
  <1>5. PlaceInv
    BY DEF BootInit, PlaceInv, HasBeenPlaced, HasBeenPurged, HasBeenCopied, Placed, InStub
  <1>. QED
    BY <1>2, <1>3, <1>4, <1>5 DEF BootInv

-----------------------------------------------------------------------------
LEMMA NextTypes == BootInv /\ [BootNext]_bootVars => TypeOK'
  <1>. SUFFICES ASSUME BootInv, [BootNext]_bootVars PROVE TypeOK'
    OBVIOUS
  <1>a. TypeOK /\ PatchInv /\ LineInv
    BY DEF BootInv
  <1>b. Chunks \in Nat \ {0} /\ MaxPolls \in Nat \ {0}
    BY LoaderAssumption
  <1>1. CASE ReadImage
    <2>1. CASE Halt
      BY <1>a, <2>1 DEF TypeOK, Halt, Goto
    <2>2. CASE \E v \in Versions : /\ Store([b \in StageBlocks |-> Image(v, {})])
                                  /\ Goto("rehearse") /\ UNCHANGED <<irqs, at>>
      <3>1. PICK v \in Versions : /\ Store([b \in StageBlocks |-> Image(v, {})])
                                  /\ Goto("rehearse") /\ UNCHANGED <<irqs, at>>
        BY <2>2
      <3>2. Image(v, {}) \in Values /\ StageBlocks \subseteq Blocks
        BY PatchValues, Names DEF BlockNames
      <3>3. /\ ram' = ram
            /\ line' \in [Blocks -> [val : Values, dirty : BOOLEAN] \cup {NoLine}]
        BY <1>a, <3>1, <3>2, StoreLoads
      <3>. QED
        BY <1>a, <3>1, <3>3 DEF TypeOK, Goto
    <2>. QED
      BY <1>1, <2>1, <2>2 DEF ReadImage
  <1>2. CASE Rehearse
    BY <1>a, <1>b, <1>2 DEF Rehearse, Halt, Goto, TypeOK
  <1>3. CASE Poll
    BY <1>a, <1>b, <1>3, PatchIndex DEF Poll, PollAgain, Halt, Goto, TypeOK
  <1>4. CASE Patch
    <2>1. CASE Halt
      BY <1>a, <2>1 DEF TypeOK, Halt, Goto
    <2>2. CASE /\ next \in Patches
               /\ Store([b \in {Stage(PatchAt[next])} |->
                           Image(Version, Applied(PatchAt[next]) \cup {next})])
               /\ next' = next + 1 /\ UNCHANGED <<pc, irqs, at>>
      <3>1. PatchAt[next] \in 1 .. Chunks /\ next \in 1 .. Len(PatchAt) /\ Len(PatchAt) \in Nat
        BY <2>2, PatchIndex
      <3>2. Stage(PatchAt[next]) \in Blocks
        BY <3>1, Names DEF BlockNames
      <3>3. pc = "patch"
        BY <1>4 DEF Patch
      <3>4. Image(Version, Applied(PatchAt[next]) \cup {next}) \in Values
        BY <1>a, <2>2, <3>1, <3>3, PatchKnown, PatchValues DEF PatchesOf
      <3>5. /\ ram' = ram
            /\ line' \in [Blocks -> [val : Values, dirty : BOOLEAN] \cup {NoLine}]
        BY <1>a, <2>2, <3>2, <3>4, StoreLoads
      <3>. QED
        BY <1>a, <2>2, <3>1, <3>3, <3>5 DEF TypeOK
    <2>3. CASE Goto("place") /\ UNCHANGED <<ram, line, irqs, at>>
      BY <1>a, <2>3 DEF TypeOK, Goto
    <2>. QED
      BY <1>4, <2>1, <2>2, <2>3 DEF Patch
  <1>5. CASE Place
    <2>1. Things \subseteq Blocks /\ \A b \in Things : Wanted(b) \in Values
      BY Names, WantedValues DEF BlockNames
    <2>2. Store([b \in Things |-> Wanted(b)])
      BY <1>5 DEF Place, Things
    <2>3. /\ ram' = ram
          /\ line' \in [Blocks -> [val : Values, dirty : BOOLEAN] \cup {NoLine}]
      BY <1>a, <2>1, <2>2, StoreLoads
    <2>. QED
      BY <1>a, <1>5, <2>3 DEF Place, TypeOK, Goto
  <1>6. CASE ZeroMirrors
    <2>1. Thing("zero") \in Values
      BY DEF Values
    <2>2. ram' \in [Blocks -> Values] /\ line' = line
      BY <1>a, <1>6, <2>1 DEF ZeroMirrors, StoreP2, TypeOK
    <2>. QED
      BY <1>a, <1>6, <2>2 DEF ZeroMirrors, TypeOK, Goto
  <1>7. CASE PlaceStub
    <2>1. Stub \in Blocks /\ Thing("stub") \in Values
      BY Names DEF BlockNames, Values
    <2>2. /\ ram' = ram
          /\ line' \in [Blocks -> [val : Values, dirty : BOOLEAN] \cup {NoLine}]
      BY <1>a, <1>7, <2>1, StoreLoads DEF PlaceStub
    <2>. QED
      BY <1>a, <1>7, <2>2 DEF PlaceStub, TypeOK, Goto
  <1>8. CASE PurgeNext
    <2>1. next \in 1 .. 5
      BY <1>a, <1>8 DEF PurgeNext, TypeOK
    <2>2. PurgeRanges[next] \in SUBSET Blocks
      BY <2>1, RangeBlocks
    <2>3. /\ ram' \in [Blocks -> Values]
          /\ line' \in [Blocks -> [val : Values, dirty : BOOLEAN] \cup {NoLine}]
      BY <1>a, <1>8, <2>2, PurgeLoads DEF PurgeNext
    <2>4. \/ next + 1 \in 1 .. 5 /\ next' = next + 1 /\ pc' = "purge"
          \/ next' = 1 /\ pc' = "quiet"
      BY <1>8, RangeNames DEF PurgeNext, Goto
    <2>5. irqs' = irqs /\ at' = at
      BY <1>8 DEF PurgeNext
    <2>6. CASE next + 1 \in 1 .. 5 /\ next' = next + 1 /\ pc' = "purge"
      BY <1>a, <2>3, <2>5, <2>6 DEF TypeOK
    <2>7. CASE next' = 1 /\ pc' = "quiet"
      BY <1>a, <2>3, <2>5, <2>7 DEF TypeOK
    <2>. QED
      BY <2>4, <2>6, <2>7
  <1>9. CASE Quiet
    <2>1. irqs' \in BOOLEAN /\ at' \in BOOLEAN
      BY <1>9, Zenon DEF Quiet
    <2>2. pc' = "copy" /\ next' = 1 /\ ram' = ram /\ line' = line
      BY <1>9 DEF Quiet, Goto
    <2>. QED
      BY <1>a, <1>b, <2>1, <2>2 DEF TypeOK
  <1>10. CASE Copy
    <2>1. next \in 1 .. Chunks
      BY <1>a, <1>10 DEF Copy, TypeOK
    <2>2. ram' \in [Blocks -> Values]
      BY <1>a, <1>10, <2>1, Names DEF Copy, TypeOK, BlockNames
    <2>. QED
      BY <1>a, <1>b, <1>10, <2>1, <2>2 DEF Copy, TypeOK, Goto
  <1>11. CASE InvalidateCaches
    BY <1>a, <1>11 DEF InvalidateCaches, Goto, TypeOK
  <1>12. CASE Jump
    BY <1>a, <1>12 DEF Jump, Goto, TypeOK
  <1>13. CASE Evict
    <2>1. /\ ram' \in [Blocks -> Values]
          /\ line' \in [Blocks -> [val : Values, dirty : BOOLEAN] \cup {NoLine}]
      BY <1>a, <1>13, EvictLoads
    <2>. QED
      BY <1>a, <1>13, <2>1 DEF Evict, TypeOK
  <1>14. CASE UNCHANGED bootVars
    BY <1>a, <1>14 DEF bootVars, TypeOK
  <1>. QED
    BY <1>1, <1>2, <1>3, <1>4, <1>5, <1>6, <1>7, <1>8, <1>9, <1>10, <1>11, <1>12, <1>13, <1>14
       DEF BootNext, Loader
-----------------------------------------------------------------------------
LEMMA NextPatch == BootInv /\ [BootNext]_bootVars => PatchInv'
  <1>. SUFFICES ASSUME BootInv, [BootNext]_bootVars PROVE PatchInv'
    OBVIOUS
  <1>a. TypeOK /\ PatchInv /\ LineInv
    BY DEF BootInv
  <1>b. \A c \in 1 .. Chunks : Stage(c) \in Blocks \ Mirrors
    BY Names DEF BlockNames, StageBlocks
  <1>1. CASE ReadImage
    <2>1. CASE Halt
      BY <2>1 DEF Halt, Goto, PatchInv
    <2>2. CASE \E v \in Versions : /\ Store([b \in StageBlocks |-> Image(v, {})])
                                  /\ Goto("rehearse") /\ UNCHANGED <<irqs, at>>
      <3>1. PICK v \in Versions : /\ Store([b \in StageBlocks |-> Image(v, {})])
                                  /\ Goto("rehearse") /\ UNCHANGED <<irqs, at>>
        BY <2>2
      <3>2. Image(v, {}) \in Values /\ StageBlocks \subseteq Blocks
        BY PatchValues, Names DEF BlockNames
      <3>3. \A b \in StageBlocks : Load(b)' = Image(v, {})
        BY <1>a, <3>1, <3>2, StoreLoads
      <3>4. \A c \in 1 .. Chunks : Load(Stage(c))' = Image(v, {})
        BY <3>3 DEF StageBlocks
      <3>. QED
        BY <3>1, <3>4 DEF Goto, PatchInv
    <2>. QED
      BY <1>1, <2>1, <2>2 DEF ReadImage
  <1>2. CASE pc' = "halt"
    BY <1>2 DEF PatchInv
  <1>3. CASE Rehearse \/ Poll
    <2>1. \/ pc' = "halt"
          \/ /\ pc \in {"rehearse", "poll"} /\ UNCHANGED <<ram, line>>
             /\ pc' = "poll" \/ (pc' = "patch" /\ next' = 1)
      BY <1>3 DEF Rehearse, Poll, Halt, Goto
    <2>2. CASE pc \in {"rehearse", "poll"} /\ UNCHANGED <<ram, line>>
      <3>1. PICK v \in Versions : \A c \in 1 .. Chunks : Load(Stage(c)) = Image(v, {})
        BY <1>a, <2>2 DEF PatchInv
      <3>2. \A c \in 1 .. Chunks : Load(Stage(c))' = Image(v, {})
        BY <1>b, <2>2, <3>1, Unmoved
      <3>3. \A c \in 1 .. Chunks : {i \in PatchesOf(c) : i < 1} = {}
        BY PatchIndex DEF PatchesOf
      <3>4. 1 \in Patches
        BY PatchIndex
      <3>5. CASE pc' = "poll"
        BY <3>2, <3>5 DEF PatchInv
      <3>6. CASE pc' = "patch" /\ next' = 1
        BY <3>2, <3>3, <3>4, <3>6 DEF PatchInv
      <3>. QED
        BY <1>2, <2>1, <3>5, <3>6
    <2>. QED
      BY <1>2, <2>1, <2>2
  <1>4. CASE Patch
    <2>1. pc = "patch"
      BY <1>4 DEF Patch
    <2>2. CASE /\ next \in Patches
               /\ ~Mismatch(next) \/ (\E i \in Patches : i > next)
               /\ Store([b \in {Stage(PatchAt[next])} |->
                           Image(Version, Applied(PatchAt[next]) \cup {next})])
               /\ next' = next + 1 /\ UNCHANGED <<pc, irqs, at>>
      <3>. DEFINE d == PatchAt[next]
      <3>1. d \in 1 .. Chunks /\ next \in PatchesOf(d) /\ Patches = 1 .. Len(PatchAt)
            /\ next \in 1 .. Len(PatchAt) /\ Len(PatchAt) \in Nat
        BY <2>2, PatchIndex
      <3>2. /\ Version \in Versions
            /\ \A c \in 1 .. Chunks : /\ Load(Stage(c)) = Image(Version, Applied(c))
                                      /\ Applied(c) = {i \in PatchesOf(c) : i < next}
        BY <1>a, <2>1, PatchKnown
      <3>3. Image(Version, Applied(d) \cup {next}) \in Values
        BY <2>2, <3>1, <3>2, PatchValues DEF PatchesOf
      <3>4. \A b \in Blocks : Load(b)' = IF b = Stage(d) THEN Image(Version, Applied(d) \cup {next})
                                        ELSE Load(b)
        <4>. DEFINE vals == [b \in {Stage(d)} |-> Image(Version, Applied(d) \cup {next})]
        <4>1. DOMAIN vals = {Stage(d)} /\ vals[Stage(d)] = Image(Version, Applied(d) \cup {next})
          OBVIOUS
        <4>2. Store(vals) /\ DOMAIN vals \subseteq Blocks /\ \A b \in DOMAIN vals : vals[b] \in Values
          BY <1>b, <2>2, <3>1, <3>3
        <4>. HIDE DEF vals
        <4>3. \A b \in Blocks : Load(b)' = IF b \in DOMAIN vals THEN vals[b] ELSE Load(b)
          BY <1>a, <4>2, StoreLoads
        <4>. QED
          BY <4>1, <4>3
      <3>5. {i \in PatchesOf(d) : i < next + 1} = Applied(d) \cup {next}
        BY <3>1, <3>2 DEF PatchesOf
      <3>6. \A c \in 1 .. Chunks : c # d => {i \in PatchesOf(c) : i < next + 1} = Applied(c)
        BY <3>1, <3>2 DEF PatchesOf
      <3>7. \A c \in 1 .. Chunks :
              Load(Stage(c))' = Image(Version, {i \in PatchesOf(c) : i < next + 1})
        BY <1>b, <3>1, <3>2, <3>4, <3>5, <3>6, Names DEF BlockNames
      <3>8. next + 1 \notin Patches => Version = "right"
        BY <2>2, <3>1, <3>2 DEF Mismatch, Versions
      <3>9. Version' = Version
        <4>1. 1 \in 1 .. Chunks
          BY LoaderAssumption
        <4>2. Load(Stage(1))' = Image(Version, {i \in PatchesOf(1) : i < next + 1})
          BY <4>1, <3>7
        <4>. QED
          BY <4>2 DEF Image, Version
      <3>10. pc' = "patch" /\ next' = next + 1
        BY <2>1, <2>2
      <3>11. \E v \in Versions : \A c \in 1 .. Chunks :
               Load(Stage(c))' = Image(v, {i \in PatchesOf(c) : i < next + 1})
        BY <3>2, <3>7
      <3>. QED
        BY <3>8, <3>9, <3>10, <3>11 DEF PatchInv
    <2>3. CASE Halt \/ Goto("place")
      BY <2>3 DEF Halt, Goto, PatchInv
    <2>. QED
      BY <1>4, <2>2, <2>3 DEF Patch
  <1>5. CASE /\ pc \notin {"read", "rehearse", "poll", "patch"}
             /\ pc' \notin {"rehearse", "poll", "patch"}
    BY <1>5 DEF PatchInv
  <1>6. CASE Evict
    <2>1. \A c \in 1 .. Chunks : Load(Stage(c))' = Load(Stage(c))
      BY <1>a, <1>b, <1>6, EvictLoads
    <2>2. Version' = Version
      BY <2>1, LoaderAssumption DEF Version
    <2>3. pc' = pc /\ next' = next
      BY <1>6 DEF Evict
    <2>. QED
      BY <1>a, <2>1, <2>2, <2>3 DEF PatchInv
  <1>7. CASE UNCHANGED bootVars
    <2>1. \A c \in 1 .. Chunks : Load(Stage(c))' = Load(Stage(c))
      BY <1>b, <1>7, Unmoved DEF bootVars
    <2>2. Version' = Version
      BY <2>1, LoaderAssumption DEF Version
    <2>. QED
      BY <1>a, <1>7, <2>1, <2>2 DEF PatchInv, bootVars
  <1>8. Loader => \/ ReadImage \/ Rehearse \/ Poll \/ Patch
                  \/ /\ pc \notin {"read", "rehearse", "poll", "patch"}
                     /\ pc' \notin {"rehearse", "poll", "patch"}
    <2>1. Place => pc = "place" /\ pc' = "mirrors"
      BY DEF Place, Goto
    <2>2. ZeroMirrors => pc = "mirrors" /\ pc' = "stub"
      BY DEF ZeroMirrors, Goto
    <2>3. PlaceStub => pc = "stub" /\ pc' = "purge"
      BY DEF PlaceStub, Goto
    <2>4. PurgeNext => pc = "purge" /\ pc' \in {"purge", "quiet"}
      BY DEF PurgeNext, Goto
    <2>5. Quiet => pc = "quiet" /\ pc' = "copy"
      BY DEF Quiet, Goto
    <2>6. Copy => pc = "copy" /\ pc' \in {"copy", "ccr"}
      BY DEF Copy, Goto
    <2>7. InvalidateCaches => pc = "ccr" /\ pc' = "jump"
      BY DEF InvalidateCaches, Goto
    <2>8. Jump => pc = "jump" /\ pc' = "game"
      BY DEF Jump, Goto
    <2>. QED
      BY <2>1, <2>2, <2>3, <2>4, <2>5, <2>6, <2>7, <2>8 DEF Loader
  <1>. QED
    BY <1>1, <1>3, <1>4, <1>5, <1>6, <1>7, <1>8 DEF BootNext

-----------------------------------------------------------------------------
LEMMA StoreLines ==
  ASSUME TypeOK, LineInv, NEW vals, DOMAIN vals \subseteq Blocks \ Mirrors, Store(vals),
         \A b \in DOMAIN vals : vals[b] \in Values, pc' \notin {"jump", "game"}
  PROVE  LineInv'
  <1>1. /\ \A b \in DOMAIN vals : line'[b] = Dirty(vals[b])
        /\ \A b \in Blocks \ DOMAIN vals : line'[b] = line[b]
    BY StoreLoads
  <1>2. \A b \in DOMAIN vals : line'[b].dirty
    BY <1>1, NotNoLine
  <1>3. Mirrors \subseteq Blocks
    BY Names DEF BlockNames
  <1>. QED
    BY <1>1, <1>2, <1>3 DEF LineInv

LEMMA NextLine == BootInv /\ [BootNext]_bootVars => LineInv'
  <1>. SUFFICES ASSUME BootInv, [BootNext]_bootVars PROVE LineInv'
    OBVIOUS
  <1>a. TypeOK /\ PatchInv /\ LineInv
    BY DEF BootInv
  <1>b. /\ StageBlocks \cup Things \cup {Stub} \subseteq Blocks \ Mirrors
        /\ \A c \in 1 .. Chunks : Stage(c) \in Blocks \ Mirrors
    BY Names DEF BlockNames, StageBlocks
  <1>1. CASE line' = line /\ pc' \notin {"jump", "game"}
    BY <1>a, <1>1 DEF LineInv
  <1>2. CASE ReadImage
    <2>1. CASE Halt
      BY <1>1, <2>1 DEF Halt, Goto
    <2>2. CASE \E v \in Versions : /\ Store([b \in StageBlocks |-> Image(v, {})])
                                  /\ Goto("rehearse") /\ UNCHANGED <<irqs, at>>
      <3>1. PICK v \in Versions : /\ Store([b \in StageBlocks |-> Image(v, {})])
                                  /\ Goto("rehearse") /\ UNCHANGED <<irqs, at>>
        BY <2>2
      <3>2. Image(v, {}) \in Values
        BY PatchValues
      <3>3. pc' \notin {"jump", "game"}
        BY <3>1 DEF Goto
      <3>. QED
        BY <1>a, <1>b, <3>1, <3>2, <3>3, StoreLines
    <2>. QED
      BY <1>2, <2>1, <2>2 DEF ReadImage
  <1>3. CASE Rehearse \/ Poll \/ ZeroMirrors \/ Quiet \/ Copy
    BY <1>1, <1>3 DEF Rehearse, Poll, ZeroMirrors, Quiet, Copy, Halt, Goto, StoreP2
  <1>4. CASE Patch
    <2>1. pc = "patch"
      BY <1>4 DEF Patch
    <2>2. CASE /\ next \in Patches
               /\ Store([b \in {Stage(PatchAt[next])} |->
                           Image(Version, Applied(PatchAt[next]) \cup {next})])
               /\ next' = next + 1 /\ UNCHANGED <<pc, irqs, at>>
      <3>1. PatchAt[next] \in 1 .. Chunks
        BY <2>2, PatchIndex
      <3>2. Image(Version, Applied(PatchAt[next]) \cup {next}) \in Values
        BY <1>a, <2>1, <2>2, <3>1, PatchKnown, PatchValues DEF PatchesOf
      <3>3. pc' \notin {"jump", "game"}
        BY <2>1, <2>2
      <3>. QED
        BY <1>a, <1>b, <2>2, <3>1, <3>2, <3>3, StoreLines
    <2>3. CASE Halt \/ (Goto("place") /\ UNCHANGED <<ram, line, irqs, at>>)
      BY <1>1, <2>3 DEF Halt, Goto
    <2>. QED
      BY <1>4, <2>2, <2>3 DEF Patch
  <1>5. CASE Place
    <2>1. \A b \in Things : Wanted(b) \in Values
      BY <1>b, WantedValues
    <2>2. Store([b \in Things |-> Wanted(b)]) /\ pc' \notin {"jump", "game"}
      BY <1>5 DEF Place, Things, Goto
    <2>. QED
      BY <1>a, <1>b, <2>1, <2>2, StoreLines
  <1>6. CASE PlaceStub
    <2>1. Thing("stub") \in Values
      BY DEF Values
    <2>2. Store([b \in {Stub} |-> Thing("stub")]) /\ pc' \notin {"jump", "game"}
      BY <1>6 DEF PlaceStub, Goto
    <2>. QED
      BY <1>a, <1>b, <2>1, <2>2, StoreLines
  <1>7. CASE PurgeNext
    <2>1. next \in 1 .. 5
      BY <1>a, <1>7 DEF PurgeNext, TypeOK
    <2>2. PurgeRanges[next] \in SUBSET Blocks
      BY <2>1, RangeBlocks
    <2>3. \A b \in Blocks : line'[b] \in {line[b], NoLine}
      BY <1>a, <1>7, <2>2, PurgeLoads DEF PurgeNext
    <2>4. pc' \notin {"jump", "game"}
      BY <1>7 DEF PurgeNext, Goto
    <2>5. Mirrors \subseteq Blocks
      BY Names DEF BlockNames
    <2>. QED
      BY <1>a, <2>3, <2>4, <2>5 DEF LineInv
  <1>8. CASE InvalidateCaches
    <2>1. \A b \in Blocks : line'[b] = NoLine
      BY <1>8 DEF InvalidateCaches
    <2>2. Mirrors \subseteq Blocks
      BY Names DEF BlockNames
    <2>. QED
      BY <2>1, <2>2 DEF LineInv
  <1>9. CASE Jump
    BY <1>a, <1>9 DEF Jump, LineInv
  <1>10. CASE Evict
    <2>1. \A b \in Blocks : line'[b] \in {line[b], NoLine}
      BY <1>a, <1>10, EvictLoads
    <2>2. pc' = pc
      BY <1>10 DEF Evict
    <2>3. Mirrors \subseteq Blocks
      BY Names DEF BlockNames
    <2>. QED
      BY <1>a, <2>1, <2>2, <2>3 DEF LineInv
  <1>11. CASE UNCHANGED bootVars
    BY <1>a, <1>11 DEF bootVars, LineInv
  <1>. QED
    BY <1>2, <1>3, <1>4, <1>5, <1>6, <1>7, <1>8, <1>9, <1>10, <1>11 DEF BootNext, Loader
-----------------------------------------------------------------------------
(* The parts of PlaceInv, to be disturbed one at a time.                   *)
PlacedLoads == \A b \in Blocks : HasBeenPlaced(b) => Load(b) = Wanted(b)
PurgedGone  == \A b \in Blocks : HasBeenPurged(b) => line[b] = NoLine
MirrorsZero ==
  pc \in Placed \ {"place", "mirrors"} => \A b \in Mirrors : ram[b] = Thing("zero")
CopiedGame  == \A c \in 1 .. Chunks : HasBeenCopied(c) => ram[Game(c)] = Wanted(Game(c))
StubAlone   == InStub => ~irqs

LEMMA PlaceParts ==
  PlaceInv <=> PlacedLoads /\ PurgedGone /\ MirrorsZero /\ CopiedGame /\ StubAlone
  BY DEF PlaceInv, PlacedLoads, PurgedGone, MirrorsZero, CopiedGame, StubAlone

(* What the stages after the purges may count on.                          *)
LEMMA AllPurged ==
  ASSUME PlaceInv, pc \in {"quiet", "copy", "ccr", "jump", "game"},
         NEW b \in StageBlocks \cup Things \cup {Stub}
  PROVE  line[b] = NoLine /\ Load(b) = ram[b] /\ ram[b] = Wanted(b)
  <1>1. b \in Blocks
    BY Names DEF BlockNames
  <1>2. HasBeenPurged(b)
    BY RangeBlocks, RangeNames DEF HasBeenPurged
  <1>3. HasBeenPlaced(b)
    BY DEF HasBeenPlaced, Placed, Things
  <1>. QED
    BY <1>1, <1>2, <1>3 DEF PlaceInv, Load

(* Nothing has been placed yet.                                            *)
LEMMA NotYet ==
  ASSUME pc \notin Placed
  PROVE  PlaceInv
  BY DEF PlaceInv, HasBeenPlaced, HasBeenPurged, HasBeenCopied, Placed, InStub

LEMMA NextPlace == BootInv /\ [BootNext]_bootVars => PlaceInv'
  <1>. SUFFICES ASSUME BootInv, [BootNext]_bootVars PROVE PlaceInv'
    OBVIOUS
  <1>a. TypeOK /\ PatchInv /\ LineInv /\ PlaceInv
    BY DEF BootInv
  <1>b. PlacedLoads /\ PurgedGone /\ MirrorsZero /\ CopiedGame /\ StubAlone
    BY <1>a, PlaceParts
  <1>c. /\ Blocks = StageBlocks \cup GameBlocks \cup Mirrors \cup Things \cup {Stub}
        /\ StageBlocks \cap (Things \cup {Stub}) = {} /\ Stub \notin Things
        /\ Mirrors \cap (StageBlocks \cup GameBlocks \cup Things \cup {Stub}) = {}
        /\ GameBlocks \cap (StageBlocks \cup Things \cup {Stub}) = {}
    BY Names DEF BlockNames
  <1>1. CASE pc' \notin Placed
    <2>1. PlaceInv'
      BY <1>1 DEF PlaceInv, HasBeenPlaced, HasBeenPurged, HasBeenCopied, Placed, InStub
    <2>. QED
      BY <2>1
  <1>2. CASE ReadImage \/ Rehearse \/ Poll
    BY <1>1, <1>2 DEF ReadImage, Rehearse, Poll, Halt, Goto, Placed
  <1>3. CASE Patch
    <2>1. pc = "patch"
      BY <1>3 DEF Patch
    <2>2. CASE pc' \in {"patch", "halt"}
      BY <1>1, <2>2 DEF Placed
    <2>3. CASE next \notin Patches /\ Goto("place") /\ UNCHANGED <<ram, line, irqs, at>>
      <3>1. \A c \in 1 .. Chunks : {i \in PatchesOf(c) : i < next} = PatchesOf(c)
        <4>1. next = Len(PatchAt) + 1
          BY <1>a, <2>1, <2>3, PatchIndex DEF TypeOK
        <4>. QED
          BY <4>1, PatchIndex DEF PatchesOf
      <3>2. \A c \in 1 .. Chunks : Load(Stage(c)) = Wanted(Stage(c))
        <4>1. Version = "right"
          BY <1>a, <2>1, <2>3 DEF PatchInv
        <4>. QED
          BY <1>a, <2>1, <3>1, <4>1, PatchKnown, WantedValues
      <3>3. \A b \in StageBlocks : Load(b)' = Wanted(b)
        BY <1>c, <2>3, <3>2, Unmoved DEF StageBlocks
      <3>4. pc' = "place"
        BY <2>3 DEF Goto
      <3>. QED
        BY <3>3, <3>4 DEF PlaceInv, HasBeenPlaced, HasBeenPurged, HasBeenCopied, InStub
    <2>. QED
      BY <1>3, <2>1, <2>2, <2>3 DEF Patch, Halt, Goto
  <1>4. CASE Place
    <2>1. pc = "place" /\ pc' = "mirrors"
      BY <1>4 DEF Place, Goto
    <2>2. Store([b \in Things |-> Wanted(b)]) /\ Things \subseteq Blocks
      BY <1>c, <1>4 DEF Place, Things
    <2>3. \A b \in Things : Wanted(b) \in Values
      BY <2>2, WantedValues
    <2>4. \A b \in Blocks : Load(b)' = IF b \in Things THEN Wanted(b) ELSE Load(b)
      BY <1>a, <2>2, <2>3, StoreLoads
    <2>5. \A b \in StageBlocks : Load(b) = Wanted(b)
      BY <1>b, <1>c, <2>1 DEF PlacedLoads, HasBeenPlaced, Placed
    <2>6. PlacedLoads'
      BY <1>c, <2>1, <2>4, <2>5 DEF PlacedLoads, HasBeenPlaced, Things
    <2>. QED
      BY <2>1, <2>6 DEF PlaceInv, PlacedLoads, HasBeenPurged, HasBeenCopied, InStub
  <1>5. CASE ZeroMirrors
    <2>1. pc = "mirrors" /\ pc' = "stub"
      BY <1>5 DEF ZeroMirrors, Goto
    <2>2. /\ line' = line
          /\ \A b \in Blocks : ram'[b] = IF b \in Mirrors THEN Thing("zero") ELSE ram[b]
      BY <1>5 DEF ZeroMirrors, StoreP2
    <2>3. \A b \in StageBlocks \cup Things : Load(b)' = Load(b)
      BY <1>c, <2>2 DEF Load
    <2>4. \A b \in StageBlocks \cup Things : Load(b) = Wanted(b)
      BY <1>b, <1>c, <2>1 DEF PlacedLoads, HasBeenPlaced, Placed, Things
    <2>5. PlacedLoads'
      BY <2>1, <2>3, <2>4 DEF PlacedLoads, HasBeenPlaced, Things
    <2>6. MirrorsZero'
      BY <1>c, <2>2 DEF MirrorsZero
    <2>. QED
      BY <2>1, <2>5, <2>6 DEF PlaceInv, PlacedLoads, MirrorsZero, HasBeenPurged, HasBeenCopied, InStub
  <1>6. CASE PlaceStub
    <2>1. pc = "stub" /\ pc' = "purge" /\ next' = 1
      BY <1>6 DEF PlaceStub, Goto
    <2>2. Store([b \in {Stub} |-> Wanted(b)]) /\ Stub \in Blocks /\ Wanted(Stub) \in Values
      BY <1>c, <1>6, WantedValues DEF PlaceStub
    <2>3. /\ \A b \in Blocks : Load(b)' = IF b = Stub THEN Wanted(b) ELSE Load(b)
          /\ ram' = ram
      BY <1>a, <2>2, StoreLoads
    <2>4. \A b \in StageBlocks \cup Things : Load(b) = Wanted(b)
      BY <1>b, <1>c, <2>1 DEF PlacedLoads, HasBeenPlaced, Placed, Things
    <2>5. PlacedLoads'
      BY <1>c, <2>1, <2>3, <2>4 DEF PlacedLoads, HasBeenPlaced, Things
    <2>6. MirrorsZero'
      BY <1>b, <2>1, <2>3 DEF MirrorsZero, Placed
    <2>7. PurgedGone'
      BY <2>1, RangeNames DEF PurgedGone, HasBeenPurged
    <2>. QED
      BY <2>1, <2>5, <2>6, <2>7 DEF PlaceInv, PlacedLoads, MirrorsZero, PurgedGone, HasBeenCopied, InStub
  <1>7. CASE PurgeNext
    <2>1. next \in 1 .. 5 /\ pc = "purge" /\ Purge(PurgeRanges[next])
      BY <1>a, <1>7 DEF PurgeNext, TypeOK
    <2>2. \/ pc' = "purge" /\ next' = next + 1
          \/ pc' = "quiet" /\ next = 5
      BY <1>7, <2>1, RangeNames DEF PurgeNext, Goto
    <2>3. PurgeRanges[next] \in SUBSET Blocks /\ PurgeRanges[next] \cap Mirrors = {}
      BY <2>1, RangeBlocks
    <2>4. /\ \A b \in Blocks : Load(b)' = Load(b)
          /\ \A b \in PurgeRanges[next] : line'[b] = NoLine
          /\ \A b \in Blocks \ PurgeRanges[next] : line'[b] = line[b] /\ ram'[b] = ram[b]
      BY <1>a, <2>1, <2>3, PurgeLoads
    <2>5. PlacedLoads'
      <3>1. \A b \in Blocks : HasBeenPlaced(b)' => HasBeenPlaced(b)
        BY <2>1, <2>2 DEF HasBeenPlaced, Placed
      <3>2. \A b \in Blocks : HasBeenPlaced(b)' => Load(b)' = Wanted(b)
        BY <1>b, <2>4, <3>1 DEF PlacedLoads
      <3>. QED
        BY <3>2 DEF PlacedLoads
    <2>6. MirrorsZero'
      <3>1. \A b \in Mirrors : ram[b] = Thing("zero")
        BY <1>b, <2>1 DEF MirrorsZero, Placed
      <3>2. \A b \in Mirrors : b \in Blocks \ PurgeRanges[next]
        BY <1>c, <2>3
      <3>. QED
        BY <2>4, <3>1, <3>2 DEF MirrorsZero
    <2>7. PurgedGone'
      <3>1. \A b \in Blocks : HasBeenPurged(b)' => b \in PurgeRanges[next] \/ HasBeenPurged(b)
        BY <2>1, <2>2, RangeNames DEF HasBeenPurged
      <3>2. \A b \in Blocks : HasBeenPurged(b)' => line'[b] = NoLine
        BY <1>b, <2>3, <2>4, <3>1 DEF PurgedGone
      <3>. QED
        BY <3>2 DEF PurgedGone
    <2>8. CopiedGame' /\ StubAlone'
      BY <2>2 DEF CopiedGame, HasBeenCopied, StubAlone, InStub
    <2>. QED
      BY <2>5, <2>6, <2>7, <2>8
         DEF PlaceInv, PlacedLoads, MirrorsZero, PurgedGone, CopiedGame, StubAlone
  <1>8. CASE Quiet
    <2>1. pc = "quiet" /\ pc' = "copy" /\ next' = 1 /\ ~irqs' /\ UNCHANGED <<ram, line>>
      BY <1>8 DEF Quiet, Goto
    <2>2. PlacedLoads'
      <3>1. \A b \in Blocks : HasBeenPlaced(b)' => HasBeenPlaced(b)
        BY <2>1 DEF HasBeenPlaced, Placed
      <3>2. \A b \in Blocks : HasBeenPlaced(b)' => Load(b)' = Wanted(b)
        BY <1>b, <2>1, <3>1, Unmoved DEF PlacedLoads
      <3>. QED
        BY <3>2 DEF PlacedLoads
    <2>3. PurgedGone'
      BY <1>b, <2>1 DEF PurgedGone, HasBeenPurged
    <2>4. MirrorsZero'
      BY <1>b, <2>1 DEF MirrorsZero, Placed
    <2>5. CopiedGame'
      BY <2>1 DEF CopiedGame, HasBeenCopied
    <2>6. StubAlone'
      BY <2>1 DEF StubAlone
    <2>. QED
      BY <2>2, <2>3, <2>4, <2>5, <2>6
         DEF PlaceInv, PlacedLoads, MirrorsZero, PurgedGone, CopiedGame, StubAlone
  <1>9. CASE Copy
    <2>1. /\ pc = "copy" /\ next \in 1 .. Chunks /\ line' = line /\ irqs' = irqs
          /\ \/ pc' = "copy" /\ next' = next + 1
             \/ pc' = "ccr" /\ next = Chunks
      BY <1>a, <1>9, LoaderAssumption DEF Copy, TypeOK, Goto
    <2>2. \A b \in Blocks : ram'[b] = IF b = Game(next) THEN ram[Stage(next)] ELSE ram[b]
      BY <1>a, <1>9, <2>1, Names DEF Copy, TypeOK, BlockNames
    <2>3. Stage(next) \in StageBlocks /\ Game(next) \in GameBlocks
      BY <2>1 DEF StageBlocks, GameBlocks
    <2>4. ram[Stage(next)] = Wanted(Stage(next))
      BY <1>a, <2>1, <2>3, AllPurged
    <2>5. ram[Stage(next)] = Wanted(Game(next))
      BY <2>1, <2>4, WantedValues
    <2>6. PlacedLoads'
      <3>1. \A b \in Blocks : HasBeenPlaced(b)' => HasBeenPlaced(b) /\ b # Game(next)
        BY <1>c, <2>1, <2>3 DEF HasBeenPlaced, Placed, Things
      <3>2. \A b \in Blocks : b # Game(next) => Load(b)' = Load(b)
        BY <2>1, <2>2 DEF Load
      <3>3. \A b \in Blocks : HasBeenPlaced(b)' => Load(b)' = Wanted(b)
        BY <1>b, <3>1, <3>2 DEF PlacedLoads
      <3>. QED
        BY <3>3 DEF PlacedLoads
    <2>7. PurgedGone'
      BY <1>b, <2>1 DEF PurgedGone, HasBeenPurged
    <2>8. MirrorsZero'
      BY <1>b, <1>c, <2>1, <2>2, <2>3 DEF MirrorsZero, Placed
    <2>9. CopiedGame'
      <3>1. \A c \in 1 .. Chunks : HasBeenCopied(c)' => c = next \/ HasBeenCopied(c)
        BY <2>1, LoaderAssumption DEF HasBeenCopied
      <3>2. \A c \in 1 .. Chunks : Game(c) \in Blocks /\ (c # next => Game(c) # Game(next))
        BY <2>1, Names DEF BlockNames
      <3>3. \A c \in 1 .. Chunks : HasBeenCopied(c)' => ram'[Game(c)] = Wanted(Game(c))
        BY <1>b, <2>2, <2>5, <3>1, <3>2 DEF CopiedGame
      <3>. QED
        BY <3>3 DEF CopiedGame
    <2>10. StubAlone'
      BY <1>b, <2>1 DEF StubAlone, InStub
    <2>. QED
      BY <2>6, <2>7, <2>8, <2>9, <2>10
         DEF PlaceInv, PlacedLoads, MirrorsZero, PurgedGone, CopiedGame, StubAlone
  <1>10. CASE InvalidateCaches
    <2>1. /\ pc = "ccr" /\ pc' = "jump" /\ ram' = ram /\ irqs' = irqs
          /\ \A b \in Blocks : line'[b] = NoLine
      BY <1>10 DEF InvalidateCaches, Goto
    <2>2. PlacedLoads'
      <3>1. \A b \in Blocks : HasBeenPlaced(b)' => b \in StageBlocks \cup Things \cup {Stub}
        BY DEF HasBeenPlaced, Things
      <3>2. \A b \in Blocks : HasBeenPlaced(b)' => ram[b] = Wanted(b)
        BY <1>a, <2>1, <3>1, AllPurged
      <3>3. \A b \in Blocks : HasBeenPlaced(b)' => Load(b)' = Wanted(b)
        BY <2>1, <3>2 DEF Load
      <3>. QED
        BY <3>3 DEF PlacedLoads
    <2>3. PurgedGone'
      BY <2>1 DEF PurgedGone
    <2>4. MirrorsZero'
      BY <1>b, <2>1 DEF MirrorsZero, Placed
    <2>5. CopiedGame'
      BY <1>b, <2>1 DEF CopiedGame, HasBeenCopied
    <2>6. StubAlone'
      BY <1>b, <2>1 DEF StubAlone, InStub
    <2>. QED
      BY <2>2, <2>3, <2>4, <2>5, <2>6
         DEF PlaceInv, PlacedLoads, MirrorsZero, PurgedGone, CopiedGame, StubAlone
  <1>11. CASE Jump
    <2>1. pc = "jump" /\ pc' = "game" /\ UNCHANGED <<ram, line, irqs>>
      BY <1>11 DEF Jump, Goto
    <2>2. PlacedLoads'
      <3>1. \A b \in Blocks : HasBeenPlaced(b)' => HasBeenPlaced(b)
        BY <2>1 DEF HasBeenPlaced, Placed
      <3>2. \A b \in Blocks : HasBeenPlaced(b)' => Load(b)' = Wanted(b)
        BY <1>b, <2>1, <3>1, Unmoved DEF PlacedLoads
      <3>. QED
        BY <3>2 DEF PlacedLoads
    <2>3. PurgedGone'
      BY <1>b, <2>1 DEF PurgedGone, HasBeenPurged
    <2>4. MirrorsZero'
      BY <1>b, <2>1 DEF MirrorsZero, Placed
    <2>5. CopiedGame'
      BY <1>b, <2>1 DEF CopiedGame, HasBeenCopied
    <2>6. StubAlone'
      BY <1>b, <2>1 DEF StubAlone, InStub
    <2>. QED
      BY <2>2, <2>3, <2>4, <2>5, <2>6
         DEF PlaceInv, PlacedLoads, MirrorsZero, PurgedGone, CopiedGame, StubAlone
  <1>12. CASE Evict
    <2>1. pc' = pc /\ next' = next /\ irqs' = irqs /\ pc # "game" /\ ~InStub
      BY <1>b, <1>12 DEF Evict, CachedCode, StubAlone
    <2>2. /\ \A b \in Blocks \ Mirrors : Load(b)' = Load(b)
          /\ \A b \in Mirrors : ram'[b] = ram[b]
          /\ \A b \in Blocks : line'[b] \in {line[b], NoLine}
      BY <1>a, <1>12, EvictLoads
    <2>3. PlacedLoads'
      <3>1. \A b \in Blocks : HasBeenPlaced(b)' => HasBeenPlaced(b) /\ b \notin Mirrors
        BY <1>c, <2>1 DEF HasBeenPlaced, Things
      <3>2. \A b \in Blocks : HasBeenPlaced(b)' => Load(b)' = Wanted(b)
        BY <1>b, <2>2, <3>1 DEF PlacedLoads
      <3>. QED
        BY <3>2 DEF PlacedLoads
    <2>4. PurgedGone'
      <3>1. \A b \in Blocks : HasBeenPurged(b)' => HasBeenPurged(b)
        BY <2>1 DEF HasBeenPurged
      <3>2. \A b \in Blocks : HasBeenPurged(b)' => line'[b] = NoLine
        BY <1>b, <2>2, <3>1 DEF PurgedGone
      <3>. QED
        BY <3>2 DEF PurgedGone
    <2>5. MirrorsZero'
      BY <1>b, <2>1, <2>2 DEF MirrorsZero
    <2>6. CopiedGame'
      BY <2>1 DEF CopiedGame, HasBeenCopied, InStub
    <2>7. StubAlone'
      BY <2>1 DEF StubAlone, InStub
    <2>. QED
      BY <2>3, <2>4, <2>5, <2>6, <2>7
         DEF PlaceInv, PlacedLoads, MirrorsZero, PurgedGone, CopiedGame, StubAlone
  <1>13. CASE UNCHANGED bootVars
    BY <1>a, <1>13 DEF bootVars, PlaceInv, HasBeenPlaced, HasBeenPurged, HasBeenCopied, InStub, Load
  <1>. QED
    BY <1>2, <1>3, <1>4, <1>5, <1>6, <1>7, <1>8, <1>9, <1>10, <1>11, <1>12, <1>13
       DEF BootNext, Loader

-----------------------------------------------------------------------------
(* What the loader has placed, written back and copied by each stage, and  *)
(* what the cache may still hold of it (main.c:102-302, handoff.S:18-77).  *)
THEOREM Invariance == BootSpec => []BootInv
  <1>1. BootInit => BootInv
    BY InitInv
  <1>2. BootInv /\ [BootNext]_bootVars => BootInv'
    BY NextTypes, NextPatch, NextLine, NextPlace DEF BootInv
  <1>. QED
    BY <1>1, <1>2, PTL DEF BootSpec

LEMMA StubAndImage == BootInv => LoaderInv
  <1>. SUFFICES ASSUME BootInv PROVE LoaderInv
    OBVIOUS
  <1>1. TypeOK /\ PlaceInv
    BY DEF BootInv
  <1>2. StubIsSafe
    BY <1>1, AllPurged DEF StubIsSafe, InStub
  <1>3. OnlyVerified
    BY <1>1, AllPurged DEF OnlyVerified, StageBlocks
  <1>. QED
    BY <1>1, <1>2, <1>3 DEF LoaderInv

(* The stub that replaces the loader is fetched whole from RAM for as long *)
(* as it runs, and copies nothing but the image whose every old byte was   *)
(* compared, with every patch in it (main.c:123-136, 202, 237-245).        *)
THEOREM OnlyTheVerifiedImage == BootSpec => []LoaderInv
  BY Invariance, StubAndImage, PTL

LEMMA WholeAtEntry == BootInv => GameStartsWhole
  <1>. SUFFICES ASSUME BootInv, pc = "game", NEW b \in GameUses
                PROVE  ram[b] = Wanted(b) /\ Load(b) = ram[b]
    BY DEF GameStartsWhole
  <1>1. LineInv /\ PlaceInv
    BY DEF BootInv
  <1>2. b \in Blocks
    BY Names DEF BlockNames, GameUses, Things
  <1>3. Load(b) = ram[b]
    BY <1>1, <1>2 DEF LineInv, Load
  <1>a. CopiedGame /\ MirrorsZero
    BY <1>1, PlaceParts
  <1>4. CASE b \in GameBlocks
    <2>1. \A c \in 1 .. Chunks : ram[Game(c)] = Wanted(Game(c))
      BY <1>a DEF CopiedGame, HasBeenCopied
    <2>2. ram[b] = Wanted(b)
      BY <1>4, <2>1 DEF GameBlocks
    <2>. QED
      BY <1>3, <2>2
  <1>5. CASE b \in Mirrors
    <2>1. ram[b] = Thing("zero")
      BY <1>a, <1>5 DEF MirrorsZero, Placed
    <2>2. Wanted(b) = Thing("zero")
      BY <1>5, WantedValues
    <2>. QED
      BY <1>3, <2>1, <2>2
  <1>6. CASE b \in Things
    BY <1>1, <1>6, AllPurged
  <1>. QED
    BY <1>3, <1>4, <1>5, <1>6 DEF GameUses, Things

(* However the cache wrote back its lines and when, the game that is       *)
(* entered finds in RAM and through the cache alike the patched image, the *)
(* shim with a zeroed .bss, the BIOS slices and the zeroed mirrors         *)
(* (main.c:202-249, 293-295; handoff.S:18-31).                             *)
THEOREM StartsWhole == BootSpec => []GameStartsWhole
  BY Invariance, WholeAtEntry, PTL

-----------------------------------------------------------------------------
(* What a stage leaves to do lies between that of the stages around it.    *)
LEMMA StepsTyped ==
  ASSUME TypeOK
  PROVE  StepsLeft \in 0 .. Chunks + Len(PatchAt) + MaxPolls + 14
  <1>1. Chunks \in Nat \ {0} /\ MaxPolls \in Nat \ {0} /\ Len(PatchAt) \in Nat
    BY LoaderAssumption, PatchIndex
  <1>2. /\ pc = "poll" => next \in 1 .. MaxPolls
        /\ pc = "patch" => next \in 1 .. Len(PatchAt) + 1
        /\ pc = "purge" => next \in 1 .. 5
        /\ pc = "copy" => next \in 1 .. Chunks
    BY DEF TypeOK
  <1>3. PICK c \in Nat \ {0}, m \in Nat \ {0}, p \in Nat : c = Chunks /\ m = MaxPolls /\ p = Len(PatchAt)
    BY <1>1
  <1>4. /\ pc = "read" => StepsLeft = c + 11 + p + m + 3
        /\ pc = "rehearse" => StepsLeft = c + 11 + p + m + 2
        /\ pc = "poll" => StepsLeft = c + 11 + p + m + 2 - next
        /\ pc = "patch" => StepsLeft = c + 11 + p + 2 - next
        /\ pc = "place" => StepsLeft = c + 11
        /\ pc = "mirrors" => StepsLeft = c + 10
        /\ pc = "stub" => StepsLeft = c + 9
        /\ pc = "purge" => StepsLeft = c + 9 - next
        /\ pc = "quiet" => StepsLeft = c + 3
        /\ pc = "copy" => StepsLeft = c + 3 - next
        /\ pc = "ccr" => StepsLeft = 2
        /\ pc = "jump" => StepsLeft = 1
        /\ pc \in {"halt", "game"} => StepsLeft = 0
    BY <1>3 DEF StepsLeft, AfterPatches
  <1>. QED
    BY <1>2, <1>3, <1>4 DEF TypeOK

LEMMA LoaderShrinks ==
  ASSUME TypeOK, Loader
  PROVE  StepsLeft' < StepsLeft
  <1>. DEFINE C == Chunks
              P == Len(PatchAt)
  <1>1. C \in Nat \ {0} /\ MaxPolls \in Nat \ {0} /\ P \in Nat /\ Patches = 1 .. P
    BY LoaderAssumption, PatchIndex
  <1>. USE DEF StepsLeft, AfterPatches, Goto, Halt
  <1>2. CASE ReadImage
    BY <1>1, <1>2 DEF ReadImage
  <1>3. CASE Rehearse
    BY <1>1, <1>3 DEF Rehearse
  <1>4. CASE Poll
    <2>1. next \in 1 .. MaxPolls /\ pc = "poll"
      BY <1>4 DEF Poll, TypeOK
    <2>. QED
      BY <1>1, <1>4, <2>1 DEF Poll, PollAgain
  <1>5. CASE Patch
    <2>1. next \in 1 .. P + 1 /\ pc = "patch"
      BY <1>5 DEF Patch, TypeOK
    <2>2. CASE Goto("halt")
      BY <1>1, <2>1, <2>2
    <2>3. CASE next \in Patches /\ next' = next + 1 /\ pc' = pc
      BY <1>1, <2>1, <2>3
    <2>4. CASE next \notin Patches /\ Goto("place")
      BY <1>1, <2>1, <2>4
    <2>. QED
      BY <1>5, <2>2, <2>3, <2>4 DEF Patch
  <1>6. CASE Place \/ ZeroMirrors \/ PlaceStub \/ Quiet \/ InvalidateCaches \/ Jump
    BY <1>1, <1>6 DEF Place, ZeroMirrors, PlaceStub, Quiet, InvalidateCaches, Jump
  <1>7. CASE PurgeNext
    <2>1. next \in 1 .. 5 /\ pc = "purge"
      BY <1>7 DEF PurgeNext, TypeOK
    <2>. QED
      BY <1>1, <1>7, <2>1 DEF PurgeNext
  <1>8. CASE Copy
    <2>1. next \in 1 .. C /\ pc = "copy"
      BY <1>8 DEF Copy, TypeOK
    <2>. QED
      BY <1>1, <1>8, <2>1 DEF Copy
  <1>. QED
    BY <1>2, <1>3, <1>4, <1>5, <1>6, <1>7, <1>8 DEF Loader

(* The loader is through, in the game or on a red screen, after at most    *)
(* Chunks + Len(PatchAt) + MaxPolls + 14 steps: the drive that never       *)
(* answers costs MaxPolls of them (main.c:114-120, 202-249).               *)
THEOREM BootIsBounded == BootSpec => BootShrinks
  <1>. DEFINE Shrinks ==
         /\ StepsLeft \in 0 .. Chunks + Len(PatchAt) + MaxPolls + 14
         /\ Loader => StepsLeft' < StepsLeft
         /\ ~Loader => StepsLeft' = StepsLeft
  <1>1. ASSUME BootInv, [BootNext]_bootVars PROVE [Shrinks]_bootVars
    <2>1. TypeOK
      BY <1>1 DEF BootInv
    <2>2. ASSUME Evict PROVE StepsLeft' = StepsLeft
      BY <2>2 DEF Evict, StepsLeft
    <2>. QED
      BY <1>1, <2>1, <2>2, StepsTyped, LoaderShrinks DEF BootNext
  <1>. QED
    BY <1>1, Invariance, PTL DEF BootSpec, BootShrinks
=============================================================================
