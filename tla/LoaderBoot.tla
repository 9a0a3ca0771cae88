----------------------------- MODULE LoaderBoot -----------------------------
(***************************************************************************)
(* The loader (loader/main.c, loader/handoff.S): read the game image,      *)
(* rehearse the shim's GD path, patch, place the shim and its data, write  *)
(* the caches back, and let a relocated stub copy the image over the       *)
(* loader and enter the game.                                              *)
(*                                                                         *)
(* Memory is a set of blocks, each in RAM and possibly in a line of the    *)
(* D-cache, clean or dirty.  A dirty line may be written back at any       *)
(* moment at which cached code runs, and is lost when the cache is         *)
(* invalidated.                                                            *)
(***************************************************************************)
EXTENDS Integers, Sequences

CONSTANTS
  Chunks,     \* the image is 1 .. Chunks pieces, which the stub copies in order
  PatchAt,    \* PatchAt[i]: the piece that patch i changes
  MaxPolls,   \* guard of sysrd_test
  NoLine      \* the block is not in the cache

Patches == DOMAIN PatchAt

ASSUME LoaderAssumption ==
  /\ Chunks \in Nat \ {0} /\ MaxPolls \in Nat \ {0}
  /\ PatchAt \in Seq(1 .. Chunks) /\ PatchAt # <<>>

Stage(c)   == <<"stage", c>>
Game(c)    == <<"game", c>>
Shim       == <<"shim", 1>>
Bss        == <<"bss", 1>>
Bios60000  == <<"bios60000", 1>>
Bios1ffd00 == <<"bios1ffd00", 1>>
G1Mirror   == <<"g1", 1>>
MapleMirror == <<"maple", 1>>
Stub       == <<"stub", 1>>

StageBlocks == {Stage(c) : c \in 1 .. Chunks}
GameBlocks  == {Game(c) : c \in 1 .. Chunks}
Mirrors     == {G1Mirror, MapleMirror}
Blocks == StageBlocks \cup GameBlocks \cup Mirrors
            \cup {Shim, Bss, Bios60000, Bios1ffd00, Stub}

(* What a block holds: a piece of an image with some patches applied, or   *)
(* something that needs no more than its name.                             *)
Image(version, applied) == <<version, applied>>
Thing(name)             == <<name, {}>>
Versions == {"right", "other"}
Values ==
  {Image(v, a) : v \in Versions, a \in SUBSET Patches}
    \cup {Thing(n) : n \in {"junk", "loader", "shim", "zero", "bios60000", "bios1ffd00", "stub"}}

PatchesOf(c) == {i \in Patches : PatchAt[i] = c}

ASSUME NoLineAssumption == NoLine \notin [val : Values, dirty : BOOLEAN]

(* What each block is to hold in the end, whichever way the game looks.    *)
Wanted(b) ==
  IF b \in GameBlocks \cup StageBlocks THEN Image("right", PatchesOf(b[2]))
  ELSE IF b \in Mirrors \cup {Bss} THEN Thing("zero")
  ELSE Thing(b[1])
GameUses == GameBlocks \cup Mirrors \cup {Shim, Bss, Bios60000, Bios1ffd00}

VARIABLES
  pc,     \* the stage of main, "halt" or "game"
  next,   \* the patch, poll, purge or piece the stage is at
  ram,    \* what each block holds in RAM
  line,   \* its line in the D-cache: [val, dirty], or NoLine
  irqs,   \* interrupts are enabled
  at      \* MMUCR.AT

bootVars == <<pc, next, ram, line, irqs, at>>

TypeOK ==
  /\ pc \in {"read", "rehearse", "poll", "patch", "place", "mirrors", "stub", "purge",
             "quiet", "copy", "ccr", "jump", "halt", "game"}
  /\ next \in 1 .. (IF pc = "poll" THEN MaxPolls
                    ELSE IF pc = "patch" THEN Len(PatchAt) + 1
                    ELSE IF pc = "purge" THEN 5
                    ELSE IF pc = "copy" THEN Chunks
                    ELSE 1)
  /\ ram \in [Blocks -> Values]
  /\ line \in [Blocks -> [val : Values, dirty : BOOLEAN] \cup {NoLine}]
  /\ irqs \in BOOLEAN /\ at \in BOOLEAN

Clean(v) == [val |-> v, dirty |-> FALSE]
Dirty(v) == [val |-> v, dirty |-> TRUE]

(* The loader itself runs where the game will be, some of it only in the   *)
(* cache.                                                                  *)
BootInit ==
  /\ pc = "read" /\ next = 1
  /\ ram = [b \in Blocks |-> IF b \in GameBlocks THEN Thing("loader") ELSE Thing("junk")]
  /\ line \in [Blocks -> {NoLine, Clean(Thing("junk")), Dirty(Thing("loader"))}]
  /\ \A b \in Blocks :
       /\ b \in GameBlocks => line[b] # Clean(Thing("junk"))
       /\ b \notin GameBlocks => line[b] # Dirty(Thing("loader"))
       /\ b \notin GameBlocks \cup Mirrors => line[b] = NoLine
  /\ irqs = TRUE /\ at = TRUE

Load(b) == IF line[b] = NoLine THEN ram[b] ELSE line[b].val

(* Cached stores; stores through the P2 alias, which go under the cache.   *)
Store(vals) ==
  /\ line' = [b \in Blocks |-> IF b \in DOMAIN vals THEN Dirty(vals[b]) ELSE line[b]]
  /\ ram' = ram
StoreP2(B, v) ==
  /\ ram' = [b \in Blocks |-> IF b \in B THEN v ELSE ram[b]]
  /\ line' = line

(* dcache_purge_range: written back and dropped.                           *)
Purge(B) ==
  /\ ram' = [b \in Blocks |-> IF b \in B THEN Load(b) ELSE ram[b]]
  /\ line' = [b \in Blocks |-> IF b \in B THEN NoLine ELSE line[b]]

Goto(stage) == pc' = stage /\ next' = 1
Halt == Goto("halt") /\ UNCHANGED <<ram, line, irqs, at>>
-----------------------------------------------------------------------------
(* cdrom_read_sectors by PIO; a failure or a block without the signature   *)
(* halts.  An image of another version has the signature too.              *)
ReadImage ==
  /\ pc = "read"
  /\ \/ Halt
     \/ \E v \in Versions :
          /\ Store([b \in StageBlocks |-> Image(v, {})])
          /\ Goto("rehearse")
          /\ UNCHANGED <<irqs, at>>

(* sysrd_test: refused, never answered, failed, vanished, or a good sector *)
(* (a bad one halts as well).                                              *)
Rehearse ==
  /\ pc = "rehearse"
  /\ Halt \/ (Goto("poll") /\ UNCHANGED <<ram, line, irqs, at>>)

(* Variant: a bound that is never met.                                     *)
PollAgain_Forever == next' = 1 + (next % MaxPolls)

PollAgain == next < MaxPolls /\ next' = next + 1

Poll ==
  /\ pc = "poll"
  /\ \/ Halt
     \/ Goto("patch") /\ UNCHANGED <<ram, line, irqs, at>>
     \/ pc' = pc /\ PollAgain /\ UNCHANGED <<ram, line, irqs, at>>

(* apply_patches: the old bytes are compared before each patch; in the     *)
(* image of another version they differ for some patch.                    *)
Version     == Load(Stage(1))[1]
Applied(c)  == Load(Stage(c))[2]

(* Variant: the old bytes are not compared.                                *)
Mismatch_Never(i) == FALSE

Mismatch(i) == Version = "other"

Patch ==
  /\ pc = "patch"
  /\ \/ next \in Patches /\ Mismatch(next) /\ Halt
     \/ /\ next \in Patches
        /\ ~Mismatch(next) \/ (\E i \in Patches : i > next)
        /\ LET c == PatchAt[next] IN
           Store([b \in {Stage(c)} |-> Image(Version, Applied(c) \cup {next})])
        /\ next' = next + 1
        /\ UNCHANGED <<pc, irqs, at>>
     \/ next \notin Patches /\ Goto("place") /\ UNCHANGED <<ram, line, irqs, at>>

(* The shim, its zeroed .bss and the two BIOS slices.                      *)
Place ==
  /\ pc = "place"
  /\ Store([b \in {Shim, Bss, Bios60000, Bios1ffd00} |-> Wanted(b)])
  /\ Goto("mirrors")
  /\ UNCHANGED <<irqs, at>>

ZeroMirrors ==
  /\ pc = "mirrors"
  /\ StoreP2(Mirrors, Thing("zero"))
  /\ Goto("stub")
  /\ UNCHANGED <<irqs, at>>

PlaceStub ==
  /\ pc = "stub"
  /\ Store([b \in {Stub} |-> Thing("stub")])
  /\ Goto("purge")
  /\ UNCHANGED <<irqs, at>>

PurgeRanges == <<StageBlocks, {Shim, Bss}, {Stub}, {Bios60000}, {Bios1ffd00}>>

PurgeNext ==
  /\ pc = "purge"
  /\ Purge(PurgeRanges[next])
  /\ IF next + 1 \in DOMAIN PurgeRanges
     THEN next' = next + 1 /\ pc' = pc
     ELSE Goto("quiet")
  /\ UNCHANGED <<irqs, at>>

(* Variant: interrupts stay on.                                            *)
Quiet_IrqsOn ==
  /\ pc = "quiet"
  /\ at' = FALSE
  /\ Goto("copy")
  /\ UNCHANGED <<ram, line, irqs>>

(* irq_disable, MMUCR = 0.                                                 *)
Quiet ==
  /\ pc = "quiet"
  /\ irqs' = FALSE /\ at' = FALSE
  /\ Goto("copy")
  /\ UNCHANGED <<ram, line>>
-----------------------------------------------------------------------------
(* handoff.S, run uncached from its scratch address.                       *)
Copy ==
  /\ pc = "copy"
  /\ ram' = [ram EXCEPT ![Game(next)] = ram[Stage(next)]]
  /\ IF next < Chunks THEN next' = next + 1 /\ pc' = pc ELSE Goto("ccr")
  /\ UNCHANGED <<line, irqs, at>>

(* CCR: every line is dropped, dirty ones without a write-back.            *)
InvalidateCaches ==
  /\ pc = "ccr"
  /\ line' = [b \in Blocks |-> NoLine]
  /\ Goto("jump")
  /\ UNCHANGED <<ram, irqs, at>>

Jump ==
  /\ pc = "jump"
  /\ Goto("game")
  /\ UNCHANGED <<ram, line, irqs, at>>

(* Lines move only while cached code runs: the loader, or one of its       *)
(* interrupt handlers, but not the stub.                                   *)
InStub == pc \in {"copy", "ccr", "jump"}
CachedCode == pc \notin {"halt", "game"} /\ (~InStub \/ irqs)

Evict ==
  /\ CachedCode
  /\ \E b \in Blocks :
       /\ line[b] # NoLine
       /\ line' = [line EXCEPT ![b] = NoLine]
       /\ ram' = IF line[b].dirty THEN [ram EXCEPT ![b] = line[b].val] ELSE ram
  /\ UNCHANGED <<pc, next, irqs, at>>

Loader ==
  \/ ReadImage \/ Rehearse \/ Poll \/ Patch \/ Place \/ ZeroMirrors \/ PlaceStub
  \/ PurgeNext \/ Quiet \/ Copy \/ InvalidateCaches \/ Jump

BootNext == Loader \/ Evict

BootSpec == BootInit /\ [][BootNext]_bootVars
BootFairSpec == BootSpec /\ WF_bootVars(Loader)
-----------------------------------------------------------------------------
(* When the game is entered, every block it will look at holds what it     *)
(* must, in RAM and through the cache alike, whatever the cache wrote back *)
(* and when; the image is the one the patches were made for, and whole     *)
(* (main.c:202-249, 293-295; handoff.S:18-31).                             *)
GameStartsWhole ==
  pc = "game" => \A b \in GameUses : ram[b] = Wanted(b) /\ Load(b) = ram[b]

(* The stub's own bytes are in RAM, where it is fetched from, as long as   *)
(* it runs: the copy never reaches it (main.c:14-18, 237-245).             *)
StubIsSafe == InStub => ram[Stub] = Wanted(Stub)

(* An image whose bytes do not match is never started, not even in part    *)
(* (main.c:123-136, 202).                                                  *)
OnlyVerified ==
  pc = "copy" => \A c \in 1 .. Chunks : ram[Stage(c)] = Wanted(Stage(c))

(* What the loader keeps on its way: its types, a stub that is fetched     *)
(* whole, and nothing but a verified image under the stub's hands.         *)
LoaderInv == TypeOK /\ StubIsSafe /\ OnlyVerified

(* The loader always ends, in the game or on a red screen: the drive that  *)
(* never answers is bounded by the guard (main.c:114-120).                 *)
BootEnds == <>(pc \in {"halt", "game"})
-----------------------------------------------------------------------------
(* Why: what has been placed can be loaded, from the cache or from RAM;    *)
(* what has been purged is in RAM; what the stub has copied stays, for     *)
(* nothing moves a line any more.                                          *)
Placed == {"place", "mirrors", "stub", "purge", "quiet", "copy", "ccr", "jump", "game"}

HasBeenPlaced(b) ==
  \/ pc \in Placed /\ b \in StageBlocks
  \/ pc \in Placed \ {"place"} /\ b \in {Shim, Bss, Bios60000, Bios1ffd00}
  \/ pc \in Placed \ {"place", "mirrors", "stub"} /\ b = Stub

HasBeenPurged(b) ==
  \E k \in DOMAIN PurgeRanges :
    /\ b \in PurgeRanges[k]
    /\ \/ pc = "purge" /\ k < next
       \/ pc \in {"quiet", "copy", "ccr", "jump", "game"}

HasBeenCopied(c) == pc \in {"ccr", "jump", "game"} \/ (pc = "copy" /\ c < next)

(* While the patches are applied, each piece has those before the next.    *)
PatchInv ==
  /\ pc \in {"rehearse", "poll", "patch"} =>
       \E v \in Versions : \A c \in 1 .. Chunks :
         Load(Stage(c)) = Image(v, IF pc = "patch" THEN {i \in PatchesOf(c) : i < next} ELSE {})
  /\ pc = "patch" /\ next \notin Patches => Version = "right"

LineInv ==
  /\ \A b \in Blocks \ Mirrors : line[b] # NoLine => line[b].dirty
  /\ \A b \in Mirrors : line[b] # NoLine => ~line[b].dirty
  /\ pc \in {"jump", "game"} => \A b \in Blocks : line[b] = NoLine

PlaceInv ==
  /\ \A b \in Blocks : HasBeenPlaced(b) => Load(b) = Wanted(b)
  /\ \A b \in Blocks : HasBeenPurged(b) => line[b] = NoLine
  /\ pc \in Placed \ {"place", "mirrors"} => \A b \in Mirrors : ram[b] = Thing("zero")
  /\ \A c \in 1 .. Chunks : HasBeenCopied(c) => ram[Game(c)] = Wanted(Game(c))
  /\ InStub => ~irqs

(* What is left of the boot: the steps of the stages to come, and those of *)
(* this one.                                                               *)
AfterPatches == Chunks + 11
StepsLeft ==
  CASE pc = "read"     -> AfterPatches + Len(PatchAt) + MaxPolls + 3
    [] pc = "rehearse" -> AfterPatches + Len(PatchAt) + MaxPolls + 2
    [] pc = "poll"     -> AfterPatches + Len(PatchAt) + MaxPolls + 2 - next
    [] pc = "patch"    -> AfterPatches + Len(PatchAt) + 2 - next
    [] pc = "place"    -> AfterPatches
    [] pc = "mirrors"  -> Chunks + 10
    [] pc = "stub"     -> Chunks + 9
    [] pc = "purge"    -> Chunks + 9 - next
    [] pc = "quiet"    -> Chunks + 3
    [] pc = "copy"     -> Chunks + 3 - next
    [] pc = "ccr"      -> 2
    [] pc = "jump"     -> 1
    [] OTHER           -> 0

(* Every step of the loader is one less, and nothing the cache does in     *)
(* between makes it more.                                                  *)
BootShrinks ==
  [][/\ StepsLeft \in 0 .. Chunks + Len(PatchAt) + MaxPolls + 14
     /\ Loader => StepsLeft' < StepsLeft
     /\ ~Loader => StepsLeft' = StepsLeft]_bootVars

BootInv == TypeOK /\ PatchInv /\ LineInv /\ PlaceInv
=============================================================================
