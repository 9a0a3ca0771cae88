# TLA+ models of the Naomi-to-Dreamcast shim

The repository ports a Naomi cartridge game (*Cleopatra Fortune Plus*) to the
Dreamcast. A **loader** (`loader/`) is the disc's boot file: it reads the game
image, patches it, puts a resident **shim** (`shims/`) at the top of RAM and
enters the game. From then on the shim stands in for the arcade hardware the
Dreamcast does not have: the cartridge DMA is served from the disc, the arcade
I/O board is played by the Dreamcast's pads. **Scripts** (`scripts/`, the
makefiles) build the patch table and master the two discs (a GDI and a CDI).

This directory holds TLA+ models of these parts, TLC configurations that check
them on small instances, and TLAPS proofs that the safety properties of every part
hold for all of them. Line numbers below and in the modules refer to the source
files of the repository.
`PROJECT.json` lists components, runs, mutants, the map from definitions to
source lines, findings, hazards and theorems.

## 1. Inventory

| Part | State | Operations | Talks to |
| --- | --- | --- | --- |
| GD-ROM driver, `shims/src/gd.c`, and `gd_or_die` in `cart.c` | attempt and poll counters, `gd_last_err` | `gd_read_sectors` (PIO), `gd_read_sectors_dma`, recovery (`gd_sys_reinit`, `gd_init_drive`, sector mode) | BIOS GD server, drive, ASIC interrupt masks, D-cache |
| Cartridge stream service, `cart.c` | mirrored G1 registers, load bar countdown `pb_left` | `shim_cart_service`, `cart_read`, `cart_split` | the game's wait loop, the driver, RAM and D-cache |
| GD syscall trampoline, `gdstack.S` | saved SP, saved MMUCR, its gate | `gdc_call` | BIOS or isoldr vectors, FPU, MMU |
| Pad polling, `maple.c`, `jvs.c`, `jvs_digital` in `main.c` | two raw words, time of the last refresh, the shared DMA buffers | poll, `maple_getcond`, probe, JVS translation, reset combo | real Maple bus, TCNT0 |
| Maple service, `main.c` | register mirror, `pending_jvs`, `pending_cfg` | `shim_maple_steady`, `maple_reply`, `mie_probe_reply`, `shim_cfg_tx`, `shim_cfg_rx` | the game's Maple engine (interrupt), its settings code (main thread) |
| Settings, EEPROM and monitor stubs, `main.c`, `shim_cable_is_vga` in `util.c` | `cable_latch`; the game's variables they fill | `shim_monitor_set`, `shim_ee_read`, `shim_ee_idx_read`, `shim_ee_write_skip`, the free play stamp | the game's video and settings code (main thread), the DIP switch reply (interrupt), the cable sense |
| Loader and handoff, `loader/main.c`, `handoff.S` | RAM, D-cache, interrupts, MMU | read, rehearse, patch, place, purge, copy, jump | the drive, the game |
| Patch table, `scripts/build_patch_table.py`, `apply_patches` | 46 definitions, the emitted table, the image | verify, emit, compare, store | the boot image, `shim.map` |
| Build and mastering, the makefiles, `make_gdi.py`, `make_cdi.py` | objects and their freshness, the donor cache, the discs | `make disc`, `cdi`, `release`, `clean`; marks; donor extraction | the developer |
| Video, HUD, load bar pixels, death screen (`util.c`), serial (`scif.c`) | VRAM, one latch | paint, print | – |
| Capture analysis, art tools, tests, Ghidra scripts | files | conversions | – |

**Interaction.** The game's main thread streams cartridge data: its hooked wait
calls `shim_cart_service`, which calls `cart_read`, which reads sectors through
`gd_or_die` and the driver, which makes each BIOS call through `gdc_call`. The
vertical blank interrupt preempts that at any instruction and runs the Maple
service, which polls the pads. The loader hands both worlds over once.

**What is hard here.**

* *Interleaving*: the interrupt between any two steps of the main thread; the
  game re-arming interrupts and overwriting the BIOS's work RAM between GD calls.
* *Caches*: bytes stored through the uncached alias under dirty lines, lines
  discarded by OCBI, lines written back during the loader's copy.
* *Retries and timeouts*: a command reported missing before it was picked up, a
  drive that is slow or dead, a pad that misses a reply when polled back to back.
* *Numbers*: 32-bit sums of register values, sector boundaries, a wrapping
  timer, a PC-relative displacement that counts from a rounded PC.
* *Partial failure*: half a transfer, half a patched image, half a build.
* *Staleness*: objects of the other disc, addresses of a moved shim, a reply
  left in a shared buffer.

**What makes each part correct.** Driver: a read that returns 0 delivered
everything, a read always ends, faults are healed, diagnoses are true. Service:
it *is* the cartridge DMA the game expects, and touches nothing else; its load bar
is full, and gone, before the game presents its title. Trampoline:
the game's context survives. Pads: an answer is fresh and its own player's.
Maple service: it answers every list as the I/O board would have, and never
hangs. Settings: the game is told one thing about its monitor and one about its
settings, whatever RAM held at boot. Loader: the game finds every byte it needs, in RAM and through the cache.
Table: a good image is patched whole, any other refused; a patch written down with a
wrong address does not reach the game, as far as the first bytes there tell. Build: a disc is
consistent and current.

## 2. Modules and the code they model

| Module | Role | Models |
| --- | --- | --- |
| `GdRequest` | vocabulary | a sector read, its buffer, what *complete* means |
| `SectorRead` | abstract specification | what a driver call promises: everything, or a death screen |
| `GdDriver` | detailed | `gd.c`, `gd_or_die`; implements `SectorRead` |
| `CartSplit` | pure functions | `cart_split` and the offsets of its pieces |
| `CartDma` | abstract specification | the cartridge DMA of the Naomi as the game sees it |
| `CartService` | detailed, composed with `SectorRead` | `cart.c`; implements `CartDma` |
| `GdcCall` | detailed | `gdc_call`, instruction group by instruction group |
| `PadPoll` | detailed, with the bus and the pads | `jvs_digital`, `maple.c`, `jvs.c`, `pad_reboot` |
| `MapleService` | detailed, with engine and main thread | `shim_maple_steady`, `maple_reply`, `shim_cfg_*` |
| `ConfigHooks` | detailed, with the game's video and settings flows | the monitor and EEPROM stubs, the cable sense, the free play stamp |
| `LoaderBoot` | detailed, with RAM and D-cache | `loader/main.c`, `handoff.S` |
| `PatchTable` | detailed, over the table as a constant | `build_patch_table.py`, `apply_patches` |
| `DiscBuild` | detailed, with make and the developer | the makefiles, checks of the mastering scripts |
| `DonorCache` | detailed | `donor_tracks` |
| `MCCart`, `MCGdc`, `MCPad`, `MCMaple`, `MCLoader`, `MCPatch` | TLC instances | – |
| `GdDriverProofs`, `CartServiceProofs`, `GdcCallProofs`, `PadPollProofs`, `MapleServiceProofs`, `ConfigHooksProofs`, `LoaderBootProofs` | proofs | the module each is named after (section 4) |
| `BuildProofs` | proofs | `PatchTable`, `DiscBuild` and `DonorCache` |

Composition: `CartService` EXTENDS `SectorRead`, so the service runs against the
*promise* of a read; `GdDriver` is shown to implement that promise
(`ImplementsSectorRead`, with `driverStatus` as the refinement mapping). The two
refinements compose: driver ⇒ `SectorRead`, service over `SectorRead` ⇒ `CartDma`.
That the service keeps to the promise's protocol, and asks nothing the driver has
no room for, are theorems too (`KeepsProtocol`, `EveryRequestFits`).

How state and actions correspond:

* **GdDriver.** `pc` is the system call the driver makes next; `attempt`,
  `guard`, `last_err` and `death` are its counters and verdicts. `Send`, `Exec`,
  `Check` are the three calls of the polling loop, `SysReinit`, `InitSend`,
  `InitExec`, `InitCheck`, `SectorMode` the recovery, `NextAttempt`,
  `KeepPolling`, `GiveUp`, `Completed` the branches. The BIOS server (`queue`,
  `cmd`, `moved`, `alive`, `upset`, `readType`) is external and is what `gd.c`'s
  comments record. Between two calls the environment may act: `Trample`, `Poke`,
  `Glitch`, `GameRearms`, `Evict`.
* **CartService.** `Service` decodes and checks the registers, `Head`, `Body`,
  `Tail` start the reads, `AfterRead` stores what they brought, `Done` counts the
  load bar down, paints it and clears `SB_GDST`. RAM bytes hold the cartridge
  offset they came from, so "delivered" is an equation per byte. `screen` is what
  was drawn last; the game draws its title (`Present`) when its boot preload is in,
  of which the countdown covers only a part (`PbTotal <= Preload`, `cart.c:64-69`).
* **PadPoll.** A poll is answered from the cache (`FromCache`) or starts a
  refresh whose transactions take bus time; `rx` is the one buffer all
  transactions share. Pads sleep until probed, miss replies, come and go.
* **MapleService.** `Vblank` and `Engine` are the head of the interrupt, `Walk`
  serves one frame of the list, `SkipWalk` a list outside RAM; `CfgTx`, `CfgRx`
  are the main thread's hooks. The interrupt runs to its end before the main
  thread goes on.
* **ConfigHooks.** The main thread runs one of two flows: `Sense`, `ReadPort`,
  `MonitorSet`, `Choose` (the hooked writer of the monitor globals and the game's
  chooser), or `EeRead`, `Validate`, `IdxRead`, `Parse`, `Kick`, `Post`, `Finish`
  (the stubs in the game's settings loader). `Vblank` stamps free play,
  `DipReply` answers a DIP switch request out of the same latch, `Swap` is a
  hand on the cable. What the game itself does (`Choose`, `Validate`, `Parse`,
  `Finish`) is what the comments of `main.c` record of it.
* **LoaderBoot.** Memory is a set of blocks, each with its RAM content and its
  cache line; each stage of `main` stores through the cache or through P2; the
  stub copies uncached. `Evict` may write any dirty line back whenever cached
  code can run.
* **GdcCall.** One action per register pushed or popped, so the parity of
  `frchg` and the depth of the stack are real; the syscall leaves junk in the
  whole FPU and may replace the vectors.
* **PatchTable.** `Define` compares the half words a definition expects with the
  boot image, two for a word, one for an instruction, only the first opcode for a
  hook (`Expected`, over the image `Boot`), and appends its patch; `Apply` compares
  and stores one patch, byte by byte at its real address. `defs` is the list as it
  was transcribed: the `Script`, or one of its `Slips`. `MCPatch` holds all 46
  definitions with their addresses, kinds and expected half words.
* **DiscBuild.** A target's content records what it was made of; `make` remakes
  stale targets in the makefile's order; any command may be aborted anywhere and
  sources edited between commands; mastering applies the scripts' checks.

## 3. What the runs check

Twelve runs; `violation` runs show a disagreement between code and comment.

| Run | Bounds | Shows |
| --- | --- | --- |
| `gd_timely` (`MCGdTimely.cfg`) | 2 sectors, 4 attempts as in the code, poll limits 1 and 4, GDI build | `Delivered`, `NoLegacyGdIrq`, `FailureNeedsRepeatedFaults`, `NoFalseHang`, `NoFalseGiveUp`, `ImplementsSectorRead` |
| `gd_hang` (`MCGdHang.cfg`) | 1 sector, 4 attempts, CDI build, a server slower than every limit | `IInv`; `ReadEnds` |
| `cart` (`MCCart.cfg`) | sectors of 4 bytes, lines of 2, a cartridge of 20, RAM of 32; every shape of transfer, 8-bit registers at every edge of the check, a preload of 8 bytes in pieces of 1 to 5, a countdown of 6 | `CartInv`, `ReadsWhatIsAsked`, `ServedInBounds`, `BarBeforeTitle`, `NoCollateralLoss`, `ImplementsCartDma`, `ServiceEnds` |
| `cart_stale` (`MCCartStale.cfg`) | as `cart` | **violation** of `NothingStaleInDcache` |
| `pad` (`MCPad.cfg`) | timer modulo 10, cache age 2, a reliable pad on port B, a flaky and pluggable one on A | `ButtonsAreFresh`, `PollInv`, `NoDropout`, `ComboReboots` |
| `gdc` (`MCGdc.cfg`) | 4 registers per bank, every kind of backend | `ContextKept`, `GdcInv` |
| `maple` (`MCMaple.cfg`) | lists of 1 or 2 frames out of 10 kinds, a walk cap of 3, two buffers in RAM and one outside | `ListAnswered`, `MapleInv`, `CfgAnswersItsOwn`, `WalkEnds` |
| `config` (`MCConfig.cfg`) | boot residue 0, 1 or 9 in every variable the stubs fill, a settings table of 8, all three cables | `VideoAgrees`, `ConfigInv`, `ConfigSettles` |
| `loader` (`MCLoader.cfg`) | an image of 2 pieces, 2 polls, either version | `GameStartsWhole`, `LoaderInv`, `BootEnds` |
| `patch_table` (`MCPatch.cfg`) | the real table; any one definition misplaced (two bytes off, on another patch, on code that begins alike), or any one byte of the image different | `TableInv`, `StartedIsPatched`, `PristineStarts`, `HooksReach` |
| `disc_build` (`MCDisc.cfg`) | two edits, any sequence of commands and aborts | `CartIsFound`, `PatchesMeetShim`, `BuildInv`, `DebugOnlyAsAsked`, `MasteredIsCurrent` |
| `donor_partial` (`MCDonorPartial.cfg`) | five files, two killed runs | **violation** of `NonePartial` |

Each module keeps its type invariant, joined where it stands alone with the
plainer safety invariants (`PollInv`, `GdcInv`, `MapleInv`, `ConfigInv`,
`LoaderInv`, `TableInv`, and the inductive `IInv`, `CartInv` and, with what the other
properties of its run add, `BuildInv`).

**Why the bounds are enough.**

* Driver: two sectors are the least with a read failing half-way; four attempts
  are the real number. The poll limits keep their order: `NotFoundTolerance` is
  reached before `GuardLimit`. The delays of `gd_timely`'s server meet `Timely`
  exactly, one poll more and the diagnoses are false; that of `gd_hang` is slower.
* Service: sector, line and destination sizes keep their divisibility; every
  combination of empty and non-empty head, body and tail occurs, with the body on
  and off a line, and dirty lines inside, at the ends of and beyond the target.
  Words of 8 bits let sums of register values wrap, as 32-bit ones do. The preload
  (8) is over the countdown (6), by more than some transfers and less than others.
* Patch table: addresses and expected half words are the real ones. Every
  definition is misplaced two bytes off, on the next one's place and on the places
  of its kind; every hook also on each hook and on look-alikes: functions made up to
  begin with a hooked one's opcode, one of them where the thunk runs into a real
  patch.
* Pads: the period is the least that leaves room for the longest gap and the
  longest refresh (`PadPollAssumption`), so the counter wraps often. The pad on
  port B misses one reply in a row (`OneMissAtATime`), that on port A two.
* Maple: a list of two frames has every pair transmit/receive, in one list and
  across two; a cap of 3 lets a list without an end run past its own frames.
* Trampoline: four registers per bank tell an exchange of two from a reversal; the
  theorem is for any number.
* Configuration: a residue of 9 is an index past the table, 0 and 1 are what the
  chooser tells apart.
* Loader: two pieces give a patch in the first, the last, and both.
* Build: two edits give every source a change before, between or after the other.

**`CHECK_DEADLOCK FALSE`** stands where the machine really stops: a death screen
(cart, Maple), the reboot into the BIOS (pads), the red screen or the
game's start (loader, patch table). Elsewhere
someone can always move, after a death screen of the driver the environment.

**Fairness.** `GdFairSpec`: weak fairness of the driver, which runs as soon as the
system call returns; every BIOS call returns, nothing is assumed of what it
achieves. `CartFairSpec`: weak fairness of the service, and of a read coming to
an end, which is what `ReadEnds` shows of the driver. `PollFairSpec`: the game
polls every frame from its interrupt, a Maple DMA finishes, time passes.
`MapleFairSpec`: weak fairness of the interrupt, which is higher in priority than
anything the main thread does. `ConfigFairSpec`: weak fairness of the main
thread's next step, which goes on between interrupts, and of the vertical blank.
`BootFairSpec`: weak fairness of the loader, alone on the machine.

## 4. What is proved

Eight modules hold theorems, checked by TLAPS for every value of the constants
that satisfies the named assumptions. Each safety property is proved from an
inductive invariant that is stated in the component's module beside it; none of
the properties below is inductive alone. Every property the passing runs check is
covered, but for what the last paragraph lists.

**The driver** (`GdDriverProofs`; assumptions `GdRequestAssumption`,
`GdDriverAssumption`). `IInv` is inductive. `Delivered` alone is not: that the
slots are right when CHECK_COMMAND says *done* needs to know that every sector
moved so far was moved in the read type the disc needs (`ReadTypeInv`), that the
slot's command is the read just sent (`SlotInv`), that no dirty line lies over a
slot a DMA has filled, and that bit 14 is masked as long as a DMA may complete.
Theorems: `TypeCorrect`, `Invariance` (`IInv`), `ReadsDeliver` (`Delivered`),
`LegacyHandlerNeverRuns` (`NoLegacyGdIrq`), `ImplementsPromise`
(`ImplementsSectorRead`): the initial state maps to the initial state, and each
action to a step of `SectorRead` or to a stutter.

The driver's diagnoses are true of a server that is quick enough, so these three
have the hypothesis `Timely`, a bound on the server's delays by the driver's
limits: `GivesUpOnlyTheGone` (`NoFalseGiveUp`) and `SlowIsNotHung` (`NoFalseHang`)
rest on `PatienceInv` (the polls without progress are stalls the server was
allowed), `RecoveryHeals` (`FailureNeedsRepeatedFaults`) on `FaultInv` (each
failed attempt has been paid for with a fault).

How long a read may take is counted by `StepsLeft`: `ReadCountsDown` (`ReadShrinks`)
says that each step of the driver lowers it and no step of the server or of the
environment raises it, `ReadIsBounded` (`StepsBounded`) that a read is at most
`MaxAttempts * (4 * GuardLimit + 9) + 2` steps.

**The service** (`CartServiceProofs`; `SectorSizeAssumption`,
`CartServiceAssumption`, `PreloadAssumption`). First the split: `SplitTiles`: head, body and tail add
up to the length for every offset and length; `SplitSources`: every byte comes
from the sector and the place that hold it. `CartInv` ties the control state to
the pieces (`PieceInv`: the read under way is the one the split computed) and to
the memory (`MemInv`: what has been stored up to each step, byte by byte, except
under lines the game left dirty) and the bar to what has been streamed (`BarInv`: the
countdown is over before the preload is in). Theorems: `Invariance`, `TypeCorrect`,
`ServesInBounds` (no sum wraps, for every word size), `WritesInside`
(`OutsideUntouched`, which no run repeats), `BarFullBeforeTitle` (`BarBeforeTitle`),
`ReadsOnlyAsked` (`ReadsWhatIsAsked`), `LosesNothing` (`NoCollateralLoss`, under the
hypothesis `WholeLines`, which sectors of 2048 and lines of 32 bytes meet),
`ImplementsDevice` (`ImplementsCartDma`).

`LineInv` follows the cache lines under a body that came by DMA. With it
`DmaLeavesNothingStale` (`StaleOnlyAfterPio`) says what is true of the comment that
`cart_stale` refutes: a stale line can only cover bytes that came by PIO.
`KeepsProtocol` (every behaviour of the service is one of `SectorRead`) and
`EveryRequestFits` (`RequestsFit`, under the hypothesis `DriverTakes`: the driver
has room for the cartridge image) are the two halves of the composition with the
driver. `ServiceIsBounded` (`ServiceShrinks`): no step of a service is taken twice.

**The trampoline** (`GdcCallProofs`; `GdcCallAssumption`, `SignatureAssumption`). `ContextInv` says what
lies on the private stack at each place, which registers still hold the game's
values, and which bank is in front. `KeepsContext` (`ContextKept`) is for banks of
any number of registers, `RightWorldForBackend` (`GdcInv`) for any backend.

**The pads** (`PadPollProofs`; `PadPollAssumption`). `FreshInv` has the clock
(`TimeInv`: TCNT0 never goes a whole turn between two looks, so the modular
difference *is* the age), the wire (`WireInv`: a header that says *data* is the
reply of the pad just asked) and the cache (`CacheInv`). `NothingOld`
(`ButtonsAreFresh`) and `RebootsOnlyOnCombo` (`PollInv`) follow for every counter
width and threshold. `OneRetryIsEnough` (`NoDropout`) has the hypothesis
`OneMissAtATime` and adds `AnswerInv`: how many replies a wired pad has missed in
each attempt. `RefreshIsBounded` (`RefreshShrinks`): a refresh is at most six
transactions, whatever the pads do meanwhile.

**The Maple service** (`MapleServiceProofs`; `MapleAssumption`). `WalkInv` relates
the frames served so far to the buffers, `CfgInv` the main thread's pending
command to what it will read. `AnswersLists` (`ListAnswered`), `NeverStuck`
(`MapleInv`), `AnswersEnumeration` (`CfgAnswersItsOwn`), for lists of any length;
`WalkCountsUp` (`WalkAdvances`), for lists without an end.

**The configuration hooks** (`ConfigHooksProofs`; `ConfigAssumption`). `VideoInv`
traces the globals, the mode and the DIP reply to one latched sense. `OneMonitor`
(`VideoAgrees`) and `SettingsHold` (`ConfigInv`), for every residue.

**The loader** (`LoaderBootProofs`; `LoaderAssumption`, `NoLineAssumption`). `BootInv` is three: `PatchInv` (what has been compared and
patched), `LineInv` (what a cache line may hold), `PlaceInv` (what has been
placed, written back and copied by each stage). `OnlyTheVerifiedImage`
(`LoaderInv`) and `StartsWhole` (`GameStartsWhole`) hold for every number of
pieces, every patch list and every write-back. `BootIsBounded` (`BootShrinks`): the
loader is through after at most `Chunks + Len(PatchAt) + MaxPolls + 14` steps.

**The patch table** (`BuildProofs`; `PatchTableAssumption`, `NoDiffAssumption`). `LoadInv` follows the
emitted table and the bytes of the image: the bytes of an applied patch are none of
the disc's, so a patch that matches lies in no earlier one's place. `SlipsAreCaught`
(`TableInv`), `PatchedWhole` (`StartedIsPatched`) and `HooksLead` (`HooksReach`) are
for every script, every slip of it and every boot image; `PristineIsStarted`
(`PristineStarts`) has the hypothesis `Disjoint(Script)`, which the real table meets
(`RealDefsDisjoint` of `MCPatch`, evaluated by TLC). `TableInv` says no more than the
code does: in a started image every definition's expected half words are where it
was put (`Expected`) and no two patches share a byte, but a slip onto untouched code
that begins alike is started. `patch_table` reaches such states.

**The discs** (`BuildProofs`; `DiscBuildAssumption`, `NoFileAssumption`: no file's
content is the mark of an absent file). The targets are those of the makefiles, the
number of edits is any. What a disc is made of depends on everything that was ever
built or left half built before, so none of the properties is inductive alone.
`DiscInv` adds `FreshInv` (a fresh object was made from what its prerequisites hold
now; the table may outlive the shim, when the symbol map is gone), `PhaseInv` (at
each phase of a command what the phases before have to make is fresh), `MarkInv` (a
shim, and a loader with patches of a shim, that no CDI build has marked looks where
its header says) and `CleanInv` (behind a clean, everything there is of this command,
with its toggles). `BuildInvariance` (`DiscInv`), `CartFound` (`CartIsFound`),
`PatchesOfTheShim` (`PatchesMeetShim`), `OneHeader` (`BuildInv`), `TogglesAsAsked`
(`DebugOnlyAsAsked`), `NothingOldMastered` (`MasteredIsCurrent`).

**The donor cache** (`BuildProofs`; the theorems have the hypothesis `DonorArchive`:
finitely many files, those used among them). `PartialsAreKills` (`DonorInv`): no more
files of a disc are partial than runs were killed. `UnkilledIsWhole`: the promise
`donor_partial` refutes holds as long as no run is killed. `ExtractionIsWhole`
(`ExtractionHeals`): a run that extracts and is not killed leaves every file whole.

**Only model-checked.** Liveness, which is out of the prover's reach: `ReadEnds`,
`ServiceEnds`, `WalkEnds`, `BootEnds`, `ComboReboots`, `ConfigSettles`. For the
first four the countdown theorems (`ReadCountsDown`, `ServiceIsBounded`,
`WalkCountsUp`, `BootIsBounded`) prove what does not depend on fairness: there is
only so much to do, and nothing undoes it.

## 5. Findings

* `cart_stale`: `cart.c:89-90` says that the bytes must land in RAM "with nothing
  stale left in the D-cache"; the PIO paths (`cart.c:99-112` and an unaligned
  body) store through P2 and do no cache operation, so a line the game left dirty
  survives the transfer. The original DMA had no cache operation either, which is
  why `ImplementsCartDma` holds. `DmaLeavesNothingStale` is the exact extent: no
  byte that came by DMA is ever under a stale line.
* `donor_partial`: `make_gdi.py:212-213` presents the all-files test as the cure
  for interrupted extractions; a run killed while the *last* file is being written
  still leaves all five files there, one of them partial. It takes a kill for each
  partial file (`PartialsAreKills`), and the next run that does extract heals the
  cache (`ExtractionIsWhole`).
* Met on the way and not runs. The docstring of `build_patch_table.py` (7-8) says that
  a wrong address fails the build: `hook` compares one opcode (99-100), five hooked
  functions begin with `0x7FFC` and two with `0x2FE6`, so a hook put on another one's
  address passes. Such a table is refused at boot, by the later of the two patches on
  the place (`OnlyLookalikes`); on a function no patch names, nothing would refuse it.
  `main.c:985-989` says a wild settings index was boot residue,
  `docs/kb/00-status.md:1029-1038` that the EEPROM library wrote it; the stub is right
  for both, and `ConfigHooks` takes any value. `main.c:62-63`, `70-72` and `util.c:141-142` say
  the loader does not zero `.bss`; it does, `loader/main.c:209-214`.

## 6. What is assumed of the world outside the repository

* The BIOS GD server behaves as the comments of `gd.c` record; a system call returns.
* TCNT0 runs freely (`main.c:95-96`); a pad that is there answers once it has been
  probed, but for `MaxMiss` replies in a row; the bus clears its start bit.
* Cache lines move only while cached code runs.
* The game's Maple engine builds lists of at most 24 entries, its main thread
  calls the configuration hooks in any order.
* The boot preload is no shorter than the load bar's countdown (measured, 11.4 against
  10 MiB, `cart.c:64-69`), and the title presents once it is in.
* The age of a pad's word is looked at before TCNT0 has gone a whole turn
  (`PadPollAssumption`).
* The cable is not changed in the few instructions between the test of the latch
  and the read of the port.
* A backend other than isoldr does not carry isoldr's signatures.
* Sources are not edited while `make` runs.
* In `PatchTable` bytes are symbolic: two patches that store equal bytes over one
  another would look like a conflict (none do), and a new byte differs from the old
  one. `boot.bin` is not in the repository: the image is known where a definition
  looks, the look-alikes of `MCPatch` are made up, other half words hold nothing a
  definition expects. One definition slips at a time, in its address; the value it
  stores is compared with nothing, in the code as in the model.
* In `DiscBuild` the disc is forgotten when the next command starts; a disc is
  judged by what it was made of at its own mastering.

## 7. Not modelled

Output without a decision in it: pixels of the load bar, HUD and death screen
(`util.c`), serial (`scif.c`). Diagnostics that a release build compiles out:
`SHIM_TRACE`, `SHIM_LOADSTAT`, `SHIM_GD_DIAG`. Code of `main.c` that no patch
enters: `shim_maple_boot`, `shim_maple_entry`, `shim_settings_skip`,
`shim_vid_init`. The bytes of replies and of disc art, the offline analysis and
art scripts, the Ghidra material. The build is marked partly modelled because
its shell plumbing and the mastering tools' file formats are not in it; the
interface header because most of it is addresses. `PROJECT.json` lists each with its reason.

## 8. Plan

Done, in this order: driver, promise, split, service, device and their proofs;
pads; loader; trampoline; Maple service; patch table; build; donor cache;
configuration hooks; proofs of all of them, and the countdowns behind the liveness
properties.

Left:

1. `System`: service, driver and interrupt composed, so that a Maple walk and a
   reboot fall between two GD calls. The parts share no variable but the machine's
   time, which is why this comes last.
2. The load bar's flip between the two frame buffers.
