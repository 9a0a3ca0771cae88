------------------------------ MODULE GdDriver ------------------------------
(***************************************************************************)
(* The shim's GD-ROM driver, shims/src/gd.c: gd_read_sectors (PIO) and     *)
(* gd_read_sectors_dma (G1-DMA) with the recovery both run between         *)
(* attempts, and gd_or_die (shims/src/cart.c), their only caller.          *)
(*                                                                         *)
(* The other side is the BIOS GD system-call server, which is not in the   *)
(* repository: a one-command queue kept in low work RAM, pumped by         *)
(* EXEC_SERVER and observed by CHECK_COMMAND.  It is modelled from what    *)
(* the comments of gd.c record of it: the game may trample its work RAM    *)
(* (the queue then "plays dead" until SYSINIT), a stray register poke may  *)
(* upset the drive (reads fail until CMD_INIT), a command may be reported  *)
(* NOT_FOUND before the server picks it up, and SYSINIT and CMD_INIT put   *)
(* the drive back to its default read type.                                *)
(*                                                                         *)
(* Each GD system call is a step of its own; the game's interrupt handler  *)
(* and the drive act between them.                                         *)
(***************************************************************************)
EXTENDS GdRequest

CONSTANTS
  MaxAttempts,          \* 4: attempts per read
  NotFoundTolerance,    \* 1000000: polls before NOT_FOUND is believed
  GuardLimit,           \* 100000000: polls before the hang detector fires
  CDXA,                 \* TRUE: CDI build (SHIM_CDXA), data track is CD-XA
  PickupDelay,          \* external: polls the server may leave a command queued
  TransferDelay         \* external: polls a running command may stall

ASSUME GdDriverAssumption ==
  /\ MaxAttempts \in Nat \ {0}
  /\ NotFoundTolerance \in Nat
  /\ GuardLimit \in Nat
  /\ CDXA \in BOOLEAN
  /\ PickupDelay \in Nat
  /\ TransferDelay \in Nat

VARIABLES
  call,       \* the request being served
  dst,        \* what was stored last in each destination slot
  undone,     \* slots a cache write-back has overwritten since
  pc,         \* next system call or step of the driver
  returned,   \* the last read returned 0
  attempt, guard,
  last_err,   \* gd_last_err
  death,      \* shim_die code and cause
  queue,      \* external: state of the BIOS command slot
  cmd,        \* external: the command in it
  moved,      \* external: sectors the command has transferred
  alive,      \* external: BIOS work RAM is intact
  upset,      \* external: the drive's registers were poked
  readType,   \* external: the drive's read type
  lines,      \* destination slots the D-cache holds dirty
  irqOn,      \* ASIC level masks let the GD-DMA interrupt (bit 14) through
  istnrm,     \* SB_ISTNRM bit 14: GD-DMA completion pending
  faults      \* history: faults since a read last succeeded, saturating

biosVars   == <<queue, cmd, moved, alive, upset, readType>>
memVars    == <<dst, undone, lines>>
irqVars    == <<irqOn, istnrm>>
driverVars == <<attempt, guard, last_err, death, returned>>
gdVars     == <<pc, call, driverVars, biosVars, memVars, irqVars, faults>>

NeededType == IF CDXA THEN "xa" ELSE "default"

(* The record a caller of this driver sees (the refinement mapping).       *)
driverStatus ==
  IF pc = "dead" THEN "dead"
  ELSE IF pc # "idle" THEN "reading"
  ELSE IF returned THEN "ok" ELSE "idle"

GdInit ==
  /\ pc = "idle" /\ returned = FALSE
  /\ call = NoCall
  /\ attempt = 0 /\ guard = 0
  /\ last_err = "cafe0000" /\ death = "none"
  /\ queue = "free" /\ cmd = "read" /\ moved = 0
  /\ alive = TRUE /\ upset = FALSE /\ readType = NeededType
  /\ dst = [i \in Slots |-> Old] /\ undone = {} /\ lines = {}
  /\ irqOn = TRUE /\ istnrm = FALSE
  /\ faults = 0

-----------------------------------------------------------------------------
(* The BIOS server and the drive.                                          *)

(* SEND_COMMAND: a dead queue and an occupied slot refuse (req <= 0).      *)
Accepts == alive /\ queue \notin {"queued", "running"}

Enqueue(c) ==
  /\ queue' = "queued" /\ cmd' = c /\ moved' = 0
  /\ UNCHANGED <<alive, upset, readType>>

(* EXEC_SERVER leaves the command where it is.                             *)
ServerStalls ==
  /\ \/ queue \notin {"queued", "running"}
     \/ queue = "queued" /\ guard < PickupDelay
     \/ queue = "running" /\ guard < TransferDelay
  /\ UNCHANGED <<biosVars, dst, undone, istnrm>>

ServerPicksUp ==
  /\ queue = "queued"
  /\ queue' = "running"
  /\ UNCHANGED <<cmd, moved, alive, upset, readType, dst, undone, istnrm>>

ServerInitialises ==
  /\ queue = "running" /\ cmd = "init"
  /\ queue' = "done" /\ upset' = FALSE /\ readType' = "default"
  /\ UNCHANGED <<cmd, moved, alive, dst, undone, istnrm>>

ServerFailsRead ==
  /\ queue = "running" /\ cmd = "read" /\ upset
  /\ queue' = "failed"
  /\ UNCHANGED <<cmd, moved, alive, upset, readType, dst, undone, istnrm>>

(* One more sector; the last one completes the command and, for a G1-DMA   *)
(* transfer, raises the completion interrupt.                              *)
ServerTransfers ==
  /\ queue = "running" /\ cmd = "read" /\ ~upset
  /\ dst' = [dst EXCEPT ![moved] =
               IF readType = NeededType THEN Wanted(call, moved) ELSE Raw]
  /\ undone' = undone \ {moved}
  /\ moved' = moved + 1
  /\ queue' = IF moved' = call.n THEN "done" ELSE "running"
  /\ istnrm' = (istnrm \/ (call.dma /\ moved' = call.n))
  /\ UNCHANGED <<cmd, alive, upset, readType>>

ExecServer ==
  \/ ServerStalls
  \/ ServerPicksUp
  \/ ServerInitialises
  \/ ServerFailsRead
  \/ ServerTransfers

(* CHECK_COMMAND: a verdict, read once, frees the slot; a command the      *)
(* server has not picked up may still be reported NOT_FOUND.               *)
Verdict(s) ==
  \/ s = "COMPLETED" /\ queue = "done"
  \/ s = "FAILED" /\ queue = "failed"
  \/ s = "NOT_FOUND" /\ queue \in {"free", "queued"}
  \/ s = "BUSY" /\ queue \in {"queued", "running"}

TakeVerdict ==
  /\ queue' = IF queue \in {"done", "failed"} THEN "free" ELSE queue
  /\ UNCHANGED <<cmd, moved, alive, upset, readType>>

-----------------------------------------------------------------------------
(* gd_recover: SYSINIT, CMD_INIT and, in the CDI build, SECTOR_MODE.       *)

SysReinit ==
  /\ pc = "sysinit"
  /\ alive' = TRUE /\ queue' = "free" /\ readType' = "default"
  /\ pc' = "initSend"
  /\ UNCHANGED <<call, driverVars, cmd, moved, upset, memVars, irqVars, faults>>

(* Variant: a recovery that forgets the sector mode.                       *)
AfterInit_NoMode == "send"

AfterInit == IF CDXA THEN "mode" ELSE "send"

InitSend ==
  /\ pc = "initSend"
  /\ guard' = 0
  /\ \/ Accepts /\ Enqueue("init") /\ pc' = "initExec"
     \/ ~Accepts /\ pc' = AfterInit /\ UNCHANGED biosVars
  /\ UNCHANGED <<call, attempt, last_err, death, returned, memVars, irqVars, faults>>

InitExec ==
  /\ pc = "initExec" /\ pc' = "initCheck"
  /\ ExecServer
  /\ UNCHANGED <<call, driverVars, lines, irqOn, faults>>

(* COMPLETED, a failure and a believed NOT_FOUND all end the init.         *)
InitCheck ==
  /\ pc = "initCheck"
  /\ TakeVerdict
  /\ \/ /\ \/ Verdict("COMPLETED") \/ Verdict("FAILED")
           \/ Verdict("NOT_FOUND") /\ guard > NotFoundTolerance
        /\ pc' = AfterInit
        /\ UNCHANGED <<guard, death>>
     \/ /\ \/ Verdict("BUSY")
           \/ Verdict("NOT_FOUND") /\ guard <= NotFoundTolerance
        /\ IF guard + 1 > GuardLimit
             THEN pc' = "dead" /\ death' = "hung_init" /\ UNCHANGED guard
             ELSE pc' = "initExec" /\ guard' = guard + 1 /\ UNCHANGED death
  /\ UNCHANGED <<call, attempt, last_err, returned, memVars, irqVars, faults>>

SectorMode ==
  /\ pc = "mode"
  /\ readType' = IF alive THEN "xa" ELSE readType
  /\ pc' = "send"
  /\ UNCHANGED <<call, driverVars, queue, cmd, moved, alive, upset, memVars, irqVars, faults>>

-----------------------------------------------------------------------------
(* gd_read_sectors and gd_read_sectors_dma.                                *)

(* The DMA variant first clears bit 14 in all three ASIC interrupt levels. *)
Enter ==
  /\ pc = "enter" /\ pc' = "attempt"
  /\ irqOn' = (irqOn /\ ~call.dma)
  /\ attempt' = 0
  /\ UNCHANGED <<call, guard, last_err, death, returned, biosVars, memVars, istnrm, faults>>

(* Variant: retries without a recovery.                                    *)
Attempt_NoRecovery ==
  /\ pc = "attempt" /\ attempt < MaxAttempts
  /\ pc' = "send"
  /\ UNCHANGED <<call, driverVars, biosVars, memVars, irqVars, faults>>

Attempt ==
  /\ pc = "attempt" /\ attempt < MaxAttempts
  /\ pc' = IF attempt > 0 THEN "sysinit" ELSE "send"
  /\ UNCHANGED <<call, driverVars, biosVars, memVars, irqVars, faults>>

NextAttempt(err) ==
  /\ last_err' = err /\ attempt' = attempt + 1 /\ pc' = "attempt"

(* Variant: no cache invalidation before a DMA read.                       *)
Invalidate_None == lines' = lines

(* dcache_inval: OCBI drops every line of the destination, dirty or not.   *)
Invalidate == lines' = IF call.dma THEN lines \ Requested(call) ELSE lines

(* Variant: guard declared outside the attempt loop, never reset.          *)
Send_KeepsGuard ==
  /\ pc = "send"
  /\ Invalidate
  /\ guard' = guard
  /\ \/ Accepts /\ Enqueue("read") /\ pc' = "exec" /\ UNCHANGED <<attempt, last_err>>
     \/ ~Accepts /\ NextAttempt("cafe0002") /\ UNCHANGED biosVars
  /\ UNCHANGED <<call, death, returned, dst, undone, irqVars, faults>>

Send ==
  /\ pc = "send"
  /\ Invalidate
  /\ guard' = 0
  /\ \/ /\ Accepts /\ Enqueue("read")
        /\ pc' = "exec"
        /\ UNCHANGED <<attempt, last_err>>
     \/ /\ ~Accepts
        /\ NextAttempt("cafe0002")
        /\ UNCHANGED biosVars
  /\ UNCHANGED <<call, death, returned, dst, undone, irqVars, faults>>

Exec ==
  /\ pc = "exec" /\ pc' = "check"
  /\ ExecServer
  /\ UNCHANGED <<call, driverVars, lines, irqOn, faults>>

(* Variant: the completion interrupt is not acknowledged.                  *)
Completed_NoAck ==
  /\ pc' = "idle" /\ returned' = TRUE
  /\ faults' = IF upset THEN 1 ELSE 0
  /\ UNCHANGED <<istnrm, attempt, guard, last_err, death>>

(* Only COMPLETED ends the read well; the DMA variant then acknowledges    *)
(* the completion interrupt it kept masked.                                *)
Completed ==
  /\ pc' = "idle" /\ returned' = TRUE
  /\ faults' = IF upset THEN 1 ELSE 0
  /\ istnrm' = (istnrm /\ ~call.dma)
  /\ UNCHANGED <<attempt, guard, last_err, death>>

(* Variant: no hang detector.                                              *)
KeepPolling_Forever ==
  /\ pc' = "exec" /\ guard' = IF guard < GuardLimit THEN guard + 1 ELSE guard
  /\ UNCHANGED <<death, attempt, last_err, returned, istnrm, faults>>

KeepPolling ==
  IF guard + 1 > GuardLimit
    THEN /\ pc' = "dead" /\ death' = "hung_read"
         /\ UNCHANGED <<guard, attempt, last_err, returned, istnrm, faults>>
    ELSE /\ pc' = "exec" /\ guard' = guard + 1
         /\ UNCHANGED <<death, attempt, last_err, returned, istnrm, faults>>

GiveUp(err) ==
  /\ NextAttempt(err)
  /\ UNCHANGED <<guard, death, returned, istnrm, faults>>

(* Variants: a vanished command taken for a completed one; NOT_FOUND       *)
(* believed one poll too early.                                            *)
Check_GoneIsDone ==
  /\ pc = "check"
  /\ TakeVerdict
  /\ \/ Verdict("COMPLETED") /\ Completed
     \/ Verdict("FAILED") /\ GiveUp("drive_status")
     \/ Verdict("NOT_FOUND") /\ guard > NotFoundTolerance /\ Completed
     \/ Verdict("NOT_FOUND") /\ guard <= NotFoundTolerance /\ KeepPolling
     \/ Verdict("BUSY") /\ KeepPolling
  /\ UNCHANGED <<call, memVars, irqOn>>

Check_Impatient ==
  /\ pc = "check"
  /\ TakeVerdict
  /\ \/ Verdict("COMPLETED") /\ Completed
     \/ Verdict("FAILED") /\ GiveUp("drive_status")
     \/ Verdict("NOT_FOUND") /\ guard >= NotFoundTolerance /\ GiveUp("cafe0001")
     \/ Verdict("NOT_FOUND") /\ guard < NotFoundTolerance /\ KeepPolling
     \/ Verdict("BUSY") /\ KeepPolling
  /\ UNCHANGED <<call, memVars, irqOn>>

Check ==
  /\ pc = "check"
  /\ TakeVerdict
  /\ \/ Verdict("COMPLETED") /\ Completed
     \/ Verdict("FAILED") /\ GiveUp("drive_status")
     \/ Verdict("NOT_FOUND") /\ guard > NotFoundTolerance /\ GiveUp("cafe0001")
     \/ Verdict("NOT_FOUND") /\ guard <= NotFoundTolerance /\ KeepPolling
     \/ Verdict("BUSY") /\ KeepPolling
  /\ UNCHANGED <<call, memVars, irqOn>>

(* gd_or_die: the read returned -2, the caller paints the death screen.    *)
GdOrDie ==
  /\ pc = "attempt" /\ attempt >= MaxAttempts
  /\ pc' = "dead" /\ death' = "read_failed"
  /\ UNCHANGED <<call, attempt, guard, last_err, returned, biosVars, memVars, irqVars, faults>>

Driver ==
  \/ Enter \/ Attempt \/ Send \/ Exec \/ Check \/ GdOrDie
  \/ SysReinit \/ InitSend \/ InitExec \/ InitCheck \/ SectorMode

-----------------------------------------------------------------------------
(* The game, the cache and the faults.                                     *)

(* The game asks for a stream; it left some lines of the buffer dirty.     *)
CallRead ==
  /\ pc = "idle" /\ pc' = "enter" /\ returned' = FALSE
  /\ call' \in Calls
  /\ dst' = [i \in Slots |-> Old] /\ undone' = {} /\ lines' = call'.dirty
  /\ UNCHANGED <<attempt, guard, last_err, death, biosVars, irqVars, faults>>

(* The game's inherited GD-DMA handler is re-armed between reads.          *)
GameRearms ==
  /\ pc = "idle" /\ irqOn' = TRUE
  /\ UNCHANGED <<pc, call, driverVars, biosVars, memVars, istnrm, faults>>

(* The cache writes a dirty line back over whatever RAM holds by now.      *)
Evict ==
  /\ \E i \in lines : lines' = lines \ {i} /\ undone' = undone \cup {i}
  /\ UNCHANGED <<pc, call, dst, driverVars, biosVars, irqVars, faults>>

CountFault == faults' = IF faults < MaxAttempts THEN faults + 1 ELSE faults

(* The game claims the low RAM that holds the BIOS queue.                  *)
Trample ==
  /\ alive' = FALSE /\ queue' = "free" /\ CountFault
  /\ UNCHANGED <<pc, call, driverVars, cmd, moved, upset, readType, memVars, irqVars>>

(* A stray write to an unmirrored 0x5f7xxx register hits the drive.        *)
Poke ==
  /\ upset' = TRUE /\ CountFault
  /\ UNCHANGED <<pc, call, driverVars, queue, cmd, moved, alive, readType, memVars, irqVars>>

(* The drive fails the running command by itself.                          *)
Glitch ==
  /\ queue = "running" /\ queue' = "failed" /\ CountFault
  /\ UNCHANGED <<pc, call, driverVars, cmd, moved, alive, upset, readType, memVars, irqVars>>

Environment == CallRead \/ GameRearms \/ Evict \/ Trample \/ Poke \/ Glitch

GdNext == Driver \/ Environment

GdSpec == GdInit /\ [][GdNext]_gdVars

(* The driver never waits for anything but the return of a system call.    *)
GdFairSpec == GdSpec /\ WF_gdVars(Driver)

-----------------------------------------------------------------------------
(* What is checked.                                                        *)

PCs == {"idle", "enter", "attempt", "sysinit", "initSend", "initExec",
        "initCheck", "mode", "send", "exec", "check", "dead"}

(* Type invariant of the driver, the BIOS slot and the memory of gd.c.     *)
TypeOK ==
  /\ pc \in PCs /\ returned \in BOOLEAN /\ call \in Calls
  /\ attempt \in 0 .. MaxAttempts /\ guard \in 0 .. GuardLimit
  /\ last_err \in {"cafe0000", "cafe0001", "cafe0002", "drive_status"}
  /\ death \in {"none", "hung_init", "hung_read", "read_failed"}
  /\ queue \in {"free", "queued", "running", "done", "failed"}
  /\ cmd \in {"read", "init"} /\ moved \in 0 .. MaxSectors
  /\ alive \in BOOLEAN /\ upset \in BOOLEAN
  /\ readType \in {"default", "xa"}
  /\ dst \in [Slots -> Int] /\ undone \in SUBSET Slots /\ lines \in SUBSET Slots
  /\ irqOn \in BOOLEAN /\ istnrm \in BOOLEAN
  /\ faults \in 0 .. MaxAttempts

(* A read that returned 0 has put every requested sector in RAM, whatever  *)
(* was trampled, poked or failed on the way (gd.c:161, 224); only a PIO    *)
(* read over slots the game left dirty is excepted.                        *)
Delivered == returned => Complete(call, dst, undone)

(* The game's inherited GD-DMA interrupt handler never runs: while bit 14  *)
(* is pending it is masked, and it is acknowledged before the game can     *)
(* re-arm it (gd.c:194-204, 225).                                          *)
NoLegacyGdIrq == ~(irqOn /\ istnrm)

(* Recovery heals: a read dies with -2 only when as many faults as there   *)
(* are attempts struck since the last good read (gd.c:73-79, 141-142).     *)
FailureNeedsRepeatedFaults == death = "read_failed" => faults >= MaxAttempts

(* The hang detector never fires on a drive that is merely slow within the *)
(* limits it allows, however often the read is retried (gd.c:165-167).     *)
NoFalseHang == death \notin {"hung_read", "hung_init"}

(* NOT_FOUND is believed only when the command is really gone: a command   *)
(* the server has yet to pick up is not abandoned (gd.c:136-140, 163).     *)
NoFalseGiveUp ==
  [][last_err' = "cafe0001" /\ attempt' > attempt => queue = "free"]_gdVars

(* Every read ends: it returns or paints a death screen, even when the     *)
(* drive never completes a command (gd.c:164-167).                         *)
ReadEnds == pc = "enter" ~> pc \in {"idle", "dead"}

(* The driver implements the promise its caller relies on.                 *)
Promise == INSTANCE SectorRead WITH status <- driverStatus
ImplementsSectorRead == Promise!Spec

-----------------------------------------------------------------------------
(* The inductive invariant behind these properties.                        *)

(* The command slot and the place in the driver agree.                     *)
SlotInv ==
  /\ pc \in {"idle", "enter"} => queue = "free"
  /\ ~alive => queue = "free"
  /\ queue = "queued" => moved = 0
  /\ queue = "running" => moved < call.n
  /\ pc \in {"exec", "check"} => cmd = "read"
  /\ pc \in {"exec", "check"} /\ queue = "done" => moved = call.n
  /\ returned => pc = "idle"

(* The driver is inside an attempt from its recovery to its verdict.       *)
AttemptInv ==
  pc \in {"sysinit", "initSend", "initExec", "initCheck", "mode", "send", "exec", "check"} =>
    attempt < MaxAttempts

(* Whenever a read may be sent, a live BIOS is in the read type the disc   *)
(* needs.                                                                  *)
ReadTypeInv ==
  /\ alive /\ pc \in {"idle", "enter", "attempt", "send", "exec", "check"} =>
       readType = NeededType
  /\ ~CDXA => readType = "default" /\ pc # "mode"

(* What the command in flight has moved is in place; a G1-DMA destination  *)
(* has no dirty line from the invalidation to the return.                  *)
StoredInv ==
  /\ undone \subseteq call.dirty /\ lines \subseteq call.dirty
  /\ pc \in {"exec", "check"} /\ queue \in {"running", "done"} =>
       \A i \in 0 .. moved - 1 :
         dst[i] = Wanted(call, i) /\ (call.dma => i \notin undone)
  /\ call.dma /\ (pc \in {"exec", "check"} \/ returned) =>
       lines \cap Requested(call) = {}
  /\ Delivered

(* Bit 14 is masked from the entry of a DMA read to its return, and        *)
(* pending only in between.                                                *)
MaskInv ==
  /\ call.dma /\ pc \notin {"idle", "enter"} => ~irqOn
  /\ istnrm => call.dma /\ pc \notin {"idle", "enter"}

IInv == TypeOK /\ SlotInv /\ AttemptInv /\ ReadTypeInv /\ StoredInv /\ MaskInv

-----------------------------------------------------------------------------
(* Why a slow drive is not taken for a dead one.                           *)

(* The server is within the limits of the driver: a command is picked up   *)
(* before NOT_FOUND is believed, and transferred before the guard runs out *)
(* even if every sector takes a poll of its own.                           *)
Timely ==
  /\ PickupDelay <= NotFoundTolerance + 1 /\ NotFoundTolerance < GuardLimit
  /\ PickupDelay + MaxSectors <= GuardLimit
  /\ TransferDelay + MaxSectors <= GuardLimit + 1

(* What a command that is not finished after g polls is doing.             *)
Within(g) ==
  /\ queue = "queued" => g <= PickupDelay
  /\ queue = "running" => g <= PickupDelay + 1 + moved \/ g <= TransferDelay + moved

PatienceInv ==
  /\ pc \in {"exec", "initExec"} => Within(guard)
  /\ pc \in {"check", "initCheck"} => Within(guard + 1)
  /\ pc \in {"attempt", "sysinit", "initSend", "mode", "send"} => queue = "free"
  /\ NoFalseHang

(* What can fail the attempt under way is a fault no attempt has yet been  *)
(* charged to; a recovery heals all earlier ones.                          *)
FaultInv ==
  /\ pc \notin {"idle", "enter", "dead"} => faults >= attempt
  /\ pc \in {"idle", "enter"} /\ (~alive \/ upset) => faults >= 1
  /\ pc = "attempt" /\ attempt = 0 /\ (~alive \/ upset) => faults >= 1
  /\ pc = "initSend" /\ ~alive => faults > attempt
  /\ pc \in {"initExec", "initCheck"} => cmd = "init"
  /\ pc \in {"initExec", "initCheck"} /\ (queue \in {"free", "failed"} \/ (queue = "done" /\ upset)) =>
       faults > attempt
  /\ pc \in {"mode", "send"} /\ (~alive \/ upset) => faults > attempt
  /\ pc \in {"exec", "check"} /\ (upset \/ queue \in {"free", "failed"}) => faults > attempt
  /\ FailureNeedsRepeatedFaults /\ (pc # "dead" => death = "none")
-----------------------------------------------------------------------------
(* Why every read ends: the system calls and loop turns it may still take, *)
(* at most two per poll of either loop.                                    *)
PerAttempt == 4 * GuardLimit + 9

LegLeft ==
  CASE pc = "sysinit"   -> 4 * GuardLimit + 8
    [] pc = "initSend"  -> 4 * GuardLimit + 7
    [] pc = "initExec"  -> 4 * GuardLimit + 6 - 2 * guard
    [] pc = "initCheck" -> 4 * GuardLimit + 5 - 2 * guard
    [] pc = "mode"      -> 2 * GuardLimit + 4
    [] pc = "send"      -> 2 * GuardLimit + 3
    [] pc = "exec"      -> 2 * GuardLimit + 2 - 2 * guard
    [] pc = "check"     -> 2 * GuardLimit + 1 - 2 * guard
    [] OTHER            -> PerAttempt

StepsLeft ==
  IF pc \in {"idle", "dead"} THEN 0
  ELSE IF pc = "enter" THEN MaxAttempts * PerAttempt + 2
  ELSE IF pc = "attempt" THEN (MaxAttempts - attempt) * PerAttempt + 1
  ELSE (MaxAttempts - attempt - 1) * PerAttempt + 1 + LegLeft

(* Each step of the driver uses one up, whatever the drive answers, and    *)
(* nothing that happens to it gives one back (gd.c:143-168): a read takes  *)
(* at most MaxAttempts * PerAttempt + 2 steps.                             *)
ReadShrinks ==
  [][/\ Driver => StepsLeft' < StepsLeft
     /\ Environment /\ pc # "idle" => UNCHANGED <<pc, StepsLeft>>]_gdVars

StepsBounded == StepsLeft \in 0 .. MaxAttempts * PerAttempt + 2
=============================================================================
