--------------------------- MODULE GdDriverProofs ---------------------------
(***************************************************************************)
(* Theorems about the GD driver, for every number of sectors, attempts and *)
(* polls, every fault pattern and both builds: the type invariant, what a  *)
(* read that returned 0 has delivered, that the game's GD-DMA handler      *)
(* never runs, and that the driver implements SectorRead.  They rest on    *)
(* the inductive invariant IInv of GdDriver.  Under the hypothesis Timely, *)
(* which bounds the server's delays, PatienceInv and FaultInv show that    *)
(* slow is never taken for dead and that a failed read was paid for with   *)
(* as many faults as it had attempts.                                      *)
(***************************************************************************)
EXTENDS GdDriver, TLAPS


LEMMA CallFacts ==
  ASSUME TypeOK
  PROVE  /\ call.n \in 1 .. MaxSectors /\ call.fad \in Nat
         /\ call.dma \in BOOLEAN /\ call.dirty \subseteq Slots
         /\ Requested(call) \subseteq Slots
  <1>1. call.n \in 1 .. MaxSectors /\ call.fad \in Nat /\ call.dirty \subseteq Slots
    BY GdRequestAssumption DEF TypeOK, Calls
  <1>2. call.dma \in BOOLEAN
    BY DEF TypeOK, Calls
  <1>. QED
    BY <1>1, <1>2, GdRequestAssumption DEF Requested, Slots

LEMMA InitIInv == GdInit => IInv
  <1>. SUFFICES ASSUME GdInit PROVE IInv
    OBVIOUS
  <1>. USE GdDriverAssumption, GdRequestAssumption DEF GdInit
  <1>1. call \in Calls /\ ~call.dma /\ call.dirty = {}
    BY DEF NoCall, Calls
  <1>2. TypeOK
    <2>1. dst \in [Slots -> Int] /\ undone \in SUBSET Slots /\ lines \in SUBSET Slots
      BY DEF Old
    <2>2. /\ returned \in BOOLEAN /\ alive \in BOOLEAN /\ upset \in BOOLEAN
          /\ irqOn \in BOOLEAN /\ istnrm \in BOOLEAN
      BY Zenon
    <2>. QED
      BY <1>1, <2>1, <2>2 DEF TypeOK, PCs, NeededType
  <1>3. SlotInv /\ AttemptInv /\ ReadTypeInv
    BY DEF SlotInv, AttemptInv, ReadTypeInv, NeededType
  <1>4. StoredInv /\ MaskInv
    BY <1>1 DEF StoredInv, Delivered, MaskInv
  <1>. QED
    BY <1>2, <1>3, <1>4 DEF IInv

-----------------------------------------------------------------------------
(* Type correctness.                                                       *)

(* The server stores inside the request, one sector further at a time.     *)
LEMMA TransferInside ==
  ASSUME TypeOK, SlotInv, ServerTransfers
  PROVE  moved \in Slots /\ moved \in Requested(call)
  BY CallFacts, GdRequestAssumption
  DEF TypeOK, SlotInv, ServerTransfers, Slots, Requested

LEMMA ExecTypes ==
  ASSUME TypeOK, SlotInv, ExecServer
  PROVE  /\ queue' \in {"free", "queued", "running", "done", "failed"}
         /\ cmd' = cmd /\ alive' = alive
         /\ moved' \in 0 .. MaxSectors
         /\ upset' \in BOOLEAN /\ readType' \in {"default", "xa"}
         /\ dst' \in [Slots -> Int] /\ undone' \in SUBSET Slots
         /\ istnrm' \in BOOLEAN
  <1>. USE DEF TypeOK
  <1>1. CASE ServerStalls
    BY <1>1 DEF ServerStalls, biosVars
  <1>2. CASE ServerPicksUp
    BY <1>2 DEF ServerPicksUp
  <1>3. CASE ServerInitialises
    BY <1>3 DEF ServerInitialises
  <1>4. CASE ServerFailsRead
    BY <1>4 DEF ServerFailsRead
  <1>5. CASE ServerTransfers
    <2>. USE <1>5, CallFacts, TransferInside, GdRequestAssumption
    <2>1. moved' \in 0 .. MaxSectors /\ queue' \in {"running", "done"}
      BY DEF ServerTransfers, Slots
    <2>2. dst' \in [Slots -> Int]
      BY DEF ServerTransfers, Wanted, Raw
    <2>3. undone' \in SUBSET Slots
      BY DEF ServerTransfers
    <2>4. istnrm' \in BOOLEAN
      BY Zenon DEF ServerTransfers
    <2>. QED
      BY <2>1, <2>2, <2>3, <2>4 DEF ServerTransfers
  <1>. QED
    BY <1>1, <1>2, <1>3, <1>4, <1>5 DEF ExecServer

LEMMA SendTypes == TypeOK /\ AttemptInv /\ Send => TypeOK'
  <1>. SUFFICES ASSUME TypeOK, AttemptInv, Send PROVE TypeOK'
    OBVIOUS
  <1>. USE GdDriverAssumption DEF TypeOK, biosVars
  <1>1. lines' \in SUBSET Slots
    BY DEF Send, Invalidate
  <1>2. attempt' \in 0 .. MaxAttempts /\ guard' \in 0 .. GuardLimit
    BY DEF Send, AttemptInv, NextAttempt
  <1>3. /\ pc' \in PCs
        /\ last_err' \in {"cafe0000", "cafe0001", "cafe0002", "drive_status"}
    BY DEF Send, NextAttempt, PCs
  <1>4. /\ queue' \in {"free", "queued", "running", "done", "failed"}
        /\ cmd' \in {"read", "init"} /\ moved' \in 0 .. MaxSectors
    BY GdRequestAssumption DEF Send, Enqueue
  <1>5. alive' \in BOOLEAN /\ upset' \in BOOLEAN /\ readType' \in {"default", "xa"}
    BY DEF Send, Enqueue
  <1>. QED
    BY <1>1, <1>2, <1>3, <1>4, <1>5 DEF Send, irqVars

LEMMA CheckTypes == TypeOK /\ AttemptInv /\ Check => TypeOK'
  <1>. SUFFICES ASSUME TypeOK, AttemptInv, Check PROVE TypeOK'
    OBVIOUS
  <1>. USE GdDriverAssumption DEF TypeOK
  <1>1. pc' \in PCs /\ attempt' \in 0 .. MaxAttempts /\ guard' \in 0 .. GuardLimit
    BY DEF Check, AttemptInv, NextAttempt, Completed, KeepPolling, GiveUp, PCs
  <1>2. /\ last_err' \in {"cafe0000", "cafe0001", "cafe0002", "drive_status"}
        /\ death' \in {"none", "hung_init", "hung_read", "read_failed"}
    BY DEF Check, NextAttempt, Completed, KeepPolling, GiveUp
  <1>3. /\ queue' \in {"free", "queued", "running", "done", "failed"}
        /\ UNCHANGED <<cmd, moved, alive, upset, readType>>
    BY DEF Check, TakeVerdict
  <1>4. faults' \in 0 .. MaxAttempts
    BY DEF Check, Completed, KeepPolling, GiveUp
  <1>5. returned' \in BOOLEAN /\ istnrm' \in BOOLEAN
    BY Zenon DEF Check, Completed, KeepPolling, GiveUp
  <1>. QED
    BY <1>1, <1>2, <1>3, <1>4, <1>5 DEF Check, memVars

LEMMA NextTypeOK == IInv /\ [GdNext]_gdVars => TypeOK'
  <1>. SUFFICES ASSUME TypeOK, SlotInv, AttemptInv, [GdNext]_gdVars PROVE TypeOK'
    BY DEF IInv
  <1>. USE GdDriverAssumption
       DEF TypeOK, PCs, biosVars, memVars, irqVars, driverVars
  <1>1. CASE Enter \/ Attempt \/ GdOrDie \/ SysReinit \/ SectorMode
    <2>1. CASE Enter
      BY <2>1 DEF Enter
    <2>2. CASE Attempt \/ GdOrDie
      BY <2>2 DEF Attempt, GdOrDie
    <2>3. CASE SysReinit
      <3>1. alive' \in BOOLEAN
        BY <2>3 DEF SysReinit
      <3>. QED
        BY <2>3, <3>1 DEF SysReinit
    <2>4. CASE SectorMode
      BY <2>4 DEF SectorMode
    <2>. QED
      BY <1>1, <2>1, <2>2, <2>3, <2>4
  <1>2. CASE InitSend
    BY <1>2, GdRequestAssumption DEF InitSend, Enqueue, AfterInit
  <1>3. CASE InitExec \/ Exec
    BY <1>3, ExecTypes DEF InitExec, Exec
  <1>4. CASE InitCheck
    BY <1>4 DEF InitCheck, TakeVerdict, AfterInit
  <1>5. CASE Send
    BY <1>5, SendTypes
  <1>6. CASE Check
    BY <1>6, CheckTypes
  <1>7. CASE CallRead
    <2>1. lines' \in SUBSET Slots
      BY <1>7 DEF CallRead, Calls
    <2>2. dst' \in [Slots -> Int] /\ undone' \in SUBSET Slots
      BY <1>7 DEF CallRead, Old
    <2>3. returned' = FALSE /\ call' \in Calls
      BY <1>7, Zenon DEF CallRead
    <2>4. pc' \in PCs
      BY <1>7 DEF CallRead
    <2>5. UNCHANGED <<attempt, guard, last_err, death, biosVars, irqVars, faults>>
      BY <1>7, Zenon DEF CallRead
    <2>6. returned' \in BOOLEAN
      BY <2>3
    <2>. QED
      BY <2>1, <2>2, <2>3, <2>4, <2>5, <2>6
  <1>8. CASE GameRearms \/ Evict
    <2>1. CASE GameRearms
      BY <2>1 DEF GameRearms
    <2>2. CASE Evict
      BY <2>2 DEF Evict
    <2>. QED
      BY <1>8, <2>1, <2>2
  <1>9. CASE Trample \/ Poke \/ Glitch
    <2>1. faults' \in 0 .. MaxAttempts
      BY <1>9 DEF Trample, Poke, Glitch, CountFault
    <2>2. CASE Trample
      <3>1. alive' \in BOOLEAN
        BY <2>2 DEF Trample
      <3>. QED
        BY <2>1, <2>2, <3>1 DEF Trample
    <2>3. CASE Poke
      BY <2>1, <2>3 DEF Poke
    <2>4. CASE Glitch
      BY <2>1, <2>4 DEF Glitch
    <2>. QED
      BY <1>9, <2>2, <2>3, <2>4
  <1>10. CASE UNCHANGED gdVars
    BY <1>10 DEF gdVars
  <1>. QED
    BY <1>1, <1>2, <1>3, <1>4, <1>5, <1>6, <1>7, <1>8, <1>9, <1>10
    DEF GdNext, Driver, Environment

-----------------------------------------------------------------------------
(* Control: the slot, the attempt and the read type.                       *)

LEMMA NextControl == IInv /\ [GdNext]_gdVars => SlotInv' /\ AttemptInv' /\ ReadTypeInv'
  <1>. SUFFICES ASSUME TypeOK, SlotInv, AttemptInv, ReadTypeInv, [GdNext]_gdVars
                PROVE  SlotInv' /\ AttemptInv' /\ ReadTypeInv'
    BY DEF IInv
  <1>. USE GdDriverAssumption
       DEF SlotInv, AttemptInv, ReadTypeInv, biosVars, memVars, irqVars, driverVars
  <1>0. /\ call.n \in 1 .. MaxSectors /\ moved \in 0 .. MaxSectors
        /\ attempt \in Nat /\ alive \in BOOLEAN /\ returned \in BOOLEAN
    BY CallFacts DEF TypeOK
  <1>1. CASE Enter \/ Attempt \/ GdOrDie
    BY <1>0, <1>1 DEF Enter, Attempt, GdOrDie
  <1>2. CASE SysReinit \/ SectorMode
    BY <1>0, <1>2 DEF SysReinit, SectorMode, NeededType
  <1>3. CASE InitSend
    BY <1>0, <1>3 DEF InitSend, Enqueue, Accepts, AfterInit, NeededType
  <1>4. CASE InitExec
    BY <1>0, <1>4 DEF InitExec, ExecServer, ServerStalls, ServerPicksUp,
                      ServerInitialises, ServerFailsRead, ServerTransfers
  <1>5. CASE InitCheck
    BY <1>0, <1>4, <1>5 DEF InitCheck, TakeVerdict, AfterInit, NeededType
  <1>6. CASE Send
    BY <1>0, <1>6 DEF Send, Enqueue, Accepts, NextAttempt
  <1>7. CASE Exec
    BY <1>0, <1>7 DEF Exec, ExecServer, ServerStalls, ServerPicksUp,
                      ServerInitialises, ServerFailsRead, ServerTransfers
  <1>8. CASE Check
    BY <1>0, <1>8 DEF Check, TakeVerdict, Verdict, Completed, GiveUp,
                      NextAttempt, KeepPolling
  <1>9. CASE CallRead \/ GameRearms \/ Evict
    BY <1>0, <1>9 DEF CallRead, GameRearms, Evict
  <1>10. CASE Trample \/ Poke \/ Glitch
    BY <1>0, <1>10 DEF Trample, Poke, Glitch
  <1>11. CASE UNCHANGED gdVars
    BY <1>11 DEF gdVars
  <1>. QED
    BY <1>1, <1>2, <1>3, <1>4, <1>5, <1>6, <1>7, <1>8, <1>9, <1>10, <1>11
    DEF GdNext, Driver, Environment

-----------------------------------------------------------------------------
(* Data: what is stored, and which cache lines can still undo it.          *)

LEMMA ExecMemory ==
  ASSUME SlotInv, ExecServer
  PROVE  undone' \subseteq undone
  BY DEF ExecServer, ServerStalls, ServerPicksUp, ServerInitialises,
         ServerFailsRead, ServerTransfers

(* One more sector of a read is right and extends the transferred prefix.  *)
LEMMA PrefixGrows ==
  ASSUME IInv, Exec, ServerTransfers
  PROVE  \A i \in 0 .. moved' - 1 :
           dst'[i] = Wanted(call, i) /\ (call.dma => i \notin undone')
  <1>. USE DEF IInv
  <1>1. moved \in Slots /\ moved' = moved + 1
    BY TransferInside DEF ServerTransfers
  <1>2. readType = NeededType
    BY DEF ServerTransfers, Exec, ReadTypeInv, SlotInv
  <1>3. dst' = [dst EXCEPT ![moved] = Wanted(call, moved)] /\ undone' = undone \ {moved}
    BY <1>2 DEF ServerTransfers
  <1>4. \A i \in 0 .. moved - 1 : dst[i] = Wanted(call, i) /\ (call.dma => i \notin undone)
    BY DEF Exec, ServerTransfers, StoredInv
  <1>. SUFFICES ASSUME NEW i \in 0 .. moved' - 1
                PROVE  dst'[i] = Wanted(call, i) /\ (call.dma => i \notin undone')
    OBVIOUS
  <1>5. i \in Slots /\ (i = moved \/ i \in 0 .. moved - 1)
    BY <1>1, GdRequestAssumption DEF Slots
  <1>6. CASE i = moved
    BY <1>1, <1>3, <1>6 DEF TypeOK
  <1>7. CASE i \in 0 .. moved - 1
    BY <1>1, <1>3, <1>4, <1>5, <1>7 DEF TypeOK, Slots
  <1>. QED
    BY <1>5, <1>6, <1>7

LEMMA ExecStored == IInv /\ Exec => StoredInv'
  <1>. SUFFICES ASSUME IInv, Exec PROVE StoredInv'
    OBVIOUS
  <1>. USE DEF IInv
  <1>1. /\ ~returned' /\ lines' = lines /\ call' = call
        /\ pc = "exec" /\ pc' = "check" /\ undone' \subseteq undone
    BY ExecMemory DEF Exec, SlotInv, driverVars
  <1>2. ASSUME queue' \in {"running", "done"}
        PROVE  \A i \in 0 .. moved' - 1 :
                 dst'[i] = Wanted(call, i) /\ (call.dma => i \notin undone')
    <2>1. CASE ServerTransfers
      BY <2>1, PrefixGrows
    <2>2. CASE ServerStalls
      BY <1>1, <1>2, <2>2 DEF ServerStalls, StoredInv, biosVars
    <2>3. CASE ServerPicksUp
      BY <1>1, <2>3, SMT DEF ServerPicksUp, StoredInv, SlotInv
    <2>4. CASE ServerInitialises \/ ServerFailsRead
      BY <1>1, <1>2, <2>4 DEF ServerInitialises, ServerFailsRead, SlotInv
    <2>. QED
      BY <2>1, <2>2, <2>3, <2>4 DEF Exec, ExecServer
  <1>. QED
    BY <1>1, <1>2 DEF StoredInv, Delivered

(* COMPLETED: the prefix is the whole request.                             *)
LEMMA CompletedDelivers ==
  ASSUME IInv, pc = "check", queue = "done"
  PROVE  Complete(call, dst, undone) /\ (call.dma => lines \cap Requested(call) = {})
  <1>. USE DEF IInv
  <1>1. \A i \in Requested(call) : dst[i] = Wanted(call, i) /\ (call.dma => i \notin undone)
    BY DEF StoredInv, SlotInv, Requested
  <1>2. undone \cap Requested(call) \subseteq Exposed(call)
    <2>1. CASE call.dma
      BY <1>1, <2>1 DEF Exposed
    <2>2. CASE ~call.dma
      BY <2>2 DEF Exposed, StoredInv
    <2>. QED
      BY <2>1, <2>2
  <1>. QED
    BY <1>1, <1>2 DEF Complete, StoredInv

LEMMA NextStored == IInv /\ [GdNext]_gdVars => StoredInv'
  <1>. SUFFICES ASSUME IInv, [GdNext]_gdVars PROVE StoredInv'
    OBVIOUS
  <1>. USE DEF IInv, biosVars, memVars, irqVars, driverVars
  <1>1. CASE Enter \/ Attempt \/ GdOrDie \/ SysReinit \/ SectorMode
    BY <1>1 DEF Enter, Attempt, GdOrDie, SysReinit, SectorMode, StoredInv, SlotInv, Delivered
  <1>2. CASE InitSend \/ InitCheck
    BY <1>2 DEF InitSend, InitCheck, AfterInit, StoredInv, SlotInv, Delivered
  <1>3. CASE InitExec
    <2>1. /\ ~returned' /\ lines' = lines /\ call' = call
          /\ pc' = "initCheck" /\ undone' \subseteq undone
      BY <1>3, ExecMemory DEF InitExec, SlotInv
    <2>. QED
      BY <2>1 DEF StoredInv, Delivered
  <1>4. CASE Send
    <2>1. ~returned' /\ call' = call /\ undone' = undone /\ pc' \in {"exec", "attempt"}
      BY <1>4 DEF Send, SlotInv, NextAttempt
    <2>2. lines' \subseteq lines /\ (call.dma => lines' \cap Requested(call) = {})
      BY <1>4 DEF Send, Invalidate
    <2>3. pc' = "exec" => queue' = "queued"
      BY <1>4 DEF Send, Enqueue, NextAttempt
    <2>. QED
      BY <2>1, <2>2, <2>3 DEF StoredInv, Delivered
  <1>5. CASE Exec
    BY <1>5, ExecStored
  <1>6. CASE Check
    <2>1. UNCHANGED <<call, dst, undone, lines, moved>> /\ pc = "check"
      BY <1>6 DEF Check, TakeVerdict
    <2>2. CASE returned'
      <3>1. queue = "done"
        BY <1>6, <2>2 DEF Check, Verdict, GiveUp, KeepPolling, SlotInv
      <3>2. pc' = "idle"
        BY <1>6, <2>2, <3>1 DEF Check, Verdict, Completed
      <3>. QED
        BY <2>1, <3>1, <3>2, CompletedDelivers DEF StoredInv, Delivered
    <2>3. CASE ~returned'
      <3>1. pc' \notin {"exec", "check"} \/ queue' = queue
        BY <1>6, <2>3 DEF Check, TakeVerdict, Verdict, GiveUp, NextAttempt, KeepPolling, Completed
      <3>. QED
        BY <2>1, <2>3, <3>1 DEF StoredInv, Delivered
    <2>. QED
      BY <2>2, <2>3
  <1>7. CASE CallRead
    BY <1>7 DEF CallRead, StoredInv, Delivered
  <1>8. CASE GameRearms
    BY <1>8 DEF GameRearms, StoredInv, Delivered
  <1>9. CASE Evict
    <2>1. PICK i \in lines : lines' = lines \ {i} /\ undone' = undone \cup {i}
      BY <1>9 DEF Evict
    <2>2. UNCHANGED <<pc, call, dst, returned, queue, moved>>
      BY <1>9 DEF Evict
    <2>3. i \in call.dirty /\ (call.dma /\ (pc \in {"exec", "check"} \/ returned) => i \notin Requested(call))
      BY <2>1 DEF StoredInv
    <2>4. moved \in 0 .. call.n \/ ~(pc \in {"exec", "check"} /\ queue \in {"running", "done"})
      BY CallFacts DEF SlotInv, TypeOK
    <2>5. pc \in {"exec", "check"} /\ queue \in {"running", "done"} =>
            \A k \in 0 .. moved - 1 : dst[k] = Wanted(call, k) /\ (call.dma => k \notin undone')
      BY <2>1, <2>3, <2>4, CallFacts DEF StoredInv, Requested
    <2>6. returned => Complete(call, dst, undone')
      BY <2>1, <2>3 DEF StoredInv, Delivered, Complete, Exposed
    <2>. QED
      BY <2>1, <2>2, <2>3, <2>5, <2>6 DEF StoredInv, Delivered
  <1>10. CASE Trample \/ Poke \/ Glitch
    BY <1>10 DEF Trample, Poke, Glitch, StoredInv, Delivered
  <1>11. CASE UNCHANGED gdVars
    BY <1>11 DEF gdVars, StoredInv, Delivered
  <1>. QED
    BY <1>1, <1>2, <1>3, <1>4, <1>5, <1>6, <1>7, <1>8, <1>9, <1>10, <1>11
    DEF GdNext, Driver, Environment

-----------------------------------------------------------------------------
(* The interrupt mask.                                                     *)

LEMMA ExecMask ==
  ASSUME ExecServer
  PROVE  istnrm' => istnrm \/ call.dma
  BY DEF ExecServer, ServerStalls, ServerPicksUp, ServerInitialises,
         ServerFailsRead, ServerTransfers

LEMMA NextMask == IInv /\ [GdNext]_gdVars => MaskInv'
  <1>. SUFFICES ASSUME IInv, [GdNext]_gdVars PROVE MaskInv'
    OBVIOUS
  <1>. USE DEF IInv, MaskInv, biosVars, memVars, irqVars, driverVars
  <1>1. CASE Enter
    BY <1>1, Zenon DEF Enter
  <1>2. CASE Attempt \/ GdOrDie \/ SysReinit \/ SectorMode
    BY <1>2 DEF Attempt, GdOrDie, SysReinit, SectorMode
  <1>3. CASE InitSend \/ InitCheck
    BY <1>3 DEF InitSend, InitCheck, AfterInit
  <1>4. CASE Send
    BY <1>4 DEF Send, NextAttempt
  <1>5. CASE InitExec \/ Exec
    <2>1. istnrm' => istnrm \/ call.dma
      BY <1>5, ExecMask DEF InitExec, Exec
    <2>. QED
      BY <1>5, <2>1 DEF InitExec, Exec
  <1>6. CASE Check
    BY <1>6 DEF Check, Completed, GiveUp, NextAttempt, KeepPolling
  <1>7. CASE CallRead \/ GameRearms \/ Evict
    BY <1>7 DEF CallRead, GameRearms, Evict
  <1>8. CASE Trample \/ Poke \/ Glitch
    BY <1>8 DEF Trample, Poke, Glitch
  <1>9. CASE UNCHANGED gdVars
    BY <1>9 DEF gdVars
  <1>. QED
    BY <1>1, <1>2, <1>3, <1>4, <1>5, <1>6, <1>7, <1>8, <1>9
    DEF GdNext, Driver, Environment

-----------------------------------------------------------------------------
(* The theorems.                                                           *)

(* The invariant holds in every reachable state of the driver.             *)
THEOREM Invariance == GdSpec => []IInv
  <1>1. IInv /\ [GdNext]_gdVars => IInv'
    BY NextTypeOK, NextControl, NextStored, NextMask DEF IInv
  <1>. QED
    BY InitIInv, <1>1, PTL DEF GdSpec

(* The variables of gd.c and of the BIOS slot keep their types: the        *)
(* counters stay below their limits and a transfer inside the buffer.      *)
THEOREM TypeCorrect == GdSpec => []TypeOK
  <1>1. IInv => TypeOK
    BY DEF IInv
  <1>. QED
    BY <1>1, Invariance, PTL

(* A read that returned 0 put every sector it was asked for in RAM, for    *)
(* every number of attempts and every pattern of faults (gd.c:141-233).    *)
THEOREM ReadsDeliver == GdSpec => []Delivered
  <1>1. IInv => Delivered
    BY DEF IInv, StoredInv
  <1>. QED
    BY <1>1, Invariance, PTL

(* The game's GD-DMA interrupt is never both pending and let through       *)
(* (gd.c:194-204, 225).                                                    *)
THEOREM LegacyHandlerNeverRuns == GdSpec => []NoLegacyGdIrq
  <1>1. IInv => NoLegacyGdIrq
    BY Zenon DEF IInv, MaskInv, NoLegacyGdIrq
  <1>. QED
    BY <1>1, Invariance, PTL

-----------------------------------------------------------------------------
(* The driver implements SectorRead.                                       *)

LEMMA RefinementInit == GdInit => Promise!Init
  BY DEF GdInit, Promise!Init, Promise!Blank, Promise!NoCall, NoCall,
         driverStatus, Promise!Old, Old, Promise!Slots, Slots

(* What one step of the driver or its environment is to the caller.        *)
LEMMA RefinementStep ==
  IInv /\ IInv' /\ [GdNext]_gdVars => [Promise!Next]_Promise!vars
  <1>. SUFFICES ASSUME IInv, IInv', [GdNext]_gdVars
                PROVE  [Promise!Next]_Promise!vars
    OBVIOUS
  <1>. USE DEF biosVars, memVars, irqVars, driverVars
  <1>0. /\ returned => pc = "idle"
        /\ lines \subseteq call.dirty
        /\ call.dma /\ returned => lines \cap Requested(call) = {}
    BY DEF IInv, SlotInv, StoredInv
  <1>1. CASE Enter \/ Attempt \/ SysReinit \/ SectorMode \/ InitSend \/ Send
    <2>1. UNCHANGED <<call, dst, undone>> /\ driverStatus = "reading" /\ driverStatus' = "reading"
      BY <1>1 DEF Enter, Attempt, SysReinit, SectorMode, InitSend, AfterInit, Send,
                  NextAttempt, driverStatus
    <2>. QED
      BY <2>1 DEF Promise!vars
  <1>2. CASE InitExec \/ Exec
    <2>1. call' = call /\ driverStatus = "reading" /\ driverStatus' = "reading"
      BY <1>2 DEF InitExec, Exec, driverStatus
    <2>2. /\ undone' \subseteq undone \cup call.dirty
          /\ \A i \in Slots : \/ dst'[i] = dst[i]
                              \/ i \in Requested(call) /\ dst'[i] \in {Wanted(call, i), Raw}
      <3>1. CASE ServerTransfers
        <4>1. moved \in Requested(call) /\ moved \in Slots
          BY <3>1, TransferInside DEF IInv
        <4>. QED
          BY <3>1, <4>1 DEF ServerTransfers, IInv, TypeOK
      <3>2. CASE ServerStalls \/ ServerPicksUp \/ ServerInitialises \/ ServerFailsRead
        BY <3>2 DEF ServerStalls, ServerPicksUp, ServerInitialises, ServerFailsRead
      <3>. QED
        BY <1>2, <3>1, <3>2 DEF InitExec, Exec, ExecServer
    <2>3. Promise!Transfer
      BY <2>1, <2>2 DEF Promise!Transfer, Promise!Slots, Slots, Promise!Requested, Requested,
                        Promise!Wanted, Wanted, Promise!Raw, Raw
    <2>. QED
      BY <2>3 DEF Promise!Next
  <1>3. CASE Check
    <2>1. UNCHANGED <<call, dst, undone>> /\ driverStatus = "reading"
      BY <1>3 DEF Check, driverStatus
    <2>2. CASE pc' = "idle"
      <3>1. queue = "done" /\ pc = "check" /\ returned' = TRUE
        BY <1>3, <2>2 DEF Check, Verdict, Completed, GiveUp, NextAttempt, KeepPolling
      <3>2. Complete(call, dst, undone)
        BY <3>1, CompletedDelivers
      <3>3. driverStatus' = "ok"
        BY <2>2, <3>1 DEF driverStatus
      <3>. QED
        BY <2>1, <3>2, <3>3
        DEF Promise!Next, Promise!Return, Promise!Complete, Complete, Promise!Requested, Requested,
            Promise!Wanted, Wanted, Promise!Exposed, Exposed
    <2>3. CASE pc' = "dead"
      BY <2>1, <2>3 DEF driverStatus, Promise!Next, Promise!Die
    <2>4. CASE pc' \notin {"idle", "dead"}
      BY <2>1, <2>4 DEF driverStatus, Promise!vars
    <2>. QED
      BY <2>2, <2>3, <2>4
  <1>4. CASE InitCheck
    BY <1>4 DEF InitCheck, AfterInit, driverStatus, Promise!vars, Promise!Next, Promise!Die
  <1>5. CASE GdOrDie
    BY <1>5 DEF GdOrDie, driverStatus, Promise!Next, Promise!Die
  <1>6. CASE CallRead
    BY <1>6 DEF CallRead, driverStatus, Promise!Next, Promise!Request, Promise!Calls, Calls,
                Promise!Slots, Slots, Promise!Blank, Promise!Old, Old
  <1>7. CASE Evict
    <2>1. PICK i \in lines : lines' = lines \ {i} /\ undone' = undone \cup {i}
      BY <1>7 DEF Evict
    <2>2. UNCHANGED <<call, dst>> /\ driverStatus' = driverStatus
      BY <1>7 DEF Evict, driverStatus
    <2>3. i \in call.dirty
      BY <1>0, <2>1
    <2>4. CASE driverStatus = "reading"
      BY <2>1, <2>2, <2>3, <2>4 DEF Promise!Next, Promise!Transfer
    <2>5. CASE driverStatus # "reading"
      <3>1. driverStatus = "ok" /\ call.dma => i \notin Requested(call)
        BY <1>0, <2>1 DEF driverStatus
      <3>. QED
        BY <2>1, <2>2, <2>3, <2>5, <3>1 DEF Promise!Next, Promise!WriteBack, Promise!Requested, Requested
    <2>. QED
      BY <2>4, <2>5
  <1>8. CASE GameRearms \/ Trample \/ Poke \/ Glitch
    BY <1>8 DEF GameRearms, Trample, Poke, Glitch, driverStatus, Promise!vars
  <1>9. CASE UNCHANGED gdVars
    BY <1>9 DEF gdVars, driverStatus, Promise!vars
  <1>. QED
    BY <1>1, <1>2, <1>3, <1>4, <1>5, <1>6, <1>7, <1>8, <1>9
    DEF GdNext, Driver, Environment

(* gd_read_sectors and gd_read_sectors_dma keep the promise their caller   *)
(* relies on: everything asked for, or a death screen (gd.c, cart.c:75-83).*)
THEOREM ImplementsPromise == GdSpec => ImplementsSectorRead
  BY RefinementInit, RefinementStep, Invariance, PTL
  DEF GdSpec, ImplementsSectorRead, Promise!Spec

-----------------------------------------------------------------------------
(* Slow and dead: what the limits of the driver tell apart.                *)

LEMMA Ranges ==
  ASSUME TypeOK
  PROVE  /\ guard \in Nat /\ moved \in Nat /\ attempt \in Nat /\ faults \in Nat
         /\ attempt <= MaxAttempts /\ faults <= MaxAttempts /\ guard <= GuardLimit
         /\ call.n \in Nat /\ call.n <= MaxSectors
         /\ alive \in BOOLEAN /\ upset \in BOOLEAN
         /\ queue \in {"free", "queued", "running", "done", "failed"}
  <1>1. /\ guard \in 0 .. GuardLimit /\ moved \in 0 .. MaxSectors
        /\ attempt \in 0 .. MaxAttempts /\ faults \in 0 .. MaxAttempts
        /\ alive \in BOOLEAN /\ upset \in BOOLEAN
        /\ queue \in {"free", "queued", "running", "done", "failed"}
    BY DEF TypeOK
  <1>2. call.n \in 1 .. MaxSectors
    BY CallFacts
  <1>3. MaxAttempts \in Nat /\ GuardLimit \in Nat /\ MaxSectors \in Nat
    BY GdDriverAssumption, GdRequestAssumption
  <1>. QED
    BY <1>1, <1>2, <1>3

LEMMA Limits ==
  /\ PickupDelay \in Nat /\ TransferDelay \in Nat /\ NotFoundTolerance \in Nat
  /\ GuardLimit \in Nat /\ MaxSectors \in Nat /\ MaxAttempts \in Nat \ {0}
  BY GdDriverAssumption, GdRequestAssumption

(* A poll on: the server may stall only below its delays.                  *)
LEMMA ExecWithin ==
  ASSUME TypeOK, SlotInv, Within(guard), ExecServer, guard' = guard
  PROVE  Within(guard + 1)'
  <1>. USE Ranges, Limits DEF Within
  <1>1. CASE ServerStalls
    <2>1. UNCHANGED <<queue, moved>>
      BY <1>1 DEF ServerStalls, biosVars
    <2>2. queue = "queued" => guard + 1 <= PickupDelay
      BY <1>1 DEF ServerStalls
    <2>3. queue = "running" => guard + 1 <= TransferDelay + moved
      BY <1>1 DEF ServerStalls
    <2>. QED
      BY <2>1, <2>2, <2>3
  <1>2. CASE ServerPicksUp
    <2>1. moved = 0 /\ moved' = moved /\ queue' = "running" /\ guard <= PickupDelay
      BY <1>2 DEF ServerPicksUp, SlotInv
    <2>. QED
      BY <2>1
  <1>3. CASE ServerInitialises \/ ServerFailsRead
    BY <1>3 DEF ServerInitialises, ServerFailsRead
  <1>4. CASE ServerTransfers
    <2>1. queue = "running" /\ moved' = moved + 1 /\ queue' # "queued"
      BY <1>4 DEF ServerTransfers
    <2>2. \/ guard + 1 <= PickupDelay + 1 + (moved + 1)
          \/ guard + 1 <= TransferDelay + (moved + 1)
      BY <2>1
    <2>. QED
      BY <2>1, <2>2
  <1>. QED
    BY <1>1, <1>2, <1>3, <1>4 DEF ExecServer

(* What is still busy after a poll leaves room for another one.            *)
LEMMA RoomLeft ==
  ASSUME Timely, TypeOK, SlotInv, Within(guard + 1)
  PROVE  /\ queue \in {"queued", "running"} => guard + 1 <= GuardLimit
         /\ queue = "queued" => guard <= NotFoundTolerance
         /\ guard <= NotFoundTolerance => guard + 1 <= GuardLimit
  <1>. USE Ranges, Limits DEF Within, Timely, SlotInv
  <1>1. queue = "queued" => guard + 1 <= GuardLimit
    OBVIOUS
  <1>2. queue = "running" => guard + 1 <= GuardLimit
    <2>1. queue = "running" => moved + 1 <= MaxSectors
      OBVIOUS
    <2>. QED
      BY <2>1
  <1>. QED
    BY <1>1, <1>2

LEMMA NextPatience ==
  ASSUME Timely, IInv, PatienceInv, [GdNext]_gdVars
  PROVE  PatienceInv'
  <1>. USE Ranges DEF PatienceInv, NoFalseHang, IInv
  <1>1. CASE Enter \/ Attempt \/ GdOrDie \/ SysReinit \/ SectorMode
    BY <1>1 DEF Enter, Attempt, GdOrDie, SysReinit, SectorMode, driverVars, biosVars, SlotInv
  <1>2. CASE InitSend
    <2>1. CASE Enqueue("init") /\ pc' = "initExec" /\ guard' = 0 /\ death' = death
      BY <2>1, Limits DEF Enqueue, Within
    <2>2. CASE pc' = AfterInit /\ UNCHANGED <<biosVars, death>>
      BY <1>2, <2>2 DEF InitSend, AfterInit, biosVars
    <2>. QED
      BY <1>2, <2>1, <2>2 DEF InitSend
  <1>3. CASE Send
    <2>1. CASE Enqueue("read") /\ pc' = "exec" /\ guard' = 0 /\ death' = death
      BY <2>1, Limits DEF Enqueue, Within
    <2>2. CASE pc' = "attempt" /\ UNCHANGED <<biosVars, death>>
      BY <1>3, <2>2 DEF Send, biosVars
    <2>. QED
      BY <1>3, <2>1, <2>2 DEF Send, NextAttempt
  <1>4. CASE InitExec \/ Exec
    <2>1. Within(guard) /\ ExecServer /\ guard' = guard /\ death' = death
      BY <1>4 DEF InitExec, Exec, driverVars
    <2>2. Within(guard + 1)'
      BY <2>1, ExecWithin
    <2>. QED
      BY <1>4, <2>1, <2>2 DEF InitExec, Exec
  <1>5. CASE InitCheck
    <2>1. Within(guard + 1)
      BY <1>5 DEF InitCheck
    <2>2. ~(guard + 1 > GuardLimit) \/ queue \in {"done", "failed"} \/ guard > NotFoundTolerance
      BY <2>1, RoomLeft, Limits
    <2>3. CASE pc' = AfterInit
      <3>1. death' = death /\ queue' = "free"
        BY <1>5, <2>1, <2>3, RoomLeft, Limits DEF InitCheck, Verdict, TakeVerdict, AfterInit
      <3>. QED
        BY <2>3, <3>1 DEF AfterInit
    <2>4. CASE pc' = "dead"
      BY <1>5, <2>1, <2>4, RoomLeft, Limits DEF InitCheck, Verdict, AfterInit
    <2>5. CASE pc' = "initExec"
      <3>1. guard' = guard + 1 /\ UNCHANGED <<queue, moved, death>>
        BY <1>5, <2>5 DEF InitCheck, Verdict, TakeVerdict, AfterInit
      <3>. QED
        BY <2>1, <2>5, <3>1 DEF Within
    <2>. QED
      BY <1>5, <2>3, <2>4, <2>5 DEF InitCheck
  <1>6. CASE Check
    <2>1. Within(guard + 1)
      BY <1>6 DEF Check
    <2>2. CASE pc' = "idle"
      BY <1>6, <2>2 DEF Check, Completed, GiveUp, KeepPolling, NextAttempt
    <2>3. CASE pc' = "attempt"
      <3>1. death' = death /\ queue' = "free"
        BY <1>6, <2>1, <2>3, RoomLeft, Limits
        DEF Check, Verdict, TakeVerdict, Completed, GiveUp, KeepPolling, NextAttempt
      <3>. QED
        BY <2>3, <3>1
    <2>4. CASE pc' = "dead"
      BY <1>6, <2>1, <2>4, RoomLeft, Limits
      DEF Check, Verdict, Completed, GiveUp, KeepPolling, NextAttempt
    <2>5. CASE pc' = "exec"
      <3>1. guard' = guard + 1 /\ UNCHANGED <<queue, moved, death>>
        BY <1>6, <2>5
        DEF Check, Verdict, TakeVerdict, Completed, GiveUp, KeepPolling, NextAttempt
      <3>. QED
        BY <2>1, <2>5, <3>1 DEF Within
    <2>. QED
      BY <1>6, <2>2, <2>3, <2>4, <2>5 DEF Check, Completed, GiveUp, KeepPolling, NextAttempt
  <1>7. CASE CallRead \/ GameRearms \/ Evict
    BY <1>7 DEF CallRead, GameRearms, Evict, driverVars, biosVars, Within
  <1>8. CASE Trample \/ Poke \/ Glitch
    BY <1>8 DEF Trample, Poke, Glitch, driverVars, Within
  <1>9. CASE UNCHANGED gdVars
    BY <1>9 DEF gdVars, driverVars, biosVars, Within
  <1>. QED
    BY <1>1, <1>2, <1>3, <1>4, <1>5, <1>6, <1>7, <1>8, <1>9
    DEF GdNext, Driver, Environment

(* Within its delays the server never comes near the driver's limits: each *)
(* poll without progress is one of the stalls it is allowed                *)
(* (gd.c:136-140, 164-167).                                                *)
THEOREM Patience == ASSUME Timely PROVE GdSpec => []PatienceInv
  <1>1. GdInit => PatienceInv
    BY DEF GdInit, PatienceInv, NoFalseHang
  <1>2. IInv /\ PatienceInv /\ [GdNext]_gdVars => PatienceInv'
    BY NextPatience
  <1>. QED
    BY <1>1, <1>2, Invariance, PTL DEF GdSpec

(* A command the server has yet to pick up is never given up, if it is as  *)
(* quick as the tolerance allows (gd.c:136-140, 163).                      *)
THEOREM GivesUpOnlyTheGone == ASSUME Timely PROVE GdSpec => NoFalseGiveUp
  <1>1. ASSUME IInv, PatienceInv, [GdNext]_gdVars, last_err' = "cafe0001", attempt' > attempt
        PROVE  queue = "free"
    <2>. USE <1>1, Ranges DEF IInv
    <2>1. CASE Enter
      BY <2>1 DEF Enter
    <2>2. CASE Check
      <3>1. Within(guard + 1) /\ Verdict("NOT_FOUND") /\ guard > NotFoundTolerance
        BY <2>2 DEF PatienceInv, Check, Completed, GiveUp, KeepPolling, NextAttempt
      <3>. QED
        BY <3>1, RoomLeft, Limits DEF Verdict
    <2>3. CASE Send
      BY <2>3 DEF Send, NextAttempt
    <2>4. CASE Driver /\ ~Enter /\ ~Check /\ ~Send
      BY <2>4 DEF Driver, Attempt, Exec, GdOrDie, SysReinit, InitSend, InitExec, InitCheck,
                  SectorMode, driverVars
    <2>5. CASE Environment \/ UNCHANGED gdVars
      BY <2>5 DEF Environment, CallRead, GameRearms, Evict, Trample, Poke, Glitch, driverVars, gdVars
    <2>. QED
      BY <2>1, <2>2, <2>3, <2>4, <2>5 DEF GdNext
  <1>2. IInv /\ PatienceInv /\ [GdNext]_gdVars
          => [last_err' = "cafe0001" /\ attempt' > attempt => queue = "free"]_gdVars
    BY <1>1
  <1>. QED
    BY <1>2, Invariance, Patience, PTL DEF GdSpec, NoFalseGiveUp

(* The hang detector never fires on a drive that stays within the limits,  *)
(* however many sectors are asked for and however often the read is        *)
(* retried (gd.c:165-167).                                                 *)
THEOREM SlowIsNotHung == ASSUME Timely PROVE GdSpec => []NoFalseHang
  <1>1. PatienceInv => NoFalseHang
    BY DEF PatienceInv
  <1>. QED
    BY <1>1, Patience, PTL

-----------------------------------------------------------------------------
(* Recovery: each failed attempt costs a fault of its own.                 *)

LEMMA ExecFaults ==
  ASSUME TypeOK, SlotInv, FaultInv, ExecServer, pc \in {"exec", "initExec"},
         UNCHANGED <<attempt, faults>>
  PROVE  /\ pc = "exec" /\ (upset' \/ queue' \in {"free", "failed"}) => faults > attempt
         /\ pc = "initExec" /\ (queue' \in {"free", "failed"} \/ (queue' = "done" /\ upset')) =>
              faults > attempt
  <1>. USE Ranges DEF FaultInv
  <1>1. CASE ServerStalls
    BY <1>1 DEF ServerStalls, biosVars
  <1>2. CASE ServerPicksUp
    BY <1>2 DEF ServerPicksUp
  <1>3. CASE ServerInitialises
    BY <1>3 DEF ServerInitialises, SlotInv
  <1>4. CASE ServerFailsRead
    BY <1>4 DEF ServerFailsRead, SlotInv
  <1>5. CASE ServerTransfers
    BY <1>5 DEF ServerTransfers, SlotInv
  <1>. QED
    BY <1>1, <1>2, <1>3, <1>4, <1>5 DEF ExecServer

LEMMA NextFault ==
  ASSUME Timely, IInv, PatienceInv, FaultInv, [GdNext]_gdVars
  PROVE  FaultInv'
  <1>. USE Ranges, Limits DEF FaultInv, FailureNeedsRepeatedFaults, IInv
  <1>1. CASE Enter
    BY <1>1 DEF Enter, biosVars
  <1>2. CASE Attempt \/ GdOrDie
    BY <1>2 DEF Attempt, GdOrDie, driverVars, biosVars
  <1>3. CASE SysReinit \/ SectorMode
    BY <1>3 DEF SysReinit, SectorMode, driverVars
  <1>4. CASE InitSend
    <2>1. CASE Accepts /\ Enqueue("init") /\ pc' = "initExec"
      BY <1>4, <2>1 DEF InitSend, Enqueue
    <2>2. CASE ~Accepts /\ pc' = AfterInit /\ UNCHANGED biosVars
      <3>1. ~alive
        BY <1>4, <2>2 DEF InitSend, Accepts, PatienceInv
      <3>. QED
        BY <1>4, <2>2, <3>1 DEF InitSend, AfterInit, biosVars
    <2>. QED
      BY <1>4, <2>1, <2>2 DEF InitSend
  <1>5. CASE InitExec \/ Exec
    <2>1. /\ ExecServer /\ pc \in {"exec", "initExec"} /\ UNCHANGED <<attempt, faults, death>>
          /\ pc' = IF pc = "exec" THEN "check" ELSE "initCheck"
      BY <1>5 DEF InitExec, Exec, driverVars
    <2>2. cmd' = cmd
      BY <2>1 DEF ExecServer, ServerStalls, ServerPicksUp, ServerInitialises,
                  ServerFailsRead, ServerTransfers, biosVars
    <2>3. /\ pc = "exec" /\ (upset' \/ queue' \in {"free", "failed"}) => faults > attempt
          /\ pc = "initExec" /\ (queue' \in {"free", "failed"} \/ (queue' = "done" /\ upset')) =>
               faults > attempt
      BY <2>1, ExecFaults
    <2>. QED
      BY <2>1, <2>2, <2>3
  <1>6. CASE InitCheck
    <2>1. Within(guard + 1)
      BY <1>6 DEF InitCheck, PatienceInv
    <2>2. CASE pc' = AfterInit
      <3>1. queue \in {"free", "failed", "done"} /\ UNCHANGED <<alive, upset, attempt, faults, death>>
        BY <1>6, <2>1, <2>2, RoomLeft DEF InitCheck, Verdict, TakeVerdict, AfterInit
      <3>2. ~alive \/ upset => faults > attempt
        BY <1>6, <3>1 DEF InitCheck, SlotInv
      <3>. QED
        BY <1>6, <2>2, <3>1, <3>2 DEF AfterInit, InitCheck
    <2>3. CASE pc' = "dead"
      BY <1>6, <2>3 DEF InitCheck, AfterInit
    <2>4. CASE pc' = "initExec"
      BY <1>6, <2>4 DEF InitCheck, Verdict, TakeVerdict, AfterInit
    <2>. QED
      BY <1>6, <2>2, <2>3, <2>4 DEF InitCheck
  <1>7. CASE Send
    <2>1. CASE Accepts /\ Enqueue("read") /\ pc' = "exec" /\ UNCHANGED attempt
      BY <1>7, <2>1 DEF Send, Enqueue, Accepts
    <2>2. CASE ~Accepts /\ NextAttempt("cafe0002") /\ UNCHANGED biosVars
      <3>1. ~alive
        BY <1>7, <2>2 DEF Send, Accepts, PatienceInv
      <3>. QED
        BY <1>7, <2>2, <3>1 DEF Send, NextAttempt, biosVars
    <2>. QED
      BY <1>7, <2>1, <2>2 DEF Send
  <1>8. CASE Check
    <2>1. Within(guard + 1) /\ UNCHANGED <<alive, upset, cmd>>
      BY <1>8 DEF Check, PatienceInv, TakeVerdict
    <2>2. CASE pc' = "idle"
      <3>1. queue = "done" /\ faults' = (IF upset THEN 1 ELSE 0) /\ death' = death
        BY <1>8, <2>2 DEF Check, Verdict, Completed, GiveUp, KeepPolling, NextAttempt
      <3>2. alive
        BY <3>1 DEF SlotInv
      <3>3. death = "none"
        BY <1>8 DEF Check
      <3>. QED
        BY <2>1, <2>2, <3>1, <3>2, <3>3
    <2>3. CASE pc' = "attempt"
      <3>1. /\ queue \in {"failed", "free"} /\ attempt' = attempt + 1
            /\ UNCHANGED <<faults, death>>
        BY <1>8, <2>1, <2>3, RoomLeft
        DEF Check, Verdict, Completed, GiveUp, KeepPolling, NextAttempt
      <3>. QED
        BY <1>8, <2>1, <2>3, <3>1 DEF Check
    <2>4. CASE pc' = "dead"
      BY <1>8, <2>4 DEF Check, Completed, GiveUp, KeepPolling, NextAttempt
    <2>5. CASE pc' = "exec"
      <3>1. UNCHANGED <<queue, attempt, faults, death>>
        BY <1>8, <2>5
        DEF Check, Verdict, TakeVerdict, Completed, GiveUp, KeepPolling, NextAttempt
      <3>. QED
        BY <1>8, <2>1, <2>5, <3>1 DEF Check
    <2>. QED
      BY <1>8, <2>2, <2>3, <2>4, <2>5 DEF Check, Completed, GiveUp, KeepPolling, NextAttempt
  <1>9. CASE CallRead \/ GameRearms \/ Evict
    BY <1>9 DEF CallRead, GameRearms, Evict, driverVars, biosVars
  <1>10. CASE Trample \/ Poke \/ Glitch
    <2>1. faults' \in Nat /\ faults' >= faults /\ (faults < MaxAttempts => faults' > faults)
          /\ (faults >= MaxAttempts => faults' = faults)
      BY <1>10 DEF Trample, Poke, Glitch, CountFault
    <2>2. faults' >= 1 /\ UNCHANGED <<pc, attempt, death>>
      BY <1>10, <2>1 DEF Trample, Poke, Glitch, driverVars
    <2>3. faults >= attempt /\ attempt < MaxAttempts => faults' > attempt
      BY <2>1
    <2>4. faults' >= faults /\ (faults > attempt => faults' > attempt)
          /\ (faults >= attempt => faults' >= attempt) /\ (faults >= MaxAttempts => faults' >= MaxAttempts)
      BY <2>1
    <2>5. CASE Trample
      BY <2>2, <2>3, <2>4, <2>5 DEF Trample, AttemptInv
    <2>6. CASE Poke
      BY <2>2, <2>3, <2>4, <2>6 DEF Poke, AttemptInv
    <2>7. CASE Glitch
      BY <2>2, <2>3, <2>4, <2>7 DEF Glitch, AttemptInv
    <2>. QED
      BY <1>10, <2>5, <2>6, <2>7
  <1>11. CASE UNCHANGED gdVars
    BY <1>11 DEF gdVars, driverVars, biosVars
  <1>. QED
    BY <1>1, <1>2, <1>3, <1>4, <1>5, <1>6, <1>7, <1>8, <1>9, <1>10, <1>11
    DEF GdNext, Driver, Environment

(* Under the same limits a read dies with -2 only when as many faults as   *)
(* it has attempts struck since the last good read (gd.c:73-79, 141-142).  *)
THEOREM RecoveryHeals == ASSUME Timely PROVE GdSpec => []FailureNeedsRepeatedFaults
  <1>1. GdInit => FaultInv
    BY GdDriverAssumption DEF GdInit, FaultInv, FailureNeedsRepeatedFaults
  <1>2. IInv /\ PatienceInv /\ FaultInv /\ [GdNext]_gdVars => FaultInv'
    BY NextFault
  <1>3. FaultInv => FailureNeedsRepeatedFaults
    BY DEF FaultInv
  <1>. QED
    BY <1>1, <1>2, <1>3, Invariance, Patience, PTL DEF GdSpec

-----------------------------------------------------------------------------
(* Every read ends: the steps left count down.                             *)

(* Attempts of PerAttempt steps each.                                      *)
LEMMA AttemptsCost ==
  ASSUME TypeOK
  PROVE  \E p \in Nat, all \in Nat, left \in Nat :
           /\ p = PerAttempt /\ p = 4 * GuardLimit + 9
           /\ all = MaxAttempts * PerAttempt
           /\ left = (MaxAttempts - attempt) * PerAttempt /\ left <= all
           /\ attempt < MaxAttempts =>
                left - p \in Nat /\ (MaxAttempts - attempt - 1) * PerAttempt = left - p
  <1>1. PICK p \in Nat, m \in Nat, a \in Nat :
          p = 4 * GuardLimit + 9 /\ m = MaxAttempts /\ a = attempt /\ a <= m
    BY GdDriverAssumption DEF TypeOK
  <1>2. p = PerAttempt
    BY <1>1 DEF PerAttempt
  <1>3. PICK d \in Nat : m = a + d
    <2>1. m - a \in Nat /\ m = a + (m - a)
      BY <1>1
    <2>. QED BY <2>1
  <1>4. m * p = a * p + d * p /\ a * p \in Nat /\ d * p \in Nat /\ m * p \in Nat
    BY <1>3
  <1>5. (m - a) * p = d * p
    <2>1. m - a = d
      BY <1>3
    <2>. QED
      BY <2>1
  <1>6. ASSUME a < m PROVE d * p - p \in Nat /\ (m - a - 1) * p = d * p - p
    <2>1. PICK e \in Nat : d = e + 1
      <3>1. d - 1 \in Nat /\ d = (d - 1) + 1
        BY <1>3, <1>6
      <3>. QED BY <3>1
    <2>2. d * p = e * p + p /\ e * p \in Nat
      BY <2>1
    <2>3. m - a - 1 = e
      BY <1>3, <2>1
    <2>4. (m - a - 1) * p = e * p
      BY <2>3
    <2>. QED
      BY <2>2, <2>4
  <1>7. PICK all \in Nat, left \in Nat : all = m * p /\ left = d * p /\ left <= all
    BY <1>4
  <1>. QED
    BY <1>1, <1>2, <1>5, <1>6, <1>7

LEMMA StepsTyped == IInv => StepsBounded
  <1>. SUFFICES ASSUME TypeOK, AttemptInv PROVE StepsBounded
    BY DEF IInv
  <1>1. PICK p \in Nat, all \in Nat, left \in Nat :
           /\ p = PerAttempt /\ p = 4 * GuardLimit + 9
           /\ all = MaxAttempts * PerAttempt
           /\ left = (MaxAttempts - attempt) * PerAttempt /\ left <= all
           /\ attempt < MaxAttempts =>
                left - p \in Nat /\ (MaxAttempts - attempt - 1) * PerAttempt = left - p
    BY AttemptsCost
  <1>2. GuardLimit \in Nat /\ guard \in 0 .. GuardLimit /\ pc \in PCs
    BY GdDriverAssumption DEF TypeOK
  <1>. SUFFICES StepsLeft \in 0 .. all + 2
    BY <1>1 DEF StepsBounded
  <1>3. CASE pc \in {"idle", "dead", "enter", "attempt"}
    <2>1. StepsLeft \in {0, all + 2, left + 1}
      BY <1>1, <1>3 DEF StepsLeft
    <2>. QED
      BY <1>1, <2>1
  <1>4. CASE pc \notin {"idle", "dead", "enter", "attempt"}
    <2>1. attempt < MaxAttempts
      BY <1>2, <1>4 DEF AttemptInv, PCs
    <2>2. LegLeft \in 1 .. p - 1
      BY <1>1, <1>2, <1>4 DEF LegLeft, PCs
    <2>3. StepsLeft = left - p + 1 + LegLeft
      BY <1>1, <1>4, <2>1 DEF StepsLeft
    <2>. QED
      BY <1>1, <2>1, <2>2, <2>3
  <1>. QED
    BY <1>3, <1>4

(* A step within an attempt: the leg gets shorter.                         *)
LEMMA LegShrinks ==
  ASSUME IInv, Driver, TypeOK',
         attempt' = attempt, attempt < MaxAttempts,
         pc \in {"sysinit", "initSend", "initExec", "initCheck", "mode", "send", "exec", "check"},
         pc' \in {"sysinit", "initSend", "initExec", "initCheck", "mode", "send", "exec", "check"}
  PROVE  LegLeft' < LegLeft
  <1>1. GuardLimit \in Nat /\ guard \in 0 .. GuardLimit /\ guard' \in 0 .. GuardLimit
    BY GdDriverAssumption DEF IInv, TypeOK
  <1>. USE DEF LegLeft
  <1>2. CASE SysReinit
    BY <1>1, <1>2 DEF SysReinit
  <1>3. CASE InitSend
    BY <1>1, <1>3 DEF InitSend, AfterInit
  <1>4. CASE InitExec
    BY <1>1, <1>4 DEF InitExec, driverVars
  <1>5. CASE InitCheck
    <2>1. pc' \in {"mode", "send"} \/ (pc' = "initExec" /\ guard' = guard + 1)
      BY <1>5 DEF InitCheck, AfterInit
    <2>2. pc = "initCheck"
      BY <1>5 DEF InitCheck
    <2>. QED
      BY <1>1, <2>1, <2>2
  <1>6. CASE SectorMode
    BY <1>1, <1>6 DEF SectorMode
  <1>7. CASE Send
    BY <1>1, <1>7 DEF Send, NextAttempt
  <1>8. CASE Exec
    BY <1>1, <1>8 DEF Exec, driverVars
  <1>9. CASE Check
    <2>1. pc' = "exec" /\ guard' = guard + 1 /\ pc = "check"
      BY <1>9 DEF Check, Completed, GiveUp, NextAttempt, KeepPolling
    <2>. QED
      BY <1>1, <2>1
  <1>. QED
    BY <1>2, <1>3, <1>4, <1>5, <1>6, <1>7, <1>8, <1>9 DEF Driver, Enter, Attempt, GdOrDie

LEMMA StepsShrink == ASSUME IInv, IInv', Driver PROVE StepsLeft' < StepsLeft
  <1>. DEFINE Inside == {"sysinit", "initSend", "initExec", "initCheck", "mode", "send", "exec", "check"}
  <1>0. TypeOK /\ AttemptInv /\ TypeOK'
    BY DEF IInv
  <1>1. PICK p \in Nat, all \in Nat, left \in Nat :
           /\ p = PerAttempt /\ p = 4 * GuardLimit + 9
           /\ all = MaxAttempts * PerAttempt
           /\ left = (MaxAttempts - attempt) * PerAttempt /\ left <= all
           /\ attempt < MaxAttempts =>
                left - p \in Nat /\ (MaxAttempts - attempt - 1) * PerAttempt = left - p
    BY <1>0, AttemptsCost
  <1>2. /\ GuardLimit \in Nat /\ guard \in 0 .. GuardLimit /\ attempt \in 0 .. MaxAttempts
        /\ MaxAttempts \in Nat
    BY <1>0, GdDriverAssumption DEF TypeOK
  <1>3. pc \in Inside => attempt < MaxAttempts /\ LegLeft \in 1 .. p - 1
                          /\ StepsLeft = left - p + 1 + LegLeft
    <2>. SUFFICES ASSUME pc \in Inside
                  PROVE  /\ attempt < MaxAttempts /\ LegLeft \in 1 .. p - 1
                         /\ StepsLeft = left - p + 1 + LegLeft
      OBVIOUS
    <2>1. attempt < MaxAttempts
      BY <1>0 DEF AttemptInv
    <2>2. LegLeft \in 1 .. p - 1
      BY <1>1, <1>2 DEF LegLeft
    <2>3. StepsLeft = left - p + 1 + LegLeft
      BY <1>1, <2>1 DEF StepsLeft
    <2>. QED
      BY <2>1, <2>2, <2>3
  <1>4. ASSUME pc \in Inside, pc' \in Inside, attempt' = attempt PROVE StepsLeft' < StepsLeft
    <2>1. LegLeft' < LegLeft
      BY <1>0, <1>3, <1>4, LegShrinks
    <2>2. LegLeft' \in Nat
      <3>1. guard' \in 0 .. GuardLimit
        BY <1>0 DEF TypeOK
      <3>. QED
        BY <1>2, <1>4, <3>1 DEF LegLeft
    <2>3. StepsLeft' = left - p + 1 + LegLeft'
      BY <1>1, <1>3, <1>4 DEF StepsLeft, PerAttempt
    <2>. QED
      BY <1>1, <1>3, <1>4, <2>1, <2>2, <2>3
  <1>5. ASSUME pc \in Inside, pc' = "attempt", attempt' = attempt + 1 PROVE StepsLeft' < StepsLeft
    <2>1. MaxAttempts - attempt' = MaxAttempts - attempt - 1
      BY <1>2, <1>5
    <2>2. StepsLeft' = (MaxAttempts - attempt') * PerAttempt + 1
      BY <1>5 DEF StepsLeft, PerAttempt
    <2>3. StepsLeft' = left - p + 1
      BY <1>1, <1>3, <1>5, <2>1, <2>2
    <2>. QED
      BY <1>1, <1>3, <1>5, <2>3
  <1>6. ASSUME pc \in Inside, pc' \in {"idle", "dead"} PROVE StepsLeft' < StepsLeft
    <2>1. StepsLeft' = 0
      BY <1>6 DEF StepsLeft
    <2>. QED
      BY <1>1, <1>3, <1>6, <2>1
  <1>7. CASE Enter
    <2>1. pc = "enter" /\ pc' = "attempt" /\ attempt' = 0
      BY <1>7 DEF Enter
    <2>2. StepsLeft = all + 2
      BY <1>1, <2>1 DEF StepsLeft
    <2>3. MaxAttempts - attempt' = MaxAttempts
      BY <1>2, <2>1
    <2>4. StepsLeft' = (MaxAttempts - attempt') * PerAttempt + 1
      BY <2>1 DEF StepsLeft, PerAttempt
    <2>. QED
      BY <1>1, <2>2, <2>3, <2>4
  <1>8. CASE Attempt
    <2>1. pc = "attempt" /\ pc' \in {"sysinit", "send"} /\ attempt' = attempt /\ attempt < MaxAttempts
      BY <1>8 DEF Attempt, driverVars
    <2>2. StepsLeft = left + 1
      BY <1>1, <2>1 DEF StepsLeft
    <2>3. LegLeft' \in Nat /\ LegLeft' < p
      BY <1>1, <1>2, <2>1 DEF LegLeft
    <2>4. StepsLeft' = left - p + 1 + LegLeft'
      BY <1>1, <2>1 DEF StepsLeft, PerAttempt
    <2>. QED
      BY <1>1, <2>1, <2>2, <2>3, <2>4
  <1>9. CASE GdOrDie
    <2>1. pc = "attempt" /\ pc' = "dead"
      BY <1>9 DEF GdOrDie
    <2>2. StepsLeft = left + 1 /\ StepsLeft' = 0
      BY <1>1, <2>1 DEF StepsLeft
    <2>. QED
      BY <1>1, <2>2
  <1>10. CASE SysReinit \/ InitSend \/ InitExec \/ SectorMode
    BY <1>4, <1>10
    DEF SysReinit, InitSend, InitExec, SectorMode, AfterInit, driverVars
  <1>11. CASE InitCheck
    BY <1>4, <1>6, <1>11 DEF InitCheck, AfterInit
  <1>12. CASE Send
    BY <1>4, <1>5, <1>12 DEF Send, NextAttempt
  <1>13. CASE Exec
    BY <1>4, <1>13 DEF Exec, driverVars
  <1>14. CASE Check
    BY <1>4, <1>5, <1>6, <1>14 DEF Check, Completed, GiveUp, KeepPolling, NextAttempt
  <1>. QED
    BY <1>7, <1>8, <1>9, <1>10, <1>11, <1>12, <1>13, <1>14 DEF Driver

(* A read is over after at most MaxAttempts * PerAttempt + 2 steps of the  *)
(* driver, whatever the drive answers or does not answer, and no fault and *)
(* no interrupt in between prolongs it (gd.c:143-168).                     *)
THEOREM ReadIsBounded == GdSpec => []StepsBounded
  BY Invariance, StepsTyped, PTL

THEOREM ReadCountsDown == GdSpec => ReadShrinks
  <1>1. ASSUME Environment, pc # "idle" PROVE UNCHANGED <<pc, StepsLeft>>
    <2>1. UNCHANGED <<pc, attempt, guard>>
      BY <1>1 DEF Environment, CallRead, GameRearms, Evict, Trample, Poke, Glitch, driverVars
    <2>. QED
      BY <2>1 DEF StepsLeft, LegLeft, PerAttempt
  <1>2. ASSUME IInv, IInv', [GdNext]_gdVars
        PROVE  [/\ Driver => StepsLeft' < StepsLeft
                /\ Environment /\ pc # "idle" => UNCHANGED <<pc, StepsLeft>>]_gdVars
    BY <1>1, <1>2, StepsShrink
  <1>. QED
    BY <1>2, Invariance, PTL DEF GdSpec, ReadShrinks
=============================================================================
