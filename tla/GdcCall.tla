------------------------------ MODULE GdcCall ------------------------------
(***************************************************************************)
(* gdc_call (shims/src/gdstack.S): a BIOS GD syscall made for the game on  *)
(* a private stack, with both FPU banks put aside and, for an isoldr       *)
(* backend, with address translation off.  The syscall may clobber the     *)
(* whole FPU and the vectors it was reached by; the game must not notice.  *)
(***************************************************************************)
EXTENDS Integers, Sequences

CONSTANTS
  Last,      \* the registers of a bank are 0 .. Last: 15 in the machine
  Backends,  \* [isoldr, vec, vec2]: what the two GD vectors may hold
  BiosTop,   \* 0x00010000: the syscall RAM of the BIOS ends here
  Junk       \* whatever a syscall leaves in a register

Regs  == 0 .. Last
Banks == {0, 1}
Modes == {"game", "kos"}

ASSUME GdcCallAssumption ==
  /\ Last \in Nat /\ BiosTop \in Nat
  /\ Backends \subseteq [isoldr : BOOLEAN, vec : Nat, vec2 : Nat]

(* The two signatures of isoldr: its vectors are eight bytes apart, or     *)
(* above the RAM of the BIOS's own syscalls.                               *)
Signed(b) == b.vec2 - 8 = b.vec \/ b.vec >= BiosTop

(* No other loader has them, and every isoldr has one.                     *)
ASSUME SignatureAssumption == \A b \in Backends : b.isoldr <=> Signed(b)

VARIABLES
  pc,         \* the place in gdc_call, or "game"
  reg,        \* the register the next push or pop is for
  fr,         \* the FPU registers, by physical bank
  fpscr,      \* [fr, mode]: which bank is in front; move width and rounding
  fpul, pr,
  at,         \* MMUCR.AT
  gameStack,  \* the caller's stack, down to r15
  gdStack,    \* the private one, down to r15
  saved_sp, saved_mmucr, mmu_gate,
  backend,    \* what the vectors hold now
  game        \* history: the context the game called from

fpuVars   == <<fr, fpscr, fpul>>
stackVars == <<gameStack, gdStack, saved_sp>>
mmuVars   == <<at, saved_mmucr, mmu_gate>>
gdcVars   == <<pc, reg, fpuVars, pr, stackVars, mmuVars, backend, game>>

Word == (Banks \X Regs) \cup {Junk}
Fpscr == [fr : Banks, mode : Modes \cup {Junk}]

Places == {"game", "save0", "save1", "window", "call", "unwindow",
           "restore1", "restore0", "leave"}

TypeOK ==
  /\ pc \in Places
  /\ reg \in Regs
  /\ fr \in [Banks -> [Regs -> Word]]
  /\ fpscr \in Fpscr
  /\ fpul \in {"game", Junk} /\ pr \in {"game", "gdc_call"}
  /\ at \in BOOLEAN /\ saved_mmucr \in BOOLEAN /\ mmu_gate \in BOOLEAN
  /\ Len(gameStack) \in 0 .. 1 /\ Len(gdStack) \in 0 .. 2 * Last + 4
  /\ saved_sp \in 0 .. 1
  /\ backend \in Backends
  /\ game \in [fpscr : Fpscr, at : BOOLEAN]

GdcInit ==
  /\ pc = "game" /\ reg = 0
  /\ fr = [b \in Banks |-> [r \in Regs |-> <<b, r>>]]
  /\ fpscr \in [fr : Banks, mode : {"game"}]
  /\ fpul = "game" /\ pr = "game"
  /\ at \in BOOLEAN
  /\ gameStack = <<>> /\ gdStack = <<>>
  /\ saved_sp = 0 /\ saved_mmucr = FALSE /\ mmu_gate = FALSE
  /\ backend \in Backends
  /\ game = [fpscr |-> fpscr, at |-> at]

Push(s, v) == s \o <<v>>
Top(s)     == s[Len(s)]
Pop(s)     == SubSeq(s, 1, Len(s) - 1)

KosFpscr == [fr |-> 0, mode |-> "kos"]
Front    == fr[fpscr.fr]
FrChg    == [fpscr EXCEPT !.fr = 1 - @]
-----------------------------------------------------------------------------
(* gdstack.S:34-42: the return address stays on the caller's stack.        *)
Enter ==
  /\ pc = "game"
  /\ gameStack' = Push(gameStack, pr)
  /\ saved_sp' = Len(gameStack')
  /\ gdStack' = <<fpscr, fpul>>
  /\ fpscr' = KosFpscr
  /\ pc' = "save0" /\ reg' = 0
  /\ UNCHANGED <<fr, fpul, pr, mmuVars, backend, game>>

(* The sixteen registers of the front bank, then frchg.                    *)
SaveBank(here, there) ==
  /\ pc = here
  /\ gdStack' = Push(gdStack, Front[reg])
  /\ IF reg < Last
     THEN reg' = reg + 1 /\ UNCHANGED <<pc, fpscr>>
     ELSE reg' = 0 /\ pc' = there /\ fpscr' = FrChg
  /\ UNCHANGED <<fr, fpul, pr, gameStack, saved_sp, mmuVars, backend, game>>

(* Variant: the signature of a high placement only.                        *)
Probe_HighOnly == backend.vec >= BiosTop

(* Is it isoldr?                                                           *)
Probe == Signed(backend)

Window ==
  /\ pc = "window"
  /\ mmu_gate' = Probe
  /\ IF Probe
     THEN saved_mmucr' = at /\ at' = FALSE
     ELSE UNCHANGED <<saved_mmucr, at>>
  /\ pc' = "call"
  /\ UNCHANGED <<reg, fpuVars, pr, stackVars, backend, game>>

(* The syscall: any FPU register, the vectors, and, through jsr, pr.       *)
Syscall ==
  /\ pc = "call"
  /\ \E B \in SUBSET Banks :
       fr' = [b \in Banks |-> IF b \in B THEN [r \in Regs |-> Junk] ELSE fr[b]]
  /\ fpscr' \in {fpscr, [fr |-> 0, mode |-> Junk], [fr |-> 1, mode |-> Junk]}
  /\ fpul' \in {fpul, Junk}
  /\ pr' = "gdc_call"
  /\ backend' \in Backends
  /\ pc' = "unwindow"
  /\ UNCHANGED <<reg, stackVars, mmuVars, game>>

(* Variant: the probe is repeated instead of latched.                      *)
Unwindow_Probes ==
  /\ pc = "unwindow"
  /\ at' = IF Probe THEN saved_mmucr ELSE at
  /\ fpscr' = [KosFpscr EXCEPT !.fr = 1]
  /\ pc' = "restore1" /\ reg' = Last
  /\ UNCHANGED <<fr, fpul, pr, stackVars, saved_mmucr, mmu_gate, backend, game>>

Unwindow ==
  /\ pc = "unwindow"
  /\ at' = IF mmu_gate THEN saved_mmucr ELSE at
  /\ fpscr' = [KosFpscr EXCEPT !.fr = 1]
  /\ pc' = "restore1" /\ reg' = Last
  /\ UNCHANGED <<fr, fpul, pr, stackVars, saved_mmucr, mmu_gate, backend, game>>

(* The registers of a bank in reverse, then, between the two, frchg.       *)
RestoreBank(here, there) ==
  /\ pc = here
  /\ fr' = [fr EXCEPT ![fpscr.fr][reg] = Top(gdStack)]
  /\ gdStack' = Pop(gdStack)
  /\ IF reg > 0
     THEN reg' = reg - 1 /\ UNCHANGED <<pc, fpscr>>
     ELSE /\ reg' = Last /\ pc' = there
          /\ fpscr' = IF here = "restore1" THEN FrChg ELSE fpscr
  /\ UNCHANGED <<fpul, pr, gameStack, saved_sp, mmuVars, backend, game>>

(* The caller's stack pointer comes from its static slot.                  *)
Leave ==
  /\ pc = "leave"
  /\ fpul' = Top(gdStack)
  /\ fpscr' = Top(Pop(gdStack))
  /\ gdStack' = <<>>
  /\ pr' = gameStack[saved_sp]
  /\ gameStack' = SubSeq(gameStack, 1, saved_sp - 1)
  /\ pc' = "game" /\ reg' = 0
  /\ UNCHANGED <<fr, saved_sp, mmuVars, backend, game>>

(* Between two calls the game switches banks and turns its MMU on or off.  *)
GameRuns ==
  /\ pc = "game"
  /\ fpscr' \in [fr : Banks, mode : {"game"}] /\ at' \in BOOLEAN
  /\ game' = [fpscr |-> fpscr', at |-> at']
  /\ UNCHANGED <<pc, reg, fr, fpul, pr, stackVars, saved_mmucr, mmu_gate, backend>>

GdcCall ==
  \/ Enter \/ SaveBank("save0", "save1") \/ SaveBank("save1", "window")
  \/ Window \/ Syscall \/ Unwindow
  \/ RestoreBank("restore1", "restore0") \/ RestoreBank("restore0", "leave") \/ Leave

GdcNext == GdcCall \/ GameRuns

GdcSpec == GdcInit /\ [][GdcNext]_gdcVars
-----------------------------------------------------------------------------
(* The game gets its context back, whatever the syscall did to the FPU, to *)
(* pr and to the vectors: both banks and which one is in front, its move   *)
(* width, FPUL, the stack pointer, the return address and its MMU setting  *)
(* (gdstack.S:17-27, 78-89, 116).                                          *)
ContextKept ==
  pc = "game" =>
    /\ fr = [b \in Banks |-> [r \in Regs |-> <<b, r>>]]
    /\ fpscr = game.fpscr /\ fpul = "game"
    /\ pr = "game" /\ gameStack = <<>>
    /\ at = game.at

(* Every backend runs in the world it was made for: isoldr without         *)
(* translation, the BIOS with the game's own setting; both with the KOS    *)
(* FPSCR and on an untouched private stack (gdstack.S:90-116).             *)
RightWorld ==
  pc = "call" =>
    /\ at = (game.at /\ ~backend.isoldr)
    /\ fpscr = KosFpscr
    /\ Len(gdStack) = 2 * Last + 4

(* Types, the depth of the private stack among them, and RightWorld.       *)
GdcInv == TypeOK /\ RightWorld
-----------------------------------------------------------------------------
(* Why: what lies on the private stack at each place, and which registers  *)
(* still hold, or hold again, what the game left in them.                  *)
Full == 2 * Last + 4

Depth ==
  IF pc = "game" THEN 0
  ELSE IF pc = "save0" THEN reg + 2
  ELSE IF pc = "save1" THEN Last + reg + 3
  ELSE IF pc \in {"window", "call", "unwindow"} THEN Full
  ELSE IF pc = "restore1" THEN Last + reg + 4
  ELSE IF pc = "restore0" THEN reg + 3
  ELSE 2

Saved(k) ==
  IF k = 1 THEN game.fpscr
  ELSE IF k = 2 THEN "game"
  ELSE IF k <= Last + 3 THEN <<0, k - 3>>
  ELSE <<1, k - Last - 4>>

StackInv == gdStack = [k \in 1 .. Depth |-> Saved(k)]

BankKept(b) == \A r \in Regs : fr[b][r] = <<b, r>>
BankBack(b) == \A r \in Regs : r > reg => fr[b][r] = <<b, r>>

FpuInv ==
  /\ pc \in {"game", "save0", "save1", "window", "call", "leave"} => BankKept(0) /\ BankKept(1)
  /\ pc = "restore1" => BankBack(1)
  /\ pc = "restore0" => BankBack(0) /\ BankKept(1)
  /\ pc \in {"save0", "window", "call", "restore0", "leave"} => fpscr = KosFpscr
  /\ pc \in {"save1", "restore1"} => fpscr = [KosFpscr EXCEPT !.fr = 1]

CallerInv ==
  /\ pc = "game" =>
       /\ pr = "game" /\ gameStack = <<>> /\ fpul = "game" /\ fpscr = game.fpscr
  /\ pc = "save0" => fpul = "game"
  /\ pc # "game" => gameStack = <<"game">> /\ saved_sp = 1
  /\ pc \notin {"call", "unwindow"} => at = game.at
  /\ pc \in {"call", "unwindow"} =>
       IF mmu_gate THEN saved_mmucr = game.at /\ ~at ELSE at = game.at
  /\ pc = "call" => (mmu_gate <=> Signed(backend))

ContextInv == TypeOK /\ StackInv /\ FpuInv /\ CallerInv
=============================================================================
