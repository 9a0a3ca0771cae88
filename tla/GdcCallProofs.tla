--------------------------- MODULE GdcCallProofs ----------------------------
(***************************************************************************)
(* Theorems about gdc_call, for banks of any number of registers, sixteen  *)
(* in the machine, and whatever a syscall does to FPU, pr and vectors: the *)
(* game's context survives, and each backend runs in its own world.        *)
(***************************************************************************)
EXTENDS GdcCall, SequenceTheorems, TLAPS

LEMMA PushIs ==
  ASSUME NEW S, NEW s \in Seq(S), NEW v \in S
  PROVE  /\ Push(s, v) \in [1 .. Len(s) + 1 -> S]
         /\ \A k \in 1 .. Len(s) + 1 : Push(s, v)[k] = IF k <= Len(s) THEN s[k] ELSE v
  <1>1. <<v>> \in Seq(S) /\ Len(<<v>>) = 1 /\ <<v>>[1] = v
    OBVIOUS
  <1>2. /\ Push(s, v) \in Seq(S) /\ Len(s) \in Nat
        /\ Len(Push(s, v)) = Len(s) + 1
        /\ \A k \in 1 .. Len(s) + 1 :
             Push(s, v)[k] = IF k <= Len(s) THEN s[k] ELSE <<v>>[k - Len(s)]
    BY <1>1, ConcatProperties, LenProperties DEF Push
  <1>3. \A k \in 1 .. Len(s) + 1 : Push(s, v)[k] = IF k <= Len(s) THEN s[k] ELSE v
    <2>1. \A k \in 1 .. Len(s) + 1 : k <= Len(s) \/ k - Len(s) = 1
      BY <1>2
    <2>. QED
      BY <1>1, <1>2, <2>1
  <1>4. Push(s, v) \in [1 .. Len(s) + 1 -> S]
    BY <1>2, LenProperties
  <1>. QED
    BY <1>3, <1>4

LEMMA PopIs ==
  ASSUME NEW S, NEW s \in Seq(S), s # <<>>
  PROVE  /\ Pop(s) = [k \in 1 .. Len(s) - 1 |-> s[k]]
         /\ Top(s) \in S
  <1>1. Len(s) \in Nat \ {0} /\ s \in [1 .. Len(s) -> S]
    BY EmptySeq, LenProperties
  <1>2. \A k \in 1 .. Len(s) - 1 : s[k] \in S
    BY <1>1
  <1>3. 1 \in Int /\ Len(s) - 1 \in Int
    BY <1>1
  <1>4. /\ Pop(s) \in Seq(S)
        /\ Len(Pop(s)) = IF 1 <= Len(s) - 1 THEN Len(s) - 1 - 1 + 1 ELSE 0
        /\ \A k \in 1 .. Len(s) - 1 - 1 + 1 : Pop(s)[k] = s[1 + k - 1]
    BY <1>2, <1>3, SubSeqProperties DEF Pop
  <1>5. Len(Pop(s)) = Len(s) - 1 /\ \A k \in 1 .. Len(s) - 1 : Pop(s)[k] = s[k]
    <2>1. PICK n \in Nat \ {0} : n = Len(s)
      BY <1>1
    <2>2. \A k \in 1 .. n - 1 : k \in 1 .. n - 1 - 1 + 1 /\ 1 + k - 1 = k
      OBVIOUS
    <2>3. n - 1 = IF 1 <= n - 1 THEN n - 1 - 1 + 1 ELSE 0
      OBVIOUS
    <2>. QED
      BY <1>4, <2>1, <2>2, <2>3
  <1>6. Pop(s) \in [1 .. Len(s) - 1 -> S]
    BY <1>4, <1>5, LenProperties
  <1>7. Pop(s) = [k \in 1 .. Len(s) - 1 |-> s[k]]
    BY <1>5, <1>6
  <1>8. Top(s) \in S
    BY <1>1 DEF Top
  <1>. QED
    BY <1>7, <1>8

LEMMA PushOnto ==
  ASSUME NEW S, NEW d \in Nat, NEW f \in [1 .. d + 1 -> S],
         NEW s \in [1 .. d -> S], \A k \in 1 .. d : s[k] = f[k]
  PROVE  Push(s, f[d + 1]) = f
  <1>1. f[d + 1] \in S
    OBVIOUS
  <1>2. s \in Seq(S)
    BY <1>1, SeqDef
  <1>3. Len(s) = d
    BY <1>1, <1>2, LenProperties
  <1>4. /\ Push(s, f[d + 1]) \in [1 .. d + 1 -> S]
        /\ \A k \in 1 .. d + 1 : Push(s, f[d + 1])[k] = IF k <= d THEN s[k] ELSE f[d + 1]
    <2>1. PICK v \in S : v = f[d + 1]
      BY <1>1
    <2>2. /\ Push(s, v) \in [1 .. Len(s) + 1 -> S]
          /\ \A k \in 1 .. Len(s) + 1 : Push(s, v)[k] = IF k <= Len(s) THEN s[k] ELSE v
      BY <1>2, PushIs
    <2>. QED
      BY <1>3, <2>1, <2>2, Zenon
  <1>5. \A k \in 1 .. d + 1 : (k \in 1 .. d /\ k <= d) \/ (k = d + 1 /\ ~(k <= d))
    OBVIOUS
  <1>6. \A k \in 1 .. d + 1 : Push(s, f[d + 1])[k] = f[k]
    BY <1>4, <1>5
  <1>. QED
    BY <1>4, <1>6

LEMMA PopFrom ==
  ASSUME NEW S, NEW d \in Nat, NEW f \in [1 .. d + 1 -> S]
  PROVE  /\ Pop(f) = [k \in 1 .. d |-> f[k]]
         /\ Top(f) = f[d + 1]
  <1>1. f \in Seq(S)
    BY SeqDef
  <1>2. Len(f) = d + 1
    BY <1>1, LenProperties
  <1>3. f # <<>>
    BY <1>2
  <1>4. Pop(f) = [k \in 1 .. Len(f) - 1 |-> f[k]]
    BY <1>1, <1>3, PopIs
  <1>5. Len(f) - 1 = d
    BY <1>2
  <1>. QED
    BY <1>2, <1>4, <1>5, Zenon DEF Top

(* The stack with d words on it, and with one more.                        *)
LEMMA StackMoves ==
  ASSUME NEW d \in Nat
  PROVE  /\ gdStack = [k \in 1 .. d |-> Saved(k)] =>
              Push(gdStack, Saved(d + 1)) = [k \in 1 .. d + 1 |-> Saved(k)]
         /\ gdStack = [k \in 1 .. d + 1 |-> Saved(k)] =>
              Pop(gdStack) = [k \in 1 .. d |-> Saved(k)] /\ Top(gdStack) = Saved(d + 1)
  <1>1. PICK f : f = [k \in 1 .. d + 1 |-> Saved(k)]
    OBVIOUS
  <1>2. PICK S : S = {f[k] : k \in 1 .. d + 1}
    OBVIOUS
  <1>3. PICK s : s = gdStack
    OBVIOUS
  <1>4. f \in [1 .. d + 1 -> S]
    BY <1>1, <1>2
  <1>5. f[d + 1] = Saved(d + 1) /\ [k \in 1 .. d |-> f[k]] = [k \in 1 .. d |-> Saved(k)]
    BY <1>1
  <1>6. s = [k \in 1 .. d |-> f[k]] => Push(s, f[d + 1]) = f
    <2>. SUFFICES ASSUME s = [k \in 1 .. d |-> f[k]] PROVE Push(s, f[d + 1]) = f
      OBVIOUS
    <2>1. s \in [1 .. d -> S] /\ \A k \in 1 .. d : s[k] = f[k]
      BY <1>4
    <2>. QED
      BY <1>4, <2>1, PushOnto
  <1>7. Pop(f) = [k \in 1 .. d |-> f[k]] /\ Top(f) = f[d + 1]
    BY <1>4, PopFrom
  <1>8. gdStack = [k \in 1 .. d |-> Saved(k)] =>
          Push(gdStack, Saved(d + 1)) = [k \in 1 .. d + 1 |-> Saved(k)]
    BY <1>1, <1>3, <1>5, <1>6, Zenon
  <1>9. gdStack = [k \in 1 .. d + 1 |-> Saved(k)] =>
          Pop(gdStack) = [k \in 1 .. d |-> Saved(k)] /\ Top(gdStack) = Saved(d + 1)
    BY <1>1, <1>5, <1>7, Zenon
  <1>. QED
    BY <1>8, <1>9
LEMMA StackThen ==
  ASSUME game' = game, NEW d \in Nat, gdStack' = [k \in 1 .. d |-> Saved(k)], Depth' = d
  PROVE  StackInv'
  <1>1. \A k : Saved(k)' = Saved(k)
    BY DEF Saved
  <1>2. [k \in 1 .. d |-> Saved(k)'] = [k \in 1 .. d |-> Saved(k)]
    BY <1>1
  <1>3. gdStack' = [k \in 1 .. Depth' |-> Saved(k)']
    BY <1>2, Zenon
  <1>. QED
    BY <1>3 DEF StackInv

(* The words of the banks on the stack.                                    *)
LEMMA SavedBanks ==
  /\ Last \in Nat /\ Regs = 0 .. Last
  /\ \A r \in Regs : Saved(r + 3) = <<0, r>> /\ Saved(Last + r + 4) = <<1, r>>
  /\ Saved(1) = game.fpscr /\ Saved(2) = "game"
  <1>1. Last \in Nat /\ Regs = 0 .. Last
    BY GdcCallAssumption DEF Regs
  <1>2. Saved(1) = game.fpscr /\ Saved(2) = "game"
    BY DEF Saved
  <1>3. \A r \in Regs : Saved(r + 3) = <<0, r>>
    <2>. SUFFICES ASSUME NEW r \in Regs PROVE Saved(r + 3) = <<0, r>>
      OBVIOUS
    <2>1. r \in Int /\ Last \in Int /\ 0 <= r /\ r <= Last
      BY <1>1
    <2>2. PICK k \in Int : k = r + 3 /\ k # 1 /\ k # 2 /\ k <= Last + 3 /\ k - 3 = r
      BY <2>1
    <2>3. Saved(k) = <<0, r>>
      BY <2>2 DEF Saved
    <2>. QED
      BY <2>2, <2>3
  <1>4. \A r \in Regs : Saved(Last + r + 4) = <<1, r>>
    <2>. SUFFICES ASSUME NEW r \in Regs PROVE Saved(Last + r + 4) = <<1, r>>
      OBVIOUS
    <2>1. r \in Int /\ Last \in Int /\ 0 <= r /\ r <= Last
      BY <1>1
    <2>2. PICK k \in Int : k = Last + r + 4 /\ k # 1 /\ k # 2 /\ ~(k <= Last + 3) /\ k - Last - 4 = r
      BY <2>1
    <2>3. Saved(k) = <<1, r>>
      BY <2>2 DEF Saved
    <2>. QED
      BY <2>2, <2>3
  <1>. QED
    BY <1>1, <1>2, <1>3, <1>4

LEMMA InitContext == GdcInit => ContextInv
  <1>. SUFFICES ASSUME GdcInit PROVE ContextInv
    OBVIOUS
  <1>1. TypeOK
    <2>1. fr \in [Banks -> [Regs -> Word]]
      BY DEF GdcInit, Word
    <2>2. Last \in Nat /\ 0 \in Regs
      BY SavedBanks
    <2>3. /\ fpscr \in Fpscr /\ fpscr \in [fr : Banks, mode : {"game"}]
          /\ game = [fpscr |-> fpscr, at |-> at] /\ at \in BOOLEAN
      BY DEF GdcInit, Fpscr, Modes
    <2>4. game \in [fpscr : Fpscr, at : BOOLEAN]
      BY <2>3
    <2>5. saved_mmucr \in BOOLEAN /\ mmu_gate \in BOOLEAN /\ at \in BOOLEAN
      BY Zenon DEF GdcInit
    <2>6. Len(gameStack) \in 0 .. 1 /\ Len(gdStack) \in 0 .. 2 * Last + 4 /\ saved_sp \in 0 .. 1
      BY <2>2 DEF GdcInit
    <2>. QED
      BY <2>1, <2>2, <2>3, <2>4, <2>5, <2>6 DEF GdcInit, TypeOK, Places
  <1>2. StackInv
    BY DEF GdcInit, StackInv, Depth
  <1>3. FpuInv
    BY DEF GdcInit, FpuInv, BankKept, Banks
  <1>4. CallerInv
    BY DEF GdcInit, CallerInv
  <1>. QED
    BY <1>1, <1>2, <1>3, <1>4 DEF ContextInv

-----------------------------------------------------------------------------
LEMMA NextStack == ContextInv /\ [GdcNext]_gdcVars => StackInv'
  <1>. SUFFICES ASSUME ContextInv, [GdcNext]_gdcVars PROVE StackInv'
    OBVIOUS
  <1>a. reg \in Regs /\ StackInv /\ FpuInv /\ CallerInv
    BY DEF ContextInv, TypeOK
  <1>b. Last \in Nat /\ reg \in 0 .. Last
    BY <1>a, SavedBanks
  <1>1. CASE Enter
    <2>1. /\ pc = "game" /\ pc' = "save0" /\ reg' = 0 /\ game' = game
          /\ gdStack' = <<fpscr, fpul>>
      BY <1>1 DEF Enter
    <2>2. fpscr = Saved(1) /\ fpul = Saved(2)
      BY <1>a, <2>1, SavedBanks DEF CallerInv
    <2>3. <<Saved(1), Saved(2)>> = [k \in 1 .. 2 |-> Saved(k)]
      <3>1. \A k \in 1 .. 2 : k = 1 \/ k = 2
        OBVIOUS
      <3>. QED
        BY <3>1
    <2>4. Depth' = 2
      BY <2>1 DEF Depth
    <2>5. gdStack' = [k \in 1 .. 2 |-> Saved(k)]
      BY <2>1, <2>2, <2>3, Zenon
    <2>. QED
      BY <2>1, <2>4, <2>5, StackThen
  <1>2. CASE SaveBank("save0", "save1")
    <2>1. /\ pc = "save0" /\ game' = game /\ gdStack' = Push(gdStack, Front[reg])
          /\ \/ reg < Last /\ pc' = "save0" /\ reg' = reg + 1
             \/ reg >= Last /\ pc' = "save1" /\ reg' = 0
      BY <1>b, <1>2 DEF SaveBank
    <2>2. PICK d \in Nat : d = reg + 2
      BY <1>b
    <2>3. Front[reg] = Saved(d + 1)
      <3>1. Front[reg] = <<0, reg>>
        BY <1>a, <2>1 DEF Front, FpuInv, KosFpscr, BankKept
      <3>2. d + 1 = reg + 3
        BY <1>b, <2>2
      <3>. QED
        BY <1>a, <3>1, <3>2, SavedBanks
    <2>4. Depth = d /\ Depth' = d + 1
      BY <1>b, <2>1, <2>2 DEF Depth
    <2>5. gdStack' = [k \in 1 .. d + 1 |-> Saved(k)]
      BY <1>a, <2>1, <2>3, <2>4, StackMoves, Zenon DEF StackInv
    <2>. QED
      BY <2>1, <2>4, <2>5, StackThen
  <1>3. CASE SaveBank("save1", "window")
    <2>1. /\ pc = "save1" /\ game' = game /\ gdStack' = Push(gdStack, Front[reg])
          /\ \/ reg < Last /\ pc' = "save1" /\ reg' = reg + 1
             \/ reg >= Last /\ pc' = "window" /\ reg' = 0
      BY <1>b, <1>3 DEF SaveBank
    <2>2. PICK d \in Nat : d = Last + reg + 3
      BY <1>b
    <2>3. Front[reg] = Saved(d + 1)
      <3>1. Front[reg] = <<1, reg>>
        BY <1>a, <2>1 DEF Front, FpuInv, KosFpscr, BankKept
      <3>2. d + 1 = Last + reg + 4
        BY <1>b, <2>2
      <3>. QED
        BY <1>a, <3>1, <3>2, SavedBanks
    <2>4. Depth = d /\ Depth' = d + 1
      BY <1>b, <2>1, <2>2 DEF Depth, Full
    <2>5. gdStack' = [k \in 1 .. d + 1 |-> Saved(k)]
      BY <1>a, <2>1, <2>3, <2>4, StackMoves, Zenon DEF StackInv
    <2>. QED
      BY <2>1, <2>4, <2>5, StackThen
  <1>4. CASE Window \/ Syscall \/ Unwindow
    <2>1. /\ pc \in {"window", "call", "unwindow"} /\ gdStack' = gdStack /\ game' = game
          /\ pc' \in {"call", "unwindow"} \/ (pc' = "restore1" /\ reg' = Last)
      BY <1>4 DEF Window, Syscall, Unwindow, stackVars
    <2>2. PICK d \in Nat : d = 2 * Last + 4
      BY <1>b
    <2>3. Depth = d /\ Depth' = d
      BY <1>b, <2>1, <2>2 DEF Depth, Full
    <2>4. gdStack' = [k \in 1 .. d |-> Saved(k)]
      BY <1>a, <2>1, <2>3, Zenon DEF StackInv
    <2>. QED
      BY <2>1, <2>3, <2>4, StackThen
  <1>5. CASE RestoreBank("restore1", "restore0")
    <2>1. /\ pc = "restore1" /\ game' = game /\ gdStack' = Pop(gdStack)
          /\ \/ reg > 0 /\ pc' = "restore1" /\ reg' = reg - 1
             \/ ~(reg > 0) /\ pc' = "restore0" /\ reg' = Last
      BY <1>5 DEF RestoreBank
    <2>2. PICK d \in Nat : d = Last + reg + 3
      BY <1>b
    <2>3. Depth = d + 1 /\ Depth' = d
      BY <1>b, <2>1, <2>2 DEF Depth
    <2>4. gdStack' = [k \in 1 .. d |-> Saved(k)]
      BY <1>a, <2>1, <2>3, StackMoves, Zenon DEF StackInv
    <2>. QED
      BY <2>1, <2>3, <2>4, StackThen
  <1>6. CASE RestoreBank("restore0", "leave")
    <2>1. /\ pc = "restore0" /\ game' = game /\ gdStack' = Pop(gdStack)
          /\ \/ reg > 0 /\ pc' = "restore0" /\ reg' = reg - 1
             \/ ~(reg > 0) /\ pc' = "leave"
      BY <1>6 DEF RestoreBank
    <2>2. PICK d \in Nat : d = reg + 2
      BY <1>b
    <2>3. Depth = d + 1 /\ Depth' = d
      BY <1>b, <2>1, <2>2 DEF Depth
    <2>4. gdStack' = [k \in 1 .. d |-> Saved(k)]
      BY <1>a, <2>1, <2>3, StackMoves, Zenon DEF StackInv
    <2>. QED
      BY <2>1, <2>3, <2>4, StackThen
  <1>7. CASE Leave
    BY <1>7 DEF Leave, StackInv, Depth
  <1>8. CASE GameRuns
    <2>1. pc = "game" /\ pc' = "game" /\ gdStack' = gdStack
      BY <1>8 DEF GameRuns, stackVars
    <2>. QED
      BY <1>a, <2>1 DEF StackInv, Depth
  <1>9. CASE UNCHANGED gdcVars
    BY <1>a, <1>9 DEF gdcVars, stackVars, StackInv, Depth, Saved
  <1>. QED
    BY <1>1, <1>2, <1>3, <1>4, <1>5, <1>6, <1>7, <1>8, <1>9 DEF GdcNext, GdcCall
-----------------------------------------------------------------------------
(* What is popped next, where a register is restored.                      *)
LEMMA NextPop ==
  ASSUME ContextInv
  PROVE  /\ pc = "restore1" => Top(gdStack) = <<1, reg>>
         /\ pc = "restore0" => Top(gdStack) = <<0, reg>>
         /\ pc = "leave" => Top(gdStack) = "game" /\ Top(Pop(gdStack)) = game.fpscr
  <1>a. reg \in Regs /\ StackInv
    BY DEF ContextInv, TypeOK
  <1>b. Last \in Nat /\ reg \in 0 .. Last
    BY <1>a, SavedBanks
  <1>1. CASE pc = "restore1"
    <2>1. PICK d \in Nat : d = Last + reg + 3
      BY <1>b
    <2>2. Depth = d + 1 /\ d + 1 = Last + reg + 4
      BY <1>b, <1>1, <2>1 DEF Depth
    <2>3. Top(gdStack) = Saved(d + 1)
      BY <1>a, <2>2, StackMoves, Zenon DEF StackInv
    <2>4. Top(gdStack) = <<1, reg>>
      BY <1>a, <2>2, <2>3, SavedBanks
    <2>. QED
      BY <1>1, <2>4
  <1>2. CASE pc = "restore0"
    <2>1. PICK d \in Nat : d = reg + 2
      BY <1>b
    <2>2. Depth = d + 1 /\ d + 1 = reg + 3
      BY <1>b, <1>2, <2>1 DEF Depth
    <2>3. Top(gdStack) = Saved(d + 1)
      BY <1>a, <2>2, StackMoves, Zenon DEF StackInv
    <2>4. Top(gdStack) = <<0, reg>>
      BY <1>a, <2>2, <2>3, SavedBanks
    <2>. QED
      BY <1>2, <2>4
  <1>3. CASE pc = "leave"
    <2>1. gdStack = [k \in 1 .. 1 + 1 |-> Saved(k)]
      <3>1. Depth = 1 + 1
        BY <1>3 DEF Depth
      <3>. QED
        BY <1>a, <3>1, Zenon DEF StackInv
    <2>2. Pop(gdStack) = [k \in 1 .. 1 |-> Saved(k)] /\ Top(gdStack) = Saved(1 + 1)
      BY <2>1, StackMoves
    <2>3. Top([k \in 1 .. 1 |-> Saved(k)]) = Saved(1)
      <3>1. PICK f : f = [k \in 0 + 1 .. 0 + 1 |-> Saved(k)]
        OBVIOUS
      <3>2. PICK S : S = {f[k] : k \in 1 .. 0 + 1}
        OBVIOUS
      <3>3. f \in [1 .. 0 + 1 -> S]
        BY <3>1, <3>2
      <3>4. Top(f) = f[0 + 1]
        BY <3>3, PopFrom
      <3>5. f = [k \in 1 .. 1 |-> Saved(k)] /\ f[0 + 1] = Saved(1)
        BY <3>1
      <3>. QED
        BY <3>4, <3>5, Zenon
    <2>4. 1 + 1 = 2
      OBVIOUS
    <2>5. Top(gdStack) = "game" /\ Top(Pop(gdStack)) = game.fpscr
      BY <2>2, <2>3, <2>4, SavedBanks, Zenon
    <2>. QED
      BY <1>3, <2>5
  <1>. QED
    BY <1>1, <1>2, <1>3

(* Of the private stack, from its content.                                 *)
LEMMA LengthIs ==
  ASSUME NEW d \in Nat, gdStack = [k \in 1 .. d |-> Saved(k)]
  PROVE  Len(gdStack) = d
  <1>1. PICK f : f = [k \in 1 .. d |-> Saved(k)]
    OBVIOUS
  <1>2. PICK S : S = {f[k] : k \in 1 .. d}
    OBVIOUS
  <1>3. f \in [1 .. d -> S]
    BY <1>1, <1>2
  <1>4. f \in Seq(S)
    BY <1>3, SeqDef
  <1>5. Len(f) = d
    BY <1>3, <1>4, LenProperties
  <1>. QED
    BY <1>1, <1>5, Zenon

LEMMA StackLength ==
  reg \in Regs /\ StackInv => Len(gdStack) = Depth /\ Depth \in 0 .. 2 * Last + 4
  <1>. SUFFICES ASSUME reg \in Regs, StackInv
                PROVE  Len(gdStack) = Depth /\ Depth \in 0 .. 2 * Last + 4
    OBVIOUS
  <1>1. Depth \in 0 .. 2 * Last + 4 /\ Depth \in Nat
    BY SavedBanks DEF Depth, Full
  <1>2. PICK d \in Nat : d = Depth
    BY <1>1
  <1>3. gdStack = [k \in 1 .. d |-> Saved(k)]
    BY <1>2, Zenon DEF StackInv
  <1>. QED
    BY <1>1, <1>2, <1>3, LengthIs

-----------------------------------------------------------------------------
LEMMA NextFpu == ContextInv /\ [GdcNext]_gdcVars => FpuInv'
  <1>. SUFFICES ASSUME ContextInv, [GdcNext]_gdcVars PROVE FpuInv'
    OBVIOUS
  <1>a. TypeOK /\ FpuInv /\ CallerInv
    BY DEF ContextInv
  <1>b. Last \in Nat /\ reg \in 0 .. Last /\ Regs = 0 .. Last
    BY <1>a, SavedBanks DEF TypeOK
  <1>1. CASE Enter
    BY <1>a, <1>1 DEF Enter, FpuInv, BankKept
  <1>2. CASE SaveBank("save0", "save1")
    BY <1>a, <1>2 DEF SaveBank, FpuInv, BankKept, KosFpscr, FrChg
  <1>3. CASE SaveBank("save1", "window")
    BY <1>a, <1>3 DEF SaveBank, FpuInv, BankKept, KosFpscr, FrChg
  <1>4. CASE Window
    BY <1>a, <1>4 DEF Window, fpuVars, FpuInv, BankKept
  <1>5. CASE Syscall
    BY <1>5 DEF Syscall, FpuInv
  <1>6. CASE Unwindow
    <2>1. pc' = "restore1" /\ reg' = Last /\ fpscr' = [KosFpscr EXCEPT !.fr = 1]
      BY <1>6 DEF Unwindow
    <2>2. BankBack(1)'
      BY <1>b, <2>1 DEF BankBack
    <2>. QED
      BY <2>1, <2>2 DEF FpuInv
  <1>7. CASE RestoreBank("restore1", "restore0")
    <2>1. /\ pc = "restore1" /\ fr' = [fr EXCEPT ![1][reg] = <<1, reg>>]
          /\ \/ reg > 0 /\ pc' = "restore1" /\ reg' = reg - 1 /\ fpscr' = fpscr
             \/ ~(reg > 0) /\ pc' = "restore0" /\ reg' = Last /\ fpscr' = FrChg
          /\ fpscr = [KosFpscr EXCEPT !.fr = 1]
      <3>1. pc = "restore1"
        BY <1>7 DEF RestoreBank
      <3>2. fpscr = [KosFpscr EXCEPT !.fr = 1]
        BY <1>a, <3>1 DEF FpuInv
      <3>3. fpscr.fr = 1
        BY <3>2 DEF KosFpscr
      <3>4. Top(gdStack) = <<1, reg>>
        BY <3>1, NextPop
      <3>. QED
        BY <1>7, <3>1, <3>2, <3>3, <3>4 DEF RestoreBank
    <2>2. \A r \in Regs : r >= reg => fr'[1][r] = <<1, r>>
      BY <1>a, <1>b, <2>1 DEF TypeOK, Banks, FpuInv, BankBack
    <2>3. FrChg = KosFpscr
      <3>1. fpscr = [fr |-> 1, mode |-> "kos"]
        BY <2>1 DEF KosFpscr
      <3>2. FrChg = [fr |-> 1 - 1, mode |-> "kos"]
        BY <3>1 DEF FrChg
      <3>3. 1 - 1 = 0
        OBVIOUS
      <3>. QED
        BY <3>2, <3>3, Zenon DEF KosFpscr
    <2>4. CASE reg > 0 /\ pc' = "restore1" /\ reg' = reg - 1 /\ fpscr' = fpscr
      BY <1>b, <2>1, <2>2, <2>4 DEF FpuInv, BankBack
    <2>5. CASE ~(reg > 0) /\ pc' = "restore0" /\ reg' = Last /\ fpscr' = FrChg
      <3>1. BankKept(1)' /\ BankBack(0)'
        BY <1>b, <2>2, <2>5 DEF BankKept, BankBack
      <3>. QED
        BY <2>3, <2>5, <3>1 DEF FpuInv
    <2>. QED
      BY <2>1, <2>4, <2>5
  <1>8. CASE RestoreBank("restore0", "leave")
    <2>1. /\ pc = "restore0" /\ fr' = [fr EXCEPT ![0][reg] = <<0, reg>>]
          /\ \/ reg > 0 /\ pc' = "restore0" /\ reg' = reg - 1
             \/ ~(reg > 0) /\ pc' = "leave" /\ reg' = Last
          /\ fpscr = KosFpscr /\ fpscr' = fpscr
      <3>1. pc = "restore0"
        BY <1>8 DEF RestoreBank
      <3>2. fpscr = KosFpscr /\ fpscr.fr = 0
        BY <1>a, <3>1 DEF FpuInv, KosFpscr
      <3>3. Top(gdStack) = <<0, reg>>
        BY <3>1, NextPop
      <3>. QED
        BY <1>8, <3>1, <3>2, <3>3 DEF RestoreBank
    <2>2. /\ \A r \in Regs : r >= reg => fr'[0][r] = <<0, r>>
          /\ fr'[1] = fr[1]
      BY <1>a, <1>b, <2>1 DEF TypeOK, Banks, FpuInv, BankBack
    <2>3. BankKept(1)'
      BY <1>a, <2>1, <2>2 DEF FpuInv, BankKept
    <2>4. CASE reg > 0 /\ pc' = "restore0" /\ reg' = reg - 1
      BY <1>b, <2>1, <2>2, <2>3, <2>4 DEF FpuInv, BankBack
    <2>5. CASE ~(reg > 0) /\ pc' = "leave" /\ reg' = Last
      <3>1. BankKept(0)'
        BY <1>b, <2>2, <2>5 DEF BankKept
      <3>. QED
        BY <2>1, <2>3, <2>5, <3>1 DEF FpuInv
    <2>. QED
      BY <2>1, <2>4, <2>5
  <1>9. CASE Leave
    BY <1>a, <1>9 DEF Leave, FpuInv, BankKept
  <1>10. CASE GameRuns
    BY <1>a, <1>10 DEF GameRuns, FpuInv, BankKept
  <1>11. CASE UNCHANGED gdcVars
    BY <1>a, <1>11 DEF gdcVars, fpuVars, FpuInv, BankKept, BankBack
  <1>. QED
    BY <1>1, <1>2, <1>3, <1>4, <1>5, <1>6, <1>7, <1>8, <1>9, <1>10, <1>11 DEF GdcNext, GdcCall

-----------------------------------------------------------------------------
LEMMA NextCaller == ContextInv /\ [GdcNext]_gdcVars => CallerInv'
  <1>. SUFFICES ASSUME ContextInv, [GdcNext]_gdcVars PROVE CallerInv'
    OBVIOUS
  <1>a. TypeOK /\ CallerInv
    BY DEF ContextInv
  <1>1. CASE Enter
    <2>1. pr = "game" /\ gameStack = <<>> /\ fpul = "game" /\ at = game.at
      BY <1>a, <1>1 DEF Enter, CallerInv
    <2>2. gameStack' = <<"game">> /\ saved_sp' = 1
      <3>1. <<>> \o <<"game">> = <<"game">> /\ Len(<<"game">>) = 1
        OBVIOUS
      <3>2. gameStack' = <<"game">>
        BY <1>1, <2>1, <3>1 DEF Enter, Push
      <3>. QED
        BY <1>1, <3>1, <3>2 DEF Enter
    <2>3. pc' = "save0" /\ fpul' = fpul /\ at' = at /\ game' = game
      BY <1>1 DEF Enter, mmuVars
    <2>. QED
      BY <2>1, <2>2, <2>3 DEF CallerInv
  <1>2. CASE SaveBank("save0", "save1") \/ SaveBank("save1", "window")
    <2>1. /\ pc \in {"save0", "save1"} /\ pc' \in {"save0", "save1", "window"}
          /\ UNCHANGED <<fpul, gameStack, saved_sp, at, game>>
          /\ pc' = "save0" => pc = "save0"
      BY <1>2 DEF SaveBank, mmuVars
    <2>. QED
      BY <1>a, <2>1 DEF CallerInv
  <1>3. CASE Window
    <2>1. /\ pc = "window" /\ pc' = "call" /\ mmu_gate' = Signed(backend)
          /\ UNCHANGED <<gameStack, saved_sp, backend, game>>
      BY <1>3 DEF Window, stackVars, Probe
    <2>2. at = game.at /\ gameStack = <<"game">> /\ saved_sp = 1
      BY <1>a, <2>1 DEF CallerInv
    <2>3. CASE Signed(backend)
      <3>1. mmu_gate' /\ saved_mmucr' = at /\ ~at'
        BY <1>3, <2>1, <2>3, Zenon DEF Window, Probe
      <3>2. (mmu_gate <=> Signed(backend))'
        BY <2>1, <2>3, <3>1, Zenon DEF Signed
      <3>. QED
        BY <2>1, <2>2, <3>1, <3>2 DEF CallerInv
    <2>4. CASE ~Signed(backend)
      <3>1. ~mmu_gate' /\ at' = at
        BY <1>3, <2>1, <2>4, Zenon DEF Window, Probe
      <3>2. (mmu_gate <=> Signed(backend))'
        BY <2>1, <2>4, <3>1, Zenon DEF Signed
      <3>. QED
        BY <2>1, <2>2, <3>1, <3>2 DEF CallerInv
    <2>. QED
      BY <2>3, <2>4
  <1>4. CASE Syscall
    BY <1>a, <1>4 DEF Syscall, stackVars, mmuVars, CallerInv
  <1>5. CASE Unwindow
    <2>1. /\ pc = "unwindow" /\ pc' = "restore1" /\ at' = IF mmu_gate THEN saved_mmucr ELSE at
          /\ UNCHANGED <<gameStack, saved_sp, game>>
      BY <1>5 DEF Unwindow, stackVars
    <2>2. at' = game.at
      BY <1>a, <2>1 DEF CallerInv
    <2>. QED
      BY <1>a, <2>1, <2>2 DEF CallerInv
  <1>6. CASE RestoreBank("restore1", "restore0") \/ RestoreBank("restore0", "leave")
    <2>1. /\ pc \in {"restore1", "restore0"} /\ pc' \in {"restore1", "restore0", "leave"}
          /\ UNCHANGED <<gameStack, saved_sp, at, game>>
      BY <1>6 DEF RestoreBank, mmuVars
    <2>. QED
      BY <1>a, <2>1 DEF CallerInv
  <1>7. CASE Leave
    <2>1. /\ pc = "leave" /\ pc' = "game" /\ at' = at /\ game' = game
          /\ fpul' = Top(gdStack) /\ fpscr' = Top(Pop(gdStack))
          /\ pr' = gameStack[saved_sp] /\ gameStack' = SubSeq(gameStack, 1, saved_sp - 1)
      BY <1>7 DEF Leave, mmuVars
    <2>2. fpul' = "game" /\ fpscr' = game.fpscr
      BY <2>1, NextPop
    <2>3. gameStack = <<"game">> /\ saved_sp = 1 /\ at = game.at
      BY <1>a, <2>1 DEF CallerInv
    <2>4. pr' = "game"
      BY <2>1, <2>3
    <2>5. gameStack' = <<>>
      BY <2>1, <2>3, SubSeqEmpty
    <2>. QED
      BY <2>1, <2>2, <2>3, <2>4, <2>5 DEF CallerInv
  <1>8. CASE GameRuns
    <2>1. pc = "game" /\ pc' = "game" /\ UNCHANGED <<pr, gameStack, fpul>>
      BY <1>8 DEF GameRuns, stackVars
    <2>2. game'.fpscr = fpscr' /\ game'.at = at'
      BY <1>8 DEF GameRuns
    <2>. QED
      BY <1>a, <2>1, <2>2 DEF CallerInv
  <1>9. CASE UNCHANGED gdcVars
    BY <1>a, <1>9 DEF gdcVars, fpuVars, stackVars, mmuVars, CallerInv, Signed
  <1>. QED
    BY <1>1, <1>2, <1>3, <1>4, <1>5, <1>6, <1>7, <1>8, <1>9 DEF GdcNext, GdcCall
-----------------------------------------------------------------------------
LEMMA NextTypes ==
  ASSUME ContextInv, StackInv', FpuInv', CallerInv', [GdcNext]_gdcVars
  PROVE  TypeOK'
  <1>a. TypeOK /\ CallerInv
    BY DEF ContextInv
  <1>b. Last \in Nat /\ Regs = 0 .. Last /\ reg \in 0 .. Last
    BY <1>a, SavedBanks DEF TypeOK
  <1>c. KosFpscr \in Fpscr /\ [KosFpscr EXCEPT !.fr = 1] \in Fpscr
    BY DEF KosFpscr, Fpscr, Banks, Modes
  <1>1. pc' \in Places /\ reg' \in Regs
    <2>1. CASE Enter \/ Window \/ Syscall \/ Unwindow \/ Leave \/ GameRuns \/ UNCHANGED gdcVars
      BY <1>a, <1>b, <2>1
         DEF TypeOK, Enter, Window, Syscall, Unwindow, Leave, GameRuns, gdcVars, Places
    <2>2. CASE SaveBank("save0", "save1") \/ SaveBank("save1", "window")
      BY <1>a, <1>b, <2>2 DEF TypeOK, SaveBank, Places
    <2>3. CASE RestoreBank("restore1", "restore0") \/ RestoreBank("restore0", "leave")
      BY <1>a, <1>b, <2>3 DEF TypeOK, RestoreBank, Places
    <2>. QED
      BY <2>1, <2>2, <2>3 DEF GdcNext, GdcCall
  <1>2. backend' \in Backends /\ game' \in [fpscr : Fpscr, at : BOOLEAN]
    <2>1. CASE GameRuns
      <3>1. backend' = backend /\ game' = [fpscr |-> fpscr', at |-> at'] /\ at' \in BOOLEAN
        BY <2>1 DEF GameRuns
      <3>2. fpscr' \in Fpscr
        BY <2>1 DEF GameRuns, Fpscr, Modes
      <3>3. game' \in [fpscr : Fpscr, at : BOOLEAN]
        BY <3>1, <3>2, Zenon
      <3>. QED
        BY <1>a, <3>1, <3>3 DEF TypeOK
    <2>2. CASE Syscall
      BY <1>a, <2>2 DEF Syscall, TypeOK
    <2>3. CASE Enter \/ Window \/ Unwindow \/ Leave \/ UNCHANGED gdcVars
      BY <1>a, <2>3 DEF TypeOK, Enter, Window, Unwindow, Leave, gdcVars
    <2>4. CASE \/ SaveBank("save0", "save1") \/ SaveBank("save1", "window")
               \/ RestoreBank("restore1", "restore0") \/ RestoreBank("restore0", "leave")
      BY <1>a, <2>4 DEF TypeOK, SaveBank, RestoreBank
    <2>. QED
      BY <2>1, <2>2, <2>3, <2>4 DEF GdcNext, GdcCall
  <1>3. at' \in BOOLEAN /\ saved_mmucr' \in BOOLEAN /\ mmu_gate' \in BOOLEAN
    <2>1. at \in BOOLEAN /\ saved_mmucr \in BOOLEAN /\ mmu_gate \in BOOLEAN
      BY <1>a DEF TypeOK
    <2>2. CASE Window
      <3>1. at' \in {at, FALSE} /\ saved_mmucr' \in {saved_mmucr, at}
        BY <2>2, Zenon DEF Window
      <3>2. mmu_gate' \in BOOLEAN
        BY <2>2, Zenon DEF Window, Probe, Signed
      <3>. QED
        BY <2>1, <3>1, <3>2, Zenon
    <2>3. CASE Unwindow
      <3>1. at' \in {at, saved_mmucr} /\ UNCHANGED <<saved_mmucr, mmu_gate>>
        BY <2>3, Zenon DEF Unwindow
      <3>. QED
        BY <2>1, <3>1, Zenon
    <2>4. CASE GameRuns
      BY <2>1, <2>4, Zenon DEF GameRuns
    <2>5. CASE Enter \/ Syscall \/ Leave \/ UNCHANGED gdcVars
      BY <2>1, <2>5, Zenon DEF Enter, Syscall, Leave, gdcVars, mmuVars
    <2>6. CASE \/ SaveBank("save0", "save1") \/ SaveBank("save1", "window")
               \/ RestoreBank("restore1", "restore0") \/ RestoreBank("restore0", "leave")
      BY <2>1, <2>6, Zenon DEF SaveBank, RestoreBank, mmuVars
    <2>. QED
      BY <2>2, <2>3, <2>4, <2>5, <2>6 DEF GdcNext, GdcCall
  <1>4. pr' \in {"game", "gdc_call"} /\ fpul' \in {"game", Junk}
    <2>1. CASE Enter \/ Window \/ Syscall \/ Unwindow \/ GameRuns \/ UNCHANGED gdcVars
      BY <1>a, <2>1 DEF TypeOK, Enter, Window, Syscall, Unwindow, GameRuns, gdcVars, fpuVars
    <2>2. CASE Leave
      <3>1. pc' = "game"
        BY <2>2 DEF Leave
      <3>. QED
        BY <3>1 DEF CallerInv
    <2>3. CASE \/ SaveBank("save0", "save1") \/ SaveBank("save1", "window")
               \/ RestoreBank("restore1", "restore0") \/ RestoreBank("restore0", "leave")
      BY <1>a, <2>3 DEF TypeOK, SaveBank, RestoreBank
    <2>. QED
      BY <2>1, <2>2, <2>3 DEF GdcNext, GdcCall
  <1>5. fr' \in [Banks -> [Regs -> Word]]
    <2>1. CASE Syscall
      <3>1. PICK B \in SUBSET Banks :
              fr' = [b \in Banks |-> IF b \in B THEN [r \in Regs |-> Junk] ELSE fr[b]]
        BY <2>1 DEF Syscall
      <3>2. [r \in Regs |-> Junk] \in [Regs -> Word]
        BY DEF Word
      <3>. QED
        BY <1>a, <3>1, <3>2 DEF TypeOK
    <2>2. CASE RestoreBank("restore1", "restore0") \/ RestoreBank("restore0", "leave")
      <3>1. Top(gdStack) \in Word
        <4>1. pc \in {"restore1", "restore0"}
          BY <2>2 DEF RestoreBank
        <4>2. <<0, reg>> \in Word /\ <<1, reg>> \in Word
          BY <1>b DEF Word, Banks
        <4>. QED
          BY <4>1, <4>2, NextPop
      <3>2. fr' = [fr EXCEPT ![fpscr.fr][reg] = Top(gdStack)]
        BY <2>2 DEF RestoreBank
      <3>. QED
        BY <1>a, <3>1, <3>2 DEF TypeOK, Fpscr
    <2>3. CASE \/ Enter \/ Window \/ Unwindow \/ Leave \/ GameRuns \/ UNCHANGED gdcVars
               \/ SaveBank("save0", "save1") \/ SaveBank("save1", "window")
      BY <1>a, <2>3 DEF TypeOK, Enter, Window, Unwindow, Leave, GameRuns, gdcVars, fpuVars, SaveBank
    <2>. QED
      BY <2>1, <2>2, <2>3 DEF GdcNext, GdcCall
  <1>6. fpscr' \in Fpscr
    <2>1. CASE pc' = "game"
      <3>1. fpscr' = game'.fpscr
        BY <2>1 DEF CallerInv
      <3>. QED
        BY <1>2, <3>1
    <2>2. CASE pc' = "unwindow"
      <3>1. Syscall \/ UNCHANGED gdcVars
        BY <2>2 DEF GdcNext, GdcCall, Enter, Window, Unwindow, Leave, GameRuns, SaveBank, RestoreBank
      <3>2. CASE UNCHANGED gdcVars
        BY <1>a, <3>2 DEF gdcVars, fpuVars, TypeOK
      <3>3. CASE Syscall
        <4>1. fpscr' \in {fpscr, [fr |-> 0, mode |-> Junk], [fr |-> 1, mode |-> Junk]}
          BY <3>3 DEF Syscall
        <4>. QED
          BY <1>a, <4>1 DEF TypeOK, Fpscr, Banks
      <3>. QED
        BY <3>1, <3>2, <3>3
    <2>3. CASE pc' \notin {"game", "unwindow"}
      BY <1>1, <1>c, <2>3 DEF FpuInv, Places
    <2>. QED
      BY <2>1, <2>2, <2>3
  <1>7. Len(gameStack)' \in 0 .. 1 /\ saved_sp' \in 0 .. 1
    <2>1. CASE pc' = "game"
      <3>1. gameStack' = <<>>
        BY <2>1 DEF CallerInv
      <3>2. saved_sp' = saved_sp
        BY <2>1 DEF GdcNext, GdcCall, Enter, Window, Unwindow, Leave, GameRuns, Syscall,
                    SaveBank, RestoreBank, gdcVars, stackVars
      <3>. QED
        BY <1>a, <3>1, <3>2 DEF TypeOK
    <2>2. CASE pc' # "game"
      BY <2>2 DEF CallerInv
    <2>. QED
      BY <2>1, <2>2
  <1>8. Len(gdStack)' \in 0 .. 2 * Last + 4
    <2>1. (reg \in Regs /\ StackInv)' => (Len(gdStack) = Depth /\ Depth \in 0 .. 2 * Last + 4)'
      BY StackLength, PTL
    <2>2. (reg \in Regs)'
      BY <1>1 DEF Regs
    <2>. QED
      BY <2>1, <2>2
  <1>. QED
    BY <1>1, <1>2, <1>3, <1>4, <1>5, <1>6, <1>7, <1>8 DEF TypeOK

LEMMA Inductive == ContextInv /\ [GdcNext]_gdcVars => ContextInv'
  BY NextStack, NextFpu, NextCaller, NextTypes DEF ContextInv

-----------------------------------------------------------------------------
(* What lies on the private stack at each place of gdc_call, and which     *)
(* registers still hold the game's values (gdstack.S:33-200).              *)
THEOREM Invariance == GdcSpec => []ContextInv
  BY InitContext, Inductive, PTL DEF GdcSpec

LEMMA KeptAtReturn == ContextInv => ContextKept
  <1>. SUFFICES ASSUME ContextInv, pc = "game"
                PROVE  /\ fr = [b \in Banks |-> [r \in Regs |-> <<b, r>>]]
                       /\ fpscr = game.fpscr /\ fpul = "game"
                       /\ pr = "game" /\ gameStack = <<>> /\ at = game.at
    BY DEF ContextKept
  <1>1. TypeOK /\ FpuInv /\ CallerInv
    BY DEF ContextInv
  <1>2. \A b \in Banks : \A r \in Regs : fr[b][r] = <<b, r>>
    BY <1>1 DEF FpuInv, BankKept, Banks
  <1>3. fr \in [Banks -> [Regs -> Word]]
    BY <1>1 DEF TypeOK
  <1>4. \A b \in Banks : fr[b] = [r \in Regs |-> <<b, r>>]
    BY <1>2, <1>3
  <1>5. fr = [b \in Banks |-> [r \in Regs |-> <<b, r>>]]
    BY <1>3, <1>4
  <1>. QED
    BY <1>1, <1>5 DEF CallerInv

(* The game gets back both banks of any number of registers and which one  *)
(* is in front, its move width, FPUL, its stack, its return address and    *)
(* its MMU setting, whatever the syscall left (gdstack.S:17-27, 78-89).    *)
THEOREM KeepsContext == GdcSpec => []ContextKept
  BY Invariance, KeptAtReturn, PTL

LEMMA RightWorldAtCall == ContextInv => GdcInv
  <1>. SUFFICES ASSUME ContextInv PROVE GdcInv
    OBVIOUS
  <1>1. TypeOK /\ FpuInv /\ CallerInv
    BY DEF ContextInv
  <1>2. ASSUME pc = "call" PROVE at = (game.at /\ ~backend.isoldr)
    <2>1. backend.isoldr <=> mmu_gate
      BY <1>1, <1>2, SignatureAssumption DEF TypeOK, CallerInv
    <2>2. IF mmu_gate THEN saved_mmucr = game.at /\ ~at ELSE at = game.at
      BY <1>1, <1>2 DEF CallerInv
    <2>3. at \in BOOLEAN /\ game.at \in BOOLEAN
      BY <1>1 DEF TypeOK
    <2>. QED
      BY <2>1, <2>2, <2>3, Zenon
  <1>3. ASSUME pc = "call" PROVE fpscr = KosFpscr /\ Len(gdStack) = 2 * Last + 4
    <2>1. Len(gdStack) = Depth
      BY <1>1, StackLength DEF ContextInv, TypeOK
    <2>. QED
      BY <1>1, <1>3, <2>1 DEF FpuInv, Depth, Full
  <1>. QED
    BY <1>1, <1>2, <1>3 DEF GdcInv, RightWorld

(* Each backend runs in its own world: isoldr, known by its signatures,    *)
(* without translation, any other with the game's setting, both with the   *)
(* KOS FPSCR on a stack of known depth (gdstack.S:90-129).                 *)
THEOREM RightWorldForBackend == GdcSpec => []GdcInv
  BY Invariance, RightWorldAtCall, PTL
=============================================================================
