----------------------------- MODULE PatchTable -----------------------------
(***************************************************************************)
(* The patch table: scripts/build_patch_table.py verifies each definition  *)
(* against the boot image it was written for and emits (address, old       *)
(* bytes, new bytes); the loader's apply_patches compares the old bytes in *)
(* the image it read from the disc and stores the new ones, patch by       *)
(* patch.  A hook is a thunk the SH-4 executes where the function began.   *)
(*                                                                         *)
(* Addresses are offsets from BASE.  Only the bytes some patch touches are *)
(* modelled: no code looks at the others.                                  *)
(***************************************************************************)
EXTENDS Integers, Sequences

CONSTANTS
  Script,      \* the definitions, in order: [kind, at, expect, to]
  Slips,       \* lists in which one of them is mistranscribed
  Boot,        \* the boot image's half words, where a definition looks
  ImageSize,   \* bytes of the boot image
  NoDiff       \* the disc's image is the one the table was built from

Scripts == {Script} \cup Slips

(* expect: the half words the definition says are there, two for a pool    *)
(* word or a function pointer, one for an instruction, and for a hook only *)
(* its first opcode.  to: the value or the function stored, by number.     *)
DefType == [kind : {"word", "insn", "hook"}, at : 0 .. ImageSize, expect : Seq(Nat), to : Nat]

ASSUME PatchTableAssumption ==
  /\ Scripts \subseteq Seq(DefType)
  /\ \A s \in Scripts : \A k \in DOMAIN s :
       /\ s[k].at % 2 = 0
       /\ \A h \in DOMAIN s[k].expect : s[k].at + 2 * (h - 1) \in DOMAIN Boot

(* A byte: of the boot image, of another image, of an opcode (byte b of    *)
(* instruction a), or byte b of the value a definition stores.             *)
Byte(kind, a, b) == <<kind, a, b>>
Rom(a) == Byte("rom", a, 0)
Mov(disp) == <<Byte("mov", disp, 0), Byte("mov", disp, 1)>>
Jmp       == <<Byte("jmp", 0, 0), Byte("jmp", 0, 1)>>
Nop       == <<Byte("nop", 0, 0), Byte("nop", 0, 1)>>
Word(v)   == [j \in 1 .. 4 |-> Byte("to", v, j)]

Align(a) == 4 * (a \div 4)

(* Variant: PC not rounded down to a word.                                 *)
Disp_NoRound(fn) == (Align(fn + 6 + 3) - (fn + 4)) \div 4

(* hook: mov.l @(disp,PC),r0; jmp @r0; nop; padding; the target's address. *)
Slot(fn) == Align(fn + 6 + 3)
Disp(fn) == (Slot(fn) - (Align(fn) + 4)) \div 4
Filler(n) == [j \in 1 .. n |-> Nop[1 + ((j - 1) % 2)]]
Thunk(d) ==
  LET fn == d.at
  IN  Mov(Disp(fn)) \o Jmp \o Nop \o Filler(Slot(fn) - (fn + 6)) \o Word(d.to)

New(d) ==
  IF d.kind = "hook" THEN Thunk(d)
  ELSE IF d.kind = "word" THEN Word(d.to)
  ELSE SubSeq(Word(d.to), 1, 2)

Span(d) == d.at .. (d.at + Len(New(d)) - 1)
Old(d)  == [j \in 1 .. Len(New(d)) |-> Rom(d.at + j - 1)]
Emitted(d) == [at |-> d.at, old |-> Old(d), new |-> New(d)]

Patched(s) == UNION {Span(s[k]) : k \in DOMAIN s}

(* No two definitions of a list touch one byte.                            *)
Disjoint(s) == \A k, l \in DOMAIN s : k # l => Span(s[k]) \cap Span(s[l]) = {}

ASSUME NoDiffAssumption == \A s \in Scripts : NoDiff \notin Patched(s)

VARIABLES
  defs,    \* the definitions as they were transcribed
  diff,    \* a patched byte in which the disc's image differs, or NoDiff
  table,   \* the patches emitted so far: [at, old, new]
  image,   \* the staged image
  i,       \* the next patch the loader applies
  pc

patchVars == <<defs, diff, table, image, i, pc>>

Ids     == DOMAIN defs
Touched == Patched(defs)

TypeOK ==
  /\ defs \in Scripts /\ diff \in Touched \cup {NoDiff}
  /\ pc \in {"build", "failed", "apply", "mismatch", "started"}
  /\ Len(table) \in 0 .. Len(defs) /\ table = [k \in 1 .. Len(table) |-> Emitted(defs[k])]
  /\ i \in 1 .. Len(table) + 1
  /\ DOMAIN image = Touched

OnDisc(a) == IF a = diff THEN Byte("other", a, 0) ELSE Rom(a)

(* One thing is wrong at a time: the list or the disc's image.             *)
PatchInit ==
  /\ defs \in Scripts
  /\ diff \in Touched \cup {NoDiff}
  /\ defs = Script \/ diff = NoDiff
  /\ table = <<>> /\ i = 1 /\ pc = "build"
  /\ image = [a \in Touched |-> OnDisc(a)]

(* rd: the address is inside the image.                                    *)
InImage(d) == d.at <= ImageSize - Len(New(d))

(* pool, ptr, insn16, hook: the half words the definition names are there. *)
(* Of the 10 or 12 bytes a hook replaces only the first two are compared.  *)
Expected(d) == \A h \in DOMAIN d.expect : Boot[d.at + 2 * (h - 1)] = d.expect[h]

(* Variant: a hook's old bytes are taken as they are.                      *)
Define_HooksUnchecked ==
  /\ pc = "build" /\ Len(table) < Len(defs)
  /\ LET d == defs[Len(table) + 1] IN
     IF InImage(d) /\ (d.kind = "hook" \/ Expected(d))
     THEN /\ table' = Append(table, Emitted(d))
          /\ pc' = pc
     ELSE pc' = "failed" /\ table' = <<>>
  /\ UNCHANGED <<defs, diff, image, i>>

Define ==
  /\ pc = "build" /\ Len(table) < Len(defs)
  /\ LET d == defs[Len(table) + 1] IN
     IF InImage(d) /\ Expected(d)
     THEN /\ table' = Append(table, Emitted(d))
          /\ pc' = pc
     ELSE pc' = "failed" /\ table' = <<>>
  /\ UNCHANGED <<defs, diff, image, i>>

Emit ==
  /\ pc = "build" /\ Len(table) = Len(defs)
  /\ pc' = "apply"
  /\ UNCHANGED <<defs, diff, table, image, i>>

(* Variant: the last patch is left out.                                    *)
Finished_OneEarly == i = Len(table)

(* apply_patches                                                           *)
Matches(p) == \A j \in DOMAIN p.old : image[p.at + j - 1] = p.old[j]
Finished == i = Len(table) + 1

(* Variant: the copying loop runs one byte too far.                        *)
Store_OneMore(p) ==
  image' = [a \in Touched |->
              IF a - p.at \in 0 .. Len(p.new)
              THEN p.new[1 + ((a - p.at) % Len(p.new))] ELSE image[a]]

Store(p) ==
  image' = [a \in Touched |->
              IF a - p.at + 1 \in DOMAIN p.new THEN p.new[a - p.at + 1] ELSE image[a]]

Apply ==
  /\ pc = "apply" /\ ~Finished
  /\ IF Matches(table[i])
     THEN Store(table[i]) /\ i' = i + 1 /\ pc' = pc
     ELSE pc' = "mismatch" /\ UNCHANGED <<image, i>>
  /\ UNCHANGED <<defs, diff, table>>

Start ==
  /\ pc = "apply" /\ Finished
  /\ pc' = "started"
  /\ UNCHANGED <<defs, diff, table, image, i>>

PatchNext == Define \/ Emit \/ Apply \/ Start

PatchSpec == PatchInit /\ [][PatchNext]_patchVars
-----------------------------------------------------------------------------
(* What is started was patched only where the image begins as the          *)
(* definition expects and no other definition patches.  A definition that  *)
(* slipped onto code that differs fails the build; one that slipped onto   *)
(* code another patch replaces, or into it, halts on that patch's new      *)
(* bytes.  One that slipped onto untouched code that begins alike is seen  *)
(* by neither (build_patch_table.py:70-107, loader/main.c:123-136).        *)
OnlyLookalikes ==
  pc = "started" => (\A k \in Ids : Expected(defs[k])) /\ Disjoint(defs)

(* A started image holds the new bytes of every patch, all of them: none   *)
(* was left out and none written over by a later one.                      *)
StartedIsPatched ==
  pc = "started" =>
    \A k \in Ids : \A j \in DOMAIN New(defs[k]) :
      image[defs[k].at + j - 1] = New(defs[k])[j]

(* An image that differs in any byte a patch replaces is never started     *)
(* (loader/main.c:126-130).                                                *)
ForeignHalts == pc = "started" => diff = NoDiff

(* Types, no patch on code that is another's or begins otherwise, and no   *)
(* foreign image started.                                                  *)
TableInv == TypeOK /\ OnlyLookalikes /\ ForeignHalts

(* The image the table was built from is never refused: every old byte is  *)
(* still there when its patch comes, so no two patches touch one byte.     *)
PristineStarts == pc = "mismatch" => diff # NoDiff \/ defs # Script

(* SH-4: mov.l @(disp,PC),r0 loads from disp * 4 + (PC & ~3) + 4, and jmp  *)
(* has a delay slot.                                                       *)
LoadsFrom(fn) == 4 * image[fn][2] + Align(fn) + 4
Reaches(d) ==
  LET fn == d.at IN
  /\ image[fn][1] = "mov"
  /\ <<image[fn + 2], image[fn + 3]>> = Jmp /\ <<image[fn + 4], image[fn + 5]>> = Nop
  /\ \A j \in 1 .. 4 :
       LoadsFrom(fn) + j - 1 \in Touched /\ image[LoadsFrom(fn) + j - 1] = Word(d.to)[j]

(* Every hooked function, entered in a started image, ends up in the shim  *)
(* function the definition names, wherever it lies in a word               *)
(* (build_patch_table.py:89-107).                                          *)
HooksReach == pc = "started" => \A k \in Ids : defs[k].kind = "hook" => Reaches(defs[k])
-----------------------------------------------------------------------------
(* Why: which definitions the table has, and what the patches applied so   *)
(* far have left of the image on the disc.                                 *)
StageInv ==
  /\ \A k \in 1 .. Len(table) : Expected(defs[k])
  /\ pc \in {"build", "failed"} => i = 1
  /\ pc \in {"apply", "mismatch", "started"} => Len(table) = Len(defs)
  /\ pc = "started" => Finished
  /\ pc = "mismatch" => i \in Ids /\ ~Matches(Emitted(defs[i]))

ImageInv ==
  /\ \A k \in Ids : k < i =>
       \A j \in DOMAIN New(defs[k]) :
         /\ image[defs[k].at + j - 1] = New(defs[k])[j]
         /\ diff # defs[k].at + j - 1
  /\ \A k, l \in Ids : k < l /\ l < i => Span(defs[k]) \cap Span(defs[l]) = {}
  /\ \A a \in Touched : (\A k \in Ids : k < i => a \notin Span(defs[k])) => image[a] = OnDisc(a)

LoadInv == TypeOK /\ StageInv /\ ImageInv
=============================================================================
