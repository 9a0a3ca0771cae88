----------------------------- MODULE DiscBuild ------------------------------
(***************************************************************************)
(* Building and mastering the two discs: the makefiles, and the checks of  *)
(* scripts/make_gdi.py and scripts/make_cdi.py.  One tree of objects       *)
(* serves both builds, which differ in a compile line (CDI_DEFS) that      *)
(* make's freshness rule cannot see; debug toggles (DEFS) are another.     *)
(* Any command may fail or be interrupted at any step, the sources are     *)
(* edited between commands.                                                *)
(***************************************************************************)
EXTENDS Integers, Sequences

CONSTANTS
  MaxEdits,   \* bound: edits, of all sources together
  None        \* no such file, no such disc

ASSUME DiscBuildAssumption == MaxEdits \in Nat

Sources == {"shim_src", "loader_src", "iface"}
ShimTargets   == <<"shim_elf", "shim_bin", "shim_map">>
LoaderTargets == <<"patch_table", "main_o", "shim_blob", "program">>
Members(s)    == {s[n] : n \in DOMAIN s}
Targets       == Members(ShimTargets) \cup Members(LoaderTargets)

(* Variants: the table without the shim's symbols; the loader's side, then *)
(* the shim's, without the header.                                         *)
Prereqs_NoMap ==
  [shim_elf |-> {"shim_src", "iface"}, shim_bin |-> {"shim_elf"}, shim_map |-> {"shim_elf"},
   patch_table |-> {"iface"}, main_o |-> {"loader_src", "patch_table", "iface"},
   shim_blob |-> {"shim_bin"}, program |-> {"main_o", "shim_blob"}]
Prereqs_NoIface ==
  [shim_elf |-> {"shim_src"}, shim_bin |-> {"shim_elf"}, shim_map |-> {"shim_elf"},
   patch_table |-> {"shim_map"}, main_o |-> {"loader_src", "patch_table"},
   shim_blob |-> {"shim_bin"}, program |-> {"main_o", "shim_blob"}]
Prereqs_ShimNoIface ==
  [shim_elf |-> {"shim_src"}, shim_bin |-> {"shim_elf"}, shim_map |-> {"shim_elf"},
   patch_table |-> {"shim_map", "iface"}, main_o |-> {"loader_src", "patch_table", "iface"},
   shim_blob |-> {"shim_bin"}, program |-> {"main_o", "shim_blob"}]

Prereqs ==
  [shim_elf |-> {"shim_src", "iface"}, shim_bin |-> {"shim_elf"}, shim_map |-> {"shim_elf"},
   patch_table |-> {"shim_map", "iface"}, main_o |-> {"loader_src", "patch_table", "iface"},
   shim_blob |-> {"shim_bin"}, program |-> {"main_o", "shim_blob"}]

(* The cart's place on each medium.  The header's is that of the GD-ROM    *)
(* unless an edit has moved it; the compile line of a CDI build says "cd". *)
Places == {"gd", "cd", "elsewhere"}

(* What a target holds: the shim's variants as the linker, objcopy and nm  *)
(* left them, the table made from its symbols, the loader's object, and    *)
(* the two linked together.                                                *)
Versions    == 0 .. MaxEdits
IfaceType   == [version : Versions, fad : {"gd", "elsewhere"}]
ShimType    == [src : Versions, iface : IfaceType, debug : BOOLEAN, marked : BOOLEAN, fad : Places]
TableType   == [shim : ShimType, iface : IfaceType]
MainType    == [src : Versions, iface : IfaceType, table : TableType, fad : Places]
ProgramType == [main : MainType, shim : ShimType]
FileType ==
  [shim_elf |-> ShimType, shim_bin |-> ShimType, shim_map |-> ShimType,
   patch_table |-> TableType, main_o |-> MainType, shim_blob |-> ShimType,
   program |-> ProgramType]

ASSUME NoFileAssumption == \A t \in Targets : None \notin FileType[t]

VARIABLES
  edits,   \* the version of each source
  fad,     \* CART_FAD as the header now says
  file,    \* what each target holds, or None
  stale,   \* targets that are missing or older than a prerequisite
  run,     \* the command under way: the phases it has left
  flags,   \* the command: with debug toggles, a release
  disc     \* the disc this command, or the one just over, mastered last, or None

buildVars == <<edits, fad, file, stale, run, flags, disc>>

DiscRun == <<"shims", "loader", "gdi">>

(* Variant: the objects are not cleaned first.                             *)
CdiRun_NoClean == <<"shims_cdi", "loader_cdi", "cdi", "clean">>

CdiRun == <<"clean", "shims_cdi", "loader_cdi", "cdi", "clean">>

(* make disc, cdi, release, clean.                                         *)
Commands == {DiscRun, CdiRun, CdiRun \o DiscRun, <<"clean">>}

BuildInit ==
  /\ edits = [s \in Sources |-> 0] /\ fad = "gd"
  /\ file = [t \in Targets |-> None] /\ stale = Targets
  /\ run = <<>> /\ flags = [debug |-> FALSE, release |-> FALSE]
  /\ disc = None

(* What is known of a version: the header also places the cart.            *)
Iface == [version |-> edits["iface"], fad |-> fad]

(* A file was written: it is fresh, and what depends on it is not.         *)
Freshen(t) == stale' = (stale \ {t}) \cup {u \in Targets : t \in Prereqs[u]}

Edit ==
  /\ run = <<>>
  /\ edits["shim_src"] + edits["loader_src"] + edits["iface"] < MaxEdits
  /\ \E s \in Sources :
       /\ edits' = [edits EXCEPT ![s] = @ + 1]
       /\ fad' \in (IF s = "iface" THEN {"gd", "elsewhere"} ELSE {fad})
       /\ stale' = stale \cup {u \in Targets : s \in Prereqs[u]}
  /\ UNCHANGED <<file, run, flags, disc>>

Command ==
  /\ run = <<>>
  /\ \E c \in Commands, d \in BOOLEAN :
       /\ run' = c
       /\ flags' = [debug |-> d, release |-> c = CdiRun \o DiscRun]
  /\ disc' = None
  /\ UNCHANGED <<edits, fad, file, stale>>

(* A tool failed, or the user interrupted it.                              *)
Abort ==
  /\ run # <<>>
  /\ run' = <<>>
  /\ UNCHANGED <<edits, fad, file, stale, flags, disc>>

Done == run' = Tail(run)

(* The shims and then the loader are cleaned; the second may not come      *)
(* about.  patch_table.h stays.                                            *)
Clean ==
  /\ run # <<>> /\ Head(run) = "clean"
  /\ \E part \in {Members(ShimTargets), Targets \ {"patch_table"}} :
       /\ file' = [t \in Targets |-> IF t \in part THEN None ELSE file[t]]
       /\ stale' = stale \cup part
       /\ run' = IF part = Members(ShimTargets) THEN <<>> ELSE Tail(run)
  /\ UNCHANGED <<edits, fad, flags, disc>>

(* What a recipe puts in its target.  A CDI build marks the shim.          *)
Content(t, cdi) ==
  IF t = "shim_elf"
  THEN [src |-> edits["shim_src"], iface |-> Iface, debug |-> flags.debug, marked |-> cdi,
        fad |-> IF cdi THEN "cd" ELSE fad]
  ELSE IF t \in {"shim_bin", "shim_map"} THEN file["shim_elf"]
  ELSE IF t = "patch_table" THEN [shim |-> file["shim_map"], iface |-> Iface]
  ELSE IF t = "main_o"
  THEN [src |-> edits["loader_src"], iface |-> Iface, table |-> file["patch_table"],
        fad |-> IF cdi THEN "cd" ELSE fad]
  ELSE IF t = "shim_blob" THEN file["shim_bin"]
  ELSE [main |-> file["main_o"], shim |-> file["shim_blob"]]

(* make in one directory: the first stale target is remade, or all are     *)
(* fresh.                                                                  *)
Make(phase, targets, cdi) ==
  /\ run # <<>> /\ Head(run) = phase
  /\ IF \E n \in DOMAIN targets : targets[n] \in stale
     THEN \E n \in DOMAIN targets :
            /\ targets[n] \in stale
            /\ \A m \in 1 .. (n - 1) : targets[m] \notin stale
            /\ file' = [file EXCEPT ![targets[n]] = Content(targets[n], cdi)]
            /\ Freshen(targets[n])
            /\ run' = run
     ELSE Done /\ UNCHANGED <<file, stale>>
  /\ UNCHANGED <<edits, fad, flags, disc>>

Shims  == Make("shims", ShimTargets, FALSE) \/ Make("shims_cdi", ShimTargets, TRUE)
Loader == Make("loader", LoaderTargets, FALSE) \/ Make("loader_cdi", LoaderTargets, TRUE)

Loaded == file["program"]

(* Variant: the marks are not checked.                                     *)
GdiAccepts_NoMarks == fad = "gd"

(* make_gdi.py: the header has the cart where the layout puts it, and no   *)
(* CDI mark is in the loader.  make_cdi.py, which imports the first check: *)
(* exactly the mark of the CD's place is.                                  *)
GdiAccepts == fad = "gd" /\ ~Loaded.shim.marked
CdiAccepts == fad = "gd" /\ Loaded.shim.marked /\ Loaded.shim.fad = "cd"

Disc(place) ==
  [place |-> place, cleaned |-> place = "cd" \/ flags.release, asked |-> flags.debug,
   program |-> Loaded]

Master(phase, accepts, place) ==
  /\ run # <<>> /\ Head(run) = phase
  /\ IF accepts THEN disc' = Disc(place) /\ Done
     ELSE run' = <<>> /\ disc' = disc
  /\ UNCHANGED <<edits, fad, file, stale, flags>>

MasterGdi == Master("gdi", GdiAccepts, "gd")
MasterCdi == Master("cdi", CdiAccepts, "cd")

BuildNext ==
  Edit \/ Command \/ Abort \/ Clean \/ Shims \/ Loader \/ MasterGdi \/ MasterCdi

BuildSpec == BuildInit /\ [][BuildNext]_buildVars
-----------------------------------------------------------------------------
(* What is left of a command.                                              *)
Rest(r) == \E c \in Commands : \E n \in 1 .. Len(c) + 1 : r = SubSeq(c, n, Len(c))

BuildTypes ==
  /\ edits \in [Sources -> Versions] /\ fad \in {"gd", "elsewhere"}
  /\ file = [t \in Targets |-> file[t]]
  /\ stale \subseteq Targets
  /\ \A t \in Targets : file[t] \in FileType[t] \/ (file[t] = None /\ t \in stale)
  /\ Rest(run)
  /\ flags \in [debug : BOOLEAN, release : BOOLEAN]
  /\ disc # None => disc.place \in {"gd", "cd"}

(* The loader and the shim of a mastered disc look for the cartridge where *)
(* the disc has it (make_gdi.py:181-190, 196-207; make_cdi.py:71-76).      *)
CartIsFound ==
  disc # None => disc.program.shim.fad = disc.place /\ disc.program.main.fad = disc.place

(* The patches a disc's loader applies were made for the very shim the     *)
(* disc embeds: a rebuilt shim has its functions elsewhere                 *)
(* (loader/Makefile:17-26).                                                *)
PatchesMeetShim ==
  disc # None => disc.program.main.table.shim = disc.program.shim

(* Shim, loader and patches agree on the addresses of the header           *)
(* (loader/Makefile:10-16, 22-25).                                         *)
PlacesAgree ==
  disc # None =>
    LET p == disc.program IN
    p.shim.iface = p.main.iface /\ p.main.table.iface = p.main.iface

(* Nothing old is mastered: the disc is made from the sources as they are. *)
MasteredIsCurrent ==
  [][disc' # disc /\ disc' # None =>
       /\ disc'.program.shim.src = edits["shim_src"]
       /\ disc'.program.main.src = edits["loader_src"]
       /\ disc'.program.main.iface = Iface]_buildVars

(* A CDI and both discs of a release have debug toggles exactly when asked *)
(* for, whatever was built, and left half built, before (Makefile:42-55).  *)
DebugOnlyAsAsked ==
  disc # None /\ disc.cleaned => disc.program.shim.debug = disc.asked
-----------------------------------------------------------------------------
(* Why: a target that is fresh and whose prerequisites are there was made  *)
(* from what they hold now; the table alone may outlive the shim.          *)
FreshInv ==
  /\ "shim_elf" \notin stale =>
       file["shim_elf"].src = edits["shim_src"] /\ file["shim_elf"].iface = Iface
  /\ \A t \in {"shim_bin", "shim_map"} : t \notin stale => file[t] = file["shim_elf"]
  /\ "patch_table" \notin stale =>
       /\ file["patch_table"].iface = Iface
       /\ file["shim_map"] # None => file["patch_table"].shim = file["shim_map"]
  /\ "main_o" \notin stale =>
       /\ file["main_o"].src = edits["loader_src"] /\ file["main_o"].iface = Iface
       /\ file["main_o"].table = file["patch_table"]
  /\ "shim_blob" \notin stale /\ file["shim_bin"] # None => file["shim_blob"] = file["shim_bin"]
  /\ "program" \notin stale =>
       file["program"] = [main |-> file["main_o"], shim |-> file["shim_blob"]]

(* make has made what the phases before have to make.                      *)
PhaseInv ==
  run # <<>> =>
    /\ Head(run) \in {"loader", "loader_cdi", "gdi", "cdi"} =>
         Members(ShimTargets) \cap stale = {}
    /\ Head(run) \in {"gdi", "cdi"} => stale = {}

(* A shim says where its own image lies; so does a loader with the patches *)
(* of an unmarked shim.                                                    *)
MarkInv ==
  /\ file["shim_elf"] # None /\ ~file["shim_elf"].marked =>
       file["shim_elf"].fad = file["shim_elf"].iface.fad
  /\ file["main_o"] # None /\ ~file["main_o"].table.shim.marked =>
       file["main_o"].fad = file["main_o"].iface.fad

(* Behind a clean everything is of this command.                           *)
CleanInv ==
  run # <<>> =>
    /\ Head(run) \in {"shims_cdi", "loader_cdi", "cdi"} =>
         /\ file["shim_elf"] # None =>
              file["shim_elf"].marked /\ file["shim_elf"].debug = flags.debug
         /\ file["main_o"] # None => file["main_o"].fad = "cd"
    /\ flags.release /\ Head(run) \in {"shims", "loader", "gdi"} /\ file["shim_elf"] # None =>
         file["shim_elf"].debug = flags.debug

Mastered == CartIsFound /\ PatchesMeetShim /\ PlacesAgree /\ DebugOnlyAsAsked

DiscInv == BuildTypes /\ FreshInv /\ PhaseInv /\ MarkInv /\ CleanInv /\ Mastered

(* Of the inductive DiscInv what the properties above do not say: types,   *)
(* every object that was never built being stale; what the objects hold at *)
(* each phase of a command (loader/Makefile:10-67, shims/Makefile:24-30,   *)
(* Makefile:32-49); and PlacesAgree.                                       *)
BuildInv ==
  BuildTypes /\ FreshInv /\ PhaseInv /\ MarkInv /\ CleanInv /\ PlacesAgree
=============================================================================
