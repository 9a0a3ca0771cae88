---------------------------- MODULE ConfigHooks -----------------------------
(***************************************************************************)
(* The configuration hooks of shims/src/main.c: what the game is told of   *)
(* its monitor and its settings.  The main thread chooses a video mode by  *)
(* monitor globals that shim_monitor_set fills from the video cable, and   *)
(* loads its settings through stubs in the place of the EEPROM library of  *)
(* the Naomi BIOS.  The vertical blank interrupt stamps free play and may  *)
(* answer a DIP switch request from the same cable sense.                  *)
(***************************************************************************)
EXTENDS Integers

CONSTANTS
  Residue,    \* what RAM the loader does not write may hold at boot
  TableSize,  \* entries of the settings table on the parser's stack: 8
  Baked,      \* the system section of eeprom_img, in both of its copies
  CoinMode,   \* the section the validator makes up when both are bad
  Garbage     \* a section buffer nobody filled

ASSUME ConfigAssumption ==
  /\ Residue \subseteq Nat
  /\ TableSize \in Nat \ {0}
  /\ Baked # CoinMode /\ Baked # Garbage

Cables == {"vga", "rgb", "composite"}
Unread == 255

(* PDTRA bits 9:8.                                                         *)
Port(c) == IF c = "vga" THEN 0 ELSE IF c = "rgb" THEN 2 ELSE 3

(* The four words of the monitor globals, by the end of their address.     *)
Globals == {"451c", "4524", "4520", "4518"}

VARIABLES
  cable,      \* the cable in the socket
  swapped,    \* history: it has been changed since the first sense
  latch,      \* cable_latch
  pc,         \* the place of the main thread
  vga,        \* shim_monitor_set's local
  globals,    \* the monitor globals
  mode,       \* the video mode the game set
  dip,        \* bit 0 of the last DIP switch reply, -1 before the first
  copies,     \* the validator's buffers for the two system sections
  idx,        \* the settings index, [0x8c1c9770]
  settings,   \* the section the game runs with
  freeplay    \* settings+0xc

videoVars    == <<latch, vga, globals, mode>>
settingsVars == <<copies, idx, settings>>
envVars      == <<cable, swapped>>
configVars   == <<pc, videoVars, settingsVars, envVars, dip, freeplay>>

Places == {"idle", "sense", "port", "store", "choose", "read", "validate", "index",
           "parse", "wild", "kick", "spin", "post", "finish"}

TypeOK ==
  /\ cable \in Cables /\ swapped \in BOOLEAN
  /\ latch \in {0, 2, 3, Unread}
  /\ pc \in Places /\ vga \in BOOLEAN
  /\ globals \in [Globals -> Nat]
  /\ mode \in {"none", "31kHz", "ntsc"} /\ dip \in {-1, 0, 1}
  /\ copies \in [{1, 2} -> {Baked, Garbage}]
  /\ idx \in Nat
  /\ settings \in {"none", Baked, CoinMode}
  /\ freeplay \in BOOLEAN

ConfigInit ==
  /\ cable \in Cables /\ swapped = FALSE
  /\ latch = Unread
  /\ pc = "idle" /\ vga = FALSE
  /\ globals \in [Globals -> Residue]
  /\ mode = "none" /\ dip = -1
  /\ copies = [n \in {1, 2} |-> Garbage]
  /\ idx \in Residue
  /\ settings = "none"
  /\ freeplay \in BOOLEAN

Goto(here, there) == pc = here /\ pc' = there
-----------------------------------------------------------------------------
(* The video flow: the hooked writer, then the game's chooser.             *)

(* shim_cable_is_vga: a latched sense is used again.                       *)
Sense ==
  /\ pc = "sense"
  /\ IF latch = Unread
     THEN pc' = "port" /\ UNCHANGED vga
     ELSE pc' = "store" /\ vga' = (latch = 0)
  /\ UNCHANGED <<latch, globals, mode, settingsVars, envVars, dip, freeplay>>

(* Variant: the sense is not kept.                                         *)
ReadPort_NoLatch ==
  /\ Goto("port", "store")
  /\ vga' = (Port(cable) = 0)
  /\ UNCHANGED <<latch, globals, mode, settingsVars, envVars, dip, freeplay>>

ReadPort ==
  /\ Goto("port", "store")
  /\ latch' = Port(cable)
  /\ vga' = (latch' = 0)
  /\ UNCHANGED <<globals, mode, settingsVars, envVars, dip, freeplay>>

MonitorSet ==
  /\ Goto("store", "choose")
  /\ globals' = [x \in Globals |->
                   IF x = "451c" THEN (IF vga THEN 0 ELSE 2)
                   ELSE IF x = "4524" THEN (IF vga THEN 0 ELSE 1)
                   ELSE IF x = "4520" THEN 0 ELSE 1]
  /\ UNCHANGED <<latch, vga, mode, settingsVars, envVars, dip, freeplay>>

(* FUN_8c04b2cc by its getter: monitor 0 is 31 kHz, anything else NTSC.    *)
Choose ==
  /\ Goto("choose", "idle")
  /\ mode' = IF globals["4518"] = 1 /\ globals["4524"] = 0 THEN "31kHz" ELSE "ntsc"
  /\ UNCHANGED <<latch, vga, globals, settingsVars, envVars, dip, freeplay>>
-----------------------------------------------------------------------------
(* The settings flow, with the stubs in the places of the library calls.   *)

(* Variant: the answer comes when the validator has read its buffers.      *)
EeRead_Late ==
  /\ Goto("read", "validate")
  /\ UNCHANGED <<videoVars, settingsVars, envVars, dip, freeplay>>

EeRead ==
  /\ Goto("read", "validate")
  /\ copies' = [n \in {1, 2} |-> Baked]
  /\ UNCHANGED <<videoVars, idx, settings, envVars, dip, freeplay>>

(* FUN_8c080094: a good copy is used, two bad ones are made up afresh.     *)
Validate ==
  /\ Goto("validate", "index")
  /\ settings' = IF \E n \in {1, 2} : copies[n] = Baked THEN Baked ELSE CoinMode
  /\ UNCHANGED <<videoVars, copies, idx, envVars, dip, freeplay>>

(* Variant: the library's own, which returns without writing.              *)
IdxRead_NoStore ==
  /\ Goto("index", "parse")
  /\ UNCHANGED <<videoVars, settingsVars, envVars, dip, freeplay>>

IdxRead ==
  /\ Goto("index", "parse")
  /\ idx' = 0
  /\ UNCHANGED <<videoVars, copies, settings, envVars, dip, freeplay>>

(* FUN_8c0811f2: an index behind the table is a wild read, restarted for   *)
(* ever; it ends in shim_ee_lib_decode, which reports nothing changed.     *)
Parse ==
  /\ pc = "parse"
  /\ pc' = IF idx < TableSize THEN "kick" ELSE "wild"
  /\ UNCHANGED <<videoVars, settingsVars, envVars, dip, freeplay>>

shim_ee_write_skip == 0

(* FUN_8c081aee: 0 from the write kicker skips the write and its wait,     *)
(* which on a Dreamcast never ends.                                        *)
Kick ==
  /\ pc = "kick"
  /\ pc' = IF shim_ee_write_skip = 0 THEN "post" ELSE "spin"
  /\ UNCHANGED <<videoVars, settingsVars, envVars, dip, freeplay>>

(* The three shim_ee_lib_post stubs, whose results are ignored.            *)
Post ==
  /\ Goto("post", "finish")
  /\ UNCHANGED <<videoVars, settingsVars, envVars, dip, freeplay>>

(* The game derives coin mode whatever the coin byte says.                 *)
Finish ==
  /\ Goto("finish", "idle")
  /\ freeplay' = FALSE
  /\ UNCHANGED <<videoVars, settingsVars, envVars, dip>>
-----------------------------------------------------------------------------
(* The main thread boots its video and loads its settings, in any order    *)
(* and as often as its scenes ask for it.                                  *)
Start ==
  /\ Goto("idle", "sense") \/ Goto("idle", "read")
  /\ UNCHANGED <<videoVars, settingsVars, envVars, dip, freeplay>>

Step == \/ Sense \/ ReadPort \/ MonitorSet \/ Choose
        \/ EeRead \/ Validate \/ IdxRead \/ Parse \/ Kick \/ Post \/ Finish

(* The head of shim_maple_steady.                                          *)
Vblank ==
  /\ freeplay' = TRUE
  /\ UNCHANGED <<pc, videoVars, settingsVars, envVars, dip>>

(* Subcommand 0x31: the canned reply says 31 kHz.                          *)
DipReply ==
  /\ latch' = IF latch = Unread THEN Port(cable) ELSE latch
  /\ dip' = IF latch' = 0 THEN 1 ELSE 0
  /\ UNCHANGED <<pc, vga, globals, mode, settingsVars, envVars, freeplay>>

(* The cable is changed, but not between the test of the latch and the     *)
(* read of the port, a few instructions apart.                             *)
Swap ==
  /\ pc # "port"
  /\ cable' \in Cables \ {cable}
  /\ swapped' = (swapped \/ latch # Unread)
  /\ UNCHANGED <<pc, videoVars, settingsVars, dip, freeplay>>

ConfigNext == Start \/ Step \/ Vblank \/ DipReply \/ Swap

ConfigSpec == ConfigInit /\ [][ConfigNext]_configVars

(* The main thread goes on between interrupts; a frame always ends.        *)
ConfigFairSpec == ConfigSpec /\ WF_configVars(Step) /\ WF_configVars(Vblank)
-----------------------------------------------------------------------------
(* The game is told one thing about its monitor, by the globals, by the    *)
(* DIP switches and in whatever order it asks: the picture it shows is the *)
(* one its DIP switches speak of, for the whole session, and the cable's   *)
(* own unless that has been changed (main.c:273-286, 967-974, util.c:      *)
(* 145-152).                                                               *)
VideoAgrees ==
  /\ mode # "none" /\ dip # -1 => (mode = "31kHz" <=> dip = 1)
  /\ mode # "none" /\ ~swapped     => (mode = "31kHz" <=> cable = "vga")
  /\ dip # -1 /\ ~swapped      => (dip = 1 <=> cable = "vga")

(* Why: one sense is behind all three.                                     *)
VideoInv ==
  /\ swapped => latch # Unread /\ pc # "port"
  /\ latch # Unread /\ ~swapped => latch = Port(cable)
  /\ pc = "store" => latch # Unread /\ (vga <=> latch = 0)
  /\ pc = "choose" =>
       /\ latch # Unread /\ globals["4518"] = 1
       /\ globals["4524"] = 0 <=> latch = 0
  /\ mode # "none" => latch # Unread /\ (mode = "31kHz" <=> latch = 0)
  /\ dip # -1 => latch # Unread /\ (dip = 1 <=> latch = 0)

(* The game never falls back to coin mode, whatever the buffers held.      *)
SettingsBaked == settings # "none" => settings = Baked

(* Types; the baked settings, with no wild index at the parser and no wait *)
(* for a write (main.c: 886-929, 978-1001).                                *)
ConfigInv ==
  /\ TypeOK /\ SettingsBaked
  /\ pc = "validate" => copies[1] = Baked
  /\ pc = "parse" => idx < TableSize
  /\ pc \notin {"wild", "spin"}

(* The settings flow, once begun, comes to its end, and the free play flag *)
(* it leaves cleared is set again (main.c:403-415, 914-929, 989-1001).     *)
ConfigSettles ==
  /\ pc = "read" ~> pc = "idle"
  /\ ~freeplay ~> freeplay
=============================================================================
