------------------------- MODULE ConfigHooksProofs --------------------------
(***************************************************************************)
(* Theorems about the configuration hooks, for every boot residue and      *)
(* every number of cable changes, DIP requests and repeated settings       *)
(* flows: the game is told one thing about its monitor, and runs with the  *)
(* baked settings.                                                         *)
(***************************************************************************)
EXTENDS ConfigHooks, TLAPS

LEMMA PortTyped == \A c \in Cables : Port(c) \in {0, 2, 3} /\ (Port(c) = 0 <=> c = "vga")
  BY DEF Cables, Port

(* Every variable keeps its type, the settings stay the baked ones, and    *)
(* the flow meets neither the wild index nor the endless wait (main.c:     *)
(* 886-929, 978-1001).                                                     *)
THEOREM SettingsHold == ConfigSpec => []ConfigInv
  <1>. USE ConfigAssumption DEF ConfigInv, TypeOK, SettingsBaked
  <1>1. ConfigInit => ConfigInv
    BY DEF ConfigInit, Places, Unread, Globals
  <1>2. ConfigInv /\ [ConfigNext]_configVars => ConfigInv'
    <2>. SUFFICES ASSUME ConfigInv, [ConfigNext]_configVars
                  PROVE  ConfigInv'
      OBVIOUS
    <2>. USE DEF Goto, Places, videoVars, settingsVars, envVars
    <2>1. CASE Start
      BY <2>1 DEF Start
    <2>2. CASE Sense
      <3>1. vga' \in BOOLEAN
        BY <2>2, Zenon DEF Sense
      <3>. QED
        BY <2>2, <3>1 DEF Sense
    <2>3. CASE ReadPort
      <3>1. latch' \in {0, 2, 3} /\ vga' \in BOOLEAN
        BY <2>3, PortTyped, Zenon DEF ReadPort
      <3>. QED
        BY <2>3, <3>1 DEF ReadPort
    <2>4. CASE MonitorSet
      BY <2>4 DEF MonitorSet
    <2>5. CASE Choose
      BY <2>5 DEF Choose
    <2>6. CASE EeRead
      BY <2>6 DEF EeRead
    <2>7. CASE Validate
      BY <2>7 DEF Validate
    <2>8. CASE IdxRead
      BY <2>8 DEF IdxRead
    <2>9. CASE Parse
      BY <2>9 DEF Parse
    <2>10. CASE Kick
      BY <2>10 DEF Kick, shim_ee_write_skip
    <2>11. CASE Post
      BY <2>11 DEF Post
    <2>16. CASE Finish
      BY <2>16 DEF Finish
    <2>12. CASE Vblank
      BY <2>12 DEF Vblank
    <2>13. CASE DipReply
      BY <2>13, PortTyped DEF DipReply, Unread
    <2>14. CASE Swap
      BY <2>14 DEF Swap
    <2>15. CASE UNCHANGED configVars
      BY <2>15 DEF configVars
    <2>. QED
      BY <2>1, <2>2, <2>3, <2>4, <2>5, <2>6, <2>7, <2>8, <2>9, <2>10, <2>11, <2>12,
         <2>13, <2>14, <2>15, <2>16 DEF ConfigNext, Step
  <1>. QED
    BY <1>1, <1>2, PTL DEF ConfigSpec

(* The picture, the DIP switches and the cable agree: all of them come     *)
(* from one latched sense (main.c:273-286, 967-974, util.c:145-152).       *)
THEOREM OneMonitor == ConfigSpec => []VideoAgrees
  <1>1. ConfigInit => VideoInv
    BY DEF ConfigInit, VideoInv
  <1>2. TypeOK /\ VideoInv /\ [ConfigNext]_configVars => VideoInv'
    <2>. SUFFICES ASSUME TypeOK, VideoInv, [ConfigNext]_configVars
                  PROVE  VideoInv'
      OBVIOUS
    <2>. USE PortTyped DEF TypeOK, Goto, videoVars, settingsVars, envVars, VideoInv
    <2>1. CASE Start
      BY <2>1 DEF Start
    <2>2. CASE Sense
      BY <2>2 DEF Sense
    <2>3. CASE ReadPort
      <3>1. /\ pc = "port" /\ pc' = "store" /\ latch' = Port(cable)
            /\ UNCHANGED <<globals, mode, cable, swapped, dip>>
        BY <2>3 DEF ReadPort
      <3>2. vga' <=> latch' = 0
        BY <2>3, Zenon DEF ReadPort
      <3>3. ~swapped /\ (latch # Unread => latch' = latch)
        BY <3>1
      <3>4. latch' # Unread /\ (latch # Unread => (latch' = 0 <=> latch = 0))
        BY <3>1, <3>3 DEF Unread
      <3>. QED
        BY <3>1, <3>2, <3>3, <3>4
    <2>4. CASE MonitorSet
      BY <2>4 DEF MonitorSet, Globals
    <2>5. CASE Choose
      BY <2>5 DEF Choose
    <2>6. CASE EeRead \/ Validate \/ IdxRead
      BY <2>6 DEF EeRead, Validate, IdxRead
    <2>7. CASE Parse \/ Kick
      BY <2>7 DEF Parse, Kick
    <2>8. CASE Post \/ Finish \/ Vblank
      BY <2>8 DEF Post, Finish, Vblank
    <2>9. CASE DipReply
      BY <2>9 DEF DipReply, Unread
    <2>10. CASE Swap
      BY <2>10 DEF Swap
    <2>11. CASE UNCHANGED configVars
      BY <2>11 DEF configVars
    <2>. QED
      BY <2>1, <2>2, <2>3, <2>4, <2>5, <2>6, <2>7, <2>8, <2>9, <2>10, <2>11
      DEF ConfigNext, Step
  <1>3. TypeOK /\ VideoInv => VideoAgrees
    BY PortTyped DEF TypeOK, VideoInv, VideoAgrees
  <1>4. ConfigSpec => []TypeOK
    <2>1. ConfigInv => TypeOK
      BY DEF ConfigInv
    <2>. QED
      BY <2>1, SettingsHold, PTL
  <1>. QED
    BY <1>1, <1>2, <1>3, <1>4, PTL DEF ConfigSpec
=============================================================================
