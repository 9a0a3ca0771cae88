------------------------------ MODULE MCPatch -------------------------------
(***************************************************************************)
(* The definitions of scripts/build_patch_table.py, in its order, with     *)
(* their addresses as offsets from BASE = 0x8C020000 and the half words    *)
(* they expect there, and the ways one of them can be misplaced.           *)
(***************************************************************************)
EXTENDS PatchTable, TLC

Defs(kind, expect, addrs) ==
  [n \in DOMAIN addrs |-> [kind |-> kind, at |-> addrs[n] - \h20000, expect |-> expect, to |-> 0]]

Hooks(opcode, addrs) == Defs("hook", <<opcode>>, addrs)
Insns(opcode, addrs) == Defs("insn", <<opcode>>, addrs)
Words(hi, lo, addrs) == Defs("word", <<lo, hi>>, addrs)

(* The cartridge DMA wait, the G1 registers, the BIOS data.                *)
CartDefs ==
  Hooks(\h2FE6, <<\h3BC12>>)
    \o Words(\hA05F, \h7000, <<\h2DA74>>) \o Words(\hA05F, \h74B8, <<\h8071C>>)
    \o Words(\hA05F, \h7480, <<\h80720>>) \o Words(\hA05F, \h7484, <<\h80724>>)
    \o Words(\hA05F, \h7490, <<\h80728>>) \o Words(\hA05F, \h74A4, <<\h8072C>>)
    \o Words(\hA05F, \h7418, <<\h807D8, \h808E4>>)
    \o Words(\hA05F, \h700C, <<\h80904, \h80E3C>>)
    \o Words(\hA05F, \h7418, <<\h81D24, \h81E90, \h81FF8>>)
    \o Words(\hA006, \h0000, <<\h804D4>>) \o Words(\hA01F, \hFD00, <<\h814D0>>)

(* The Maple base and its two slots, the I/O check, the configuration      *)
(* transmit and receive pointers, the settle time.                         *)
MapleDefs ==
  Words(\hA05F, \h6C00, <<\h30FEC>>) \o Words(\h8C03, \hC2C6, <<\h2ED6C, \h2EE88>>)
    \o Insns(\h2118, <<\h7A266>>)
    \o Words(\h8C08, \h1562, <<\h82BB0, \h82C8C, \h82D10, \h82E4C>>)
    \o Words(\h8C08, \h1626, <<\h82BB8, \h82C94, \h82D18>>)
    \o Insns(\hEE78, <<\h82BEC>>)

(* The settings EEPROM: the read, the five write thunks, the index read.   *)
SettingsDefs ==
  Hooks(\h2FE6, <<\h80F50>>) \o Hooks(\h7FFC, <<\h803F8, \h80446, \h80418>>)
    \o Hooks(\hD22A, <<\h80426>>) \o Hooks(\h7FFC, <<\h80456, \h80484>>)

(* The monitor writer; the blanking and scanout sites.                     *)
VideoDefs ==
  Hooks(\hD235, <<\h257F4>>)
    \o Insns(\hCB08, <<\h42944, \h41EEC, \h3E53C>>)
    \o Insns(\h2509, <<\h42EC8>>) \o Insns(\h4E0B, <<\h42ED0>>)
    \o Insns(\h2509, <<\h42874>>) \o Insns(\h4E0B, <<\h4287C>>)
    \o Insns(\h2539, <<\h3E532, \h3E548, \h41EE0>>)

Numbered(s) == [n \in DOMAIN s |-> [s[n] EXCEPT !.to = n]]

AllDefs == Numbered(CartDefs \o MapleDefs \o SettingsDefs \o VideoDefs)

BootSize == \h100000

(* Functions no definition names that begin like a hooked one, one of them *)
(* right before a hooked one (a bound).                                    *)
Lookalikes ==
  (\h10000 :> \h7FFC) @@ (\h10012 :> \h2FE6) @@ (\h10024 :> \hD22A) @@ (\h10036 :> \hD235)
    @@ (\h60480 :> \h7FFC)

(* Where definition k can end up: two bytes off, on the next definition's  *)
(* place, on that of one of its kind and, for a hook, on a look-alike.     *)
Misplaced(k) ==
  {AllDefs[k].at + 2}
    \cup {AllDefs[l].at : l \in {l \in DOMAIN AllDefs \ {k} :
            l = k + 1 \/ (AllDefs[l].kind = AllDefs[k].kind
                           /\ (AllDefs[k].kind = "hook" \/ AllDefs[l].expect = AllDefs[k].expect))}}
    \cup (IF AllDefs[k].kind = "hook" THEN DOMAIN Lookalikes ELSE {})

AllSlips == UNION {{[AllDefs EXCEPT ![k].at = a] : a \in Misplaced(k)} : k \in DOMAIN AllDefs}

(* The boot image as far as the definitions and the look-alikes tell it;   *)
(* the other half words hold nothing a definition expects.                 *)
Halves == UNION {{<<AllDefs[k].at + 2 * (h - 1), AllDefs[k].expect[h]>> :
                    h \in DOMAIN AllDefs[k].expect} : k \in DOMAIN AllDefs}
            \cup {<<a, Lookalikes[a]>> : a \in DOMAIN Lookalikes}

Unknown == \h10000

Places == UNION {UNION {{s[k].at + 2 * (h - 1) : h \in DOMAIN s[k].expect} : k \in DOMAIN s}
                  : s \in {AllDefs} \cup AllSlips}

BootImage ==
  [a \in Places |-> IF \E x \in Halves : x[1] = a
                      THEN (CHOOSE x \in Halves : x[1] = a)[2] ELSE Unknown]

(* The real definitions do not overlap: the hypothesis under which         *)
(* PristineIsStarted is proved.                                            *)
ASSUME RealDefsDisjoint == Disjoint(Script)
=============================================================================
