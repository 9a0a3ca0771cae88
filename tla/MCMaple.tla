------------------------------ MODULE MCMaple ------------------------------
(***************************************************************************)
(* Small instances of MapleService: two receive buffers, one address       *)
(* outside RAM, and a frame of each kind.                                  *)
(***************************************************************************)
EXTENDS MapleService

Mie(last, recv, sub, jvs) ==
  [start |-> TRUE, last |-> last, mie |-> TRUE, recv |-> recv, sub |-> sub, jvs |-> jvs]

MCJvsCmds == {"f1", "10"}

MCFrames ==
  { Mie(FALSE, "a", "17", "10"), Mie(FALSE, "mmio", "19", "f1"),
    Mie(FALSE, "a", "27", "off"), Mie(TRUE, "b", "15", "off"),
    Mie(TRUE, "b", "21", "f1"), Mie(FALSE, "a", "15", "off"),
    Mie(TRUE, "a", "33", "off"), Mie(TRUE, "b", "unknown", "off"),
    [start |-> TRUE, last |-> TRUE, mie |-> FALSE, recv |-> "b", sub |-> "33", jvs |-> "off"],
    [start |-> FALSE, last |-> FALSE, mie |-> TRUE, recv |-> "b", sub |-> "17", jvs |-> "f1"] }

MCGarbage == { Mie(FALSE, "a", "33", "off"), Mie(FALSE, "b", "unknown", "off") }
=============================================================================
