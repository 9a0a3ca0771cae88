---------------------------- MODULE MapleService ----------------------------
(***************************************************************************)
(* The Maple service (shims/src/main.c): the game's Maple engine, run from *)
(* its vertical blank interrupt, sees a mirror of the Maple registers in   *)
(* RAM.  After each call of the engine the shim walks the command list the *)
(* engine triggered, answers every frame in the place of the Naomi's MIE,  *)
(* and clears the mirror's busy bit.  Meanwhile the main thread enumerates *)
(* the JVS board through two hooks of its own.                             *)
(*                                                                         *)
(* The interrupt preempts the main thread between any two of its steps and *)
(* is not preempted by it; a frame of the list is one step of the walk.    *)
(***************************************************************************)
EXTENDS Integers, Sequences, FiniteSetsExt

CONSTANTS
  Frames,    \* the frames the engine may put in a list
  Garbage,   \* the frames RAM may hold behind a list without an end
  MaxSlots,  \* the longest list the engine builds: 24
  MaxWalk,   \* the cap of the walk: 32
  JvsCmds,   \* the JVS commands of the enumeration
  Other,     \* any other JVS command: 0xff, "not enumeration"
  Ram,       \* the receive buffers in RAM
  Outside    \* receive addresses outside it

Transmits == {"17", "19", "21"}

(* The cases of maple_reply.                                               *)
Known   == {"01", "03", "0b", "13", "15", "17", "19", "21", "27", "31", "33", "ff"}
AllSubs == Known \cup {"unknown"}

(* A list entry: its operation and last-transfer bit, the device it is     *)
(* for, where the reply goes, the subcommand and, in a transmit, the JVS   *)
(* command.                                                                *)
FrameType ==
  [start : BOOLEAN, last : BOOLEAN, mie : BOOLEAN, recv : Ram \cup Outside,
   sub : AllSubs, jvs : JvsCmds \cup {Other}]

ASSUME MapleAssumption ==
  /\ Frames \subseteq FrameType /\ Garbage \subseteq FrameType
  /\ \A f \in Garbage : ~f.last
  /\ MaxSlots \in Nat \ {0} /\ MaxWalk \in Nat /\ MaxSlots <= MaxWalk
  /\ "f1" \in JvsCmds /\ Other \notin JvsCmds
  /\ Ram \cap Outside = {}

VARIABLES
  pc,           \* "main" thread, "engine" or "walk" of the interrupt, "dead"
  mdst,         \* the mirror's busy bit
  list,         \* the command list the mirror points at
  inRam,        \* it points into RAM at all
  i,            \* the entry the walk is at
  pending_jvs,  \* the last JVS command of the lists
  pending_cfg,  \* the last JVS command of the configuration
  slots,        \* the last reply in each receive buffer
  cfg,          \* main thread: what it transmitted and what it was answered
  before        \* history: slots and pending_jvs when the walk began

ifaceVars == <<list, inRam, before>>
mapleVars == <<pc, mdst, i, pending_jvs, pending_cfg, slots, cfg, ifaceVars>>

(* Replies, by what tells them apart.                                      *)
Ack(sub)    == <<"ack", IF sub \in Transmits THEN "17" ELSE sub>>
Board(jvs)  == <<"board", jvs>>
Live        == <<"live", Other>>
Probe       == <<"probe", Other>>
None        == <<"none", Other>>
Replies ==
  {Ack(s) : s \in Known} \cup {Board(c) : c \in JvsCmds} \cup {Live, Probe, None}

Lists == UNION {[1 .. n -> Frames] : n \in 1 .. MaxSlots}

TypeOK ==
  /\ pc \in {"main", "engine", "walk", "dead"}
  /\ mdst \in BOOLEAN /\ inRam \in BOOLEAN 
  /\ i \in 0 .. MaxWalk
  /\ list \in Seq(Frames) /\ Len(list) <= MaxSlots
  /\ pending_jvs \in JvsCmds \cup {Other} /\ pending_cfg \in JvsCmds \cup {Other}
  /\ slots \in [Ram \cup Outside -> Replies]
  /\ cfg \in [sent : JvsCmds \cup {Other, "idle"}, got : Replies]
  /\ before \in [slots : [Ram \cup Outside -> Replies], jvs : JvsCmds \cup {Other}]

MapleInit ==
  /\ pc = "main" /\ mdst = FALSE /\ list = <<>> /\ inRam = TRUE /\ i = 0
  /\ pending_jvs = Other
  /\ pending_cfg \in JvsCmds
  /\ slots = [a \in Ram \cup Outside |-> None]
  /\ cfg = [sent |-> "idle", got |-> None]
  /\ before = [slots |-> slots, jvs |-> pending_jvs]
-----------------------------------------------------------------------------
(* The head of shim_maple_steady: free play is stamped (ConfigHooks), the  *)
(* engine called.                                                          *)
Vblank ==
  /\ pc = "main"
  /\ pc' = "engine"
  /\ UNCHANGED <<mdst, i, pending_jvs, pending_cfg, slots, cfg, ifaceVars>>

(* The game's engine: busy, idle, or a list and a trigger.  A sound list   *)
(* ends with the last-transfer bit; a broken one may not, or not be in RAM *)
Engine ==
  /\ pc = "engine"
  /\ \/ /\ ~mdst
        /\ pc' = "main"
        /\ UNCHANGED <<mdst, i, ifaceVars>>
     \/ /\ \/ mdst /\ UNCHANGED <<list, inRam>>
           \/ ~mdst /\ list' \in Lists /\ inRam' \in BOOLEAN
        /\ mdst' = TRUE /\ pc' = "walk" /\ i' = 0
        /\ before' = [slots |-> slots, jvs |-> pending_jvs]
  /\ UNCHANGED <<pending_jvs, pending_cfg, slots, cfg>>

(* What the walk reads at entry n.                                         *)
Entry(n) == IF n <= Len(list) THEN {list[n]} ELSE Garbage

(* Variant: the latch only where the reply can be stored.                  *)
Latch_IfSane(f) ==
  IF f.recv \notin Ram THEN pending_jvs
  ELSE IF f.sub \in Transmits THEN f.jvs
  ELSE IF f.sub = "27" THEN Other ELSE pending_jvs

Latch(f) ==
  IF f.sub \in Transmits THEN f.jvs
  ELSE IF f.sub = "27" THEN Other ELSE pending_jvs

(* maple_reply: the answer to an MIE subcommand.                           *)
Reply(sub, jvs) ==
  IF sub = "33" THEN Live
  ELSE IF sub = "15" THEN (IF jvs \in JvsCmds THEN Board(jvs) ELSE Live)
  ELSE Ack(sub)

IsMie(f) == f.start /\ f.mie
Dies(f)  == IsMie(f) /\ f.recv \in Ram /\ f.sub \notin Known

(* One entry: only the start of a transaction is answered, and only where  *)
(* the receive address is in RAM.                                          *)
Serve(f) ==
  /\ pending_jvs' = IF IsMie(f) THEN Latch(f) ELSE pending_jvs
  /\ slots' =
       IF ~f.start \/ f.recv \notin Ram THEN slots
       ELSE [slots EXCEPT ![f.recv] = IF f.mie THEN Reply(f.sub, pending_jvs') ELSE Probe]

(* Variant: no cap.                                                        *)
Ends_NoCap(f) == f.last

Ends(f) == f.last \/ i + 1 = MaxWalk

Walk ==
  /\ pc = "walk" /\ inRam
  /\ \E f \in Entry(i + 1) :
       \/ /\ Dies(f)
          /\ pending_jvs' = Latch(f)
          /\ pc' = "dead"
          /\ UNCHANGED <<slots, mdst, i>>
       \/ /\ ~Dies(f)
          /\ Serve(f)
          /\ i' = (i + 1) % (MaxWalk + 1)
          /\ mdst' = ~Ends(f)
          /\ pc' = IF Ends(f) THEN "main" ELSE "walk"
  /\ UNCHANGED <<pending_cfg, cfg, ifaceVars>>

(* Variant: a skipped list stays busy.                                     *)
SkipWalk_StaysBusy ==
  /\ pc = "walk" /\ ~inRam
  /\ pc' = "main"
  /\ UNCHANGED <<mdst, i, pending_jvs, pending_cfg, slots, cfg, ifaceVars>>

(* A list outside RAM is not walked, but completed.                        *)
SkipWalk ==
  /\ pc = "walk" /\ ~inRam
  /\ mdst' = FALSE
  /\ pc' = "main"
  /\ UNCHANGED <<i, pending_jvs, pending_cfg, slots, cfg, ifaceVars>>
-----------------------------------------------------------------------------
(* The main thread: shim_cfg_tx and shim_cfg_rx.                           *)
CfgTx ==
  /\ pc = "main"
  /\ \E c \in JvsCmds \cup {Other} :
       /\ pending_cfg' = c
       /\ cfg' = [sent |-> c, got |-> None]
  /\ UNCHANGED <<pc, mdst, i, pending_jvs, slots, ifaceVars>>

Enumeration(c) == Board(IF c \in JvsCmds THEN c ELSE "f1")

(* Variant: one latch for both paths.                                      *)
CfgRx_Shared ==
  /\ pc = "main" /\ cfg.sent # "idle"
  /\ cfg' = [cfg EXCEPT !.got = Enumeration(pending_jvs)]
  /\ UNCHANGED <<pc, mdst, i, pending_jvs, pending_cfg, slots, ifaceVars>>

CfgRx ==
  /\ pc = "main" /\ cfg.sent # "idle"
  /\ cfg' = [cfg EXCEPT !.got = Enumeration(pending_cfg)]
  /\ UNCHANGED <<pc, mdst, i, pending_jvs, pending_cfg, slots, ifaceVars>>

Interrupt == Vblank \/ Engine \/ Walk \/ SkipWalk
MapleNext == Interrupt \/ CfgTx \/ CfgRx

MapleSpec == MapleInit /\ [][MapleNext]_mapleVars
(* The vertical blank comes every frame, whatever the main thread does.    *)
MapleFairSpec == MapleSpec /\ WF_mapleVars(Interrupt)
-----------------------------------------------------------------------------
(* What the MIE would have done with a list, stated without the walk: each *)
(* buffer holds the answer to the last frame sent to it, a receive is      *)
(* answered for the last JVS command transmitted before it.                *)
Sound == \E n \in DOMAIN list : list[n].last
Sent  == {n \in DOMAIN list : \A k \in 1 .. n - 1 : ~list[k].last}

(* The JVS command in force at frame n, and the answer to it.              *)
Latches(n) ==
  {k \in Sent : k <= n /\ IsMie(list[k]) /\ list[k].sub \in Transmits \cup {"27"}}

LatchAt(n) ==
  IF Latches(n) = {} THEN before.jvs
  ELSE IF list[Max(Latches(n))].sub = "27" THEN Other ELSE list[Max(Latches(n))].jvs

AnswerTo(n) == IF list[n].mie THEN Reply(list[n].sub, LatchAt(n)) ELSE Probe

(* What buffer a holds after the first n frames.                           *)
SentTo(n, a) == {k \in Sent : k <= n /\ list[k].start /\ list[k].recv = a}

Expected(n, a) ==
  IF SentTo(n, a) = {} \/ a \notin Ram THEN before.slots[a] ELSE AnswerTo(Max(SentTo(n, a)))

(* When the engine next looks at its mirror, the transaction is done: all  *)
(* of a list has been answered, in order, and nothing but its receive      *)
(* buffers in RAM has been written (main.c:687-769).                       *)
Answered ==
  /\ inRam /\ Sound => \A a \in Ram \cup Outside : slots[a] = Expected(Len(list), a)
  /\ ~inRam => slots = before.slots /\ pending_jvs = before.jvs

ListAnswered == pc = "main" /\ list # <<>> => Answered

(* The engine never finds its bus busy, so its watchdog, which resets it   *)
(* after 60 such frames, never fires, whatever list it was given (main.c:  *)
(* 388-389, 706-707, 769).                                                 *)
NeverBusy == pc = "engine" => ~mdst

(* A sound list of subcommands maple_reply knows never paints the death    *)
(* screen, whatever lies behind it in RAM (main.c:266-271, 316, 709).      *)
NoDeathInPlay ==
  pc = "dead" => \/ ~Sound
                 \/ \E n \in Sent : IsMie(list[n]) /\ list[n].sub \notin Known

(* Types, no busy bus, and no death screen but for an unknown subcommand.  *)
MapleInv == TypeOK /\ NeverBusy /\ NoDeathInPlay

(* The enumeration of the main thread is answered for its own last         *)
(* command, however many lists the interrupt serves in between (main.c:    *)
(* 65-67, 858-884).                                                        *)
CfgAnswersItsOwn ==
  cfg.got # None => cfg.got = Enumeration(cfg.sent)

(* The interrupt returns, even from a list without an end (main.c:709).    *)
WalkEnds == pc = "walk" ~> pc \in {"main", "dead"}
-----------------------------------------------------------------------------
(* Why: the walk is as far as the MIE would have been, and what it left    *)
(* stands until the next list.                                             *)
Walked(n) ==
  /\ \A a \in Ram \cup Outside : slots[a] = Expected(n, a)
  /\ pending_jvs = LatchAt(n)

WalkInv ==
  /\ pc \in {"main", "engine"} /\ list # <<>> => Answered
  /\ mdst <=> pc \in {"walk", "dead"}
  /\ pc = "walk" =>
       /\ i < MaxWalk
       /\ \A k \in 1 .. i : k <= Len(list) => ~list[k].last
  /\ pc = "walk" /\ ~inRam => slots = before.slots /\ pending_jvs = before.jvs
  /\ pc = "walk" /\ inRam => \A n \in 0 .. Len(list) : n = i => Walked(n)

(* A walk gets on by one entry at each step, below its cap, until it ends. *)
WalkAdvances ==
  [][pc = "walk" => pc' \in {"main", "dead"} \/ (pc' = "walk" /\ i' = i + 1 /\ i' < MaxWalk)]_mapleVars

CfgInv == cfg.sent # "idle" => pending_cfg = cfg.sent
=============================================================================
