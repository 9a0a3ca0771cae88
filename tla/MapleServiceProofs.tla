------------------------- MODULE MapleServiceProofs -------------------------
(***************************************************************************)
(* Theorems about the Maple service, for every list length, walk cap, set  *)
(* of frames and contents of the RAM behind a list: a sound list is        *)
(* answered as the MIE would have answered it, the bus is never left busy, *)
(* only an unknown subcommand ends in a death screen, and the enumeration  *)
(* of the main thread is answered for its own command.                     *)
(***************************************************************************)
EXTENDS MapleService, TLAPS

LEMMA EntryTyped ==
  ASSUME TypeOK, NEW n \in Nat \ {0}, NEW f \in Entry(n)
  PROVE  f \in FrameType
  BY MapleAssumption DEF Entry, TypeOK

LEMMA ReplyTyped ==
  ASSUME NEW sub \in Known, NEW jvs \in JvsCmds \cup {Other}
  PROVE  Reply(sub, jvs) \in Replies
  <1>1. (IF sub \in Transmits THEN "17" ELSE sub) \in Known
    BY DEF Known, Transmits
  <1>2. Ack(sub) \in Replies
    BY <1>1 DEF Ack, Replies
  <1>. QED
    BY <1>2 DEF Reply, Replies, Board

(* One entry of the list keeps the types.                                  *)
LEMMA ServeTypes ==
  ASSUME TypeOK, NEW f \in FrameType, ~Dies(f), Serve(f)
  PROVE  /\ pending_jvs' \in JvsCmds \cup {Other}
         /\ slots' \in [Ram \cup Outside -> Replies]
  <1>1. /\ f.start \in BOOLEAN /\ f.mie \in BOOLEAN /\ f.recv \in Ram \cup Outside
        /\ f.sub \in AllSubs /\ f.jvs \in JvsCmds \cup {Other}
    BY DEF FrameType
  <1>2. pending_jvs' \in JvsCmds \cup {Other}
    BY <1>1 DEF Serve, Latch, TypeOK
  <1>3. CASE ~f.start \/ f.recv \notin Ram
    BY <1>2, <1>3 DEF Serve, TypeOK
  <1>4. CASE f.start /\ f.recv \in Ram
    <2>1. (IF f.mie THEN Reply(f.sub, pending_jvs') ELSE Probe) \in Replies
      <3>1. CASE f.mie
        BY <1>2, <1>4, <3>1, ReplyTyped DEF Dies, IsMie
      <3>2. CASE ~f.mie
        BY <3>2 DEF Replies
      <3>. QED
        BY <1>1, <3>1, <3>2
    <2>. QED
      BY <1>2, <1>4, <2>1 DEF Serve, TypeOK
  <1>. QED
    BY <1>3, <1>4

LEMMA InitTypes == MapleInit => TypeOK
  <1>. SUFFICES ASSUME MapleInit PROVE TypeOK
    OBVIOUS
  <1>1. list \in Seq(Frames) /\ Len(list) = 0
    BY DEF MapleInit
  <1>2. None \in Replies
    BY DEF Replies
  <1>3. slots \in [Ram \cup Outside -> Replies]
    BY <1>2 DEF MapleInit
  <1>4. pending_jvs \in JvsCmds \cup {Other}
    BY DEF MapleInit
  <1>5. before \in [slots : [Ram \cup Outside -> Replies], jvs : JvsCmds \cup {Other}]
    BY <1>3, <1>4 DEF MapleInit
  <1>6. cfg \in [sent : JvsCmds \cup {Other, "idle"}, got : Replies]
    BY <1>2 DEF MapleInit
  <1>7. mdst \in BOOLEAN /\ inRam \in BOOLEAN
    BY DEF MapleInit
  <1>. QED
    BY <1>1, <1>3, <1>4, <1>5, <1>6, <1>7, MapleAssumption DEF MapleInit, TypeOK

LEMMA NextTypes == TypeOK /\ WalkInv /\ [MapleNext]_mapleVars => TypeOK'
  <1>. SUFFICES ASSUME TypeOK, WalkInv, [MapleNext]_mapleVars
                PROVE  TypeOK'
    OBVIOUS
  <1>. USE MapleAssumption
  <1>1. CASE Vblank \/ SkipWalk
    BY <1>1 DEF Vblank, SkipWalk, TypeOK, ifaceVars
  <1>2. CASE Engine
    <2>1. list' \in Seq(Frames) /\ Len(list') <= MaxSlots
      <3>1. CASE list' \in Lists
        <4>1. PICK n \in 1 .. MaxSlots : list' \in [1 .. n -> Frames]
          BY <3>1 DEF Lists
        <4>. QED
          BY <4>1
      <3>2. CASE list' = list
        BY <3>2 DEF TypeOK
      <3>. QED
        BY <1>2, <3>1, <3>2 DEF Engine, ifaceVars
    <2>2. before' \in [slots : [Ram \cup Outside -> Replies], jvs : JvsCmds \cup {Other}]
      BY <1>2 DEF Engine, ifaceVars, TypeOK
    <2>3. inRam' \in BOOLEAN /\ mdst' \in BOOLEAN /\ i' \in 0 .. MaxWalk
      <3>1. inRam' \in BOOLEAN
        BY <1>2, Zenon DEF Engine, ifaceVars, TypeOK
      <3>2. mdst' \in BOOLEAN
        BY <1>2, Zenon DEF Engine, ifaceVars, TypeOK
      <3>3. i' = 0 \/ i' = i
        BY <1>2, Zenon DEF Engine
      <3>. QED
        BY <3>1, <3>2, <3>3 DEF TypeOK
    <2>4. pc' \in {"main", "walk"}
      BY <1>2 DEF Engine
    <2>. QED
      BY <1>2, <2>1, <2>2, <2>3, <2>4 DEF Engine, TypeOK
  <1>3. CASE Walk
    <2>1. PICK f \in Entry(i + 1) :
            \/ /\ Dies(f) /\ pending_jvs' = Latch(f) /\ pc' = "dead"
               /\ UNCHANGED <<slots, mdst, i>>
            \/ /\ ~Dies(f) /\ Serve(f) /\ i' = (i + 1) % (MaxWalk + 1)
               /\ mdst' = ~Ends(f) /\ pc' = IF Ends(f) THEN "main" ELSE "walk"
      BY <1>3 DEF Walk
    <2>2. f \in FrameType
      BY <2>1, EntryTyped DEF TypeOK
    <2>3. UNCHANGED <<pending_cfg, cfg, list, inRam, before>>
      BY <1>3 DEF Walk, ifaceVars
    <2>4. CASE Dies(f)
      <3>1. pending_jvs' = Latch(f) /\ pc' = "dead" /\ UNCHANGED <<slots, mdst, i>>
        BY <2>1, <2>4
      <3>2. Latch(f) \in JvsCmds \cup {Other}
        BY <2>2 DEF Latch, FrameType, TypeOK
      <3>. QED
        BY <2>3, <3>1, <3>2 DEF TypeOK
    <2>5. CASE ~Dies(f)
      <3>1. /\ pending_jvs' \in JvsCmds \cup {Other}
            /\ slots' \in [Ram \cup Outside -> Replies]
        BY <2>1, <2>2, <2>5, ServeTypes
      <3>2. mdst' \in BOOLEAN
        BY <2>1, <2>5, Zenon
      <3>3. i' \in 0 .. MaxWalk
        BY <2>1, <2>5 DEF TypeOK
      <3>4. pc' \in {"main", "walk"}
        BY <2>1, <2>5
      <3>. QED
        BY <2>3, <3>1, <3>2, <3>3, <3>4 DEF TypeOK
    <2>. QED
      BY <2>4, <2>5
  <1>4. CASE CfgTx
    <2>1. PICK c \in JvsCmds \cup {Other} : pending_cfg' = c /\ cfg' = [sent |-> c, got |-> None]
      BY <1>4 DEF CfgTx
    <2>2. None \in Replies
      BY DEF Replies
    <2>. QED
      BY <1>4, <2>1, <2>2 DEF CfgTx, TypeOK, ifaceVars
  <1>5. CASE CfgRx
    <2>1. Enumeration(pending_cfg) \in Replies
      <3>1. CASE pending_cfg \in JvsCmds
        BY <3>1 DEF Enumeration, Replies
      <3>2. CASE pending_cfg \notin JvsCmds
        BY <3>2 DEF Enumeration, Replies
      <3>. QED
        BY <3>1, <3>2
    <2>2. cfg' \in [sent : JvsCmds \cup {Other, "idle"}, got : Replies]
      BY <1>5, <2>1 DEF CfgRx, TypeOK
    <2>. QED
      BY <1>5, <2>2 DEF CfgRx, TypeOK, ifaceVars
  <1>6. CASE UNCHANGED mapleVars
    BY <1>6 DEF mapleVars, ifaceVars, TypeOK
  <1>. QED
    BY <1>1, <1>2, <1>3, <1>4, <1>5, <1>6 DEF MapleNext, Interrupt

-----------------------------------------------------------------------------
(* What the MIE would have done, one frame further.                        *)

LEMMA MaxIs ==
  ASSUME NEW S \in SUBSET Nat, NEW n \in S, \A k \in S : k <= n
  PROVE  Max(S) = n
  <1>1. n \in S /\ \A k \in S : n >= k
    OBVIOUS
  <1>2. Max(S) \in S /\ \A k \in S : Max(S) >= k
    BY <1>1, Zenon DEF Max
  <1>3. n \in Nat /\ Max(S) \in Nat
    BY <1>1, <1>2
  <1>4. n >= Max(S) /\ Max(S) >= n
    BY <1>1, <1>2
  <1>. QED
    BY <1>3, <1>4

LEMMA SentNumbers == TypeOK => Sent \subseteq 1 .. Len(list) /\ Len(list) \in Nat
  BY DEF Sent, TypeOK

LEMMA LatchStep ==
  ASSUME TypeOK, NEW n \in Sent
  PROVE  LatchAt(n) =
           IF IsMie(list[n]) /\ list[n].sub \in Transmits \cup {"27"}
             THEN (IF list[n].sub = "27" THEN Other ELSE list[n].jvs)
             ELSE LatchAt(n - 1)
  <1>1. n \in Sent /\ n <= n /\ Sent \subseteq Nat
    BY SentNumbers
  <1>5. \A k \in Sent : k <= n <=> k <= n - 1 \/ k = n
    BY SentNumbers
  <1>2. CASE IsMie(list[n]) /\ list[n].sub \in Transmits \cup {"27"}
    <2>1. n \in Latches(n) /\ Latches(n) \subseteq Nat /\ \A k \in Latches(n) : k <= n
      BY <1>1, <1>2, Zenon DEF Latches
    <2>2. Max(Latches(n)) = n
      BY <2>1, MaxIs
    <2>. QED
      BY <1>2, <2>1, <2>2 DEF LatchAt
  <1>3. CASE ~(IsMie(list[n]) /\ list[n].sub \in Transmits \cup {"27"})
    <2>1. Latches(n) = Latches(n - 1)
      <3>1. ~(n <= n - 1)
        BY SentNumbers
      <3>. QED
        BY <1>3, <1>5, <3>1, Zenon DEF Latches
    <2>. QED
      BY <1>3, <2>1 DEF LatchAt
  <1>. QED
    BY <1>2, <1>3

LEMMA ExpectedStep ==
  ASSUME TypeOK, NEW n \in Sent, NEW a
  PROVE  Expected(n, a) =
           IF list[n].start /\ list[n].recv = a /\ a \in Ram
             THEN AnswerTo(n) ELSE Expected(n - 1, a)
  <1>1. n \in Sent /\ n <= n /\ Sent \subseteq Nat
    BY SentNumbers
  <1>5. \A k \in Sent : k <= n <=> k <= n - 1 \/ k = n
    BY SentNumbers
  <1>2. CASE a \notin Ram
    BY <1>2 DEF Expected
  <1>3. CASE a \in Ram /\ list[n].start /\ list[n].recv = a
    <2>1. n \in SentTo(n, a) /\ SentTo(n, a) \subseteq Nat /\ \A k \in SentTo(n, a) : k <= n
      BY <1>1, <1>3, Zenon DEF SentTo
    <2>2. Max(SentTo(n, a)) = n
      BY <2>1, MaxIs
    <2>. QED
      BY <1>3, <2>1, <2>2 DEF Expected
  <1>4. CASE a \in Ram /\ ~(list[n].start /\ list[n].recv = a)
    <2>1. SentTo(n, a) = SentTo(n - 1, a)
      <3>1. ~(n <= n - 1)
        BY SentNumbers
      <3>. QED
        BY <1>4, <1>5, <3>1, Zenon DEF SentTo
    <2>. QED
      BY <1>4, <2>1 DEF Expected
  <1>. QED
    BY <1>2, <1>3, <1>4

(* Behind the last frame sent nothing more is expected.                    *)
LEMMA ExpectedEnd ==
  ASSUME TypeOK, NEW n \in Sent, list[n].last, NEW a
  PROVE  Expected(Len(list), a) = Expected(n, a)
  <1>1. n \in 1 .. Len(list) /\ Sent \subseteq Nat /\ Len(list) \in Nat
    BY SentNumbers
  <1>2. \A k \in Sent : k <= n /\ k <= Len(list)
    BY <1>1, SentNumbers DEF Sent
  <1>3. SentTo(Len(list), a) = SentTo(n, a)
    BY <1>2 DEF SentTo
  <1>. QED
    BY <1>3 DEF Expected

(* One entry served is one frame answered.                                 *)
LEMMA ServeWalks ==
  ASSUME TypeOK, NEW n \in Sent, Walked(n - 1), Serve(list[n]),
         UNCHANGED <<list, before>>
  PROVE  Walked(n)'
  <1>. DEFINE f == list[n]
  <1>1. f \in FrameType
    BY SentNumbers, MapleAssumption DEF TypeOK
  <1>2. pending_jvs' = LatchAt(n)
    BY LatchStep DEF Walked, Serve, Latch, IsMie, Transmits
  <1>3. AnswerTo(n) = IF f.mie THEN Reply(f.sub, pending_jvs') ELSE Probe
    BY <1>2 DEF AnswerTo
  <1>4. ASSUME NEW a \in Ram \cup Outside
        PROVE  slots'[a] = Expected(n, a)
    <2>1. Expected(n, a) = IF f.start /\ f.recv = a /\ a \in Ram
                             THEN AnswerTo(n) ELSE slots[a]
      BY ExpectedStep DEF Walked
    <2>. HIDE DEF f
    <2>2. slots' = IF ~f.start \/ f.recv \notin Ram THEN slots
                   ELSE [slots EXCEPT ![f.recv] = AnswerTo(n)]
      BY <1>3 DEF Serve, f
    <2>3. slots \in [Ram \cup Outside -> Replies]
      BY DEF TypeOK
    <2>. QED
      BY <1>4, <2>1, <2>2, <2>3
  <1>5. LatchAt(n)' = LatchAt(n)
    BY DEF LatchAt, Latches, Sent, IsMie
  <1>6. \A a : Expected(n, a)' = Expected(n, a)
    BY DEF Expected, SentTo, Sent, AnswerTo, LatchAt, Latches, IsMie
  <1>. QED
    BY <1>2, <1>4, <1>5, <1>6 DEF Walked

(* The bounds and names of the walk's next entry.                          *)
LEMMA NextEntry ==
  ASSUME TypeOK, WalkInv, pc = "walk", NEW f \in Entry(i + 1), NEW n, n = i + 1
  PROVE  /\ n \in 1 .. MaxWalk /\ n - 1 = i
         /\ n <= Len(list) => n \in Sent /\ f = list[n]
         /\ Sound => n <= Len(list)
  <1>1. i \in Nat /\ i < MaxWalk /\ MaxWalk \in Nat /\ Len(list) \in Nat
    BY MapleAssumption DEF TypeOK, WalkInv
  <1>2. DOMAIN list = 1 .. Len(list)
    BY DEF TypeOK
  <1>3. n <= Len(list) => n \in Sent /\ f = list[n]
    <2>. SUFFICES ASSUME n <= Len(list) PROVE n \in Sent /\ f = list[n]
      OBVIOUS
    <2>1. f = list[n]
      BY DEF Entry
    <2>2. \A k \in 1 .. n - 1 : ~list[k].last
      BY <1>1 DEF WalkInv
    <2>. QED
      BY <1>1, <1>2, <2>1, <2>2 DEF Sent
  <1>4. ASSUME Sound PROVE n <= Len(list)
    <2>1. PICK m \in 1 .. Len(list) : list[m].last
      BY <1>2, <1>4 DEF Sound
    <2>2. ~(m <= i)
      BY <1>1, <2>1 DEF WalkInv
    <2>. QED
      BY <1>1, <2>1, <2>2
  <1>. QED
    BY <1>1, <1>3, <1>4

(* The last entry of a sound list completes the answer.                    *)
LEMMA LastEntry ==
  ASSUME TypeOK, WalkInv, pc = "walk", inRam, Sound, NEW f \in Entry(i + 1),
         Serve(f), Ends(f), UNCHANGED <<list, inRam, before>>
  PROVE  Answered'
  <1>1. PICK n : n = i + 1
    OBVIOUS
  <1>2. n \in Sent /\ f = list[n] /\ n \in 1 .. Len(list) /\ n - 1 = i
    BY <1>1, NextEntry
  <1>3. list[n].last
    <2>1. CASE i + 1 = MaxWalk
      <3>1. n = Len(list)
        BY <1>1, <1>2, <2>1, MapleAssumption DEF TypeOK
      <3>2. PICK m \in 1 .. Len(list) : list[m].last
        BY DEF Sound, TypeOK
      <3>3. ~(m <= i)
        BY <1>2, <3>2 DEF WalkInv, TypeOK
      <3>. QED
        BY <1>2, <3>1, <3>2, <3>3 DEF TypeOK
    <2>. QED
      BY <1>2, <2>1 DEF Ends
  <1>4. Walked(n - 1)
    BY <1>2 DEF WalkInv, TypeOK
  <1>5. Walked(n)'
    BY <1>2, <1>4, ServeWalks
  <1>6. \A a : Expected(n, a)' = Expected(n, a) /\ Expected(Len(list), a)' = Expected(Len(list), a)
    BY DEF Expected, SentTo, Sent, AnswerTo, LatchAt, Latches, IsMie
  <1>7. \A a : Expected(Len(list), a) = Expected(n, a)
    BY <1>2, <1>3, ExpectedEnd
  <1>8. \A a \in Ram \cup Outside : slots'[a] = Expected(Len(list), a)'
    BY <1>5, <1>6, <1>7 DEF Walked
  <1>. QED
    BY <1>8 DEF Answered

LEMMA InitWalk == MapleInit => WalkInv
  <1>. SUFFICES ASSUME MapleInit PROVE WalkInv
    OBVIOUS
  <1>1. pc = "main" /\ list = <<>> /\ ~mdst
    BY DEF MapleInit
  <1>. QED
    BY <1>1 DEF WalkInv

LEMMA NextWalk == TypeOK /\ WalkInv /\ [MapleNext]_mapleVars => WalkInv'
  <1>. SUFFICES ASSUME TypeOK, WalkInv, [MapleNext]_mapleVars
                PROVE  WalkInv'
    OBVIOUS
  <1>1. ASSUME UNCHANGED <<list, inRam, before, slots, pending_jvs>>
        PROVE  (Answered' <=> Answered) /\ \A n : (Walked(n)' <=> Walked(n))
    <2>1. \A n, a : Expected(n, a)' = Expected(n, a) /\ LatchAt(n)' = LatchAt(n)
      BY <1>1 DEF Expected, SentTo, Sent, AnswerTo, LatchAt, Latches, IsMie
    <2>2. \A a : Expected(Len(list), a)' = Expected(Len(list), a)
      BY <1>1 DEF Expected, SentTo, Sent, AnswerTo, LatchAt, Latches, IsMie
    <2>3. Sound' <=> Sound
      BY <1>1 DEF Sound
    <2>. QED
      BY <1>1, <2>1, <2>2, <2>3 DEF Answered, Walked
  <1>2. CASE Vblank
    <2>1. Answered' <=> Answered
      BY <1>1, <1>2 DEF Vblank, ifaceVars
    <2>. QED
      BY <1>2, <2>1 DEF Vblank, ifaceVars, WalkInv
  <1>3. CASE CfgTx \/ CfgRx \/ UNCHANGED mapleVars
    <2>1. UNCHANGED <<pc, mdst, i, pending_jvs, slots, list, inRam, before>>
      BY <1>3 DEF CfgTx, CfgRx, mapleVars, ifaceVars
    <2>2. (Answered' <=> Answered) /\ \A n : (Walked(n)' <=> Walked(n))
      BY <1>1, <2>1
    <2>. QED
      BY <2>1, <2>2 DEF WalkInv
  <1>4. CASE Engine
    <2>1. pc = "engine" /\ ~mdst
      BY <1>4 DEF Engine, WalkInv
    <2>2. CASE pc' = "main"
      <3>1. UNCHANGED <<mdst, i, list, inRam, before, slots, pending_jvs>>
        BY <1>4, <2>2 DEF Engine, ifaceVars
      <3>2. Answered' <=> Answered
        BY <1>1, <3>1
      <3>. QED
        BY <2>1, <2>2, <3>1, <3>2 DEF WalkInv
    <2>3. CASE pc' = "walk"
      <3>1. /\ i' = 0 /\ mdst' /\ before' = [slots |-> slots, jvs |-> pending_jvs]
            /\ slots' = slots /\ pending_jvs' = pending_jvs
        BY <1>4, <2>3 DEF Engine
      <3>2. Walked(0)'
        <4>1. \A a : SentTo(0, a)' = {} /\ Latches(0)' = {}
          <5>1. Sent' \subseteq Nat \ {0}
            <6>1. list' \in Seq(Frames)
              BY <1>4, NextTypes, Zenon DEF MapleNext, Interrupt, TypeOK
            <6>. QED
              BY <6>1 DEF Sent
          <5>2. \A k \in Sent' : ~(k <= 0)
            BY <5>1
          <5>. QED
            BY <5>2, Zenon DEF SentTo, Latches
        <4>. QED
          BY <3>1, <4>1 DEF Walked, Expected, LatchAt
      <3>3. \A n : n = 0 => Walked(n)'
        BY <3>2
      <3>. QED
        BY <2>3, <3>1, <3>3, MapleAssumption DEF WalkInv
    <2>. QED
      BY <1>4, <2>1, <2>2, <2>3 DEF Engine
  <1>5. CASE Walk
    <2>1. PICK f \in Entry(i + 1) :
            \/ /\ Dies(f) /\ pending_jvs' = Latch(f) /\ pc' = "dead"
               /\ UNCHANGED <<slots, mdst, i>>
            \/ /\ ~Dies(f) /\ Serve(f) /\ i' = (i + 1) % (MaxWalk + 1)
               /\ mdst' = ~Ends(f) /\ pc' = IF Ends(f) THEN "main" ELSE "walk"
      BY <1>5 DEF Walk
    <2>2. UNCHANGED <<list, inRam, before>> /\ pc = "walk" /\ inRam
      BY <1>5 DEF Walk, ifaceVars
    <2>3. CASE Dies(f)
      BY <2>1, <2>2, <2>3 DEF WalkInv
    <2>4. CASE ~Dies(f) /\ Ends(f)
      <3>1. ~mdst' /\ pc' = "main" /\ Serve(f)
        BY <2>1, <2>4, Zenon
      <3>2. Sound' => Sound
        BY <2>2 DEF Sound
      <3>3. Answered'
        <4>1. CASE Sound
          BY <2>2, <2>4, <3>1, <4>1, LastEntry
        <4>2. CASE ~Sound
          BY <2>2, <3>2, <4>2 DEF Answered
        <4>. QED
          BY <4>1, <4>2
      <3>. QED
        BY <3>1, <3>3 DEF WalkInv
    <2>5. CASE ~Dies(f) /\ ~Ends(f)
      <3>1. mdst' /\ pc' = "walk" /\ Serve(f) /\ i' = (i + 1) % (MaxWalk + 1)
        BY <2>1, <2>5, Zenon
      <3>2. PICK n : n = i + 1
        OBVIOUS
      <3>3. /\ n \in 1 .. MaxWalk /\ n - 1 = i
            /\ n <= Len(list) => n \in Sent /\ f = list[n]
        BY <2>2, <3>2, NextEntry
      <3>4. i' = n /\ n < MaxWalk
        BY <2>5, <3>1, <3>2, <3>3, MapleAssumption DEF Ends
      <3>5. \A k \in 1 .. n : k <= Len(list) => ~list[k].last
        BY <2>2, <2>5, <3>2, <3>3 DEF WalkInv, Ends, TypeOK
      <3>6. n \in 0 .. Len(list) => Walked(n)'
        <4>. SUFFICES ASSUME n \in 0 .. Len(list) PROVE Walked(n)'
          OBVIOUS
        <4>1. n \in Sent /\ f = list[n]
          BY <3>3 DEF TypeOK
        <4>2. Walked(n - 1)
          BY <2>2, <3>3 DEF WalkInv, TypeOK
        <4>. QED
          BY <2>2, <3>1, <4>1, <4>2, ServeWalks
      <3>. QED
        BY <2>2, <3>1, <3>4, <3>5, <3>6 DEF WalkInv
    <2>. QED
      BY <2>3, <2>4, <2>5
  <1>6. CASE SkipWalk
    <2>1. /\ pc = "walk" /\ ~inRam /\ pc' = "main" /\ ~mdst'
          /\ UNCHANGED <<list, inRam, before, slots, pending_jvs>>
      BY <1>6 DEF SkipWalk, ifaceVars
    <2>2. Answered'
      BY <2>1 DEF WalkInv, Answered
    <2>. QED
      BY <2>1, <2>2 DEF WalkInv
  <1>. QED
    BY <1>2, <1>3, <1>4, <1>5, <1>6 DEF MapleNext, Interrupt

-----------------------------------------------------------------------------
(* The theorems.                                                           *)

LEMMA WalkInvariance == MapleSpec => [](TypeOK /\ WalkInv)
  BY InitTypes, InitWalk, NextTypes, NextWalk, PTL DEF MapleSpec

(* What the engine finds when it next looks at its mirror is what the MIE  *)
(* would have left there: every buffer holds the answer to the last frame  *)
(* sent to it, whatever the length of the list (main.c:687-769).           *)
THEOREM AnswersLists == MapleSpec => []ListAnswered
  <1>1. WalkInv => ListAnswered
    BY DEF WalkInv, ListAnswered
  <1>. QED
    BY <1>1, WalkInvariance, PTL

(* The types hold, the engine never finds its bus busy, and only a         *)
(* subcommand without a case, or a list without an end, brings up the      *)
(* death screen (main.c:316, 388-389, 706-709, 769).                       *)
THEOREM NeverStuck == MapleSpec => []MapleInv
  <1>1. TypeOK /\ WalkInv => TypeOK /\ NeverBusy
    BY DEF WalkInv, NeverBusy
  <1>2. MapleInit => NoDeathInPlay
    BY DEF MapleInit, NoDeathInPlay
  <1>3. TypeOK /\ WalkInv /\ NoDeathInPlay /\ [MapleNext]_mapleVars => NoDeathInPlay'
    <2>. SUFFICES ASSUME TypeOK, WalkInv, NoDeathInPlay, [MapleNext]_mapleVars, pc' = "dead"
                  PROVE  NoDeathInPlay'
      BY DEF NoDeathInPlay
    <2>1. CASE UNCHANGED mapleVars
      BY <2>1 DEF mapleVars, ifaceVars, NoDeathInPlay, Sound, Sent, IsMie
    <2>2. CASE Walk
      <3>1. PICK f \in Entry(i + 1) : Dies(f)
        BY <2>2 DEF Walk
      <3>2. pc = "walk" /\ list' = list
        BY <2>2 DEF Walk, ifaceVars
      <3>3. CASE ~Sound
        BY <3>2, <3>3 DEF Sound, NoDeathInPlay
      <3>4. CASE Sound
        <4>1. PICK n : n = i + 1
          OBVIOUS
        <4>2. n \in Sent /\ f = list[n]
          BY <3>2, <3>4, <4>1, NextEntry
        <4>3. n \in Sent' /\ IsMie(list'[n]) /\ list'[n].sub \notin Known
          BY <3>1, <3>2, <4>2 DEF Dies, Sent
        <4>. QED
          BY <4>3 DEF NoDeathInPlay, IsMie
      <3>. QED
        BY <3>3, <3>4
    <2>. QED
      BY <2>1, <2>2
      DEF MapleNext, Interrupt, Vblank, Engine, SkipWalk, CfgTx, CfgRx
  <1>. QED
    BY <1>1, <1>2, <1>3, WalkInvariance, PTL DEF MapleSpec, MapleInv

(* The main thread's enumeration is answered for the command it sent, not  *)
(* for one of the interrupt's lists (main.c:65-67, 858-884).               *)
THEOREM AnswersEnumeration == MapleSpec => []CfgAnswersItsOwn
  <1>1. MapleInit => CfgInv /\ CfgAnswersItsOwn
    BY DEF MapleInit, CfgInv, CfgAnswersItsOwn
  <1>2. TypeOK /\ CfgInv /\ CfgAnswersItsOwn /\ [MapleNext]_mapleVars
          => CfgInv' /\ CfgAnswersItsOwn'
    <2>. SUFFICES ASSUME TypeOK, CfgInv, CfgAnswersItsOwn, [MapleNext]_mapleVars
                  PROVE  CfgInv' /\ CfgAnswersItsOwn'
      OBVIOUS
    <2>1. CASE CfgTx
      BY <2>1 DEF CfgTx, CfgInv, CfgAnswersItsOwn
    <2>2. CASE CfgRx
      <3>1. /\ cfg'.sent = cfg.sent /\ cfg'.got = Enumeration(pending_cfg)
            /\ cfg.sent # "idle" /\ pending_cfg' = pending_cfg
        BY <2>2 DEF CfgRx, TypeOK
      <3>2. pending_cfg = cfg.sent
        BY <3>1 DEF CfgInv
      <3>. QED
        BY <3>1, <3>2 DEF CfgInv, CfgAnswersItsOwn, Enumeration
    <2>3. CASE UNCHANGED <<cfg, pending_cfg>>
      BY <2>3 DEF CfgInv, CfgAnswersItsOwn, Enumeration
    <2>. QED
      BY <2>1, <2>2, <2>3
      DEF MapleNext, Interrupt, Vblank, Engine, Walk, SkipWalk, mapleVars
  <1>. QED
    BY <1>1, <1>2, WalkInvariance, PTL DEF MapleSpec

(* A walk takes one entry at each step and never more than MaxWalk, so the *)
(* interrupt has no endless list to follow (main.c:709).                   *)
THEOREM WalkCountsUp == MapleSpec => WalkAdvances
  <1>. DEFINE Advances ==
         pc = "walk" => pc' \in {"main", "dead"} \/ (pc' = "walk" /\ i' = i + 1 /\ i' < MaxWalk)
  <1>1. ASSUME TypeOK, WalkInv, [MapleNext]_mapleVars PROVE [Advances]_mapleVars
    <2>. SUFFICES ASSUME pc = "walk", MapleNext PROVE Advances
      BY <1>1
    <2>1. CASE Walk
      <3>1. PICK f \in Entry(i + 1) :
              \/ pc' = "dead"
              \/ /\ i' = (i + 1) % (MaxWalk + 1)
                 /\ pc' = IF Ends(f) THEN "main" ELSE "walk"
        BY <2>1 DEF Walk
      <3>2. i \in Nat /\ MaxWalk \in Nat /\ i < MaxWalk
        BY <1>1, MapleAssumption DEF TypeOK, WalkInv
      <3>3. (i + 1) % (MaxWalk + 1) = i + 1
        BY <3>2
      <3>4. CASE Ends(f)
        BY <3>1, <3>4
      <3>5. CASE ~Ends(f)
        BY <3>1, <3>2, <3>3, <3>5 DEF Ends
      <3>. QED
        BY <3>4, <3>5
    <2>2. CASE SkipWalk
      BY <2>2 DEF SkipWalk
    <2>. QED
      BY <2>1, <2>2 DEF MapleNext, Interrupt, Vblank, Engine, CfgTx, CfgRx
  <1>. QED
    BY <1>1, WalkInvariance, PTL DEF MapleSpec, WalkAdvances
=============================================================================
