------------------------------ MODULE PadPoll ------------------------------
(***************************************************************************)
(* The shim's input poll (shims/src/main.c jvs_digital, pad_reboot, and    *)
(* shims/src/maple.c): the game asks for its JVS buttons several times a   *)
(* frame from its vertical blank interrupt; the shim answers from a cache  *)
(* of the two Dreamcast pads, and refreshes it over the Maple bus when     *)
(* TCNT0, a free-running down-counter, says that it is older than          *)
(* pad_thresh.  The pads, their wires and the timer are the environment.   *)
(*                                                                         *)
(* Time is in ticks of TCNT0; a step of the shim takes none, a transaction *)
(* on the bus takes up to MaxTrans of them.                                *)
(***************************************************************************)
EXTENDS Integers

CONSTANTS
  Held,       \* the sets of buttons a pad may be holding
  Period,     \* TCNT0 counts modulo this: 2^32 in the code
  PadThresh,  \* pad_thresh: a cache no older than this is not refreshed
  FrameGap,   \* the longest the game goes without polling
  MaxTrans,   \* the longest a Maple transaction lasts
  MaxMiss,    \* the replies the pad on each port may miss in a row
  Wired,      \* the ports whose pad is plugged in from power-on
  Absent,     \* no pad on the port
  Nothing     \* no condition word yet

Ports    == {0, 1}
Attempts_One == 1
Attempts == 2
Combo    == {"a", "b", "x", "y", "start"}
Buttons  == Combo \cup {"up", "down", "left", "right"}

(* How old the buttons of an answer may be: those of a cached one come     *)
(* from a refresh PadThresh ago at most, those of port A in a fresh one    *)
(* from before the attempts on port B.                                     *)
Stale == IF PadThresh > Attempts * MaxTrans THEN PadThresh ELSE Attempts * MaxTrans

ASSUME PadPollAssumption ==
  /\ Held \subseteq SUBSET Buttons /\ {} \in Held
  /\ PadThresh \in Nat /\ FrameGap \in Nat /\ MaxTrans \in Nat /\ MaxMiss \in [Ports -> Nat]
  /\ Period \in Nat \ {0}
  /\ FrameGap + PadThresh < Period /\ FrameGap + 6 * MaxTrans < Period
  /\ Wired \subseteq Ports
  /\ Absent \notin Held /\ Nothing \notin Held

Headers == {"clear", "info", "data", "none"}

VARIABLES
  in_tcnt,        \* TCNT0 at the last refresh; 1 before the first
  cache,          \* raw_cache_a, raw_cache_b
  bus_init_done,  \* the bus is set up and the pads probed
  rx,             \* MAPLE_RX: the reply's header and its condition word
  txn,            \* the transaction on the bus: command, port, attempt
  pc,             \* "game", "bus", "read" or "reboot"
  answer,         \* the JVS words of the last reply, by player
  tcnt,           \* TCNT0
  pad,            \* what each pad holds, or Absent
  awake,          \* the pads that have heard a device request
  missed,         \* replies a pad has missed in a row
  sent,           \* history: the last condition each pad put on the wire
  sentAge,        \* history: and how long ago, up to Stale + 1
  gap,            \* ticks since the last answer
  spent           \* ticks of the current transaction

shimVars == <<in_tcnt, cache, bus_init_done, txn, pc, answer>>
padVars  == <<pad, awake, missed, sent, sentAge>>
pollVars == <<shimVars, padVars, rx, tcnt, gap, spent>>

TypeOK ==
  /\ in_tcnt \in 0 .. Period - 1 /\ tcnt \in 0 .. Period - 1
  /\ cache \in [Ports -> Held]
  /\ bus_init_done \in BOOLEAN
  /\ rx \in [hdr : Headers, word : Held \cup {Nothing}]
  /\ txn \in [cmd : {"info", "cond"}, port : Ports, attempt : 0 .. Attempts - 1]
  /\ pc \in {"game", "bus", "read", "reboot"}
  /\ answer \in [Ports -> (SUBSET Buttons) \cup {Nothing}]
  /\ pad \in [Ports -> Held \cup {Absent}]
  /\ awake \subseteq Ports
  /\ missed \in [Ports -> Nat] /\ \A p \in Ports : missed[p] <= MaxMiss[p]
  /\ sent \in [Ports -> Held \cup {Nothing}]
  /\ sentAge \in [Ports -> 0 .. Stale + 1]
  /\ gap \in 0 .. FrameGap
  /\ spent \in 0 .. MaxTrans

Elapsed == (in_tcnt - tcnt) % Period

(* dc_to_jvs: the cabinet has no X and no Y.                               *)
ToJvs(b)      == b \ {"x", "y"}
ResetCombo_Any(b) == Combo \cap b # {}
ResetCombo(b) == Combo \subseteq b

PollInit ==
  /\ in_tcnt = 1 % Period /\ tcnt \in 0 .. Period - 1
  /\ cache = [p \in Ports |-> {}]
  /\ bus_init_done = FALSE
  /\ rx = [hdr |-> "clear", word |-> Nothing]
  /\ txn = [cmd |-> "info", port |-> 0, attempt |-> 0]
  /\ pc = "game"
  /\ answer = [p \in Ports |-> Nothing]
  /\ pad \in [Ports -> {{}, Absent}] /\ \A p \in Wired : pad[p] = {}
  /\ awake = {}
  /\ missed = [p \in Ports |-> 0]
  /\ sent = [p \in Ports |-> Nothing]
  /\ sentAge = [p \in Ports |-> Stale + 1]
  /\ gap = 0 /\ spent = 0
-----------------------------------------------------------------------------
(* Variant: the old reply header is left in place.                        *)
StartDma_KeepsHeader(cmd, port, attempt) ==
  /\ txn' = [cmd |-> cmd, port |-> port, attempt |-> attempt]
  /\ rx' = rx
  /\ pc' = "bus"
  /\ spent' = 0

(* The descriptor is written, rx[0] is cleared, and the DMA started.       *)
StartDma(cmd, port, attempt) ==
  /\ txn' = [cmd |-> cmd, port |-> port, attempt |-> attempt]
  /\ rx' = [rx EXCEPT !.hdr = "clear"]
  /\ pc' = "bus"
  /\ spent' = 0

Reply(raw) ==
  /\ answer' = [p \in Ports |-> ToJvs(raw[p])]
  /\ pc' = "game"
  /\ gap' = 0

(* jvs_digital, up to the first transaction.                               *)
Refresh ==
  /\ Elapsed > PadThresh
  /\ in_tcnt' = tcnt
  /\ bus_init_done' = TRUE
  /\ StartDma(IF bus_init_done THEN "cond" ELSE "info", 0, 0)
  /\ UNCHANGED <<cache, answer, gap>>

FromCache ==
  /\ Elapsed <= PadThresh
  /\ Reply(cache)
  /\ UNCHANGED <<in_tcnt, cache, bus_init_done, txn, rx, spent>>

Poll ==
  /\ pc = "game"
  /\ Refresh \/ FromCache
  /\ UNCHANGED <<padVars, tcnt>>

(* probe_devinfo, first on port A, then on port B.                         *)
Probed ==
  /\ txn.cmd = "info"
  /\ IF txn.port = 0 THEN StartDma("info", 1, 0) ELSE StartDma("cond", 0, 0)
  /\ UNCHANGED <<cache, answer, gap>>

(* Variant: only port A can reboot.                                        *)
Refreshed_PortA(raw) ==
  \/ /\ ResetCombo(raw[0])
     /\ pc' = "reboot"
     /\ UNCHANGED <<answer, gap>>
  \/ /\ ~ResetCombo(raw[0])
     /\ Reply(raw)

(* The refresh is complete: reboot or answer.                              *)
Refreshed(raw) ==
  \/ /\ \E p \in Ports : ResetCombo(raw[p])
     /\ pc' = "reboot"
     /\ UNCHANGED <<answer, gap>>
  \/ /\ \A p \in Ports : ~ResetCombo(raw[p])
     /\ Reply(raw)

(* maple_getcond has its word for this port; next is port B or the end.    *)
GetCond(word) ==
  /\ cache' = [cache EXCEPT ![txn.port] = word]
  /\ \/ /\ txn.port = 0
        /\ StartDma("cond", 1, 0)
        /\ UNCHANGED <<answer, gap>>
     \/ /\ txn.port = 1
        /\ Refreshed(cache')
        /\ UNCHANGED <<txn, rx, spent>>

Retry ==
  /\ txn.attempt + 1 < Attempts
  /\ StartDma("cond", txn.port, txn.attempt + 1)
  /\ UNCHANGED <<cache, answer, gap>>

Conditioned ==
  /\ txn.cmd = "cond"
  /\ \/ rx.hdr = "data" /\ GetCond(rx.word)
     \/ rx.hdr # "data" /\ Retry
     \/ rx.hdr # "data" /\ ~(txn.attempt + 1 < Attempts) /\ GetCond({})

Read ==
  /\ pc = "read"
  /\ Probed \/ Conditioned
  /\ UNCHANGED <<in_tcnt, bus_init_done, padVars, tcnt>>
-----------------------------------------------------------------------------
(* The Maple hardware and the pads.  A pad stays silent until it has heard *)
(* a device request; one on the wire misses at most MaxMiss in a row.  A   *)
(* failed transaction leaves the no-response marker, or nothing at all.    *)
CanAnswer(p) == pad[p] # Absent /\ (txn.cmd = "info" \/ p \in awake)

Respond ==
  LET p == txn.port IN
  /\ CanAnswer(p)
  /\ missed' = [missed EXCEPT ![p] = 0]
  /\ IF txn.cmd = "cond"
     THEN /\ rx' = [hdr |-> "data", word |-> pad[p]]
          /\ sent' = [sent EXCEPT ![p] = pad[p]]
          /\ sentAge' = [sentAge EXCEPT ![p] = 0]
     ELSE /\ rx' = [hdr |-> "info", word |-> Nothing]
          /\ UNCHANGED <<sent, sentAge>>

Miss ==
  LET p == txn.port IN
  /\ CanAnswer(p) => missed[p] < MaxMiss[p]
  /\ missed' = IF CanAnswer(p) THEN [missed EXCEPT ![p] = @ + 1] ELSE missed
  /\ rx' \in {rx, [rx EXCEPT !.hdr = "none"]}
  /\ UNCHANGED <<sent, sentAge>>

Transfer ==
  /\ pc = "bus"
  /\ Respond \/ Miss
  /\ awake' = IF txn.cmd = "info" /\ pad[txn.port] # Absent
              THEN awake \cup {txn.port} ELSE awake
  /\ pc' = "read"
  /\ UNCHANGED <<in_tcnt, cache, bus_init_done, txn, answer, pad, tcnt, gap, spent>>

Older(age) == IF age > Stale THEN age ELSE age + 1

Tick ==
  /\ \/ pc = "game" /\ gap < FrameGap /\ gap' = gap + 1 /\ UNCHANGED spent
     \/ pc = "bus" /\ spent < MaxTrans /\ spent' = spent + 1 /\ UNCHANGED gap
  /\ tcnt' = (tcnt - 1) % Period
  /\ sentAge' = [p \in Ports |-> Older(sentAge[p])]
  /\ UNCHANGED <<shimVars, rx, pad, awake, missed, sent>>

Press(p) ==
  /\ pc # "reboot" /\ pad[p] # Absent
  /\ \E w \in Held \ {pad[p]} : pad' = [pad EXCEPT ![p] = w]
  /\ UNCHANGED <<shimVars, awake, missed, sent, sentAge, rx, tcnt, gap, spent>>

Plug(p) ==
  /\ pc # "reboot" /\ p \notin Wired
  /\ pad' = [pad EXCEPT ![p] = IF @ = Absent THEN {} ELSE Absent]
  /\ awake' = awake \ {p}
  /\ missed' = [missed EXCEPT ![p] = 0]
  /\ UNCHANGED <<shimVars, sent, sentAge, rx, tcnt, gap, spent>>

PollNext ==
  \/ Poll \/ Read \/ Transfer \/ Tick
  \/ \E p \in Ports : Press(p) \/ Plug(p)

PollSpec == PollInit /\ [][PollNext]_pollVars
-----------------------------------------------------------------------------
(* What the game is told of player p is released, or what pad p itself put *)
(* on the wire no more than Stale ticks ago: never the other pad's         *)
(* buttons, nor those of an earlier poll left in MAPLE_RX or kept by a     *)
(* counter that wrapped (main.c:176-188, maple.c:82-102).                  *)
Justified(p) ==
  /\ sent[p] # Nothing
  /\ answer[p] = ToJvs(sent[p])
  /\ sentAge[p] <= Stale

ButtonsAreFresh ==
  pc = "game" /\ gap = 0 =>
    \A p \in Ports : answer[p] \in {{}, Nothing} \/ Justified(p)

(* A pad that is on the wire and misses one reply at a time never reads    *)
(* as released: the retry of maple.c:81 is enough for it.                  *)
NoDropout ==
  pc = "game" /\ gap = 0 /\ bus_init_done => \A p \in Wired : Justified(p)

(* The console reboots only for a pad that just reported the whole combo   *)
(* (main.c:182-183, jvs.c:23-26), and the state keeps its types, the       *)
(* number of attempts its bound (maple.c:81).                              *)
RebootMeansCombo ==
  pc = "reboot" =>
    \E p \in Ports : sent[p] # Nothing /\ Combo \subseteq sent[p] /\ sentAge[p] <= Stale

PollInv == TypeOK /\ RebootMeansCombo

(* The interrupt comes every frame and the bus always finishes.            *)
PollFairSpec ==
  PollSpec /\ WF_pollVars(Poll) /\ WF_pollVars(Read) /\ WF_pollVars(Transfer)
           /\ WF_pollVars(Tick)

(* Holding the combo on either pad reboots the console.                    *)
ComboReboots ==
  \A p \in Wired :
    <>[](pad[p] # Absent /\ Combo \subseteq pad[p]) => <>(pc = "reboot")
-----------------------------------------------------------------------------
(* Why: how far the poll has got, and how old what it has gathered is.     *)
Busy == pc \in {"bus", "read"}

(* The transactions that may have gone before this one in a refresh.       *)
Before == IF txn.cmd = "info" THEN txn.port ELSE 2 + 2 * txn.port + txn.attempt

(* TCNT0 never goes all the way round between two looks at it.             *)
TimeInv ==
  /\ Busy => bus_init_done /\ Elapsed <= Before * MaxTrans + spent
  /\ pc = "game" /\ bus_init_done =>
       Elapsed <= PadThresh + gap \/ Elapsed <= 6 * MaxTrans + gap

(* A condition in MAPLE_RX is the answer of the pad that was just asked.   *)
WireInv ==
  /\ pc = "bus" => rx.hdr = "clear"
  /\ Busy /\ txn.cmd = "info" => txn.attempt = 0
  /\ pc = "read" /\ rx.hdr = "data" =>
       /\ txn.cmd = "cond" /\ rx.word \in Held
       /\ rx.word = sent[txn.port] /\ sentAge[txn.port] = 0

(* The cache has what pad p said last.                                     *)
Current(p) == sent[p] # Nothing /\ cache[p] = sent[p]

CacheInv ==
  /\ ~bus_init_done => pc = "game" /\ \A p \in Ports : cache[p] = {}
  /\ pc = "game" /\ bus_init_done =>
       \A p \in Ports : cache[p] = {} \/ (Current(p) /\ sentAge[p] <= Elapsed)
  /\ Busy /\ txn.cmd = "cond" /\ txn.port = 1 =>
       \/ cache[0] = {}
       \/ /\ Current(0) /\ sentAge[0] <= Elapsed
          /\ sentAge[0] <= txn.attempt * MaxTrans + spent

FreshInv == TypeOK /\ TimeInv /\ WireInv /\ CacheInv /\ ButtonsAreFresh /\ RebootMeansCombo

(* Port p has had its device request.                                      *)
Requested(p) ==
  bus_init_done /\ (Busy /\ txn.cmd = "info" => txn.port > p \/ (txn.port = p /\ pc = "read"))

(* A pad that is on the wire is awake once it was asked, misses only the   *)
(* first attempt, and what it said is what the shim holds.                 *)
Answering(p) ==
  /\ pad[p] # Absent
  /\ Requested(p) => p \in awake
  /\ pc = "bus" /\ txn.cmd = "cond" /\ txn.port = p => missed[p] >= txn.attempt
  /\ pc = "read" /\ txn.cmd = "cond" /\ txn.port = p /\ rx.hdr # "data" =>
       missed[p] > txn.attempt
  /\ Busy /\ txn.cmd = "cond" /\ txn.port > p =>
       /\ Current(p) /\ sentAge[p] <= Elapsed
       /\ sentAge[p] <= txn.attempt * MaxTrans + spent
  /\ pc = "game" /\ bus_init_done => Current(p) /\ sentAge[p] <= Elapsed
  /\ pc = "game" /\ gap = 0 /\ bus_init_done => Justified(p)

AnswerInv == \A p \in Wired : Answering(p)

(* What is left of a refresh: two steps for each of its six transactions.  *)
StepsLeft ==
  IF pc = "bus" THEN 2 * (6 - Before) ELSE IF pc = "read" THEN 2 * (6 - Before) - 1 ELSE 0

(* Each of these steps is one step less, and nothing the pads or the clock *)
(* do in between makes it more: a refresh is at most six transactions.     *)
RefreshShrinks ==
  [][/\ Busy => StepsLeft \in 1 .. 12
     /\ Read \/ Transfer => StepsLeft' < StepsLeft
     /\ Busy /\ ~(Read \/ Transfer) => StepsLeft' = StepsLeft]_pollVars

OneMissAtATime == \A p \in Wired : MaxMiss[p] < Attempts
=============================================================================
