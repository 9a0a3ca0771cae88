--------------------------- MODULE PadPollProofs ----------------------------
(***************************************************************************)
(* Theorems about the input poll, for every counter width, threshold, bus  *)
(* delay and button set: an answer is fresh and its own pad's, a reboot    *)
(* was asked for, and a pad that misses one reply at a time never drops    *)
(* out.  They rest on the inductive invariants FreshInv and AnswerInv.     *)
(***************************************************************************)
EXTENDS PadPoll, TLAPS

-----------------------------------------------------------------------------
(* The down-counter.                                                       *)
LEMMA Wraps ==
  ASSUME NEW P \in Nat \ {0}, NEW x \in Int
  PROVE  /\ x \in 0 .. P - 1 => x % P = x
         /\ x \in (-P) .. (-1) => x % P = x + P
         /\ x % P \in 0 .. P - 1
  <1>1. PICK q \in Int, r \in 0 .. P - 1 : x = q * P + r /\ r = x % P
    <2>1. x = (x \div P) * P + (x % P) /\ x \div P \in Int /\ x % P \in 0 .. P - 1
      OBVIOUS
    <2>. QED
      BY <2>1
  <1>2. ASSUME x \in 0 .. P - 1 PROVE r = x
    <2>1. q >= 1 => q * P >= P
      OBVIOUS
    <2>2. q <= -1 => q * P <= -P
      OBVIOUS
    <2>3. q = 0 => q * P = 0
      OBVIOUS
    <2>. QED
      BY <1>1, <1>2, <2>1, <2>2, <2>3
  <1>3. ASSUME x \in (-P) .. (-1) PROVE r = x + P
    <2>1. q >= 0 => q * P >= 0
      OBVIOUS
    <2>2. q <= -2 => q * P <= -2 * P
      OBVIOUS
    <2>3. q = -1 => q * P = -P
      OBVIOUS
    <2>. QED
      BY <1>1, <1>3, <2>1, <2>2, <2>3
  <1>. QED
    BY <1>1, <1>2, <1>3

LEMMA Differ ==
  ASSUME NEW P \in Nat \ {0}, NEW a \in 0 .. P - 1, NEW b \in 0 .. P - 1
  PROVE  (a - b) % P = IF a >= b THEN a - b ELSE a - b + P
  <1>1. PICK x \in Int : x = a - b
    OBVIOUS
  <1>2. /\ a >= b => x \in 0 .. P - 1
        /\ a < b => x \in (-P) .. (-1)
    BY <1>1
  <1>3. /\ x \in 0 .. P - 1 => x % P = x
        /\ x \in (-P) .. (-1) => x % P = x + P
    BY Wraps, Zenon
  <1>4. PICK y : y = x % P
    OBVIOUS
  <1>5. y = IF a >= b THEN x ELSE x + P
    BY <1>2, <1>3, <1>4
  <1>. QED
    BY <1>1, <1>4, <1>5

LEMMA Ticked ==
  ASSUME NEW P \in Nat \ {0}, NEW a \in 0 .. P - 1
  PROVE  (a - 1) % P = IF a = 0 THEN P - 1 ELSE a - 1
  <1>1. PICK x \in Int : x = a - 1
    OBVIOUS
  <1>2. /\ a > 0 => x \in 0 .. P - 1
        /\ a = 0 => x \in (-P) .. (-1)
    BY <1>1
  <1>3. /\ x \in 0 .. P - 1 => x % P = x
        /\ x \in (-P) .. (-1) => x % P = x + P
    BY Wraps, Zenon
  <1>4. PICK y : y = x % P
    OBVIOUS
  <1>5. y = IF a = 0 THEN x + P ELSE x
    BY <1>2, <1>3, <1>4
  <1>. QED
    BY <1>1, <1>4, <1>5

LEMMA Constants ==
  /\ Period \in Nat \ {0} /\ PadThresh \in Nat /\ FrameGap \in Nat /\ MaxTrans \in Nat
  /\ FrameGap + PadThresh < Period /\ FrameGap + 6 * MaxTrans < Period
  /\ Stale \in Nat /\ PadThresh <= Stale /\ 2 * MaxTrans <= Stale
  /\ Attempts = 2
  BY PadPollAssumption DEF Stale, Attempts

LEMMA ElapsedIs ==
  ASSUME TypeOK
  PROVE  Elapsed \in 0 .. Period - 1
  <1>1. in_tcnt - tcnt \in Int
    BY Constants DEF TypeOK
  <1>. QED
    BY <1>1, Constants, Wraps DEF Elapsed

(* One tick further, unless the counter has gone round.                    *)
LEMMA TickElapsed ==
  ASSUME TypeOK, tcnt' = (tcnt - 1) % Period, in_tcnt' = in_tcnt, Elapsed + 1 < Period
  PROVE  Elapsed' = Elapsed + 1
  <1>1. PICK c \in 0 .. Period - 1, t \in 0 .. Period - 1 : c = in_tcnt /\ t = tcnt
    BY DEF TypeOK
  <1>2. Elapsed = IF c >= t THEN c - t ELSE c - t + Period
    <2>1. Elapsed = (c - t) % Period
      BY <1>1 DEF Elapsed
    <2>. QED
      BY <2>1, Constants, Differ
  <1>3. PICK u \in 0 .. Period - 1 : u = tcnt' /\ u = IF t = 0 THEN Period - 1 ELSE t - 1
    <2>1. tcnt' = (t - 1) % Period
      BY <1>1
    <2>2. tcnt' = IF t = 0 THEN Period - 1 ELSE t - 1
      BY <2>1, Constants, Ticked
    <2>. QED
      BY <2>2, Constants
  <1>4. Elapsed' = IF c >= u THEN c - u ELSE c - u + Period
    <2>1. Elapsed' = (c - u) % Period
      BY <1>1, <1>3 DEF Elapsed
    <2>. QED
      BY <2>1, Constants, Differ
  <1>. QED
    BY <1>2, <1>3, <1>4, Constants

-----------------------------------------------------------------------------
(* Types.                                                                  *)
LEMMA Types ==
  ASSUME TypeOK
  PROVE  /\ gap \in Nat /\ gap <= FrameGap /\ spent \in Nat /\ spent <= MaxTrans
         /\ txn.port \in {0, 1} /\ txn.attempt \in {0, 1} /\ txn.cmd \in {"info", "cond"}
         /\ Before \in 0 .. 5
         /\ \A p \in Ports : sentAge[p] \in Nat /\ missed[p] \in Nat /\ cache[p] \in Held
  <1>1. txn.port \in {0, 1} /\ txn.attempt \in {0, 1} /\ txn.cmd \in {"info", "cond"}
    BY DEF TypeOK, Ports, Attempts
  <1>2. Before \in 0 .. 5
    BY <1>1 DEF Before
  <1>3. gap \in Nat /\ gap <= FrameGap /\ spent \in Nat /\ spent <= MaxTrans
    BY Constants DEF TypeOK
  <1>4. \A p \in Ports : sentAge[p] \in Nat /\ missed[p] \in Nat /\ cache[p] \in Held
    BY Constants DEF TypeOK
  <1>. QED
    BY <1>1, <1>2, <1>3, <1>4

LEMMA JvsType == \A b \in Held : ToJvs(b) \in SUBSET Buttons
  BY PadPollAssumption DEF ToJvs

LEMMA StartDmaType ==
  ASSUME TypeOK, NEW c \in {"info", "cond"}, NEW p \in Ports, NEW a \in {0, 1}, StartDma(c, p, a)
  PROVE  /\ txn' \in [cmd : {"info", "cond"}, port : Ports, attempt : 0 .. Attempts - 1]
         /\ rx' \in [hdr : Headers, word : Held \cup {Nothing}] /\ rx'.hdr = "clear"
         /\ txn'.cmd = c /\ txn'.port = p /\ txn'.attempt = a
         /\ pc' = "bus" /\ spent' = 0 /\ spent' \in 0 .. MaxTrans
  <1>1. a \in 0 .. Attempts - 1
    BY DEF Attempts
  <1>2. /\ txn' \in [cmd : {"info", "cond"}, port : Ports, attempt : 0 .. Attempts - 1]
        /\ txn'.cmd = c /\ txn'.port = p /\ txn'.attempt = a
    BY <1>1 DEF StartDma
  <1>3. rx' \in [hdr : Headers, word : Held \cup {Nothing}] /\ rx'.hdr = "clear"
    BY DEF StartDma, TypeOK, Headers
  <1>. QED
    BY <1>2, <1>3, Constants DEF StartDma

LEMMA ReplyType ==
  ASSUME NEW raw \in [Ports -> Held], Reply(raw)
  PROVE  /\ answer' \in [Ports -> (SUBSET Buttons) \cup {Nothing}]
         /\ \A p \in Ports : answer'[p] = ToJvs(raw[p])
         /\ pc' = "game" /\ gap' = 0 /\ gap' \in 0 .. FrameGap
  BY JvsType, Constants DEF Reply

LEMMA PollTypes ==
  ASSUME TypeOK, Poll
  PROVE  TypeOK'
  <1>1. UNCHANGED <<pad, awake, missed, sent, sentAge, tcnt>>
    BY DEF Poll, padVars
  <1>2. CASE Refresh
    <2>1. PICK c \in {"info", "cond"} : StartDma(c, 0, 0)
      BY <1>2 DEF Refresh
    <2>2. /\ txn' \in [cmd : {"info", "cond"}, port : Ports, attempt : 0 .. Attempts - 1]
          /\ rx' \in [hdr : Headers, word : Held \cup {Nothing}]
          /\ pc' = "bus" /\ spent' \in 0 .. MaxTrans
      BY <2>1, StartDmaType DEF Ports
    <2>3. /\ in_tcnt' = tcnt /\ bus_init_done' \in BOOLEAN
          /\ UNCHANGED <<cache, answer, gap>>
      BY <1>2, Zenon DEF Refresh
    <2>. QED
      BY <1>1, <2>2, <2>3 DEF TypeOK
  <1>3. CASE FromCache
    <2>1. cache \in [Ports -> Held] /\ Reply(cache)
          /\ UNCHANGED <<in_tcnt, cache, bus_init_done, txn, rx, spent>>
      BY <1>3 DEF FromCache, TypeOK
    <2>2. /\ answer' \in [Ports -> (SUBSET Buttons) \cup {Nothing}]
          /\ pc' = "game" /\ gap' \in 0 .. FrameGap
      BY <2>1, ReplyType DEF Reply
    <2>. QED
      BY <1>1, <2>1, <2>2 DEF TypeOK
  <1>. QED
    BY <1>2, <1>3 DEF Poll

LEMMA GetCondTypes ==
  ASSUME TypeOK, NEW w \in Held, GetCond(w), txn.cmd = "cond",
         UNCHANGED <<in_tcnt, bus_init_done, padVars, tcnt>>
  PROVE  TypeOK'
  <1>1. cache' \in [Ports -> Held]
    BY DEF GetCond, TypeOK
  <1>2. CASE txn.port = 0 /\ StartDma("cond", 1, 0) /\ UNCHANGED <<answer, gap>>
    <2>1. /\ txn' \in [cmd : {"info", "cond"}, port : Ports, attempt : 0 .. Attempts - 1]
          /\ rx' \in [hdr : Headers, word : Held \cup {Nothing}]
          /\ pc' = "bus" /\ spent' \in 0 .. MaxTrans
      BY <1>2, StartDmaType DEF Ports
    <2>. QED
      BY <1>1, <1>2, <2>1 DEF TypeOK, padVars
  <1>3. CASE Refreshed(cache') /\ UNCHANGED <<txn, rx, spent>>
    <2>1. CASE pc' = "reboot" /\ UNCHANGED <<answer, gap>>
      BY <1>1, <1>3, <2>1 DEF TypeOK, padVars
    <2>2. CASE Reply(cache')
      <3>1. PICK raw \in [Ports -> Held] : raw = cache'
        BY <1>1
      <3>2. /\ answer' \in [Ports -> (SUBSET Buttons) \cup {Nothing}]
            /\ pc' = "game" /\ gap' \in 0 .. FrameGap
        BY <2>2, <3>1, ReplyType
      <3>. QED
        BY <1>1, <1>3, <3>2 DEF TypeOK, padVars
    <2>. QED
      BY <1>3, <2>1, <2>2 DEF Refreshed
  <1>. QED
    BY <1>2, <1>3 DEF GetCond

LEMMA ReadTypes ==
  ASSUME TypeOK, WireInv, Read
  PROVE  TypeOK'
  <1>1. UNCHANGED <<in_tcnt, bus_init_done, padVars, tcnt>> /\ pc = "read"
    BY DEF Read
  <1>2. ASSUME NEW c \in {"info", "cond"}, NEW p \in Ports, NEW a \in {0, 1}, StartDma(c, p, a),
               UNCHANGED <<cache, answer, gap>>
        PROVE  TypeOK'
    <2>1. /\ txn' \in [cmd : {"info", "cond"}, port : Ports, attempt : 0 .. Attempts - 1]
          /\ rx' \in [hdr : Headers, word : Held \cup {Nothing}]
          /\ pc' = "bus" /\ spent' \in 0 .. MaxTrans
      BY <1>2, StartDmaType
    <2>. QED
      BY <1>1, <1>2, <2>1 DEF TypeOK, padVars
  <1>3. CASE Probed
    <2>1. StartDma("info", 1, 0) \/ StartDma("cond", 0, 0)
      BY <1>3 DEF Probed
    <2>. QED
      BY <1>2, <1>3, <2>1 DEF Probed, Ports
  <1>4. CASE Conditioned
    <2>1. CASE rx.hdr = "data" /\ GetCond(rx.word)
      <3>1. PICK w \in Held : w = rx.word
        BY <1>1, <2>1 DEF WireInv
      <3>. QED
        BY <1>1, <1>4, <2>1, <3>1, GetCondTypes DEF Conditioned
    <2>2. CASE Retry
      <3>1. txn.port \in Ports /\ txn.attempt + 1 \in {0, 1}
        BY <2>2, Types DEF Retry, Attempts, Ports
      <3>2. PICK p \in Ports, a \in {0, 1} : StartDma("cond", p, a)
        BY <2>2, <3>1 DEF Retry
      <3>. QED
        BY <1>2, <2>2, <3>2 DEF Retry
    <2>3. CASE GetCond({})
      BY <1>1, <1>4, <2>3, GetCondTypes, PadPollAssumption DEF Conditioned
    <2>. QED
      BY <1>4, <2>1, <2>2, <2>3 DEF Conditioned
  <1>. QED
    BY <1>3, <1>4 DEF Read

LEMMA TransferTypes ==
  ASSUME TypeOK, Transfer
  PROVE  TypeOK'
  <1>1. /\ UNCHANGED <<in_tcnt, cache, bus_init_done, txn, answer, pad, tcnt, gap, spent>>
        /\ pc' = "read" /\ txn.port \in Ports
    BY Types DEF Transfer, Ports
  <1>2. awake' \subseteq Ports
    BY <1>1 DEF Transfer, TypeOK
  <1>3. CASE Respond
    <2>1. pad[txn.port] \in Held
      BY <1>1, <1>3 DEF Respond, CanAnswer, TypeOK
    <2>2. rx' \in [hdr : Headers, word : Held \cup {Nothing}]
      BY <1>3, <2>1 DEF Respond, Headers
    <2>3. sent' \in [Ports -> Held \cup {Nothing}] /\ sentAge' \in [Ports -> 0 .. Stale + 1]
      BY <1>1, <1>3, <2>1, Constants DEF Respond, TypeOK
    <2>4. missed' \in [Ports -> Nat] /\ \A p \in Ports : missed'[p] <= MaxMiss[p]
      <3>1. missed' = [missed EXCEPT ![txn.port] = 0]
        BY <1>3 DEF Respond
      <3>2. missed \in [Ports -> Nat] /\ \A p \in Ports : missed[p] <= MaxMiss[p] /\ 0 <= MaxMiss[p]
        BY PadPollAssumption DEF TypeOK
      <3>. QED
        BY <1>1, <3>1, <3>2
    <2>. QED
      BY <1>1, <1>2, <2>2, <2>3, <2>4 DEF TypeOK
  <1>4. CASE Miss
    <2>1. rx' \in [hdr : Headers, word : Held \cup {Nothing}]
      BY <1>4 DEF Miss, Headers, TypeOK
    <2>2. missed' \in [Ports -> Nat] /\ \A p \in Ports : missed'[p] <= MaxMiss[p]
      BY <1>1, <1>4, PadPollAssumption DEF Miss, TypeOK
    <2>. QED
      BY <1>1, <1>2, <1>4, <2>1, <2>2 DEF TypeOK, Miss
  <1>. QED
    BY <1>3, <1>4 DEF Transfer

LEMMA TickTypes ==
  ASSUME TypeOK, Tick
  PROVE  TypeOK'
  <1>1. gap' \in 0 .. FrameGap /\ spent' \in 0 .. MaxTrans
    BY Constants DEF Tick, TypeOK
  <1>2. tcnt' \in 0 .. Period - 1
    <2>1. tcnt - 1 \in Int /\ tcnt' = (tcnt - 1) % Period
      BY Constants DEF Tick, TypeOK
    <2>. QED
      BY <2>1, Wraps, Constants
  <1>3. sentAge' \in [Ports -> 0 .. Stale + 1]
    BY Constants DEF Tick, TypeOK, Older
  <1>4. UNCHANGED <<in_tcnt, cache, bus_init_done, txn, pc, answer, rx, pad, awake, missed, sent>>
    BY DEF Tick, shimVars
  <1>. QED
    BY <1>1, <1>2, <1>3, <1>4 DEF TypeOK

LEMMA PadTypes ==
  ASSUME TypeOK, NEW p \in Ports, Press(p) \/ Plug(p)
  PROVE  TypeOK'
  <1>1. /\ UNCHANGED <<in_tcnt, cache, bus_init_done, txn, pc, answer, sent, sentAge, rx, tcnt, gap, spent>>
        /\ awake' \subseteq Ports
    BY DEF Press, Plug, shimVars, TypeOK
  <1>2. pad' \in [Ports -> Held \cup {Absent}]
    <2>1. CASE Press(p)
      <3>1. PICK w \in Held : pad' = [pad EXCEPT ![p] = w]
        BY <2>1 DEF Press
      <3>. QED
        BY <3>1 DEF TypeOK
    <2>2. CASE Plug(p)
      <3>1. PICK w \in Held \cup {Absent} : pad' = [pad EXCEPT ![p] = w]
        BY <2>2, PadPollAssumption DEF Plug
      <3>. QED
        BY <3>1 DEF TypeOK
    <2>. QED
      BY <2>1, <2>2
  <1>3. missed' \in [Ports -> Nat] /\ \A q \in Ports : missed'[q] <= MaxMiss[q]
    BY PadPollAssumption DEF Press, Plug, TypeOK
  <1>. QED
    BY <1>1, <1>2, <1>3 DEF TypeOK

-----------------------------------------------------------------------------
(* Time and freshness.                                                     *)
LEMMA Transactions ==
  /\ \A a \in 0 .. 5 : a * MaxTrans \in Nat /\ a * MaxTrans + MaxTrans <= 6 * MaxTrans
  /\ \A a, b \in 0 .. 5 : a < b => a * MaxTrans + MaxTrans <= b * MaxTrans
  <1>1. PICK M \in Nat : M = MaxTrans
    BY Constants
  <1>2. /\ 0 * M = 0 /\ 1 * M = M /\ 2 * M = M + M /\ 3 * M = M + M + M
        /\ 4 * M = M + M + M + M /\ 5 * M = M + M + M + M + M
        /\ 6 * M = M + M + M + M + M + M
    OBVIOUS
  <1>3. \A a \in 0 .. 5 : a = 0 \/ a = 1 \/ a = 2 \/ a = 3 \/ a = 4 \/ a = 5
    OBVIOUS
  <1>4. \A a \in 0 .. 5 : a * M \in Nat /\ a * M + M <= 6 * M
    BY <1>2, <1>3
  <1>5. \A a, b \in 0 .. 5 : a < b => a * M + M <= b * M
    BY <1>2, <1>3
  <1>. QED
    BY <1>1, <1>4, <1>5

(* The next transaction of a refresh.                                      *)
LEMMA NextTxn ==
  ASSUME TypeOK, TimeInv, pc = "read", UNCHANGED <<in_tcnt, tcnt, bus_init_done>>,
         NEW c \in {"info", "cond"}, NEW p \in Ports, NEW a \in {0, 1}, StartDma(c, p, a),
         Before < Before', c = "info" => a = 0
  PROVE  TimeInv' /\ WireInv'
  <1>1. Elapsed' = Elapsed /\ Elapsed \in Nat
    BY ElapsedIs, Constants DEF Elapsed
  <1>2. /\ pc' = "bus" /\ spent' = 0 /\ rx'.hdr = "clear"
        /\ txn'.cmd = c /\ txn'.port = p /\ txn'.attempt = a
    BY StartDmaType
  <1>3. Before' \in 0 .. 5 /\ Before \in 0 .. 5
    BY <1>2, Types DEF Before, Ports
  <1>4. Elapsed <= Before * MaxTrans + spent /\ spent <= MaxTrans /\ spent \in Nat /\ bus_init_done
    BY Types DEF TimeInv, Busy
  <1>5. Before * MaxTrans + MaxTrans <= Before' * MaxTrans
        /\ Before * MaxTrans \in Nat /\ Before' * MaxTrans \in Nat
    BY <1>3, Transactions
  <1>6. PICK m \in Nat, n \in Nat : m = Before * MaxTrans /\ n = Before' * MaxTrans
    BY <1>5
  <1>7. Elapsed' <= n + spent'
    BY <1>1, <1>2, <1>4, <1>5, <1>6, Constants
  <1>8. TimeInv'
    BY <1>2, <1>4, <1>6, <1>7 DEF TimeInv, Busy
  <1>9. WireInv'
    BY <1>2 DEF WireInv, Busy
  <1>. QED
    BY <1>8, <1>9

LEMMA NoButtons == ToJvs({}) = {} /\ {} \in Held
  BY PadPollAssumption DEF ToJvs

LEMMA PollFresh ==
  ASSUME FreshInv, Poll
  PROVE  TimeInv' /\ WireInv' /\ CacheInv' /\ ButtonsAreFresh' /\ RebootMeansCombo'
  <1>1. TypeOK /\ UNCHANGED <<pad, awake, missed, sent, sentAge, tcnt>> /\ pc = "game"
    BY DEF FreshInv, Poll, padVars
  <1>2. CASE Refresh
    <2>1. in_tcnt' = tcnt /\ bus_init_done' = TRUE
      BY <1>2 DEF Refresh
    <2>2. PICK c \in {"info", "cond"} : StartDma(c, 0, 0)
      BY <1>2 DEF Refresh
    <2>3. /\ pc' = "bus" /\ spent' = 0 /\ rx'.hdr = "clear"
          /\ txn'.cmd = c /\ txn'.port = 0 /\ txn'.attempt = 0
      BY <1>1, <2>2, StartDmaType DEF Ports
    <2>4. Elapsed' = 0
      <3>1. tcnt - tcnt = 0 /\ 0 % Period = 0
        <4>1. 0 \in 0 .. Period - 1
          BY Constants
        <4>. QED
          BY <1>1, <4>1, Constants, Wraps DEF TypeOK
      <3>. QED
        BY <1>1, <2>1, <3>1 DEF Elapsed
    <2>5. Before' \in 0 .. 5
      BY <2>3 DEF Before
    <2>6. Before' * MaxTrans \in Nat
      BY <2>5, Transactions
    <2>7. TimeInv'
      <3>1. PICK n \in Nat : n = Before' * MaxTrans
        BY <2>6
      <3>2. Elapsed' <= n + spent'
        BY <2>3, <2>4
      <3>. QED
        BY <2>1, <2>3, <3>1, <3>2 DEF TimeInv, Busy
    <2>8. WireInv' /\ CacheInv' /\ ButtonsAreFresh' /\ RebootMeansCombo'
      BY <2>1, <2>3 DEF WireInv, CacheInv, ButtonsAreFresh, RebootMeansCombo, Busy
    <2>. QED
      BY <2>7, <2>8
  <1>3. CASE FromCache
    <2>1. /\ Reply(cache) /\ Elapsed <= PadThresh
          /\ UNCHANGED <<in_tcnt, cache, bus_init_done, txn, rx, spent>>
      BY <1>3 DEF FromCache
    <2>2. /\ \A p \in Ports : answer'[p] = ToJvs(cache[p])
          /\ pc' = "game" /\ gap' = 0
      <3>1. PICK raw \in [Ports -> Held] : raw = cache
        BY <1>1 DEF TypeOK
      <3>. QED
        BY <2>1, <3>1, ReplyType
    <2>3. Elapsed' = Elapsed /\ Elapsed \in Nat
      BY <1>1, <2>1, ElapsedIs, Constants DEF Elapsed
    <2>4. TimeInv'
      BY <2>1, <2>2, <2>3, Constants DEF TimeInv, Busy
    <2>5. WireInv' /\ RebootMeansCombo'
      BY <2>2 DEF WireInv, RebootMeansCombo, Busy
    <2>6. CacheInv'
      BY <1>1, <2>1, <2>2, <2>3 DEF FreshInv, CacheInv, Current, Busy
    <2>7. ASSUME NEW p \in Ports
          PROVE  answer'[p] \in {{}, Nothing} \/ Justified(p)'
      <3>1. cache[p] = {} \/ (Current(p) /\ sentAge[p] <= Elapsed)
        BY <1>1 DEF FreshInv, CacheInv
      <3>2. CASE cache[p] = {}
        BY <2>2, <3>2, NoButtons
      <3>3. CASE Current(p) /\ sentAge[p] <= Elapsed
        <4>1. sentAge[p] <= Stale
          BY <1>1, <2>1, <2>3, <3>3, Types, Constants
        <4>. QED
          BY <1>1, <2>2, <3>3, <4>1 DEF Justified, Current
      <3>. QED
        BY <3>1, <3>2, <3>3
    <2>. QED
      BY <2>4, <2>5, <2>6, <2>7 DEF ButtonsAreFresh
  <1>. QED
    BY <1>2, <1>3 DEF Poll

(* A port's word has come: what its pad just sent, or nothing.             *)
LEMMA GetCondFresh ==
  ASSUME FreshInv, pc = "read", txn.cmd = "cond", NEW w \in Held, GetCond(w),
         w = {} \/ (w = sent[txn.port] /\ sentAge[txn.port] = 0),
         UNCHANGED <<in_tcnt, bus_init_done, padVars, tcnt>>
  PROVE  TimeInv' /\ WireInv' /\ CacheInv' /\ ButtonsAreFresh' /\ RebootMeansCombo'
  <1>1. TypeOK /\ TimeInv /\ UNCHANGED <<sent, sentAge>>
    BY DEF FreshInv, padVars
  <1>2. Elapsed' = Elapsed /\ Elapsed \in Nat
    BY <1>1, ElapsedIs, Constants DEF Elapsed
  <1>3. /\ bus_init_done /\ bus_init_done' = bus_init_done
        /\ Elapsed <= Before * MaxTrans + spent
        /\ spent \in Nat /\ spent <= MaxTrans
    BY <1>1, Types DEF TimeInv, Busy
  <1>4. cache' = [cache EXCEPT ![txn.port] = w] /\ cache \in [Ports -> Held] /\ txn.port \in Ports
    BY <1>1, Types DEF GetCond, TypeOK, Ports
  <1>t. PICK t \in Ports : t = txn.port
    BY <1>4
  <1>5. cache'[t] = w /\ (w = {} \/ (Current(t)' /\ sentAge'[t] = 0))
    <2>1. cache'[t] = w
      BY <1>4, <1>t
    <2>2. w # Nothing
      BY PadPollAssumption
    <2>. QED
      BY <1>1, <1>t, <2>1, <2>2 DEF Current
  <1>6. CASE txn.port = 0
    <2>1. StartDma("cond", 1, 0)
      BY <1>6 DEF GetCond
    <2>2. /\ pc' = "bus" /\ spent' = 0 /\ rx'.hdr = "clear"
          /\ txn'.cmd = "cond" /\ txn'.port = 1 /\ txn'.attempt = 0
      BY <1>1, <2>1, StartDmaType DEF Ports
    <2>3. Before < Before'
      BY <1>1, <1>6, <2>2, Types DEF Before
    <2>4. TimeInv' /\ WireInv'
      BY <1>1, <2>1, <2>3, NextTxn DEF Ports
    <2>5. CacheInv'
      <3>1. cache'[0] = w
        BY <1>4, <1>6
      <3>2. 0 * MaxTrans = 0
        BY Constants
      <3>3. cache'[0] = {} \/ (Current(0)' /\ sentAge'[0] <= Elapsed'
                               /\ sentAge'[0] <= txn'.attempt * MaxTrans + spent')
        <4>1. t = 0 /\ txn'.attempt * MaxTrans + spent' = 0
          BY <1>6, <1>t, <2>2, <3>2
        <4>. QED
          BY <1>2, <1>5, <3>1, <4>1
      <3>. QED
        BY <1>3, <2>2, <3>3 DEF CacheInv, Busy
    <2>6. ButtonsAreFresh' /\ RebootMeansCombo'
      BY <2>2 DEF ButtonsAreFresh, RebootMeansCombo
    <2>. QED
      BY <2>4, <2>5, <2>6
  <1>7. CASE txn.port = 1
    <2>1. Refreshed(cache') /\ UNCHANGED <<txn, rx, spent>>
      BY <1>7 DEF GetCond
    <2>2. cache'[1] = w /\ cache'[0] = cache[0] /\ cache' \in [Ports -> Held]
      BY <1>4, <1>7 DEF Ports
    <2>3. cache[0] = {} \/ (/\ Current(0) /\ sentAge[0] <= Elapsed
                           /\ sentAge[0] <= txn.attempt * MaxTrans + spent)
      BY <1>7 DEF FreshInv, CacheInv, Busy
    <2>4. txn.attempt * MaxTrans + spent <= Stale /\ sentAge[0] \in Nat
      <3>1. txn.attempt * MaxTrans <= MaxTrans /\ txn.attempt * MaxTrans \in Nat
        <4>1. 0 * MaxTrans = 0 /\ 1 * MaxTrans = MaxTrans
          BY Constants
        <4>2. txn.attempt = 0 \/ txn.attempt = 1
          BY <1>1, Types
        <4>. QED
          BY <4>1, <4>2, Constants
      <3>2. sentAge[0] \in Nat
        BY <1>1, Types DEF Ports
      <3>3. PICK m \in Nat : m = txn.attempt * MaxTrans
        BY <3>1
      <3>4. m + spent <= Stale
        BY <1>3, <3>1, <3>3, Constants
      <3>. QED
        BY <3>2, <3>3, <3>4
    <2>5. ASSUME NEW p \in Ports
          PROVE  cache'[p] = {} \/ (Current(p)' /\ sentAge'[p] <= Elapsed' /\ sentAge'[p] <= Stale)
      <3>1. CASE p = 1
        <4>1. t = 1 /\ 0 <= Stale /\ 0 <= Elapsed'
          BY <1>2, <1>7, <1>t, Constants
        <4>. QED
          BY <1>5, <2>2, <3>1, <4>1
      <3>2. CASE p = 0
        <4>1. PICK m \in Int : m = txn.attempt * MaxTrans + spent
          BY <1>1, <1>3, Types, Constants
        <4>2. Current(0) => Current(0)'
          BY <1>1, <2>2 DEF Current
        <4>3. sentAge[0] <= m /\ m <= Stale /\ sentAge[0] \in Nat => sentAge[0] <= Stale
          BY <4>1, Constants
        <4>. QED
          BY <1>1, <1>2, <2>2, <2>3, <2>4, <3>2, <4>1, <4>2, <4>3
      <3>. QED
        BY <3>1, <3>2 DEF Ports
    <2>6. CASE \E p \in Ports : ResetCombo(cache'[p])
      <3>1. pc' = "reboot"
        BY <2>1, <2>6 DEF Refreshed
      <3>2. RebootMeansCombo'
        <4>1. PICK p \in Ports : Combo \subseteq cache'[p]
          BY <2>6 DEF ResetCombo
        <4>2. cache'[p] # {}
          BY <4>1 DEF Combo
        <4>. QED
          BY <2>5, <4>1, <4>2 DEF RebootMeansCombo, Current
      <3>. QED
        BY <1>3, <3>1, <3>2 DEF TimeInv, WireInv, CacheInv, ButtonsAreFresh, Busy
    <2>7. CASE Reply(cache')
      <3>1. PICK raw \in [Ports -> Held] : raw = cache'
        BY <2>2
      <3>2. /\ \A p \in Ports : answer'[p] = ToJvs(cache'[p])
            /\ pc' = "game" /\ gap' = 0
        BY <2>7, <3>1, ReplyType
      <3>3. TimeInv'
        <4>1. Before * MaxTrans + MaxTrans <= 6 * MaxTrans /\ Before * MaxTrans \in Nat
          BY <1>1, Types, Transactions
        <4>2. PICK m \in Nat : m = Before * MaxTrans
          BY <4>1
        <4>3. Elapsed' <= 6 * MaxTrans + gap'
          BY <1>2, <1>3, <3>2, <4>1, <4>2, Constants
        <4>. QED
          BY <3>2, <4>3 DEF TimeInv, Busy
      <3>4. WireInv' /\ RebootMeansCombo'
        BY <3>2 DEF WireInv, RebootMeansCombo, Busy
      <3>5. CacheInv'
        BY <1>3, <2>5, <3>2 DEF CacheInv, Busy
      <3>6. ASSUME NEW p \in Ports
            PROVE  answer'[p] \in {{}, Nothing} \/ Justified(p)'
        BY <2>5, <3>2, NoButtons DEF Justified, Current
      <3>. QED
        BY <3>3, <3>4, <3>5, <3>6 DEF ButtonsAreFresh
    <2>. QED
      BY <2>1, <2>6, <2>7 DEF Refreshed
  <1>. QED
    BY <1>1, <1>6, <1>7, Types

LEMMA ReadFresh ==
  ASSUME FreshInv, Read
  PROVE  TimeInv' /\ WireInv' /\ CacheInv' /\ ButtonsAreFresh' /\ RebootMeansCombo'
  <1>1. /\ UNCHANGED <<in_tcnt, bus_init_done, padVars, tcnt>> /\ pc = "read"
        /\ TypeOK /\ TimeInv /\ WireInv /\ CacheInv /\ bus_init_done
    BY DEF Read, FreshInv, TimeInv, Busy
  <1>2. UNCHANGED <<sent, sentAge>>
    BY <1>1 DEF padVars
  <1>3. CASE Probed
    <2>1. PICK c \in {"info", "cond"}, p \in Ports :
            /\ StartDma(c, p, 0) /\ (c = "cond" => p = 0)
            /\ Before < (IF c = "info" THEN p ELSE 2 + 2 * p)
      BY <1>1, <1>3, Types DEF Probed, Before, Ports
    <2>2. /\ pc' = "bus" /\ spent' = 0 /\ rx'.hdr = "clear"
          /\ txn'.cmd = c /\ txn'.port = p /\ txn'.attempt = 0
      BY <1>1, <2>1, StartDmaType
    <2>3. Before' = (IF c = "info" THEN p ELSE 2 + 2 * p)
      BY <2>2 DEF Before, Ports
    <2>4. TimeInv' /\ WireInv'
      BY <1>1, <2>1, <2>3, NextTxn
    <2>5. CacheInv' /\ ButtonsAreFresh' /\ RebootMeansCombo'
      BY <1>1, <2>1, <2>2 DEF CacheInv, ButtonsAreFresh, RebootMeansCombo, Busy
    <2>. QED
      BY <2>4, <2>5
  <1>4. CASE Conditioned
    <2>1. CASE rx.hdr = "data" /\ GetCond(rx.word)
      <3>1. PICK w \in Held : w = rx.word /\ w = sent[txn.port] /\ sentAge[txn.port] = 0
        BY <1>1, <2>1 DEF WireInv
      <3>. QED
        BY <1>1, <1>4, <2>1, <3>1, GetCondFresh DEF Conditioned
    <2>2. CASE Retry
      <3>1. PICK p \in Ports : p = txn.port
        BY <1>1, Types DEF Ports
      <3>2. txn.attempt = 0 /\ StartDma("cond", p, 1) /\ cache' = cache /\ txn.cmd = "cond"
        <4>1. txn.attempt = 0 /\ txn.attempt + 1 = 1
          BY <1>1, <2>2, Types DEF Retry, Attempts
        <4>. QED
          BY <1>4, <2>2, <3>1, <4>1 DEF Retry, Conditioned
      <3>3. /\ pc' = "bus" /\ spent' = 0 /\ rx'.hdr = "clear"
            /\ txn'.cmd = "cond" /\ txn'.port = p /\ txn'.attempt = 1
        BY <1>1, <3>2, StartDmaType
      <3>4. Before < Before'
        BY <3>1, <3>2, <3>3 DEF Before, Ports
      <3>5. TimeInv' /\ WireInv'
        BY <1>1, <3>2, <3>4, NextTxn
      <3>6. CacheInv'
        <4>1. 0 * MaxTrans = 0 /\ 1 * MaxTrans = MaxTrans
          BY Constants
        <4>2. spent <= MaxTrans /\ spent \in Nat /\ sentAge[0] \in Nat
          BY <1>1, Types DEF Ports
        <4>3. Elapsed' = Elapsed
          BY <1>1 DEF Elapsed
        <4>4. p = 1 => cache[0] = {} \/ (Current(0) /\ sentAge[0] <= Elapsed
                                         /\ sentAge[0] <= 0 * MaxTrans + spent)
          BY <1>1, <3>1, <3>2 DEF CacheInv, Busy
        <4>5. p = 1 => cache'[0] = {} \/ (Current(0)' /\ sentAge'[0] <= Elapsed'
                                          /\ sentAge'[0] <= 1 * MaxTrans + spent')
          BY <1>2, <3>2, <3>3, <4>1, <4>2, <4>3, <4>4, Constants DEF Current
        <4>. QED
          BY <1>1, <3>3, <4>5 DEF CacheInv, Busy
      <3>7. ButtonsAreFresh' /\ RebootMeansCombo'
        BY <3>3 DEF ButtonsAreFresh, RebootMeansCombo
      <3>. QED
        BY <3>5, <3>6, <3>7
    <2>3. CASE GetCond({})
      <3>1. PICK w \in Held : w = {}
        BY NoButtons
      <3>. QED
        BY <1>1, <1>4, <2>3, <3>1, GetCondFresh DEF Conditioned
    <2>. QED
      BY <1>4, <2>1, <2>2, <2>3 DEF Conditioned
  <1>. QED
    BY <1>3, <1>4 DEF Read

LEMMA TransferFresh ==
  ASSUME FreshInv, Transfer
  PROVE  TimeInv' /\ WireInv' /\ CacheInv' /\ ButtonsAreFresh' /\ RebootMeansCombo'
  <1>1. /\ UNCHANGED <<in_tcnt, cache, bus_init_done, txn, answer, pad, tcnt, gap, spent>>
        /\ pc = "bus" /\ pc' = "read" /\ TypeOK /\ TimeInv /\ WireInv /\ CacheInv
    BY DEF Transfer, FreshInv
  <1>2. Elapsed' = Elapsed /\ Before' = Before /\ bus_init_done
    BY <1>1 DEF Elapsed, Before, TimeInv, Busy
  <1>3. TimeInv'
    BY <1>1, <1>2 DEF TimeInv, Busy
  <1>4. PICK t \in Ports : t = txn.port
    BY <1>1, Types DEF Ports
  <1>5. /\ WireInv'
        /\ txn.cmd = "cond" /\ t = 1 => sent'[0] = sent[0] /\ sentAge'[0] = sentAge[0]
    <2>1. CASE Respond /\ txn.cmd = "cond"
      <3>1. pad[t] \in Held
        BY <1>1, <1>4, <2>1 DEF Respond, CanAnswer, TypeOK
      <3>2. rx'.word = pad[t] /\ sent' = [sent EXCEPT ![t] = pad[t]] /\ sentAge' = [sentAge EXCEPT ![t] = 0]
        BY <1>4, <2>1 DEF Respond
      <3>3. sent'[t] = pad[t] /\ sentAge'[t] = 0 /\ (t = 1 => sent'[0] = sent[0] /\ sentAge'[0] = sentAge[0])
        BY <1>1, <3>2 DEF TypeOK, Ports
      <3>. QED
        BY <1>1, <1>4, <2>1, <3>1, <3>2, <3>3 DEF WireInv, Busy
    <2>2. CASE Respond /\ txn.cmd = "info"
      <3>1. rx'.hdr = "info" /\ UNCHANGED <<sent, sentAge>>
        BY <2>2 DEF Respond
      <3>. QED
        BY <1>1, <2>2, <3>1 DEF WireInv, Busy
    <2>3. CASE Miss
      <3>1. rx'.hdr \in {"clear", "none"} /\ UNCHANGED <<sent, sentAge>>
        BY <1>1, <2>3 DEF Miss, WireInv, TypeOK
      <3>. QED
        BY <1>1, <3>1 DEF WireInv, Busy
    <2>. QED
      BY <1>1, <2>1, <2>2, <2>3, Types DEF Transfer
  <1>6. CacheInv'
    BY <1>1, <1>2, <1>4, <1>5 DEF CacheInv, Current, Busy
  <1>. QED
    BY <1>1, <1>3, <1>5, <1>6 DEF ButtonsAreFresh, RebootMeansCombo

LEMMA TickFresh ==
  ASSUME FreshInv, Tick
  PROVE  TimeInv' /\ WireInv' /\ CacheInv' /\ ButtonsAreFresh' /\ RebootMeansCombo'
  <1>1. /\ UNCHANGED <<in_tcnt, cache, bus_init_done, txn, pc, answer, rx, pad, awake, missed, sent>>
        /\ TypeOK /\ TimeInv /\ WireInv /\ CacheInv
        /\ tcnt' = (tcnt - 1) % Period
    BY DEF Tick, FreshInv, shimVars
  <1>2. Before' = Before /\ Before * MaxTrans \in Nat /\ Before * MaxTrans + MaxTrans <= 6 * MaxTrans
    <2>1. Before' = Before
      BY <1>1 DEF Before
    <2>. QED
      BY <1>1, <2>1, Types, Transactions
  <1>3. PICK m \in Nat : m = Before * MaxTrans
    BY <1>2
  <1>4. Elapsed \in Nat /\ gap \in Nat /\ spent \in Nat
    BY <1>1, Types, ElapsedIs, Constants
  <1>5. \A p \in Ports : sentAge'[p] <= sentAge[p] + 1 /\ sentAge[p] \in Nat /\ sentAge'[p] \in Nat
    BY <1>1, Types, Constants DEF Tick, Older
  <1>6. WireInv'
    <2>1. pc = "bus" \/ pc = "game"
      BY DEF Tick
    <2>. QED
      BY <1>1, <2>1 DEF WireInv, Busy
  <1>7. CASE pc = "game"
    <2>1. gap < FrameGap /\ gap' = gap + 1
      BY <1>7 DEF Tick
    <2>2. bus_init_done => Elapsed' = Elapsed + 1
      <3>1. bus_init_done => Elapsed + 1 < Period
        BY <1>1, <1>4, <1>7, <2>1, Constants DEF TimeInv
      <3>. QED
        BY <1>1, <3>1, TickElapsed
    <2>3. TimeInv'
      BY <1>1, <1>4, <1>7, <2>1, <2>2, Constants DEF TimeInv, Busy
    <2>4. CacheInv'
      <3>1. ASSUME bus_init_done, NEW p \in Ports
            PROVE  cache'[p] = {} \/ (Current(p)' /\ sentAge'[p] <= Elapsed')
        BY <1>1, <1>4, <1>5, <1>7, <2>2, <3>1 DEF CacheInv, Current
      <3>. QED
        BY <1>1, <1>7, <3>1 DEF CacheInv, Busy
    <2>5. ButtonsAreFresh' /\ RebootMeansCombo'
      BY <1>1, <1>4, <1>7, <2>1 DEF ButtonsAreFresh, RebootMeansCombo
    <2>. QED
      BY <1>6, <2>3, <2>4, <2>5
  <1>8. CASE pc = "bus"
    <2>1. spent < MaxTrans /\ spent' = spent + 1
      BY <1>8 DEF Tick
    <2>2. bus_init_done /\ Elapsed <= m + spent
      BY <1>1, <1>3, <1>8 DEF TimeInv, Busy
    <2>3. Elapsed' = Elapsed + 1
      <3>1. Elapsed + 1 < Period
        BY <1>2, <1>3, <1>4, <2>1, <2>2, Constants
      <3>. QED
        BY <1>1, <3>1, TickElapsed
    <2>4. TimeInv'
      <3>1. Elapsed' <= m + spent'
        BY <1>4, <2>1, <2>2, <2>3
      <3>. QED
        BY <1>1, <1>2, <1>3, <1>8, <2>2, <3>1 DEF TimeInv, Busy
    <2>5. CacheInv'
      <3>1. PICK a \in Int : a = txn.attempt * MaxTrans
        BY <1>1, Types, Constants
      <3>2. ASSUME txn.cmd = "cond", txn.port = 1
            PROVE  cache'[0] = {} \/ (Current(0)' /\ sentAge'[0] <= Elapsed' /\ sentAge'[0] <= a + spent')
        <4>1. cache[0] = {} \/ (Current(0) /\ sentAge[0] <= Elapsed /\ sentAge[0] <= a + spent)
          BY <1>1, <1>8, <3>1, <3>2 DEF CacheInv, Busy
        <4>2. sentAge'[0] <= sentAge[0] + 1 /\ sentAge[0] \in Nat /\ sentAge'[0] \in Nat
          BY <1>5 DEF Ports
        <4>3. /\ sentAge[0] <= Elapsed => sentAge'[0] <= Elapsed'
              /\ sentAge[0] <= a + spent => sentAge'[0] <= a + spent'
          BY <1>4, <2>1, <2>3, <4>2
        <4>4. Current(0) => Current(0)'
          BY <1>1 DEF Current
        <4>. QED
          BY <1>1, <4>1, <4>3, <4>4
      <3>3. txn'.attempt * MaxTrans = a
        BY <1>1, <3>1
      <3>. QED
        BY <1>1, <1>8, <2>2, <3>2, <3>3 DEF CacheInv, Busy
    <2>6. ButtonsAreFresh' /\ RebootMeansCombo'
      BY <1>1, <1>8 DEF ButtonsAreFresh, RebootMeansCombo
    <2>. QED
      BY <1>6, <2>4, <2>5, <2>6
  <1>. QED
    BY <1>7, <1>8 DEF Tick

(* What the pads hold, and a stutter, leave all of it alone.               *)
LEMMA StillFresh ==
  ASSUME FreshInv, UNCHANGED <<shimVars, rx, sent, sentAge, tcnt, gap, spent>>
  PROVE  TimeInv' /\ WireInv' /\ CacheInv' /\ ButtonsAreFresh' /\ RebootMeansCombo'
  <1>1. UNCHANGED <<in_tcnt, cache, bus_init_done, txn, pc, answer, rx, sent, sentAge, tcnt, gap, spent>>
    BY DEF shimVars
  <1>2. Elapsed' = Elapsed /\ Before' = Before
    BY <1>1 DEF Elapsed, Before
  <1>3. TimeInv'
    BY <1>1, <1>2 DEF FreshInv, TimeInv, Busy
  <1>4. WireInv'
    BY <1>1 DEF FreshInv, WireInv, Busy
  <1>5. CacheInv'
    BY <1>1, <1>2 DEF FreshInv, CacheInv, Current, Busy
  <1>6. ButtonsAreFresh' /\ RebootMeansCombo'
    BY <1>1 DEF FreshInv, ButtonsAreFresh, RebootMeansCombo, Justified
  <1>. QED
    BY <1>3, <1>4, <1>5, <1>6

LEMMA InitFresh == PollInit => FreshInv
  <1>. SUFFICES ASSUME PollInit PROVE FreshInv
    OBVIOUS
  <1>1. in_tcnt \in 0 .. Period - 1 /\ tcnt \in 0 .. Period - 1
    BY Constants, Wraps DEF PollInit
  <1>2. cache \in [Ports -> Held] /\ pad \in [Ports -> Held \cup {Absent}]
    BY PadPollAssumption DEF PollInit
  <1>3. bus_init_done \in BOOLEAN /\ awake \subseteq Ports
    BY Zenon DEF PollInit
  <1>4. /\ rx \in [hdr : Headers, word : Held \cup {Nothing}]
        /\ txn \in [cmd : {"info", "cond"}, port : Ports, attempt : 0 .. Attempts - 1]
    BY DEF PollInit, Headers, Ports, Attempts
  <1>5. answer \in [Ports -> (SUBSET Buttons) \cup {Nothing}] /\ sent \in [Ports -> Held \cup {Nothing}]
    <2>1. Nothing \in (SUBSET Buttons) \cup {Nothing} /\ Nothing \in Held \cup {Nothing}
      <3>1. Nothing \in {Nothing}
        OBVIOUS
      <3>. QED
        BY <3>1
    <2>2. answer = [p \in Ports |-> Nothing] /\ sent = [p \in Ports |-> Nothing]
      BY DEF PollInit
    <2>. QED
      BY <2>1, <2>2
  <1>6. /\ missed \in [Ports -> Nat] /\ \A p \in Ports : missed[p] <= MaxMiss[p]
        /\ sentAge \in [Ports -> 0 .. Stale + 1]
        /\ gap \in 0 .. FrameGap /\ spent \in 0 .. MaxTrans
    BY Constants, PadPollAssumption DEF PollInit
  <1>7. TypeOK
    BY <1>1, <1>2, <1>3, <1>4, <1>5, <1>6 DEF TypeOK, PollInit
  <1>8. TimeInv /\ WireInv /\ CacheInv /\ RebootMeansCombo
    BY DEF PollInit, TimeInv, WireInv, CacheInv, RebootMeansCombo, Busy
  <1>9. ButtonsAreFresh
    BY DEF PollInit, ButtonsAreFresh
  <1>. QED
    BY <1>7, <1>8, <1>9 DEF FreshInv

(* What the shim has gathered is never older than its clock says, and its  *)
(* clock is never a whole turn wrong.                                      *)
THEOREM Invariance == PollSpec => []FreshInv
  <1>1. ASSUME FreshInv, PollNext PROVE FreshInv'
    <2>. USE <1>1 DEF FreshInv
    <2>1. CASE Poll
      BY <2>1, PollTypes, PollFresh
    <2>2. CASE Read
      BY <2>2, ReadTypes, ReadFresh
    <2>3. CASE Transfer
      BY <2>3, TransferTypes, TransferFresh
    <2>4. CASE Tick
      BY <2>4, TickTypes, TickFresh
    <2>5. CASE \E p \in Ports : Press(p) \/ Plug(p)
      <3>1. TypeOK'
        BY <2>5, PadTypes
      <3>2. UNCHANGED <<shimVars, rx, sent, sentAge, tcnt, gap, spent>>
        BY <2>5 DEF Press, Plug
      <3>. QED
        BY <3>1, <3>2, StillFresh
    <2>. QED
      BY <1>1, <2>1, <2>2, <2>3, <2>4, <2>5 DEF PollNext
  <1>2. ASSUME FreshInv, UNCHANGED pollVars PROVE FreshInv'
    <2>1. TypeOK'
      BY <1>2 DEF FreshInv, TypeOK, pollVars, shimVars, padVars
    <2>. QED
      BY <1>2, <2>1, StillFresh DEF FreshInv, pollVars, padVars
  <1>. QED
    BY <1>1, <1>2, InitFresh, PTL DEF PollSpec

(* What the game is told of a player is released, or what that player's    *)
(* pad sent at most Stale ticks before (main.c:176-188, maple.c:82-102).   *)
THEOREM NothingOld == PollSpec => []ButtonsAreFresh
  <1>1. FreshInv => ButtonsAreFresh
    BY DEF FreshInv
  <1>. QED
    BY <1>1, Invariance, PTL

(* The console reboots only for the whole combo, just reported by one pad  *)
(* (main.c:182-183, jvs.c:23-26), and the state keeps its types.           *)
THEOREM RebootsOnlyOnCombo == PollSpec => []PollInv
  <1>1. FreshInv => PollInv
    BY DEF FreshInv, PollInv
  <1>. QED
    BY <1>1, Invariance, PTL

-----------------------------------------------------------------------------
(* A pad on the wire.                                                      *)
LEMMA WiredPort ==
  ASSUME TypeOK, OneMissAtATime, NEW p \in Wired
  PROVE  p \in Ports /\ p \in {0, 1} /\ missed[p] \in Nat /\ missed[p] < 2 /\ sentAge[p] \in Nat
  <1>1. p \in Ports /\ p \in {0, 1}
    BY PadPollAssumption DEF Ports
  <1>2. missed[p] \in Nat /\ missed[p] <= MaxMiss[p] /\ MaxMiss[p] \in Nat /\ MaxMiss[p] < 2
    BY <1>1, PadPollAssumption DEF TypeOK, OneMissAtATime, Attempts
  <1>. QED
    BY <1>1, <1>2, Types

(* In a later state of the shim, whatever the refresh has not touched.     *)
LEMMA PollAnswer ==
  ASSUME FreshInv, OneMissAtATime, Poll, NEW p \in Wired, Answering(p)
  PROVE  Answering(p)'
  <1>1. TypeOK /\ UNCHANGED <<pad, awake, missed, sent, sentAge, tcnt>> /\ pc = "game"
    BY DEF FreshInv, Poll, padVars
  <1>2. p \in Ports /\ p \in {0, 1} /\ missed[p] \in Nat /\ sentAge[p] \in Nat
    BY <1>1, WiredPort
  <1>3. CASE Refresh
    <2>1. in_tcnt' = tcnt /\ bus_init_done' = TRUE
      BY <1>3 DEF Refresh
    <2>2. PICK c \in {"info", "cond"} : StartDma(c, 0, 0) /\ (c = "cond" => bus_init_done)
      BY <1>1, <1>3 DEF Refresh, TypeOK
    <2>3. /\ pc' = "bus" /\ txn'.cmd = c /\ txn'.port = 0 /\ txn'.attempt = 0
      BY <1>1, <2>2, StartDmaType DEF Ports
    <2>4. Requested(p)' => p \in awake'
      BY <1>1, <1>2, <2>2, <2>3 DEF Answering, Requested, Busy
    <2>. QED
      BY <1>1, <1>2, <2>3, <2>4 DEF Answering
  <1>4. CASE FromCache
    <2>1. /\ Reply(cache) /\ Elapsed <= PadThresh
          /\ UNCHANGED <<in_tcnt, cache, bus_init_done, txn, rx, spent>>
      BY <1>4 DEF FromCache
    <2>2. /\ \A q \in Ports : answer'[q] = ToJvs(cache[q])
          /\ pc' = "game" /\ gap' = 0
      <3>1. PICK raw \in [Ports -> Held] : raw = cache
        BY <1>1 DEF TypeOK
      <3>. QED
        BY <2>1, <3>1, ReplyType
    <2>3. Elapsed' = Elapsed /\ Elapsed \in Nat
      BY <1>1, <2>1, ElapsedIs, Constants DEF Elapsed
    <2>4. Requested(p)' => p \in awake'
      BY <1>1, <2>1, <2>2 DEF Answering, Requested, Busy
    <2>5. bus_init_done => Current(p)' /\ sentAge'[p] <= Elapsed' /\ Justified(p)'
      <3>1. bus_init_done => Current(p) /\ sentAge[p] <= Elapsed
        BY <1>1 DEF Answering
      <3>2. sentAge[p] <= Elapsed => sentAge[p] <= Stale
        BY <1>2, <2>1, <2>3, Constants
      <3>. QED
        BY <1>1, <1>2, <2>1, <2>2, <2>3, <3>1, <3>2 DEF Current, Justified
    <2>. QED
      BY <1>1, <2>1, <2>2, <2>4, <2>5 DEF Answering, Busy
  <1>. QED
    BY <1>3, <1>4 DEF Poll

(* The retry is never refused twice.                                       *)
LEMMA HeardAtLast ==
  ASSUME TypeOK, OneMissAtATime, NEW p \in Wired, Answering(p),
         pc = "read", txn.cmd = "cond", txn.port = p, rx.hdr # "data"
  PROVE  txn.attempt = 0 /\ missed[p] >= 1
  <1>1. missed[p] > txn.attempt
    BY DEF Answering
  <1>2. missed[p] < 2 /\ missed[p] \in Nat /\ txn.attempt \in {0, 1}
    BY WiredPort, Types
  <1>. QED
    BY <1>1, <1>2

(* A port's word has come: what its pad just sent.                         *)
LEMMA GetCondAnswer ==
  ASSUME FreshInv, OneMissAtATime, NEW p \in Wired, Answering(p),
         pc = "read", txn.cmd = "cond", NEW w \in Held, GetCond(w),
         txn.port = p => w = sent[p] /\ sentAge[p] = 0,
         UNCHANGED <<in_tcnt, bus_init_done, padVars, tcnt>>
  PROVE  Answering(p)'
  <1>1. TypeOK /\ UNCHANGED <<pad, awake, missed, sent, sentAge>>
    BY DEF FreshInv, padVars
  <1>2. p \in Ports /\ p \in {0, 1} /\ missed[p] \in Nat /\ sentAge[p] \in Nat
    BY <1>1, WiredPort
  <1>3. Elapsed' = Elapsed /\ Elapsed \in Nat
    BY <1>1, ElapsedIs, Constants DEF Elapsed
  <1>4. bus_init_done /\ bus_init_done' = bus_init_done /\ spent \in Nat /\ spent <= MaxTrans
    BY <1>1, Types DEF FreshInv, TimeInv, Busy
  <1>5. pad'[p] # Absent /\ p \in awake'
    BY <1>1, <1>4 DEF Answering, Requested, Busy
  <1>6. cache' = [cache EXCEPT ![txn.port] = w] /\ cache \in [Ports -> Held] /\ txn.port \in Ports
    BY <1>1, Types DEF GetCond, TypeOK, Ports
  <1>7. w # Nothing
    BY PadPollAssumption
  <1>8. txn.port = p => Current(p)' /\ sentAge'[p] = 0
    <2>1. txn.port = p => cache'[p] = w
      BY <1>2, <1>6
    <2>. QED
      BY <1>1, <1>7, <2>1 DEF Current
  <1>9. CASE txn.port = 0
    <2>1. StartDma("cond", 1, 0)
      BY <1>9 DEF GetCond
    <2>2. /\ pc' = "bus" /\ spent' = 0
          /\ txn'.cmd = "cond" /\ txn'.port = 1 /\ txn'.attempt = 0
      BY <1>1, <2>1, StartDmaType DEF Ports
    <2>3. txn'.attempt * MaxTrans + spent' = 0
      BY <2>2, Constants
    <2>4. txn'.port > p =>
            /\ Current(p)' /\ sentAge'[p] <= Elapsed'
            /\ sentAge'[p] <= txn'.attempt * MaxTrans + spent'
      BY <1>2, <1>3, <1>8, <1>9, <2>2, <2>3
    <2>5. txn'.port = p => missed'[p] >= txn'.attempt
      BY <1>1, <1>2, <2>2
    <2>. QED
      BY <1>5, <2>2, <2>4, <2>5 DEF Answering
  <1>10. CASE txn.port = 1
    <2>1. Refreshed(cache') /\ UNCHANGED <<txn, rx, spent>>
      BY <1>10 DEF GetCond
    <2>2. cache'[1] = w /\ cache'[0] = cache[0] /\ cache' \in [Ports -> Held]
      BY <1>6, <1>10 DEF Ports
    <2>3. txn.attempt * MaxTrans + spent \in Int /\ txn.attempt * MaxTrans + spent <= Stale
      <3>1. 0 * MaxTrans = 0 /\ 1 * MaxTrans = MaxTrans
        BY Constants
      <3>2. txn.attempt = 0 \/ txn.attempt = 1
        BY <1>1, Types
      <3>. QED
        BY <1>4, <3>1, <3>2, Constants
    <2>4. Current(p)' /\ sentAge'[p] <= Elapsed' /\ sentAge'[p] <= Stale
      <3>1. CASE p = 1
        BY <1>3, <1>8, <1>10, <3>1, Constants
      <3>2. CASE p = 0
        <4>1. Current(p) /\ sentAge[p] <= Elapsed /\ sentAge[p] <= txn.attempt * MaxTrans + spent
          BY <1>10, <3>2 DEF Answering, Busy
        <4>2. PICK m \in Int : m = txn.attempt * MaxTrans + spent
          BY <2>3
        <4>3. sentAge[p] <= Stale
          BY <1>2, <2>3, <4>1, <4>2, Constants
        <4>. QED
          BY <1>1, <1>3, <2>2, <3>2, <4>1, <4>3 DEF Current
      <3>. QED
        BY <1>2, <3>1, <3>2
    <2>5. CASE pc' = "reboot"
      BY <1>5, <2>5 DEF Answering, Busy
    <2>6. CASE Reply(cache')
      <3>1. PICK raw \in [Ports -> Held] : raw = cache'
        BY <2>2
      <3>2. answer'[p] = ToJvs(cache'[p]) /\ pc' = "game"
        BY <1>2, <2>6, <3>1, ReplyType
      <3>3. Justified(p)'
        BY <2>4, <3>2 DEF Justified, Current
      <3>. QED
        BY <1>5, <2>4, <3>2, <3>3 DEF Answering, Busy
    <2>. QED
      BY <2>1, <2>5, <2>6 DEF Refreshed
  <1>. QED
    BY <1>1, <1>9, <1>10, Types

LEMMA ReadAnswer ==
  ASSUME FreshInv, OneMissAtATime, Read, NEW p \in Wired, Answering(p)
  PROVE  Answering(p)'
  <1>1. /\ UNCHANGED <<in_tcnt, bus_init_done, padVars, tcnt>> /\ pc = "read"
        /\ TypeOK /\ WireInv /\ bus_init_done
    BY DEF Read, FreshInv, TimeInv, Busy
  <1>2. UNCHANGED <<pad, awake, missed, sent, sentAge>>
    BY <1>1 DEF padVars
  <1>3. p \in Ports /\ p \in {0, 1} /\ missed[p] \in Nat /\ sentAge[p] \in Nat
    BY <1>1, WiredPort
  <1>4. pad'[p] # Absent
    BY <1>2 DEF Answering
  <1>5. CASE Probed
    <2>1. PICK c \in {"info", "cond"}, q \in Ports :
            /\ StartDma(c, q, 0) /\ (c = "cond" => q = 0 /\ txn.port = 1) /\ (c = "info" => txn.port = 0)
      BY <1>1, <1>5, Types DEF Probed, Ports
    <2>2. pc' = "bus" /\ txn'.cmd = c /\ txn'.port = q /\ txn'.attempt = 0
      BY <1>1, <2>1, StartDmaType
    <2>3. Requested(p)' => p \in awake'
      <3>1. txn.cmd = "info"
        BY <1>5 DEF Probed
      <3>2. txn.port >= p => p \in awake
        BY <1>1, <1>3, <3>1, Types DEF Answering, Requested, Busy
      <3>3. Requested(p)' => txn.port >= p
        BY <1>1, <1>3, <2>1, <2>2, Types DEF Requested, Busy, Ports
      <3>. QED
        BY <1>2, <3>2, <3>3
    <2>4. ~(txn'.cmd = "cond" /\ txn'.port > p)
      BY <1>3, <2>1, <2>2
    <2>. QED
      BY <1>2, <1>3, <1>4, <2>2, <2>3, <2>4 DEF Answering
  <1>6. CASE Conditioned
    <2>1. CASE rx.hdr = "data" /\ GetCond(rx.word)
      <3>1. PICK w \in Held : w = rx.word /\ w = sent[txn.port] /\ sentAge[txn.port] = 0
        BY <1>1, <1>6, <2>1 DEF WireInv
      <3>. QED
        BY <1>1, <1>6, <2>1, <3>1, GetCondAnswer DEF Conditioned
    <2>2. CASE rx.hdr # "data" /\ Retry
      <3>1. PICK q \in Ports : q = txn.port
        BY <1>1, Types DEF Ports
      <3>2. txn.attempt = 0 /\ StartDma("cond", q, 1) /\ cache' = cache /\ txn.cmd = "cond"
        <4>1. txn.attempt = 0 /\ txn.attempt + 1 = 1
          BY <1>1, <2>2, Types DEF Retry, Attempts
        <4>. QED
          BY <1>6, <2>2, <3>1, <4>1 DEF Retry, Conditioned
      <3>3. /\ pc' = "bus" /\ spent' = 0
            /\ txn'.cmd = "cond" /\ txn'.port = q /\ txn'.attempt = 1
        BY <1>1, <3>2, StartDmaType
      <3>4. p \in awake'
        BY <1>1, <1>2, <3>2 DEF Answering, Requested, Busy
      <3>5. q = p => missed'[p] >= 1
        BY <1>1, <1>2, <2>2, <3>1, <3>2, HeardAtLast
      <3>6. q > p => /\ Current(p)' /\ sentAge'[p] <= Elapsed'
                     /\ sentAge'[p] <= txn'.attempt * MaxTrans + spent'
        <4>1. 0 * MaxTrans = 0 /\ 1 * MaxTrans = MaxTrans
          BY Constants
        <4>2. spent <= MaxTrans /\ spent \in Nat /\ Elapsed' = Elapsed
          BY <1>1, Types DEF Elapsed
        <4>3. q > p => Current(p) /\ sentAge[p] <= Elapsed /\ sentAge[p] <= 0 * MaxTrans + spent
          BY <1>1, <3>1, <3>2 DEF Answering, Busy
        <4>4. q > p => Current(p)' /\ sentAge'[p] <= Elapsed' /\ sentAge'[p] <= 1 * MaxTrans + spent'
          BY <1>2, <1>3, <3>2, <3>3, <4>1, <4>2, <4>3, Constants DEF Current
        <4>. QED
          BY <3>3, <4>4
      <3>. QED
        BY <1>4, <3>3, <3>4, <3>5, <3>6 DEF Answering, Busy
    <2>3. CASE rx.hdr # "data" /\ ~(txn.attempt + 1 < Attempts) /\ GetCond({})
      <3>1. txn.port # p
        <4>1. txn.attempt # 0
          BY <1>1, <2>3 DEF Attempts
        <4>. QED
          BY <1>1, <1>6, <2>3, <4>1, HeardAtLast DEF Conditioned
      <3>2. PICK w \in Held : w = {}
        BY NoButtons
      <3>. QED
        BY <1>1, <1>6, <2>3, <3>1, <3>2, GetCondAnswer DEF Conditioned
    <2>. QED
      BY <1>6, <2>1, <2>2, <2>3 DEF Conditioned
  <1>. QED
    BY <1>5, <1>6 DEF Read

(* The pad answers, or misses a reply it had left to miss.                 *)
LEMMA TransferAnswer ==
  ASSUME FreshInv, OneMissAtATime, Transfer, NEW p \in Wired, Answering(p)
  PROVE  Answering(p)'
  <1>1. /\ UNCHANGED <<in_tcnt, cache, bus_init_done, txn, answer, pad, tcnt, gap, spent>>
        /\ pc = "bus" /\ pc' = "read" /\ TypeOK /\ WireInv /\ bus_init_done
    BY DEF Transfer, FreshInv, TimeInv, Busy
  <1>2. p \in Ports /\ p \in {0, 1} /\ missed[p] \in Nat
    BY <1>1, WiredPort
  <1>3. pad'[p] # Absent /\ Elapsed' = Elapsed
    BY <1>1 DEF Answering, Elapsed
  <1>4. awake \subseteq awake' /\ (txn.cmd = "info" /\ txn.port = p => p \in awake')
    BY <1>1 DEF Transfer, Answering
  <1>5. Requested(p)' => p \in awake'
    <2>1. Requested(p)' => Requested(p) \/ (txn.cmd = "info" /\ txn.port = p)
      BY <1>1, <1>2 DEF Requested, Busy
    <2>. QED
      BY <1>4, <2>1 DEF Answering
  <1>6. ASSUME txn.cmd = "cond", txn.port = p, rx'.hdr # "data"
        PROVE  missed'[p] > txn.attempt
    <2>1. CanAnswer(p)
      BY <1>1, <1>6 DEF CanAnswer, Answering, Requested, Busy
    <2>2. Miss
      BY <1>6 DEF Transfer, Respond
    <2>3. missed'[p] = missed[p] + 1
      BY <1>1, <1>2, <1>6, <2>1, <2>2 DEF Miss, TypeOK
    <2>4. missed[p] >= txn.attempt /\ txn.attempt \in {0, 1}
      BY <1>1, <1>6, Types DEF Answering
    <2>. QED
      BY <1>2, <2>3, <2>4
  <1>7. txn.port # p => sent'[p] = sent[p] /\ sentAge'[p] = sentAge[p]
    <2>1. CASE Respond
      BY <1>1, <1>2, <2>1, Zenon DEF Respond, TypeOK
    <2>2. CASE Miss
      BY <2>2 DEF Miss
    <2>. QED
      BY <2>1, <2>2 DEF Transfer
  <1>8. txn.cmd = "cond" /\ txn.port > p =>
          /\ Current(p)' /\ sentAge'[p] <= Elapsed'
          /\ sentAge'[p] <= txn'.attempt * MaxTrans + spent'
    <2>1. txn.port > p => txn.port # p
      BY <1>2
    <2>2. txn.cmd = "cond" /\ txn.port > p =>
            /\ Current(p) /\ sentAge[p] <= Elapsed
            /\ sentAge[p] <= txn.attempt * MaxTrans + spent
      BY <1>1 DEF Answering, Busy
    <2>. QED
      BY <1>1, <1>3, <1>7, <2>1, <2>2 DEF Current
  <1>. QED
    BY <1>1, <1>3, <1>5, <1>6, <1>8 DEF Answering

LEMMA TickAnswer ==
  ASSUME FreshInv, OneMissAtATime, Tick, NEW p \in Wired, Answering(p)
  PROVE  Answering(p)'
  <1>1. /\ UNCHANGED <<in_tcnt, cache, bus_init_done, txn, pc, answer, rx, pad, awake, missed, sent>>
        /\ TypeOK /\ TimeInv /\ tcnt' = (tcnt - 1) % Period
    BY DEF Tick, FreshInv, shimVars
  <1>2. p \in Ports /\ p \in {0, 1} /\ missed[p] \in Nat /\ sentAge[p] \in Nat
    BY <1>1, WiredPort
  <1>3. Elapsed \in Nat /\ gap \in Nat /\ spent \in Nat
    BY <1>1, Types, ElapsedIs, Constants
  <1>4. sentAge'[p] <= sentAge[p] + 1 /\ sentAge'[p] \in Nat
    BY <1>1, <1>2, Constants DEF Tick, Older
  <1>5. pad'[p] # Absent /\ (Requested(p)' => p \in awake')
    BY <1>1 DEF Answering, Requested, Busy
  <1>6. CASE pc = "game"
    <2>1. gap < FrameGap /\ gap' = gap + 1
      BY <1>6 DEF Tick
    <2>2. bus_init_done => Elapsed' = Elapsed + 1
      <3>1. bus_init_done => Elapsed + 1 < Period
        BY <1>1, <1>3, <1>6, <2>1, Constants DEF TimeInv
      <3>. QED
        BY <1>1, <3>1, TickElapsed
    <2>3. bus_init_done => Current(p) /\ sentAge[p] <= Elapsed
      BY <1>6 DEF Answering
    <2>4. bus_init_done => Current(p)' /\ sentAge'[p] <= Elapsed'
      BY <1>1, <1>2, <1>3, <1>4, <2>2, <2>3 DEF Current
    <2>5. gap' # 0
      BY <1>3, <2>1
    <2>. QED
      BY <1>1, <1>5, <1>6, <2>4, <2>5 DEF Answering, Busy
  <1>7. CASE pc = "bus"
    <2>1. spent < MaxTrans /\ spent' = spent + 1
      BY <1>7 DEF Tick
    <2>2. Elapsed' = Elapsed + 1
      <3>1. Before * MaxTrans \in Nat /\ Before * MaxTrans + MaxTrans <= 6 * MaxTrans
        BY <1>1, Types, Transactions
      <3>2. PICK m \in Nat : m = Before * MaxTrans
        BY <3>1
      <3>3. Elapsed <= m + spent
        BY <1>1, <1>7, <3>2 DEF TimeInv, Busy
      <3>4. Elapsed + 1 < Period
        BY <1>3, <2>1, <3>1, <3>2, <3>3, Constants
      <3>. QED
        BY <1>1, <3>4, TickElapsed
    <2>3. PICK a \in Int : a = txn.attempt * MaxTrans
      BY <1>1, Types, Constants
    <2>4. txn.cmd = "cond" /\ txn.port > p =>
            Current(p) /\ sentAge[p] <= Elapsed /\ sentAge[p] <= a + spent
      BY <1>7, <2>3 DEF Answering, Busy
    <2>5. txn.cmd = "cond" /\ txn.port > p =>
            Current(p)' /\ sentAge'[p] <= Elapsed' /\ sentAge'[p] <= a + spent'
      BY <1>1, <1>2, <1>3, <1>4, <2>1, <2>2, <2>4 DEF Current
    <2>6. txn'.attempt * MaxTrans = a
      BY <1>1, <2>3
    <2>7. txn.cmd = "cond" /\ txn.port = p => missed'[p] >= txn'.attempt
      BY <1>1, <1>7 DEF Answering
    <2>. QED
      BY <1>1, <1>5, <1>7, <2>5, <2>6, <2>7 DEF Answering, Busy
  <1>. QED
    BY <1>6, <1>7 DEF Tick

(* A press leaves the wire alone; only a pad that is not wired is pulled.  *)
LEMMA StillAnswer ==
  ASSUME FreshInv, NEW p \in Wired, Answering(p),
         UNCHANGED <<shimVars, rx, sent, sentAge, tcnt, gap, spent>>,
         pad'[p] # Absent, p \in awake => p \in awake', missed'[p] = missed[p]
  PROVE  Answering(p)'
  <1>1. UNCHANGED <<in_tcnt, cache, bus_init_done, txn, pc, answer, rx, sent, sentAge, tcnt, gap, spent>>
    BY DEF shimVars
  <1>2. Elapsed' = Elapsed
    BY <1>1 DEF Elapsed
  <1>3. Requested(p)' => p \in awake'
    BY <1>1 DEF Answering, Requested, Busy
  <1>. QED
    BY <1>1, <1>2, <1>3 DEF Answering, Current, Justified, Busy

LEMMA PadAnswer ==
  ASSUME FreshInv, NEW p \in Wired, Answering(p), NEW q \in Ports, Press(q) \/ Plug(q)
  PROVE  Answering(p)'
  <1>1. TypeOK /\ p \in Ports /\ pad[p] # Absent
    BY PadPollAssumption DEF FreshInv, Answering
  <1>2. UNCHANGED <<shimVars, rx, sent, sentAge, tcnt, gap, spent>>
    BY DEF Press, Plug
  <1>3. CASE Press(q)
    <2>1. PICK w \in Held : pad' = [pad EXCEPT ![q] = w]
      BY <1>3 DEF Press
    <2>2. pad'[p] # Absent
      BY <1>1, <2>1, PadPollAssumption DEF TypeOK
    <2>. QED
      BY <1>2, <1>3, <2>2, StillAnswer DEF Press
  <1>4. CASE Plug(q)
    <2>1. q # p
      BY <1>4 DEF Plug
    <2>2. pad'[p] = pad[p] /\ missed'[p] = missed[p] /\ (p \in awake => p \in awake')
      BY <1>1, <1>4, <2>1 DEF Plug, TypeOK
    <2>. QED
      BY <1>1, <1>2, <2>2, StillAnswer
  <1>. QED
    BY <1>3, <1>4

(* A pad that is on the wire and misses one reply at a time never reads as *)
(* released: the retry is enough for it (maple.c:81-102).                  *)
THEOREM OneRetryIsEnough == OneMissAtATime => (PollSpec => []NoDropout)
  <1>. SUFFICES ASSUME OneMissAtATime PROVE PollSpec => []NoDropout
    OBVIOUS
  <1>1. PollInit => AnswerInv
    <2>. SUFFICES ASSUME PollInit, NEW p \in Wired PROVE Answering(p)
      BY DEF AnswerInv
    <2>1. pad[p] # Absent
      BY PadPollAssumption DEF PollInit
    <2>2. pc = "game" /\ bus_init_done = FALSE
      BY DEF PollInit
    <2>. QED
      BY <2>1, <2>2 DEF Answering, Requested, Busy
  <1>2. ASSUME FreshInv, AnswerInv, PollNext PROVE AnswerInv'
    <2>. SUFFICES ASSUME NEW p \in Wired PROVE Answering(p)'
      BY DEF AnswerInv
    <2>. Answering(p)
      BY <1>2 DEF AnswerInv
    <2>1. CASE Poll
      BY <1>2, <2>1, PollAnswer
    <2>2. CASE Read
      BY <1>2, <2>2, ReadAnswer
    <2>3. CASE Transfer
      BY <1>2, <2>3, TransferAnswer
    <2>4. CASE Tick
      BY <1>2, <2>4, TickAnswer
    <2>5. CASE \E q \in Ports : Press(q) \/ Plug(q)
      BY <1>2, <2>5, PadAnswer
    <2>. QED
      BY <1>2, <2>1, <2>2, <2>3, <2>4, <2>5 DEF PollNext
  <1>3. ASSUME FreshInv, AnswerInv, UNCHANGED pollVars PROVE AnswerInv'
    <2>. SUFFICES ASSUME NEW p \in Wired PROVE Answering(p)'
      BY DEF AnswerInv
    <2>1. Answering(p)
      BY <1>3 DEF AnswerInv
    <2>. QED
      BY <1>3, <2>1, StillAnswer DEF pollVars, padVars, Answering
  <1>4. AnswerInv => NoDropout
    BY DEF AnswerInv, Answering, NoDropout
  <1>. QED
    BY <1>1, <1>2, <1>3, <1>4, Invariance, PTL DEF PollSpec

-----------------------------------------------------------------------------
LEMMA BeforeNumbers ==
  ASSUME TypeOK
  PROVE  /\ Before \in 0 .. 5
         /\ StepsLeft \in 0 .. 12
         /\ Busy => StepsLeft \in 1 .. 12
         /\ pc \notin {"bus", "read"} => StepsLeft = 0
  <1>1. Before \in 0 .. 5
    BY Types
  <1>. QED
    BY <1>1 DEF StepsLeft, Busy

LEMMA NextIsLess ==
  ASSUME TypeOK, TypeOK', pc = "read", pc' = "bus", Before < Before'
  PROVE  StepsLeft' < StepsLeft
  <1>1. Before \in 0 .. 5
    BY BeforeNumbers
  <1>2. txn'.port \in {0, 1} /\ txn'.attempt \in {0, 1} /\ txn'.cmd \in {"info", "cond"}
    BY DEF TypeOK, Ports, Attempts
  <1>3. Before' \in 0 .. 5
    BY <1>2 DEF Before
  <1>4. PICK a \in 0 .. 5, b \in 0 .. 5 : a = Before /\ b = Before'
    BY <1>1, <1>3
  <1>5. StepsLeft = 2 * (6 - a) - 1 /\ StepsLeft' = 2 * (6 - b)
    BY <1>4 DEF StepsLeft
  <1>6. \A x, y \in 0 .. 5 : x < y => 2 * (6 - y) < 2 * (6 - x) - 1
    OBVIOUS
  <1>. QED
    BY <1>4, <1>5, <1>6

(* A refresh is at most six transactions, two device requests and twice    *)
(* two attempts, and each step on the bus or after it brings its end       *)
(* nearer, whatever the pads do meanwhile (main.c:170-188, maple.c:77-102).*)
THEOREM RefreshIsBounded == PollSpec => RefreshShrinks
  <1>. DEFINE Shrinks ==
         /\ Busy => StepsLeft \in 1 .. 12
         /\ Read \/ Transfer => StepsLeft' < StepsLeft
         /\ Busy /\ ~(Read \/ Transfer) => StepsLeft' = StepsLeft
  <1>1. ASSUME FreshInv, FreshInv', [PollNext]_pollVars PROVE [Shrinks]_pollVars
    <2>. SUFFICES ASSUME PollNext PROVE Shrinks
      BY <1>1
    <2>. USE <1>1
    <2>1. TypeOK /\ TypeOK' /\ WireInv
      BY DEF FreshInv
    <2>2. ASSUME Transfer PROVE StepsLeft' < StepsLeft
      <3>1. pc = "bus" /\ pc' = "read" /\ txn' = txn
        BY <2>2 DEF Transfer
      <3>2. Before' = Before /\ Before \in 0 .. 5
        BY <2>1, <3>1, BeforeNumbers DEF Before
      <3>. QED
        BY <3>1, <3>2 DEF StepsLeft
    <2>3. ASSUME Read PROVE StepsLeft' < StepsLeft
      <3>1. pc = "read" /\ (Probed \/ Conditioned)
        BY <2>3 DEF Read
      <3>2. CASE pc' \in {"game", "reboot"}
        BY <2>1, <3>1, <3>2, BeforeNumbers DEF StepsLeft, Busy
      <3>3. CASE pc' = "bus"
        <4>1. CASE Probed
          <5>1. txn.cmd = "info" /\ txn.attempt = 0 /\ txn.port \in {0, 1}
            BY <2>1, <3>1, <4>1, Types DEF Probed, WireInv, Busy, Ports
          <5>2. CASE txn.port = 0
            <6>1. txn'.cmd = "info" /\ txn'.port = 1
              BY <4>1, <5>2 DEF Probed, StartDma
            <6>. QED
              BY <2>1, <3>1, <3>3, <5>1, <5>2, <6>1, NextIsLess DEF Before
          <5>3. CASE txn.port = 1
            <6>1. txn'.cmd = "cond" /\ txn'.port = 0 /\ txn'.attempt = 0
              BY <4>1, <5>3 DEF Probed, StartDma
            <6>. QED
              BY <2>1, <3>1, <3>3, <5>1, <5>3, <6>1, NextIsLess DEF Before
          <5>. QED
            BY <5>1, <5>2, <5>3
        <4>2. CASE Conditioned
          <5>1. txn.cmd = "cond" /\ txn.attempt \in {0, 1} /\ txn.port \in {0, 1}
            BY <2>1, <4>2, Types DEF Conditioned, Ports
          <5>2. CASE Retry
            <6>1. txn'.cmd = "cond" /\ txn'.port = txn.port /\ txn'.attempt = txn.attempt + 1
              BY <5>2 DEF Retry, StartDma
            <6>. QED
              BY <2>1, <3>1, <3>3, <5>1, <6>1, NextIsLess DEF Before
          <5>3. CASE \E word \in Held : GetCond(word)
            <6>1. txn.port = 0 /\ StartDma("cond", 1, 0)
              BY <3>3, <5>3 DEF GetCond, Refreshed, Reply
            <6>2. txn'.cmd = "cond" /\ txn'.port = 1 /\ txn'.attempt = 0
              BY <6>1 DEF StartDma
            <6>. QED
              BY <2>1, <3>1, <3>3, <5>1, <6>1, <6>2, NextIsLess DEF Before
          <5>4. rx.hdr = "data" => rx.word \in Held
            BY <2>1, <3>1 DEF WireInv
          <5>. QED
            BY <4>2, <5>2, <5>3, <5>4, NoButtons DEF Conditioned
        <4>. QED
          BY <3>1, <4>1, <4>2
      <3>. QED
        BY <2>3, <3>1, <3>2, <3>3 DEF Probed, Conditioned, Retry, GetCond, Refreshed, Reply, StartDma
    <2>4. ASSUME Busy, ~(Read \/ Transfer) PROVE StepsLeft' = StepsLeft
      <3>1. UNCHANGED <<pc, txn>>
        BY <2>4 DEF PollNext, Poll, Busy, Tick, Press, Plug, shimVars
      <3>. QED
        BY <3>1 DEF StepsLeft, Before
    <2>. QED
      BY <2>1, <2>2, <2>3, <2>4, BeforeNumbers
  <1>. QED
    BY <1>1, Invariance, PTL DEF PollSpec, RefreshShrinks
=============================================================================
