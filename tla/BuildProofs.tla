---------------------------- MODULE BuildProofs -----------------------------
(***************************************************************************)
(* Theorems about what is built.  The patch table, for every list of       *)
(* definitions: a started image is the one the table was made from,        *)
(* patched whole, and every hook in it leads to its shim function.  The    *)
(* discs, for any number of edits and any sequence of commands, aborted    *)
(* anywhere: what is mastered is of one piece and nothing in it is old.    *)
(* The donor's files: partial ones are of killed runs, one of each.        *)
(***************************************************************************)
EXTENDS PatchTable, DiscBuild, DonorCache, SequenceTheorems, FiniteSetTheorems, TLAPS

NewBytes == {Byte(t, a, b) : t \in {"mov", "jmp", "nop", "to"}, a \in Int, b \in Int}

LEMMA RomIsOld == \A a : Rom(a) \notin NewBytes
  BY DEF Rom, Byte, NewBytes

-----------------------------------------------------------------------------
(* The thunk.                                                              *)
LEMMA AlignIs ==
  ASSUME NEW a \in Nat
  PROVE  \E q \in Nat : Align(a) = 4 * q /\ (a = 4 * q \/ a = 4 * q + 1 \/ a = 4 * q + 2 \/ a = 4 * q + 3)
  <1>1. PICK q \in Nat : q = a \div 4
    OBVIOUS
  <1>2. 4 * q <= a /\ a <= 4 * q + 3
    BY <1>1
  <1>3. a = 4 * q \/ a = 4 * q + 1 \/ a = 4 * q + 2 \/ a = 4 * q + 3
    BY <1>2
  <1>. QED
    BY <1>1, <1>3 DEF Align

LEMMA SlotIs ==
  ASSUME NEW fn \in Nat, fn % 2 = 0
  PROVE  /\ Slot(fn) = fn + 6 \/ Slot(fn) = fn + 8
         /\ Disp(fn) = 1 /\ 4 + Align(fn) + 4 = Slot(fn)
         /\ Align(fn) \in Nat
  <1>1. PICK q \in Nat : /\ Align(fn) = 4 * q
                         /\ fn = 4 * q \/ fn = 4 * q + 1 \/ fn = 4 * q + 2 \/ fn = 4 * q + 3
    BY AlignIs
  <1>2. fn = 4 * q \/ fn = 4 * q + 2
    BY <1>1
  <1>3. PICK p \in Nat : /\ Align(fn + 6 + 3) = 4 * p
                         /\ \/ fn + 6 + 3 = 4 * p \/ fn + 6 + 3 = 4 * p + 1
                            \/ fn + 6 + 3 = 4 * p + 2 \/ fn + 6 + 3 = 4 * p + 3
    BY AlignIs
  <1>4. p = q + 2
    BY <1>2, <1>3
  <1>5. Slot(fn) = 4 * q + 8
    BY <1>3, <1>4 DEF Slot
  <1>6. Slot(fn) - (Align(fn) + 4) = 4
    BY <1>1, <1>5
  <1>7. 4 \div 4 = 1
    OBVIOUS
  <1>8. Disp(fn) = 1
    BY <1>6, <1>7 DEF Disp
  <1>. QED
    BY <1>1, <1>2, <1>5, <1>8

LEMMA DefIs ==
  ASSUME NEW d \in DefType
  PROVE  d.kind \in {"word", "insn", "hook"} /\ d.at \in Nat /\ d.to \in Nat
  BY DEF DefType

LEMMA DefsAre ==
  ASSUME defs \in Scripts
  PROVE  /\ Len(defs) \in Nat /\ Ids = 1 .. Len(defs)
         /\ \A k \in Ids : /\ defs[k] \in DefType /\ defs[k].at % 2 = 0
                          /\ defs[k].at \in Nat /\ Span(defs[k]) \subseteq Touched
         /\ NoDiff \notin Touched
  <1>1. defs \in Seq(DefType) /\ \A l \in Ids : defs[l].at % 2 = 0
    BY PatchTableAssumption DEF Ids
  <1>2. Len(defs) \in Nat /\ Ids = 1 .. Len(defs) /\ \A k \in Ids : defs[k] \in DefType
    BY <1>1, LenProperties, ElementOfSeq DEF Ids
  <1>3. \A k \in Ids : Span(defs[k]) \subseteq Touched
    BY DEF Ids, Touched, Patched
  <1>4. NoDiff \notin Touched
    BY NoDiffAssumption DEF Touched
  <1>. QED
    BY <1>1, <1>2, <1>3, <1>4, DefIs

LEMMA PiecesAre ==
  /\ \A d \in Int : Mov(d) \in Seq(NewBytes) /\ Len(Mov(d)) = 2 /\ Mov(d)[1] = Byte("mov", d, 0)
  /\ Jmp \in Seq(NewBytes) /\ Len(Jmp) = 2
  /\ Nop \in Seq(NewBytes) /\ Len(Nop) = 2
  /\ \A k \in Int : /\ Word(k) \in Seq(NewBytes) /\ Len(Word(k)) = 4
                    /\ \A j \in 1 .. 4 : Word(k)[j] = Byte("to", k, j)
  <1>1. \A t \in {"mov", "jmp", "nop", "to"} : \A a, b \in Int : Byte(t, a, b) \in NewBytes
    BY DEF NewBytes
  <1>2. \A d \in Int : Mov(d) \in Seq(NewBytes) /\ Len(Mov(d)) = 2 /\ Mov(d)[1] = Byte("mov", d, 0)
    BY <1>1 DEF Mov
  <1>3. Jmp \in Seq(NewBytes) /\ Len(Jmp) = 2 /\ Nop \in Seq(NewBytes) /\ Len(Nop) = 2
    BY <1>1 DEF Jmp, Nop
  <1>4. \A k \in Int : Word(k) \in [1 .. 4 -> NewBytes] /\ \A j \in 1 .. 4 : Word(k)[j] = Byte("to", k, j)
    BY <1>1 DEF Word
  <1>5. \A k \in Int : Word(k) \in Seq(NewBytes)
    BY <1>4, SeqDef
  <1>6. \A k \in Int : Len(Word(k)) = 4
    BY <1>4, <1>5, LenProperties
  <1>. QED
    BY <1>2, <1>3, <1>4, <1>5, <1>6

LEMMA Joined ==
  ASSUME NEW s \in Seq(NewBytes), NEW t \in Seq(NewBytes)
  PROVE  /\ s \o t \in Seq(NewBytes) /\ Len(s \o t) = Len(s) + Len(t)
         /\ \A x \in 1 .. Len(s) : (s \o t)[x] = s[x]
         /\ \A x \in 1 .. Len(t) : (s \o t)[Len(s) + x] = t[x]
  <1>1. Len(s) \in Nat /\ Len(t) \in Nat
    BY LenProperties
  <1>2. /\ s \o t \in Seq(NewBytes) /\ Len(s \o t) = Len(s) + Len(t)
        /\ \A x \in 1 .. Len(s) + Len(t) :
             (s \o t)[x] = IF x <= Len(s) THEN s[x] ELSE t[x - Len(s)]
    BY ConcatProperties
  <1>3. ASSUME NEW m \in Nat, NEW l \in Nat, NEW x \in 1 .. l
        PROVE  m + x \in 1 .. m + l /\ ~(m + x <= m) /\ m + x - m = x
    OBVIOUS
  <1>4. \A x \in 1 .. Len(t) : (s \o t)[Len(s) + x] = t[x]
    BY <1>1, <1>2, <1>3
  <1>5. \A x \in 1 .. Len(s) : (s \o t)[x] = s[x]
    BY <1>1, <1>2
  <1>. QED
    BY <1>2, <1>4, <1>5

LEMMA FillerIs ==
  ASSUME NEW n \in Nat
  PROVE  Filler(n) \in Seq(NewBytes) /\ Len(Filler(n)) = n
  <1>1. \A m \in 1 .. 2 : Nop[m] \in NewBytes
    <2>1. Nop \in Seq(NewBytes) /\ Len(Nop) = 2
      BY PiecesAre
    <2>. QED
      BY <2>1, ElementOfSeq
  <1>2. \A x \in Nat : 1 + (x % 2) \in 1 .. 2
    OBVIOUS
  <1>3. \A j \in 1 .. n : j - 1 \in Nat
    OBVIOUS
  <1>4. \A j \in 1 .. n : Nop[1 + ((j - 1) % 2)] \in NewBytes
    BY <1>1, <1>2, <1>3
  <1>5. Filler(n) \in [1 .. n -> NewBytes]
    BY <1>4 DEF Filler
  <1>6. Filler(n) \in Seq(NewBytes)
    BY <1>5, SeqDef
  <1>. QED
    BY <1>5, <1>6, LenProperties

(* What a thunk begins with.                                               *)
Stub == Mov(1) \o Jmp \o Nop

LEMMA StubIs ==
  /\ Stub \in Seq(NewBytes) /\ Len(Stub) = 6
  /\ Stub[1] = Byte("mov", 1, 0) /\ Stub[3] = Jmp[1] /\ Stub[4] = Jmp[2]
  /\ Stub[5] = Nop[1] /\ Stub[6] = Nop[2]
  <1>1. /\ Mov(1) \in Seq(NewBytes) /\ Len(Mov(1)) = 2 /\ Mov(1)[1] = Byte("mov", 1, 0)
        /\ Jmp \in Seq(NewBytes) /\ Len(Jmp) = 2 /\ Nop \in Seq(NewBytes) /\ Len(Nop) = 2
    BY PiecesAre
  <1>2. PICK m : m = Mov(1) \o Jmp
    OBVIOUS
  <1>3. /\ m \in Seq(NewBytes) /\ Len(m) = 4
        /\ m[1] = Byte("mov", 1, 0) /\ m[3] = Jmp[1] /\ m[4] = Jmp[2]
    <2>1. /\ m \in Seq(NewBytes) /\ Len(m) = Len(Mov(1)) + Len(Jmp)
          /\ \A x \in 1 .. Len(Mov(1)) : m[x] = Mov(1)[x]
          /\ \A x \in 1 .. Len(Jmp) : m[Len(Mov(1)) + x] = Jmp[x]
      BY <1>1, <1>2, Joined
    <2>2. /\ \A x \in 1 .. 2 : m[x] = Mov(1)[x]
          /\ \A x \in 1 .. 2 : m[2 + x] = Jmp[x]
      BY <1>1, <2>1
    <2>3. m[1] = Mov(1)[1] /\ m[2 + 1] = Jmp[1] /\ m[2 + 2] = Jmp[2]
      BY <2>2
    <2>4. m[1] = Byte("mov", 1, 0) /\ m[3] = Jmp[1] /\ m[4] = Jmp[2]
      BY <1>1, <2>3
    <2>. QED
      BY <1>1, <2>1, <2>4
  <1>4. PICK h : h = m \o Nop
    OBVIOUS
  <1>5. /\ h \in Seq(NewBytes) /\ Len(h) = 6
        /\ h[1] = Byte("mov", 1, 0) /\ h[3] = Jmp[1] /\ h[4] = Jmp[2]
        /\ h[5] = Nop[1] /\ h[6] = Nop[2]
    <2>1. /\ h \in Seq(NewBytes) /\ Len(h) = Len(m) + Len(Nop)
          /\ \A x \in 1 .. Len(m) : h[x] = m[x]
          /\ \A x \in 1 .. Len(Nop) : h[Len(m) + x] = Nop[x]
      BY <1>1, <1>3, <1>4, Joined
    <2>2. /\ \A x \in 1 .. 4 : h[x] = m[x]
          /\ \A x \in 1 .. 2 : h[4 + x] = Nop[x]
      BY <1>1, <1>3, <2>1
    <2>3. h[1] = m[1] /\ h[3] = m[3] /\ h[4] = m[4] /\ h[4 + 1] = Nop[1] /\ h[4 + 2] = Nop[2]
      BY <2>2
    <2>4. h[1] = Byte("mov", 1, 0) /\ h[3] = Jmp[1] /\ h[4] = Jmp[2] /\ h[5] = Nop[1] /\ h[6] = Nop[2]
      BY <1>3, <2>3
    <2>. QED
      BY <1>1, <1>3, <2>1, <2>4
  <1>. QED
    BY <1>2, <1>4, <1>5 DEF Stub

LEMMA ThunkIs ==
  ASSUME NEW d \in DefType, d.at % 2 = 0
  PROVE  \E o \in Nat :
         /\ Slot(d.at) = d.at + o /\ o \in {6, 8}
         /\ Thunk(d) \in Seq(NewBytes) /\ Len(Thunk(d)) = o + 4
         /\ Thunk(d)[1] = Byte("mov", 1, 0)
         /\ Thunk(d)[3] = Jmp[1] /\ Thunk(d)[4] = Jmp[2]
         /\ Thunk(d)[5] = Nop[1] /\ Thunk(d)[6] = Nop[2]
         /\ \A j \in 1 .. 4 : Thunk(d)[o + j] = Word(d.to)[j]
  <1>1. PICK fn \in Nat : fn = d.at /\ fn % 2 = 0
    BY DefIs
  <1>2. PICK n \in Nat : n = Slot(fn) - (fn + 6) /\ (n = 0 \/ n = 2)
    BY SlotIs, <1>1
  <1>3. Slot(fn) = fn + (6 + n)
    BY SlotIs, <1>1, <1>2
  <1>4. PICK w : /\ w = Word(d.to) /\ w \in Seq(NewBytes) /\ Len(w) = 4
    BY DefIs, PiecesAre
  <1>5. Thunk(d) = Stub \o Filler(n) \o w
    BY <1>1, <1>2, <1>4, SlotIs DEF Thunk, Stub
  <1>6. PICK f : f = Filler(n) /\ f \in Seq(NewBytes) /\ Len(f) = n
    BY FillerIs
  <1>7. PICK g : g = Stub \o f
    OBVIOUS
  <1>8. /\ g \in Seq(NewBytes) /\ Len(g) = 6 + n
        /\ \A x \in 1 .. 6 : g[x] = Stub[x]
    <2>1. /\ g \in Seq(NewBytes) /\ Len(g) = Len(Stub) + Len(f)
          /\ \A x \in 1 .. Len(Stub) : g[x] = Stub[x]
      BY <1>6, <1>7, StubIs, Joined
    <2>. QED
      BY <1>6, <2>1, StubIs
  <1>9. PICK t : t = g \o w
    OBVIOUS
  <1>10. /\ t \in Seq(NewBytes) /\ Len(t) = 6 + n + 4
         /\ \A x \in 1 .. 6 + n : t[x] = g[x]
         /\ \A x \in 1 .. 4 : t[6 + n + x] = w[x]
    <2>1. /\ t \in Seq(NewBytes) /\ Len(t) = Len(g) + Len(w)
          /\ \A x \in 1 .. Len(g) : t[x] = g[x]
          /\ \A x \in 1 .. Len(w) : t[Len(g) + x] = w[x]
      <3>1. g \in Seq(NewBytes) /\ w \in Seq(NewBytes)
        BY <1>4, <1>8
      <3>. QED
        BY <3>1, <1>9, Joined
    <2>2. Len(g) = 6 + n /\ Len(w) = 4
      BY <1>4, <1>8
    <2>3. Len(t) = 6 + n + 4
      BY <2>1, <2>2
    <2>4. \A x \in 1 .. 6 + n : t[x] = g[x]
      BY <2>1, <2>2
    <2>5. \A x \in 1 .. 4 : t[6 + n + x] = w[x]
      BY <2>1, <2>2
    <2>. QED
      BY <2>1, <2>3, <2>4, <2>5
  <1>11. \A x \in 1 .. 6 : t[x] = Stub[x]
    <2>1. \A x \in 1 .. 6 : x \in 1 .. 6 + n
      OBVIOUS
    <2>. QED
      BY <1>8, <1>10, <2>1
  <1>12. /\ t[1] = Byte("mov", 1, 0) /\ t[3] = Jmp[1] /\ t[4] = Jmp[2]
         /\ t[5] = Nop[1] /\ t[6] = Nop[2]
    BY <1>11, StubIs
  <1>13. Thunk(d) = t
    BY <1>5, <1>6, <1>7, <1>9
  <1>14. PICK o \in Nat : o = 6 + n
    OBVIOUS
  <1>15. Slot(d.at) = d.at + o
    BY <1>1, <1>3, <1>14
  <1>16. o \in {6, 8}
    BY <1>2, <1>14
  <1>17. t \in Seq(NewBytes) /\ Len(t) = o + 4
    BY <1>10, <1>14
  <1>18. \A j \in 1 .. 4 : t[o + j] = Word(d.to)[j]
    BY <1>4, <1>10, <1>14
  <1>. QED
    BY <1>12, <1>13, <1>14, <1>15, <1>16, <1>17, <1>18

LEMMA NewIs ==
  ASSUME NEW d \in DefType, d.at % 2 = 0
  PROVE  /\ New(d) \in Seq(NewBytes) /\ Len(New(d)) \in Nat /\ DOMAIN New(d) = 1 .. Len(New(d))
         /\ \A j \in DOMAIN New(d) : New(d)[j] \in NewBytes
         /\ Span(d) = {d.at + j - 1 : j \in DOMAIN New(d)}
  <1>1. New(d) \in Seq(NewBytes)
    <2>1. CASE d.kind = "hook"
      BY <2>1, DefIs, ThunkIs DEF New
    <2>2. CASE d.kind = "word"
      BY <2>2, DefIs, PiecesAre DEF New
    <2>3. CASE d.kind = "insn"
      <3>1. \A j \in 1 .. 2 : Word(d.to)[j] \in NewBytes
        BY DefIs, PiecesAre
      <3>2. SubSeq(Word(d.to), 1, 2) \in Seq(NewBytes)
        BY <3>1, SubSeqProperties
      <3>. QED
        BY <2>3, <3>2 DEF New
    <2>. QED
      BY <2>1, <2>2, <2>3, DefIs
  <1>2. Len(New(d)) \in Nat /\ DOMAIN New(d) = 1 .. Len(New(d))
        /\ \A j \in DOMAIN New(d) : New(d)[j] \in NewBytes
    BY <1>1, LenProperties
  <1>3. Span(d) = {d.at + j - 1 : j \in DOMAIN New(d)}
    <2>1. PICK a \in Nat, l \in Nat : a = d.at /\ l = Len(New(d))
      BY <1>2, DefIs
    <2>2. a .. (a + l - 1) = {a + j - 1 : j \in 1 .. l}
      <3>1. \A x \in a .. (a + l - 1) : x - a + 1 \in 1 .. l /\ x = a + (x - a + 1) - 1
        OBVIOUS
      <3>2. \A j \in 1 .. l : a + j - 1 \in a .. (a + l - 1)
        OBVIOUS
      <3>. QED
        BY <3>1, <3>2
    <2>. QED
      BY <1>2, <2>1, <2>2 DEF Span
  <1>. QED
    BY <1>1, <1>2, <1>3

(* The patch of a definition in the list.                                  *)
LEMMA PatchIs ==
  ASSUME defs \in Scripts
  PROVE  \A k \in Ids :
           /\ Len(New(defs[k])) \in Nat /\ DOMAIN New(defs[k]) = 1 .. Len(New(defs[k]))
           /\ \A j \in DOMAIN New(defs[k]) : New(defs[k])[j] \in NewBytes
           /\ Span(defs[k]) = {defs[k].at + j - 1 : j \in DOMAIN New(defs[k])}
  BY DefsAre, NewIs

-----------------------------------------------------------------------------
(* The table and the image.                                                *)
Prefix(n) == [k \in 1 .. n |-> Emitted(defs[k])]

LEMMA PrefixGrows ==
  ASSUME NEW n \in Nat
  PROVE  /\ Append(Prefix(n), Emitted(defs[n + 1])) = Prefix(n + 1)
         /\ Len(Prefix(n + 1)) = n + 1
  <1>. DEFINE S == {Emitted(defs[k]) : k \in Int}
  <1>1. \A m \in Nat : Prefix(m) \in [1 .. m -> S]
    BY DEF Prefix
  <1>. HIDE DEF S
  <1>2. \A m \in Nat : Prefix(m) \in Seq(S)
    BY <1>1, SeqDef
  <1>3. \A m \in Nat : Len(Prefix(m)) = m
    BY <1>1, <1>2, LenProperties
  <1>4. Emitted(defs[n + 1]) \in S
    BY DEF S
  <1>5. PICK s : s = Append(Prefix(n), Emitted(defs[n + 1]))
    OBVIOUS
  <1>6. /\ s \in Seq(S) /\ Len(s) = n + 1
        /\ \A m \in 1 .. n : s[m] = Prefix(n)[m]
        /\ s[n + 1] = Emitted(defs[n + 1])
    BY <1>2, <1>3, <1>4, <1>5, AppendProperties
  <1>7. \A m \in 1 .. n + 1 : s[m] = Prefix(n + 1)[m]
    <2>1. \A m \in 1 .. n : Prefix(n)[m] = Emitted(defs[m]) /\ Prefix(n + 1)[m] = Emitted(defs[m])
      BY DEF Prefix
    <2>2. Prefix(n + 1)[n + 1] = Emitted(defs[n + 1])
      BY DEF Prefix
    <2>3. \A m \in 1 .. n + 1 : m \in 1 .. n \/ m = n + 1
      OBVIOUS
    <2>. QED
      BY <1>6, <2>1, <2>2, <2>3
  <1>8. s \in [1 .. n + 1 -> S]
    BY <1>6, LenProperties
  <1>9. s = Prefix(n + 1)
    BY <1>1, <1>7, <1>8
  <1>. QED
    BY <1>3, <1>5, <1>9

(* Where the bytes of a patch go.                                          *)
LEMMA SpanIs ==
  ASSUME defs \in Scripts, NEW k \in Ids
  PROVE  /\ \A j \in DOMAIN New(defs[k]) :
              /\ defs[k].at + j - 1 \in Span(defs[k]) /\ defs[k].at + j - 1 \in Touched
              /\ (defs[k].at + j - 1) - defs[k].at + 1 = j
         /\ \A a \in Span(defs[k]) : \E j \in DOMAIN New(defs[k]) : a = defs[k].at + j - 1
         /\ \A a \in Touched : a - defs[k].at + 1 \in DOMAIN New(defs[k]) <=> a \in Span(defs[k])
  <1>1. PICK fn \in Nat, l \in Nat : fn = defs[k].at /\ l = Len(New(defs[k]))
    BY DefsAre, PatchIs
  <1>2. DOMAIN New(defs[k]) = 1 .. l /\ Span(defs[k]) = fn .. (fn + l - 1) /\ Span(defs[k]) \subseteq Touched
    <2>1. Span(defs[k]) = fn .. (fn + l - 1)
      BY <1>1 DEF Span
    <2>. QED
      BY <1>1, <2>1, DefsAre, PatchIs
  <1>3. Touched \subseteq Int
    <2>1. \A m \in Ids : Span(defs[m]) \subseteq Int
      BY DEF Span
    <2>. QED
      BY <2>1 DEF Touched, Patched, Ids
  <1>4. \A j \in 1 .. l : fn + j - 1 \in fn .. (fn + l - 1) /\ (fn + j - 1) - fn + 1 = j
    OBVIOUS
  <1>5. \A a \in fn .. (fn + l - 1) : a - fn + 1 \in 1 .. l /\ a = fn + (a - fn + 1) - 1
    OBVIOUS
  <1>6. \A a \in Int : a - fn + 1 \in 1 .. l <=> a \in fn .. (fn + l - 1)
    OBVIOUS
  <1>7. \A j \in DOMAIN New(defs[k]) :
          /\ defs[k].at + j - 1 \in Span(defs[k]) /\ defs[k].at + j - 1 \in Touched
          /\ (defs[k].at + j - 1) - defs[k].at + 1 = j
    BY <1>1, <1>2, <1>4
  <1>8. \A a \in Span(defs[k]) : \E j \in DOMAIN New(defs[k]) : a = defs[k].at + j - 1
    BY <1>1, <1>2, <1>5
  <1>9. \A a \in Touched : a - defs[k].at + 1 \in DOMAIN New(defs[k]) <=> a \in Span(defs[k])
    BY <1>1, <1>2, <1>3, <1>6
  <1>. QED
    BY <1>7, <1>8, <1>9

LEMMA TableIs ==
  ASSUME TypeOK
  PROVE  /\ Len(table) \in Nat /\ table = Prefix(Len(table))
         /\ \A k \in 1 .. Len(table) : table[k] = Emitted(defs[k])
  BY DEF TypeOK, Prefix

(* A patch matches where the image still holds the old bytes.              *)
LEMMA MatchIs ==
  ASSUME defs \in Scripts, NEW k \in Ids
  PROVE  Matches(Emitted(defs[k])) <=>
           \A j \in DOMAIN New(defs[k]) : image[defs[k].at + j - 1] = Rom(defs[k].at + j - 1)
  <1>1. /\ Emitted(defs[k]).at = defs[k].at /\ Emitted(defs[k]).old = Old(defs[k])
        /\ DOMAIN Old(defs[k]) = DOMAIN New(defs[k])
        /\ \A j \in DOMAIN New(defs[k]) : Old(defs[k])[j] = Rom(defs[k].at + j - 1)
    BY PatchIs DEF Emitted, Old
  <1>. QED
    BY <1>1 DEF Matches

LEMMA DiscIs ==
  \A a : OnDisc(a) = Rom(a) <=> a # diff
  BY DEF OnDisc, Rom, Byte

-----------------------------------------------------------------------------
(* The invariant.                                                          *)
LEMMA Initially == PatchInit => LoadInv
  <1>. SUFFICES ASSUME PatchInit PROVE LoadInv
    OBVIOUS
  <1>1. Len(table) = 0 /\ table = [k \in 1 .. Len(table) |-> Emitted(defs[k])]
    BY DEF PatchInit
  <1>2. defs \in Scripts /\ Len(defs) \in Nat /\ Ids = 1 .. Len(defs)
    BY DefsAre DEF PatchInit
  <1>3. TypeOK
    BY <1>1, <1>2 DEF PatchInit, TypeOK
  <1>4. StageInv
    BY <1>1 DEF PatchInit, StageInv
  <1>5. ImageInv
    BY <1>2 DEF PatchInit, ImageInv
  <1>. QED
    BY <1>3, <1>4, <1>5 DEF LoadInv

LEMMA DefinePreserves ==
  ASSUME LoadInv, Define
  PROVE  LoadInv'
  <1>1. PICK n \in Nat : /\ n = Len(table) /\ n + 1 \in Ids /\ n < Len(defs)
                         /\ table = Prefix(n) /\ Len(defs) \in Nat
    <2>1. Len(defs) \in Nat /\ Ids = 1 .. Len(defs)
      BY DefsAre DEF LoadInv, TypeOK
    <2>. QED
      BY <2>1, TableIs DEF LoadInv, Define
  <1>2. /\ i = 1 /\ pc = "build"
        /\ UNCHANGED <<defs, diff, image, i>>
    BY DEF LoadInv, StageInv, Define
  <1>3. CASE InImage(defs[n + 1]) /\ Expected(defs[n + 1])
    <2>1. table' = Append(Prefix(n), Emitted(defs[n + 1])) /\ pc' = pc /\ Expected(defs[n + 1])
      BY <1>1, <1>3 DEF Define
    <2>2. table' = Prefix(n + 1) /\ Len(table') = n + 1
      BY <2>1, PrefixGrows
    <2>3. TypeOK'
      <3>1. table' = [k \in 1 .. Len(table') |-> Emitted(defs[k])]
        <4>1. Prefix(n + 1) = [k \in 1 .. n + 1 |-> Emitted(defs[k])]
          BY DEF Prefix
        <4>. QED
          BY <2>2, <4>1, Zenon
      <3>2. Len(table') \in 0 .. Len(defs) /\ i' \in 1 .. Len(table') + 1
        BY <1>1, <1>2, <2>2
      <3>. QED
        BY <1>1, <1>2, <2>1, <3>1, <3>2 DEF LoadInv, TypeOK, Touched
    <2>4. \A k \in 1 .. n + 1 : Expected(defs[k])
      <3>1. \A k \in 1 .. n + 1 : k \in 1 .. n \/ k = n + 1
        OBVIOUS
      <3>. QED
        BY <1>1, <2>1, <3>1 DEF LoadInv, StageInv
    <2>5. StageInv'
      BY <1>2, <2>1, <2>2, <2>4 DEF StageInv
    <2>6. ImageInv'
      BY <1>2 DEF LoadInv, ImageInv, OnDisc, Ids, Touched
    <2>. QED
      BY <2>3, <2>5, <2>6 DEF LoadInv
  <1>4. CASE ~(InImage(defs[n + 1]) /\ Expected(defs[n + 1]))
    <2>1. table' = <<>> /\ pc' = "failed"
      BY <1>1, <1>4 DEF Define
    <2>2. table' = [k \in 1 .. Len(table') |-> Emitted(defs[k])] /\ Len(table') = 0
      BY <2>1
    <2>3. TypeOK'
      BY <1>1, <1>2, <2>1, <2>2 DEF LoadInv, TypeOK, Touched
    <2>4. StageInv'
      BY <1>2, <2>1, <2>2 DEF StageInv
    <2>5. ImageInv'
      BY <1>2 DEF LoadInv, ImageInv, OnDisc, Ids, Touched
    <2>. QED
      BY <2>3, <2>4, <2>5 DEF LoadInv
  <1>. QED
    BY <1>3, <1>4

LEMMA EmitPreserves ==
  ASSUME LoadInv, Emit
  PROVE  LoadInv'
  <1>1. TypeOK'
    BY DEF LoadInv, TypeOK, Touched, Emit
  <1>2. StageInv'
    BY DEF LoadInv, StageInv, Emit
  <1>3. ImageInv'
    BY DEF LoadInv, ImageInv, OnDisc, Ids, Touched, Emit
  <1>. QED
    BY <1>1, <1>2, <1>3 DEF LoadInv

LEMMA StartPreserves ==
  ASSUME LoadInv, Start
  PROVE  LoadInv'
  <1>1. TypeOK'
    BY DEF LoadInv, TypeOK, Touched, Start
  <1>2. StageInv'
    BY DEF LoadInv, StageInv, Start, Finished
  <1>3. ImageInv'
    BY DEF LoadInv, ImageInv, OnDisc, Ids, Touched, Start
  <1>. QED
    BY <1>1, <1>2, <1>3 DEF LoadInv

(* A patch that matches lies where no earlier patch does, for an earlier   *)
(* one left bytes that are none of the image's.                            *)
LEMMA ApplyPreserves ==
  ASSUME LoadInv, Apply
  PROVE  LoadInv'
  <1>1. /\ i \in Ids /\ i \in 1 .. Len(table) /\ table[i] = Emitted(defs[i])
        /\ Len(table) = Len(defs) /\ i \in Nat /\ Len(table) \in Nat
        /\ pc = "apply" /\ UNCHANGED <<defs, diff, table>>
    <2>1. Len(defs) \in Nat /\ Ids = 1 .. Len(defs)
      BY DefsAre DEF LoadInv, TypeOK
    <2>2. pc = "apply" /\ Len(table) = Len(defs) /\ i \in 1 .. Len(table) + 1 /\ i # Len(table) + 1
      BY DEF LoadInv, TypeOK, StageInv, Apply, Finished
    <2>3. i \in 1 .. Len(table)
      BY <2>1, <2>2
    <2>. QED
      BY <2>1, <2>2, <2>3, TableIs DEF LoadInv, Apply
  <1>0. /\ defs \in Scripts
        /\ \A k \in Ids : Span(defs[k]) \subseteq Touched
        /\ \A k \in Ids : k \in Nat
    BY DefsAre DEF LoadInv, TypeOK
  <1>2. CASE ~Matches(Emitted(defs[i]))
    <2>1. pc' = "mismatch" /\ UNCHANGED <<image, i>>
      BY <1>1, <1>2 DEF Apply
    <2>2. TypeOK'
      BY <1>1, <2>1 DEF LoadInv, TypeOK, Touched
    <2>3. StageInv'
      BY <1>1, <1>2, <2>1 DEF LoadInv, StageInv, Matches, Ids
    <2>4. ImageInv'
      BY <1>1, <2>1 DEF LoadInv, ImageInv, OnDisc, Ids, Touched
    <2>. QED
      BY <2>2, <2>3, <2>4 DEF LoadInv
  <1>3. CASE Matches(Emitted(defs[i]))
    <2>. DEFINE at(k, j) == defs[k].at + j - 1
    <2>1. Store(Emitted(defs[i])) /\ i' = i + 1 /\ pc' = pc
      BY <1>1, <1>3 DEF Apply
    <2>2. \A j \in DOMAIN New(defs[i]) : image[at(i, j)] = Rom(at(i, j))
      BY <1>1, <1>3, <1>0, MatchIs
    <2>3. \A a \in Span(defs[i]) : image[a] = Rom(a)
      BY <1>1, <1>0, <2>2, SpanIs
    <2>4. \A k \in Ids : k < i => \A j \in DOMAIN New(defs[k]) :
            image[at(k, j)] = New(defs[k])[j] /\ diff # at(k, j)
      BY DEF LoadInv, ImageInv
    <2>5. \A k \in Ids : k < i => \A a \in Span(defs[k]) : image[a] # Rom(a)
      <3>1. ASSUME NEW k \in Ids, k < i, NEW a \in Span(defs[k])
            PROVE  image[a] # Rom(a)
        <4>1. PICK j \in DOMAIN New(defs[k]) : a = at(k, j)
          BY <1>0, SpanIs
        <4>. QED
          BY <1>0, <2>4, <3>1, <4>1, PatchIs, RomIsOld
      <3>. QED
        BY <3>1
    <2>6. \A k \in Ids : k < i => Span(defs[k]) \cap Span(defs[i]) = {}
      BY <2>3, <2>5
    <2>7. /\ \A a \in Touched : a \notin Span(defs[i]) => image'[a] = image[a]
          /\ \A j \in DOMAIN New(defs[i]) : image'[at(i, j)] = New(defs[i])[j]
          /\ DOMAIN image' = Touched
      <3>1. image' = [a \in Touched |->
                        IF a - defs[i].at + 1 \in DOMAIN New(defs[i])
                        THEN New(defs[i])[a - defs[i].at + 1] ELSE image[a]]
        BY <2>1 DEF Store, Emitted
      <3>. QED
        BY <1>1, <1>0, <3>1, SpanIs
    <2>8. \A j \in DOMAIN New(defs[i]) : diff # at(i, j)
      <3>1. \A a \in Span(defs[i]) : \A k \in Ids : k < i => a \notin Span(defs[k])
        BY <2>6
      <3>2. \A a \in Span(defs[i]) : a \in Touched
        BY <1>1, <1>0
      <3>3. \A a \in Span(defs[i]) : image[a] = OnDisc(a)
        BY <3>1, <3>2 DEF LoadInv, ImageInv
      <3>4. \A a \in Span(defs[i]) : a # diff
        BY <2>3, <3>3, DiscIs
      <3>. QED
        BY <1>1, <1>0, <3>4, SpanIs
    <2>9. \A k \in Ids : k < i + 1 => k < i \/ k = i
      BY <1>1, <1>0
    <2>10. \A k \in Ids : k < i => \A j \in DOMAIN New(defs[k]) : image'[at(k, j)] = New(defs[k])[j]
      <3>1. \A k \in Ids : k < i => \A j \in DOMAIN New(defs[k]) : at(k, j) \in Touched /\ at(k, j) \notin Span(defs[i])
        BY <1>0, <2>6, SpanIs
      <3>. QED
        BY <2>4, <2>7, <3>1
    <2>11. TypeOK'
      <3>1. i' \in 1 .. Len(table') + 1
        BY <1>1, <2>1
      <3>. QED
        BY <1>1, <2>1, <2>7, <3>1 DEF LoadInv, TypeOK, Touched
    <2>12. StageInv'
      BY <1>1, <2>1 DEF LoadInv, StageInv
    <2>13. ImageInv'
      <3>1. \A k \in Ids : k < i' => \A j \in DOMAIN New(defs[k]) :
               image'[at(k, j)] = New(defs[k])[j] /\ diff' # at(k, j)
        BY <1>1, <2>1, <2>4, <2>7, <2>8, <2>9, <2>10
      <3>2. ASSUME NEW a \in Touched, \A k \in Ids : k < i' => a \notin Span(defs[k])
            PROVE  image'[a] = OnDisc(a)'
        <4>1. \A k \in Ids : k < i => k < i'
          BY <1>1, <1>0, <2>1
        <4>2. a \notin Span(defs[i])
          BY <1>1, <2>1, <3>2
        <4>3. image'[a] = image[a]
          BY <2>7, <4>2
        <4>4. image[a] = OnDisc(a)
          BY <3>2, <4>1 DEF LoadInv, ImageInv
        <4>. QED
          BY <1>1, <4>3, <4>4 DEF OnDisc
      <3>3. ASSUME NEW k \in Ids, NEW l \in Ids, k < l, l < i'
            PROVE  Span(defs[k]) \cap Span(defs[l]) = {}
        <4>1. l < i \/ l = i
          BY <1>1, <1>0, <2>1, <3>3
        <4>2. CASE l < i
          BY <3>3, <4>2 DEF LoadInv, ImageInv
        <4>3. CASE l = i
          BY <2>6, <3>3, <4>3
        <4>. QED
          BY <4>1, <4>2, <4>3
      <3>4. Ids' = Ids /\ Touched' = Touched /\ defs' = defs
        BY <1>1 DEF Ids, Touched
      <3>. QED
        BY <3>1, <3>2, <3>3, <3>4 DEF ImageInv
    <2>. QED
      BY <2>11, <2>12, <2>13 DEF LoadInv
  <1>. QED
    BY <1>2, <1>3

(* Whichever definition slipped and however the disc's image differs,      *)
(* the bytes of the applied patches are in the image and are what the disc *)
(* had there before; the rest is as on the disc.                           *)
THEOREM Invariance == PatchSpec => []LoadInv
  <1>1. LoadInv /\ UNCHANGED patchVars => LoadInv'
    <2>. SUFFICES ASSUME LoadInv, UNCHANGED patchVars PROVE LoadInv'
      OBVIOUS
    <2>1. TypeOK'
      BY DEF LoadInv, TypeOK, Touched, patchVars
    <2>2. StageInv'
      BY DEF LoadInv, StageInv, patchVars, Finished, Matches, Ids
    <2>3. ImageInv'
      BY DEF LoadInv, ImageInv, OnDisc, Ids, Touched, patchVars
    <2>. QED
      BY <2>1, <2>2, <2>3 DEF LoadInv
  <1>2. LoadInv /\ [PatchNext]_patchVars => LoadInv'
    BY <1>1, DefinePreserves, EmitPreserves, ApplyPreserves, StartPreserves DEF PatchNext
  <1>. QED
    BY <1>2, Initially, PTL DEF PatchSpec
-----------------------------------------------------------------------------
(* What a started image is.                                                *)
LEMMA Started ==
  ASSUME LoadInv, pc = "started"
  PROVE  OnlyLookalikes /\ StartedIsPatched /\ ForeignHalts
  <1>1. defs \in Scripts /\ Len(defs) \in Nat /\ Ids = 1 .. Len(defs) /\ Len(table) = Len(defs)
    BY DefsAre DEF LoadInv, TypeOK, StageInv
  <1>2. \A k \in Ids : k < i
    <2>1. i = Len(defs) + 1
      BY DEF LoadInv, StageInv, Finished
    <2>. QED
      BY <1>1, <2>1
  <1>3. \A k \in Ids : \A j \in DOMAIN New(defs[k]) :
          image[defs[k].at + j - 1] = New(defs[k])[j] /\ diff # defs[k].at + j - 1
    BY <1>2 DEF LoadInv, ImageInv
  <1>4. \A k \in Ids : diff \notin Span(defs[k])
    BY <1>1, <1>3, SpanIs
  <1>5. diff \notin Touched
    BY <1>4 DEF Touched, Patched, Ids
  <1>6. \A k \in Ids : Expected(defs[k])
    BY <1>1 DEF LoadInv, StageInv
  <1>7. ASSUME NEW k \in Ids, NEW l \in Ids, k # l
        PROVE  Span(defs[k]) \cap Span(defs[l]) = {}
    <2>1. k < l \/ l < k
      BY <1>1, <1>7
    <2>. QED
      BY <1>2, <2>1 DEF LoadInv, ImageInv
  <1>8. Disjoint(defs)
    BY <1>7 DEF Disjoint, Ids
  <1>. QED
    BY <1>3, <1>5, <1>6, <1>8
    DEF OnlyLookalikes, StartedIsPatched, ForeignHalts, LoadInv, TypeOK

LEMMA LoadInvHolds == LoadInv => TableInv /\ StartedIsPatched
  <1>1. LoadInv => TypeOK
    BY DEF LoadInv
  <1>2. LoadInv => OnlyLookalikes /\ ForeignHalts /\ StartedIsPatched
    BY Started DEF OnlyLookalikes, ForeignHalts, StartedIsPatched
  <1>. QED
    BY <1>1, <1>2 DEF TableInv

(* Whatever list was transcribed: in a started image no patch lies in      *)
(* another's place, none where the boot image begins otherwise than its    *)
(* definition says, and none on a byte in which the disc differs           *)
(* (build_patch_table.py:70-107, loader/main.c:123-136).                   *)
THEOREM SlipsAreCaught == PatchSpec => []TableInv
  <1>. QED
    BY Invariance, LoadInvHolds, PTL

(* A started image has every byte of every patch: a patch that matched     *)
(* cannot have lain over an earlier one (loader/main.c:112-139).           *)
THEOREM PatchedWhole == PatchSpec => []StartedIsPatched
  <1>. QED
    BY Invariance, LoadInvHolds, PTL

(* The image the table was made from is never refused, if no two of the    *)
(* script's definitions touch one byte (loader/main.c:126-130).            *)
THEOREM PristineIsStarted == ASSUME Disjoint(Script) PROVE PatchSpec => []PristineStarts
  <1>1. ASSUME LoadInv, pc = "mismatch", defs = Script
        PROVE  diff # NoDiff
    <2>0. defs \in Scripts
      BY <1>1 DEF LoadInv, TypeOK
    <2>1. i \in Ids /\ ~Matches(Emitted(defs[i]))
      BY <1>1 DEF LoadInv, StageInv
    <2>2. PICK j \in DOMAIN New(defs[i]) : image[defs[i].at + j - 1] # Rom(defs[i].at + j - 1)
      BY <2>1, <2>0, MatchIs
    <2>3. PICK a \in Span(defs[i]) : a \in Touched /\ image[a] # Rom(a)
      BY <2>1, <2>2, <2>0, SpanIs
    <2>4. \A k \in Ids : k < i => a \notin Span(defs[k])
      <3>1. \A k \in Ids : k < i => k # i
        BY <2>1, <2>0, DefsAre
      <3>. QED
        BY <1>1, <2>1, <3>1 DEF Disjoint, Ids
    <2>5. image[a] = OnDisc(a)
      BY <1>1, <2>3, <2>4 DEF LoadInv, ImageInv
    <2>6. a = diff
      BY <2>3, <2>5, DiscIs
    <2>. QED
      BY <2>3, <2>6, <2>0, DefsAre
  <1>2. LoadInv => PristineStarts
    BY <1>1 DEF PristineStarts
  <1>. QED
    BY <1>2, Invariance, PTL

(* In a started image every hook leads to its shim function, wherever it   *)
(* lies in a word (build_patch_table.py:89-107).                           *)
THEOREM HooksLead == PatchSpec => []HooksReach
  <1>1. ASSUME LoadInv, pc = "started", NEW k \in Ids, defs[k].kind = "hook"
        PROVE  Reaches(defs[k])
    <2>0. defs \in Scripts
      BY <1>1 DEF LoadInv, TypeOK
    <2>1. PICK fn \in Nat : fn = defs[k].at /\ fn % 2 = 0 /\ defs[k] \in DefType
      BY <2>0, DefsAre
    <2>2. PICK o \in Nat :
            /\ Slot(fn) = fn + o /\ o \in {6, 8}
            /\ Thunk(defs[k]) \in Seq(NewBytes) /\ Len(Thunk(defs[k])) = o + 4
            /\ Thunk(defs[k])[1] = Byte("mov", 1, 0)
            /\ Thunk(defs[k])[3] = Jmp[1] /\ Thunk(defs[k])[4] = Jmp[2]
            /\ Thunk(defs[k])[5] = Nop[1] /\ Thunk(defs[k])[6] = Nop[2]
            /\ \A j \in 1 .. 4 : Thunk(defs[k])[o + j] = Word(defs[k].to)[j]
      BY <2>1, ThunkIs
    <2>3. New(defs[k]) = Thunk(defs[k]) /\ DOMAIN New(defs[k]) = 1 .. o + 4
      BY <1>1, <2>1, <2>2, <2>0, PatchIs DEF New
    <2>4. \A j \in 1 .. o + 4 : image[fn + j - 1] = Thunk(defs[k])[j] /\ fn + j - 1 \in Touched
      <3>1. \A j \in DOMAIN New(defs[k]) : image[defs[k].at + j - 1] = New(defs[k])[j]
        BY <1>1, Started DEF StartedIsPatched
      <3>2. \A j \in DOMAIN New(defs[k]) : defs[k].at + j - 1 \in Touched
        BY <2>0, SpanIs
      <3>. QED
        BY <2>1, <2>3, <3>1, <3>2
    <2>5. \A m \in Nat : m < o + 4 => image[fn + m] = Thunk(defs[k])[m + 1] /\ fn + m \in Touched
      <3>1. \A m \in Nat : m < o + 4 => m + 1 \in 1 .. o + 4 /\ fn + (m + 1) - 1 = fn + m
        BY <2>2
      <3>. QED
        BY <2>4, <3>1
    <2>6. /\ image[fn] = Byte("mov", 1, 0)
          /\ image[fn + 2] = Jmp[1] /\ image[fn + 3] = Jmp[2]
          /\ image[fn + 4] = Nop[1] /\ image[fn + 5] = Nop[2]
      <3>1. image[fn + 0] = Thunk(defs[k])[0 + 1] /\ image[fn + 2] = Thunk(defs[k])[2 + 1]
            /\ image[fn + 3] = Thunk(defs[k])[3 + 1] /\ image[fn + 4] = Thunk(defs[k])[4 + 1]
            /\ image[fn + 5] = Thunk(defs[k])[5 + 1]
        <4>1. 0 < o + 4 /\ 2 < o + 4 /\ 3 < o + 4 /\ 4 < o + 4 /\ 5 < o + 4
          BY <2>2
        <4>. QED
          BY <2>5, <4>1
      <3>2. fn + 0 = fn
        OBVIOUS
      <3>. QED
        BY <2>2, <3>1, <3>2
    <2>7. image[fn][1] = "mov" /\ image[fn][2] = 1
      BY <2>6 DEF Byte
    <2>8. LoadsFrom(fn) = fn + o
      <3>1. 4 + Align(fn) + 4 = Slot(fn)
        BY <2>1, SlotIs
      <3>2. LoadsFrom(fn) = 4 + Align(fn) + 4
        BY <2>7 DEF LoadsFrom
      <3>. QED
        BY <2>2, <3>1, <3>2
    <2>9. \A j \in 1 .. 4 :
            LoadsFrom(fn) + j - 1 \in Touched /\ image[LoadsFrom(fn) + j - 1] = Word(defs[k].to)[j]
      <3>1. \A j \in 1 .. 4 : o + j \in 1 .. o + 4 /\ fn + (o + j) - 1 = fn + o + j - 1
        OBVIOUS
      <3>2. \A j \in 1 .. 4 : fn + o + j - 1 \in Touched /\ image[fn + o + j - 1] = Thunk(defs[k])[o + j]
        BY <2>4, <3>1
      <3>. QED
        BY <2>2, <2>8, <3>2
    <2>10. /\ <<image[fn + 2], image[fn + 3]>> = Jmp
           /\ <<image[fn + 4], image[fn + 5]>> = Nop
      BY <2>6 DEF Jmp, Nop
    <2>. QED
      BY <2>1, <2>7, <2>9, <2>10 DEF Reaches
  <1>2. LoadInv => HooksReach
    BY <1>1 DEF HooksReach
  <1>. QED
    BY <1>2, Invariance, PTL

-----------------------------------------------------------------------------
(* The phases of the commands, and what comes after each.                  *)
After ==
  [clean |-> {"shims", "shims_cdi"}, shims |-> {"loader"}, shims_cdi |-> {"loader_cdi"},
   loader |-> {"gdi"}, loader_cdi |-> {"cdi"}, gdi |-> {}, cdi |-> {"clean"}]
Phases == {"clean", "shims", "loader", "gdi", "shims_cdi", "loader_cdi", "cdi"}

LEMMA Tuples ==
  /\ DiscRun \in Seq(Phases) /\ Len(DiscRun) = 3
  /\ CdiRun \in Seq(Phases) /\ Len(CdiRun) = 5
  /\ <<"clean">> \in Seq(Phases) /\ Len(<<"clean">>) = 1
  BY DEF DiscRun, CdiRun, Phases

LEMMA Appended ==
  ASSUME NEW s \in Seq(Phases), NEW t \in Seq(Phases)
  PROVE  /\ s \o t \in Seq(Phases) /\ Len(s \o t) = Len(s) + Len(t)
         /\ \A x \in 1 .. Len(s) + Len(t) : (s \o t)[x] = IF x <= Len(s) THEN s[x] ELSE t[x - Len(s)]
  BY ConcatProperties

LEMMA CommandsAre ==
  ASSUME NEW c \in Commands
  PROVE  /\ c \in Seq(Phases) /\ Len(c) \in 1 .. 8
         /\ \A n \in 1 .. Len(c) - 1 : c[n + 1] \in After[c[n]]
         /\ c[1] \in {"clean", "shims"} /\ (c = CdiRun \o DiscRun => c[1] = "clean")
  <1>1. CASE c = DiscRun
    <2>1. c[1] = "shims" /\ c[2] = "loader" /\ c[3] = "gdi" /\ Len(c) = 3 /\ c \in Seq(Phases)
      BY <1>1, Tuples DEF DiscRun
    <2>2. c # CdiRun \o DiscRun
      BY <1>1, Tuples, Appended
    <2>. QED
      BY <2>1, <2>2 DEF After
  <1>2. CASE c = CdiRun
    <2>1. c[1] = "clean" /\ c[2] = "shims_cdi" /\ c[3] = "loader_cdi" /\ c[4] = "cdi" /\ c[5] = "clean"
          /\ Len(c) = 5 /\ c \in Seq(Phases)
      BY <1>2, Tuples DEF CdiRun
    <2>. QED
      BY <2>1 DEF After
  <1>3. CASE c = CdiRun \o DiscRun
    <2>. DEFINE j == CdiRun \o DiscRun
    <2>3. j \in Seq(Phases) /\ Len(j) = Len(CdiRun) + Len(DiscRun)
          /\ \A x \in 1 .. Len(CdiRun) + Len(DiscRun) :
               j[x] = IF x <= Len(CdiRun) THEN CdiRun[x] ELSE DiscRun[x - Len(CdiRun)]
      BY Tuples, Appended
    <2>1. c \in Seq(Phases) /\ Len(c) = 8
          /\ \A x \in 1 .. 8 : c[x] = IF x <= 5 THEN CdiRun[x] ELSE DiscRun[x - 5]
      BY <1>3, <2>3, Tuples
    <2>2. /\ c[1] = "clean" /\ c[2] = "shims_cdi" /\ c[3] = "loader_cdi" /\ c[4] = "cdi"
          /\ c[5] = "clean" /\ c[6] = "shims" /\ c[7] = "loader" /\ c[8] = "gdi"
      BY <2>1 DEF CdiRun, DiscRun
    <2>. QED
      BY <2>1, <2>2 DEF After
  <1>4. CASE c = <<"clean">>
    BY <1>4, Tuples
  <1>. QED
    BY <1>1, <1>2, <1>3, <1>4 DEF Commands

(* What is left of a command, from phase n on.                             *)
LEMMA RestIs ==
  ASSUME NEW c \in Seq(Phases), NEW n \in Nat \ {0}
  PROVE  LET r == SubSeq(c, n, Len(c)) IN
         /\ r # <<>> <=> n <= Len(c)
         /\ r # <<>> => Head(r) = c[n] /\ Tail(r) = SubSeq(c, n + 1, Len(c))
  <1>. DEFINE r == SubSeq(c, n, Len(c))
  <1>1. CASE n <= Len(c)
    <2>3. n \in 1 .. Len(c) /\ Len(c) \in n .. Len(c)
      BY <1>1
    <2>1. r # <<>>
      <3>1. Len(r) # 0
        BY <2>3
      <3>2. \A s : Len(s) # 0 => s # <<>>
        OBVIOUS
      <3>. QED
        BY <3>1, <3>2, Zenon
    <2>2. Head(r) = c[n] /\ Tail(r) = SubSeq(c, n + 1, Len(c))
      BY <2>3, HeadTailOfSubSeq
    <2>. QED
      BY <1>1, <2>1, <2>2
  <1>2. CASE n > Len(c)
    BY <1>2
  <1>. QED
    BY <1>1, <1>2

LEMMA PhasesFollow ==
  ASSUME NEW r, Rest(r), r # <<>>
  PROVE  /\ Rest(Tail(r)) /\ Head(r) \in Phases
         /\ Tail(r) # <<>> => Head(Tail(r)) \in After[Head(r)]
  <1>1. PICK c \in Commands : \E n \in 1 .. Len(c) + 1 : r = SubSeq(c, n, Len(c))
    BY DEF Rest
  <1>2. c \in Seq(Phases) /\ Len(c) \in Nat
    BY CommandsAre
  <1>3. PICK n \in 1 .. Len(c) + 1 : r = SubSeq(c, n, Len(c))
    BY <1>1
  <1>4. n \in Nat \ {0} /\ n + 1 \in Nat \ {0}
    BY <1>2
  <1>5. n <= Len(c) /\ Head(r) = c[n] /\ Tail(r) = SubSeq(c, n + 1, Len(c))
    BY <1>2, <1>3, <1>4, RestIs
  <1>6. n + 1 \in 1 .. Len(c) + 1
    BY <1>2, <1>5
  <1>7. Rest(Tail(r))
    BY <1>5, <1>6 DEF Rest
  <1>8. Tail(r) # <<>> => n \in 1 .. Len(c) - 1 /\ Head(Tail(r)) = c[n + 1]
    <2>1. Tail(r) # <<>> => n + 1 <= Len(c) /\ Head(Tail(r)) = c[n + 1]
      BY <1>2, <1>4, <1>5, RestIs
    <2>. QED
      BY <1>2, <2>1
  <1>9. Head(r) \in Phases
    BY <1>2, <1>5
  <1>10. \A k \in 1 .. Len(c) - 1 : c[k + 1] \in After[c[k]]
    BY CommandsAre
  <1>. QED
    BY <1>5, <1>7, <1>8, <1>9, <1>10

LEMMA FirstPhases ==
  ASSUME NEW c \in Commands
  PROVE  /\ Rest(c) /\ c # <<>>
         /\ Head(c) \in {"clean", "shims"} /\ (c = CdiRun \o DiscRun => Head(c) = "clean")
  <1>1. c \in Seq(Phases) /\ Len(c) \in 1 .. 8
    BY CommandsAre
  <1>2. c = SubSeq(c, 1, Len(c))
    BY <1>1, SubSeqFull
  <1>3. Rest(c)
    BY <1>1, <1>2 DEF Rest
  <1>4. c # <<>> /\ Head(c) = c[1]
    BY <1>1, <1>2, RestIs
  <1>. QED
    BY <1>3, <1>4, CommandsAre

-----------------------------------------------------------------------------
(* Files and staleness.                                                    *)
LEMMA TargetsAre ==
  /\ Members(ShimTargets) = {"shim_elf", "shim_bin", "shim_map"}
  /\ Members(LoaderTargets) = {"patch_table", "main_o", "shim_blob", "program"}
  /\ Targets = {"shim_elf", "shim_bin", "shim_map", "patch_table", "main_o", "shim_blob", "program"}
  <1>1. Members(ShimTargets) = {"shim_elf", "shim_bin", "shim_map"}
    <2>1. DOMAIN ShimTargets = 1 .. 3
      BY DEF ShimTargets
    <2>. QED
      BY <2>1 DEF ShimTargets, Members
  <1>2. Members(LoaderTargets) = {"patch_table", "main_o", "shim_blob", "program"}
    <2>1. DOMAIN LoaderTargets = 1 .. 4
      BY DEF LoaderTargets
    <2>. QED
      BY <2>1 DEF LoaderTargets, Members
  <1>. QED
    BY <1>1, <1>2 DEF Targets

(* A fresh target holds a file.                                            *)
LEMMA FreshIsThere ==
  ASSUME BuildTypes, NEW t \in Targets, t \notin stale
  PROVE  file[t] \in FileType[t] /\ file[t] # None
  BY NoFileAssumption DEF BuildTypes

(* What make looks at to remake a target, and what it does.                *)
Remade(t, cdi) ==
  /\ t \in Targets
  /\ file' = [file EXCEPT ![t] = Content(t, cdi)]
  /\ Freshen(t)
  /\ UNCHANGED <<edits, fad, run, flags, disc>>

LEMMA MakeShims ==
  ASSUME NEW phase, NEW cdi, Make(phase, ShimTargets, cdi)
  PROVE  \/ Remade("shim_elf", cdi)
         \/ "shim_elf" \notin stale /\ Remade("shim_bin", cdi)
         \/ "shim_elf" \notin stale /\ "shim_bin" \notin stale /\ Remade("shim_map", cdi)
         \/ /\ Members(ShimTargets) \cap stale = {} /\ Done
            /\ UNCHANGED <<edits, fad, file, stale, flags, disc>>
  <1>1. /\ DOMAIN ShimTargets = 1 .. 3 /\ ShimTargets[1] = "shim_elf"
        /\ ShimTargets[2] = "shim_bin" /\ ShimTargets[3] = "shim_map"
    BY DEF ShimTargets
  <1>2. CASE \E n \in DOMAIN ShimTargets : ShimTargets[n] \in stale
    <2>1. PICK n \in 1 .. 3 :
            /\ \A m \in 1 .. (n - 1) : ShimTargets[m] \notin stale
            /\ file' = [file EXCEPT ![ShimTargets[n]] = Content(ShimTargets[n], cdi)]
            /\ Freshen(ShimTargets[n]) /\ run' = run
      BY <1>1, <1>2 DEF Make
    <2>2. UNCHANGED <<edits, fad, flags, disc>>
      BY DEF Make
    <2>3. n \in {1, 2, 3}
      OBVIOUS
    <2>4. CASE n = 1
      BY <1>1, <2>1, <2>2, <2>4, TargetsAre DEF Remade
    <2>5. CASE n = 2
      <3>1. ShimTargets[1] \notin stale
        BY <2>1, <2>5
      <3>. QED
        BY <1>1, <2>1, <2>2, <2>5, <3>1, TargetsAre DEF Remade
    <2>6. CASE n = 3
      <3>1. ShimTargets[1] \notin stale /\ ShimTargets[2] \notin stale
        BY <2>1, <2>6
      <3>. QED
        BY <1>1, <2>1, <2>2, <2>6, <3>1, TargetsAre DEF Remade
    <2>. QED
      BY <2>3, <2>4, <2>5, <2>6
  <1>3. CASE ~ \E n \in DOMAIN ShimTargets : ShimTargets[n] \in stale
    <2>1. Members(ShimTargets) \cap stale = {}
      BY <1>3 DEF Members
    <2>. QED
      BY <1>3, <2>1 DEF Make
  <1>. QED
    BY <1>2, <1>3

LEMMA MakeLoader ==
  ASSUME NEW phase, NEW cdi, Make(phase, LoaderTargets, cdi)
  PROVE  \/ Remade("patch_table", cdi)
         \/ "patch_table" \notin stale /\ Remade("main_o", cdi)
         \/ Remade("shim_blob", cdi)
         \/ {"main_o", "shim_blob"} \cap stale = {} /\ Remade("program", cdi)
         \/ /\ Members(LoaderTargets) \cap stale = {} /\ Done
            /\ UNCHANGED <<edits, fad, file, stale, flags, disc>>
  <1>1. /\ DOMAIN LoaderTargets = 1 .. 4 /\ LoaderTargets[1] = "patch_table"
        /\ LoaderTargets[2] = "main_o" /\ LoaderTargets[3] = "shim_blob" /\ LoaderTargets[4] = "program"
    BY DEF LoaderTargets
  <1>2. CASE \E n \in DOMAIN LoaderTargets : LoaderTargets[n] \in stale
    <2>1. PICK n \in 1 .. 4 :
            /\ \A m \in 1 .. (n - 1) : LoaderTargets[m] \notin stale
            /\ file' = [file EXCEPT ![LoaderTargets[n]] = Content(LoaderTargets[n], cdi)]
            /\ Freshen(LoaderTargets[n]) /\ run' = run
      BY <1>1, <1>2 DEF Make
    <2>2. UNCHANGED <<edits, fad, flags, disc>>
      BY DEF Make
    <2>3. n \in {1, 2, 3, 4}
      OBVIOUS
    <2>4. CASE n = 1
      BY <1>1, <2>1, <2>2, <2>4, TargetsAre DEF Remade
    <2>5. CASE n = 2
      <3>1. LoaderTargets[1] \notin stale
        BY <2>1, <2>5
      <3>. QED
        BY <1>1, <2>1, <2>2, <2>5, <3>1, TargetsAre DEF Remade
    <2>6. CASE n = 3
      BY <1>1, <2>1, <2>2, <2>6, TargetsAre DEF Remade
    <2>7. CASE n = 4
      <3>1. LoaderTargets[2] \notin stale /\ LoaderTargets[3] \notin stale
        BY <2>1, <2>7
      <3>. QED
        BY <1>1, <2>1, <2>2, <2>7, <3>1, TargetsAre DEF Remade
    <2>. QED
      BY <2>3, <2>4, <2>5, <2>6, <2>7
  <1>3. CASE ~ \E n \in DOMAIN LoaderTargets : LoaderTargets[n] \in stale
    <2>1. Members(LoaderTargets) \cap stale = {}
      BY <1>3 DEF Members
    <2>. QED
      BY <1>3, <2>1 DEF Make
  <1>. QED
    BY <1>2, <1>3

Dependents(t) == {u \in Targets : t \in Prereqs[u]}

LEMMA DependentsAre ==
  /\ Dependents("shim_src") = {"shim_elf"} /\ Dependents("loader_src") = {"main_o"}
  /\ Dependents("iface") = {"shim_elf", "patch_table", "main_o"}
  /\ Dependents("shim_elf") = {"shim_bin", "shim_map"}
  /\ Dependents("shim_bin") = {"shim_blob"} /\ Dependents("shim_map") = {"patch_table"}
  /\ Dependents("patch_table") = {"main_o"}
  /\ Dependents("main_o") = {"program"} /\ Dependents("shim_blob") = {"program"}
  /\ Dependents("program") = {}
  <1>. DEFINE Deps(t, D) == \A u \in Targets : t \in Prereqs[u] <=> u \in D
  <1>1. /\ Deps("shim_src", {"shim_elf"}) /\ Deps("loader_src", {"main_o"})
        /\ Deps("iface", {"shim_elf", "patch_table", "main_o"})
        /\ Deps("shim_elf", {"shim_bin", "shim_map"})
    BY TargetsAre DEF Prereqs
  <1>2. /\ Deps("shim_bin", {"shim_blob"}) /\ Deps("shim_map", {"patch_table"})
        /\ Deps("patch_table", {"main_o"})
        /\ Deps("main_o", {"program"}) /\ Deps("shim_blob", {"program"})
        /\ Deps("program", {})
    BY TargetsAre DEF Prereqs
  <1>. QED
    BY <1>1, <1>2, TargetsAre DEF Dependents

LEMMA RemadeIs ==
  ASSUME BuildTypes, NEW t, NEW cdi, Remade(t, cdi), Content(t, cdi) \in FileType[t]
  PROVE  /\ \A u \in Targets : file'[u] = IF u = t THEN Content(t, cdi) ELSE file[u]
         /\ stale' = (stale \ {t}) \cup Dependents(t)
         /\ Iface' = Iface
         /\ BuildTypes'
  <1>1. \A u \in Targets : file'[u] = IF u = t THEN Content(t, cdi) ELSE file[u]
    BY DEF BuildTypes, Remade
  <1>2. stale' = (stale \ {t}) \cup Dependents(t)
    BY DEF Remade, Freshen, Dependents
  <1>3. file' = [u \in Targets |-> file'[u]]
    BY DEF BuildTypes, Remade
  <1>4. stale' \subseteq Targets
    BY <1>2 DEF BuildTypes, Dependents
  <1>5. \A u \in Targets : file'[u] \in FileType[u] \/ (file'[u] = None /\ u \in stale')
    BY <1>1, <1>2 DEF BuildTypes
  <1>6. UNCHANGED <<edits, fad, run, flags, disc>> /\ Iface' = Iface
    BY DEF Remade, Iface
  <1>. QED
    BY <1>1, <1>2, <1>3, <1>4, <1>5, <1>6 DEF BuildTypes

LEMMA ElfRemade ==
  ASSUME DiscInv, NEW cdi \in BOOLEAN, Remade("shim_elf", cdi),
         run # <<>>, Head(run) = IF cdi THEN "shims_cdi" ELSE "shims"
  PROVE  DiscInv'
  <1>. DEFINE c == Content("shim_elf", cdi)
  <1>1. c = [src |-> edits["shim_src"], iface |-> Iface, debug |-> flags.debug, marked |-> cdi,
             fad |-> IF cdi THEN "cd" ELSE fad]
    BY DEF Content
  <1>2. Iface \in IfaceType /\ edits["shim_src"] \in Versions /\ flags.debug \in BOOLEAN
        /\ fad \in Places /\ Iface.fad = fad
    BY DEF DiscInv, BuildTypes, Iface, IfaceType, Sources, Places
  <1>3. c \in ShimType
    BY <1>1, <1>2 DEF ShimType, Places
  <1>4. FileType["shim_elf"] = ShimType
    BY DEF FileType
  <1>5. /\ \A u \in Targets : file'[u] = IF u = "shim_elf" THEN c ELSE file[u]
        /\ stale' = (stale \ {"shim_elf"}) \cup {"shim_bin", "shim_map"}
        /\ Iface' = Iface /\ BuildTypes'
    BY <1>3, <1>4, RemadeIs, DependentsAre DEF DiscInv
  <1>6. UNCHANGED <<edits, fad, run, flags, disc>>
    BY DEF Remade
  <1>7. FreshInv'
    BY <1>1, <1>5, <1>6, TargetsAre DEF DiscInv, FreshInv
  <1>8. PhaseInv'
    BY <1>6 DEF PhaseInv
  <1>9. MarkInv'
    BY <1>1, <1>2, <1>5, <1>6, TargetsAre DEF DiscInv, MarkInv
  <1>10. CleanInv'
    BY <1>1, <1>5, <1>6, TargetsAre DEF DiscInv, CleanInv
  <1>11. Mastered'
    BY <1>6 DEF DiscInv, Mastered, CartIsFound, PatchesMeetShim, PlacesAgree, DebugOnlyAsAsked
  <1>. QED
    BY <1>5, <1>7, <1>8, <1>9, <1>10, <1>11 DEF DiscInv

LEMMA ImageRemade ==
  ASSUME DiscInv, NEW cdi \in BOOLEAN, NEW t \in {"shim_bin", "shim_map"}, Remade(t, cdi),
         "shim_elf" \notin stale,
         run # <<>>, Head(run) = IF cdi THEN "shims_cdi" ELSE "shims"
  PROVE  DiscInv'
  <1>. DEFINE c == Content(t, cdi)
  <1>1. c = file["shim_elf"]
    BY DEF Content
  <1>2. c \in ShimType /\ FileType[t] = ShimType
    BY <1>1, FreshIsThere, TargetsAre DEF DiscInv, FileType
  <1>3. /\ \A u \in Targets : file'[u] = IF u = t THEN c ELSE file[u]
        /\ stale' = (stale \ {t}) \cup (IF t = "shim_bin" THEN {"shim_blob"} ELSE {"patch_table"})
        /\ Iface' = Iface /\ BuildTypes'
    BY <1>2, RemadeIs, DependentsAre DEF DiscInv
  <1>4. UNCHANGED <<edits, fad, run, flags, disc>>
    BY DEF Remade
  <1>5. FreshInv'
    BY <1>1, <1>3, <1>4, TargetsAre DEF DiscInv, FreshInv
  <1>6. PhaseInv'
    BY <1>4 DEF PhaseInv
  <1>7. MarkInv' /\ CleanInv'
    BY <1>3, <1>4, TargetsAre DEF DiscInv, MarkInv, CleanInv
  <1>8. Mastered'
    BY <1>4 DEF DiscInv, Mastered, CartIsFound, PatchesMeetShim, PlacesAgree, DebugOnlyAsAsked
  <1>. QED
    BY <1>3, <1>5, <1>6, <1>7, <1>8 DEF DiscInv

(* Where the loader's directory is made, the shim's is fresh: all three of *)
(* its files hold one shim.                                                *)
LEMMA ShimIsFresh ==
  ASSUME DiscInv, Members(ShimTargets) \cap stale = {}
  PROVE  /\ file["shim_elf"] \in ShimType /\ file["shim_elf"] # None
         /\ file["shim_bin"] = file["shim_elf"] /\ file["shim_map"] = file["shim_elf"]
         /\ file["shim_elf"].src = edits["shim_src"] /\ file["shim_elf"].iface = Iface
  <1>1. "shim_elf" \notin stale /\ "shim_bin" \notin stale /\ "shim_map" \notin stale
    BY TargetsAre
  <1>2. file["shim_elf"] \in FileType["shim_elf"] /\ file["shim_elf"] # None
    BY <1>1, FreshIsThere, TargetsAre DEF DiscInv
  <1>. QED
    BY <1>1, <1>2 DEF DiscInv, FreshInv, FileType

LEMMA LoaderPhase ==
  ASSUME DiscInv, NEW cdi \in BOOLEAN, run # <<>>, Head(run) = IF cdi THEN "loader_cdi" ELSE "loader"
  PROVE  Members(ShimTargets) \cap stale = {}
  BY DEF DiscInv, PhaseInv

LEMMA TableRemade ==
  ASSUME DiscInv, NEW cdi \in BOOLEAN, Remade("patch_table", cdi),
         run # <<>>, Head(run) = IF cdi THEN "loader_cdi" ELSE "loader"
  PROVE  DiscInv'
  <1>. DEFINE c == Content("patch_table", cdi)
  <1>1. c = [shim |-> file["shim_map"], iface |-> Iface]
    BY DEF Content
  <1>2. Members(ShimTargets) \cap stale = {}
    BY LoaderPhase
  <1>3. c \in TableType /\ FileType["patch_table"] = TableType
    <2>1. Iface \in IfaceType
      BY DEF DiscInv, BuildTypes, Iface, IfaceType, Sources
    <2>2. file["shim_map"] \in ShimType
      BY <1>2, ShimIsFresh
    <2>3. FileType["patch_table"] = TableType
      BY DEF FileType
    <2>. QED
      BY <1>1, <2>1, <2>2, <2>3 DEF TableType
  <1>4. /\ \A u \in Targets : file'[u] = IF u = "patch_table" THEN c ELSE file[u]
        /\ stale' = (stale \ {"patch_table"}) \cup {"main_o"}
        /\ Iface' = Iface /\ BuildTypes'
    BY <1>3, RemadeIs, DependentsAre DEF DiscInv
  <1>5. UNCHANGED <<edits, fad, run, flags, disc>>
    BY DEF Remade
  <1>6. FreshInv'
    BY <1>1, <1>4, <1>5, TargetsAre DEF DiscInv, FreshInv
  <1>7. PhaseInv'
    BY <1>2, <1>4, <1>5, TargetsAre DEF PhaseInv
  <1>8. MarkInv' /\ CleanInv'
    BY <1>4, <1>5, TargetsAre DEF DiscInv, MarkInv, CleanInv
  <1>9. Mastered'
    BY <1>5 DEF DiscInv, Mastered, CartIsFound, PatchesMeetShim, PlacesAgree, DebugOnlyAsAsked
  <1>. QED
    BY <1>4, <1>6, <1>7, <1>8, <1>9 DEF DiscInv

LEMMA MainRemade ==
  ASSUME DiscInv, NEW cdi \in BOOLEAN, Remade("main_o", cdi), "patch_table" \notin stale,
         run # <<>>, Head(run) = IF cdi THEN "loader_cdi" ELSE "loader"
  PROVE  DiscInv'
  <1>. DEFINE c == Content("main_o", cdi)
  <1>1. c = [src |-> edits["loader_src"], iface |-> Iface, table |-> file["patch_table"],
             fad |-> IF cdi THEN "cd" ELSE fad]
    BY DEF Content
  <1>2. Members(ShimTargets) \cap stale = {}
    BY LoaderPhase
  <1>3. file["patch_table"] \in TableType /\ FileType["main_o"] = MainType
    BY FreshIsThere, TargetsAre DEF DiscInv, FileType
  <1>4. Iface \in IfaceType /\ edits["loader_src"] \in Versions /\ fad \in Places /\ Iface.fad = fad
    BY DEF DiscInv, BuildTypes, Iface, IfaceType, Sources, Places
  <1>5. c \in MainType
    BY <1>1, <1>3, <1>4 DEF MainType, Places
  <1>6. /\ \A u \in Targets : file'[u] = IF u = "main_o" THEN c ELSE file[u]
        /\ stale' = (stale \ {"main_o"}) \cup {"program"}
        /\ Iface' = Iface /\ BuildTypes'
    BY <1>3, <1>5, RemadeIs, DependentsAre DEF DiscInv
  <1>7. UNCHANGED <<edits, fad, run, flags, disc>>
    BY DEF Remade
  <1>8. FreshInv'
    BY <1>1, <1>6, <1>7, TargetsAre DEF DiscInv, FreshInv
  <1>9. PhaseInv'
    BY <1>2, <1>6, <1>7, TargetsAre DEF PhaseInv
  <1>10. cdi => file["patch_table"].shim.marked
    <2>1. file["patch_table"].shim = file["shim_elf"]
      BY <1>2, ShimIsFresh DEF DiscInv, FreshInv
    <2>. QED
      BY <1>2, <2>1, ShimIsFresh DEF DiscInv, CleanInv
  <1>11. MarkInv' /\ CleanInv'
    BY <1>1, <1>4, <1>6, <1>7, <1>10, TargetsAre DEF DiscInv, MarkInv, CleanInv
  <1>12. Mastered'
    BY <1>7 DEF DiscInv, Mastered, CartIsFound, PatchesMeetShim, PlacesAgree, DebugOnlyAsAsked
  <1>. QED
    BY <1>6, <1>8, <1>9, <1>11, <1>12 DEF DiscInv

LEMMA BlobRemade ==
  ASSUME DiscInv, NEW cdi \in BOOLEAN, Remade("shim_blob", cdi),
         run # <<>>, Head(run) = IF cdi THEN "loader_cdi" ELSE "loader"
  PROVE  DiscInv'
  <1>. DEFINE c == Content("shim_blob", cdi)
  <1>1. Members(ShimTargets) \cap stale = {}
    BY LoaderPhase
  <1>2. c = file["shim_bin"] /\ c \in ShimType /\ FileType["shim_blob"] = ShimType
    BY <1>1, ShimIsFresh DEF Content, FileType
  <1>3. /\ \A u \in Targets : file'[u] = IF u = "shim_blob" THEN c ELSE file[u]
        /\ stale' = (stale \ {"shim_blob"}) \cup {"program"}
        /\ Iface' = Iface /\ BuildTypes'
    BY <1>2, RemadeIs, DependentsAre DEF DiscInv
  <1>4. UNCHANGED <<edits, fad, run, flags, disc>>
    BY DEF Remade
  <1>5. FreshInv'
    BY <1>2, <1>3, <1>4, TargetsAre DEF DiscInv, FreshInv
  <1>6. PhaseInv'
    BY <1>1, <1>3, <1>4, TargetsAre DEF PhaseInv
  <1>7. MarkInv' /\ CleanInv'
    BY <1>3, <1>4, TargetsAre DEF DiscInv, MarkInv, CleanInv
  <1>8. Mastered'
    BY <1>4 DEF DiscInv, Mastered, CartIsFound, PatchesMeetShim, PlacesAgree, DebugOnlyAsAsked
  <1>. QED
    BY <1>3, <1>5, <1>6, <1>7, <1>8 DEF DiscInv

LEMMA ProgramRemade ==
  ASSUME DiscInv, NEW cdi \in BOOLEAN, Remade("program", cdi), {"main_o", "shim_blob"} \cap stale = {},
         run # <<>>, Head(run) = IF cdi THEN "loader_cdi" ELSE "loader"
  PROVE  DiscInv'
  <1>. DEFINE c == Content("program", cdi)
  <1>1. Members(ShimTargets) \cap stale = {}
    BY LoaderPhase
  <1>2. c = [main |-> file["main_o"], shim |-> file["shim_blob"]]
    BY DEF Content
  <1>3. file["main_o"] \in MainType /\ file["shim_blob"] \in ShimType
    BY FreshIsThere, TargetsAre DEF DiscInv, FileType
  <1>4. c \in ProgramType /\ FileType["program"] = ProgramType
    <2>1. FileType["program"] = ProgramType
      BY DEF FileType
    <2>. QED
      BY <1>2, <1>3, <2>1 DEF ProgramType
  <1>5. /\ \A u \in Targets : file'[u] = IF u = "program" THEN c ELSE file[u]
        /\ stale' = stale \ {"program"}
        /\ Iface' = Iface /\ BuildTypes'
    BY <1>4, RemadeIs, DependentsAre DEF DiscInv
  <1>6. UNCHANGED <<edits, fad, run, flags, disc>>
    BY DEF Remade
  <1>7. FreshInv'
    BY <1>2, <1>5, <1>6, TargetsAre DEF DiscInv, FreshInv
  <1>8. PhaseInv'
    BY <1>1, <1>5, <1>6, TargetsAre DEF PhaseInv
  <1>9. MarkInv' /\ CleanInv'
    BY <1>5, <1>6, TargetsAre DEF DiscInv, MarkInv, CleanInv
  <1>10. Mastered'
    BY <1>6 DEF DiscInv, Mastered, CartIsFound, PatchesMeetShim, PlacesAgree, DebugOnlyAsAsked
  <1>. QED
    BY <1>5, <1>7, <1>8, <1>9, <1>10 DEF DiscInv

-----------------------------------------------------------------------------
(* The other steps.                                                        *)
LEMMA ShimsPreserve == ASSUME DiscInv, Shims PROVE DiscInv'
  <1>1. PICK cdi \in BOOLEAN : Make(IF cdi THEN "shims_cdi" ELSE "shims", ShimTargets, cdi)
    BY DEF Shims
  <1>2. run # <<>> /\ Head(run) = IF cdi THEN "shims_cdi" ELSE "shims"
    BY <1>1 DEF Make
  <1>3. CASE \E t \in {"shim_elf", "shim_bin", "shim_map"} :
               Remade(t, cdi) /\ (t # "shim_elf" => "shim_elf" \notin stale)
    BY <1>2, <1>3, ElfRemade, ImageRemade
  <1>4. CASE /\ Members(ShimTargets) \cap stale = {} /\ Done
             /\ UNCHANGED <<edits, fad, file, stale, flags, disc>>
    <2>1. Rest(run') /\ (run' # <<>> => Head(run') = IF cdi THEN "loader_cdi" ELSE "loader")
      <3>1. Rest(run) /\ run' = Tail(run)
        BY <1>4 DEF DiscInv, BuildTypes, Done
      <3>2. Rest(run') /\ (run' # <<>> => Head(run') \in After[Head(run)])
        BY <1>2, <3>1, PhasesFollow
      <3>3. After["shims"] = {"loader"} /\ After["shims_cdi"] = {"loader_cdi"}
        BY DEF After
      <3>. QED
        BY <1>2, <3>2, <3>3
    <2>2. BuildTypes'
      BY <1>4, <2>1 DEF DiscInv, BuildTypes
    <2>3. PhaseInv'
      BY <1>4, <2>1 DEF PhaseInv
    <2>4. FreshInv' /\ MarkInv' /\ Mastered'
      BY <1>4 DEF DiscInv, FreshInv, MarkInv, Iface, Mastered, CartIsFound, PatchesMeetShim,
         PlacesAgree, DebugOnlyAsAsked
    <2>5. CleanInv'
      BY <1>2, <1>4, <2>1 DEF DiscInv, CleanInv
    <2>. QED
      BY <2>2, <2>3, <2>4, <2>5 DEF DiscInv
  <1>. QED
    BY <1>1, <1>3, <1>4, MakeShims

LEMMA LoaderPreserves == ASSUME DiscInv, Loader PROVE DiscInv'
  <1>1. PICK cdi \in BOOLEAN : Make(IF cdi THEN "loader_cdi" ELSE "loader", LoaderTargets, cdi)
    BY DEF Loader
  <1>2. run # <<>> /\ Head(run) = IF cdi THEN "loader_cdi" ELSE "loader"
    BY <1>1 DEF Make
  <1>3. CASE \/ Remade("patch_table", cdi)
             \/ "patch_table" \notin stale /\ Remade("main_o", cdi)
             \/ Remade("shim_blob", cdi)
             \/ {"main_o", "shim_blob"} \cap stale = {} /\ Remade("program", cdi)
    BY <1>2, <1>3, TableRemade, MainRemade, BlobRemade, ProgramRemade
  <1>4. CASE /\ Members(LoaderTargets) \cap stale = {} /\ Done
             /\ UNCHANGED <<edits, fad, file, stale, flags, disc>>
    <2>1. Rest(run') /\ (run' # <<>> => Head(run') = IF cdi THEN "cdi" ELSE "gdi")
      <3>1. Rest(run) /\ run' = Tail(run)
        BY <1>4 DEF DiscInv, BuildTypes, Done
      <3>2. Rest(run') /\ (run' # <<>> => Head(run') \in After[Head(run)])
        BY <1>2, <3>1, PhasesFollow
      <3>3. After["loader"] = {"gdi"} /\ After["loader_cdi"] = {"cdi"}
        BY DEF After
      <3>. QED
        BY <1>2, <3>2, <3>3
    <2>2. BuildTypes'
      BY <1>4, <2>1 DEF DiscInv, BuildTypes
    <2>3. stale = {}
      <3>1. Members(ShimTargets) \cap stale = {} /\ stale \subseteq Targets
        BY <1>2, LoaderPhase DEF DiscInv, BuildTypes
      <3>. QED
        BY <1>4, <3>1 DEF Targets
    <2>4. PhaseInv'
      BY <1>4, <2>3 DEF PhaseInv
    <2>5. FreshInv' /\ MarkInv' /\ Mastered'
      BY <1>4 DEF DiscInv, FreshInv, MarkInv, Iface, Mastered, CartIsFound, PatchesMeetShim,
         PlacesAgree, DebugOnlyAsAsked
    <2>6. CleanInv'
      BY <1>2, <1>4, <2>1 DEF DiscInv, CleanInv
    <2>. QED
      BY <2>2, <2>4, <2>5, <2>6 DEF DiscInv
  <1>. QED
    BY <1>1, <1>3, <1>4, MakeLoader

LEMMA EditPreserves == ASSUME DiscInv, Edit PROVE DiscInv'
  <1>1. PICK s \in Sources :
          /\ edits' = [edits EXCEPT ![s] = @ + 1]
          /\ fad' \in (IF s = "iface" THEN {"gd", "elsewhere"} ELSE {fad})
          /\ stale' = stale \cup Dependents(s)
    BY DEF Edit, Dependents
  <1>2. /\ run = <<>> /\ UNCHANGED <<file, run, flags, disc>>
        /\ edits["shim_src"] + edits["loader_src"] + edits["iface"] < MaxEdits
    BY DEF Edit
  <1>3. /\ edits \in [Sources -> Versions] /\ fad \in {"gd", "elsewhere"} /\ stale \subseteq Targets
        /\ \A x \in Sources : edits[x] \in Nat
    BY DiscBuildAssumption DEF DiscInv, BuildTypes, Versions
  <1>4. edits[s] + 1 \in Versions
    <2>1. edits["shim_src"] \in Nat /\ edits["loader_src"] \in Nat /\ edits["iface"] \in Nat
      BY <1>3 DEF Sources
    <2>. QED
      BY <1>2, <2>1, DiscBuildAssumption DEF Sources, Versions
  <1>5. edits' \in [Sources -> Versions] /\ \A x \in Sources \ {s} : edits'[x] = edits[x]
    BY <1>1, <1>3, <1>4
  <1>6. fad' \in {"gd", "elsewhere"} /\ stale' \subseteq Targets
    BY <1>1, <1>3 DEF Dependents
  <1>7. BuildTypes'
    BY <1>1, <1>2, <1>5, <1>6 DEF DiscInv, BuildTypes
  <1>8. FreshInv'
    <2>1. CASE s = "shim_src"
      BY <1>1, <1>2, <1>5, <2>1, DependentsAre DEF DiscInv, FreshInv, Sources, Iface
    <2>2. CASE s = "loader_src"
      BY <1>1, <1>2, <1>5, <2>2, DependentsAre DEF DiscInv, FreshInv, Sources, Iface
    <2>3. CASE s = "iface"
      BY <1>1, <1>2, <1>5, <2>3, DependentsAre DEF DiscInv, FreshInv, Sources, Iface
    <2>. QED
      BY <2>1, <2>2, <2>3 DEF Sources
  <1>9. PhaseInv' /\ CleanInv'
    BY <1>2 DEF PhaseInv, CleanInv
  <1>10. MarkInv' /\ Mastered'
    BY <1>2 DEF DiscInv, MarkInv, Mastered, CartIsFound, PatchesMeetShim, PlacesAgree, DebugOnlyAsAsked
  <1>. QED
    BY <1>7, <1>8, <1>9, <1>10 DEF DiscInv

LEMMA CommandPreserves == ASSUME DiscInv, Command PROVE DiscInv'
  <1>1. PICK c \in Commands, d \in BOOLEAN :
          run' = c /\ flags' = [debug |-> d, release |-> c = CdiRun \o DiscRun]
    BY DEF Command
  <1>2. UNCHANGED <<edits, fad, file, stale>> /\ disc' = None
    BY DEF Command
  <1>3. Rest(run') /\ Head(run') \in {"clean", "shims"} /\ (flags'.release => Head(run') = "clean")
    BY <1>1, FirstPhases
  <1>4. flags' \in [debug : BOOLEAN, release : BOOLEAN]
    BY <1>1
  <1>5. BuildTypes'
    BY <1>2, <1>3, <1>4 DEF DiscInv, BuildTypes
  <1>6. FreshInv' /\ MarkInv'
    BY <1>2 DEF DiscInv, FreshInv, MarkInv, Iface
  <1>7. PhaseInv' /\ CleanInv'
    BY <1>3 DEF PhaseInv, CleanInv
  <1>8. Mastered'
    BY <1>2 DEF Mastered, CartIsFound, PatchesMeetShim, PlacesAgree, DebugOnlyAsAsked
  <1>. QED
    BY <1>5, <1>6, <1>7, <1>8 DEF DiscInv

LEMMA NothingLeft == Rest(<<>>)
  <1>1. DiscRun \in Commands /\ DiscRun \in Seq(Phases) /\ Len(DiscRun) = 3
    BY Tuples DEF Commands
  <1>2. SubSeq(DiscRun, 4, 3) = <<>>
    BY <1>1, SubSeqEmpty
  <1>. QED
    BY <1>1, <1>2 DEF Rest

LEMMA AbortPreserves == ASSUME DiscInv, Abort PROVE DiscInv'
  BY NothingLeft DEF Abort, DiscInv, BuildTypes, FreshInv, PhaseInv, MarkInv, CleanInv, Iface,
     Mastered, CartIsFound, PatchesMeetShim, PlacesAgree, DebugOnlyAsAsked

LEMMA CleanPreserves == ASSUME DiscInv, Clean PROVE DiscInv'
  <1>1. PICK part \in {Members(ShimTargets), Targets \ {"patch_table"}} :
          /\ file' = [t \in Targets |-> IF t \in part THEN None ELSE file[t]]
          /\ stale' = stale \cup part
          /\ run' = IF part = Members(ShimTargets) THEN <<>> ELSE Tail(run)
    BY DEF Clean
  <1>2. run # <<>> /\ Head(run) = "clean" /\ UNCHANGED <<edits, fad, flags, disc>>
    BY DEF Clean
  <1>3. /\ Rest(run')
        /\ run' # <<>> => Head(run') \in {"shims", "shims_cdi"} /\ part = Targets \ {"patch_table"}
    BY <1>1, <1>2, PhasesFollow, NothingLeft DEF DiscInv, BuildTypes, After
  <1>4. /\ part \subseteq Targets /\ "patch_table" \notin part
        /\ {"shim_elf", "shim_bin", "shim_map"} \subseteq part
        /\ part # Members(ShimTargets) => {"main_o", "shim_blob", "program"} \subseteq part
        /\ part = Members(ShimTargets) => {"main_o", "shim_blob", "program"} \cap part = {}
    BY TargetsAre
  <1>5. \A t \in Targets : file'[t] = IF t \in part THEN None ELSE file[t]
    BY <1>1
  <1>6. BuildTypes'
    <2>1. file' = [t \in Targets |-> file'[t]]
      BY <1>1
    <2>2. stale' \subseteq Targets
      BY <1>1, <1>4 DEF DiscInv, BuildTypes
    <2>3. \A t \in Targets : file'[t] \in FileType[t] \/ (file'[t] = None /\ t \in stale')
      BY <1>1, <1>5 DEF DiscInv, BuildTypes
    <2>. QED
      BY <1>2, <1>3, <2>1, <2>2, <2>3 DEF DiscInv, BuildTypes
  <1>7. FreshInv'
    BY <1>1, <1>2, <1>4, <1>5, TargetsAre DEF DiscInv, FreshInv, Iface
  <1>8. PhaseInv'
    BY <1>3 DEF PhaseInv
  <1>9. MarkInv'
    BY <1>4, <1>5, TargetsAre DEF DiscInv, MarkInv
  <1>10. CleanInv'
    BY <1>3, <1>4, <1>5, TargetsAre DEF CleanInv
  <1>11. Mastered'
    BY <1>2 DEF DiscInv, Mastered, CartIsFound, PatchesMeetShim, PlacesAgree, DebugOnlyAsAsked
  <1>. QED
    BY <1>6, <1>7, <1>8, <1>9, <1>10, <1>11 DEF DiscInv

(* What is mastered is all fresh: one shim, one header, one command.       *)
LEMMA FreshDisc ==
  ASSUME DiscInv, run # <<>>, Head(run) \in {"gdi", "cdi"}
  PROVE  LET p == Loaded IN
         /\ p.shim = file["shim_elf"] /\ p.main = file["main_o"]
         /\ p.main.table.shim = p.shim /\ p.main.table.iface = Iface
         /\ p.shim.src = edits["shim_src"] /\ p.shim.iface = Iface
         /\ p.main.src = edits["loader_src"] /\ p.main.iface = Iface
         /\ file["shim_elf"] # None /\ file["main_o"] # None
  <1>1. stale = {} /\ Members(ShimTargets) \cap stale = {}
    BY DEF DiscInv, PhaseInv
  <1>2. /\ file["shim_map"] # None /\ file["shim_bin"] # None /\ file["shim_elf"] # None
        /\ file["main_o"] # None
    BY <1>1, FreshIsThere, TargetsAre DEF DiscInv
  <1>3. file["program"] = [main |-> file["main_o"], shim |-> file["shim_blob"]]
    BY <1>1 DEF DiscInv, FreshInv
  <1>4. file["shim_blob"] = file["shim_bin"] /\ file["shim_bin"] = file["shim_elf"]
    BY <1>1, <1>2 DEF DiscInv, FreshInv
  <1>5. /\ file["main_o"].table = file["patch_table"] /\ file["patch_table"].shim = file["shim_elf"]
        /\ file["patch_table"].iface = Iface
    BY <1>1, <1>2 DEF DiscInv, FreshInv
  <1>. QED
    BY <1>1, <1>2, <1>3, <1>4, <1>5 DEF DiscInv, FreshInv, Loaded

LEMMA MasteredWell ==
  ASSUME DiscInv, NEW place \in {"gd", "cd"}, run # <<>>,
         Head(run) = (IF place = "cd" THEN "cdi" ELSE "gdi"),
         IF place = "cd" THEN CdiAccepts ELSE GdiAccepts, disc' = Disc(place)
  PROVE  Mastered' /\ disc'.place = place
  <1>. DEFINE p == Loaded
  <1>1. /\ p.shim = file["shim_elf"] /\ p.main = file["main_o"]
        /\ p.main.table.shim = p.shim /\ p.main.table.iface = Iface
        /\ p.shim.iface = Iface /\ p.main.iface = Iface
        /\ file["shim_elf"] # None /\ file["main_o"] # None
    BY FreshDisc
  <1>. DEFINE clean == place = "cd" \/ flags.release
  <1>2. /\ disc'.place = place /\ disc'.program = p /\ disc'.asked = flags.debug
        /\ disc'.cleaned = clean
    <2>1. disc' = [place |-> place, cleaned |-> clean, asked |-> flags.debug, program |-> p]
      BY DEF Disc
    <2>. HIDE DEF clean
    <2>. QED
      BY <2>1
  <1>3. p.shim.fad = place /\ p.main.fad = place
    <2>1. CASE place = "cd"
      BY <1>1, <2>1 DEF DiscInv, CleanInv, CdiAccepts
    <2>2. CASE place = "gd"
      BY <1>1, <2>2 DEF DiscInv, MarkInv, GdiAccepts, Iface
    <2>. QED
      BY <2>1, <2>2
  <1>4. place = "cd" \/ flags.release => p.shim.debug = flags.debug
    BY <1>1 DEF DiscInv, CleanInv
  <1>5. CartIsFound' /\ PatchesMeetShim'
    BY <1>1, <1>2, <1>3 DEF CartIsFound, PatchesMeetShim
  <1>6. PlacesAgree'
    BY <1>1, <1>2 DEF PlacesAgree
  <1>7. DebugOnlyAsAsked'
    <2>1. disc'.cleaned => clean
      BY <1>2, Zenon
    <2>. QED
      BY <1>2, <1>4, <2>1 DEF DebugOnlyAsAsked
  <1>. QED
    BY <1>2, <1>5, <1>6, <1>7 DEF Mastered

LEMMA MasterPreserves == ASSUME DiscInv, MasterGdi \/ MasterCdi PROVE DiscInv'
  <1>1. PICK place \in {"gd", "cd"} :
          Master(IF place = "cd" THEN "cdi" ELSE "gdi",
                 IF place = "cd" THEN CdiAccepts ELSE GdiAccepts, place)
    BY DEF MasterGdi, MasterCdi
  <1>2. /\ run # <<>> /\ Head(run) = (IF place = "cd" THEN "cdi" ELSE "gdi")
        /\ UNCHANGED <<edits, fad, file, stale, flags>>
    BY <1>1 DEF Master
  <1>3. FreshInv' /\ MarkInv'
    BY <1>2 DEF DiscInv, FreshInv, MarkInv, Iface
  <1>4. CASE disc' = Disc(place) /\ Done /\ IF place = "cd" THEN CdiAccepts ELSE GdiAccepts
    <2>1. Rest(run') /\ (run' # <<>> => Head(run') = "clean")
      <3>1. Rest(run) /\ run' = Tail(run)
        BY <1>4 DEF DiscInv, BuildTypes, Done
      <3>2. Rest(run') /\ (run' # <<>> => Head(run') \in After[Head(run)])
        BY <1>2, <3>1, PhasesFollow
      <3>3. After["gdi"] = {} /\ After["cdi"] = {"clean"}
        BY DEF After
      <3>. QED
        BY <1>2, <3>2, <3>3
    <2>2. Mastered' /\ disc'.place = place
      BY <1>2, <1>4, MasteredWell
    <2>3. BuildTypes'
      BY <1>2, <2>1, <2>2 DEF DiscInv, BuildTypes
    <2>4. PhaseInv' /\ CleanInv'
      BY <2>1 DEF PhaseInv, CleanInv
    <2>. QED
      BY <1>3, <2>2, <2>3, <2>4 DEF DiscInv
  <1>5. CASE run' = <<>> /\ disc' = disc
    <2>1. BuildTypes'
      BY <1>2, <1>5, NothingLeft DEF DiscInv, BuildTypes
    <2>2. PhaseInv' /\ CleanInv'
      BY <1>5 DEF PhaseInv, CleanInv
    <2>3. Mastered'
      BY <1>5 DEF DiscInv, Mastered, CartIsFound, PatchesMeetShim, PlacesAgree, DebugOnlyAsAsked
    <2>. QED
      BY <1>3, <2>1, <2>2, <2>3 DEF DiscInv
  <1>. QED
    BY <1>1, <1>4, <1>5 DEF Master

-----------------------------------------------------------------------------
(* DiscInv, the inductive invariant of the build, holds in every state:    *)
(* a fresh file was made from what its prerequisites hold, and what a      *)
(* command has left behind it is as it should be (Makefile:32-55,          *)
(* loader/Makefile:9-34).                                                  *)
THEOREM BuildInvariance == BuildSpec => []DiscInv
  <1>1. ASSUME BuildInit PROVE DiscInv
    <2>1. disc = None /\ run = <<>> /\ stale = Targets
      BY <1>1 DEF BuildInit
    <2>2. file = [t \in Targets |-> None] /\ edits = [s \in Sources |-> 0] /\ fad = "gd"
          /\ flags = [debug |-> FALSE, release |-> FALSE]
      BY <1>1 DEF BuildInit
    <2>3. BuildTypes
      BY <2>1, <2>2, NothingLeft, DiscBuildAssumption DEF BuildTypes, Versions
    <2>4. FreshInv /\ PhaseInv /\ CleanInv
      BY <2>1, TargetsAre DEF FreshInv, PhaseInv, CleanInv
    <2>5. MarkInv
      BY <2>2, TargetsAre DEF MarkInv
    <2>6. Mastered
      BY <2>1 DEF Mastered, CartIsFound, PatchesMeetShim, PlacesAgree, DebugOnlyAsAsked
    <2>. QED
      BY <2>3, <2>4, <2>5, <2>6 DEF DiscInv
  <1>2. ASSUME DiscInv, [BuildNext]_buildVars PROVE DiscInv'
    <2>1. CASE Edit \/ Command \/ Abort
      BY <1>2, <2>1, EditPreserves, CommandPreserves, AbortPreserves
    <2>2. CASE Clean \/ Shims \/ Loader
      BY <1>2, <2>2, CleanPreserves, ShimsPreserve, LoaderPreserves
    <2>3. CASE MasterGdi \/ MasterCdi
      BY <1>2, <2>3, MasterPreserves
    <2>4. CASE UNCHANGED buildVars
      BY <1>2, <2>4 DEF buildVars, DiscInv, BuildTypes, FreshInv, PhaseInv, MarkInv, CleanInv, Iface,
         Mastered, CartIsFound, PatchesMeetShim, PlacesAgree, DebugOnlyAsAsked
    <2>. QED
      BY <1>2, <2>1, <2>2, <2>3, <2>4 DEF BuildNext
  <1>. QED
    BY <1>1, <1>2, PTL DEF BuildSpec

(* A mastered disc finds its cartridge where the disc has it               *)
(* (make_gdi.py:181-190, 196-207; make_cdi.py:71-76).                      *)
THEOREM CartFound == BuildSpec => []CartIsFound
  <1>1. DiscInv => CartIsFound
    BY DEF DiscInv, Mastered
  <1>. QED
    BY <1>1, BuildInvariance, PTL

(* The patches of a mastered disc are those of the shim it embeds          *)
(* (loader/Makefile:17-26).                                                *)
THEOREM PatchesOfTheShim == BuildSpec => []PatchesMeetShim
  <1>1. DiscInv => PatchesMeetShim
    BY DEF DiscInv, Mastered
  <1>. QED
    BY <1>1, BuildInvariance, PTL

(* Every fresh object was made from what its prerequisites now hold, each  *)
(* phase finds made what it needs, and one header is behind the shim, the  *)
(* loader and the patches of a disc (loader/Makefile:10-67).               *)
THEOREM OneHeader == BuildSpec => []BuildInv
  <1>1. DiscInv => BuildInv
    BY DEF DiscInv, Mastered, BuildInv
  <1>. QED
    BY <1>1, BuildInvariance, PTL

(* No debug toggle of an earlier build survives into a CDI or a release    *)
(* (Makefile:42-55).                                                       *)
THEOREM TogglesAsAsked == BuildSpec => []DebugOnlyAsAsked
  <1>1. DiscInv => DebugOnlyAsAsked
    BY DEF DiscInv, Mastered
  <1>. QED
    BY <1>1, BuildInvariance, PTL

(* A disc is made from the sources as they are when it is mastered         *)
(* (Makefile:37-49).                                                       *)
THEOREM NothingOldMastered == BuildSpec => MasteredIsCurrent
  <1>. DEFINE Current ==
         /\ disc'.program.shim.src = edits["shim_src"]
         /\ disc'.program.main.src = edits["loader_src"]
         /\ disc'.program.main.iface = Iface
  <1>1. ASSUME DiscInv, [BuildNext]_buildVars, disc' # disc, disc' # None PROVE Current
    <2>1. MasterGdi \/ MasterCdi
      BY <1>1 DEF BuildNext, buildVars, Edit, Command, Abort, Clean, Shims, Loader, Make
    <2>2. PICK place \in {"gd", "cd"} :
            Master(IF place = "cd" THEN "cdi" ELSE "gdi",
                   IF place = "cd" THEN CdiAccepts ELSE GdiAccepts, place)
      BY <2>1 DEF MasterGdi, MasterCdi
    <2>3. disc' = Disc(place) /\ run # <<>> /\ Head(run) \in {"gdi", "cdi"}
      BY <1>1, <2>2 DEF Master
    <2>4. disc'.program = Loaded
      BY <2>3 DEF Disc
    <2>. QED
      BY <1>1, <2>3, <2>4, FreshDisc
  <1>2. DiscInv /\ [BuildNext]_buildVars => [disc' # disc /\ disc' # None => Current]_buildVars
    BY <1>1
  <1>. QED
    BY <1>2, BuildInvariance, PTL DEF BuildSpec, MasteredIsCurrent

-----------------------------------------------------------------------------
(* The donor cache.                                                        *)

LEMMA BrokenFinite ==
  ASSUME DonorArchive
  PROVE  /\ IsFiniteSet(Broken) /\ Cardinality(Broken) \in Nat
         /\ \A S : S \subseteq Broken => Cardinality(S) <= Cardinality(Broken)
  <1>1. IsFiniteSet(DonorFiles) /\ Broken \subseteq DonorFiles
    BY DEF DonorArchive, Broken
  <1>2. IsFiniteSet(Broken)
    BY <1>1, FS_Subset
  <1>. QED
    BY <1>2, FS_Subset, FS_CardinalityType

LEMMA DonorBegins == DonorArchive /\ DonorInit => DonorInv
  <1>. SUFFICES ASSUME DonorArchive, DonorInit PROVE DonorInv
    OBVIOUS
  <1>1. Broken = {}
    BY DEF DonorInit, Broken
  <1>2. Cardinality(Broken) = 0
    BY <1>1, FS_EmptySet
  <1>. QED
    BY <1>2 DEF DonorInit, DonorInv, DonorTypes, DonorArchive, Conditions, OnePerKill

LEMMA DonorGoesOn == DonorArchive /\ DonorInv /\ [DonorNext]_donorVars => DonorInv'
  <1>. SUFFICES ASSUME DonorArchive, DonorInv, [DonorNext]_donorVars PROVE DonorInv'
    OBVIOUS
  <1>. USE DEF DonorTypes
  <1>0. kills \in Nat /\ MaxKills \in Nat
    BY DEF DonorInv, DonorArchive
  <1>1. CASE Begin
    <2>1. Broken' = Broken
      BY <1>1 DEF Begin, Broken
    <2>. QED
      BY <1>1, <2>1 DEF Begin, DonorInv, OnePerKill, Cached, Exists
  <1>2. CASE Open
    <2>1. PICK f \in left : /\ now' = f /\ left' = left \ {f}
                            /\ donor' = [donor EXCEPT ![f] = "partial"]
      BY <1>2 DEF Open
    <2>2. UNCHANGED <<made, kills, step>> /\ step = "extract" /\ now = Nothing
          /\ f \in DonorFiles /\ f # Nothing
      BY <1>2, <2>1 DEF Open, DonorInv, DonorArchive
    <2>3. Broken' \subseteq Broken
      <3>. SUFFICES ASSUME NEW g \in DonorFiles, donor'[g] = "partial", g # now'
                    PROVE  donor[g] = "partial" /\ g # now
        BY DEF Broken
      <3>. QED
        BY <2>1, <2>2 DEF DonorInv, DonorArchive
    <2>4. Cardinality(Broken') \in Nat /\ Cardinality(Broken') <= Cardinality(Broken)
      BY <2>3, BrokenFinite, FS_Subset, FS_CardinalityType
    <2>5. Cardinality(Broken') <= kills'
      BY <1>0, <2>2, <2>4, BrokenFinite DEF DonorInv
    <2>6. DonorTypes'
      BY <2>1, <2>2 DEF DonorInv, Conditions
    <2>7. \A g \in DonorFiles : donor'[g] = "whole" \/ g \in left' \/ g = now'
      BY <2>1, <2>2 DEF DonorInv, DonorArchive
    <2>8. donor'[now'] = "partial" /\ now' \notin left'
      BY <2>1, <2>2 DEF DonorInv
    <2>9. OnePerKill'
      BY <2>2 DEF DonorInv, OnePerKill
    <2>. QED
      BY <2>2, <2>5, <2>6, <2>7, <2>8, <2>9 DEF DonorInv
  <1>3. CASE Close
    <2>1. /\ donor' = [donor EXCEPT ![now] = "whole"] /\ now' = Nothing /\ now \in DonorFiles
          /\ UNCHANGED <<left, made, kills>> /\ step = "extract"
          /\ step' = IF left = {} THEN "copy" ELSE step
      BY <1>3 DEF Close, DonorInv
    <2>2. Broken' = Broken
      BY <2>1 DEF Broken, DonorInv, DonorArchive
    <2>3. DonorTypes'
      BY <2>1 DEF DonorInv, Conditions
    <2>4. step' = "copy" => Cached'
      BY <2>1 DEF DonorInv, Cached, Exists
    <2>. QED
      BY <2>1, <2>2, <2>3, <2>4 DEF DonorInv, OnePerKill
  <1>4. CASE Copy
    <2>1. /\ step = "copy" /\ step' = "idle" /\ UNCHANGED <<donor, left, now, kills>>
          /\ made' = IF \A f \in Used : Exists(f) THEN [f \in Used |-> donor[f]] ELSE made
      BY <1>4 DEF Copy
    <2>2. Broken' = Broken /\ now = Nothing
      BY <2>1 DEF Broken, DonorInv
    <2>3. OnePerKill'
      <3>1. CASE made' = made
        BY <2>1, <3>1 DEF OnePerKill, DonorInv
      <3>2. CASE made' = [f \in Used |-> donor[f]] /\ \A f \in Used : Exists(f)
        <4>1. {f \in Used : made'[f] # "whole"} \subseteq Broken
          BY <2>2, <3>2 DEF Broken, Exists, DonorInv, Conditions, DonorArchive
        <4>2. Cardinality({f \in Used : made'[f] # "whole"}) <= Cardinality(Broken)
          BY <4>1, BrokenFinite
        <4>3. Cardinality({f \in Used : made'[f] # "whole"}) \in Nat
          BY <4>1, BrokenFinite, FS_Subset, FS_CardinalityType
        <4>4. Cardinality({f \in Used : made'[f] # "whole"}) <= kills
          BY <1>0, <4>2, <4>3, BrokenFinite DEF DonorInv
        <4>. QED
          BY <2>1, <4>4 DEF OnePerKill
      <3>. QED
        BY <2>1, <3>1, <3>2
    <2>4. DonorTypes'
      BY <2>1 DEF DonorInv, DonorArchive
    <2>. QED
      BY <2>1, <2>2, <2>3, <2>4 DEF DonorInv
  <1>5. CASE Kill
    <2>1. /\ step' = "idle" /\ now' = Nothing /\ left' = {} /\ kills' = kills + 1
          /\ kills < MaxKills /\ UNCHANGED <<donor, made>>
      BY <1>5 DEF Kill
    <2>2. Broken' \subseteq Broken \cup {now}
      BY <2>1 DEF Broken
    <2>3. /\ IsFiniteSet(Broken \cup {now})
          /\ Cardinality(Broken \cup {now}) \in Nat
          /\ Cardinality(Broken \cup {now}) <= Cardinality(Broken) + 1
      <3>1. IsFiniteSet(Broken) /\ Cardinality(Broken) \in Nat
        BY BrokenFinite
      <3>2. /\ IsFiniteSet(Broken \cup {now})
            /\ Cardinality(Broken \cup {now}) =
                 IF now \in Broken THEN Cardinality(Broken) ELSE Cardinality(Broken) + 1
        BY <3>1, FS_AddElement, Zenon
      <3>. QED
        BY <3>1, <3>2
    <2>4. Cardinality(Broken') \in Nat /\ Cardinality(Broken') <= Cardinality(Broken \cup {now})
      BY <2>2, <2>3, FS_Subset, FS_CardinalityType
    <2>5. Cardinality(Broken') <= kills'
      BY <1>0, <2>1, <2>3, <2>4, BrokenFinite DEF DonorInv
    <2>6. OnePerKill'
      <3>1. ASSUME made # Nothing
            PROVE  Cardinality({f \in Used : made[f] # "whole"}) <= kills + 1
        <4>1. IsFiniteSet(Used)
          BY FS_Subset DEF DonorArchive
        <4>2. Cardinality({f \in Used : made[f] # "whole"}) \in Nat
          BY <4>1, FS_Subset, FS_CardinalityType
        <4>. QED
          BY <1>0, <3>1, <4>2 DEF DonorInv, OnePerKill
      <3>. QED
        BY <2>1, <3>1 DEF OnePerKill
    <2>7. DonorTypes'
      BY <1>0, <2>1 DEF DonorInv
    <2>. QED
      BY <2>1, <2>5, <2>6, <2>7 DEF DonorInv
  <1>6. CASE UNCHANGED donorVars
    BY <1>6 DEF donorVars, DonorInv, OnePerKill, Broken, Cached, Exists
  <1>. QED
    BY <1>1, <1>2, <1>3, <1>4, <1>5, <1>6 DEF DonorNext

(* No more files of a disc are partial than runs were killed before it     *)
(* (make_gdi.py:209-220).                                                  *)
THEOREM PartialsAreKills == ASSUME DonorArchive PROVE DonorSpec => []DonorInv
  BY DonorBegins, DonorGoesOn, PTL DEF DonorSpec

(* The promise of the sentinel's comment holds of runs that are left to    *)
(* end: a single kill is what it takes to break it (make_gdi.py:212-213).  *)
THEOREM UnkilledIsWhole ==
  ASSUME DonorArchive, MaxKills = 0 PROVE DonorSpec => []NonePartial
  <1>1. ASSUME DonorInv PROVE NonePartial
    <2>. SUFFICES ASSUME made # Nothing PROVE \A f \in Used : made[f] = "whole"
      BY DEF NonePartial
    <2>1. IsFiniteSet({f \in Used : made[f] # "whole"})
      BY FS_Subset DEF DonorArchive
    <2>2. Cardinality({f \in Used : made[f] # "whole"}) = 0
      BY <1>1, <2>1, FS_CardinalityType DEF DonorInv, OnePerKill, DonorTypes
    <2>3. {f \in Used : made[f] # "whole"} = {}
      BY <2>1, <2>2, FS_EmptySet
    <2>. QED
      BY <2>3
  <1>. QED
    BY <1>1, PartialsAreKills, PTL

(* A run that extracts and is not killed leaves every file whole, whatever *)
(* earlier ones left behind (make_gdi.py:214-219).                         *)
THEOREM ExtractionIsWhole == ASSUME DonorArchive PROVE DonorSpec => ExtractionHeals
  <1>1. ASSUME DonorInv, [DonorNext]_donorVars, step = "extract", step' = "copy"
        PROVE  \A f \in DonorFiles : donor'[f] = "whole"
    <2>1. Close
      BY <1>1 DEF DonorNext, Begin, Open, Copy, Kill, donorVars
    <2>. QED
      BY <1>1, <2>1 DEF Close, DonorInv, DonorTypes
  <1>2. ASSUME DonorInv, [DonorNext]_donorVars
        PROVE  [step = "extract" /\ step' = "copy" =>
                  \A f \in DonorFiles : donor'[f] = "whole"]_donorVars
    BY <1>1, <1>2
  <1>. QED
    BY <1>2, PartialsAreKills, PTL DEF DonorSpec, ExtractionHeals
=============================================================================
