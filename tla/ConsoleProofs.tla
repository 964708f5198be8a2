---------------------------- MODULE ConsoleProofs ---------------------------
(***************************************************************************)
(* Proofs about Console: the ring of consoleintr() and consoleread()       *)
(* implements LineInput, and no wakeup of a reader is lost.                *)
(***************************************************************************)
EXTENDS Console, Rings

PC == {"idle", "acquire", "loop", "sleep", "asleep"}

\* Every variable has its type.
TypeOK ==
  /\ buf \in [0 .. INPUT_BUF - 1 -> Chars]
  /\ r \in 0 .. UINT - 1 /\ w \in 0 .. UINT - 1 /\ e \in 0 .. UINT - 1
  /\ lock \in Readers \cup {Nobody}
  /\ pc \in [Readers -> PC]

\* cons.lock has one holder, and a reader on its way to sleep() has it.
LockHeld == \A p \in Readers : lock = p <=> pc[p] \in {"loop", "sleep"}

\* A reader that goes to sleep, or sleeps, has nothing to read.
SleepersWait == \A p \in Readers : pc[p] \in {"sleep", "asleep"} => r = w

\* input.r, input.w and input.e come in this order, at most a ring apart.
InOrder ==
  /\ Distance(r, w) + Distance(w, e) = Distance(r, e)
  /\ Distance(r, e) <= INPUT_BUF

\* The line that is being edited has no '\n'.
OneLine == \A i \in 1 .. Len(Slice(w, e)) : Slice(w, e)[i] # Newline

ConsoleInv == TypeOK /\ LockHeld /\ SleepersWait /\ InOrder /\ OneLine
-----------------------------------------------------------------------------
\* The steps of the console.
LEMMA NextCases ==
  ASSUME [Next]_vars
  PROVE  \/ \E c \in Letters \cup {CR, Newline} : Key(c)
         \/ Backspace \/ KillLine \/ Shutdown
         \/ \E p \in Readers : Acquire(p) \/ Wait(p) \/ Sleep(p) \/ ReadChar(p) \/ ReadDone(p) \/ Kill(p)
         \/ \E p \in Readers, n \in 1 .. MaxRead : Call(p, n)
         \/ UNCHANGED vars
BY Zenon DEF Next, Intr, Read
-----------------------------------------------------------------------------
(* Readers and their lock.                                                 *)

\* The lock keeps one holder, and whoever goes to sleep has nothing to read: the interrupt
\* cannot add a line between the test and sleep() of consoleread(), and wakes who sleeps.
LEMMA ReadersStep ==
  TypeOK /\ LockHeld /\ SleepersWait /\ [Next]_vars =>
    /\ lock' \in Readers \cup {Nobody} /\ pc' \in [Readers -> PC]
    /\ LockHeld' /\ SleepersWait'
<1> DEFINE G == /\ lock' \in Readers \cup {Nobody} /\ pc' \in [Readers -> PC]
                /\ LockHeld' /\ SleepersWait'
<1> SUFFICES ASSUME TypeOK, LockHeld, SleepersWait, [Next]_vars PROVE G
  BY Zenon
<1> USE ConsoleConstants DEF TypeOK, PC
<1>1. ASSUME NEW c \in Letters \cup {CR, Newline}, Key(c) PROVE G
  <2>1. lock = Nobody /\ lock' = Nobody /\ r' = r
    BY <1>1, Zenon DEF Key
  <2>2. CASE w' = w /\ pc' = pc
    BY <2>1, <2>2, Zenon DEF LockHeld, SleepersWait
  <2>3. CASE pc' = Wakeup
    BY <2>1, <2>3, Zenon DEF LockHeld, SleepersWait, Wakeup
  <2>4. QED
    BY <1>1, <2>2, <2>3, Zenon DEF Key
<1>2. ASSUME Backspace \/ KillLine \/ Shutdown PROVE G
  BY <1>2, Zenon DEF Backspace, KillLine, Shutdown, input, LockHeld, SleepersWait
<1>3. ASSUME NEW p \in Readers, Acquire(p) PROVE G
  BY <1>3, Zenon DEF Acquire, input, LockHeld, SleepersWait
<1>4. ASSUME NEW p \in Readers, Wait(p) PROVE G
  BY <1>4, Zenon DEF Wait, input, LockHeld, SleepersWait
<1>5. ASSUME NEW p \in Readers, Sleep(p) PROVE G
  BY <1>5, Zenon DEF Sleep, input, LockHeld, SleepersWait
<1>6. ASSUME NEW p \in Readers, ReadChar(p) PROVE G
  BY <1>6, Zenon DEF ReadChar, LockHeld, SleepersWait
<1>7. ASSUME NEW p \in Readers, ReadDone(p) PROVE G
  BY <1>7, Zenon DEF ReadDone, input, LockHeld, SleepersWait
<1>8. ASSUME NEW p \in Readers, Kill(p) PROVE G
  BY <1>8, Zenon DEF Kill, input, LockHeld, SleepersWait
<1>9. ASSUME NEW p \in Readers, NEW n \in 1 .. MaxRead, Call(p, n) PROVE G
  BY <1>9, Zenon DEF Call, input, LockHeld, SleepersWait
<1>10. CASE UNCHANGED vars
  BY <1>10, Zenon DEF vars, LockHeld, SleepersWait
<1> HIDE DEF G
<1>11. QED
  BY <1>1, <1>2, <1>3, <1>4, <1>5, <1>6, <1>7, <1>8, <1>9, <1>10, NextCases, Zenon
-----------------------------------------------------------------------------
(* The ring.                                                               *)

\* The three counters are in order on a ring, and the lines are what is between them.
LEMMA ConsoleRing ==
  ASSUME TypeOK, InOrder
  PROVE  /\ Between(UINT, INPUT_BUF, r, w, e)
         /\ Ahead(r, w, UINT) = Distance(r, w) /\ Ahead(w, e, UINT) = Distance(w, e)
         /\ Ahead(r, e, UINT) = Distance(r, e)
         /\ Distance(r, w) \in Nat /\ Distance(w, e) \in Nat /\ Distance(r, e) \in Nat
         /\ Slice(r, w) \in Seq(Chars) /\ Len(Slice(r, w)) = Distance(r, w)
         /\ Slice(w, e) \in Seq(Chars) /\ Len(Slice(w, e)) = Distance(w, e)
         /\ \A i \in 1 .. Distance(w, e) : Slice(w, e)[i] = buf[(w + i - 1) % INPUT_BUF]
<1>1. /\ Ring(UINT, INPUT_BUF, r, w) /\ Ring(UINT, INPUT_BUF, w, e)
      /\ Ring(UINT, INPUT_BUF, r, e)
  BY ConsoleConstants DEF TypeOK, Ring
<1>2. /\ Ahead(r, w, UINT) = Distance(r, w) /\ Ahead(w, e, UINT) = Distance(w, e)
      /\ Ahead(r, e, UINT) = Distance(r, e)
  BY Zenon DEF Ahead, Distance
<1>3. /\ Slice(r, w) = RingSeq(buf, r, w, UINT, INPUT_BUF)
      /\ Slice(w, e) = RingSeq(buf, w, e, UINT, INPUT_BUF)
  BY Zenon DEF Slice, Distance, RingSeq, Ahead
<1>4. /\ Distance(r, w) \in Nat /\ Holds(Slice(r, w), Distance(r, w), buf, r, INPUT_BUF, Chars)
      /\ Distance(w, e) \in Nat /\ Holds(Slice(w, e), Distance(w, e), buf, w, INPUT_BUF, Chars)
      /\ Distance(r, e) \in Nat
  <2>0. buf \in [0 .. INPUT_BUF - 1 -> Chars]
    BY Zenon DEF TypeOK
  <2>1. Distance(r, w) \in Nat /\ Holds(Slice(r, w), Distance(r, w), buf, r, INPUT_BUF, Chars)
    BY <1>1, <1>2, <1>3, <2>0, RingIsSeq
  <2>2. Distance(w, e) \in Nat /\ Holds(Slice(w, e), Distance(w, e), buf, w, INPUT_BUF, Chars)
    BY <1>1, <1>2, <1>3, <2>0, RingIsSeq
  <2>3. Distance(r, e) \in Nat
    BY <1>1, <1>2, <2>0, RingIsSeq
  <2>4. QED
    BY <2>1, <2>2, <2>3, Zenon
<1>5. Between(UINT, INPUT_BUF, r, w, e)
  BY <1>1, <1>2, Zenon DEF Between, InOrder
<1>6. QED
  BY <1>2, <1>4, <1>5, Zenon DEF Holds

\* The room of LineInput is that of the ring.
LEMMA RoomLeft ==
  ASSUME TypeOK, InOrder
  PROVE  Lines!Room = INPUT_BUF - Distance(r, e)
<1> DEFINE m == Distance(r, w)
           n == Distance(w, e)
<1>1. m \in Nat /\ n \in Nat /\ Distance(r, e) = m + n /\ INPUT_BUF \in Nat
  BY ConsoleRing, ConsoleConstants, Zenon DEF InOrder
<1>2. Lines!Room = INPUT_BUF - m - n
  BY ConsoleRing, Zenon DEF Lines!Room
<1> HIDE DEF m, n
<1>3. QED
  BY <1>1, <1>2

\* A step of the ring.
GoodStep ==
  /\ buf' \in [0 .. INPUT_BUF - 1 -> Chars]
  /\ r' \in 0 .. UINT - 1 /\ w' \in 0 .. UINT - 1 /\ e' \in 0 .. UINT - 1
  /\ InOrder' /\ OneLine'
  /\ [Lines!Next]_<<Slice(r, w), Slice(w, e)>>

\* What leaves the ring alone is no step.
LEMMA NoStep ==
  ASSUME TypeOK, InOrder, OneLine, UNCHANGED input
  PROVE  GoodStep
BY Zenon DEF input, GoodStep, TypeOK, InOrder, OneLine, Slice, Distance

\* A key, where there is room: the character goes behind the others into a place that none of
\* them has, and the line goes to the readers if it is ended or nothing more fits.
LEMMA KeyStep ==
  ASSUME TypeOK, InOrder, OneLine, NEW c \in Letters \cup {CR, Newline}, Key(c)
  PROVE  GoodStep
<1> DEFINE x == Translate(c)
           e1 == (e + 1) % UINT
           buf1 == Stored(buf, e, x, INPUT_BUF)
<1>0. /\ UINT \in Nat \ {0} /\ INPUT_BUF \in 1 .. UINT - 1 /\ INPUT_BUF \in Nat \ {0} /\ INPUT_BUF < UINT
      /\ UINT % INPUT_BUF = 0
      /\ r \in 0 .. UINT - 1 /\ w \in 0 .. UINT - 1 /\ e \in 0 .. UINT - 1
      /\ buf \in [0 .. INPUT_BUF - 1 -> Chars]
  BY ConsoleConstants DEF TypeOK
<1>1. x \in Chars
  BY Zenon DEF Translate, Chars
<1>2. buf' = buf1 /\ e' = e1 /\ r' = r
  BY Zenon DEF Key, Inc, Stored
<1>3. \/ EndsLine(x) /\ w' = e1
      \/ ~EndsLine(x) /\ w' = w
  BY Zenon DEF Key, Inc
<1>4. Distance(r, e) < INPUT_BUF /\ Distance(w, e) < INPUT_BUF
  <2>1. Distance(r, e) < INPUT_BUF
    BY Zenon DEF Key, HasRoom, Distance
  <2>2. QED
    BY <1>0, <2>1, ConsoleRing DEF InOrder
<1>5. e1 \in 0 .. UINT - 1 /\ buf1 \in [0 .. INPUT_BUF - 1 -> Chars]
  <2>1. e1 \in 0 .. UINT - 1
    BY <1>0, DivMod
  <2>2. e % INPUT_BUF \in 0 .. INPUT_BUF - 1
    BY <1>0
  <2>3. QED
    BY <1>0, <1>1, <2>1, <2>2, Zenon DEF Stored
<1>6. Ahead(r, e1, UINT) = Distance(r, e) + 1 /\ Ahead(w, e1, UINT) = Distance(w, e) + 1
  <2>1. Ahead(r, e, UINT) < UINT - 1 /\ Ahead(w, e, UINT) < UINT - 1
    BY <1>0, <1>4, ConsoleRing
  <2>2. /\ Ahead(r, e1, UINT) = Ahead(r, e, UINT) + 1
        /\ Ahead(w, e1, UINT) = Ahead(w, e, UINT) + 1
    BY <1>0, <2>1, AheadGrows, ZenonT(60)
  <2>3. QED
    BY <2>2, ConsoleRing, Zenon
<1>7. /\ Ring(UINT, INPUT_BUF, r, e) /\ Ring(UINT, INPUT_BUF, w, e)
      /\ RingRoom(UINT, INPUT_BUF, r, e) /\ RingRoom(UINT, INPUT_BUF, w, e)
  BY <1>0, <1>4, ConsoleRing, Zenon DEF Ring, RingRoom
<1>8. EndsLine(x) <=> x = Newline \/ Distance(r, e) + 1 = INPUT_BUF
  <2>1. e1 = (r + INPUT_BUF) % UINT <=> Ahead(r, e1, UINT) = INPUT_BUF
    BY <1>0, <1>5, AheadFull
  <2>2. QED
    BY <1>6, <2>1, Zenon DEF EndsLine, Inc
<1>9. CASE EndsLine(x) /\ w' = e1
  <2>1. Slice(w, e)' = <<>> /\ Distance(w, e)' = 0
    <3>1. Ahead(e1, e1, UINT) = 0
      BY <1>0, <1>5, AheadIs
    <3>2. Distance(w, e)' = 0
      BY <1>2, <1>9, <3>1, Zenon DEF Distance, Ahead
    <3>3. QED
      BY <3>2 DEF Slice
  <2>2. Distance(r, w)' = Distance(r, e) + 1 /\ Distance(r, e)' = Distance(r, e) + 1
    BY <1>2, <1>6, <1>9, Zenon DEF Distance, Ahead
  <2>3. InOrder' /\ OneLine'
    BY <1>0, <1>4, <2>1, <2>2, ConsoleRing, SMTT(60) DEF InOrder, OneLine
  <2>4. Slice(r, w)' = Slice(r, w) \o Append(Slice(w, e), x)
    <3>1. RingSeq(buf, r, e, UINT, INPUT_BUF) = Slice(r, w) \o Slice(w, e)
      <4>1. IsJoin(RingSeq(buf, r, e, UINT, INPUT_BUF),
                   RingSeq(buf, r, w, UINT, INPUT_BUF), RingSeq(buf, w, e, UINT, INPUT_BUF))
        BY <1>0, ConsoleRing, RingSplit, Zenon
      <4>2. QED
        BY <4>1, Zenon DEF Slice, Distance, RingSeq, Ahead, IsJoin
    <3>2. IsAfter(x, RingSeq(buf, r, e, UINT, INPUT_BUF), RingSeq(buf1, r, e1, UINT, INPUT_BUF))
      BY <1>0, <1>1, <1>7, RingPut, Zenon
    <3>3. Slice(r, w)' = RingSeq(buf1, r, e1, UINT, INPUT_BUF)
      BY <1>2, <1>9, Zenon DEF Slice, Distance, RingSeq, Ahead
    <3>4. Slice(r, w)' = Append(Slice(r, w) \o Slice(w, e), x)
      BY <3>1, <3>2, <3>3, Zenon DEF IsAfter
    <3>5. Append(Slice(r, w) \o Slice(w, e), x) = Slice(r, w) \o Append(Slice(w, e), x)
      <4> DEFINE s == Slice(r, w)
                 t == Slice(w, e)
      <4>1. s \in Seq(Chars) /\ t \in Seq(Chars) /\ x \in Chars
        BY <1>1, ConsoleRing, Zenon
      <4> HIDE DEF s, t, x
      <4>2. Append(s \o t, x) = s \o Append(t, x)
        BY <4>1
      <4>3. QED
        BY <4>2, Zenon DEF s, t
    <3>6. QED
      BY <3>4, <3>5, Zenon
  <2>5. Lines!Enter(x)
    <3>1. Lines!Room = INPUT_BUF - Distance(r, e)
      BY RoomLeft, Zenon
    <3>2. QED
      <4>1. Distance(r, e) \in Nat
        BY ConsoleRing, Zenon
      <4>2. Lines!Room = 1 \/ (Lines!Room > 1 /\ x = Newline)
        BY <1>0, <1>4, <1>8, <1>9, <3>1, <4>1
      <4>3. QED
        BY <2>1, <2>4, <4>2, Zenon DEF Lines!Enter
  <2>6. QED
    BY <1>0, <1>1, <1>2, <1>5, <1>9, <2>3, <2>5, Zenon DEF GoodStep, Lines!Next
<1>10. CASE ~EndsLine(x) /\ w' = w
  <2>1. /\ Distance(r, w)' = Distance(r, w) /\ Distance(w, e)' = Distance(w, e) + 1
        /\ Distance(r, e)' = Distance(r, e) + 1
    BY <1>2, <1>6, <1>10, Zenon DEF Distance, Ahead
  <2>2. InOrder'
    BY <1>0, <1>4, <2>1, ConsoleRing, SMTT(60) DEF InOrder
  <2>3. Slice(w, e)' = Append(Slice(w, e), x)
    <3>1. IsAfter(x, RingSeq(buf, w, e, UINT, INPUT_BUF), RingSeq(buf1, w, e1, UINT, INPUT_BUF))
      BY <1>0, <1>1, <1>7, RingPut, Zenon
    <3>2. QED
      BY <1>2, <1>10, <3>1, Zenon DEF Slice, Distance, RingSeq, Ahead, IsAfter
  <2>4. Slice(r, w)' = Slice(r, w)
    <3>1. RingSeq(buf1, r, w, UINT, INPUT_BUF) = RingSeq(buf, r, w, UINT, INPUT_BUF)
      BY SMTT(30), <1>0, <1>1, <1>7, ConsoleRing, RingKeep
    <3>2. QED
      BY <1>2, <1>10, <3>1, Zenon DEF Slice, Distance, RingSeq, Ahead
  <2>5. x # Newline
    BY <1>8, <1>10, Zenon
  <2>6. OneLine'
    <3> DEFINE s == Slice(w, e)
               t == Slice(w, e)'
    <3>1. s \in Seq(Chars) /\ t = Append(s, x) /\ \A i \in 1 .. Len(s) : s[i] # Newline
      BY <2>3, ConsoleRing, Zenon DEF OneLine
    <3> HIDE DEF s, t
    <3>2. \A i \in 1 .. Len(t) : t[i] # Newline
      BY <1>1, <2>5, <3>1
    <3>3. QED
      BY <3>2, Zenon DEF OneLine, t
  <2>7. Lines!Edit(x)
    <3>1. Lines!Room = INPUT_BUF - Distance(r, e)
      BY RoomLeft, Zenon
    <3>2. QED
      BY <1>0, <1>4, <1>8, <1>10, <2>3, <2>4, <2>5, <3>1, ConsoleRing, SMTT(60) DEF Lines!Edit
  <2>8. QED
    BY <1>0, <1>1, <1>2, <1>5, <1>10, <2>2, <2>6, <2>7, Zenon DEF GoodStep, Lines!Next
<1>11. QED
  BY <1>3, <1>9, <1>10, Zenon

\* Backspace takes the last character of the line, never one that the readers have.
LEMMA BackspaceStep ==
  ASSUME TypeOK, InOrder, OneLine, Backspace
  PROVE  GoodStep
<1> DEFINE e1 == (e + UINT - 1) % UINT
<1>0. /\ UINT \in Nat \ {0} /\ INPUT_BUF \in Nat \ {0} /\ UINT % INPUT_BUF = 0
      /\ r \in 0 .. UINT - 1 /\ w \in 0 .. UINT - 1 /\ e \in 0 .. UINT - 1 /\ w # e
      /\ buf \in [0 .. INPUT_BUF - 1 -> Chars]
  BY ConsoleConstants DEF TypeOK, Backspace
<1>1. buf' = buf /\ e' = e1 /\ r' = r /\ w' = w
  BY Zenon DEF Backspace, Dec
<1>2. e1 \in 0 .. UINT - 1 /\ Ahead(w, e, UINT) > 0 /\ Ahead(w, e1, UINT) = Ahead(w, e, UINT) - 1
  <2>1. /\ (e + UINT - 1) % UINT \in 0 .. UINT - 1 /\ Ahead(w, e, UINT) > 0
        /\ Ahead(w, (e + UINT - 1) % UINT, UINT) = Ahead(w, e, UINT) - 1
    <3> HIDE DEF e1
    <3>1. /\ UINT \in Nat \ {0} /\ w \in 0 .. UINT - 1 /\ e \in 0 .. UINT - 1 /\ w # e
      BY <1>0, Zenon
    <3>2. QED
      BY <3>1, AheadBack, Zenon
  <2>2. QED
    BY <2>1, Zenon
<1>3. r # e
  <2>1. Distance(r, e) # 0
    BY <1>2, ConsoleRing DEF InOrder
  <2>2. Ahead(r, r, UINT) = 0
    BY <1>0, AheadIs
  <2>3. QED
    BY <2>1, <2>2, Zenon DEF Distance, Ahead
<1>4. Ahead(r, e1, UINT) = Ahead(r, e, UINT) - 1
  BY <1>0, <1>3, AheadBack
<1>5. /\ Distance(r, w)' = Distance(r, w) /\ Distance(w, e)' = Distance(w, e) - 1
      /\ Distance(r, e)' = Distance(r, e) - 1
  BY <1>1, <1>2, <1>4, Zenon DEF Distance, Ahead
<1>6. InOrder'
  BY <1>0, <1>5, ConsoleRing, SMTT(60) DEF InOrder
<1>7. /\ Slice(r, w)' = Slice(r, w) /\ Slice(w, e) # <<>>
      /\ Slice(w, e)' = SubSeq(Slice(w, e), 1, Len(Slice(w, e)) - 1)
  <2>1. Ring(UINT, INPUT_BUF, w, e)
    BY <1>0, Zenon DEF Ring
  <2>2. IsShorter(RingSeq(buf, w, e1, UINT, INPUT_BUF), RingSeq(buf, w, e, UINT, INPUT_BUF))
    BY <1>0, <2>1, RingDrop, Zenon
  <2>3. QED
    BY <1>1, <2>2, Zenon DEF Slice, Distance, RingSeq, Ahead, IsShorter
<1>8. OneLine'
  <2> DEFINE s == Slice(w, e)
             t == Slice(w, e)'
  <2>1. s \in Seq(Chars) /\ s # <<>> /\ t = SubSeq(s, 1, Len(s) - 1) /\ \A i \in 1 .. Len(s) : s[i] # Newline
    BY <1>7, ConsoleRing, Zenon DEF OneLine
  <2> HIDE DEF s, t
  <2>2. \A i \in 1 .. Len(t) : t[i] # Newline
    BY <2>1
  <2>3. QED
    BY <2>2, Zenon DEF OneLine, t
<1>9. Lines!Erase
  BY <1>7, Zenon DEF Lines!Erase
<1>10. QED
  BY <1>0, <1>1, <1>2, <1>6, <1>8, <1>9, Zenon DEF GoodStep, Lines!Next

\* C('U') takes the whole line, and no more: the search for the last '\n' stops at input.w.
LEMMA KillLineStep ==
  ASSUME TypeOK, InOrder, OneLine, KillLine
  PROVE  GoodStep
<1> DEFINE d == Distance(w, e)
           after == {i \in 0 .. INPUT_BUF : i <= (e + UINT - w) % UINT}
           stop(i) == LET e1 == (e + UINT - i) % UINT
                      IN  e1 = w \/ buf[Dec(e1) % INPUT_BUF] = Newline
           back == CHOOSE i \in after : stop(i) /\ \A j \in after : j < i => ~stop(j)
<1>0. /\ UINT \in Nat \ {0} /\ INPUT_BUF \in Nat \ {0} /\ UINT % INPUT_BUF = 0
      /\ r \in 0 .. UINT - 1 /\ w \in 0 .. UINT - 1 /\ e \in 0 .. UINT - 1
      /\ buf \in [0 .. INPUT_BUF - 1 -> Chars]
  BY ConsoleConstants DEF TypeOK
<1>1. d \in Nat /\ d <= INPUT_BUF /\ d = Ahead(w, e, UINT)
  BY <1>0, ConsoleRing DEF InOrder
<1>2. after = 0 .. d
  BY <1>0, <1>1 DEF Distance
<1>3. (e + UINT - d) % UINT = w
  <2>1. d \in 0 .. Ahead(w, e, UINT)
    BY <1>1
  <2>2. QED
    BY <1>0, <1>1, <2>1, AheadJump
<1>4. stop(d)
  BY <1>3, Zenon
<1>5. ASSUME NEW i \in 0 .. d, i < d PROVE ~stop(i)
  <2> DEFINE e1 == (e + UINT - i) % UINT
  <2>1. e1 \in 0 .. UINT - 1 /\ Ahead(w, e1, UINT) = d - i /\ e1 # w
    <3>1. i \in 0 .. Ahead(w, e, UINT) /\ i # Ahead(w, e, UINT)
      BY <1>1, <1>5
    <3>2. QED
      BY <1>0, <1>1, <3>1, AheadJump
  <2> HIDE DEF e1
  <2> DEFINE e2 == (e1 + UINT - 1) % UINT
  <2>2. e2 \in 0 .. UINT - 1 /\ Ahead(w, e2, UINT) = Ahead(w, e1, UINT) - 1
    BY <1>0, <2>1, AheadBack
  <2> HIDE DEF e2
  <2>3. (w + Ahead(w, e2, UINT)) % INPUT_BUF = e2 % INPUT_BUF
    <3>1. Ring(UINT, INPUT_BUF, w, e2)
      BY <1>0, <2>2, Zenon DEF Ring
    <3>2. QED
      BY <3>1, AheadPlace
  <2>4. d - i \in 1 .. d /\ w + (d - i) - 1 = w + Ahead(w, e2, UINT)
    BY <1>0, <1>1, <1>5, <2>1, <2>2
  <2>5. Slice(w, e)[d - i] = buf[(w + (d - i) - 1) % INPUT_BUF] /\ Len(Slice(w, e)) = d
    BY <2>4, ConsoleRing, Zenon
  <2>6. Slice(w, e)[d - i] # Newline
    BY <2>4, <2>5, Zenon DEF OneLine
  <2>7. buf[e2 % INPUT_BUF] # Newline
    BY <2>3, <2>4, <2>5, <2>6, Zenon
  <2>8. QED
    BY <2>1, <2>7, Zenon DEF e1, e2, Dec
<1> HIDE DEF d, stop
<1>6. back = d
  BY <1>1, <1>2, <1>4, <1>5
<1>7. buf' = buf /\ r' = r /\ w' = w /\ e' = w
  <2>1. e' = (e + UINT - back) % UINT
    BY Zenon DEF KillLine, stop
  <2>2. QED
    BY <1>3, <1>6, <2>1, Zenon DEF KillLine
<1>8. Distance(w, e)' = 0 /\ Distance(r, w)' = Distance(r, w) /\ Distance(r, e)' = Distance(r, w)
  <2>1. Ahead(w, w, UINT) = 0
    BY <1>0, AheadIs
  <2>2. QED
    BY <1>7, <2>1, Zenon DEF Distance, Ahead
<1>9. Slice(w, e)' = <<>> /\ Slice(r, w)' = Slice(r, w)
  BY <1>7, <1>8 DEF Slice
<1>10. InOrder' /\ OneLine'
  BY <1>0, <1>8, <1>9, ConsoleRing DEF InOrder, OneLine
<1>11. Lines!EraseLine
  BY <1>9, Zenon DEF Lines!EraseLine
<1>12. QED
  BY <1>0, <1>7, <1>10, <1>11, Zenon DEF GoodStep, Lines!Next

\* consoleread() takes the oldest character of a line that is ended.
LEMMA ReadCharStep ==
  ASSUME TypeOK, InOrder, OneLine, NEW p \in Readers, ReadChar(p)
  PROVE  GoodStep
<1> DEFINE r1 == (r + 1) % UINT
<1>0. /\ UINT \in Nat \ {0} /\ INPUT_BUF \in Nat \ {0} /\ UINT % INPUT_BUF = 0
      /\ r \in 0 .. UINT - 1 /\ w \in 0 .. UINT - 1 /\ e \in 0 .. UINT - 1 /\ r # w
      /\ buf \in [0 .. INPUT_BUF - 1 -> Chars]
  BY ConsoleConstants DEF TypeOK, ReadChar
<1>1. buf' = buf /\ e' = e /\ r' = r1 /\ w' = w
  BY Zenon DEF ReadChar, Inc
<1>2. r1 \in 0 .. UINT - 1
  BY <1>0, DivMod
<1>3. Ahead(r, w, UINT) > 0 /\ Ahead(r1, w, UINT) = Ahead(r, w, UINT) - 1
  BY <1>0, AheadShrinks, Zenon
<1>4. r # e
  <2>1. Distance(r, e) # 0
    BY <1>3, ConsoleRing DEF InOrder
  <2>2. Ahead(r, r, UINT) = 0
    BY <1>0, AheadIs
  <2>3. QED
    BY <2>1, <2>2, Zenon DEF Distance, Ahead
<1>5. Ahead(r1, e, UINT) = Ahead(r, e, UINT) - 1
  BY <1>0, <1>4, AheadShrinks
<1>6. /\ Distance(r, w)' = Distance(r, w) - 1 /\ Distance(w, e)' = Distance(w, e)
      /\ Distance(r, e)' = Distance(r, e) - 1
  BY <1>1, <1>3, <1>5, Zenon DEF Distance, Ahead
<1>7. InOrder'
  BY <1>0, <1>6, ConsoleRing, SMTT(60) DEF InOrder
<1>8. Slice(w, e)' = Slice(w, e) /\ Slice(r, w) # <<>> /\ Slice(r, w)' = Tail(Slice(r, w))
  <2>1. Ring(UINT, INPUT_BUF, r, w)
    BY <1>0, Zenon DEF Ring
  <2>2. IsBefore(buf[r % INPUT_BUF], RingSeq(buf, r1, w, UINT, INPUT_BUF), RingSeq(buf, r, w, UINT, INPUT_BUF))
    BY <1>0, <2>1, RingGet, Zenon
  <2>3. QED
    BY <1>1, <2>2, Zenon DEF Slice, Distance, RingSeq, Ahead, IsBefore
<1>9. OneLine'
  BY <1>8, Zenon DEF OneLine
<1>10. Lines!Read
  BY <1>8, Zenon DEF Lines!Read
<1>11. QED
  BY <1>0, <1>1, <1>2, <1>7, <1>9, <1>10, Zenon DEF GoodStep, Lines!Next

\* Every step of the console is a step of LineInput, or none.
LEMMA RingStep ==
  ASSUME TypeOK, InOrder, OneLine, [Next]_vars
  PROVE  GoodStep
<1>1. CASE UNCHANGED vars
  BY <1>1, NoStep, Zenon DEF vars, input
<1>2. CASE Shutdown
  BY <1>2, NoStep, Zenon DEF Shutdown
<1>3. ASSUME NEW p \in Readers, Acquire(p) \/ Wait(p) \/ Sleep(p) \/ ReadDone(p) \/ Kill(p) PROVE GoodStep
  BY <1>3, NoStep, Zenon DEF Acquire, Wait, Sleep, ReadDone, Kill
<1>4. ASSUME NEW p \in Readers, NEW n \in 1 .. MaxRead, Call(p, n) PROVE GoodStep
  BY <1>4, NoStep, Zenon DEF Call
<1>5. QED
  BY <1>1, <1>2, <1>3, <1>4, NextCases, KeyStep, BackspaceStep, KillLineStep, ReadCharStep, Zenon

\* At first the ring is empty and nobody reads.
LEMMA ConsoleInit == Init => ConsoleInv /\ Lines!Init
<1> SUFFICES ASSUME Init PROVE ConsoleInv /\ Lines!Init
  BY Zenon
<1>0. UINT \in Nat \ {0} /\ 0 \in 0 .. UINT - 1
  BY ConsoleConstants
<1>1. TypeOK
  BY <1>0, Zenon DEF Init, TypeOK, PC, Chars
<1>2. LockHeld /\ SleepersWait
  BY ConsoleConstants, Zenon DEF Init, LockHeld, SleepersWait
<1>3. Ahead(0, 0, UINT) = 0
  BY <1>0, AheadIs
<1>4. Distance(r, w) = 0 /\ Distance(w, e) = 0 /\ Distance(r, e) = 0
  BY <1>3, Zenon DEF Init, Distance, Ahead
<1>5. Slice(r, w) = <<>> /\ Slice(w, e) = <<>>
  BY <1>4 DEF Slice
<1>6. InOrder /\ OneLine
  BY <1>4, <1>5, ConsoleConstants DEF InOrder, OneLine
<1>7. QED
  BY <1>1, <1>2, <1>5, <1>6, Zenon DEF ConsoleInv, Lines!Init

\* The invariant is kept, along a step of LineInput or none.
LEMMA ConsoleStep ==
  ConsoleInv /\ [Next]_vars => ConsoleInv' /\ [Lines!Next]_<<Slice(r, w), Slice(w, e)>>
BY RingStep, ReadersStep, Zenon DEF ConsoleInv, GoodStep, TypeOK

\* The inductive invariant holds of every behaviour.
LEMMA ConsoleInvHolds == Spec => []ConsoleInv
BY ConsoleInit, ConsoleStep, PTL DEF Spec

\* Nobody sleeps in consoleread() while a line is there to be read, for any number of readers.
THEOREM InputNeverLost == Spec => []NoLostInput
<1>1. ConsoleInv => NoLostInput
  BY Zenon DEF ConsoleInv, SleepersWait, NoLostInput
<1>2. QED
  BY <1>1, ConsoleInvHolds, PTL

\* The console implements LineInput, for any size of the ring and any width of the counters
\* that is a multiple of it: no character is overwritten before it is read, and editing never
\* reaches into a line that is ended.
THEOREM ConsoleIsLineInput == Spec => IsLineInput
BY ConsoleInit, ConsoleStep, PTL DEF Spec, IsLineInput, Lines!Spec
=============================================================================
