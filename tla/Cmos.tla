--------------------------------- MODULE Cmos ---------------------------------
(***************************************************************************)
(* cmostime() of lapic.c: the date read from the real time clock, register *)
(* by register, while the clock runs.  Two registers stand for the six,    *)
(* with LOW values in the lower one.  While an update is in progress (UIP) *)
(* a register may read as anything.                                        *)
(***************************************************************************)
EXTENDS Integers, Sequences

CONSTANTS LOW, HIGH,    \* values of the two registers
          Noise         \* what a register may show during an update

ASSUME CmosConstants == LOW \in Nat \ {0} /\ HIGH \in Nat \ {0}

VARIABLES clock,        \* the time, LOW * high + low
          uip,
          cpc, t1, t2,  \* cmostime()
          updates,      \* updates begun since the attempt did
          seen,         \* times the clock showed since the attempt began
          bcdMode, date
cmosVars == <<clock, uip, cpc, t1, t2, updates, seen, bcdMode, date>>

Bcd(n) == (n \div 10) * 16 + (n % 10)
Coded(n) == IF bcdMode THEN Bcd(n) ELSE n
Register(i) == Coded(IF i = 1 THEN clock % LOW ELSE clock \div LOW)

CmosInit == /\ clock = 0 /\ uip = FALSE /\ cpc = "idle" /\ t1 = <<>> /\ t2 = <<>>
            /\ updates = 0 /\ seen = {} /\ bcdMode = FALSE /\ date = <<>>

\* The clock: at most one update begins during an attempt, a second is much longer than that.
BeginUpdate == /\ cpc # "idle" /\ ~uip /\ updates = 0
               /\ uip' = TRUE /\ updates' = 1
               /\ UNCHANGED <<clock, cpc, t1, t2, seen, bcdMode, date>>
EndUpdate == /\ uip /\ uip' = FALSE
             /\ clock' = (clock + 1) % (LOW * HIGH) /\ seen' = seen \cup {clock'}
             /\ UNCHANGED <<cpc, t1, t2, updates, bcdMode, date>>

\* sys_date(): any time, either coding
ReadRtc == /\ cpc = "idle" /\ date = <<>>
           /\ clock' \in 0 .. LOW * HIGH - 1 /\ bcdMode' \in BOOLEAN /\ uip' \in BOOLEAN
           /\ seen' = {clock'} /\ updates' = IF uip' THEN 1 ELSE 0
           /\ cpc' = "t1" /\ UNCHANGED <<t1, t2, date>>

\* fill_rtcdate(): one register at a time
Readable(i) == {Register(i)} \cup (IF uip THEN Noise ELSE {})
Fill(pc, t, next) == /\ cpc = pc
                     /\ \E v \in Readable(Len(t) + 1) : t' = Append(t, v)
                     /\ cpc' = IF Len(t) = 1 THEN next ELSE pc
                     /\ UNCHANGED <<clock, uip, updates, seen, bcdMode, date>>
FillT1 == Fill("t1", t1, "uip") /\ UNCHANGED t2
FillT2 == Fill("t2", t2, "cmp") /\ UNCHANGED t1

Again == /\ cpc' = "t1" /\ t1' = <<>> /\ t2' = <<>> /\ seen' = {clock} /\ updates' = IF uip THEN 1 ELSE 0
         /\ UNCHANGED <<clock, uip, bcdMode, date>>
Mut_TestUip == cpc = "uip" /\ cpc' = "t2" /\ UNCHANGED <<clock, uip, t1, t2, updates, seen, bcdMode, date>>
TestUip == /\ cpc = "uip"
           /\ \/ uip /\ Again
              \/ ~uip /\ cpc' = "t2" /\ UNCHANGED <<clock, uip, t1, t2, updates, seen, bcdMode, date>>
\* CONV(x)
Conv(x) == IF bcdMode THEN (x \div 16) * 10 + (x % 16) ELSE x
Compare == /\ cpc = "cmp"
           /\ \/ t1 # t2 /\ Again
              \/ t1 = t2 /\ date' = <<Conv(t1[1]), Conv(t1[2])>> /\ cpc' = "idle"
                 /\ UNCHANGED <<clock, uip, t1, t2, updates, seen, bcdMode>>

CmosNext == BeginUpdate \/ EndUpdate \/ ReadRtc \/ FillT1 \/ TestUip \/ FillT2 \/ Compare
CmosSpec == CmosInit /\ [][CmosNext]_cmosVars
-----------------------------------------------------------------------------
\* The date returned is one the clock showed during the call, never a mixture of two: equal
\* copies with no update between them are enough.
DateWhole == date # <<>> => \E s \in seen : date = <<s % LOW, s \div LOW>>
=============================================================================
