------------------------------- MODULE Strings -------------------------------
(***************************************************************************)
(* string.c (and its copies in ulib.c): the copying and comparing loops,   *)
(* run on a memory of a few bytes, with every choice of pointers and       *)
(* lengths, overlapping areas included; and printint() of printf.c and     *)
(* console.c on ints of a few bits.                                        *)
(***************************************************************************)
EXTENDS Integers, Sequences, SequencesExt

CONSTANTS MSIZE,        \* bytes of memory
          Chr,          \* their values; 0 is the NUL
          IBITS         \* 2^width of an int

VARIABLES smem,         \* the memory before the call
          scall,        \* the call
          sret          \* the memory after it, or what it returned
strVars == <<smem, scall, sret>>

Cells == 0 .. MSIZE - 1
Store(m, d, v) == [m EXCEPT ![d] = v]
Inside(p, n) == p + n <= MSIZE

\* memmove(): downwards if the source lies below the destination and reaches into it
RECURSIVE Up(_, _, _, _), Down(_, _, _, _)
Up(m, d, s, n) == IF n = 0 THEN m ELSE Up(Store(m, d, m[s]), d + 1, s + 1, n - 1)
Down(m, d, s, n) == IF n = 0 THEN m ELSE Down(Store(m, d + n - 1, m[s + n - 1]), d, s, n - 1)
Mut_Memmove(m, d, s, n) == IF s < d /\ s + n > d + 1 THEN Down(m, d, s, n) ELSE Up(m, d, s, n)
Memmove(m, d, s, n) == IF s < d /\ s + n > d THEN Down(m, d, s, n) ELSE Up(m, d, s, n)
\* memmove() of ulib.c only copies upwards.
UserMemmove(m, d, s, n) == Up(m, d, s, n)

\* strncpy(): the copy, and then zeroes
RECURSIVE Pad(_, _, _), Strncpy(_, _, _, _)
Pad(m, s, n) == IF n = 0 THEN m ELSE Pad(Store(m, s, 0), s + 1, n - 1)
Strncpy(m, s, t, n) ==
  IF n = 0 THEN m
  ELSE IF m[t] = 0 THEN Pad(Store(m, s, 0), s + 1, n - 1)
  ELSE Strncpy(Store(m, s, m[t]), s + 1, t + 1, n - 1)
\* safestrcpy(): at most n - 1 characters, and always a NUL
RECURSIVE CopyTo(_, _, _, _)
CopyTo(m, s, t, n) ==
  IF n = 1 \/ m[t] = 0 THEN Store(m, s, 0)
  ELSE CopyTo(Store(m, s, m[t]), s + 1, t + 1, n - 1)
Safestrcpy(m, s, t, n) == IF n <= 0 THEN m ELSE CopyTo(m, s, t, n)

\* strncmp()
RECURSIVE Strncmp(_, _, _, _)
Strncmp(m, p, q, n) ==
  IF n = 0 THEN 0
  ELSE IF m[p] # 0 /\ m[p] = m[q] THEN Strncmp(m, p + 1, q + 1, n - 1)
  ELSE m[p] - m[q]

\* printint(): the digits of an unsigned int, from the last, and the sign
IntMin == -(IBITS \div 2)
RECURSIVE Digits(_, _)
Digits(x, base) == IF x < base THEN <<x>> ELSE Digits(x \div base, base) \o <<x % base>>
Minus == -1
Magnitude(xx, sgn) == IF sgn /\ xx < 0 THEN -xx % IBITS ELSE xx % IBITS
Printint(xx, base, sgn) == (IF sgn /\ xx < 0 THEN <<Minus>> ELSE <<>>) \o Digits(Magnitude(xx, sgn), base)
-----------------------------------------------------------------------------
StrInit == smem = [c \in Cells |-> 0] /\ scall = [f |-> "none", a |-> 0, b |-> 0, n |-> 0] /\ sret = smem

Prepare == /\ scall.f = "none" /\ smem' \in [Cells -> Chr]
           /\ sret' = smem' /\ UNCHANGED scall
Calls(f, a, b, n, r) == scall' = [f |-> f, a |-> a, b |-> b, n |-> n] /\ sret' = r /\ UNCHANGED smem
\* The areas lie inside the memory; a string is bounded by n or by a NUL before the end.
Ended(p, n) == Inside(p, n) \/ \E z \in p .. MSIZE - 1 : smem[z] = 0
CallMemmove == /\ scall.f = "none"
               /\ \E d, s \in Cells, n \in 0 .. MSIZE :
                    Inside(d, n) /\ Inside(s, n) /\ Calls("memmove", d, s, n, Memmove(smem, d, s, n))
CallUserMemmove == /\ scall.f = "none"
                   /\ \E d, s \in Cells, n \in 0 .. MSIZE :
                        Inside(d, n) /\ Inside(s, n) /\ Calls("umemmove", d, s, n, UserMemmove(smem, d, s, n))
\* The string of strncpy() and safestrcpy() lies apart from where it goes.
Apart(s, t, n) == t + n <= s \/ s + n <= t
CallStrncpy == /\ scall.f = "none"
               /\ \E s, t \in Cells, n \in 0 .. MSIZE :
                    Inside(s, n) /\ Inside(t, n) /\ Apart(s, t, n) /\ Calls("strncpy", s, t, n, Strncpy(smem, s, t, n))
CallSafestrcpy == /\ scall.f = "none"
                  /\ \E s, t \in Cells, n \in 0 .. MSIZE :
                       Inside(s, n + 1) /\ Inside(t, n + 1) /\ Apart(s, t, n + 1) /\ Calls("safestrcpy", s, t, n, Safestrcpy(smem, s, t, n))
CallStrncmp == /\ scall.f = "none"
               /\ \E p, q \in Cells, n \in 0 .. MSIZE :
                    Ended(p, n) /\ Ended(q, n) /\ Calls("strncmp", p, q, n, <<Strncmp(smem, p, q, n)>>)
CallPrintint == /\ scall.f = "none" /\ \A c \in Cells : smem[c] = 0
                /\ \E xx \in IntMin .. -IntMin - 1, base \in {10, 16}, sgn \in {0, 1} :
                     Calls("printint", xx, base, sgn, Printint(xx, base, sgn = 1))

StrNext == Prepare \/ CallMemmove \/ CallUserMemmove \/ CallStrncpy \/ CallSafestrcpy \/ CallStrncmp \/ CallPrintint
StrSpec == StrInit /\ [][StrNext]_strVars
-----------------------------------------------------------------------------
Length(p, n) == IF \E z \in p .. p + n - 1 : smem[z] = 0
                THEN (CHOOSE z \in p .. p + n - 1 : smem[z] = 0 /\ \A y \in p .. z - 1 : smem[y] # 0) - p
                ELSE n
Moved(d, s, n) == [c \in Cells |-> IF c \in d .. d + n - 1 THEN smem[s + c - d] ELSE smem[c]]

\* memmove() copies as if all bytes were read before any is written, however the areas overlap;
\* the user's does so unless the destination begins inside the source, after its beginning.
MovesWhole ==
  /\ scall.f = "memmove" => sret = Moved(scall.a, scall.b, scall.n)
  /\ scall.f = "umemmove" /\ ~(scall.b < scall.a /\ scall.a < scall.b + scall.n) =>
       sret = Moved(scall.a, scall.b, scall.n)

\* strncpy() fills exactly n bytes; safestrcpy() writes at most n and always ends the string.
CopiesBounded ==
  /\ scall.f = "strncpy" =>
       LET k == Length(scall.b, scall.n)
       IN  sret = [c \in Cells |-> IF c \in scall.a .. scall.a + k - 1 THEN smem[scall.b + c - scall.a]
                                   ELSE IF c \in scall.a + k .. scall.a + scall.n - 1 THEN 0 ELSE smem[c]]
  /\ scall.f = "safestrcpy" /\ scall.n > 0 =>
       LET k == Length(scall.b, scall.n - 1)
       IN  sret = [Moved(scall.a, scall.b, k) EXCEPT ![scall.a + k] = 0]

\* strncmp() is zero exactly for strings that agree up to n characters or to their ends.
ComparesPrefix == scall.f = "strncmp" =>
  (sret[1] = 0 <=> /\ Length(scall.a, scall.n) = Length(scall.b, scall.n)
                   /\ \A k \in 0 .. Length(scall.a, scall.n) - 1 : smem[scall.a + k] = smem[scall.b + k])

\* printint() prints every int, the smallest one included: its digits stand for its value.
RECURSIVE ValueOf(_, _)
ValueOf(ds, base) == IF ds = <<>> THEN 0 ELSE ValueOf(Front(ds), base) * base + Last(ds)
PrintsValue == scall.f = "printint" =>
  IF sret[1] = Minus THEN ValueOf(Tail(sret), scall.b) = -scall.a
  ELSE ValueOf(sret, scall.b) = IF scall.n = 1 THEN scall.a ELSE scall.a % IBITS

\* The routines of string.c, ulib.c and printint() do what their callers rely on, at the edges:
\* overlapping areas, strings as long as the buffer, no bytes at all, the smallest int.
StringsRight == MovesWhole /\ CopiesBounded /\ ComparesPrefix /\ PrintsValue
=============================================================================
