--------------------------------- MODULE Grep ---------------------------------
(***************************************************************************)
(* grep.c: the matcher, and the loop that cuts what read() returns into    *)
(* lines.  The end of a sequence stands for the NUL.  The file is written  *)
(* first, character by character, and then read in pieces of any length,   *)
(* as a pipe or the console may return them.                               *)
(***************************************************************************)
EXTENDS Integers, Sequences

CONSTANTS Patterns, Letters, NL,
          GBUF,         \* sizeof(buf)
          MaxText

VARIABLES gpat, gfile, gpos, gbuf, gout,
          gdropped      \* an unfinished line was thrown away
grepVars == <<gpat, gfile, gpos, gbuf, gout, gdropped>>

Nth(s, i) == IF i <= Len(s) THEN s[i] ELSE "\\0"

RECURSIVE MatchHere(_, _), MatchStar(_, _, _)
MatchStar(c, re, text) ==
  \/ MatchHere(re, text)
  \/ text # <<>> /\ (Head(text) = c \/ c = ".") /\ MatchStar(c, re, Tail(text))
MatchHere(re, text) ==
  IF re = <<>> THEN TRUE
  ELSE IF Nth(re, 2) = "*" THEN MatchStar(re[1], Tail(Tail(re)), text)
  ELSE IF re = <<"$">> THEN text = <<>>
  ELSE text # <<>> /\ re[1] \in {".", Head(text)} /\ MatchHere(Tail(re), Tail(text))
RECURSIVE MatchAny(_, _)
MatchAny(re, text) == MatchHere(re, text) \/ (text # <<>> /\ MatchAny(re, Tail(text)))
Match(re, text) == IF Nth(re, 1) = "^" THEN MatchHere(Tail(re), text) ELSE MatchAny(re, text)

\* grep(): the lines that end in b, each written out if it matches, and what is left.
LineEnd(b) == CHOOSE i \in 1 .. Len(b) : b[i] = NL /\ \A j \in 1 .. i - 1 : b[j] # NL
HasLine(b) == \E i \in 1 .. Len(b) : b[i] = NL
Printed(re, ln) == IF Match(re, ln) THEN ln \o <<NL>> ELSE <<>>
RECURSIVE Scan(_, _, _)
Scan(re, b, out) ==
  IF ~HasLine(b) THEN [rest |-> b, out |-> out]
  ELSE Scan(re, SubSeq(b, LineEnd(b) + 1, Len(b)), out \o Printed(re, SubSeq(b, 1, LineEnd(b) - 1)))

GrepInit == /\ gpat = <<>> /\ gfile = <<>> /\ gpos = 0
            /\ gbuf = <<>> /\ gout = <<>> /\ gdropped = FALSE

\* main(): the pattern of the command line
Invoke == /\ gpat = <<>> /\ gfile = <<>>
          /\ gpat' \in Patterns
          /\ UNCHANGED <<gfile, gpos, gbuf, gout, gdropped>>

WriteText == /\ gpos = 0 /\ Len(gfile) < MaxText
             /\ \E c \in Letters \cup {NL} : gfile' = Append(gfile, c)
             /\ UNCHANGED <<gpat, gpos, gbuf, gout, gdropped>>

\* One turn of the loop: p == buf if the buffer holds no line, and then it is emptied.
Mut_Kept(b, rest) == <<>>
Kept(b, rest) == IF b = rest THEN <<>> ELSE rest
GrepRead ==
  \E n \in 1 .. GBUF - Len(gbuf) - 1 :
    LET b == gbuf \o SubSeq(gfile, gpos + 1, gpos + n)
        s == Scan(gpat, b, gout)
    IN  /\ gpos + n <= Len(gfile)
        /\ gpos' = gpos + n
        /\ gout' = s.out
        /\ gbuf' = Kept(b, s.rest)
        /\ gdropped' = (gdropped \/ b = s.rest)
        /\ UNCHANGED <<gpat, gfile>>

GrepNext == Invoke \/ WriteText \/ GrepRead
GrepSpec == GrepInit /\ [][GrepNext]_grepVars
-----------------------------------------------------------------------------
\* What a pattern means, without searching: the text is cut into one piece for each item.
RECURSIVE Items(_)
Items(re) == IF re = <<>> THEN <<>>
             ELSE IF Nth(re, 2) = "*" THEN <<[c |-> re[1], star |-> TRUE]>> \o Items(Tail(Tail(re)))
             ELSE <<[c |-> re[1], star |-> FALSE]>> \o Items(Tail(re))
ItemMatches(it, s) == /\ \A i \in 1 .. Len(s) : it.c \in {".", s[i]}
                      /\ ~it.star => Len(s) = 1
Describes(items, s) ==
  \E cut \in [0 .. Len(items) -> 0 .. Len(s)] :
    /\ cut[0] = 0 /\ cut[Len(items)] = Len(s)
    /\ \A i \in 1 .. Len(items) : /\ cut[i - 1] <= cut[i]
                                  /\ ItemMatches(items[i], SubSeq(s, cut[i - 1] + 1, cut[i]))
Anchored(re) == re # <<>> /\ re[Len(re)] = "$"
Means(re, text) ==
  LET left == Nth(re, 1) = "^"
      body == IF left THEN Tail(re) ELSE re
  IN  \E i \in 1 .. Len(text) + 1, j \in 0 .. Len(text) :
        /\ left => i = 1
        /\ i <= j + 1
        /\ IF Anchored(body) THEN j = Len(text) /\ Describes(Items(SubSeq(body, 1, Len(body) - 1)), SubSeq(text, i, j))
           ELSE Describes(Items(body), SubSeq(text, i, j))

RECURSIVE Answer(_)
Answer(s) ==
  IF ~HasLine(s) THEN <<>>
  ELSE (IF Means(gpat, SubSeq(s, 1, LineEnd(s) - 1)) THEN SubSeq(s, 1, LineEnd(s)) ELSE <<>>)
       \o Answer(SubSeq(s, LineEnd(s) + 1, Len(s)))

\* match() with its two helpers finds a match exactly when there is a way to cut the text.
MatchRight == Match(gpat, gfile) <=> Means(gpat, gfile)

\* However the file is cut into reads, what is printed and what is still to come are the
\* matching lines in order; unless a read left the buffer without a whole line, which grep()
\* then forgets.
GrepRight == gdropped \/ gout \o Answer(gbuf \o SubSeq(gfile, gpos + 1, Len(gfile))) = Answer(gfile)

\* grep prints the lines that match, and no others.
GrepSound == MatchRight /\ GrepRight
=============================================================================
