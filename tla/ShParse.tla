------------------------------- MODULE ShParse -------------------------------
(***************************************************************************)
(* The parser of the shell, sh.c: recursive descent with one token of      *)
(* look-ahead.  A line is a sequence of tokens as gettoken() returns them  *)
(* ("+" is >>); white space and the letters of words are left out, and so  *)
(* is nulterminate(), which only ends the words where gettoken() saw their *)
(* ends.  The parsing functions return the command and the rest of the     *)
(* line; panic() ends the parse.                                           *)
(***************************************************************************)
EXTENDS Naturals, Sequences, SequencesExt

CONSTANTS Words, MAXARGS, MaxTokens   \* bound on the length of a line

Symbols == {"|", "&", ";", "<", ">", "+", "(", ")"}
Tokens == Words \cup Symbols

\* The constructors of struct cmd.
ExecCmd(argv) == [type |-> "EXEC", argv |-> argv]
RedirCmd(cmd, file, mode, fd) == [type |-> "REDIR", cmd |-> cmd, file |-> file, mode |-> mode, fd |-> fd]
PairCmd(type, l, r) == [type |-> type, left |-> l, right |-> r]
BackCmd(cmd) == [type |-> "BACK", cmd |-> cmd]

Parsed(cmd, rest) == [ok |-> TRUE, cmd |-> cmd, rest |-> rest]
SyntaxError == [ok |-> FALSE, cmd |-> ExecCmd(<<>>), rest |-> <<>>]

\* peek()
Peek(ts, toks) == ts # <<>> /\ Head(ts) \in toks

\* parseredirs(): the outermost redirection is the one read last.
Redirect(cmd, tok, file) == IF tok = "<" THEN RedirCmd(cmd, file, "r", 0) ELSE RedirCmd(cmd, file, "w", 1)
RECURSIVE ParseRedirs(_)
ParseRedirs(r) ==
  IF ~r.ok \/ ~Peek(r.rest, {"<", ">", "+"}) THEN r
  ELSE IF ~Peek(Tail(r.rest), Words) THEN SyntaxError
  ELSE ParseRedirs(Parsed(Redirect(r.cmd, Head(r.rest), r.rest[2]), Tail(Tail(r.rest))))

\* The argument is added to the execcmd under the redirections.
RECURSIVE AddArg(_, _)
AddArg(cmd, w) == IF cmd.type = "EXEC" THEN ExecCmd(Append(cmd.argv, w))
                  ELSE [cmd EXCEPT !.cmd = AddArg(@, w)]

\* parseexec(): its loop over the arguments, from the argc-th on.
RECURSIVE ParseArgs(_, _)
ParseArgs(r, argc) ==
  IF ~r.ok \/ r.rest = <<>> \/ Peek(r.rest, {"|", ")", "&", ";"}) THEN r
  ELSE IF ~Peek(r.rest, Words) \/ argc + 1 >= MAXARGS THEN SyntaxError
  ELSE ParseArgs(ParseRedirs(Parsed(AddArg(r.cmd, Head(r.rest)), Tail(r.rest))), argc + 1)

\* parseblock() after parseline(): ")" and redirections.
Closed(r) == IF r.ok /\ Peek(r.rest, {")"}) THEN ParseRedirs(Parsed(r.cmd, Tail(r.rest))) ELSE SyntaxError

\* parseline(): any number of "&" behind a pipe.
RECURSIVE Backs(_)
Backs(r) == IF r.ok /\ Peek(r.rest, {"&"}) THEN Backs(Parsed(BackCmd(r.cmd), Tail(r.rest))) ELSE r

RECURSIVE ParseLine(_), ParsePipe(_), ParseExec(_)
ParseExec(ts) ==
  IF Peek(ts, {"("}) THEN Closed(ParseLine(Tail(ts)))
  ELSE ParseArgs(ParseRedirs(Parsed(ExecCmd(<<>>), ts)), 0)
\* The pipe or list of l and what follows its operator.
Mut_Paired(type, l, r) == IF r.ok THEN Parsed(PairCmd(type, r.cmd, l.cmd), r.rest) ELSE SyntaxError
Paired(type, l, r) == IF r.ok THEN Parsed(PairCmd(type, l.cmd, r.cmd), r.rest) ELSE SyntaxError
ParsePipe(ts) ==
  LET l == ParseExec(ts)
  IN  IF l.ok /\ Peek(l.rest, {"|"}) THEN Paired("PIPE", l, ParsePipe(Tail(l.rest))) ELSE l
ParseLine(ts) ==
  LET l == Backs(ParsePipe(ts))
  IN  IF l.ok /\ Peek(l.rest, {";"}) THEN Paired("LIST", l, ParseLine(Tail(l.rest))) ELSE l

\* parsecmd(): nothing may be left over.
ParseCmd(ts) == LET r == ParseLine(ts) IN IF r.rest = <<>> THEN r ELSE SyntaxError
-----------------------------------------------------------------------------
\* The shell's child parses a line, as long as the user made it.
VARIABLES line, command
shVars == <<line, command>>
ShInit == line = <<>> /\ command = ParseCmd(<<>>)
ShNext == /\ Len(line) < MaxTokens
          /\ \E t \in Tokens : line' = Append(line, t)
          /\ command' = ParseCmd(line')
ShSpec == ShInit /\ [][ShNext]_shVars
-----------------------------------------------------------------------------
\* The grammar, read off the line by splitting it anywhere.
Splits(ts) == {<<SubSeq(ts, 1, i), SubSeq(ts, i + 1, Len(ts))>> : i \in 0 .. Len(ts)}
IsRedir(ts) == Len(ts) = 2 /\ ts[1] \in {"<", ">", "+"} /\ ts[2] \in Words
RECURSIVE IsRedirs(_)
IsRedirs(ts) == ts = <<>> \/ \E s \in Splits(ts) : IsRedir(s[1]) /\ IsRedirs(s[2])
RECURSIVE IsSimple(_, _)
IsSimple(ts, args) ==
  \/ ts = <<>>
  \/ \E s \in Splits(ts) : IsRedir(s[1]) /\ IsSimple(s[2], args)
  \/ args > 0 /\ ts[1] \in Words /\ IsSimple(Tail(ts), args - 1)
RECURSIVE IsLine(_)
IsBlock(ts) == \E s \in Splits(ts) :
  /\ Len(s[1]) >= 2 /\ s[1][1] = "(" /\ Last(s[1]) = ")"
  /\ IsLine(SubSeq(s[1], 2, Len(s[1]) - 1)) /\ IsRedirs(s[2])
IsPart(ts) == IsSimple(ts, MAXARGS - 1) \/ IsBlock(ts)
RECURSIVE IsPipe(_)
IsPipe(ts) == IsPart(ts) \/ \E s \in Splits(ts) : Peek(s[2], {"|"}) /\ IsPart(s[1]) /\ IsPipe(Tail(s[2]))
AllAmps(ts) == \A i \in 1 .. Len(ts) : ts[i] = "&"
IsItem(ts) == \E s \in Splits(ts) : IsPipe(s[1]) /\ AllAmps(s[2])
IsLine(ts) == IsItem(ts) \/ \E s \in Splits(ts) : Peek(s[2], {";"}) /\ IsItem(s[1]) /\ IsLine(Tail(s[2]))

\* The parser, which never backtracks, accepts exactly the lines of the grammar.
AcceptsGrammar == command.ok <=> IsLine(line)

\* A command written as a line again, with parentheses wherever they may be needed.
RECURSIVE Show(_), ShowPart(_)
ShowPart(cmd) == IF cmd.type = "EXEC" THEN cmd.argv
                 ELSE IF cmd.type = "REDIR"
                 THEN ShowPart(cmd.cmd) \o <<IF cmd.fd = 0 THEN "<" ELSE ">", cmd.file>>
                 ELSE <<"(">> \o Show(cmd) \o <<")">>
Show(cmd) ==
  CASE cmd.type = "PIPE" -> ShowPart(cmd.left) \o <<"|">> \o ShowPart(cmd.right)
    [] cmd.type = "LIST" -> ShowPart(cmd.left) \o <<";">> \o Show(cmd.right)
    [] cmd.type = "BACK" -> ShowPart(cmd.cmd) \o <<"&">>
    [] OTHER -> ShowPart(cmd)

\* The command says what the line said: nothing is dropped, and redirections, pipes,
\* lists and "&" apply to what they stand next to.
RoundTrip == command.ok => ParseCmd(Show(command.cmd)) = [command EXCEPT !.rest = <<>>]

\* The parser takes the grammar's lines and understands them.
ParsesRight == AcceptsGrammar /\ RoundTrip
=============================================================================
