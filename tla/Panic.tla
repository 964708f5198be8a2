-------------------------------- MODULE Panic --------------------------------
(***************************************************************************)
(* cprintf(), panic() and consputc() of console.c on several processors:   *)
(* cons.lock, cons.locking and panicked.  A message is a number of         *)
(* characters; what the conversions of cprintf() print is left out.        *)
(***************************************************************************)
EXTENDS Naturals, FiniteSets

CONSTANTS PCpus, NoHolder, Chars          \* Chars = length of a message

ASSUME PanicConstants == NoHolder \notin PCpus

VARIABLES conslock,     \* holder of cons.lock
          locking, panicked,
          ppc, ploc,    \* where each processor is; its copy of cons.locking
          pleft,        \* characters of its message still to print
          panicking,    \* processors in panic()
          late          \* characters printed by each after panicked was set
panicVars == <<conslock, locking, panicked, ppc, ploc, pleft, panicking, late>>

PanicInit == /\ conslock = NoHolder /\ locking = TRUE /\ panicked = FALSE
             /\ ppc = [c \in PCpus |-> "idle"] /\ ploc = [c \in PCpus |-> FALSE]
             /\ pleft = [c \in PCpus |-> 0] /\ panicking = {} /\ late = [c \in PCpus |-> 0]

\* cprintf(): locking = cons.locking
Cprintf(c) == /\ ppc[c] = "idle"
              /\ ploc' = [ploc EXCEPT ![c] = locking] /\ pleft' = [pleft EXCEPT ![c] = Chars]
              /\ ppc' = [ppc EXCEPT ![c] = IF locking THEN "acquire" ELSE "check"]
              /\ UNCHANGED <<conslock, locking, panicked, panicking, late>>
AcquireCons(c) == /\ ppc[c] = "acquire" /\ conslock = NoHolder
                  /\ conslock' = c /\ ppc' = [ppc EXCEPT ![c] = "check"]
                  /\ UNCHANGED <<locking, panicked, ploc, pleft, panicking, late>>
\* consputc(): for ever if panicked
Checked(c) == IF panicked THEN "frozen" ELSE "put"
CheckPanicked(c) == /\ ppc[c] = "check" /\ pleft[c] > 0
                    /\ ppc' = [ppc EXCEPT ![c] = Checked(c)]
                    /\ UNCHANGED <<conslock, locking, panicked, ploc, pleft, panicking, late>>
Putc(c) == /\ ppc[c] = "put"
           /\ pleft' = [pleft EXCEPT ![c] = @ - 1]
           /\ late' = IF panicked THEN [late EXCEPT ![c] = @ + 1] ELSE late
           /\ ppc' = [ppc EXCEPT ![c] = "check"]
           /\ UNCHANGED <<conslock, locking, panicked, ploc, panicking>>
\* cprintf() returns, to its caller or to panic(), which sets panicked and stops.
Unlocked(c) == IF ploc[c] THEN NoHolder ELSE conslock
CprintfDone(c) == /\ ppc[c] = "check" /\ pleft[c] = 0
                  /\ IF c \in panicking THEN panicked' = TRUE /\ ppc' = [ppc EXCEPT ![c] = "frozen"] /\ UNCHANGED conslock
                     ELSE conslock' = Unlocked(c) /\ ppc' = [ppc EXCEPT ![c] = "idle"] /\ UNCHANGED panicked
                  /\ ploc' = [ploc EXCEPT ![c] = FALSE]
                  /\ UNCHANGED <<locking, pleft, panicking, late>>
\* panic(), from anywhere but the spin loops: its first cprintf() finds cons.locking zero.
Mut_PanicStart(c) == [locking |-> locking, pc |-> IF locking THEN "acquire" ELSE "check"]
PanicStart(c) == [locking |-> FALSE, pc |-> "check"]
PanicCall(c) == /\ ppc[c] \in {"idle", "check", "put"} /\ c \notin panicking
                /\ panicking' = panicking \cup {c}
                /\ locking' = PanicStart(c).locking
                /\ ppc' = [ppc EXCEPT ![c] = PanicStart(c).pc]
                /\ ploc' = [ploc EXCEPT ![c] = PanicStart(c).locking]
                /\ pleft' = [pleft EXCEPT ![c] = Chars]
                /\ UNCHANGED <<conslock, panicked, late>>

PanicStep(c) == AcquireCons(c) \/ CheckPanicked(c) \/ Putc(c) \/ CprintfDone(c)
PanicNext == \E c \in PCpus : Cprintf(c) \/ PanicStep(c) \/ PanicCall(c)
PanicSpec == PanicInit /\ [][PanicNext]_panicVars
-----------------------------------------------------------------------------
\* As long as no processor panics, the messages of two cprintf() never mix, and the lock is
\* given back.
MessagesWhole == panicking = {} =>
  /\ Cardinality({c \in PCpus : ppc[c] \in {"check", "put"}}) <= 1
  /\ (conslock # NoHolder) <=> \E c \in PCpus : ppc[c] \in {"check", "put"}

\* Once a processor has reported its panic, every other prints at most the character it had begun.
OthersFreeze == \A c \in PCpus : late[c] <= 1

\* A panic is reported, whoever holds cons.lock when it happens, the panicking processor included;
\* messages are whole before it and the others silent after it.
PanicReported ==
  /\ [](MessagesWhole /\ OthersFreeze)
  /\ (panicking # {}) ~> panicked
=============================================================================
