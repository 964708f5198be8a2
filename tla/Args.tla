--------------------------------- MODULE Args ---------------------------------
(***************************************************************************)
(* System call arguments: syscall.c, and the wrappers of sysfile.c and     *)
(* sysproc.c that use them.  Addresses and ints are words of 2^w = WORDS   *)
(* values; a user stack pointer and the words it points at may be          *)
(* anything.  touched collects the user addresses the kernel reads or      *)
(* lends to a handler during one call.                                     *)
(***************************************************************************)
EXTENDS Integers, FiniteSets

CONSTANTS WORDS, INT,   \* INT = sizeof(int)
          NSYS,         \* NELEM(syscalls)
          NOFD,         \* NOFILE
          MAXARG,
          Sizes,        \* sz of the process, at most KERNBASE
          ObjSize       \* bytes of a struct stat, a struct rtcdate or two ints

\* KERNBASE is half of the address space.
ASSUME ArgsConstants ==
  /\ WORDS \in Nat \ {0} /\ WORDS % 2 = 0
  /\ INT \in 1 .. WORDS \div 2 /\ ObjSize \in 0 .. WORDS \div 2 - 1
  /\ Sizes \subseteq 0 .. WORDS \div 2
  /\ NSYS \in Nat /\ NOFD \in Nat /\ MAXARG \in Nat

VARIABLES asz, esp, arg, touched, apc, argc,
          slots         \* the array elements used: of syscalls, ofile and sys_exec()'s argv
argVars == <<asz, esp, arg, touched, apc, argc, slots>>

Word == 0 .. WORDS - 1
Signed(w) == IF w >= WORDS \div 2 THEN w - WORDS ELSE w
Plus(a, b) == (a + b) % WORDS
ByteRange(a, n) == {Plus(a, k) : k \in 0 .. n - 1}

\* fetchint(): TRUE if the int at addr may be read
Mut_FetchInt(addr) == Plus(addr, INT) <= asz
FetchInt(addr) == addr < asz /\ Plus(addr, INT) <= asz
\* argint()
ArgAddr(n) == Plus(esp, INT + INT * n)
ArgInt(n) == FetchInt(ArgAddr(n))
ArgBytes(n) == ByteRange(ArgAddr(n), INT)
\* argptr(), for the value i of the argument
InSpace(i, size) == size >= 0 /\ i < asz /\ Plus(i, size % WORDS) <= asz
\* fetchstr(): the string at addr, whose first zero byte is at nul
FetchStr(addr, nul) == addr < asz /\ addr <= nul /\ nul < asz
\* argfd()
FdOk(fd) == fd >= 0 /\ fd < NOFD
\* syscall()
NumOk(num) == num > 0 /\ num < NSYS

ArgsInit == asz = 0 /\ esp = 0 /\ arg = <<0, 0>> /\ touched = {} /\ apc = "user" /\ argc = 0 /\ slots = {}

\* A trap: the stack pointer, and what the handler will find as its first two arguments.
TrapIn == /\ apc = "user"
          /\ asz' \in Sizes /\ esp' \in Word
          /\ \E a, b \in Word : arg' = <<a, b>>
          /\ apc' = "trap" /\ UNCHANGED <<touched, argc, slots>>
\* syscall(), with num = eax
Dispatch == /\ apc = "trap"
            /\ \E num \in Word :
                 IF NumOk(Signed(num)) THEN apc' = "call" /\ slots' = {<<"syscalls", Signed(num)>>}
                 ELSE apc' = "done" /\ UNCHANGED slots
            /\ UNCHANGED <<asz, esp, arg, touched, argc>>
TrapOut == /\ apc = "done" /\ apc' = "user"
           /\ asz' = 0 /\ esp' = 0 /\ arg' = <<0, 0>> /\ touched' = {} /\ argc' = 0 /\ slots' = {}

Fails == apc' = "done" /\ UNCHANGED <<asz, esp, arg, touched, argc, slots>>
Lends(as) == apc' = "done" /\ touched' = touched \cup as /\ UNCHANGED <<asz, esp, arg, argc>>

\* sys_read(), sys_write(): argfd(0), argint(2) = n, argptr(1, n)
Transfer ==
  /\ apc = "call"
  /\ \E n \in Word :
       IF ArgInt(0) /\ FdOk(Signed(arg[1])) /\ ArgInt(2) /\ ArgInt(1) /\ InSpace(arg[2], Signed(n))
       THEN /\ slots' = slots \cup {<<"ofile", Signed(arg[1])>>}
            /\ Lends(ArgBytes(0) \cup ArgBytes(1) \cup ArgBytes(2) \cup ByteRange(arg[2], Signed(n)))
       ELSE Fails
\* sys_fstat(), sys_pipe(), sys_date(): a fixed object at arg[1]
Object == /\ apc = "call"
          /\ IF ArgInt(0) /\ InSpace(arg[1], ObjSize)
             THEN Lends(ArgBytes(0) \cup ByteRange(arg[1], ObjSize)) /\ UNCHANGED slots
             ELSE Fails
\* argstr() in sys_open() and the others, and in sys_exec(), which goes on to its argv at arg[2]
Path(next) ==
  /\ apc = "call"
  /\ \E nul \in Word :
       IF ArgInt(0) /\ FetchStr(arg[1], nul) /\ (next = "argv" => ArgInt(1))
       THEN /\ touched' = touched \cup ArgBytes(0) \cup (arg[1] .. nul) \cup (IF next = "argv" THEN ArgBytes(1) ELSE {})
            /\ apc' = next /\ UNCHANGED <<asz, esp, arg, argc, slots>>
       ELSE Fails
\* sys_exec(): one turn of its loop
ExecArg ==
  /\ apc = "argv"
  /\ IF argc >= MAXARG \/ ~FetchInt(Plus(arg[2], INT * argc)) THEN Fails
     ELSE \E uarg \in {0, arg[1]}, nul \in Word :
            IF uarg = 0 THEN Lends(ByteRange(Plus(arg[2], INT * argc), INT)) /\ slots' = slots \cup {<<"argv", argc>>}
            ELSE IF ~FetchStr(uarg, nul) THEN Fails
            ELSE /\ argc' = argc + 1 /\ slots' = slots \cup {<<"argv", argc>>}
                 /\ touched' = touched \cup ByteRange(Plus(arg[2], INT * argc), INT) \cup (uarg .. nul)
                 /\ UNCHANGED <<asz, esp, arg, apc>>

ArgsNext == TrapIn \/ Dispatch \/ Transfer \/ Object \/ Path("done") \/ Path("argv") \/ ExecArg \/ TrapOut
ArgsSpec == ArgsInit /\ [][ArgsNext]_argVars
-----------------------------------------------------------------------------
\* Whatever the stack pointer and the arguments are, the kernel reads, and lends to the
\* handlers, only addresses below the size of the process: no sum wraps around past a check.
TouchesOnlyProcess == \A a \in touched : a < asz

\* System call numbers and descriptors are signed and argv has no length: still no array is
\* indexed outside its bounds.
Bound == [syscalls |-> NSYS, ofile |-> NOFD, argv |-> MAXARG]
SlotsInside == \A s \in slots : s[2] >= 0 /\ s[2] < Bound[s[1]]

\* What a call makes the kernel touch lies inside, of the process and of the kernel's arrays.
ArgsInside == TouchesOnlyProcess /\ SlotsInside
=============================================================================
