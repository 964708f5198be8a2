------------------------------ MODULE MCParts -------------------------------
(***************************************************************************)
(* The components of which only safety is checked, for TLC.  They share no *)
(* variable, so that checking each alone says all there is to say; `part'  *)
(* is the one under way, the others stay as they start.                    *)
(***************************************************************************)
EXTENDS MCTree, FileData, Memory, Args, Strings, Cmos, Bootmain,
        Umalloc, Mkfs, ShParse, Grep

CONSTANTS w1, w2, w3, s1, s2, f1, f2

\* FileData: two writers share a struct file, a third has another one and its file.
TheUsers == w1 :> s1 @@ w2 :> s1 @@ w3 :> s2
TheOpenFiles == s1 :> f1 @@ s2 :> f2
TheBytes == w1 :> 1 @@ w2 :> 2 @@ w3 :> 1

\* Memory: programs with a page not filled up, overlapping pages, a segment that does
\* not fit below KERNBASE and a file that is too short.
Elf(vaddr, memsz, filesz, short) ==
  [vaddr |-> vaddr, memsz |-> memsz, filesz |-> filesz, short |-> short]
Images == {<<Elf(0, 1, 1, FALSE)>>,
           <<Elf(0, 2, 1, FALSE), Elf(2, 1, 1, FALSE)>>,
           <<Elf(0, 2, 2, FALSE), Elf(1, 3, 1, FALSE)>>,
           <<Elf(0, 1, 1, FALSE), Elf(6, 12, 1, FALSE)>>,
           <<Elf(0, 3, 2, TRUE)>>}
Growths == {3, -1, -6}

\* Bootmain: text, data with bss, and a header with nothing to load.
Load1(paddr, off, filesz, memsz) ==
  [paddr |-> paddr, off |-> off, filesz |-> filesz, memsz |-> memsz]
KernelImages ==
  {<<>>} \cup {<<Load1(4, o, f, f), Load1(4 + f + g, 8, d, d + z), Load1(0, 0, 0, 0)>> :
                 o \in {0, 3}, f \in {2, 4, 5}, g \in {0, 1}, d \in {1, 4}, z \in {0, 3}}

\* Grep: each operator alone and combined, also where it is an ordinary character.
GrepPatterns ==
  {<<>>, <<"a">>, <<"a", "*">>, <<"a", "*", "a">>, <<"^", "a">>, <<"a", "$">>, <<"^", "$">>,
   <<"b", ".">>, <<".", "*", "b">>, <<"^", "a", "*", "b", "$">>, <<"*", "a">>,
   <<"^", ".", "*", "a", "*", "a", "$">>, <<"$", "a">>}

VARIABLE part
partsVars == <<part, treeVars, fdVars, mVars, argVars, strVars, cmosVars,
               bmVars, umVars, mkVars, shVars, grepVars>>

PartsInit ==
  /\ part \in {"tree", "data", "memory", "args", "string", "clock",
               "loader", "heap", "mkfs", "parser", "grep"}
  /\ TreeInit /\ FdInit /\ MInit /\ ArgsInit /\ StrInit /\ CmosInit
  /\ BmInit /\ UmInit /\ MkInit /\ ShInit /\ GrepInit

PartsNext ==
  /\ IF part = "tree" THEN TreeNext ELSE UNCHANGED treeVars
  /\ IF part = "data" THEN FdNext ELSE UNCHANGED fdVars
  /\ IF part = "memory" THEN MNext ELSE UNCHANGED mVars
  /\ IF part = "args" THEN ArgsNext ELSE UNCHANGED argVars
  /\ IF part = "string" THEN StrNext ELSE UNCHANGED strVars
  /\ IF part = "clock" THEN CmosNext ELSE UNCHANGED cmosVars
  /\ IF part = "loader" THEN BmNext ELSE UNCHANGED bmVars
  /\ IF part = "heap" THEN UmNext ELSE UNCHANGED umVars
  /\ IF part = "mkfs" THEN MkNext ELSE UNCHANGED mkVars
  /\ IF part = "parser" THEN ShNext ELSE UNCHANGED shVars
  /\ IF part = "grep" THEN GrepNext ELSE UNCHANGED grepVars
  /\ UNCHANGED part

PartsSpec == PartsInit /\ [][PartsNext]_partsVars
=============================================================================
