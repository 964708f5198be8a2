------------------------------- MODULE MCTree -------------------------------
(* Tree for TLC: what each of two processes may call, in any order.         *)
EXTENDS Tree, TLC

CONSTANTS p1, p2

C(op, path) == [op |-> op, path |-> path, new |-> <<>>]
LinkCall(path, new) == [op |-> "link", path |-> path, new |-> new]

Walker == {C("mkdir", <<"a">>), C("chdir", <<"a">>), C("chdir", <<"..">>),
           C("unlink", <<"..">>), LinkCall(<<"a">>, <<"b">>)}
Other == {C("unlink", <<"a">>), C("unlink", <<"a", "a">>), LinkCall(<<"a">>, <<"/">>),
          C("create", <<"/", "a">>), C("open", <<"a">>)}
FsCallSets == [p \in FsProcs |-> IF p = p1 THEN Walker ELSE Other]

\* Two processes that make and remove the same name.
Makers == [p \in FsProcs |-> {C("mknod", <<"a">>), C("unlink", <<"a">>)}]
=============================================================================
