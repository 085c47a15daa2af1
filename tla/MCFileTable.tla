---------------------------- MODULE MCFileTable ----------------------------
(* The calls of the programs for FileTable.                                *)
EXTENDS FileTable, TLC

CONSTANTS p1, p2

TwoProcs == {p1, p2}
Symmetry == Permutations(Procs)

Create(path) == [call |-> "create", path |-> path]
Open(path, mode) == [call |-> "open", path |-> path, mode |-> mode]
Link(path, new) == [call |-> "link", path |-> path, new |-> new]
Path(call, path) == [call |-> call, path |-> path]

(* usertests.c, linkunlink()                                               *)
JustX == <<Create(<<"x">>)>>
LinkUnlink == {Create(<<"x">>), Path("unlink", <<"x">>)}

(* A directory and an open file to begin with.                             *)
SomeFiles == <<Path("mkdir", <<"a">>), Create(<<"x">>)>>

SomeCalls ==
    {Create(<<"x">>), Create(<<"a", "y">>), Open(<<"x">>, "read"),
     Open(<<"a">>, "write"), Link(<<"x">>, <<"/", "a", "y">>),
     Link(<<"x">>, <<"a">>), Link(<<"a">>, <<"y">>), Path("unlink", <<"x">>),
     Path("unlink", <<"a">>), Path("unlink", <<"a", "y">>),
     Path("unlink", <<"a", "..">>), Path("mkdir", <<"a">>),
     Path("mknod", <<"a", "y">>), Path("chdir", <<"a">>),
     Path("chdir", <<"x">>), Open(<<"..">>, "read"),
     [call |-> "pipe"]}
=============================================================================
