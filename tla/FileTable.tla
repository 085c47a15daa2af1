------------------------------ MODULE FileTable -----------------------------
(***************************************************************************)
(* Open files and the file system calls (file.c, sysfile.c, and what       *)
(* pipe.c, fork() and exit() do with open files), on top of Inode.         *)
(*                                                                         *)
(* A call starts with its program in todo[p].  What a section decides on   *)
(* the local variables of a process is in reg[p], as in Inode; an inode    *)
(* that the process has put, or that has become the argument of a section  *)
(* to come, is not in reg[p] any more (Gone).  Reading and writing is the  *)
(* subject of FileIO, the ends of a pipe that of Pipe.                     *)
(***************************************************************************)
EXTENDS Inode, Functions

CONSTANTS
    NFILE, NOFILE,   \* entries of the file table; descriptors of a process
    Boot,            \* the calls the first process makes before it forks
    Calls,           \* the calls a program may make, with their arguments
    MaxCalls         \* bound: calls after the first fork()

CallNames ==
    {"pipe", "create", "open", "link", "unlink", "mkdir", "mknod", "chdir"}

ASSUME FileTableAssumption ==
    /\ NFILE \in Nat \ {0} /\ NOFILE \in Nat \ {0} /\ MaxCalls \in Nat
    /\ Boot \in Seq(Calls)
    /\ \A c \in Calls : /\ c.call \in CallNames
                        /\ c.call = "open" => c.mode \in {"read", "write"}

VARIABLES
    ftable,    \* ftable[f]: struct file
    ofile,     \* ofile[p][fd]: the open file, 0 if none
    alive,     \* processes
    pipes,     \* pipes[k]: the open ends of pipe k; {}: its page is free
    left,      \* calls the programs may still make
    lost       \* history: inodes entered in a directory without links

fileVars == <<ftable, ofile, alive, pipes, left>>
vars == <<inodeVars, fileVars, lost>>

Closed == [ref |-> 0, type |-> "none", ip |-> 0, inum |-> 0,
           pipe |-> 0, end |-> "r"]

(* What a call has to do, without the parts that end the transaction.      *)
Program(c) ==
    IF c.call = "pipe" THEN << <<"pipe1", 0>> >>
    ELSE << <<"begin_op">> >> \o
      CASE c.call = "create" ->
             << <<"namex", c.path, TRUE>>, <<"create1", "file">>,
                <<"open1", "create">> >>
        [] c.call = "open" ->
             << <<"namex", c.path, FALSE>>, <<"open1", c.mode>> >>
        [] c.call = "link" ->
             << <<"namex", c.path, FALSE>>, <<"link1", c.new>> >>
        [] c.call = "unlink" ->
             << <<"namex", c.path, TRUE>>, <<"unlink1">> >>
        [] c.call = "mkdir" ->
             << <<"namex", c.path, TRUE>>, <<"create1", "dir">>, <<"mk1">> >>
        [] c.call = "mknod" ->
             << <<"namex", c.path, TRUE>>, <<"create1", "dev">>, <<"mk1">> >>
        [] c.call = "chdir" ->
             << <<"namex", c.path, FALSE>>, <<"chdir1">> >>

(* fileinit(); the first process has no file open.                         *)
Init ==
    /\ \E p \in Procs : alive = {p} /\ InodeInit(p)
    /\ ftable = [f \in 1..NFILE |-> Closed]
    /\ ofile = [p \in Procs |-> [fd \in 1..NOFILE |-> 0]]
    /\ left = Len(Boot) + MaxCalls
    /\ pipes = [k \in 1..NFILE |-> {}]
    /\ lost = {}

-----------------------------------------------------------------------------
(* These local variables are not used any more.                            *)
Gone(p, xs) == [x \in DOMAIN reg[p] |-> IF x \in xs THEN 0 ELSE reg[p][x]]
Forget(p, xs) == reg' = [reg EXCEPT ![p] = Gone(p, xs)]

(* An inode goes from one variable to another.                             *)
Move(p, x, y) == reg' = [reg EXCEPT ![p] = [Gone(p, {x}) EXCEPT ![y] = reg[p][x]]]

(* The result of a call; the inodes of the callee are put or are it.       *)
Result(p, ops, s) ==
    /\ Then(p, ops)
    /\ reg' = [reg EXCEPT ![p] = [Gone(p, {"ip", "dp"}) EXCEPT !.r = s]]

(* filealloc() and fdalloc(): the first free place, 0 if there is none.    *)
FileAlloc == SelectInSeq(ftable, LAMBDA f : f.ref = 0)
FdAlloc(p) == SelectInSeq(ofile[p], LAMBDA f : f = 0)

(* Mutant of Filedup: two descriptors share one reference.                 *)
FiledupShares(f) == ftable

(* filedup()                                                               *)
Filedup(f) == [ftable EXCEPT ![f].ref = @ + 1]

(* fileclose(): the last reference closes the pipe end or puts the inode,  *)
(* after ftable.lock is released.                                          *)
Fileclose(p) ==
    /\ At(p, "fclose")
    /\ LET f == Arg(p, 1)
           ff == ftable[f]
           last == ff.ref = 1 IN
        /\ PanicIf(ff.ref < 1)
        /\ ftable' = [ftable EXCEPT ![f] = IF last THEN Closed
                                           ELSE [ff EXCEPT !.ref = ff.ref - 1]]
        /\ pipes' = IF last /\ ff.type = "pipe"
                    THEN [pipes EXCEPT ![ff.pipe] = @ \ {ff.end}] ELSE pipes
        /\ Then(p, IF last /\ ff.type = "inode"
                   THEN << <<"begin_op">>, <<"iput", ff.ip>>, <<"end_op">> >>
                   ELSE << >>)
    /\ UNCHANGED <<dinode, icache, cwd, reg, txn, ofile, alive, left, lost>>

-----------------------------------------------------------------------------
(* create(), after nameiparent(): lock the directory.                      *)
Create1(p) ==
    /\ At(p, "create1")
    /\ Move(p, "r", "dp")
    /\ Then(p, IF reg[p].r = 0 THEN << >>
               ELSE << <<"ilock", reg[p].r>>, <<"create2", Arg(p, 1)>> >>)
    /\ UNCHANGED <<dinode, icache, cwd, txn, panicked, fileVars, lost>>

(* create(): take the inode that is there, or allocate one.                *)
Create2(p) ==
    /\ At(p, "create2")
    /\ LET dp == reg[p].dp
           d == dinode[Inum(dp)]
           k == Dirlookup(d, reg[p].name)
           i == IF k # 0 THEN d.ents[k].inum ELSE FreeInum
           s == IgetSlot(i) IN
        IF i = 0 \/ s = 0
        THEN FullIf(TRUE) /\ UNCHANGED <<dinode, icache, reg, todo>>
        ELSE /\ icache' = Iget(i)
             /\ reg' = [reg EXCEPT ![p] =
                  [Gone(p, IF k # 0 THEN {"dp"} ELSE {}) EXCEPT !.ip = s]]
             /\ dinode' = IF k # 0 THEN dinode ELSE Ialloc(i, Arg(p, 1))
             /\ Then(p, IF k # 0
                  THEN Iunlockput(dp) \o << <<"ilock", s>>,
                                            <<"create3", Arg(p, 1)>> >>
                  ELSE << <<"ilock", s>>, <<"create4", Arg(p, 1)>> >>)
             /\ UNCHANGED panicked
    /\ UNCHANGED <<cwd, txn, fileVars, lost>>

(* create(): an inode that is there is the result if both are files.       *)
Create3(p) ==
    /\ At(p, "create3")
    /\ LET s == reg[p].ip IN
        IF Arg(p, 1) = "file" /\ icache[s].type = "file"
        THEN Result(p, << >>, s)
        ELSE Result(p, Iunlockput(s), 0)
    /\ UNCHANGED <<dinode, icache, cwd, txn, panicked, fileVars, lost>>

(* create(): with both locks held, set up the inode, give a directory its  *)
(* two entries, and enter it in dp; then give dp up.                       *)
Create4(p) ==
    /\ At(p, "create4")
    /\ LET s == reg[p].ip
           dp == reg[p].dp
           up == IF Arg(p, 1) = "dir" THEN 1 ELSE 0
           new == IF up = 1
                  THEN WithEntry(WithEntry(dinode[Inum(s)], ".", Inum(s)),
                                 "..", Inum(dp))
                  ELSE dinode[Inum(s)]
           made == [dinode EXCEPT ![Inum(s)] = [new EXCEPT !.nlink = 1]] IN
        /\ dinode' = [AddLink(made, dp, up) EXCEPT ![Inum(dp)] =
                        WithEntry(@, reg[p].name, Inum(s))]
        /\ icache' = AddLinkMem([icache EXCEPT ![s].nlink = 1], dp, up)
        /\ lost' = IF icache[dp].nlink = 0
                   THEN lost \cup {Inum(s), Inum(dp)} ELSE lost
        /\ Result(p, Iunlockput(dp), s)
    /\ UNCHANGED <<cwd, txn, panicked, fileVars>>

-----------------------------------------------------------------------------
(* sys_open(): the inode is in r, locked if create() returned it.          *)
Open1(p) ==
    /\ At(p, "open1")
    /\ LET r == reg[p].r IN
        /\ Move(p, "r", "ip")
        /\ Then(p, IF r = 0 THEN << <<"end_op">> >>
                   ELSE IF Arg(p, 1) = "create" THEN << <<"open3">> >>
                   ELSE << <<"ilock", r>>, <<"open2", Arg(p, 1)>> >>)
    /\ UNCHANGED <<dinode, icache, cwd, txn, panicked, fileVars, lost>>

(* sys_open(): a directory is opened for reading only.                     *)
Open2(p) ==
    /\ At(p, "open2")
    /\ LET s == reg[p].ip IN
        IF icache[s].type = "dir" /\ Arg(p, 1) # "read"
        THEN Then(p, Append(Iunlockput(s), <<"end_op">>)) /\ Forget(p, {"ip"})
        ELSE Then(p, << <<"open3">> >>) /\ UNCHANGED reg
    /\ UNCHANGED <<dinode, icache, cwd, txn, panicked, fileVars, lost>>

(* sys_open(): filealloc() and fdalloc().                                  *)
Open3(p) ==
    /\ At(p, "open3")
    /\ LET s == reg[p].ip
           f == FileAlloc
           fd == FdAlloc(p) IN
        /\ ftable' = IF f = 0 THEN ftable ELSE [ftable EXCEPT ![f].ref = 1]
        /\ ofile' = IF f # 0 /\ fd # 0 THEN [ofile EXCEPT ![p][fd] = f]
                    ELSE ofile
        /\ Then(p, IF f # 0 /\ fd # 0
             THEN << <<"iunlock", s>>, <<"end_op">>, <<"open4", f, s>> >>
             ELSE (IF f = 0 THEN << >> ELSE << <<"fclose", f>> >>)
                  \o Append(Iunlockput(s), <<"end_op">>))
    /\ Forget(p, {"ip"})
    /\ UNCHANGED <<dinode, icache, cwd, txn, panicked, alive, pipes, left, lost>>

(* sys_open(): fill in the struct file.                                    *)
Open4(p) ==
    /\ At(p, "open4")
    /\ ftable' = [ftable EXCEPT ![Arg(p, 1)] =
         [@ EXCEPT !.type = "inode", !.ip = Arg(p, 2), !.inum = Inum(Arg(p, 2))]]
    /\ Then(p, << >>)
    /\ UNCHANGED <<dinode, icache, cwd, reg, txn, panicked, ofile, alive,
                   pipes, left, lost>>

-----------------------------------------------------------------------------
(* sys_link(): lock the inode the old name leads to.                       *)
Link1(p) ==
    /\ At(p, "link1")
    /\ LET r == reg[p].r IN
        /\ Move(p, "r", "ip")
        /\ Then(p, IF r = 0 THEN << <<"end_op">> >>
                   ELSE << <<"ilock", r>>, <<"link2", Arg(p, 1)>> >>)
    /\ UNCHANGED <<dinode, icache, cwd, txn, panicked, fileVars, lost>>

(* sys_link(): count the link before it is there.                          *)
Link2(p) ==
    /\ At(p, "link2")
    /\ LET s == reg[p].ip IN
        IF icache[s].type = "dir"
        THEN /\ Then(p, Append(Iunlockput(s), <<"end_op">>)) /\ Forget(p, {"ip"})
             /\ UNCHANGED <<dinode, icache>>
        ELSE /\ dinode' = AddLink(dinode, s, 1)
             /\ icache' = AddLinkMem(icache, s, 1)
             /\ Then(p, << <<"iunlock", s>>, <<"namex", Arg(p, 1), TRUE>>,
                           <<"link3">> >>)
             /\ UNCHANGED reg
    /\ UNCHANGED <<cwd, txn, panicked, fileVars, lost>>

LinkBad(s) == << <<"ilock", s>>, <<"link5">> >>

(* sys_link(): enter the name in the new directory.                        *)
Link3(p) ==
    /\ At(p, "link3")
    /\ LET dp == reg[p].r
           s == reg[p].ip IN
        /\ Move(p, "r", "dp")
        /\ Then(p, IF dp = 0 THEN LinkBad(s)
                   ELSE << <<"ilock", dp>>,
                           <<"dirlink", dp, reg[p].name, Inum(s)>>,
                           <<"link4">> >>)
    /\ UNCHANGED <<dinode, icache, cwd, txn, panicked, fileVars, lost>>

Link4(p) ==
    /\ At(p, "link4")
    /\ LET s == reg[p].ip
           dp == reg[p].dp IN
        /\ Then(p, Iunlockput(dp) \o IF reg[p].ok
             THEN << <<"iput", s>>, <<"end_op">> >> ELSE LinkBad(s))
        /\ Forget(p, IF reg[p].ok THEN {"ip", "dp"} ELSE {"dp"})
        /\ lost' = IF reg[p].ok /\ icache[dp].nlink = 0
                   THEN lost \cup {Inum(s)} ELSE lost
    /\ UNCHANGED <<dinode, icache, cwd, txn, panicked, fileVars>>

(* Mutant of Link5: the way out forgets to take the link back.             *)
Link5KeepsLink(p) ==
    /\ At(p, "link5")
    /\ Then(p, Append(Iunlockput(reg[p].ip), <<"end_op">>)) /\ Forget(p, {"ip"})
    /\ UNCHANGED <<dinode, icache, cwd, txn, panicked, fileVars, lost>>

(* sys_link(), label bad: take the link back, with the inode locked.       *)
Link5(p) ==
    /\ At(p, "link5")
    /\ LET s == reg[p].ip IN
        /\ dinode' = AddLink(dinode, s, -1)
        /\ icache' = AddLinkMem(icache, s, -1)
        /\ Then(p, Append(Iunlockput(s), <<"end_op">>)) /\ Forget(p, {"ip"})
    /\ UNCHANGED <<cwd, txn, panicked, fileVars, lost>>

-----------------------------------------------------------------------------
(* sys_unlink(): lock the directory.                                       *)
Unlink1(p) ==
    /\ At(p, "unlink1")
    /\ LET r == reg[p].r IN
        /\ Move(p, "r", "dp")
        /\ Then(p, IF r = 0 THEN << <<"end_op">> >>
                   ELSE << <<"ilock", r>>, <<"unlink2">> >>)
    /\ UNCHANGED <<dinode, icache, cwd, txn, panicked, fileVars, lost>>

(* sys_unlink(): find the entry and lock its inode.                        *)
Unlink2(p) ==
    /\ At(p, "unlink2")
    /\ LET dp == reg[p].dp
           d == dinode[Inum(dp)]
           k == Dirlookup(d, reg[p].name)
           s == IgetSlot(d.ents[k].inum) IN
        IF reg[p].name \in {".", ".."} \/ k = 0
        THEN /\ Then(p, Append(Iunlockput(dp), <<"end_op">>)) /\ Forget(p, {"dp"})
             /\ UNCHANGED <<icache, panicked>>
        ELSE /\ icache' = Iget(d.ents[k].inum) /\ FullIf(s = 0)
             /\ reg' = [reg EXCEPT ![p].ip = s]
             /\ Then(p, << <<"ilock", s>>, <<"unlink3", k>> >>)
    /\ UNCHANGED <<dinode, cwd, txn, fileVars, lost>>

(* isdirempty(): nothing but "." and "..".                                 *)
IsDirEmpty(d) == \A k \in 3..Len(d.ents) : d.ents[k].inum = 0

(* sys_unlink(): clear the entry; a directory gives up its "..".           *)
Unlink3(p) ==
    /\ At(p, "unlink3")
    /\ LET s == reg[p].ip
           dp == reg[p].dp
           down == IF icache[s].type = "dir" THEN -1 ELSE 0 IN
        /\ IF icache[s].type = "dir" /\ ~IsDirEmpty(dinode[Inum(s)])
           THEN /\ Then(p, Iunlockput(s) \o Append(Iunlockput(dp), <<"end_op">>))
                /\ Forget(p, {"ip", "dp"})
                /\ UNCHANGED <<dinode, icache>>
           ELSE /\ dinode' = [AddLink(dinode, dp, down) EXCEPT ![Inum(dp)] =
                     [@ EXCEPT !.ents[Arg(p, 1)] = [name |-> "", inum |-> 0]]]
                /\ icache' = AddLinkMem(icache, dp, down)
                /\ Then(p, Append(Iunlockput(dp), <<"unlink4">>)) /\ Forget(p, {"dp"})
        /\ PanicIf(icache[s].nlink < 1)
    /\ UNCHANGED <<cwd, txn, fileVars, lost>>

(* sys_unlink(): the inode, locked all the while, loses its link.          *)
Unlink4(p) ==
    /\ At(p, "unlink4")
    /\ LET s == reg[p].ip IN
        /\ dinode' = AddLink(dinode, s, -1)
        /\ icache' = AddLinkMem(icache, s, -1)
        /\ Then(p, Append(Iunlockput(s), <<"end_op">>)) /\ Forget(p, {"ip"})
    /\ UNCHANGED <<cwd, txn, panicked, fileVars, lost>>

-----------------------------------------------------------------------------
(* sys_mkdir() and sys_mknod(), after create().                            *)
Mk1(p) ==
    /\ At(p, "mk1")
    /\ Then(p, (IF reg[p].r = 0 THEN << >> ELSE Iunlockput(reg[p].r))
               \o << <<"end_op">> >>)
    /\ Forget(p, {"r"})
    /\ UNCHANGED <<dinode, icache, cwd, txn, panicked, fileVars, lost>>

(* sys_chdir(): look at the inode, then put the old directory, then change. *)
Chdir1(p) ==
    /\ At(p, "chdir1")
    /\ LET r == reg[p].r IN
        Then(p, IF r = 0 THEN << <<"end_op">> >>
                ELSE << <<"ilock", r>>, <<"chdir2">> >>)
    /\ UNCHANGED <<dinode, icache, cwd, reg, txn, panicked, fileVars, lost>>

Chdir2(p) ==
    /\ At(p, "chdir2")
    /\ LET r == reg[p].r IN
        Then(p, IF icache[r].type # "dir"
                THEN Append(Iunlockput(r), <<"end_op">>)
                ELSE << <<"iunlock", r>>, <<"iput", cwd[p]>>, <<"end_op">>,
                        <<"chdir3", r>> >>)
    /\ Forget(p, {"r"})
    /\ UNCHANGED <<dinode, icache, cwd, txn, panicked, fileVars, lost>>

Chdir3(p) ==
    /\ At(p, "chdir3")
    /\ cwd' = [cwd EXCEPT ![p] = Arg(p, 1)]
    /\ Then(p, << >>)
    /\ UNCHANGED <<dinode, icache, reg, txn, panicked, fileVars, lost>>

(* sys_pipe(), pipealloc(): a struct file for one end, f the other or 0.   *)
Pipe1(p) ==
    /\ At(p, "pipe1")
    /\ LET f == Arg(p, 1)
           g == FileAlloc IN
        /\ ftable' = IF g = 0 THEN ftable ELSE [ftable EXCEPT ![g].ref = 1]
        /\ Then(p, IF g = 0 THEN (IF f = 0 THEN << >> ELSE << <<"fclose", f>> >>)
                   ELSE IF f = 0 THEN << <<"pipe1", g>> >>
                   ELSE << <<"pipe2", f, g>> >>)
    /\ UNCHANGED <<dinode, icache, cwd, reg, txn, panicked, ofile, alive,
                   pipes, left, lost>>

(* sys_pipe(): kalloc() may fail, or the descriptors run out; then both    *)
(* files are closed again, the first descriptor included.                  *)
Pipe2(p) ==
    /\ At(p, "pipe2")
    /\ LET f == Arg(p, 1)
           g == Arg(p, 2)
           k == Min({j \in DOMAIN pipes : pipes[j] = {}})
           fds == {fd \in 1..NOFILE : ofile[p][fd] = 0}
           undo == << <<"fclose", f>>, <<"fclose", g>> >> IN
        \/ /\ Then(p, undo) /\ UNCHANGED <<ftable, ofile, pipes>>
        \/ /\ pipes' = [pipes EXCEPT ![k] = {"r", "w"}]
           /\ ftable' = [ftable EXCEPT
                ![f] = [@ EXCEPT !.type = "pipe", !.pipe = k, !.end = "r"],
                ![g] = [@ EXCEPT !.type = "pipe", !.pipe = k, !.end = "w"]]
           /\ IF Cardinality(fds) < 2
              THEN Then(p, undo) /\ UNCHANGED ofile
              ELSE /\ LET fd0 == Min(fds)
                          fd1 == Min(fds \ {fd0}) IN
                      ofile' = [ofile EXCEPT ![p][fd0] = f, ![p][fd1] = g]
                   /\ Then(p, << >>)
    /\ UNCHANGED <<dinode, icache, cwd, reg, txn, panicked, alive, left, lost>>

-----------------------------------------------------------------------------
(* p runs a program; the first process has made the calls of Boot.         *)
Running(p) == todo[p] = << >> /\ p \in alive /\ panicked = "no"
Booted == left <= MaxCalls

(* sys_dup(): argfd(), fdalloc(), filedup().                               *)
Dup(p, fd) ==
    /\ Running(p) /\ Booted
    /\ ofile[p][fd] # 0 /\ FdAlloc(p) # 0
    /\ ofile' = [ofile EXCEPT ![p][FdAlloc(p)] = ofile[p][fd]]
    /\ left > 0 /\ left' = left - 1
    /\ ftable' = Filedup(ofile[p][fd])
    /\ UNCHANGED <<inodeVars, alive, pipes, lost>>

(* sys_close()                                                             *)
Close(p, fd) ==
    /\ Running(p) /\ Booted /\ ofile[p][fd] # 0
    /\ ofile' = [ofile EXCEPT ![p][fd] = 0]
    /\ left > 0 /\ left' = left - 1
    /\ todo' = [todo EXCEPT ![p] = << <<"fclose", ofile[p][fd]>> >>]
    /\ UNCHANGED <<dinode, icache, cwd, reg, txn, panicked, ftable, alive,
                   pipes, lost>>

(* fork(): the child shares the open files and the current directory.      *)
Fork(p, q) ==
    /\ Running(p) /\ Booted /\ q \notin alive
    /\ ofile' = [ofile EXCEPT ![q] = ofile[p]]
    /\ ftable' = [f \in DOMAIN ftable |-> [ftable[f] EXCEPT
         !.ref = @ + Quantify(1..NOFILE, LAMBDA fd : ofile[p][fd] = f)]]
    /\ icache' = Idup(cwd[p])
    /\ cwd' = [cwd EXCEPT ![q] = cwd[p]]
    /\ alive' = alive \cup {q}
    /\ UNCHANGED <<dinode, todo, reg, txn, panicked, pipes, left, lost>>

(* exit(): close the descriptors one after the other, put the directory.   *)
Exit(p) ==
    /\ Running(p) /\ Booted
    /\ todo' = [todo EXCEPT ![p] =
         [k \in 1..NOFILE |-> <<"exit1", k>>] \o
         << <<"begin_op">>, <<"iput", cwd[p]>>, <<"end_op">>, <<"exit2">> >>]
    /\ UNCHANGED <<dinode, icache, cwd, reg, txn, panicked, fileVars, lost>>

Exit1(p) ==
    /\ At(p, "exit1")
    /\ LET f == ofile[p][Arg(p, 1)] IN
        Then(p, IF f = 0 THEN << >> ELSE << <<"fclose", f>> >>)
    /\ ofile' = [ofile EXCEPT ![p][Arg(p, 1)] = 0]
    /\ UNCHANGED <<dinode, icache, cwd, reg, txn, panicked, ftable, alive,
                   pipes, left, lost>>

Exit2(p) ==
    /\ At(p, "exit2")
    /\ cwd' = [cwd EXCEPT ![p] = 0]
    /\ alive' = alive \ {p}
    /\ Then(p, << >>)
    /\ UNCHANGED <<dinode, icache, reg, txn, panicked, ftable, ofile, pipes,
                   left, lost>>

-----------------------------------------------------------------------------
Call(p, c) ==
    /\ Running(p)
    /\ todo' = [todo EXCEPT ![p] = Program(c)]
    /\ left > 0 /\ left' = left - 1
    /\ IF Booted THEN Cardinality(alive) > 1 \/ left < MaxCalls
       ELSE c = Boot[Len(Boot) + MaxCalls - left + 1]
    /\ UNCHANGED <<dinode, icache, cwd, reg, txn, panicked, ftable, ofile,
                   alive, pipes,
                   lost>>

(* The free of Inode also ends the history of the inode number.            *)
InodeStep(p) ==
    /\ InodeNext(p)
    /\ lost' = {i \in lost : dinode'[i].type # "none"}
    /\ UNCHANGED fileVars

ProcNext(p) ==
    \/ InodeStep(p) \/ Fileclose(p)
    \/ Create1(p) \/ Create2(p) \/ Create3(p) \/ Create4(p)
    \/ Open1(p) \/ Open2(p) \/ Open3(p) \/ Open4(p)
    \/ Link1(p) \/ Link2(p) \/ Link3(p) \/ Link4(p) \/ Link5(p)
    \/ Unlink1(p) \/ Unlink2(p) \/ Unlink3(p) \/ Unlink4(p)
    \/ Mk1(p) \/ Chdir1(p) \/ Chdir2(p) \/ Chdir3(p)
    \/ Pipe1(p) \/ Pipe2(p) \/ Exit1(p) \/ Exit2(p)

(* The sections that touch nothing but local variables and what a lock of  *)
(* the process protects, or give up a lock, are over before anybody else   *)
(* moves: no other process could tell.                                     *)
Private == {"begin_op", "end_op", "iunlock", "walk", "create1", "create3",
    "create4", "open1", "open2", "open4", "link1", "link2", "link3", "link5",
    "unlink1", "unlink3", "unlink4", "mk1", "chdir1", "chdir2", "chdir3",
    "exit1", "exit2"}
Busy(p) == todo[p] # << >> /\ Head(todo[p])[1] \in Private

Next ==
    \E p \in {q \in Procs : (\E r \in Procs : Busy(r)) => Busy(q)} :
        \/ ProcNext(p)
        \/ \E c \in Calls : Call(p, c)
        \/ \E fd \in 1..NOFILE : Dup(p, fd) \/ Close(p, fd)
        \/ \E q \in Procs : Fork(p, q)
        \/ Exit(p)

Spec == Init /\ [][Next]_vars

-----------------------------------------------------------------------------
(* The names of inode i, "." and the ".." of removed directories apart.    *)
NamesOf(i) ==
    {x \in Inums \X (1..Max({Len(dinode[j].ents) : j \in Inums})) :
        LET d == dinode[x[1]]
            e == d.ents[x[2]] IN
        /\ x[2] \in DOMAIN d.ents
        /\ e.inum = i
        /\ e.name # "."
        /\ e.name = ".." => d.nlink > 0}

(* Whenever no call is inside a transaction, that is in every state the    *)
(* log can commit (end_op() in log.c) and a crash can leave, the link count *)
(* of an inode is the number of its names, and no name leads to a free     *)
(* inode.  link() counts before it enters the name, unlink() after it has  *)
(* cleared it.  An inode that was entered in a directory another process   *)
(* had removed in between (create() and link() do not look at dp->nlink)   *)
(* keeps its count for ever: lost.                                         *)
LinksCounted ==
    txn = {} /\ panicked = "no" =>
        \A i \in Inums \ lost :
            Cardinality(NamesOf(i)) =
                (IF dinode[i].type = "none" THEN 0 ELSE dinode[i].nlink)

(* No process is inside a call.                                            *)
Quiet == panicked = "no" /\ \A p \in Procs : todo[p] = << >>

(* Between calls every reference is accounted for: the inode cache counts  *)
(* current directories and open files, the file table counts descriptors,  *)
(* and a pipe lives as long as one of its ends.  A reference too few frees *)
(* what is in use, one too many keeps it for ever.                         *)
RefsCounted ==
    Quiet =>
        /\ \A s \in DOMAIN icache :
             icache[s].ref = Quantify(Procs, LAMBDA p : cwd[p] = s) +
               Quantify(DOMAIN ftable, LAMBDA f : ftable[f].ref > 0 /\
                                                  ftable[f].ip = s)
        /\ \A f \in DOMAIN ftable :
             ftable[f].ref = Quantify(Procs \X (1..NOFILE),
                                      LAMBDA d : ofile[d[1]][d[2]] = f)
        /\ \A k \in DOMAIN pipes : pipes[k] =
             {ftable[f].end : f \in {g \in DOMAIN ftable : ftable[g].pipe = k}}

(* chdir() and exit() have put the current directory, or are about to.     *)
Leaving(p) == todo[p] # << >> /\ todo[p][Len(todo[p])][1] \in {"chdir3", "exit2"}

(* In the middle of calls too, the cache entry of an open file or of a     *)
(* current directory stays in use, for the same inode, and the inode is    *)
(* not freed on the disk, whoever unlinks it (the test of r in iput()); an *)
(* end of a pipe is one struct file: whoever closes it closes the end.     *)
InUseStays ==
    panicked = "no" =>
        /\ \A f \in DOMAIN ftable : ftable[f].type = "inode" =>
             /\ icache[ftable[f].ip].ref > 0
             /\ Inum(ftable[f].ip) = ftable[f].inum
             /\ dinode[ftable[f].inum].type # "none"
        /\ \A p \in alive : ~Leaving(p) =>
             icache[cwd[p]].ref > 0 /\ dinode[Inum(cwd[p])].type = "dir"
        /\ \A f, g \in DOMAIN ftable :
             ftable[f].type = "pipe" /\ ftable[g].type = "pipe" /\
             ftable[f].pipe = ftable[g].pipe /\ ftable[f].end = ftable[g].end => f = g

(* What holds an inode, a struct file or an end of a pipe counts for one   *)
(* reference, no more and no less, and what is referred to is not reused.  *)
ReferencesSound == RefsCounted /\ InUseStays

(* iput(): "If that was the last reference and the inode has no links to   *)
(* it, free the inode (and its content) on disk."                          *)
UnlinkedFreed ==
    Quiet => \A i \in Inums : dinode[i].type # "none" /\ dinode[i].nlink = 0
                              => Referenced(i) # {}

(* None of the panics of these files but those of a full table: no free    *)
(* inode behind a name, no inode locked without a reference or unlocked by *)
(* a stranger, no closing of a closed file.                                *)
NoPanic == panicked # "state"

(* usertests.c looks for deadlocks with concurrent create, link and        *)
(* unlink: no process waits for a lock of its own, and no two processes    *)
(* wait for each other.                                                    *)
WaitsFor(p) == IF At(p, "ilock") \/ At(p, "iput")
               THEN icache[Arg(p, 1)].owner ELSE NoProc
NoCircularWait == \A p \in Procs : WaitsFor(p) # p /\
    (WaitsFor(p) # NoProc => WaitsFor(WaitsFor(p)) # p)
=============================================================================
