---------------------------- MODULE AtomicDisk -----------------------------
(***************************************************************************)
(* What the logging layer promises to the file system (the comment at the  *)
(* top of log.c): file-system operations run concurrently on one view of   *)
(* the disk, and a crash falls back to a state in which every operation    *)
(* has happened completely or not at all.                                  *)
(***************************************************************************)
CONSTANTS Ops, Blocks, Vals

VARIABLES
    disk,    \* disk[b]: the contents that survive a crash
    view,    \* view[b]: the contents that bread() returns
    active   \* the operations between begin_op() and end_op()

vars == <<disk, view, active>>

Init == /\ disk \in [Blocks -> Vals]
        /\ view = disk
        /\ active = {}

Begin(p) == /\ p \notin active
            /\ active' = active \cup {p}
            /\ UNCHANGED <<disk, view>>

Write(p, b, v) == /\ p \in active
                  /\ view' = [view EXCEPT ![b] = v]
                  /\ UNCHANGED <<disk, active>>

End(p) == /\ p \in active
          /\ active' = active \ {p}
          /\ UNCHANGED <<disk, view>>

(* The view becomes durable in one step, and only between operations.      *)
Commit == /\ active = {}
          /\ disk' = view
          /\ UNCHANGED <<view, active>>

Crash == /\ view' = disk
         /\ active' = {}
         /\ UNCHANGED disk

Next == \/ \E p \in Ops : Begin(p) \/ End(p)
        \/ \E p \in Ops, b \in Blocks, v \in Vals : Write(p, b, v)
        \/ Commit \/ Crash

Spec == Init /\ [][Next]_vars
=============================================================================
