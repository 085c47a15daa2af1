------------------------------ MODULE Painters -----------------------------
(***************************************************************************)
(* The concurrent artists (Assignment 7, painters.c): every artist is a    *)
(* thread in paint(), on one canvas whose pixels have a mutex each.        *)
(*                                                                         *)
(* A step is what a thread does between two operations on shared memory:   *)
(* move and pthread_mutex_trylock(); look at the pixel; paint it and       *)
(* unlock, or backtrack and unlock.  A mutex is a Boolean: unlocking a     *)
(* default mutex that another thread holds, which POSIX leaves undefined,  *)
(* releases it in glibc.                                                   *)
(***************************************************************************)
EXTENDS Integers, FiniteSets

CONSTANTS
    Artists,
    CANVAS_WIDTH, CANVAS_HEIGHT,
    White,      \* the colour of a pixel nobody has painted
    Origin,      \* Origin[a]: where main() places artist a
    Tries,      \* iterations of the loop in paint(); 20000 in the code
    Strokes     \* limit of actuallyPainted; 5000 in the code

ArtistAssumption == White \notin Artists
CanvasAssumption ==
    /\ CANVAS_WIDTH \in Nat \ {0} /\ CANVAS_HEIGHT \in Nat \ {0}
    /\ Tries \in Nat /\ Strokes \in Nat

Canvas == (0..(CANVAS_WIDTH - 1)) \X (0..(CANVAS_HEIGHT - 1))
OriginAssumption == Origin \in [Artists -> Canvas]

(* movement[]: the eight directions.                                       *)
movement == ({-1, 0, 1} \X {-1, 0, 1}) \ {<<0, 0>>}

VARIABLES
    color,            \* color[c]: White or the artist who painted c last
    mutex,            \* mutex[c]: the mutex of pixel c is locked
    pos,              \* pos[a]: painter->x, painter->y
    current,          \* current[a]: currentX, currentY
    z,                \* z[a]: iterations done
    actuallyPainted,  \* per artist
    phase,            \* phase[a]: "move", "look", "paint" or "back"
    trail             \* trail[a]: every pixel a has ever painted

paintVars == <<color, mutex, pos, current, z, actuallyPainted, phase, trail>>

(* initCanvas(), and main() has placed the artists.                        *)
PaintInit ==
    /\ color = [c \in Canvas |-> White]
    /\ mutex = [c \in Canvas |-> FALSE]
    /\ pos = Origin /\ current = Origin
    /\ z = [a \in Artists |-> 0]
    /\ actuallyPainted = [a \in Artists |-> 0]
    /\ phase = [a \in Artists |-> "move"]
    /\ trail = [a \in Artists |-> {}]

Clamp(n, max) == IF n < 0 THEN 0 ELSE IF n > max THEN max ELSE n

(* A roll of the dice, kept inside the canvas.                             *)
Target(c, m) == <<Clamp(c[1] + m[1], CANVAS_WIDTH - 1),
                  Clamp(c[2] + m[2], CANVAS_HEIGHT - 1)>>

Phase(a, l) == phase' = [phase EXCEPT ![a] = l]

(* The rest of a loop iteration that ends here.                            *)
NextTry(a) == z' = [z EXCEPT ![a] = @ + 1] /\ Phase(a, "move")

(* Move, and trylock succeeds with paint left.                             *)
Grab(a) == \E m \in movement :
    LET t == Target(pos[a], m) IN
    /\ phase[a] = "move" /\ z[a] < Tries
    /\ ~mutex[t] /\ actuallyPainted[a] < Strokes
    /\ mutex' = [mutex EXCEPT ![t] = TRUE]
    /\ current' = [current EXCEPT ![a] = pos[a]]
    /\ pos' = [pos EXCEPT ![a] = t]
    /\ Phase(a, "look")
    /\ UNCHANGED <<color, z, actuallyPainted, trail>>

(* Mutant of Miss: the artist stays on the pixel it could not lock.        *)
MissAndStay(a) == \E m \in movement :
    LET t == Target(pos[a], m) IN
    /\ phase[a] = "move" /\ z[a] < Tries
    /\ mutex[t] \/ actuallyPainted[a] >= Strokes
    /\ mutex' = [mutex EXCEPT ![t] = TRUE]
    /\ pos' = [pos EXCEPT ![a] = t]
    /\ current' = [current EXCEPT ![a] = pos[a]]
    /\ NextTry(a)
    /\ UNCHANGED <<color, actuallyPainted, trail>>

(* Move, and trylock fails, or succeeds with no paint left: step back.  In *)
(* the second case the pixel stays locked.                                 *)
Miss(a) == \E m \in movement :
    LET t == Target(pos[a], m) IN
    /\ phase[a] = "move" /\ z[a] < Tries
    /\ mutex[t] \/ actuallyPainted[a] >= Strokes
    /\ mutex' = [mutex EXCEPT ![t] = TRUE]
    /\ current' = [current EXCEPT ![a] = pos[a]]
    /\ NextTry(a)
    /\ UNCHANGED <<color, pos, actuallyPainted, trail>>

(* The test of the three colour components.                                *)
Look(a) ==
    /\ phase[a] = "look"
    /\ Phase(a, IF color[pos[a]] = White THEN "paint" ELSE "back")
    /\ UNCHANGED <<color, mutex, pos, current, z, actuallyPainted, trail>>

(* Paint the pixel and unlock it.                                          *)
Paint(a) ==
    /\ phase[a] = "paint"
    /\ color' = [color EXCEPT ![pos[a]] = a]
    /\ trail' = [trail EXCEPT ![a] = @ \cup {pos[a]}]
    /\ mutex' = [mutex EXCEPT ![pos[a]] = FALSE]
    /\ actuallyPainted' = [actuallyPainted EXCEPT ![a] = @ + 1]
    /\ NextTry(a)
    /\ UNCHANGED <<pos, current>>

(* Iterate back, and unlock the pixel at the position after the step.         *)
Backtrack(a) ==
    /\ phase[a] = "back"
    /\ pos' = [pos EXCEPT ![a] = current[a]]
    /\ mutex' = [mutex EXCEPT ![current[a]] = FALSE]
    /\ actuallyPainted' = [actuallyPainted EXCEPT ![a] = @ + 1]
    /\ NextTry(a)
    /\ UNCHANGED <<color, current, trail>>

Iterate(a) == Grab(a) \/ Miss(a) \/ Look(a) \/ Paint(a) \/ Backtrack(a)
PaintNext == \E a \in Artists : Iterate(a)
PaintSpec == PaintInit /\ [][PaintNext]_paintVars

-----------------------------------------------------------------------------
Adjacent(c, d) == \E m \in movement : d = <<c[1] + m[1], c[2] + m[2]>>

(* README: "there should be no islands where the artist has painted".      *)
(* What an artist has painted hangs together with the place it started     *)
(* from, and between two strokes it stands on such a pixel.                *)
HangsTogether ==
    \A a \in Artists :
        LET ground == trail[a] \cup {Origin[a]} IN
        /\ phase[a] = "move" => pos[a] \in ground
        /\ \A part \in SUBSET ground :
              Origin[a] \in part /\ part # ground =>
                  \E c \in part, d \in ground \ part : Adjacent(c, d)

(* README: "They may attempt to 'paint' on the canvas 5000 times maximum", *)
(* and no more pixels carry their colour.                                  *)
PaintRunsOut ==
    \A a \in Artists : /\ actuallyPainted[a] <= Strokes
                       /\ Cardinality(trail[a]) <= actuallyPainted[a]

(* Both: no islands, and no more strokes than there is paint.              *)
NoIslands == HangsTogether /\ PaintRunsOut

(* painters.c: "we only want one artist at a time drawing on a pixel".     *)
OneArtistPerPixel ==
    \A a, b \in Artists :
        phase[a] # "move" /\ phase[b] # "move" /\ pos[a] = pos[b] => a = b
=============================================================================
