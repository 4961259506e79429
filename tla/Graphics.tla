------------------------------ MODULE Graphics ------------------------------
(***************************************************************************)
(* The graphics driver of src/x86_64/drivers/graphics/hell_graphics.c:    *)
(* its initialized flag (set by init_hell_graphics_driver, cleared by     *)
(* shutdown_graphics_driver), draw_line, the Bresenham loop, and          *)
(* draw_rectangle, with draw_pixel, the clipping write every drawing      *)
(* routine ends in.                                                       *)
(*                                                                         *)
(* A draw_line call is a loop: ln holds its locals (x0, y0 move, err is    *)
(* the error term), one step per iteration.  The framebuffer is observed  *)
(* through what the current call writes: path is the sequence of points   *)
(* the loop hands to draw_pixel, written the set of framebuffer offsets   *)
(* draw_pixel stores to.  call keeps the arguments of the last call and  *)
(* the initialized flag during it (nothing can change it mid-call).      *)
(* Colours, the VGA register programming and the palette are port and     *)
(* memory writes no property reads; they are left out.                    *)
(***************************************************************************)
EXTENDS Integers, Sequences

CONSTANTS
    SCREEN_WIDTH,    \* SCREEN_WIDTH (680, scaled)
    SCREEN_HEIGHT,   \* SCREEN_HEIGHT (480, scaled)
    Coords,          \* coordinates callers pass to draw_line
    Sizes            \* widths and heights passed to draw_rectangle

VARIABLES ginit, call, ln, path, written

gvars == <<ginit, call, ln, path, written>>

\* abs() at the end of hell_graphics.c.
Abs(x) == IF x < 0 THEN -x ELSE x

\* draw_pixel's clipping test.
OnScreen(x, y) == x >= 0 /\ x < SCREEN_WIDTH /\ y >= 0 /\ y < SCREEN_HEIGHT

\* draw_pixel's test with x allowed to reach SCREEN_WIDTH (faulty variant).
DrawPixelWide(init, x, y) ==
    IF init /\ x >= 0 /\ x <= SCREEN_WIDTH /\ y >= 0 /\ y < SCREEN_HEIGHT
    THEN {y * SCREEN_WIDTH + x} ELSE {}

\* draw_pixel: the framebuffer offset it stores to, if any.
DrawPixel(init, x, y) ==
    IF init /\ OnScreen(x, y) THEN {y * SCREEN_WIDTH + x} ELSE {}

Idle == [pc |-> "idle", x0 |-> 0, y0 |-> 0, x1 |-> 0, y1 |-> 0,
         dx |-> 0, dy |-> 0, sx |-> 1, sy |-> 1, err |-> 0]

Init ==
    /\ ginit = FALSE
    /\ call = [kind |-> "line", x0 |-> 0, y0 |-> 0, x1 |-> 0, y1 |-> 0, init |-> FALSE]
    /\ ln = Idle
    /\ path = <<>>
    /\ written = {}

\* init_hell_graphics_driver: setup_vga_mode always succeeds, the palette
\* is programmed, clear_screen runs before the flag is set (and so draws
\* nothing), then initialized = true.
GraphicsDriverInit ==
    /\ ln.pc = "idle"
    /\ ginit' = TRUE
    /\ UNCHANGED <<call, ln, path, written>>

\* shutdown_graphics_driver: clear_screen, then initialized = false.
ShutdownGraphics ==
    /\ ln.pc = "idle"
    /\ ginit' = FALSE
    /\ UNCHANGED <<call, ln, path, written>>

\* draw_line entry: dx, dy, the step directions and err = dx - dy.
DrawLineCall(x0, y0, x1, y1) ==
    /\ ln.pc = "idle"
    /\ ln' = [pc |-> "loop", x0 |-> x0, y0 |-> y0, x1 |-> x1, y1 |-> y1,
              dx |-> Abs(x1 - x0), dy |-> Abs(y1 - y0),
              sx |-> IF x0 < x1 THEN 1 ELSE -1,
              sy |-> IF y0 < y1 THEN 1 ELSE -1,
              err |-> Abs(x1 - x0) - Abs(y1 - y0)]
    /\ call' = [kind |-> "line", x0 |-> x0, y0 |-> y0, x1 |-> x1, y1 |-> y1, init |-> ginit]
    /\ path' = <<>>
    /\ written' = {}
    /\ UNCHANGED ginit

\* e2 taken as err itself (faulty variant).
E2Single(err) == err

\* int e2 = 2 * err;
E2(err) == 2 * err

\* One iteration: draw_pixel, the exit test, then the two error updates.
LineStep ==
    LET l  == ln
        e2 == E2(l.err)
        mx == e2 > -l.dy
        my == e2 < l.dx
    IN /\ l.pc = "loop"
       /\ path' = Append(path, <<l.x0, l.y0>>)
       /\ written' = written \cup DrawPixel(ginit, l.x0, l.y0)
       /\ ln' = IF l.x0 = l.x1 /\ l.y0 = l.y1
                THEN Idle   \* the break: the call returns, its locals die
                ELSE [l EXCEPT !.err = @ - (IF mx THEN l.dy ELSE 0)
                                        + (IF my THEN l.dx ELSE 0),
                               !.x0 = IF mx THEN @ + l.sx ELSE @,
                               !.y0 = IF my THEN @ + l.sy ELSE @]
       /\ UNCHANGED <<ginit, call>>

\* draw_rectangle: draw_pixel at (x + j, y + i), row by row; a width or
\* height of 0 or less draws nothing.  call records the opposite corner.
DrawRectangle(x, y, w, h) ==
    LET n   == IF w > 0 /\ h > 0 THEN w * h ELSE 0
        pts == [k \in 1..n |-> <<x + ((k - 1) % w), y + ((k - 1) \div w)>>]
    IN /\ ln.pc = "idle"
       /\ path' = pts
       /\ written' = UNION {DrawPixel(ginit, pts[k][1], pts[k][2]) : k \in 1..n}
       /\ call' = [kind |-> "rect", x0 |-> x, y0 |-> y, x1 |-> x + w - 1,
                   y1 |-> y + h - 1, init |-> ginit]
       /\ UNCHANGED <<ginit, ln>>

Next ==
    \/ GraphicsDriverInit
    \/ ShutdownGraphics
    \/ \E x0, y0, x1, y1 \in Coords : DrawLineCall(x0, y0, x1, y1)
    \/ LineStep
    \/ \E x, y \in Coords, w, h \in Sizes : DrawRectangle(x, y, w, h)

Spec == Init /\ [][Next]_gvars

-----------------------------------------------------------------------------
(***************************************************************************)
(* Reference for draw_line: the points of a digital segment from (x0, y0) *)
(* to (x1, y1).  There are max(dx, dy) + 1 of them; each step moves one   *)
(* unit towards the end point on one axis or on both; and every point     *)
(* lies within half a unit of the true segment across its major axis     *)
(* (|cross product| <= max(dx, dy) / 2).  The error term, the two         *)
(* independent updates and the exit test of the loop must together keep  *)
(* all three, for every octant and for the degenerate lines.              *)
(***************************************************************************)
LineTracesSegment ==
    LET x0 == call.x0  y0 == call.y0  x1 == call.x1  y1 == call.y1
        M  == IF Abs(x1 - x0) > Abs(y1 - y0) THEN Abs(x1 - x0) ELSE Abs(y1 - y0)
        Dev(p) == (p[1] - x0) * (y1 - y0) - (p[2] - y0) * (x1 - x0)
        Towards(a, b, t) == IF a = t THEN b = a
                            ELSE b \in {a, a + (IF a < t THEN 1 ELSE -1)}
    IN call.kind = "line" =>
       /\ Len(path) <= M + 1
       /\ path # <<>> => path[1] = <<x0, y0>>
       /\ \A i \in 1..Len(path) : 2 * Abs(Dev(path[i])) <= M
       /\ \A i \in 2..Len(path) :
             /\ path[i] # path[i - 1]
             /\ Towards(path[i - 1][1], path[i][1], x1)
             /\ Towards(path[i - 1][2], path[i][2], y1)
       /\ (ln.pc = "idle" /\ path # <<>>) =>
             Len(path) = M + 1 /\ path[Len(path)] = <<x1, y1>>

(***************************************************************************)
(* draw_pixel clips: a draw_line or draw_rectangle call stores exactly   *)
(* to the framebuffer bytes y * SCREEN_WIDTH + x of the points of its     *)
(* path that are on the screen, and to none while the driver is not      *)
(* initialized.  A point one past the right edge would otherwise land on  *)
(* the next row's first byte.                                             *)
(***************************************************************************)
PixelsClippedToScreen ==
    written = IF call.init
              THEN {path[i][2] * SCREEN_WIDTH + path[i][1] :
                      i \in {j \in 1..Len(path) : OnScreen(path[j][1], path[j][2])}}
              ELSE {}

=============================================================================
