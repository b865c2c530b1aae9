------------------------- MODULE FramebufferWriter -------------------------
(***************************************************************************)
(* Drawing on the framebuffer (nukleus/src/text_based_interface/           *)
(* framebuffer_writer.rs and the second half of main in                    *)
(* nukleus/src/main.rs).  One action is one iteration of a drawing loop.   *)
(* Coordinates are usize values: a subtraction below zero panics in a      *)
(* build that checks overflow and wraps around in one that does not.       *)
(***************************************************************************)
EXTENDS Integers, Sequences

CONSTANTS
  USIZE,    \* number of values of a usize, 2^64 in the code
  Screens,  \* [width, height, stride, byte_len, pixel_format]: FramebufferInfo
  Scenes,   \* lists of primitives to draw besides the ones of main
  None,     \* no value
  QUAD_X, QUAD_Y, CIRCLE_R, LINE_X, LINE_Y, DISK_R
            \* the sizes in main: 100, 50, 100, 100, 300 and 15

BYTES_PER_PIXEL == 4

\* The firmware's framebuffer has all the bytes of its rows.
WellFormed(s) ==
  /\ s.width \in Nat \ {0} /\ s.height \in Nat \ {0}
  /\ s.stride >= s.width
  /\ s.byte_len >= s.stride * s.height * BYTES_PER_PIXEL
  /\ s.pixel_format \in {"Rgb", "Bgr"}

ASSUME ScreensAssumption == \A s \in Screens : WellFormed(s) /\ s.width + s.height < USIZE \div 4

VARIABLES
  screen,    \* FramebufferInfo
  checked,   \* the build checks overflow
  scene,     \* the primitives still to be drawn
  current,   \* the one being drawn, with the variables of its loop
  buffer,    \* the bytes of the framebuffer
  before,    \* history: the buffer when the drawing of current began
  painted,   \* history: the pixels of the screen drawn for current
  panicked   \* None, or why

vars == <<screen, checked, scene, current, buffer, before, painted, panicked>>

(***************************************************************************)
(* Numbers: as_usize is a wrapped subtraction or addition, as_isize the    *)
(* cast of a usize to a signed number of the same width.                   *)
(***************************************************************************)
as_usize(n) == n % USIZE

as_isize(n) == IF n < USIZE \div 2 THEN n ELSE n - USIZE

(***************************************************************************)
(* Primitives, with the points as main computes them (a coordinate may be  *)
(* negative before it becomes a usize) and a colour of three bytes.        *)
(***************************************************************************)
Point(x, y) == [x |-> x, y |-> y]

Line(a, b, color) == [kind |-> "line", a |-> a, b |-> b, r |-> 0, color |-> color]
Quad(a, b, color) == [kind |-> "quad", a |-> a, b |-> b, r |-> 0, color |-> color]
Disk(a, r, color) == [kind |-> "disk", a |-> a, b |-> a, r |-> r, color |-> color]
Circle(a, r, color) == [kind |-> "circle", a |-> a, b |-> a, r |-> r, color |-> color]

\* Ellipses and Bezier curves, for which nothing is drawn.
Blank(a, color) == [kind |-> "blank", a |-> a, b |-> a, r |-> 0, color |-> color]

main_scene(s) ==
  LET cx == s.width \div 2
      cy == s.height \div 2
      center == Point(cx, cy)
  IN  << Quad(Point(0, 0), Point(s.width, s.height), <<221, 232, 242>>),
         Quad(Point(cx - QUAD_X, cy - QUAD_Y), Point(cx + QUAD_X, cy + QUAD_Y), <<255, 255, 0>>),
         Circle(center, CIRCLE_R, <<0, 0, 255>>),
         Line(center, Point(cx - LINE_X, cy + LINE_Y), <<0, 0, 255>>),
         Disk(center, DISK_R, <<255, 200, 0>>) >>

Init ==
  /\ screen \in Screens
  /\ checked \in BOOLEAN
  /\ scene \in Scenes \cup {main_scene(screen)}
  /\ current = None
  /\ buffer = [i \in 0 .. screen.byte_len - 1 |-> 0]
  /\ before = buffer
  /\ painted = {}
  /\ panicked = None

-----------------------------------------------------------------------------
(***************************************************************************)
(* draw_pixel for the points of one iteration: points off the screen are   *)
(* left out, the rows are stored from the top down, and the bytes are in   *)
(* the order of the pixel format.                                          *)
(***************************************************************************)
on_screen_Inclusive(p) == p.x < screen.width /\ p.y <= screen.height

on_screen(p) == p.x < screen.width /\ p.y < screen.height

pixel_index_FromOne(p) ==
  (p.x + (screen.height - p.y) * screen.stride) * BYTES_PER_PIXEL

pixel_index(p) ==
  (p.x + ((screen.height - 1) - p.y) * screen.stride) * BYTES_PER_PIXEL

pixel_bytes(color) ==
  IF screen.pixel_format = "Rgb" THEN color ELSE <<color[3], color[2], color[1]>>

draw_pixels(points) ==
  LET visible == {p \in points : on_screen(p)}
      bytes   == pixel_bytes(current.color)
      at(i)   == {k \in 0 .. 2 : \E p \in visible : i = pixel_index(p) + k}
  IN  IF \E p \in visible : pixel_index(p) + 2 >= screen.byte_len
        THEN panicked' = "index" /\ UNCHANGED <<buffer, painted>>
        ELSE /\ buffer' = [i \in DOMAIN buffer |->
                             IF at(i) # {} THEN bytes[(CHOOSE k \in at(i) : TRUE) + 1] ELSE buffer[i]]
             /\ painted' = painted \cup visible
             /\ UNCHANGED panicked

\* A point from signed coordinates.
to_point(x, y) == Point(as_usize(x), as_usize(y))

Drawing(kind) ==
  panicked = None /\ current # None /\ current.kind = kind /\ ~current.drawn

Finish == current' = [current EXCEPT !.drawn = TRUE]

(***************************************************************************)
(* The next primitive: its points become usize values.  draw_quad also     *)
(* subtracts them, which fails if the second is not above the first.       *)
(***************************************************************************)
has_underflow(p) ==
  \/ p.a.x < 0 \/ p.a.y < 0 \/ p.b.x < 0 \/ p.b.y < 0
  \/ p.kind = "quad" /\ (p.b.x < p.a.x \/ p.b.y < p.a.y)

loop_start(p) ==
  CASE p.kind = "line" ->
         LET dx == IF p.b.x > p.a.x THEN p.b.x - p.a.x ELSE p.a.x - p.b.x
             dy == IF p.b.y > p.a.y THEN p.a.y - p.b.y ELSE p.b.y - p.a.y
         IN  [x |-> p.a.x, y |-> p.a.y, err |-> dx + dy, dx |-> dx, dy |-> dy]
    [] p.kind = "circle" -> [x |-> -p.r, y |-> 0, err |-> 2 - 2 * p.r, dx |-> 0, dy |-> 0]
    [] OTHER -> [x |-> 0, y |-> 0, err |-> 0, dx |-> 0, dy |-> 0]

draw_primitive ==
  /\ panicked = None /\ (current # None => current.drawn) /\ scene # <<>>
  /\ LET p == Head(scene)
         q == [p EXCEPT !.a = to_point(p.a.x, p.a.y), !.b = to_point(p.b.x, p.b.y)]
         signed == [q EXCEPT !.a = Point(as_isize(q.a.x), as_isize(q.a.y)),
                             !.b = Point(as_isize(q.b.x), as_isize(q.b.y))]
     IN  IF checked /\ has_underflow(p)
           THEN panicked' = "overflow" /\ UNCHANGED <<scene, current, before, painted>>
           ELSE /\ current' = [kind |-> p.kind, a |-> q.a, b |-> q.b, r |-> p.r, color |-> p.color,
                               loop |-> loop_start(signed), drawn |-> p.kind = "blank", source |-> p]
                /\ scene' = Tail(scene)
                /\ before' = buffer /\ painted' = {}
                /\ UNCHANGED panicked
  /\ UNCHANGED <<screen, checked, buffer>>

Loop == current.loop

(***************************************************************************)
(* draw_line: the end point is not drawn.                                  *)
(***************************************************************************)
LineEnds ==
  /\ Drawing("line")
  /\ Loop.x = as_isize(current.b.x) /\ Loop.y = as_isize(current.b.y)
  /\ Finish
  /\ UNCHANGED <<screen, checked, scene, buffer, before, painted, panicked>>

line_advance_SwappedTests(l, sx, sy) ==
  LET e2    == 2 * l.err
      moves == l.dx <= e2
      turns == e2 <= l.dy
  IN  [l EXCEPT !.x = IF moves THEN l.x + sx ELSE l.x, !.y = IF turns THEN l.y + sy ELSE l.y,
                !.err = l.err + (IF moves THEN l.dy ELSE 0) + (IF turns THEN l.dx ELSE 0)]

line_advance(l, sx, sy) ==
  LET e2    == 2 * l.err
      moves == l.dy <= e2
      turns == e2 <= l.dx
  IN  [l EXCEPT !.x = IF moves THEN l.x + sx ELSE l.x, !.y = IF turns THEN l.y + sy ELSE l.y,
                !.err = l.err + (IF moves THEN l.dy ELSE 0) + (IF turns THEN l.dx ELSE 0)]

draw_line ==
  /\ Drawing("line")
  /\ Loop.x # as_isize(current.b.x) \/ Loop.y # as_isize(current.b.y)
  /\ draw_pixels({to_point(Loop.x, Loop.y)})
  /\ current' = [current EXCEPT !.loop = line_advance(Loop,
       IF as_isize(current.a.x) < as_isize(current.b.x) THEN 1 ELSE -1,
       IF as_isize(current.a.y) < as_isize(current.b.y) THEN 1 ELSE -1)]
  /\ UNCHANGED <<screen, checked, scene, before>>

(***************************************************************************)
(* draw_quad, row by row: width and height are wrapped differences.        *)
(***************************************************************************)
quad_width == as_usize(current.b.x - current.a.x)
quad_height == as_usize(current.b.y - current.a.y)

QuadEnds ==
  /\ Drawing("quad") /\ (Loop.y = quad_height \/ quad_width = 0)
  /\ Finish
  /\ UNCHANGED <<screen, checked, scene, buffer, before, painted, panicked>>

draw_quad ==
  /\ Drawing("quad") /\ Loop.y < quad_height /\ quad_width > 0
  /\ draw_pixels({to_point(current.a.x + Loop.x, current.a.y + Loop.y)})
  /\ current' = [current EXCEPT !.loop =
       IF Loop.x + 1 < quad_width THEN [Loop EXCEPT !.x = Loop.x + 1]
       ELSE [Loop EXCEPT !.x = 0, !.y = Loop.y + 1]]
  /\ UNCHANGED <<screen, checked, scene, before>>

(***************************************************************************)
(* draw_disk: for each i and j below the radius the four mirrored points,  *)
(* of which those left of or below 0 are skipped.                          *)
(***************************************************************************)
disk_points(a, i, j) ==
  {Point(a.x + i, a.y + j)}
    \cup {p \in {Point(a.x - i, a.y + j)} : p.x >= 0}
    \cup {p \in {Point(a.x - i, a.y - j)} : p.x >= 0 /\ p.y >= 0}
    \cup {p \in {Point(a.x + i, a.y - j)} : p.y >= 0}

DiskEnds ==
  /\ Drawing("disk") /\ Loop.x = current.r
  /\ Finish
  /\ UNCHANGED <<screen, checked, scene, buffer, before, painted, panicked>>

draw_disk ==
  /\ Drawing("disk") /\ Loop.x < current.r
  /\ draw_pixels(IF Loop.x * Loop.x + Loop.y * Loop.y <= current.r * current.r
                   THEN disk_points(current.a, Loop.x, Loop.y) ELSE {})
  /\ current' = [current EXCEPT !.loop =
       IF Loop.y + 1 < current.r THEN [Loop EXCEPT !.y = Loop.y + 1]
       ELSE [Loop EXCEPT !.x = Loop.x + 1, !.y = 0]]
  /\ UNCHANGED <<screen, checked, scene, before>>

(***************************************************************************)
(* draw_circle: a quarter of the circle is walked and drawn four times.    *)
(***************************************************************************)
circle_points(a, x, y) ==
  {to_point(a.x + y, a.y + x)}
    \cup {to_point(p.x, p.y) : p \in {q \in {Point(a.x - x, a.y + y)} : q.x >= 0}}
    \cup {to_point(p.x, p.y) : p \in {q \in {Point(a.x - y, a.y - x)} : q.x >= 0 /\ q.y >= 0}}
    \cup {to_point(p.x, p.y) : p \in {q \in {Point(a.x + x, a.y - y)} : q.y >= 0}}

circle_advance_OldCoordinates(l) ==
  LET y    == IF l.err <= l.y THEN l.y + 1 ELSE l.y
      err  == IF l.err <= l.y THEN l.err + 2 * l.y + 1 ELSE l.err
      grow == l.err > l.x \/ err > y
  IN  [l EXCEPT !.x = IF grow THEN l.x + 1 ELSE l.x, !.y = y,
                !.err = IF grow THEN err + 2 * l.x + 1 ELSE err]

circle_advance(l) ==
  LET rad  == l.err
      y    == IF rad <= l.y THEN l.y + 1 ELSE l.y
      err  == IF rad <= l.y THEN l.err + 2 * y + 1 ELSE l.err
      grow == rad > l.x \/ err > y
      x    == IF grow THEN l.x + 1 ELSE l.x
  IN  [l EXCEPT !.x = x, !.y = y, !.err = IF grow THEN err + 2 * x + 1 ELSE err]

draw_circle ==
  /\ Drawing("circle")
  /\ draw_pixels(circle_points(current.a, Loop.x, Loop.y))
  /\ current' = [current EXCEPT !.loop = circle_advance(Loop), !.drawn = circle_advance(Loop).x >= 0]
  /\ UNCHANGED <<screen, checked, scene, before>>

Next ==
  \/ draw_primitive
  \/ draw_line \/ LineEnds \/ draw_quad \/ QuadEnds \/ draw_disk \/ DiskEnds \/ draw_circle

Spec == Init /\ [][Next]_vars

\* The kernel's only thread draws without waiting for anything.
FairSpec == Spec /\ WF_vars(Next)

-----------------------------------------------------------------------------

Pixels == [x : 0 .. screen.width - 1, y : 0 .. screen.height - 1]

TypeOK ==
  /\ WellFormed(screen) /\ checked \in BOOLEAN
  /\ current # None => current.drawn \in BOOLEAN /\ current.loop.x \in Int /\ current.loop.err \in Int
  /\ buffer \in [0 .. screen.byte_len - 1 -> 0 .. 255]
  /\ painted \subseteq Pixels
  /\ panicked \in {None, "overflow", "index"}

(***************************************************************************)
(* What each primitive covers, in the plain integer coordinates of its     *)
(* source, whatever wrapped around on the way: a quad without its last row *)
(* and column, a disk without its outermost ones; a line within half a     *)
(* pixel of the ideal one, with one pixel per step along its longer side   *)
(* and without its end point; a circle within half a pixel of its radius,  *)
(* symmetric under quarter turns and crossing every column.                *)
(***************************************************************************)
Abs(n) == IF n < 0 THEN -n ELSE n

QuadCovers(q) ==
  painted = {p \in Pixels : q.a.x <= p.x /\ p.x < q.b.x /\ q.a.y <= p.y /\ p.y < q.b.y}

DiskCovers(d) ==
  painted = {p \in Pixels : LET dx == Abs(p.x - d.a.x)
                                dy == Abs(p.y - d.a.y)
                            IN  dx < d.r /\ dy < d.r /\ dx * dx + dy * dy <= d.r * d.r}

LineCovers(l) ==
  LET dx    == l.b.x - l.a.x
      dy    == l.b.y - l.a.y
      steps == IF Abs(dx) >= Abs(dy) THEN Abs(dx) ELSE Abs(dy)
      near(k, p) == /\ 2 * Abs((p.x - l.a.x) * steps - k * dx) <= steps
                    /\ 2 * Abs((p.y - l.a.y) * steps - k * dy) <= steps
                    /\ Abs(dx) >= Abs(dy) => Abs(p.x - l.a.x) = k
                    /\ Abs(dx) <= Abs(dy) => Abs(p.y - l.a.y) = k
      box   == [x : -USIZE \div 4 .. USIZE \div 4, y : -USIZE \div 4 .. USIZE \div 4]
  IN  /\ \A p \in painted : \E k \in 0 .. steps - 1 : near(k, p)
      /\ \A k \in 0 .. steps - 1 :
           LET hits == {p \in painted : near(k, p)}
           IN  /\ \A p, q \in hits : p = q
               /\ hits = {} => \E p \in box : near(k, p) /\ p \notin Pixels

CircleCovers(c) ==
  LET near(dx, dy) == Abs(dx * dx + dy * dy - c.r * c.r) <= c.r
  IN  /\ \A p \in painted :
           /\ near(p.x - c.a.x, p.y - c.a.y)
           /\ LET turned == Point(c.a.x - (p.y - c.a.y), c.a.y + (p.x - c.a.x))
              IN  turned \in Pixels => turned \in painted
      /\ \A dx \in -c.r .. c.r : \E dy \in 0 .. c.r :
           near(dx, dy) /\ (Point(c.a.x + dx, c.a.y + dy) \in Pixels
                              => Point(c.a.x + dx, c.a.y + dy) \in painted)

Covers(p) ==
  CASE p.kind = "quad"   -> QuadCovers(p)
    [] p.kind = "disk"   -> DiskCovers(p)
    [] p.kind = "line"   -> LineCovers(p)
    [] p.kind = "circle" -> CircleCovers(p)
    [] p.kind = "blank"  -> painted = {}

(***************************************************************************)
(* When a primitive is drawn the right pixels have its colour, upside up   *)
(* and in the byte order of the screen, and no other byte has changed: not *)
(* the fourth byte of a pixel, not the bytes behind the visible part of a  *)
(* row, nothing for what lies off the screen.                              *)
(***************************************************************************)
byte_shown(i) ==
  LET pixel   == i \div BYTES_PER_PIXEL
      x       == pixel % screen.stride
      y       == screen.height - 1 - pixel \div screen.stride
      channel == i % BYTES_PER_PIXEL
      color   == current.color
  IN  IF Point(x, y) \in painted /\ channel < 3
        THEN IF screen.pixel_format = "Rgb" THEN color[channel + 1] ELSE color[3 - channel]
        ELSE before[i]

PictureCorrect ==
  panicked = None /\ current # None /\ current.drawn =>
    /\ Covers(current.source)
    /\ \A i \in DOMAIN buffer : buffer[i] = byte_shown(i)

(***************************************************************************)
(* No index leaves the buffer.  The only panic is the overflow of a build  *)
(* that checks for it, on a screen too small for the coordinates of main:  *)
(* less than 200 pixels wide or 100 high.                                  *)
(***************************************************************************)
PanicsExplained ==
  panicked # None =>
    /\ panicked = "overflow" /\ checked
    /\ \/ screen.width \div 2 < QUAD_X \/ screen.width \div 2 < LINE_X
       \/ screen.height \div 2 < QUAD_Y

(***************************************************************************)
(* Every loop ends, the line's and the circle's too, which stop only when  *)
(* they meet their end: the kernel gets past the drawing.                  *)
(***************************************************************************)
DrawingEnds ==
  <>(panicked # None \/ (scene = <<>> /\ current # None /\ current.drawn))
=============================================================================
