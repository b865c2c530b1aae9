------------------------ MODULE MCFramebufferWriter ------------------------
(***************************************************************************)
(* Small screens, with and without padding behind the rows, on which the   *)
(* picture of main is drawn at a scale of about 1 : 50; and on one screen  *)
(* every line, disk and circle that starts on or next to it.               *)
(***************************************************************************)
EXTENDS FramebufferWriter

CONSTANTS Widths, Heights, Paddings, Radii

Screen(w, h, pad, format) ==
  [width |-> w, height |-> h, stride |-> w + pad, byte_len |-> (w + pad) * h * BYTES_PER_PIXEL + pad,
   pixel_format |-> format]

SomeScreens ==
  {Screen(w, h, pad, f) : w \in Widths, h \in Heights, pad \in Paddings, f \in {"Rgb", "Bgr"}}

Ink == <<7, 8, 9>>

Corners == {Point(x, y) : x \in {0, 2, 5}, y \in {0, 1, 4}}

SomeScenes ==
  {<<Line(Point(2, 1), Point(x, y), Ink)>> : x \in 0 .. 6, y \in 0 .. 5}
    \cup {<<Line(Point(5, 4), Point(x, y), Ink)>> : x \in 0 .. 6, y \in 0 .. 5}
    \cup {<<Disk(a, r, Ink)>> : a \in Corners, r \in Radii}
    \cup {<<Circle(a, r, Ink)>> : a \in Corners, r \in Radii}
    \cup {<<Blank(Point(1, 1), Ink), Quad(Point(1, 0), Point(1, 3), Ink)>>}
=============================================================================
