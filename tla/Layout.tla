------------------------------- MODULE Layout -------------------------------
(***************************************************************************)
(* The geometry of one workspace: the tiles of core/src/lib.rs, the rect   *)
(* of a floating window, the commands that change them, and the window a   *)
(* directional focus command picks (policy.rs).                            *)
(*                                                                         *)
(* Lengths are integers, as in the code; the master ratio, a float there,  *)
(* is a percentage.                                                        *)
(***************************************************************************)
EXTENDS Integers, Sequences

CONSTANTS
    Widths, Heights,    \* usable sizes of the output (sets of integers)
    Gaps,               \* gap plus border
    Ratios,             \* master ratios, in percent
    MaxTiles,           \* bound: tiled windows
    FloatRects          \* rects a grab or an X11 client asks for

ASSUME LayoutAssumption ==
    /\ Widths \subseteq Int /\ Heights \subseteq Int
    /\ Gaps \subseteq Nat /\ MaxTiles \in Nat
    /\ Ratios \subseteq 10 .. 90
    /\ FloatRects \subseteq [x : Int, y : Int, w : Int, h : Int]

VARIABLES
    area,               \* output minus the exclusive zones of its layers
    tiles,              \* number of tiled windows
    gap,
    ratio,              \* layout.master_ratio
    monocle,            \* layout.mode
    float               \* Managed.floating_rect of the floating window

layoutVars == <<area, tiles, gap, ratio, monocle, float>>

-----------------------------------------------------------------------------
Lesser(a, b) == IF a < b THEN a ELSE b
Greater(a, b) == IF a > b THEN a ELSE b

\* i32::clamp, which panics unless lo <= hi.
Clamped(v, lo, hi) == IF v < lo THEN lo ELSE IF v > hi THEN hi ELSE v

Rect == [x : Int, y : Int, w : Int, h : Int]
None == [x |-> 0, y |-> 0, w |-> -1, h |-> -1]

-----------------------------------------------------------------------------
(* Operators named Mut... are slips of the definition below them that the  *)
(* properties must catch; no specification uses them.                      *)

\* floating_rect: the saved rect, or half of the area in its middle, cut to
\* the area.
FloatWidth(a, saved) ==
    Clamped(IF saved = None THEN Greater(a.w, 1) \div 2 ELSE saved.w, 1, Greater(a.w, 1))
FloatHeight(a, saved) ==
    Clamped(IF saved = None THEN Greater(a.h, 1) \div 2 ELSE saved.h, 1, Greater(a.h, 1))
MutFloatX(a, saved) ==
    Clamped(IF saved = None THEN a.x + (Greater(a.w, 1) - FloatWidth(a, saved)) \div 2
            ELSE saved.x,
            a.x, a.x + Greater(a.w, 1))
FloatX(a, saved) ==
    Clamped(IF saved = None THEN a.x + (Greater(a.w, 1) - FloatWidth(a, saved)) \div 2
            ELSE saved.x,
            a.x, a.x + Greater(a.w, 1) - FloatWidth(a, saved))
FloatY(a, saved) ==
    Clamped(IF saved = None THEN a.y + (Greater(a.h, 1) - FloatHeight(a, saved)) \div 2
            ELSE saved.y,
            a.y, a.y + Greater(a.h, 1) - FloatHeight(a, saved))
FloatingRect(a, saved) ==
    [x |-> FloatX(a, saved), y |-> FloatY(a, saved),
     w |-> FloatWidth(a, saved), h |-> FloatHeight(a, saved)]

-----------------------------------------------------------------------------
(* tile.                                                                   *)

\* The outer gap gives way before the windows do.
OuterGap(a, n, g, single) ==
    LET fits == Lesser(g, Greater(Lesser(a.w, a.h) - 1, 0) \div 2) IN
    IF n > 1 /\ ~single /\ n - 1 <= Greater(a.h, 0) /\ a.w >= 2
    THEN Lesser(Lesser(fits, (a.h - (n - 1)) \div 2), (a.w - 2) \div 2)
    ELSE fits

Inner(a, g) == [x |-> a.x + g, y |-> a.y + g,
                w |-> Greater(a.w - 2 * g, 1), h |-> Greater(a.h - 2 * g, 1)]

SplitGap(i, g) == Lesser(g, Greater(i.w - 2, 0))
Available(i, g) == Greater(i.w - SplitGap(i, g), 2)
MasterWidth(i, g, r) ==
    Clamped((2 * Available(i, g) * r + 100) \div 200, 1, Available(i, g) - 1)

MutStackGap(i, g, m) == g
StackGap(i, g, m) == Lesser(g, Greater((i.h - m) \div Greater(m - 1, 1), 0))

\* One column of m cells; the first ones take the remainder.
Usable(i, g, m) == Greater(i.h - StackGap(i, g, m) * (m - 1), m)
CellHeight(i, g, m, k) ==
    Usable(i, g, m) \div m + (IF k <= Usable(i, g, m) % m THEN 1 ELSE 0)
CellTop(i, g, m) ==
    LET top[k \in 1 .. m] == IF k = 1 THEN i.y
                             ELSE top[k - 1] + CellHeight(i, g, m, k - 1) + StackGap(i, g, m)
    IN top

Stack(i, g, m, r) ==
    [k \in 1 .. m |->
        [x |-> i.x + MasterWidth(i, g, r) + SplitGap(i, g),
         y |-> CellTop(i, g, m)[k],
         w |-> Greater(i.w - MasterWidth(i, g, r) - SplitGap(i, g), 1),
         h |-> CellHeight(i, g, m, k)]]

\* All windows share one rect in monocle, alone, or when there is no room.
Shared(i, n, single) == n = 1 \/ single \/ i.w < 2 \/ n - 1 > i.h

Tile(a, n, g, r, single) ==
    LET outer == OuterGap(a, n, g, single)
        i == Inner(a, outer)
    IN  IF n = 0 THEN <<>>
        ELSE IF Shared(i, n, single) THEN [k \in 1 .. n |-> i]
        ELSE <<[i EXCEPT !.w = MasterWidth(i, outer, r)]>> \o Stack(i, outer, n - 1, r)

-----------------------------------------------------------------------------
(* The focus command with a direction: the tile whose centre is nearest    *)
(* among those on that side; the first in the window list of equal ones.   *)

Middle(q) == <<q.x + q.w \div 2, q.y + q.h \div 2>>
Directions == {"left", "right", "up", "down"}
OnSide(d, dx, dy) == CASE d = "left" -> dx < 0 [] d = "right" -> dx > 0
                       [] d = "up" -> dy < 0 [] d = "down" -> dy > 0
Far(rects, j, k) ==
    LET dx == Middle(rects[j])[1] - Middle(rects[k])[1]
        dy == Middle(rects[j])[2] - Middle(rects[k])[2]
    IN  dx * dx + dy * dy
MutNearest(rects, k, side) ==
    CHOOSE j \in side : \A l \in side : Far(rects, j, k) >= Far(rects, l, k)
Nearest(rects, k, side) ==
    CHOOSE j \in side : \A l \in side :
        \/ Far(rects, j, k) < Far(rects, l, k)
        \/ Far(rects, j, k) = Far(rects, l, k) /\ j <= l

FocusTarget(rects, k, d) ==
    LET dx(j) == Middle(rects[j])[1] - Middle(rects[k])[1]
        dy(j) == Middle(rects[j])[2] - Middle(rects[k])[2]
        side == {j \in DOMAIN rects : j # k /\ OnSide(d, dx(j), dy(j))}
    IN  IF side = {} THEN k ELSE Nearest(rects, k, side)

-----------------------------------------------------------------------------
Tiles == Tile(area, tiles, gap, ratio, monocle)

LayoutTypeOK ==
    /\ area \in Rect /\ tiles \in 0 .. MaxTiles /\ gap \in Gaps
    /\ ratio \in 10 .. 90 /\ monocle \in BOOLEAN
    /\ float \in Rect

LayoutInit ==
    /\ area \in {[x |-> 0, y |-> 3, w |-> w, h |-> h] : w \in Widths, h \in Heights}
    /\ tiles = 0
    /\ gap \in Gaps
    /\ ratio = 55
    /\ monocle = FALSE
    /\ float = FloatingRect(area, None)

\* Windows are mapped, tiled again, closed or floated.
TileWindow(n) ==
    /\ tiles' = n /\ n \in {tiles - 1, tiles + 1} /\ n \in 0 .. MaxTiles
    /\ UNCHANGED <<area, gap, ratio, monocle, float>>

\* The layout and ratio commands, the latter with its clamp.
SetLayout ==
    /\ monocle' = ~monocle
    /\ UNCHANGED <<area, tiles, gap, ratio, float>>
SetRatio(r) ==
    /\ ratio' = Clamped(r, 10, 90)
    /\ UNCHANGED <<area, tiles, gap, monocle, float>>

\* A reload changes the gap, a layer surface or a mode the usable area; the
\* floating window is fitted again at the end of the turn.
Reconfigure(w, h, g) ==
    /\ area' = [area EXCEPT !.w = w, !.h = h]
    /\ gap' = g
    /\ float' = FloatingRect(area', float)
    /\ UNCHANGED <<tiles, ratio, monocle>>

\* A move or resize grab (remember_move, remember_resize), or the configure
\* request of an X11 window, saves any rect; the turn ends with fitting it.
Grab(q) ==
    /\ float' = FloatingRect(area, q)
    /\ UNCHANGED <<area, tiles, gap, ratio, monocle>>

LayoutNext ==
    \/ \E n \in 0 .. MaxTiles : TileWindow(n)
    \/ SetLayout
    \/ \E r \in Ratios : SetRatio(r)
    \/ \E w \in Widths, h \in Heights, g \in Gaps : Reconfigure(w, h, g)
    \/ \E q \in FloatRects : Grab(q)

LayoutSpec == LayoutInit /\ [][LayoutNext]_layoutVars

-----------------------------------------------------------------------------
(* Properties.                                                             *)

Inside(q, a) ==
    /\ q.w >= 1 /\ q.h >= 1
    /\ a.x <= q.x /\ q.x + q.w <= a.x + Greater(a.w, 1)
    /\ a.y <= q.y /\ q.y + q.h <= a.y + Greater(a.h, 1)
Apart(p, q) == \/ p.x + p.w <= q.x \/ q.x + q.w <= p.x
               \/ p.y + p.h <= q.y \/ q.y + q.h <= p.y

\* However a floating window was moved, resized or left behind by a change of
\* the output, it ends up within the usable area with at least one pixel
\* (floating_rect).
FloatInside == Inside(float, area)

\* Every tile has a pixel and lies in the area, and two tiles do not overlap
\* unless there is no room for them or the layout is monocle (tile).
TilesFit ==
    /\ \A k \in 1 .. tiles : Inside(Tiles[k], area)
    /\ (~monocle /\ area.w >= 2 /\ tiles - 1 <= area.h)
            => \A j, k \in 1 .. tiles : j # k => Apart(Tiles[j], Tiles[k])

\* Every tile can be focused from every other one with the four directions,
\* unless the tiles share one rect (focus, move).
Step(rects, S) == S \cup {FocusTarget(rects, k, d) : k \in S, d \in Directions}
FocusReaches ==
    LET rects == Tiles
        reach[n \in 0 .. MaxTiles] == [k \in 1 .. tiles |->
            IF n = 0 THEN {k} ELSE Step(rects, reach[n - 1][k])]
    IN  (~monocle /\ area.w >= 4 /\ area.h >= 2 * tiles)
            => \A k \in 1 .. tiles : reach[MaxTiles][k] = 1 .. tiles
=============================================================================
