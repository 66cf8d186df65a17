--------------------------- MODULE TiledPaneGrid ---------------------------
(***************************************************************************)
(* Where the tiled panes of a tab lie and how large they are (struct       *)
(* TiledPaneGrid, PaneResizer and the callers of both in TiledPanes):      *)
(* splitting, closing and resizing panes, and resizing the screen.         *)
(*                                                                         *)
(* Along each axis a pane has its share of the screen and its size in      *)
(* cells.  Operations change shares; a layout then derives the sizes of    *)
(* all panes from the shares and rounds them.  Shares are counted in parts *)
(* of which Whole make the screen.  Stacked panes, panes hidden behind one *)
(* in fullscreen and swap layouts are left out.                            *)
(***************************************************************************)
EXTENDS Integers, FiniteSets, Sequences, SequencesExt

CONSTANTS
    Ids,          \* ids of panes; one is left for a bar
    Screens,      \* the sizes the screen may have, [x |-> columns, y |-> rows]
    Bars,         \* whether the layout has a tab bar: the choices for Init
    Whole,        \* the parts of 100 %
    Step,         \* RESIZE_PERCENT, in parts
    MinSize,      \* MIN_TERMINAL_WIDTH and MIN_TERMINAL_HEIGHT
    Ratio,        \* DEFAULT_CURSOR_HEIGHT_WIDTH_RATIO
    MaxCloses, MaxResizes, MaxScreens,   \* bounds: how often each happens,
    MaxOperations                        \* and all together

Axes == {"x", "y"}
Sizes == [x: Nat, y: Nat]

ASSUME GridAssumption ==
    /\ IsFiniteSet(Ids) /\ Ids # {}
    /\ Screens \subseteq Sizes /\ Screens # {}
    /\ Bars \subseteq BOOLEAN /\ Bars # {}
    /\ Whole \in Nat \ {0} /\ Step \in 1..Whole
    /\ MinSize \in Nat \ {0} /\ Ratio \in Nat \ {0}
    /\ {MaxCloses, MaxResizes, MaxScreens, MaxOperations} \subseteq Nat

VARIABLES
    panes,      \* TiledPanes.panes: the geometry of every pane, by id
    area,       \* display_area: the size panes are laid out in
    view,       \* viewport: where it begins, and its size, without bars
    screen,     \* the size of the screen the tab was told last
    squeezed,   \* a layout has found no room since the screen was resized
    fatal,      \* an error of a resize has ended the screen thread
    told,       \* the pane, axis and direction of the last directed resize
    spent       \* for the bounds: closes, resizes and screens so far

vars == <<panes, area, view, screen, squeezed, fatal, told, spent>>

Geoms == [pos: Sizes, size: Sizes, share: Sizes, bar: BOOLEAN]

Other(a) == IF a = "x" THEN "y" ELSE "x"
Far(g, a) == g.pos[a] + g.size[a]
BarRows == 1
Fixed(g, a) == g.bar /\ a = "y"        \* Constraint::Fixed
Cells(size) == size.x * size.y
Total(f, S) == FoldFunctionOnSet(+, 0, f, S)
Magnitude(n) == IF n < 0 THEN -n ELSE n

-----------------------------------------------------------------------------
(* PaneResizer.  The panes that lie side by side along axis a form a row;  *)
(* there is one row for each stretch of the other axis in which no pane    *)
(* ends.                                                                   *)

Edges(ps, a) ==
    SetToSortSeq({Far(ps[i], Other(a)) : i \in DOMAIN ps}, <)

InRow(g, o, from, to) ==
    \/ from <= g.pos[o] /\ g.pos[o] < to
    \/ /\ g.pos[o] <= from /\ from < Far(g, o)
       /\ g.pos[o] <= to /\ to <= Far(g, o)

Row(ps, a, from, to) ==
    SetToSortSeq({i \in DOMAIN ps : InRow(ps[i], Other(a), from, to)},
                 LAMBDA i, j : ps[i].pos[a] < ps[j].pos[a])

Grid(ps, a) ==
    LET edges == Edges(ps, a)
    IN  [k \in DOMAIN edges |->
            Row(ps, a, IF k = 1 THEN 0 ELSE edges[k - 1], edges[k])]

(* The cells that are not a bar's, and the size a pane should have, in     *)
(* Whole-ths of a cell.                                                    *)
FlexSpace(ps, a, space) ==
    LET bars == Cardinality({i \in DOMAIN ps : Fixed(ps[i], a)}) * BarRows
    IN  IF bars > space THEN 0 ELSE space - bars

Wanted(ps, a, space) ==
    [i \in DOMAIN ps |->
        IF Fixed(ps[i], a) THEN BarRows * Whole
        ELSE ps[i].share[a] * FlexSpace(ps, a, space)]

(* The sizes of the constraint solver, cassowary.  Every row must fill the *)
(* space.  If the shares add up in every row the sizes are those wanted.   *)
(* If not, it makes the sum of the deviations least, each counted once for *)
(* every row the pane is in; which of the best solutions it takes depends  *)
(* on the order of a HashSet.  They deviate by what rows lack or by        *)
(* differences thereof, since a pane is in consecutive rows.               *)
Lacks(wanted, grid, space) ==
    [k \in DOMAIN grid |-> space * Whole - Total(wanted, ToSet(grid[k]))]

Cost(d, grid) ==
    Total([i \in DOMAIN d |->
              Magnitude(d[i]) * Cardinality({k \in DOMAIN grid : i \in ToSet(grid[k])})],
          DOMAIN d)

Cheapest(deviations, grid) ==
    {d \in deviations : \A e \in deviations : Cost(d, grid) <= Cost(e, grid)}

Deviations(elastic, grid, lacks, values) ==
    {d \in [elastic -> {m - n : m, n \in values}] :
        \A k \in DOMAIN grid : Total(d, ToSet(grid[k]) \cap elastic) = lacks[k]}

Corrected(wanted, elastic, grid, lacks, values) ==
    IF values = {0} THEN {wanted}
    ELSE {[i \in DOMAIN wanted |-> wanted[i] + IF i \in elastic THEN d[i] ELSE 0] :
          d \in Cheapest(Deviations(elastic, grid, lacks, values), grid)}

Solutions(wanted, elastic, grid, lacks) ==
    Corrected(wanted, elastic, grid, lacks, {lacks[k] : k \in DOMAIN lacks} \cup {0})

(* To two decimals, then to cells.                                         *)
StableRound(exact) ==
    LET cents == (200 * exact + Whole) \div (2 * Whole)
    IN  (cents + 50) \div 100

(* Rows in turn: what a row still lacks, or has too many, goes to those of *)
(* its panes that no earlier row has settled, a cell each, to the smallest *)
(* first, or from the largest.                                             *)
SettleRow(ps, a, space, sofar, row) ==
    LET lack == space - Total(sofar.size, ToSet(row))
        open == {i \in ToSet(row) : ~Fixed(ps[i], a) /\ i \notin sofar.settled}
        bySize == SetToSortSeq(open, LAMBDA i, j :
                    \/ sofar.size[i] < sofar.size[j]
                    \/ /\ sofar.size[i] = sofar.size[j]
                       /\ ps[i].pos[a] < ps[j].pos[a])
        inTurn == IF lack < 0 THEN Reverse(bySize) ELSE bySize
        adjusted == {inTurn[k] : k \in 1..Min({Magnitude(lack), Len(inTurn)})}
    IN  [size |-> [i \in DOMAIN ps |->
                      IF i \notin adjusted THEN sofar.size[i]
                      ELSE sofar.size[i] + IF lack < 0 THEN -1 ELSE 1],
         settled |-> sofar.settled \cup ToSet(row)]

(* mutant: rows are not settled                                            *)
DiscretizeByRounding(ps, a, space, grid, exact) ==
    [i \in DOMAIN ps |-> StableRound(exact[i])]

Discretize(ps, a, space, grid, exact) ==
    FoldLeft(LAMBDA sofar, row : SettleRow(ps, a, space, sofar, row),
             [size |-> [i \in DOMAIN ps |-> StableRound(exact[i])],
              settled |-> {}],
             grid).size

(* A pane begins where those before it in its last row end.                *)
Offset(grid, size, i) ==
    LET row == grid[Max({k \in DOMAIN grid : i \in ToSet(grid[k])})]
    IN  Total(size, {row[m] : m \in 1..(CHOOSE m \in DOMAIN row : row[m] = i) - 1})

Placed(ps, a, grid, size) ==
    [i \in DOMAIN ps |->
        [ps[i] EXCEPT !.pos[a] = Offset(grid, size, i), !.size[a] = size[i]]]

Outcome(ps, a, placed) ==
    IF \E i \in DOMAIN ps : placed[i].size[a] < 1
    THEN [panes |-> ps, end |-> "no room"]
    ELSE [panes |-> placed,
          end |-> IF \E i \in DOMAIN ps : placed[i].size # ps[i].size
                  THEN "done" ELSE "unchanged"]

Arrangements(ps, a, space, grid, wanted) ==
    {Outcome(ps, a, Placed(ps, a, grid, Discretize(ps, a, space, grid, exact))) :
     exact \in Solutions(wanted, {i \in DOMAIN ps : ~Fixed(ps[i], a)}, grid,
                         Lacks(wanted, grid, space))}

(* PaneResizer::layout: the panes after it and how it ended.               *)
Layout(ps, a, space) ==
    Arrangements(ps, a, space, Grid(ps, a), Wanted(ps, a, space))

-----------------------------------------------------------------------------
(* Neighbours.  A direction is an axis and which way along it.             *)

Directions == [axis: Axes, back: BOOLEAN]       \* back: Left and Up
Left == [axis |-> "x", back |-> TRUE]
Right == [axis |-> "x", back |-> FALSE]
Up == [axis |-> "y", back |-> TRUE]
Down == [axis |-> "y", back |-> FALSE]
Opposite(d) == [d EXCEPT !.back = ~@]

NextTo(ps, i, d) ==
    {j \in DOMAIN ps :
        IF d.back THEN Far(ps[j], d.axis) = ps[i].pos[d.axis]
        ELSE ps[j].pos[d.axis] = Far(ps[i], d.axis)}

AlignedWith(ps, i, d) ==
    {j \in DOMAIN ps \ {i} :
        IF d.back THEN ps[j].pos[d.axis] = ps[i].pos[d.axis]
        ELSE Far(ps[j], d.axis) = Far(ps[i], d.axis)}

(* The panes aligned with i, one after the other from i in direction d, as *)
(* far as the first of them that begins at one of the borders; and where   *)
(* they end.                                                               *)
Chain(ps, i, alignment, d) ==
    ToSet(FoldLeft(LAMBDA found, j :
              IF j \in NextTo(ps, Last(found), d) THEN Append(found, j) ELSE found,
              <<i>>,
              SetToSortSeq(AlignedWith(ps, i, alignment), LAMBDA j, k :
                  IF d.back THEN ps[j].pos[d.axis] > ps[k].pos[d.axis]
                  ELSE ps[j].pos[d.axis] < ps[k].pos[d.axis]))) \ {i}

ChainEnd(ps, chain, borders, d) ==
    IF d.back
    THEN Max(({Far(ps[j], d.axis) : j \in chain} \cap borders) \cup {0})
    ELSE Min(({ps[j].pos[d.axis] : j \in chain} \cap borders)
             \cup {view.pos[d.axis] + view.size[d.axis]})

Within(ps, chain, d, end) ==
    {j \in chain : IF d.back THEN ps[j].pos[d.axis] >= end
                   ELSE Far(ps[j], d.axis) <= end}

Delimited(ps, i, d, kept, end) ==
    [panes |-> kept,
     border |-> CASE kept # {} -> end
                  [] kept = {} /\ d.back -> ps[i].pos[d.axis]
                  [] kept = {} /\ ~d.back -> Far(ps[i], d.axis)]

ContiguousTo(ps, i, chain, d, end) == Delimited(ps, i, d, Within(ps, chain, d, end), end)

ContiguousIn(ps, i, chain, borders, d) ==
    ContiguousTo(ps, i, chain, d, ChainEnd(ps, chain, borders, d))

Contiguous(ps, i, borders, alignment, d) ==
    ContiguousIn(ps, i, Chain(ps, i, alignment, d), borders, d)

(* The panes that move together when the border of i in direction d does:  *)
(* those on its side, with i, and those on the other.                      *)
Between(ps, i, o, next, before, behind) ==
    [here |-> {i} \cup before.panes \cup behind.panes,
     there |-> {j \in next : /\ ps[j].pos[o] >= before.border
                             /\ Far(ps[j], o) <= behind.border}]

BordersMet(ps, i, d, o, next, borders) ==
    Between(ps, i, o, next,
            Contiguous(ps, i, borders, d, [axis |-> o, back |-> TRUE]),
            Contiguous(ps, i, borders, d, [axis |-> o, back |-> FALSE]))

BorderPanesNextTo(ps, i, d, o, next) ==
    BordersMet(ps, i, d, o, next, {ps[j].pos[o] : j \in next})

BorderPanes(ps, i, d) == BorderPanesNextTo(ps, i, d, Other(d.axis), NextTo(ps, i, d))

CanReduce(g, a, by) ==
    /\ ~Fixed(g, a)
    /\ g.size[a] - (area[a] * by) \div Whole >= MinSize
    /\ g.share[a] - by >= Step

GivesWay(ps, i, grow, a, by, there) ==
    /\ ~Fixed(ps[i], a)
    /\ there # {} /\ \A j \in there : ~Fixed(ps[j], a)
    /\ \A j \in IF grow THEN there ELSE {i} : CanReduce(ps[j], a, by)

CanChange(ps, i, grow, d, by) ==
    GivesWay(ps, i, grow, d.axis, by, BorderPanes(ps, i, d).there)

-----------------------------------------------------------------------------
(* change_pane_size.                                                       *)

Grown(g, a, by) == IF Fixed(g, a) THEN g ELSE [g EXCEPT !.share[a] = @ + by]
Reduced(g, a, by) ==
    IF CanReduce(g, a, by) THEN [g EXCEPT !.share[a] = @ - by] ELSE g

Shared(ps, a, by, growing, shrinking) ==
    [j \in DOMAIN ps |->
        CASE j \in growing -> Grown(ps[j], a, by)
          [] j \in shrinking -> Reduced(ps[j], a, by)
          [] OTHER -> ps[j]]

MoveBorderOf(ps, grow, a, by, border) ==
    Layout(Shared(ps, a, by, IF grow THEN border.here ELSE border.there,
                             IF grow THEN border.there ELSE border.here),
           a, area[a])

MoveBorder(ps, i, grow, d, by) ==
    MoveBorderOf(ps, grow, d.axis, by, BorderPanes(ps, i, d))

(* mutant: a pane gives way on the other side whenever it can              *)
GrowthAllowedInverting(ps, i, grow, d, invert, by) ==
    IF grow /\ invert /\ CanChange(ps, i, FALSE, Opposite(d), by) THEN {FALSE}
    ELSE IF CanChange(ps, i, grow, d, by) THEN {grow}
    ELSE {}

(* A pane at the edge of the screen that should grow towards it gives way  *)
(* on its other side, if inversion is allowed: whether it grows.           *)
GrowthAllowed(ps, i, grow, d, invert, by) ==
    IF CanChange(ps, i, grow, d, by) THEN {grow}
    ELSE IF grow /\ invert /\ CanChange(ps, i, FALSE, Opposite(d), by) THEN {FALSE}
    ELSE {}

ChangeAsAllowed(ps, i, grow, d, by, allowed) ==
    IF allowed = {} THEN {[panes |-> ps, end |-> "cannot"]}
    ELSE UNION {MoveBorder(ps, i, g, IF g = grow THEN d ELSE Opposite(d), by) : g \in allowed}

ChangeDirected(ps, i, grow, d, invert, by) ==
    ChangeAsAllowed(ps, i, grow, d, by, GrowthAllowed(ps, i, grow, d, invert, by))

(* The pane that touches i only at a corner.                               *)
Corner(ps, i, side, level) ==
    {j \in NextTo(ps, i, level) :
        /\ ps[j].pos.y >= view.pos.y
        /\ Far(ps[j], "y") <= view.pos.y + view.size.y
        /\ IF side = Right THEN Far(ps[i], "x") = ps[j].pos.x
           ELSE ps[i].pos.x = Far(ps[j], "x")}

Sideways == <<<<Right, Down>>, <<Left, Down>>, <<Right, Up>>, <<Left, Up>>>>

(* Changes of several panes; each is [pane, grow, towards].                *)
Try(results, goOn, change, by) ==
    UNION {IF r.end \notin goOn THEN {r}
           ELSE ChangeDirected(r.panes, change.pane, change.grow, change.towards, FALSE, by) :
           r \in results}

InTurn(ps, changes, goOn, first, by) ==
    FoldLeft(LAMBDA results, change : Try(results, goOn, change, by),
             {[panes |-> ps, end |-> first]}, changes)

Towards(i, grow, d) == [pane |-> i, grow |-> grow, towards |-> d]

AtCorner(i, grow, side, level, corner) ==
    <<Towards(i, grow, side), Towards(i, grow, level)>>
        \o SetToSeq({Towards(j, ~grow, Opposite(side)) : j \in corner})

(* Without a direction: towards the first corner where both borders can    *)
(* move, else the first border that can.                                   *)
UndirectedChanges(ps, i, grow, fits) ==
    IF fits # {}
    THEN AtCorner(i, grow, Sideways[Min(fits)][1], Sideways[Min(fits)][2],
                  Corner(ps, i, Sideways[Min(fits)][1], Sideways[Min(fits)][2]))
    ELSE <<Towards(i, grow, Right), Towards(i, grow, Down),
           Towards(i, grow, Left), Towards(i, grow, Up)>>

Unless(results, end) ==
    {IF r.end = end THEN r ELSE [r EXCEPT !.end = "cannot"] : r \in results}

ChangeWhereItFits(ps, i, grow, by, fits) ==
    IF fits # {}
    THEN InTurn(ps, UndirectedChanges(ps, i, grow, fits), {"done"}, "done", by)
    ELSE Unless(InTurn(ps, UndirectedChanges(ps, i, grow, fits),
                       {"cannot", "unchanged", "no room"}, "cannot", by), "done")

ChangeUndirected(ps, i, grow, by) ==
    ChangeWhereItFits(ps, i, grow, by,
        {k \in DOMAIN Sideways :
            \A d \in ToSet(Sideways[k]) : CanChange(ps, i, grow, d, by)})

Undirected == [axis |-> "none", back |-> FALSE]

Change(ps, i, grow, d, by) ==
    IF d = Undirected THEN ChangeUndirected(ps, i, grow, by)
    ELSE ChangeDirected(ps, i, grow, d, TRUE, by)

-----------------------------------------------------------------------------
(* Splitting and closing.                                                  *)

(* tiled_pane_grid::split: both halves have half of the share; their size  *)
(* waits for the layout.                                                   *)
Halves(ps, i, new, a) ==
    LET half == [ps[i] EXCEPT !.share[a] = @ \div 2, !.size[a] = 1]
    IN  [j \in DOMAIN ps \cup {new} |->
            CASE j = i -> half
              [] j = new -> [half EXCEPT !.pos[a] = @ + 1]
              [] OTHER -> ps[j]]

Shells == {i \in DOMAIN panes : ~panes[i].bar}

(* find_room_for_new_pane: a largest pane that can be split, and how.      *)
Splittable(g) ==
    /\ \A a \in Axes : g.size[a] >= MinSize
    /\ \E a \in Axes : g.size[a] > 2 * MinSize
Weight(g) == g.size.y * Ratio * g.size.x
RoomForNewPane ==
    LET room == {i \in Shells : Splittable(panes[i])}
    IN  {i \in room : \A j \in room : Weight(panes[j]) <= Weight(panes[i])}
AxisForNewPane(g) ==
    IF g.size.y * Ratio > g.size.x /\ g.size.y > 2 * MinSize THEN "y" ELSE "x"

(* find_panes_to_grow: on the first side where the borders of neighbours   *)
(* meet those of the pane.                                                 *)
Fillers(ps, i, d) ==
    LET o == Other(d.axis)
        next == {j \in NextTo(ps, i, d) : ~ps[j].bar}
        borders == {ps[j].pos[o] : j \in next} \cup {Far(ps[j], o) : j \in next}
    IN  IF {ps[i].pos[o], Far(ps[i], o)} \subseteq borders
        THEN {j \in next : /\ ps[j].pos[o] >= ps[i].pos[o]
                           /\ Far(ps[j], o) <= Far(ps[i], o)}
        ELSE {}
FillSides(ps, i) == SelectSeq(<<Left, Right, Up, Down>>,
                              LAMBDA d : Fillers(ps, i, d) # {})

FillSpaceOver(ps, i) ==
    LET sides == FillSides(ps, i)
        a == Head(sides).axis
        growing == Fillers(ps, i, Head(sides))
        rest == [j \in DOMAIN ps \ {i} |->
                    IF j \in growing THEN Grown(ps[j], a, ps[i].share[a])
                    ELSE ps[j]]
    IN  IF sides = <<>>
        THEN {[panes |-> [j \in DOMAIN ps \ {i} |-> ps[j]], end |-> "nobody"]}
        ELSE Layout(rest, a, area[a])

-----------------------------------------------------------------------------
(* Init and the operations.                                                *)

Spend(kind, limit) ==
    /\ spent[kind] < limit
    /\ spent.closes + spent.resizes + spent.screens < MaxOperations
    /\ spent' = [spent EXCEPT ![kind] = @ + 1]

Init ==
    \E bar \in Bars, size \in Screens, i, j \in Ids :
        LET top == IF bar THEN BarRows ELSE 0
            all == [x |-> Whole, y |-> Whole]
            shell == [pos |-> [x |-> 0, y |-> top],
                      size |-> [size EXCEPT !.y = @ - top],
                      share |-> all, bar |-> FALSE]
            strip == [pos |-> [x |-> 0, y |-> 0],
                      size |-> [size EXCEPT !.y = top],
                      share |-> all, bar |-> TRUE]
        IN  /\ i # j
            /\ size.x >= MinSize /\ size.y >= MinSize + top
            /\ panes = [k \in IF bar THEN {i, j} ELSE {i} |->
                            IF k = i THEN shell ELSE strip]
            /\ area = size /\ screen = size
            /\ view = [pos |-> shell.pos, size |-> shell.size]
            /\ squeezed = FALSE /\ fatal = FALSE /\ told = <<>>
            /\ spent = [closes |-> 0, resizes |-> 0, screens |-> 0]

Split(i, new, a) ==
    /\ panes[i].share[a] % 2 = 0         \* a bound: parts are not divided
    /\ \E r \in Layout(Halves(panes, i, new, a), a, area[a]) :
        /\ panes' = r.panes
        /\ squeezed' = (squeezed \/ r.end = "no room")
    /\ told' = <<>>
    /\ UNCHANGED <<area, view, screen, fatal, spent>>

(* Tab::horizontal_split and vertical_split, of any active pane.           *)
SplitActivePane(new) ==
    /\ ~fatal
    /\ \E i \in Shells, a \in Axes :
        panes[i].size[a] >= 2 * MinSize /\ Split(i, new, a)

(* Tab::new_pane, when there is room.                                      *)
NewPane(new) ==
    /\ ~fatal
    /\ \E i \in RoomForNewPane : Split(i, new, AxisForNewPane(panes[i]))

(* Tab::close_pane; the last one takes the tab with it.                    *)
ClosePane(i) ==
    /\ ~fatal /\ Shells # {i}
    /\ Spend("closes", MaxCloses)
    /\ \E r \in FillSpaceOver(panes, i) :
        /\ panes' = r.panes
        /\ squeezed' = (squeezed \/ r.end = "no room")
    /\ told' = <<>>
    /\ UNCHANGED <<area, view, screen, fatal>>

(* resize_active_pane: once more, and twice as far, if no size changed.    *)
(* Tab::resize takes an error other than fixed panes as fatal.             *)
ResizePane(i, grow, d) ==
    /\ ~fatal
    /\ Spend("resizes", MaxResizes)
    /\ \E r \in FoldLeft(LAMBDA results, by :
                          UNION {IF q.end # "unchanged" THEN {q}
                                 ELSE Change(q.panes, i, grow, d, by) : q \in results},
                        {[panes |-> panes, end |-> "unchanged"]}, <<Step, 2 * Step>>) :
        /\ panes' = r.panes
        /\ fatal' = (r.end = "no room")
    /\ told' = IF /\ d # Undirected
                  /\ \A by \in {Step, 2 * Step} : CanChange(panes, i, grow, d, by)
               THEN <<i, d.axis, grow>> ELSE <<>>
    /\ UNCHANGED <<area, view, screen, squeezed>>

(* mutant: the viewport follows the screen, the display area only if there *)
(* is room                                                                 *)
ResizeScreenKeepingArea(size) ==
    /\ ~fatal /\ size # screen
    /\ Spend("screens", MaxScreens)
    /\ \E r \in Layout(panes, "x", size.x) :
        \E s \in Layout(r.panes, "y", size.y) :
            LET end == [x |-> r.end, y |-> s.end]
            IN  /\ panes' = s.panes
                /\ area' = [a \in Axes |->
                        IF end[a] = "done" THEN size[a] ELSE area[a]]
                /\ view' = [view EXCEPT !.size = [a \in Axes |->
                        @[a] + size[a] - area[a]]]
                /\ squeezed' = ("no room" \in {r.end, s.end})
    /\ screen' = size
    /\ told' = <<>>
    /\ UNCHANGED fatal

(* TiledPanes::resize: columns, then rows.                                 *)
ResizeScreen(size) ==
    /\ ~fatal /\ size # screen
    /\ Spend("screens", MaxScreens)
    /\ \E r \in Layout(panes, "x", size.x) :
        \E s \in Layout(r.panes, "y", size.y) :
            LET end == [x |-> r.end, y |-> s.end]
            IN  /\ panes' = s.panes
                /\ area' = [a \in Axes |->
                        IF end[a] = "unchanged" THEN area[a] ELSE size[a]]
                /\ view' = [view EXCEPT !.size = [a \in Axes |->
                        IF end[a] = "done" THEN @[a] + size[a] - area[a] ELSE @[a]]]
                /\ squeezed' = ("no room" \in {r.end, s.end})
    /\ screen' = size
    /\ told' = <<>>
    /\ UNCHANGED fatal

Next ==
    \/ \E new \in Ids \ DOMAIN panes : SplitActivePane(new) \/ NewPane(new)
    \/ \E i \in Shells : ClosePane(i)
    \/ \E i \in Shells, grow \in BOOLEAN, d \in Directions \cup {Undirected} :
            ResizePane(i, grow, d)
    \/ \E size \in Screens : ResizeScreen(size)

Spec == Init /\ [][Next]_vars

-----------------------------------------------------------------------------
(* The shape of the state: sizes are natural numbers.                      *)
TypeOK ==
    /\ DOMAIN panes \subseteq Ids
    /\ \A i \in DOMAIN panes : panes[i] \in Geoms
    /\ area \in Sizes /\ screen \in Screens
    /\ view.pos \in Sizes /\ view.size \in Sizes
    /\ squeezed \in BOOLEAN /\ fatal \in BOOLEAN

Disjoint(g, h) ==
    \E a \in Axes : Far(g, a) <= h.pos[a] \/ Far(h, a) <= g.pos[a]

Tiles(ps, size) ==
    /\ \A i \in DOMAIN ps : \A a \in Axes :
            ps[i].size[a] > 0 /\ Far(ps[i], a) <= size[a]
    /\ \A i, j \in DOMAIN ps : i # j => Disjoint(ps[i], ps[j])
    /\ Total([i \in DOMAIN ps |-> Cells(ps[i].size)], DOMAIN ps) = Cells(size)

(* The shares of a row add up to the whole.                                *)
SharesAddUp ==
    \A a \in Axes : LET grid == Grid(panes, a) IN
        \A k \in DOMAIN grid :
            Total([i \in DOMAIN panes |->
                      IF Fixed(panes[i], a) THEN 0 ELSE panes[i].share[a]],
                  ToSet(grid[k])) = Whole

(* While the panes have room and are laid out for the screen as it is,     *)
(* sizes are rounded "without gaps or overlap" (pane_resizer.rs:92): every *)
(* cell of the screen belongs to one pane.  And unless resizing has made   *)
(* shares that do not add up, resizing a pane does not end the server.     *)
PanesTile ==
    ~squeezed /\ area = screen =>
        /\ Tiles(panes, screen)
        /\ fatal => ~SharesAddUp

(* A pane that is made larger or smaller on a side where this is possible  *)
(* does not get smaller or larger instead, while shares add up.            *)
ResizeObeys ==
    [][~squeezed /\ area = screen /\ SharesAddUp => \A i \in Ids, a \in Axes :
        /\ told' = <<i, a, TRUE>> => panes'[i].size[a] >= panes[i].size[a]
        /\ told' = <<i, a, FALSE>> => panes'[i].size[a] <= panes[i].size[a]]_vars

=============================================================================
