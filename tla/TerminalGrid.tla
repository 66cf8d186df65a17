---------------------------- MODULE TerminalGrid ----------------------------
(***************************************************************************)
(* The screen of one terminal pane: the grid (panes/grid.rs), which keeps   *)
(* the rows the program wrote in a viewport, the rows scrolled out of it    *)
(* above and below, and the main screen while the alternate one is shown;   *)
(* the resizing and scrolling of its pane (panes/terminal_pane.rs,          *)
(* panes/search.rs); and the output that waits while the user is scrolled   *)
(* back (tab/mod.rs).                                                       *)
(*                                                                          *)
(* A row is a sequence of cells and a mark: it is canonical if it begins a  *)
(* line, else it goes on where the row before it was full.  A cell is blank *)
(* or what the n-th print wrote; all characters are one column wide.  Rows  *)
(* and columns count from 0 as in the code, sequences from 1.               *)
(*                                                                          *)
(* The methods of Grid are operators from grids to grids here.  A panic of  *)
(* one of them (an unwrap of a row that is not there) is the mark `broken'. *)
(***************************************************************************)
EXTENDS Integers, FiniteSets, SequencesExt

CONSTANTS
    Sizes,         \* the sizes the pane may get, <<rows, columns>>
    InitSize,      \* the size it is created with
    Buffer,        \* SCROLL_BUFFER_SIZE
    MaxPending,    \* MAX_PENDING_VTE_EVENTS
    Sessions,      \* [writes, scrolls]: what a program may write, besides
                   \* characters, and how the user of its pane may scroll
    MaxPrints,     \* bound: characters the program writes
    MaxOperations, \* bound: other things it writes
    MaxResizes,    \* bound: new sizes
    MaxScrolls     \* bound: scrolls

ASSUME SizesAssumption ==
    /\ Sizes \subseteq (Nat \ {0}) \X (Nat \ {0})
    /\ InitSize \in Sizes
ASSUME BoundsAssumption ==
    /\ Buffer \in Nat \ {0} /\ MaxPending \in Nat \ {0}
    /\ {MaxPrints, MaxOperations, MaxResizes, MaxScrolls} \subseteq Nat

VARIABLES
    session,   \* one of Sessions, for good
    grid,      \* the Grid
    asked,     \* the size of the pane
    events,    \* Tab.pending_vte_events of the pane
    printed,   \* the characters written so far
    handled,   \* the last event the grid was given (history)
    left       \* what is left of the bounds

vars == <<session, grid, asked, events, printed, handled, left>>

-----------------------------------------------------------------------------
(* Rows *)

Blank     == 0
Copies(x, n) == [i \in 1 .. Max({0, n}) |-> x]
Blanks(n) == Copies(Blank, n)

Row(cells, canonical) == [cells |-> cells, canonical |-> canonical]
Wrap    == Row(<<>>, FALSE)
NewLine == Row(<<>>, TRUE)

Cut(s, n)  == SubSeq(s, 1, n)
Rest(s, n) == SubSeq(s, n + 1, Len(s))

(* Row::from_rows                                                           *)
Joined(rows) ==
    IF rows = <<>> THEN Wrap
    ELSE Row(FlattenSeq([i \in DOMAIN rows |-> rows[i].cells]), rows[1].canonical)

(* calculate_row_display_height                                             *)
Height(row, width) == Max({1, (Len(row.cells) + width - 1) \div width})

(* split_to_rows_of_length                                                  *)
Split(row, width) ==
    [i \in 1 .. Height(row, width) |->
        Row(SubSeq(row.cells, (i - 1) * width + 1, Min({i * width, Len(row.cells)})),
            i = 1 /\ row.canonical)]

SplitAll(rows, width) == FlattenSeq([i \in DOMAIN rows |-> Split(rows[i], width)])

Heights(rows, width) == FoldLeft(LAMBDA n, row : n + Height(row, width), 0, rows)

Trim(cells) == Cut(cells, Max({0} \cup {i \in DOMAIN cells : cells[i] # Blank}))

(* get_top_non_canonical_rows: how many                                     *)
Wraps(rows) == Cardinality({i \in DOMAIN rows : \A j \in 1 .. i : ~rows[j].canonical})

(* get_lines_above_bottom_canonical_row_and_wraps: how many rows it leaves  *)
BeforeLastLine(rows) == Max({1} \cup {i \in DOMAIN rows : rows[i].canonical}) - 1

(* get_top_canonical_row_and_wraps, of rows that begin with a canonical one *)
FirstLine(rows) == 1 + Wraps(Tail(rows))

-----------------------------------------------------------------------------
(* Moving rows between the viewport and the rows above and below it *)

(* mutant: one row too many stays                                          *)
BoundedPushOffByOne(above, row) ==
    Append(IF Len(above) > Buffer THEN Tail(above) ELSE above, row)

(* bounded_push                                                             *)
BoundedPush(above, row) ==
    Append(IF Len(above) >= Buffer THEN Tail(above) ELSE above, row)

Dropped(above, width) ==
    IF Len(above) >= Buffer THEN Height(above[1], width) ELSE 0

(* The last rows of the lines, as many as needed, and what is left of them  *)
LastRows(lines, needed, width) ==
    LET From(i) == Heights(Rest(lines, i - 1), width)
        part(p) == IF p = 0 \/ needed = From(p + 1) THEN Cut(lines, p)
                   ELSE Append(Cut(lines, p - 1),
                               Row(Cut(lines[p].cells, (From(p) - needed) * width),
                                   lines[p].canonical))
    IN  [left |-> part(Max({0} \cup {i \in DOMAIN lines : From(i) > needed})),
         rows |-> Rest(SplitAll(lines, width), From(1) - needed)]

(* transfer_rows_from_lines_above_to_viewport: `count' rows more, split     *)
(* anew where a line above goes on in the viewport.                         *)
PullDownPast(s, count, wraps, width) ==
    LET lines  == [s.above EXCEPT ![Len(s.above)] = Joined(<<@>> \o Cut(s.viewport, wraps))]
        needed == Min({count + wraps, Heights(lines, width)})
        Pulled(last) == [above    |-> last.left,
                         viewport |-> last.rows \o Rest(s.viewport, wraps),
                         moved    |-> Max({0, Len(last.rows) - wraps})]
    IN  Pulled(LastRows(lines, needed, width))

PullDown(s, count, width) ==
    IF count = 0 \/ s.above = <<>> THEN s @@ [moved |-> 0]
    ELSE PullDownPast(s, count, Wraps(s.viewport), width)

(* transfer_rows_from_viewport_to_lines_above: one row, which joins the     *)
(* line it goes on, the rows of `above' after the first `keep'              *)
PushRowAfter(s, keep, width) ==
    LET row   == s.viewport[1]
        above == Cut(s.above, keep)
    IN  [above    |-> BoundedPush(above, Joined(Rest(s.above, keep) \o <<row>>)),
         viewport |-> Tail(s.viewport),
         moved    |-> s.moved + Height(row, width) - Dropped(above, width)]

PushRowUp(s, width) ==
    PushRowAfter(s, IF s.viewport[1].canonical THEN Len(s.above) ELSE BeforeLastLine(s.above),
                 width)

Times(n) == [i \in 1 .. n |-> i]

PushUp(s, count, width) ==
    FoldLeft(LAMBDA acc, i : PushRowUp(acc, width), s @@ [moved |-> 0],
             Times(Min({count, Len(s.viewport)})))

(* `more' rows for the viewport, or as many fewer                           *)
Fill(s, more, width) ==
    IF more >= 0 THEN PullDown(s, more, width) ELSE PushUp(s, -more, width)

(* mutant: the rest of the line is lost                                    *)
PullUpRowsLosing(s, keep, taken, width) ==
    LET Shown(n) == Min({n, Len(s.viewport) - keep + 1})
        Pulled(rows) ==
            [s EXCEPT !.viewport = Cut(@, keep) \o Cut(rows, Shown(Len(rows))),
                      !.below = Rest(@, taken)]
    IN  Pulled(Split(Joined(Rest(s.viewport, keep) \o Cut(s.below, taken)), width))

(* The line of the rows after the first `keep' in the viewport and of those *)
(* `taken' from below is split: one row more is shown.                      *)
PullUpRows(s, keep, taken, width) ==
    LET Shown(n) == Min({n, Len(s.viewport) - keep + 1})
        Over(over) == IF over = <<>> THEN <<>> ELSE <<Joined(over)>>
        Pulled(rows) ==
            [s EXCEPT !.viewport = Cut(@, keep) \o Cut(rows, Shown(Len(rows))),
                      !.below = Over(Rest(rows, Shown(Len(rows)))) \o Rest(@, taken)]
    IN  Pulled(Split(Joined(Rest(s.viewport, keep) \o Cut(s.below, taken)), width))

(* transfer_rows_from_lines_below_to_viewport, which is asked for one row   *)
PullUp(s, width) ==
    IF s.below = <<>> THEN s
    ELSE IF s.below[1].canonical
    THEN PullUpRows(s, Len(s.viewport), FirstLine(s.below), width)
    ELSE PullUpRows(s, BeforeLastLine(s.viewport), Wraps(s.below), width)

Above(g) == [above |-> g.above, viewport |-> g.viewport]

(* Grid::transfer_rows_to_lines_above; `counted' is scrollback_buffer_lines *)
TransferUp(g, count) ==
    LET After(s) == [g EXCEPT !.above = s.above, !.viewport = s.viewport,
                              !.counted = @ + s.moved,
                              !.broken = @ \/ g.counted + s.moved < 0]
    IN  After(PushUp(Above(g), count, g.width))

(* recalculate_scrollback_buffer_count                                      *)
Recount(g) == [g EXCEPT !.counted = Heights(g.above, g.width)]

-----------------------------------------------------------------------------
(* Scrolling                                                               *)

(* One row came down from above, and the last one went below.              *)
ScrolledUpTo(g, s) ==
    [g EXCEPT !.above = s.above, !.viewport = s.viewport,
              !.below = <<Last(g.viewport)>> \o @,
              !.counted = Max({0, @ - s.moved}),
              !.scrolled = TRUE]

ScrollUpOneLine(g) ==
    IF g.above = <<>> \/ Len(g.viewport) # g.height THEN g
    ELSE ScrolledUpTo(g, PullDown([above |-> g.above, viewport |-> Front(g.viewport)],
                                  1, g.width))

(* the first row of the viewport joins the line above it, if it goes on     *)
PushFirstUp(g) ==
    LET row   == g.viewport[1]
        above == IF row.canonical THEN g.above ELSE Front(g.above)
        line  == IF row.canonical THEN row ELSE Joined(<<Last(g.above), row>>)
    IN  [g EXCEPT !.above = BoundedPush(above, line),
                  !.viewport = Tail(@),
                  !.counted = Max({0, @ + Height(row, g.width) - Dropped(above, g.width)})]

ScrollDownOneLine(g) ==
    LET Ended(h) == [h EXCEPT !.scrolled = @ /\ h.below # <<>>]
    IN  Ended(IF g.below = <<>> \/ Len(g.viewport) # g.height THEN g
              ELSE IF ~g.viewport[1].canonical /\ g.above = <<>>
              THEN [g EXCEPT !.broken = TRUE]
              ELSE PullUp(PushFirstUp(g), g.width))

Repeat(Op(_), g, n) == FoldLeft(LAMBDA acc, i : Op(acc), g, Times(n))

(* mutant: a line instead of all                                           *)
ResetViewportALine(g) == IF g.scrolled THEN ScrollDownOneLine(g) ELSE g

(* reset_viewport: a line at a time, and not forever                        *)
ResetViewport(g) ==
    Repeat(LAMBDA h : IF h.scrolled THEN ScrollDownOneLine(h) ELSE h, g, 2 * Buffer)

-----------------------------------------------------------------------------
(* Resizing *)

OrNone(f(_), cursor) == IF cursor = <<>> THEN <<>> ELSE <<f(cursor[1])>>

(* cursor_canonical_line_index                                              *)
LineIndex(rows, y) ==
    Max({0, Cardinality({i \in DOMAIN rows : rows[i].canonical /\ i <= y + 1}) - 1})

(* cursor_index_in_canonical_line: the row in the line plus the column      *)
IndexInLine(rows, cursor) ==
    IF cursor.y >= Len(rows) THEN 0
    ELSE cursor.x + cursor.y
           - (Max({1} \cup {i \in 1 .. cursor.y + 1 : rows[i].canonical}) - 1)

(* canonical_line_y_coordinates                                             *)
LineY(rows, index) ==
    LET firsts == {i \in DOMAIN rows : rows[i].canonical}
        upto(i) == Cardinality({j \in firsts : j <= i})
    IN  Max({0} \cup {i - 1 : i \in {j \in firsts : upto(j) <= index + 1}})

(* The new column of what was the index-th cell of its line                 *)
NewX(index, width) == (index \div width) + (index % width)

(* The lines the rows make up, as change_size puts those of the viewport    *)
(* together                                                                 *)
CanonicalLines(rows) ==
    LET firsts  == SelectSeq(Times(Len(rows)), LAMBDA i : i = 1 \/ rows[i].canonical)
        Upto(k) == IF k = Len(firsts) THEN Len(rows) ELSE firsts[k + 1] - 1
    IN  [k \in DOMAIN firsts |-> Joined(SubSeq(rows, firsts[k], Upto(k)))]

(* The viewport begins in the middle of a line.                             *)
Continues(g) == g.viewport # <<>> /\ ~g.viewport[1].canonical

(* The line's rows: a line of nothing is a canonical row                    *)
Rewrapped(line, width) ==
    LET cells == Trim(line.cells)
    IN  IF cells = <<>> THEN <<NewLine>> ELSE Split(Row(cells, line.canonical), width)

(* change_size, for another width: the viewport, with the start of its      *)
(* first line from above, is wrapped anew, ...                              *)
Wrapped(g, width) ==
    LET lines == CanonicalLines(g.viewport)
        ahead == IF Continues(g) THEN <<Joined(<<Last(g.above), lines[1]>>)>> \o Tail(lines)
                                 ELSE lines
    IN  FlattenSeq([k \in DOMAIN ahead |-> Rewrapped(ahead[k], width)])

(* ... and as much as it grew or shrank is moved up or pulled down.         *)
Reflow(g, width) ==
    LET index == LineIndex(g.viewport, g.cursor.y) + (IF Continues(g) THEN 1 ELSE 0)
        above == IF Continues(g) THEN Front(g.above) ELSE g.above
        Moved(new, s, y) == Max({0, y + (IF g.height < Len(new) THEN g.height - Len(new)
                                         ELSE Len(s.viewport) - Len(new))})
        Place(new, s, c, line) == [x |-> NewX(IndexInLine(g.viewport, c), width),
                                   y |-> Moved(new, s, LineY(new, line))]
        Filled(new, s) ==
            [g EXCEPT !.above = s.above, !.viewport = s.viewport,
                      !.cursor = Place(new, s, @, index),
                      !.saved = OrNone(LAMBDA c : Place(new, s, c, c.y), @)]
        Refilled(new) ==
            Filled(new, Fill([above |-> above, viewport |-> new], g.height - Len(new), width))
    IN  Refilled(Wrapped(g, width))

(* mutant: the cursor stays where it was                                   *)
FittedKeepingCursor(g, s, more) == [g EXCEPT !.above = s.above, !.viewport = s.viewport]

(* The cursors keep their rows.                                             *)
Fitted(g, s, more) ==
    LET Y(y) == IF more >= 0 THEN y + Len(s.viewport) - Len(g.viewport)
                ELSE IF -more > g.cursor.y THEN 0 ELSE Max({0, y + more})
    IN  [g EXCEPT !.above = s.above, !.viewport = s.viewport,
                  !.cursor.y = Y(@), !.saved = OrNone(LAMBDA c : [c EXCEPT !.y = Y(@)], @)]

(* change_size, for another height                                          *)
Refit(g, more, width) == Fitted(g, Fill(Above(g), more, width), more)

(* The row at the top goes on a line that is not there ("the state is       *)
(* corrupted somehow").                                                     *)
Orphaned(g) == Continues(g) /\ g.above = <<>>

ChangeSize(g, height, width) ==
    LET Sized(h) == Recount([h EXCEPT !.height = height, !.width = width,
                                      !.region = IF @ = <<>> THEN <<>> ELSE <<0, height - 1>>])
        Fit(h) == IF height # g.height THEN Refit(h, height - Len(h.viewport), width) ELSE h
    IN  IF g.alternate # <<>> THEN [g EXCEPT !.height = height, !.width = width]
        ELSE IF width # g.width /\ Orphaned(g) THEN [g EXCEPT !.viewport = <<>>]
        ELSE Sized(Fit(IF width # g.width THEN Reflow(g, width) ELSE g))

(* force_change_size, which TerminalPane::reflow_lines calls: never the     *)
(* same size                                                                *)
ForceChangeSize(g, height, width) ==
    LET other == <<IF height = g.height THEN height + 1 ELSE height,
                   IF width = g.width THEN width + 1 ELSE width>>
    IN  FoldLeft(LAMBDA h, size : ChangeSize(h, size[1], size[2]), g, <<other, <<height, width>>>>)

-----------------------------------------------------------------------------
(* Writing *)

BlankLine(g) == Row(Blanks(g.width), TRUE)

There(g, y) == y < Len(g.viewport)

Broken(g) == [g EXCEPT !.broken = TRUE]

RemoveRow(g, y) ==
    IF There(g, y) THEN [g EXCEPT !.viewport = RemoveAt(@, y + 1)] ELSE Broken(g)

InsertRow(g, y, row) ==
    IF y <= Len(g.viewport) THEN [g EXCEPT !.viewport = InsertAt(@, y + 1, row)] ELSE Broken(g)

AppendRow(g, row) == [g EXCEPT !.viewport = Append(@, row)]

RemoveIfThere(g, y) == IF There(g, y) THEN RemoveRow(g, y) ELSE g

PadLinesUntil(g, y) ==
    [g EXCEPT !.viewport = @ \o Copies(BlankLine(g), y + 1 - Len(@))]

PadCurrentLineUntil(g, x) ==
    LET h == PadLinesUntil(g, g.cursor.y)
    IN  [h EXCEPT !.viewport[h.cursor.y + 1].cells = @ \o Blanks(x - Len(@))]

(* The top row of the viewport makes room: to the scrollback, but not from  *)
(* the alternate screen.                                                    *)
MakeRoom(g) == IF g.alternate = <<>> THEN TransferUp(g, 1) ELSE RemoveRow(g, 0)

LineWrap(g) ==
    LET h == [g EXCEPT !.cursor.x = 0]
    IN  IF g.cursor.y = g.height - 1 THEN AppendRow(MakeRoom(h), Wrap)
        ELSE LET down == [h EXCEPT !.cursor.y = @ + 1]
             IN  IF There(down, down.cursor.y) THEN down ELSE AppendRow(down, Wrap)

(* add_character_at_cursor_position: a row that is not there begins with    *)
(* the character, wherever the cursor is in it.                             *)
PutCharacter(g, char) ==
    LET y == g.cursor.y  x == g.cursor.x
        Put(cells) == Cut(cells \o Blanks(x - Len(cells)), x) \o <<char>> \o Rest(cells, x + 1)
        above == Copies(NewLine, y - Len(g.viewport))
    IN  IF There(g, y) THEN [g EXCEPT !.viewport[y + 1].cells = Put(@)]
        ELSE [g EXCEPT !.viewport = @ \o above \o <<Row(<<char>>, TRUE)>>]

PrintChar(g, char) ==
    LET h == PutCharacter(IF g.cursor.x + 1 > g.width THEN LineWrap(g) ELSE g, char)
    IN  [h EXCEPT !.cursor.x = Min({h.width, @ + 1})]

InRegion(g) == g.region # <<>> /\ g.cursor.y \in g.region[1] .. g.region[2]

Region(g) == IF g.region = <<>> THEN <<0, g.height - 1>> ELSE g.region

(* The first row of the scroll region makes room for one at its end.        *)
ScrollRegion(g) ==
    LET top == g.region[1]  bottom == g.region[2]
        h == RemoveRow(g, top)
    IN  IF ~There(g, top) THEN g
        ELSE IF <<top, bottom>> = <<0, g.height - 1>>
        THEN AppendRow(MakeRoom(g), BlankLine(g))
        ELSE IF Len(h.viewport) >= bottom THEN InsertRow(h, bottom, BlankLine(g))
                                          ELSE AppendRow(h, BlankLine(g))

AddCanonicalLine(g) ==
    IF g.region # <<>> /\ g.cursor.y = g.region[2] THEN ScrollRegion(g)
    ELSE LET h == IF There(g, g.cursor.y + 1) THEN g ELSE AppendRow(g, NewLine)
         IN  IF g.cursor.y # g.height - 1 THEN [h EXCEPT !.cursor.y = @ + 1]
             ELSE IF g.region = <<>> THEN MakeRoom(h) ELSE h

(* In the origin mode (erasure_mode) rows count from the top of the region. *)
MoveCursorTo(g, x, y) ==
    LET inside == g.region # <<>> /\ y \in g.region[1] .. g.region[2]
        last   == IF inside THEN g.region[2] ELSE g.height - 1
        offset == IF g.region # <<>> /\ g.origin THEN g.region[1] ELSE 0
        h == [g EXCEPT !.cursor = [x |-> Min({g.width - 1, x}), y |-> Min({last, y + offset})]]
    IN  PadCurrentLineUntil(PadLinesUntil(h, h.cursor.y), h.cursor.x)

MoveCursorToLine(g, y) ==
    LET h == [g EXCEPT !.cursor.y = Min({g.height - 1, y})]
    IN  PadCurrentLineUntil(PadLinesUntil(h, h.cursor.y), h.cursor.x)

MoveCursorUp(g) ==
    [g EXCEPT !.cursor.y = IF InRegion(g) THEN Max({@ - 1, g.region[1]}) ELSE Max({@ - 1, 0})]

(* move_cursor_down_until_edge_of_screen                                    *)
MoveCursorDown(g) ==
    IF InRegion(g) THEN [g EXCEPT !.cursor.y = Min({@ + 1, g.region[2]})]
    ELSE LET y == Min({g.cursor.y + 1, g.height - 1})
         IN  PadLinesUntil([g EXCEPT !.cursor.y = y], y)

(* move_cursor_back: "on the rightmost screen edge, backspace skips one     *)
(* character"                                                               *)
MoveCursorBack(g) ==
    [g EXCEPT !.cursor.x = Max({0, IF @ = g.width THEN @ - 2 ELSE @ - 1})]

MoveCursorForward(g) == [g EXCEPT !.cursor.x = Min({g.width, @ + 1})]

(* move_cursor_up_with_scrolling: the new row is not canonical.             *)
ReverseIndex(g) ==
    LET top == Region(g)[1]  bottom == Region(g)[2]
    IN  IF g.cursor.y = top THEN InsertRow(RemoveIfThere(g, bottom), top, Wrap)
        ELSE IF g.cursor.y \in top .. bottom THEN MoveCursorUp(g) ELSE g

(* replace_characters_in_line_after_cursor                                  *)
EraseRight(g) ==
    IF ~There(g, g.cursor.y) THEN g
    ELSE [g EXCEPT !.viewport[g.cursor.y + 1].cells =
             Cut(@, Min({g.cursor.x, Len(@)})) \o Blanks(g.width - g.cursor.x)]

(* clear_all_after_cursor                                                   *)
EraseBelow(g) ==
    IF ~There(g, g.cursor.y) THEN g
    ELSE LET h == EraseRight(g)
         IN  [h EXCEPT !.viewport = [i \in DOMAIN @ |->
                 IF i > g.cursor.y + 1 THEN [@[i] EXCEPT !.cells = Blanks(g.width)] ELSE @[i]]]

(* a change of the cursor's row, which the code takes to be there           *)
OnRow(g, F(_)) ==
    IF There(g, g.cursor.y) THEN [g EXCEPT !.viewport[g.cursor.y + 1].cells = F(@)] ELSE Broken(g)

(* clear_cursor_line                                                        *)
EraseLine(g) == OnRow(g, LAMBDA cells : <<>>)

(* replace_characters_in_line_before_cursor: the cursor's cell too, be it   *)
(* past the edge                                                            *)
EraseLeft(g) == OnRow(g, LAMBDA cells : Blanks(g.cursor.x + 1) \o Rest(cells, g.cursor.x + 1))

(* clear_all_before_cursor                                                  *)
EraseAbove(g) ==
    IF ~There(g, g.cursor.y) THEN g
    ELSE [EraseLeft(g) EXCEPT !.viewport = [i \in DOMAIN @ |->
             IF i <= g.cursor.y THEN [@[i] EXCEPT !.cells = Blanks(g.width)] ELSE @[i]]]

(* erase_characters: one; a blank comes in at the end of the row.           *)
DeleteCharacter(g) ==
    OnRow(g, LAMBDA cells :
        LET padded == cells \o Blanks(g.width - Len(cells))
        IN  Cut(padded, g.cursor.x) \o Rest(padded, g.cursor.x + 1) \o <<Blank>>)

(* replace_with_empty_chars: one                                            *)
BlankCharacter(g) ==
    LET h == PadCurrentLineUntil(g, Min({g.width, g.cursor.x + 1}))
    IN  IF g.cursor.x = g.width THEN h
        ELSE OnRow(h, LAMBDA cells : [cells EXCEPT ![g.cursor.x + 1] = Blank])

(* "@": a blank is put before the cursor's cell.                            *)
InsertCharacter(g) ==
    LET x == g.cursor.x
    IN  IF ~There(g, g.cursor.y) THEN PutCharacter(g, Blank)
        ELSE OnRow(g, LAMBDA cells :
                 LET all == Cut(cells \o Blanks(x - Len(cells)), x) \o <<Blank>> \o Rest(cells, x)
                 IN  Cut(all, Min({g.width, Len(all)})))

(* "2J": set_scroll_region_to_viewport_size and fill_viewport               *)
EraseAll(g) ==
    LET h == IF g.alternate # <<>> THEN [g EXCEPT !.viewport = <<>>]
             ELSE TransferUp(g, Len(g.viewport))
    IN  [h EXCEPT !.viewport = @ \o Copies(BlankLine(g), g.height),
                  !.region = <<0, g.height - 1>>]

(* DECCOLM, with clear_all                                                  *)
SetColumns(g) ==
    [g EXCEPT !.region = <<>>, !.cursor = [x |-> 0, y |-> 0],
              !.viewport = [i \in DOMAIN @ |-> [@[i] EXCEPT !.cells = Blanks(g.width)]]]

ClearLinesAbove(g) == Recount([g EXCEPT !.above = <<>>])

SetScrollRegion(g, top, bottom) ==
    LET h == MoveCursorTo([g EXCEPT !.region = <<top, bottom>>], 0, 0)
    IN  IF h.origin THEN MoveCursorToLine(h, top) ELSE h

(* delete_lines_in_scroll_region and add_empty_lines_in_scroll_region       *)
DeleteLine(g) ==
    LET h == RemoveRow(g, g.cursor.y)
    IN  IF ~InRegion(g) THEN g
        ELSE IF There(h, g.region[2]) THEN InsertRow(h, g.region[2], BlankLine(g))
                                      ELSE AppendRow(h, BlankLine(g))

AddEmptyLine(g) ==
    IF ~InRegion(g) THEN g
    ELSE InsertRow(RemoveIfThere(g, g.region[2]), g.cursor.y, BlankLine(g))

RotateScrollRegionUp(g) ==
    LET top == Region(g)[1]  bottom == Region(g)[2]
        h == PadLinesUntil(g, bottom)
    IN  IF g.cursor.y \in top .. bottom
        THEN InsertRow(RemoveIfThere(h, bottom), top, BlankLine(g)) ELSE h

RotateScrollRegionDown(g) ==
    LET top == Region(g)[1]  bottom == Region(g)[2]
    IN  InsertRow(RemoveRow(PadLinesUntil(g, bottom), top), bottom, BlankLine(g))

EnterAlternate(g) ==
    Recount([g EXCEPT !.alternate = <<[above |-> g.above, viewport |-> g.viewport,
                                       cursor |-> g.cursor]>>,
                      !.above = <<>>, !.viewport = <<NewLine>>, !.cursor = [x |-> 0, y |-> 0]])

LeaveAlternate(g) ==
    LET main == IF g.alternate = <<>> THEN g
                ELSE [g.alternate[1] @@ g EXCEPT !.alternate = <<>>]
    IN  ForceChangeSize(main, g.height, g.width)

(* reset_terminal_state                                                     *)
ResetState(g) ==
    [g EXCEPT !.above = <<>>, !.below = <<>>, !.viewport = <<NewLine>>, !.alternate = <<>>,
              !.region = <<>>, !.cursor = [x |-> 0, y |-> 0], !.saved = <<>>,
              !.origin = FALSE, !.counted = 0]

Done(g, op) ==
    CASE op.do = "print"     -> PrintChar(g, op.char)
      [] op.do = "newline"   -> AddCanonicalLine([g EXCEPT !.cursor.x = 0])
      [] op.do = "line feed" -> AddCanonicalLine(g)
      [] op.do = "return"    -> [g EXCEPT !.cursor.x = 0]
      [] op.do = "up"        -> MoveCursorUp(g)
      [] op.do = "go"        -> MoveCursorTo(g, op.x, op.y)
      [] op.do = "down"      -> MoveCursorDown(g)
      [] op.do = "back"      -> MoveCursorBack(g)
      [] op.do = "forward"   -> MoveCursorForward(g)
      [] op.do = "left"      -> EraseLeft(g)
      [] op.do = "above"     -> EraseAbove(g)
      [] op.do = "delete character" -> DeleteCharacter(g)
      [] op.do = "blank character"  -> BlankCharacter(g)
      [] op.do = "insert character" -> InsertCharacter(g)
      [] op.do = "columns"   -> SetColumns(g)
      [] op.do = "reverse"   -> ReverseIndex(g)
      [] op.do = "right"     -> EraseRight(g)
      [] op.do = "below"     -> EraseBelow(g)
      [] op.do = "line"      -> EraseLine(g)
      [] op.do = "all"       -> EraseAll(g)
      [] op.do = "scrollback" -> ClearLinesAbove(g)
      [] op.do = "region"    -> SetScrollRegion(g, op.top, op.bottom)
      [] op.do = "no region" -> [g EXCEPT !.region = <<>>]
      [] op.do = "origin"    -> [g EXCEPT !.origin = TRUE]
      [] op.do = "no origin" -> [g EXCEPT !.origin = FALSE]
      [] op.do = "delete"    -> DeleteLine(g)
      [] op.do = "insert"    -> AddEmptyLine(g)
      [] op.do = "rotate up" -> RotateScrollRegionUp(g)
      [] op.do = "rotate down" -> RotateScrollRegionDown(g)
      [] op.do = "alternate" -> EnterAlternate(g)
      [] op.do = "main"      -> LeaveAlternate(g)
      [] op.do = "save"      -> [g EXCEPT !.saved = <<g.cursor>>]
      [] op.do = "restore"   -> IF g.saved = <<>> THEN g ELSE [g EXCEPT !.cursor = g.saved[1]]
      [] op.do = "reset"     -> ResetState(g)

-----------------------------------------------------------------------------
(* The pane and its tab *)

Init ==
    /\ session \in Sessions
    /\ grid = [above |-> <<>>, viewport |-> <<NewLine>>, below |-> <<>>,
               alternate |-> <<>>, cursor |-> [x |-> 0, y |-> 0], saved |-> <<>>,
               region |-> <<>>, origin |-> FALSE, height |-> InitSize[1], width |-> InitSize[2],
               scrolled |-> FALSE, counted |-> 0, broken |-> FALSE]
    /\ asked = InitSize
    /\ events = <<>> /\ printed = 0 /\ handled = 0
    /\ left = [print |-> MaxPrints, operate |-> MaxOperations,
               resize |-> MaxResizes, scroll |-> MaxScrolls]

Uses(what) ==
    /\ ~grid.broken /\ left[what] > 0
    /\ left' = [left EXCEPT ![what] = @ - 1]
    /\ UNCHANGED session

LastPrinted(ops) == Max({0} \cup {ops[i].char : i \in {j \in DOMAIN ops : ops[j].do = "print"}})

(* process_pending_vte_events and process_pty_bytes                         *)
Processed(g, ops) ==
    /\ grid' = FoldLeft(Done, g, ops)
    /\ handled' = Max({handled, LastPrinted(ops)})

(* Tab::handle_pty_bytes: what comes while the pane is scrolled waits, but  *)
(* not without end.                                                         *)
HandlePtyBytes(op) ==
    LET pending == Append(events, op)
    IN  IF ~grid.scrolled THEN Processed(grid, <<op>>) /\ UNCHANGED events
        ELSE IF Len(pending) < MaxPending
        THEN events' = pending /\ UNCHANGED <<grid, handled>>
        ELSE Processed(ResetViewport(grid), pending) /\ events' = <<>>

Prints ==
    /\ Uses("print")
    /\ printed' = printed + 1
    /\ HandlePtyBytes([do |-> "print", char |-> printed'])
    /\ UNCHANGED asked

Operates(op) ==
    /\ Uses("operate")
    /\ HandlePtyBytes(op)
    /\ UNCHANGED <<asked, printed>>

(* TerminalPane::set_geom                                                   *)
Resize(size) ==
    /\ Uses("resize")
    /\ asked' = size
    /\ grid' = ForceChangeSize(grid, size[1], size[2])
    /\ UNCHANGED <<events, printed, handled>>

(* The keys and the wheel; a selection dragged out of the pane, by its top  *)
(* or bottom; and clear_screen.  "bottom" is also what every key does that  *)
(* the program gets.                                                        *)
Scrolled(g, how) ==
    CASE how \in {"up", "drag up"}     -> ScrollUpOneLine(g)
      [] how \in {"down", "drag down"} -> ScrollDownOneLine(g)
      [] how = "bottom" -> ResetViewport(g)
      [] how = "top"    -> LET low == ResetViewport(g)
                           IN  Repeat(ScrollUpOneLine, low, Len(low.above) + low.cursor.y + 1)
      [] how = "clear"  -> IF g.alternate = <<>> THEN ResetState(g) ELSE g

(* mutant: at the bottom the tab does not look                             *)
LooksDown == {"down"}

(* What waited is processed when the pane is not scrolled any more, if the  *)
(* tab looks.                                                               *)
Looks == {"down", "bottom"}

Scroll(how) ==
    /\ Uses("scroll")
    /\ IF how \in Looks /\ ~Scrolled(grid, how).scrolled
       THEN Processed(Scrolled(grid, how), events) /\ events' = <<>>
       ELSE grid' = Scrolled(grid, how) /\ UNCHANGED <<events, handled>>
    /\ UNCHANGED <<asked, printed>>

Next ==
    \/ Prints
    \/ \E op \in session.writes : Operates(op)
    \/ \E size \in Sizes : Resize(size)
    \/ \E how \in session.scrolls : Scroll(how)

Spec == Init /\ [][Next]_vars

-----------------------------------------------------------------------------
(* Properties *)

(* The text of the lines, whatever blanks there are                         *)
Text(g) ==
    LET lines == CanonicalLines(g.above \o g.viewport \o g.below)
    IN  [i \in DOMAIN lines |-> SelectSeq(lines[i].cells, LAMBDA cell : cell # Blank)]

(* Whether the session's program never writes, or its user never does, this *)
Without(dos) ==
    /\ \A op \in session.writes : op.do \notin dos
    /\ session.scrolls \cap dos = {}

RegionOps == {"region", "delete", "insert", "rotate up", "rotate down"}

(* What may make a row wider than the pane                                  *)
Widening == {"left", "above", "delete character"}

(* What may part a line: a wrapped row comes to the top, or after a row     *)
(* that is not full, or too full                                            *)
Upsetting ==
    RegionOps \cup Widening \cup {"reverse", "line", "line feed", "scrollback", "forward"}

(* The topmost row goes on a line that is not there.                        *)
Headless(g) ==
    LET rows == g.above \o g.viewport IN rows # <<>> /\ ~rows[1].canonical

(* The variables have their types: the rows above are within the scroll     *)
(* buffer and what waits is less than the most that may.                    *)
TypeOK ==
    LET IsPlace(c) == c.x \in Nat /\ c.y \in Nat
        IsRow(row) == row.canonical \in BOOLEAN /\ \A i \in DOMAIN row.cells : row.cells[i] \in 0 .. printed
    IN  /\ \A rows \in {grid.above, grid.viewport, grid.below} : \A i \in DOMAIN rows : IsRow(rows[i])
        /\ IsPlace(grid.cursor) /\ (grid.saved = <<>> \/ IsPlace(grid.saved[1]))
        /\ Len(grid.above) <= Buffer /\ grid.counted \in Nat
        /\ {grid.height, grid.width} \subseteq Nat \ {0} /\ asked \in Sizes
        /\ {grid.scrolled, grid.broken, grid.origin} \subseteq BOOLEAN
        /\ Len(events) < MaxPending /\ handled \in 0 .. printed

(* Nothing is shown or written outside the pane, whatever is written into   *)
(* it and however often it is resized: the cursor is in it, no row of the   *)
(* viewport is wider (but those an erasure from past the edge widens), and, *)
(* without scroll regions, the viewport is no taller.                       *)
InsideThePane ==
    /\ Without(Widening) =>
           \A i \in DOMAIN grid.viewport : Len(grid.viewport[i].cells) <= grid.width
    /\ grid.cursor.y < grid.height /\ grid.cursor.x <= grid.width
    /\ Without(RegionOps) => Len(grid.viewport) <= grid.height

(* A wrapped row of the main screen always has the line it goes on before   *)
(* it, in the viewport or above: change_size and scroll_down_one_line rely  *)
(* on it.  It takes a scroll region, a reverse index or a cleared           *)
(* scrollback to part them.                                                 *)
WrapsHaveLines ==
    Without(RegionOps \cup {"scrollback", "reverse"}) =>
        ~Headless(grid) \/ grid.alternate # <<>>

(* scrollback_buffer_lines, which is kept up to date by every transfer of   *)
(* rows, is the height of the rows above, as long as every row that a line   *)
(* goes on from is full.                                                    *)
CountIsRight ==
    Without(Upsetting) => grid.counted = Heights(grid.above, grid.width)

(* What the program writes is handled in the order it was written: nothing  *)
(* overtakes what waits for the user to come back.  (A dragged selection    *)
(* and a terminal reset end the scrolling without a look at what waits; so  *)
(* does scrolling to the top over a parted line.)                           *)
OutputInOrder ==
    Without(Upsetting \cup {"drag down", "reset"}) =>
        \A i \in DOMAIN events : events[i].do = "print" => events[i].char > handled

(* Rows are below the viewport only while the pane knows that it is         *)
(* scrolled: output never lands above them.                                 *)
BelowScrolled == grid.below # <<>> => grid.scrolled

(* The rows that move between the scrollback, the viewport and below, by    *)
(* output, scrolls and new sizes, stay in the pane and in order, and so     *)
(* does what is known about them.                                           *)
RowsAreInOrder == InsideThePane /\ WrapsHaveLines /\ CountIsRight /\ BelowScrolled

(* New sizes and scrolling, that no output waits for, neither panic nor     *)
(* lose, part or join lines, but the oldest, which the buffer may drop;     *)
(* and the grid gets the size that the pane was given.                      *)
TextSurvives ==
    [][(left'.resize # left.resize \/ left'.scroll # left.scroll)
           /\ events = <<>> /\ ~Headless(grid) /\ Without({"clear"}) =>
         /\ ~grid'.broken
         /\ left'.resize # left.resize => <<grid'.height, grid'.width>> = asked'
         /\ \/ Text(grid') = Text(grid)
            \/ Len(Text(grid')) >= Buffer /\ IsSuffix(Text(grid'), Text(grid))]_vars

(* "Scroll down to bottom in focus pane": in a pane that keeps its size, and *)
(* whose rows are full where a line goes on, the user gets back to where    *)
(* the program writes, and what waited is written.                          *)
BottomReached ==
    [][left.resize = MaxResizes /\ Without(Upsetting) /\ Scroll("bottom")
         => grid'.below = <<>> /\ events' = <<>>]_vars

=============================================================================
