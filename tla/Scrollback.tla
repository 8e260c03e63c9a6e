------------------------------ MODULE Scrollback ------------------------------
(***************************************************************************)
(* The scrollback of the client's main window: a circular buffer of lines, *)
(* the part of it that is in view, and the window itself, which is not     *)
(* drawn from the buffer but shifted and patched along with it.  A notice  *)
(* in the status window tells of lines that came while the user had        *)
(* scrolled up (an observer of the scrollback).                            *)
(*                                                                         *)
(* A line has one index and mostly one row, but curses continues a text    *)
(* that is wider than the window in the next row, and scrolls the window   *)
(* when there is none.  A row is told by the line that its text begins     *)
(* with: what it still shows of an overwritten one behind that is left     *)
(* out.  There are short lines and long ones, and a window that is narrow  *)
(* for the long ones shows them in two rows.                               *)
(*                                                                         *)
(* The indices go down with the remainder of C, which is negative for a    *)
(* negative dividend.  status becomes "looping" when a count of lines does *)
(* not end, and "undefined" when a line outside of the buffer is read;     *)
(* nothing is said of what follows.                                        *)
(*                                                                         *)
(* A definition marked "faulty" is a plausible slip that no specification  *)
(* uses; each is there to show that a property would notice it.            *)
(***************************************************************************)
EXTENDS Integers, FiniteSetsExt

CONSTANTS
  Rows,        \* viewportHeight
  Multiplier,  \* heights of the window that the buffer holds
  MaxLines     \* bound on the lines that are ever added

ASSUME SizesAssumption == {Rows, Multiplier, MaxLines} \subseteq Nat \ {0}

Capacity == Rows * Multiplier
Slots == 0 .. Capacity - 1
ScreenRows == 0 .. Rows - 1

VARIABLES
  status,            \* "running", "looping" or "undefined"
  buffer,            \* slot -> the number of its line, negative if spoilt
  isLong,            \* slot -> its text reaches beyond a short line
  tail, head, count,
  topLine,           \* the first line in view
  bottomLine,        \* the line after the last one in view
  isScrolledUp,
  isMessagePending,
  screen,            \* row of the window -> the line that its text begins with
  row,               \* the row of the window's cursor, -1 before any output
  narrow,            \* the window has not more columns than a long line needs
  notice,            \* the status window shows "new unread message(s)"
  erased,            \* the notice was there when the windows were last redrawn
  added,             \* lines added so far
  reloaded,          \* the window was redrawn with lines above the view, or without some below
  lapped,            \* a full buffer lost a line while the view was scrolled up
  wrapped            \* a line took two rows since the window was last drawn anew

ring == <<buffer, isLong, tail, head, count, added>>
view == <<topLine, bottomLine, isScrolledUp>>
unread == <<isMessagePending, notice, erased>>
window == <<screen, row, wrapped>>
vars == <<status, ring, view, unread, window, narrow, reloaded, lapped>>

NoLine == 0             \* a blank row, a slot that was never written
Rest == MaxLines + 1    \* a row that begins with the rest of the line above

Init ==                                                \* create_scrollback()
  /\ status = "running"
  /\ buffer = [i \in Slots |-> NoLine]
  /\ isLong = [i \in Slots |-> FALSE]
  /\ tail = 0 /\ head = 0 /\ count = 0
  /\ topLine = 0 /\ bottomLine = 0
  /\ isScrolledUp = FALSE
  /\ isMessagePending = FALSE
  /\ screen = [r \in ScreenRows |-> NoLine]
  /\ row = -1
  /\ narrow \in BOOLEAN
  /\ notice = FALSE
  /\ erased = FALSE
  /\ added = 0
  /\ reloaded = FALSE
  /\ lapped = FALSE
  /\ wrapped = FALSE

\* The remainder of C.
CRem(n) == IF n >= 0 THEN n % Capacity ELSE -((-n) % Capacity)

------------------------------------------------------------------------------
(* New lines *)

\* wadd_wch() in print_cx_string(): the window whose last text, in row r, does not
\* fit continues it in the next row, and scrolls at its end.
Below(r) == IF r < Rows - 1 THEN r + 1 ELSE r
Continued(cells, r) ==
  IF r < Rows - 1 THEN [cells EXCEPT ![r + 1] = Rest]
  ELSE [i \in ScreenRows |-> IF i = r THEN Rest ELSE cells[i + 1]]

\* The window with these cells, whose last text is in row r and fits or spills.
Drawn(cells, r, spills) ==
  /\ screen' = IF spills THEN Continued(cells, r) ELSE cells
  /\ row' = IF spills THEN Below(r) ELSE r

\* add_newline() and print_cx_string() in print_tokens()
WithNewLine(line) ==
  [r \in ScreenRows |->
    IF r = Below(row) THEN line ELSE IF row < Rows - 1 THEN screen[r] ELSE screen[r + 1]]
Printed(line, spills) ==
  /\ Drawn(WithNewLine(line), Below(row), spills)
  /\ wrapped' = (wrapped \/ spills)

\* add_to_scrollback(): what becomes of the view.
Follow ==
  IF isScrolledUp THEN UNCHANGED <<topLine, bottomLine>>
  ELSE /\ bottomLine' = head'
       /\ topLine' = IF count' > Rows THEN (topLine + 1) % Capacity ELSE topLine

\* The text is copied without clearing the slot, so what a longer line left
\* there shows behind a shorter one: the new line is spoilt in the buffer.
Stored(long) ==
  /\ buffer' = [buffer EXCEPT ![head] = IF isLong[head] /\ ~long THEN -added' ELSE added']
  /\ isLong' = [isLong EXCEPT ![head] = @ \/ long]

IsFull == count = Capacity                             \* is_scrollback_full()

\* notify_scroll_observers(): the status window shows the message.
Notified(told) == notice' = (notice \/ told)

\* add_to_scrollback()
Added(long) ==
  /\ added' = added + 1
  /\ Stored(long)
  /\ tail' = IF IsFull THEN (tail + 1) % Capacity ELSE tail
  /\ count' = IF IsFull THEN count ELSE count + 1
  /\ head' = (head + 1) % Capacity
  /\ Follow
  /\ isMessagePending' = (isMessagePending \/ isScrolledUp)
  /\ Notified(isScrolledUp /\ ~isMessagePending)

\* print_tokens(): a view that is scrolled up is left alone.
AddLine(long) ==
  /\ status = "running"
  /\ added < MaxLines
  /\ Added(long)
  /\ IF isScrolledUp THEN UNCHANGED window ELSE Printed(added', narrow /\ long)
  /\ lapped' = (lapped \/ (isScrolledUp /\ IsFull))
  /\ UNCHANGED <<status, isScrolledUp, narrow, erased, reloaded>>

------------------------------------------------------------------------------
(* Scrolling *)

\* count_remaining_top_lines() steps down from topLine.  Below 0 it only meets
\* 0 and negative numbers, so it misses a tail that is above topLine.
TopCountEnds == tail = 0 \/ topLine >= tail
TopLinesTooMany == topLine - tail + 1  \* faulty
TopLines == topLine - tail

\* count_remaining_bottom_lines() steps up from bottomLine, which may be negative.
BottomLines == IF bottomLine < 0 THEN head - bottomLine ELSE (head - bottomLine) % Capacity

\* wscrl(): the window moves by n lines towards the newer ones.
Scrolled(n) ==
  [r \in ScreenRows |-> IF r + n \in ScreenRows THEN screen[r + n] ELSE NoLine]

\* The text in a slot is as long as the longest that was ever there.
SpillsIn(w, s) == w /\ isLong[s]
Spills(s) == SpillsIn(narrow, s)
Wraps(slots) == wrapped' = (wrapped \/ \E s \in slots : Spills(s))

\* The printing and move_sb_up(), one line at a time from the lowest row to the
\* first, shift times: the rest of a long line hides the beginning of the next.
\* The cursor of the window ends behind the text of the first row.
ScrollUpBy(shift) ==
  LET new == topLine - shift .. topLine - 1
      Slot(r) == topLine - shift + r
      Hidden(r) == \/ Slot(r - 1) \in new /\ Spills(Slot(r - 1))
                   \/ r = Rows - 1 /\ Slot(r) \in new /\ Spills(Slot(r))
  IN /\ UNCHANGED status
     /\ screen' = [r \in ScreenRows |->
          IF Hidden(r) THEN Rest
          ELSE IF r < shift THEN buffer[Slot(r)] ELSE Scrolled(-shift)[r]]
     /\ row' = IF Spills(Slot(0)) THEN Below(0) ELSE 0
     /\ Wraps(new)
     /\ isScrolledUp' = TRUE
     /\ topLine' = topLine - shift
     /\ bottomLine' = CRem(bottomLine - shift)

\* scroll_line_up() and scroll_page_up()
ScrollUp(rows) ==
  /\ status = "running"
  /\ UNCHANGED <<ring, unread, narrow, reloaded, lapped>>
  /\ IF ~TopCountEnds THEN status' = "looping" /\ UNCHANGED <<view, window>>
     ELSE IF TopLines = 0 THEN UNCHANGED <<status, view, window>>
     ELSE IF topLine < Min({rows, TopLines})
     THEN status' = "undefined" /\ UNCHANGED <<view, window>>
     ELSE ScrollUpBy(Min({rows, TopLines}))

\* move_sb_down() at the end of the buffer
ArriveSilently ==                      \* faulty: leaves the notice
  /\ isScrolledUp' = FALSE
  /\ isMessagePending' = FALSE
  /\ erased' = FALSE
  /\ UNCHANGED notice
Arrive ==
  /\ isScrolledUp' = FALSE
  /\ isMessagePending' = FALSE
  /\ erased' = FALSE
  /\ notice' = (notice /\ ~(isScrolledUp /\ isMessagePending))

ArrivedInSight(shift) == BottomLines <= Rows    \* faulty
Arrived(shift) == shift = BottomLines

\* The printing and move_sb_down(), one line at a time, the last in the last row.
WithLinesBelow(shift) ==
  [r \in ScreenRows |->
    IF r >= Rows - shift THEN buffer[CRem(bottomLine + r - (Rows - shift))] ELSE Scrolled(shift)[r]]
ScrollDownBy(shift) ==
  /\ Drawn(WithLinesBelow(shift), Rows - 1, Spills(CRem(bottomLine + shift - 1)))
  /\ Wraps({CRem(bottomLine + i) : i \in 0 .. shift - 1})
  /\ topLine' = (topLine + shift) % Capacity
  /\ bottomLine' = CRem(bottomLine + shift)
  /\ IF Arrived(shift)
     THEN Arrive
     ELSE UNCHANGED <<isScrolledUp, unread>>

\* scroll_line_down() and scroll_page_down()
ScrollDown(rows) ==
  /\ status = "running"
  /\ UNCHANGED <<ring, narrow, reloaded, lapped>>
  /\ IF BottomLines = 0 THEN UNCHANGED <<status, view, unread, window>>
     ELSE IF bottomLine < 0
     THEN status' = "undefined" /\ UNCHANGED <<view, unread, window>>
     ELSE ScrollDownBy(Min({rows, BottomLines})) /\ UNCHANGED status

\* resize_ui() clears the windows, the notice included, and reload_scrollback()
\* fills this one, for a terminal that keeps its height but not its width.  The
\* index of the line is compared with the number of rows.
Reloaded(r) == topLine + r < Min({Rows, head})
WithLinesFromTop == [r \in ScreenRows |-> IF Reloaded(r) THEN buffer[topLine + r] ELSE NoLine]
Resize ==
  LET shown == {r \in ScreenRows : Reloaded(r)}
      last == Cardinality(shown) - 1
  IN /\ status = "running"
     /\ narrow' \in BOOLEAN
     /\ Drawn(WithLinesFromTop, last, last \in shown /\ SpillsIn(narrow', topLine + last))
     /\ wrapped' = \E r \in shown : SpillsIn(narrow', topLine + r)
     /\ bottomLine' = IF shown = {} THEN bottomLine ELSE Min({Rows, head}) % Capacity
     /\ reloaded' = (\/ reloaded
                     \/ topLine # 0
                     \/ ~isScrolledUp /\ Cardinality(shown) < Min({Rows, count}))
     /\ notice' = FALSE
     /\ erased' = isMessagePending
     /\ UNCHANGED <<status, ring, topLine, isScrolledUp, isMessagePending, lapped>>

ScrollLineUp == ScrollUp(1)
ScrollLineDown == ScrollDown(1)
ScrollPageUp == ScrollUp(Rows)
ScrollPageDown == ScrollDown(Rows)
Next ==
  \/ \E long \in BOOLEAN : AddLine(long)
  \/ ScrollLineUp \/ ScrollLineDown \/ ScrollPageUp \/ ScrollPageDown
  \/ Resize

Spec == Init /\ [][Next]_vars

------------------------------------------------------------------------------
(* Properties *)

\* The view begins inside of the buffer; its end may be negative.
TypeOK ==
  /\ status \in {"running", "looping", "undefined"}
  /\ buffer \in [Slots -> -MaxLines .. MaxLines] /\ isLong \in [Slots -> BOOLEAN]
  /\ tail \in Slots /\ head \in Slots /\ count \in 0 .. Capacity
  /\ topLine \in Slots
  /\ bottomLine \in 1 - Capacity .. Capacity - 1
  /\ {isScrolledUp, isMessagePending, notice, erased} \subseteq BOOLEAN
  /\ screen \in [ScreenRows -> -MaxLines .. Rest]
  /\ row \in -1 .. Rows - 1
  /\ added \in 0 .. MaxLines
  /\ {narrow, reloaded, lapped, wrapped} \subseteq BOOLEAN

\* As long as the buffer has not filled up, no key makes the client hang or
\* read outside of the buffer, even after a redraw has confused the view.
SafeUntilFull == status # "running" => count = Capacity

\* Scrolling works for good.  The code breaks this once the buffer is full and
\* its oldest line is not in slot 0 any more.
AlwaysSafe == status = "running"

\* A row shows a line, spoilt perhaps once lines are overwritten, that is when n
\* lines have been added.
IsLine(shown, line, n) == shown = line \/ (shown = -line /\ n > Capacity)

\* A view that is not scrolled up ends with the newest line, in the row of the
\* window's cursor, also when lines took two rows; and as long as none did, its
\* rows are the newest lines in order.  This holds whatever scrolling came before,
\* also when the buffer has wrapped, but not after a redraw with lines above the
\* view, nor after lines were overwritten that the user was looking at.
FollowsNewest ==
  status = "running" /\ ~isScrolledUp /\ ~reloaded /\ ~lapped =>
    /\ added > 0 => IsLine(screen[row], added, added) \/ screen[row] = Rest
    /\ ~wrapped => \A r \in ScreenRows :
         IF r < added
         THEN IsLine(screen[r], r + 1 + (IF added <= Rows THEN 0 ELSE added - Rows), added)
         ELSE screen[r] = NoLine

\* No line is missing between two in the window.  The code breaks this where lines
\* take two rows: scrolling counts each line as one row.
NoLineMissing ==
  status = "running" /\ ~reloaded /\ ~lapped =>
    \A r \in 1 .. Rows - 1 :
      {screen[r - 1], screen[r]} \subseteq 1 .. MaxLines => screen[r] = screen[r - 1] + 1

\* The window, which is only ever patched, shows the stretch of the buffer from
\* topLine to bottomLine, and the stretch ends where the unread lines begin.
WindowShowsView ==
  status = "running" /\ count < Capacity /\ ~reloaded /\ ~wrapped =>
    /\ bottomLine - topLine = Min({Rows, count})
    /\ \A r \in 0 .. bottomLine - topLine - 1 : screen[r] = buffer[topLine + r]

\* The user is told of lines below the view: the notice is shown from the first
\* line that came while the view was scrolled up until the view is back down, or
\* until a redraw erases it, after which no line brings it back.
NoticeTellsUnread ==
  /\ notice = (isMessagePending /\ ~erased)
  /\ isMessagePending => isScrolledUp
  /\ isMessagePending /\ count < Capacity /\ ~reloaded => BottomLines > 0
==============================================================================
