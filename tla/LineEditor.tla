------------------------------ MODULE LineEditor ------------------------------
(***************************************************************************)
(* The input line of the client.  The line under the cursor is edited in   *)
(* the current slot of the front queue of commands; Enter runs it and puts *)
(* it into the back queue, the history, and into the front queue, whose    *)
(* slots are then restored from the back queue.  The text in the window is *)
(* kept apart and patched along with the slot, as far as the window goes:  *)
(* curses refuses to move its cursor beyond the last column, and then      *)
(* writes nothing there and deletes where the cursor was before.           *)
(*                                                                         *)
(* Both queues always have the same indices (the current index of the back *)
(* queue is not used).  Columns are counted from the end of the prompt.    *)
(*                                                                         *)
(* A definition marked "faulty" is a plausible slip that no specification  *)
(* uses; each is there to show that a property would notice it.            *)
(***************************************************************************)
EXTENDS Integers, SequencesExt

CONSTANTS
  Chars,       \* the characters that can be typed
  MaxChars,    \* MAX_CHARS
  InputWidth,  \* inputWidth - PROMPT_SIZE, the columns when the client starts
  Widths,      \* the columns behind the prompt that a resize may leave
  Capacity     \* commands in the history

ASSUME ConstantsAssumption ==
  /\ {MaxChars, Capacity} \cup Widths \subseteq Nat \ {0}
  /\ InputWidth \in Widths

NUL == "NUL"    \* also a blank cell of the window
ASSUME NulAssumption == NUL \notin Chars

Slots == 0 .. Capacity - 1
Contents == [1 .. MaxChars -> Chars \union {NUL}]

VARIABLES
  frontCmd,     \* slot of frontCmdQueue -> the bytes of its message
  backCmd,      \* slot of backCmdQueue -> the bytes of its message
  first,        \* front
  rear, currentIdx, count,
  cursor, charCount,
  width,        \* the columns of the window behind the prompt
  screen,       \* what each of them shows
  windowCursor, \* the column where the cursor of the window stands
  torn,         \* a character was deleted from a line longer than the window
  entered,      \* the texts of the last commands that were run
  cleared,      \* malloc() returned zeroed memory for the queues
  edited,       \* slots of saved commands that were changed after the last Enter
  everEdited    \* a saved command was changed at some time

queues == <<frontCmd, backCmd, first, rear, currentIdx, count>>
ghosts == <<entered, cleared, edited, everEdited>>
windowVars == <<width, screen, windowCursor, torn>>
editorVars == <<queues, cursor, charCount, windowVars, ghosts>>

------------------------------------------------------------------------------
(* Strings of C *)

StrLen(bytes) == Cardinality({i \in 1 .. MaxChars : \A j \in 1 .. i : bytes[j] # NUL})
Text(bytes) == [i \in 1 .. StrLen(bytes) |-> bytes[i]]

\* safe_copy(): the bytes after the terminator stay.
CopiedUnterminated(bytes, text) ==       \* faulty
  [i \in 1 .. MaxChars |-> IF i <= Len(text) THEN text[i] ELSE bytes[i]]
Copied(bytes, text) ==
  [i \in 1 .. MaxChars |->
    IF i <= Len(text) THEN text[i] ELSE IF i = Len(text) + 1 THEN NUL ELSE bytes[i]]

Blank(w) == [i \in 1 .. w |-> NUL]
Empty == Blank(MaxChars)
Junk == {[i \in 1 .. MaxChars |-> IF i = 1 THEN c ELSE NUL] : c \in Chars}

\* create_line_editor(): the memory of the queues is not cleared.
EditorInit ==
  /\ \E bytes \in {Empty} \union Junk :
       /\ frontCmd = [s \in Slots |-> bytes]
       /\ cleared = (bytes = Empty)
  /\ backCmd = frontCmd
  /\ first = 0 /\ rear = 0 /\ currentIdx = 0 /\ count = 0
  /\ cursor = 0 /\ charCount = 0
  /\ width = InputWidth
  /\ screen = Blank(width) /\ windowCursor = 0 /\ torn = FALSE
  /\ entered = <<>>
  /\ edited = {}
  /\ everEdited = FALSE

current == frontCmd[currentIdx]
IsSaved(slot) == \E i \in 0 .. count - 1 : slot = (first + i) % Capacity

------------------------------------------------------------------------------
(* Editing *)

Edit(bytes) ==
  /\ frontCmd' = [frontCmd EXCEPT ![currentIdx] = bytes]
  /\ edited' = edited \union {s \in {currentIdx} : IsSaved(s)}
  /\ everEdited' = (everEdited \/ IsSaved(currentIdx))
  /\ UNCHANGED <<backCmd, first, rear, currentIdx, count, entered, cleared>>

\* wmove() and mvwaddch(): nothing happens beyond the last column.
CursorAt(c) == IF c < width THEN c ELSE windowCursor

\* waddch(): the cursor behind n written columns of w.
AfterWriting(n, w) == IF n < w THEN n ELSE w - 1

CanAddCharOneMore == cursor < InputWidth /\ charCount <= MaxChars    \* faulty: off by one
CanAddChar == cursor < InputWidth - 1 /\ charCount < MaxChars        \* can_add_char()

\* The loops of add_le_char() and add_char(): the cells behind the cursor move up.
\* No terminator is written, and what passes the last cell is gone.
Inserted(cells, ch) ==
  [i \in DOMAIN cells |->
    IF i = cursor + 1 THEN ch
    ELSE IF i \in cursor + 2 .. charCount + 1 THEN cells[i - 1] ELSE cells[i]]
AddChar(ch) ==
  /\ CanAddChar
  /\ Edit(Inserted(current, ch))
  /\ charCount' = charCount + 1
  /\ cursor' = cursor + 1
  /\ screen' = Inserted(screen, ch)
  /\ windowCursor' = IF cursor < width THEN AfterWriting(cursor', width) ELSE windowCursor
  /\ UNCHANGED <<width, torn>>

\* What the keys ask of the line editor before they act.
BehindPrompt == cursor > 0                            \* use_le_backspace()
InText == cursor < charCount                          \* move_le_cursor_right()
AwayFromHome == cursor > 0                            \* use_le_home()
AwayFromEnd == cursor < charCount                     \* use_le_end()

\* shift_chars() leaves a string that ends before c.
Shifted(text, c) == IF c < Len(text) THEN RemoveAt(text, c + 1) ELSE text

\* wdelch()
WithoutCell(c) ==
  [i \in 1 .. width |->
    IF i <= c THEN screen[i] ELSE IF i < width THEN screen[i + 1] ELSE NUL]

\* delete_le_char() at column c, and wdelch() where the window's cursor is
DeleteAt(c) ==
  /\ Edit(Copied(current, Shifted(Text(current), c)))
  /\ charCount' = charCount - 1
  /\ screen' = WithoutCell(windowCursor')
  /\ torn' = (torn \/ charCount > width)
  /\ UNCHANGED width

UseBackspace ==
  /\ BehindPrompt
  /\ cursor' = cursor - 1
  /\ windowCursor' = CursorAt(cursor')
  /\ DeleteAt(cursor')
CanDeleteAtEnd == cursor <= charCount /\ charCount > 0          \* faulty: off by one
CanDelete == cursor < charCount
UseDelete == CanDelete /\ UNCHANGED <<cursor, windowCursor>> /\ DeleteAt(cursor)

MoveTo(c) ==
  /\ cursor' = c
  /\ windowCursor' = CursorAt(c)
  /\ UNCHANGED <<queues, charCount, width, screen, torn, ghosts>>
MoveCursorLeft == BehindPrompt /\ MoveTo(cursor - 1)
MoveCursorRight == InText /\ MoveTo(cursor + 1)
UseHome == AwayFromHome /\ MoveTo(0)
UseEnd == AwayFromEnd /\ MoveTo(charCount)

------------------------------------------------------------------------------
(* Command history *)

\* The first columns of a message that shows n characters.
Shown(bytes, n, w) == [i \in 1 .. w |-> IF i <= n THEN bytes[i] ELSE NUL]

\* display_command_text() in a window of w columns
Display(idx, w) ==
  /\ width' = w
  /\ charCount' = StrLen(frontCmd[idx])
  /\ cursor' = charCount'
  /\ screen' = Shown(frontCmd[idx], charCount', w)
  /\ windowCursor' = AfterWriting(cursor', w)
  /\ torn' = FALSE

\* display_previous_command(), display_next_command(): the indices are compared
\* as numbers, not along the ring.
CurrentMoves(idx) ==
  /\ currentIdx' = idx
  /\ Display(idx, width)
  /\ UNCHANGED <<frontCmd, backCmd, first, rear, count, ghosts>>
PreviousCommand == currentIdx > first /\ CurrentMoves((currentIdx - 1) % Capacity)
NextCommand == currentIdx < rear /\ CurrentMoves((currentIdx + 1) % Capacity)

\* resize_ui(): the window gets the new width, the line editor does not.
Resize ==
  /\ \E w \in Widths : Display(currentIdx, w)
  /\ UNCHANGED <<queues, ghosts>>

\* reload_saved_commands()
ReloadNone(slots) == slots               \* faulty
Reload(slots) ==
  [s \in Slots |-> IF Text(slots[s]) # Text(backCmd'[s])
                   THEN Copied(slots[s], Text(backCmd'[s])) ELSE slots[s]]

\* parse_cli_input(): the whole message is copied, what is behind the
\* terminator included.
Enter ==
  /\ entered' = (IF count = Capacity THEN Tail(entered) ELSE entered) \o <<Text(current)>>
  /\ backCmd' = [backCmd EXCEPT ![rear] = current]
  /\ frontCmd' = Reload([frontCmd EXCEPT ![rear] = current])
  /\ first' = IF count = Capacity THEN (first + 1) % Capacity ELSE first
  /\ count' = IF count = Capacity THEN count ELSE count + 1
  /\ rear' = (rear + 1) % Capacity
  /\ currentIdx' = rear'
  /\ cursor' = 0 /\ charCount' = 0
  /\ screen' = Blank(width) /\ windowCursor' = 0 /\ torn' = FALSE
  /\ edited' = {}
  /\ UNCHANGED <<width, cleared, everEdited>>

EditorNext ==
  \/ \E ch \in Chars : AddChar(ch)
  \/ UseBackspace \/ UseDelete
  \/ MoveCursorLeft \/ MoveCursorRight \/ UseHome \/ UseEnd
  \/ PreviousCommand \/ NextCommand
  \/ Resize
  \/ Enter

EditorSpec == EditorInit /\ [][EditorNext]_editorVars

------------------------------------------------------------------------------
(* Properties *)

EditorTypeOK ==
  /\ frontCmd \in [Slots -> Contents] /\ backCmd \in [Slots -> Contents]
  /\ {first, rear, currentIdx} \subseteq Slots /\ count \in 0 .. Capacity
  /\ cursor \in 0 .. charCount /\ charCount \in 0 .. MaxChars
  /\ width \in Widths /\ screen \in [1 .. width -> Chars \union {NUL}]
  /\ windowCursor \in 0 .. width - 1 /\ torn \in BOOLEAN
  /\ entered \in Seq(SeqOf(Chars, MaxChars)) /\ Len(entered) = count
  /\ cleared \in BOOLEAN /\ edited \subseteq Slots /\ everEdited \in BOOLEAN

\* The window shows the beginning of the line as the slot has it, as far as there
\* are columns, and the user's cursor stands where the next key acts, or beyond the
\* window: also when the line grows over the edge or the window has become
\* narrower.  Only a deletion from a line that is longer than the window spoils it,
\* until the next line is shown.
ShownIsRun ==
  /\ \A i \in 1 .. charCount : current[i] # NUL
  /\ cursor < width => windowCursor = cursor
  /\ ~torn => screen = Shown(current, charCount, width)

\* Enter runs nothing behind the line that is shown, as long as the history has
\* room and no saved command was edited.  (Later it may: the slot of a new command
\* is not cleared, and a restored command keeps bytes behind its terminator.)
RunsOnlyWhatIsShown ==
  cleared /\ count < Capacity /\ ~everEdited => StrLen(current) = charCount

\* The window shows the line whatever was deleted.  The code breaks this: a
\* character behind the last column does not come in, and the End key does not
\* take the window's cursor along, so that the wrong character disappears.
AlwaysShown == screen = Shown(current, charCount, width)

\* The history holds the last commands as they were run, in order, and the
\* arrow keys show them as they were run: what was changed in one of them is
\* undone by the next Enter.
HistoryReadsBack ==
  \A i \in 1 .. count :
    LET s == (first + i - 1) % Capacity
    IN /\ Text(backCmd[s]) = entered[i]
       /\ s \notin edited => Text(frontCmd[s]) = entered[i]

\* The up key can show the last command.  The code breaks this: when the
\* history is full, its first index is that of the new line.
HistoryReachable == count > 0 /\ currentIdx = rear => currentIdx > first
==============================================================================
