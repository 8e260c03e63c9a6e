--------------------------- MODULE ScrollbackProofs ---------------------------
(***************************************************************************)
(* Proofs about Scrollback for every height of the window, every number of *)
(* heights that the buffer holds, and every number of lines.  What the     *)
(* window shows needs a buffer of two windows or more: in one of a single  *)
(* window the top of the view does not move along with a new line, and a   *)
(* redraw of the full buffer blanks the window.                            *)
(***************************************************************************)
EXTENDS Scrollback, FiniteSetTheorems, TLAPS

------------------------------------------------------------------------------
(* Sizes and indices *)

\* The buffer holds the window at least once.
LEMMA Sizes ==
  /\ Rows \in Nat \ {0} /\ Capacity \in Nat \ {0} /\ MaxLines \in Nat \ {0}
  /\ Rows <= Capacity
  /\ Multiplier >= 2 \/ Multiplier = 1
<1>1. Rows \in Nat \ {0} /\ Multiplier \in Nat \ {0} /\ MaxLines \in Nat \ {0}
  BY SizesAssumption
<1>2. \A r, m \in Nat \ {0} : r * m \in Nat \ {0} /\ r <= r * m
  OBVIOUS
<1>3. QED
  BY <1>1, <1>2 DEF Capacity

\* The smaller one of two numbers.
LEMMA MinOfTwo ==
  ASSUME NEW a \in Int, NEW b \in Int
  PROVE  Min({a, b}) = IF a <= b THEN a ELSE b
<1> DEFINE m == IF a <= b THEN a ELSE b
           IsMin(x) == x \in {a, b} /\ \A y \in {a, b} : x <= y
<1>1. IsMin(m)
  OBVIOUS
<1>2. \A x : IsMin(x) => x = m
  OBVIOUS
<1>3. Min({a, b}) = CHOOSE x : IsMin(x)
  BY DEF Min
<1> HIDE DEF IsMin, m
<1>4. Min({a, b}) = m
  BY <1>1, <1>2, <1>3
<1>5. QED
  BY <1>4 DEF m

\* The two remainders of a number: the one of TLA+ is a slot, the one of C may be
\* negative, and neither changes a slot.
LEMMA Remainders ==
  ASSUME NEW a \in Int
  PROVE  /\ a % Capacity \in Slots
         /\ CRem(a) \in 1 - Capacity .. Capacity - 1
         /\ a >= 0 => CRem(a) \in Slots
         /\ a \in Slots => a % Capacity = a /\ CRem(a) = a
<1>1. \A n \in Int : n % Capacity \in 0 .. Capacity - 1
  BY Sizes
<1>2. a \in Slots => a % Capacity = a
  BY Sizes DEF Slots
<1>3. a % Capacity \in 0 .. Capacity - 1 /\ (-a) % Capacity \in 0 .. Capacity - 1
  BY <1>1
<1>4. QED
  BY <1>2, <1>3, Sizes DEF CRem, Slots

------------------------------------------------------------------------------
(* The inductive invariant *)

\* Until the buffer is full its oldest line is in slot 0 and the view is an
\* interval of slots in use, so that neither the counts of lines nor the indices
\* can go wrong.
ViewOrdered ==
  count < Capacity =>
    /\ status = "running"
    /\ tail = 0 /\ head = count
    /\ topLine <= bottomLine /\ bottomLine <= head

\* Unless a redraw has moved it, the view is as high as it can be, ends with the
\* newest line when it is not scrolled up, and is scrolled up only from a window
\* that was full.
ViewFollows ==
  count < Capacity /\ ~reloaded =>
    /\ bottomLine - topLine = Min({Rows, count})
    /\ IF isScrolledUp THEN count >= Rows ELSE bottomLine = head

\* A notice is only erased while lines are unread.
ErasedUnread == erased => isMessagePending

IInv ==
  /\ TypeOK
  /\ ViewOrdered
  /\ ViewFollows
  /\ ErasedUnread
  /\ NoticeTellsUnread

USE DEF ScreenRows

\* The count of the lines below the view is a number, and the plain difference
\* until the buffer is full.
LEMMA LinesBelow ==
  ASSUME IInv
  PROVE  /\ BottomLines \in Nat
         /\ count < Capacity => BottomLines = head - bottomLine
<1>1. head \in Slots /\ bottomLine \in 1 - Capacity .. Capacity - 1 /\ Capacity \in Nat \ {0}
  BY Sizes DEF IInv, TypeOK
<1>2. (head - bottomLine) % Capacity \in Slots
  BY <1>1, Remainders DEF Slots
<1>3. BottomLines \in Nat
  BY <1>1, <1>2 DEF BottomLines, Slots
<1>4. ASSUME count < Capacity
      PROVE  BottomLines = head - bottomLine
  <2>1. topLine \in Slots /\ topLine <= bottomLine /\ bottomLine <= head
    BY <1>4 DEF IInv, TypeOK, ViewOrdered
  <2>2. bottomLine >= 0 /\ head - bottomLine \in Slots
    BY <1>1, <2>1 DEF Slots
  <2>3. (head - bottomLine) % Capacity = head - bottomLine
    BY <2>2, Remainders DEF Slots
  <2>4. QED
    BY <1>1, <2>2, <2>3 DEF BottomLines
<1>5. QED
  BY <1>3, <1>4

------------------------------------------------------------------------------
(* Each action keeps the invariant *)

\* What curses makes of cells whose last text, in row r, may spill into the next.
LEMMA DrawnCells ==
  ASSUME NEW cells \in [0 .. Rows - 1 -> -MaxLines .. Rest], NEW r \in -1 .. Rows - 1,
         NEW spills \in BOOLEAN, spills => r >= 0, Drawn(cells, r, spills)
  PROVE  /\ screen' \in [0 .. Rows - 1 -> -MaxLines .. Rest] /\ row' \in -1 .. Rows - 1
         /\ r >= 0 => /\ row' \in 0 .. Rows - 1
                      /\ screen'[row'] = IF spills THEN Rest ELSE cells[r]
         /\ ~spills => screen' = cells /\ row' = r
<1>1. Rows \in Nat \ {0} /\ Rest \in -MaxLines .. Rest
  BY Sizes DEF Rest
<1>2. CASE ~spills
  BY <1>1, <1>2 DEF Drawn
<1>3. CASE spills /\ r < Rows - 1
  <2>1. screen' = [cells EXCEPT ![r + 1] = Rest] /\ row' = r + 1 /\ r + 1 \in 0 .. Rows - 1
    BY <1>1, <1>3 DEF Drawn, Continued, Below
  <2>2. QED
    BY <1>1, <1>3, <2>1
<1>4. CASE spills /\ ~(r < Rows - 1)
  <2>1. /\ screen' = [i \in 0 .. Rows - 1 |-> IF i = r THEN Rest ELSE cells[i + 1]]
        /\ row' = r /\ r = Rows - 1 /\ r \in 0 .. Rows - 1
    BY <1>1, <1>4 DEF Drawn, Continued, Below
  <2>2. \A i \in 0 .. Rows - 1 : i # r => i + 1 \in 0 .. Rows - 1
    BY <1>1, <2>1
  <2>3. QED
    BY <1>1, <1>4, <2>1, <2>2
<1>5. QED
  BY <1>2, <1>3, <1>4

\* The window with a new line below its last one, or shifted for it.
LEMMA NewLineCells ==
  ASSUME TypeOK, NEW line \in -MaxLines .. Rest
  PROVE  /\ Below(row) \in 0 .. Rows - 1
         /\ WithNewLine(line) \in [0 .. Rows - 1 -> -MaxLines .. Rest]
         /\ WithNewLine(line)[Below(row)] = line
<1>1. Rows \in Nat \ {0} /\ row \in -1 .. Rows - 1 /\ screen \in [0 .. Rows - 1 -> -MaxLines .. Rest]
  BY Sizes DEF TypeOK
<1>2. Below(row) \in 0 .. Rows - 1
  BY <1>1 DEF Below
<1>3. \A i \in 0 .. Rows - 1 : ~(row < Rows - 1) /\ i # Below(row) => i + 1 \in 0 .. Rows - 1
  BY <1>1 DEF Below
<1>4. QED
  BY <1>1, <1>2, <1>3 DEF WithNewLine

\* create_scrollback() makes an empty buffer with an empty view.
LEMMA InitHolds == Init => IInv
<1> SUFFICES ASSUME Init PROVE IInv
  OBVIOUS
<1>1. TypeOK
  <2>1. 0 \in Slots /\ 0 \in 0 .. Capacity /\ 0 \in 1 - Capacity .. Capacity - 1
    BY Sizes DEF Slots
  <2>2. /\ 0 \in -MaxLines .. MaxLines /\ 0 \in -MaxLines .. Rest /\ 0 \in 0 .. MaxLines
        /\ -1 \in -1 .. Rows - 1
    BY Sizes DEF Rest
  <2>3. /\ buffer \in [Slots -> -MaxLines .. MaxLines] /\ isLong \in [Slots -> BOOLEAN]
        /\ screen \in [ScreenRows -> -MaxLines .. Rest]
    BY <2>2 DEF Init, NoLine
  <2>4. QED
    BY <2>1, <2>2, <2>3 DEF Init, TypeOK
<1>2. ViewOrdered
  BY DEF Init, ViewOrdered
<1>3. ViewFollows
  <2>1. Min({Rows, 0}) = 0
    BY MinOfTwo, Sizes
  <2>2. QED
    BY <2>1 DEF Init, ViewFollows
<1>4. ErasedUnread /\ NoticeTellsUnread
  BY DEF Init, ErasedUnread, NoticeTellsUnread
<1>5. QED
  BY <1>1, <1>2, <1>3, <1>4 DEF IInv

\* A new line takes the view along unless it is scrolled up, and is unread then.
LEMMA AddLineKeeps ==
  ASSUME IInv, NEW long \in BOOLEAN, AddLine(long)
  PROVE  IInv'
<1>1. /\ head \in Slots /\ tail \in Slots /\ topLine \in Slots
      /\ count \in 0 .. Capacity /\ added \in 0 .. MaxLines /\ added < MaxLines
      /\ bottomLine \in 1 - Capacity .. Capacity - 1
      /\ row \in -1 .. Rows - 1
      /\ isScrolledUp \in BOOLEAN /\ isMessagePending \in BOOLEAN
      /\ notice \in BOOLEAN /\ erased \in BOOLEAN
      /\ reloaded \in BOOLEAN /\ lapped \in BOOLEAN /\ narrow \in BOOLEAN
      /\ status = "running"
  BY DEF IInv, TypeOK, AddLine
<1>2. /\ added' = added + 1 /\ Stored(long)
      /\ tail' = IF IsFull THEN (tail + 1) % Capacity ELSE tail
      /\ count' = IF IsFull THEN count ELSE count + 1
      /\ head' = (head + 1) % Capacity
      /\ Follow
      /\ status' = status /\ isScrolledUp' = isScrolledUp
      /\ erased' = erased /\ reloaded' = reloaded /\ narrow' = narrow
  BY DEF AddLine, Added
<1>3. count' \in 0 .. Capacity /\ added' \in 1 .. MaxLines
  BY <1>1, <1>2, Sizes DEF IsFull
<1>4. head' \in Slots /\ tail' \in Slots /\ topLine' \in Slots
  <2>1. /\ (head + 1) % Capacity \in Slots /\ (tail + 1) % Capacity \in Slots
        /\ (topLine + 1) % Capacity \in Slots
    BY <1>1, Remainders DEF Slots
  <2>2. QED
    BY <1>1, <1>2, <2>1 DEF Follow
<1>5. TypeOK'
  <2>1. buffer' \in [Slots -> -MaxLines .. MaxLines] /\ isLong' \in [Slots -> BOOLEAN]
    <3>1. (IF isLong[head] /\ ~long THEN -added' ELSE added') \in -MaxLines .. MaxLines
      <4>1. \A n \in 1 .. MaxLines : -n \in -MaxLines .. MaxLines /\ n \in -MaxLines .. MaxLines
        BY Sizes
      <4>2. -added' \in -MaxLines .. MaxLines /\ added' \in -MaxLines .. MaxLines
        BY <1>3, <4>1, Zenon
      <4>3. QED
        BY <4>2, Zenon
    <3>2. buffer \in [Slots -> -MaxLines .. MaxLines] /\ isLong \in [Slots -> BOOLEAN]
      BY DEF IInv, TypeOK
    <3>3. buffer' \in [Slots -> -MaxLines .. MaxLines]
      BY <1>1, <1>2, <3>1, <3>2 DEF Stored
    <3>4. isLong' \in [Slots -> BOOLEAN]
      BY <1>1, <1>2, <3>2 DEF Stored
    <3>5. QED
      BY <3>3, <3>4
  <2>2. bottomLine' \in 1 - Capacity .. Capacity - 1
    BY <1>1, <1>2, <1>4, Sizes DEF Follow, Slots
  <2>3. /\ screen' \in [0 .. Rows - 1 -> -MaxLines .. Rest] /\ row' \in -1 .. Rows - 1
        /\ wrapped' \in BOOLEAN
    <3>1. /\ screen \in [0 .. Rows - 1 -> -MaxLines .. Rest] /\ wrapped \in BOOLEAN
          /\ narrow \in BOOLEAN /\ TypeOK
      BY DEF IInv, TypeOK
    <3>2. CASE isScrolledUp
      BY <1>1, <3>1, <3>2 DEF AddLine, window
    <3>3. CASE ~isScrolledUp
      <4>1. added' \in -MaxLines .. Rest
        BY <1>3, Sizes DEF Rest
      <4>2. Drawn(WithNewLine(added'), Below(row), narrow /\ long) /\ wrapped' \in BOOLEAN
        BY <3>1, <3>3 DEF AddLine, Printed
      <4>3. /\ WithNewLine(added') \in [0 .. Rows - 1 -> -MaxLines .. Rest]
            /\ Below(row) \in -1 .. Rows - 1 /\ Below(row) >= 0
        <5>1. Below(row) \in 0 .. Rows - 1
          BY <3>1, <4>1, NewLineCells
        <5>2. WithNewLine(added') \in [0 .. Rows - 1 -> -MaxLines .. Rest]
          BY <3>1, <4>1, NewLineCells
        <5>3. QED
          BY <5>1, <5>2, Sizes
      <4>4. (narrow /\ long) \in BOOLEAN
        OBVIOUS
      <4>5. QED
        BY <4>2, <4>3, <4>4, DrawnCells
    <3>4. QED
      BY <1>1, <3>2, <3>3
  <2>4. isMessagePending' \in BOOLEAN /\ notice' \in BOOLEAN /\ lapped' \in BOOLEAN
    BY DEF AddLine, Added, Notified
  <2>5. /\ status' \in {"running", "looping", "undefined"}
        /\ added' \in 0 .. MaxLines /\ reloaded' \in BOOLEAN /\ narrow' \in BOOLEAN
        /\ {isScrolledUp', isMessagePending', notice', erased'} \subseteq BOOLEAN
    BY <1>1, <1>2, <1>3, <2>4
  <2>6. QED
    BY <1>3, <1>4, <2>1, <2>2, <2>3, <2>4, <2>5 DEF TypeOK
<1>6. ASSUME count' < Capacity
      PROVE  /\ count < Capacity /\ count' = count + 1
             /\ tail' = 0 /\ head = count /\ head' = count'
             /\ topLine <= bottomLine /\ bottomLine <= head
  <2>1. count < Capacity /\ count' = count + 1
    BY <1>1, <1>2, <1>6, Sizes DEF IsFull
  <2>2. tail = 0 /\ head = count /\ topLine <= bottomLine /\ bottomLine <= head
    BY <2>1 DEF IInv, ViewOrdered
  <2>3. head + 1 \in Slots
    BY <1>1, <1>6, <2>1, <2>2, Sizes DEF Slots
  <2>4. (head + 1) % Capacity = head + 1
    BY <2>3, Remainders DEF Slots
  <2>5. QED
    BY <1>1, <1>2, <2>1, <2>2, <2>4 DEF IsFull
<1>7. ASSUME count' < Capacity, ~isScrolledUp
      PROVE  /\ bottomLine' = count'
             /\ topLine' = IF count' > Rows THEN topLine + 1 ELSE topLine
  <2>1. topLine + 1 \in Slots
    BY <1>1, <1>6, <1>7, Sizes DEF Slots
  <2>2. (topLine + 1) % Capacity = topLine + 1
    BY <2>1, Remainders DEF Slots
  <2>3. QED
    BY <1>2, <1>6, <1>7, <2>2 DEF Follow
<1>8. ViewOrdered'
  <2> SUFFICES ASSUME count' < Capacity
               PROVE  /\ status' = "running" /\ tail' = 0 /\ head' = count'
                      /\ topLine' <= bottomLine' /\ bottomLine' <= head'
    BY Zenon DEF ViewOrdered
  <2>1. CASE isScrolledUp
    BY <1>1, <1>2, <1>6, <2>1 DEF Follow, Slots
  <2>2. CASE ~isScrolledUp
    BY <1>1, <1>2, <1>6, <1>7, <2>2 DEF Slots
  <2>3. QED
    BY <2>1, <2>2
<1>9. ViewFollows'
  <2> SUFFICES ASSUME count' < Capacity, ~reloaded'
               PROVE  /\ bottomLine' - topLine' = Min({Rows, count'})
                      /\ IF isScrolledUp' THEN count' >= Rows ELSE bottomLine' = head'
    BY Zenon DEF ViewFollows
  <2>1. /\ bottomLine - topLine = Min({Rows, count})
        /\ IF isScrolledUp THEN count >= Rows ELSE bottomLine = head
    BY <1>2, <1>6 DEF IInv, ViewFollows
  <2>2. /\ Min({Rows, count}) = IF Rows <= count THEN Rows ELSE count
        /\ Min({Rows, count'}) = IF Rows <= count' THEN Rows ELSE count'
    BY <1>1, <1>3, MinOfTwo, Sizes
  <2>3. CASE isScrolledUp
    BY <1>1, <1>2, <1>6, <2>1, <2>2, <2>3, Sizes DEF Follow, Slots
  <2>4. CASE ~isScrolledUp
    BY <1>1, <1>2, <1>6, <1>7, <2>1, <2>2, <2>4, Sizes DEF Slots
  <2>5. QED
    BY <2>3, <2>4
<1>10. ErasedUnread' /\ (notice' = (isMessagePending' /\ ~erased'))
       /\ (isMessagePending' => isScrolledUp')
  BY <1>1, Zenon DEF IInv, ErasedUnread, NoticeTellsUnread, AddLine, Added, Notified
<1>11. isMessagePending' /\ count' < Capacity /\ ~reloaded' => BottomLines' > 0
  <2> SUFFICES ASSUME isMessagePending', count' < Capacity, ~reloaded'
               PROVE  BottomLines' > 0
    BY Zenon
  <2>1. isScrolledUp
    BY <1>2, <1>10
  <2>2. bottomLine' = bottomLine
    BY <1>2, <2>1 DEF Follow
  <2>3. /\ bottomLine >= 0
        /\ head' - bottomLine \in Slots /\ head' - bottomLine > 0
    BY <1>1, <1>4, <1>6, Sizes DEF Slots
  <2>4. (head' - bottomLine) % Capacity = head' - bottomLine
    BY <2>3, Remainders DEF Slots
  <2>5. BottomLines' = head' - bottomLine
    BY <1>1, <2>2, <2>3, <2>4 DEF BottomLines
  <2>6. QED
    BY <2>3, <2>5
<1>12. NoticeTellsUnread'
  BY <1>10, <1>11, Zenon DEF NoticeTellsUnread
<1>13. QED
  BY <1>5, <1>8, <1>9, <1>10, <1>12 DEF IInv

\* A scroll up leaves the view as it is, at the top or in a step into what is not
\* defined, which needs a full buffer; or it moves the view by whole lines.
LEMMA ScrollUpCases ==
  ASSUME IInv, NEW rows \in 1 .. Rows, ScrollUp(rows)
  PROVE  LET shift == Min({rows, TopLines})
         IN \/ /\ UNCHANGED <<view, window>>
               /\ status' \in {"running", "looping", "undefined"}
               /\ count < Capacity => status' = status
            \/ /\ ScrollUpBy(shift)
               /\ shift \in 1 .. Rows /\ shift <= topLine
<1> DEFINE shift == Min({rows, TopLines})
<1>1. /\ topLine \in Slots /\ tail \in Slots /\ status = "running"
      /\ rows \in Int /\ Rows \in Nat \ {0} /\ Capacity \in Nat \ {0}
  BY Sizes DEF IInv, TypeOK, ScrollUp
<1>2. TopLines \in Int /\ TopLines = topLine - tail
  BY <1>1 DEF TopLines, Slots
<1>3. shift = IF rows <= TopLines THEN rows ELSE TopLines
  BY <1>1, <1>2, MinOfTwo
<1>4. count < Capacity => TopCountEnds /\ shift <= topLine
  <2>1. count < Capacity => tail = 0
    BY DEF IInv, ViewOrdered
  <2>2. QED
    BY <1>1, <1>2, <1>3, <2>1 DEF TopCountEnds, Slots
<1>5. CASE ~TopCountEnds
  BY <1>4, <1>5 DEF ScrollUp
<1>6. CASE TopCountEnds /\ TopLines = 0
  BY <1>1, <1>6 DEF ScrollUp
<1>7. CASE TopCountEnds /\ TopLines # 0 /\ topLine < shift
  <2>1. ~(count < Capacity)
    BY <1>1, <1>2, <1>3, <1>4, <1>7 DEF Slots
  <2>2. QED
    BY <1>7, <2>1 DEF ScrollUp
<1>8. CASE TopCountEnds /\ TopLines # 0 /\ ~(topLine < shift)
  <2>1. ScrollUpBy(shift)
    BY <1>8 DEF ScrollUp
  <2>2. TopLines > 0
    BY <1>1, <1>2, <1>8 DEF TopCountEnds, Slots
  <2>3. shift \in 1 .. Rows /\ shift <= topLine
    BY <1>1, <1>2, <1>3, <1>8, <2>2 DEF Slots
  <2>4. QED
    BY <2>1, <2>3
<1>9. QED
  BY <1>5, <1>6, <1>7, <1>8

\* Scrolling up moves both ends of the view by the same number of lines.
LEMMA ScrollUpKeeps ==
  ASSUME IInv, NEW rows \in 1 .. Rows, ScrollUp(rows)
  PROVE  IInv'
<1> DEFINE shift == Min({rows, TopLines})
<1>1. UNCHANGED <<ring, unread, narrow, reloaded, lapped>>
  BY DEF ScrollUp
<1>2. CASE /\ UNCHANGED <<view, window>>
           /\ status' \in {"running", "looping", "undefined"}
           /\ count < Capacity => status' = status
  <2>1. UNCHANGED <<buffer, isLong, tail, head, count, added, topLine, bottomLine,
                    isScrolledUp, isMessagePending, notice, erased, screen, row,
                    narrow, reloaded, lapped, wrapped>>
    BY <1>1, <1>2 DEF ring, view, unread, window
  <2>2. TypeOK'
    BY <1>2, <2>1 DEF IInv, TypeOK
  <2>3. ViewOrdered' /\ ViewFollows' /\ ErasedUnread' /\ NoticeTellsUnread'
    BY <1>2, <2>1 DEF IInv, ViewOrdered, ViewFollows, ErasedUnread, NoticeTellsUnread,
                      BottomLines
  <2>4. QED
    BY <2>2, <2>3 DEF IInv
<1>3. CASE ScrollUpBy(shift) /\ shift \in 1 .. Rows /\ shift <= topLine
  <2> HIDE DEF shift
  <2>1. UNCHANGED <<status, buffer, isLong, tail, head, count, added, isMessagePending,
                    notice, erased, narrow, reloaded, lapped>>
    BY <1>1, <1>3 DEF ScrollUpBy, ring, unread
  <2>2. /\ isScrolledUp' = TRUE /\ row' \in {0, Below(0)}
        /\ topLine' = topLine - shift
        /\ bottomLine' = CRem(bottomLine - shift)
    BY <1>3 DEF ScrollUpBy
  <2>3. /\ topLine \in Slots /\ head \in Slots /\ count \in 0 .. Capacity
        /\ bottomLine \in 1 - Capacity .. Capacity - 1
        /\ screen \in [0 .. Rows - 1 -> -MaxLines .. Rest]
        /\ buffer \in [Slots -> -MaxLines .. MaxLines]
        /\ wrapped \in BOOLEAN /\ narrow \in BOOLEAN
    BY DEF IInv, TypeOK
  <2>4. TypeOK'
    <3>1. topLine' \in Slots /\ row' \in -1 .. Rows - 1
      BY <1>3, <2>2, <2>3, Sizes DEF Slots, Below
    <3>2. bottomLine - shift \in Int
      BY <1>3, <2>3, Sizes
    <3>3. bottomLine' \in 1 - Capacity .. Capacity - 1
      BY <2>2, <3>2, Remainders
    <3>4. screen' \in [0 .. Rows - 1 -> -MaxLines .. Rest]
      <4>1. ASSUME NEW r \in 0 .. Rows - 1, r < shift
            PROVE  buffer[topLine - shift + r] \in -MaxLines .. Rest
        <5>1. topLine - shift + r \in Slots
          BY <1>3, <2>3, <4>1, Sizes DEF Slots
        <5>2. -MaxLines .. MaxLines \subseteq -MaxLines .. Rest
          BY Sizes DEF Rest
        <5>3. QED
          BY <2>3, <5>1, <5>2
      <4>2. 0 \in -MaxLines .. Rest /\ Rest \in -MaxLines .. Rest
        BY Sizes DEF Rest
      <4>3. \A r \in 0 .. Rows - 1 : Scrolled(-shift)[r] \in -MaxLines .. Rest
        BY <2>3, <4>2 DEF Scrolled, NoLine
      <4>4. /\ screen' = [r \in 0 .. Rows - 1 |-> screen'[r]]
            /\ \A r \in 0 .. Rows - 1 :
                 screen'[r] \in {Rest, IF r < shift THEN buffer[topLine - shift + r]
                                       ELSE Scrolled(-shift)[r]}
        BY <1>3 DEF ScrollUpBy
      <4>5. QED
        BY <4>1, <4>2, <4>3, <4>4
    <3>5. wrapped' \in BOOLEAN
      BY <1>3 DEF ScrollUpBy, Wraps
    <3>6. QED
      BY <2>1, <2>2, <3>1, <3>3, <3>4, <3>5 DEF IInv, TypeOK
  <2>5. ASSUME count < Capacity
        PROVE  /\ bottomLine' = bottomLine - shift
               /\ 0 <= bottomLine'
               /\ topLine <= bottomLine /\ bottomLine <= head /\ head = count
    <3>1. topLine <= bottomLine /\ bottomLine <= head /\ head = count
      BY <2>5 DEF IInv, ViewOrdered
    <3>2. bottomLine - shift \in Slots
      BY <1>3, <2>3, <3>1, Sizes DEF Slots
    <3>3. QED
      BY <2>2, <3>1, <3>2, Remainders DEF Slots
  <2>6. ViewOrdered'
    <3> SUFFICES ASSUME count' < Capacity
                 PROVE  /\ status' = "running" /\ tail' = 0 /\ head' = count'
                        /\ topLine' <= bottomLine' /\ bottomLine' <= head'
      BY Zenon DEF ViewOrdered
    <3>1. status = "running" /\ tail = 0 /\ head = count
      BY <2>1 DEF IInv, ViewOrdered
    <3>2. topLine' <= bottomLine' /\ bottomLine' <= head'
      BY <1>3, <2>1, <2>2, <2>3, <2>5, Sizes DEF Slots
    <3>3. QED
      BY <2>1, <3>1, <3>2
  <2>7. ViewFollows'
    <3> SUFFICES ASSUME count' < Capacity, ~reloaded'
                 PROVE  /\ bottomLine' - topLine' = Min({Rows, count'})
                        /\ count' >= Rows
      BY <2>2, Zenon DEF ViewFollows
    <3>1. bottomLine - topLine = Min({Rows, count})
      BY <2>1 DEF IInv, ViewFollows
    <3>2. Min({Rows, count}) = IF Rows <= count THEN Rows ELSE count
      <4>1. Rows \in Int /\ count \in Int
        BY <2>3, Sizes
      <4>2. QED
        BY <4>1, MinOfTwo
    <3>3. count >= Rows
      BY <1>3, <2>1, <2>3, <2>5, <3>1, <3>2, Sizes DEF Slots
    <3>4. bottomLine' - topLine' = bottomLine - topLine
      BY <1>3, <2>1, <2>2, <2>3, <2>5, Sizes DEF Slots
    <3>5. QED
      BY <2>1, <3>1, <3>3, <3>4
  <2>8. ErasedUnread'
    BY <2>1 DEF IInv, ErasedUnread
  <2>9. NoticeTellsUnread'
    <3>1. ASSUME isMessagePending', count' < Capacity, ~reloaded'
          PROVE  BottomLines' > 0
      <4>1. BottomLines > 0
        BY <2>1, <3>1 DEF IInv, NoticeTellsUnread
      <4>2. BottomLines = head - bottomLine
        BY <2>1, <3>1, LinesBelow
      <4>3. head - bottomLine' \in Slots /\ head - bottomLine' > 0
        BY <1>3, <2>1, <2>3, <2>5, <3>1, <4>1, <4>2, Sizes DEF Slots
      <4>4. (head - bottomLine') % Capacity = head - bottomLine'
        BY <4>3, Remainders DEF Slots
      <4>5. BottomLines' = head - bottomLine'
        BY <2>1, <2>3, <2>5, <3>1, <4>4 DEF BottomLines, Slots
      <4>6. QED
        BY <4>3, <4>5
    <3>2. notice' = (isMessagePending' /\ ~erased')
      BY <2>1 DEF IInv, NoticeTellsUnread
    <3>3. QED
      BY <2>2, <3>1, <3>2, Zenon DEF NoticeTellsUnread
  <2>10. QED
    BY <2>4, <2>6, <2>7, <2>8, <2>9 DEF IInv
<1>4. QED
  BY <1>2, <1>3, ScrollUpCases

\* The window that is shifted for lines below it.
LEMMA LowerCells ==
  ASSUME screen \in [0 .. Rows - 1 -> -MaxLines .. Rest],
         buffer \in [Slots -> -MaxLines .. MaxLines],
         bottomLine \in Slots, NEW shift \in 1 .. Rows
  PROVE  WithLinesBelow(shift) \in [0 .. Rows - 1 -> -MaxLines .. Rest]
<1>1. ASSUME NEW r \in 0 .. Rows - 1, r >= Rows - shift
      PROVE  buffer[CRem(bottomLine + r - (Rows - shift))] \in -MaxLines .. Rest
  <2>1. /\ bottomLine + r - (Rows - shift) \in Int
        /\ bottomLine + r - (Rows - shift) >= 0
    BY <1>1, Sizes DEF Slots
  <2>2. CRem(bottomLine + r - (Rows - shift)) \in Slots
    BY <2>1, Remainders
  <2>3. -MaxLines .. MaxLines \subseteq -MaxLines .. Rest
    BY Sizes DEF Rest
  <2>4. QED
    BY <2>2, <2>3
<1>2. 0 \in -MaxLines .. Rest
  BY Sizes DEF Rest
<1>3. \A r \in 0 .. Rows - 1 : Scrolled(shift)[r] \in -MaxLines .. Rest
  BY <1>2 DEF Scrolled, NoLine
<1>4. QED
  BY <1>1, <1>3 DEF WithLinesBelow

\* Scrolling down does so too, and takes the notice away at the newest line.
LEMMA ScrollDownKeeps ==
  ASSUME IInv, NEW rows \in 1 .. Rows, ScrollDown(rows)
  PROVE  IInv'
<1> DEFINE shift == Min({rows, BottomLines})
<1>1. /\ UNCHANGED <<ring, narrow, reloaded, lapped>>
      /\ status = "running"
  BY DEF ScrollDown
<1>2. CASE UNCHANGED <<view, unread, window>> /\ (count < Capacity => status' = status)
           /\ status' \in {"running", "undefined"}
  <2>1. UNCHANGED <<buffer, isLong, tail, head, count, added, topLine, bottomLine,
                    isScrolledUp, isMessagePending, notice, erased, screen, row,
                    narrow, reloaded, lapped, wrapped>>
    BY <1>1, <1>2 DEF ring, view, unread, window
  <2>2. TypeOK'
    BY <1>2, <2>1 DEF IInv, TypeOK
  <2>3. ViewOrdered' /\ ViewFollows' /\ ErasedUnread' /\ NoticeTellsUnread'
    BY <1>2, <2>1 DEF IInv, ViewOrdered, ViewFollows, ErasedUnread, NoticeTellsUnread,
                      BottomLines
  <2>4. QED
    BY <2>2, <2>3 DEF IInv
<1>3. CASE /\ BottomLines # 0 /\ bottomLine >= 0
           /\ ScrollDownBy(shift) /\ UNCHANGED status
  <2>1. UNCHANGED <<status, buffer, isLong, tail, head, count, added, narrow, reloaded, lapped>>
    BY <1>1, <1>3 DEF ring
  <2>2. /\ topLine \in Slots /\ head \in Slots /\ count \in 0 .. Capacity
        /\ bottomLine \in Slots
        /\ screen \in [0 .. Rows - 1 -> -MaxLines .. Rest]
        /\ buffer \in [Slots -> -MaxLines .. MaxLines]
        /\ isScrolledUp \in BOOLEAN /\ isMessagePending \in BOOLEAN
        /\ notice \in BOOLEAN /\ erased \in BOOLEAN
    BY <1>3, Sizes DEF IInv, TypeOK, Slots
  <2>3. BottomLines \in Nat \ {0} /\ (count < Capacity => BottomLines = head - bottomLine)
    BY <1>3, LinesBelow
  <2>4. shift \in 1 .. Rows /\ shift <= BottomLines
    <3>1. shift = IF rows <= BottomLines THEN rows ELSE BottomLines
      BY <2>3, MinOfTwo
    <3>2. QED
      BY <2>3, <3>1, Sizes
  <2> HIDE DEF shift
  <2>5. /\ Drawn(WithLinesBelow(shift), Rows - 1, Spills(CRem(bottomLine + shift - 1)))
        /\ topLine' = (topLine + shift) % Capacity
        /\ bottomLine' = CRem(bottomLine + shift)
        /\ wrapped' \in BOOLEAN
        /\ IF Arrived(shift) THEN Arrive ELSE UNCHANGED <<isScrolledUp, unread>>
    BY <1>3 DEF ScrollDownBy, Wraps
  <2>6. /\ ErasedUnread' /\ notice' = (isMessagePending' /\ ~erased')
        /\ (isMessagePending' => isScrolledUp')
        /\ isScrolledUp' \in BOOLEAN /\ isMessagePending' \in BOOLEAN
        /\ notice' \in BOOLEAN /\ erased' \in BOOLEAN
    <3>1. CASE Arrived(shift)
      BY <2>2, <2>5, <3>1, Zenon DEF IInv, ErasedUnread, NoticeTellsUnread, Arrive
    <3>2. CASE ~Arrived(shift)
      BY <2>2, <2>5, <3>2, Zenon DEF IInv, ErasedUnread, NoticeTellsUnread, unread
    <3>3. QED
      BY <3>1, <3>2
  <2>7. TypeOK'
    <3>1. topLine + shift \in Int /\ bottomLine + shift \in Int
      BY <2>2, <2>4, Sizes DEF Slots
    <3>2. topLine' \in Slots /\ bottomLine' \in 1 - Capacity .. Capacity - 1
      BY <2>5, <3>1, Remainders
    <3>3. WithLinesBelow(shift) \in [0 .. Rows - 1 -> -MaxLines .. Rest]
      BY <2>2, <2>4, LowerCells
    <3>4. row' \in -1 .. Rows - 1 /\ screen' \in [0 .. Rows - 1 -> -MaxLines .. Rest]
      <4>1. Spills(CRem(bottomLine + shift - 1)) \in BOOLEAN
        BY DEF Spills, SpillsIn
      <4>2. Rows - 1 \in -1 .. Rows - 1 /\ Rows - 1 >= 0
        BY Sizes
      <4>3. QED
        BY <2>5, <3>3, <4>1, <4>2, DrawnCells
    <3>5. QED
      BY <2>1, <2>5, <2>6, <3>2, <3>4 DEF IInv, TypeOK
  <2>8. ASSUME count < Capacity
        PROVE  /\ bottomLine' = bottomLine + shift /\ topLine' = topLine + shift
               /\ topLine <= bottomLine /\ bottomLine + shift <= head /\ head = count
    <3>1. topLine <= bottomLine /\ bottomLine <= head /\ head = count
      BY <2>8 DEF IInv, ViewOrdered
    <3>2. /\ bottomLine + shift <= head
          /\ topLine + shift \in Slots /\ bottomLine + shift \in Slots
      BY <2>2, <2>3, <2>4, <2>8, <3>1, Sizes DEF Slots
    <3>3. /\ (topLine + shift) % Capacity = topLine + shift
          /\ CRem(bottomLine + shift) = bottomLine + shift
      BY <3>2, Remainders DEF Slots
    <3>4. QED
      BY <2>5, <3>1, <3>2, <3>3
  <2>9. ViewOrdered'
    <3> SUFFICES ASSUME count' < Capacity
                 PROVE  /\ status' = "running" /\ tail' = 0 /\ head' = count'
                        /\ topLine' <= bottomLine' /\ bottomLine' <= head'
      BY Zenon DEF ViewOrdered
    <3>1. status = "running" /\ tail = 0 /\ head = count
      BY <2>1 DEF IInv, ViewOrdered
    <3>2. topLine' <= bottomLine' /\ bottomLine' <= head'
      BY <2>1, <2>2, <2>4, <2>8, Sizes DEF Slots
    <3>3. QED
      BY <2>1, <3>1, <3>2
  <2>10. ViewFollows'
    <3> SUFFICES ASSUME count' < Capacity, ~reloaded'
                 PROVE  /\ bottomLine' - topLine' = Min({Rows, count'})
                        /\ IF isScrolledUp' THEN count' >= Rows ELSE bottomLine' = head'
      BY Zenon DEF ViewFollows
    <3>1. /\ bottomLine - topLine = Min({Rows, count})
          /\ IF isScrolledUp THEN count >= Rows ELSE bottomLine = head
      BY <2>1 DEF IInv, ViewFollows
    <3>2. bottomLine' - topLine' = bottomLine - topLine
      BY <2>1, <2>2, <2>4, <2>8, Sizes DEF Slots
    <3>3. isScrolledUp
      BY <1>3, <2>1, <2>2, <2>3, <3>1 DEF Slots
    <3>4. CASE Arrived(shift)
      <4>1. isScrolledUp' = FALSE
        BY <2>5, <3>4 DEF Arrive
      <4>2. bottomLine' = head'
        BY <2>1, <2>2, <2>3, <2>8, <3>4 DEF Arrived, Slots
      <4>3. QED
        BY <2>1, <3>1, <3>2, <4>1, <4>2
    <3>5. CASE ~Arrived(shift)
      <4>1. isScrolledUp' = isScrolledUp
        BY <2>5, <3>5
      <4>2. QED
        BY <2>1, <3>1, <3>2, <3>3, <4>1
    <3>6. QED
      BY <3>4, <3>5
  <2>11. NoticeTellsUnread'
    <3>1. ASSUME isMessagePending', count' < Capacity, ~reloaded'
          PROVE  BottomLines' > 0
      <4>1. ~Arrived(shift)
        BY <2>5, <3>1, Zenon DEF Arrive
      <4>2. head - bottomLine' \in Slots /\ head - bottomLine' > 0 /\ bottomLine' >= 0
        BY <2>1, <2>2, <2>3, <2>4, <2>8, <3>1, <4>1, Sizes DEF Arrived, Slots
      <4>3. (head - bottomLine') % Capacity = head - bottomLine'
        BY <4>2, Remainders DEF Slots
      <4>4. BottomLines' = head - bottomLine'
        BY <2>1, <2>2, <2>4, <2>8, <3>1, <4>2, <4>3 DEF BottomLines, Slots
      <4>5. QED
        BY <4>2, <4>4
    <3>2. QED
      BY <2>6, <3>1, Zenon DEF NoticeTellsUnread
  <2>12. QED
    BY <2>6, <2>7, <2>9, <2>10, <2>11 DEF IInv
<1>4. QED
  <2>1. \/ UNCHANGED <<status, view, unread, window>>
        \/ bottomLine < 0 /\ status' = "undefined" /\ UNCHANGED <<view, unread, window>>
        \/ /\ BottomLines # 0 /\ ~(bottomLine < 0)
           /\ ScrollDownBy(shift) /\ UNCHANGED status
    BY DEF ScrollDown
  <2>2. bottomLine < 0 => ~(count < Capacity)
    BY DEF IInv, TypeOK, ViewOrdered, Slots
  <2>3. ~(bottomLine < 0) => bottomLine >= 0
    BY Sizes DEF IInv, TypeOK
  <2>4. QED
    BY <1>1, <1>2, <1>3, <2>1, <2>2, <2>3

\* A redraw of a view that begins with slot 0 leaves it as it is; any other is
\* recorded as reloaded, and its new end is not above the newest line.
LEMMA ResizeKeeps ==
  ASSUME IInv, Resize
  PROVE  IInv'
<1> DEFINE shown == {r \in 0 .. Rows - 1 : Reloaded(r)}
           last == Cardinality(shown) - 1
           spills == last \in shown /\ SpillsIn(narrow', topLine + last)
<1>1. /\ UNCHANGED <<status, buffer, isLong, tail, head, count, added, topLine,
                     isScrolledUp, isMessagePending, lapped>>
      /\ narrow' \in BOOLEAN /\ wrapped' \in BOOLEAN /\ reloaded' \in BOOLEAN
      /\ reloaded \/ topLine # 0 => reloaded'
      /\ notice' = FALSE /\ erased' = isMessagePending
      /\ bottomLine' = IF shown = {} THEN bottomLine ELSE Min({Rows, head}) % Capacity
      /\ Drawn(WithLinesFromTop, last, spills)
  BY DEF Resize, ring
<1>2. /\ topLine \in Slots /\ head \in Slots /\ count \in 0 .. Capacity
      /\ bottomLine \in 1 - Capacity .. Capacity - 1
      /\ buffer \in [Slots -> -MaxLines .. MaxLines]
  BY DEF IInv, TypeOK
<1>3. Min({Rows, head}) = IF Rows <= head THEN Rows ELSE head
  BY <1>2, MinOfTwo, Sizes DEF Slots
<1>4. Min({Rows, head}) \in Slots /\ Min({Rows, head}) <= head
  BY <1>2, <1>3, Sizes DEF Slots
<1>5. bottomLine' = IF shown = {} THEN bottomLine ELSE Min({Rows, head})
  <2>1. Min({Rows, head}) % Capacity = Min({Rows, head})
    BY <1>4, Remainders DEF Slots
  <2>2. QED
    BY <1>1, <2>1, Zenon
<1>6. \A r \in shown : topLine + r \in Slots /\ topLine + r < Min({Rows, head})
  BY <1>2, <1>3, Sizes DEF Reloaded, Slots
<1>7. TypeOK'
  <2>1. bottomLine' \in 1 - Capacity .. Capacity - 1
    BY <1>2, <1>4, <1>5, Sizes DEF Slots
  <2>2. last \in -1 .. Rows - 1
    <3>1. IsFiniteSet(0 .. Rows - 1) /\ Cardinality(0 .. Rows - 1) = Rows
      BY FS_Interval, Sizes
    <3>2. shown \in SUBSET (0 .. Rows - 1)
      OBVIOUS
    <3>3. IsFiniteSet(shown) /\ Cardinality(shown) <= Rows
      <4>1. \A T \in SUBSET (0 .. Rows - 1) :
              IsFiniteSet(T) /\ Cardinality(T) <= Cardinality(0 .. Rows - 1)
        BY <3>1, FS_Subset, Zenon
      <4>2. QED
        BY <3>1, <3>2, <4>1, Zenon
    <3>4. Cardinality(shown) \in Nat
      BY <3>3, FS_CardinalityType
    <3>5. QED
      BY <3>3, <3>4, Sizes
  <2>3. WithLinesFromTop \in [0 .. Rows - 1 -> -MaxLines .. Rest]
    <3>1. 0 \in -MaxLines .. Rest /\ -MaxLines .. MaxLines \subseteq -MaxLines .. Rest
      BY Sizes DEF Rest
    <3>2. QED
      BY <1>2, <1>6, <3>1 DEF NoLine, WithLinesFromTop
  <2>4. screen' \in [0 .. Rows - 1 -> -MaxLines .. Rest] /\ row' \in -1 .. Rows - 1
    <3>1. spills \in BOOLEAN /\ (spills => last >= 0)
      <4>1. spills => last \in 0 .. Rows - 1
        OBVIOUS
      <4>2. QED
        BY <2>2, <4>1
    <3> HIDE DEF last, spills
    <3>2. QED
      BY <1>1, <2>2, <2>3, <3>1, DrawnCells
  <2>5. notice' \in BOOLEAN /\ erased' \in BOOLEAN
    BY <1>1 DEF IInv, TypeOK
  <2>6. QED
    BY <1>1, <2>1, <2>4, <2>5 DEF IInv, TypeOK
<1>8. ViewOrdered'
  <2> SUFFICES ASSUME count' < Capacity
               PROVE  /\ status' = "running" /\ tail' = 0 /\ head' = count'
                      /\ topLine' <= bottomLine' /\ bottomLine' <= head'
    BY Zenon DEF ViewOrdered
  <2>1. /\ status = "running" /\ tail = 0 /\ head = count
        /\ topLine <= bottomLine /\ bottomLine <= head
    BY <1>1 DEF IInv, ViewOrdered
  <2>2. ASSUME NEW r \in shown
        PROVE  topLine <= Min({Rows, head})
    <3>1. r \in Nat /\ topLine + r < Min({Rows, head})
      BY <1>6
    <3>2. QED
      BY <1>2, <1>4, <3>1 DEF Slots
  <2>3. topLine <= bottomLine' /\ bottomLine' <= head
    BY <1>4, <1>5, <2>1, <2>2
  <2>4. QED
    BY <1>1, <2>1, <2>3
<1>9. ASSUME count < Capacity, topLine = 0, ~reloaded
      PROVE  bottomLine' = bottomLine
  <2>1. bottomLine = Min({Rows, head})
    <3>1. bottomLine - topLine = Min({Rows, count}) /\ head = count
      BY <1>9 DEF IInv, ViewFollows, ViewOrdered
    <3>2. QED
      BY <1>2, <1>4, <1>9, <3>1 DEF Slots
  <2>2. QED
    BY <1>5, <2>1
<1>10. ViewFollows'
  <2> SUFFICES ASSUME count' < Capacity, ~reloaded'
               PROVE  /\ bottomLine' - topLine' = Min({Rows, count'})
                      /\ IF isScrolledUp' THEN count' >= Rows ELSE bottomLine' = head'
    BY Zenon DEF ViewFollows
  <2>1. bottomLine' = bottomLine /\ ~reloaded
    BY <1>1, <1>9
  <2>2. QED
    BY <1>1, <2>1 DEF IInv, ViewFollows
<1>11. ErasedUnread'
  BY <1>1 DEF ErasedUnread
<1>12. NoticeTellsUnread'
  <2>1. notice' = (isMessagePending' /\ ~erased') /\ (isMessagePending' => isScrolledUp')
    BY <1>1, Zenon DEF IInv, NoticeTellsUnread
  <2>2. ASSUME isMessagePending', count' < Capacity, ~reloaded'
        PROVE  BottomLines' > 0
    <3>1. bottomLine' = bottomLine /\ ~reloaded
      BY <1>1, <1>9, <2>2
    <3>2. BottomLines' = BottomLines
      BY <1>1, <3>1 DEF BottomLines
    <3>3. QED
      BY <1>1, <2>2, <3>1, <3>2 DEF IInv, NoticeTellsUnread
  <2>3. QED
    BY <2>1, <2>2, Zenon DEF NoticeTellsUnread
<1>13. QED
  BY <1>7, <1>8, <1>10, <1>11, <1>12 DEF IInv

\* A step that changes nothing.
LEMMA StutterKeeps ==
  ASSUME IInv, UNCHANGED vars
  PROVE  IInv'
<1>1. UNCHANGED <<status, buffer, isLong, tail, head, count, added, topLine, bottomLine,
                  isScrolledUp, isMessagePending, notice, erased, screen, row,
                  narrow, reloaded, lapped, wrapped>>
  BY DEF vars, ring, view, unread, window
<1>2. TypeOK'
  BY <1>1 DEF IInv, TypeOK
<1>3. ViewOrdered' /\ ViewFollows' /\ ErasedUnread' /\ NoticeTellsUnread'
  BY <1>1 DEF IInv, ViewOrdered, ViewFollows, ErasedUnread, NoticeTellsUnread, BottomLines
<1>4. QED
  BY <1>2, <1>3 DEF IInv

------------------------------------------------------------------------------
(* The theorems *)

\* The invariant is inductive.
THEOREM Inductive == Spec => []IInv
<1>1. ASSUME IInv, [Next]_vars
      PROVE  IInv'
  <2>1. 1 \in 1 .. Rows /\ Rows \in 1 .. Rows
    BY Sizes
  <2>2. ASSUME NEW long \in BOOLEAN, AddLine(long)
        PROVE  IInv'
    BY <1>1, <2>2, AddLineKeeps
  <2>3. CASE ScrollLineUp \/ ScrollPageUp
    BY <1>1, <2>1, <2>3, ScrollUpKeeps DEF ScrollLineUp, ScrollPageUp
  <2>4. CASE ScrollLineDown \/ ScrollPageDown
    BY <1>1, <2>1, <2>4, ScrollDownKeeps DEF ScrollLineDown, ScrollPageDown
  <2>5. CASE Resize
    BY <1>1, <2>5, ResizeKeeps
  <2>6. CASE UNCHANGED vars
    BY <1>1, <2>6, StutterKeeps
  <2>7. QED
    BY <1>1, <2>2, <2>3, <2>4, <2>5, <2>6 DEF Next
<1>2. QED
  BY InitHolds, <1>1, PTL DEF Spec

\* The view begins inside of the buffer, its end is at most negative, and window,
\* cursor and counters stay in range, even after a read that is not defined.
THEOREM TypeCorrect == Spec => []TypeOK
<1>1. IInv => TypeOK
  BY DEF IInv
<1>2. QED
  BY Inductive, <1>1, PTL

\* No key makes the client hang or read outside of the scrollback before the
\* buffer has filled up, however the view was scrolled or redrawn before.
THEOREM NoHangUntilFull == Spec => []SafeUntilFull
<1>1. IInv => SafeUntilFull
  <2>1. TypeOK /\ ViewOrdered => SafeUntilFull
    BY Sizes DEF TypeOK, ViewOrdered, SafeUntilFull
  <2>2. QED
    BY <2>1 DEF IInv
<1>2. QED
  BY Inductive, <1>1, PTL

\* The notice in the status window is shown exactly while unread lines are below
\* the view and no redraw has erased it.
THEOREM NoticeIsTrue == Spec => []NoticeTellsUnread
<1>1. IInv => NoticeTellsUnread
  BY DEF IInv
<1>2. QED
  BY Inductive, <1>1, PTL

------------------------------------------------------------------------------
(* Indices around the ring *)

\* A number is so many turns around a ring and the rest.
LEMMA Turns ==
  ASSUME NEW c \in Nat \ {0}, NEW n \in Int
  PROVE  /\ n % c \in 0 .. c - 1
         /\ \E q \in Int : n = q * c + (n % c)
<1>1. n = (n \div c) * c + (n % c) /\ n % c \in 0 .. c - 1 /\ n \div c \in Int
  OBVIOUS
<1>2. QED
  BY <1>1

\* The rest is the only one there is.
LEMMA OneRest ==
  ASSUME NEW c \in Nat \ {0}, NEW q \in Int, NEW r \in 0 .. c - 1
  PROVE  (q * c + r) % c = r
OBVIOUS

\* Whole turns are at least one turn apart.
LEMMA TurnsApart ==
  ASSUME NEW c \in Nat \ {0}, NEW p \in Int, NEW q \in Int,
         p * c - q * c < c, q * c - p * c < c
  PROVE  p = q
<1>1. (p - q) * c = p * c - q * c /\ (q - p) * c = q * c - p * c
  OBVIOUS
<1>2. p - q >= 1 => (p - q) * c >= c
  OBVIOUS
<1>3. q - p >= 1 => (q - p) * c >= c
  OBVIOUS
<1>4. QED
  BY <1>1, <1>2, <1>3

\* Where indices are equal, so are those an equal number of steps away.
LEMMA StepsAlong ==
  ASSUME NEW a \in Int, NEW b \in Int, NEW n \in Int, a % Capacity = b % Capacity
  PROVE  (a + n) % Capacity = (b + n) % Capacity
<1>1. Capacity \in Nat \ {0}
  BY Sizes
<1>2. PICK p \in Int : a = p * Capacity + (a % Capacity)
  BY <1>1, Turns
<1>3. PICK q \in Int : b = q * Capacity + (b % Capacity)
  BY <1>1, Turns
<1> DEFINE r == (b + n) % Capacity
           e == a % Capacity
<1>4. b + n \in Int
  OBVIOUS
<1>5. PICK s \in Int : b + n = s * Capacity + r
  BY <1>1, <1>4, Turns
<1>6. /\ r \in 0 .. Capacity - 1 /\ e \in Int
      /\ a = p * Capacity + e /\ b = q * Capacity + e
  BY <1>1, <1>2, <1>3, <1>4, Turns
<1> HIDE DEF r, e
<1>7. /\ p * Capacity \in Int /\ q * Capacity \in Int /\ s * Capacity \in Int
      /\ (s + p - q) * Capacity = s * Capacity + p * Capacity - q * Capacity
  BY <1>1
<1>8. a + n = (s + p - q) * Capacity + r
  BY <1>1, <1>5, <1>6, <1>7
<1>9. s + p - q \in Int
  OBVIOUS
<1>10. ((s + p - q) * Capacity + r) % Capacity = r
  BY <1>1, <1>6, <1>9, OneRest, Zenon
<1>11. QED
  BY <1>8, <1>10 DEF r

\* Numbers less than a turn apart are equal if their indices are.
LEMMA LessThanATurn ==
  ASSUME NEW a \in Int, NEW b \in Int, a % Capacity = b % Capacity,
         a - b < Capacity, b - a < Capacity
  PROVE  a = b
<1>1. Capacity \in Nat \ {0}
  BY Sizes
<1>2. PICK p \in Int : a = p * Capacity + (a % Capacity)
  BY <1>1, Turns
<1>3. PICK q \in Int : b = q * Capacity + (b % Capacity)
  BY <1>1, Turns
<1>4. p * Capacity \in Int /\ q * Capacity \in Int /\ a % Capacity \in Int
  BY <1>1
<1>5. p * Capacity - q * Capacity < Capacity /\ q * Capacity - p * Capacity < Capacity
  BY <1>2, <1>3, <1>4, Sizes
<1>6. p = q
  BY <1>1, <1>5, TurnsApart
<1>7. QED
  BY <1>2, <1>3, <1>6

\* The remainders do not change the index.
LEMMA SameIndex ==
  ASSUME NEW a \in Int
  PROVE  /\ a % Capacity \in Slots
         /\ (a % Capacity) % Capacity = a % Capacity
         /\ CRem(a) \in Int /\ CRem(a) % Capacity = a % Capacity
         /\ a >= 0 => CRem(a) = a % Capacity
<1>1. Capacity \in Nat \ {0} /\ -a \in Int
  BY Sizes
<1>2. a % Capacity \in Slots /\ (-a) % Capacity \in 0 .. Capacity - 1
  BY <1>1, Turns DEF Slots
<1>3. (a % Capacity) % Capacity = a % Capacity
  <2>1. a % Capacity \in Int
    BY <1>1
  <2>2. QED
    BY <1>2, <2>1, Remainders, Zenon
<1>4. CASE a >= 0
  BY <1>1, <1>2, <1>3, <1>4 DEF CRem, Slots
<1>5. CASE a < 0
  <2>1. PICK q \in Int : -a = q * Capacity + ((-a) % Capacity)
    BY <1>1, Turns
  <2>2. CRem(a) = -((-a) % Capacity)
    BY <1>5 DEF CRem
  <2>3. PICK p \in Int : a = p * Capacity + (a % Capacity)
    BY <1>1, Turns
  <2>4. p * Capacity \in Int /\ q * Capacity \in Int
        /\ (p + q) * Capacity = p * Capacity + q * Capacity /\ p + q \in Int
    BY <1>1
  <2> DEFINE r == a % Capacity
             m == (-a) % Capacity
  <2>5. r \in 0 .. Capacity - 1 /\ m \in 0 .. Capacity - 1
        /\ a = p * Capacity + r /\ -a = q * Capacity + m /\ CRem(a) = -m
    BY <1>2, <2>1, <2>2, <2>3 DEF Slots
  <2> HIDE DEF r, m
  <2>6. -m = (p + q) * Capacity + r
    BY <2>4, <2>5, <1>1
  <2>7. ((p + q) * Capacity + r) % Capacity = r
    BY <1>1, <2>4, <2>5, OneRest, Zenon
  <2>8. -m \in Int
    BY <2>5
  <2>9. CRem(a) % Capacity = r /\ CRem(a) \in Int
    BY <2>5, <2>6, <2>7, <2>8, Zenon
  <2>10. QED
    BY <1>2, <1>3, <1>5, <2>9 DEF r
<1>6. QED
  BY <1>4, <1>5

------------------------------------------------------------------------------
(* What the buffer and the window hold *)

\* The last lines, as many as fit, each in the slot of its number.
BufferHolds ==
  /\ head = added % Capacity
  /\ tail = (added - count) % Capacity
  /\ count = IF added <= Capacity THEN added ELSE Capacity
  /\ \A line \in added - count + 1 .. added : IsLine(buffer[(line - 1) % Capacity], line, added)
  /\ \A s \in Slots : isLong[s] => s < added

\* The number of lines that the window has.
InWindow == IF added <= Rows THEN added ELSE Rows

\* A redraw at the top of a full buffer blanks the window when the next line goes
\* to slot 0; the rows stay blank until other lines are scrolled in.
MayBeBlank(line) == count = Capacity /\ line <= added - Capacity + Rows

\* The view, with t lines above it.
Seen(t) ==
  /\ t \in 0 .. added /\ added - count <= t /\ t + InWindow <= added
  /\ topLine = t % Capacity
  /\ bottomLine % Capacity = (t + InWindow) % Capacity

\* The window's cursor is behind the newest line.
CursorAtNewest ==
  added > 0 => row \in 0 .. Rows - 1 /\ (IsLine(screen[row], added, added) \/ screen[row] = Rest)

\* The rows are the newest lines in order.
NewestRows ==
  ~wrapped =>
    /\ row = InWindow - 1
    /\ \A r \in ScreenRows :
         IF r < InWindow THEN IsLine(screen[r], (added - InWindow) + r + 1, added)
         ELSE screen[r] = NoLine

\* The window shows the lines in view, unless some took two rows; the newest and
\* all of them when it is not scrolled up.
Scrolling(t) ==
  /\ added >= Rows
  /\ ~wrapped =>
       \A r \in ScreenRows : IsLine(screen[r], t + r + 1, added) \/ MayBeBlank(t + r + 1)
Following(t) == t + InWindow = added /\ bottomLine = head /\ CursorAtNewest /\ NewestRows

Intact == status = "running" /\ ~reloaded /\ ~lapped
WindowHolds ==
  Intact => \E t \in 0 .. added :
              Seen(t) /\ IF isScrolledUp THEN Scrolling(t) ELSE Following(t)

NewestInv == TypeOK /\ BufferHolds /\ WindowHolds

\* Where the line with a number is in the buffer.
LEMMA LineInSlot ==
  ASSUME TypeOK, BufferHolds, NEW n \in Int, n >= added - count, n < added,
         NEW k \in Int, k % Capacity = n % Capacity
  PROVE  IsLine(buffer[k % Capacity], n + 1, added)
<1>1. n + 1 \in added - count + 1 .. added /\ (n + 1) - 1 = n
  BY Sizes DEF TypeOK
<1>2. IsLine(buffer[((n + 1) - 1) % Capacity], n + 1, added)
  BY <1>1, Zenon DEF BufferHolds
<1>3. QED
  BY <1>1, <1>2

\* A buffer of several windows holds two of them.
LEMMA TwoWindows ==
  ASSUME Multiplier >= 2
  PROVE  /\ Rows \in Nat \ {0} /\ Capacity \in Nat \ {0}
         /\ Rows < Capacity /\ 2 * Rows <= Capacity
<1>1. Rows \in Nat \ {0} /\ Multiplier \in Nat \ {0}
  BY SizesAssumption
<1>2. \A r, m \in Nat \ {0} : m >= 2 => r * m >= 2 * r
  OBVIOUS
<1>3. Rows * Multiplier >= 2 * Rows
  BY <1>1, <1>2
<1>4. QED
  BY <1>1, <1>3, Sizes DEF Capacity

\* Nothing has been added: the window is empty.
LEMMA NewestInit == Init => BufferHolds /\ WindowHolds
<1> SUFFICES ASSUME Init PROVE BufferHolds /\ WindowHolds
  OBVIOUS
<1>1. 0 \in Slots /\ 0 % Capacity = 0
  <2>1. 0 \in Slots
    BY Sizes DEF Slots
  <2>2. QED
    BY <2>1, Remainders
<1>2. /\ added = 0 /\ count = 0 /\ head = 0 /\ tail = 0 /\ topLine = 0 /\ bottomLine = 0
      /\ row = -1 /\ isScrolledUp = FALSE
      /\ isLong = [i \in Slots |-> FALSE]
      /\ screen = [r \in 0 .. Rows - 1 |-> NoLine]
  BY DEF Init
<1>3. BufferHolds
  <2>1. \A line \in added - count + 1 .. added : FALSE
    BY <1>2
  <2>2. \A s \in Slots : ~isLong[s]
    BY <1>2
  <2>3. count = IF added <= Capacity THEN added ELSE Capacity
    BY <1>2, Sizes
  <2>4. added - count = 0
    BY <1>2
  <2>5. head = added % Capacity /\ tail = (added - count) % Capacity
    BY <1>1, <1>2, <2>4
  <2>6. QED
    BY <2>1, <2>2, <2>3, <2>5, Zenon DEF BufferHolds
<1>4. InWindow = 0
  BY <1>2, Sizes DEF InWindow
<1>5. Seen(0)
  <2>1. 0 \in 0 .. added /\ added - count <= 0 /\ 0 + InWindow <= added /\ 0 + InWindow = 0
    BY <1>2, <1>4
  <2>2. QED
    BY <1>1, <1>2, <2>1 DEF Seen
<1>6. Following(0)
  <2>1. \A r \in 0 .. Rows - 1 : ~(r < 0)
    BY Sizes
  <2>2. QED
    BY <1>2, <1>4, <2>1 DEF Following, CursorAtNewest, NewestRows
<1>7. QED
  <2>1. 0 \in 0 .. added
    BY <1>2
  <2>2. QED
    BY <1>2, <1>3, <1>5, <1>6, <2>1, Zenon DEF WindowHolds

\* A new line goes to the slot of its number, over the oldest of a full buffer.
LEMMA AddLineStores ==
  ASSUME TypeOK, BufferHolds, NEW long \in BOOLEAN, AddLine(long)
  PROVE  /\ BufferHolds'
         /\ added \in Nat /\ count \in Nat /\ added' = added + 1
         /\ \A shown, line : IsLine(shown, line, added) => IsLine(shown, line, added')
<1>1. /\ head \in Slots /\ tail \in Slots /\ count \in 0 .. Capacity
      /\ added \in Nat /\ Capacity \in Nat \ {0}
      /\ buffer \in [Slots -> -MaxLines .. MaxLines] /\ isLong \in [Slots -> BOOLEAN]
  BY Sizes DEF TypeOK
<1>2. /\ added' = added + 1 /\ Stored(long)
      /\ tail' = IF IsFull THEN (tail + 1) % Capacity ELSE tail
      /\ count' = IF IsFull THEN count ELSE count + 1
      /\ head' = (head + 1) % Capacity
  BY DEF AddLine, Added
<1>3. /\ head = added % Capacity
      /\ tail = (added - count) % Capacity
      /\ count = IF added <= Capacity THEN added ELSE Capacity
      /\ \A line \in added - count + 1 .. added : IsLine(buffer[(line - 1) % Capacity], line, added)
      /\ \A s \in Slots : isLong[s] => s < added
  BY DEF BufferHolds
<1>4. \A shown, line : IsLine(shown, line, added) => IsLine(shown, line, added')
  <2>1. added > Capacity => added' > Capacity
    BY <1>1, <1>2
  <2>2. QED
    BY <2>1, Zenon DEF IsLine
<1>5. /\ count' = IF added' <= Capacity THEN added' ELSE Capacity
      /\ count' \in 1 .. Capacity /\ added' - count' >= added - count
      /\ IsFull => added' - count' = (added - count) + 1
      /\ ~IsFull => added' - count' = added - count
  BY <1>1, <1>2, <1>3 DEF IsFull
<1>6. head' = added' % Capacity
  <2>1. added \in Int /\ head \in Int
    BY <1>1 DEF Slots
  <2>2. head % Capacity = added % Capacity
    BY <1>3, <2>1, SameIndex
  <2>3. (head + 1) % Capacity = (added + 1) % Capacity
    BY <2>1, <2>2, StepsAlong
  <2>4. QED
    BY <1>2, <2>3
<1>7. tail' = (added' - count') % Capacity
  <2>1. CASE IsFull
    <3>1. added - count \in Int
      BY <1>1
    <3>2. ((added - count) % Capacity) % Capacity = (added - count) % Capacity
      BY <3>1, SameIndex
    <3>3. tail % Capacity = (added - count) % Capacity /\ tail \in Int
      BY <1>1, <1>3, <3>2 DEF Slots
    <3>4. (tail + 1) % Capacity = ((added - count) + 1) % Capacity
      BY <3>1, <3>3, StepsAlong
    <3>5. QED
      BY <1>2, <1>5, <2>1, <3>4
  <2>2. CASE ~IsFull
    BY <1>2, <1>3, <1>5, <2>2
  <2>3. QED
    BY <2>1, <2>2
<1>8. /\ buffer' = [buffer EXCEPT ![head] = IF isLong[head] /\ ~long THEN -added' ELSE added']
      /\ isLong' = [isLong EXCEPT ![head] = @ \/ long]
  BY <1>2 DEF Stored
<1>9. IsLine(buffer'[head], added', added')
  <2>1. CASE isLong[head] /\ ~long
    <3>1. head < added
      BY <1>1, <1>3, <2>1
    <3>2. added < Capacity => added % Capacity = added
      <4>1. added < Capacity => added \in Slots
        BY <1>1 DEF Slots
      <4>2. QED
        BY <1>1, <4>1, Remainders
    <3>3. added >= Capacity
      BY <1>1, <1>3, <3>1, <3>2 DEF Slots
    <3>4. added' > Capacity
      BY <1>1, <1>2, <3>3
    <3>5. buffer'[head] = -added'
      BY <1>1, <1>8, <2>1
    <3>6. QED
      BY <3>4, <3>5, Zenon DEF IsLine
  <2>2. CASE ~(isLong[head] /\ ~long)
    <3>1. buffer'[head] = added'
      BY <1>1, <1>8, <2>2
    <3>2. QED
      BY <3>1, Zenon DEF IsLine
  <2>3. QED
    BY <2>1, <2>2
<1>10. ASSUME NEW line \in added' - count' + 1 .. added'
       PROVE  IsLine(buffer'[(line - 1) % Capacity], line, added')
  <2>1. CASE line = added'
    <3>1. line - 1 = added
      BY <1>1, <1>2, <2>1
    <3>2. (line - 1) % Capacity = head
      BY <1>3, <3>1
    <3>3. QED
      BY <1>9, <2>1, <3>2
  <2>2. CASE line # added'
    <3>1. /\ line \in added - count + 1 .. added /\ line - 1 \in Int
          /\ added - (line - 1) < Capacity /\ (line - 1) - added < Capacity
          /\ line - 1 # added
      BY <1>1, <1>2, <1>5, <2>2
    <3>2. (line - 1) % Capacity # head /\ (line - 1) % Capacity \in Slots
      <4>1. added \in Int
        BY <1>1
      <4>2. (line - 1) % Capacity # added % Capacity
        BY <3>1, <4>1, LessThanATurn
      <4>3. QED
        BY <1>3, <3>1, <4>2, SameIndex
    <3>3. buffer'[(line - 1) % Capacity] = buffer[(line - 1) % Capacity]
      BY <1>1, <1>8, <3>2
    <3>4. IsLine(buffer[(line - 1) % Capacity], line, added)
      BY <1>3, <3>1
    <3>5. IsLine(buffer'[(line - 1) % Capacity], line, added)
      BY <3>3, <3>4
    <3>6. QED
      BY <1>4, <3>5
  <2>3. QED
    BY <2>1, <2>2
<1>11. ASSUME NEW s \in Slots, isLong'[s]
       PROVE  s < added'
  <2>1. CASE s = head
    <3>1. added % Capacity <= added
      <4>1. added < Capacity => added \in Slots
        BY <1>1 DEF Slots
      <4>2. added < Capacity => added % Capacity = added
        BY <1>1, <4>1, Remainders
      <4>3. QED
        BY <1>1, <1>3, <4>2 DEF Slots
    <3>2. QED
      BY <1>1, <1>2, <1>3, <2>1, <3>1 DEF Slots
  <2>2. CASE s # head
    <3>1. isLong[s]
      BY <1>1, <1>8, <1>11, <2>2
    <3>2. s < added
      BY <1>3, <3>1
    <3>3. QED
      BY <1>1, <1>2, <3>2 DEF Slots
  <2>3. QED
    BY <2>1, <2>2
<1>12. BufferHolds'
  BY <1>5, <1>6, <1>7, <1>10, <1>11, Zenon DEF BufferHolds
<1>13. QED
  BY <1>1, <1>2, <1>4, <1>12

\* A new line goes below the newest lines, or shifts them by one row.
LEMMA NewestRowsFollow ==
  ASSUME TypeOK, NewestRows, NEW long \in BOOLEAN, Printed(added', narrow /\ long),
         added' = added + 1, added' <= MaxLines
  PROVE  CursorAtNewest' /\ NewestRows'
<1> DEFINE cells == WithNewLine(added')
<1>1. /\ Rows \in Nat \ {0} /\ MaxLines \in Nat \ {0} /\ added \in Nat /\ wrapped \in BOOLEAN
      /\ row \in -1 .. Rows - 1
  BY Sizes DEF TypeOK
<1>2. /\ Below(row) \in 0 .. Rows - 1 /\ cells \in [0 .. Rows - 1 -> -MaxLines .. Rest]
      /\ cells[Below(row)] = added'
  <2>1. added' \in -MaxLines .. Rest
    BY <1>1 DEF Rest
  <2>2. QED
    BY <2>1, NewLineCells
<1>3. /\ row' \in 0 .. Rows - 1
      /\ screen'[row'] = added' \/ screen'[row'] = Rest
      /\ ~(narrow /\ long) => screen' = cells /\ row' = Below(row)
  <2>1. Drawn(cells, Below(row), narrow /\ long) /\ (narrow /\ long) \in BOOLEAN
    BY DEF Printed
  <2>2. Below(row) \in -1 .. Rows - 1 /\ Below(row) >= 0
    BY <1>1, <1>2
  <2> HIDE DEF cells
  <2>3. QED
    BY <1>2, <2>1, <2>2, DrawnCells
<1>4. CursorAtNewest'
  BY <1>3 DEF CursorAtNewest, IsLine
<1>5. ASSUME ~wrapped'
      PROVE  /\ row' = InWindow' - 1
             /\ \A r \in 0 .. Rows - 1 :
                  IF r < InWindow' THEN IsLine(screen'[r], (added' - InWindow') + r + 1, added')
                  ELSE screen'[r] = NoLine
  <2>1. ~wrapped /\ ~(narrow /\ long)
    BY <1>5, Zenon DEF Printed
  <2>2. /\ row = InWindow - 1
        /\ \A r \in 0 .. Rows - 1 :
             IF r < InWindow THEN IsLine(screen[r], (added - InWindow) + r + 1, added)
             ELSE screen[r] = NoLine
    BY <2>1 DEF NewestRows
  <2>3. /\ InWindow = (IF added <= Rows THEN added ELSE Rows)
        /\ InWindow' = (IF added' <= Rows THEN added' ELSE Rows)
    BY DEF InWindow
  <2>4. row' = InWindow' - 1
    BY <1>1, <1>3, <2>1, <2>2, <2>3 DEF Below
  <2>5. \A shown, line : IsLine(shown, line, added) => IsLine(shown, line, added')
    <3>1. added > Capacity => added' > Capacity
      BY <1>1, Sizes
    <3>2. QED
      BY <3>1, Zenon DEF IsLine
  <2>6. ASSUME NEW r \in 0 .. Rows - 1
        PROVE  screen'[r] = IF r = Below(row) THEN added'
                            ELSE IF row < Rows - 1 THEN screen[r] ELSE screen[r + 1]
    BY <1>3, <2>1 DEF WithNewLine
  <2>7. ASSUME NEW r \in 0 .. Rows - 1, r < InWindow'
        PROVE  IsLine(screen'[r], (added' - InWindow') + r + 1, added')
    <3>1. CASE r = Below(row)
      <4>1. (added' - InWindow') + r + 1 = added' /\ screen'[r] = added'
        BY <1>1, <2>2, <2>3, <2>6, <3>1 DEF Below
      <4>2. QED
        BY <4>1, Zenon DEF IsLine
    <3>2. CASE r # Below(row) /\ row < Rows - 1
      <4>1. /\ screen'[r] = screen[r] /\ r < InWindow
            /\ (added - InWindow) + r + 1 = (added' - InWindow') + r + 1
        BY <1>1, <2>2, <2>3, <2>6, <2>7, <3>2 DEF Below
      <4>2. IsLine(screen[r], (added - InWindow) + r + 1, added)
        BY <2>2, <4>1
      <4>3. QED
        BY <2>5, <4>1, <4>2
    <3>3. CASE r # Below(row) /\ ~(row < Rows - 1)
      <4>1. /\ screen'[r] = screen[r + 1] /\ r + 1 \in 0 .. Rows - 1 /\ r + 1 < InWindow
            /\ (added - InWindow) + (r + 1) + 1 = (added' - InWindow') + r + 1
        BY <1>1, <2>2, <2>3, <2>6, <2>7, <3>3 DEF Below
      <4>2. IsLine(screen[r + 1], (added - InWindow) + (r + 1) + 1, added)
        BY <2>2, <4>1
      <4>3. QED
        BY <2>5, <4>1, <4>2
    <3>4. QED
      BY <3>1, <3>2, <3>3
  <2>8. ASSUME NEW r \in 0 .. Rows - 1, ~(r < InWindow')
        PROVE  screen'[r] = NoLine
    <3>1. screen'[r] = screen[r] /\ ~(r < InWindow)
      BY <1>1, <2>2, <2>3, <2>6, <2>8 DEF Below
    <3>2. QED
      BY <2>2, <3>1
  <2>9. QED
    BY <2>4, <2>7, <2>8
<1>6. QED
  BY <1>4, <1>5 DEF NewestRows

\* Each line added moves the view by one when it is not scrolled up, and leaves it
\* where it is otherwise, while the buffer is not full.
LEMMA NewestAddLine ==
  ASSUME Multiplier >= 2, NewestInv, NEW long \in BOOLEAN, AddLine(long)
  PROVE  BufferHolds' /\ WindowHolds'
<1> USE DEF NewestInv
<1>1. /\ BufferHolds'
      /\ added \in Nat /\ count \in Nat /\ added' = added + 1
      /\ \A shown, line : IsLine(shown, line, added) => IsLine(shown, line, added')
  BY AddLineStores
<1>2. /\ Rows \in Nat \ {0} /\ Capacity \in Nat \ {0} /\ Rows < Capacity
      /\ topLine \in Int /\ topLine % Capacity \in Slots
  BY TwoWindows, SameIndex DEF TypeOK, Slots
<1>3. /\ count = (IF added <= Capacity THEN added ELSE Capacity)
      /\ count' = (IF added' <= Capacity THEN added' ELSE Capacity)
      /\ head' = added' % Capacity
  BY <1>1 DEF BufferHolds
<1>4. IsFull <=> count = Capacity
  BY DEF IsFull
<1> SUFFICES ASSUME Intact'
             PROVE  \E t \in 0 .. added' :
                      Seen(t)' /\ IF isScrolledUp' THEN Scrolling(t)' ELSE Following(t)'
  BY <1>1, Zenon DEF WindowHolds
<1>5. Intact /\ ~(isScrolledUp /\ IsFull) /\ isScrolledUp' = isScrolledUp
  BY Zenon DEF Intact, AddLine
<1>6. PICK t \in 0 .. added :
        Seen(t) /\ IF isScrolledUp THEN Scrolling(t) ELSE Following(t)
  BY <1>5, Zenon DEF WindowHolds
<1>7. /\ t \in Int /\ t >= 0 /\ added - count <= t /\ t + InWindow <= added
      /\ topLine = t % Capacity
      /\ bottomLine % Capacity = (t + InWindow) % Capacity
  BY <1>1, <1>6 DEF Seen
<1>8. /\ InWindow = (IF added <= Rows THEN added ELSE Rows)
      /\ InWindow' = (IF added' <= Rows THEN added' ELSE Rows)
  BY DEF InWindow
<1>9. CASE isScrolledUp
  <2>1. Scrolling(t) /\ count # Capacity
    BY <1>4, <1>5, <1>6, <1>9
  <2>2. UNCHANGED <<topLine, bottomLine, screen, row, wrapped>>
    BY <1>9 DEF AddLine, Added, Follow, window
  <2>3. /\ added >= Rows
        /\ ~wrapped => \A r \in 0 .. Rows - 1 : IsLine(screen[r], t + r + 1, added)
    BY <2>1 DEF Scrolling, MayBeBlank
  <2>4. /\ InWindow' = InWindow /\ added' >= Rows
        /\ t \in 0 .. added' /\ added' - count' <= t /\ t + InWindow' <= added'
    BY <1>1, <1>2, <1>3, <1>7, <1>8, <2>1, <2>3
  <2>5. Seen(t)'
    BY <1>7, <2>2, <2>4 DEF Seen
  <2>6. Scrolling(t)'
    <3>1. ~wrapped' => \A r \in 0 .. Rows - 1 : IsLine(screen'[r], t + r + 1, added')
      BY <1>1, <2>2, <2>3
    <3>2. QED
      BY <2>4, <3>1, Zenon DEF Scrolling
  <2>7. QED
    BY <1>5, <1>9, <2>4, <2>5, <2>6
<1>10. CASE ~isScrolledUp
  <2>1. t + InWindow = added /\ bottomLine = head /\ NewestRows
    BY <1>6, <1>10 DEF Following
  <2>2. /\ bottomLine' = head'
        /\ topLine' = IF count' > Rows THEN (topLine + 1) % Capacity ELSE topLine
        /\ Printed(added', narrow /\ long) /\ added < MaxLines
    BY <1>10 DEF AddLine, Added, Follow
  <2>3. CursorAtNewest' /\ NewestRows'
    <3>1. added' <= MaxLines
      BY <1>1, <2>2, Sizes
    <3>2. QED
      BY <1>1, <2>1, <2>2, <3>1, NewestRowsFollow
  <2>4. PICK u \in 0 .. added' : added' - count' <= u /\ u + InWindow' = added'
    <3>1. /\ added' - InWindow' \in 0 .. added'
          /\ added' - count' <= added' - InWindow'
          /\ (added' - InWindow') + InWindow' = added'
      BY <1>1, <1>2, <1>3, <1>8
    <3>2. QED
      BY <3>1
  <2>5. u \in Int /\ u + InWindow' = added' /\ u + InWindow' <= added'
    BY <1>1, <2>4
  <2>6. topLine' = u % Capacity
    <3>1. CASE added < Rows
      <4>1. u = t /\ ~(count' > Rows)
        BY <1>1, <1>2, <1>3, <1>7, <1>8, <2>1, <2>5, <3>1
      <4>2. QED
        BY <1>7, <2>2, <4>1
    <3>2. CASE added >= Rows
      <4>1. u = t + 1 /\ count' > Rows
        BY <1>1, <1>2, <1>3, <1>7, <1>8, <2>1, <2>5, <3>2
      <4>2. topLine \in Int /\ t \in Int /\ topLine % Capacity = t % Capacity
        BY <1>2, <1>7, SameIndex
      <4>3. (topLine + 1) % Capacity = (t + 1) % Capacity
        BY <4>2, StepsAlong
      <4>4. QED
        BY <2>2, <4>1, <4>3
    <3>3. QED
      BY <1>1, <1>2, <3>1, <3>2
  <2>7. bottomLine' % Capacity = (u + InWindow') % Capacity
    <3>1. added' \in Int
      BY <1>1
    <3>2. (added' % Capacity) % Capacity = added' % Capacity
      BY <3>1, SameIndex
    <3>3. QED
      BY <1>3, <2>2, <2>4, <3>2
  <2>9. Seen(u)'
    BY <2>4, <2>5, <2>6, <2>7 DEF Seen
  <2>10. Following(u)'
    BY <2>2, <2>3, <2>4 DEF Following
  <2>11. QED
    BY <1>5, <1>10, <2>4, <2>9, <2>10
<1>11. QED
  BY <1>9, <1>10

\* Scrolling leaves the buffer as it is.
LEMMA NewestSame ==
  ASSUME BufferHolds, WindowHolds, UNCHANGED <<ring, reloaded, lapped>>
  PROVE  /\ BufferHolds'
         /\ status = "running" /\ UNCHANGED <<view, window>> => WindowHolds'
<1>1. UNCHANGED <<buffer, isLong, tail, head, count, added, reloaded, lapped>>
  BY DEF ring
<1>2. BufferHolds'
  BY <1>1 DEF BufferHolds
<1>3. ASSUME status = "running", UNCHANGED <<view, window>>, Intact'
      PROVE  \E t \in 0 .. added' :
               Seen(t)' /\ IF isScrolledUp' THEN Scrolling(t)' ELSE Following(t)'
  <2>1. UNCHANGED <<topLine, bottomLine, isScrolledUp, screen, row, wrapped>>
    BY <1>3 DEF view, window
  <2>2. Intact
    BY <1>1, <1>3 DEF Intact
  <2>3. PICK t \in 0 .. added : Seen(t) /\ IF isScrolledUp THEN Scrolling(t) ELSE Following(t)
    BY <2>2, Zenon DEF WindowHolds
  <2>4. InWindow' = InWindow
    BY <1>1 DEF InWindow
  <2>5. Seen(t)' /\ IF isScrolledUp' THEN Scrolling(t)' ELSE Following(t)'
    BY <1>1, <2>1, <2>3, <2>4
       DEF Seen, Scrolling, Following, CursorAtNewest, NewestRows, MayBeBlank
  <2>6. QED
    BY <1>1, <2>5
<1>4. QED
  BY <1>2, <1>3, Zenon DEF WindowHolds

\* What the definitions say of a state in numbers.
LEMMA NewestNumbers ==
  ASSUME Multiplier >= 2, TypeOK, BufferHolds, NEW t \in 0 .. added, Seen(t)
  PROVE  /\ Rows \in Nat \ {0} /\ Capacity \in Nat \ {0}
         /\ Rows < Capacity /\ 2 * Rows <= Capacity
         /\ added \in Nat /\ count \in Nat /\ t \in Nat
         /\ topLine \in 0 .. Capacity - 1 /\ tail \in 0 .. Capacity - 1
         /\ head \in 0 .. Capacity - 1 /\ bottomLine \in Int
         /\ count = (IF added <= Capacity THEN added ELSE Capacity)
         /\ InWindow = (IF added <= Rows THEN added ELSE Rows) /\ InWindow \in Nat
         /\ added - count <= t /\ t + InWindow <= added
<1>1. /\ Rows \in Nat \ {0} /\ Capacity \in Nat \ {0}
      /\ Rows < Capacity /\ 2 * Rows <= Capacity
  BY TwoWindows
<1>2. added \in Nat /\ count \in Nat /\ bottomLine \in Int
  BY <1>1 DEF TypeOK
<1>3. t \in Nat
  BY <1>2
<1>4. /\ topLine \in 0 .. Capacity - 1 /\ tail \in 0 .. Capacity - 1 /\ head \in 0 .. Capacity - 1
  BY DEF TypeOK, Slots
<1>5. /\ count = (IF added <= Capacity THEN added ELSE Capacity)
      /\ InWindow = (IF added <= Rows THEN added ELSE Rows)
      /\ added - count <= t /\ t + InWindow <= added
  BY DEF BufferHolds, Seen, InWindow
<1>6. InWindow \in Nat
  BY <1>1, <1>2, <1>5
<1>7. QED
  BY <1>1, <1>2, <1>3, <1>4, <1>5, <1>6

\* The lines that scrolling up brings in are those before the view.
LEMMA NewestScrollUp ==
  ASSUME Multiplier >= 2, IInv, BufferHolds, WindowHolds,
         NEW rows \in 1 .. Rows, ScrollUp(rows)
  PROVE  BufferHolds' /\ WindowHolds'
<1> DEFINE shift == Min({rows, TopLines})
<1>1. UNCHANGED <<ring, reloaded, lapped>> /\ status = "running" /\ TypeOK
  BY DEF ScrollUp, IInv
<1>2. BufferHolds'
  BY <1>1, NewestSame
<1>3. CASE UNCHANGED <<view, window>>
  BY <1>1, <1>3, NewestSame
<1>4. CASE ScrollUpBy(shift) /\ shift \in 1 .. Rows /\ shift <= topLine
  <2> SUFFICES ASSUME Intact'
               PROVE  \E t \in 0 .. added' :
                        Seen(t)' /\ IF isScrolledUp' THEN Scrolling(t)' ELSE Following(t)'
    BY <1>2, Zenon DEF WindowHolds
  <2>1. UNCHANGED <<buffer, isLong, tail, head, count, added, reloaded, lapped>>
    BY <1>1 DEF ring
  <2>2. Intact
    BY <1>1, <2>1 DEF Intact
  <2>3. PICK t \in 0 .. added : Seen(t) /\ IF isScrolledUp THEN Scrolling(t) ELSE Following(t)
    BY <2>2, Zenon DEF WindowHolds
  <2>4. /\ Rows \in Nat \ {0} /\ Capacity \in Nat \ {0}
        /\ Rows < Capacity /\ 2 * Rows <= Capacity
        /\ added \in Nat /\ count \in Nat /\ t \in Nat
        /\ topLine \in 0 .. Capacity - 1 /\ tail \in 0 .. Capacity - 1
        /\ head \in 0 .. Capacity - 1 /\ bottomLine \in Int
        /\ count = (IF added <= Capacity THEN added ELSE Capacity)
        /\ InWindow = (IF added <= Rows THEN added ELSE Rows) /\ InWindow \in Nat
        /\ added - count <= t /\ t + InWindow <= added
    BY <1>1, <2>3, NewestNumbers
  <2>5. shift <= TopLines /\ TopLines = topLine - tail /\ shift \in Int
    <3>1. TopLines = topLine - tail
      BY DEF TopLines
    <3>2. TopLines \in Int /\ rows \in Int
      BY <2>4, <3>1
    <3>3. shift = IF rows <= TopLines THEN rows ELSE TopLines
      BY <3>2, MinOfTwo
    <3>4. QED
      BY <3>1, <3>2, <3>3
  <2> HIDE DEF shift
  <2>6. /\ shift \in 1 .. Rows /\ shift <= topLine
        /\ isScrolledUp' = TRUE
        /\ topLine' = topLine - shift
        /\ bottomLine' = CRem(bottomLine - shift)
    BY <1>4 DEF ScrollUpBy
  <2>7. /\ topLine = t % Capacity /\ tail = (added - count) % Capacity
        /\ bottomLine % Capacity = (t + InWindow) % Capacity
    BY <2>3 DEF Seen, BufferHolds
  <2>8. topLine - tail = t - (added - count)
    <3> DEFINE d == t - (added - count)
    <3>1. /\ d \in Int /\ added - count \in Int /\ tail \in Int /\ topLine \in Int
          /\ (added - count) + d = t
          /\ d \in 0 .. Capacity
      BY <2>4
    <3>2. d < Capacity
      BY <2>4, <2>5, <2>6
    <3>3. tail % Capacity = (added - count) % Capacity
      BY <2>7, <3>1, SameIndex
    <3>4. (tail + d) % Capacity = ((added - count) + d) % Capacity
      BY <3>1, <3>3, StepsAlong
    <3>5. topLine % Capacity = t % Capacity
      <4>1. t \in Int
        BY <2>4
      <4>2. QED
        BY <2>7, <4>1, SameIndex
    <3>6. (tail + d) % Capacity = topLine % Capacity
      BY <3>1, <3>4, <3>5
    <3> HIDE DEF d
    <3>7. tail + d \in Int /\ (tail + d) - topLine < Capacity /\ topLine - (tail + d) < Capacity
      BY <2>4, <2>5, <2>6, <3>1, <3>2
    <3>8. tail + d = topLine
      BY <3>1, <3>6, <3>7, LessThanATurn
    <3>9. topLine - tail = d
      BY <3>1, <3>8
    <3>10. QED
      BY <3>9 DEF d
  <2>9. PICK u \in 0 .. added : u = t - shift
    BY <2>4, <2>5, <2>6, <2>8
  <2>10. /\ u \in Int /\ u + shift = t /\ added - count <= u /\ u + InWindow <= added
         /\ added > Rows /\ InWindow = Rows
    BY <2>4, <2>5, <2>6, <2>8, <2>9
  <2>11. topLine' = u % Capacity
    <3>1. topLine \in Int /\ t \in Int /\ -shift \in Int
      BY <2>4, <2>6
    <3>6. topLine % Capacity = t % Capacity
      BY <2>7, <3>1, SameIndex
    <3>2. (topLine + (-shift)) % Capacity = (t + (-shift)) % Capacity
      BY <3>1, <3>6, StepsAlong
    <3>3. topLine + (-shift) = topLine - shift /\ t + (-shift) = u /\ topLine - shift \in Slots
      BY <2>4, <2>6, <2>9 DEF Slots
    <3>4. (topLine - shift) % Capacity = topLine - shift
      BY <3>3, Remainders DEF Slots
    <3>5. QED
      BY <2>6, <3>2, <3>3, <3>4
  <2>12. bottomLine' % Capacity = (u + InWindow) % Capacity
    <3>1. bottomLine \in Int /\ t + InWindow \in Int /\ -shift \in Int
      BY <2>4, <2>6
    <3>2. (bottomLine + (-shift)) % Capacity = ((t + InWindow) + (-shift)) % Capacity
      BY <2>7, <3>1, StepsAlong
    <3>3. /\ bottomLine + (-shift) = bottomLine - shift /\ bottomLine - shift \in Int
          /\ (t + InWindow) + (-shift) = u + InWindow
      BY <2>4, <2>6, <2>9
    <3>4. CRem(bottomLine - shift) % Capacity = (bottomLine - shift) % Capacity
      BY <3>3, SameIndex
    <3>5. QED
      BY <2>6, <3>2, <3>3, <3>4
  <2>13. Seen(u)'
    <3>1. InWindow' = InWindow
      BY <2>1 DEF InWindow
    <3>2. QED
      BY <2>1, <2>9, <2>10, <2>11, <2>12, <3>1 DEF Seen
  <2>14. ASSUME ~wrapped
         PROVE  \A r \in 0 .. Rows - 1 : IsLine(screen[r], t + r + 1, added) \/ MayBeBlank(t + r + 1)
    <3>1. CASE isScrolledUp
      BY <2>3, <2>14, <3>1 DEF Scrolling
    <3>2. CASE ~isScrolledUp
      <4>1. t + InWindow = added /\ NewestRows
        BY <2>3, <3>2 DEF Following
      <4>2. added - InWindow = t /\ \A r \in 0 .. Rows - 1 : r < InWindow
        BY <2>4, <2>10, <4>1
      <4>3. QED
        BY <2>14, <4>1, <4>2 DEF NewestRows
    <3>3. QED
      BY <3>1, <3>2
  <2>18. ASSUME ~wrapped'
         PROVE  /\ ~wrapped
                /\ \A r \in 0 .. Rows - 1 :
                     screen'[r] = IF r < shift THEN buffer[topLine - shift + r]
                                  ELSE Scrolled(-shift)[r]
    <3>1. ~wrapped /\ \A s \in topLine - shift .. topLine - 1 : ~Spills(s)
      BY <1>4, <2>18, Zenon DEF ScrollUpBy, Wraps
    <3>2. QED
      BY <1>4, <3>1 DEF ScrollUpBy
  <2>15. ASSUME ~wrapped', NEW r \in 0 .. Rows - 1
         PROVE  IsLine(screen'[r], u + r + 1, added) \/ MayBeBlank(u + r + 1)
    <3>1. CASE r < shift
      <4>1. screen'[r] = buffer[topLine - shift + r]
        BY <2>15, <2>18, <3>1
      <4>2. /\ u + r \in Int /\ u + r >= added - count /\ u + r < added
            /\ (topLine - shift) + r \in 0 .. Capacity - 1 /\ (topLine - shift) + r \in Int
            /\ topLine - shift \in Int
        BY <2>4, <2>6, <2>10, <3>1
      <4>3. (topLine - shift) % Capacity = u % Capacity
        BY <2>6, <2>10, <2>11, SameIndex
      <4>4. ((topLine - shift) + r) % Capacity = (u + r) % Capacity
        BY <2>10, <4>2, <4>3, StepsAlong
      <4>5. ((topLine - shift) + r) % Capacity = (topLine - shift) + r
        BY <4>2, Remainders DEF Slots
      <4>6. IsLine(buffer[((topLine - shift) + r) % Capacity], (u + r) + 1, added)
        BY <1>1, <4>2, <4>4, LineInSlot
      <4>7. QED
        BY <4>1, <4>5, <4>6
    <3>2. CASE ~(r < shift)
      <4>1. r - shift \in 0 .. Rows - 1 /\ r + (-shift) = r - shift
            /\ t + (r - shift) + 1 = u + r + 1
        BY <2>4, <2>6, <2>10, <3>2
      <4>2. Scrolled(-shift)[r] = screen[r - shift]
        BY <4>1 DEF Scrolled
      <4>3. screen'[r] = screen[r - shift]
        BY <2>15, <2>18, <3>2, <4>2
      <4>4. IsLine(screen[r - shift], t + (r - shift) + 1, added)
            \/ MayBeBlank(t + (r - shift) + 1)
        BY <2>14, <2>15, <2>18, <4>1
      <4>5. QED
        BY <4>1, <4>3, <4>4
    <3>3. QED
      BY <3>1, <3>2
  <2>16. Scrolling(u)'
    <3>1. added' >= Rows
      BY <2>1, <2>4, <2>10
    <3>2. \A line : MayBeBlank(line)' <=> MayBeBlank(line)
      BY <2>1 DEF MayBeBlank
    <3>3. QED
      BY <2>1, <2>15, <3>1, <3>2 DEF Scrolling
  <2>17. QED
    BY <2>1, <2>6, <2>13, <2>16
<1>5. QED
  BY <1>2, <1>3, <1>4, ScrollUpCases

\* The lines that scrolling down brings in are those behind the view, up to the
\* newest.  A window that has come down all the way has no blank row left.
LEMMA NewestScrollDown ==
  ASSUME Multiplier >= 2, IInv, BufferHolds, WindowHolds,
         NEW rows \in 1 .. Rows, ScrollDown(rows)
  PROVE  BufferHolds' /\ WindowHolds'
<1> DEFINE shift == Min({rows, BottomLines})
<1>1. UNCHANGED <<ring, reloaded, lapped>> /\ status = "running" /\ TypeOK
  BY DEF ScrollDown, IInv
<1>2. BufferHolds'
  BY <1>1, NewestSame
<1>3. CASE UNCHANGED <<view, window>>
  BY <1>1, <1>3, NewestSame
<1>4. CASE BottomLines # 0 /\ ~(bottomLine < 0) /\ ScrollDownBy(shift)
  <2> SUFFICES ASSUME Intact'
               PROVE  \E t \in 0 .. added' :
                        Seen(t)' /\ IF isScrolledUp' THEN Scrolling(t)' ELSE Following(t)'
    BY <1>2, Zenon DEF WindowHolds
  <2>1. UNCHANGED <<buffer, isLong, tail, head, count, added, reloaded, lapped>>
    BY <1>1 DEF ring
  <2>2. Intact
    BY <1>1, <2>1 DEF Intact
  <2>3. PICK t \in 0 .. added : Seen(t) /\ IF isScrolledUp THEN Scrolling(t) ELSE Following(t)
    BY <2>2, Zenon DEF WindowHolds
  <2>4. /\ Rows \in Nat \ {0} /\ Capacity \in Nat \ {0}
        /\ Rows < Capacity /\ 2 * Rows <= Capacity
        /\ added \in Nat /\ count \in Nat /\ t \in Nat
        /\ topLine \in 0 .. Capacity - 1 /\ tail \in 0 .. Capacity - 1
        /\ head \in 0 .. Capacity - 1 /\ bottomLine \in Int
        /\ count = (IF added <= Capacity THEN added ELSE Capacity)
        /\ InWindow = (IF added <= Rows THEN added ELSE Rows) /\ InWindow \in Nat
        /\ added - count <= t /\ t + InWindow <= added
    BY <1>1, <2>3, NewestNumbers
  <2>5. /\ topLine = t % Capacity /\ head = added % Capacity
        /\ bottomLine % Capacity = (t + InWindow) % Capacity
    BY <2>3 DEF Seen, BufferHolds
  <2>6. BottomLines = added - (t + InWindow)
    <3> DEFINE d == added - (t + InWindow)
    <3>1. /\ d \in 0 .. Capacity - 1 /\ added \in Int /\ t + InWindow \in Int
          /\ head \in Int /\ -bottomLine \in Int /\ added - bottomLine \in Int
          /\ head + (-bottomLine) = head - bottomLine
      BY <2>4
    <3>2. head % Capacity = added % Capacity
      BY <2>5, <3>1, SameIndex
    <3>3. (head + (-bottomLine)) % Capacity = (added + (-bottomLine)) % Capacity
      BY <3>1, <3>2, StepsAlong
    <3> DEFINE e == d - bottomLine
    <3>4. added + (-bottomLine) = (t + InWindow) + e /\ e \in Int /\ bottomLine + e = d
          /\ bottomLine \in Int
      BY <2>4, <3>1
    <3> HIDE DEF d, e
    <3>5. (bottomLine + e) % Capacity = ((t + InWindow) + e) % Capacity
      BY <2>5, <3>1, <3>4, StepsAlong, Zenon
    <3>6. d % Capacity = d
      BY <3>1, Remainders, SMTT(30) DEF Slots
    <3>7. (head - bottomLine) % Capacity = d
      BY <3>1, <3>3, <3>4, <3>5, <3>6, SMTT(30)
    <3>8. BottomLines = d
      BY <1>4, <3>7 DEF BottomLines
    <3>9. QED
      BY <3>8 DEF d
  <2>7. isScrolledUp /\ Scrolling(t) /\ InWindow = Rows /\ BottomLines \in Nat \ {0}
    <3>1. BottomLines # 0 /\ BottomLines \in Nat
      BY <1>4, <2>4, <2>6
    <3>2. isScrolledUp
      <4>1. ~isScrolledUp => t + InWindow = added
        BY <2>3 DEF Following
      <4>2. QED
        BY <2>4, <2>6, <3>1, <4>1
    <3>3. Scrolling(t) /\ added >= Rows
      BY <2>3, <3>2 DEF Scrolling
    <3>4. QED
      BY <2>4, <3>1, <3>2, <3>3
  <2>8. shift \in 1 .. Rows /\ shift <= BottomLines
    <3>1. shift = IF rows <= BottomLines THEN rows ELSE BottomLines
      BY <2>4, <2>7, MinOfTwo
    <3>2. QED
      BY <2>4, <2>7, <3>1
  <2> HIDE DEF shift
  <2>9. /\ Drawn(WithLinesBelow(shift), Rows - 1, Spills(CRem(bottomLine + shift - 1)))
        /\ topLine' = (topLine + shift) % Capacity
        /\ bottomLine' = CRem(bottomLine + shift)
        /\ isScrolledUp' = ~(shift = BottomLines)
    <3>1. isScrolledUp' = ~(shift = BottomLines)
      <4>1. IF shift = BottomLines THEN isScrolledUp' = FALSE ELSE isScrolledUp' = isScrolledUp
        BY <1>4, Zenon DEF ScrollDownBy, Arrived, Arrive
      <4>2. isScrolledUp = TRUE
        BY <1>1, <2>7 DEF TypeOK
      <4>3. QED
        BY <4>1, <4>2
    <3>2. QED
      BY <1>4, <3>1 DEF ScrollDownBy
  <2>10. PICK u \in 0 .. added : u = t + shift
    BY <2>4, <2>6, <2>7, <2>8
  <2>11. /\ u \in Int /\ t \in Int /\ shift \in Int /\ topLine \in Int
         /\ added - count <= u /\ u + InWindow <= added
         /\ shift = BottomLines <=> u + InWindow = added
    BY <2>4, <2>6, <2>7, <2>8, <2>10
  <2>12. topLine' = u % Capacity
    <3>1. topLine % Capacity = t % Capacity
      BY <2>5, <2>11, SameIndex
    <3>2. (topLine + shift) % Capacity = (t + shift) % Capacity
      BY <2>11, <3>1, StepsAlong
    <3>3. QED
      BY <2>9, <2>10, <3>2
  <2>13. bottomLine' % Capacity = (u + InWindow) % Capacity
         /\ bottomLine' = (bottomLine + shift) % Capacity
    <3>1. t + InWindow \in Int /\ bottomLine \in Int
      BY <2>4
    <3>2. (bottomLine + shift) % Capacity = ((t + InWindow) + shift) % Capacity
      BY <2>5, <2>11, <3>1, StepsAlong
    <3>3. /\ bottomLine + shift \in Int /\ bottomLine + shift >= 0
          /\ (t + InWindow) + shift = u + InWindow
      BY <1>4, <2>4, <2>8, <2>10
    <3>4. /\ CRem(bottomLine + shift) % Capacity = (bottomLine + shift) % Capacity
          /\ CRem(bottomLine + shift) = (bottomLine + shift) % Capacity
      BY <3>3, SameIndex, SMTT(30)
    <3>5. QED
      BY <2>9, <3>2, <3>3, <3>4
  <2>14. Seen(u)'
    <3>1. InWindow' = InWindow
      BY <2>1 DEF InWindow
    <3>2. QED
      BY <2>1, <2>10, <2>11, <2>12, <2>13, <3>1 DEF Seen
  <2>19. ASSUME NEW r \in 0 .. Rows - 1, r >= Rows - shift
         PROVE  IsLine(WithLinesBelow(shift)[r], u + r + 1, added)
    <3> DEFINE k == bottomLine + r - (Rows - shift)
               back == r - (Rows - shift)
    <3>1. WithLinesBelow(shift)[r] = buffer[CRem(k)]
      BY <2>19 DEF WithLinesBelow
    <3>2. /\ k \in Int /\ k >= 0 /\ back \in Int /\ bottomLine + back = k
          /\ t + InWindow \in Int
          /\ (t + InWindow) + back = u + r
          /\ u + r \in Int /\ u + r >= added - count /\ u + r < added
      BY <1>4, <2>4, <2>7, <2>8, <2>10, <2>11, <2>19
    <3> HIDE DEF k, back
    <3>0. bottomLine \in Int /\ back \in Int /\ t + InWindow \in Int
      BY <2>4, <3>2
    <3>3. (bottomLine + back) % Capacity = ((t + InWindow) + back) % Capacity
      BY <2>5, <3>0, StepsAlong, Zenon
    <3>4. k % Capacity = (u + r) % Capacity
      BY <3>2, <3>3
    <3>5. CRem(k) = k % Capacity
      BY <3>2, SameIndex
    <3>6. IsLine(buffer[k % Capacity], (u + r) + 1, added)
      BY <1>1, <3>2, <3>4, LineInSlot
    <3>7. QED
      BY <3>1, <3>5, <3>6
  <2>20. /\ row' \in 0 .. Rows - 1
         /\ screen'[row'] = Rest \/ screen'[row'] = WithLinesBelow(shift)[Rows - 1]
         /\ ~wrapped' => ~wrapped /\ screen' = WithLinesBelow(shift) /\ row' = Rows - 1
    <3> DEFINE spills == Spills(CRem(bottomLine + shift - 1))
    <3>1. WithLinesBelow(shift) \in [0 .. Rows - 1 -> -MaxLines .. Rest]
      <4>1. /\ screen \in [0 .. Rows - 1 -> -MaxLines .. Rest]
            /\ buffer \in [Slots -> -MaxLines .. MaxLines]
            /\ bottomLine \in 1 - Capacity .. Capacity - 1
        BY <1>1 DEF TypeOK
      <4>2. bottomLine \in Slots
        BY <1>4, <2>4, <4>1 DEF Slots
      <4>3. QED
        BY <2>8, <4>1, <4>2, LowerCells
    <3>2. spills \in BOOLEAN /\ (~wrapped' => ~wrapped /\ ~spills)
      <4>1. spills \in BOOLEAN
        BY DEF Spills, SpillsIn
      <4>2. bottomLine + (shift - 1) = bottomLine + shift - 1 /\ shift - 1 \in 0 .. shift - 1
        BY <2>4, <2>8
      <4>3. wrapped' = (wrapped \/ \E s \in {CRem(bottomLine + i) : i \in 0 .. shift - 1} : Spills(s))
        BY <1>4 DEF ScrollDownBy, Wraps
      <4>4. CRem(bottomLine + shift - 1) \in {CRem(bottomLine + i) : i \in 0 .. shift - 1}
        BY <4>2
      <4>5. QED
        BY <4>1, <4>3, <4>4, Zenon
    <3>3. Rows - 1 \in -1 .. Rows - 1 /\ Rows - 1 >= 0
      BY <2>4
    <3> HIDE DEF spills
    <3>4. Drawn(WithLinesBelow(shift), Rows - 1, spills)
      BY <2>9 DEF spills
    <3>5. QED
      BY <3>1, <3>2, <3>3, <3>4, DrawnCells
  <2>15. ASSUME ~wrapped', NEW r \in 0 .. Rows - 1
         PROVE  IsLine(screen'[r], u + r + 1, added) \/ MayBeBlank(u + r + 1)
    <3>1. CASE r >= Rows - shift
      BY <2>15, <2>19, <2>20, <3>1
    <3>2. CASE ~(r >= Rows - shift)
      <4>1. r + shift \in 0 .. Rows - 1 /\ t + (r + shift) + 1 = u + r + 1
        BY <2>4, <2>8, <2>10, <2>11, <3>2
      <4>2. Scrolled(shift)[r] = screen[r + shift]
        BY <4>1 DEF Scrolled
      <4>3. screen'[r] = screen[r + shift]
        BY <2>15, <2>20, <3>2, <4>2 DEF WithLinesBelow
      <4>4. IsLine(screen[r + shift], t + (r + shift) + 1, added)
            \/ MayBeBlank(t + (r + shift) + 1)
        BY <2>7, <2>15, <2>20, <4>1 DEF Scrolling
      <4>5. QED
        BY <4>1, <4>3, <4>4
    <3>3. QED
      BY <3>1, <3>2
  <2>16. CASE shift # BottomLines
    <3>1. added' >= Rows
      BY <2>1, <2>7 DEF Scrolling
    <3>2. \A line : MayBeBlank(line)' <=> MayBeBlank(line)
      BY <2>1 DEF MayBeBlank
    <3>3. Scrolling(u)'
      BY <2>1, <2>15, <3>1, <3>2 DEF Scrolling
    <3>4. QED
      BY <2>1, <2>9, <2>14, <2>16, <3>3
  <2>17. CASE shift = BottomLines
    <3>1. u + InWindow = added /\ InWindow' = InWindow
      BY <2>1, <2>11, <2>17 DEF InWindow
    <3>2. bottomLine' = head'
      <4>1. added \in Int
        BY <2>4
      <4>2. bottomLine' % Capacity = added % Capacity
        BY <2>13, <3>1
      <4>5. bottomLine + shift \in Int
        BY <2>4, <2>11
      <4>3. ((bottomLine + shift) % Capacity) % Capacity = (bottomLine + shift) % Capacity
        BY <4>5, SameIndex
      <4>4. QED
        BY <2>1, <2>5, <2>13, <4>2, <4>3
    <3>3. ASSUME NEW r \in 0 .. Rows - 1
          PROVE  ~MayBeBlank(u + r + 1) /\ r < InWindow
      <4>1. ~(count = Capacity /\ u + r + 1 <= added - Capacity + Rows)
        BY <2>4, <2>7, <2>11, <3>1
      <4>2. QED
        BY <2>4, <2>7, <4>1 DEF MayBeBlank
    <3>6. CursorAtNewest'
      <4>1. Rows - 1 \in 0 .. Rows - 1 /\ Rows - 1 >= Rows - shift /\ u + (Rows - 1) + 1 = added
        BY <2>4, <2>7, <2>8, <2>11, <3>1
      <4>2. IsLine(WithLinesBelow(shift)[Rows - 1], added, added)
        BY <2>19, <4>1
      <4>3. QED
        BY <2>1, <2>20, <4>2 DEF CursorAtNewest
    <3>7. NewestRows'
      <4>1. added' - InWindow' = u /\ InWindow' = Rows
        BY <2>1, <2>4, <2>7, <2>11, <3>1
      <4>2. ASSUME ~wrapped'
            PROVE  row' = InWindow' - 1
        BY <2>20, <4>1, <4>2
      <4>3. ASSUME ~wrapped', NEW r \in 0 .. Rows - 1
            PROVE  r < InWindow' /\ IsLine(screen'[r], u + r + 1, added)
        BY <2>15, <3>1, <3>3, <4>3
      <4>4. QED
        BY <2>1, <4>1, <4>2, <4>3 DEF NewestRows
    <3>4. Following(u)'
      BY <2>1, <3>1, <3>2, <3>6, <3>7 DEF Following
    <3>5. QED
      BY <2>1, <2>9, <2>14, <2>17, <3>4
  <2>18. QED
    BY <2>16, <2>17
<1>5. CASE status' = "undefined"
  BY <1>2, <1>5 DEF WindowHolds, Intact
<1>6. QED
  BY <1>2, <1>3, <1>4, <1>5 DEF ScrollDown

\* A redraw keeps a view that begins with slot 0: its lines are those from there
\* to the next line's slot, unless that is slot 0 too and the window stays blank.
LEMMA NewestResize ==
  ASSUME Multiplier >= 2, IInv, BufferHolds, WindowHolds, Resize
  PROVE  BufferHolds' /\ WindowHolds'
<1> DEFINE shown == {r \in 0 .. Rows - 1 : Reloaded(r)}
           last == Cardinality(shown) - 1
           spills == last \in shown /\ SpillsIn(narrow', topLine + last)
<1>1. /\ UNCHANGED <<status, buffer, isLong, tail, head, count, added, topLine,
                     isScrolledUp, lapped>>
      /\ reloaded \/ topLine # 0 => reloaded'
      /\ bottomLine' = IF shown = {} THEN bottomLine ELSE Min({Rows, head}) % Capacity
      /\ Drawn(WithLinesFromTop, last, spills)
      /\ wrapped' = \E r \in shown : SpillsIn(narrow', topLine + r)
  BY DEF Resize, ring
<1>2. BufferHolds'
  BY <1>1 DEF BufferHolds
<1> SUFFICES ASSUME Intact'
             PROVE  \E t \in 0 .. added' :
                      Seen(t)' /\ IF isScrolledUp' THEN Scrolling(t)' ELSE Following(t)'
  BY <1>2, Zenon DEF WindowHolds
<1>3. Intact /\ topLine = 0 /\ TypeOK
  BY <1>1 DEF Intact, IInv, TypeOK
<1>4. PICK t \in 0 .. added : Seen(t) /\ IF isScrolledUp THEN Scrolling(t) ELSE Following(t)
  BY <1>3, Zenon DEF WindowHolds
<1>5. /\ Rows \in Nat \ {0} /\ Capacity \in Nat \ {0}
      /\ Rows < Capacity /\ 2 * Rows <= Capacity
      /\ added \in Nat /\ count \in Nat /\ t \in Nat
      /\ topLine \in 0 .. Capacity - 1 /\ tail \in 0 .. Capacity - 1
      /\ head \in 0 .. Capacity - 1 /\ bottomLine \in Int
      /\ count = (IF added <= Capacity THEN added ELSE Capacity)
      /\ InWindow = (IF added <= Rows THEN added ELSE Rows) /\ InWindow \in Nat
      /\ added - count <= t /\ t + InWindow <= added
  BY <1>3, <1>4, NewestNumbers
<1>6. /\ head = added % Capacity /\ t % Capacity = 0
      /\ bottomLine % Capacity = (t + InWindow) % Capacity
      /\ t \in Int /\ added \in Int
  BY <1>3, <1>4, <1>5 DEF Seen, BufferHolds
<1> DEFINE above == added - t
<1>7. above \in 0 .. Capacity /\ above >= InWindow /\ t + above = added /\ 0 + above = above
      /\ above \in Int
  BY <1>5
<1> HIDE DEF above
<1>8. above % Capacity = head
  <2>1. 0 % Capacity = t % Capacity
    <3>1. 0 \in Slots
      BY <1>5 DEF Slots
    <3>2. 0 % Capacity = 0
      BY <3>1, Remainders
    <3>3. QED
      BY <1>6, <3>2
  <2>2. (0 + above) % Capacity = (t + above) % Capacity
    <3>1. 0 \in Int /\ t \in Int /\ above \in Int
      BY <1>6, <1>7
    <3>2. QED
      BY <2>1, <3>1, StepsAlong, Zenon
  <2>3. QED
    BY <1>6, <1>7, <2>2
<1>9. above < Capacity => head = above
  <2>1. above < Capacity => above \in Slots
    BY <1>5, <1>7 DEF Slots
  <2>2. QED
    BY <1>7, <1>8, <2>1, Remainders
<1>10. above = Capacity => head = 0 /\ count = Capacity /\ t = added - Capacity
  <2>1. Capacity % Capacity = 0
    BY <1>5
  <2>2. above = Capacity => count = Capacity /\ t = added - Capacity
    BY <1>5, <1>7
  <2>3. QED
    BY <1>8, <2>1, <2>2
<1>11. Min({Rows, head}) = IF Rows <= head THEN Rows ELSE head
  BY <1>5, MinOfTwo
<1>12. above < Capacity => Min({Rows, head}) = InWindow
  BY <1>5, <1>7, <1>9, <1>11
<1>13. above < Capacity => shown = 0 .. InWindow - 1
  BY <1>3, <1>5, <1>12 DEF Reloaded
<1>14. above = Capacity => shown = {}
  BY <1>3, <1>5, <1>10, <1>11 DEF Reloaded
<1>24. \A r \in 0 .. Rows - 1 : WithLinesFromTop[r] = IF r \in shown THEN buffer[topLine + r] ELSE NoLine
  BY DEF WithLinesFromTop
<1>25. ~wrapped' => ~spills
  BY <1>1, Zenon
<1>26. spills => last \in 0 .. Rows - 1
  OBVIOUS
<1>27. spills \in BOOLEAN
  OBVIOUS
<1>28. WithLinesFromTop \in [0 .. Rows - 1 -> -MaxLines .. Rest]
  <2>1. \A r \in shown : topLine + r \in Slots
    BY <1>3, <1>5, <1>11 DEF Reloaded, Slots
  <2>2. /\ buffer \in [Slots -> -MaxLines .. MaxLines] /\ 0 \in -MaxLines .. Rest
        /\ -MaxLines .. MaxLines \subseteq -MaxLines .. Rest
    BY <1>3, Sizes DEF TypeOK, Rest
  <2>3. QED
    BY <2>1, <2>2 DEF WithLinesFromTop, NoLine
<1>29. Cardinality(0 .. InWindow - 1) = InWindow
  <2>1. 0 \in Int /\ InWindow - 1 \in Int
    BY <1>5
  <2>2. Cardinality(0 .. InWindow - 1)
          = IF 0 > InWindow - 1 THEN 0 ELSE (InWindow - 1) - 0 + 1
    BY <2>1, FS_Interval
  <2>3. QED
    BY <1>5, <2>2
<1>30. above < Capacity => last = InWindow - 1
  BY <1>13, <1>29
<1>31. above = Capacity => last = -1
  <2>1. Cardinality({}) = 0
    BY FS_EmptySet
  <2>2. QED
    BY <1>14, <2>1
<1> HIDE DEF shown, last, spills
<1>32. last \in -1 .. Rows - 1 /\ (spills => last >= 0)
  BY <1>5, <1>7, <1>26, <1>30, <1>31
<1>33. /\ last >= 0 => /\ row' \in 0 .. Rows - 1
                       /\ screen'[row'] = IF spills THEN Rest ELSE WithLinesFromTop[last]
       /\ ~wrapped' => screen' = WithLinesFromTop /\ row' = last
  <2>1. Drawn(WithLinesFromTop, last, spills)
    BY <1>1
  <2>2. QED
    BY <1>25, <1>27, <1>28, <1>32, <2>1, DrawnCells
<1>15. InWindow \in Slots
  BY <1>5 DEF Slots
<1>16. InWindow' = InWindow
  BY <1>1 DEF InWindow
<1>17. above < Capacity =>
         bottomLine' = IF InWindow = 0 THEN bottomLine ELSE InWindow
  <2>1. InWindow % Capacity = InWindow
    <3>1. InWindow \in Int
      BY <1>5
    <3>2. QED
      BY <1>15, <3>1, Remainders, Zenon
  <2>2. above < Capacity => (shown = {} <=> InWindow = 0)
    <3>1. InWindow = 0 => 0 .. InWindow - 1 = {}
      OBVIOUS
    <3>2. InWindow # 0 => 0 \in 0 .. InWindow - 1
      BY <1>5
    <3>3. QED
      BY <1>13, <3>1, <3>2
  <2>3. QED
    BY <1>1, <1>12, <2>1, <2>2
<1>18. bottomLine' % Capacity = (t + InWindow) % Capacity
  <2>1. CASE above = Capacity \/ InWindow = 0
    <3>1. bottomLine' = bottomLine
      <4>1. above = Capacity => bottomLine' = bottomLine
        BY <1>1, <1>14
      <4>2. above < Capacity \/ above = Capacity
        BY <1>5, <1>7
      <4>3. QED
        BY <1>17, <2>1, <4>1, <4>2
    <3>2. QED
      BY <1>6, <3>1
  <2>2. CASE above # Capacity /\ InWindow # 0
    <3>1. bottomLine' = InWindow
      BY <1>5, <1>7, <1>17, <2>2
    <3>2. 0 \in Int /\ InWindow \in Int /\ 0 + InWindow = InWindow /\ 0 % Capacity = t % Capacity
      <4>1. 0 \in Slots
        BY <1>5 DEF Slots
      <4>2. 0 % Capacity = 0
        BY <4>1, Remainders
      <4>3. QED
        BY <1>5, <1>6, <4>2
    <3>3. (0 + InWindow) % Capacity = (t + InWindow) % Capacity
      BY <1>6, <3>2, StepsAlong
    <3>4. QED
      BY <3>1, <3>2, <3>3
  <2>3. QED
    BY <2>1, <2>2
<1>19. Seen(t)'
  BY <1>1, <1>4, <1>16, <1>18 DEF Seen
<1>20. ASSUME NEW r \in 0 .. Rows - 1, above < Capacity, r < InWindow
       PROVE  IsLine(WithLinesFromTop[r], t + r + 1, added)
  <2>1. WithLinesFromTop[r] = buffer[r]
    BY <1>3, <1>5, <1>13, <1>20, <1>24
  <2>2. t + r \in Int /\ t + r >= added - count /\ t + r < added
        /\ r \in Int /\ r \in Slots /\ 0 + r = r /\ 0 \in Slots
    BY <1>5, <1>20 DEF Slots
  <2>3. 0 % Capacity = t % Capacity /\ r % Capacity = r
    BY <1>6, <2>2, Remainders
  <2>4. (0 + r) % Capacity = (t + r) % Capacity
    BY <1>6, <2>2, <2>3, StepsAlong
  <2>5. IsLine(buffer[r % Capacity], (t + r) + 1, added)
    BY <1>3, <2>2, <2>4, LineInSlot
  <2>6. QED
    BY <2>1, <2>3, <2>5
<1>21. CASE isScrolledUp
  <2>1. added >= Rows /\ InWindow = Rows
    BY <1>4, <1>5, <1>21 DEF Scrolling
  <2>2. ASSUME ~wrapped', NEW r \in 0 .. Rows - 1
        PROVE  IsLine(screen'[r], t + r + 1, added) \/ MayBeBlank(t + r + 1)
    <3>1. CASE above < Capacity
      <4>1. IsLine(WithLinesFromTop[r], t + r + 1, added)
        BY <1>5, <1>20, <2>1, <3>1
      <4>2. QED
        BY <1>33, <2>2, <4>1
    <3>2. CASE above = Capacity
      BY <1>5, <1>10, <3>2 DEF MayBeBlank
    <3>3. QED
      BY <1>5, <1>7, <3>1, <3>2
  <2>3. \A line : MayBeBlank(line)' <=> MayBeBlank(line)
    BY <1>1 DEF MayBeBlank
  <2>4. Scrolling(t)'
    BY <1>1, <2>1, <2>2, <2>3 DEF Scrolling
  <2>5. QED
    BY <1>1, <1>19, <1>21, <2>4
<1>22. CASE ~isScrolledUp
  <2>1. t + InWindow = added /\ bottomLine = head
    BY <1>4, <1>22 DEF Following
  <2>2. above = InWindow /\ above < Capacity /\ head = InWindow
    <3>1. above = InWindow
      BY <1>5, <1>7, <2>1
    <3>2. QED
      BY <1>5, <1>9, <3>1
  <2>3. bottomLine' = head'
    BY <1>1, <1>17, <2>1, <2>2
  <2>4. CursorAtNewest'
    <3>1. SUFFICES ASSUME added > 0
                   PROVE  /\ row' \in 0 .. Rows - 1
                          /\ IsLine(screen'[row'], added, added) \/ screen'[row'] = Rest
      BY <1>1 DEF CursorAtNewest
    <3>2. last \in 0 .. Rows - 1 /\ last < InWindow /\ last >= 0 /\ t + last + 1 = added
      BY <1>5, <1>30, <2>1, <2>2, <3>1
    <3>3. IsLine(WithLinesFromTop[last], added, added)
      BY <1>20, <2>2, <3>2
    <3>4. QED
      BY <1>33, <3>2, <3>3
  <2>5. NewestRows'
    <3>1. SUFFICES ASSUME ~wrapped', NEW r \in 0 .. Rows - 1
                   PROVE  /\ row' = InWindow - 1
                          /\ IF r < InWindow THEN IsLine(screen'[r], (added - InWindow) + r + 1, added)
                             ELSE screen'[r] = NoLine
      BY <1>1, <1>5, <1>16, <1>30, <1>33, <2>2 DEF NewestRows
    <3>2. row' = InWindow - 1 /\ screen'[r] = WithLinesFromTop[r] /\ added - InWindow = t
      BY <1>5, <1>30, <1>33, <2>1, <2>2, <3>1
    <3>3. ~(r < InWindow) => r \notin shown
      BY <1>5, <1>13, <2>2
    <3>4. QED
      BY <1>20, <1>24, <2>2, <3>2, <3>3
  <2>6. Following(t)'
    BY <1>1, <1>16, <2>1, <2>3, <2>4, <2>5 DEF Following
  <2>7. QED
    BY <1>1, <1>19, <1>22, <2>6
<1>23. QED
  BY <1>21, <1>22

\* A buffer of one window has no lines above or below the view, which stays at
\* slot 0: nothing scrolls, and the window only gets its lines one by one.
OneWindow ==
  Multiplier = 1 =>
    /\ topLine = 0 /\ bottomLine = head /\ ~isScrolledUp
    /\ Intact => CursorAtNewest /\ NewestRows

LEMMA OneWindowInit == Init => OneWindow
<1> SUFFICES ASSUME Init
             PROVE  OneWindow
  OBVIOUS
<1>1. InWindow = 0 /\ added = 0
  BY Sizes DEF Init, InWindow
<1>2. NewestRows
  BY <1>1, Sizes DEF Init, NewestRows
<1>3. CursorAtNewest
  BY <1>1 DEF CursorAtNewest
<1>4. QED
  BY <1>2, <1>3 DEF Init, OneWindow

LEMMA OneWindowSame ==
  ASSUME OneWindow, UNCHANGED <<ring, view, reloaded, lapped>>,
         status = "running" => UNCHANGED window, Intact' => status = "running"
  PROVE  OneWindow'
<1>1. UNCHANGED <<topLine, bottomLine, isScrolledUp, head, added, reloaded, lapped>>
  BY DEF ring, view
<1>2. ASSUME Multiplier = 1, Intact'
      PROVE  CursorAtNewest' /\ NewestRows'
  <2>1. UNCHANGED <<screen, row, wrapped>> /\ Intact
    BY <1>1, <1>2 DEF window, Intact
  <2>2. CursorAtNewest /\ NewestRows /\ InWindow' = InWindow
    BY <1>1, <1>2, <2>1 DEF OneWindow, InWindow
  <2>3. QED
    BY <1>1, <2>1, <2>2 DEF CursorAtNewest, NewestRows
<1>3. QED
  BY <1>1, <1>2 DEF OneWindow

LEMMA OneWindowAddLine ==
  ASSUME Multiplier = 1, TypeOK, BufferHolds, OneWindow, NEW long \in BOOLEAN, AddLine(long)
  PROVE  OneWindow'
<1>1. BufferHolds' /\ added \in Nat /\ added' = added + 1
  BY AddLineStores
<1>2. Capacity = Rows /\ Rows \in Nat \ {0}
  BY Sizes DEF Capacity
<1>3. ~(count' > Rows)
  BY <1>1, <1>2 DEF BufferHolds
<1>4. topLine = 0 /\ bottomLine = head /\ ~isScrolledUp
  BY DEF OneWindow
<1>5. /\ topLine' = 0 /\ bottomLine' = head' /\ ~isScrolledUp'
      /\ Printed(added', narrow /\ long) /\ added' <= MaxLines
  BY <1>1, <1>3, <1>4, Sizes DEF AddLine, Added, Follow
<1>6. Intact' => CursorAtNewest' /\ NewestRows'
  <2>1. Intact' => Intact
    BY Zenon DEF Intact, AddLine
  <2>2. Intact => NewestRows
    BY DEF OneWindow
  <2>3. QED
    BY <1>1, <1>5, <2>1, <2>2, NewestRowsFollow
<1>7. QED
  BY <1>5, <1>6 DEF OneWindow

LEMMA OneWindowScroll ==
  ASSUME Multiplier = 1, TypeOK, OneWindow, NEW rows \in 1 .. Rows,
         ScrollUp(rows) \/ ScrollDown(rows)
  PROVE  OneWindow'
<1>1. /\ tail \in Slots /\ head \in Slots /\ Capacity \in Nat \ {0}
      /\ topLine = 0 /\ bottomLine = head
  BY Sizes DEF TypeOK, OneWindow
<1>2. ASSUME ScrollUp(rows)
      PROVE  /\ UNCHANGED <<ring, view, window, reloaded, lapped>>
             /\ status = "running"
  <2>1. TopCountEnds => TopLines = 0
    BY <1>1 DEF TopCountEnds, TopLines, Slots
  <2>2. QED
    BY <1>2, <2>1 DEF ScrollUp
<1>3. ASSUME ScrollDown(rows)
      PROVE  /\ UNCHANGED <<ring, view, window, reloaded, lapped>>
             /\ status = "running"
  <2>1. 0 % Capacity = 0
    <3>1. 0 \in Slots
      BY <1>1 DEF Slots
    <3>2. QED
      BY <3>1, Remainders
  <2>2. head - bottomLine = 0 /\ ~(bottomLine < 0)
    BY <1>1 DEF Slots
  <2>3. BottomLines = 0
    BY <2>1, <2>2 DEF BottomLines
  <2>4. QED
    BY <1>3, <2>3 DEF ScrollDown
<1>4. QED
  BY <1>2, <1>3, OneWindowSame

LEMMA OneWindowResize ==
  ASSUME Multiplier = 1, TypeOK, BufferHolds, OneWindow, Resize
  PROVE  OneWindow'
<1> DEFINE shown == {r \in 0 .. Rows - 1 : Reloaded(r)}
           last == Cardinality(shown) - 1
           spills == last \in shown /\ SpillsIn(narrow', topLine + last)
<1>1. /\ UNCHANGED <<status, buffer, isLong, tail, head, count, added, topLine,
                     isScrolledUp, lapped>>
      /\ \/ reloaded
         \/ topLine # 0
         \/ ~isScrolledUp /\ Cardinality(shown) < Min({Rows, count})
         => reloaded'
      /\ bottomLine' = IF shown = {} THEN bottomLine ELSE Min({Rows, head}) % Capacity
      /\ Drawn(WithLinesFromTop, last, spills)
      /\ wrapped' = \E r \in shown : SpillsIn(narrow', topLine + r)
  BY DEF Resize, ring
<1>2. /\ Capacity = Rows /\ Rows \in Nat \ {0} /\ MaxLines \in Nat \ {0}
      /\ topLine = 0 /\ bottomLine = head /\ ~isScrolledUp
      /\ head \in 0 .. Rows - 1 /\ head \in Slots /\ count \in 0 .. Rows /\ added \in Nat
  BY Sizes DEF Capacity, TypeOK, OneWindow, Slots
<1>3. Min({Rows, head}) = head /\ Min({Rows, count}) = count
  BY <1>2, MinOfTwo
<1>4. shown = 0 .. head - 1
  BY <1>2, <1>3 DEF Reloaded
<1>5. Cardinality(shown) = head
  <2>1. 0 \in Int /\ head - 1 \in Int
    BY <1>2
  <2>2. Cardinality(0 .. head - 1) = IF 0 > head - 1 THEN 0 ELSE (head - 1) - 0 + 1
    BY <2>1, FS_Interval
  <2>3. Cardinality(0 .. head - 1) = head
    BY <1>2, <2>2
  <2> HIDE DEF shown
  <2>4. QED
    BY <1>4, <2>3
<1>6. bottomLine' = head'
  <2>1. head % Capacity = head
    BY <1>2, Remainders
  <2>2. bottomLine' = bottomLine \/ bottomLine' = Min({Rows, head}) % Capacity
    BY <1>1, Zenon
  <2>3. head' = head
    BY <1>1
  <2>4. QED
    BY <1>2, <1>3, <2>1, <2>2, <2>3
<1>7. \A r \in 0 .. Rows - 1 : WithLinesFromTop[r] = IF r \in shown THEN buffer[topLine + r] ELSE NoLine
  BY DEF WithLinesFromTop
<1>8. ~wrapped' => ~spills
  BY <1>1, Zenon
<1>9. spills \in BOOLEAN
  OBVIOUS
<1>10. WithLinesFromTop \in [0 .. Rows - 1 -> -MaxLines .. Rest]
  <2>1. \A r \in shown : topLine + r \in Slots
    BY <1>2, <1>4 DEF Slots
  <2>2. /\ buffer \in [Slots -> -MaxLines .. MaxLines] /\ 0 \in -MaxLines .. Rest
        /\ -MaxLines .. MaxLines \subseteq -MaxLines .. Rest
    BY <1>2 DEF TypeOK, Rest
  <2>3. QED
    BY <2>1, <2>2 DEF WithLinesFromTop, NoLine
<1>11. last = head - 1 /\ last \in -1 .. Rows - 1
  BY <1>2, <1>5
<1>12. spills => last >= 0
  BY <1>2, <1>4, <1>11
<1> HIDE DEF last, spills
<1>13. /\ last >= 0 => /\ row' \in 0 .. Rows - 1
                       /\ screen'[row'] = IF spills THEN Rest ELSE WithLinesFromTop[last]
       /\ ~spills => screen' = WithLinesFromTop /\ row' = last
  <2>1. Drawn(WithLinesFromTop, last, spills)
    BY <1>1
  <2>2. QED
    BY <1>9, <1>10, <1>11, <1>12, <2>1, DrawnCells
<1>14. ASSUME Intact'
       PROVE  CursorAtNewest' /\ NewestRows'
  <2>1. ~(head < count)
    BY <1>1, <1>2, <1>3, <1>5, <1>14 DEF Intact
  <2>2. added < Rows /\ head = added /\ count = added
    <3>1. /\ head = added % Capacity
          /\ count = (IF added <= Capacity THEN added ELSE Capacity)
      BY DEF BufferHolds
    <3>2. count < Rows
      BY <1>2, <2>1
    <3>3. added < Rows /\ count = added /\ added \in Slots
      BY <1>2, <3>1, <3>2 DEF Slots
    <3>4. added % Capacity = added
      BY <1>2, <3>3, Remainders
    <3>5. QED
      BY <3>1, <3>3, <3>4
  <2>3. InWindow' = added /\ added' = added
    <3>1. added' = added
      BY <1>1
    <3>2. QED
      BY <1>2, <2>2, <3>1 DEF InWindow
  <2>4. ASSUME NEW r \in 0 .. Rows - 1, r < added
        PROVE  IsLine(WithLinesFromTop[r], r + 1, added)
    <3>1. r \in shown /\ topLine + r = r /\ r \in Slots /\ r \in Int
      BY <1>2, <1>4, <2>2, <2>4 DEF Slots
    <3>2. r >= added - count
      BY <1>2, <2>2, <3>1
    <3>3. IsLine(buffer[r % Capacity], r + 1, added)
      BY <2>4, <3>1, <3>2, LineInSlot
    <3>4. r % Capacity = r
      BY <3>1, Remainders
    <3>5. QED
      BY <1>7, <3>1, <3>3, <3>4
  <2>5. CursorAtNewest'
    <3>1. SUFFICES ASSUME added > 0
                   PROVE  /\ row' \in 0 .. Rows - 1
                          /\ IsLine(screen'[row'], added, added) \/ screen'[row'] = Rest
      BY <2>3 DEF CursorAtNewest
    <3>2. last \in 0 .. Rows - 1 /\ last < added /\ last >= 0 /\ last + 1 = added
      BY <1>2, <1>11, <2>2, <3>1
    <3>3. IsLine(WithLinesFromTop[last], added, added)
      BY <2>4, <3>2
    <3>4. QED
      BY <1>13, <3>2, <3>3
  <2>6. NewestRows'
    <3>1. SUFFICES ASSUME ~wrapped'
                   PROVE  /\ row' = added - 1
                          /\ \A r \in 0 .. Rows - 1 :
                               IF r < added THEN IsLine(screen'[r], (added - added) + r + 1, added)
                               ELSE screen'[r] = NoLine
      BY <2>3 DEF NewestRows
    <3>2. row' = added - 1 /\ screen' = WithLinesFromTop
      BY <1>8, <1>11, <1>13, <2>2, <3>1
    <3>3. ASSUME NEW r \in 0 .. Rows - 1
          PROVE  IF r < added THEN IsLine(screen'[r], (added - added) + r + 1, added)
                 ELSE screen'[r] = NoLine
      <4>1. (added - added) + r + 1 = r + 1 /\ (~(r < added) => r \notin shown)
        BY <1>2, <1>4, <2>2
      <4>2. QED
        BY <1>7, <2>4, <3>2, <4>1
    <3>4. QED
      BY <3>2, <3>3
  <2>7. QED
    BY <2>5, <2>6
<1>15. QED
  BY <1>1, <1>2, <1>6, <1>14 DEF OneWindow

\* A window that is not scrolled up ends with the newest line, and its rows are the
\* newest lines as long as none took two rows, through every sequence of lines,
\* scrolls, redraws and new widths, whatever the sizes of the window and the buffer;
\* a window redrawn with lines above it or without some below and a buffer that
\* lost a line of the view are excepted, as FollowsNewest says.
THEOREM NewestShown == Spec => []FollowsNewest
<1> DEFINE J == BufferHolds /\ (Multiplier >= 2 => WindowHolds) /\ OneWindow
<1>1. Init => J
  BY NewestInit, OneWindowInit
<1>2. IInv /\ J /\ [Next]_vars => J'
  <2> SUFFICES ASSUME IInv, J, [Next]_vars
               PROVE  J'
    OBVIOUS
  <2>1. /\ 1 \in 1 .. Rows /\ Rows \in 1 .. Rows /\ TypeOK
        /\ Multiplier >= 2 \/ Multiplier = 1
    BY Sizes DEF IInv
  <2>2. ASSUME NEW long \in BOOLEAN, AddLine(long)
        PROVE  J'
    <3>1. BufferHolds'
      BY <2>1, <2>2, AddLineStores
    <3>2. Multiplier >= 2 => WindowHolds'
      BY <2>1, <2>2, NewestAddLine DEF NewestInv
    <3>3. Multiplier = 1 => OneWindow'
      BY <2>1, <2>2, OneWindowAddLine
    <3>4. QED
      BY <3>1, <3>2, <3>3 DEF OneWindow
  <2>3. ASSUME NEW rows \in 1 .. Rows, ScrollUp(rows) \/ ScrollDown(rows)
        PROVE  J'
    <3>1. BufferHolds'
      <4>1. UNCHANGED ring
        BY <2>3 DEF ScrollUp, ScrollDown
      <4>2. QED
        BY <4>1 DEF BufferHolds, ring
    <3>2. Multiplier >= 2 => WindowHolds'
      BY <2>3, NewestScrollUp, NewestScrollDown
    <3>3. Multiplier = 1 => OneWindow'
      BY <2>1, <2>3, OneWindowScroll
    <3>4. QED
      BY <3>1, <3>2, <3>3 DEF OneWindow
  <2>4. CASE ScrollLineUp \/ ScrollPageUp \/ ScrollLineDown \/ ScrollPageDown
    BY <2>1, <2>3, <2>4 DEF ScrollLineUp, ScrollPageUp, ScrollLineDown, ScrollPageDown
  <2>5. CASE Resize
    <3>1. BufferHolds'
      BY <2>5 DEF Resize, ring, BufferHolds
    <3>2. Multiplier >= 2 => WindowHolds'
      BY <2>5, NewestResize
    <3>3. Multiplier = 1 => OneWindow'
      BY <2>1, <2>5, OneWindowResize
    <3>4. QED
      BY <3>1, <3>2, <3>3 DEF OneWindow
  <2>6. CASE UNCHANGED vars
    <3>1. UNCHANGED <<ring, view, window, status, reloaded, lapped>>
      BY <2>6 DEF vars
    <3>2. UNCHANGED <<added, head, count, tail, buffer, isLong>> /\ BufferHolds'
      BY <3>1 DEF BufferHolds, ring
    <3>3. Multiplier >= 2 => WindowHolds'
      <4>1. Multiplier >= 2 /\ status = "running" => WindowHolds'
        BY <3>1, NewestSame
      <4>2. status # "running" => WindowHolds'
        BY <3>1, Zenon DEF WindowHolds, Intact
      <4>3. QED
        BY <4>1, <4>2
    <3>4. OneWindow'
      <4>1. Intact' => Intact
        BY <3>1 DEF Intact
      <4>2. QED
        BY <3>1, <4>1, OneWindowSame DEF Intact
    <3>5. QED
      BY <3>2, <3>3, <3>4
  <2>7. QED
    BY <2>2, <2>4, <2>5, <2>6 DEF Next
<1>3. IInv /\ J => FollowsNewest
  <2> SUFFICES ASSUME TypeOK, J, Intact, ~isScrolledUp
               PROVE  /\ added > 0 => IsLine(screen[row], added, added) \/ screen[row] = Rest
                      /\ ~wrapped => \A r \in ScreenRows :
                           IF r < added
                           THEN IsLine(screen[r],
                                       r + 1 + (IF added <= Rows THEN 0 ELSE added - Rows), added)
                           ELSE screen[r] = NoLine
    BY DEF IInv, FollowsNewest, Intact
  <2>1. CursorAtNewest /\ NewestRows
    <3>1. Multiplier >= 2 \/ Multiplier = 1
      BY Sizes
    <3>2. CASE Multiplier >= 2
      <4>1. PICK t \in 0 .. added : Following(t)
        BY <3>2, Zenon DEF WindowHolds
      <4>2. QED
        BY <4>1 DEF Following
    <3>3. CASE Multiplier = 1
      BY <3>3 DEF OneWindow
    <3>4. QED
      BY <3>1, <3>2, <3>3
  <2>2. added \in Nat /\ Rows \in Nat \ {0}
    BY Sizes DEF TypeOK
  <2>3. ASSUME ~wrapped, NEW r \in 0 .. Rows - 1
        PROVE  IF r < added
               THEN IsLine(screen[r], r + 1 + (IF added <= Rows THEN 0 ELSE added - Rows), added)
               ELSE screen[r] = NoLine
    <3>1. IF r < InWindow THEN IsLine(screen[r], (added - InWindow) + r + 1, added)
          ELSE screen[r] = NoLine
      BY <2>1, <2>3 DEF NewestRows
    <3>2. /\ r < InWindow <=> r < added
          /\ (added - InWindow) + r + 1 = r + 1 + (IF added <= Rows THEN 0 ELSE added - Rows)
      BY <2>2 DEF InWindow
    <3>3. QED
      BY <3>1, <3>2
  <2>4. QED
    BY <2>1, <2>3 DEF CursorAtNewest
<1> HIDE DEF J
<1>4. Spec => []J
  BY <1>1, <1>2, Inductive, PTL DEF Spec
<1>5. QED
  BY <1>3, <1>4, Inductive, PTL
===============================================================================
