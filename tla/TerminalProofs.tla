---------------------------- MODULE TerminalProofs ----------------------------
(***************************************************************************)
(* Proofs about kernel/driver/graphics/terminal.c for every size of a      *)
(* character, every mode of the firmware and every text.                   *)
(***************************************************************************)
EXTENDS Terminal, TLAPS

(* A line of cells, and a roll of lines. *)
IsLine(f) == f = [c \in 0 .. Columns - 1 |-> f[c]]

IsRoll(s) ==
  /\ s \in Seq({s[k] : k \in DOMAIN s}) /\ Len(s) \in Nat \ {0}
  /\ \A k \in 1 .. Len(s) : IsLine(s[k])

(* A roll with a character in the last line. *)
Stamped(s, col, g) == [s EXCEPT ![Len(s)][col] = g]

Row(t) == t.y \div CharHeight

(* The cursor is on a cell, or behind the last one of its line, and a      *)
(* pixel is left below its line; so was the last glyph drawn.              *)
CursorOK(t, col) ==
  /\ DOMAIN t = {"x", "y", "screen", "drawn"}
  /\ col \in 0 .. Columns /\ t.x = col * CharWidth
  /\ t.y \in Nat /\ t.y = Row(t) * CharHeight /\ t.y + CharHeight < mode.height
  /\ t.drawn[1] \in Nat /\ t.drawn[1] < mode.width
  /\ t.drawn[2] \in Nat /\ t.drawn[2] + CharHeight < mode.height

(* The screen shows the end of the roll. *)
Shows(t, lines) ==
  /\ t.screen = [l \in 0 .. terminal_lines - 1 |->
                   IF l <= Row(t) THEN lines[Len(lines) - Row(t) + l] ELSE BlankLine]
  /\ Row(t) + 1 <= Len(lines)
  /\ Len(lines) > Row(t) + 1 => t.y + 2 * CharHeight >= mode.height

Good(t, lines, col) == CursorOK(t, col) /\ IsRoll(lines) /\ Shows(t, lines)

TermInv ==
  /\ mode \in Modes
  /\ paper = [lines |-> paper.lines, column |-> paper.column]
  /\ Good(Here, paper.lines, paper.column)
  /\ straight => column = paper.column
-----------------------------------------------------------------------------
(* Multiplication is monotonic. *)
LEMMA TimesMonotonic ==
  ASSUME NEW a \in Nat, NEW b \in Nat, NEW c \in Nat, a <= b
  PROVE  a * c <= b * c
OBVIOUS

(* A quotient is the only number of its kind. *)
LEMMA QuotientUnique ==
  ASSUME NEW a \in Nat, NEW b \in Nat \ {0}, NEW q \in Nat, q * b <= a, a < q * b + b
  PROVE  a \div b = q
<1> DEFINE r == a \div b
<1>1. r \in Nat /\ r * b <= a /\ a < r * b + b
  OBVIOUS
<1> HIDE DEF r
<1>2. ~(r < q)
  <2>1. SUFFICES ASSUME r + 1 <= q PROVE FALSE
    BY <1>1
  <2>2. (r + 1) * b <= q * b
    BY <1>1, <2>1, TimesMonotonic
  <2>3. (r + 1) * b = r * b + b
    BY <1>1
  <2>4. r * b \in Nat /\ q * b \in Nat
    BY <1>1
  <2>5. QED
    BY <1>1, <2>2, <2>3, <2>4
<1>3. ~(q < r)
  <2>1. SUFFICES ASSUME q + 1 <= r PROVE FALSE
    BY <1>1
  <2>2. (q + 1) * b <= r * b
    BY <1>1, <2>1, TimesMonotonic
  <2>3. (q + 1) * b = q * b + b
    OBVIOUS
  <2>4. r * b \in Nat /\ q * b \in Nat
    BY <1>1
  <2>5. QED
    BY <1>1, <2>2, <2>3, <2>4
<1>4. QED
  BY <1>1, <1>2, <1>3 DEF r

(* The sizes of a mode of the firmware. *)
LEMMA ModeFacts ==
  ASSUME mode \in Modes
  PROVE  /\ CharWidth \in Nat \ {0} /\ CharHeight \in Nat \ {0}
         /\ mode.width \in Nat /\ mode.height \in Nat /\ mode.scanline \in Nat
         /\ mode.width >= CharWidth /\ mode.scanline >= mode.width
         /\ mode.height > CharHeight
BY TerminalAssumption

(* The last column starts inside the screen, the next one would not. *)
LEMMA ColumnFacts ==
  ASSUME mode \in Modes
  PROVE  /\ Columns \in Nat \ {0}
         /\ \A col \in Nat : /\ col * CharWidth \in Nat
                             /\ col * CharWidth >= mode.width <=> col >= Columns
<1> DEFINE w == mode.width
           a == w + CharWidth - 1
<1>1. CharWidth \in Nat \ {0} /\ w \in Nat /\ w >= CharWidth
  BY ModeFacts
<1> HIDE DEF w
<1>2. a \in Nat
  BY <1>1
<1>3. Columns = a \div CharWidth
  BY DEF Columns, w
<1>4. /\ Columns \in Nat /\ Columns * CharWidth \in Nat
      /\ Columns * CharWidth <= a /\ a < Columns * CharWidth + CharWidth
  BY <1>1, <1>2, <1>3
<1>5. Columns * CharWidth >= w /\ Columns * CharWidth < w + CharWidth
  BY <1>1, <1>4
<1>6. Columns # 0
  BY <1>1, <1>5
<1>7. ASSUME NEW col \in Nat
      PROVE  col * CharWidth \in Nat /\ (col * CharWidth >= w <=> col >= Columns)
  <2>1. col * CharWidth \in Nat
    BY <1>1
  <2>2. CASE col >= Columns
    <3>1. Columns * CharWidth <= col * CharWidth
      BY <1>1, <1>4, <2>2, TimesMonotonic
    <3>2. QED
      BY <1>1, <1>4, <1>5, <2>1, <2>2, <3>1
  <2>3. CASE ~(col >= Columns)
    <3>1. (col + 1) * CharWidth <= Columns * CharWidth
      BY <1>1, <1>4, <2>3, TimesMonotonic
    <3>2. (col + 1) * CharWidth = col * CharWidth + CharWidth
      BY <1>1
    <3>3. QED
      BY <1>1, <1>4, <1>5, <2>1, <2>3, <3>1, <3>2
  <2>4. QED
    BY <2>2, <2>3
<1>8. QED
  BY <1>4, <1>6, <1>7 DEF w

(* The lines of the screen: the one of a cursor with a pixel below it is   *)
(* among them.                                                             *)
LEMMA RowFacts ==
  ASSUME mode \in Modes, NEW row \in Nat, row * CharHeight + CharHeight < mode.height
  PROVE  /\ (row * CharHeight) \div CharHeight = row
         /\ terminal_lines \in Nat /\ row + 1 <= terminal_lines
         /\ (row + 1) * CharHeight = row * CharHeight + CharHeight
         /\ row * CharHeight \in Nat
<1> DEFINE h == mode.height
<1>1. CharHeight \in Nat \ {0} /\ h \in Nat
  BY ModeFacts
<1> HIDE DEF h
<1>2. row * CharHeight \in Nat /\ (row + 1) * CharHeight = row * CharHeight + CharHeight
  BY <1>1
<1>3. (row * CharHeight) \div CharHeight = row
  BY <1>1, <1>2, QuotientUnique
<1>4. terminal_lines = h \div CharHeight
  BY DEF terminal_lines, h
<1>5. /\ terminal_lines \in Nat /\ terminal_lines * CharHeight \in Nat
      /\ h < terminal_lines * CharHeight + CharHeight
  BY <1>1, <1>4
<1>6. row + 1 <= terminal_lines
  <2>1. SUFFICES ASSUME terminal_lines <= row PROVE FALSE
    BY <1>5
  <2>2. terminal_lines * CharHeight <= row * CharHeight
    BY <1>1, <1>5, <2>1, TimesMonotonic
  <2>3. QED
    BY <1>1, <1>2, <1>5, <2>2 DEF h
<1>7. QED
  BY <1>2, <1>3, <1>5, <1>6

(* A tab goes as many cells on the screen as on the roll. *)
LEMMA TabFacts ==
  ASSUME mode \in Modes, NEW col \in Nat
  PROVE  /\ TabStop(col, 1) \in Nat
         /\ TabStop(col * CharWidth, CharWidth) = TabStop(col, 1) * CharWidth
<1> DEFINE q == (col + 4) \div 4
<1>1. CharWidth \in Nat \ {0} /\ 4 * CharWidth \in Nat \ {0}
  BY ModeFacts
<1>2. q \in Nat /\ q * 4 <= col + 4 /\ col + 4 < q * 4 + 4
  OBVIOUS
<1>3. TabStop(col, 1) = q * 4
  BY DEF TabStop
<1> HIDE DEF q
<1>4. (q * 4) * CharWidth <= (col + 4) * CharWidth
  BY <1>1, <1>2, TimesMonotonic
<1>5. (col + 5) * CharWidth <= (q * 4 + 4) * CharWidth
  BY <1>1, <1>2, TimesMonotonic
<1>6. /\ (q * 4) * CharWidth = q * (4 * CharWidth) /\ q * (4 * CharWidth) \in Nat
      /\ (col + 4) * CharWidth = col * CharWidth + 4 * CharWidth /\ col * CharWidth \in Nat
      /\ (col + 5) * CharWidth = col * CharWidth + 4 * CharWidth + CharWidth
      /\ (q * 4 + 4) * CharWidth = q * (4 * CharWidth) + 4 * CharWidth
  BY <1>1, <1>2
<1>7. /\ q * (4 * CharWidth) <= col * CharWidth + 4 * CharWidth
      /\ col * CharWidth + 4 * CharWidth < q * (4 * CharWidth) + 4 * CharWidth
  BY <1>1, <1>4, <1>5, <1>6
<1>8. (col * CharWidth + 4 * CharWidth) \div (4 * CharWidth) = q
  BY <1>1, <1>2, <1>6, <1>7, QuotientUnique
<1>9. QED
  BY <1>2, <1>3, <1>6, <1>8 DEF TabStop

(* A function on 1 .. n is a sequence of its values. *)
LEMMA SeqOfValues ==
  ASSUME NEW n \in Nat, NEW s, s = [k \in 1 .. n |-> s[k]]
  PROVE  s \in Seq({s[k] : k \in DOMAIN s}) /\ Len(s) = n /\ DOMAIN s = 1 .. n
<1> DEFINE R == {s[k] : k \in DOMAIN s}
<1>1. DOMAIN s = 1 .. n
  OBVIOUS
<1>2. \A k \in 1 .. n : s[k] \in R
  BY <1>1
<1>3. s \in [1 .. n -> R]
  BY <1>2
<1> HIDE DEF R
<1>4. s \in Seq(R) /\ Len(s) = n
  BY <1>3
<1>5. QED
  BY <1>1, <1>4 DEF R

(* A roll is a function on 1 .. Len(s). *)
LEMMA RollFacts ==
  ASSUME NEW s, IsRoll(s)
  PROVE  Len(s) \in Nat \ {0} /\ DOMAIN s = 1 .. Len(s) /\ s = [k \in 1 .. Len(s) |-> s[k]]
<1>1. ASSUME NEW R, s \in Seq(R)
      PROVE  DOMAIN s = 1 .. Len(s) /\ s = [k \in 1 .. Len(s) |-> s[k]]
  BY <1>1
<1>2. QED
  BY <1>1 DEF IsRoll

(* A blank line at the end of a roll. *)
LEMMA RollAppend ==
  ASSUME NEW s, IsRoll(s)
  PROVE  LET t == Append(s, BlankLine)
         IN /\ IsRoll(t) /\ Len(t) = Len(s) + 1
            /\ t[Len(s) + 1] = BlankLine
            /\ \A k \in 1 .. Len(s) : t[k] = s[k]
<1> DEFINE t == Append(s, BlankLine)
           R == {s[k] : k \in DOMAIN s} \cup {BlankLine}
           n == Len(s)
<1>1. n \in Nat \ {0} /\ DOMAIN s = 1 .. n /\ s = [k \in 1 .. n |-> s[k]]
  BY RollFacts
<1>2. s \in [1 .. n -> R]
  BY <1>1
<1> HIDE DEF R, n
<1>3. s \in Seq(R) /\ Len(s) = n
  BY <1>1, <1>2
<1>4. BlankLine \in R
  BY DEF R
<1>5. /\ t \in Seq(R) /\ Len(t) = n + 1 /\ t[n + 1] = BlankLine
      /\ \A k \in 1 .. n : t[k] = s[k]
  BY <1>3, <1>4
<1> HIDE DEF t
<1>6. t = [k \in 1 .. n + 1 |-> t[k]]
  BY <1>5
<1>7. t \in Seq({t[k] : k \in DOMAIN t})
  BY <1>1, <1>6, SeqOfValues
<1>8. IsLine(BlankLine)
  BY DEF IsLine, BlankLine
<1>9. \A k \in 1 .. n : IsLine(s[k])
  BY DEF IsRoll, n
<1>10. \A k \in 1 .. n + 1 : k \in 1 .. n \/ k = n + 1
  BY <1>1
<1>11. \A k \in 1 .. Len(t) : IsLine(t[k])
  BY <1>5, <1>8, <1>9, <1>10
<1>12. IsRoll(t)
  BY <1>1, <1>5, <1>7, <1>11 DEF IsRoll
<1>13. QED
  BY <1>5, <1>12 DEF t, n

(* t is the roll s with g at column col of its last line. *)
IsStamped(t, s, col, g) ==
  /\ IsRoll(t) /\ Len(t) = Len(s)
  /\ t[Len(s)] = [s[Len(s)] EXCEPT ![col] = g]
  /\ \A k \in 1 .. Len(s) : k # Len(s) => t[k] = s[k]

(* A cell of the last line changed. *)
LEMMA RollReplace ==
  ASSUME NEW s, IsRoll(s), NEW col \in 0 .. Columns - 1, NEW g
  PROVE  IsStamped(Stamped(s, col, g), s, col, g)
<1> DEFINE t == Stamped(s, col, g)
           n == Len(s)
<1>1. n \in Nat \ {0} /\ DOMAIN s = 1 .. n /\ s = [k \in 1 .. n |-> s[k]]
  BY RollFacts
<1>2. t = [k \in 1 .. n |-> IF k = n THEN [s[n] EXCEPT ![col] = g] ELSE s[k]]
  <2>1. n \in 1 .. n
    BY <1>1
  <2>2. t = [s EXCEPT ![n] = [s[n] EXCEPT ![col] = g]]
    BY <1>1 DEF Stamped
  <2> HIDE DEF t, n
  <2>3. QED
    BY <1>1, <2>1, <2>2
<1> HIDE DEF t, n
<1>3. /\ t = [k \in 1 .. n |-> t[k]] /\ t[n] = [s[n] EXCEPT ![col] = g]
      /\ \A k \in 1 .. n : k # n => t[k] = s[k]
  BY <1>1, <1>2
<1>4. t \in Seq({t[k] : k \in DOMAIN t}) /\ Len(t) = n
  BY <1>1, <1>3, SeqOfValues
<1>5. \A k \in 1 .. n : IsLine(s[k])
  BY DEF IsRoll, n
<1>6. IsLine(t[n])
  <2>1. ASSUME NEW f, IsLine(f) PROVE IsLine([f EXCEPT ![col] = g])
    <3> DEFINE e == [f EXCEPT ![col] = g]
    <3>1. DOMAIN f = 0 .. Columns - 1
      BY <2>1 DEF IsLine
    <3>2. e = [c \in DOMAIN f |-> IF c = col THEN g ELSE f[c]]
      OBVIOUS
    <3>3. \A c \in 0 .. Columns - 1 : e[c] = IF c = col THEN g ELSE f[c]
      BY <3>1, <3>2
    <3> HIDE DEF e
    <3>4. e = [c \in 0 .. Columns - 1 |-> e[c]]
      BY <3>1, <3>2, <3>3
    <3>5. QED
      BY <3>4 DEF IsLine, e
  <2>2. IsLine(s[n])
    BY <1>1, <1>5
  <2>3. QED
    BY <1>3, <2>1, <2>2
<1>7. \A k \in 1 .. Len(t) : IsLine(t[k])
  BY <1>3, <1>4, <1>5, <1>6
<1>8. IsRoll(t)
  BY <1>1, <1>4, <1>7 DEF IsRoll
<1>9. IsStamped(t, s, col, g)
  BY <1>3, <1>4, <1>8 DEF IsStamped, n
<1>10. QED
  BY <1>9 DEF t

(* The sizes, the row and the columns, in a good state. *)
LEMMA GoodFacts ==
  ASSUME mode \in Modes, NEW t, NEW lines, NEW col, Good(t, lines, col)
  PROVE  /\ CharWidth \in Nat \ {0} /\ CharHeight \in Nat \ {0}
         /\ mode.width \in Nat \ {0} /\ mode.height \in Nat
         /\ Columns \in Nat \ {0} /\ col \in Nat /\ col <= Columns
         /\ t.x \in Nat /\ t.x = col * CharWidth /\ (t.x >= mode.width <=> col = Columns)
         /\ t.y \in Nat /\ t.y + CharHeight < mode.height
         /\ Row(t) \in Nat /\ t.y = Row(t) * CharHeight
         /\ terminal_lines \in Nat /\ Row(t) + 1 <= terminal_lines
         /\ Len(lines) \in Nat \ {0} /\ Row(t) + 1 <= Len(lines)
<1>1. /\ CharWidth \in Nat \ {0} /\ CharHeight \in Nat \ {0}
      /\ mode.width \in Nat \ {0} /\ mode.height \in Nat
  BY ModeFacts
<1>2. Columns \in Nat \ {0}
  BY ColumnFacts
<1>3. col \in Nat /\ col <= Columns
  BY <1>2 DEF Good, CursorOK
<1>4. t.x = col * CharWidth
  BY DEF Good, CursorOK
<1>5. t.x \in Nat /\ (t.x >= mode.width <=> col >= Columns)
  BY <1>3, <1>4, ColumnFacts
<1>6. t.y \in Nat /\ t.y + CharHeight < mode.height /\ t.y = Row(t) * CharHeight
  BY DEF Good, CursorOK
<1>7. Row(t) \in Nat
  BY <1>1, <1>6 DEF Row
<1>8. terminal_lines \in Nat /\ Row(t) + 1 <= terminal_lines
  BY <1>6, <1>7, RowFacts
<1>9. Len(lines) \in Nat \ {0} /\ Row(t) + 1 <= Len(lines)
  BY DEF Good, IsRoll, Shows
<1>10. t.x >= mode.width <=> col = Columns
  BY <1>2, <1>3, <1>5
<1>11. QED
  BY <1>1, <1>2, <1>3, <1>4, <1>5, <1>6, <1>7, <1>8, <1>9, <1>10

(* terminal_refresh does nothing while the cursor is on the screen. *)
LEMMA RefreshStays ==
  ASSUME NEW t, ~(t.x >= mode.width), ~(t.y + CharHeight >= mode.height)
  PROVE  Refresh(t) = t
BY DEF Refresh, Wrapped, OffBottom

(* A new line in the state u, scrolled in if there is no room below. *)
LEMMA FeedGood ==
  ASSUME mode \in Modes, NEW t, NEW lines, NEW col, Good(t, lines, col),
         NEW u, DOMAIN u = {"x", "y", "screen", "drawn"}, u.x = 0, u.y = t.y + CharHeight,
         u.screen = t.screen, u.drawn = t.drawn
  PROVE  Good(IF OffBottom(u) THEN Scrolled(u) ELSE u, Append(lines, BlankLine), 0)
<1> DEFINE more == Append(lines, BlankLine)
           n == Len(lines)
           row == Row(t)
           N == terminal_lines
           h == mode.height
<1>1. /\ CharWidth \in Nat \ {0} /\ CharHeight \in Nat \ {0} /\ h \in Nat
      /\ mode.width \in Nat \ {0} /\ Columns \in Nat \ {0}
      /\ t.y \in Nat /\ t.y + CharHeight < h /\ row \in Nat /\ t.y = row * CharHeight
      /\ N \in Nat /\ row + 1 <= N /\ n \in Nat \ {0} /\ row + 1 <= n
  BY GoodFacts
<1>2. /\ IsRoll(more) /\ Len(more) = n + 1 /\ more[n + 1] = BlankLine
      /\ \A k \in 1 .. n : more[k] = lines[k]
  BY RollAppend DEF Good
<1>3. t.screen = [l \in 0 .. N - 1 |-> IF l <= row THEN lines[n - row + l] ELSE BlankLine]
  BY DEF Good, Shows
<1>4. n > row + 1 => t.y + 2 * CharHeight >= h
  BY DEF Good, Shows
<1>5. OffBottom(u) <=> t.y + 2 * CharHeight >= h
  BY <1>1 DEF OffBottom
<1>6. /\ t.drawn[1] \in Nat /\ t.drawn[1] < mode.width
      /\ t.drawn[2] \in Nat /\ t.drawn[2] + CharHeight < h
  BY DEF Good, CursorOK
<1>7. 0 \in 0 .. Columns /\ 0 * CharWidth = 0
  BY <1>1
<1>8. row = t.y \div CharHeight
  BY DEF Row
<1> HIDE DEF more, n, row, N, h
<1>9. CASE OffBottom(u)
  <2> DEFINE v == Scrolled(u)
  <2>1. /\ DOMAIN v = {"x", "y", "screen", "drawn"} /\ v.x = 0 /\ v.y = t.y /\ v.drawn = t.drawn
    <3>1. u.y - CharHeight = t.y
      BY <1>1
    <3>2. QED
      BY <3>1 DEF Scrolled
  <2>2. v.screen = [l \in 0 .. N - 1 |-> IF l < N - 1 THEN t.screen[l + 1] ELSE BlankLine]
    <3>1. v.screen = [l \in DOMAIN u.screen |-> IF l < N - 1 THEN u.screen[l + 1] ELSE BlankLine]
      BY DEF Scrolled, N
    <3>2. DOMAIN u.screen = 0 .. N - 1
      BY <1>3
    <3>3. QED
      BY <3>1, <3>2
  <2> HIDE DEF v
  <2>3. Row(v) = row
    BY <1>8, <2>1 DEF Row
  <2>4. CursorOK(v, 0)
    BY <1>1, <1>6, <1>7, <2>1, <2>3 DEF CursorOK, h
  <2>5. ASSUME NEW l \in 0 .. N - 1
        PROVE  v.screen[l] = IF l <= row THEN more[(n + 1) - row + l] ELSE BlankLine
    <3>1. CASE l + 1 <= row
      <4>1. /\ l < N - 1 /\ l + 1 \in 0 .. N - 1 /\ l <= row
            /\ (n + 1) - row + l \in 1 .. n /\ n - row + (l + 1) = (n + 1) - row + l
        BY <1>1, <3>1
      <4>2. v.screen[l] = lines[n - row + (l + 1)]
        BY <1>3, <2>2, <3>1, <4>1
      <4>3. QED
        BY <1>2, <4>1, <4>2
    <3>2. CASE l = row
      <4>1. (n + 1) - row + l = n + 1 /\ ~(l + 1 <= row) /\ (l < N - 1 => l + 1 \in 0 .. N - 1)
        BY <1>1, <3>2
      <4>2. v.screen[l] = BlankLine
        BY <1>3, <2>2, <4>1
      <4>3. QED
        BY <1>1, <1>2, <3>2, <4>1, <4>2
    <3>3. CASE l > row
      <4>1. ~(l <= row) /\ ~(l + 1 <= row) /\ (l < N - 1 => l + 1 \in 0 .. N - 1)
        BY <1>1, <3>3
      <4>2. QED
        BY <1>3, <2>2, <4>1
    <3>4. l + 1 <= row \/ l = row \/ l > row
      BY <1>1
    <3>5. QED
      BY <3>1, <3>2, <3>3, <3>4
  <2>6. v.screen = [l \in 0 .. N - 1 |->
                      IF l <= row THEN more[Len(more) - row + l] ELSE BlankLine]
    BY <1>2, <2>2, <2>5
  <2>7. row + 1 <= Len(more) /\ v.y + 2 * CharHeight >= h
    BY <1>1, <1>2, <1>5, <1>9, <2>1
  <2>8. Shows(v, more)
    BY <2>3, <2>6, <2>7 DEF Shows, N, h
  <2>9. QED
    BY <1>2, <1>9, <2>4, <2>8 DEF Good, v, more
<1>10. CASE ~OffBottom(u)
  <2>1. n = row + 1
    BY <1>1, <1>4, <1>5, <1>10
  <2>2. (row + 1) * CharHeight = t.y + CharHeight
    BY <1>1
  <2>3. row + 1 \in Nat /\ (row + 1) * CharHeight + CharHeight < h
    <3>1. (row + 1) * CharHeight + CharHeight = t.y + 2 * CharHeight
      BY <1>1, <2>2
    <3>2. ~(t.y + 2 * CharHeight >= h)
      BY <1>5, <1>10
    <3>3. QED
      BY <1>1, <3>1, <3>2
  <2>4. ((row + 1) * CharHeight) \div CharHeight = row + 1
    BY <2>3, RowFacts DEF h
  <2>5. Row(u) = row + 1
    BY <2>2, <2>4 DEF Row
  <2>6. CursorOK(u, 0)
    <3>1. u.y \in Nat /\ u.y = (row + 1) * CharHeight /\ u.y + CharHeight < h
      BY <1>1, <2>2, <2>3
    <3>2. QED
      BY <1>6, <1>7, <2>5, <3>1 DEF CursorOK, h
  <2>7. ASSUME NEW l \in 0 .. N - 1
        PROVE  u.screen[l] = IF l <= row + 1 THEN more[(n + 1) - (row + 1) + l] ELSE BlankLine
    <3>1. CASE l <= row
      <4>1. /\ l <= row + 1 /\ n - row + l \in 1 .. n
            /\ (n + 1) - (row + 1) + l = n - row + l
        BY <1>1, <2>1, <3>1
      <4>2. QED
        BY <1>2, <1>3, <3>1, <4>1
    <3>2. CASE l = row + 1
      <4>1. ~(l <= row) /\ l <= row + 1 /\ (n + 1) - (row + 1) + l = n + 1
        BY <1>1, <2>1, <3>2
      <4>2. QED
        BY <1>2, <1>3, <4>1
    <3>3. CASE l > row + 1
      <4>1. ~(l <= row) /\ ~(l <= row + 1)
        BY <1>1, <3>3
      <4>2. QED
        BY <1>3, <4>1
    <3>4. l <= row \/ l = row + 1 \/ l > row + 1
      BY <1>1
    <3>5. QED
      BY <3>1, <3>2, <3>3, <3>4
  <2>8. u.screen = [l \in 0 .. N - 1 |->
                      IF l <= row + 1 THEN more[Len(more) - (row + 1) + l] ELSE BlankLine]
    BY <1>2, <1>3, <2>7
  <2>9. (row + 1) + 1 <= Len(more) /\ ~(Len(more) > (row + 1) + 1)
    BY <1>1, <1>2, <2>1
  <2>10. Shows(u, more)
    BY <2>5, <2>8, <2>9 DEF Shows, N, h
  <2>11. QED
    BY <1>2, <1>10, <2>6, <2>10 DEF Good, more
<1>11. QED
  BY <1>9, <1>10

(* Putting out a newline. *)
LEMMA NewlineGood ==
  ASSUME mode \in Modes, NEW t, NEW lines, NEW col, Good(t, lines, col)
  PROVE  Good(Newline(t), Append(lines, BlankLine), 0)
<1> DEFINE u == [t EXCEPT !.x = 0, !.y = @ + CharHeight]
<1>1. DOMAIN t = {"x", "y", "screen", "drawn"} /\ mode.width \in Nat \ {0}
  BY GoodFacts DEF Good, CursorOK
<1>2. /\ DOMAIN u = {"x", "y", "screen", "drawn"} /\ u.x = 0 /\ u.y = t.y + CharHeight
      /\ u.screen = t.screen /\ u.drawn = t.drawn
  BY <1>1
<1>3. Newline(t) = Refresh(u)
  BY DEF Newline
<1> HIDE DEF u
<1>4. Wrapped(u) = u
  BY <1>1, <1>2 DEF Wrapped
<1>5. Refresh(u) = IF OffBottom(u) THEN Scrolled(u) ELSE u
  BY <1>4 DEF Refresh
<1>6. QED
  BY <1>2, <1>3, <1>5, FeedGood

(* terminal_refresh wraps a cursor past the last column. *)
LEMMA WrapGood ==
  ASSUME mode \in Modes, NEW t, NEW lines, NEW col, Good(t, lines, col),
         NEW s, DOMAIN s = {"x", "y", "screen", "drawn"}, s.x >= mode.width, s.y = t.y,
         s.screen = t.screen, s.drawn = t.drawn
  PROVE  Good(Refresh(s), Append(lines, BlankLine), 0)
<1> DEFINE u == [s EXCEPT !.x = 0, !.y = @ + CharHeight]
<1>1. /\ DOMAIN u = {"x", "y", "screen", "drawn"} /\ u.x = 0 /\ u.y = t.y + CharHeight
      /\ u.screen = t.screen /\ u.drawn = t.drawn
  OBVIOUS
<1>2. Wrapped(s) = u
  BY DEF Wrapped
<1> HIDE DEF u
<1>3. Refresh(s) = IF OffBottom(u) THEN Scrolled(u) ELSE u
  BY <1>2 DEF Refresh
<1>4. QED
  BY <1>1, <1>3, FeedGood

(* The cursor may go to any column of its line. *)
LEMMA MoveGood ==
  ASSUME mode \in Modes, NEW t, NEW lines, NEW col, Good(t, lines, col),
         NEW to \in 0 .. Columns,
         NEW s, DOMAIN s = {"x", "y", "screen", "drawn"}, s.x = to * CharWidth, s.y = t.y,
         s.screen = t.screen, s.drawn = t.drawn
  PROVE  Good(s, lines, to)
<1>1. Row(s) = Row(t)
  BY DEF Row
<1>2. CursorOK(s, to)
  BY <1>1 DEF Good, CursorOK
<1>3. Shows(s, lines)
  BY <1>1 DEF Good, Shows
<1>4. QED
  BY <1>2, <1>3 DEF Good

(* framebuffer_draw_char changes the cell on the screen that the roll has  *)
(* under the cursor.                                                       *)
LEMMA DrawGood ==
  ASSUME mode \in Modes, NEW t, NEW lines, NEW col, Good(t, lines, col), col # Columns, NEW g
  PROVE  Good(Drawn(t, g), Stamped(lines, col, g), col)
<1> DEFINE d == Drawn(t, g)
           more == Stamped(lines, col, g)
           n == Len(lines)
           row == Row(t)
           N == terminal_lines
<1>1. /\ CharWidth \in Nat \ {0} /\ CharHeight \in Nat \ {0}
      /\ Columns \in Nat \ {0} /\ col \in Nat /\ col <= Columns
      /\ t.x \in Nat /\ t.x = col * CharWidth /\ ~(t.x >= mode.width) /\ mode.width \in Nat
      /\ t.y \in Nat /\ row \in Nat /\ N \in Nat /\ row + 1 <= N
      /\ n \in Nat \ {0} /\ row + 1 <= n
  BY GoodFacts
<1>2. col \in 0 .. Columns - 1
  BY <1>1
<1>3. /\ IsRoll(more) /\ Len(more) = n /\ more[n] = [lines[n] EXCEPT ![col] = g]
      /\ \A k \in 1 .. n : k # n => more[k] = lines[k]
  <2>1. IsRoll(lines)
    BY DEF Good
  <2>2. IsStamped(more, lines, col, g)
    BY <1>2, <2>1, RollReplace
  <2>3. QED
    BY <2>2 DEF IsStamped
<1>4. t.x \div CharWidth = col
  BY <1>1, QuotientUnique
<1>5. t.y \div CharHeight = row
  BY DEF Row
<1>6. t.screen = [l \in 0 .. N - 1 |-> IF l <= row THEN lines[n - row + l] ELSE BlankLine]
  BY DEF Good, Shows
<1>7. DOMAIN t = {"x", "y", "screen", "drawn"}
  BY DEF Good, CursorOK
<1>8. /\ DOMAIN d = {"x", "y", "screen", "drawn"} /\ d.x = t.x /\ d.y = t.y
      /\ d.drawn = <<t.x, t.y>>
  BY <1>7 DEF Drawn
<1>9. d.screen = [t.screen EXCEPT ![row][col] = g]
  <2>1. d.screen = [t.screen EXCEPT ![t.y \div CharHeight][t.x \div CharWidth] = g]
    BY <1>7 DEF Drawn
  <2>2. QED
    BY <1>4, <1>5, <2>1
<1> HIDE DEF d, more, n, row, N
<1>10. Row(d) = row
  BY <1>5, <1>8 DEF Row
<1>11. CursorOK(d, col)
  <2>1. d.drawn[1] = t.x /\ d.drawn[2] = t.y
    BY <1>8
  <2>2. t.x < mode.width
    BY <1>1
  <2>3. QED
    BY <1>1, <1>8, <1>10, <2>1, <2>2 DEF Good, CursorOK, row
<1>12. ASSUME NEW l \in 0 .. N - 1
       PROVE  d.screen[l] = IF l <= row THEN more[n - row + l] ELSE BlankLine
  <2>1. DOMAIN t.screen = 0 .. N - 1
    BY <1>6
  <2>2. CASE l = row
    <3>1. d.screen[l] = [t.screen[row] EXCEPT ![col] = g]
      BY <1>9, <2>1, <2>2
    <3>2. n - row + l = n /\ l <= row
      BY <1>1, <2>2
    <3>3. t.screen[row] = lines[n]
      BY <1>6, <2>2, <3>2
    <3>4. QED
      BY <1>3, <3>1, <3>2, <3>3
  <2>3. CASE l # row
    <3>1. d.screen[l] = t.screen[l]
      BY <1>9, <2>1, <2>3
    <3>2. l <= row => n - row + l \in 1 .. n /\ n - row + l # n
      BY <1>1, <2>3
    <3>3. QED
      BY <1>3, <1>6, <3>1, <3>2
  <2>4. QED
    BY <2>2, <2>3
<1>13. d.screen = [l \in 0 .. N - 1 |-> IF l <= row THEN more[Len(more) - row + l] ELSE BlankLine]
  <2>1. d.screen = [l \in 0 .. N - 1 |-> d.screen[l]]
    BY <1>6, <1>9
  <2>2. QED
    BY <1>3, <1>12, <2>1
<1>14. n > row + 1 => t.y + 2 * CharHeight >= mode.height
  BY DEF Good, Shows, n, row
<1>15. Shows(d, more)
  BY <1>1, <1>3, <1>8, <1>10, <1>13, <1>14 DEF Shows, N
<1>16. QED
  BY <1>3, <1>11, <1>15 DEF Good, d, more

(* terminal_putc with a tab. *)
LEMMA TabGood ==
  ASSUME mode \in Modes, NEW t, NEW lines, NEW col, Good(t, lines, col)
  PROVE  /\ TabStop(col, 1) >= Columns => Good(Tab(t), Append(lines, BlankLine), 0)
         /\ ~(TabStop(col, 1) >= Columns) => Good(Tab(t), lines, TabStop(col, 1))
<1> DEFINE s == [t EXCEPT !.x = TabStop(@, CharWidth)]
           stop == TabStop(col, 1)
<1>1. /\ DOMAIN t = {"x", "y", "screen", "drawn"} /\ t.x = col * CharWidth /\ col \in Nat
      /\ Columns \in Nat /\ mode.width \in Nat /\ mode.height \in Nat /\ CharHeight \in Nat
      /\ t.y \in Nat /\ t.y + CharHeight < mode.height
  BY GoodFacts DEF Good, CursorOK
<1>2. stop \in Nat /\ TabStop(t.x, CharWidth) = stop * CharWidth
  BY <1>1, TabFacts
<1>3. /\ DOMAIN s = {"x", "y", "screen", "drawn"} /\ s.x = TabStop(t.x, CharWidth) /\ s.y = t.y
      /\ s.screen = t.screen /\ s.drawn = t.drawn
  BY <1>1
<1>4. Tab(t) = Refresh(s)
  BY DEF Tab
<1> HIDE DEF s, stop
<1>5. s.x = stop * CharWidth /\ (s.x >= mode.width <=> stop >= Columns)
  BY <1>2, <1>3, ColumnFacts
<1>6. ASSUME stop >= Columns PROVE Good(Tab(t), Append(lines, BlankLine), 0)
  BY <1>3, <1>4, <1>5, <1>6, WrapGood
<1>7. ASSUME ~(stop >= Columns) PROVE Good(Tab(t), lines, stop)
  <2>1. stop \in 0 .. Columns
    BY <1>1, <1>2, <1>7
  <2>2. Refresh(s) = s
    BY <1>1, <1>3, <1>5, <1>7, RefreshStays
  <2>3. QED
    BY <1>3, <1>4, <1>5, <2>1, <2>2, MoveGood
<1>8. QED
  BY <1>6, <1>7 DEF stop

(* terminal_putc with a backspace. *)
LEMMA BackspaceGood ==
  ASSUME mode \in Modes, NEW t, NEW lines, NEW col, Good(t, lines, col),
         NEW to, to = IF col <= 1 THEN 0 ELSE col - 1
  PROVE  Good(Backspace(t), Stamped(lines, to, Space), to)
<1> DEFINE s == [t EXCEPT !.x = IF @ <= CharWidth THEN 0 ELSE @ - CharWidth]
           d == Drawn(s, Space)
<1>1. /\ DOMAIN t = {"x", "y", "screen", "drawn"} /\ t.x = col * CharWidth /\ col \in Nat
      /\ Columns \in Nat \ {0} /\ col <= Columns /\ CharWidth \in Nat \ {0}
  BY GoodFacts DEF Good, CursorOK
<1>2. /\ DOMAIN s = {"x", "y", "screen", "drawn"} /\ s.y = t.y
      /\ s.x = (IF t.x <= CharWidth THEN 0 ELSE t.x - CharWidth)
      /\ s.screen = t.screen /\ s.drawn = t.drawn
  BY <1>1
<1>3. to \in 0 .. Columns /\ to # Columns
  BY <1>1
<1>4. s.x = to * CharWidth
  <2>1. CASE col <= 1
    <3>1. col = 0 \/ col = 1
      BY <1>1, <2>1
    <3>2. t.x <= CharWidth /\ 0 * CharWidth = 0
      BY <1>1, <3>1
    <3>3. QED
      BY <1>2, <2>1, <3>2
  <2>2. CASE ~(col <= 1)
    <3>1. 2 * CharWidth <= col * CharWidth
      BY <1>1, <2>2, TimesMonotonic
    <3>2. ~(t.x <= CharWidth) /\ t.x - CharWidth = (col - 1) * CharWidth
      BY <1>1, <3>1
    <3>3. QED
      BY <1>2, <2>2, <3>2
  <2>3. QED
    BY <2>1, <2>2
<1>5. Backspace(t) = Refresh(d)
  BY DEF Backspace
<1> HIDE DEF s
<1>6. Good(s, lines, to)
  BY <1>2, <1>3, <1>4, MoveGood
<1>7. Good(d, Stamped(lines, to, Space), to)
  BY <1>3, <1>6, DrawGood
<1> HIDE DEF d
<1>8. /\ ~(d.x >= mode.width) /\ d.y \in Nat /\ d.y + CharHeight < mode.height
      /\ mode.height \in Nat /\ CharHeight \in Nat
  BY <1>3, <1>7, GoodFacts
<1>9. Refresh(d) = d
  BY <1>8, RefreshStays
<1>10. QED
  BY <1>5, <1>7, <1>9

(* terminal_putc with a character on the line of the cursor. *)
LEMMA GlyphHereGood ==
  ASSUME mode \in Modes, NEW t, NEW lines, NEW col, Good(t, lines, col), col # Columns, NEW g
  PROVE  Good([Drawn(t, g) EXCEPT !.x = @ + CharWidth],
              Stamped(lines, col, g), col + 1)
<1> DEFINE d == Drawn(t, g)
           s == [d EXCEPT !.x = @ + CharWidth]
           more == Stamped(lines, col, g)
<1>1. Good(d, more, col)
  BY DrawGood
<1> HIDE DEF d, more
<1>2. /\ DOMAIN d = {"x", "y", "screen", "drawn"} /\ d.x = col * CharWidth /\ col \in Nat
      /\ Columns \in Nat \ {0} /\ col <= Columns /\ CharWidth \in Nat \ {0}
  BY <1>1, GoodFacts DEF Good, CursorOK
<1>3. /\ DOMAIN s = {"x", "y", "screen", "drawn"} /\ s.x = d.x + CharWidth /\ s.y = d.y
      /\ s.screen = d.screen /\ s.drawn = d.drawn
  BY <1>2
<1>4. col + 1 \in 0 .. Columns /\ d.x + CharWidth = (col + 1) * CharWidth
  BY <1>2
<1> HIDE DEF s
<1>5. Good(s, more, col + 1)
  BY <1>1, <1>3, <1>4, MoveGood
<1>6. QED
  BY <1>5 DEF s, d, more

(* The state after terminal_putc shows the roll after the character. *)
LEMMA PutcGood ==
  ASSUME TermInv, NEW c
  PROVE  /\ Good(Putc(c), Typed(paper, c).lines, Typed(paper, c).column)
         /\ Typed(paper, c) =
              [lines |-> Typed(paper, c).lines, column |-> Typed(paper, c).column]
<1> DEFINE lines == paper.lines
           col == paper.column
           p == Typed(paper, c)
<1>1. mode \in Modes /\ Good(Here, lines, col) /\ paper = [lines |-> lines, column |-> col]
  BY DEF TermInv
<1>2. CASE c = "newline"
  <2>1. p = [lines |-> Append(lines, BlankLine), column |-> 0]
    BY <1>2 DEF Typed, NextLine
  <2>2. Putc(c) = Newline(Here)
    BY <1>2 DEF Putc
  <2>3. Good(Newline(Here), Append(lines, BlankLine), 0)
    BY <1>1, NewlineGood
  <2>4. QED
    BY <2>1, <2>2, <2>3
<1>3. CASE c = "tab"
  <2>1. p = IF TabStop(col, 1) >= Columns THEN [lines |-> Append(lines, BlankLine), column |-> 0]
            ELSE [lines |-> lines, column |-> TabStop(col, 1)]
    BY <1>1, <1>3 DEF Typed, NextLine
  <2>2. Putc(c) = Tab(Here)
    BY <1>3 DEF Putc
  <2>3. CASE TabStop(col, 1) >= Columns
    BY <1>1, <2>1, <2>2, <2>3, TabGood
  <2>4. CASE ~(TabStop(col, 1) >= Columns)
    BY <1>1, <2>1, <2>2, <2>4, TabGood
  <2>5. QED
    BY <2>3, <2>4
<1>4. CASE c = "backspace"
  <2> DEFINE to == IF col <= 1 THEN 0 ELSE col - 1
  <2>1. p = [lines |-> Stamped(lines, to, Space), column |-> to]
    BY <1>1, <1>4 DEF Typed, Stamped
  <2>2. Putc(c) = Backspace(Here)
    BY <1>4 DEF Putc
  <2>3. Good(Backspace(Here), Stamped(lines, to, Space), to)
    BY <1>1, BackspaceGood
  <2>4. QED
    BY <2>1, <2>2, <2>3
<1>5. CASE c \notin Controls
  <2>1. Putc(c) = [Drawn(Refresh(Here), c) EXCEPT !.x = @ + CharWidth]
    BY <1>5 DEF Putc, Glyph, Controls
  <2>2. CASE col = Columns
    <3> DEFINE more == Append(lines, BlankLine)
    <3>1. p = [lines |-> Stamped(more, 0, c), column |-> 0 + 1]
      BY <1>1, <1>5, <2>2 DEF Typed, NextLine, Controls, Stamped
    <3>2. /\ DOMAIN Here = {"x", "y", "screen", "drawn"} /\ Here.x >= mode.width
          /\ Columns \in Nat \ {0}
      BY <1>1, <2>2, GoodFacts DEF Good, CursorOK
    <3>3. Good(Refresh(Here), more, 0)
      BY <1>1, <3>2, WrapGood
    <3>4. Good([Drawn(Refresh(Here), c) EXCEPT !.x = @ + CharWidth],
               Stamped(more, 0, c), 0 + 1)
      BY <1>1, <3>2, <3>3, GlyphHereGood
    <3>5. QED
      BY <2>1, <3>1, <3>4
  <2>3. CASE col # Columns
    <3>1. p = [lines |-> Stamped(lines, col, c), column |-> col + 1]
      BY <1>1, <1>5, <2>3 DEF Typed, Controls, Stamped
    <3>2. /\ ~(Here.x >= mode.width) /\ Here.y \in Nat /\ Here.y + CharHeight < mode.height
          /\ mode.height \in Nat /\ CharHeight \in Nat
      BY <1>1, <2>3, GoodFacts
    <3>3. Refresh(Here) = Here
      BY <3>2, RefreshStays
    <3>4. Good([Drawn(Here, c) EXCEPT !.x = @ + CharWidth],
               Stamped(lines, col, c), col + 1)
      BY <1>1, <2>3, GlyphHereGood
    <3>5. QED
      BY <2>1, <3>1, <3>3, <3>4
  <2>4. QED
    BY <2>2, <2>3
<1>6. QED
  BY <1>2, <1>3, <1>4, <1>5 DEF Controls

(* The serial terminal and the roll stay in step on a line with no wrap    *)
(* and no tab.                                                             *)
LEMMA SerialStep ==
  ASSUME TermInv, NEW c, straight, c \notin {"newline", "tab"},
         Len(Typed(paper, c).lines) = Len(paper.lines)
  PROVE  Serial(c) = Typed(paper, c).column
<1> DEFINE lines == paper.lines
           col == paper.column
<1>1. column = col /\ col \in Nat /\ Len(lines) \in Nat
  BY GoodFacts DEF TermInv
<1>2. paper = [lines |-> lines, column |-> col] /\ IsRoll(lines)
  BY DEF TermInv, Good
<1>3. CASE c = "backspace"
  <2>1. Serial(c) = IF col <= 1 THEN 0 ELSE col - 1
    BY <1>1, <1>3 DEF Serial, SerialBackspace, Back
  <2>2. Typed(paper, c).column = IF col <= 1 THEN 0 ELSE col - 1
    BY <1>2, <1>3 DEF Typed
  <2>3. QED
    BY <2>1, <2>2
<1>4. CASE c # "backspace"
  <2>1. Serial(c) = col + 1
    BY <1>1, <1>4 DEF Serial
  <2>2. CASE col = Columns
    <3> DEFINE more == Append(lines, BlankLine)
    <3>1. Typed(paper, c).lines = Stamped(more, 0, c)
      BY <1>2, <1>4, <2>2 DEF Typed, NextLine, Stamped
    <3>2. IsRoll(more) /\ Len(more) = Len(lines) + 1
      BY <1>2, RollAppend
    <3>3. 0 \in 0 .. Columns - 1
      BY ColumnFacts DEF TermInv
    <3> HIDE DEF more
    <3>4. Len(Stamped(more, 0, c)) = Len(more)
      <4>1. IsStamped(Stamped(more, 0, c), more, 0, c)
        BY <3>2, <3>3, RollReplace
      <4>2. QED
        BY <4>1 DEF IsStamped
    <3>5. QED
      BY <1>1, <3>1, <3>2, <3>4
  <2>3. CASE col # Columns
    <3>1. Typed(paper, c).column = col + 1
      BY <1>2, <1>4, <2>3 DEF Typed
    <3>2. QED
      BY <2>1, <3>1
  <2>4. QED
    BY <2>2, <2>3
<1>5. QED
  BY <1>3, <1>4

(* A character on the terminal. *)
LEMMA PutCharInv ==
  ASSUME TermInv, PutChar
  PROVE  TermInv'
<1> DEFINE c == Head(string)
           p == Typed(paper, c)
           t == Putc(c)
<1>1. /\ mode' = mode /\ paper' = p /\ column' = Serial(c)
      /\ x' = t.x /\ y' = t.y /\ screen' = t.screen /\ drawn' = t.drawn
      /\ straight' = \/ c = "newline"
                     \/ straight /\ c # "tab" /\ Len(p.lines) = Len(paper.lines)
  BY DEF PutChar, Becomes
<1>2. Good(t, p.lines, p.column) /\ p = [lines |-> p.lines, column |-> p.column]
  BY PutcGood
<1> HIDE DEF t
<1>3. ASSUME straight' PROVE column' = p.column
  <2>1. CASE c = "newline"
    <3>1. p.column = 0
      BY <2>1 DEF Typed, NextLine
    <3>2. Serial(c) = 0
      BY <2>1 DEF Serial
    <3>3. QED
      BY <1>1, <3>1, <3>2
  <2>2. CASE c # "newline"
    <3>1. straight /\ c \notin {"newline", "tab"} /\ Len(p.lines) = Len(paper.lines)
      BY <1>1, <1>3, <2>2
    <3>2. QED
      BY <1>1, <3>1, SerialStep
  <2>3. QED
    BY <2>1, <2>2
<1> HIDE DEF c, p
<1>4. Good(Here, paper.lines, paper.column)'
  <2> DEFINE r == [x |-> t.x, y |-> t.y, screen |-> t.screen, drawn |-> t.drawn]
  <2>1. Here' = r
    BY <1>1 DEF Here
  <2>2. /\ Columns' = Columns /\ terminal_lines' = terminal_lines /\ BlankLine' = BlankLine
    BY <1>1 DEF Columns, terminal_lines, BlankLine
  <2>3. /\ DOMAIN r = {"x", "y", "screen", "drawn"} /\ r.x = t.x /\ r.y = t.y
        /\ r.screen = t.screen /\ r.drawn = t.drawn
    OBVIOUS
  <2> HIDE DEF r
  <2>4. p.column \in 0 .. Columns /\ t.x = p.column * CharWidth /\ mode \in Modes
    BY <1>2 DEF Good, CursorOK, TermInv
  <2>5. Good(r, p.lines, p.column)
    BY <1>2, <2>3, <2>4, MoveGood
  <2>6. \A v, w, q : Good(v, w, q) => Good(v, w, q)'
    BY <1>1, <2>2, SMTT(30) DEF Good, CursorOK, Shows, IsRoll, IsLine, Row
  <2>7. QED
    BY <1>1, <2>1, <2>5, <2>6
<1>5. QED
  BY <1>1, <1>2, <1>3, <1>4 DEF TermInv

(* A blank screen, and a blank line of paper. *)
LEMMA InitTerm == Init => TermInv
<1> SUFFICES ASSUME Init PROVE TermInv
  OBVIOUS
<1> DEFINE lines == <<BlankLine>>
<1>1. /\ mode \in Modes /\ x = 0 /\ y = 0 /\ drawn = <<0, 0>>
      /\ screen = [l \in 0 .. terminal_lines - 1 |-> BlankLine]
      /\ paper = [lines |-> lines, column |-> 0] /\ column = 0
  BY DEF Init
<1>2. /\ CharWidth \in Nat \ {0} /\ CharHeight \in Nat \ {0} /\ mode.width \in Nat \ {0}
      /\ mode.height \in Nat /\ mode.height > CharHeight /\ Columns \in Nat \ {0}
  <2>1. mode.width \in Nat /\ mode.width >= CharWidth
    BY <1>1, ModeFacts
  <2>2. CharWidth \in Nat \ {0} /\ CharHeight \in Nat \ {0}
    BY <1>1, ModeFacts
  <2>3. mode.height \in Nat /\ mode.height > CharHeight
    BY <1>1, ModeFacts
  <2>4. Columns \in Nat \ {0}
    BY <1>1, ColumnFacts
  <2>5. QED
    BY <2>1, <2>2, <2>3, <2>4
<1>3. 0 \div CharHeight = 0 /\ 0 * CharHeight = 0 /\ 0 * CharWidth = 0
  BY <1>2
<1>4. /\ DOMAIN Here = {"x", "y", "screen", "drawn"} /\ Here.x = 0 /\ Here.y = 0
      /\ Here.screen = screen /\ Here.drawn = <<0, 0>>
  BY <1>1 DEF Here
<1>5. Row(Here) = 0
  BY <1>3, <1>4 DEF Row
<1>6. CursorOK(Here, 0)
  BY <1>2, <1>3, <1>4, <1>5 DEF CursorOK
<1>7. IsRoll(lines) /\ Len(lines) = 1 /\ lines[1] = BlankLine
  <2>1. Len(lines) = 1 /\ lines[1] = BlankLine /\ lines = [k \in 1 .. 1 |-> lines[k]]
    OBVIOUS
  <2>2. IsLine(BlankLine)
    BY DEF IsLine, BlankLine
  <2> HIDE DEF lines
  <2>3. lines \in Seq({lines[k] : k \in DOMAIN lines})
    BY <2>1, SeqOfValues
  <2>4. QED
    BY <2>1, <2>2, <2>3 DEF IsRoll
<1>8. Shows(Here, lines)
  <2> HIDE DEF lines
  <2>1. \A l \in 0 .. terminal_lines - 1 : l <= 0 => Len(lines) - 0 + l = 1
    BY <1>7
  <2>2. screen = [l \in 0 .. terminal_lines - 1 |->
                    IF l <= 0 THEN lines[Len(lines) - 0 + l] ELSE BlankLine]
    BY <1>1, <1>7, <2>1
  <2>3. QED
    BY <1>4, <1>5, <1>7, <2>2 DEF Shows
<1>9. QED
  BY <1>1, <1>6, <1>7, <1>8 DEF TermInv, Good

(* Every step keeps the invariant: only PutChar touches the terminal. *)
LEMMA NextTerm == TermInv /\ [Next]_vars => TermInv'
<1> SUFFICES ASSUME TermInv, [Next]_vars PROVE TermInv'
  OBVIOUS
<1>1. CASE PutChar
  BY <1>1, PutCharInv
<1>2. CASE UNCHANGED <<mode, terminal, history>>
  <2>1. /\ mode' = mode /\ x' = x /\ y' = y /\ screen' = screen /\ drawn' = drawn
        /\ paper' = paper /\ column' = column /\ straight' = straight
    BY <1>2 DEF terminal, history
  <2>2. QED
    BY <2>1 DEF TermInv, Good, CursorOK, Shows, IsRoll, IsLine, Row, Here, Columns,
                terminal_lines, BlankLine
<1>3. CASE Printf \/ Asprintf \/ Puts
  BY <1>2, <1>3 DEF Printf, Asprintf, Puts, Start
<1>4. CASE NextItem
  BY <1>2, <1>4 DEF NextItem
<1>5. CASE Callback
  BY <1>2, <1>5 DEF Callback
<1>6. CASE Collect
  BY <1>2, <1>6 DEF Collect
<1>7. CASE Return
  BY <1>2, <1>7 DEF Return
<1>8. CASE UNCHANGED vars
  BY <1>2, <1>8 DEF vars
<1>9. QED
  BY <1>1, <1>3, <1>4, <1>5, <1>6, <1>7, <1>8 DEF Next

(* The inductive invariant of the terminal. *)
THEOREM TermCorrect == Spec => []TermInv
<1>1. QED
  BY InitTerm, NextTerm, PTL DEF Spec

(* No glyph is drawn outside the framebuffer, which                        *)
(* framebuffer_draw_char does not check.                                   *)
THEOREM DrawCorrect == Spec => []DrawInBuffer
<1>1. TermInv => DrawInBuffer
  <2> SUFFICES ASSUME TermInv PROVE DrawInBuffer
    OBVIOUS
  <2> DEFINE dx == drawn[1]
             dy == drawn[2]
             S == mode.scanline
             h == mode.height
  <2>1. /\ CharWidth \in Nat \ {0} /\ CharHeight \in Nat \ {0} /\ mode.width \in Nat
        /\ h \in Nat /\ S \in Nat /\ mode.width >= CharWidth /\ S >= mode.width
    BY ModeFacts DEF TermInv
  <2>2. dx \in Nat /\ dx < mode.width /\ dy \in Nat /\ dy + CharHeight < h
    BY DEF TermInv, Good, CursorOK, Here
  <2> HIDE DEF dx, dy, S, h
  <2>3. dy + CharHeight - 1 \in Nat /\ h - 2 \in Nat /\ dy + CharHeight - 1 <= h - 2
    BY <2>1, <2>2
  <2>4. (dy + CharHeight - 1) * S <= (h - 2) * S
    BY <2>1, <2>3, TimesMonotonic
  <2>5. (h - 2) * S = S * h - 2 * S /\ S * h \in Nat /\ (dy + CharHeight - 1) * S \in Nat
    BY <2>1, <2>3
  <2>6. (dy + CharHeight - 1) * S + dx + CharWidth - 1 < S * h
    BY <2>1, <2>2, <2>4, <2>5
  <2>7. QED
    BY <2>6 DEF DrawInBuffer, dx, dy, S, h
<1>2. QED
  BY <1>1, TermCorrect, PTL

(* Wrapping, tabs, backspaces and scrolling lose and repeat nothing: the   *)
(* screen shows the end of the text.                                       *)
THEOREM ShowsCorrect == Spec => []ShowsLastLines
<1>1. TermInv => ShowsLastLines
  <2> SUFFICES ASSUME TermInv PROVE ShowsLastLines
    OBVIOUS
  <2>1. Shows(Here, paper.lines) /\ Here.screen = screen /\ Here.y = y
    BY DEF TermInv, Good, Here
  <2>2. Row(Here) = y \div CharHeight
    BY <2>1 DEF Row
  <2>3. QED
    BY <2>1, <2>2 DEF Shows, ShowsLastLines
<1>2. QED
  BY <1>1, TermCorrect, PTL

(* The serial terminal's cursor is in the column of the one on the screen, *)
(* on a line with no wrap and no tab.                                      *)
THEOREM SerialCorrect == Spec => []SerialInStep
<1>1. TermInv => SerialInStep
  BY DEF TermInv, Good, CursorOK, Here, SerialInStep
<1>2. QED
  BY <1>1, TermCorrect, PTL
=============================================================================
