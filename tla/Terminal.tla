------------------------------- MODULE Terminal -------------------------------
(***************************************************************************)
(* The text terminal of kernel/driver/graphics/terminal.c on the linear    *)
(* framebuffer, and printf, vprintf, panic and puts, which feed it with    *)
(* the pieces of Printf; asprintf collects the pieces in a buffer.         *)
(*                                                                         *)
(* x and y are in pixels, as in the code.  A glyph is a model value in a   *)
(* cell of CharWidth by CharHeight pixels; x and y only ever take          *)
(* multiples of these, so the framebuffer is its cells.  The width and the *)
(* height in pixels are whatever the firmware's mode says, and need not be *)
(* multiples of a cell.                                                    *)
(*                                                                         *)
(* `paper' is a history variable: the text on an endless roll of paper as  *)
(* wide as the screen.  `column' is the cursor of a terminal at the other  *)
(* end of the serial line, to which every byte is sent as well.            *)
(***************************************************************************)
EXTENDS Printf

CONSTANTS
  CharWidth, CharHeight,    \* terminal_char_width, terminal_char_height
  Modes,                    \* firmware modes: width, height, scanline
  Glyphs,                   \* printable characters of one byte
  Wide,                     \* printable characters of two bytes in UTF-8
  Texts,                    \* what the kernel passes to puts
  Calls,                    \* what it passes to printf: format and args, one
                            \* for each item (an item without one has any)
  Names,                    \* what it passes to asprintf
  InitialLen,               \* length of a buffer of asprintf: 1024
  MaxChars                  \* bound: characters asked for since boot

Controls == {"newline", "tab", "backspace"}
Chars == Glyphs \cup Wide \cup Controls
Space == " "

ASSUME TerminalAssumption ==
  /\ {CharWidth, CharHeight} \subseteq Nat \ {0}
  /\ \A m \in Modes : /\ {m.width, m.height, m.scanline} \subseteq Nat
                      /\ m.width >= CharWidth /\ m.scanline >= m.width
                      /\ m.height > CharHeight
  /\ Texts \subseteq Seq(Chars) /\ InitialLen > 0
  /\ \A c \in Calls \cup Names :
       /\ Len(c.args) = Len(c.format)
       /\ \A k \in DOMAIN c.format : c.format[k].kind = "text" => c.format[k].text # <<>>

VARIABLES
  mode,        \* the firmware's mode, framebuffer_width and the others
  x, y,        \* terminal_x, terminal_y
  screen,      \* the cells of the framebuffer
  drawn,       \* position of the last glyph drawn
  call,        \* the call being served: the function, the text it is to
               \* print and whether vcbprintf is to print it as it should
  format,      \* items vcbprintf has still to go through
  args,        \* the argument of each
  bad,         \* bad_conversion
  pieces,      \* pieces the callback has still to get
  string,      \* characters from `string' to the end of the C string
  length,      \* the loop's `length'
  printed,     \* characters this call has put on the terminal or in the buffer
  buffer,      \* struct vasprintf_state: len and used
  chars,       \* characters asked for since boot
  paper,       \* history: lines of the roll and the column on the last
  column,      \* history: cursor of the serial terminal
  straight     \* history: no wrap and no tab since the last newline

terminal == <<x, y, screen, drawn>>
parser == <<call, format, args, bad, pieces>>
loop == <<string, length, printed, buffer, chars>>
history == <<paper, column, straight>>
vars == <<mode, terminal, parser, loop, history>>

terminal_lines == mode.height \div CharHeight
Columns == (mode.width + CharWidth - 1) \div CharWidth
BlankLine == [c \in 0 .. Columns - 1 |-> Space]
NoCall == [function |-> "none", text |-> <<>>, exact |-> TRUE]
NoBuffer == [len |-> 0, used |-> 0]

Init ==
  /\ mode \in Modes
  /\ x = 0 /\ y = 0 /\ drawn = <<0, 0>>
  /\ screen = [l \in 0 .. terminal_lines - 1 |-> BlankLine]
  /\ call = NoCall /\ format = <<>> /\ args = <<>> /\ bad = FALSE /\ pieces = <<>>
  /\ string = <<>> /\ length = 0 /\ printed = <<>> /\ chars = 0
  /\ buffer = NoBuffer
  /\ paper = [lines |-> <<BlankLine>>, column |-> 0]
  /\ column = 0 /\ straight = TRUE

-----------------------------------------------------------------------------
(* terminal_refresh, as a function of the cursor and the cells it finds.   *)

Wrapped(t) ==
  IF t.x >= mode.width THEN [t EXCEPT !.x = 0, !.y = @ + CharHeight] ELSE t

(* Mutant: the test for scrolling is > instead of >=. *)
OffBottomPast(t) == t.y + CharHeight > mode.height

OffBottom(t) == t.y + CharHeight >= mode.height

(* Mutant: the last line is not cleared. *)
ScrolledNotCleared(t) ==
  [t EXCEPT !.y = @ - CharHeight,
            !.screen = [l \in DOMAIN @ |->
                          IF l < terminal_lines - 1 THEN @[l + 1] ELSE @[l]]]

Scrolled(t) ==
  [t EXCEPT !.y = @ - CharHeight,
            !.screen = [l \in DOMAIN @ |->
                          IF l < terminal_lines - 1 THEN @[l + 1] ELSE BlankLine]]

Refresh(t) == LET w == Wrapped(t) IN IF OffBottom(w) THEN Scrolled(w) ELSE w

(* framebuffer_draw_char: a glyph in the cell at the cursor.               *)
Drawn(t, g) ==
  [t EXCEPT !.screen[t.y \div CharHeight][t.x \div CharWidth] = g,
            !.drawn = <<t.x, t.y>>]

Here == [x |-> x, y |-> y, screen |-> screen, drawn |-> drawn]

Becomes(t) == x' = t.x /\ y' = t.y /\ screen' = t.screen /\ drawn' = t.drawn

TabStop(p, w) == ((p + 4 * w) \div (4 * w)) * (4 * w)

(* terminal_putc, one operator for each kind of character.                 *)
Newline(t) == Refresh([t EXCEPT !.x = 0, !.y = @ + CharHeight])

Tab(t) == Refresh([t EXCEPT !.x = TabStop(@, CharWidth)])

Backspace(t) ==
  Refresh(Drawn([t EXCEPT !.x = IF @ <= CharWidth THEN 0 ELSE @ - CharWidth], Space))

Glyph(t, g) ==
  LET d == Drawn(Refresh(t), g) IN [d EXCEPT !.x = @ + CharWidth]

Putc(c) ==
  CASE c = "newline" -> Newline(Here)
    [] c = "tab" -> Tab(Here)
    [] c = "backspace" -> Backspace(Here)
    [] OTHER -> Glyph(Here, c)

(* The bytes sent to the serial line: a character sends itself, and a      *)
(* backspace the blank it draws, two backspaces, a space and itself.       *)
Back(c) == IF c = 0 THEN 0 ELSE c - 1

(* Mutant: one backspace instead of two. *)
SerialBackspaceOnce(c) == Back(Back(c + 1) + 1)

SerialBackspace(c) == Back(Back(Back(c + 1)) + 1)

Serial(c) ==
  CASE c = "newline" -> 0
    [] c = "tab" -> TabStop(column, 2)
    [] c = "backspace" -> SerialBackspace(column)
    [] OTHER -> column + 1

-----------------------------------------------------------------------------
(* The roll of paper.                                                      *)

NextLine(p) == [lines |-> Append(p.lines, BlankLine), column |-> 0]

Typed(p, c) ==
  LET stop == TabStop(p.column, 1)
      left == IF p.column <= 1 THEN 0 ELSE p.column - 1
      q == IF p.column = Columns THEN NextLine(p) ELSE p
  IN CASE c = "newline" -> NextLine(p)
       [] c = "tab" -> IF stop >= Columns THEN NextLine(p) ELSE [p EXCEPT !.column = stop]
       [] c = "backspace" -> [p EXCEPT !.lines[Len(p.lines)][left] = Space, !.column = left]
       [] OTHER -> [q EXCEPT !.lines[Len(q.lines)][q.column] = c, !.column = @ + 1]

-----------------------------------------------------------------------------
(* The loops that call terminal_putc.                                      *)

Bytes(c) == IF c \in Wide THEN 2 ELSE 1

ByteLength(text) == FoldSeq(LAMBDA c, n : n + Bytes(c), 0, text)

(* What a format and its arguments stand for; of an unknown conversion the *)
(* standard says nothing, and from there on the format is shown as it is.  *)
Unknown(item) == item.kind = "conversion" /\ ~Known(item)

Text(f, as) ==
  FlattenSeq([k \in DOMAIN f |-> IF \E j \in 1 .. k : Unknown(f[j]) THEN Raw(f[k])
                                 ELSE StandardText(f[k], as[k])])

(* No conversion before an unknown one is one vcbprintf prints otherwise.  *)
(* On the terminal, a text with wide characters is the last item: the      *)
(* callback's `length' is in bytes and is counted down by characters, so   *)
(* that it runs on into what follows in the format.                        *)
Converts(c) ==
  \A k \in DOMAIN c.format :
    (\E j \in 1 .. k : Unknown(c.format[j])) \/ ~Deviates(c.format[k], c.args[k])

Overruns(c) ==
  \E k \in 1 .. Len(c.format) - 1 :
    c.format[k].kind = "text" /\ Range(c.format[k].text) \cap Wide # {}

Start(function, text, exact) ==
  /\ call = NoCall
  /\ chars + Len(text) <= MaxChars
  /\ call' = [function |-> function, text |-> text, exact |-> exact]
  /\ chars' = chars + Len(text)
  /\ printed' = <<>> /\ bad' = FALSE /\ pieces' = <<>> /\ length' = 0
  /\ UNCHANGED <<mode, terminal, history>>

(* printf and vprintf; panic is the same with puts("") behind it. *)
Printf ==
  \E c \in Calls :
    /\ Start("printf", Text(c.format, c.args), Converts(c) /\ ~Overruns(c))
    /\ format' = c.format /\ args' = c.args /\ string' = <<>>
    /\ UNCHANGED buffer

(* asprintf and vasprintf *)
Asprintf ==
  \E c \in Names :
    /\ Start("asprintf", Text(c.format, c.args), Converts(c))
    /\ format' = c.format /\ args' = c.args /\ string' = <<>>
    /\ buffer' = [len |-> InitialLen, used |-> 0]

(* puts writes its string, then a newline of its own. *)
Puts ==
  \E text \in Texts :
    /\ Start("puts", Append(text, "newline"), TRUE)
    /\ string' = Append(text, "newline")
    /\ UNCHANGED <<format, args, buffer>>

(* The loop of the callback, and that of puts. *)
More ==
  /\ string # <<>>
  /\ call.function = "printf" => length > 0

(* The loop of vcbprintf: text and what is not converted goes to the       *)
(* callback as it is, a conversion takes its argument.                     *)
NextItem ==
  /\ call # NoCall /\ ~ More /\ pieces = <<>> /\ format # <<>>
  /\ LET item == Head(format)
         plain == item.kind = "text" \/ bad \/ Unknown(item)
     IN /\ pieces' = IF plain THEN <<TextOf(format)>> ELSE Converted(item, Head(args))
        /\ bad' = (bad \/ Unknown(item))
  /\ format' = Tail(format) /\ args' = Tail(args)
  /\ UNCHANGED <<mode, terminal, call, loop, history>>

(* The callback of printf is called with a piece ... *)
Callback ==
  /\ call.function = "printf" /\ ~ More /\ pieces # <<>>
  /\ string' = Head(pieces).text \o Head(pieces).behind
  /\ length' = ByteLength(Head(pieces).text)
  /\ pieces' = Tail(pieces)
  /\ UNCHANGED <<mode, terminal, call, format, args, bad, printed, buffer, chars, history>>

(* ... and puts it on the terminal, character by character. *)
PutChar ==
  /\ call # NoCall /\ More
  /\ LET c == Head(string) IN
       /\ Becomes(Putc(c))
       /\ printed' = Append(printed, c)
       /\ paper' = Typed(paper, c)
       /\ column' = Serial(c)
       /\ straight' = \/ c = "newline"
                      \/ straight /\ c # "tab" /\ Len(paper'.lines) = Len(paper.lines)
  /\ string' = Tail(string)
  /\ length' = IF call.function = "printf" THEN length - 1 ELSE 0
  /\ UNCHANGED <<mode, parser, buffer, chars>>

(* realloc, when the text and a 0 behind it do not fit: "state->len >> 1", *)
(* or as much as is needed.                                                *)
Grown(b, n) ==
  LET len_needed == b.used + n + 1
  IN [len |-> IF b.len < len_needed THEN Max({b.len \div 2, len_needed}) ELSE b.len,
      used |-> b.used + n]

(* vasprintf_callback *)
Collect ==
  /\ call.function = "asprintf" /\ pieces # <<>>
  /\ buffer' = Grown(buffer, ByteLength(Head(pieces).text))
  /\ printed' = printed \o Head(pieces).text
  /\ pieces' = Tail(pieces)
  /\ UNCHANGED <<mode, terminal, call, format, args, bad, string, length, chars, history>>

Finished == ~ More /\ pieces = <<>> /\ format = <<>>

Return ==
  /\ call # NoCall /\ Finished
  /\ call' = NoCall /\ string' = <<>> /\ length' = 0 /\ printed' = <<>>
  /\ bad' = FALSE /\ buffer' = NoBuffer
  /\ UNCHANGED <<mode, terminal, format, args, pieces, chars, history>>

Next == Printf \/ Asprintf \/ Puts \/ NextItem \/ Callback \/ PutChar \/ Collect \/ Return

Spec == Init /\ [][Next]_vars
-----------------------------------------------------------------------------
(* framebuffer_draw_char checks no bounds: whatever the mode, the last     *)
(* pixel of a glyph, even of one that crosses the right edge of a screen   *)
(* that is not a whole number of cells wide, is inside the framebuffer.    *)
DrawInBuffer ==
  (drawn[2] + CharHeight - 1) * mode.scanline + drawn[1] + CharWidth - 1
    < mode.scanline * mode.height

(* Wrapping and scrolling lose and repeat nothing: the screen shows the    *)
(* last lines of what was written, down to the cursor, and blanks below.   *)
(* Where a scan line has no room for the last column, its glyph runs on    *)
(* into the scan line below, and the cells do not tell what is seen.  A    *)
(* line leaves the top of the screen only when there is no room for one    *)
(* more below the cursor.                                                  *)
ShowsLastLines ==
  Columns * CharWidth <= mode.scanline =>
  LET row == y \div CharHeight
      n == Len(paper.lines)
  IN /\ \A l \in DOMAIN screen :
          screen[l] = IF l <= row THEN paper.lines[n - row + l] ELSE BlankLine
     /\ n > row + 1 => y + 2 * CharHeight >= mode.height

(* On a line with no wrap and no tab, the cursor of the serial terminal    *)
(* stays in step with the one on the screen through every backspace.       *)
SerialInStep == straight => column * CharWidth = x

(* A call puts on the terminal, or in the buffer, the text that the C      *)
(* standard says the format and its arguments stand for and nothing more,  *)
(* unless vcbprintf deviates for one of its conversions or the callback    *)
(* overruns a text with wide characters; then it prints something else     *)
(* (two deviations might cancel out; no call of the run has two).          *)
(* In every case the buffer of vasprintf has room for a 0 at the end.      *)
PrintExact ==
  /\ call.exact => IsPrefix(printed, call.text)
  /\ call # NoCall /\ Finished => (printed = call.text <=> call.exact)
  /\ call.function = "asprintf" => buffer.used < buffer.len

(* Every call prints what the standard says: too strong, see PrintExact. *)
PrintStandard == call # NoCall /\ Finished => printed = call.text
=============================================================================
