------------------------------- MODULE Printf -------------------------------
(***************************************************************************)
(* vcbprintf (lib/stdio/vcbprintf.c): what it hands to its callback for    *)
(* each part of a format string.                                           *)
(*                                                                         *)
(* A format is a sequence of items: text up to the next conversion, where  *)
(* a text that begins with "%" was written "%%", and conversions, as the   *)
(* loops over flags, width, precision and length modifier have read them.  *)
(* An argument is an integer of uintmax_t or a text.  A piece is what      *)
(* one call of the callback, or a loop of calls with one character, gets:  *)
(* a text, and what lies behind it in memory up to the next 0.             *)
(*                                                                         *)
(* The last part is the C standard's text for the same items, and where    *)
(* the two disagree.                                                       *)
(***************************************************************************)
EXTENDS Integers, SequencesExt

CONSTANTS
  BufSize,   \* sizeof(buf): 21
  PrefixSize \* sizeof(prefix): 3

NoPrecision == -1   \* (size_t) -1

TextItem(t) == [kind |-> "text", text |-> t]
Conversion(flags, width, precision, length, specifier) ==
  [kind |-> "conversion", flags |-> flags, width |-> width, precision |-> precision,
   length |-> length, specifier |-> specifier]

(* An item as it stands in the format (flags, width and precision of a     *)
(* conversion are left out), and as it is printed when it is not converted. *)
Source(item) ==
  IF item.kind = "text"
    THEN (IF Head(item.text) = "%" THEN <<"%">> ELSE <<>>) \o item.text
    ELSE <<"%">> \o (IF item.length = "" THEN <<>> ELSE <<item.length>>) \o <<item.specifier>>
Raw(item) == IF item.kind = "text" THEN item.text ELSE Source(item)

Piece(t) == [text |-> t, behind |-> <<>>]
Copies(c, n) == [k \in 1 .. n |-> c]
-----------------------------------------------------------------------------
(* Integers *)

base(specifier) ==
  CASE specifier \in {"x", "X", "p"} -> 16 [] specifier = "o" -> 8 [] OTHER -> 10

Signed(specifier) == specifier \in {"d", "i"}

(* The argument as uintmax_t, of a negative one its magnitude. *)
Magnitude(v) == IF v < 0 THEN -v ELSE v

buf_length(v, b) ==
  LET digits[copy \in Nat] == IF copy < b THEN 1 ELSE digits[copy \div b] + 1
  IN digits[v]

conv(specifier) ==
  <<"0", "1", "2", "3", "4", "5", "6", "7", "8", "9">> \o
    IF specifier = "X" THEN <<"A", "B", "C", "D", "E", "F">>
                       ELSE <<"a", "b", "c", "d", "e", "f">>

Digits(v, specifier) ==
  LET b == base(specifier)
      n == buf_length(v, b)
  IN [k \in 1 .. n |-> conv(specifier)[((v \div (b ^ (n - k))) % b) + 1]]

Prefix(d, negative) ==
  (IF negative THEN <<"-">>
   ELSE IF "+" \in d.flags THEN <<"+">>
   ELSE IF " " \in d.flags THEN <<" ">> ELSE <<>>) \o
  (IF "#" \notin d.flags THEN <<>>
   ELSE IF d.specifier \in {"x", "p"} THEN <<"0", "x">>
   ELSE IF d.specifier = "X" THEN <<"0", "X">>
   ELSE IF d.specifier = "o" THEN <<"0">> ELSE <<>>)

(* Both arrays get a 0 behind their text.  Writing past the end of one is  *)
(* undefined: anything may be printed.                                     *)
Contained(prefix, digits) == Len(prefix) < PrefixSize /\ Len(digits) < BufSize
Garbage == <<"garbage">>

(* The prefix is put between spaces and zeros; with "-" spaces follow, and *)
(* the leading ones stay unless the padding is with zeros.                 *)
Padded(d, prefix, digits) ==
  LET printed_width == Max({d.precision, Len(digits)})
      pad == Max({0, d.width - (printed_width + Len(prefix))})
      zero == "0" \in d.flags
      minus == "-" \in d.flags
  IN << Piece(Copies(" ", IF zero THEN 0 ELSE pad)),
        Piece(prefix),
        Piece(Copies("0", IF zero /\ ~minus THEN pad ELSE 0)),
        Piece(Copies("0", printed_width - Len(digits))),
        Piece(digits),
        Piece(Copies(" ", IF minus THEN pad ELSE 0)) >>

Number(d, prefix, digits) ==
  IF Contained(prefix, digits) THEN Padded(d, prefix, digits) ELSE <<Piece(Garbage)>>

Integer(d, v) ==
  Number(d, Prefix(d, Signed(d.specifier) /\ v < 0), Digits(Magnitude(v), d.specifier))
-----------------------------------------------------------------------------
(* Conversions *)

IntegerSpecifiers == {"d", "i", "o", "p", "u", "x", "X"}

(* "L" is not for integers; any other letter is not known. *)
Known(d) ==
  \/ d.specifier \in {"s", "c", "%"}
  \/ d.specifier \in IntegerSpecifiers /\ (d.length # "L" \/ d.specifier = "p")

(* Mutant: one character more than the precision. *)
StringPieceOneMore(d, t) ==
  LET len == IF d.precision # NoPrecision /\ d.precision < Len(t) THEN d.precision + 1 ELSE Len(t)
  IN [text |-> SubSeq(t, 1, len), behind |-> SubSeq(t, len + 1, Len(t))]

(* %s looks at the precision but not at the width, %c at neither.  (A      *)
(* precision counts bytes: it goes with a text of one-byte characters.)    *)
StringPiece(d, t) ==
  LET len == IF d.precision # NoPrecision /\ d.precision < Len(t) THEN d.precision ELSE Len(t)
  IN [text |-> SubSeq(t, 1, len), behind |-> SubSeq(t, len + 1, Len(t))]

Converted(d, arg) ==
  CASE d.specifier = "%" -> <<Piece(<<"%">>)>>
    [] d.specifier = "s" -> <<StringPiece(d, arg)>>
    [] d.specifier = "c" -> <<Piece(arg)>>
    [] OTHER -> Integer(d, arg)

(* A text goes to the callback as part of the format string; from the      *)
(* first unknown conversion on, the conversions do as well.                *)
TextOf(format) ==
  [text |-> Raw(Head(format)),
   behind |-> FlattenSeq([k \in 1 .. Len(format) - 1 |-> Source(format[k + 1])])]
-----------------------------------------------------------------------------
(* What the C standard says, built up from the numeral and not from an     *)
(* array.  (What it leaves to the implementation, %p, is taken as %x.)     *)

(* An argument for hh or h is converted to a char or a short first. *)
Narrowed(d, v) ==
  LET range == IF d.length = "hh" THEN 2 ^ 8 ELSE 2 ^ 16
  IN IF d.length \notin {"hh", "h"} \/ d.specifier = "p" THEN v
     ELSE IF Signed(d.specifier) THEN ((v + range \div 2) % range) - range \div 2
     ELSE v % range

Numeral(v, specifier) ==
  LET b == base(specifier)
      num[n \in Nat] == IF n < b THEN <<conv(specifier)[n + 1]>>
                        ELSE Append(num[n \div b], conv(specifier)[(n % b) + 1])
  IN num[v]

(* The precision is the least number of digits, and 0 prints no digit for  *)
(* 0; "#" makes the first octal digit a 0.                                 *)
StandardDigits(d, v) ==
  LET numeral == IF v = 0 /\ d.precision = 0 THEN <<>> ELSE Numeral(Magnitude(v), d.specifier)
      digits == Copies("0", d.precision - Len(numeral)) \o numeral
      octal == d.specifier = "o" /\ "#" \in d.flags /\ (digits = <<>> \/ Head(digits) # "0")
  IN IF octal THEN <<"0">> \o digits ELSE digits

StandardPrefix(d, v) ==
  CASE Signed(d.specifier) /\ v < 0 -> <<"-">>
    [] Signed(d.specifier) /\ v >= 0 /\ "+" \in d.flags -> <<"+">>
    [] Signed(d.specifier) /\ v >= 0 /\ " " \in d.flags \ {"+"} -> <<" ">>
    [] d.specifier \in {"x", "p"} /\ v # 0 /\ "#" \in d.flags -> <<"0", "x">>
    [] d.specifier = "X" /\ v # 0 /\ "#" \in d.flags -> <<"0", "X">>
    [] OTHER -> <<>>

Justified(d, prefix, digits) ==
  LET fill == d.width - Len(prefix \o digits)
  IN IF "-" \in d.flags THEN prefix \o digits \o Copies(" ", fill)
     ELSE IF "0" \in d.flags /\ d.precision = NoPrecision
       THEN prefix \o Copies("0", fill) \o digits
     ELSE Copies(" ", fill) \o prefix \o digits

StandardInteger(d, v) ==
  LET value == Narrowed(d, v)
  IN Justified(d, StandardPrefix(d, value), StandardDigits(d, value))

StandardString(d, t) ==
  LET cut == IF d.specifier = "s" /\ d.precision # NoPrecision
               THEN SubSeq(t, 1, Min({d.precision, Len(t)})) ELSE t
      blanks == Copies(" ", d.width - Len(cut))
  IN IF "-" \in d.flags THEN cut \o blanks ELSE blanks \o cut

StandardText(item, arg) ==
  CASE item.kind = "text" -> item.text
    [] item.kind = "conversion" /\ item.specifier = "%" -> <<"%">>
    [] item.kind = "conversion" /\ item.specifier \in {"c", "s"} -> StandardString(item, arg)
    [] OTHER -> StandardInteger(item, arg)

(* Where vcbprintf prints something else for an integer, in turn: digits   *)
(* or prefix do not fit their array; an argument is not narrowed; with "-" *)
(* there are spaces on both sides; zeros pad in spite of a precision; 0    *)
(* gets a 0x; an octal 0 or one that has zeros already gets another; an    *)
(* unsigned number gets a sign; and 0 is printed with precision 0.         *)
IntegerDeviates(d, v) ==
  LET prefix == Prefix(d, Signed(d.specifier) /\ v < 0)
      digits == Digits(Magnitude(v), d.specifier)
      padded == Max({d.precision, Len(digits)}) + Len(prefix) < d.width
      hash == "#" \in d.flags
  IN \/ ~Contained(prefix, digits)
     \/ Narrowed(d, v) # v
     \/ padded /\ "-" \in d.flags /\ "0" \notin d.flags
     \/ padded /\ "0" \in d.flags /\ "-" \notin d.flags /\ d.precision # NoPrecision
     \/ hash /\ d.specifier \in {"x", "X", "p"} /\ v = 0
     \/ hash /\ d.specifier = "o" /\ (v = 0 \/ d.precision > Len(digits))
     \/ ~Signed(d.specifier) /\ d.flags \cap {"+", " "} # {}
     \/ v = 0 /\ d.precision = 0

(* %s and %c are never padded. *)
Deviates(item, arg) ==
  CASE item.kind = "text" \/ item.specifier = "%" -> FALSE
    [] item.kind = "conversion" /\ item.specifier \in {"c", "s"} ->
         item.width > Len(Converted(item, arg)[1].text)
    [] OTHER -> IntegerDeviates(item, arg)
=============================================================================
