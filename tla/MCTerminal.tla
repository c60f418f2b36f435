------------------------------ MODULE MCTerminal ------------------------------
(* Two lines or a fraction more of two columns or a fraction more, with    *)
(* and without padding at the end of a scan line; and a screen wide enough *)
(* for a tab to end inside it.                                             *)
EXTENDS Terminal

MCModes ==
  {[width |-> w, height |-> h, scanline |-> s] :
     w \in {4}, h \in {5, 6}, s \in {4, 5}}
  \cup {[width |-> 5, height |-> 6, scanline |-> 5],
        [width |-> 5, height |-> 5, scanline |-> 6],
        [width |-> 12, height |-> 5, scanline |-> 12]}

Conv(flags, width, modifier, specifier) ==
  Conversion(flags, width, NoPrecision, modifier, specifier)
Call(items, arguments) == [format |-> items, args |-> arguments]
Text1(t) == Call(<<TextItem(t)>>, <<0>>)

MCTexts == {<<"a">>, <<>>}

(* Text with control and wide characters, and conversions as the kernel    *)
(* uses them: "%#05lx", "%02x", "%3d", "%.1s", "%c%%", "%s" with a wide    *)
(* character, and "%Lu", which is not converted, with what follows.        *)
MCPlain ==
  {Text1(<<"a">>), Text1(<<"newline">>), Text1(<<"tab">>), Text1(<<"backspace">>),
   Call(<<Conv({"#", "0"}, 5, "l", "x")>>, <<175>>),
   Call(<<Conv({"0"}, 2, "", "x"), TextItem(<<"b">>)>>, <<16, 0>>),
   Call(<<Conv({}, 3, "", "d"), Conversion({}, 0, 1, "", "s")>>, <<-8, <<"a", "b">>>>),
   Call(<<Conv({}, 0, "", "c"), TextItem(<<"%", "b">>)>>, <<<<"a">>, 0>>),
   Call(<<Conv({}, 0, "", "s"), TextItem(<<"b", "e">>)>>, <<<<"e">>, 0>>),
   Call(<<Conv({}, 0, "L", "u"), Conv({}, 0, "", "d")>>, <<1, 2>>)}

(* Where printf does not print what the standard says: "%#05lx" of 0 and   *)
(* "%#x" of 0, as the kernel prints addresses and errors, and a text with  *)
(* a wide character before a conversion.                                   *)
MCDeviating ==
  {Call(<<Conv({"#", "0"}, 5, "l", "x")>>, <<0>>),
   Call(<<Conv({"#"}, 0, "", "x")>>, <<0>>),
   Call(<<TextItem(<<"e">>), Conv({}, 0, "", "u")>>, <<0, 1>>)}

MCCalls == MCPlain \cup MCDeviating

(* Names that are as they should be, then one for each deviation, the      *)
(* array for the digits and that for the prefix being too small first.     *)
MCNames ==
  {Call(<<TextItem(<<"a">>), Conv({}, 0, "z", "u"), TextItem(<<"b">>)>>, <<0, 8191, 0>>),
   Call(<<Conv({"0", "-"}, 3, "", "u"), Conversion({" "}, 0, 2, "", "i")>>, <<10, 0>>),
   Call(<<Conv({"+"}, 0, "", "d"), Conv({}, 0, "", "X"), Conv({}, 0, "", "o"), Conv({}, 2, "", "%")>>,
        <<3, 10, 8, 0>>),
   Call(<<TextItem(<<"e">>), Conv({}, 0, "", "u")>>, <<0, 1>>)}
  \cup
  {Call(<<d[1], TextItem(<<"b">>)>>, <<d[2], 0>>) : d \in
     {<<Conv({}, 0, "l", "o"), 8191>>, <<Conv({"+", "#"}, 0, "", "x"), 1>>,
      <<Conv({}, 0, "hh", "u"), 256>>, <<Conv({"-"}, 3, "", "d"), 1>>,
      <<Conversion({"0"}, 3, 2, "", "d"), 1>>, <<Conv({"#"}, 0, "", "o"), 0>>,
      <<Conversion({"#"}, 0, 3, "", "o"), 8>>, <<Conv({"+"}, 0, "", "u"), 1>>,
      <<Conversion({}, 0, 0, "", "d"), 0>>, <<Conv({}, 2, "", "s"), <<"a">>>>,
      <<Conv({"-"}, 2, "", "c"), <<"a">>>>}}

(* Deviates leaves nothing out: of all other conversions of integers,      *)
(* vcbprintf makes what the standard says.                                 *)
ASSUME NothingElseDeviates ==
  \A flags \in SUBSET {"#", "-", "+", " ", "0"}, width \in {0, 2, 4, 6},
    precision \in {NoPrecision, 0, 1, 3}, modifier \in {"", "h", "hh"},
    specifier \in IntegerSpecifiers, v \in {-129, -8, 0, 1, 8, 175, 65536} :
      LET d == Conversion(flags, width, precision, modifier, specifier)
          pieces_of == Integer(d, v)
      IN \/ v < 0 /\ ~Signed(specifier)
         \/ IntegerDeviates(d, v)
         \/ FlattenSeq([k \in DOMAIN pieces_of |-> pieces_of[k].text]) = StandardInteger(d, v)
=============================================================================
