----------------------------- MODULE MCLpPrint ------------------------------
(* LpPrint on 5-bit integers and a buffer of ten characters: every         *)
(* conversion with every combination of flags and widths around the        *)
(* buffer's length, between texts; items in pairs; console data around     *)
(* both lengths.                                                           *)
EXTENDS LpPrint

Text1    == [text |-> <<"t", "1">>]
Newline  == [text |-> <<"\n">>]
TextLong == [text |-> [i \in 1 .. 11 |-> "t"]]
Conv(l, left, zero, width, prec, c, n, s) ==
    [long |-> l, left |-> left, zero |-> zero, width |-> width, prec |-> prec,
     conv |-> <<c>>, arg |-> [int |-> n, str |-> s]]
Widths  == {<<>>, <<"3">>, <<"1", "0">>, <<"1", "1">>}
Numbers == {Conv(FALSE, left, zero, w, <<>>, c, n, <<>>) : left \in BOOLEAN, zero \in BOOLEAN,
              w \in Widths, c \in {"b", "d", "o", "u", "x", "X"},
              n \in {-16, -15, -1, 0, 7, 10, 15}}
Strings == {Conv(FALSE, left, zero, w, <<>>, "s", 0, s) : left \in BOOLEAN, zero \in BOOLEAN,
              w \in Widths, s \in {<<>>, <<"%", "d">>, TextLong.text}}
           \cup {Conv(FALSE, left, zero, w, <<>>, "c", 0, <<"y">>) : left \in BOOLEAN,
              zero \in BOOLEAN, w \in Widths}
Others  == {Conv(l, left, FALSE, <<>>, p, c, -13, <<>>) : l \in BOOLEAN, left \in BOOLEAN,
              p \in {<<>>, <<"1", "2">>}, c \in {"D", "O", "U", "q", "%"}}
End     == [Conv(FALSE, TRUE, TRUE, <<"3">>, <<>>, "q", 0, <<>>) EXCEPT !.conv = <<>>]
Few     == {Text1, Newline, TextLong} \cup Others
           \cup {x \in Numbers : x.arg.int = -15 /\ x.conv = <<"d">>}
           \cup {x \in Strings : x.width = <<"3">>}

Items   == {<<Text1, x, Newline>> : x \in Numbers \cup Strings \cup Others}
           \cup {p \in {<<x, y>> : x \in Few, y \in Few \cup {End}} :
                    ~ (IsText(p[1]) /\ IsText(p[2]))}
           \cup {<<x>> : x \in Few \cup {End}}
MCCalls == {[sink |-> s, items |-> i] : s \in {"printf", "fprintf"}, i \in Items}
           \cup {[sink |-> "cons_write", data |-> [i \in 1 .. n |-> IF i = k THEN "\n" ELSE "y"]]
                    : n \in 0 .. 15, k \in 0 .. 15}
MCChar  == STRING
MCFatal == <<"f", "a", "t", "a", "l">>
=============================================================================
