------------------------------- MODULE LpPrint ------------------------------
(***************************************************************************)
(* Formatted output: lp_Print (lib/print.c) below the printf of the kernel *)
(* and of programs, below fprintf, and below cons_write, which cuts what   *)
(* is written to the console into pieces and prints each with "%s".        *)
(*                                                                         *)
(* A call is one behaviour.  The caller has spelled a list of items as a   *)
(* format and arguments; lp_Print sees only the characters.                *)
(***************************************************************************)
EXTENDS Integers, Sequences, SequencesExt

CONSTANTS
    Char,       \* the characters
    Calls,      \* the calls: records of a sink and of items, or of data
    WORD,       \* bits of an int and of a long
    LP_MAX_BUF, \* characters of the buffer of lp_Print
    CHUNK,      \* characters cons_write prints at once
    Fatal       \* theFatalMsg

VARIABLES
    call,   \* the call
    data,   \* what cons_write has not printed yet
    fmt,    \* the rest of the format
    ap,     \* the arguments that have not been read
    out,    \* the characters on the console, or the buffer of fprintf
    status  \* "scan", "percent" and "write" before a step of lp_Print or
            \* cons_write, "done"; "halted" in the loop after the fatal message;
            \* "smashed": buf has been written behind its end

vars == <<call, data, fmt, ap, out, status>>

DIGITS == <<"0", "1", "2", "3", "4", "5", "6", "7", "8", "9", "a", "b", "c", "d", "e", "f">>
UPPER  == SubSeq(DIGITS, 1, 10) \o <<"A", "B", "C", "D", "E", "F">>
\* The characters of which IsDigit is true
Digit   == {DIGITS[i] : i \in 1 .. 10}
Ctod(c) == (CHOOSE i \in 1 .. 10 : DIGITS[i] = c) - 1

ASSUME CharAssumption ==
    /\ {"%", "l", "-", ".", "s", " ", "\r", "\n"} \subseteq Char
    /\ \A i \in 1 .. 16 : {DIGITS[i], UPPER[i]} \subseteq Char

Times(n, c) == [i \in 1 .. IF n > 0 THEN n ELSE 0 |-> c]

\* b to the n
Power(b, n) == LET p[k \in 0 .. n] == IF k = 0 THEN 1 ELSE b * p[k - 1] IN p[n]

\* width = 10 * width + Ctod(*fmt++)
Value(digits) ==
    LET v[k \in 0 .. Len(digits)] == IF k = 0 THEN 0 ELSE 10 * v[k - 1] + Ctod(digits[k])
    IN  v[Len(digits)]

Numeric == {"b", "d", "D", "o", "O", "u", "U", "x", "X"}

\* An item is a text or a conversion.  width and prec are digits, a leading 0
\* would be a flag; arg.int is the integer, arg.str the string or character.
ATextItem == [text : Seq(Char \ {"%"})]
AConversion ==
    [long : BOOLEAN, left : BOOLEAN, zero : BOOLEAN, width : Seq(Digit), prec : Seq(Digit),
     conv : Seq(Char \ (Digit \cup {"l", "-", "."})),
     arg : [int : - Power(2, WORD - 1) .. Power(2, WORD - 1) - 1, str : Seq(Char)]]
IsText(item) == "text" \in DOMAIN item
WellSpelled(x) ==
    /\ x.width = <<>> \/ x.width[1] # "0"
    /\ Value(x.width) < Power(2, WORD - 1)
    /\ Len(x.conv) <= 1
    /\ x.conv = <<"c">> => Len(x.arg.str) = 1

\* Only the end of the format can cut off a conversion, and a text is all that
\* is between two conversions.
WellFormed(items) ==
    /\ items \in Seq(ATextItem \cup AConversion)
    /\ \A i \in DOMAIN items : ~ IsText(items[i]) =>
          WellSpelled(items[i]) /\ (i < Len(items) => items[i].conv # <<>>)
    /\ \A i \in 1 .. Len(items) - 1 : ~ (IsText(items[i]) /\ IsText(items[i + 1]))

ASSUME PrintAssumption ==
    /\ {WORD, LP_MAX_BUF, CHUNK} \subseteq Nat \ {0}
    /\ \A c \in Calls : \/ c.sink \in {"printf", "fprintf"} /\ WellFormed(c.items)
                        \/ c.sink = "cons_write" /\ c.data \in Seq(Char)

\* How a caller writes an item.
Spell(item) ==
    IF IsText(item) THEN item.text
    ELSE <<"%">> \o (IF item.long THEN <<"l">> ELSE <<>>)
                 \o (IF item.left THEN <<"-">> ELSE <<>>)
                 \o (IF item.zero THEN <<"0">> ELSE <<>>)
                 \o item.width
                 \o (IF item.prec = <<>> THEN <<>> ELSE <<".">> \o item.prec)
                 \o item.conv

ReadsArg(item) ==
    ~ IsText(item) /\ item.conv # <<>> /\ item.conv[1] \in Numeric \cup {"c", "s"}

Format(items) == FlattenSeq([i \in DOMAIN items |-> Spell(items[i])])
Args(items) ==
    FlattenSeq([i \in DOMAIN items |-> IF ReadsArg(items[i]) THEN <<items[i].arg>> ELSE <<>>])

Init ==
    /\ call \in Calls
    /\ data = IF call.sink = "cons_write" THEN call.data ELSE <<>>
    /\ fmt = IF call.sink = "cons_write" THEN <<>> ELSE Format(call.items)
    /\ ap = IF call.sink = "cons_write" THEN <<>> ELSE Args(call.items)
    /\ out = <<>>
    /\ status = IF call.sink = "cons_write" THEN "write" ELSE "scan"
-----------------------------------------------------------------------------
(* The conversions: the characters they leave in buf.                      *)

PrintChar(c, width, left) ==
    LET pad == Times(width - 1, " ")
    IN  IF left THEN <<c>> \o pad ELSE pad \o <<c>>

PrintString(s, width, left) ==
    LET pad == Times(width - Len(s), " ")
    IN  IF left THEN s \o pad ELSE pad \o s

\* The digits of u, the last one first.
Reversed(u, base, digit) ==
    LET from[n \in 0 .. u] == IF n < base THEN <<digit[n + 1]>>
                              ELSE <<digit[(n % base) + 1]>> \o from[n \div base]
    IN  from[u]

\* Mutant: a negative number is padded like any other.
PrintNum_SignInside(u, base, neg, width, left, padc, digit) ==
    LET num == Reversed(u, base, digit) \o (IF neg THEN <<"-">> ELSE <<>>)
        pad == Times(width - Len(num), IF left THEN " " ELSE padc)
    IN  IF left THEN Reverse(num) \o pad ELSE Reverse(num \o pad)

\* The number is built from its end; zeros go between a sign and the digits.
PrintNum(u, base, neg, width, left, padc, digit) ==
    LET num == Reversed(u, base, digit) \o (IF neg THEN <<"-">> ELSE <<>>)
        pad == Times(width - Len(num), IF left THEN " " ELSE padc)
    IN  IF left THEN Reverse(num) \o pad
        ELSE IF neg /\ padc = "0" THEN Reverse(Front(num) \o pad \o <<"-">>)
        ELSE Reverse(num \o pad)

\* As an unsigned long.
Unsigned(num) == num % Power(2, WORD)

\* The negation of the smallest integer is itself.
Convert(c, num, width, left, padc) ==
    LET neg == num < 0
        abs == IF neg THEN Unsigned(-num) ELSE num
    IN  CASE c = "b" -> PrintNum(Unsigned(num), 2, FALSE, width, left, padc, DIGITS)
          [] c \in {"d", "D"} -> PrintNum(abs, 10, neg, width, left, padc, DIGITS)
          [] c \in {"o", "O"} -> PrintNum(Unsigned(num), 8, FALSE, width, left, padc, DIGITS)
          [] c \in {"u", "U"} -> PrintNum(Unsigned(num), 10, FALSE, width, left, padc, DIGITS)
          [] c = "x" -> PrintNum(Unsigned(num), 16, FALSE, width, left, padc, DIGITS)
          [] c = "X" -> PrintNum(Unsigned(num), 16, FALSE, width, left, padc, UPPER)
-----------------------------------------------------------------------------
(* The output functions                                                    *)

\* A carriage return goes before every newline.
Console(s) == FlattenSeq([i \in DOMAIN s |-> IF s[i] = "\n" THEN <<"\r", "\n">> ELSE <<s[i]>>])

\* myoutput, and user_out2string, which stores every piece at the start of
\* the buffer.
Put(s) ==
    IF call.sink = "fprintf" THEN s \o SubSeq(out, Len(s) + 1, Len(out))
    ELSE out \o Console(s)

\* OUTPUT: a piece that is too long halts the program; otherwise it goes on
\* in state next.
Output(s, next) ==
    IF Len(s) > LP_MAX_BUF THEN out' = Put(Fatal) /\ status' = "halted"
    ELSE out' = Put(s) /\ status' = next

\* A conversion is in buf before OUTPUT looks at its length.
OutputBuf(s) ==
    IF Len(s) > LP_MAX_BUF THEN out' = out /\ status' = "smashed"
    ELSE Output(s, "scan")
-----------------------------------------------------------------------------
(* lp_Print                                                                *)

Has(f, c)  == f # <<>> /\ Head(f) = c
Skip(f, c) == IF Has(f, c) THEN Tail(f) ELSE f

\* The number of leading elements of f that are in S.
Prefix(f, S) == Max({n \in 0 .. Len(f) : \A i \in 1 .. n : f[i] \in S})
Digits(f)  == SubSeq(f, 1, Prefix(f, Digit))
Drop(f, n) == SubSeq(f, n + 1, Len(f))

\* The string up to the next '%' is flushed, also when it is empty.
Scan ==
    LET n == Prefix(fmt, Char \ {"%"})
        f == Drop(fmt, n)
    IN  /\ status = "scan"
        /\ Output(SubSeq(fmt, 1, n),
                  IF f # <<>> THEN "percent"
                  ELSE IF call.sink = "cons_write" THEN "write" ELSE "done")
        /\ fmt' = f
        /\ UNCHANGED <<call, data, ap>>

\* The prefixes of a conversion and the format behind them.  The length
\* modifier comes first; a precision is read and not used.
Flags(f) ==
    LET f1 == Skip(f, "l")
        f2 == Skip(f1, "-")
        f3 == Skip(f2, "0")
        f4 == Drop(f3, Len(Digits(f3)))
        f5 == Skip(f4, ".")
    IN  [left  |-> Has(f1, "-"),
         padc  |-> IF Has(f2, "0") THEN "0" ELSE " ",
         width |-> Value(Digits(f3)),
         rest  |-> IF Has(f4, ".") THEN Drop(f5, Len(Digits(f5))) ELSE f4]

Percent ==
    LET p == Flags(Tail(fmt))
        c == Head(p.rest)
        arg(S) == p.rest # <<>> /\ c \in S /\ ap' = Tail(ap)
    IN  /\ status = "percent"
        /\ fmt' = IF p.rest = <<>> THEN <<>> ELSE Tail(p.rest)
        /\ \/ /\ p.rest = <<>>
              /\ status' = "scan"
              /\ UNCHANGED <<ap, out>>
           \/ /\ arg(Numeric)
              /\ OutputBuf(Convert(c, Head(ap).int, p.width, p.left, p.padc))
           \/ /\ arg({"c"})
              /\ OutputBuf(PrintChar(Head(ap).str[1], p.width, p.left))
           \/ /\ arg({"s"})
              /\ OutputBuf(PrintString(Head(ap).str, p.width, p.left))
           \/ /\ p.rest # <<>>
              /\ c \notin Numeric \cup {"c", "s"}
              /\ Output(<<c>>, "scan")
              /\ UNCHANGED ap
        /\ UNCHANGED <<call, data>>

\* cons_write: the next piece is printed.  The data has no NUL in it.
ConsWrite ==
    LET n == IF Len(data) < CHUNK THEN Len(data) ELSE CHUNK
        s == SubSeq(data, 1, n)
    IN  /\ status = "write"
        /\ IF data = <<>>
           THEN status' = "done" /\ UNCHANGED <<data, fmt, ap>>
           ELSE /\ status' = "scan"
                /\ data' = Drop(data, n)
                /\ fmt' = <<"%", "s">>
                /\ ap' = <<[int |-> 0, str |-> s]>>
        /\ UNCHANGED <<call, out>>

Next == Scan \/ Percent \/ ConsWrite

Spec == Init /\ [][Next]_vars
-----------------------------------------------------------------------------
(* What the items mean                                                     *)

Signed(item) == item.conv[1] \in {"d", "D"}
Base(item) == CASE item.conv[1] = "b" -> 2
                [] item.conv[1] \in {"o", "O"} -> 8
                [] item.conv[1] \in {"d", "D", "u", "U"} -> 10
                [] OTHER -> 16

\* The shortest spelling of u: the digits have its value and no zero leads.
Numeral(u, base, digit) ==
    LET n == CHOOSE n \in 1 .. WORD : /\ Power(base, n) > u
                                      /\ n = 1 \/ Power(base, n - 1) <= u
    IN  [i \in 1 .. n |-> digit[((u \div Power(base, n - i)) % base) + 1]]

\* The text of an item in a field of its width.
Field(item) ==
    LET c     == item.conv[1]
        minus == IF Signed(item) /\ item.arg.int < 0 THEN <<"-">> ELSE <<>>
        value == IF ~ Signed(item) THEN Unsigned(item.arg.int)
                 ELSE IF item.arg.int < 0 THEN - item.arg.int ELSE item.arg.int
        num   == Numeral(value, Base(item), IF c = "X" THEN UPPER ELSE DIGITS)
        body  == CASE c \in {"c", "s"} -> item.arg.str [] OTHER -> minus \o num
        blank == Value(item.width) - Len(body)
    IN  IF item.left THEN body \o Times(blank, " ")
        ELSE IF item.zero /\ c \notin {"c", "s"} THEN minus \o Times(blank, "0") \o num
        ELSE Times(blank, " ") \o body

Text(item) == IF IsText(item) THEN item.text
              ELSE IF ReadsArg(item) THEN Field(item) ELSE item.conv

\* The texts of a call, and what it writes, whatever their order and number.
Texts(c)  == IF c.sink = "cons_write" THEN <<c.data>>
             ELSE [i \in DOMAIN c.items |-> Text(c.items[i])]
Wanted(c) == IF c.sink = "fprintf" THEN FlattenSeq(Texts(c)) ELSE Console(FlattenSeq(Texts(c)))

\* A text is longer than the buffer; cons_write prints CHUNK characters at once.
TooLong(c) ==
    /\ \E i \in DOMAIN Texts(c) : Len(Texts(c)[i]) > LP_MAX_BUF
    /\ c.sink = "cons_write" => CHUNK > LP_MAX_BUF

\* A piece is stored over another one.
Overwrites(c) ==
    /\ c.sink = "fprintf"
    /\ \E i, j \in DOMAIN Texts(c) : i < j /\ Texts(c)[i] # <<>> /\ Texts(c)[j] # <<>>

\* printf and cons_write that return have written what the items say, with
\* every sign, zero and blank in its place, for each integer, the smallest one
\* included.  fprintf does when there is only one piece: a second piece is
\* stored over the first ("gives output function a way to track state",
\* print.h, is what user_out2string does not use).  A call does not return if
\* and only if a text is longer than the buffer of lp_Print, which 127
\* characters of cons_write are.
PrintsItems ==
    /\ status = "done" => ~ TooLong(call) /\ (out = Wanted(call) \/ Overwrites(call))
    /\ status \in {"halted", "smashed"} => TooLong(call)
=============================================================================
