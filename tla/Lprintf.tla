------------------------------ MODULE Lprintf -------------------------------
(***************************************************************************)
(* lprintf of lab1/lprintf.c, which the debug functions print through:     *)
(* its own reading of a format, its own conversion of numbers, and the     *)
(* time that it puts before every line.  A text is a sequence of           *)
(* characters, the time one of them.  The digits of a floating point       *)
(* number are the C library's.                                             *)
(***************************************************************************)
EXTENDS Integers, Sequences, FiniteSetsExt, SequencesExt

CONSTANTS
  CharBits, ShortBits, IntBits, LongBits,  \* widths of the C types
  WideBits,                                \* of __int64
  MAX_WIDTH,
  StrSize, StrSpare,  \* of the buffer for memory blocks, 256 and 32 bytes
  Literals,           \* texts between two conversions
  MaxConversions,     \* bound: of options, in a behaviour
  Options,            \* sequences of options: [kind |-> "#", n |-> 0], ...
  Integer,            \* arguments of the integer conversions
  Strings,            \* of %s
  Doubles,            \* of %f: [negative |-> TRUE, digits |-> <<"1", ".", "5">>]
  Blocks              \* of %M: sequences of bytes

TIMESTAMP == "000.000 "

VARIABLES
  sol,     \* start of line
  out,     \* what was written last, with the times
  field,   \* the last conversion: its argument and its text
  ended,   \* history: what was written so far ends a line
  left     \* bound: conversions to come

printVars == <<sol, out, field, ended, left>>

NoField == [type |-> "none", o |-> 0, arg |-> 0, text |-> <<>>]

PrintInit ==
  /\ sol = TRUE
  /\ out = <<>>
  /\ field = NoField
  /\ ended = TRUE
  /\ left = MaxConversions

-----------------------------------------------------------------------------
(* Output. *)

EndsFirstLine(ch) == sol /\ ch = "\n"  \* slip: looked at before the loop
EndsLine(ch) == ch = "\n"

(* output: stdout and the log file take the same.  The time comes before   *)
(* the first character of a line.                                          *)
Output(str) ==
  LET put(acc, ch) ==
        [text |-> (IF acc.sol THEN Append(acc.text, TIMESTAMP) ELSE acc.text) \o <<ch>>,
         sol  |-> EndsLine(ch)]
      all == FoldLeft(put, [text |-> <<>>, sol |-> sol], str)
  IN  /\ out' = all.text
      /\ sol' = all.sol
      /\ ended' = IF str = <<>> THEN ended ELSE Last(str) = "\n"

(* write_pad. *)
Pad(n, ch) == [i \in 1 .. Max({n, 0}) |-> ch]

(* What the prefix leaves of the width. *)
WholeWidth(width, prefix) == width  \* slip
Remaining(width, prefix) == width - Len(prefix)

(* output_string. *)
OutputString(str, prefix_len, width, precision, flag, pad, precision_pad) ==
  LET prefix == SubSeq(str, 1, prefix_len)
      body   == SubSeq(str, prefix_len + 1, Len(str))
      wanted == Remaining(width, prefix)
      w      == IF "DOT" \in flag /\ wanted = 0 THEN precision ELSE wanted
      p      == IF "DOT" \in flag THEN precision ELSE Len(body)
      fill   == Pad(w - p, pad)
      text   == Pad(p - Len(body), precision_pad) \o body
  IN  CASE width = 0 /\ precision = 0 -> str
        [] OTHER ->
             IF "LEFT" \in flag THEN prefix \o text \o fill
             ELSE IF pad = "0" THEN prefix \o fill \o text
             ELSE fill \o prefix \o text

-----------------------------------------------------------------------------
(* The conversions. *)

Digits == <<"0", "1", "2", "3", "4", "5", "6", "7", "8", "9",
            "a", "b", "c", "d", "e", "f">>
DIGITS == <<"0", "1", "2", "3", "4", "5", "6", "7", "8", "9",
            "A", "B", "C", "D", "E", "F">>

RECURSIVE Int64Str(_, _, _)
Int64Str(i, base, digits) ==
  (IF i < base THEN <<>> ELSE Int64Str(i \div base, base, digits))
    \o <<digits[(i % base) + 1]>>

(* An argument is as wide as the last of these says.                       *)
Bits(opt_long) ==
  CASE opt_long = 1  -> LongBits
    [] opt_long = 0  -> IntBits
    [] opt_long = -1 -> ShortBits
    [] opt_long = -2 -> CharBits
    [] OTHER         -> WideBits

(* va_arg gives an int at least. *)
Argument(opt_long) ==
  LET bits == IF opt_long <= 0 THEN IntBits ELSE Bits(opt_long)
  IN  Integer \cap (-(2^(bits - 1)) .. 2^(bits - 1) - 1)

Base(type) ==
  CASE type = "b" -> 2 [] type = "o" -> 8
    [] type \in {"d", "i", "u"} -> 10
    [] type \in {"x", "X", "p"} -> 16

Prefix(type, flag) ==
  CASE type = "p" -> <<"0", "x">>
    [] type = "x" /\ "HASH" \in flag -> <<"0", "x">>
    [] type = "X" /\ "HASH" \in flag -> <<"0", "X">>
    [] type = "o" /\ "HASH" \in flag -> <<"0">>
    [] OTHER -> <<>>

(* The mask comes after the sign was taken off. *)
MagnitudeUnsigned(num, o) == num % 2^Bits(o.opt_long)  \* slip: sign forgotten
Magnitude(num, o) ==
  (IF "SIGN" \in o.flag THEN Max({num, - num}) ELSE num) % 2^Bits(o.opt_long)

(* output_integer.  Of zero with a precision neither digits nor prefix are *)
(* left.                                                                   *)
OutputInteger(num, type, o) ==
  LET width  == Max({o.precision, o.width})
      n      == Magnitude(num, o)
      erased == "DOT" \in o.flag /\ n = 0
      prefix == IF erased THEN <<>> ELSE Prefix(type, o.flag)
      digits == IF erased THEN <<>>
                ELSE Int64Str(n, Base(type), IF type = "X" THEN DIGITS ELSE Digits)
      sign   == CASE "SIGN" \notin o.flag -> <<>>
                  [] num < 0 -> <<"-">>
                  [] num >= 0 /\ "PLUS" \in o.flag -> <<"+">>
                  [] num >= 0 /\ "PLUS" \notin o.flag /\ "SPACE" \in o.flag -> <<" ">>
                  [] OTHER -> <<>>
      front  == sign \o prefix
  IN  IF type = "p" /\ num = 0
      THEN OutputString(<<"(", "n", "i", "l", ")">>, 0, width, o.precision, o.flag, " ", " ")
      ELSE OutputString(front \o digits, Len(front), width,
                        Max({Len(digits), o.precision}), o.flag,
                        IF o.precision > 0 THEN " " ELSE o.pad, "0")

(* output_double.  In the C library's text only the sign is told apart.    *)
OutputDouble(d, o) ==
  LET front == CASE d.negative -> <<"-">>
                 [] ~d.negative /\ "PLUS" \in o.flag -> <<"+">>
                 [] ~d.negative /\ "PLUS" \notin o.flag /\ "SPACE" \in o.flag -> <<" ">>
                 [] OTHER -> <<>>
      point == IF "HASH" \in o.flag /\ "." \notin ToSet(d.digits) THEN <<".">> ELSE <<>>
      s     == front \o d.digits \o point
      precision == IF "DOT" \in o.flag THEN o.precision ELSE 6
  IN  OutputString(s, Len(front), Max({o.width, Len(s)}), precision,
                   o.flag \ {"DOT"}, o.pad, "0")

(* case 's'. *)
OutputText(str, o) ==
  LET n == IF "DOT" \in o.flag THEN Min({o.precision, Len(str)}) ELSE Len(str)
  IN  OutputString(SubSeq(str, 1, n), 0, o.width, 0, o.flag \ {"DOT"}, " ", " ")

(* output_memory_block.  Long blocks are written whenever the buffer is    *)
(* nearly full, and their width does not count.                            *)
OutputMemoryBlock(bytes, o) ==
  LET long  == Len(bytes) > (StrSize - StrSpare) \div 3
      write(s) == OutputString(s, 0, IF long THEN 0 ELSE o.width,
                               IF long THEN 0 ELSE o.precision, o.flag, o.pad, " ")
      head  == IF "HASH" \in o.flag
               THEN <<"(">> \o Int64Str(Len(bytes), 10, Digits) \o <<")", " ">> ELSE <<>>
      hex(byte) == IF o.pad = "0" \/ byte >= 16
                   THEN <<Digits[(byte \div 16) + 1], Digits[(byte % 16) + 1]>>
                   ELSE <<Digits[byte + 1]>>
      add(acc, i) ==
        LET s == acc.s \o hex(bytes[i]) \o (IF i < Len(bytes) THEN <<" ">> ELSE <<>>)
        IN  IF Len(s) > StrSize - 4
            THEN [text |-> acc.text \o write(s), s |-> <<>>]
            ELSE [acc EXCEPT !.s = s]
      all == FoldLeft(add, [text |-> <<>>, s |-> head], [i \in DOMAIN bytes |-> i])
  IN  IF all.s = <<>> THEN all.text ELSE all.text \o write(all.s)

-----------------------------------------------------------------------------
(* The options of a conversion, read one after the other. *)

NoOptions == [ok |-> TRUE, flag |-> {}, pad |-> " ", opt_long |-> 0,
              width |-> 0, precision |-> 0]

Flags == [x \in {"#", "-", " ", "+"} |->
            CASE x = "#" -> "HASH" [] x = "-" -> "LEFT"
              [] x = " " -> "SPACE" [] x = "+" -> "PLUS"]

Longer == [x \in {"h", "l", "z", "q", "L"} |->
             CASE x = "h" -> -1 [] x \in {"l", "z"} -> 1 [] x \in {"q", "L"} -> 2]

(* A number that begins with 0, or with another digit.                     *)
Width(o, opt) ==
  [o EXCEPT !.ok = "DOT" \notin o.flag /\ opt.n <= MAX_WIDTH,
            !.width = opt.n,
            !.pad = IF opt.kind = "0" /\ "LEFT" \notin o.flag THEN "0" ELSE @]

(* The width is an argument; a negative one adjusts to the left. *)
Star(o, opt) ==
  [o EXCEPT !.ok = Max({opt.n, - opt.n}) <= MAX_WIDTH,
            !.width = Max({opt.n, - opt.n}),
            !.flag = IF opt.n < 0 THEN @ \cup {"LEFT"} ELSE @]

(* The precision, written out or an argument. *)
Dot(o, opt) ==
  [o EXCEPT !.ok = opt.n <= MAX_WIDTH,
            !.flag = @ \cup {"DOT"},
            !.precision = Max({opt.n, 0})]

NextOption(o, opt) ==
  CASE ~o.ok -> o
    [] o.ok /\ opt.kind \in DOMAIN Flags -> [o EXCEPT !.flag = @ \cup {Flags[opt.kind]}]
    [] o.ok /\ opt.kind \in DOMAIN Longer -> [o EXCEPT !.opt_long = @ + Longer[opt.kind]]
    [] o.ok /\ opt.kind \in {"0", "1"} -> Width(o, opt)
    [] o.ok /\ opt.kind = "*" -> Star(o, opt)
    [] o.ok /\ opt.kind = "." -> Dot(o, opt)

ReadOptions(opts) == FoldLeft(NextOption, NoOptions, opts)

(* A pointer is a long, a signed conversion has a sign. *)
Typed(type, o) ==
  CASE type = "p" -> [o EXCEPT !.opt_long = 1]
    [] type \in {"d", "i"} -> [o EXCEPT !.flag = @ \cup {"SIGN"}]
    [] OTHER -> o

-----------------------------------------------------------------------------
(* __v_lprintf: what is between the conversions, and the conversions. *)

Literal ==
  /\ \E text \in Literals : Output(text)
  /\ field' = NoField
  /\ UNCHANGED left

Convert(type, o, arg, text) ==
  /\ Output(text)
  /\ field' = [type |-> type, o |-> o, arg |-> arg, text |-> text]
  /\ left' = left - 1

ConvertInteger ==
  /\ left > 0
  /\ \E opts \in Options, type \in {"d", "i", "u", "b", "o", "x", "X", "p"} :
       LET o == Typed(type, ReadOptions(opts))
       IN  /\ o.ok
           /\ \E num \in Argument(o.opt_long) :
                Convert(type, o, num, OutputInteger(num, type, o))

ConvertString ==
  /\ left > 0
  /\ \E opts \in Options, str \in Strings :
       LET o == ReadOptions(opts)
       IN  o.ok /\ Convert("s", o, str, OutputText(str, o))

ConvertDouble ==
  /\ left > 0
  /\ \E opts \in Options, d \in Doubles :
       LET o == ReadOptions(opts)
       IN  o.ok /\ Convert("f", o, d, OutputDouble(d, o))

ConvertBlock ==
  /\ left > 0
  /\ \E opts \in Options, bytes \in Blocks :
       LET o == ReadOptions(opts)
       IN  o.ok /\ Convert("M", o, bytes, OutputMemoryBlock(bytes, o))

(* %c and %%, whose options are read and forgotten. *)
ConvertChar ==
  /\ \E ch \in {"%", "\n"} : Output(<<ch>>)
  /\ field' = NoField
  /\ UNCHANGED left

PrintNext ==
  \/ Literal
  \/ ConvertInteger
  \/ ConvertString
  \/ ConvertDouble
  \/ ConvertBlock
  \/ ConvertChar

PrintSpec == PrintInit /\ [][PrintNext]_printVars

-----------------------------------------------------------------------------
(* A time stands before every line, be it written in many pieces or empty, *)
(* and nowhere else.                                                       *)
StampPerLine ==
  [][\A i \in DOMAIN out' :
       out'[i] = TIMESTAMP <=>
         \/ i = 1 /\ ended
         \/ i > 1 /\ out'[i - 1] = "\n"]_printVars

RECURSIVE Trim(_)
Trim(s) ==
  IF s # <<>> /\ Head(s) = " " THEN Trim(Tail(s))
  ELSE IF s # <<>> /\ Last(s) = " " THEN Trim(Front(s))
  ELSE s

DigitValue(ch) == CHOOSE d \in 0 .. 15 : ch \in {Digits[d + 1], DIGITS[d + 1]}

ReadDigits(s, base) == FoldLeft(LAMBDA n, ch : n * base + DigitValue(ch), 0, s)

(* What a reader of the text takes the number for. *)
ReadNumber(text, type) ==
  LET s        == Trim(text)
      unsigned == IF s # <<>> /\ Head(s) \in {"-", "+"} THEN Tail(s) ELSE s
      plain    == IF Len(unsigned) > 1 /\ unsigned[2] \in {"x", "X"}
                  THEN SubSeq(unsigned, 3, Len(unsigned)) ELSE unsigned
      n        == IF plain = <<"(", "n", "i", "l", ")">> THEN 0
                  ELSE ReadDigits(plain, Base(type))
  IN  IF s # <<>> /\ Head(s) = "-" THEN - n ELSE n

(* The argument as far as its length modifier goes, with the sign of the   *)
(* whole of it.                                                            *)
Meant(num, o) ==
  LET wrap == 2^Bits(o.opt_long)
  IN  IF "SIGN" \in o.flag /\ num < 0 THEN - ((- num) % wrap) ELSE num % wrap

(* 0 was given before -, or before a negative *: zeros follow the number.  *)
ZerosBehind(o) == "LEFT" \in o.flag /\ o.pad = "0"

Words(text) ==
  LET split(acc, ch) == IF ch = " " THEN Append(acc, <<>>)
                        ELSE [acc EXCEPT ![Len(acc)] = Append(@, ch)]
  IN  SelectSeq(FoldLeft(split, << <<>> >>, text), LAMBDA w : w # <<>> /\ ")" \notin ToSet(w))

(* Whatever the options, the number that was printed is the one that was   *)
(* given, and so are the bytes of a block, written in pieces or not; but   *)
(* not if zeros are padded behind it.                                      *)
NumbersReadBack ==
  field.type = "none" \/ ~ ZerosBehind(field.o) =>
    CASE field.type = "none" -> TRUE
      [] field.type \in {"d", "i", "u", "b", "o", "x", "X", "p"} ->
           ReadNumber(field.text, field.type) = Meant(field.arg, field.o)
      [] field.type = "M" ->
           [i \in DOMAIN Words(field.text) |-> ReadDigits(Words(field.text)[i], 16)]
             = field.arg
      [] OTHER -> TRUE

(* A field is as wide as it was asked to be, sign and prefix included, and *)
(* no wider than its text or its precision makes it.  (The precision of a  *)
(* null pointer is taken for the length of "(nil)".)                       *)
WidthKept ==
  field.type \notin {"none", "M"} =>
    LET o    == field.o
        text == field.text
    IN  /\ Len(text) >= o.width
        /\ \/ Len(text) = o.width
           \/ Trim(text) = text
           \/ "SPACE" \in o.flag
           \/ field.type = "p" /\ field.arg = 0

(* Both, for every field that is printed.                                  *)
FieldsFaithful == NumbersReadBack /\ WidthKept
=============================================================================
