------------------------------- MODULE Texts -------------------------------
(***************************************************************************)
(* Conversions: a REAL into the text the grid shows (db/util.rs), paths    *)
(* into SQLite URIs and file URLs into paths (db/util.rs, launch.rs), the  *)
(* arguments of a launch into a path (launch.rs), cells and headers into   *)
(* a workbook (db/export.rs), a statement into its first keyword           *)
(* (db/sql.rs), and DuckDB's error message into a position in the editor   *)
(* (pq/sql.rs, db/types.rs).                                               *)
(*                                                                         *)
(* A text is a sequence of characters.                                     *)
(***************************************************************************)
EXTENDS Integers, Sequences, FiniteSets, SequencesExt, TLC

CONSTANTS
  I64Bits, F64Bits,     \* widths of the integers and of a mantissa
  WindowWidth           \* characters of a line that an error message shows

Space == " "
Zeros(n) == [i \in 1 .. n |-> "0"]
After(s, n) == SubSeq(s, n + 1, Len(s))
Abs(n) == IF n < 0 THEN -n ELSE n
Least(S) == CHOOSE n \in S : \A m \in S : n <= m
Greatest(S) == CHOOSE n \in S : \A m \in S : n >= m
Where(s, chars) == {i \in DOMAIN s : s[i] \in chars}
Substituted(s, c, by) == FlattenSeq([i \in DOMAIN s |-> IF s[i] = c THEN by ELSE <<s[i]>>])

---------------------------------------------------------------------------
(* A REAL: d.ddd * 10^exponent, without trailing zeros; zero has no digit. *)

ZerosBeforeDigits(e) == Zeros(-e)   \* mutant: one zero too many
ZerosAfterPoint(e) == Zeros(-e - 1)

DigitChars == <<"0", "1", "2", "3", "4", "5", "6", "7", "8", "9">>
Shown(digits) == [i \in DOMAIN digits |-> DigitChars[digits[i] + 1]]
Pointed(whole, fraction) == whole \o <<".">> \o fraction

ExponentText(e) ==   \* at least two digits
  LET n == Abs(e)
  IN <<"e">> \o (<<IF e < 0 THEN "-" ELSE "+">>
       \o Shown(IF n < 100 THEN <<n \div 10, n % 10>> ELSE <<n \div 100, (n \div 10) % 10, n % 10>>))

Decimal(ds, e) ==
  CASE e \in 0 .. 16 /\ Len(ds) <= e + 1 -> Pointed(ds \o Zeros(e + 1 - Len(ds)), <<"0">>)
    [] e \in 0 .. 16 /\ Len(ds) > e + 1 -> Pointed(SubSeq(ds, 1, e + 1), After(ds, e + 1))
    [] e \in -4 .. -1 -> Pointed(<<"0">>, ZerosAfterPoint(e) \o ds)
    [] OTHER -> Pointed(<<ds[1]>>, IF Len(ds) > 1 THEN After(ds, 1) ELSE <<"0">>) \o ExponentText(e)

render_real(v) ==
  LET sign == IF v.negative THEN <<"-">> ELSE <<>>
  IN CASE v.kind = "nan" -> <<"NULL">>
       [] v.kind = "inf" -> sign \o <<"Inf">>
       [] v.kind = "finite" /\ v.digits = <<>> -> Pointed(<<"0">>, <<"0">>)
       [] OTHER -> sign \o Decimal(Shown(v.digits), v.exponent)

(* The number a decimal text denotes.                                      *)
DigitOf(c) == CHOOSE d \in 0 .. 9 : DigitChars[d + 1] = c
NumberOf(chars) ==
  IF Len(chars) = 2 THEN 10 * DigitOf(chars[1]) + DigitOf(chars[2])
  ELSE 100 * DigitOf(chars[1]) + 10 * DigitOf(chars[2]) + DigitOf(chars[3])

Mantissa(text) ==
  LET es == Where(text, {"e"})
  IN IF es = {} THEN text ELSE SubSeq(text, 1, Least(es) - 1)
Power(text) ==
  LET es == Where(text, {"e"})
      t == After(text, Least(es))
  IN IF es = {} THEN 0 ELSE IF t[1] = "-" THEN -NumberOf(After(t, 1)) ELSE NumberOf(After(t, 1))
ValueOf(mantissa) ==
  LET point == Least(Where(mantissa, {"."}))
      digits == [i \in 1 .. Len(mantissa) - 1 |->
                   DigitOf(IF i < point THEN mantissa[i] ELSE mantissa[i + 1])]
      nonzero == {i \in DOMAIN digits : digits[i] # 0}
  IN IF nonzero = {} THEN [digits |-> <<>>, exponent |-> 0]
     ELSE [digits |-> SubSeq(digits, Least(nonzero), Greatest(nonzero)),
           exponent |-> point - 1 - Least(nonzero)]

ReadReal(text) ==
  LET negative == text[1] = "-"
      unsigned == IF negative THEN After(text, 1) ELSE text
      value == ValueOf(Mantissa(unsigned))
  IN IF value.digits = <<>> THEN [kind |-> "finite", negative |-> FALSE, digits |-> <<>>, exponent |-> 0]
     ELSE [kind |-> "finite", negative |-> negative, digits |-> value.digits,
           exponent |-> value.exponent + Power(unsigned)]

---------------------------------------------------------------------------
(* Paths in URIs.                                                          *)

HexDigits == {"0", "2", "3", "5", "F"}
Byte(hi, lo) ==
  CASE <<hi, lo>> = <<"2", "5">> -> "%"  [] <<hi, lo>> = <<"2", "0">> -> Space
    [] <<hi, lo>> = <<"3", "F">> -> "?"  [] <<hi, lo>> = <<"2", "3">> -> "#"
    [] <<hi, lo>> = <<"2", "F">> -> "/"  [] <<hi, lo>> = <<"0", "0">> -> "NUL"
    [] OTHER -> "byte"

Malformed == <<"malformed">>
percent_decode(s) ==
  LET out[i \in 1 .. Len(s) + 1] ==
        CASE i > Len(s) -> <<>>
          [] i <= Len(s) /\ s[i] # "%" -> IF out[i + 1] = Malformed THEN Malformed
                                          ELSE <<s[i]>> \o out[i + 1]
          [] OTHER -> IF i + 2 <= Len(s) /\ {s[i + 1], s[i + 2]} \subseteq HexDigits
                      THEN IF out[i + 3] = Malformed THEN Malformed
                           ELSE <<Byte(s[i + 1], s[i + 2])>> \o out[i + 3]
                      ELSE Malformed
  IN out[1]

EncodePercentLast(path) ==   \* mutant: the escapes are escaped as well
  Substituted(Substituted(Substituted(Substituted(Substituted(path,
    Space, <<"%", "2", "0">>), "?", <<"%", "3", "F">>), "#", <<"%", "2", "3">>),
    "\\", <<"/">>), "%", <<"%", "2", "5">>)

Escaped(path) ==
  Substituted(Substituted(Substituted(Substituted(path, "%", <<"%", "2", "5">>),
    Space, <<"%", "2", "0">>), "?", <<"%", "3", "F">>), "#", <<"%", "2", "3">>)
Slashed(path) == Substituted(path, "\\", <<"/">>)
Encoded(path) == Slashed(Escaped(path))

path_to_sqlite_uri(path) ==
  LET encoded == Encoded(path)
  IN CASE Len(encoded) >= 2 /\ SubSeq(encoded, 1, 2) = <<"/", "/">> -> <<"/", "/">> \o encoded
       [] Len(encoded) = 1 \/ SubSeq(encoded, 1, 2) # <<"/", "/">> ->
            IF encoded[1] = "/" THEN encoded ELSE <<"/">> \o encoded

(* The file SQLite opens for "file:" and this: an authority goes, and so   *)
(* does everything from the first ? or # on.                               *)
SqliteOpens(uri) ==
  LET end == Where(uri, {"?", "#"})
      path == IF end = {} THEN uri ELSE SubSeq(uri, 1, Least(end) - 1)
  IN percent_decode(IF Len(path) >= 2 /\ SubSeq(path, 1, 2) = <<"/", "/">> THEN After(path, 2)
                    ELSE path)

(* A URL of the system: its scheme, its authority and the rest.            *)
NoPath == <<"no path">>
CutAt(text) ==
  LET end == Where(text, {"?", "#"})
  IN IF end = {} THEN text ELSE SubSeq(text, 1, Least(end) - 1)
DecodedThenCut(rest) == CutAt(percent_decode(rest))   \* mutant: an encoded ? ends the path
CutThenDecoded(rest) == percent_decode(CutAt(rest))
file_url_to_path(url) ==
  LET decoded == CutThenDecoded(url.rest)
  IN IF \/ url.scheme # "file" \/ url.authority \notin {"", "localhost"}
        \/ decoded \in {Malformed, <<>>} \/ Where(decoded, {"NUL"}) # {}
     THEN NoPath ELSE decoded

(* What the system delivers for a file: every special character encoded.   *)
SystemUrl(path) == [scheme |-> "file", authority |-> "", rest |-> Escaped(path)]

---------------------------------------------------------------------------
(* The launch argument.  A path is the sequence of its words between       *)
(* spaces; a relative one is taken from the working directory.             *)

absolutize_launch_path(words) == IF words[1] = "/" THEN words ELSE <<"/", "cwd">> \o words

JoinedFirst(args, files) ==   \* mutant: the joined path is preferred
  LET joined == absolutize_launch_path(args)
  IN IF joined \in files THEN joined ELSE absolutize_launch_path(<<args[1]>>)

resolve_launch_argument(args, files) ==
  LET first == absolutize_launch_path(<<args[1]>>)
      joined == absolutize_launch_path(args)
  IN IF Len(args) > 1 /\ first \notin files /\ joined \in files THEN joined ELSE first

---------------------------------------------------------------------------
(* Exporting: which cells become numbers, and the headers of the table.    *)

I64 == -(2 ^ (I64Bits - 1)) .. 2 ^ (I64Bits - 1) - 1
F64_EXACT_INT == 2 ^ F64Bits

TwiceTheLimit == 2 * F64_EXACT_INT   \* mutant: one bit more than a mantissa has
ExactLimit == F64_EXACT_INT

(* The closest value of a number with F64Bits bits, ties to even.          *)
ToF64(n) ==
  LET step == 2 ^ Least({k \in 0 .. I64Bits : Abs(n) <= 2 ^ (F64Bits + k)})
      low == (n \div step) * step
  IN CASE n - low < low + step - n -> low
       [] n - low > low + step - n -> low + step
       [] OTHER -> IF (low \div step) % 2 = 0 THEN low ELSE low + step

(* Texts are the decimal integers and one other.                           *)
classify_cell(numeric, n) ==
  CASE ~numeric -> "text"
    [] numeric /\ n \in I64 -> IF Abs(n) <= ExactLimit THEN "number" ELSE "text"
    [] OTHER -> "number"      \* it parses as an f64

CountedSuffix(used, header, earlier) ==   \* mutant: the suffix counts the earlier ones
  IF earlier = 0 THEN header ELSE Append(header, earlier + 1)

FreeName(used, header, earlier) ==
  IF header \notin used THEN header
  ELSE Append(header, Least({n \in 2 .. Cardinality(used) + 2 : Append(header, n) \notin used}))

dedupe_headers(headers) ==
  LET names[i \in 0 .. Len(headers)] ==
        IF i = 0 THEN <<>>
        ELSE LET before == {names[i - 1][j] : j \in DOMAIN names[i - 1]}
             IN Append(names[i - 1],
                       FreeName(before, headers[i],
                                Cardinality({j \in 1 .. i - 1 : headers[j] = headers[i]})))
  IN names[Len(headers)]

---------------------------------------------------------------------------
(* The first keyword of a statement, over the tokens that matter.          *)

Semicolon == ";"
SkipNoSemicolon == {Space, "\n"}   \* mutant: a leading ; is not skipped
Skipped == {Space, "\n", Semicolon}

CommentEnd(sql, i, mark) ==
  LET marks == Where(After(sql, i), {mark})
  IN IF marks = {} THEN Len(sql) ELSE i + Least(marks)

SkippedTo(sql, i) ==
  CASE sql[i] \in Skipped -> i + 1
    [] sql[i] = "--" -> CommentEnd(sql, i, "\n") + 1
    [] sql[i] = "/*" -> CommentEnd(sql, i, "*/") + 1
    [] OTHER -> i

strip_leading_ws_and_comments(sql) ==
  LET rest[i \in 1 .. Len(sql) + 1] ==
        IF i > Len(sql) THEN <<>>
        ELSE IF SkippedTo(sql, i) = i THEN After(sql, i - 1) ELSE rest[SkippedTo(sql, i)]
  IN rest[1]

is_attach_or_detach(sql) ==
  LET rest == strip_leading_ws_and_comments(sql)
  IN Len(rest) >= 2 /\ rest[1] = "attach" /\ rest[2] \notin {"attach", "x"}

(* How SQLite's tokenizer reads it: the state after each token.            *)
SqliteSkips == {Space, "\n", Semicolon}
SqliteAttaches(sql) ==
  LET mode[i \in 0 .. Len(sql)] ==
        IF i = 0 THEN "start"
        ELSE CASE mode[i - 1] = "start" ->
                    CASE sql[i] \in SqliteSkips -> "start"
                      [] sql[i] = "--" -> "line"
                      [] sql[i] = "/*" -> "block"
                      [] sql[i] = "attach" -> "keyword"
                      [] OTHER -> "other"
               [] mode[i - 1] = "line"    -> IF sql[i] = "\n" THEN "start" ELSE "line"
               [] mode[i - 1] = "block"   -> IF sql[i] = "*/" THEN "start" ELSE "block"
               [] mode[i - 1] = "keyword" -> IF sql[i] \in {"attach", "x"} THEN "other" ELSE "attach"
               [] OTHER -> mode[i - 1]
  IN mode[Len(sql)] = "attach"

---------------------------------------------------------------------------
(* Where an error message of DuckDB points.  A statement is a sequence of  *)
(* lines, a line a sequence of characters with their bytes and UTF-16      *)
(* units.  The message shows a window of the line and marks a character.   *)

Total(weights) ==
  LET sum[n \in 0 .. Len(weights)] == IF n = 0 THEN 0 ELSE sum[n - 1] + weights[n]
  IN sum[Len(weights)]
Bytes(line) == Total([i \in DOMAIN line |-> line[i].bytes])
Units(line) == Total([i \in DOMAIN line |-> line[i].units])
LineBreak == [char |-> "\n", bytes |-> 1, units |-> 1]
Broken(lines) == [i \in DOMAIN lines |-> Append(lines[i], LineBreak)]
Upto(lines, l, k) == \* everything in front of the k-th character of line l
  FlattenSeq(SubSeq(Broken(lines), 1, l - 1)) \o SubSeq(lines[l], 1, k - 1)

Message(lines, l, k, start) ==
  LET shown == SubSeq(lines[l], start, Least({start + WindowWidth - 1, Len(lines[l])}))
  IN [line |-> l, excerpt |-> shown, elided |-> start > 1,
      caret |-> k - start + (IF start > 1 THEN 3 ELSE 0)]

CaretInBytes(source, at, column) ==   \* mutant: the column of the marker counts bytes
  Bytes(SubSeq(source, 1, at - 1)) + column
CaretInChars(source, at, column) == Bytes(SubSeq(source, 1, at - 1 + column))

NoOffset == -1
duckdb_error_offset(lines, message) ==
  LET source == lines[message.line]
      column == message.caret - (IF message.elided THEN 3 ELSE 0)
      found == {i \in 1 .. Len(source) - Len(message.excerpt) + 1 :
                  SubSeq(source, i, i + Len(message.excerpt) - 1) = message.excerpt}
  IN IF found = {} \/ column < 0 THEN NoOffset
     ELSE Bytes(Upto(lines, message.line, 1)) + CaretInChars(source, Least(found), column)

(* SqlCheck::problem: the byte offset as UTF-16 units, leading space       *)
(* included, which the trimmed statement that DuckDB saw did not have.     *)
problem(lines, lead, offset) ==
  LET text == FlattenSeq(Broken(lines))
      prefix == {n \in 0 .. Len(text) : Bytes(SubSeq(text, 1, n)) = offset}
  IN IF offset = NoOffset \/ prefix = {} THEN NoOffset
     ELSE lead + Units(SubSeq(text, 1, Least(prefix)))
=============================================================================
