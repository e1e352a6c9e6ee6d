------------------------------ MODULE Filters ------------------------------
(***************************************************************************)
(* From what is typed into the filter boxes to the rows of the view: the   *)
(* grammar of a column filter, the WHERE clause and its positional         *)
(* parameters for SQLite (db/filters.rs) and for DuckDB (pq/filters.rs),   *)
(* the columns of a table and its rowid (db/schema.rs, db/query.rs), and   *)
(* the regular expressions, which SQLite leaves to the row scan.  What the *)
(* engines do with a clause is external: LIKE, affinity, comparison.       *)
(*                                                                         *)
(* A text is a sequence of characters; the numbers 1 and 2 stand for all.  *)
(* Letters of different case are not told apart by LIKE or ILIKE, and      *)
(* neither are they here.  A declared type is the set of the words it      *)
(* contains that matter to SQLite.                                         *)
(***************************************************************************)
EXTENDS Texts, Listings

CONSTANT Alphabet   \* the characters, in the order of their codes

---------------------------------------------------------------------------
(* LIKE patterns.                                                          *)

EscapeBackslashLast(v) ==   \* mutant: the backslashes of the escapes are escaped as well
  Substituted(Substituted(Substituted(v, "%", <<"\\", "%">>), "_", <<"\\", "_">>), "\\", <<"\\", "\\">>)

escape_like(v) ==
  Substituted(Substituted(Substituted(v, "\\", <<"\\", "\\">>), "%", <<"\\", "%">>), "_", <<"\\", "_">>)

contains_pattern(v) == <<"%">> \o escape_like(v) \o <<"%">>

(* text LIKE pattern ESCAPE '\', as both engines read it: from[j] has the *)
(* places whose rest of the text matches the pattern from j on.            *)
Like(text, pattern) ==
  LET n == Len(text)  m == Len(pattern)
      from[j \in 1 .. m + 1] ==
        IF j > m THEN {n + 1}
        ELSE {i \in 1 .. n + 1 :
                \/ pattern[j] = "%" /\ \E k \in from[j + 1] : i <= k
                \/ /\ pattern[j] = "\\" /\ j < m /\ i <= n
                   /\ text[i] = pattern[j + 1] /\ i + 1 \in from[j + 2]
                \/ /\ pattern[j] \notin {"%", "\\"} /\ i <= n
                   /\ pattern[j] \in {"_", text[i]} /\ i + 1 \in from[j + 1]}
  IN 1 \in from[1]

ContainsText(text, v) == \E i \in 0 .. Len(text) - Len(v) : SubSeq(text, i + 1, i + Len(v)) = v

---------------------------------------------------------------------------
(* The grammar of a column filter.  Its value is given as the sequence of  *)
(* its trimmed pieces; that of a regular expression has one piece or none. *)

Operators ==
  << <<<<"<", ">">>, "notcontains">>, <<<<">", "=">>, "ge">>, <<<<"<", "=">>, "le">>,
     <<<<">">>, "gt">>, <<<<"<">>, "lt">>, <<<<"=">>, "eq">> >>

Criterion(piece) ==
  LET found == {k \in DOMAIN Operators : IsPrefix(Operators[k][1], piece)}
      k == CHOOSE x \in found : \A y \in found : x <= y
      rest == After(piece, Len(Operators[k][1]))
  IN IF found = {} THEN [op |-> "contains", operand |-> piece]
     ELSE [op |-> IF Operators[k][2] = "notcontains" /\ rest = <<>> THEN "notempty"
                  ELSE Operators[k][2],
           operand |-> rest]

parse_criteria(value) ==
  LET pieces == Kept(value, ToSet(value) \ {<<>>})
  IN [i \in DOMAIN pieces |-> Criterion(pieces[i])]

is_and(c) == c.op \notin {"eq", "contains"}
Ors(criteria) == Kept(criteria, {c \in ToSet(criteria) : ~is_and(c)})
Ands(criteria) == Kept(criteria, {c \in ToSet(criteria) : is_and(c)})

---------------------------------------------------------------------------
(* Columns.  table_xinfo lists every declared column with a code: 0        *)
(* ordinary, 1 hidden in a virtual table, 2 and 3 generated.               *)

TableInfoColumns(declared) ==   \* mutant: the list of PRAGMA table_info, without generated ones
  Kept(declared, {c \in ToSet(declared) : c.hidden = 0})

table_columns(declared) == Kept(declared, {c \in ToSet(declared) : c.hidden # 1})

SelectStar(declared) == {i \in DOMAIN declared : declared[i].hidden # 1}   \* external

DeclaredNames(declared) == {declared[i].lower : i \in DOMAIN declared}
VisibleNames(declared) ==   \* mutant: names that table_info does not list shadow nothing
  {declared[i].lower : i \in {j \in DOMAIN declared : declared[j].hidden = 0}}
ShadowingNames(declared) == DeclaredNames(declared)

(* The first rowid alias that no column takes, in a table with rowids.     *)
Aliases == <<"rowid", "_rowid_", "oid">>
rowid_alias_for(declared, withoutRowid) ==
  LET free == {k \in DOMAIN Aliases :
                 Aliases[k] \notin ShadowingNames(declared) /\ ~withoutRowid}
  IN IF free = {} THEN "none" ELSE Aliases[CHOOSE k \in free : \A j \in free : k <= j]

declares_blob(type) == "BLOB" \in type
has_no_affinity(type) == type = {} \/ declares_blob(type)

(* SQLite's affinity of a declared type, which the export asks about too.  *)
is_numeric_affinity(type) ==
  \/ "INT" \in type
  \/ {"CHAR", "CLOB", "TEXT", "BLOB"} \cap type = {} /\ type # {}

---------------------------------------------------------------------------
(* Cells, and what SQLite stores and compares.                             *)

Numeral == <<"1", "2">>
NullCell == [class |-> "null", text |-> <<>>, number |-> 0]
TextCell(t) == [class |-> "text", text |-> t, number |-> 0]
RealCell(n) == [class |-> "real", text |-> <<Numeral[n], ".", "0">>, number |-> n]
IntCell(n) == [class |-> "int", text |-> <<Numeral[n]>>, number |-> n]
BlobCell == [class |-> "blob", text |-> <<"#">>, number |-> 0]

Number(text) ==   \* the number a text denotes, or 0
  CASE text \in {<<"1">>, <<"1", ".", "0">>} -> 1
    [] text \in {<<"2">>, <<"2", ".", "0">>} -> 2
    [] OTHER -> 0

(* What a column of a type holds when the cell is put into it.             *)
TextAffinity(type) == {"CHAR", "CLOB", "TEXT"} \cap type # {} /\ "INT" \notin type
RealAffinity(type) == {"REAL", "FLOA", "DOUB"} \cap type # {} /\ "INT" \notin type
Stored(cell, type) ==
  LET number == Number(cell.text)
  IN CASE TextAffinity(type) /\ cell.class \in {"int", "real"} -> TextCell(cell.text)
       [] is_numeric_affinity(type) /\ cell.class \in {"int", "real", "text"} /\ number # 0 ->
            IF RealAffinity(type) THEN RealCell(number) ELSE IntCell(number)
       [] OTHER -> cell

Code(c) == CHOOSE i \in DOMAIN Alphabet : Alphabet[i] = c
TextLess(s, t) ==
  \E k \in 1 .. Len(t) :
    /\ k <= Len(s) + 1 /\ SubSeq(s, 1, k - 1) = SubSeq(t, 1, k - 1)
    /\ k > Len(s) \/ Code(s[k]) < Code(t[k])
ClassRank(class) == CASE class \in {"int", "real"} -> 1 [] class = "text" -> 2 [] OTHER -> 3
CellLess(x, y) ==
  \/ ClassRank(x.class) < ClassRank(y.class)
  \/ /\ ClassRank(x.class) = ClassRank(y.class)
     /\ IF ClassRank(x.class) = 1 THEN x.number < y.number ELSE TextLess(x.text, y.text)
CellEqual(x, y) == ~CellLess(x, y) /\ ~CellLess(y, x)
Operand(text, type) ==
  IF is_numeric_affinity(type) /\ Number(text) # 0 THEN IntCell(Number(text)) ELSE TextCell(text)

---------------------------------------------------------------------------
(* The WHERE clause: its tests in the order they stand in the text.  Tests *)
(* of one group are alternatives, groups are ANDed; every test that        *)
(* compares with a text holds one placeholder, bound to the next parameter.*)

Test(op, column, group) == [op |-> op, column |-> column, group |-> group, pattern |-> <<>>]
HasPlaceholder(op) == op \notin {"notempty", "never", "regex", "coalescedregex"}

BoundTo(c) ==
  IF ~HasPlaceholder(c.op) THEN <<>>
  ELSE <<IF c.op \in {"contains", "notcontains"} THEN contains_pattern(c.operand) ELSE c.operand>>
ParamsOf(criteria) == FlattenSeq([i \in DOMAIN criteria |-> BoundTo(criteria[i])])

ParamsAsTyped(criteria) == ParamsOf(criteria)   \* mutant: in the order they were typed

Params(criteria) == ParamsOf(Ors(criteria) \o Ands(criteria))

(* A test of = gets a second arm for the number its operand denotes, where *)
(* SQLite would not convert the operand.                                   *)
Tests(criteria, column, k, noAffinity) ==
  LET ors == Ors(criteria)  ands == Ands(criteria)
      op(c) == IF c.op = "eq" /\ noAffinity /\ Number(c.operand) # 0 THEN "eqnumber" ELSE c.op
  IN [i \in DOMAIN ors |-> Test(op(ors[i]), column, <<k, 0>>)]
       \o [i \in DOMAIN ands |-> Test(ands[i].op, column, <<k, i>>)]

(* The global filter is tried on every column that does not declare a BLOB *)
(* and matches nothing when there is none.                                 *)
GlobalTests(searchable, text) ==
  IF text = <<>> THEN <<>>
  ELSE IF searchable = <<>> THEN <<Test("never", "", <<0, 0>>)>>
  ELSE [i \in DOMAIN searchable |-> Test("contains", searchable[i].name, <<0, 0>>)]
GlobalParams(searchable, text) ==
  IF text = <<>> THEN <<>> ELSE [i \in DOMAIN searchable |-> contains_pattern(text)]

Position(columns, name) ==
  LET at == {i \in DOMAIN columns : columns[i].name = name}
  IN IF at = {} THEN 0 ELSE CHOOSE i \in at : \A j \in at : i <= j

Failed == [error |-> TRUE, tests |-> <<>>, params |-> <<>>, regexes |-> <<>>]

(* A column filter that is not a regular expression may name no column.    *)
(* The code builds its test all the same and counts on SQLite to refuse    *)
(* the name, which SQLite does unless it reads a quoted name that is no    *)
(* column as a text.                                                       *)
RefusesName(columns, name) == Position(columns, name) = 0

build_where_clause(columns, filters, global) ==
  LET searchable == Kept(columns, {c \in ToSet(columns) : ~declares_blob(c.type)})
      plain == {k \in DOMAIN filters : filters[k].value # <<>> /\ ~filters[k].regex}
      regex == Ascending({k \in DOMAIN filters : filters[k].value # <<>> /\ filters[k].regex})
      at(k) == Position(columns, filters[k].column)
      of(k) == parse_criteria(filters[k].value)
  IN IF \E i \in DOMAIN regex : at(regex[i]) = 0 THEN Failed
     ELSE [error |-> \E k \in plain : RefusesName(columns, filters[k].column) /\ of(k) # <<>>,
           tests |-> GlobalTests(searchable, global) \o FlattenSeq(
             [k \in DOMAIN filters |->
                IF k \in plain
                THEN Tests(of(k), filters[k].column, k,
                           at(k) # 0 /\ has_no_affinity(columns[at(k)].type))
                ELSE <<>>]),
           params |-> GlobalParams(searchable, global) \o FlattenSeq(
             [k \in DOMAIN filters |-> IF k \in plain THEN Params(of(k)) ELSE <<>>]),
           regexes |-> [i \in DOMAIN regex |-> [index |-> at(regex[i]),
                                                pattern |-> filters[regex[i]].value[1]]]]

(* The same for DuckDB: a column must exist in every case, a BLOB matches  *)
(* no text, and a regular expression is part of the clause.                *)
is_blob(type) == type = {"BLOB"}

RegexOfColumn(column, k, pattern) ==   \* mutant: NULL is not tested as the empty text
  [Test("regex", column, <<k, 0>>) EXCEPT !.pattern = pattern]
RegexTest(column, k, pattern) ==
  [Test("coalescedregex", column, <<k, 0>>) EXCEPT !.pattern = pattern]

build_where(columns, filters, global) ==
  LET searchable == Kept(columns, {c \in ToSet(columns) : ~is_blob(c.type)})
      used == {k \in DOMAIN filters : filters[k].value # <<>>}
      at(k) == Position(columns, filters[k].column)
      of(k) == parse_criteria(filters[k].value)
      regexTest(k) ==
        IF is_blob(columns[at(k)].type) THEN Test("never", filters[k].column, <<k, 0>>)
        ELSE RegexTest(filters[k].column, k, filters[k].value[1])
  IN IF \E k \in used : at(k) = 0 THEN Failed
     ELSE [error |-> FALSE,
           tests |-> GlobalTests(searchable, global) \o FlattenSeq(
             [k \in DOMAIN filters |->
                IF k \notin used THEN <<>>
                ELSE IF filters[k].regex THEN <<regexTest(k)>>
                ELSE Tests(of(k), filters[k].column, k, FALSE)]),
           params |-> GlobalParams(searchable, global) \o FlattenSeq(
             [k \in DOMAIN filters |->
                IF k \in used /\ ~filters[k].regex THEN Params(of(k)) ELSE <<>>]),
           regexes |-> <<>>]

---------------------------------------------------------------------------
(* Regular expressions are the sets of texts of one or two of them: those  *)
(* that are empty, and those that contain a character.                     *)
RegexMatches(pattern, text) ==
  IF pattern = <<"^", "$">> THEN text = <<>> ELSE ContainsText(text, pattern)

(* NULL is tested as the empty text, a BLOB never matches.                 *)
cell_matches_regex(cell, pattern) == cell.class # "blob" /\ RegexMatches(pattern, cell.text)

ScanIndex(projected, name) ==
  Position([i \in DOMAIN projected |-> [name |-> projected[i]]], name) + 1

(* The columns a regex scan reads, each once, after the rowid, and where   *)
(* every expression finds its cell among them.                             *)
project_regex_columns(columns, regexes) ==
  LET names == [i \in DOMAIN regexes |-> columns[regexes[i].index].name]
      firsts == Ascending({i \in DOMAIN names : \A j \in 1 .. i - 1 : names[j] # names[i]})
      projected == [i \in DOMAIN firsts |-> names[firsts[i]]]
  IN [projected |-> projected,
      regexes |-> [i \in DOMAIN regexes |-> [index |-> ScanIndex(projected, names[i]),
                                            pattern |-> regexes[i].pattern]]]

row_matches_regexes(cells, regexes) ==
  \A i \in DOMAIN regexes : cell_matches_regex(cells[regexes[i].index], regexes[i].pattern)

---------------------------------------------------------------------------
(* The engines: which rows a clause selects.  A row maps names to cells.   *)

Holds(test, param, cell, type) ==
  LET operand == Operand(param, type)
      known == cell.class # "null"
  IN CASE test.op = "regex"       -> known /\ RegexMatches(test.pattern, cell.text)
       [] test.op = "coalescedregex" -> RegexMatches(test.pattern, cell.text)
       [] test.op = "notempty"    -> known /\ cell.text # <<>>
       [] test.op = "contains"    -> known /\ Like(cell.text, param)
       [] test.op = "notcontains" -> known /\ ~Like(cell.text, param)
       [] test.op = "ge"          -> known /\ ~CellLess(cell, operand)
       [] test.op = "le"          -> known /\ ~CellLess(operand, cell)
       [] test.op = "gt"          -> known /\ CellLess(operand, cell)
       [] test.op = "lt"          -> known /\ CellLess(cell, operand)
       [] test.op = "eq"          -> known /\ CellEqual(cell, operand)
       [] test.op = "eqnumber"    -> known /\ \/ CellEqual(cell, operand)
                                              \/ CellEqual(cell, RealCell(Number(param)))

Selected(where, row, types) ==
  LET taken(i) == Cardinality({j \in 1 .. i : HasPlaceholder(where.tests[j].op)})
      holds(i) == LET test == where.tests[i]
                  IN /\ test.op # "never"
                     /\ Holds(test, IF HasPlaceholder(test.op) THEN where.params[taken(i)] ELSE <<>>,
                              row[test.column], types[test.column])
  IN \A i \in DOMAIN where.tests :
       \E j \in DOMAIN where.tests : where.tests[j].group = where.tests[i].group /\ holds(j)

---------------------------------------------------------------------------
(* What filters mean: a piece starts with the longest operator it can, and *)
(* a filter asks for one of the alternatives and every other criterion.    *)

Reading(piece) ==
  LET starts == {Operators[k] : k \in {x \in DOMAIN Operators : IsPrefix(Operators[x][1], piece)}}
      operator == CHOOSE o \in starts : \A p \in starts : Len(p[1]) <= Len(o[1])
  IN CASE starts = {}        -> [op |-> "contains", operand |-> piece]
       [] piece = <<"<", ">">> -> [op |-> "notempty", operand |-> <<>>]
       [] OTHER -> [op |-> operator[2], operand |-> After(piece, Len(operator[1]))]

CriterionMeans(c, cell, type) ==
  LET shown == cell.class # "null"  operand == Operand(c.operand, type)
  IN CASE c.op = "notempty"    -> shown /\ cell.text # <<>>
       [] c.op = "contains"    -> shown /\ ContainsText(cell.text, c.operand)
       [] c.op = "notcontains" -> shown /\ ~ContainsText(cell.text, c.operand)
       [] c.op = "eq"          -> shown /\ IF cell.class \in {"int", "real"}
                                           THEN cell.number = Number(c.operand)
                                           ELSE cell.class = "text" /\ cell.text = c.operand
       [] c.op = "ge" -> shown /\ ~CellLess(cell, operand)
       [] c.op = "le" -> shown /\ ~CellLess(operand, cell)
       [] c.op = "gt" -> shown /\ CellLess(operand, cell)
       [] c.op = "lt" -> shown /\ CellLess(cell, operand)

FilterMeans(filter, row, types) ==
  LET criteria == {Reading(piece) : piece \in ToSet(filter.value) \ {<<>>}}
      means(c) == CriterionMeans(c, row[filter.column], types[filter.column])
      either == {c \in criteria : ~is_and(c)}
  IN IF filter.regex
     THEN filter.value # <<>> => cell_matches_regex(row[filter.column], filter.value[1])
     ELSE /\ either # {} => \E c \in either : means(c)
          /\ \A c \in criteria \ either : means(c)

RowMeant(filters, global, row, types) ==
  /\ global # <<>> => \E name \in DOMAIN row :
        /\ ~declares_blob(types[name]) /\ row[name].class # "null"
        /\ ContainsText(row[name].text, global)
  /\ \A k \in DOMAIN filters : FilterMeans(filters[k], row, types)
=============================================================================
