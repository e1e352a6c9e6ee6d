----------------------------- MODULE Algorithms -----------------------------
(***************************************************************************)
(* The pure parts of dblitz against what they are for.  A behaviour        *)
(* chooses one input of one of them, or turns the "Open with" setting on   *)
(* and off, or opens, uses and closes a DuckDB session, or exports.        *)
(***************************************************************************)
EXTENDS Filters, Installation, EngineHandles, Exports

CONSTANTS
  Views,          \* [columns, filters, global] a view is asked for with
  Cells,          \* cells put into the columns of a view
  Searches, Words,          \* searched texts, and texts they are searched in
  Tables,                   \* declared columns of a table
  Reals,
  FilePaths, SplitPaths, Arguments,   \* paths; sets of files and launch arguments
  Numbers, Headers,
  Statements,
  ErrorLines, Leads,        \* lines of a statement, and leading spaces
  Installs                  \* [dir, roots, canonical, version pair]

\* The columns of a view have different names, and a regular expression is one
\* text.  Texts are made of the characters that have a code, among them those
\* that numbers and BLOBs are shown with.
ASSUME ViewsAssumption ==
  /\ Alphabet \in Seq(Range(Alphabet)) /\ {"#", ".", "0", "1", "2"} \subseteq Range(Alphabet)
  /\ \A v \in Views :
       /\ v.columns \in Seq(Range(v.columns)) /\ v.filters \in Seq(Range(v.filters))
       /\ \A i, j \in DOMAIN v.columns : v.columns[i].name = v.columns[j].name => i = j
       /\ v.global \in Seq(Range(Alphabet))
       /\ \A f \in Range(v.filters) :
            /\ f.value \in Seq(Seq(Range(Alphabet))) /\ f.regex \in BOOLEAN
            /\ f.regex => Len(f.value) <= 1
  /\ \A cell \in Cells :
       \/ cell \in {NullCell, BlobCell} \cup {IntCell(n) : n \in 1 .. 2} \cup {RealCell(n) : n \in 1 .. 2}
       \/ cell = TextCell(cell.text) /\ cell.text \in Seq(Range(Alphabet))

ASSUME SearchesAssumption == \A v \in Searches \cup Words : v \in Seq(Range(v))
ASSUME TablesAssumption == \A t \in Tables : t.columns \in Seq(Range(t.columns))

ASSUME InstallsAssumption ==
  \A in \in Installs :
    /\ in.appimage \in {Missing, "", "file"}
    /\ \A r \in DOMAIN in.roots : in.roots[r].text \in Seq(Range(in.roots[r].text))

\* A path has characters, none of them NUL ("malformed" is what decoding fails
\* with, and no character); a launch has an argument (launch.rs:172).
ASSUME PathsAssumption ==
  /\ \A path \in FilePaths : path # <<>> /\ path \in Seq(Range(path) \ {"NUL", "malformed"})
  /\ \A args \in Arguments : args # <<>> /\ args \in Seq(Range(args))

\* A finite REAL has the digits and the exponent of a double.
ASSUME RealsAssumption ==
  \A v \in Reals : v.kind = "finite" =>
    /\ v = [kind |-> "finite", negative |-> v.negative, digits |-> v.digits, exponent |-> v.exponent]
    /\ v.negative \in BOOLEAN /\ v.digits \in Seq(0 .. 9) /\ v.exponent \in -324 .. 308
    /\ v.digits = <<>> => v.exponent = 0
    /\ v.digits # <<>> => v.digits[1] # 0 /\ v.digits[Len(v.digits)] # 0

ASSUME NumbersAssumption == I64Bits \in Nat /\ F64Bits \in Nat /\ Numbers \subseteq Int

ASSUME HeadersAssumption ==
  \A headers \in Headers :
    /\ headers \in Seq(Range(headers))
    /\ \A h \in Range(headers) : Len(h) \in Nat /\ h = [i \in 1 .. Len(h) |-> h[i]]

ASSUME StatementsAssumption == \A sql \in Statements : sql \in Seq(Range(sql))

\* Every character has a byte.
ASSUME ErrorsAssumption ==
  /\ Leads \subseteq Nat /\ WindowWidth \in Nat
  /\ \A lines \in ErrorLines :
       /\ lines \in Seq(Range(lines))
       /\ \A line \in Range(lines) :
            /\ line \in Seq(Range(line))
            /\ \A c \in Range(line) : c.bytes \in Nat \ {0} /\ c.units \in Nat

VARIABLE case             \* the input chosen

Case(kind, input) == [kind |-> kind, input |-> input]
NoCase == Case("none", 0)
Is(kind) == case.kind = kind

Choose(kind, inputs) == \E input \in inputs : case' = Case(kind, input)

Init == case = NoCase /\ FreshRegistry /\ FreshHandles /\ FreshExports

Pick ==
  /\ Is("none") /\ FreshRegistry /\ FreshHandles /\ FreshExports
  /\ \/ Choose("view", Views)
     \/ Choose("search", Searches \X Words)
     \/ Choose("table", Tables)      \/ Choose("real", Reals)
     \/ Choose("path", FilePaths)    \/ Choose("launch", Arguments \X SplitPaths)
     \/ Choose("number", Numbers)    \/ Choose("headers", Headers)
     \/ Choose("statement", Statements)
     \/ Choose("error", ErrorLines \X Leads)
     \/ Choose("install", Installs)
  /\ UNCHANGED <<registry, handleVars, exportVars>>

Setting ==
  /\ Is("none") /\ FreshHandles /\ FreshExports /\ set_registered
  /\ UNCHANGED <<case, handleVars, exportVars>>

Session ==
  /\ Is("none") /\ FreshRegistry /\ FreshExports /\ HandlesNext
  /\ UNCHANGED <<case, registry, exportVars>>

Export ==
  /\ Is("none") /\ FreshRegistry /\ FreshHandles /\ ExportsNext
  /\ UNCHANGED <<case, registry, handleVars>>

Next == Pick \/ Setting \/ Session \/ Export
Spec == Init /\ [][Next]_<<case, registry, handleVars, exportVars>>

---------------------------------------------------------------------------
(* The rows of a view: a cell of the sample in each of its columns, as it  *)
(* is stored there.                                                        *)
TypesOf(columns) == [name \in {columns[i].name : i \in DOMAIN columns} |->
                       columns[Position(columns, name)].type]
RowsOf(columns) ==
  LET types == TypesOf(columns)
      rows == [DOMAIN types -> Cells]
  IN {[name \in DOMAIN types |-> Stored(row[name], types[name])] : row \in rows}
Known(v) == \A k \in DOMAIN v.filters : Position(v.columns, v.filters[k].column) # 0

(* The clause, its positional parameters and the regular expressions of    *)
(* the row scan together keep exactly the rows the filters mean: one of    *)
(* the alternatives and all other criteria of every filter, and the global *)
(* filter in a column that does not declare a BLOB; no row when there is   *)
(* no such column (filters.rs:116).                                        *)
FiltersMeanWhatTheySay ==
  Is("view") =>
    LET v == case.input
        built == build_where_clause(v.columns, v.filters, v.global)
        scan == project_regex_columns(v.columns, built.regexes)
        cells(row) == <<IntCell(1)>> \o
          [i \in DOMAIN scan.projected |-> row[scan.projected[i]]]
    IN IF ~Known(v) THEN built.error \/ \A k \in DOMAIN v.filters :
                           Position(v.columns, v.filters[k].column) = 0 =>
                             parse_criteria(v.filters[k].value) = <<>>
       ELSE \A row \in RowsOf(v.columns) :
         Selected(built, row, TypesOf(v.columns)) /\ row_matches_regexes(cells(row), scan.regexes)
           <=> RowMeant(v.filters, v.global, row, TypesOf(v.columns))

(* The two builders, which assemble their clauses separately, select the   *)
(* same rows of a file whose columns hold text or nothing                  *)
(* (pq/filters.rs:1, filters.rs:47).                                       *)
BuildersAgree ==
  Is("view") =>
    LET v == case.input
        types == TypesOf(v.columns)
        rows == {row \in RowsOf(v.columns) : \A n \in DOMAIN row : row[n].class \in {"null", "text"}}
        sqlite == build_where_clause(v.columns, v.filters, v.global)
        duckdb == build_where(v.columns, v.filters, v.global)
    IN Known(v) /\ (\A n \in DOMAIN types : types[n] = {"TEXT"}) =>
         /\ duckdb.error = sqlite.error
         /\ \A row \in rows :
              Selected(duckdb, row, types) <=>
                /\ Selected(sqlite, row, types)
                /\ \A i \in DOMAIN sqlite.regexes :
                     cell_matches_regex(row[v.columns[sqlite.regexes[i].index].name],
                                        sqlite.regexes[i].pattern)

(* A searched text is found literally, whatever wildcards and backslashes  *)
(* it contains (filters.rs:13).                                            *)
SearchIsLiteral ==
  Is("search") =>
    LET v == case.input[1]  text == case.input[2]
    IN Like(text, contains_pattern(v)) <=> ContainsText(text, v)

(* The listed columns stand where SELECT * returns them, and the alias a   *)
(* table's rows are keyed by is the rowid and no column (schema.rs:290,    *)
(* query.rs:73).                                                           *)
ColumnsMatchSelectStar ==
  Is("table") =>
    LET declared == case.input.columns
        listed == table_columns(declared)
    IN /\ Len(listed) = Cardinality(SelectStar(declared))
       /\ \A i \in DOMAIN declared : i \in SelectStar(declared) =>
            listed[Cardinality({j \in SelectStar(declared) : j <= i})] = declared[i]
AliasIsRowid ==
  Is("table") =>
    LET alias == rowid_alias_for(case.input.columns, case.input.withoutRowid)
    IN alias # "none" =>
         /\ ~case.input.withoutRowid
         /\ \A i \in DOMAIN case.input.columns : case.input.columns[i].lower # alias

(* Browse Data shows the rows its filters mean, under the columns they have *)
(* and keyed by their rowid, whichever engine serves the file.             *)
ViewsSound ==
  /\ FiltersMeanWhatTheySay /\ BuildersAgree /\ SearchIsLiteral
  /\ ColumnsMatchSelectStar /\ AliasIsRowid

(* The text of a REAL denotes that very number, and shows that it is not   *)
(* an INTEGER (util.rs:134).                                               *)
RealReadsBack ==
  Is("real") =>
    LET text == render_real(case.input)
    IN case.input.kind = "finite" =>
         /\ "." \in {text[i] : i \in DOMAIN text}
         /\ ReadReal(text) = IF case.input.digits = <<>>
                             THEN [case.input EXCEPT !.negative = FALSE] ELSE case.input

(* The URI handed to SQLite opens the file of that path, and the URL the   *)
(* system delivers for a file is turned into its path, whatever special    *)
(* characters the path contains (util.rs:47, launch.rs:75).                *)
UriNamesFile ==
  Is("path") =>
    LET path == Slashed(case.input)
    IN SqliteOpens(path_to_sqlite_uri(case.input)) =
         IF path[1] = "/" THEN path ELSE <<"/">> \o path
UrlNamesFile ==
  Is("path") => file_url_to_path(SystemUrl(case.input)) = case.input

(* A launch opens a file that its arguments name whenever they name one,   *)
(* also when the path arrives split at its spaces, and the first argument  *)
(* when that is a file by itself (launch.rs:184).                          *)
LaunchNamesFile ==
  Is("launch") =>
    LET args == case.input[1]  files == case.input[2]
        readings == {absolutize_launch_path(<<args[1]>>), absolutize_launch_path(args)}
        chosen == resolve_launch_argument(args, files)
    IN /\ readings \cap files # {} => chosen \in files
       /\ absolutize_launch_path(<<args[1]>>) \in files => chosen = absolutize_launch_path(<<args[1]>>)

(* A path keeps naming its file through every form it is given.            *)
PathsNameFile == UriNamesFile /\ UrlNamesFile /\ LaunchNamesFile

(* An integer that goes into the workbook as a number is that number: it   *)
(* is not rounded to what a double holds (export.rs:66).  Integers of more *)
(* than 64 bits, which only a Parquet or JSON file has, are not covered.   *)
ExportedNumbersExact ==
  Is("number") =>
    (classify_cell(TRUE, case.input) = "number" /\ case.input \in I64
       => ToF64(case.input) = case.input)

(* No two columns of the workbook have one name, though a name made for a  *)
(* duplicate may be that of a later column (export.rs:108).                *)
HeadersDistinct ==
  Is("headers") =>
    LET names == dedupe_headers(case.input)
    IN \A i, j \in DOMAIN names : names[i] = names[j] => i = j

(* The check for ATTACH and DETACH sees the keyword SQLite sees first,     *)
(* behind spaces, comments and empty statements (sql.rs:46).               *)
AttachSeen ==
  Is("statement") => (is_attach_or_detach(case.input) <=> SqliteAttaches(case.input))

(* An error is underlined where DuckDB found it, counted in the UTF-16     *)
(* units of the text in the editor; the exception is a long line whose     *)
(* excerpt in the message also occurs further left                         *)
(* (pq/sql.rs:66, types.rs:246).                                           *)
ErrorMarkedInPlace ==
  Is("error") =>
    LET lines == case.input[1]  lead == case.input[2]
    IN \A l \in DOMAIN lines : \A k \in DOMAIN lines[l] :
         \A start \in {s \in 1 .. k : /\ k < s + WindowWidth
                                      /\ Len(lines[l]) <= WindowWidth => s = 1} :
           LET message == Message(lines, l, k, start)
               offset == problem(lines, lead, duckdb_error_offset(lines, message))
               repeated == \E i \in 1 .. start - 1 :
                 IsPrefix(message.excerpt, After(lines[l], i - 1))
           IN repeated \/ offset = lead + Units(Upto(lines, l, k))

(* A conversion between the engines, the page and the workbook keeps what it *)
(* converts.                                                               *)
TextsRight ==
  /\ RealReadsBack /\ ExportedNumbersExact /\ HeadersDistinct
  /\ AttachSeen /\ ErrorMarkedInPlace

(* A copy of dblitz offers to update itself only when an update replaces   *)
(* this copy: on Windows the one the installer put where it runs, on Linux *)
(* an AppImage (updates.rs:64).                                            *)
UpdateReplacesThisCopy ==
  Is("install") =>
    LET in == case.input
        answer == UpdateStatus(in.previous, in.current, install_provenance(in))
        inRegistry == \E r \in DOMAIN in.roots :
          /\ in.roots[r].kind = "sz"
          /\ \E path \in DOMAIN in.canonical :
               in.canonical[path] = in.dir /\ path \in Range(in.roots[r].text)
    IN answer.self_update_supported =>
         CASE in.platform = "windows" -> in.dir # Missing /\ inRegistry
           [] in.platform = "linux"   -> in.appimage = "file"
           [] OTHER                   -> TRUE

(* An installation knows itself: its updates replace it, and a file type it *)
(* is listed for opens with it.                                            *)
InstallationSound == UpdateReplacesThisCopy /\ ListedOpens
=============================================================================
