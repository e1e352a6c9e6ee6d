---------------------------- MODULE MCAlgorithms ----------------------------
(* Small inputs of every algorithm.                                        *)
EXTENDS Algorithms

UpTo(chars, n) == UNION {[1 .. k -> chars] : k \in 0 .. n}
NonEmpty(chars, n) == UNION {[1 .. k -> chars] : k \in 1 .. n}

MCAlphabet == <<"#", "$", "%", ".", "0", "1", "2", "<", "=", ">", "^", "a", "b">>
\* Filters: a column of each affinity beside one of text or BLOBs.
Column(name, type) == [name |-> name, type |-> type, hidden |-> 0, lower |-> name]
MCColumns == {<<Column("c", tc), Column("d", td)>> :
  tc \in {{"INT"}, {"REAL"}, {"TEXT"}, {}, {"BLOB"}}, td \in {{"TEXT"}, {"BLOB"}}}
MCCells == {NullCell, BlobCell, IntCell(1), RealCell(2), TextCell(<<>>), TextCell(<<"a">>),
            TextCell(<<"1">>)}
Filter(column, value, regex) == [column |-> column, value |-> value, regex |-> regex]
Typed == {<<>>, <<"a">>, <<"1">>, <<"<", ">">>, <<"<", ">", "1">>, <<">", "1">>, <<"<", "=", "1">>,
          <<"=", "1">>, <<"=", "a">>}
Seconds == {<<>>, <<Filter("d", <<<<"=", "a">>>>, FALSE)>>, <<Filter("d", <<<<"^", "$">>>>, TRUE)>>}
Firsts == {Filter("c", value, FALSE) : value \in UpTo(Typed, 2)}
            \cup {Filter("c", <<<<"1">>>>, TRUE), Filter("x", <<<<"a">>>>, FALSE)}
MCViews ==
  {[columns |-> cs, filters |-> <<first>> \o second, global |-> g] :
     cs \in MCColumns, first \in Firsts, second \in Seconds, g \in {<<>>, <<"1">>}}
  \cup {[columns |-> cs, filters |-> fs, global |-> <<>>] : cs \in MCColumns, fs \in
          {<<Filter("d", <<<<"a">>>>, TRUE), Filter("c", <<<<"1">>>>, TRUE), Filter("d", <<<<"^", "$">>>>, TRUE)>>,
           <<Filter("d", <<<<"a">>>>, TRUE), Filter("d", <<<<"a">>>>, TRUE), Filter("c", <<<<"^", "$">>>>, TRUE)>>}}
MCSearches == NonEmpty({"%", "_", "\\", "a"}, 2)
MCWords == UpTo({"%", "_", "\\", "a"}, 3)
MCTables ==
  {[withoutRowid |-> w, columns |-> cs] : w \in BOOLEAN, cs \in UNION {[1 .. n ->
     [name : {"x", "rowid", "oid"}, lower : {""}, type : {{}}, hidden : 0 .. 2]] : n \in 1 .. 2}}
Lowered == {[t EXCEPT !.columns = [i \in DOMAIN t.columns |->
              [t.columns[i] EXCEPT !.lower = t.columns[i].name]]] : t \in MCTables}

MCExtensions == <<"csv", "json">>

\* Conversions.
DigitSeqs == {<<>>} \cup {s \in NonEmpty({0, 1, 9}, 3) : s[1] # 0 /\ s[Len(s)] # 0}
MCReals == {[kind |-> "finite", negative |-> n, digits |-> d, exponent |-> IF d = <<>> THEN 0 ELSE e] :
              n \in BOOLEAN, d \in DigitSeqs, e \in (-12 .. 18) \cup {-308, -100, 99, 100, 308}}
           \cup {[kind |-> k, negative |-> FALSE, digits |-> <<>>, exponent |-> 0] : k \in {"nan", "inf"}}
MCFilePaths == NonEmpty({"%", "2", "0", "F", " ", "?", "#", "/", "\\"}, 3)
MCArguments == NonEmpty({"a", "b"}, 2) \cup {<<"/">>, <<"/", "b">>}
MCSplitPaths == SUBSET {<<"/", "cwd", "a">>, <<"/", "cwd", "a", "b">>, <<"/", "b">>}
MCNumbers == -40 .. 40
MCHeaders == UpTo({<<"a">>, <<"a", 2>>, <<"b">>}, 4)
MCStatements == UpTo({" ", "\n", ";", "--", "/*", "*/", "attach", "x"}, 4)
Char(c, bytes, units) == [char |-> c, bytes |-> bytes, units |-> units]
MCErrorLines == {<<first, second>> : first \in {<<>>, <<Char("e", 2, 1)>>},
                   second \in NonEmpty({Char("a", 1, 1), Char("e", 2, 1), Char("g", 4, 2)}, 4)}
Sz(text) == [kind |-> "sz", text |-> text]
Quote == "\""
MCInstalls == [platform : {"windows", "linux", "macos"}, appimage : {"missing", "", "file"},
               dir : {"here", "missing"}, canonical : {[p1 |-> "here", p2 |-> "there"]},
               roots : [{"HKCU", "HKLM"} -> {Sz(<<Quote, "p1", Quote>>), Sz(<<"p1">>), Sz(<<"p2">>),
                          Sz(<<"gone">>), Sz(<<Quote, Quote>>), [kind |-> "dword", text |-> <<"p1">>],
                          [kind |-> "absent", text |-> <<>>]}],
               previous : {"missing", "v1"}, current : {"v1", "v2"}]
=============================================================================
