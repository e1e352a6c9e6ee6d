-------------------------- MODULE AlgorithmProofs ---------------------------
(***************************************************************************)
(* What holds of Algorithms: of the filters of any view, of any text that  *)
(* is converted, of any number of extensions and copies of dblitz, of any  *)
(* number of threads on a DuckDB session, and of any number of exports     *)
(* with any clock and retention.                                           *)
(***************************************************************************)
EXTENDS Algorithms, TextProofs

---------------------------------------------------------------------------
(* The registry.                                                           *)

Entries == [name : {Missing, "dblitz"}, icon : Executables \cup {Missing},
            command : Executables \cup {Missing}, listed : BOOLEAN]

(* An entry lists dblitz only when all it needs is there.                  *)
Complete(entry) == entry.listed => Missing \notin {entry.name, entry.icon, entry.command}

RegistryInv ==
  /\ registry \in [Extensions -> Entries]
  /\ \A e \in Extensions : Complete(registry[e])

(* The writes of one extension that went through are the first of the four. *)
LEMMA WritesInOrder ==
  ASSUME NEW entry \in Entries, Complete(entry), NEW exe \in Executables,
         NEW done \in SUBSET (1 .. 4), 4 \in done => {1, 2, 3} \subseteq done
  PROVE  Written(entry, exe, done) \in Entries /\ Complete(Written(entry, exe, done))
<1> DEFINE after == Written(entry, exe, done)
<1>1. DOMAIN entry = {"name", "icon", "command", "listed"}
  BY DEF Entries
<1>2. \A field \in DOMAIN entry :
        after[field] = IF \E k \in done : WriteOrder[k] = field THEN set_sz(field, exe) ELSE entry[field]
  BY DEF Written
<1>3. after \in Entries
  <2>1. after.name \in {Missing, "dblitz"} /\ after.listed \in BOOLEAN
    BY <1>1, <1>2 DEF Entries, set_sz
  <2>2. after.icon \in Executables \cup {Missing} /\ after.command \in Executables \cup {Missing}
    BY <1>1, <1>2 DEF Entries, set_sz
  <2> QED BY <1>1, <2>1, <2>2 DEF Entries, Written
<1> HIDE DEF after
<1>4. Complete(after)
  <2>1. CASE 4 \in done
    <3>1. 1 \in done /\ 2 \in done /\ 3 \in done
      BY <2>1
    <3>2. after.name = "dblitz" /\ after.icon = exe /\ after.command = exe
      BY <1>1, <1>2, <3>1 DEF WriteOrder, set_sz
    <3> QED BY <3>2, InstallationAssumption DEF Complete
  <2>2. CASE 4 \notin done
    <3>1. after.listed = entry.listed
      BY <1>1, <1>2, <2>2 DEF WriteOrder
    <3>2. after.name \in {entry.name, "dblitz"} /\ after.icon \in {entry.icon, exe}
          /\ after.command \in {entry.command, exe}
      BY <1>1, <1>2 DEF set_sz
    <3> QED BY <3>1, <3>2, InstallationAssumption DEF Complete
  <2> QED BY <2>1, <2>2
<1> QED BY <1>3, <1>4 DEF after

LEMMA ExtensionHasPlace ==
  ASSUME NEW e \in Extensions
  PROVE  (CHOOSE k \in DOMAIN EXTENSIONS : EXTENSIONS[k] = e) \in Int
<1>1. DOMAIN EXTENSIONS = 1 .. Len(EXTENSIONS) /\ Len(EXTENSIONS) \in Nat
  BY InstallationAssumption
<1>2. \E k \in DOMAIN EXTENSIONS : EXTENSIONS[k] = e
  BY DEF Extensions
<1> QED BY <1>1, <1>2

LEMMA RegisterKeeps ==
  ASSUME RegistryInv, NEW exe \in Executables, NEW n \in Int
  PROVE  /\ register_in(registry, exe, n) \in [Extensions -> Entries]
         /\ \A e \in Extensions : Complete(register_in(registry, exe, n)[e])
<1>1. ASSUME NEW e \in Extensions
      PROVE  register_in(registry, exe, n)[e] \in Entries /\ Complete(register_in(registry, exe, n)[e])
  <2> DEFINE i == CHOOSE k \in DOMAIN EXTENSIONS : EXTENSIONS[k] = e
             done == {k \in 1 .. 4 : 4 * (i - 1) + k <= n}
  <2>1. i \in Int
    BY ExtensionHasPlace
  <2>2. register_in(registry, exe, n)[e] = Written(registry[e], exe, done)
    BY DEF register_in
  <2>3. registry[e] \in Entries /\ Complete(registry[e])
    BY DEF RegistryInv
  <2> HIDE DEF i
  <2>4. done \in SUBSET (1 .. 4) /\ (4 \in done => {1, 2, 3} \subseteq done)
    BY <2>1
  <2> HIDE DEF done
  <2> QED BY <2>2, <2>3, <2>4, WritesInOrder
<1> QED BY <1>1 DEF register_in

(* What a removal leaves of an entry is not listed.                        *)
LEMMA LeftUnlisted ==
  ASSUME NEW entry \in Entries, NEW left
  PROVE  Unlisted(entry, left) \in Entries /\ Complete(Unlisted(entry, left))
<1> DEFINE after == Unlisted(entry, left)
<1> DEFINE kept == [value \in ProgIDValues |-> IF value \in left THEN entry[value] ELSE Missing]
<1>1. kept.name \in {entry.name, Missing} /\ kept.icon \in {entry.icon, Missing}
      /\ kept.command \in {entry.command, Missing}
  BY DEF ProgIDValues
<1>2. after = [name |-> kept.name, icon |-> kept.icon, command |-> kept.command, listed |-> FALSE]
  BY DEF Unlisted
<1> HIDE DEF after, kept
<1>3. after \in Entries
  BY <1>1, <1>2 DEF Entries
<1>4. Complete(after)
  BY <1>2 DEF Complete
<1> QED BY <1>3, <1>4 DEF after

LEMMA UnregisterKeeps ==
  ASSUME RegistryInv, NEW n \in Int, NEW left
  PROVE  /\ unregister_in(registry, n, left) \in [Extensions -> Entries]
         /\ \A e \in Extensions : Complete(unregister_in(registry, n, left)[e])
<1>1. ASSUME NEW e \in Extensions
      PROVE  unregister_in(registry, n, left)[e] \in Entries /\ Complete(unregister_in(registry, n, left)[e])
  <2>1. unregister_in(registry, n, left)[e] \in {Absent3, Unlisted(registry[e], left), registry[e]}
    <3> DEFINE i == CHOOSE k \in DOMAIN EXTENSIONS : EXTENSIONS[k] = e
    <3>1. i \in Int
      BY ExtensionHasPlace
    <3> HIDE DEF i
    <3>2. unregister_in(registry, n, left)[e] =
            CASE n >= 2 * i    -> Absent3
              [] n = 2 * i - 1 -> Unlisted(registry[e], left)
              [] OTHER         -> registry[e]
      BY DEF unregister_in, i
    <3>3. n >= 2 * i => n # 2 * i - 1
      BY <3>1
    <3> QED BY <3>2, <3>3
  <2>2. registry[e] \in Entries /\ Complete(registry[e])
    BY DEF RegistryInv
  <2>3. Absent3 \in Entries /\ Complete(Absent3)
    BY DEF Absent3, Entries, Complete
  <2>4. Unlisted(registry[e], left) \in Entries /\ Complete(Unlisted(registry[e], left))
    BY <2>2, LeftUnlisted
  <2> QED BY <2>1, <2>2, <2>3, <2>4
<1> QED BY <1>1 DEF unregister_in

LEMMA RegistryStarts == FreshRegistry => RegistryInv
  BY DEF FreshRegistry, RegistryInv, Absent3, Entries, Complete

LEMMA RegistryKeeps ==
  ASSUME RegistryInv, set_registered
  PROVE  RegistryInv'
<1>1. CASE \E exe \in Executables, n \in 0 .. 4 * Len(EXTENSIONS) :
             registry' = register_in(registry, exe, n)
  BY <1>1, RegisterKeeps DEF RegistryInv
<1>2. CASE \E n \in 0 .. 2 * Len(EXTENSIONS), left \in SUBSET ProgIDValues :
             registry' = unregister_in(registry, n, left)
  BY <1>2, UnregisterKeeps DEF RegistryInv
<1> QED BY <1>1, <1>2 DEF set_registered

---------------------------------------------------------------------------
(* The installation.                                                       *)

(* What is between the quotes begins with a token of the text.             *)
LEMMA UnquotedBegins ==
  ASSUME NEW S, NEW text \in Seq(S), Unquoted(text) # <<>>
  PROVE  Unquoted(text)[1] \in {text[i] : i \in DOMAIN text}
<1> DEFINE places == {i \in DOMAIN text : text[i] # "\""}
           inside == Ascending(places)
<1>1. places \in SUBSET Nat /\ IsFiniteSet(places) /\ places \subseteq DOMAIN text
  <2>1. DOMAIN text = 1 .. Len(text) /\ Len(text) \in Nat
    OBVIOUS
  <2>2. IsFiniteSet(DOMAIN text)
    BY <2>1, FS_Interval
  <2>3. places \subseteq DOMAIN text
    OBVIOUS
  <2> HIDE DEF places
  <2>4. IsFiniteSet(places)
    BY <2>2, <2>3, FS_Subset
  <2> QED BY <2>1, <2>3, <2>4
<1>2. Lists(inside, places)
  BY <1>1, AscendingLists
<1>3. inside # <<>> /\ Unquoted(text) = SubSeq(text, inside[1], inside[Len(inside)])
  BY DEF Unquoted
<1> HIDE DEF inside, places
<1>4. inside \in Seq(places) /\ DOMAIN inside = 1 .. Len(inside)
  BY <1>1, <1>2, ListIsSeq
<1>5. Len(inside) \in Nat \ {0}
  BY <1>3, <1>4
<1>6. inside[1] \in places /\ inside[Len(inside)] \in places
  BY <1>4, <1>5
<1>7. PICK m, n \in DOMAIN text : Unquoted(text) = SubSeq(text, m, n)
  BY <1>1, <1>3, <1>6
<1>8. m \in Nat /\ n \in Nat
  BY <1>7
<1>9. SubSeq(text, m, n) # <<>> => SubSeq(text, m, n)[1] = text[m]
  BY <1>7, <1>8
<1> QED BY <1>7, <1>9

(* A copy that may update itself is the installed one, or an AppImage.     *)
LEMMA UpdatesReplace ==
  ASSUME NEW in \in Installs,
         UpdateStatus(in.previous, in.current, install_provenance(in)).self_update_supported
  PROVE  CASE in.platform = "windows" ->
                in.dir # Missing /\ \E r \in DOMAIN in.roots :
                  /\ in.roots[r].kind = "sz"
                  /\ \E path \in DOMAIN in.canonical :
                       in.canonical[path] = in.dir /\ path \in Range(in.roots[r].text)
           [] in.platform = "linux" -> in.appimage = "file"
           [] OTHER -> TRUE
<1>1. self_update_supported(install_provenance(in))
  BY DEF UpdateStatus
<1>2. CASE in.platform = "windows"
  <2>1. in.dir # Missing /\ Registered(in.dir, in.roots, in.canonical)
    BY <1>1, <1>2 DEF self_update_supported, install_provenance, windows_install_provenance
  <2>2. PICK r \in DOMAIN in.roots :
          LET path == Unquoted(read_reg_sz(in.roots[r]))
          IN path # <<>> /\ path[1] \in DOMAIN in.canonical /\ in.canonical[path[1]] = in.dir
    BY <2>1 DEF Registered
  <2>3. in.roots[r].kind = "sz"
    <3>1. Ascending({i \in DOMAIN <<>> : <<>>[i] # "\""}) = <<>>
      <4>1. {i \in DOMAIN <<>> : <<>>[i] # "\""} = {}
        OBVIOUS
      <4>2. Lists(Ascending({}), {})
        BY FS_EmptySet, AscendingLists
      <4> QED BY <4>1, <4>2, FS_EmptySet DEF Lists
    <3>2. Unquoted(<<>>) = <<>>
      BY <3>1 DEF Unquoted
    <3> QED BY <2>2, <3>2 DEF read_reg_sz
  <2>4. in.roots[r].text \in Seq(Range(in.roots[r].text))
    BY InstallsAssumption
  <2>5. Unquoted(in.roots[r].text)[1] \in Range(in.roots[r].text)
    BY <2>2, <2>3, <2>4, UnquotedBegins DEF read_reg_sz, Range
  <2> QED BY <1>2, <2>1, <2>2, <2>3, <2>5 DEF read_reg_sz
<1>3. CASE in.platform = "linux"
  BY <1>1, <1>3, InstallsAssumption DEF self_update_supported, install_provenance, linux_provenance
<1> QED BY <1>2, <1>3

(* The input is one of the constant's.                                     *)
CaseInv ==
  /\ Is("view") => case.input \in Views
  /\ Is("search") => case.input \in Searches \X Words
  /\ Is("table") => case.input \in Tables
  /\ Is("install") => case.input \in Installs
  /\ Is("path") => case.input \in FilePaths
  /\ Is("launch") => case.input \in Arguments \X SplitPaths
  /\ Is("real") => case.input \in Reals
  /\ Is("number") => case.input \in Numbers
  /\ Is("headers") => case.input \in Headers
  /\ Is("statement") => case.input \in Statements
  /\ Is("error") => case.input \in ErrorLines \X Leads

(* The input is chosen once, from its set.                                 *)
LEMMA CaseKeeps == CaseInv /\ [Next]_<<case, registry, handleVars, exportVars>> => CaseInv'
<1> SUFFICES ASSUME CaseInv, Next \/ UNCHANGED case PROVE CaseInv'
  OBVIOUS
<1>1. CASE Pick
  BY <1>1 DEF Pick, Choose, CaseInv, Is, Case
<1>2. CASE UNCHANGED case
  BY <1>2 DEF CaseInv, Is
<1> QED BY <1>1, <1>2 DEF Next, Setting, Session, Export

(* Whatever extensions there are, and however often the setting was turned *)
(* on and off and failed half way, an extension that lists dblitz starts a *)
(* copy of it; and whatever the registry holds, an update is offered only  *)
(* to a copy it replaces.                                                  *)
THEOREM InstallationAlwaysSound == Spec => []InstallationSound
<1>1. Init => RegistryInv /\ CaseInv
  BY RegistryStarts DEF Init, CaseInv, Is, NoCase, Case
<1>2. RegistryInv /\ [Next]_<<case, registry, handleVars, exportVars>> => RegistryInv'
  BY RegistryKeeps DEF Next, Pick, Setting, Session, Export, RegistryInv
<1>3. RegistryInv => ListedOpens
  BY InstallationAssumption DEF RegistryInv, ListedOpens, Complete, is_registered_in
<1>4. CaseInv => UpdateReplacesThisCopy
  BY UpdatesReplace DEF CaseInv, UpdateReplacesThisCopy
<1>5. RegistryInv /\ CaseInv => InstallationSound
  BY <1>3, <1>4 DEF InstallationSound
<1> QED BY <1>1, <1>2, <1>5, CaseKeeps, PTL DEF Spec

---------------------------------------------------------------------------
(* Paths.                                                                  *)

(* Whatever characters a path has and however long it is: the URI handed to *)
(* SQLite and the URL the system delivers name its file, and so do the     *)
(* arguments of a launch, whatever files there are.                        *)
THEOREM PathsAlwaysNameFile == Spec => []PathsNameFile
<1>1. Init => CaseInv
  BY DEF Init, CaseInv, Is, NoCase, Case
<1>2. CaseInv => UriNamesFile /\ UrlNamesFile
  <2> SUFFICES ASSUME CaseInv, Is("path") PROVE UriNamesFile /\ UrlNamesFile
    BY DEF UriNamesFile, UrlNamesFile
  <2> DEFINE p == case.input  X == Range(p) \ {"NUL", "malformed"}
  <2>1. p # <<>> /\ p \in Seq(X) /\ "NUL" \notin X /\ "malformed" \notin X
    BY PathsAssumption DEF CaseInv
  <2> HIDE DEF X, p
  <2>2. SqliteOpens(path_to_sqlite_uri(p)) =
          IF Slashed(p)[1] = "/" THEN Slashed(p) ELSE <<"/">> \o Slashed(p)
    BY <2>1, UriOpens
  <2>3. file_url_to_path(SystemUrl(p)) = p
    BY <2>1, UrlOpens
  <2> QED BY <2>2, <2>3 DEF UriNamesFile, UrlNamesFile, p
<1>3. CaseInv => LaunchNamesFile
  <2> SUFFICES ASSUME CaseInv, Is("launch") PROVE LaunchNamesFile
    BY DEF LaunchNamesFile
  <2>1. case.input[1] # <<>> /\ case.input[1] \in Seq(Range(case.input[1]))
    BY PathsAssumption DEF CaseInv
  <2> QED BY <2>1, LaunchOpens DEF LaunchNamesFile
<1>4. CaseInv => PathsNameFile
  BY <1>2, <1>3 DEF PathsNameFile
<1> QED BY <1>1, <1>4, CaseKeeps, PTL DEF Spec

---------------------------------------------------------------------------
(* Conversions.                                                            *)

(* Whatever is converted, and however long it is: a REAL is read back from *)
(* its text, an integer that is exported as a number is that number, the   *)
(* headers of a workbook differ, an ATTACH is seen where SQLite sees it,   *)
(* and an error is marked where DuckDB found it.                           *)
THEOREM TextsAlwaysRight == Spec => []TextsRight
<1>1. Init => CaseInv
  BY DEF Init, CaseInv, Is, NoCase, Case
<1>2. CaseInv => RealReadsBack
  <2> SUFFICES ASSUME CaseInv, Is("real"), case.input.kind = "finite" PROVE RealReadsBack
    BY DEF RealReadsBack
  <2> DEFINE v == case.input
  <2>1. v \in Reals /\ v.kind = "finite"
    BY DEF CaseInv
  <2> HIDE DEF v
  <2>2. RealShape(v)
    <3>1. \A e \in -324 .. 308 : e \in -999 .. 999
      OBVIOUS
    <3> QED BY <2>1, <3>1, RealsAssumption DEF RealShape
  <2>3. /\ "." \in {render_real(v)[i] : i \in DOMAIN render_real(v)}
        /\ ReadReal(render_real(v)) = IF v.digits = <<>> THEN [v EXCEPT !.negative = FALSE] ELSE v
    BY <2>2, RealReads
  <2> QED BY <2>3, Zenon DEF RealReadsBack, v
<1>3. CaseInv => ExportedNumbersExact
  <2> SUFFICES ASSUME CaseInv, Is("number") PROVE ExportedNumbersExact
    BY DEF ExportedNumbersExact
  <2>1. case.input \in Int /\ I64Bits \in Nat /\ F64Bits \in Nat
    BY NumbersAssumption DEF CaseInv
  <2> QED BY <2>1, NumberExact DEF ExportedNumbersExact
<1>4. CaseInv => HeadersDistinct
  <2> SUFFICES ASSUME CaseInv, Is("headers") PROVE HeadersDistinct
    BY DEF HeadersDistinct
  <2> DEFINE headers == case.input
             C == UNION {{h[i] : i \in 1 .. Len(h)} : h \in Range(headers)}
  <2>1. headers \in Headers
    BY DEF CaseInv
  <2> HIDE DEF headers
  <2>2. /\ headers \in Seq(Range(headers))
        /\ \A h \in Range(headers) : Len(h) \in Nat /\ h = [i \in 1 .. Len(h) |-> h[i]]
    BY <2>1, HeadersAssumption
  <2>3. ASSUME NEW h \in Range(headers) PROVE h \in Seq(C)
    <3>1. \A i \in 1 .. Len(h) : h[i] \in C
      OBVIOUS
    <3> HIDE DEF C
    <3>2. h \in [1 .. Len(h) -> C]
      BY <2>2, <3>1
    <3> QED BY <2>2, <3>2
  <2> HIDE DEF C
  <2>4. headers \in Seq(Seq(C))
    <3>1. Range(headers) \subseteq Seq(C)
      BY <2>3
    <3> QED BY <2>2, <3>1, SeqMonotonic
  <2> QED BY <2>4, NamesDiffer DEF HeadersDistinct, headers
<1>5. CaseInv => AttachSeen
  <2> SUFFICES ASSUME CaseInv, Is("statement") PROVE AttachSeen
    BY DEF AttachSeen
  <2>1. case.input \in Seq(Range(case.input))
    BY StatementsAssumption DEF CaseInv
  <2> QED BY <2>1, AttachIsSeen DEF AttachSeen
<1>6. CaseInv => ErrorMarkedInPlace
  <2> SUFFICES ASSUME CaseInv, Is("error") PROVE ErrorMarkedInPlace
    BY DEF ErrorMarkedInPlace
  <2> DEFINE lines == case.input[1]  lead == case.input[2]
             C == UNION {Range(line) : line \in Range(lines)}
  <2>1. lines \in ErrorLines /\ lead \in Leads
    BY DEF CaseInv
  <2> HIDE DEF lines, lead
  <2>2. /\ lead \in Nat /\ WindowWidth \in Nat /\ lines \in Seq(Range(lines))
        /\ \A line \in Range(lines) :
             line \in Seq(Range(line)) /\ \A c \in Range(line) : Character(c)
    BY <2>1, ErrorsAssumption DEF Character
  <2>3. \A c \in C : Character(c)
    BY <2>2
  <2>4. ASSUME NEW line \in Range(lines) PROVE line \in Seq(C)
    <3>1. Range(line) \subseteq C
      OBVIOUS
    <3> HIDE DEF C
    <3> QED BY <2>2, <3>1, SeqMonotonic
  <2> HIDE DEF C
  <2>5. lines \in Seq(Seq(C))
    <3>1. Range(lines) \subseteq Seq(C)
      BY <2>4
    <3> QED BY <2>2, <3>1, SeqMonotonic
  <2>6. DOMAIN lines = 1 .. Len(lines)
        /\ \A l \in DOMAIN lines : DOMAIN lines[l] = 1 .. Len(lines[l])
    BY <2>5, LenProperties, ElementOfSeq
  <2>7. ASSUME NEW l \in DOMAIN lines, NEW k \in DOMAIN lines[l],
               NEW start \in {s \in 1 .. k : k < s + WindowWidth /\ (Len(lines[l]) <= WindowWidth => s = 1)}
        PROVE  LET message == Message(lines, l, k, start)
                   offset == problem(lines, lead, duckdb_error_offset(lines, message))
                   repeated == \E i \in 1 .. start - 1 : IsPrefix(message.excerpt, After(lines[l], i - 1))
               IN repeated \/ offset = lead + Units(Upto(lines, l, k))
    <3>1. l \in 1 .. Len(lines) /\ k \in 1 .. Len(lines[l])
      BY <2>6
    <3>2. start \in 1 .. k /\ k < start + WindowWidth
      OBVIOUS
    <3> QED BY <2>2, <2>3, <2>5, <3>1, <3>2, ErrorMarked
  <2> QED BY <2>7, Zenon DEF ErrorMarkedInPlace, lines, lead
<1>7. CaseInv => TextsRight
  BY <1>2, <1>3, <1>4, <1>5, <1>6 DEF TextsRight
<1> QED BY <1>1, <1>7, CaseKeeps, PTL DEF Spec

---------------------------------------------------------------------------
(* The clause of a view: tests beside what is bound to them.               *)

(* A test and what is bound to its placeholder.                            *)
Pairs(T, U) == [test : T, args : Seq(U)]
TestsOf(pairs) == [i \in DOMAIN pairs |-> pairs[i].test]
ArgsOf(pairs) == FlattenSeq([i \in DOMAIN pairs |-> pairs[i].args])

(* The tests of pairs, and their arguments one after another.              *)
LEMMA PairsApart ==
  ASSUME NEW T, NEW U, NEW pairs \in Seq(Pairs(T, U))
  PROVE  /\ TestsOf(pairs) = Mapped(pairs, [x \in Pairs(T, U) |-> x.test])
         /\ ArgsOf(pairs) = FlattenSeq(Mapped(pairs, [x \in Pairs(T, U) |-> x.args]))
         /\ TestsOf(pairs) \in Seq(T) /\ ArgsOf(pairs) \in Seq(U)
         /\ Mapped(pairs, [x \in Pairs(T, U) |-> x.args]) \in Seq(Seq(U))
<1> DEFINE g == [x \in Pairs(T, U) |-> x.test]  h == [x \in Pairs(T, U) |-> x.args]
<1>1. g \in [Pairs(T, U) -> T] /\ h \in [Pairs(T, U) -> Seq(U)]
  BY DEF Pairs
<1>2. \A i \in DOMAIN pairs : pairs[i] \in Pairs(T, U)
  BY LenProperties, ElementOfSeq
<1>3. TestsOf(pairs) = Mapped(pairs, g) /\ [i \in DOMAIN pairs |-> pairs[i].args] = Mapped(pairs, h)
  BY <1>2 DEF Mapped, TestsOf
<1> HIDE DEF g, h
<1>4. Mapped(pairs, g) \in Seq(T) /\ Mapped(pairs, h) \in Seq(Seq(U))
  BY <1>1, MappedTyped
<1>5. FlattenSeq(Mapped(pairs, h)) \in Seq(U)
  BY <1>4, FlattenType
<1> QED BY <1>3, <1>4, <1>5 DEF ArgsOf, g, h

(* Tests and arguments of a concatenation.                                 *)
LEMMA PairsCat ==
  ASSUME NEW T, NEW U, NEW p \in Seq(Pairs(T, U)), NEW q \in Seq(Pairs(T, U))
  PROVE  TestsOf(p \o q) = TestsOf(p) \o TestsOf(q) /\ ArgsOf(p \o q) = ArgsOf(p) \o ArgsOf(q)
<1> DEFINE g == [x \in Pairs(T, U) |-> x.test]  h == [x \in Pairs(T, U) |-> x.args]
<1>0. p \o q \in Seq(Pairs(T, U))
  BY ConcatProperties
<1>1. \A r \in Seq(Pairs(T, U)) :
        TestsOf(r) = Mapped(r, g) /\ ArgsOf(r) = FlattenSeq(Mapped(r, h)) /\ Mapped(r, h) \in Seq(Seq(U))
  BY PairsApart
<1>2. g \in [Pairs(T, U) -> T] /\ h \in [Pairs(T, U) -> Seq(U)]
  BY DEF Pairs
<1> HIDE DEF g, h
<1>3. Mapped(p \o q, g) = Mapped(p, g) \o Mapped(q, g) /\ Mapped(p \o q, h) = Mapped(p, h) \o Mapped(q, h)
  BY <1>2, MappedCat
<1>4. FlattenSeq(Mapped(p, h) \o Mapped(q, h)) = FlattenSeq(Mapped(p, h)) \o FlattenSeq(Mapped(q, h))
  BY <1>1, FlattenCat
<1> QED BY <1>0, <1>1, <1>3, <1>4

(* The tests and the arguments of every part of a clause.                  *)
EachTests(parts) == [k \in DOMAIN parts |-> TestsOf(parts[k])]
EachArgs(parts) == [k \in DOMAIN parts |-> ArgsOf(parts[k])]

(* Tests and arguments of flattened parts are flattened themselves.        *)
LEMMA PairsFlat ==
  ASSUME NEW T, NEW U, NEW parts \in Seq(Seq(Pairs(T, U)))
  PROVE  /\ TestsOf(FlattenSeq(parts)) = FlattenSeq(EachTests(parts))
         /\ ArgsOf(FlattenSeq(parts)) = FlattenSeq(EachArgs(parts))
<1> DEFINE P == Pairs(T, U)
           g == [p \in Seq(P) |-> TestsOf(p)]
           h == [p \in Seq(P) |-> ArgsOf(p)]
<1>1. g \in [Seq(P) -> Seq(T)] /\ h \in [Seq(P) -> Seq(U)]
  BY PairsApart
<1>2. g[<<>>] = <<>> /\ h[<<>>] = <<>>
  <2>1. TestsOf(<<>>) = <<>> /\ ArgsOf(<<>>) = <<>>
    BY FlattenEmpty DEF TestsOf, ArgsOf
  <2> QED BY <2>1, EmptySeq
<1>3. \A p, q \in Seq(P) : g[p \o q] = g[p] \o g[q] /\ h[p \o q] = h[p] \o h[q]
  <2>1. \A p, q \in Seq(P) : p \o q \in Seq(P)
    OBVIOUS
  <2> QED BY <2>1, PairsCat
<1>4. Mapped(parts, g) = EachTests(parts) /\ Mapped(parts, h) = EachArgs(parts)
  <2>1. \A k \in DOMAIN parts : parts[k] \in Seq(P)
    BY LenProperties, ElementOfSeq
  <2> QED BY <2>1 DEF Mapped, EachTests, EachArgs
<1>5. FlattenSeq(parts) \in Seq(P)
  BY FlattenType
<1>6. g[FlattenSeq(parts)] = TestsOf(FlattenSeq(parts)) /\ h[FlattenSeq(parts)] = ArgsOf(FlattenSeq(parts))
  BY <1>5
<1> HIDE DEF P, g, h
<1>7. parts \in Seq(Seq(P))
  BY DEF P
<1>8. g[FlattenSeq(parts)] = FlattenSeq(Mapped(parts, g)) /\ h[FlattenSeq(parts)] = FlattenSeq(Mapped(parts, h))
  <2>1. \A p, q \in Seq(P) : g[p \o q] = g[p] \o g[q]
    BY <1>3
  <2>2. \A p, q \in Seq(P) : h[p \o q] = h[p] \o h[q]
    BY <1>3
  <2>3. g[FlattenSeq(parts)] = FlattenSeq(Mapped(parts, g))
    BY <1>1, <1>2, <1>7, <2>1, FlatMade
  <2>4. h[FlattenSeq(parts)] = FlattenSeq(Mapped(parts, h))
    BY <1>1, <1>2, <1>7, <2>2, FlatMade
  <2> QED BY <2>3, <2>4
<1> QED BY <1>4, <1>6, <1>8

(* The parameter a test takes is its own: as many come before it as tests  *)
(* with a placeholder.                                                     *)
Fits(x) == IF HasPlaceholder(x.test.op) THEN \E u : x.args = <<u>> ELSE x.args = <<>>
Taken(pairs, i) == {j \in 1 .. i : HasPlaceholder(pairs[j].test.op)}

(* With as many parameters taken as tests had placeholders, a test finds   *)
(* its own.                                                                *)
LEMMA ParamTaken ==
  ASSUME NEW T, NEW U, NEW pairs \in Seq(Pairs(T, U)), \A i \in DOMAIN pairs : Fits(pairs[i])
  PROVE  \A i \in DOMAIN pairs : HasPlaceholder(pairs[i].test.op) =>
           ArgsOf(pairs)[Cardinality(Taken(pairs, i))] = pairs[i].args[1]
<1> DEFINE P == Pairs(T, U)
           Right(p) == /\ Len(ArgsOf(p)) = Cardinality(Taken(p, Len(p)))
                       /\ \A i \in DOMAIN p : HasPlaceholder(p[i].test.op) =>
                            /\ Cardinality(Taken(p, i)) \in 1 .. Len(ArgsOf(p))
                            /\ ArgsOf(p)[Cardinality(Taken(p, i))] = p[i].args[1]
           S == {p \in Seq(P) : (\A i \in DOMAIN p : Fits(p[i])) => Right(p)}
<1>1. <<>> \in S
  <2>1. ArgsOf(<<>>) = <<>> /\ Len(<<>>) = 0 /\ DOMAIN <<>> = {} /\ <<>> \in Seq(P)
    BY FlattenEmpty DEF ArgsOf
  <2>2. Taken(<<>>, 0) = {}
    BY DEF Taken
  <2> QED BY <2>1, <2>2, FS_EmptySet
<1>2. ASSUME NEW p \in Seq(P), NEW x \in P, p \in S PROVE Append(p, x) \in S
  <2> DEFINE q == Append(p, x)  n == Len(p)  a == ArgsOf(p)
  <2>1. /\ n \in Nat /\ DOMAIN p = 1 .. n /\ q \in Seq(P) /\ Len(q) = n + 1 /\ DOMAIN q = 1 .. n + 1
        /\ q[n + 1] = x /\ \A i \in 1 .. n : q[i] = p[i]
    BY AppendProperties, LenProperties
  <2> SUFFICES ASSUME \A i \in DOMAIN q : Fits(q[i]) PROVE Right(q)
    BY <2>1
  <2>2. Right(p) /\ Fits(x)
    <3>1. \A i \in 1 .. n : i \in 1 .. n + 1
      BY <2>1
    <3>2. n + 1 \in 1 .. n + 1
      BY <2>1
    <3> QED BY <1>2, <2>1, <3>1, <3>2
  <2>3. a \in Seq(U) /\ x.args \in Seq(U)
    BY PairsApart DEF P, Pairs
  <2>4. ArgsOf(q) = a \o x.args
    <3> DEFINE h == [y \in P |-> y.args]
    <3>1. h \in [P -> Seq(U)] /\ h[x] = x.args
      BY DEF P, Pairs
    <3>2. ArgsOf(q) = FlattenSeq(Mapped(q, h)) /\ a = FlattenSeq(Mapped(p, h)) /\ Mapped(p, h) \in Seq(Seq(U))
      BY <2>1, PairsApart
    <3> HIDE DEF h, P
    <3>3. Mapped(q, h) = Append(Mapped(p, h), h[x])
      BY <3>1, MappedAppend
    <3>4. FlattenSeq(Append(Mapped(p, h), x.args)) = FlattenSeq(Mapped(p, h)) \o x.args
      BY <2>3, <3>2, FlattenAppend
    <3> QED BY <3>1, <3>2, <3>3, <3>4
  <2> HIDE DEF P, q, a
  <2>5. \A i \in 1 .. n : Taken(q, i) = Taken(p, i) /\ IsFiniteSet(Taken(p, i))
    <3> SUFFICES ASSUME NEW i \in 1 .. n PROVE Taken(q, i) = Taken(p, i) /\ IsFiniteSet(Taken(p, i))
      OBVIOUS
    <3>1. \A j \in 1 .. i : q[j] = p[j]
      BY <2>1
    <3>2. Taken(p, i) \subseteq 1 .. i /\ IsFiniteSet(1 .. i)
      BY FS_Interval DEF Taken
    <3>3. IsFiniteSet(Taken(p, i))
      BY <3>2, FS_Subset
    <3> QED BY <3>1, <3>3 DEF Taken
  <2>6. IsFiniteSet(Taken(p, n)) /\ Cardinality(Taken(p, n)) = Len(a) /\ Len(a) \in Nat
    <3>1. Taken(p, n) \subseteq 1 .. n /\ IsFiniteSet(1 .. n)
      BY <2>1, FS_Interval DEF Taken
    <3>2. IsFiniteSet(Taken(p, n))
      BY <3>1, FS_Subset
    <3> QED BY <2>2, <2>3, <3>2, LenProperties DEF a
  <2>7. \A i \in DOMAIN q : i \in 1 .. n \/ i = n + 1
    BY <2>1
  <2>8. CASE HasPlaceholder(x.test.op)
    <3>1. PICK u : x.args = <<u>>
      BY <2>2, <2>8 DEF Fits
    <3>2. u \in U /\ Len(ArgsOf(q)) = Len(a) + 1 /\ ArgsOf(q)[Len(a) + 1] = u
          /\ \A j \in 1 .. Len(a) : ArgsOf(q)[j] = a[j]
      <4>1. u \in U
        BY <2>3, <3>1, ElementOfSeq
      <4>2. a \o <<u>> = Append(a, u)
        BY <2>3, <4>1
      <4>3. Len(Append(a, u)) = Len(a) + 1 /\ Append(a, u)[Len(a) + 1] = u
            /\ \A j \in 1 .. Len(a) : Append(a, u)[j] = a[j]
        BY <2>3, <4>1, AppendProperties
      <4> QED BY <2>4, <3>1, <4>1, <4>2, <4>3
    <3>3. Cardinality(Taken(q, n + 1)) = Len(a) + 1
      <4>1. Taken(q, n + 1) = Taken(p, n) \cup {n + 1} /\ n + 1 \notin Taken(p, n)
        BY <2>1, <2>8 DEF Taken
      <4>2. Cardinality(Taken(p, n) \cup {n + 1}) = Cardinality(Taken(p, n)) + 1
        BY <2>6, <4>1, FS_AddElement
      <4> QED BY <2>6, <4>1, <4>2
    <3>4. ASSUME NEW i \in DOMAIN q, HasPlaceholder(q[i].test.op)
          PROVE  /\ Cardinality(Taken(q, i)) \in 1 .. Len(ArgsOf(q))
                 /\ ArgsOf(q)[Cardinality(Taken(q, i))] = q[i].args[1]
      <4>1. CASE i = n + 1
        BY <2>1, <2>6, <3>1, <3>2, <3>3, <4>1
      <4>2. CASE i \in 1 .. n
        <5>1. Cardinality(Taken(p, i)) \in 1 .. Len(a) /\ a[Cardinality(Taken(p, i))] = p[i].args[1]
              /\ q[i] = p[i] /\ Taken(q, i) = Taken(p, i)
          BY <2>1, <2>2, <2>5, <3>4, <4>2 DEF a
        <5> QED BY <2>6, <3>2, <5>1
      <4> QED BY <2>7, <4>1, <4>2
    <3> QED BY <2>1, <3>2, <3>3, <3>4
  <2>9. CASE ~HasPlaceholder(x.test.op)
    <3>1. ArgsOf(q) = a
      <4>1. x.args = <<>>
        BY <2>2, <2>9 DEF Fits
      <4> QED BY <2>3, <2>4, <4>1, ConcatEmptySeq
    <3>2. Taken(q, n + 1) = Taken(p, n)
      BY <2>1, <2>9 DEF Taken
    <3>3. ASSUME NEW i \in DOMAIN q, HasPlaceholder(q[i].test.op)
          PROVE  /\ Cardinality(Taken(q, i)) \in 1 .. Len(ArgsOf(q))
                 /\ ArgsOf(q)[Cardinality(Taken(q, i))] = q[i].args[1]
      <4>1. i \in 1 .. n
        BY <2>1, <2>7, <2>9, <3>3
      <4> QED BY <2>1, <2>2, <2>5, <3>1, <3>3, <4>1 DEF a
    <3> QED BY <2>1, <2>6, <3>1, <3>2, <3>3
  <2> QED BY <2>8, <2>9
<1>3. Seq(P) \subseteq S
  <2> HIDE DEF S, P
  <2> QED BY <1>1, <1>2, BackInduction
<1>4. pairs \in S
  BY <1>3
<1> QED BY <1>4

---------------------------------------------------------------------------
(* LIKE.                                                                   *)

(* A searched text in the pattern that is made of it.                      *)
Underscore == "_"
LikeChars == {"%", Underscore, "\\"}
LikeEscape(x) == IF x \in LikeChars THEN <<"\\", x>> ELSE <<x>>

(* The three characters that are escaped are different ones.               *)
LEMMA UnderscoreApart == Underscore # "%" /\ Underscore # "\\"
  BY Zenon DEF Underscore

(* Escaping is three substitutions, the backslash first.                   *)
LEMMA EscapeLikeIs ==
  ASSUME NEW v
  PROVE  escape_like(v) = Substituted(Substituted(Substituted(v, "\\", <<"\\", "\\">>), "%", <<"\\", "%">>),
                                      Underscore, <<"\\", Underscore>>)
BY Zenon DEF escape_like, Underscore

(* Escapes are made of the escaped characters.                             *)
LEMMA LikeEscapesTyped ==
  ASSUME NEW X, LikeChars \subseteq X
  PROVE  <<"\\", "\\">> \in Seq(X) /\ <<"\\", "%">> \in Seq(X) /\ <<"\\", Underscore>> \in Seq(X)
<1>1. "\\" \in X /\ "%" \in X /\ Underscore \in X
  BY DEF LikeChars
<1> QED BY <1>1, TwoTyped

(* An escaped text is a text.                                              *)
LEMMA LikeEscapedTyped ==
  ASSUME NEW X, LikeChars \subseteq X, NEW s \in Seq(X)
  PROVE  escape_like(s) \in Seq(X)
<1> DEFINE one == Substituted(s, "\\", <<"\\", "\\">>)
           two == Substituted(one, "%", <<"\\", "%">>)
<1>1. one \in Seq(X)
  BY LikeEscapesTyped, SubSame
<1>2. two \in Seq(X)
  <2> HIDE DEF one
  <2> QED BY <1>1, LikeEscapesTyped, SubSame
<1>3. Substituted(two, Underscore, <<"\\", Underscore>>) \in Seq(X)
  <2> HIDE DEF two
  <2> QED BY <1>2, LikeEscapesTyped, SubSame
<1> QED BY <1>3, EscapeLikeIs

(* Texts are escaped part by part.                                         *)
LEMMA LikeEscapedCat ==
  ASSUME NEW X, LikeChars \subseteq X, NEW s \in Seq(X), NEW t \in Seq(X)
  PROVE  escape_like(s \o t) = escape_like(s) \o escape_like(t)
<1> DEFINE backslash == <<"\\", "\\">>  percent == <<"\\", "%">>  underscore == <<"\\", Underscore>>
           one(p) == Substituted(p, "\\", backslash)
           two(p) == Substituted(one(p), "%", percent)
           three(p) == Substituted(two(p), Underscore, underscore)
<1>1. backslash \in Seq(X) /\ percent \in Seq(X) /\ underscore \in Seq(X)
  BY LikeEscapesTyped
<1>2. three(Joined(s, t)) = Joined(three(s), three(t))
  <2> HIDE DEF backslash, percent, underscore
  <2>1. one(s) \in Seq(X) /\ one(t) \in Seq(X)
    BY <1>1, SubSame
  <2>2. one(Joined(s, t)) = Joined(one(s), one(t))
    BY <1>1, SubJoined
  <2> HIDE DEF one
  <2>3. two(s) \in Seq(X) /\ two(t) \in Seq(X)
    BY <1>1, <2>1, SubSame
  <2>4. two(Joined(s, t)) = Joined(two(s), two(t))
    <3>1. Substituted(Joined(one(s), one(t)), "%", percent) = Joined(two(s), two(t))
      BY <1>1, <2>1, SubJoined
    <3> QED BY <2>2, <3>1
  <2> HIDE DEF two
  <2>5. Substituted(Joined(two(s), two(t)), Underscore, underscore) = Joined(three(s), three(t))
    <3> DEFINE u == two(s)  w == two(t)
    <3>1. u \in Seq(X) /\ w \in Seq(X) /\ underscore \in Seq(X)
      BY <1>1, <2>3
    <3> HIDE DEF u, w
    <3>2. Substituted(Joined(u, w), Underscore, underscore)
            = Joined(Substituted(u, Underscore, underscore), Substituted(w, Underscore, underscore))
      BY <3>1, SubJoined
    <3> QED BY <3>2 DEF u, w
  <2> QED BY <2>4, <2>5
<1> QED BY <1>2, EscapeLikeIs DEF Joined

(* One character is escaped once: no substitution touches the escape of    *)
(* another.                                                                *)
LEMMA LikeEscapedOne == ASSUME NEW x PROVE escape_like(<<x>>) = LikeEscape(x)
<1> DEFINE backslash == <<"\\", "\\">>  percent == <<"\\", "%">>  underscore == <<"\\", Underscore>>
<1>1. backslash \in Seq(LikeChars) /\ percent \in Seq(LikeChars) /\ underscore \in Seq(LikeChars)
  BY LikeEscapesTyped
<1>2. \A y, c : \A by \in Seq(LikeChars) : Substituted(<<y>>, c, by) = IF y = c THEN by ELSE <<y>>
  BY SubOne
<1>3. ASSUME NEW a \in LikeChars, NEW b \in LikeChars, NEW c, NEW by \in Seq(LikeChars), a # c, b # c
      PROVE  Substituted(<<a, b>>, c, by) = <<a, b>>
  <2> DEFINE p == <<a>>  q == <<b>>
  <2>1. p \in Seq(LikeChars) /\ q \in Seq(LikeChars) /\ p \o q = <<a, b>>
    BY TwoTyped, TwoJoined
  <2>2. Substituted(p, c, by) = p /\ Substituted(q, c, by) = q
    BY <1>2, <1>3
  <2>3. Substituted(p \o q, c, by) = p \o q
    <3>1. p \in Seq(LikeChars) /\ q \in Seq(LikeChars)
      BY <2>1
    <3> HIDE DEF p, q
    <3>2. Substituted(p \o q, c, by) = Substituted(p, c, by) \o Substituted(q, c, by)
      BY <1>3, <3>1, SubCat
    <3> QED BY <2>2, <3>2
  <2> HIDE DEF p, q
  <2> QED BY <2>1, <2>3
<1>4. /\ Substituted(backslash, "%", percent) = backslash
      /\ Substituted(backslash, Underscore, underscore) = backslash
      /\ Substituted(percent, Underscore, underscore) = percent
  BY <1>1, <1>3, UnderscoreApart DEF LikeChars
<1>5. /\ Substituted(<<x>>, "\\", backslash) = IF x = "\\" THEN backslash ELSE <<x>>
      /\ Substituted(<<x>>, "%", percent) = IF x = "%" THEN percent ELSE <<x>>
      /\ Substituted(<<x>>, Underscore, underscore) = IF x = Underscore THEN underscore ELSE <<x>>
  BY <1>1, <1>2
<1>6. CASE x = "\\"
  BY <1>4, <1>5, <1>6, EscapeLikeIs, UnderscoreApart DEF LikeEscape, LikeChars
<1>7. CASE x = "%"
  BY <1>4, <1>5, <1>7, EscapeLikeIs, UnderscoreApart DEF LikeEscape, LikeChars
<1>8. CASE x = Underscore
  BY <1>4, <1>5, <1>8, EscapeLikeIs, UnderscoreApart DEF LikeEscape, LikeChars
<1>9. CASE x \notin LikeChars
  BY <1>4, <1>5, <1>9, EscapeLikeIs, UnderscoreApart DEF LikeEscape, LikeChars
<1> QED BY <1>6, <1>7, <1>8, <1>9 DEF LikeChars

(* There is nothing to escape in the empty text.                           *)
LEMMA LikeEscapedEmpty == escape_like(<<>>) = <<>>
  BY SubEmpty, EscapeLikeIs

(* Where a text matches a pattern.                                         *)
MatchesFrom(from, text, pattern) ==
  from = [j \in 1 .. Len(pattern) + 1 |->
    IF j > Len(pattern) THEN {Len(text) + 1}
    ELSE {i \in 1 .. Len(text) + 1 :
            \/ pattern[j] = "%" /\ \E k \in from[j + 1] : i <= k
            \/ /\ pattern[j] = "\\" /\ j < Len(pattern) /\ i <= Len(text)
               /\ text[i] = pattern[j + 1] /\ i + 1 \in from[j + 2]
            \/ /\ pattern[j] \notin {"%", "\\"} /\ i <= Len(text)
               /\ pattern[j] \in {"_", text[i]} /\ i + 1 \in from[j + 1]}]

(* The recursion of Like defines a function: it descends to the end of the *)
(* pattern.                                                                *)
LEMMA MatchesExist ==
  ASSUME NEW X, NEW text \in Seq(X), NEW pattern \in Seq(X)
  PROVE  \E from : MatchesFrom(from, text, pattern)
<1> DEFINE n == Len(text)  m == Len(pattern)
           D == 1 .. m + 1
           V == SUBSET (1 .. n + 1)
           rank == [j \in D |-> m + 1 - j]
           Held(f, j) == IF j > m THEN {n + 1}
             ELSE {i \in 1 .. n + 1 :
                     \/ pattern[j] = "%" /\ \E k \in f[j + 1] : i <= k
                     \/ /\ pattern[j] = "\\" /\ j < m /\ i <= n
                        /\ text[i] = pattern[j + 1] /\ i + 1 \in f[j + 2]
                     \/ /\ pattern[j] \notin {"%", "\\"} /\ i <= n
                        /\ pattern[j] \in {"_", text[i]} /\ i + 1 \in f[j + 1]}
           F == [g \in [D -> V] |-> [j \in D |-> Held(g, j)]]
<1>0. n \in Nat /\ m \in Nat
  BY LenProperties
<1>1. V # {} /\ rank \in [D -> Nat]
  <2>1. {} \in V
    OBVIOUS
  <2>2. \A j \in D : m + 1 - j \in Nat
    BY <1>0
  <2> HIDE DEF V
  <2> QED BY <2>1, <2>2
<1>2. F \in [[D -> V] -> [D -> V]]
  <2> SUFFICES ASSUME NEW g \in [D -> V], NEW j \in D PROVE Held(g, j) \in V
    OBVIOUS
  <2>1. n + 1 \in 1 .. n + 1
    BY <1>0
  <2> QED BY <2>1
<1>3. \A g, h \in [D -> V] : \A d \in D :
           (\A e \in D : rank[e] < rank[d] => g[e] = h[e]) => F[g][d] = F[h][d]
  <2>0. \A g \in [D -> V] : \A d \in D : F[g][d] = Held(g, d)
    <3> HIDE DEF Held, D, V
    <3> QED OBVIOUS
  <2> SUFFICES ASSUME NEW g \in [D -> V], NEW h \in [D -> V], NEW d \in D,
                      \A e \in D : rank[e] < rank[d] => g[e] = h[e]
               PROVE  Held(g, d) = Held(h, d)
    <3> HIDE DEF Held, D, V, F, rank
    <3> QED BY <2>0
  <2>1. d <= m => g[d + 1] = h[d + 1]
    <3> SUFFICES ASSUME d <= m PROVE g[d + 1] = h[d + 1]
      OBVIOUS
    <3>1. d + 1 \in D /\ rank[d + 1] < rank[d]
      BY <1>0
    <3> QED BY <3>1
  <2>2. d < m => g[d + 2] = h[d + 2]
    <3> SUFFICES ASSUME d < m PROVE g[d + 2] = h[d + 2]
      OBVIOUS
    <3>1. d + 2 \in D /\ rank[d + 2] < rank[d]
      BY <1>0
    <3> QED BY <3>1
  <2>3. d > m <=> ~(d <= m)
    BY <1>0
  <2> HIDE DEF n, m
  <2> QED BY <2>1, <2>2, <2>3
<1>4. LooksBelow(F, D, V, rank)
  BY <1>1, <1>2, <1>3 DEF LooksBelow
<1>5. \E f \in [D -> V] : f = F[f]
  <2> HIDE DEF D, V, rank, F
  <2> QED BY <1>4, Recursion
<1> QED BY <1>5 DEF MatchesFrom

(* Like asks for the places that this function finds.                      *)
LEMMA LikeIs ==
  ASSUME NEW X, NEW text \in Seq(X), NEW pattern \in Seq(X)
  PROVE  \E from : MatchesFrom(from, text, pattern) /\ (Like(text, pattern) <=> 1 \in from[1])
<1>1. MatchesFrom(CHOOSE from : MatchesFrom(from, text, pattern), text, pattern)
  BY MatchesExist
<1>2. Like(text, pattern) <=> 1 \in (CHOOSE from : MatchesFrom(from, text, pattern))[1]
  BY DEF Like, MatchesFrom
<1> QED BY <1>1, <1>2

(* The places of a text at which a word stands.                            *)
Found(text, w) ==
  {i \in 1 .. Len(text) + 1 : i + Len(w) <= Len(text) + 1 /\ \A t \in 1 .. Len(w) : text[i + t - 1] = w[t]}

(* A word stands where its first character stands before the rest of it.   *)
LEMMA FoundFirst ==
  ASSUME NEW X, NEW text \in Seq(X), NEW x \in X, NEW w \in Seq(X)
  PROVE  Found(text, <<x>> \o w)
           = {i \in 1 .. Len(text) + 1 : i <= Len(text) /\ text[i] = x /\ i + 1 \in Found(text, w)}
<1> DEFINE n == Len(text)  m == Len(w)  v == <<x>> \o w
<1>1. /\ n \in Nat /\ m \in Nat /\ Len(v) = m + 1 /\ v[1] = x
      /\ \A t \in 1 .. m : v[t + 1] = w[t]
  <2>0. m \in Nat /\ n \in Nat
    BY LenProperties
  <2> DEFINE h == <<x>>
  <2>1. h \in Seq(X) /\ Len(h) = 1 /\ h[1] = x
    OBVIOUS
  <2> HIDE DEF h
  <2>2. Joins(h \o w, h, w)
    BY <2>1, JoinedIs
  <2>3. Len(h \o w) = 1 + m /\ (h \o w)[1] = x /\ \A t \in 1 .. m : (h \o w)[1 + t] = w[t]
    BY <2>1, <2>2 DEF Joins
  <2>4. \A t \in 1 .. m : 1 + t = t + 1
    OBVIOUS
  <2> QED BY <2>0, <2>3, <2>4 DEF h
<1> HIDE DEF v, n, m
<1>2. ASSUME NEW i \in 1 .. n + 1
      PROVE  (i + Len(v) <= n + 1 /\ \A t \in 1 .. Len(v) : text[i + t - 1] = v[t])
               <=> (/\ i <= n /\ text[i] = x
                    /\ i + 1 \in 1 .. n + 1 /\ i + 1 + m <= n + 1
                    /\ \A t \in 1 .. m : text[i + 1 + t - 1] = w[t])
  <2>1. (i + Len(v) <= n + 1 => i <= n) /\ (i + Len(v) <= n + 1 <=> i + 1 + m <= n + 1)
        /\ (i <= n => i + 1 \in 1 .. n + 1)
    BY <1>1
  <2>2. ASSUME \A t \in 1 .. Len(v) : text[i + t - 1] = v[t]
        PROVE  text[i] = x /\ \A t \in 1 .. m : text[i + 1 + t - 1] = w[t]
    <3>1. 1 \in 1 .. Len(v) /\ i + 1 - 1 = i
      BY <1>1
    <3>2. ASSUME NEW t \in 1 .. m PROVE text[i + 1 + t - 1] = w[t]
      <4>1. t + 1 \in 1 .. Len(v) /\ i + (t + 1) - 1 = i + 1 + t - 1
        BY <1>1
      <4> QED BY <1>1, <2>2, <4>1
    <3> QED BY <1>1, <2>2, <3>1, <3>2
  <2>3. ASSUME text[i] = x, \A t \in 1 .. m : text[i + 1 + t - 1] = w[t]
        PROVE  \A t \in 1 .. Len(v) : text[i + t - 1] = v[t]
    <3> SUFFICES ASSUME NEW t \in 1 .. Len(v) PROVE text[i + t - 1] = v[t]
      OBVIOUS
    <3>1. CASE t = 1
      <4>1. i + 1 - 1 = i
        BY <1>1
      <4> QED BY <1>1, <2>3, <3>1, <4>1
    <3>2. CASE t # 1
      <4> DEFINE u == t - 1
      <4>1. u \in 1 .. m /\ u + 1 = t /\ i + 1 + u - 1 = i + t - 1
        BY <1>1, <3>2
      <4> HIDE DEF u
      <4>2. text[i + 1 + u - 1] = w[u] /\ v[u + 1] = w[u]
        BY <1>1, <2>3, <4>1
      <4> QED BY <4>1, <4>2
    <3> QED BY <3>1, <3>2
  <2> QED BY <2>1, <2>2, <2>3
<1> QED BY <1>2 DEF Found, v, n, m

(* A text contains the words that stand somewhere in it.                   *)
LEMMA ContainsFound ==
  ASSUME NEW X, NEW text \in Seq(X), NEW v \in Seq(X)
  PROVE  ContainsText(text, v) <=> Found(text, v) # {}
<1> DEFINE n == Len(text)  m == Len(v)
<1>1. n \in Nat /\ m \in Nat /\ \A i \in 1 .. n : text[i] \in X
  BY LenProperties, ElementOfSeq
<1>2. ASSUME NEW i \in Found(text, v) PROVE ContainsText(text, v)
  <2> DEFINE j == i - 1
  <2>1. i \in 1 .. n + 1 /\ i + m <= n + 1 /\ \A t \in 1 .. m : text[i + t - 1] = v[t]
    BY DEF Found
  <2>2. j \in Nat /\ j \in 0 .. n - m /\ \A t \in 1 .. m : j + t = i + t - 1
    BY <1>1, <2>1
  <2>3. \A t \in 1 .. m : text[j + t] = v[t]
    BY <2>1, <2>2
  <2> HIDE DEF j
  <2>4. SubSeq(text, j + 1, j + m) = v
    BY <2>2, <2>3, PartIs
  <2> QED BY <2>2, <2>4 DEF ContainsText
<1>3. ASSUME ContainsText(text, v) PROVE Found(text, v) # {}
  <2>1. PICK j \in 0 .. n - m : SubSeq(text, j + 1, j + m) = v
    BY <1>3 DEF ContainsText
  <2> DEFINE first == j + 1  last == j + m  part == SubSeq(text, first, last)
  <2>2. /\ first \in Int /\ last \in Int /\ \A i \in first .. last : text[i] \in X
        /\ last - first + 1 = m /\ first \in 1 .. n + 1 /\ first + m <= n + 1
    BY <1>1
  <2>3. part = v
    BY <2>1
  <2> HIDE DEF first, last, m, n
  <2>4. \A t \in 1 .. last - first + 1 : part[t] = text[first + t - 1]
    BY <2>2, SubSeqProperties
  <2>5. \A t \in 1 .. m : text[first + t - 1] = v[t]
    BY <2>2, <2>3, <2>4
  <2> QED BY <2>2, <2>5 DEF Found, m, n
<1> QED BY <1>2, <1>3

(* The places that match a wildcard, an escape and any other character.    *)
MatchRules(from, text, pattern) ==
  LET n == Len(text)  m == Len(pattern)
  IN /\ from[m + 1] = {n + 1}
     /\ \A j \in 1 .. m : pattern[j] = "%" =>
          from[j] = {i \in 1 .. n + 1 : \E k \in from[j + 1] : i <= k}
     /\ \A j \in 1 .. m : pattern[j] = "\\" /\ j < m =>
          from[j] = {i \in 1 .. n + 1 : i <= n /\ text[i] = pattern[j + 1] /\ i + 1 \in from[j + 2]}
     /\ \A j \in 1 .. m : pattern[j] \notin LikeChars =>
          from[j] = {i \in 1 .. n + 1 : i <= n /\ text[i] = pattern[j] /\ i + 1 \in from[j + 1]}

(* What Like finds follows these rules.                                    *)
LEMMA MatchFollowsRules ==
  ASSUME NEW X, NEW text \in Seq(X), NEW pattern \in Seq(X), NEW from, MatchesFrom(from, text, pattern)
  PROVE  MatchRules(from, text, pattern)
<1> DEFINE n == Len(text)  m == Len(pattern)
<1>0. n \in Nat /\ m \in Nat
  BY LenProperties
<1>1. \A j \in 1 .. m + 1 : from[j] =
        IF j > m THEN {n + 1}
        ELSE {i \in 1 .. n + 1 :
                \/ pattern[j] = "%" /\ \E k \in from[j + 1] : i <= k
                \/ /\ pattern[j] = "\\" /\ j < m /\ i <= n
                   /\ text[i] = pattern[j + 1] /\ i + 1 \in from[j + 2]
                \/ /\ pattern[j] \notin {"%", "\\"} /\ i <= n
                   /\ pattern[j] \in {Underscore, text[i]} /\ i + 1 \in from[j + 1]}
  BY Zenon DEF MatchesFrom, Underscore
<1> HIDE DEF n, m
<1>2. from[m + 1] = {n + 1}
  <2>1. m + 1 \in 1 .. m + 1 /\ m + 1 > m
    BY <1>0
  <2> QED BY <1>1, <2>1
<1>3. \A j \in 1 .. m : j \in 1 .. m + 1 /\ ~(j > m)
  BY <1>0
<1>4. ASSUME NEW j \in 1 .. m
      PROVE from[j] = {i \in 1 .. n + 1 :
                \/ pattern[j] = "%" /\ \E k \in from[j + 1] : i <= k
                \/ /\ pattern[j] = "\\" /\ j < m /\ i <= n
                   /\ text[i] = pattern[j + 1] /\ i + 1 \in from[j + 2]
                \/ /\ pattern[j] \notin {"%", "\\"} /\ i <= n
                   /\ pattern[j] \in {Underscore, text[i]} /\ i + 1 \in from[j + 1]}
  BY <1>1, <1>3, Zenon
<1>5. ASSUME NEW j \in 1 .. m, pattern[j] = "%"
      PROVE from[j] = {i \in 1 .. n + 1 : \E k \in from[j + 1] : i <= k}
  <2>1. pattern[j] # "\\"
    BY <1>5
  <2> QED BY <1>4, <1>5, <2>1
<1>6. ASSUME NEW j \in 1 .. m, pattern[j] = "\\", j < m
      PROVE from[j] = {i \in 1 .. n + 1 : i <= n /\ text[i] = pattern[j + 1] /\ i + 1 \in from[j + 2]}
  <2>1. pattern[j] # "%"
    BY <1>6
  <2> QED BY <1>4, <1>6, <2>1
<1>7. ASSUME NEW j \in 1 .. m, pattern[j] \notin LikeChars
      PROVE from[j] = {i \in 1 .. n + 1 : i <= n /\ text[i] = pattern[j] /\ i + 1 \in from[j + 1]}
  <2>1. pattern[j] # "%" /\ pattern[j] # "\\" /\ pattern[j] # Underscore
    BY <1>7 DEF LikeChars
  <2> QED BY <1>4, <2>1
<1> QED BY <1>2, <1>5, <1>6, <1>7 DEF MatchRules, n, m

(* What a sequence holds behind a place.                                   *)
Stands(s, a, w) == \A i \in 1 .. Len(w) : s[a + i] = w[i]

(* Where a concatenation stands its parts stand.                           *)
LEMMA StandsParts ==
  ASSUME NEW X, NEW p \in Seq(X), NEW q \in Seq(X), NEW s, NEW a \in Nat, Stands(s, a, p \o q)
  PROVE  Stands(s, a, p) /\ Stands(s, a + Len(p), q)
<1> DEFINE w == p \o q
<1>1. Joins(w, p, q) /\ Len(p) \in Nat /\ Len(q) \in Nat
  BY JoinedIs, LenProperties
<1> HIDE DEF w
<1>2. \A i \in 1 .. Len(w) : s[a + i] = w[i]
  BY DEF Stands, w
<1>3. ASSUME NEW i \in 1 .. Len(p) PROVE s[a + i] = p[i]
  <2>1. i \in 1 .. Len(w) /\ w[i] = p[i]
    BY <1>1 DEF Joins
  <2> QED BY <1>2, <2>1
<1>4. ASSUME NEW i \in 1 .. Len(q) PROVE s[(a + Len(p)) + i] = q[i]
  <2> DEFINE j == Len(p) + i
  <2>1. j \in 1 .. Len(w) /\ w[j] = q[i] /\ a + j = (a + Len(p)) + i
    BY <1>1 DEF Joins
  <2> HIDE DEF j
  <2>2. s[a + j] = w[j]
    BY <1>2, <2>1
  <2> QED BY <2>1, <2>2
<1> QED BY <1>3, <1>4 DEF Stands

(* A pattern made of a searched text matches the texts that contain it.    *)
LEMMA LikeLiteral ==
  ASSUME NEW Z, NEW text \in Seq(Z), NEW v \in Seq(Z)
  PROVE  Like(text, contains_pattern(v)) <=> ContainsText(text, v)
<1> DEFINE X == Z \cup LikeChars
           any == <<"%">>
           T(w) == escape_like(w) \o any
           pattern == any \o escape_like(v) \o any
           n == Len(text)
           m == Len(pattern)
<1>0. text \in Seq(X) /\ v \in Seq(X) /\ LikeChars \subseteq X /\ any \in Seq(X) /\ Len(any) = 1 /\ any[1] = "%"
  <2>1. Z \subseteq X
    OBVIOUS
  <2>2. text \in Seq(X) /\ v \in Seq(X)
    BY <2>1, SeqMonotonic
  <2>3. any \in Seq(LikeChars) /\ Len(any) = 1 /\ any[1] = "%"
    BY DEF LikeChars
  <2>4. LikeChars \subseteq X
    OBVIOUS
  <2>5. any \in Seq(X)
    <3> HIDE DEF any, X
    <3> QED BY <2>3, <2>4, SeqMonotonic
  <2> QED BY <2>2, <2>3, <2>4, <2>5
<1> HIDE DEF X, any
<1>1. \A w \in Seq(X) : escape_like(w) \in Seq(X) /\ T(w) \in Seq(X)
  <2>1. \A w \in Seq(X) : escape_like(w) \in Seq(X)
    BY <1>0, LikeEscapedTyped
  <2> QED BY <1>0, <2>1
<1>2. pattern \in Seq(X) /\ n \in Nat /\ m \in Nat /\ contains_pattern(v) = pattern
  <2>1. escape_like(v) \in Seq(X)
    BY <1>0, <1>1
  <2>2. any \o escape_like(v) \in Seq(X) /\ pattern \in Seq(X)
    BY <1>0, <2>1
  <2>3. contains_pattern(v) = pattern
    BY DEF contains_pattern, any
  <2> QED BY <1>0, <2>2, <2>3, LenProperties
<1>3. PICK from : MatchesFrom(from, text, pattern) /\ (Like(text, pattern) <=> 1 \in from[1])
  <2> HIDE DEF pattern
  <2> QED BY <1>0, <1>2, LikeIs
<1>4. /\ from[m + 1] = {n + 1}
      /\ \A j \in 1 .. m : pattern[j] = "%" =>
           from[j] = {i \in 1 .. n + 1 : \E k \in from[j + 1] : i <= k}
      /\ \A j \in 1 .. m : pattern[j] = "\\" /\ j < m =>
           from[j] = {i \in 1 .. n + 1 : i <= n /\ text[i] = pattern[j + 1] /\ i + 1 \in from[j + 2]}
      /\ \A j \in 1 .. m : pattern[j] \notin LikeChars =>
           from[j] = {i \in 1 .. n + 1 : i <= n /\ text[i] = pattern[j] /\ i + 1 \in from[j + 1]}
  <2>1. MatchRules(from, text, pattern)
    <3> HIDE DEF pattern
    <3> QED BY <1>0, <1>2, <1>3, MatchFollowsRules
  <2> HIDE DEF pattern
  <2> QED BY <2>1, Zenon DEF MatchRules, n, m
<1>5. pattern = any \o T(v)
  <2>1. escape_like(v) \in Seq(X)
    BY <1>0, <1>1
  <2>2. \A p, q, r \in Seq(X) : (p \o q) \o r = p \o (q \o r)
    BY ConcatAssociative
  <2> HIDE DEF pattern
  <2> QED BY <1>0, <2>1, <2>2, Zenon DEF pattern
<1>6. Len(T(v)) + 1 = m /\ Stands(pattern, 1, T(v)) /\ pattern[1] = "%" /\ m >= 2
  <2>1. T(v) \in Seq(X) /\ escape_like(v) \in Seq(X)
    BY <1>0, <1>1
  <2> DEFINE t == T(v)
  <2>2. Len(t) >= 1 /\ Len(t) \in Nat
    <3>1. Len(t) = Len(escape_like(v)) + Len(any) /\ Len(escape_like(v)) \in Nat
      BY <1>0, <2>1, ConcatProperties, LenProperties
    <3> QED BY <1>0, <3>1
  <2> HIDE DEF t
  <2>3. Joins(pattern, any, t)
    <3>1. Joins(any \o t, any, t)
      BY <1>0, <2>1, JoinedIs DEF t
    <3> QED BY <1>5, <3>1 DEF t
  <2> HIDE DEF pattern
  <2>4. Len(t) + 1 = m /\ Stands(pattern, 1, t) /\ pattern[1] = "%"
    BY <1>0, <2>2, <2>3 DEF Joins, Stands
  <2> QED BY <2>2, <2>4 DEF t
<1> HIDE DEF pattern, m, n
<1> DEFINE S == {w \in Seq(X) : \A a \in Nat : a + Len(T(w)) = m /\ Stands(pattern, a, T(w)) =>
                                     from[a + 1] = Found(text, w)}
<1>7. <<>> \in S
  <2>1. T(<<>>) = any
    BY <1>0, LikeEscapedEmpty, ConcatEmptySeq
  <2>2. ASSUME NEW a \in Nat, a + 1 = m, Stands(pattern, a, any) PROVE from[a + 1] = Found(text, <<>>)
    <3>1. pattern[m] = "%" /\ m \in 1 .. m
      BY <1>0, <1>2, <2>2 DEF Stands
    <3>2. from[m] = {i \in 1 .. n + 1 : \E k \in {n + 1} : i <= k}
      BY <1>4, <3>1
    <3>3. from[m] = 1 .. n + 1
      BY <1>2, <3>2
    <3>4. Found(text, <<>>) = 1 .. n + 1
      <4>1. Len(<<>>) = 0
        OBVIOUS
      <4> QED BY <1>2, <4>1 DEF Found, n
    <3> QED BY <2>2, <3>3, <3>4
  <2>3. <<>> \in Seq(X)
    OBVIOUS
  <2> HIDE DEF T
  <2> QED BY <1>0, <2>1, <2>2, <2>3
<1>8. ASSUME NEW w \in Seq(X), NEW x \in X, w \in S PROVE <<x>> \o w \in S
  <2> DEFINE h == <<x>>  e == LikeEscape(x)
  <2>1. h \in Seq(X) /\ h \o w \in Seq(X)
    OBVIOUS
  <2>2. escape_like(h) = e /\ e \in Seq(X)
    <3>1. escape_like(h) = e
      BY LikeEscapedOne
    <3>2. escape_like(h) \in Seq(X)
      <4> HIDE DEF h
      <4> QED BY <1>1, <2>1
    <3> QED BY <3>1, <3>2
  <2>3. T(h \o w) = e \o T(w)
    <3> HIDE DEF h, e
    <3>1. escape_like(h \o w) = escape_like(h) \o escape_like(w)
      BY <1>0, <2>1, LikeEscapedCat
    <3>2. escape_like(w) \in Seq(X)
      BY <1>1
    <3>3. \A p, q, r \in Seq(X) : (p \o q) \o r = p \o (q \o r)
      BY ConcatAssociative
    <3>4. (e \o escape_like(w)) \o any = e \o (escape_like(w) \o any)
      BY <1>0, <2>2, <3>2, <3>3, Zenon
    <3> QED BY <2>2, <3>1, <3>4
  <2>4. T(w) \in Seq(X) /\ Len(T(w)) \in Nat /\ Len(T(w)) >= 1
    <3>1. escape_like(w) \in Seq(X) /\ T(w) \in Seq(X)
      BY <1>1
    <3>2. Len(T(w)) = Len(escape_like(w)) + Len(any) /\ Len(escape_like(w)) \in Nat
      BY <1>0, <3>1, ConcatProperties, LenProperties
    <3> QED BY <1>0, <3>1, <3>2
  <2> DEFINE t == T(w)
  <2>5. \A a \in Nat : a + Len(t) = m /\ Stands(pattern, a, t) => from[a + 1] = Found(text, w)
    BY <1>8
  <2>6. Found(text, h \o w)
          = {i \in 1 .. n + 1 : i <= n /\ text[i] = x /\ i + 1 \in Found(text, w)}
    BY <1>0, FoundFirst DEF n
  <2> HIDE DEF T
  <2>6a. t \in Seq(X) /\ Len(t) \in Nat /\ Len(t) >= 1 /\ T(h \o w) = e \o t
    BY <2>3, <2>4
  <2> HIDE DEF t
  <2>7. ASSUME NEW a \in Nat, a + Len(e \o t) = m, Stands(pattern, a, e \o t)
        PROVE  from[a + 1] = Found(text, h \o w)
    <3>1. Stands(pattern, a, e) /\ Stands(pattern, a + Len(e), t) /\ Len(e \o t) = Len(e) + Len(t)
          /\ Len(e) \in Nat
      <4> HIDE DEF e
      <4> QED BY <2>2, <2>6a, <2>7, StandsParts, ConcatProperties, LenProperties
    <3>2. from[(a + Len(e)) + 1] = Found(text, w)
      <4>1. a + Len(e) \in Nat /\ (a + Len(e)) + Len(t) = m
        BY <2>6a, <2>7, <3>1
      <4> QED BY <2>5, <3>1, <4>1
    <3>3. CASE x \in LikeChars
      <4>1. e = <<"\\", x>>
        BY <3>3 DEF LikeEscape
      <4>2. Len(e) = 2 /\ e[1] = "\\" /\ e[2] = x
        BY <4>1
      <4>3. pattern[a + 1] = "\\" /\ pattern[a + 2] = x
        BY <3>1, <4>2 DEF Stands
      <4>4. a + 1 \in 1 .. m /\ a + 1 < m /\ (a + 1) + 1 = a + 2 /\ (a + 1) + 2 = (a + 2) + 1
        BY <1>2, <2>6a, <2>7, <3>1, <4>2
      <4>5. from[a + 1] = {i \in 1 .. n + 1 : i <= n /\ text[i] = pattern[(a + 1) + 1]
                /\ i + 1 \in from[(a + 1) + 2]}
        BY <1>4, <4>3, <4>4
      <4>6. from[(a + 1) + 2] = Found(text, w)
        BY <3>2, <4>2, <4>4
      <4>7. pattern[(a + 1) + 1] = x
        BY <4>3, <4>4
      <4> QED BY <2>6, <4>5, <4>6, <4>7
    <3>4. CASE x \notin LikeChars
      <4>1. e = <<x>>
        BY <3>4 DEF LikeEscape
      <4>2. Len(e) = 1 /\ e[1] = x
        BY <4>1
      <4>3. pattern[a + 1] = x
        BY <3>1, <4>2 DEF Stands
      <4>4. a + 1 \in 1 .. m
        BY <1>2, <2>6a, <2>7, <3>1, <4>2
      <4>5. from[a + 1] = {i \in 1 .. n + 1 : i <= n /\ text[i] = pattern[a + 1] /\ i + 1 \in from[(a + 1) + 1]}
        BY <1>4, <3>4, <4>3, <4>4
      <4>6. from[(a + 1) + 1] = Found(text, w)
        BY <3>2, <4>2
      <4> QED BY <2>6, <4>3, <4>5, <4>6
    <3> QED BY <3>3, <3>4
  <2>8. \A a \in Nat : a + Len(T(h \o w)) = m /\ Stands(pattern, a, T(h \o w)) =>
          from[a + 1] = Found(text, h \o w)
    BY <2>6a, <2>7
  <2>9. h \o w \in S
    <3> HIDE DEF h
    <3> QED BY <2>1, <2>8
  <2> QED BY <2>9
<1>9. v \in S
  <2>1. Seq(X) \subseteq S
    <3> HIDE DEF S
    <3> QED BY <1>7, <1>8, FrontInduction
  <2> QED BY <1>0, <2>1
<1>10. from[2] = Found(text, v)
  <2>1. \A a \in Nat : a + Len(T(v)) = m /\ Stands(pattern, a, T(v)) => from[a + 1] = Found(text, v)
    BY <1>9
  <2>2. T(v) \in Seq(X) /\ Len(T(v)) \in Nat
    BY <1>0, <1>1, LenProperties
  <2>3. 1 + Len(T(v)) = m /\ 1 + 1 = 2 /\ 1 \in Nat
    BY <1>6, <2>2
  <2> HIDE DEF T
  <2> QED BY <1>6, <2>1, <2>3
<1>11. from[1] = {i \in 1 .. n + 1 : \E k \in Found(text, v) : i <= k}
  <2>1. 1 \in 1 .. m /\ 1 + 1 = 2
    BY <1>2, <1>6
  <2> QED BY <1>4, <1>6, <1>10, <2>1
<1>12. 1 \in from[1] <=> Found(text, v) # {}
  <2>1. \A k \in Found(text, v) : k \in Nat /\ 1 <= k
    BY <1>2 DEF Found, n
  <2>2. 1 \in 1 .. n + 1
    BY <1>2
  <2> QED BY <1>11, <2>1, <2>2
<1> QED BY <1>0, <1>2, <1>3, <1>12, ContainsFound

---------------------------------------------------------------------------
(* The grammar of a column filter.                                         *)

(* The characters of the operators.                                        *)
OperatorChars == {"<", "=", ">"}

(* The operators a piece begins with.                                      *)
LEMMA OperatorsAt ==
  ASSUME NEW Z, NEW piece \in Seq(Z)
  PROVE  LET one(a) == piece # <<>> /\ piece[1] = a
             two(a, b) == Len(piece) >= 2 /\ piece[1] = a /\ piece[2] = b
         IN /\ DOMAIN Operators = 1 .. 6
            /\ (IsPrefix(Operators[1][1], piece) <=> two("<", ">"))
            /\ (IsPrefix(Operators[2][1], piece) <=> two(">", "="))
            /\ (IsPrefix(Operators[3][1], piece) <=> two("<", "="))
            /\ (IsPrefix(Operators[4][1], piece) <=> one(">"))
            /\ (IsPrefix(Operators[5][1], piece) <=> one("<"))
            /\ (IsPrefix(Operators[6][1], piece) <=> one("="))
<1> DEFINE X == Z \cup OperatorChars
<1>1. piece \in Seq(X)
  <2>1. Z \subseteq X
    OBVIOUS
  <2> QED BY <2>1, SeqMonotonic
<1>2. "<" \in X /\ "=" \in X /\ ">" \in X
  BY DEF OperatorChars
<1> HIDE DEF X
<1>3. /\ Operators[1][1] = <<"<", ">">> /\ Operators[2][1] = <<">", "=">>
      /\ Operators[3][1] = <<"<", "=">> /\ Operators[4][1] = <<">">>
      /\ Operators[5][1] = <<"<">> /\ Operators[6][1] = <<"=">> /\ DOMAIN Operators = 1 .. 6
  BY DEF Operators
<1>4. \A a, b \in X :
        /\ (IsPrefix(<<a>>, piece) <=> piece # <<>> /\ piece[1] = a)
        /\ (IsPrefix(<<a, b>>, piece) <=> Len(piece) >= 2 /\ piece[1] = a /\ piece[2] = b)
  BY <1>1, BeginsOne, BeginsTwo
<1> QED BY <1>2, <1>3, <1>4

OperatorNames == {"notcontains", "notempty", "ge", "le", "gt", "lt", "eq", "contains"}

(* The operators a piece begins with: one of the first three at most, and  *)
(* one of the last three at most.                                          *)
FoundIn(piece) == {k \in DOMAIN Operators : IsPrefix(Operators[k][1], piece)}

(* A piece begins with one operator of two characters and one of one       *)
(* character at most.                                                      *)
LEMMA OperatorsFound ==
  ASSUME NEW Z, NEW piece \in Seq(Z)
  PROVE  /\ FoundIn(piece) \subseteq 1 .. 6
         /\ \A x, y \in FoundIn(piece) : x < y => x \in 1 .. 3 /\ y \in 4 .. 6
         /\ (1 \in FoundIn(piece) <=> Len(piece) >= 2 /\ piece[1] = "<" /\ piece[2] = ">")
<1> DEFINE one(a) == piece # <<>> /\ piece[1] = a
           two(a, b) == Len(piece) >= 2 /\ piece[1] = a /\ piece[2] = b
           found == FoundIn(piece)
<1>1. /\ found \subseteq 1 .. 6
      /\ (1 \in found <=> two("<", ">")) /\ (2 \in found <=> two(">", "="))
      /\ (3 \in found <=> two("<", "=")) /\ (4 \in found <=> one(">"))
      /\ (5 \in found <=> one("<")) /\ (6 \in found <=> one("="))
  BY OperatorsAt DEF FoundIn
<1> HIDE DEF found
<1>2. \A x \in found : x \in {1, 2, 3, 4, 5, 6}
  BY <1>1
<1>3. /\ ~(1 \in found /\ 2 \in found) /\ ~(1 \in found /\ 3 \in found) /\ ~(2 \in found /\ 3 \in found)
      /\ ~(4 \in found /\ 5 \in found) /\ ~(4 \in found /\ 6 \in found) /\ ~(5 \in found /\ 6 \in found)
  BY <1>1
<1>4. \A x, y \in found : x < y => x \in 1 .. 3 /\ y \in 4 .. 6
  BY <1>2, <1>3
<1> QED BY <1>1, <1>4 DEF found

(* The operators of two characters stand before those of one.              *)
LEMMA OperatorsListed ==
  /\ \A k \in 1 .. 6 : (k <= 3 => Len(Operators[k][1]) = 2) /\ (k > 3 => Len(Operators[k][1]) = 1)
  /\ \A k \in 1 .. 6 : (Operators[k][2] = "notcontains" <=> k = 1)
  /\ \A k \in 1 .. 6 : Operators[k][2] \in OperatorNames
<1>1. /\ Operators[1] = <<<<"<", ">">>, "notcontains">> /\ Operators[2] = <<<<">", "=">>, "ge">>
      /\ Operators[3] = <<<<"<", "=">>, "le">> /\ Operators[4] = <<<<">">>, "gt">>
      /\ Operators[5] = <<<<"<">>, "lt">> /\ Operators[6] = <<<<"=">>, "eq">>
  BY DEF Operators
<1>2. /\ Operators[1][2] = "notcontains" /\ Operators[2][2] = "ge" /\ Operators[3][2] = "le"
      /\ Operators[4][2] = "gt" /\ Operators[5][2] = "lt" /\ Operators[6][2] = "eq"
  BY <1>1
<1>3. /\ Len(Operators[1][1]) = 2 /\ Len(Operators[2][1]) = 2 /\ Len(Operators[3][1]) = 2
      /\ Len(Operators[4][1]) = 1 /\ Len(Operators[5][1]) = 1 /\ Len(Operators[6][1]) = 1
  BY <1>1
<1>4. \A k \in 1 .. 6 : k \in {1, 2, 3, 4, 5, 6}
  OBVIOUS
<1>5. \A k \in 1 .. 6 : (k <= 3 => Len(Operators[k][1]) = 2) /\ (k > 3 => Len(Operators[k][1]) = 1)
  BY <1>3, <1>4
<1>6. \A k \in 1 .. 6 : Operators[k][2] = "notcontains" <=> k = 1
  BY <1>2, <1>4
<1>7. \A k \in 1 .. 6 : Operators[k][2] \in OperatorNames
  BY <1>2, <1>4 DEF OperatorNames
<1> QED BY <1>5, <1>6, <1>7

(* The first operator in the list that a piece begins with is its longest. *)
LEMMA CriterionReads ==
  ASSUME NEW Z, NEW piece \in Seq(Z), piece # <<>>
  PROVE  /\ Criterion(piece) = Reading(piece)
         /\ Reading(piece).op \in OperatorNames /\ Reading(piece).operand \in Seq(Z)
         /\ Reading(piece) = [op |-> Reading(piece).op, operand |-> Reading(piece).operand]
<1> DEFINE found == FoundIn(piece)
           starts == {Operators[k] : k \in found}
           k == CHOOSE x \in found : \A y \in found : x <= y
           operator == CHOOSE o \in starts : \A p \in starts : Len(p[1]) <= Len(o[1])
           rest == After(piece, Len(Operators[k][1]))
           name == Operators[k][2]
           n == Len(piece)
<1>1. n \in Nat /\ n >= 1
  BY LenProperties, EmptySeq
<1>2. /\ found \subseteq 1 .. 6 /\ \A x, y \in found : x < y => x \in 1 .. 3 /\ y \in 4 .. 6
      /\ (1 \in found <=> n >= 2 /\ piece[1] = "<" /\ piece[2] = ">")
  BY OperatorsFound
<1>c. Criterion(piece) = IF found = {} THEN [op |-> "contains", operand |-> piece]
         ELSE [op |-> IF name = "notcontains" /\ rest = <<>> THEN "notempty" ELSE name,
               operand |-> rest]
  BY Zenon DEF Criterion, FoundIn
<1>s. starts = {Operators[x] : x \in {y \in DOMAIN Operators : IsPrefix(Operators[y][1], piece)}}
  BY Zenon DEF FoundIn
<1>r. Reading(piece) = CASE starts = {}        -> [op |-> "contains", operand |-> piece]
       [] piece = <<"<", ">">> -> [op |-> "notempty", operand |-> <<>>]
       [] OTHER -> [op |-> operator[2], operand |-> After(piece, Len(operator[1]))]
  BY Zenon, <1>s DEF Reading
<1>3. CASE found = {}
  <2>1. starts = {}
    BY <1>3
  <2>2. Criterion(piece) = [op |-> "contains", operand |-> piece]
    BY <1>3, <1>c
  <2>3. piece # <<"<", ">">>
    <3> SUFFICES ASSUME piece = <<"<", ">">> PROVE FALSE
      OBVIOUS
    <3>1. n = 2 /\ piece[1] = "<" /\ piece[2] = ">"
      OBVIOUS
    <3> QED BY <1>2, <1>3, <3>1
  <2>4. Reading(piece) = [op |-> "contains", operand |-> piece]
    <3> HIDE DEF starts, operator
    <3> QED BY <1>r, <2>1, <2>3
  <2> QED BY <2>2, <2>4 DEF OperatorNames
<1>4. CASE found # {}
  <2>1. found \subseteq Nat
    BY <1>2
  <2>2. \E x \in found : \A y \in found : x <= y
    <3> HIDE DEF found
    <3> QED BY <1>4, <2>1, LeastNumber
  <2>3. k \in found /\ \A y \in found : k <= y
    <3> HIDE DEF found
    <3> QED BY <2>2
  <2> HIDE DEF k
  <2>4. k \in 1 .. 6
    BY <1>2, <2>3
  <2>5. \A y \in found : y # k => Len(Operators[y][1]) < Len(Operators[k][1])
    <3> SUFFICES ASSUME NEW y \in found, y # k PROVE Len(Operators[y][1]) < Len(Operators[k][1])
      OBVIOUS
    <3>1. y \in 1 .. 6 /\ k <= y
      BY <1>2, <2>3
    <3>2. k \in 1 .. 3 /\ y \in 4 .. 6
      BY <1>2, <2>3, <2>4, <3>1
    <3>3. Len(Operators[k][1]) = 2 /\ Len(Operators[y][1]) = 1
      BY <2>4, <3>1, <3>2, OperatorsListed
    <3> QED BY <3>3
  <2>6. Len(Operators[k][1]) \in {1, 2}
    BY <2>4, OperatorsListed
  <2>7. operator = Operators[k]
    <3> HIDE DEF found, k
    <3>1. Operators[k] \in starts /\ \A p \in starts : Len(p[1]) <= Len(Operators[k][1])
      BY <2>3, <2>5, <2>6
    <3>2. \A o \in starts : (\A p \in starts : Len(p[1]) <= Len(o[1])) => o = Operators[k]
      <4> SUFFICES ASSUME NEW y \in found, \A p \in starts : Len(p[1]) <= Len(Operators[y][1])
                   PROVE Operators[y] = Operators[k]
        OBVIOUS
      <4>1. Len(Operators[k][1]) <= Len(Operators[y][1])
        BY <3>1
      <4>2. y # k => FALSE
        <5> SUFFICES ASSUME y # k PROVE FALSE
          OBVIOUS
        <5>1. Len(Operators[y][1]) < Len(Operators[k][1])
          BY <2>5
        <5>2. y \in 1 .. 6
          BY <1>2
        <5>3. Len(Operators[y][1]) \in {1, 2}
          BY <5>2, OperatorsListed
        <5> QED BY <2>6, <4>1, <5>1, <5>3
      <4> QED BY <4>2
    <3> HIDE DEF starts
    <3> QED BY <3>1, <3>2
  <2>8. starts # {}
    BY <1>4
  <2>9. IsPrefix(Operators[k][1], piece) /\ DOMAIN Operators = 1 .. 6
    BY <2>3, OperatorsAt DEF FoundIn
  <2>10. Len(Operators[k][1]) <= n
    BY <2>9 DEF IsPrefix
  <2>11. rest \in Seq(Z) /\ Len(rest) = n - Len(Operators[k][1])
    <3>1. Len(Operators[k][1]) \in 0 .. n
      BY <1>1, <2>6, <2>10
    <3> QED BY <3>1, AfterIs
  <2>12. name = "notcontains" /\ rest = <<>> <=> piece = <<"<", ">">>
    <3>1. ASSUME name = "notcontains", rest = <<>> PROVE piece = <<"<", ">">>
      <4>1. k = 1
        BY <2>4, <3>1, OperatorsListed
      <4>2. n = 2
        <5>1. Len(Operators[k][1]) = 2 /\ Len(rest) = 0
          BY <2>4, <3>1, <4>1, OperatorsListed, EmptySeq
        <5> HIDE DEF rest
        <5> QED BY <1>1, <2>11, <5>1
      <4>3. piece[1] = "<" /\ piece[2] = ">"
        BY <1>2, <2>3, <4>1
      <4> QED BY <4>2, <4>3
    <3>2. ASSUME piece = <<"<", ">">> PROVE name = "notcontains" /\ rest = <<>>
      <4>1. n = 2 /\ piece[1] = "<" /\ piece[2] = ">"
        BY <3>2
      <4>2. 1 \in found
        BY <1>2, <4>1
      <4>3. k = 1
        BY <2>3, <2>4, <4>2
      <4>4. Len(rest) = 0
        BY <2>4, <2>11, <4>1, <4>3, OperatorsListed
      <4>5. rest = <<>>
        <5> HIDE DEF rest
        <5> QED BY <2>11, <4>4, EmptySeq
      <4>6. name = "notcontains"
        BY <2>4, <4>3, OperatorsListed
      <4> QED BY <4>5, <4>6
    <3> QED BY <3>1, <3>2
  <2>13. name \in OperatorNames
    BY <2>4, OperatorsListed
  <2> HIDE DEF found, name, rest, operator, starts
  <2>14. CASE piece = <<"<", ">">>
    <3>1. Criterion(piece) = [op |-> "notempty", operand |-> <<>>]
      BY <1>4, <1>c, <2>12, <2>14
    <3>2. Reading(piece) = [op |-> "notempty", operand |-> <<>>]
      BY <1>r, <2>8, <2>14
    <3> QED BY <3>1, <3>2, EmptySeq DEF OperatorNames
  <2>15. CASE piece # <<"<", ">">>
    <3>1. Criterion(piece) = [op |-> name, operand |-> rest]
      BY <1>4, <1>c, <2>12, <2>15
    <3>2. Reading(piece) = [op |-> operator[2], operand |-> After(piece, Len(operator[1]))]
      BY <1>r, <2>8, <2>15
    <3>3. operator[2] = name /\ After(piece, Len(operator[1])) = rest
      BY <2>7 DEF name, rest
    <3> QED BY <2>11, <2>13, <3>1, <3>2, <3>3
  <2> QED BY <2>14, <2>15
<1> QED BY <1>3, <1>4

---------------------------------------------------------------------------
(* Cells and their order.                                                  *)

(* The characters that texts are made of.                                  *)
Chars == Range(Alphabet)

(* The code of a character is its place in the alphabet.                   *)
LEMMA CodeIs ==
  ASSUME Alphabet \in Seq(Chars), NEW c \in Chars
  PROVE  Code(c) \in Nat /\ Alphabet[Code(c)] = c
<1>1. DOMAIN Alphabet = 1 .. Len(Alphabet) /\ Len(Alphabet) \in Nat
  BY LenProperties
<1>2. \E i \in DOMAIN Alphabet : Alphabet[i] = c
  BY DEF Chars, Range
<1>3. Code(c) \in DOMAIN Alphabet /\ Alphabet[Code(c)] = c
  BY <1>2 DEF Code
<1> QED BY <1>1, <1>3

(* Of two texts that differ one comes before the other.                    *)
LEMMA TextsOrdered ==
  ASSUME Alphabet \in Seq(Chars), NEW s \in Seq(Chars), NEW t \in Seq(Chars)
  PROVE  ~TextLess(s, t) /\ ~TextLess(t, s) <=> s = t
<1>1. /\ Len(s) \in Nat /\ Len(t) \in Nat
      /\ \A i \in 1 .. Len(s) : s[i] \in Chars
      /\ \A i \in 1 .. Len(t) : t[i] \in Chars
  BY LenProperties, ElementOfSeq
<1>2. \A c \in Chars : Code(c) \in Nat /\ Alphabet[Code(c)] = c
  BY CodeIs
<1>3. \A u \in Seq(Chars) : ~TextLess(u, u)
  <2> SUFFICES ASSUME NEW u \in Seq(Chars), NEW k \in 1 .. Len(u), k > Len(u) \/ Code(u[k]) < Code(u[k])
               PROVE FALSE
    BY DEF TextLess
  <2>1. Len(u) \in Nat /\ u[k] \in Chars
    BY LenProperties, ElementOfSeq
  <2> QED BY <1>2, <2>1
<1>4. ASSUME s # t PROVE TextLess(s, t) \/ TextLess(t, s)
  <2> DEFINE apart == {i \in 1 .. Len(s) : i <= Len(t) /\ s[i] # t[i]}
  <2>1. CASE apart # {}
    <3>1. PICK k \in apart : \A i \in apart : k <= i
      <4>1. apart \subseteq Nat
        OBVIOUS
      <4> HIDE DEF apart
      <4> QED BY <2>1, <4>1, LeastNumber
    <3>2. k \in 1 .. Len(s) /\ k \in 1 .. Len(t) /\ s[k] # t[k] /\ k - 1 \in Nat
          /\ k - 1 <= Len(s) /\ k - 1 <= Len(t) /\ k <= Len(s) + 1 /\ k <= Len(t) + 1
      BY <1>1
    <3>3. \A i \in 1 .. k - 1 : s[i] = t[i]
      <4> SUFFICES ASSUME NEW i \in 1 .. k - 1 PROVE s[i] = t[i]
        OBVIOUS
      <4>1. i \in 1 .. Len(s) /\ i <= Len(t) /\ ~(k <= i)
        BY <1>1, <3>2
      <4> QED BY <3>1, <4>1
    <3>4. SubSeq(s, 1, k - 1) = SubSeq(t, 1, k - 1)
      BY <3>2, <3>3, SameBeginning
    <3>5. Code(s[k]) < Code(t[k]) \/ Code(t[k]) < Code(s[k])
      <4>1. s[k] \in Chars /\ t[k] \in Chars
        BY <1>1, <3>2
      <4>2. Code(s[k]) # Code(t[k])
        BY <1>2, <3>2, <4>1
      <4> QED BY <1>2, <4>1, <4>2
    <3>6. Code(s[k]) < Code(t[k]) => TextLess(s, t)
      BY <3>2, <3>4 DEF TextLess
    <3>7. Code(t[k]) < Code(s[k]) => TextLess(t, s)
      BY <3>2, <3>4 DEF TextLess
    <3> QED BY <3>5, <3>6, <3>7
  <2>2. CASE apart = {}
    <3>1. \A i \in 1 .. Len(s) : i <= Len(t) => s[i] = t[i]
      BY <2>2
    <3>2. Len(s) # Len(t)
      <4> SUFFICES ASSUME Len(s) = Len(t) PROVE FALSE
        OBVIOUS
      <4>1. \A i \in 1 .. Len(s) : s[i] = t[i]
        BY <1>1, <3>1
      <4> QED BY <1>4, <4>1, SeqEqual
    <3>3. CASE Len(s) < Len(t)
      <4> DEFINE k == Len(s) + 1
      <4>1. k \in 1 .. Len(t) /\ k <= Len(s) + 1 /\ k > Len(s) /\ k - 1 = Len(s)
            /\ Len(s) <= Len(s) /\ Len(s) <= Len(t)
        BY <1>1, <3>3
      <4>2. \A i \in 1 .. Len(s) : s[i] = t[i]
        BY <1>1, <3>1, <3>3
      <4>3. SubSeq(s, 1, k - 1) = SubSeq(t, 1, k - 1)
        BY <1>1, <4>1, <4>2, SameBeginning
      <4> HIDE DEF k
      <4> QED BY <4>1, <4>3 DEF TextLess
    <3>4. CASE Len(t) < Len(s)
      <4> DEFINE k == Len(t) + 1
      <4>1. k \in 1 .. Len(s) /\ k <= Len(t) + 1 /\ k > Len(t) /\ k - 1 = Len(t)
            /\ Len(t) <= Len(t) /\ Len(t) <= Len(s)
        BY <1>1, <3>4
      <4>2. \A i \in 1 .. Len(t) : t[i] = s[i]
        BY <1>1, <3>1, <3>4
      <4>3. SubSeq(t, 1, k - 1) = SubSeq(s, 1, k - 1)
        BY <1>1, <4>1, <4>2, SameBeginning
      <4> HIDE DEF k
      <4> QED BY <4>1, <4>3 DEF TextLess
    <3> QED BY <1>1, <3>2, <3>3, <3>4
  <2> QED BY <2>1, <2>2
<1> QED BY <1>3, <1>4

(* The cells a column can hold.                                            *)
CellSet == {NullCell, BlobCell} \cup {IntCell(n) : n \in 1 .. 2} \cup {RealCell(n) : n \in 1 .. 2}
             \cup {TextCell(t) : t \in Seq(Chars)}

(* The characters that cells other than texts are shown with.              *)
CellChars == {"#", "0", "1", "2", "."}

(* A cell has a class and a text; a number has a value and only a text has *)
(* no other.                                                               *)
LEMMA CellIs ==
  ASSUME CellChars \subseteq Chars, NEW cell \in CellSet
  PROVE  /\ cell.class \in {"null", "blob", "int", "real", "text"} /\ cell.text \in Seq(Chars)
         /\ cell.class \in {"int", "real"} => cell.number \in 1 .. 2
         /\ cell.class = "text" => cell = TextCell(cell.text)
<1>1. "#" \in Chars /\ "0" \in Chars /\ "1" \in Chars /\ "2" \in Chars /\ "." \in Chars
  BY DEF CellChars
<1>2. \A n \in 1 .. 2 : Numeral[n] \in Chars
  <2>1. Numeral[1] = "1" /\ Numeral[2] = "2"
    BY DEF Numeral
  <2>2. \A n \in 1 .. 2 : n = 1 \/ n = 2
    OBVIOUS
  <2> QED BY <1>1, <2>1, <2>2
<1>3. \A n \in 1 .. 2 : <<Numeral[n]>> \in Seq(Chars) /\ <<Numeral[n], ".", "0">> \in Seq(Chars)
  BY <1>1, <1>2
<1>4. CASE cell = NullCell
  BY <1>4, EmptySeq DEF NullCell
<1>5. CASE cell = BlobCell
  BY <1>1, <1>5 DEF BlobCell
<1>6. ASSUME NEW n \in 1 .. 2, cell = IntCell(n)
      PROVE cell.class = "int" /\ cell.text \in Seq(Chars) /\ cell.number \in 1 .. 2
  BY <1>3, <1>6 DEF IntCell
<1>7. ASSUME NEW n \in 1 .. 2, cell = RealCell(n)
      PROVE cell.class = "real" /\ cell.text \in Seq(Chars) /\ cell.number \in 1 .. 2
  BY <1>3, <1>7 DEF RealCell
<1>8. ASSUME NEW t \in Seq(Chars), cell = TextCell(t)
      PROVE cell.class = "text" /\ cell.text \in Seq(Chars) /\ cell = TextCell(cell.text)
  BY <1>8 DEF TextCell
<1> QED BY <1>4, <1>5, <1>6, <1>7, <1>8 DEF CellSet

(* The number of a text.                                                   *)
LEMMA NumberIs == ASSUME NEW t PROVE Number(t) \in 0 .. 2
  BY DEF Number

(* A stored cell is a cell, no number in a column of texts, and no numeric *)
(* text in a column of numbers.                                            *)
LEMMA StoredIs ==
  ASSUME CellChars \subseteq Chars, NEW cell \in CellSet, NEW type
  PROVE  /\ Stored(cell, type) \in CellSet
         /\ Stored(cell, type).class \in {"int", "real"} => ~TextAffinity(type)
         /\ Stored(cell, type).class = "text" /\ is_numeric_affinity(type) =>
              Number(Stored(cell, type).text) = 0
<1> DEFINE number == Number(cell.text)
           toText == TextAffinity(type) /\ cell.class \in {"int", "real"}
           toNumber == is_numeric_affinity(type) /\ cell.class \in {"int", "real", "text"} /\ number # 0
<1>1. Stored(cell, type) =
        CASE toText -> TextCell(cell.text)
          [] toNumber -> IF RealAffinity(type) THEN RealCell(number) ELSE IntCell(number)
          [] OTHER -> cell
  BY DEF Stored
<1>2. ~(TextAffinity(type) /\ is_numeric_affinity(type))
  BY DEF TextAffinity, is_numeric_affinity
<1>3. number \in 0 .. 2 /\ cell.text \in Seq(Chars)
  BY NumberIs, CellIs
<1>4. \A x \in CellSet : x.class = "text" => x = TextCell(x.text)
  BY CellIs
<1> HIDE DEF number
<1>5. CASE toText
  <2>1. Stored(cell, type) = TextCell(cell.text) /\ ~is_numeric_affinity(type)
    BY <1>1, <1>2, <1>5
  <2>2. TextCell(cell.text) \in CellSet /\ TextCell(cell.text).class = "text"
    BY <1>3 DEF CellSet, TextCell
  <2> QED BY <2>1, <2>2
<1>6. CASE toNumber
  <2>1. Stored(cell, type) = (IF RealAffinity(type) THEN RealCell(number) ELSE IntCell(number))
        /\ ~TextAffinity(type)
    BY <1>1, <1>2, <1>6
  <2>2. number \in 1 .. 2
    BY <1>3, <1>6
  <2>3. /\ RealCell(number) \in CellSet /\ IntCell(number) \in CellSet
        /\ RealCell(number).class = "real" /\ IntCell(number).class = "int"
    BY <2>2 DEF CellSet, RealCell, IntCell
  <2> QED BY <2>1, <2>2, <2>3
<1>7. CASE ~toText /\ ~toNumber
  <2>1. Stored(cell, type) = cell
    BY <1>1, <1>7
  <2> QED BY <1>7, <2>1 DEF number
<1> QED BY <1>5, <1>6, <1>7

(* The cells that are equal to a text.                                     *)
LEMMA CellsEqual ==
  ASSUME CellChars \subseteq Chars, Alphabet \in Seq(Chars), NEW x \in CellSet, NEW t \in Seq(Chars)
  PROVE  /\ x.class \in {"int", "real"} => ~CellEqual(x, TextCell(t))
         /\ x.class = "text" => (CellEqual(x, TextCell(t)) <=> x.text = t)
         /\ x.class = "blob" => ~CellEqual(x, TextCell(t))
<1>1. TextCell(t).class = "text" /\ TextCell(t).text = t
  BY DEF TextCell
<1>2. x.class \in {"null", "blob", "int", "real", "text"} /\ x.text \in Seq(Chars)
  BY CellIs
<1>3. /\ ClassRank("int") = 1 /\ ClassRank("real") = 1 /\ ClassRank("text") = 2 /\ ClassRank("blob") = 3
  BY DEF ClassRank
<1> HIDE DEF CellSet
<1>4. ASSUME x.class = "text" PROVE CellEqual(x, TextCell(t)) <=> x.text = t
  <2>1. CellEqual(x, TextCell(t)) <=> ~TextLess(x.text, t) /\ ~TextLess(t, x.text)
    BY <1>1, <1>3, <1>4 DEF CellEqual, CellLess
  <2> QED BY <1>2, <2>1, TextsOrdered
<1>5. ASSUME x.class \in {"int", "real"} PROVE ~CellEqual(x, TextCell(t))
  BY <1>1, <1>3, <1>5 DEF CellEqual, CellLess
<1>6. ASSUME x.class = "blob" PROVE ~CellEqual(x, TextCell(t))
  BY <1>1, <1>3, <1>6 DEF CellEqual, CellLess
<1> QED BY <1>4, <1>5, <1>6

(* The cells that are equal to a number.                                   *)
LEMMA NumbersEqual ==
  ASSUME CellChars \subseteq Chars, NEW x \in CellSet, NEW n \in 0 .. 2,
         NEW y, y = IntCell(n) \/ y = RealCell(n)
  PROVE  /\ x.class \in {"int", "real"} => (CellEqual(x, y) <=> x.number = n)
         /\ x.class \in {"text", "blob"} => ~CellEqual(x, y)
<1>1. y.class \in {"int", "real"} /\ y.number = n
  BY DEF IntCell, RealCell
<1>2. x.class \in {"int", "real"} => x.number \in 1 .. 2
  BY CellIs
<1>3. /\ ClassRank("int") = 1 /\ ClassRank("real") = 1 /\ ClassRank("text") = 2 /\ ClassRank("blob") = 3
  BY DEF ClassRank
<1> HIDE DEF CellSet
<1>4. ASSUME x.class \in {"int", "real"} PROVE CellEqual(x, y) <=> x.number = n
  <2>1. ClassRank(x.class) = 1 /\ ClassRank(y.class) = 1
    BY <1>1, <1>3, <1>4
  <2>2. CellEqual(x, y) <=> ~(x.number < n) /\ ~(n < x.number)
    BY <1>1, <2>1 DEF CellEqual, CellLess
  <2> QED BY <1>2, <1>4, <2>2
<1>5. ASSUME x.class \in {"text", "blob"} PROVE ~CellEqual(x, y)
  <2>1. ClassRank(x.class) \in {2, 3} /\ ClassRank(y.class) = 1
    BY <1>1, <1>3, <1>5
  <2> QED BY <2>1 DEF CellEqual, CellLess
<1> QED BY <1>4, <1>5

(* What a test of = looks for, and what it means.                          *)
EqualOp(operand, type) == IF has_no_affinity(type) /\ Number(operand) # 0 THEN "eqnumber" ELSE "eq"
EqualMeant(cell, operand) ==
  /\ cell.class # "null"
  /\ IF cell.class \in {"int", "real"} THEN cell.number = Number(operand)
     ELSE cell.class = "text" /\ cell.text = operand
EqualHolds(cell, operand, type) ==
  /\ cell.class # "null"
  /\ \/ CellEqual(cell, Operand(operand, type))
     \/ EqualOp(operand, type) = "eqnumber" /\ CellEqual(cell, RealCell(Number(operand)))

(* With the second arm in a column without affinity, and the conversion of *)
(* the operand in any other, it finds the stored cells that are it.        *)
LEMMA EqualMeansOperand ==
  ASSUME CellChars \subseteq Chars, Alphabet \in Seq(Chars),
         NEW cell0 \in CellSet, NEW type, NEW operand \in Seq(Chars), NEW cell, cell = Stored(cell0, type)
  PROVE  EqualHolds(cell, operand, type) <=> EqualMeant(cell, operand)
<1> DEFINE n == Number(operand)  numeric == is_numeric_affinity(type)
<1>1. /\ cell \in CellSet
      /\ cell.class \in {"int", "real"} => ~TextAffinity(type)
      /\ cell.class = "text" /\ numeric => Number(cell.text) = 0
  BY StoredIs
<1>2. /\ cell.class \in {"null", "blob", "int", "real", "text"} /\ cell.text \in Seq(Chars)
      /\ cell.class \in {"int", "real"} => cell.number \in 1 .. 2
  BY <1>1, CellIs
<1>3. n \in 0 .. 2
  BY NumberIs
<1>4. Operand(operand, type) = IF numeric /\ n # 0 THEN IntCell(n) ELSE TextCell(operand)
  BY DEF Operand
<1>5. /\ cell.class \in {"int", "real"} => ~CellEqual(cell, TextCell(operand))
      /\ cell.class = "text" => (CellEqual(cell, TextCell(operand)) <=> cell.text = operand)
      /\ cell.class = "blob" => ~CellEqual(cell, TextCell(operand))
  BY <1>1, CellsEqual
<1>6. \A y \in {IntCell(n), RealCell(n)} :
        /\ cell.class \in {"int", "real"} => (CellEqual(cell, y) <=> cell.number = n)
        /\ cell.class \in {"text", "blob"} => ~CellEqual(cell, y)
  <2> HIDE DEF n
  <2> QED BY <1>1, <1>3, NumbersEqual
<1>7. EqualOp(operand, type) = "eqnumber" <=> has_no_affinity(type) /\ n # 0
  BY DEF EqualOp
<1>8. ~numeric /\ ~TextAffinity(type) => has_no_affinity(type)
  BY DEF is_numeric_affinity, TextAffinity, has_no_affinity, declares_blob
<1>9. cell.class = "text" /\ cell.text = operand /\ numeric => n = 0
  BY <1>1
<1> HIDE DEF n, numeric
<1>a. EqualHolds(cell, operand, type) <=>
        /\ cell.class # "null"
        /\ \/ CellEqual(cell, Operand(operand, type))
           \/ EqualOp(operand, type) = "eqnumber" /\ CellEqual(cell, RealCell(n))
  BY DEF EqualHolds, n
<1>b. EqualMeant(cell, operand) <=>
        /\ cell.class # "null"
        /\ IF cell.class \in {"int", "real"} THEN cell.number = n
           ELSE cell.class = "text" /\ cell.text = operand
  BY DEF EqualMeant, n
<1>10. CASE cell.class = "null"
  BY <1>10, <1>a, <1>b
<1>11. CASE cell.class = "blob"
  <2>1. ~CellEqual(cell, RealCell(n)) /\ ~CellEqual(cell, IntCell(n)) /\ ~CellEqual(cell, TextCell(operand))
    BY <1>5, <1>6, <1>11
  <2>2. ~CellEqual(cell, Operand(operand, type))
    BY <1>4, <2>1
  <2> QED BY <1>11, <1>a, <1>b, <2>1, <2>2
<1>12. CASE cell.class = "text"
  <2>1. ~CellEqual(cell, RealCell(n)) /\ ~CellEqual(cell, IntCell(n))
        /\ (CellEqual(cell, TextCell(operand)) <=> cell.text = operand)
    BY <1>5, <1>6, <1>12
  <2>2. CellEqual(cell, Operand(operand, type)) <=> cell.text = operand
    <3>1. CASE numeric /\ n # 0
      BY <1>4, <1>9, <1>12, <2>1, <3>1
    <3>2. CASE ~(numeric /\ n # 0)
      BY <1>4, <2>1, <3>2
    <3> QED BY <3>1, <3>2
  <2> QED BY <1>12, <1>a, <1>b, <2>1, <2>2
<1>13. CASE cell.class \in {"int", "real"}
  <2>1. (CellEqual(cell, RealCell(n)) <=> cell.number = n) /\ (CellEqual(cell, IntCell(n)) <=> cell.number = n)
        /\ ~CellEqual(cell, TextCell(operand)) /\ cell.number \in 1 .. 2 /\ ~TextAffinity(type)
        /\ cell.class # "null"
    BY <1>1, <1>2, <1>5, <1>6, <1>13
  <2>2. CASE numeric /\ n # 0
    <3>1. Operand(operand, type) = IntCell(n)
      BY <1>4, <2>2
    <3> QED BY <1>13, <1>a, <1>b, <2>1, <3>1
  <2>3. CASE numeric /\ n = 0
    <3>1. Operand(operand, type) = TextCell(operand) /\ EqualOp(operand, type) # "eqnumber"
      BY <1>4, <1>7, <2>3
    <3> QED BY <1>13, <1>a, <1>b, <2>1, <2>3, <3>1
  <2>4. CASE ~numeric
    <3>1. Operand(operand, type) = TextCell(operand) /\ (EqualOp(operand, type) = "eqnumber" <=> n # 0)
      BY <1>4, <1>7, <1>8, <2>1, <2>4
    <3> QED BY <1>13, <1>a, <1>b, <2>1, <3>1
  <2> QED BY <2>2, <2>3, <2>4
<1> QED BY <1>2, <1>10, <1>11, <1>12, <1>13

---------------------------------------------------------------------------
(* Criteria, and the tests that are made of them.                          *)

(* Criteria over texts of some characters.                                 *)
CriteriaOf(Z) == [op : OperatorNames, operand : Seq(Z)]

(* The criteria of a filter, whatever their order.                         *)
LEMMA ParsedIs ==
  ASSUME NEW Z, NEW value \in Seq(Seq(Z))
  PROVE  /\ parse_criteria(value) \in Seq(CriteriaOf(Z))
         /\ ToSet(parse_criteria(value)) = {Reading(piece) : piece \in ToSet(value) \ {<<>>}}
<1> DEFINE S == ToSet(value) \ {<<>>}
           pieces == Kept(value, S)
           out == parse_criteria(value)
<1>1. pieces \in Seq(Seq(Z)) /\ ToSet(pieces) = S
  <2>1. pieces \in Seq(Seq(Z)) /\ ToSet(pieces) = ToSet(value) \cap S
    <3> HIDE DEF S
    <3> QED BY KeptElements
  <2> QED BY <2>1
<1>2. out = [i \in DOMAIN pieces |-> Criterion(pieces[i])]
  BY DEF parse_criteria
<1> HIDE DEF pieces, out
<1>3. DOMAIN pieces = 1 .. Len(pieces) /\ Len(pieces) \in Nat /\ S = {pieces[i] : i \in 1 .. Len(pieces)}
  BY <1>1, LenProperties DEF ToSet
<1>4. \A i \in 1 .. Len(pieces) : pieces[i] \in Seq(Z) /\ pieces[i] # <<>>
  <2>1. \A i \in 1 .. Len(pieces) : pieces[i] \in S
    BY <1>3
  <2> QED BY <1>1, <2>1, ElementOfSeq
<1> HIDE DEF S
<1>5. \A i \in 1 .. Len(pieces) :
        /\ Criterion(pieces[i]) = Reading(pieces[i])
        /\ Reading(pieces[i]) \in CriteriaOf(Z)
  <2> SUFFICES ASSUME NEW i \in 1 .. Len(pieces)
               PROVE Criterion(pieces[i]) = Reading(pieces[i]) /\ Reading(pieces[i]) \in CriteriaOf(Z)
    OBVIOUS
  <2> DEFINE r == Reading(pieces[i])
  <2>1. Criterion(pieces[i]) = r /\ r.op \in OperatorNames /\ r.operand \in Seq(Z)
        /\ r = [op |-> r.op, operand |-> r.operand]
    BY <1>4, CriterionReads
  <2> HIDE DEF r
  <2>2. r \in CriteriaOf(Z)
    BY <2>1 DEF CriteriaOf
  <2> QED BY <2>1, <2>2 DEF r
<1>6. out \in Seq(CriteriaOf(Z)) /\ DOMAIN out = 1 .. Len(pieces)
  BY <1>2, <1>3, <1>5
<1>7. ToSet(out) = {Reading(piece) : piece \in S}
  <2>1. \A i \in 1 .. Len(pieces) : out[i] = Reading(pieces[i])
    BY <1>2, <1>3, <1>5
  <2>2. ToSet(out) = {out[i] : i \in 1 .. Len(pieces)}
    BY <1>6 DEF ToSet
  <2> QED BY <1>3, <2>1, <2>2
<1> QED BY <1>6, <1>7 DEF S, out

(* The alternatives of a filter, and its other criteria.                   *)
LEMMA OrsAndsAre ==
  ASSUME NEW X, NEW criteria \in Seq(X)
  PROVE  /\ Ors(criteria) \in Seq(X) /\ ToSet(Ors(criteria)) = {c \in ToSet(criteria) : ~is_and(c)}
         /\ Ands(criteria) \in Seq(X) /\ ToSet(Ands(criteria)) = {c \in ToSet(criteria) : is_and(c)}
<1> DEFINE either == {c \in ToSet(criteria) : ~is_and(c)}  all == {c \in ToSet(criteria) : is_and(c)}
<1>1. either \subseteq ToSet(criteria) /\ all \subseteq ToSet(criteria)
  OBVIOUS
<1>2. /\ Ors(criteria) = Kept(criteria, either) /\ Ands(criteria) = Kept(criteria, all)
  BY DEF Ors, Ands
<1> HIDE DEF either, all
<1>3. \A S \in {either, all} : Kept(criteria, S) \in Seq(X) /\ ToSet(Kept(criteria, S)) = ToSet(criteria) \cap S
  BY KeptElements
<1> QED BY <1>1, <1>2, <1>3 DEF either, all

(* A test of the clause beside what is bound to it.                        *)
OpIn(c, noAffinity) == IF c.op = "eq" /\ noAffinity /\ Number(c.operand) # 0 THEN "eqnumber" ELSE c.op
Asked(op, column, group, c) == [test |-> Test(op, column, group), args |-> BoundTo(c)]
PairHolds(x, row, types) ==
  /\ x.test.op # "never"
  /\ Holds(x.test, IF HasPlaceholder(x.test.op) THEN x.args[1] ELSE <<>>, row[x.test.column], types[x.test.column])

(* A criterion's test holds for the cells the criterion means.             *)
LEMMA AskedHolds ==
  ASSUME CellChars \subseteq Chars, Alphabet \in Seq(Chars),
         NEW row, NEW types, NEW column, NEW group,
         NEW cell0 \in CellSet, row[column] = Stored(cell0, types[column]), NEW c \in CriteriaOf(Chars)
  PROVE  PairHolds(Asked(OpIn(c, has_no_affinity(types[column])), column, group, c), row, types)
           <=> CriterionMeans(c, row[column], types[column])
<1> DEFINE cell == row[column]  type == types[column]
           op == OpIn(c, has_no_affinity(type))
           test == Test(op, column, group)
           x == Asked(op, column, group, c)
           operand == Operand(c.operand, type)
<1>1. c.op \in OperatorNames /\ c.operand \in Seq(Chars)
  BY DEF CriteriaOf
<1>2. cell \in CellSet /\ cell.text \in Seq(Chars)
  BY StoredIs, CellIs
<1>3. x.test = test /\ x.args = BoundTo(c) /\ test.op = op /\ test.column = column
  BY DEF Asked, Test
<1>4. op = IF c.op = "eq" THEN EqualOp(c.operand, type) ELSE c.op
  BY DEF OpIn, EqualOp
<1> HIDE DEF op, test, x
<1>5. op \in OperatorNames \cup {"eqnumber"}
  BY <1>1, <1>4 DEF EqualOp, OperatorNames
<1>6. op # "never" /\ (HasPlaceholder(op) <=> c.op # "notempty") /\ (HasPlaceholder(c.op) <=> c.op # "notempty")
  BY <1>1, <1>4 DEF HasPlaceholder, EqualOp, OperatorNames
<1> DEFINE param == IF HasPlaceholder(op) THEN x.args[1] ELSE <<>>
<1>7. PairHolds(x, row, types) <=> Holds(test, param, cell, type)
  BY <1>3, <1>6 DEF PairHolds
<1>8. param = CASE c.op = "notempty" -> <<>>
                [] c.op \in {"contains", "notcontains"} -> contains_pattern(c.operand)
                [] OTHER -> c.operand
  BY <1>1, <1>3, <1>6 DEF BoundTo, OperatorNames
<1> HIDE DEF param, cell, type
<1>9. CASE c.op = "notempty"
  <2>1. test.op = "notempty"
    BY <1>3, <1>4, <1>9
  <2>2. Holds(test, param, cell, type) <=> cell.class # "null" /\ cell.text # <<>>
    BY <2>1 DEF Holds
  <2>3. CriterionMeans(c, cell, type) <=> cell.class # "null" /\ cell.text # <<>>
    BY <1>9 DEF CriterionMeans
  <2> QED BY <1>7, <2>2, <2>3 DEF x, cell, type, op
<1>10. CASE c.op = "contains"
  <2>1. test.op = "contains" /\ param = contains_pattern(c.operand)
    BY <1>3, <1>4, <1>8, <1>10
  <2>2. Holds(test, param, cell, type) <=> cell.class # "null" /\ Like(cell.text, contains_pattern(c.operand))
    BY <2>1 DEF Holds
  <2>3. CriterionMeans(c, cell, type) <=> cell.class # "null" /\ ContainsText(cell.text, c.operand)
    BY <1>10 DEF CriterionMeans
  <2>4. Like(cell.text, contains_pattern(c.operand)) <=> ContainsText(cell.text, c.operand)
    BY <1>1, <1>2, LikeLiteral
  <2> QED BY <1>7, <2>2, <2>3, <2>4 DEF x, cell, type, op
<1>11. CASE c.op = "notcontains"
  <2>1. test.op = "notcontains" /\ param = contains_pattern(c.operand)
    BY <1>3, <1>4, <1>8, <1>11
  <2>2. Holds(test, param, cell, type) <=> cell.class # "null" /\ ~Like(cell.text, contains_pattern(c.operand))
    BY <2>1 DEF Holds
  <2>3. CriterionMeans(c, cell, type) <=> cell.class # "null" /\ ~ContainsText(cell.text, c.operand)
    BY <1>11 DEF CriterionMeans
  <2>4. Like(cell.text, contains_pattern(c.operand)) <=> ContainsText(cell.text, c.operand)
    BY <1>1, <1>2, LikeLiteral
  <2> QED BY <1>7, <2>2, <2>3, <2>4 DEF x, cell, type, op
<1>12. CASE c.op \in {"ge", "le", "gt", "lt"}
  <2>1. test.op = c.op /\ param = c.operand
    BY <1>3, <1>4, <1>8, <1>12
  <2>2. Holds(test, param, cell, type) <=> CriterionMeans(c, cell, type)
    BY <1>12, <2>1 DEF Holds, CriterionMeans
  <2> QED BY <1>7, <2>2 DEF x, cell, type, op
<1>13. CASE c.op = "eq"
  <2>1. test.op = EqualOp(c.operand, type) /\ param = c.operand
    BY <1>3, <1>4, <1>8, <1>13
  <2>2. Holds(test, param, cell, type) <=> EqualHolds(cell, c.operand, type)
    <3>1. CASE EqualOp(c.operand, type) = "eq"
      BY <2>1, <3>1 DEF Holds, EqualHolds
    <3>2. CASE EqualOp(c.operand, type) = "eqnumber"
      BY <2>1, <3>2 DEF Holds, EqualHolds
    <3> QED BY <3>1, <3>2 DEF EqualOp
  <2>3. CriterionMeans(c, cell, type) <=> EqualMeant(cell, c.operand)
    BY <1>13 DEF CriterionMeans, EqualMeant
  <2>4. EqualHolds(cell, c.operand, type) <=> EqualMeant(cell, c.operand)
    <3>1. cell = Stored(cell0, type)
      BY DEF cell, type
    <3> QED BY <1>1, <3>1, EqualMeansOperand
  <2> QED BY <1>7, <2>2, <2>3, <2>4 DEF x, cell, type, op
<1> QED BY <1>1, <1>9, <1>10, <1>11, <1>12, <1>13 DEF OperatorNames

(* Tests of columns, and what is bound to them.                            *)
TestOps == OperatorNames \cup {"eqnumber", "never", "regex", "coalescedregex"}
TestsOver(N) == [op : TestOps, column : N, group : Nat \X Nat, pattern : Seq(Chars)]
ParamChars == Chars \cup LikeChars
PairsOver(N) == Pairs(TestsOver(N), Seq(ParamChars))

(* The pattern of a searched text.                                         *)
LEMMA PatternTyped == ASSUME NEW v \in Seq(Chars) PROVE contains_pattern(v) \in Seq(ParamChars)
<1> DEFINE any == <<"%">>
<1>1. Chars \subseteq ParamChars /\ LikeChars \subseteq ParamChars /\ any \in Seq(LikeChars)
  BY DEF ParamChars, LikeChars
<1> HIDE DEF any
<1>2. v \in Seq(ParamChars) /\ any \in Seq(ParamChars)
  BY <1>1, SeqMonotonic
<1>3. escape_like(v) \in Seq(ParamChars)
  BY <1>1, <1>2, LikeEscapedTyped
<1>4. any \o escape_like(v) \in Seq(ParamChars)
  BY <1>2, <1>3, ConcatProperties
<1>5. (any \o escape_like(v)) \o any \in Seq(ParamChars)
  BY <1>2, <1>4, ConcatProperties
<1> QED BY <1>5, Zenon DEF contains_pattern, any

(* A criterion whose test has a placeholder binds one parameter, any other *)
(* none.                                                                   *)
LEMMA BoundTyped ==
  ASSUME NEW c \in CriteriaOf(Chars)
  PROVE  /\ BoundTo(c) \in Seq(Seq(ParamChars))
         /\ HasPlaceholder(c.op) => \E u : BoundTo(c) = <<u>>
         /\ ~HasPlaceholder(c.op) => BoundTo(c) = <<>>
<1>1. c.operand \in Seq(Chars) /\ contains_pattern(c.operand) \in Seq(ParamChars)
  BY PatternTyped DEF CriteriaOf
<1>2. c.operand \in Seq(ParamChars)
  <2>1. Chars \subseteq ParamChars
    BY DEF ParamChars
  <2> QED BY <1>1, <2>1, SeqMonotonic
<1> DEFINE u == IF c.op \in {"contains", "notcontains"} THEN contains_pattern(c.operand) ELSE c.operand
<1>3. u \in Seq(ParamChars)
  BY <1>1, <1>2
<1>4. BoundTo(c) = IF ~HasPlaceholder(c.op) THEN <<>> ELSE <<u>>
  BY DEF BoundTo
<1> HIDE DEF u
<1>5. <<u>> \in Seq(Seq(ParamChars)) /\ <<>> \in Seq(Seq(ParamChars))
  BY <1>3
<1> QED BY <1>4, <1>5

(* A test and its parameter fit.                                           *)
LEMMA AskedTyped ==
  ASSUME NEW N, NEW column \in N, NEW group \in Nat \X Nat, NEW c \in CriteriaOf(Chars),
         NEW op, op = c.op \/ (op = "eqnumber" /\ c.op = "eq")
  PROVE  /\ Asked(op, column, group, c) \in PairsOver(N) /\ Fits(Asked(op, column, group, c))
         /\ Asked(op, column, group, c).test = Test(op, column, group)
         /\ Asked(op, column, group, c).test.group = group
         /\ Asked(op, column, group, c).args = BoundTo(c)
<1> DEFINE x == Asked(op, column, group, c)
<1>1. c.op \in OperatorNames
  BY DEF CriteriaOf
<1>2. op \in TestOps /\ (HasPlaceholder(op) <=> HasPlaceholder(c.op))
  BY <1>1 DEF TestOps, HasPlaceholder, OperatorNames
<1>3. x.test = Test(op, column, group) /\ x.args = BoundTo(c) /\ x.test.op = op /\ x.test.group = group
      /\ x = [test |-> Test(op, column, group), args |-> BoundTo(c)]
  BY DEF Asked, Test
<1>4. Test(op, column, group) \in TestsOver(N)
  BY <1>2, EmptySeq DEF Test, TestsOver
<1>5. BoundTo(c) \in Seq(Seq(ParamChars))
  BY BoundTyped
<1> HIDE DEF x
<1>6. x \in PairsOver(N)
  BY <1>3, <1>4, <1>5 DEF PairsOver, Pairs
<1>7. Fits(x)
  BY <1>2, <1>3, BoundTyped DEF Fits
<1> QED BY <1>3, <1>6, <1>7 DEF x

(* The tests of a filter in the order they stand in the clause.            *)
OrPairs(criteria, column, k, noAffinity) ==
  [i \in DOMAIN Ors(criteria) |-> Asked(OpIn(Ors(criteria)[i], noAffinity), column, <<k, 0>>, Ors(criteria)[i])]
AndPairs(criteria, column, k) ==
  [i \in DOMAIN Ands(criteria) |-> Asked(Ands(criteria)[i].op, column, <<k, i>>, Ands(criteria)[i])]
FilterPairs(criteria, column, k, noAffinity) ==
  OrPairs(criteria, column, k, noAffinity) \o AndPairs(criteria, column, k)

(* They are the tests and the parameters that the code puts into the       *)
(* clause.                                                                 *)
LEMMA FilterPairsTyped ==
  ASSUME NEW N, NEW column \in N, NEW k \in Nat, NEW criteria \in Seq(CriteriaOf(Chars)), NEW noAffinity
  PROVE  /\ OrPairs(criteria, column, k, noAffinity) \in Seq(PairsOver(N))
         /\ AndPairs(criteria, column, k) \in Seq(PairsOver(N))
         /\ FilterPairs(criteria, column, k, noAffinity) \in Seq(PairsOver(N))
         /\ TestsOf(FilterPairs(criteria, column, k, noAffinity)) = Tests(criteria, column, k, noAffinity)
         /\ ArgsOf(FilterPairs(criteria, column, k, noAffinity)) = Params(criteria)
         /\ \A x \in ToSet(FilterPairs(criteria, column, k, noAffinity)) : Fits(x) /\ x.test.group[1] = k
<1> DEFINE C == CriteriaOf(Chars)  P == PairsOver(N)
           ors == Ors(criteria)  ands == Ands(criteria)
           p == OrPairs(criteria, column, k, noAffinity)  q == AndPairs(criteria, column, k)
           op(c) == IF c.op = "eq" /\ noAffinity /\ Number(c.operand) # 0 THEN "eqnumber" ELSE c.op
<1>1. ors \in Seq(C) /\ ands \in Seq(C)
  BY OrsAndsAre
<1>2. /\ DOMAIN ors = 1 .. Len(ors) /\ Len(ors) \in Nat /\ \A i \in DOMAIN ors : ors[i] \in C
      /\ DOMAIN ands = 1 .. Len(ands) /\ Len(ands) \in Nat /\ \A i \in DOMAIN ands : ands[i] \in C
  BY <1>1, LenProperties, ElementOfSeq
<1>3. /\ p = [i \in DOMAIN ors |-> Asked(OpIn(ors[i], noAffinity), column, <<k, 0>>, ors[i])]
      /\ q = [i \in DOMAIN ands |-> Asked(ands[i].op, column, <<k, i>>, ands[i])]
  BY DEF OrPairs, AndPairs
<1>4. \A i \in DOMAIN ors :
        /\ p[i] \in P /\ Fits(p[i]) /\ p[i].test = Test(op(ors[i]), column, <<k, 0>>)
        /\ p[i].test.group[1] = k /\ p[i].args = BoundTo(ors[i])
  <2> SUFFICES ASSUME NEW i \in DOMAIN ors
               PROVE  /\ p[i] \in P /\ Fits(p[i]) /\ p[i].test = Test(op(ors[i]), column, <<k, 0>>)
                      /\ p[i].test.group[1] = k /\ p[i].args = BoundTo(ors[i])
    OBVIOUS
  <2> DEFINE c == ors[i]
  <2>1. c \in C /\ <<k, 0>> \in Nat \X Nat /\ p[i] = Asked(OpIn(c, noAffinity), column, <<k, 0>>, c)
            /\ OpIn(c, noAffinity) = op(c)
    BY <1>2, <1>3 DEF OpIn
  <2> HIDE DEF c, C, p, P
  <2>2. (OpIn(c, noAffinity) = c.op \/ (OpIn(c, noAffinity) = "eqnumber" /\ c.op = "eq")) /\ c \in CriteriaOf(Chars)
    BY <2>1 DEF C, OpIn
  <2>3. /\ Asked(OpIn(c, noAffinity), column, <<k, 0>>, c) \in PairsOver(N)
               /\ Fits(Asked(OpIn(c, noAffinity), column, <<k, 0>>, c))
       /\ Asked(OpIn(c, noAffinity), column, <<k, 0>>, c).test = Test(OpIn(c, noAffinity), column, <<k, 0>>)
        /\ Asked(OpIn(c, noAffinity), column, <<k, 0>>, c).test.group = <<k, 0>>
               /\ Asked(OpIn(c, noAffinity), column, <<k, 0>>, c).args = BoundTo(c)
    BY <2>1, <2>2, AskedTyped
  <2> QED BY <2>1, <2>3 DEF c, P
<1>5. \A i \in DOMAIN ands :
        /\ q[i] \in P /\ Fits(q[i]) /\ q[i].test = Test(ands[i].op, column, <<k, i>>)
        /\ q[i].test.group[1] = k /\ q[i].args = BoundTo(ands[i])
  <2> SUFFICES ASSUME NEW i \in DOMAIN ands
               PROVE  /\ q[i] \in P /\ Fits(q[i]) /\ q[i].test = Test(ands[i].op, column, <<k, i>>)
                      /\ q[i].test.group[1] = k /\ q[i].args = BoundTo(ands[i])
    OBVIOUS
  <2> DEFINE c == ands[i]
  <2>1. c \in C /\ <<k, i>> \in Nat \X Nat /\ q[i] = Asked(c.op, column, <<k, i>>, c)
    BY <1>2, <1>3
  <2> HIDE DEF c, C, q, P
  <2>2. c \in CriteriaOf(Chars)
    BY <2>1 DEF C
  <2>3. /\ Asked(c.op, column, <<k, i>>, c) \in PairsOver(N) /\ Fits(Asked(c.op, column, <<k, i>>, c))
       /\ Asked(c.op, column, <<k, i>>, c).test = Test(c.op, column, <<k, i>>)
        /\ Asked(c.op, column, <<k, i>>, c).test.group = <<k, i>>
               /\ Asked(c.op, column, <<k, i>>, c).args = BoundTo(c)
    BY <2>1, <2>2, AskedTyped
  <2> QED BY <2>1, <2>3 DEF c, P
<1> HIDE DEF C, P
<1>6. p \in Seq(P) /\ q \in Seq(P) /\ DOMAIN p = DOMAIN ors /\ DOMAIN q = DOMAIN ands
  <2>1. DOMAIN p = 1 .. Len(ors) /\ DOMAIN q = 1 .. Len(ands) /\ DOMAIN p = DOMAIN ors /\ DOMAIN q = DOMAIN ands
    BY <1>2, <1>3
  <2>2. p = [i \in 1 .. Len(ors) |-> p[i]] /\ q = [i \in 1 .. Len(ands) |-> q[i]]
    BY <1>2, <1>3
  <2> HIDE DEF p, q, ors, ands
  <2>3. p \in [1 .. Len(ors) -> P] /\ q \in [1 .. Len(ands) -> P]
    BY <1>2, <1>4, <1>5, <2>2
  <2> QED BY <1>2, <2>1, <2>3
<1>7. /\ TestsOf(p) = [i \in DOMAIN ors |-> Test(op(ors[i]), column, <<k, 0>>)]
      /\ TestsOf(q) = [i \in DOMAIN ands |-> Test(ands[i].op, column, <<k, i>>)]
  <2>1. TestsOf(p) = [i \in DOMAIN ors |-> p[i].test] /\ TestsOf(q) = [i \in DOMAIN ands |-> q[i].test]
    BY <1>6 DEF TestsOf
  <2> HIDE DEF p, q, ors, ands
  <2> QED BY <1>4, <1>5, <2>1
<1>8. ArgsOf(p) = ParamsOf(ors) /\ ArgsOf(q) = ParamsOf(ands)
  <2>1. /\ [i \in DOMAIN p |-> p[i].args] = [i \in DOMAIN ors |-> BoundTo(ors[i])]
        /\ [i \in DOMAIN q |-> q[i].args] = [i \in DOMAIN ands |-> BoundTo(ands[i])]
    <3> HIDE DEF p, q, ors, ands
    <3> QED BY <1>4, <1>5, <1>6
  <2> HIDE DEF p, q, ors, ands
  <2> QED BY <2>1 DEF ArgsOf, ParamsOf
<1>9. ParamsOf(ors \o ands) = ParamsOf(ors) \o ParamsOf(ands)
  <2> DEFINE g == [c \in C |-> BoundTo(c)]
  <2>1. g \in [C -> Seq(Seq(ParamChars))]
    BY BoundTyped DEF C
  <2>2. \A s \in Seq(C) : ParamsOf(s) = FlattenSeq(Mapped(s, g)) /\ Mapped(s, g) \in Seq(Seq(Seq(ParamChars)))
    <3> SUFFICES ASSUME NEW s \in Seq(C)
                 PROVE ParamsOf(s) = FlattenSeq(Mapped(s, g)) /\ Mapped(s, g) \in Seq(Seq(Seq(ParamChars)))
      OBVIOUS
    <3>1. \A i \in DOMAIN s : s[i] \in C
      BY LenProperties, ElementOfSeq
    <3>2. [i \in DOMAIN s |-> BoundTo(s[i])] = Mapped(s, g)
      BY <3>1 DEF Mapped
    <3>3. Mapped(s, g) \in Seq(Seq(Seq(ParamChars)))
      <4> HIDE DEF g
      <4> QED BY <2>1, MappedTyped
    <3> QED BY <3>2, <3>3 DEF ParamsOf
  <2> HIDE DEF g, ors, ands
  <2>3. Mapped(ors \o ands, g) = Mapped(ors, g) \o Mapped(ands, g) /\ ors \o ands \in Seq(C)
    BY <1>1, <2>1, MappedCat, ConcatProperties
  <2>4. FlattenSeq(Mapped(ors, g) \o Mapped(ands, g)) = FlattenSeq(Mapped(ors, g)) \o FlattenSeq(Mapped(ands, g))
    BY <1>1, <2>2, FlattenCat
  <2> QED BY <1>1, <2>2, <2>3, <2>4
<1>10. /\ FilterPairs(criteria, column, k, noAffinity) = p \o q
       /\ Tests(criteria, column, k, noAffinity) = TestsOf(p) \o TestsOf(q)
       /\ Params(criteria) = ParamsOf(ors \o ands)
  <2>1. FilterPairs(criteria, column, k, noAffinity) = p \o q
    BY DEF FilterPairs
  <2>2. Tests(criteria, column, k, noAffinity) =
          [i \in DOMAIN ors |-> Test(op(ors[i]), column, <<k, 0>>)]
            \o [i \in DOMAIN ands |-> Test(ands[i].op, column, <<k, i>>)]
    BY Zenon DEF Tests
  <2>3. Params(criteria) = ParamsOf(ors \o ands)
    BY DEF Params
  <2> HIDE DEF p, q, ors, ands
  <2> QED BY <1>7, <2>1, <2>2, <2>3
<1> HIDE DEF p, q, ors, ands
<1>11. p \o q \in Seq(P) /\ TestsOf(p \o q) = TestsOf(p) \o TestsOf(q) /\ ArgsOf(p \o q) = ArgsOf(p) \o ArgsOf(q)
  <2>1. p \in Seq(Pairs(TestsOver(N), Seq(ParamChars))) /\ q \in Seq(Pairs(TestsOver(N), Seq(ParamChars)))
    BY <1>6 DEF P, PairsOver
  <2> QED BY <1>6, <2>1, PairsCat, ConcatProperties
<1>12. \A x \in ToSet(p \o q) : Fits(x) /\ x.test.group[1] = k
  <2>1. ToSet(p \o q) = ToSet(p) \cup ToSet(q)
    BY <1>6, ElementsCat
  <2>2. \A x \in ToSet(p) : Fits(x) /\ x.test.group[1] = k
    BY <1>4, <1>6 DEF ToSet
  <2>3. \A x \in ToSet(q) : Fits(x) /\ x.test.group[1] = k
    BY <1>5, <1>6 DEF ToSet
  <2> QED BY <2>1, <2>2, <2>3
<1> QED BY <1>6, <1>8, <1>9, <1>10, <1>11, <1>12 DEF p, q, P

(* Of every group that is asked for, one test holds.                       *)
Asks(pairs, row, types) ==
  \A x \in ToSet(pairs) : \E y \in ToSet(pairs) : y.test.group = x.test.group /\ PairHolds(y, row, types)

(* A clause whose parameters are those of its tests selects what its tests *)
(* ask for.                                                                *)
LEMMA SelectedAsks ==
  ASSUME NEW T, NEW U, NEW pairs \in Seq(Pairs(T, U)), \A x \in ToSet(pairs) : Fits(x),
         NEW where, where.tests = TestsOf(pairs), where.params = ArgsOf(pairs), NEW row, NEW types
  PROVE  Selected(where, row, types) <=> Asks(pairs, row, types)
<1> DEFINE n == Len(pairs)
           taken(i) == Cardinality({j \in 1 .. i : HasPlaceholder(where.tests[j].op)})
           holds(i) == LET test == where.tests[i]
                       IN /\ test.op # "never"
                          /\ Holds(test, IF HasPlaceholder(test.op) THEN where.params[taken(i)] ELSE <<>>,
                                   row[test.column], types[test.column])
<1>1. n \in Nat /\ DOMAIN pairs = 1 .. n /\ \A i \in 1 .. n : Fits(pairs[i])
  BY LenProperties DEF ToSet
<1>2. DOMAIN where.tests = 1 .. n /\ \A i \in 1 .. n : where.tests[i] = pairs[i].test
  BY <1>1 DEF TestsOf
<1>3. \A i \in 1 .. n : HasPlaceholder(pairs[i].test.op) =>
        where.params[Cardinality(Taken(pairs, i))] = pairs[i].args[1]
  BY <1>1, ParamTaken
<1>4. \A i \in 1 .. n : taken(i) = Cardinality(Taken(pairs, i))
  <2> SUFFICES ASSUME NEW i \in 1 .. n PROVE taken(i) = Cardinality(Taken(pairs, i))
    OBVIOUS
  <2>1. \A j \in 1 .. i : j \in 1 .. n
    BY <1>1
  <2>2. {j \in 1 .. i : HasPlaceholder(where.tests[j].op)} = Taken(pairs, i)
    BY <1>2, <2>1 DEF Taken
  <2> QED BY <2>2
<1>5. \A i \in 1 .. n : holds(i) <=> PairHolds(pairs[i], row, types)
  <2> SUFFICES ASSUME NEW i \in 1 .. n PROVE holds(i) <=> PairHolds(pairs[i], row, types)
    OBVIOUS
  <2>1. where.tests[i] = pairs[i].test
    BY <1>2
  <2>2. (IF HasPlaceholder(pairs[i].test.op) THEN where.params[taken(i)] ELSE <<>>)
          = IF HasPlaceholder(pairs[i].test.op) THEN pairs[i].args[1] ELSE <<>>
    BY <1>3, <1>4
  <2> HIDE DEF taken
  <2> QED BY <2>1, <2>2 DEF PairHolds
<1>6. Selected(where, row, types) <=>
        \A i \in DOMAIN where.tests :
          \E j \in DOMAIN where.tests : where.tests[j].group = where.tests[i].group /\ holds(j)
  BY Zenon DEF Selected
<1> HIDE DEF holds, taken
<1> DEFINE group(i) == pairs[i].test.group
<1>7. \A i, j \in 1 .. n :
        where.tests[j].group = where.tests[i].group /\ holds(j) <=> group(j) = group(i)
            /\ PairHolds(pairs[j], row, types)
  BY <1>2, <1>5
<1>8. Selected(where, row, types) <=>
        \A i \in 1 .. n : \E j \in 1 .. n : where.tests[j].group = where.tests[i].group /\ holds(j)
  BY Zenon, <1>2, <1>6
<1>9. Selected(where, row, types) <=>
        \A i \in 1 .. n : \E j \in 1 .. n : group(j) = group(i) /\ PairHolds(pairs[j], row, types)
  BY Zenon, <1>7, <1>8
<1>10. ToSet(pairs) = {pairs[i] : i \in 1 .. n}
  BY <1>1 DEF ToSet
<1> HIDE DEF n
<1>11. ASSUME Selected(where, row, types) PROVE Asks(pairs, row, types)
  BY Zenon, <1>9, <1>10, <1>11 DEF Asks, group
<1>12. ASSUME Asks(pairs, row, types) PROVE Selected(where, row, types)
  <2>1. ASSUME NEW i \in 1 .. n PROVE \E j \in 1 .. n : group(j) = group(i) /\ PairHolds(pairs[j], row, types)
    <3>1. pairs[i] \in ToSet(pairs)
      BY <1>10
    <3>2. PICK y \in ToSet(pairs) : y.test.group = pairs[i].test.group /\ PairHolds(y, row, types)
      BY Zenon, <1>12, <3>1 DEF Asks
    <3>3. PICK j \in 1 .. n : y = pairs[j]
      BY <1>10, <3>2
    <3> QED BY <3>2, <3>3
  <2> QED BY <1>9, <2>1
<1> QED BY <1>11, <1>12

(* The filters of a clause are asked for one by one: none shares a group.  *)
LEMMA AsksFlat ==
  ASSUME NEW X, NEW head \in Seq(X), NEW parts \in Seq(Seq(X)), NEW row, NEW types,
         \A x \in ToSet(head) : x.test.group[1] = 0,
         \A k \in DOMAIN parts : \A x \in ToSet(parts[k]) : x.test.group[1] = k
  PROVE  Asks(head \o FlattenSeq(parts), row, types)
           <=> Asks(head, row, types) /\ \A k \in DOMAIN parts : Asks(parts[k], row, types)
<1> DEFINE all == ToSet(head \o FlattenSeq(parts))
<1>1. DOMAIN parts = 1 .. Len(parts) /\ Len(parts) \in Nat /\ \A k \in DOMAIN parts : parts[k] \in Seq(X)
  BY LenProperties, ElementOfSeq
<1>2. ToSet(parts) = {parts[k] : k \in DOMAIN parts}
  BY DEF ToSet
<1>3. FlattenSeq(parts) \in Seq(X) /\ ToSet(FlattenSeq(parts)) = UNION {ToSet(part) : part \in ToSet(parts)}
  BY FlattenType, ElementsFlat
<1>4. all = ToSet(head) \cup ToSet(FlattenSeq(parts))
  BY <1>3, ElementsCat
<1> HIDE DEF all
<1>5. \A x : x \in all <=> x \in ToSet(head) \/ \E k \in DOMAIN parts : x \in ToSet(parts[k])
  BY <1>2, <1>3, <1>4
<1>6. \A k \in DOMAIN parts : k # 0
  BY <1>1
<1>7. \A x \in ToSet(head), y \in all : y.test.group = x.test.group => y \in ToSet(head)
  BY <1>5, <1>6
<1>8. \A k \in DOMAIN parts : \A x \in ToSet(parts[k]), y \in all : y.test.group = x.test.group
          => y \in ToSet(parts[k])
  BY <1>5, <1>6
<1>9. Asks(head \o FlattenSeq(parts), row, types) <=>
        \A x \in all : \E y \in all : y.test.group = x.test.group /\ PairHolds(y, row, types)
  BY DEF Asks, all
<1>10. ASSUME Asks(head \o FlattenSeq(parts), row, types)
       PROVE  Asks(head, row, types) /\ \A k \in DOMAIN parts : Asks(parts[k], row, types)
  <2>1. \A x \in all : \E y \in all : y.test.group = x.test.group /\ PairHolds(y, row, types)
    BY <1>9, <1>10
  <2>2. Asks(head, row, types)
    BY <1>5, <1>7, <2>1 DEF Asks
  <2>3. ASSUME NEW k \in DOMAIN parts PROVE Asks(parts[k], row, types)
    BY <1>5, <1>8, <2>1 DEF Asks
  <2> QED BY <2>2, <2>3
<1>11. ASSUME Asks(head, row, types), \A k \in DOMAIN parts : Asks(parts[k], row, types)
       PROVE  Asks(head \o FlattenSeq(parts), row, types)
  <2>1. ASSUME NEW x \in all PROVE \E y \in all : y.test.group = x.test.group /\ PairHolds(y, row, types)
    BY <1>5, <1>11, <2>1 DEF Asks
  <2> QED BY <1>9, <2>1
<1> QED BY <1>10, <1>11

(* A clause without tests asks for nothing.                                *)
LEMMA AsksNothing == ASSUME NEW row, NEW types PROVE Asks(<<>>, row, types)
<1>1. ToSet(<<>>) = {}
  BY DEF ToSet
<1> QED BY <1>1 DEF Asks

(* A filter asks for one of its alternatives and for every other criterion.*)
LEMMA FilterAsks ==
  ASSUME NEW N, NEW column \in N, NEW k \in Nat, NEW criteria \in Seq(CriteriaOf(Chars)), NEW noAffinity \in BOOLEAN,
         NEW row, NEW types, NEW means,
         \A c \in CriteriaOf(Chars), group \in Nat \X Nat :
           PairHolds(Asked(OpIn(c, noAffinity), column, group, c), row, types) <=> c \in means
  PROVE  Asks(FilterPairs(criteria, column, k, noAffinity), row, types) <=>
           /\ {c \in ToSet(criteria) : ~is_and(c)} # {} => \E c \in ToSet(criteria) : ~is_and(c) /\ c \in means
           /\ \A c \in ToSet(criteria) : is_and(c) => c \in means
<1> DEFINE C == CriteriaOf(Chars)  P == PairsOver(N)
           ors == Ors(criteria)  ands == Ands(criteria)
           p == OrPairs(criteria, column, k, noAffinity)  q == AndPairs(criteria, column, k)
           H(x) == PairHolds(x, row, types)
<1>1. /\ ors \in Seq(C) /\ ToSet(ors) = {c \in ToSet(criteria) : ~is_and(c)}
      /\ ands \in Seq(C) /\ ToSet(ands) = {c \in ToSet(criteria) : is_and(c)}
  BY OrsAndsAre
<1>2. /\ DOMAIN ors = 1 .. Len(ors) /\ Len(ors) \in Nat /\ \A i \in DOMAIN ors : ors[i] \in C
      /\ DOMAIN ands = 1 .. Len(ands) /\ Len(ands) \in Nat /\ \A i \in DOMAIN ands : ands[i] \in C
  BY <1>1, LenProperties, ElementOfSeq
<1>3. /\ p = [i \in DOMAIN ors |-> Asked(OpIn(ors[i], noAffinity), column, <<k, 0>>, ors[i])]
      /\ q = [i \in DOMAIN ands |-> Asked(ands[i].op, column, <<k, i>>, ands[i])]
  BY DEF OrPairs, AndPairs
<1>4. p \in Seq(P) /\ q \in Seq(P) /\ FilterPairs(criteria, column, k, noAffinity) = p \o q
  BY FilterPairsTyped DEF FilterPairs
<1>5. \A i \in DOMAIN ands : is_and(ands[i]) /\ OpIn(ands[i], noAffinity) = ands[i].op
  <2>1. \A i \in DOMAIN ands : is_and(ands[i])
    BY <1>1 DEF ToSet
  <2> QED BY <2>1 DEF is_and, OpIn
<1>6. \A o : \A c \in C, group \in Nat \X Nat : Asked(o, column, group, c).test.group = group
  BY DEF Asked, Test
<1> HIDE DEF C, P, ors, ands
<1>7. \A i \in DOMAIN ors : p[i].test.group = <<k, 0>> /\ (H(p[i]) <=> ors[i] \in means)
  <2> SUFFICES ASSUME NEW i \in DOMAIN ors PROVE p[i].test.group = <<k, 0>> /\ (H(p[i]) <=> ors[i] \in means)
    OBVIOUS
  <2> HIDE DEF p
  <2>1. ors[i] \in C /\ <<k, 0>> \in Nat \X Nat /\ p[i] = Asked(OpIn(ors[i], noAffinity), column, <<k, 0>>, ors[i])
    BY <1>2, <1>3
  <2>2. p[i].test.group = <<k, 0>>
    BY <1>6, <2>1
  <2>3. PairHolds(Asked(OpIn(ors[i], noAffinity), column, <<k, 0>>, ors[i]), row, types) <=> ors[i] \in means
    BY <2>1 DEF C
  <2> QED BY <2>1, <2>2, <2>3
<1>8. \A i \in DOMAIN ands : q[i].test.group = <<k, i>> /\ (H(q[i]) <=> ands[i] \in means)
  <2> SUFFICES ASSUME NEW i \in DOMAIN ands PROVE q[i].test.group = <<k, i>> /\ (H(q[i]) <=> ands[i] \in means)
    OBVIOUS
  <2> HIDE DEF q
  <2>1. ands[i] \in C /\ <<k, i>> \in Nat \X Nat /\ q[i] = Asked(ands[i].op, column, <<k, i>>, ands[i])
    BY <1>2, <1>3
  <2>2. q[i].test.group = <<k, i>>
    BY <1>6, <2>1
  <2>3. PairHolds(Asked(OpIn(ands[i], noAffinity), column, <<k, i>>, ands[i]), row, types) <=> ands[i] \in means
    BY <2>1 DEF C
  <2> QED BY <1>5, <2>1, <2>2, <2>3
<1>9. ToSet(p) = {p[i] : i \in DOMAIN ors} /\ ToSet(q) = {q[i] : i \in DOMAIN ands}
  BY <1>3 DEF ToSet
<1>10. ToSet(ors) = {ors[i] : i \in DOMAIN ors} /\ ToSet(ands) = {ands[i] : i \in DOMAIN ands}
  BY DEF ToSet
<1> HIDE DEF p, q, H
<1>11. ToSet(p \o q) = ToSet(p) \cup ToSet(q)
  BY <1>4, ElementsCat
<1>12. Asks(p \o q, row, types) <=>
         \A x \in ToSet(p) \cup ToSet(q) : \E y \in ToSet(p) \cup ToSet(q) : y.test.group = x.test.group /\ H(y)
  BY <1>11 DEF Asks, H
<1>13. \A i \in DOMAIN ors : \A j \in DOMAIN ands : p[i].test.group # q[j].test.group
  <2> SUFFICES ASSUME NEW i \in DOMAIN ors, NEW j \in DOMAIN ands PROVE p[i].test.group # q[j].test.group
    OBVIOUS
  <2>1. p[i].test.group = <<k, 0>> /\ q[j].test.group = <<k, j>> /\ j # 0
    BY <1>2, <1>7, <1>8
  <2>2. <<k, 0>>[2] # <<k, j>>[2]
    BY <2>1
  <2> QED BY <2>1, <2>2
<1>14. \A i, j \in DOMAIN ands : q[i].test.group = q[j].test.group => i = j
  <2> SUFFICES ASSUME NEW i \in DOMAIN ands, NEW j \in DOMAIN ands, q[i].test.group = q[j].test.group PROVE i = j
    OBVIOUS
  <2>1. <<k, i>> = <<k, j>>
    BY <1>8
  <2>2. <<k, i>>[2] = i /\ <<k, j>>[2] = j
    OBVIOUS
  <2> QED BY <2>1, <2>2
<1>15. ASSUME Asks(p \o q, row, types)
       PROVE  /\ ToSet(ors) # {} => \E c \in ToSet(ors) : c \in means
              /\ \A c \in ToSet(ands) : c \in means
  <2>1. ASSUME NEW i \in DOMAIN ors PROVE \E j \in DOMAIN ors : ors[j] \in means
    <3>1. p[i] \in ToSet(p)
      BY <1>9
    <3>2. PICK y \in ToSet(p) \cup ToSet(q) : y.test.group = p[i].test.group /\ H(y)
      BY <1>12, <1>15, <3>1
    <3>3. CASE y \in ToSet(p)
      BY <1>7, <1>9, <3>2, <3>3
    <3>4. CASE y \in ToSet(q)
      BY <1>9, <1>13, <3>2, <3>4
    <3> QED BY <3>3, <3>4
  <2>2. ASSUME NEW i \in DOMAIN ands PROVE ands[i] \in means
    <3>1. q[i] \in ToSet(q)
      BY <1>9
    <3>2. PICK y \in ToSet(p) \cup ToSet(q) : y.test.group = q[i].test.group /\ H(y)
      BY <1>12, <1>15, <3>1
    <3>3. CASE y \in ToSet(p)
      BY <1>9, <1>13, <3>2, <3>3
    <3>4. CASE y \in ToSet(q)
      BY <1>8, <1>9, <1>14, <3>2, <3>4
    <3> QED BY <3>3, <3>4
  <2> QED BY <1>10, <2>1, <2>2
<1>16. ASSUME ToSet(ors) # {} => \E c \in ToSet(ors) : c \in means, \A c \in ToSet(ands) : c \in means
       PROVE  Asks(p \o q, row, types)
  <2>1. ASSUME NEW i \in DOMAIN ors
        PROVE  \E y \in ToSet(p) \cup ToSet(q) : y.test.group = p[i].test.group /\ H(y)
    <3>1. PICK j \in DOMAIN ors : ors[j] \in means
      BY <1>10, <1>16
    <3>2. p[j] \in ToSet(p) /\ p[j].test.group = p[i].test.group /\ H(p[j])
      BY <1>7, <1>9, <3>1
    <3> QED BY <3>2
  <2>2. ASSUME NEW i \in DOMAIN ands
        PROVE  \E y \in ToSet(p) \cup ToSet(q) : y.test.group = q[i].test.group /\ H(y)
    <3>1. q[i] \in ToSet(q) /\ H(q[i])
      BY <1>8, <1>9, <1>10, <1>16
    <3> QED BY <3>1
  <2> QED BY <1>9, <1>12, <2>1, <2>2
<1>17. ToSet(ors) # {} <=> {c \in ToSet(criteria) : ~is_and(c)} # {}
  BY <1>1
<1>18. (\E c \in ToSet(ors) : c \in means) <=> \E c \in ToSet(criteria) : ~is_and(c) /\ c \in means
  BY <1>1
<1>19. (\A c \in ToSet(ands) : c \in means) <=> \A c \in ToSet(criteria) : is_and(c) => c \in means
  BY <1>1
<1> QED BY <1>4, <1>15, <1>16, <1>17, <1>18, <1>19

---------------------------------------------------------------------------
(* The global filter.                                                      *)

(* The global filter's tests.                                              *)
GlobalPair(name, pattern) == [test |-> Test("contains", name, <<0, 0>>), args |-> <<pattern>>]
NoColumn == ""
NeverPair == [test |-> Test("never", NoColumn, <<0, 0>>), args |-> <<>>]
GlobalPairs(searchable, text) ==
  IF text = <<>> THEN <<>>
  ELSE IF searchable = <<>> THEN <<NeverPair>>
  ELSE [i \in DOMAIN searchable |-> GlobalPair(searchable[i].name, contains_pattern(text))]

(* They are what the code puts into the clause for the global filter.      *)
LEMMA GlobalPairsTyped ==
  ASSUME NEW N, NoColumn \in N, NEW X, NEW searchable \in Seq(X), \A c \in X : c.name \in N, NEW text \in Seq(Chars)
  PROVE  /\ GlobalPairs(searchable, text) \in Seq(PairsOver(N))
         /\ TestsOf(GlobalPairs(searchable, text)) = GlobalTests(searchable, text)
         /\ ArgsOf(GlobalPairs(searchable, text)) = GlobalParams(searchable, text)
         /\ \A x \in ToSet(GlobalPairs(searchable, text)) : Fits(x) /\ x.test.group = <<0, 0>>
<1> DEFINE pattern == contains_pattern(text)
           pairs == GlobalPairs(searchable, text)
<1>1. pattern \in Seq(ParamChars)
  BY PatternTyped
<1>2. DOMAIN searchable = 1 .. Len(searchable) /\ Len(searchable) \in Nat
          /\ \A i \in DOMAIN searchable : searchable[i].name \in N
  BY LenProperties, ElementOfSeq
<1> HIDE DEF pattern
<1>3. CASE text = <<>>
  <2>1. pairs = <<>> /\ GlobalTests(searchable, text) = <<>> /\ GlobalParams(searchable, text) = <<>>
    BY <1>3 DEF GlobalPairs, GlobalTests, GlobalParams
  <2>2. TestsOf(<<>>) = <<>> /\ ArgsOf(<<>>) = <<>> /\ ToSet(<<>>) = {} /\ <<>> \in Seq(PairsOver(N))
    <3>1. TestsOf(<<>>) = <<>> /\ ArgsOf(<<>>) = <<>>
      BY FlattenEmpty DEF TestsOf, ArgsOf
    <3>2. ToSet(<<>>) = {}
      BY DEF ToSet
    <3>3. <<>> \in Seq(PairsOver(N))
      BY EmptySeq
    <3> QED BY <3>1, <3>2, <3>3
  <2> HIDE DEF pairs
  <2> QED BY <2>1, <2>2 DEF pairs
<1>4. CASE text # <<>> /\ searchable = <<>>
  <2>1. /\ pairs = <<NeverPair>> /\ GlobalTests(searchable, text) = <<Test("never", NoColumn, <<0, 0>>)>>
        /\ GlobalParams(searchable, text) = <<>>
    <3>1. pairs = <<NeverPair>>
      BY Zenon, <1>4 DEF GlobalPairs
    <3>2. GlobalTests(searchable, text) = <<Test("never", NoColumn, <<0, 0>>)>>
      BY Zenon, <1>4 DEF GlobalTests, NoColumn
    <3>3. GlobalParams(searchable, text) = [i \in DOMAIN searchable |-> pattern]
      BY Zenon, <1>4 DEF GlobalParams, pattern
    <3>4. [i \in DOMAIN searchable |-> pattern] = <<>>
      BY <1>4
    <3> HIDE DEF pairs
    <3> QED BY <3>1, <3>2, <3>3, <3>4
  <2>2. NeverPair \in PairsOver(N) /\ NeverPair.test = Test("never", NoColumn, <<0, 0>>) /\ NeverPair.args = <<>>
        /\ NeverPair.test.group = <<0, 0>> /\ NeverPair.test.op = "never"
    BY EmptySeq DEF NeverPair, PairsOver, Pairs, TestsOver, Test, TestOps
  <2>3. Fits(NeverPair)
    BY <2>2 DEF Fits, HasPlaceholder
  <2>4. <<NeverPair>> \in Seq(PairsOver(N)) /\ DOMAIN <<NeverPair>> = {1} /\ <<NeverPair>>[1] = NeverPair
    <3> DEFINE x == NeverPair
    <3>1. x \in PairsOver(N)
      BY <2>2
    <3> HIDE DEF x
    <3>2. <<x>> \in Seq(PairsOver(N))
      BY <3>1, TwoTyped
    <3>3. DOMAIN <<x>> = {1} /\ <<x>>[1] = x
      OBVIOUS
    <3> QED BY <3>2, <3>3 DEF x
  <2>5. TestsOf(<<NeverPair>>) = <<Test("never", NoColumn, <<0, 0>>)>>
    <3> HIDE DEF NeverPair
    <3>1. TestsOf(<<NeverPair>>) = [i \in {1} |-> Test("never", NoColumn, <<0, 0>>)]
      BY <2>2, <2>4 DEF TestsOf
    <3> DEFINE test == Test("never", NoColumn, <<0, 0>>)
    <3> HIDE DEF test
    <3>2. [i \in {1} |-> test] = <<test>>
      <4>1. test \in {test}
        OBVIOUS
      <4> QED BY <4>1, OneIs
    <3> QED BY <3>1, <3>2 DEF test
  <2>6. ArgsOf(<<NeverPair>>) = <<>>
    <3> DEFINE none == <<>>
    <3>1. [i \in DOMAIN <<NeverPair>> |-> <<NeverPair>>[i].args] = [i \in {1} |-> none]
      BY <2>2, <2>4
    <3>2. none \in Seq(Nat)
      BY EmptySeq
    <3> HIDE DEF none
    <3>3. [i \in {1} |-> none] = <<none>>
      BY <3>2, OneIs
    <3>4. FlattenSeq(<<none>>) = none
      BY <3>2, FlattenOne
    <3> QED BY <3>1, <3>3, <3>4 DEF ArgsOf, none
  <2>7. ToSet(<<NeverPair>>) = {NeverPair}
    BY <2>4 DEF ToSet
  <2> HIDE DEF pairs
  <2> QED BY <2>1, <2>2, <2>3, <2>4, <2>5, <2>6, <2>7 DEF pairs
<1>5. CASE text # <<>> /\ searchable # <<>>
  <2> DEFINE D == DOMAIN searchable
  <2>1. /\ pairs = [i \in D |-> GlobalPair(searchable[i].name, pattern)]
        /\ GlobalTests(searchable, text) = [i \in D |-> Test("contains", searchable[i].name, <<0, 0>>)]
        /\ GlobalParams(searchable, text) = [i \in D |-> pattern]
    BY <1>5 DEF GlobalPairs, GlobalTests, GlobalParams, pattern
  <2> HIDE DEF pairs
  <2>2. \A i \in D : /\ pairs[i] \in PairsOver(N) /\ Fits(pairs[i]) /\ pairs[i].args = <<pattern>>
                     /\ pairs[i].test = Test("contains", searchable[i].name, <<0, 0>>)
                     /\ pairs[i].test.group = <<0, 0>>
    <3> SUFFICES ASSUME NEW i \in D
                 PROVE  /\ pairs[i] \in PairsOver(N) /\ Fits(pairs[i]) /\ pairs[i].args = <<pattern>>
                        /\ pairs[i].test = Test("contains", searchable[i].name, <<0, 0>>)
                        /\ pairs[i].test.group = <<0, 0>>
      OBVIOUS
    <3> DEFINE name == searchable[i].name  x == GlobalPair(name, pattern)
    <3>1. pairs[i] = x /\ name \in N
      BY <1>2, <2>1
    <3> HIDE DEF name
    <3>2. x.test = Test("contains", name, <<0, 0>>) /\ x.args = <<pattern>> /\ x.test.op = "contains"
          /\ x.test.group = <<0, 0>> /\ x = [test |-> Test("contains", name, <<0, 0>>), args |-> <<pattern>>]
      BY DEF GlobalPair, Test
    <3>3. Test("contains", name, <<0, 0>>) \in TestsOver(N)
      BY <3>1, EmptySeq DEF Test, TestsOver, TestOps, OperatorNames
    <3>4. <<pattern>> \in Seq(Seq(ParamChars))
      BY <1>1, TwoTyped
    <3> HIDE DEF x
    <3>5. x \in PairsOver(N)
      BY <3>2, <3>3, <3>4 DEF PairsOver, Pairs
    <3>6. Fits(x)
      BY <3>2 DEF Fits, HasPlaceholder
    <3> QED BY <3>1, <3>2, <3>5, <3>6 DEF name
  <2>3. DOMAIN pairs = D /\ pairs \in Seq(PairsOver(N))
    <3>1. DOMAIN pairs = D /\ pairs = [i \in D |-> pairs[i]]
      BY <2>1
    <3>2. pairs \in [1 .. Len(searchable) -> PairsOver(N)]
      <4>1. pairs = [i \in 1 .. Len(searchable) |-> pairs[i]]
            /\ \A i \in 1 .. Len(searchable) : pairs[i] \in PairsOver(N)
        BY <1>2, <2>2, <3>1
      <4> QED BY <4>1
    <3> QED BY <1>2, <3>1, <3>2
  <2>4. TestsOf(pairs) = GlobalTests(searchable, text)
    <3>1. TestsOf(pairs) = [i \in D |-> pairs[i].test]
      BY <2>3 DEF TestsOf
    <3> QED BY <2>1, <2>2, <3>1
  <2>5. ArgsOf(pairs) = GlobalParams(searchable, text)
    <3> DEFINE s == [i \in D |-> pattern]
    <3>1. s \in Seq(Seq(ParamChars)) /\ DOMAIN s = D /\ \A i \in D : s[i] = pattern
      <4>1. s \in [1 .. Len(searchable) -> Seq(ParamChars)]
        BY <1>1, <1>2
      <4>2. DOMAIN s = D /\ \A i \in D : s[i] = pattern
        OBVIOUS
      <4> HIDE DEF s
      <4> QED BY <1>2, <4>1, <4>2
    <3> HIDE DEF s
    <3>2. [i \in DOMAIN pairs |-> pairs[i].args] = [i \in DOMAIN s |-> <<s[i]>>]
      BY <2>2, <2>3, <3>1
    <3>3. FlattenSeq([i \in DOMAIN s |-> <<s[i]>>]) = s
      BY <3>1, FlattenSingles
    <3> QED BY <2>1, <3>2, <3>3 DEF ArgsOf, s
  <2>6. \A x \in ToSet(pairs) : Fits(x) /\ x.test.group = <<0, 0>>
    BY <2>2, <2>3 DEF ToSet
  <2> QED BY <2>3, <2>4, <2>5, <2>6 DEF pairs
<1> QED BY <1>3, <1>4, <1>5

(* It asks for a searched column that contains the text.                   *)
LEMMA GlobalAsks ==
  ASSUME NEW X, NEW searchable \in Seq(X), NEW text \in Seq(Chars), NEW row, NEW types,
         \A c \in ToSet(searchable) : row[c.name].text \in Seq(Chars)
  PROVE  Asks(GlobalPairs(searchable, text), row, types) <=>
           (text # <<>> => \E c \in ToSet(searchable) :
                             row[c.name].class # "null" /\ ContainsText(row[c.name].text, text))
<1> DEFINE pattern == contains_pattern(text)
           pairs == GlobalPairs(searchable, text)
           meant(c) == row[c.name].class # "null" /\ ContainsText(row[c.name].text, text)
<1>1. \A c \in ToSet(searchable) : PairHolds(GlobalPair(c.name, pattern), row, types) <=> meant(c)
  <2> SUFFICES ASSUME NEW c \in ToSet(searchable)
               PROVE PairHolds(GlobalPair(c.name, pattern), row, types) <=> meant(c)
    OBVIOUS
  <2> DEFINE x == GlobalPair(c.name, pattern)  cell == row[c.name]
  <2>1. x.test.op = "contains" /\ x.test.column = c.name /\ x.args[1] = pattern
    BY DEF GlobalPair, Test
  <2>2. HasPlaceholder("contains")
    BY DEF HasPlaceholder
  <2>3. PairHolds(x, row, types) <=> Holds(x.test, pattern, cell, types[c.name])
    <3> HIDE DEF x, pattern
    <3> QED BY <2>1, <2>2 DEF PairHolds
  <2>4. Holds(x.test, pattern, cell, types[c.name]) <=> cell.class # "null" /\ Like(cell.text, pattern)
    <3> HIDE DEF x, pattern, cell
    <3> QED BY <2>1 DEF Holds
  <2>5. Like(cell.text, pattern) <=> ContainsText(cell.text, text)
    BY LikeLiteral
  <2> HIDE DEF x, pattern
  <2> QED BY <2>3, <2>4, <2>5 DEF x
<1> HIDE DEF meant, pattern
<1>2. CASE text = <<>>
  <2>1. pairs = <<>>
    BY <1>2 DEF GlobalPairs
  <2> QED BY <1>2, <2>1, AsksNothing
<1>3. CASE text # <<>> /\ searchable = <<>>
  <2>1. pairs = <<NeverPair>>
    BY <1>3 DEF GlobalPairs
  <2>2. NeverPair.test.op = "never"
    BY DEF NeverPair, Test
  <2>3. ~PairHolds(NeverPair, row, types)
    BY <2>2 DEF PairHolds
  <2>4. ToSet(<<NeverPair>>) = {NeverPair}
    BY DEF ToSet
  <2>5. ~Asks(<<NeverPair>>, row, types)
    BY <2>3, <2>4 DEF Asks
  <2>6. ToSet(searchable) = {}
    BY <1>3 DEF ToSet
  <2> QED BY <1>3, <2>1, <2>5, <2>6
<1>4. CASE text # <<>> /\ searchable # <<>>
  <2>1. pairs = [i \in DOMAIN searchable |-> GlobalPair(searchable[i].name, pattern)]
    BY <1>4 DEF GlobalPairs, pattern
  <2>2. ToSet(searchable) = {searchable[i] : i \in DOMAIN searchable}
    BY DEF ToSet
  <2>3. ToSet(pairs) = {GlobalPair(c.name, pattern) : c \in ToSet(searchable)}
    <3>1. ToSet(pairs) = {pairs[i] : i \in DOMAIN searchable}
      BY <2>1 DEF ToSet
    <3>2. \A i \in DOMAIN searchable : pairs[i] = GlobalPair(searchable[i].name, pattern)
      BY <2>1
    <3> HIDE DEF pairs
    <3> QED BY <2>2, <3>1, <3>2
  <2>4. \A c \in ToSet(searchable) : GlobalPair(c.name, pattern).test.group = <<0, 0>>
    BY DEF GlobalPair, Test
  <2>5. ToSet(searchable) # {}
    <3>1. 1 \in DOMAIN searchable
      BY <1>4, LenProperties, EmptySeq
    <3> QED BY <2>2, <3>1
  <2>6. Asks(pairs, row, types) <=> \E c \in ToSet(searchable) : PairHolds(GlobalPair(c.name, pattern), row, types)
    <3> HIDE DEF pairs
    <3>1. ASSUME Asks(pairs, row, types)
          PROVE  \E c \in ToSet(searchable) : PairHolds(GlobalPair(c.name, pattern), row, types)
      <4>1. PICK x \in ToSet(pairs) : TRUE
        BY <2>3, <2>5
      <4>2. PICK y \in ToSet(pairs) : PairHolds(y, row, types)
        BY <3>1, <4>1 DEF Asks
      <4> QED BY <2>3, <4>2
    <3>2. ASSUME NEW c \in ToSet(searchable), PairHolds(GlobalPair(c.name, pattern), row, types)
          PROVE  Asks(pairs, row, types)
      <4>1. \A x \in ToSet(pairs) : x.test.group = <<0, 0>>
        BY <2>3, <2>4
      <4>2. GlobalPair(c.name, pattern) \in ToSet(pairs)
        BY <2>3
      <4> QED BY <3>2, <4>1, <4>2 DEF Asks
    <3> QED BY <3>1, <3>2
  <2>7. Asks(pairs, row, types) <=> \E c \in ToSet(searchable) : meant(c)
    <3> HIDE DEF pairs
    <3> QED BY <1>1, <2>6
  <2> QED BY <1>4, <2>7 DEF meant
<1> QED BY <1>2, <1>3, <1>4

---------------------------------------------------------------------------
(* Views.                                                                  *)

(* What a view is asked for with.                                          *)
IsView(v) ==
  /\ v.columns \in Seq(Range(v.columns)) /\ v.filters \in Seq(Range(v.filters))
  /\ \A i, j \in DOMAIN v.columns : v.columns[i].name = v.columns[j].name => i = j
  /\ v.global \in Seq(Chars)
  /\ \A f \in Range(v.filters) :
       f.value \in Seq(Seq(Chars)) /\ f.regex \in BOOLEAN /\ (f.regex => Len(f.value) <= 1)

(* The assumption on the views, for one view.                              *)
LEMMA ViewsAre ==
  /\ \A v \in Views : IsView(v)
  /\ Cells \subseteq CellSet /\ CellChars \subseteq Chars /\ Alphabet \in Seq(Chars)
<1>1. \A v \in Views : IsView(v)
  BY ViewsAssumption DEF IsView, Chars
<1>2. CellChars \subseteq Chars /\ Alphabet \in Seq(Chars)
  BY ViewsAssumption DEF Chars, CellChars
<1>3. Cells \subseteq CellSet
  BY ViewsAssumption DEF Chars, CellSet
<1> QED BY <1>1, <1>2, <1>3

(* The position of a name is that of a column with that name, or 0.        *)
LEMMA PositionIs ==
  ASSUME NEW X, NEW columns \in Seq(X), NEW name
  PROVE  /\ Position(columns, name) \in Nat
         /\ Position(columns, name) # 0 =>
              /\ Position(columns, name) \in DOMAIN columns
              /\ columns[Position(columns, name)].name = name
         /\ Position(columns, name) = 0 => \A i \in DOMAIN columns : columns[i].name # name
<1> DEFINE at == {i \in DOMAIN columns : columns[i].name = name}
           p == CHOOSE i \in at : \A j \in at : i <= j
<1>1. DOMAIN columns = 1 .. Len(columns) /\ Len(columns) \in Nat
  BY LenProperties
<1>2. Position(columns, name) = IF at = {} THEN 0 ELSE p
  BY DEF Position
<1>3. at # {} => p \in at
  <2>1. at \subseteq Nat
    BY <1>1
  <2>2. at # {} => \E i \in at : \A j \in at : i <= j
    <3> HIDE DEF at
    <3> QED BY <2>1, LeastNumber
  <2> HIDE DEF at
  <2> QED BY <2>2
<1>4. \A i \in at : i \in DOMAIN columns /\ columns[i].name = name /\ i \in Nat /\ i # 0
  BY <1>1
<1>5. at = {} => \A i \in DOMAIN columns : columns[i].name # name
  OBVIOUS
<1> HIDE DEF at, p
<1> QED BY <1>2, <1>3, <1>4, <1>5

(* The names of the columns.                                               *)
NamesOf(columns) == {columns[i].name : i \in DOMAIN columns}

(* A name of a view is that of one column.                                 *)
LEMMA ColumnAt ==
  ASSUME NEW v, IsView(v), NEW name
  PROVE  /\ v.columns \in Seq(Range(v.columns))
         /\ \A i \in DOMAIN v.columns : v.columns[i].name = name =>
              Position(v.columns, name) = i /\ name \in NamesOf(v.columns)
         /\ \A i \in DOMAIN v.columns : i # 0
         /\ name \in NamesOf(v.columns) <=> Position(v.columns, name) # 0
         /\ DOMAIN TypesOf(v.columns) = NamesOf(v.columns)
         /\ name \in NamesOf(v.columns) =>
              TypesOf(v.columns)[name] = v.columns[Position(v.columns, name)].type
<1>1. /\ v.columns \in Seq(Range(v.columns))
      /\ \A i, j \in DOMAIN v.columns : v.columns[i].name = v.columns[j].name => i = j
  BY DEF IsView
<1>2. DOMAIN v.columns = 1 .. Len(v.columns) /\ Len(v.columns) \in Nat
  BY <1>1, LenProperties
<1>3. /\ Position(v.columns, name) # 0 =>
           /\ Position(v.columns, name) \in DOMAIN v.columns
           /\ v.columns[Position(v.columns, name)].name = name
      /\ Position(v.columns, name) = 0 => \A i \in DOMAIN v.columns : v.columns[i].name # name
  BY <1>1, PositionIs
<1>4. \A i \in DOMAIN v.columns : i # 0
  BY <1>2
<1>5. \A i \in DOMAIN v.columns : v.columns[i].name = name =>
              Position(v.columns, name) = i /\ name \in NamesOf(v.columns)
  BY <1>1, <1>3 DEF NamesOf
<1>6. name \in NamesOf(v.columns) <=> Position(v.columns, name) # 0
  BY <1>3, <1>4, <1>5 DEF NamesOf
<1>7. TypesOf(v.columns) = [n \in NamesOf(v.columns) |-> v.columns[Position(v.columns, n)].type]
  BY DEF TypesOf, NamesOf
<1> QED BY <1>1, <1>4, <1>5, <1>6, <1>7

(* The cells of a row are stored in the columns the view has.              *)
LEMMA RowIs ==
  ASSUME NEW v, IsView(v), NEW row \in RowsOf(v.columns)
  PROVE  /\ DOMAIN row = NamesOf(v.columns)
         /\ \A name \in NamesOf(v.columns) :
              /\ \E cell0 \in CellSet : row[name] = Stored(cell0, TypesOf(v.columns)[name])
              /\ row[name].text \in Seq(Chars) /\ row[name] \in CellSet
<1> DEFINE types == TypesOf(v.columns)
<1>1. DOMAIN types = NamesOf(v.columns)
  BY ColumnAt
<1> HIDE DEF types
<1>2. PICK made \in [DOMAIN types -> Cells] : row = [name \in DOMAIN types |-> Stored(made[name], types[name])]
  BY DEF RowsOf, types
<1>3. ASSUME NEW name \in NamesOf(v.columns)
      PROVE  /\ \E cell0 \in CellSet : row[name] = Stored(cell0, types[name])
             /\ row[name].text \in Seq(Chars) /\ row[name] \in CellSet
  <2>1. made[name] \in CellSet /\ row[name] = Stored(made[name], types[name])
    BY <1>1, <1>2, ViewsAre
  <2>2. Stored(made[name], types[name]) \in CellSet
    BY <2>1, ViewsAre, StoredIs
  <2>3. \A cell \in CellSet : cell.text \in Seq(Chars)
    BY ViewsAre, CellIs
  <2> QED BY <2>1, <2>2, <2>3
<1> QED BY <1>1, <1>2, <1>3 DEF types

(* The filters that are no regular expressions, and those that are.        *)
PlainOf(v) == {k \in DOMAIN v.filters : v.filters[k].value # <<>> /\ ~v.filters[k].regex}
RegexOf(v) == {k \in DOMAIN v.filters : v.filters[k].value # <<>> /\ v.filters[k].regex}
CriteriaAt(v, k) == parse_criteria(v.filters[k].value)

(* The filters of a view and their criteria.                               *)
LEMMA FiltersAre ==
  ASSUME NEW v, IsView(v)
  PROVE  /\ DOMAIN v.filters = 1 .. Len(v.filters) /\ Len(v.filters) \in Nat
         /\ \A k \in DOMAIN v.filters :
              /\ v.filters[k].value \in Seq(Seq(Chars)) /\ v.filters[k].regex \in BOOLEAN
              /\ v.filters[k].regex => Len(v.filters[k].value) <= 1
              /\ CriteriaAt(v, k) \in Seq(CriteriaOf(Chars))
              /\ ToSet(CriteriaAt(v, k)) = {Reading(piece) : piece \in ToSet(v.filters[k].value) \ {<<>>}}
<1>1. /\ v.filters \in Seq(Range(v.filters))
      /\ \A f \in Range(v.filters) :
           f.value \in Seq(Seq(Chars)) /\ f.regex \in BOOLEAN /\ (f.regex => Len(f.value) <= 1)
  BY DEF IsView
<1>2. DOMAIN v.filters = 1 .. Len(v.filters) /\ Len(v.filters) \in Nat
  BY <1>1, LenProperties
<1>3. \A k \in DOMAIN v.filters :
        /\ v.filters[k].value \in Seq(Seq(Chars)) /\ v.filters[k].regex \in BOOLEAN
        /\ v.filters[k].regex => Len(v.filters[k].value) <= 1
  BY <1>1 DEF Range
<1>4. \A k \in DOMAIN v.filters :
        /\ CriteriaAt(v, k) \in Seq(CriteriaOf(Chars))
        /\ ToSet(CriteriaAt(v, k)) = {Reading(piece) : piece \in ToSet(v.filters[k].value) \ {<<>>}}
  BY <1>3, ParsedIs DEF CriteriaAt
<1> QED BY <1>2, <1>3, <1>4

(* What a plain filter asks for is what it means.                          *)
PlainMeans(filter, row, types) ==
  LET criteria == {Reading(piece) : piece \in ToSet(filter.value) \ {<<>>}}
      means(c) == CriterionMeans(c, row[filter.column], types[filter.column])
      either == {c \in criteria : ~is_and(c)}
  IN /\ either # {} => \E c \in either : means(c)
     /\ \A c \in criteria \ either : means(c)

(* The tests of a plain filter ask for what it means.                      *)
LEMMA PlainAsks ==
  ASSUME NEW v, IsView(v), NEW row \in RowsOf(v.columns), NEW k \in DOMAIN v.filters,
         v.filters[k].column \in NamesOf(v.columns)
  PROVE  LET column == v.filters[k].column
             noAffinity == has_no_affinity(TypesOf(v.columns)[column])
         IN Asks(FilterPairs(CriteriaAt(v, k), column, k, noAffinity), row, TypesOf(v.columns))
              <=> PlainMeans(v.filters[k], row, TypesOf(v.columns))
<1> DEFINE column == v.filters[k].column  types == TypesOf(v.columns)
           noAffinity == has_no_affinity(types[column])
           criteria == CriteriaAt(v, k)
           set == {Reading(piece) : piece \in ToSet(v.filters[k].value) \ {<<>>}}
           means == {c \in CriteriaOf(Chars) : CriterionMeans(c, row[column], types[column])}
<1>1. k \in Nat /\ criteria \in Seq(CriteriaOf(Chars)) /\ ToSet(criteria) = set
  BY FiltersAre
<1>2. PICK cell0 \in CellSet : row[column] = Stored(cell0, types[column])
  BY RowIs
<1>3. \A c \in CriteriaOf(Chars), group \in Nat \X Nat :
        PairHolds(Asked(OpIn(c, noAffinity), column, group, c), row, types) <=> c \in means
  <2> SUFFICES ASSUME NEW c \in CriteriaOf(Chars), NEW group \in Nat \X Nat
               PROVE PairHolds(Asked(OpIn(c, noAffinity), column, group, c), row, types) <=> c \in means
    OBVIOUS
  <2> HIDE DEF column, types
  <2>1. PairHolds(Asked(OpIn(c, has_no_affinity(types[column])), column, group, c), row, types)
          <=> CriterionMeans(c, row[column], types[column])
    BY <1>2, ViewsAre, AskedHolds
  <2> QED BY <2>1
<1>4. noAffinity \in BOOLEAN
  BY DEF has_no_affinity, declares_blob
<1> DEFINE asks == Asks(FilterPairs(criteria, column, k, noAffinity), row, types)
<1>5. asks <=>
           /\ {c \in ToSet(criteria) : ~is_and(c)} # {} => \E c \in ToSet(criteria) : ~is_and(c) /\ c \in means
           /\ \A c \in ToSet(criteria) : is_and(c) => c \in means
  <2> HIDE DEF column, types, noAffinity, criteria, means, set
  <2>1. column \in {column}
    OBVIOUS
  <2> QED BY <1>1, <1>3, <1>4, <2>1, FilterAsks
<1>6. ToSet(criteria) \subseteq CriteriaOf(Chars)
  <2> HIDE DEF criteria
  <2>1. \A i \in 1 .. Len(criteria) : criteria[i] \in CriteriaOf(Chars)
    BY <1>1, ElementOfSeq
  <2>2. DOMAIN criteria = 1 .. Len(criteria)
    BY <1>1, LenProperties
  <2> QED BY <2>1, <2>2 DEF ToSet
<1> DEFINE either == {c \in set : ~is_and(c)}
           M(c) == CriterionMeans(c, row[column], types[column])
<1>7. PlainMeans(v.filters[k], row, types) <=>
        /\ either # {} => \E c \in either : M(c)
        /\ \A c \in set \ either : M(c)
  BY Zenon DEF PlainMeans
<1>8. \A c \in set : c \in means <=> M(c)
  BY <1>1, <1>6
<1> HIDE DEF set, M, means, criteria, asks
<1>9. asks <=>
        /\ either # {} => \E c \in either : M(c)
        /\ \A c \in set \ either : M(c)
  BY <1>1, <1>5, <1>8
<1>10. asks <=> PlainMeans(v.filters[k], row, types)
  BY <1>7, <1>9
<1> QED BY <1>10 DEF asks, criteria

(* A clause that is put together from the tests of the global filter and   *)
(* those of each column filter selects the rows that all of them ask for.  *)
LEMMA ClauseAsks ==
  ASSUME NEW N, NEW head \in Seq(PairsOver(N)), NEW parts \in Seq(Seq(PairsOver(N))),
         \A x \in ToSet(head) : Fits(x) /\ x.test.group = <<0, 0>>,
         \A k \in DOMAIN parts : \A x \in ToSet(parts[k]) : Fits(x) /\ x.test.group[1] = k,
         NEW where, NEW row, NEW types,
         where.tests = TestsOf(head) \o FlattenSeq(EachTests(parts)),
         where.params = ArgsOf(head) \o FlattenSeq(EachArgs(parts))
  PROVE  Selected(where, row, types)
           <=> Asks(head, row, types) /\ \A k \in DOMAIN parts : Asks(parts[k], row, types)
<1> DEFINE P == PairsOver(N)  flat == FlattenSeq(parts)  all == head \o flat
<1>1. P = Pairs(TestsOver(N), Seq(ParamChars))
  BY DEF PairsOver
<1>2. flat \in Seq(P) /\ ToSet(flat) = UNION {ToSet(part) : part \in ToSet(parts)}
  BY FlattenType, ElementsFlat
<1>3. TestsOf(flat) = FlattenSeq(EachTests(parts))
      /\ ArgsOf(flat) = FlattenSeq(EachArgs(parts))
  <2>1. parts \in Seq(Seq(Pairs(TestsOver(N), Seq(ParamChars))))
    BY <1>1
  <2> QED BY <2>1, PairsFlat
<1> HIDE DEF flat
<1>4. all \in Seq(P) /\ ToSet(all) = ToSet(head) \cup ToSet(flat)
  BY <1>2, ElementsCat, ConcatProperties
<1>5. TestsOf(all) = TestsOf(head) \o TestsOf(flat) /\ ArgsOf(all) = ArgsOf(head) \o ArgsOf(flat)
  <2>1. head \in Seq(Pairs(TestsOver(N), Seq(ParamChars))) /\ flat \in Seq(Pairs(TestsOver(N), Seq(ParamChars)))
    BY <1>1, <1>2
  <2> QED BY <2>1, PairsCat
<1>6. \A x \in ToSet(all) : Fits(x)
  <2>1. ToSet(parts) = {parts[k] : k \in DOMAIN parts}
    BY DEF ToSet
  <2> HIDE DEF all
  <2> QED BY <1>2, <1>4, <2>1
<1>7. Selected(where, row, types) <=> Asks(all, row, types)
  <2>1. all \in Seq(Pairs(TestsOver(N), Seq(ParamChars))) /\ where.tests = TestsOf(all)
            /\ where.params = ArgsOf(all)
    BY <1>1, <1>3, <1>4, <1>5
  <2> HIDE DEF all
  <2> QED BY <1>6, <2>1, SelectedAsks
<1>8. Asks(all, row, types) <=> Asks(head, row, types) /\ \A k \in DOMAIN parts : Asks(parts[k], row, types)
  <2>1. \A x \in ToSet(head) : x.test.group[1] = 0
    OBVIOUS
  <2>2. \A k \in DOMAIN parts : \A x \in ToSet(parts[k]) : x.test.group[1] = k
    OBVIOUS
  <2> QED BY <2>1, <2>2, AsksFlat DEF flat
<1> QED BY <1>7, <1>8

(* The parts of a clause: the global filter, and every plain filter.       *)
NamesIn(v) == NamesOf(v.columns) \cup {NoColumn}
TypeAt(v, k) == TypesOf(v.columns)[v.filters[k].column]
SearchedIn(v) == Kept(v.columns, {c \in ToSet(v.columns) : ~declares_blob(c.type)})
HeadOf(v) == GlobalPairs(SearchedIn(v), v.global)
PlainPart(v, k) == FilterPairs(CriteriaAt(v, k), v.filters[k].column, k, has_no_affinity(TypeAt(v, k)))

(* The head holds the tests of the global filter.                          *)
LEMMA HeadTyped ==
  ASSUME NEW v, IsView(v)
  PROVE  /\ HeadOf(v) \in Seq(PairsOver(NamesIn(v)))
         /\ TestsOf(HeadOf(v)) = GlobalTests(SearchedIn(v), v.global)
         /\ ArgsOf(HeadOf(v)) = GlobalParams(SearchedIn(v), v.global)
         /\ \A x \in ToSet(HeadOf(v)) : Fits(x) /\ x.test.group = <<0, 0>>
         /\ ToSet(SearchedIn(v)) = {c \in ToSet(v.columns) : ~declares_blob(c.type)}
<1> DEFINE X == Range(v.columns)  S == {c \in ToSet(v.columns) : ~declares_blob(c.type)}
<1>1. v.columns \in Seq(X) /\ v.global \in Seq(Chars)
  BY DEF IsView
<1>2. \A c \in X : c.name \in NamesIn(v)
  BY DEF Range, NamesIn, NamesOf
<1>3. NoColumn \in NamesIn(v)
  BY DEF NamesIn
<1>4. S \subseteq ToSet(v.columns)
  OBVIOUS
<1> HIDE DEF X, S
<1>5. Kept(v.columns, S) \in Seq(X) /\ ToSet(Kept(v.columns, S)) = ToSet(v.columns) \cap S
  BY <1>1, KeptElements
<1>6. SearchedIn(v) = Kept(v.columns, S)
  BY DEF SearchedIn, S
<1>7. SearchedIn(v) \in Seq(X) /\ ToSet(SearchedIn(v)) = S
  BY <1>4, <1>5, <1>6
<1>8. /\ GlobalPairs(SearchedIn(v), v.global) \in Seq(PairsOver(NamesIn(v)))
      /\ TestsOf(GlobalPairs(SearchedIn(v), v.global)) = GlobalTests(SearchedIn(v), v.global)
      /\ ArgsOf(GlobalPairs(SearchedIn(v), v.global)) = GlobalParams(SearchedIn(v), v.global)
      /\ \A x \in ToSet(GlobalPairs(SearchedIn(v), v.global)) : Fits(x) /\ x.test.group = <<0, 0>>
  BY <1>1, <1>2, <1>3, <1>7, GlobalPairsTyped
<1> QED BY <1>7, <1>8 DEF HeadOf, S

(* A part holds the tests of its filter, in its group.                     *)
LEMMA PlainPartTyped ==
  ASSUME NEW v, IsView(v), NEW k \in DOMAIN v.filters, v.filters[k].column \in NamesOf(v.columns)
  PROVE  /\ PlainPart(v, k) \in Seq(PairsOver(NamesIn(v)))
         /\ TestsOf(PlainPart(v, k)) = Tests(CriteriaAt(v, k), v.filters[k].column, k, has_no_affinity(TypeAt(v, k)))
         /\ ArgsOf(PlainPart(v, k)) = Params(CriteriaAt(v, k))
         /\ \A x \in ToSet(PlainPart(v, k)) : Fits(x) /\ x.test.group[1] = k
<1> DEFINE noAffinity == has_no_affinity(TypeAt(v, k))  column == v.filters[k].column  criteria == CriteriaAt(v, k)
           N == NamesIn(v)
<1>1. k \in Nat /\ criteria \in Seq(CriteriaOf(Chars))
  BY FiltersAre
<1>2. column \in N
  BY DEF NamesIn
<1>3. noAffinity \in BOOLEAN
  BY DEF has_no_affinity, declares_blob
<1> HIDE DEF column, N, noAffinity, criteria
<1>4. /\ FilterPairs(criteria, column, k, noAffinity) \in Seq(PairsOver(N))
      /\ TestsOf(FilterPairs(criteria, column, k, noAffinity)) = Tests(criteria, column, k, noAffinity)
      /\ ArgsOf(FilterPairs(criteria, column, k, noAffinity)) = Params(criteria)
      /\ \A x \in ToSet(FilterPairs(criteria, column, k, noAffinity)) : Fits(x) /\ x.test.group[1] = k
  BY <1>1, <1>2, FilterPairsTyped
<1>5. PlainPart(v, k) = FilterPairs(criteria, column, k, noAffinity)
  BY DEF PlainPart, criteria, column, noAffinity
<1> QED BY <1>4, <1>5 DEF N, criteria, column, noAffinity

(* The rows the global filter means.                                       *)
GlobalMeans(v, row, types) ==
  v.global # <<>> => \E name \in DOMAIN row :
    /\ ~declares_blob(types[name]) /\ row[name].class # "null"
    /\ ContainsText(row[name].text, v.global)

(* The head asks for what the global filter means.                         *)
LEMMA HeadAsks ==
  ASSUME NEW v, IsView(v), NEW row \in RowsOf(v.columns)
  PROVE  Asks(HeadOf(v), row, TypesOf(v.columns)) <=> GlobalMeans(v, row, TypesOf(v.columns))
<1> DEFINE types == TypesOf(v.columns)  X == Range(v.columns)
           M(name) == row[name].class # "null" /\ ContainsText(row[name].text, v.global)
<1>1. ToSet(SearchedIn(v)) = {c \in ToSet(v.columns) : ~declares_blob(c.type)}
          /\ ToSet(v.columns) = {v.columns[i] : i \in DOMAIN v.columns}
  BY HeadTyped DEF ToSet
<1>2. SearchedIn(v) \in Seq(X) /\ v.global \in Seq(Chars)
  <2>1. v.columns \in Seq(X) /\ v.global \in Seq(Chars)
    BY DEF IsView
  <2> DEFINE S == {c \in ToSet(v.columns) : ~declares_blob(c.type)}
  <2> HIDE DEF X, S
  <2>2. Kept(v.columns, S) \in Seq(X)
    BY <2>1, KeptElements
  <2> QED BY <2>1, <2>2 DEF SearchedIn, S
<1>3. DOMAIN row = NamesOf(v.columns) /\ \A name \in NamesOf(v.columns) : row[name].text \in Seq(Chars)
  BY RowIs
<1>4. \A c \in ToSet(SearchedIn(v)) : c.name \in NamesOf(v.columns)
  BY <1>1 DEF NamesOf
<1>5. \A c \in ToSet(SearchedIn(v)) : row[c.name].text \in Seq(Chars)
  BY <1>3, <1>4
<1> HIDE DEF X
<1>6. Asks(HeadOf(v), row, types) <=>
        (v.global # <<>> => \E c \in ToSet(SearchedIn(v)) : row[c.name].class # "null"
            /\ ContainsText(row[c.name].text, v.global))
  <2> HIDE DEF types
  <2>1. Asks(GlobalPairs(SearchedIn(v), v.global), row, types) <=>
          (v.global # <<>> => \E c \in ToSet(SearchedIn(v)) : row[c.name].class # "null"
              /\ ContainsText(row[c.name].text, v.global))
    BY <1>2, <1>5, GlobalAsks
  <2> QED BY <2>1 DEF HeadOf
<1>7. \A i \in DOMAIN v.columns : types[v.columns[i].name] = v.columns[i].type
  BY ColumnAt
<1>8. (\E c \in ToSet(SearchedIn(v)) : M(c.name)) <=> \E name \in DOMAIN row : ~declares_blob(types[name])
          /\ M(name)
  <2> HIDE DEF M, types
  <2>1. ASSUME NEW c \in ToSet(SearchedIn(v)), M(c.name)
        PROVE  \E name \in DOMAIN row : ~declares_blob(types[name]) /\ M(name)
    <3>1. PICK i \in DOMAIN v.columns : c = v.columns[i]
      BY <1>1
    <3>2. types[c.name] = c.type /\ ~declares_blob(c.type) /\ c.name \in DOMAIN row
      BY <1>1, <1>3, <1>4, <1>7, <3>1
    <3> QED BY <2>1, <3>2
  <2>2. ASSUME NEW name \in DOMAIN row, ~declares_blob(types[name]), M(name)
        PROVE  \E c \in ToSet(SearchedIn(v)) : M(c.name)
    <3>1. PICK i \in DOMAIN v.columns : name = v.columns[i].name
      BY <1>3 DEF NamesOf
    <3>2. v.columns[i] \in ToSet(SearchedIn(v))
      BY <1>1, <1>7, <2>2, <3>1
    <3> QED BY <2>2, <3>1, <3>2
  <2> QED BY <2>1, <2>2
<1>9. GlobalMeans(v, row, types) <=>
        (v.global # <<>> => \E name \in DOMAIN row : ~declares_blob(types[name]) /\ M(name))
  BY DEF GlobalMeans
<1> QED BY <1>6, <1>8, <1>9

---------------------------------------------------------------------------
(* SQLite: the clause and the scan.                                        *)

(* The clause for SQLite, and the regular expressions beside it.           *)
RegexIn(v) == Ascending(RegexOf(v))
RegexesIn(v) ==
  [i \in DOMAIN RegexIn(v) |->
     [index |-> Position(v.columns, v.filters[RegexIn(v)[i]].column), pattern |-> v.filters[RegexIn(v)[i]].value[1]]]
SqliteParts(v) == [k \in DOMAIN v.filters |-> IF k \in PlainOf(v) THEN PlainPart(v, k) ELSE <<>>]
SqliteClause(v) == build_where_clause(v.columns, v.filters, v.global)

(* The regular expressions are listed in the order of their filters.       *)
LEMMA RegexListed ==
  ASSUME NEW v, IsView(v)
  PROVE  /\ RegexIn(v) \in Seq(RegexOf(v)) /\ ToSet(RegexIn(v)) = RegexOf(v)
         /\ DOMAIN RegexIn(v) = 1 .. Len(RegexIn(v)) /\ Len(RegexIn(v)) \in Nat
<1> DEFINE S == RegexOf(v)
<1>1. S \subseteq 1 .. Len(v.filters) /\ Len(v.filters) \in Nat
  BY FiltersAre DEF RegexOf
<1> HIDE DEF S
<1>2. S \in SUBSET Nat /\ IsFiniteSet(S)
  <2>1. IsFiniteSet(1 .. Len(v.filters))
    BY <1>1, FS_Interval
  <2>2. IsFiniteSet(S)
    BY <1>1, <2>1, FS_Subset
  <2>3. S \in SUBSET Nat
    BY <1>1
  <2> QED BY <2>2, <2>3
<1>3. Lists(Ascending(S), S) /\ Cardinality(S) \in Nat
  BY <1>2, AscendingLists, FS_CardinalityType
<1>4. Ascending(S) \in [1 .. Cardinality(S) -> S] /\ \A a \in S : \E i \in 1 .. Cardinality(S) : Ascending(S)[i] = a
  BY <1>3 DEF Lists
<1>5. RegexIn(v) = Ascending(S)
  BY DEF RegexIn, S
<1>6. RegexIn(v) \in Seq(S) /\ ToSet(RegexIn(v)) = S
  BY <1>3, <1>4, <1>5 DEF ToSet
<1> QED BY <1>6, LenProperties DEF S

(* The clause is put together from the head and the parts.                 *)
LEMMA SqliteClauseIs ==
  ASSUME NEW v, IsView(v), Known(v)
  PROVE  /\ SqliteClause(v).error = FALSE
         /\ SqliteClause(v).tests = TestsOf(HeadOf(v)) \o FlattenSeq(EachTests(SqliteParts(v)))
         /\ SqliteClause(v).params = ArgsOf(HeadOf(v)) \o FlattenSeq(EachArgs(SqliteParts(v)))
         /\ SqliteClause(v).regexes = RegexesIn(v)
<1> DEFINE columns == v.columns  filters == v.filters  global == v.global
           searchable == Kept(columns, {c \in ToSet(columns) : ~declares_blob(c.type)})
           plain == {k \in DOMAIN filters : filters[k].value # <<>> /\ ~filters[k].regex}
           regex == Ascending({k \in DOMAIN filters : filters[k].value # <<>> /\ filters[k].regex})
           at(k) == Position(columns, filters[k].column)
           of(k) == parse_criteria(filters[k].value)
           tests == [k \in DOMAIN filters |->
                IF k \in plain
                THEN Tests(of(k), filters[k].column, k,
                           at(k) # 0 /\ has_no_affinity(columns[at(k)].type))
                ELSE <<>>]
           params == [k \in DOMAIN filters |-> IF k \in plain THEN Params(of(k)) ELSE <<>>]
           regexes == [i \in DOMAIN regex |-> [index |-> at(regex[i]), pattern |-> filters[regex[i]].value[1]]]
           refused == \E k \in plain : at(k) = 0 /\ of(k) # <<>>
<1>1. SqliteClause(v) =
        IF \E i \in DOMAIN regex : at(regex[i]) = 0 THEN Failed
        ELSE [error |-> refused, tests |-> GlobalTests(searchable, global) \o FlattenSeq(tests),
              params |-> GlobalParams(searchable, global) \o FlattenSeq(params), regexes |-> regexes]
  BY Zenon DEF SqliteClause, build_where_clause, RefusesName
<1>2. \A k \in DOMAIN filters : at(k) # 0 /\ filters[k].column \in NamesOf(columns)
  BY ColumnAt DEF Known
<1>3. plain = PlainOf(v) /\ regex = RegexIn(v) /\ searchable = SearchedIn(v)
      /\ PlainOf(v) \subseteq DOMAIN filters /\ RegexOf(v) \subseteq DOMAIN filters
  BY DEF PlainOf, RegexIn, RegexOf, SearchedIn
<1>4. ~\E i \in DOMAIN regex : at(regex[i]) = 0
  <2>1. \A i \in DOMAIN RegexIn(v) : RegexIn(v)[i] \in DOMAIN filters
    BY <1>3, RegexListed, ElementOfSeq
  <2> HIDE DEF regex
  <2> QED BY <1>2, <1>3, <2>1
<1>5. refused = FALSE
  BY <1>2
<1>6. regexes = RegexesIn(v)
  BY <1>3, Zenon DEF RegexesIn
<1>7. tests = EachTests(SqliteParts(v)) /\ params = EachArgs(SqliteParts(v))
  <2> DEFINE D == DOMAIN filters
  <2>1. ASSUME NEW k \in D, k \in PlainOf(v)
        PROVE  /\ Tests(of(k), filters[k].column, k, at(k) # 0 /\ has_no_affinity(columns[at(k)].type))
                    = TestsOf(PlainPart(v, k))
               /\ Params(of(k)) = ArgsOf(PlainPart(v, k))
    <3>1. filters[k].column \in NamesOf(columns) /\ at(k) # 0
      BY <1>2
    <3>2. TypeAt(v, k) = columns[at(k)].type
      BY <3>1, ColumnAt DEF TypeAt
    <3>3. (at(k) # 0 /\ has_no_affinity(columns[at(k)].type)) = has_no_affinity(TypeAt(v, k))
      BY <3>1, <3>2 DEF has_no_affinity, declares_blob
    <3>4. of(k) = CriteriaAt(v, k)
      BY DEF CriteriaAt
    <3> HIDE DEF of, at
    <3>5. TestsOf(PlainPart(v, k)) = Tests(CriteriaAt(v, k), filters[k].column, k, has_no_affinity(TypeAt(v, k)))
          /\ ArgsOf(PlainPart(v, k)) = Params(CriteriaAt(v, k))
      BY <3>1, PlainPartTyped
    <3> QED BY <3>3, <3>4, <3>5
  <2>2. TestsOf(<<>>) = <<>> /\ ArgsOf(<<>>) = <<>>
    BY FlattenEmpty DEF TestsOf, ArgsOf
  <2>3. DOMAIN SqliteParts(v) = D /\ \A k \in D : SqliteParts(v)[k] = IF k \in PlainOf(v) THEN PlainPart(v, k) ELSE <<>>
    BY DEF SqliteParts
  <2> DEFINE t(k) == Tests(of(k), filters[k].column, k, at(k) # 0 /\ has_no_affinity(columns[at(k)].type))
             p(k) == Params(of(k))
  <2>4. \A k \in D : TestsOf(SqliteParts(v)[k]) = IF k \in plain THEN t(k) ELSE <<>>
    <3> HIDE DEF t, p, plain
    <3> QED BY <1>3, <2>1, <2>2, <2>3 DEF t
  <2>5. \A k \in D : ArgsOf(SqliteParts(v)[k]) = IF k \in plain THEN p(k) ELSE <<>>
    <3> HIDE DEF t, p, plain
    <3> QED BY <1>3, <2>1, <2>2, <2>3 DEF p
  <2>6. tests = [k \in D |-> IF k \in plain THEN t(k) ELSE <<>>]
            /\ params = [k \in D |-> IF k \in plain THEN p(k) ELSE <<>>]
    BY Zenon
  <2>7. EachTests(SqliteParts(v)) = [k \in D |-> TestsOf(SqliteParts(v)[k])]
        /\ EachArgs(SqliteParts(v)) = [k \in D |-> ArgsOf(SqliteParts(v)[k])]
    BY <2>3 DEF EachTests, EachArgs
  <2> HIDE DEF t, p, plain, tests, params
  <2> QED BY <2>4, <2>5, <2>6, <2>7
<1> HIDE DEF tests, params, regexes, regex, searchable, refused
<1>8. TestsOf(HeadOf(v)) = GlobalTests(searchable, global) /\ ArgsOf(HeadOf(v)) = GlobalParams(searchable, global)
  BY <1>3, HeadTyped
<1>9. SqliteClause(v) =
        [error |-> refused, tests |-> GlobalTests(searchable, global) \o FlattenSeq(tests),
         params |-> GlobalParams(searchable, global) \o FlattenSeq(params), regexes |-> regexes]
  BY <1>1, <1>4
<1> QED BY <1>5, <1>6, <1>7, <1>8, <1>9

(* It selects what the global filter and the plain filters mean.           *)
LEMMA SqliteSelects ==
  ASSUME NEW v, IsView(v), Known(v), NEW row \in RowsOf(v.columns)
  PROVE  Selected(SqliteClause(v), row, TypesOf(v.columns)) <=>
           /\ GlobalMeans(v, row, TypesOf(v.columns))
           /\ \A k \in PlainOf(v) : PlainMeans(v.filters[k], row, TypesOf(v.columns))
<1> DEFINE types == TypesOf(v.columns)  N == NamesIn(v)  parts == SqliteParts(v)  head == HeadOf(v)
<1>1. /\ PlainOf(v) \subseteq DOMAIN v.filters /\ DOMAIN v.filters = 1 .. Len(v.filters) /\ Len(v.filters) \in Nat
      /\ \A k \in DOMAIN v.filters : v.filters[k].column \in NamesOf(v.columns)
  BY ColumnAt, FiltersAre DEF PlainOf, Known
<1>2. DOMAIN parts = DOMAIN v.filters /\ \A k \in DOMAIN v.filters : parts[k] = IF k \in PlainOf(v) THEN PlainPart(v, k) ELSE <<>>
  BY DEF SqliteParts
<1>3. /\ \A k \in PlainOf(v) : PlainPart(v, k) \in Seq(PairsOver(N))
             /\ \A x \in ToSet(PlainPart(v, k)) : Fits(x) /\ x.test.group[1] = k
  BY <1>1, PlainPartTyped
<1>4. /\ head \in Seq(PairsOver(N)) /\ TestsOf(head) = TestsOf(HeadOf(v))
      /\ \A x \in ToSet(head) : Fits(x) /\ x.test.group = <<0, 0>>
  BY HeadTyped
<1>5. ToSet(<<>>) = {} /\ <<>> \in Seq(PairsOver(N))
  <2>1. ToSet(<<>>) = {}
    BY DEF ToSet
  <2> QED BY <2>1, EmptySeq
<1>p. parts = [k \in DOMAIN v.filters |-> parts[k]]
  BY DEF SqliteParts
<1> HIDE DEF parts, N, head
<1>6. parts \in Seq(Seq(PairsOver(N)))
  <2> DEFINE Q == Seq(PairsOver(N))
  <2>1. \A k \in DOMAIN v.filters : parts[k] \in Q
    BY <1>2, <1>3, <1>5
  <2> HIDE DEF Q
  <2>2. parts \in [1 .. Len(v.filters) -> Q]
    BY <1>1, <1>p, <2>1
  <2>3. parts \in Seq(Q)
    BY <1>1, <2>2
  <2> QED BY <2>3 DEF Q
<1>7. \A k \in DOMAIN parts : \A x \in ToSet(parts[k]) : Fits(x) /\ x.test.group[1] = k
  BY <1>2, <1>3, <1>5
<1>8. Selected(SqliteClause(v), row, types) <=> Asks(head, row, types)
          /\ \A k \in DOMAIN parts : Asks(parts[k], row, types)
  <2>1. /\ SqliteClause(v).tests = TestsOf(head) \o FlattenSeq(EachTests(parts))
        /\ SqliteClause(v).params = ArgsOf(head) \o FlattenSeq(EachArgs(parts))
    BY SqliteClauseIs DEF head, parts
  <2> HIDE DEF types
  <2> QED BY <1>4, <1>6, <1>7, <2>1, ClauseAsks
<1>9. Asks(head, row, types) <=> GlobalMeans(v, row, types)
  BY HeadAsks DEF head
<1>10. \A k \in PlainOf(v) : Asks(PlainPart(v, k), row, types) <=> PlainMeans(v.filters[k], row, types)
  BY <1>1, PlainAsks DEF PlainPart, TypeAt
<1>11. Asks(<<>>, row, types)
  BY AsksNothing
<1>12. (\A k \in DOMAIN parts : Asks(parts[k], row, types))
           <=> \A k \in PlainOf(v) : PlainMeans(v.filters[k], row, types)
  <2> HIDE DEF types
  <2> QED BY <1>1, <1>2, <1>10, <1>11
<1> QED BY <1>8, <1>9, <1>12

(* The columns a scan reads, and the row it reads them in.                 *)
ScanOf(v) == project_regex_columns(v.columns, RegexesIn(v))
RowRead(v, row) == <<IntCell(1)>> \o [i \in DOMAIN ScanOf(v).projected |-> row[ScanOf(v).projected[i]]]

(* Every expression of a scan finds the cell of its column in the row that *)
(* is read, in which each column stands once.                              *)
LEMMA ScanFinds ==
  ASSUME NEW v, IsView(v), Known(v), NEW row \in RowsOf(v.columns)
  PROVE  row_matches_regexes(RowRead(v, row), ScanOf(v).regexes) <=>
           \A k \in RegexOf(v) : cell_matches_regex(row[v.filters[k].column], v.filters[k].value[1])
<1> DEFINE n == Len(RegexIn(v))
           filter(i) == v.filters[RegexIn(v)[i]]
           regexes == RegexesIn(v)
           names == [i \in DOMAIN regexes |-> v.columns[regexes[i].index].name]
           F == {i \in DOMAIN names : \A j \in 1 .. i - 1 : names[j] # names[i]}
           firsts == Ascending(F)
           projected == [i \in DOMAIN firsts |-> names[firsts[i]]]
           records == [i \in DOMAIN projected |-> [name |-> projected[i]]]
           rest == [i \in DOMAIN projected |-> row[projected[i]]]
           c == Cardinality(F)
<1>1. /\ RegexIn(v) \in Seq(RegexOf(v)) /\ ToSet(RegexIn(v)) = RegexOf(v) /\ n \in Nat
      /\ DOMAIN RegexIn(v) = 1 .. n /\ \A i \in 1 .. n : RegexIn(v)[i] \in RegexOf(v)
      /\ RegexOf(v) = {RegexIn(v)[i] : i \in 1 .. n}
  <2>1. /\ RegexIn(v) \in Seq(RegexOf(v)) /\ ToSet(RegexIn(v)) = RegexOf(v) /\ n \in Nat
        /\ DOMAIN RegexIn(v) = 1 .. n
    BY RegexListed
  <2> QED BY <2>1, ElementOfSeq DEF ToSet
<1>2. \A i \in 1 .. n : filter(i).column \in NamesOf(v.columns) /\ Position(v.columns, filter(i).column) # 0
  <2>1. RegexOf(v) \subseteq DOMAIN v.filters
    BY DEF RegexOf
  <2> QED BY <1>1, <2>1, ColumnAt DEF Known
<1>3. /\ DOMAIN regexes = 1 .. n
      /\ \A i \in 1 .. n : regexes[i].index = Position(v.columns, filter(i).column)
             /\ regexes[i].pattern = filter(i).value[1]
  BY <1>1 DEF RegexesIn
<1> HIDE DEF regexes
<1>4. DOMAIN names = 1 .. n /\ \A i \in 1 .. n : names[i] = filter(i).column
  <2>1. v.columns \in Seq(Range(v.columns))
    BY DEF IsView
  <2>2. \A i \in 1 .. n : v.columns[Position(v.columns, filter(i).column)].name = filter(i).column
    BY <1>2, <2>1, PositionIs
  <2> HIDE DEF filter
  <2> QED BY <1>3, <2>2
<1> HIDE DEF names, filter, n
<1>n. n \in Nat
  BY <1>1
<1>5. F \subseteq 1 .. n /\ F \in SUBSET Nat /\ IsFiniteSet(F) /\ c \in Nat /\ Lists(firsts, F)
  <2>1. F \subseteq 1 .. n /\ F \in SUBSET Nat
    BY <1>n, <1>4
  <2>2. IsFiniteSet(1 .. n)
    BY <1>n, FS_Interval
  <2> HIDE DEF F
  <2>3. IsFiniteSet(F)
    BY <2>1, <2>2, FS_Subset
  <2> QED BY <2>1, <2>3, AscendingLists, FS_CardinalityType
<1>6. \A i \in 1 .. n : \E m \in F : names[m] = names[i]
  <2> SUFFICES ASSUME NEW i \in 1 .. n PROVE \E m \in F : names[m] = names[i]
    OBVIOUS
  <2> DEFINE same == {j \in 1 .. n : names[j] = names[i]}
  <2>1. same \subseteq Nat /\ same # {}
    BY <1>n
  <2>2. PICK m \in same : \A j \in same : m <= j
    <3> HIDE DEF same
    <3> QED BY <2>1, LeastNumber
  <2>3. m \in 1 .. n /\ names[m] = names[i]
    BY <2>2
  <2>4. \A j \in 1 .. m - 1 : j \in 1 .. n /\ ~(m <= j)
    BY <1>1, <2>3
  <2>5. m \in F
    BY <1>4, <2>2, <2>3, <2>4
  <2> QED BY <2>3, <2>5
<1>7. /\ firsts \in [1 .. c -> F] /\ DOMAIN firsts = 1 .. c
      /\ \A m \in F : \E p \in 1 .. c : firsts[p] = m
  BY <1>5 DEF Lists
<1> HIDE DEF F, firsts, c
<1>8. /\ DOMAIN projected = 1 .. c
      /\ \A p \in 1 .. c : projected[p] \in NamesOf(v.columns)
      /\ \A i \in 1 .. n : \E p \in 1 .. c : projected[p] = names[i]
  <2>1. \A p \in 1 .. c : firsts[p] \in 1 .. n
    BY <1>5, <1>7
  <2>2. \A p \in 1 .. c : projected[p] \in NamesOf(v.columns)
    BY <1>2, <1>4, <1>7, <2>1
  <2> QED BY <1>6, <1>7, <2>2
<1>9. ScanOf(v).projected = projected
      /\ DOMAIN ScanOf(v).regexes = 1 .. n
      /\ \A i \in 1 .. n : /\ ScanOf(v).regexes[i].index = ScanIndex(projected, names[i])
                           /\ ScanOf(v).regexes[i].pattern = regexes[i].pattern
  <2>1. ScanOf(v) = [projected |-> projected,
           regexes |-> [i \in DOMAIN regexes |-> [index |-> ScanIndex(projected, names[i]), pattern |-> regexes[i].pattern]]]
    BY Zenon DEF ScanOf, project_regex_columns, regexes, names, F, firsts
  <2> HIDE DEF projected
  <2> QED BY <1>3, <2>1
<1> HIDE DEF projected
<1>10. \A i \in 1 .. n : \E p \in 1 .. c : ScanIndex(projected, names[i]) = p + 1 /\ projected[p] = names[i]
  <2> SUFFICES ASSUME NEW i \in 1 .. n
               PROVE \E p \in 1 .. c : ScanIndex(projected, names[i]) = p + 1 /\ projected[p] = names[i]
    OBVIOUS
  <2> DEFINE X == {[name |-> x] : x \in NamesOf(v.columns)}
             p == Position(records, names[i])
  <2>1. records \in Seq(X) /\ DOMAIN records = 1 .. c /\ \A q \in 1 .. c : records[q].name = projected[q]
    <3>1. DOMAIN records = 1 .. c /\ records = [q \in 1 .. c |-> records[q]]
              /\ \A q \in 1 .. c : records[q].name = projected[q]
      BY <1>8
    <3>2. \A q \in 1 .. c : records[q] \in X
      BY <1>8
    <3> HIDE DEF records, X
    <3>3. records \in [1 .. c -> X]
      BY <3>1, <3>2
    <3>4. c \in Nat
      BY <1>5
    <3> QED BY <3>1, <3>3, <3>4
  <2> HIDE DEF records, X
  <2>2. /\ p # 0 => p \in DOMAIN records /\ records[p].name = names[i]
        /\ p = 0 => \A q \in DOMAIN records : records[q].name # names[i]
    BY <2>1, PositionIs
  <2> HIDE DEF p
  <2>3. p \in 1 .. c /\ projected[p] = names[i]
    BY <1>8, <2>1, <2>2
  <2>4. ScanIndex(projected, names[i]) = p + 1
    BY DEF ScanIndex, p, records
  <2> QED BY <2>3, <2>4
<1>11. \A p \in 1 .. c : RowRead(v, row)[p + 1] = row[projected[p]]
  <2> DEFINE first == <<IntCell(1)>>
  <2>1. \A p \in 1 .. c : row[projected[p]] \in CellSet
    BY <1>8, RowIs
  <2>2. IntCell(1) \in CellSet
    BY DEF CellSet
  <2>3. first \in Seq(CellSet) /\ Len(first) = 1
    BY <2>2, TwoTyped
  <2>4. rest \in Seq(CellSet) /\ Len(rest) = c /\ \A p \in 1 .. c : rest[p] = row[projected[p]]
    <3>1. rest = [p \in 1 .. c |-> rest[p]] /\ \A p \in 1 .. c : rest[p] = row[projected[p]]
      BY <1>8
    <3> HIDE DEF rest
    <3>2. rest \in [1 .. c -> CellSet]
      BY <2>1, <3>1
    <3>3. c \in Nat
      BY <1>5
    <3> QED BY <3>1, <3>2, <3>3
  <2> HIDE DEF first, rest
  <2>5. \A p \in 1 .. 1 + c : (first \o rest)[p] = IF p <= 1 THEN first[p] ELSE rest[p - 1]
    <3>1. \A p \in 1 .. Len(first) + Len(rest) :
            (first \o rest)[p] = IF p <= Len(first) THEN first[p] ELSE rest[p - Len(first)]
      BY <2>3, <2>4, ConcatProperties
    <3>2. Len(first) = 1 /\ Len(rest) = c
      BY <2>3, <2>4
    <3> QED BY <3>1, <3>2
  <2>6. RowRead(v, row) = first \o rest
    BY <1>9 DEF RowRead, first, rest
  <2>7. c \in Nat
    BY <1>5
  <2>8. \A p \in 1 .. c : p + 1 \in 1 .. 1 + c /\ ~(p + 1 <= 1) /\ (p + 1) - 1 = p
    BY <2>7
  <2> QED BY <2>4, <2>5, <2>6, <2>8
<1>12. \A i \in 1 .. n :
         /\ RowRead(v, row)[ScanOf(v).regexes[i].index] = row[filter(i).column]
         /\ ScanOf(v).regexes[i].pattern = filter(i).value[1]
  <2> SUFFICES ASSUME NEW i \in 1 .. n
               PROVE /\ RowRead(v, row)[ScanOf(v).regexes[i].index] = row[filter(i).column]
                     /\ ScanOf(v).regexes[i].pattern = filter(i).value[1]
    OBVIOUS
  <2>1. PICK p \in 1 .. c : ScanIndex(projected, names[i]) = p + 1 /\ projected[p] = names[i]
    BY <1>10
  <2>2. ScanOf(v).regexes[i].index = p + 1 /\ ScanOf(v).regexes[i].pattern = regexes[i].pattern
    BY <1>9, <2>1
  <2> QED BY <1>3, <1>4, <1>11, <2>1, <2>2
<1>13. row_matches_regexes(RowRead(v, row), ScanOf(v).regexes) <=>
         \A i \in 1 .. n : cell_matches_regex(row[filter(i).column], filter(i).value[1])
  BY <1>9, <1>12 DEF row_matches_regexes
<1> QED BY <1>1, <1>13 DEF filter

(* A filter on a column that does not exist is refused, unless it asks for *)
(* nothing.                                                                *)
LEMMA UnknownRefused ==
  ASSUME NEW v, IsView(v)
  PROVE  \/ SqliteClause(v).error
         \/ \A k \in DOMAIN v.filters :
              Position(v.columns, v.filters[k].column) = 0 => CriteriaAt(v, k) = <<>>
<1> DEFINE columns == v.columns  filters == v.filters  global == v.global
           searchable == Kept(columns, {c \in ToSet(columns) : ~declares_blob(c.type)})
           plain == {k \in DOMAIN filters : filters[k].value # <<>> /\ ~filters[k].regex}
           regex == Ascending({k \in DOMAIN filters : filters[k].value # <<>> /\ filters[k].regex})
           at(k) == Position(columns, filters[k].column)
           of(k) == parse_criteria(filters[k].value)
           tests == GlobalTests(searchable, global) \o FlattenSeq([k \in DOMAIN filters |->
                IF k \in plain
                THEN Tests(of(k), filters[k].column, k,
                           at(k) # 0 /\ has_no_affinity(columns[at(k)].type))
                ELSE <<>>])
           params == GlobalParams(searchable, global) \o FlattenSeq(
             [k \in DOMAIN filters |-> IF k \in plain THEN Params(of(k)) ELSE <<>>])
           regexes == [i \in DOMAIN regex |-> [index |-> at(regex[i]), pattern |-> filters[regex[i]].value[1]]]
           refused == \E k \in plain : at(k) = 0 /\ of(k) # <<>>
<1>1. SqliteClause(v) =
        IF \E i \in DOMAIN regex : at(regex[i]) = 0 THEN Failed
        ELSE [error |-> refused, tests |-> tests, params |-> params, regexes |-> regexes]
  BY Zenon DEF SqliteClause, build_where_clause, RefusesName
<1>2. plain = PlainOf(v) /\ regex = RegexIn(v)
  BY DEF PlainOf, RegexIn, RegexOf
<1> HIDE DEF tests, params, regexes, regex, searchable, refused, of, at, plain
<1>3. CASE \E i \in DOMAIN regex : at(regex[i]) = 0
  BY <1>1, <1>3 DEF Failed
<1>4. CASE ~\E i \in DOMAIN regex : at(regex[i]) = 0
  <2>1. SqliteClause(v).error = refused
    BY <1>1, <1>4
  <2> SUFFICES ASSUME ~refused, NEW k \in DOMAIN v.filters, Position(v.columns, v.filters[k].column) = 0
               PROVE  CriteriaAt(v, k) = <<>>
    BY <2>1
  <2>2. at(k) = 0 /\ of(k) = CriteriaAt(v, k)
    BY DEF at, of, CriteriaAt
  <2>3. CASE v.filters[k].value = <<>>
    <3>1. DOMAIN <<>> = {}
      OBVIOUS
    <3>2. \A S : Kept(<<>>, S) = <<>>
      BY <3>1 DEF Kept, Places
    <3>3. parse_criteria(<<>>) = [i \in {} |-> Criterion(<<>>[i])]
      BY <3>1, <3>2 DEF parse_criteria
    <3>4. parse_criteria(<<>>) = <<>>
      BY <3>3
    <3> QED BY <2>3, <3>4 DEF CriteriaAt
  <2>4. CASE k \in PlainOf(v)
    BY <1>2, <2>2, <2>4 DEF refused
  <2>5. CASE k \in RegexOf(v)
    <3>1. PICK i \in DOMAIN RegexIn(v) : RegexIn(v)[i] = k
      BY <2>5, RegexListed DEF ToSet
    <3> QED BY <1>2, <1>4, <2>2, <3>1
  <2>6. v.filters[k].regex \in BOOLEAN
    BY FiltersAre
  <2> QED BY <2>3, <2>4, <2>5, <2>6 DEF PlainOf, RegexOf
<1> QED BY <1>3, <1>4

(* The clause and the scan keep the rows the filters mean.                 *)
LEMMA FiltersSelect ==
  ASSUME NEW v, IsView(v), Known(v), NEW row \in RowsOf(v.columns)
  PROVE  Selected(SqliteClause(v), row, TypesOf(v.columns))
             /\ row_matches_regexes(RowRead(v, row), ScanOf(v).regexes)
           <=> RowMeant(v.filters, v.global, row, TypesOf(v.columns))
<1> DEFINE types == TypesOf(v.columns)
           matches(k) == cell_matches_regex(row[v.filters[k].column], v.filters[k].value[1])
           plain(k) == PlainMeans(v.filters[k], row, types)
<1>1. \A k \in DOMAIN v.filters : v.filters[k].regex \in BOOLEAN /\ v.filters[k].value \in Seq(Seq(Chars))
  BY FiltersAre
<1>2. \A k \in DOMAIN v.filters : FilterMeans(v.filters[k], row, types) <=>
        IF v.filters[k].regex THEN (v.filters[k].value # <<>> => matches(k)) ELSE plain(k)
  <2> SUFFICES ASSUME NEW k \in DOMAIN v.filters
               PROVE FilterMeans(v.filters[k], row, types) <=>
                       IF v.filters[k].regex THEN (v.filters[k].value # <<>> => matches(k)) ELSE plain(k)
    OBVIOUS
  <2> QED BY Zenon DEF FilterMeans, PlainMeans
<1>3. \A k \in DOMAIN v.filters : v.filters[k].value = <<>> => plain(k)
  <2> SUFFICES ASSUME NEW k \in DOMAIN v.filters, v.filters[k].value = <<>> PROVE plain(k)
    OBVIOUS
  <2>1. {Reading(piece) : piece \in ToSet(v.filters[k].value) \ {<<>>}} = {}
    BY DEF ToSet
  <2> QED BY <2>1 DEF PlainMeans
<1> HIDE DEF plain, matches
<1>4. (\A k \in DOMAIN v.filters : FilterMeans(v.filters[k], row, types)) <=>
        (\A k \in PlainOf(v) : plain(k)) /\ \A k \in RegexOf(v) : matches(k)
  BY <1>1, <1>2, <1>3 DEF PlainOf, RegexOf
<1>5. Selected(SqliteClause(v), row, types) <=>
        GlobalMeans(v, row, types) /\ \A k \in PlainOf(v) : plain(k)
  BY SqliteSelects DEF plain
<1>6. row_matches_regexes(RowRead(v, row), ScanOf(v).regexes) <=> \A k \in RegexOf(v) : matches(k)
  BY ScanFinds DEF matches
<1>7. RowMeant(v.filters, v.global, row, types) <=>
        GlobalMeans(v, row, types) /\ \A k \in DOMAIN v.filters : FilterMeans(v.filters[k], row, types)
  BY Zenon DEF RowMeant, GlobalMeans
<1> QED BY <1>4, <1>5, <1>6, <1>7

---------------------------------------------------------------------------
(* DuckDB: the same filters on columns of text.                            *)

(* A part of one test without parameters.                                  *)
LEMMA OnePair ==
  ASSUME NEW N, NEW x \in PairsOver(N), x.args = <<>>
  PROVE  /\ <<x>> \in Seq(PairsOver(N)) /\ ToSet(<<x>>) = {x}
         /\ TestsOf(<<x>>) = <<x.test>> /\ ArgsOf(<<x>>) = <<>>
<1>1. <<x>> \in Seq(PairsOver(N)) /\ DOMAIN <<x>> = {1} /\ <<x>>[1] = x
  BY TwoTyped
<1>2. ToSet(<<x>>) = {x}
  BY <1>1 DEF ToSet
<1>3. TestsOf(<<x>>) = <<x.test>>
  <2> DEFINE test == x.test
  <2>1. TestsOf(<<x>>) = [i \in {1} |-> test]
    BY <1>1 DEF TestsOf
  <2> HIDE DEF test
  <2>2. test \in {test}
    OBVIOUS
  <2>3. [i \in {1} |-> test] = <<test>>
    BY <2>2, OneIs
  <2> QED BY <2>1, <2>3 DEF test
<1>4. ArgsOf(<<x>>) = <<>>
  <2> DEFINE none == <<>>
  <2>1. [i \in DOMAIN <<x>> |-> <<x>>[i].args] = [i \in {1} |-> none]
    BY <1>1
  <2>2. none \in Seq(Nat)
    BY EmptySeq
  <2> HIDE DEF none
  <2>3. [i \in {1} |-> none] = <<none>>
    BY <2>2, OneIs
  <2>4. FlattenSeq(<<none>>) = none
    BY <2>2, FlattenOne
  <2> QED BY <2>1, <2>3, <2>4 DEF ArgsOf, none
<1> QED BY <1>1, <1>2, <1>3, <1>4

(* The same filters for DuckDB, on columns of text.                        *)
AllText(v) == \A name \in NamesOf(v.columns) : TypesOf(v.columns)[name] = {"TEXT"}
RegexPair(v, k) == [test |-> RegexTest(v.filters[k].column, k, v.filters[k].value[1]), args |-> <<>>]
DuckParts(v) ==
  [k \in DOMAIN v.filters |->
     IF k \in PlainOf(v) THEN PlainPart(v, k) ELSE IF k \in RegexOf(v) THEN <<RegexPair(v, k)>> ELSE <<>>]
DuckClause(v) == build_where(v.columns, v.filters, v.global)

(* The test of a regular expression has no parameter.                      *)
LEMMA RegexPairTyped ==
  ASSUME NEW v, IsView(v), NEW k \in RegexOf(v), v.filters[k].column \in NamesOf(v.columns)
  PROVE  /\ RegexPair(v, k) \in PairsOver(NamesIn(v)) /\ Fits(RegexPair(v, k))
         /\ RegexPair(v, k).args = <<>> /\ RegexPair(v, k).test.group[1] = k
         /\ RegexPair(v, k).test = RegexTest(v.filters[k].column, k, v.filters[k].value[1])
         /\ RegexPair(v, k).test.op = "coalescedregex" /\ RegexPair(v, k).test.column = v.filters[k].column
         /\ RegexPair(v, k).test.pattern = v.filters[k].value[1]
<1> DEFINE column == v.filters[k].column  pattern == v.filters[k].value[1]  test == RegexTest(column, k, pattern)
<1>1. k \in DOMAIN v.filters /\ v.filters[k].value # <<>> /\ v.filters[k].value \in Seq(Seq(Chars)) /\ k \in Nat
  BY FiltersAre DEF RegexOf
<1>2. pattern \in Seq(Chars)
  <2> DEFINE value == v.filters[k].value
  <2>1. value # <<>> /\ value \in Seq(Seq(Chars))
    BY <1>1
  <2> HIDE DEF value
  <2>2. 1 \in 1 .. Len(value)
    BY <2>1, EmptySeq
  <2>3. value[1] \in Seq(Chars)
    BY <2>1, <2>2, ElementOfSeq
  <2> QED BY <2>3 DEF value
<1>3. column \in NamesIn(v)
  BY DEF NamesIn
<1>4. RegexPair(v, k) = [test |-> test, args |-> <<>>]
  BY DEF RegexPair
<1> HIDE DEF column, pattern
<1>5. test = [op |-> "coalescedregex", column |-> column, group |-> <<k, 0>>, pattern |-> pattern]
  BY DEF RegexTest, Test
<1> HIDE DEF test
<1>6. test \in TestsOver(NamesIn(v))
  BY <1>1, <1>2, <1>3, <1>5 DEF TestsOver, TestOps
<1>7. RegexPair(v, k) \in PairsOver(NamesIn(v))
  BY <1>4, <1>6, EmptySeq DEF PairsOver, Pairs
<1>8. Fits(RegexPair(v, k))
  BY <1>4, <1>5 DEF Fits, HasPlaceholder
<1> QED BY <1>4, <1>5, <1>7, <1>8 DEF test, column, pattern

(* The clause is put together from the same head, and parts that test the  *)
(* regular expressions too.                                                *)
LEMMA DuckClauseIs ==
  ASSUME NEW v, IsView(v), Known(v), AllText(v)
  PROVE  /\ DuckClause(v).error = FALSE
         /\ DuckClause(v).tests = TestsOf(HeadOf(v)) \o FlattenSeq(EachTests(DuckParts(v)))
         /\ DuckClause(v).params = ArgsOf(HeadOf(v)) \o FlattenSeq(EachArgs(DuckParts(v)))
<1> DEFINE columns == v.columns  filters == v.filters  global == v.global
           searchable == Kept(columns, {c \in ToSet(columns) : ~is_blob(c.type)})
           used == {k \in DOMAIN filters : filters[k].value # <<>>}
           at(k) == Position(columns, filters[k].column)
           of(k) == parse_criteria(filters[k].value)
           regexTest(k) ==
             IF is_blob(columns[at(k)].type) THEN Test("never", filters[k].column, <<k, 0>>)
             ELSE RegexTest(filters[k].column, k, filters[k].value[1])
           tests == [k \in DOMAIN filters |->
                IF k \notin used THEN <<>>
                ELSE IF filters[k].regex THEN <<regexTest(k)>>
                ELSE Tests(of(k), filters[k].column, k, FALSE)]
           params == [k \in DOMAIN filters |-> IF k \in used /\ ~filters[k].regex THEN Params(of(k)) ELSE <<>>]
<1>1. DuckClause(v) =
        IF \E k \in used : at(k) = 0 THEN Failed
        ELSE [error |-> FALSE, tests |-> GlobalTests(searchable, global) \o FlattenSeq(tests),
              params |-> GlobalParams(searchable, global) \o FlattenSeq(params), regexes |-> <<>>]
  BY Zenon DEF DuckClause, build_where
<1>2. \A k \in DOMAIN filters : at(k) # 0 /\ filters[k].column \in NamesOf(columns)
        /\ columns[at(k)].type = {"TEXT"} /\ TypeAt(v, k) = {"TEXT"}
  BY ColumnAt DEF Known, AllText, TypeAt
<1>3. is_blob({"TEXT"}) = FALSE /\ has_no_affinity({"TEXT"}) = FALSE /\ declares_blob({"TEXT"}) = FALSE
  BY DEF is_blob, has_no_affinity, declares_blob
<1>4. searchable = SearchedIn(v)
  <2>1. \A c \in ToSet(columns) : c.type = {"TEXT"}
    <3>1. \A i \in DOMAIN columns : columns[i].type = {"TEXT"}
      BY ColumnAt DEF AllText
    <3> QED BY <3>1 DEF ToSet
  <2>2. \A c \in ToSet(columns) : is_blob(c.type) <=> declares_blob(c.type)
    BY <1>3, <2>1
  <2>3. {c \in ToSet(columns) : ~is_blob(c.type)} = {c \in ToSet(columns) : ~declares_blob(c.type)}
    BY <2>2
  <2> QED BY <2>3 DEF SearchedIn
<1>5. \A k \in DOMAIN filters :
        /\ (k \in used /\ filters[k].regex <=> k \in RegexOf(v))
               /\ (k \in used /\ ~filters[k].regex <=> k \in PlainOf(v))
        /\ ~(k \in RegexOf(v) /\ k \in PlainOf(v))
  BY DEF PlainOf, RegexOf
<1> DEFINE D == DOMAIN filters
<1>6. DOMAIN DuckParts(v) = D /\ \A k \in D : DuckParts(v)[k] =
        IF k \in PlainOf(v) THEN PlainPart(v, k) ELSE IF k \in RegexOf(v) THEN <<RegexPair(v, k)>> ELSE <<>>
  BY DEF DuckParts
<1>7. ASSUME NEW k \in D, k \in PlainOf(v)
      PROVE  Tests(of(k), filters[k].column, k, FALSE) = TestsOf(PlainPart(v, k))
          /\ Params(of(k)) = ArgsOf(PlainPart(v, k))
  <2>1. filters[k].column \in NamesOf(columns) /\ has_no_affinity(TypeAt(v, k)) = FALSE /\ of(k) = CriteriaAt(v, k)
    BY <1>2, <1>3 DEF CriteriaAt
  <2> HIDE DEF of
  <2>2. TestsOf(PlainPart(v, k)) = Tests(CriteriaAt(v, k), filters[k].column, k, has_no_affinity(TypeAt(v, k)))
        /\ ArgsOf(PlainPart(v, k)) = Params(CriteriaAt(v, k))
    BY <2>1, PlainPartTyped
  <2> QED BY <2>1, <2>2
<1>8. ASSUME NEW k \in D, k \in RegexOf(v)
      PROVE  TestsOf(<<RegexPair(v, k)>>) = <<regexTest(k)>> /\ ArgsOf(<<RegexPair(v, k)>>) = <<>>
  <2> DEFINE x == RegexPair(v, k)
  <2>1. x \in PairsOver(NamesIn(v)) /\ x.args = <<>>
            /\ x.test = RegexTest(filters[k].column, k, filters[k].value[1])
    BY <1>2, <1>8, RegexPairTyped
  <2>2. regexTest(k) = RegexTest(filters[k].column, k, filters[k].value[1])
    BY <1>2, <1>3
  <2> HIDE DEF x, regexTest
  <2>3. TestsOf(<<x>>) = <<x.test>> /\ ArgsOf(<<x>>) = <<>>
    BY <2>1, OnePair
  <2> QED BY <2>1, <2>2, <2>3 DEF x
<1>9. TestsOf(<<>>) = <<>> /\ ArgsOf(<<>>) = <<>>
  BY FlattenEmpty DEF TestsOf, ArgsOf
<1> DEFINE t(k) == Tests(of(k), filters[k].column, k, FALSE)  p(k) == Params(of(k))  g(k) == <<regexTest(k)>>
<1>10. tests = [k \in D |-> IF k \notin used THEN <<>> ELSE IF filters[k].regex THEN g(k) ELSE t(k)]
       /\ params = [k \in D |-> IF k \in used /\ ~filters[k].regex THEN p(k) ELSE <<>>]
  BY Zenon
<1>11. \A k \in D : (k \in PlainOf(v) => TestsOf(PlainPart(v, k)) = t(k) /\ ArgsOf(PlainPart(v, k)) = p(k))
                    /\ (k \in RegexOf(v) => TestsOf(<<RegexPair(v, k)>>) = g(k)
                           /\ ArgsOf(<<RegexPair(v, k)>>) = <<>>)
  BY <1>7, <1>8
<1>r. \A k \in D : filters[k].regex \in BOOLEAN
  BY FiltersAre
<1> HIDE DEF t, p, g, used, tests, params
<1>12. \A k \in D : TestsOf(DuckParts(v)[k]) = IF k \notin used THEN <<>> ELSE IF filters[k].regex THEN g(k) ELSE t(k)
  BY <1>5, <1>6, <1>9, <1>11, <1>r
<1>13. \A k \in D : ArgsOf(DuckParts(v)[k]) = IF k \in used /\ ~filters[k].regex THEN p(k) ELSE <<>>
  BY <1>5, <1>6, <1>9, <1>11, <1>r
<1>14. EachTests(DuckParts(v)) = [k \in D |-> TestsOf(DuckParts(v)[k])]
       /\ EachArgs(DuckParts(v)) = [k \in D |-> ArgsOf(DuckParts(v)[k])]
  BY <1>6 DEF EachTests, EachArgs
<1>15. tests = EachTests(DuckParts(v)) /\ params = EachArgs(DuckParts(v))
  BY <1>10, <1>12, <1>13, <1>14
<1>16. TestsOf(HeadOf(v)) = GlobalTests(searchable, global) /\ ArgsOf(HeadOf(v)) = GlobalParams(searchable, global)
  BY <1>4, HeadTyped
<1>17. ~\E k \in used : at(k) = 0
  BY <1>2 DEF used
<1> HIDE DEF searchable, at
<1> QED BY <1>1, <1>15, <1>16, <1>17

(* On rows of texts it selects what SQLite's clause and the scan select    *)
(* together.                                                               *)
LEMMA DuckSelects ==
  ASSUME NEW v, IsView(v), Known(v), AllText(v), NEW row \in RowsOf(v.columns),
         \A name \in DOMAIN row : row[name].class \in {"null", "text"}
  PROVE  Selected(DuckClause(v), row, TypesOf(v.columns)) <=>
           /\ Selected(SqliteClause(v), row, TypesOf(v.columns))
           /\ \A i \in DOMAIN SqliteClause(v).regexes :
                cell_matches_regex(row[v.columns[SqliteClause(v).regexes[i].index].name], SqliteClause(v).regexes[i].pattern)
<1> DEFINE types == TypesOf(v.columns)  N == NamesIn(v)  parts == DuckParts(v)  head == HeadOf(v)
           matches(k) == cell_matches_regex(row[v.filters[k].column], v.filters[k].value[1])
           plain(k) == PlainMeans(v.filters[k], row, types)
<1>1. /\ PlainOf(v) \subseteq DOMAIN v.filters /\ RegexOf(v) \subseteq DOMAIN v.filters
      /\ DOMAIN v.filters = 1 .. Len(v.filters) /\ Len(v.filters) \in Nat
      /\ \A k \in DOMAIN v.filters : v.filters[k].column \in NamesOf(v.columns)
      /\ PlainOf(v) \cap RegexOf(v) = {}
  BY ColumnAt, FiltersAre DEF PlainOf, RegexOf, Known
<1>2. DOMAIN parts = DOMAIN v.filters /\ \A k \in DOMAIN v.filters : parts[k] =
        IF k \in PlainOf(v) THEN PlainPart(v, k) ELSE IF k \in RegexOf(v) THEN <<RegexPair(v, k)>> ELSE <<>>
  BY DEF DuckParts
<1>3. \A k \in PlainOf(v) : PlainPart(v, k) \in Seq(PairsOver(N))
          /\ \A x \in ToSet(PlainPart(v, k)) : Fits(x) /\ x.test.group[1] = k
  BY <1>1, PlainPartTyped
<1>4. \A k \in RegexOf(v) : /\ <<RegexPair(v, k)>> \in Seq(PairsOver(N))
                                   /\ ToSet(<<RegexPair(v, k)>>) = {RegexPair(v, k)}
                            /\ Fits(RegexPair(v, k)) /\ RegexPair(v, k).test.group[1] = k
                            /\ RegexPair(v, k).test.op = "coalescedregex"
                                   /\ RegexPair(v, k).test.column = v.filters[k].column
                            /\ RegexPair(v, k).test.pattern = v.filters[k].value[1]
  <2> SUFFICES ASSUME NEW k \in RegexOf(v)
               PROVE  /\ <<RegexPair(v, k)>> \in Seq(PairsOver(N)) /\ ToSet(<<RegexPair(v, k)>>) = {RegexPair(v, k)}
                      /\ Fits(RegexPair(v, k)) /\ RegexPair(v, k).test.group[1] = k
                      /\ RegexPair(v, k).test.op = "coalescedregex"
                             /\ RegexPair(v, k).test.column = v.filters[k].column
                      /\ RegexPair(v, k).test.pattern = v.filters[k].value[1]
    OBVIOUS
  <2> DEFINE x == RegexPair(v, k)
  <2>1. /\ x \in PairsOver(N) /\ Fits(x) /\ x.args = <<>> /\ x.test.group[1] = k
        /\ x.test.op = "coalescedregex" /\ x.test.column = v.filters[k].column
               /\ x.test.pattern = v.filters[k].value[1]
    BY <1>1, RegexPairTyped
  <2> HIDE DEF x, N
  <2>2. <<x>> \in Seq(PairsOver(N)) /\ ToSet(<<x>>) = {x}
    BY <2>1, OnePair
  <2> QED BY <2>1, <2>2 DEF x
<1>5. /\ head \in Seq(PairsOver(N)) /\ \A x \in ToSet(head) : Fits(x) /\ x.test.group = <<0, 0>>
  BY HeadTyped
<1>6. ToSet(<<>>) = {} /\ <<>> \in Seq(PairsOver(N))
  <2>1. ToSet(<<>>) = {}
    BY DEF ToSet
  <2> QED BY <2>1, EmptySeq
<1>p. parts = [k \in DOMAIN v.filters |-> parts[k]]
  BY DEF DuckParts
<1> HIDE DEF parts, N, head
<1>7. parts \in Seq(Seq(PairsOver(N)))
  <2> DEFINE Q == Seq(PairsOver(N))
  <2>1. ASSUME NEW k \in DOMAIN v.filters PROVE parts[k] \in Q
    <3>1. CASE k \in PlainOf(v)
      <4>1. parts[k] = PlainPart(v, k)
        BY <1>2, <3>1
      <4>2. PlainPart(v, k) \in Q
        BY <1>3, <3>1
      <4> QED BY <4>1, <4>2
    <3>2. CASE k \notin PlainOf(v) /\ k \in RegexOf(v)
      <4> DEFINE x == RegexPair(v, k)
      <4>1. parts[k] = <<x>>
        BY <1>2, <3>2
      <4>2. <<x>> \in Q
        BY <1>4, <3>2
      <4> HIDE DEF x, Q
      <4> QED BY <4>1, <4>2
    <3>3. CASE k \notin PlainOf(v) /\ k \notin RegexOf(v)
      <4>1. parts[k] = <<>>
        BY <1>2, <3>3
      <4> QED BY <4>1, <1>6
    <3> QED BY <3>1, <3>2, <3>3
  <2> HIDE DEF Q
  <2>2. parts \in [1 .. Len(v.filters) -> Q]
    BY <1>1, <1>p, <2>1
  <2>3. parts \in Seq(Q)
    BY <1>1, <2>2
  <2> QED BY <2>3 DEF Q
<1>8. \A k \in DOMAIN parts : \A x \in ToSet(parts[k]) : Fits(x) /\ x.test.group[1] = k
  <2> SUFFICES ASSUME NEW k \in DOMAIN v.filters, NEW x \in ToSet(parts[k]) PROVE Fits(x) /\ x.test.group[1] = k
    BY <1>2
  <2>1. CASE k \in PlainOf(v)
    <3>1. parts[k] = PlainPart(v, k)
      BY <1>2, <2>1
    <3> QED BY <1>3, <2>1, <3>1
  <2>2. CASE k \notin PlainOf(v) /\ k \in RegexOf(v)
    <3> DEFINE y == RegexPair(v, k)
    <3>1. parts[k] = <<y>>
      BY <1>2, <2>2
    <3>2. ToSet(<<y>>) = {y} /\ Fits(y) /\ y.test.group[1] = k
      BY <1>4, <2>2
    <3> HIDE DEF y
    <3> QED BY <3>1, <3>2
  <2>3. CASE k \notin PlainOf(v) /\ k \notin RegexOf(v)
    <3>1. parts[k] = <<>>
      BY <1>2, <2>3
    <3> QED BY <3>1, <1>6
  <2> QED BY <2>1, <2>2, <2>3
<1>9. Selected(DuckClause(v), row, types) <=> Asks(head, row, types)
          /\ \A k \in DOMAIN parts : Asks(parts[k], row, types)
  <2>1. /\ DuckClause(v).tests = TestsOf(head) \o FlattenSeq(EachTests(parts))
        /\ DuckClause(v).params = ArgsOf(head) \o FlattenSeq(EachArgs(parts))
    BY DuckClauseIs DEF head, parts
  <2> HIDE DEF types
  <2> QED BY <1>5, <1>7, <1>8, <2>1, ClauseAsks
<1>10. Asks(head, row, types) <=> GlobalMeans(v, row, types)
  BY HeadAsks DEF head
<1>11. \A k \in PlainOf(v) : Asks(PlainPart(v, k), row, types) <=> plain(k)
  BY <1>1, PlainAsks DEF PlainPart, TypeAt
<1>12. \A k \in RegexOf(v) : Asks(<<RegexPair(v, k)>>, row, types) <=> matches(k)
  <2> SUFFICES ASSUME NEW k \in RegexOf(v) PROVE Asks(<<RegexPair(v, k)>>, row, types) <=> matches(k)
    OBVIOUS
  <2> DEFINE x == RegexPair(v, k)  cell == row[v.filters[k].column]  pattern == v.filters[k].value[1]
  <2>1. /\ ToSet(<<x>>) = {x} /\ x.test.op = "coalescedregex" /\ x.test.column = v.filters[k].column
        /\ x.test.pattern = pattern
    BY <1>4
  <2>2. cell.class \in {"null", "text"}
    <3>1. v.filters[k].column \in DOMAIN row
      BY <1>1, RowIs
    <3> QED BY <3>1
  <2> HIDE DEF x, types
  <2>3. Asks(<<x>>, row, types) <=> PairHolds(x, row, types)
    BY <2>1 DEF Asks
  <2>4. PairHolds(x, row, types) <=> Holds(x.test, <<>>, cell, types[v.filters[k].column])
    BY <2>1 DEF PairHolds, HasPlaceholder
  <2>5. Holds(x.test, <<>>, cell, types[v.filters[k].column]) <=> RegexMatches(pattern, cell.text)
    <3> HIDE DEF cell, pattern
    <3> QED BY <2>1 DEF Holds
  <2>6. matches(k) <=> RegexMatches(pattern, cell.text)
    BY <2>2 DEF cell_matches_regex
  <2> QED BY <2>3, <2>4, <2>5, <2>6 DEF x
<1>13. Asks(<<>>, row, types)
  BY AsksNothing
<1>14. Selected(SqliteClause(v), row, types) <=> GlobalMeans(v, row, types) /\ \A k \in PlainOf(v) : plain(k)
  BY SqliteSelects
<1>15. (\A i \in DOMAIN SqliteClause(v).regexes :
          cell_matches_regex(row[v.columns[SqliteClause(v).regexes[i].index].name], SqliteClause(v).regexes[i].pattern))
         <=> \A k \in RegexOf(v) : matches(k)
  <2> DEFINE n == Len(RegexIn(v))  filter(i) == v.filters[RegexIn(v)[i]]  regexes == RegexesIn(v)
  <2>1. DOMAIN RegexIn(v) = 1 .. n /\ RegexOf(v) = {RegexIn(v)[i] : i \in 1 .. n}
    BY RegexListed DEF ToSet
  <2>2. DOMAIN regexes = 1 .. n /\ \A i \in 1 .. n :
          regexes[i].index = Position(v.columns, filter(i).column) /\ regexes[i].pattern = filter(i).value[1]
    BY <2>1 DEF RegexesIn
  <2>3. \A i \in 1 .. n : v.columns[Position(v.columns, filter(i).column)].name = filter(i).column
    <3>1. v.columns \in Seq(Range(v.columns))
      BY DEF IsView
    <3>2. \A i \in 1 .. n : Position(v.columns, filter(i).column) # 0
      BY <1>1, <2>1 DEF Known
    <3> QED BY <3>1, <3>2, PositionIs
  <2>4. SqliteClause(v).regexes = regexes
    BY SqliteClauseIs
  <2> HIDE DEF regexes, n
  <2>5. (\A i \in DOMAIN SqliteClause(v).regexes :
          cell_matches_regex(row[v.columns[SqliteClause(v).regexes[i].index].name], SqliteClause(v).regexes[i].pattern))
         <=> \A i \in 1 .. n : matches(RegexIn(v)[i])
    BY <2>2, <2>3, <2>4
  <2> HIDE DEF matches
  <2> QED BY <2>1, <2>5
<1> HIDE DEF matches, plain, types
<1>16. (\A k \in DOMAIN parts : Asks(parts[k], row, types)) <=>
         (\A k \in PlainOf(v) : plain(k)) /\ \A k \in RegexOf(v) : matches(k)
  BY <1>1, <1>2, <1>11, <1>12, <1>13
<1>17. Selected(DuckClause(v), row, types) <=>
         Selected(SqliteClause(v), row, types) /\ \A k \in RegexOf(v) : matches(k)
  BY <1>9, <1>10, <1>14, <1>16
<1> QED BY <1>15, <1>17 DEF types

---------------------------------------------------------------------------
(* What Browse Data shows.                                                 *)

(* The columns that are listed are those SELECT * returns, in its order.   *)
LEMMA ColumnsListed ==
  ASSUME NEW X, NEW declared \in Seq(X)
  PROVE  LET listed == table_columns(declared)
         IN /\ Len(listed) = Cardinality(SelectStar(declared))
            /\ \A i \in DOMAIN declared : i \in SelectStar(declared) =>
                 listed[Cardinality({j \in SelectStar(declared) : j <= i})] = declared[i]
<1> DEFINE shown == {c \in ToSet(declared) : c.hidden # 1}
<1>1. Places(declared, shown) = SelectStar(declared)
  BY DEF Places, SelectStar, ToSet
<1>2. table_columns(declared) = Kept(declared, shown)
  BY DEF table_columns
<1> HIDE DEF shown
<1>3. \A i \in Places(declared, shown) :
        /\ Len(Kept(declared, shown)) = Cardinality(Places(declared, shown))
        /\ Kept(declared, shown)[Cardinality({j \in Places(declared, shown) : j <= i})] = declared[i]
  BY KeptAt
<1>4. Len(Kept(declared, shown)) = Cardinality(Places(declared, shown))
  <2> DEFINE P == Places(declared, shown)  firsts == Ascending(P)
  <2>1. Lists(firsts, P) /\ IsFiniteSet(P) /\ DOMAIN declared = 1 .. Len(declared) /\ Len(declared) \in Nat
    BY PlacesNumbers
  <2>2. CASE P = DOMAIN declared
    <3>1. Kept(declared, shown) = declared
      BY <2>2 DEF Kept
    <3>2. Cardinality(1 .. Len(declared)) = Len(declared)
      BY <2>1, FS_Interval
    <3> QED BY <2>1, <2>2, <3>1, <3>2
  <2>3. CASE P # DOMAIN declared
    <3>1. Kept(declared, shown) = [k \in DOMAIN firsts |-> declared[firsts[k]]]
      BY <2>3 DEF Kept
    <3> HIDE DEF P, firsts
    <3>2. Cardinality(P) \in Nat /\ DOMAIN firsts = 1 .. Cardinality(P)
      BY <2>1, FS_CardinalityType DEF Lists
    <3> QED BY <3>1, <3>2 DEF P
  <2> QED BY <2>2, <2>3
<1> QED BY <1>1, <1>2, <1>3, <1>4

(* The alias of the rowid is none of the names of the columns.             *)
LEMMA AliasFree ==
  ASSUME NEW declared, NEW withoutRowid, rowid_alias_for(declared, withoutRowid) # "none"
  PROVE  ~withoutRowid /\ \A i \in DOMAIN declared : declared[i].lower # rowid_alias_for(declared, withoutRowid)
<1> DEFINE free == {k \in DOMAIN Aliases : Aliases[k] \notin ShadowingNames(declared) /\ ~withoutRowid}
<1>1. DOMAIN Aliases \subseteq Nat
  BY DEF Aliases
<1>2. rowid_alias_for(declared, withoutRowid) =
        IF free = {} THEN "none" ELSE Aliases[CHOOSE k \in free : \A j \in free : k <= j]
  BY Zenon DEF rowid_alias_for
<1>3. free \subseteq Nat /\ free # {}
  BY <1>1, <1>2
<1>4. PICK k \in free : rowid_alias_for(declared, withoutRowid) = Aliases[k]
  <2> HIDE DEF free
  <2>1. \E k \in free : \A j \in free : k <= j
    BY <1>3, LeastNumber
  <2>2. (CHOOSE k \in free : \A j \in free : k <= j) \in free
    BY <2>1
  <2> QED BY <1>2, <1>3, <2>2
<1>5. ~withoutRowid /\ Aliases[k] \notin ShadowingNames(declared)
  BY <1>4
<1> QED BY <1>4, <1>5 DEF ShadowingNames, DeclaredNames

(* A view with its clause keeps the rows that its filters mean.            *)
LEMMA ViewMeans ==
  ASSUME NEW v, IsView(v)
  PROVE  LET built == build_where_clause(v.columns, v.filters, v.global)
             scan == project_regex_columns(v.columns, built.regexes)
             cells(row) == <<IntCell(1)>> \o
               [i \in DOMAIN scan.projected |-> row[scan.projected[i]]]
         IN IF ~Known(v) THEN built.error \/ \A k \in DOMAIN v.filters :
                                Position(v.columns, v.filters[k].column) = 0 =>
                                  parse_criteria(v.filters[k].value) = <<>>
            ELSE \A row \in RowsOf(v.columns) :
              Selected(built, row, TypesOf(v.columns)) /\ row_matches_regexes(cells(row), scan.regexes)
                <=> RowMeant(v.filters, v.global, row, TypesOf(v.columns))
<1> DEFINE built == build_where_clause(v.columns, v.filters, v.global)
           scan == project_regex_columns(v.columns, built.regexes)
           cells(row) == <<IntCell(1)>> \o [i \in DOMAIN scan.projected |-> row[scan.projected[i]]]
           meant(row) == RowMeant(v.filters, v.global, row, TypesOf(v.columns))
           kept(row) == Selected(built, row, TypesOf(v.columns)) /\ row_matches_regexes(cells(row), scan.regexes)
           refused == built.error \/ \A k \in DOMAIN v.filters :
             Position(v.columns, v.filters[k].column) = 0 => parse_criteria(v.filters[k].value) = <<>>
<1>1. built = SqliteClause(v)
  BY DEF SqliteClause
<1>2. ASSUME ~Known(v) PROVE refused
  BY <1>1, UnknownRefused DEF CriteriaAt
<1>3. ASSUME Known(v), NEW row \in RowsOf(v.columns) PROVE kept(row) <=> meant(row)
  <2>1. scan = ScanOf(v)
    BY <1>1, <1>3, SqliteClauseIs DEF ScanOf
  <2>2. cells(row) = RowRead(v, row)
    BY <2>1 DEF RowRead
  <2> HIDE DEF built, scan, cells
  <2>3. Selected(SqliteClause(v), row, TypesOf(v.columns))
            /\ row_matches_regexes(RowRead(v, row), ScanOf(v).regexes)
          <=> RowMeant(v.filters, v.global, row, TypesOf(v.columns))
    BY <1>3, FiltersSelect
  <2> QED BY <1>1, <2>1, <2>2, <2>3
<1> HIDE DEF refused, kept, meant
<1>4. IF ~Known(v) THEN refused ELSE \A row \in RowsOf(v.columns) : kept(row) <=> meant(row)
  BY <1>2, <1>3
<1> QED BY <1>4, Zenon DEF refused, kept, meant

(* Both builders select the same rows of columns of text.                  *)
LEMMA ViewAgrees ==
  ASSUME NEW v, IsView(v)
  PROVE  LET types == TypesOf(v.columns)
             rows == {row \in RowsOf(v.columns) : \A n \in DOMAIN row : row[n].class \in {"null", "text"}}
             sqlite == build_where_clause(v.columns, v.filters, v.global)
             duckdb == build_where(v.columns, v.filters, v.global)
         IN Known(v) /\ (\A n \in DOMAIN types : types[n] = {"TEXT"}) =>
              /\ duckdb.error = sqlite.error
              /\ \A row \in rows :
                   Selected(duckdb, row, types) <=>
                     /\ Selected(sqlite, row, types)
                     /\ \A i \in DOMAIN sqlite.regexes :
                          cell_matches_regex(row[v.columns[sqlite.regexes[i].index].name],
                                             sqlite.regexes[i].pattern)
<1> DEFINE types == TypesOf(v.columns)
<1> SUFFICES ASSUME Known(v), \A n \in DOMAIN types : types[n] = {"TEXT"}
             PROVE  /\ DuckClause(v).error = SqliteClause(v).error
                    /\ \A row \in RowsOf(v.columns) : (\A n \in DOMAIN row : row[n].class \in {"null", "text"}) =>
                         (Selected(DuckClause(v), row, types) <=>
                           /\ Selected(SqliteClause(v), row, types)
                           /\ \A i \in DOMAIN SqliteClause(v).regexes :
                                cell_matches_regex(row[v.columns[SqliteClause(v).regexes[i].index].name],
                                                   SqliteClause(v).regexes[i].pattern))
  BY Zenon DEF DuckClause, SqliteClause
<1>1. AllText(v)
  <2>1. DOMAIN types = NamesOf(v.columns)
    BY ColumnAt
  <2> QED BY <2>1 DEF AllText
<1>2. DuckClause(v).error = SqliteClause(v).error
  BY <1>1, DuckClauseIs, SqliteClauseIs
<1>3. ASSUME NEW row \in RowsOf(v.columns), \A n \in DOMAIN row : row[n].class \in {"null", "text"}
      PROVE  Selected(DuckClause(v), row, types) <=>
               /\ Selected(SqliteClause(v), row, types)
               /\ \A i \in DOMAIN SqliteClause(v).regexes :
                    cell_matches_regex(row[v.columns[SqliteClause(v).regexes[i].index].name],
                                       SqliteClause(v).regexes[i].pattern)
  BY <1>1, <1>3, DuckSelects
<1> QED BY <1>2, <1>3

(* Whatever is typed into the filter boxes, whatever the columns are and   *)
(* whatever their cells hold, the rows of a view are those its filters     *)
(* mean, and a file of texts has the same rows in both engines; a searched *)
(* text is found literally; columns stand where SELECT * returns them, and *)
(* rows are keyed by the rowid.                                            *)
THEOREM ViewsAlwaysSound == Spec => []ViewsSound
<1>1. Init => CaseInv
  BY DEF Init, CaseInv, Is, NoCase, Case
<1>2. CaseInv => FiltersMeanWhatTheySay /\ BuildersAgree
  <2> SUFFICES ASSUME CaseInv, Is("view") PROVE FiltersMeanWhatTheySay /\ BuildersAgree
    BY DEF FiltersMeanWhatTheySay, BuildersAgree
  <2>1. IsView(case.input)
    BY ViewsAre DEF CaseInv
  <2>2. FiltersMeanWhatTheySay
    BY <2>1, ViewMeans, Zenon DEF FiltersMeanWhatTheySay
  <2>3. BuildersAgree
    BY <2>1, ViewAgrees, Zenon DEF BuildersAgree
  <2> QED BY <2>2, <2>3
<1>3. CaseInv => SearchIsLiteral
  <2> SUFFICES ASSUME CaseInv, Is("search") PROVE SearchIsLiteral
    BY DEF SearchIsLiteral
  <2> DEFINE v == case.input[1]  text == case.input[2]  Z == Range(v) \cup Range(text)
  <2>1. v \in Seq(Range(v)) /\ text \in Seq(Range(text))
    BY SearchesAssumption DEF CaseInv
  <2> HIDE DEF v, text
  <2>2. v \in Seq(Z) /\ text \in Seq(Z)
    BY <2>1, SeqMonotonic
  <2> HIDE DEF Z
  <2>3. Like(text, contains_pattern(v)) <=> ContainsText(text, v)
    BY <2>2, LikeLiteral
  <2> QED BY <2>3 DEF SearchIsLiteral, v, text
<1>4. CaseInv => ColumnsMatchSelectStar /\ AliasIsRowid
  <2> SUFFICES ASSUME CaseInv, Is("table") PROVE ColumnsMatchSelectStar /\ AliasIsRowid
    BY DEF ColumnsMatchSelectStar, AliasIsRowid
  <2>1. case.input.columns \in Seq(Range(case.input.columns))
    BY TablesAssumption DEF CaseInv
  <2>2. ColumnsMatchSelectStar
    BY <2>1, ColumnsListed DEF ColumnsMatchSelectStar
  <2>3. AliasIsRowid
    BY AliasFree, Zenon DEF AliasIsRowid
  <2> QED BY <2>2, <2>3
<1>5. CaseInv => ViewsSound
  BY <1>2, <1>3, <1>4 DEF ViewsSound
<1> QED BY <1>1, <1>5, CaseKeeps, PTL DEF Spec

---------------------------------------------------------------------------
(* Exports.                                                                *)

(* An export that has saved keeps the directory and the time it saved      *)
(* under, so a file of an export and what another one has opened stay      *)
(* where that export put them.                                             *)
Saved(e) == step[e] \in {"open", "done"}

ExportsInv ==
  /\ \A f \in folder : f.of \in Exporters =>
       Saved(f.of) /\ f.dir = dest[f.of] /\ f.name = NamedBy(stamp[f.of])
  /\ \A e, other \in Exporters : opened[e] = other /\ other # e =>
       Saved(e) /\ Saved(other) /\ stamp[e] = stamp[other] /\ dest[e] = dest[other]

ExportsShape ==
  /\ DOMAIN step = Exporters /\ DOMAIN stamp = Exporters
  /\ DOMAIN dest = Exporters /\ DOMAIN opened = Exporters

LEMMA ExportsStart == FreshExports => ExportsInv /\ ExportsShape
  BY ExportsAssumption DEF FreshExports, EarlierFiles, ExportsInv, ExportsShape

(* Only an export that has not saved takes a directory or a time.          *)
LEMMA PlaceKept ==
  ASSUME ExportsInv, ExportsShape, NEW e \in Exporters, ~Saved(e), folder' \subseteq folder,
         NEW from, NEW to, Advance(e, from, to), UNCHANGED opened,
         DOMAIN dest' = Exporters, DOMAIN stamp' = Exporters,
         \A x \in Exporters \ {e} : dest'[x] = dest[x] /\ stamp'[x] = stamp[x]
  PROVE  ExportsInv' /\ ExportsShape'
<1>1. \A x \in Exporters : Saved(x) => x # e
  OBVIOUS
<1>2. \A x \in Exporters \ {e} : step'[x] = step[x] /\ (Saved(x) => Saved(x)')
  BY DEF Advance, ExportsShape, Saved
<1> QED BY <1>1, <1>2 DEF ExportsInv, ExportsShape, Advance

LEMMA SaveKeeps ==
  ASSUME ExportsInv, ExportsShape, NEW e \in Exporters, Save(e)
  PROVE  ExportsInv' /\ ExportsShape'
<1>1. \A x \in Exporters : Saved(x) => Saved(x)'
  BY DEF Save, Advance, ExportsShape, Saved
<1>2. folder' \subseteq folder \cup {Exported(e)}
  BY DEF Save
<1>3. Exported(e) \in folder' \ folder => Saved(e)'
  BY DEF Save, Advance, ExportsShape, Saved
<1>4. Exported(e).of = e /\ Exported(e).dir = dest[e] /\ Exported(e).name = NamedBy(stamp[e])
  BY DEF Exported
<1> QED BY <1>1, <1>2, <1>3, <1>4 DEF ExportsInv, ExportsShape, Save, Advance

LEMMA OpenKeeps ==
  ASSUME ExportsInv, ExportsShape, NEW e \in Exporters, Open(e)
  PROVE  ExportsInv' /\ ExportsShape'
<1>1. /\ \A x \in Exporters : Saved(x) => Saved(x)'
      /\ Saved(e)'
  BY DEF Open, Advance, ExportsShape, Saved
<1>2. CASE UNCHANGED opened
  BY <1>1, <1>2 DEF ExportsInv, ExportsShape, Open, Advance
<1>3. ASSUME NEW f \in folder, SamePath(f, Exported(e)), opened' = [opened EXCEPT ![e] = f.of]
      PROVE  ExportsInv' /\ ExportsShape'
  <2>1. f.dir = dest[e] /\ f.name = stamp[e]
    BY <1>3 DEF SamePath, Exported, NamedBy
  <2>2. f.of \in Exporters => Saved(f.of) /\ stamp[f.of] = stamp[e] /\ dest[f.of] = dest[e]
    BY <2>1 DEF ExportsInv, NamedBy
  <2> QED BY <1>1, <1>3, <2>2 DEF ExportsInv, ExportsShape, Open, Advance
<1> QED BY <1>2, <1>3 DEF Open

LEMMA ExportStepKeeps ==
  ASSUME ExportsInv, ExportsShape, ExportsNext
  PROVE  ExportsInv' /\ ExportsShape'
<1>1. ASSUME NEW e \in Exporters, export_to_xlsx(e) PROVE ExportsInv' /\ ExportsShape'
  <2>1. /\ ~Saved(e) /\ UNCHANGED <<folder, stamp, opened>> /\ DOMAIN dest' = Exporters
        /\ \A x \in Exporters \ {e} : dest'[x] = dest[x]
    BY <1>1 DEF export_to_xlsx, Advance, Saved, ExportsShape
  <2>2. CASE Advance(e, "idle", "sweep")
    BY <2>1, <2>2, PlaceKept DEF ExportsShape
  <2>3. CASE Advance(e, "idle", "done")
    BY <2>1, <2>3, PlaceKept DEF ExportsShape
  <2> QED BY <1>1, <2>2, <2>3 DEF export_to_xlsx
<1>2. ASSUME NEW e \in Exporters, sweep_stale_exports(e) PROVE ExportsInv' /\ ExportsShape'
  <2>1. /\ ~Saved(e) /\ UNCHANGED <<dest, stamp, opened>> /\ folder' \subseteq folder
        /\ Advance(e, "sweep", "name")
    BY <1>2 DEF sweep_stale_exports, Advance, Saved
  <2> QED BY <2>1, PlaceKept DEF ExportsShape
<1>3. ASSUME NEW e \in Exporters, TakeName(e) PROVE ExportsInv' /\ ExportsShape'
  <2>1. /\ ~Saved(e) /\ UNCHANGED <<folder, dest, opened>> /\ DOMAIN stamp' = Exporters
        /\ \A x \in Exporters \ {e} : stamp'[x] = stamp[x]
        /\ Advance(e, "name", "save")
    BY <1>3 DEF TakeName, Advance, Saved, ExportsShape
  <2> QED BY <2>1, PlaceKept DEF ExportsShape
<1>4. CASE Surroundings
  BY <1>4 DEF Surroundings, ExportsInv, ExportsShape, Saved
<1> QED BY <1>1, <1>2, <1>3, <1>4, SaveKeeps, OpenKeeps DEF ExportsNext

(* A file that is gone was swept, or is saved over.                        *)
LEMMA FilesGo ==
  ASSUME ExportsNext
  PROVE  OnlyOldWorkbooksGo
<1>1. ASSUME NEW e \in Exporters, sweep_stale_exports(e) PROVE OnlyOldWorkbooksGo
  BY <1>1 DEF sweep_stale_exports, Stale, OnlyOldWorkbooksGo
<1>2. ASSUME NEW e \in Exporters, Save(e) PROVE OnlyOldWorkbooksGo
  <2>1. CASE UNCHANGED folder
    BY <2>1 DEF OnlyOldWorkbooksGo
  <2>2. CASE folder' = {f \in folder : ~SamePath(f, Exported(e))} \cup {Exported(e)}
    <3>1. \A f \in folder \ folder' : SamePath(f, Exported(e)) /\ Exported(e) \in folder'
      BY <2>2
    <3>2. Exported(e).prefixed
      BY DEF Exported
    <3> QED BY <3>1, <3>2 DEF OnlyOldWorkbooksGo, SamePath
  <2> QED BY <1>2, <2>1, <2>2 DEF Save
<1>3. CASE UNCHANGED folder
  BY <1>3 DEF OnlyOldWorkbooksGo
<1> QED BY <1>1, <1>2, <1>3 DEF ExportsNext, export_to_xlsx, TakeName, Open, Surroundings

(* Whatever the clock says and however many exports run beside each other, *)
(* only workbooks past their retention are deleted, and an export opens    *)
(* its own unless another one of the same moment took its name.            *)
THEOREM WorkbooksAlwaysKept == Spec => WorkbooksKept
<1> DEFINE Inv == ExportsInv /\ ExportsShape
<1>1. Init => Inv
  BY ExportsStart DEF Init
<1>2. Inv /\ [Next]_<<case, registry, handleVars, exportVars>> => Inv'
  <2> SUFFICES ASSUME Inv, Next \/ UNCHANGED exportVars PROVE Inv'
    OBVIOUS
  <2>1. CASE UNCHANGED exportVars
    BY <2>1 DEF exportVars, ExportsInv, ExportsShape, Saved
  <2> QED BY <2>1, ExportStepKeeps DEF Next, Pick, Setting, Session, Export
<1>3. Inv' => OwnRowsOpened'
  BY DEF ExportsInv, OwnRowsOpened
<1>4. [Next]_<<case, registry, handleVars, exportVars>> => [OnlyOldWorkbooksGo]_exportVars
  BY FilesGo DEF Next, Pick, Setting, Session, Export, exportVars
<1>5. /\ Inv' /\ [Next]_<<case, registry, handleVars, exportVars>>
      => [OnlyOldWorkbooksGo /\ OwnRowsOpened']_exportVars
  BY <1>3, <1>4
<1> QED BY <1>1, <1>2, <1>5, PTL DEF Spec, WorkbooksKept

---------------------------------------------------------------------------
(* The raw handles of a session.                                           *)

OwnHandles == Instances \X OwnKinds

(* The own handles that exist once the open has come to a step.            *)
KindsBefore(at) == CASE at = "open" -> {} [] at = "connect" -> {"db"}
                     [] at = "wrap" -> {"db", "side"} [] at = "configure" -> OwnKinds
BuildSteps == {"open", "connect", "wrap", "configure"}
Made(i, at) == (IF i = "sql" THEN {"browse"} \X OwnKinds ELSE {}) \cup ({i} \X KindsBefore(at))

(* A sequence releases a set of own handles: each once, and a database     *)
(* after its connections, whose database is among them.                    *)
Releases(s, S) ==
  /\ s \in Seq(OwnHandles)
  /\ \A m, n \in DOMAIN s : s[m] = s[n] => m = n
  /\ S = {s[n] : n \in DOMAIN s}
  /\ \A m, n \in DOMAIN s : s[m][1] = s[n][1] /\ s[m][2] = "db" => n <= m
  /\ \A h \in S : <<h[1], "db">> \in S

Live(S) == {h \in S : status[h] = "live"}

(* Own handles are those made so far, until the open fails or the last     *)
(* holder is gone; then they are those about to be released.               *)
Building == opening.step \in BuildSteps
OwnInv ==
  /\ status \in [Handles -> {"none", "live", "released"}]
  /\ holders \subseteq Users \cup {"slot"}
  /\ \/ /\ opening.on \in Instances /\ Building /\ holders = {} /\ closing = <<>>
        /\ Live(OwnHandles) = Made(opening.on, opening.step)
     \/ /\ opening = Doing("none", "ready") /\ holders # {} /\ closing = <<>>
        /\ Live(OwnHandles) = OwnHandles
     \/ /\ opening.step \in {"ready", "failed"} /\ holders = {}
        /\ Releases(closing, Live(OwnHandles))

(* What the call of a step has created and not yet released.               *)
BrowseHas(at) == CASE at = "destroy result" -> {"statement", "result"}
                   [] at \in {"bound", "destroy statement"} -> {"statement"}
                   [] OTHER -> {}
SqlHas(at) == CASE at \in {"destroy select", "destroy other"} -> {"extracted", "statement"}
                [] at \in {"prepare", "accept", "destroy extracted"} -> {"extracted"}
                [] OTHER -> {}
Has(i, at) == IF i = "browse" THEN BrowseHas(at) ELSE SqlHas(at)

(* The thread that has locked the side connection of an instance.          *)
Locks(c, i) == c.on = i /\ c.step # "aside"

CallSteps == {"none", "begun", "aside", "prepare", "bound", "destroy result", "destroy statement",
              "leave", "extract", "destroy extracted", "destroy select", "destroy other", "accept", "run"}

Calls == [on : {"none"} \cup Instances, step : CallSteps]

(* A thread in a call keeps the session; one at a time has locked a side   *)
(* connection, and what the calls created there is what that one has.      *)
CallInv ==
  /\ DOMAIN call = Users
  /\ \A u \in Users : call[u] \in Calls
  /\ \A u \in Users : call[u] # NoCall => u \in holders
  /\ \A i \in Instances : \A u, v \in Users : Locks(call[u], i) /\ Locks(call[v], i) => u = v
  /\ \A i \in Instances, k \in CallKinds :
       status[<<i, k>>] = "live" <=> \E u \in Users : Locks(call[u], i) /\ k \in Has(i, call[u].step)

HandlesInv == OwnInv /\ CallInv

LEMMA HandleSets ==
  /\ OwnHandles \subseteq Handles
  /\ \A i \in Instances, k \in CallKinds : <<i, k>> \in Handles \ OwnHandles
  /\ \A i \in Instances, k \in OwnKinds : <<i, k>> \in OwnHandles
  /\ \A h \in Handles : h = <<h[1], h[2]>> /\ h[1] \in Instances /\ h[2] \in OwnKinds \cup CallKinds
  BY DEF OwnHandles, Handles, Instances, OwnKinds, CallKinds

(* What is released, one sequence after another.                           *)
LEMMA NothingReleased == Releases(<<>>, {})
  BY DEF Releases

LEMMA ReleasesJoined ==
  ASSUME NEW s, NEW S, Releases(s, S), NEW t, NEW T, Releases(t, T),
         \A g \in S, h \in T : g[1] # h[1]
  PROVE  Releases(s \o t, S \cup T)
<1> DEFINE both == s \o t
<1>1. /\ s \in Seq(OwnHandles) /\ t \in Seq(OwnHandles) /\ both \in Seq(OwnHandles)
      /\ Len(s) \in Nat /\ Len(t) \in Nat /\ Len(both) = Len(s) + Len(t)
      /\ DOMAIN s = 1 .. Len(s) /\ DOMAIN t = 1 .. Len(t) /\ DOMAIN both = 1 .. Len(s) + Len(t)
  BY DEF Releases
<1>2. /\ \A n \in DOMAIN s : n \in DOMAIN both /\ both[n] = s[n] /\ s[n] \in S
      /\ \A n \in DOMAIN t : n + Len(s) \in DOMAIN both /\ both[n + Len(s)] = t[n] /\ t[n] \in T
  BY <1>1 DEF Releases
<1>3. \A n \in DOMAIN both : \/ n \in DOMAIN s
                             \/ n - Len(s) \in DOMAIN t /\ (n - Len(s)) + Len(s) = n
  BY <1>1
<1> HIDE DEF both
<1>4. S \cup T = {both[n] : n \in DOMAIN both}
  <2>1. \A g \in S \cup T : \E n \in DOMAIN both : both[n] = g
    BY <1>2 DEF Releases
  <2>2. \A n \in DOMAIN both : both[n] \in S \cup T
    BY <1>2, <1>3
  <2> QED BY <2>1, <2>2
<1>5. ASSUME NEW m \in DOMAIN both, NEW n \in DOMAIN both, both[m][1] = both[n][1]
      PROVE  /\ both[m] = both[n] => m = n
             /\ both[m][2] = "db" => n <= m
  <2>1. CASE m \in DOMAIN s /\ n \in DOMAIN s
    BY <1>2, <1>5, <2>1 DEF Releases
  <2>2. CASE /\ m - Len(s) \in DOMAIN t /\ (m - Len(s)) + Len(s) = m
             /\ n - Len(s) \in DOMAIN t /\ (n - Len(s)) + Len(s) = n
    <3>1. both[m] = t[m - Len(s)] /\ both[n] = t[n - Len(s)]
      BY <1>2, <2>2
    <3>2. both[m] = both[n] => m - Len(s) = n - Len(s)
      BY <2>2, <3>1 DEF Releases
    <3>3. both[m][2] = "db" => n - Len(s) <= m - Len(s)
      BY <1>5, <2>2, <3>1 DEF Releases
    <3> QED BY <1>1, <3>2, <3>3
  <2>3. ~(m \in DOMAIN s /\ n - Len(s) \in DOMAIN t /\ (n - Len(s)) + Len(s) = n)
    BY <1>2, <1>5
  <2>4. ~(n \in DOMAIN s /\ m - Len(s) \in DOMAIN t /\ (m - Len(s)) + Len(s) = m)
    BY <1>2, <1>5
  <2> QED BY <1>3, <2>1, <2>2, <2>3, <2>4
<1>6. both \in Seq(OwnHandles)
  BY <1>1 DEF both
<1>7. \A h \in S \cup T : <<h[1], "db">> \in S \cup T
  BY DEF Releases
<1>8. Releases(both, S \cup T)
  BY <1>4, <1>5, <1>6, <1>7 DEF Releases
<1> QED BY <1>8 DEF both

(* The connections of an instance and its database, in the order they are  *)
(* dropped in.                                                             *)
LEMMA InstanceReleased ==
  ASSUME NEW i \in Instances
  PROVE  /\ Releases(<<<<i, "db">>>>, {i} \X {"db"})
         /\ Releases(<<<<i, "side">>, <<i, "db">>>>, {i} \X {"db", "side"})
         /\ Releases(DropOrder(i), {i} \X OwnKinds)
<1>1. <<i, "db">> \in OwnHandles /\ <<i, "side">> \in OwnHandles /\ <<i, "conn">> \in OwnHandles
  BY HandleSets DEF OwnKinds
<1>2. Releases(<<<<i, "db">>>>, {i} \X {"db"})
  BY <1>1 DEF Releases
<1>3. Releases(<<<<i, "side">>, <<i, "db">>>>, {i} \X {"db", "side"})
  <2> DEFINE s == <<<<i, "side">>, <<i, "db">>>>
  <2>1. s \in Seq(OwnHandles) /\ DOMAIN s = {1, 2} /\ s[1] = <<i, "side">> /\ s[2] = <<i, "db">>
    BY <1>1
  <2>2. {s[n] : n \in DOMAIN s} = {i} \X {"db", "side"}
    BY <2>1
  <2> HIDE DEF s
  <2> QED BY <2>1, <2>2 DEF Releases, s
<1>4. Releases(DropOrder(i), {i} \X OwnKinds)
  <2> DEFINE s == DropOrder(i)
  <2>1. s \in Seq(OwnHandles) /\ DOMAIN s = {1, 2, 3} /\ s[1] = <<i, "conn">>
        /\ s[2] = <<i, "side">> /\ s[3] = <<i, "db">>
    BY <1>1 DEF DropOrder
  <2> HIDE DEF s
  <2>2. {s[n] : n \in DOMAIN s} = {i} \X OwnKinds
    <3>1. {s[n] : n \in DOMAIN s} = {<<i, "conn">>, <<i, "side">>, <<i, "db">>}
      BY <2>1
    <3>2. {i} \X OwnKinds = {<<i, "conn">>, <<i, "side">>, <<i, "db">>}
      BY DEF OwnKinds
    <3> QED BY <3>1, <3>2
  <2>3. Releases(s, {i} \X OwnKinds)
    BY <2>1, <2>2 DEF Releases
  <2> QED BY <2>3 DEF s
<1> QED BY <1>2, <1>3, <1>4

(* A failed step releases what was made before it, and nothing else.       *)
LEMMA FailureReleases ==
  ASSUME NEW i \in Instances
  PROVE  /\ Releases(Rest(i), Made(i, "open"))
         /\ Releases(AfterConnect(i), Made(i, "connect"))
         /\ Releases(<<<<i, "side">>, <<i, "db">>>> \o Rest(i), Made(i, "wrap"))
         /\ Releases(DropOrder(i) \o Rest(i), Made(i, "configure"))
<1> DEFINE others == IF i = "sql" THEN {"browse"} \X OwnKinds ELSE {}
<1>1. Releases(Rest(i), others)
  <2>1. CASE i = "sql"
    BY <2>1, InstanceReleased DEF Rest, Instances
  <2>2. CASE i # "sql"
    BY <2>2, NothingReleased DEF Rest
  <2> QED BY <2>1, <2>2
<1>2. ASSUME NEW kinds \in SUBSET OwnKinds, NEW s, Releases(s, {i} \X kinds)
      PROVE  Releases(s \o Rest(i), others \cup ({i} \X kinds))
  <2>1. \A g \in {i} \X kinds, h \in others : g[1] # h[1]
    OBVIOUS
  <2> HIDE DEF others
  <2>2. Releases(s \o Rest(i), ({i} \X kinds) \cup others)
    BY <1>1, <1>2, <2>1, ReleasesJoined
  <2> QED BY <2>2
<1>3. /\ Made(i, "open") = others
      /\ Made(i, "connect") = others \cup ({i} \X {"db"})
      /\ Made(i, "wrap") = others \cup ({i} \X {"db", "side"})
      /\ Made(i, "configure") = others \cup ({i} \X OwnKinds)
  BY DEF Made, KindsBefore
<1>4. {"db"} \in SUBSET OwnKinds /\ {"db", "side"} \in SUBSET OwnKinds
  BY DEF OwnKinds
<1> HIDE DEF others
<1>5. Releases(AfterConnect(i), Made(i, "connect"))
  BY <1>2, <1>3, <1>4, InstanceReleased DEF AfterConnect
<1>6. Releases(<<<<i, "side">>, <<i, "db">>>> \o Rest(i), Made(i, "wrap"))
  BY <1>2, <1>3, <1>4, InstanceReleased
<1>7. Releases(DropOrder(i) \o Rest(i), Made(i, "configure"))
  <2>1. Releases(DropOrder(i), {i} \X OwnKinds) /\ OwnKinds \in SUBSET OwnKinds
    BY InstanceReleased
  <2>2. Releases(DropOrder(i) \o Rest(i), others \cup ({i} \X OwnKinds))
    BY <1>2, <2>1
  <2> QED BY <1>3, <2>2
<1> QED BY <1>1, <1>3, <1>5, <1>6, <1>7

LEMMA SessionReleased == Releases(DropOrder("browse") \o DropOrder("sql"), OwnHandles)
<1>1. /\ Releases(DropOrder("browse"), {"browse"} \X OwnKinds)
      /\ Releases(DropOrder("sql"), {"sql"} \X OwnKinds)
  BY InstanceReleased DEF Instances
<1>2. \A g \in {"browse"} \X OwnKinds, h \in {"sql"} \X OwnKinds : g[1] # h[1]
  OBVIOUS
<1>3. ({"browse"} \X OwnKinds) \cup ({"sql"} \X OwnKinds) = OwnHandles
  BY DEF OwnHandles, Instances
<1> QED BY <1>1, <1>2, <1>3, ReleasesJoined

(* Opening, closing and the release of what is left.                       *)
Statuses == {"none", "live", "released"}

LEMMA BuildKeeps ==
  ASSUME HandlesInv, open_in_memory
  PROVE  OwnInv'
<1>1. PICK i \in Instances :
        \/ opening = Doing(i, "open") /\ Attempt(i, "db", "connect", Rest(i))
        \/ opening = Doing(i, "connect") /\ Attempt(i, "side", "wrap", AfterConnect(i))
        \/ opening = Doing(i, "wrap")
             /\ Attempt(i, "conn", "configure", <<<<i, "side">>, <<i, "db">>>> \o Rest(i))
  BY DEF open_in_memory
<1>2. /\ UNCHANGED holders /\ holders = {} /\ closing = <<>>
      /\ opening.on = i /\ Live(OwnHandles) = Made(i, opening.step)
      /\ status \in [Handles -> Statuses]
  BY <1>1 DEF HandlesInv, OwnInv, open_in_memory, Doing, Statuses
<1>3. ASSUME NEW at, NEW kind \in OwnKinds, NEW next \in BuildSteps, NEW releasing,
             opening.step = at, Made(i, next) = Made(i, at) \cup {<<i, kind>>},
             Releases(releasing, Made(i, at)), Attempt(i, kind, next, releasing)
      PROVE  OwnInv'
  <2>1. CASE Created(<<i, kind>>) /\ Goes(i, next)
    <3>1. <<i, kind>> \in OwnHandles
      BY HandleSets
    <3>2. status' \in [Handles -> Statuses] /\ Live(OwnHandles)' = Live(OwnHandles) \cup {<<i, kind>>}
      BY <1>2, <2>1, <3>1, HandleSets DEF Created, Live, Statuses
    <3>3. opening' = Doing(i, next) /\ opening'.on = i /\ opening'.step = next /\ closing' = <<>>
      BY <1>2, <2>1 DEF Goes, Doing
    <3> QED BY <1>2, <1>3, <3>2, <3>3 DEF OwnInv, Building, Statuses
  <2>2. CASE Fails(releasing)
    <3>1. Live(OwnHandles)' = Made(i, at) /\ opening'.step = "failed" /\ closing' = releasing
      BY <1>2, <1>3, <2>2 DEF Fails, Live, Doing
    <3> QED BY <1>2, <1>3, <2>2, <3>1 DEF OwnInv, Fails, Statuses
  <2> QED BY <1>3, <2>1, <2>2 DEF Attempt
<1>4. /\ Made(i, "connect") = Made(i, "open") \cup {<<i, "db">>}
      /\ Made(i, "wrap") = Made(i, "connect") \cup {<<i, "side">>}
      /\ Made(i, "configure") = Made(i, "wrap") \cup {<<i, "conn">>}
  BY DEF Made, KindsBefore, OwnKinds
<1>5. /\ {"db", "side", "conn"} \subseteq OwnKinds
      /\ {"connect", "wrap", "configure"} \subseteq BuildSteps
  BY DEF OwnKinds, BuildSteps
<1>6. CASE opening = Doing(i, "open") /\ Attempt(i, "db", "connect", Rest(i))
  BY <1>3, <1>4, <1>5, <1>6, FailureReleases DEF Doing
<1>7. CASE opening = Doing(i, "connect") /\ Attempt(i, "side", "wrap", AfterConnect(i))
  BY <1>3, <1>4, <1>5, <1>7, FailureReleases DEF Doing
<1>8. CASE /\ opening = Doing(i, "wrap")
           /\ Attempt(i, "conn", "configure", <<<<i, "side">>, <<i, "db">>>> \o Rest(i))
  BY <1>3, <1>4, <1>5, <1>8, FailureReleases DEF Doing
<1> QED BY <1>1, <1>6, <1>7, <1>8

LEMMA ConfigureKeeps ==
  ASSUME HandlesInv, Configure
  PROVE  OwnInv'
<1>1. /\ status' = status /\ status \in [Handles -> Statuses]
      /\ Live(OwnHandles)' = Live(OwnHandles)
  BY DEF HandlesInv, OwnInv, Configure, Statuses, Live, Fails
<1>2. \A i \in Instances : opening = Doing(i, "configure") =>
        holders = {} /\ closing = <<>> /\ Live(OwnHandles) = Made(i, "configure")
  BY DEF HandlesInv, OwnInv, Doing
<1>3. CASE opening = Doing("browse", "configure") /\ Goes("sql", "open")
  <2>1. Made("sql", "open") = Made("browse", "configure")
    BY DEF Made, KindsBefore
  <2>2. opening' = Doing("sql", "open") /\ opening'.on = "sql" /\ opening'.step = "open"
        /\ opening' # Doing("none", "ready")
    BY <1>3 DEF Goes, Doing
  <2>3. "sql" \in Instances /\ "browse" \in Instances /\ "open" \in BuildSteps
    BY DEF Instances, BuildSteps
  <2>4. holders' = {} /\ closing' = <<>> /\ Live(OwnHandles)' = Made("sql", "open")
    BY <1>1, <1>2, <1>3, <2>1, <2>2, <2>3 DEF Configure, Goes
  <2> QED BY <1>1, <2>2, <2>3, <2>4 DEF OwnInv, Building, Statuses
<1>4. ASSUME NEW i \in Instances, opening = Doing(i, "configure"), Fails(DropOrder(i) \o Rest(i))
      PROVE  OwnInv'
  <2>1. opening' = Doing("none", "failed") /\ opening'.step = "failed"
          /\ opening' # Doing("none", "ready")
    BY <1>4 DEF Fails, Doing
  <2>2. holders' = {} /\ closing' = DropOrder(i) \o Rest(i)
    BY <1>2, <1>4, <2>1 DEF Configure, Fails
  <2>3. Releases(closing', Live(OwnHandles)')
    BY <1>1, <1>2, <1>4, <2>2, FailureReleases
  <2> QED BY <1>1, <2>1, <2>2, <2>3 DEF OwnInv, Statuses
<1>5. CASE opening = Doing("sql", "configure") /\ Goes("none", "ready")
  <2>1. Made("sql", "configure") = OwnHandles
    BY DEF Made, KindsBefore, OwnHandles, Instances
  <2>2. opening' = Doing("none", "ready") /\ holders' = {"slot"} /\ closing' = <<>>
    BY <1>2, <1>5 DEF Configure, Goes, Instances
  <2> QED BY <1>1, <1>2, <1>5, <2>1, <2>2 DEF OwnInv, Statuses, Instances
<1> QED BY <1>3, <1>4, <1>5 DEF Configure

(* The next release: of a live own handle, whose database is still there.  *)
LEMMA ReleaseKeeps ==
  ASSUME HandlesInv, ReleaseNext
  PROVE  OwnInv'
<1>1. /\ opening.step \in {"ready", "failed"} /\ holders = {}
      /\ Releases(closing, Live(OwnHandles)) /\ closing # <<>>
      /\ status \in [Handles -> Statuses]
  BY DEF HandlesInv, OwnInv, ReleaseNext, Statuses
<1> DEFINE h == Head(closing)
<1>2. /\ closing \in Seq(OwnHandles) /\ Len(closing) \in Nat \ {0} /\ 1 \in DOMAIN closing
      /\ h = closing[1] /\ DOMAIN closing = 1 .. Len(closing)
      /\ closing' = Tail(closing) /\ closing' \in Seq(OwnHandles)
      /\ DOMAIN closing' = 1 .. Len(closing) - 1
      /\ \A n \in DOMAIN closing' : n + 1 \in DOMAIN closing /\ closing'[n] = closing[n + 1]
  BY <1>1 DEF Releases, ReleaseNext
<1>3. h \in Live(OwnHandles) /\ status[h] = "live" /\ h \in OwnHandles
  BY <1>1, <1>2 DEF Releases, Live
<1>4. /\ status' = [status EXCEPT ![h] = "released"]
      /\ status' \in [Handles -> Statuses]
      /\ Live(OwnHandles)' = Live(OwnHandles) \ {h}
  BY <1>1, <1>3, HandleSets DEF ReleaseNext, Release, Statuses, Live
<1> HIDE DEF h
<1>5. Live(OwnHandles) \ {h} = {closing'[n] : n \in DOMAIN closing'}
  <2>1. ASSUME NEW g \in Live(OwnHandles) \ {h} PROVE \E n \in DOMAIN closing' : closing'[n] = g
    <3>1. PICK n \in DOMAIN closing : closing[n] = g
      BY <1>1 DEF Releases
    <3>2. n # 1 /\ n - 1 \in DOMAIN closing' /\ (n - 1) + 1 = n
      BY <1>2, <2>1, <3>1
    <3> QED BY <1>2, <3>1, <3>2
  <2>2. ASSUME NEW n \in DOMAIN closing' PROVE closing'[n] \in Live(OwnHandles) \ {h}
    <3>1. n + 1 # 1
      BY <1>2
    <3> QED BY <1>1, <1>2, <3>1 DEF Releases
  <2> QED BY <2>1, <2>2
<1>6. ASSUME NEW m \in DOMAIN closing', NEW n \in DOMAIN closing'
      PROVE  /\ closing'[m] = closing'[n] => m = n
             /\ closing'[m][1] = closing'[n][1] /\ closing'[m][2] = "db" => n <= m
  <2>1. m \in Int /\ n \in Int
    BY <1>2
  <2>2. /\ closing[m + 1] = closing[n + 1] => m + 1 = n + 1
        /\ closing[m + 1][1] = closing[n + 1][1] /\ closing[m + 1][2] = "db" => n + 1 <= m + 1
    BY <1>1, <1>2 DEF Releases
  <2> QED BY <1>2, <2>1, <2>2
<1>7. ASSUME NEW g \in Live(OwnHandles) \ {h} PROVE <<g[1], "db">> \in Live(OwnHandles) \ {h}
  <2>1. <<g[1], "db">> \in Live(OwnHandles)
    BY <1>1 DEF Releases
  <2>2. PICK n \in DOMAIN closing : closing[n] = g
    BY <1>1 DEF Releases
  <2>3. ASSUME h = <<g[1], "db">> PROVE n <= 1
    <3>1. closing[1][1] = closing[n][1] /\ closing[1][2] = "db"
      BY <1>2, <2>2, <2>3
    <3> QED BY <1>1, <1>2, <3>1 DEF Releases
  <2> QED BY <1>2, <2>1, <2>2, <2>3
<1>8. Releases(closing', Live(OwnHandles)')
  BY <1>2, <1>4, <1>5, <1>6, <1>7 DEF Releases
<1> QED BY <1>1, <1>4, <1>8 DEF OwnInv, ReleaseNext, Statuses

(* A holder leaves; the last one drops the session.                        *)
LEMMA LeavingKeeps ==
  ASSUME HandlesInv, NEW holder \in holders, LetGoOf(holder), UNCHANGED <<status, opening>>
  PROVE  OwnInv'
<1>1. /\ opening = Doing("none", "ready") /\ closing = <<>> /\ Live(OwnHandles) = OwnHandles
      /\ holders \subseteq Users \cup {"slot"}
      /\ Live(OwnHandles)' = Live(OwnHandles)
  BY DEF HandlesInv, OwnInv, Live
<1>2. CASE holders' = {}
  <2>1. Releases(closing', Live(OwnHandles)')
    BY <1>1, <1>2, SessionReleased DEF LetGoOf
  <2>2. opening'.step = "ready"
    BY <1>1 DEF Doing
  <2> QED BY <1>1, <1>2, <2>1, <2>2 DEF HandlesInv, OwnInv
<1>3. CASE holders' # {}
  BY <1>1, <1>3 DEF LetGoOf, HandlesInv, OwnInv
<1> QED BY <1>2, <1>3

(* What a call does leaves the own handles alone.                          *)
LEMMA OwnKept ==
  ASSUME OwnInv, UNCHANGED <<opening, closing, holders>>, status' \in [Handles -> Statuses],
         \A h \in OwnHandles : status'[h] = status[h]
  PROVE  OwnInv'
<1>1. Live(OwnHandles)' = Live(OwnHandles)
  BY DEF Live
<1> QED BY <1>1 DEF OwnInv, Building, Statuses

(* What a thread has made and not released is nobody else's.               *)
LEMMA CallMoves ==
  ASSUME CallInv, NEW u \in Users, NEW c \in Calls, call' = [call EXCEPT ![u] = c],
         c # NoCall => u \in holders', \A v \in Users \ {u} : v \in holders => v \in holders',
         \A i \in Instances : Locks(c, i) => \A v \in Users \ {u} : ~Locks(call[v], i),
         \A i \in Instances, k \in CallKinds :
           /\ Locks(c, i) => (status'[<<i, k>>] = "live" <=> k \in Has(i, c.step))
           /\ ~Locks(c, i) /\ Locks(call[u], i) => status'[<<i, k>>] # "live"
           /\ ~Locks(c, i) /\ ~Locks(call[u], i) => status'[<<i, k>>] = status[<<i, k>>]
  PROVE  CallInv'
<1>1. /\ call'[u] = c /\ DOMAIN call' = Users
      /\ \A v \in Users \ {u} : call'[v] = call[v]
  BY DEF CallInv
<1>2. \A v \in Users : call'[v] \in Calls /\ (call'[v] # NoCall => v \in holders')
  BY <1>1 DEF CallInv
<1>3. \A i \in Instances : \A v, w \in Users : Locks(call'[v], i) /\ Locks(call'[w], i) => v = w
  BY <1>1 DEF CallInv
<1>4. ASSUME NEW i \in Instances, NEW k \in CallKinds
      PROVE  status'[<<i, k>>] = "live" <=>
               \E v \in Users : Locks(call'[v], i) /\ k \in Has(i, call'[v].step)
  <2>1. CASE Locks(c, i)
    BY <1>1, <2>1
  <2>2. CASE ~Locks(c, i) /\ Locks(call[u], i)
    <3>1. \A v \in Users : ~Locks(call'[v], i)
      BY <1>1, <2>2 DEF CallInv
    <3> QED BY <2>2, <3>1
  <2>3. CASE ~Locks(c, i) /\ ~Locks(call[u], i)
    <3>1. \A v \in Users : Locks(call'[v], i) => v # u
      BY <1>1, <2>3
    <3>2. status'[<<i, k>>] = status[<<i, k>>]
      BY <2>3
    <3> QED BY <1>1, <2>3, <3>1, <3>2 DEF CallInv
  <2> QED BY <2>1, <2>2, <2>3
<1> QED BY <1>1, <1>2, <1>3, <1>4 DEF CallInv

(* A step that leaves the calls and what they have created alone.          *)
LEMMA CallsKept ==
  ASSUME CallInv, UNCHANGED call, \A u \in Users : u \in holders => u \in holders',
         \A i \in Instances, k \in CallKinds : status'[<<i, k>>] = status[<<i, k>>]
  PROVE  CallInv'
  BY DEF CallInv

LEMMA SessionKeepsCalls ==
  ASSUME HandlesInv, open_in_memory \/ Configure \/ ReleaseNext \/ close_database
  PROVE  CallInv'
<1>1. UNCHANGED call
  BY DEF open_in_memory, Configure, ReleaseNext, close_database
<1>2. \A u \in Users : u \in holders => u \in holders'
  <2>1. CASE Configure
    BY <2>1 DEF Configure, HandlesInv, OwnInv, Building, BuildSteps, Doing
  <2> QED BY <2>1, UsersAssumption DEF open_in_memory, ReleaseNext, close_database, LetGoOf
<1>3. ASSUME NEW h \in OwnHandles, NEW to, status' = [status EXCEPT ![h] = to]
      PROVE  \A i \in Instances, k \in CallKinds : status'[<<i, k>>] = status[<<i, k>>]
  <2>1. ASSUME NEW i \in Instances, NEW k \in CallKinds PROVE <<i, k>> # h /\ <<i, k>> \in Handles
    BY <1>3, HandleSets
  <2> QED BY <1>3, <2>1 DEF HandlesInv, OwnInv
<1>4. UNCHANGED status \/ \E h \in OwnHandles : \E to : status' = [status EXCEPT ![h] = to]
  <2>1. CASE open_in_memory
    <3>1. ASSUME NEW i \in Instances, NEW kind \in OwnKinds, Created(<<i, kind>>)
          PROVE  \E h \in OwnHandles : \E to : status' = [status EXCEPT ![h] = to]
      BY <3>1, HandleSets DEF Created
    <3> QED BY <2>1, <3>1 DEF open_in_memory, Attempt, Fails, OwnKinds
  <2>2. CASE ReleaseNext
    <3>1. Head(closing) \in OwnHandles
      BY <2>2 DEF HandlesInv, OwnInv, ReleaseNext, Releases
    <3> QED BY <2>2, <3>1 DEF ReleaseNext, Release
  <2> QED BY <2>1, <2>2 DEF Configure, close_database, Fails
<1> QED BY <1>1, <1>2, <1>3, <1>4, CallsKept DEF HandlesInv

(* A thread that begins, ends, or calls without a lock.                    *)
LEMMA OutsideKeeps ==
  ASSUME HandlesInv, Begin \/ End \/ SideHandleCall
  PROVE  HandlesInv'
<1>0. NoCall \in Calls /\ Doing("none", "begun") \in Calls /\ Doing("browse", "aside") \in Calls
  BY DEF Calls, CallSteps, NoCall, Doing, Instances
<1>1. /\ \A i \in Instances : ~Locks(NoCall, i) /\ ~Locks(Doing("none", "begun"), i)
      /\ \A i \in Instances : ~Locks(Doing("browse", "aside"), i)
      /\ Doing("none", "begun") # NoCall /\ Doing("browse", "aside") # NoCall
  BY DEF Locks, NoCall, Doing, Instances
<1>2. ASSUME NEW u \in Users, call[u] = NoCall, "slot" \in holders, holders' = holders \cup {u},
             call' = [call EXCEPT ![u] = Doing("none", "begun")], UNCHANGED <<status, opening, closing>>
      PROVE  HandlesInv'
  <2>1. CallInv'
    BY <1>0, <1>1, <1>2, CallMoves DEF HandlesInv
  <2>2. OwnInv'
    <3>1. Live(OwnHandles)' = Live(OwnHandles)
      BY <1>2 DEF Live
    <3> QED BY <1>2, <3>1 DEF HandlesInv, OwnInv
  <2> QED BY <2>1, <2>2 DEF HandlesInv
<1>3. ASSUME NEW u \in Users, At(u, "none", "begun"), call' = [call EXCEPT ![u] = NoCall],
             LetGoOf(u), UNCHANGED <<status, opening>>
      PROVE  HandlesInv'
  <2>1. u \in holders /\ holders' = holders \ {u}
    BY <1>1, <1>3 DEF At, HandlesInv, CallInv, LetGoOf
  <2>2. OwnInv'
    BY <1>3, <2>1, LeavingKeeps
  <2>3. \A i \in Instances : ~Locks(call[u], i)
    BY <1>1, <1>3 DEF At
  <2>4. \A v \in Users \ {u} : v \in holders => v \in holders'
    BY <2>1
  <2>5. CallInv'
    BY <1>0, <1>1, <1>3, <2>3, <2>4, CallMoves DEF HandlesInv
  <2> QED BY <2>2, <2>5 DEF HandlesInv
<1>4. ASSUME NEW u \in Users, NEW c \in Calls, \A i \in Instances : ~Locks(call[u], i) /\ ~Locks(c, i),
             call[u] # NoCall, call' = [call EXCEPT ![u] = c],
             UNCHANGED <<status, opening, closing, holders>>
      PROVE  HandlesInv'
  <2>1. u \in holders
    BY <1>4 DEF HandlesInv, CallInv
  <2>2. CallInv'
    BY <1>4, <2>1, CallMoves DEF HandlesInv
  <2>3. OwnInv'
    BY <1>4, OwnKept DEF HandlesInv, OwnInv, Statuses
  <2> QED BY <2>2, <2>3 DEF HandlesInv
<1>5. CASE Begin
  BY <1>2, <1>5 DEF Begin
<1>6. CASE End
  BY <1>3, <1>6 DEF End
<1>7. CASE SideHandleCall
  <2>1. PICK u \in Users :
          \/ Owned(u) /\ call' = [call EXCEPT ![u] = Doing("browse", "aside")]
          \/ /\ At(u, "browse", "aside")
             /\ call' = [call EXCEPT ![u] = IF u \in holders THEN Doing("none", "begun") ELSE NoCall]
    BY <1>7 DEF SideHandleCall
  <2>2. UNCHANGED <<status, opening, closing, holders>>
    BY <1>7 DEF SideHandleCall
  <2> QED BY <1>0, <1>1, <1>4, <2>1, <2>2 DEF Owned, At
<1> QED BY <1>5, <1>6, <1>7

(* A thread within a call on a side connection of an instance: it enters   *)
(* with nothing made, makes or releases one handle, and leaves with        *)
(* nothing left.                                                           *)
LEMMA Works ==
  ASSUME HandlesInv, NEW u \in Users, NEW i \in Instances,
         NEW at \in CallSteps \ {"aside"}, NEW to \in CallSteps \ {"aside"},
         call[u] = Doing(i, at), Step(u, to), UNCHANGED <<opening, closing, holders>>,
         \/ UNCHANGED status /\ Has(i, to) = Has(i, at)
         \/ \E k \in CallKinds : Created(<<i, k>>) /\ Has(i, to) = Has(i, at) \cup {k}
         \/ \E k \in Has(i, at) : Release(<<i, k>>) /\ Has(i, to) = Has(i, at) \ {k}
  PROVE  HandlesInv'
<1> DEFINE c == Doing(i, to)
<1>1. /\ c \in Calls /\ c.step = to /\ call' = [call EXCEPT ![u] = c]
      /\ Locks(c, i) /\ Locks(call[u], i) /\ call[u].step = at /\ call[u] # NoCall
      /\ \A j \in Instances : Locks(c, j) => j = i
  <2>1. c \in Calls /\ c.on = i /\ c.step = to
    BY DEF Calls, Doing
  <2>2. call[u].on = i /\ call[u].step = at /\ call[u] # NoCall
    BY DEF Doing, NoCall, Instances
  <2>3. call' = [call EXCEPT ![u] = c]
    <3>1. [call[u] EXCEPT !.step = to] = c
      BY DEF Doing
    <3>2. call' = [call EXCEPT ![u] = [call[u] EXCEPT !.step = to]]
      BY DEF Step
    <3> QED BY <3>1, <3>2
  <2> HIDE DEF c
  <2> QED BY <2>1, <2>2, <2>3 DEF Locks
<1>2. u \in holders /\ \A v \in Users \ {u} : ~Locks(call[v], i)
  BY <1>1 DEF HandlesInv, CallInv
<1>3. \A k \in CallKinds : status[<<i, k>>] = "live" <=> k \in Has(i, at)
  BY <1>1, <1>2 DEF HandlesInv, CallInv
<1>4. Has(i, at) \subseteq CallKinds
  BY DEF Has, BrowseHas, SqlHas, CallKinds
<1>5. status \in [Handles -> Statuses]
  BY DEF HandlesInv, OwnInv, Statuses
<1>6. /\ status' \in [Handles -> Statuses]
      /\ \A h \in OwnHandles : status'[h] = status[h]
      /\ \A j \in Instances, k \in CallKinds : j # i => status'[<<j, k>>] = status[<<j, k>>]
      /\ \A k \in CallKinds : status'[<<i, k>>] = "live" <=> k \in Has(i, to)
  <2>1. CASE UNCHANGED status /\ Has(i, to) = Has(i, at)
    BY <1>3, <1>5, <2>1
  <2>2. ASSUME NEW k \in CallKinds, NEW new \in Statuses, status' = [status EXCEPT ![<<i, k>>] = new]
        PROVE  /\ status' \in [Handles -> Statuses]
               /\ \A h \in OwnHandles : status'[h] = status[h]
               /\ \A j \in Instances, l \in CallKinds :
                    status'[<<j, l>>] = IF j = i /\ l = k THEN new ELSE status[<<j, l>>]
    BY <1>5, <2>2, HandleSets
  <2>3. ASSUME NEW k \in CallKinds, Created(<<i, k>>), Has(i, to) = Has(i, at) \cup {k}
        PROVE  /\ status' \in [Handles -> Statuses]
               /\ \A h \in OwnHandles : status'[h] = status[h]
               /\ \A j \in Instances, l \in CallKinds : j # i => status'[<<j, l>>] = status[<<j, l>>]
               /\ \A l \in CallKinds : status'[<<i, l>>] = "live" <=> l \in Has(i, to)
    <3>1. status' = [status EXCEPT ![<<i, k>>] = "live"] /\ "live" \in Statuses
      BY <2>3 DEF Created, Statuses
    <3>2. \A j \in Instances, l \in CallKinds :
            status'[<<j, l>>] = IF j = i /\ l = k THEN "live" ELSE status[<<j, l>>]
      BY <2>2, <2>3, <3>1
    <3>3. /\ status' \in [Handles -> Statuses]
          /\ \A h \in OwnHandles : status'[h] = status[h]
      BY <2>2, <2>3, <3>1
    <3> QED BY <1>3, <2>3, <3>2, <3>3
  <2>4. ASSUME NEW k \in Has(i, at), Release(<<i, k>>), Has(i, to) = Has(i, at) \ {k}
        PROVE  /\ status' \in [Handles -> Statuses]
               /\ \A h \in OwnHandles : status'[h] = status[h]
               /\ \A j \in Instances, l \in CallKinds : j # i => status'[<<j, l>>] = status[<<j, l>>]
               /\ \A l \in CallKinds : status'[<<i, l>>] = "live" <=> l \in Has(i, to)
    <3>1. k \in CallKinds /\ status[<<i, k>>] = "live" /\ <<i, k>> \in Handles
      BY <1>3, <1>4, HandleSets
    <3>2. status' = [status EXCEPT ![<<i, k>>] = "released"] /\ "released" \in Statuses
      BY <2>4, <3>1 DEF Release, Statuses
    <3>3. \A j \in Instances, l \in CallKinds :
            status'[<<j, l>>] = IF j = i /\ l = k THEN "released" ELSE status[<<j, l>>]
      BY <2>2, <3>1, <3>2
    <3>4. /\ status' \in [Handles -> Statuses]
          /\ \A h \in OwnHandles : status'[h] = status[h]
      BY <2>2, <3>1, <3>2
    <3> QED BY <1>3, <2>4, <3>3, <3>4
  <2> QED BY <2>1, <2>3, <2>4
<1> HIDE DEF c
<1>7. CallInv'
  <2>1. \A j \in Instances : ~Locks(c, j) => ~Locks(call[u], j)
    BY <1>1 DEF Locks, Doing, Instances
  <2>2. \A j \in Instances : Locks(c, j) => \A v \in Users \ {u} : ~Locks(call[v], j)
    BY <1>1, <1>2
  <2>3. ASSUME NEW j \in Instances, NEW k \in CallKinds
        PROVE  /\ Locks(c, j) => (status'[<<j, k>>] = "live" <=> k \in Has(j, c.step))
               /\ ~Locks(c, j) /\ Locks(call[u], j) => status'[<<j, k>>] # "live"
               /\ ~Locks(c, j) /\ ~Locks(call[u], j) => status'[<<j, k>>] = status[<<j, k>>]
    BY <1>1, <1>6, <2>1
  <2>4. u \in holders' /\ \A v \in Users \ {u} : v \in holders => v \in holders'
    BY <1>2
  <2> QED BY <1>1, <2>2, <2>3, <2>4, CallMoves DEF HandlesInv
<1>8. OwnInv'
  BY <1>6, OwnKept DEF HandlesInv
<1> QED BY <1>7, <1>8 DEF HandlesInv

LEMMA Enters ==
  ASSUME HandlesInv, NEW u \in Users, NEW i \in Instances, NEW to \in CallSteps \ {"aside"},
         Enter(u, i, to), Has(i, to) = {}, UNCHANGED <<status, opening, closing, holders>>
  PROVE  HandlesInv'
<1> DEFINE c == Doing(i, to)
<1>1. c \in Calls /\ c.on = i /\ c.step = to /\ call' = [call EXCEPT ![u] = c]
  BY DEF Calls, Doing, Enter
<1>2. call[u].on = "none" /\ call[u] # NoCall
  BY DEF Enter, At, Doing, NoCall
<1>3. \A v \in Users : ~Locks(call[v], i)
  BY DEF Enter, Locked, Locks
<1> HIDE DEF c
<1>4. \A j \in Instances : ~Locks(call[u], j) /\ (Locks(c, j) => j = i)
  BY <1>1, <1>2 DEF Locks, Instances
<1>5. u \in holders' /\ \A v \in Users \ {u} : v \in holders => v \in holders'
  BY <1>2 DEF HandlesInv, CallInv
<1>6. \A k \in CallKinds : status[<<i, k>>] # "live"
  BY <1>3 DEF HandlesInv, CallInv
<1>7. CallInv'
  <2>1. ASSUME NEW j \in Instances, NEW k \in CallKinds
        PROVE  /\ Locks(c, j) => (status'[<<j, k>>] = "live" <=> k \in Has(j, c.step))
               /\ ~Locks(c, j) /\ Locks(call[u], j) => status'[<<j, k>>] # "live"
               /\ ~Locks(c, j) /\ ~Locks(call[u], j) => status'[<<j, k>>] = status[<<j, k>>]
    BY <1>1, <1>4, <1>6
  <2>2. \A j \in Instances : Locks(c, j) => \A v \in Users \ {u} : ~Locks(call[v], j)
    BY <1>3, <1>4
  <2> QED BY <1>1, <1>5, <2>1, <2>2, CallMoves DEF HandlesInv
<1>8. OwnInv'
  BY OwnKept DEF HandlesInv, OwnInv, Statuses
<1> QED BY <1>7, <1>8 DEF HandlesInv

LEMMA Leaves ==
  ASSUME HandlesInv, NEW u \in Users, NEW i \in Instances, NEW at \in CallSteps \ {"aside"},
         At(u, i, at), Has(i, at) = {}, call' = [call EXCEPT ![u] = Doing("none", "begun")],
         UNCHANGED <<status, opening, closing, holders>>
  PROVE  HandlesInv'
<1> DEFINE c == Doing("none", "begun")
<1>1. c \in Calls /\ c.on = "none" /\ call' = [call EXCEPT ![u] = c]
  BY DEF Calls, Doing, CallSteps
<1>2. call[u].on = i /\ call[u].step = at /\ call[u] # NoCall
  BY DEF At, Doing, NoCall, Instances
<1> HIDE DEF c
<1>3. \A j \in Instances : ~Locks(c, j) /\ (Locks(call[u], j) => j = i)
  BY <1>1, <1>2 DEF Locks, Instances
<1>4. u \in holders' /\ \A v \in Users \ {u} : v \in holders => v \in holders'
  BY <1>2 DEF HandlesInv, CallInv
<1>5. \A k \in CallKinds : status[<<i, k>>] # "live"
  <2>1. Locks(call[u], i)
    BY <1>2 DEF Locks
  <2>2. \A v \in Users : Locks(call[v], i) => v = u
    BY <2>1 DEF HandlesInv, CallInv
  <2> QED BY <1>2, <2>2 DEF HandlesInv, CallInv
<1>6. CallInv'
  <2>1. ASSUME NEW j \in Instances, NEW k \in CallKinds
        PROVE  /\ Locks(c, j) => (status'[<<j, k>>] = "live" <=> k \in Has(j, c.step))
               /\ ~Locks(c, j) /\ Locks(call[u], j) => status'[<<j, k>>] # "live"
               /\ ~Locks(c, j) /\ ~Locks(call[u], j) => status'[<<j, k>>] = status[<<j, k>>]
    BY <1>3, <1>5
  <2> QED BY <1>1, <1>3, <1>4, <2>1, CallMoves DEF HandlesInv
<1>7. OwnInv'
  BY OwnKept DEF HandlesInv, OwnInv, Statuses
<1> QED BY <1>6, <1>7 DEF HandlesInv

(* What is made and not released at each step.                             *)
LEMMA WhatStepsHave ==
  /\ "browse" \in Instances /\ "sql" \in Instances
  /\ {"prepare", "bound", "destroy result", "destroy statement", "leave", "extract",
      "destroy extracted", "destroy select", "destroy other", "accept", "run"}
       \subseteq CallSteps \ {"aside"}
  /\ {"statement", "result", "extracted"} \subseteq CallKinds
  /\ Has("browse", "prepare") = {} /\ Has("browse", "leave") = {}
  /\ Has("browse", "bound") = {"statement"} /\ Has("browse", "destroy statement") = {"statement"}
  /\ Has("browse", "destroy result") = {"statement", "result"}
  /\ Has("sql", "extract") = {} /\ Has("sql", "run") = {} /\ Has("sql", "leave") = {}
  /\ \A at \in {"prepare", "accept", "destroy extracted"} : Has("sql", at) = {"extracted"}
  /\ \A at \in {"destroy select", "destroy other"} : Has("sql", at) = {"extracted", "statement"}
  BY DEF Instances, CallSteps, CallKinds, Has, BrowseHas, SqlHas

LEMMA ExecuteKeeps ==
  ASSUME HandlesInv, execute_side
  PROVE  HandlesInv'
<1>0. UNCHANGED <<opening, closing, holders>>
  BY DEF execute_side
<1>1. ASSUME NEW u \in Users, Enter(u, "browse", "prepare") /\ UNCHANGED status PROVE HandlesInv'
  BY <1>0, <1>1, Enters, WhatStepsHave
<1>2. ASSUME NEW u \in Users, At(u, "browse", "prepare"),
             Prepared(u, "browse", "statement", AfterPrepare)
      PROVE  HandlesInv'
  <2>1. PICK to \in AfterPrepare : Step(u, to) /\ Created(<<"browse", "statement">>)
    BY <1>2 DEF Prepared
  <2>2. Has("browse", to) = Has("browse", "prepare") \cup {"statement"} /\ to \in CallSteps \ {"aside"}
    BY <2>1, WhatStepsHave DEF AfterPrepare
  <2> QED BY <1>0, <1>2, <2>1, <2>2, Works, WhatStepsHave DEF At
<1>3. ASSUME NEW u \in Users, At(u, "browse", "bound"), Created(<<"browse", "result">>),
             Step(u, "destroy result")
      PROVE  HandlesInv'
  <2>1. Has("browse", "destroy result") = Has("browse", "bound") \cup {"result"}
    BY WhatStepsHave
  <2> QED BY <1>0, <1>3, <2>1, Works, WhatStepsHave DEF At
<1>4. ASSUME NEW u \in Users, At(u, "browse", "destroy result"), Release(<<"browse", "result">>),
             Step(u, "destroy statement")
      PROVE  HandlesInv'
  <2>1. /\ Has("browse", "destroy statement") = Has("browse", "destroy result") \ {"result"}
        /\ "result" \in Has("browse", "destroy result")
    BY WhatStepsHave
  <2> QED BY <1>0, <1>4, <2>1, Works, WhatStepsHave DEF At
<1>5. ASSUME NEW u \in Users, At(u, "browse", "destroy statement"),
             Release(<<"browse", "statement">>), Step(u, "leave")
      PROVE  HandlesInv'
  <2>1. /\ Has("browse", "leave") = Has("browse", "destroy statement") \ {"statement"}
        /\ "statement" \in Has("browse", "destroy statement")
    BY WhatStepsHave
  <2> QED BY <1>0, <1>5, <2>1, Works, WhatStepsHave DEF At
<1>6. ASSUME NEW u \in Users, At(u, "browse", "leave"), UNCHANGED status,
             call' = [call EXCEPT ![u] = Doing("none", "begun")]
      PROVE  HandlesInv'
  BY <1>0, <1>6, Leaves, WhatStepsHave
<1> QED BY <1>1, <1>2, <1>3, <1>4, <1>5, <1>6 DEF execute_side

LEMMA ClassifyKeeps ==
  ASSUME HandlesInv, classify
  PROVE  HandlesInv'
<1>0. UNCHANGED <<opening, closing, holders>>
  BY DEF classify
<1>1. ASSUME NEW u \in Users, Enter(u, "sql", "extract") /\ UNCHANGED status PROVE HandlesInv'
  BY <1>0, <1>1, Enters, WhatStepsHave
<1>2. ASSUME NEW u \in Users, At(u, "sql", "extract"),
             Prepared(u, "sql", "extracted", {"prepare", "destroy extracted"})
      PROVE  HandlesInv'
  <2>1. PICK to \in {"prepare", "destroy extracted"} : Step(u, to) /\ Created(<<"sql", "extracted">>)
    BY <1>2 DEF Prepared
  <2>2. Has("sql", to) = Has("sql", "extract") \cup {"extracted"} /\ to \in CallSteps \ {"aside"}
    BY <2>1, WhatStepsHave
  <2> QED BY <1>0, <1>2, <2>1, <2>2, Works, WhatStepsHave DEF At
<1>3. ASSUME NEW u \in Users, At(u, "sql", "prepare"),
             Prepared(u, "sql", "statement", {"destroy select", "destroy other"})
      PROVE  HandlesInv'
  <2>1. PICK to \in {"destroy select", "destroy other"} : Step(u, to) /\ Created(<<"sql", "statement">>)
    BY <1>3 DEF Prepared
  <2>2. Has("sql", to) = Has("sql", "prepare") \cup {"statement"} /\ to \in CallSteps \ {"aside"}
    BY <2>1, WhatStepsHave
  <2> QED BY <1>0, <1>3, <2>1, <2>2, Works, WhatStepsHave DEF At
<1>4. ASSUME NEW u \in Users, NEW at \in {"destroy select", "destroy other"},
             NEW to \in {"accept", "destroy extracted"},
             At(u, "sql", at), Release(<<"sql", "statement">>), Step(u, to)
      PROVE  HandlesInv'
  <2>1. /\ Has("sql", to) = Has("sql", at) \ {"statement"} /\ "statement" \in Has("sql", at)
        /\ at \in CallSteps \ {"aside"} /\ to \in CallSteps \ {"aside"}
    BY WhatStepsHave
  <2> QED BY <1>0, <1>4, <2>1, Works, WhatStepsHave DEF At
<1>5. ASSUME NEW u \in Users, NEW at \in {"accept", "destroy extracted"}, NEW to \in {"run", "leave"},
             At(u, "sql", at), Release(<<"sql", "extracted">>), Step(u, to)
      PROVE  HandlesInv'
  <2>1. /\ Has("sql", to) = Has("sql", at) \ {"extracted"} /\ "extracted" \in Has("sql", at)
        /\ at \in CallSteps \ {"aside"} /\ to \in CallSteps \ {"aside"}
    BY WhatStepsHave
  <2> QED BY <1>0, <1>5, <2>1, Works, WhatStepsHave DEF At
<1>6. ASSUME NEW u \in Users, At(u, "sql", "run"), Step(u, "leave"), UNCHANGED status
      PROVE  HandlesInv'
  BY <1>0, <1>6, Works, WhatStepsHave DEF At
<1>7. ASSUME NEW u \in Users, At(u, "sql", "leave"), UNCHANGED status,
             call' = [call EXCEPT ![u] = Doing("none", "begun")]
      PROVE  HandlesInv'
  BY <1>0, <1>7, Leaves, WhatStepsHave
<1> QED BY <1>1, <1>2, <1>3, <1>4, <1>5, <1>6, <1>7 DEF classify

LEMMA HandlesStart == FreshHandles => HandlesInv
<1> SUFFICES ASSUME FreshHandles PROVE HandlesInv
  OBVIOUS
<1>1. OwnInv
  <2>1. Live(OwnHandles) = {} /\ Made("browse", "open") = {}
    BY HandleSets DEF FreshHandles, Live, Made, KindsBefore
  <2>2. opening.on = "browse" /\ opening.step = "open"
    BY DEF FreshHandles, Doing
  <2> QED BY <2>1, <2>2 DEF FreshHandles, OwnInv, Building, BuildSteps, Instances
<1>2. CallInv
  <2>1. \A u \in Users : call[u] = NoCall /\ call[u].on = "none" /\ call[u] \in Calls
    BY DEF FreshHandles, NoCall, Calls, CallSteps
  <2>2. \A u \in Users, i \in Instances : ~Locks(call[u], i)
    BY <2>1 DEF Locks, Instances
  <2>3. \A i \in Instances, k \in CallKinds : status[<<i, k>>] # "live"
    BY HandleSets DEF FreshHandles
  <2> QED BY <2>1, <2>2, <2>3 DEF CallInv, FreshHandles
<1> QED BY <1>1, <1>2 DEF HandlesInv

LEMMA HandlesKeep ==
  ASSUME HandlesInv, HandlesNext
  PROVE  HandlesInv'
<1>1. CASE open_in_memory \/ Configure \/ ReleaseNext
  BY <1>1, BuildKeeps, ConfigureKeeps, ReleaseKeeps, SessionKeepsCalls DEF HandlesInv
<1>2. CASE close_database
  BY <1>2, LeavingKeeps, SessionKeepsCalls DEF close_database, HandlesInv
<1> QED BY <1>1, <1>2, OutsideKeeps, ExecuteKeeps, ClassifyKeeps DEF HandlesNext

(* However opening fails, whoever holds the session longest, and whatever  *)
(* threads call it meanwhile: every raw handle is released once, and none  *)
(* is used after its release.                                              *)
THEOREM HandlesAlwaysSound == Spec => []HandlesSound
<1>1. Init => HandlesInv
  BY HandlesStart DEF Init
<1>2. HandlesInv /\ [Next]_<<case, registry, handleVars, exportVars>> => HandlesInv'
  <2> SUFFICES ASSUME HandlesInv, HandlesNext \/ UNCHANGED handleVars PROVE HandlesInv'
    BY DEF Next, Pick, Setting, Session, Export
  <2>1. CASE UNCHANGED handleVars
    BY <2>1 DEF handleVars, HandlesInv, OwnInv, CallInv, Live, Building
  <2> QED BY <2>1, HandlesKeep
<1>3. HandlesInv => HandlesSound
  <2> SUFFICES ASSUME HandlesInv PROVE HandlesSound
    OBVIOUS
  <2>1. \A i \in Instances, k \in CallKinds : status[<<i, k>>] = "live" =>
          \E u \in Users : Locks(call[u], i) /\ call[u] # NoCall /\ u \in holders
    BY DEF HandlesInv, CallInv, Locks, NoCall, Instances
  <2>2. ReleasedOnce
    <3>1. \A h \in Handles : status[h] # "released twice"
      BY DEF HandlesInv, OwnInv
    <3>2. ASSUME closing = <<>>, opening.step = "failed" \/ (opening.step = "ready" /\ holders = {})
          PROVE  \A h \in Handles : status[h] # "live"
      <4>1. holders = {} /\ Releases(closing, Live(OwnHandles))
        BY <3>2 DEF HandlesInv, OwnInv, Building, BuildSteps, Doing
      <4>2. Live(OwnHandles) = {}
        BY <3>2, <4>1 DEF Releases
      <4>3. ASSUME NEW h \in Handles, status[h] = "live" PROVE FALSE
        <5>1. h \notin OwnHandles
          BY <4>2, <4>3 DEF Live
        <5>2. h = <<h[1], h[2]>> /\ h[1] \in Instances /\ h[2] \in CallKinds
          BY <5>1, HandleSets
        <5> QED BY <2>1, <4>1, <4>3, <5>2
      <4> QED BY <4>3
    <3>3. \A i \in Instances : ~Locked(i) => \A k \in CallKinds : status[<<i, k>>] # "live"
      BY <2>1 DEF Locked, Locks
    <3> QED BY <3>1, <3>2, <3>3 DEF ReleasedOnce
  <2>3. holders # {} => \A i \in Instances, k \in OwnKinds : status[<<i, k>>] = "live"
    BY HandleSets DEF HandlesInv, OwnInv, Live
  <2>4. NothingUsedAfterRelease
    <3>1. \A u \in Users : call[u].on \in Instances => u \in holders
      BY DEF HandlesInv, CallInv, NoCall, Instances
    <3>2. \A i \in Instances, k \in CallKinds : status[<<i, k>>] = "live" => status[<<i, "db">>] = "live"
      BY <2>1, <2>3 DEF OwnKinds
    <3>3. ASSUME NEW i \in Instances, NEW k \in {"side", "conn"}, status[<<i, k>>] = "live"
          PROVE  status[<<i, "db">>] = "live"
      <4>1. <<i, k>> \in Live(OwnHandles) /\ <<i, "db">> \in OwnHandles
        BY <3>3, HandleSets DEF Live, OwnKinds
      <4>2. CASE /\ opening.on \in Instances /\ Building
                 /\ Live(OwnHandles) = Made(opening.on, opening.step)
        <5>1. <<i, "db">> \in Live(OwnHandles)
          BY <4>1, <4>2 DEF Made, KindsBefore, Building, BuildSteps, OwnKinds
        <5> QED BY <5>1 DEF Live
      <4>3. CASE Live(OwnHandles) = OwnHandles
        BY <4>1, <4>3 DEF Live
      <4>4. CASE Releases(closing, Live(OwnHandles))
        <5>1. <<i, "db">> \in Live(OwnHandles)
          BY <4>1, <4>4 DEF Releases
        <5> QED BY <5>1 DEF Live
      <4> QED BY <4>2, <4>3, <4>4 DEF HandlesInv, OwnInv
    <3> QED BY <2>3, <3>1, <3>2, <3>3 DEF NothingUsedAfterRelease
  <2> QED BY <2>2, <2>4 DEF HandlesSound
<1> QED BY <1>1, <1>2, <1>3, PTL DEF Spec
=============================================================================
