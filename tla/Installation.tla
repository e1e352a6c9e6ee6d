---------------------------- MODULE Installation ----------------------------
(***************************************************************************)
(* What dblitz keeps in the Windows registry and reads from it: the        *)
(* "Open with" entries of the CSV and JSON extensions                      *)
(* (platform/open_with.rs), which are written and deleted one value at a   *)
(* time, any of which may fail, and the record of the installer, which     *)
(* decides whether this copy may update itself (platform/windows.rs,       *)
(* updates.rs).                                                            *)
(***************************************************************************)
EXTENDS Naturals, Sequences, FiniteSets, Listings

CONSTANTS
  EXTENSIONS,      \* a sequence of extensions
  Executables,     \* copies of dblitz, and the directories they are in
  Missing          \* an absent value

ASSUME InstallationAssumption ==
  /\ EXTENSIONS \in Seq({EXTENSIONS[i] : i \in DOMAIN EXTENSIONS})
  /\ Missing \notin Executables \cup {"dblitz"}

VARIABLE registry  \* [extension -> its ProgID's values and its "Open with" entry]

Absent3 == [name |-> Missing, icon |-> Missing, command |-> Missing, listed |-> FALSE]
Extensions == {EXTENSIONS[i] : i \in DOMAIN EXTENSIONS}

---------------------------------------------------------------------------
(* Registering writes four values of every extension, the entry last.      *)

ListedFirst == <<"listed", "name", "icon", "command">>   \* mutant: the entry comes first
WriteOrder == <<"name", "icon", "command", "listed">>

set_sz(field, exe) == CASE field = "listed" -> TRUE
                        [] field = "name"   -> "dblitz"
                        [] OTHER            -> exe

Written(entry, exe, done) ==
  [field \in DOMAIN entry |->
     IF \E k \in done : WriteOrder[k] = field THEN set_sz(field, exe) ELSE entry[field]]

(* What is there once the first n writes went through.                     *)
register_in(entries, exe, n) ==
  [e \in Extensions |->
     LET i == CHOOSE k \in DOMAIN EXTENSIONS : EXTENSIONS[k] = e
     IN Written(entries[e], exe, {k \in 1 .. 4 : 4 * (i - 1) + k <= n})]

(* Deleting removes the entry first, then the ProgID with all it holds; if *)
(* that fails half way, what is in `left` stays.                           *)
ProgIDValues == {"name", "icon", "command"}

Unlisted(entry, left) ==
  LET kept == [value \in ProgIDValues |-> IF value \in left THEN entry[value] ELSE Missing]
  IN [name |-> kept.name, icon |-> kept.icon, command |-> kept.command, listed |-> FALSE]

unregister_in(entries, n, left) ==
  [e \in Extensions |->
     LET i == CHOOSE k \in DOMAIN EXTENSIONS : EXTENSIONS[k] = e
     IN CASE n >= 2 * i    -> Absent3
          [] n = 2 * i - 1 -> Unlisted(entries[e], left)
          [] OTHER         -> entries[e]]

is_registered_in(entries) == \A e \in Extensions : entries[e].listed /\ entries[e].command # Missing

FreshRegistry == registry = [e \in Extensions |-> Absent3]

(* set_registered: every write is tried until one fails.                   *)
set_registered ==
  \/ \E exe \in Executables, n \in 0 .. 4 * Len(EXTENSIONS) :
       registry' = register_in(registry, exe, n)
  \/ \E n \in 0 .. 2 * Len(EXTENSIONS), left \in SUBSET ProgIDValues :
       registry' = unregister_in(registry, n, left)

(* An extension that lists dblitz has all an entry needs to start a copy   *)
(* of it, after any number of settings turned on and off that failed half  *)
(* way: the entry is the last thing written and the first deleted.  The    *)
(* setting reads as on exactly when every extension lists dblitz           *)
(* (open_with.rs:76, :104, :125).                                          *)
ListedOpens ==
  /\ \A e \in Extensions :
       registry[e].listed => Missing \notin {registry[e].name, registry[e].icon, registry[e].command}
  /\ is_registered_in(registry) <=> \A e \in Extensions : registry[e].listed

---------------------------------------------------------------------------
(* A value of the registry is absent, of another type, or a text.          *)

read_reg_sz(value) == IF value.kind = "sz" THEN value.text ELSE <<>>

(* A path in quotes or bare; canonical maps the paths that resolve to      *)
(* their directories.                                                      *)
Unquoted(text) ==
  LET inside == Ascending({i \in DOMAIN text : text[i] # "\""})
  IN IF inside = <<>> THEN <<>> ELSE SubSeq(text, inside[1], inside[Len(inside)])

AnyInstall(dir, roots, canonical) ==   \* mutant: some installed copy is enough
  \E r \in DOMAIN roots : Unquoted(read_reg_sz(roots[r])) # <<>>

Registered(dir, roots, canonical) ==
  \E r \in DOMAIN roots :
    LET path == Unquoted(read_reg_sz(roots[r]))
    IN path # <<>> /\ path[1] \in DOMAIN canonical /\ canonical[path[1]] = dir

windows_install_provenance(dir, roots, canonical) ==
  IF dir # Missing /\ Registered(dir, roots, canonical) THEN "WindowsInstaller" ELSE "WindowsPortable"

linux_provenance(appimage) ==
  IF appimage \notin {Missing, ""} THEN "LinuxAppImage" ELSE "LinuxPackage"

install_provenance(in) ==   \* chosen when dblitz is built
  CASE in.platform = "linux"   -> linux_provenance(in.appimage)
    [] in.platform = "windows" -> windows_install_provenance(in.dir, in.roots, in.canonical)
    [] in.platform = "macos"   -> "MacOsBundle"

self_update_supported(provenance) ==
  provenance \in {"MacOsBundle", "WindowsInstaller", "LinuxAppImage"}

UpdateStatus(previous, current, provenance) ==
  [updated |-> previous \notin {Missing, current},
   self_update_supported |-> self_update_supported(provenance)]
=============================================================================
