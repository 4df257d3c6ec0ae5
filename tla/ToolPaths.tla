----------------------------- MODULE ToolPaths -----------------------------
(***************************************************************************)
(* What the tool (src/unshield.c) makes of the names in a cabinet.         *)
(*                                                                         *)
(* A name is what lies between two separators of a path, a path is a       *)
(* sequence of names.  What a conversion makes of the characters of a name *)
(* is given by a function on names, so that names stay values.             *)
(***************************************************************************)
EXTENDS Integers, SequencesExt

CONSTANTS Names,        \* all names that occur, converted or not
          Replaced,     \* a name with ' ', '<', '>', '[' and ']' as '_'
          Printable,    \* a name with what isprint refuses as '_'
          Lower,        \* a name in lower case
          Iconv,        \* a name in the local code page, or Inconvertible
          Cut(_, _),    \* what snprintf leaves of a name in some room
          Size,         \* the length of a name
          Begins,       \* pairs of names, the second beginning with the first
          PATH_MAX

Inconvertible == "inconvertible"
Parent == ".."
Here == "."
Nothing == ""
Home == <<"home">>   \* where the tool runs

ASSUME NamesAssumption ==
  /\ Inconvertible \notin Names /\ {Home[1], Parent, Here, Nothing} \subseteq Names
  /\ {Replaced, Printable, Lower} \subseteq [Names -> Names]
  /\ Iconv \in [Names -> Names \cup {Inconvertible}]
  /\ Size \in [Names -> Nat]
  /\ \A name \in Names, room \in 0 .. PATH_MAX :
       Cut(name, room) \in Names /\ (Size[name] <= room => Cut(name, room) = name)
  /\ Begins \subseteq Names \X Names /\ \A n \in Names : <<n, n>> \in Begins
ASSUME PathMaxAssumption == PATH_MAX \in Nat

Path == Seq(Names)

(* The length of a path as a string: a separator behind every name.        *)
StringSize(path) == FoldLeft(LAMBDA size, name : size + Size[name] + 1, 0, path)
Fits(path) == StringSize(path) < PATH_MAX

(* What main's options say: raw (-R, or implied by -e), lower case (-L),   *)
(* and whether an encoding is in use.                                      *)
Printed(opt, name) ==
  IF opt.raw THEN name ELSE IF opt.lower THEN Lower[Printable[name]] ELSE Printable[name]

convert_encoding(encoded, path) ==
  IF encoded THEN [k \in DOMAIN path |-> Iconv[path[k]]] ELSE path
IsConverted(encoded, path, room) ==
  encoded => /\ \A k \in DOMAIN path : path[k] # Inconvertible
             /\ StringSize(path) <= room

(* The names that are joined behind the output directory; each part has to *)
(* fit as it is appended.                                                  *)
Inside(opt, group, directory) == group \o (IF opt.junk THEN <<>> ELSE directory)
IsTooLong(opt, group, directory) ==
  \/ ~Fits(opt.directory \o group)
  \/ ~Fits(opt.directory \o Inside(opt, group, directory))

Cleaned(opt, path) == [k \in DOMAIN path |-> Printed(opt, Replaced[path[k]])]
OutputDirectory(opt, encoded, group, directory) ==
  convert_encoding(encoded, opt.directory \o Cleaned(opt, Inside(opt, group, directory)))

(* The last name of filename, in the room that the directory leaves, and   *)
(* filename when it could not be converted and when it could.              *)
Truncated(dirname, name) == Cut(name, PATH_MAX - 1 - StringSize(dirname))
BeforeEncoding(opt, dirname, name) ==
  dirname \o <<Printed(opt, Truncated(dirname, name))>>
AfterEncoding(encoded, dirname, path) ==
  dirname \o convert_encoding(encoded, <<path[Len(path)]>>)

(* realpath, from the directory the tool runs in, and the test that what   *)
(* is written lies in the output directory: a comparison of strings, to    *)
(* the length of the first.                                                *)
realpath(path) ==
  FoldLeft(LAMBDA real, name :
             IF name \notin {Parent, Here, Nothing} THEN Append(real, name)
             ELSE IF name # Parent \/ real = <<>> THEN real
             ELSE SubSeq(real, 1, Len(real) - 1),
           Home, path)
IsInside(path, directory) ==
  LET real == realpath(path)
      top == realpath(directory)
  IN  /\ Len(top) <= Len(real)
      /\ \A k \in 1 .. Len(top) :
           IF k < Len(top) THEN real[k] = top[k] ELSE <<top[k], real[k]>> \in Begins
=============================================================================
