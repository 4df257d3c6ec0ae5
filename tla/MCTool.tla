------------------------------- MODULE MCTool -------------------------------
(* Names with and without what the options change, one that is cut and two *)
(* that iconv refuses or shortens.  A cabinet of eight files in three      *)
(* groups, two of which overlap and one of which is empty; and command     *)
(* lines, disks and smaller cabinets for every way through the tool.       *)
EXTENDS Tool, TLC

MCNames == {"", ".", "..", "home", "out", "outer", "one", "two", "three", "none", "My Dir", "My_Dir",
            "my_dir", "App", "app", "cafe+", "caf_", "cafe", "kanji", "_____", "long", "lo"}
Changed(table) == [n \in MCNames |-> IF n \in DOMAIN table THEN table[n] ELSE n]
MCReplaced == Changed("My Dir" :> "My_Dir")
MCPrintable == Changed("cafe+" :> "caf_" @@ "kanji" :> "_____")
MCLower == Changed("App" :> "app" @@ "My_Dir" :> "my_dir" @@ "My Dir" :> "my_dir")
MCIconv == Changed("cafe+" :> "cafe" @@ "kanji" :> Inconvertible)
MCSize ==
  [n \in MCNames |-> IF n = "long" THEN 20 ELSE IF n \in {"lo", ".."} THEN 2
                     ELSE IF n = "." THEN 1 ELSE IF n = "" THEN 0 ELSE 3]
MCCut(name, room) == IF MCSize[name] <= room THEN name ELSE IF room < 2 THEN "" ELSE "lo"
MCBegins == {<<n, n>> : n \in MCNames} \cup {<<"out", "outer">>}

AFile(name, directory) ==
  [name |-> name, directory |-> directory, invalid |-> FALSE, named |-> TRUE, stored |-> TRUE,
   returns |-> TRUE, formats |-> {"new", "old"}]
Files(list) == [i \in 0 .. Len(list) - 1 |-> list[i + 1]]
Directories == << <<>>, <<"My Dir">>, <<"..", "..">>, <<"kanji">>, <<"two", "long">>, <<"app">> >>
Cabinet(files, groups) ==
  [returns |-> TRUE, opens |-> TRUE, unicode |-> FALSE, files |-> Files(files),
   directories |-> Directories,
   groups |-> groups]
Group(name, first, last) == [name |-> <<name>>, first |-> first, last |-> last]

Large ==
  Cabinet(<<AFile("App", 0), AFile("cafe+", 1), [AFile("App", 1) EXCEPT !.invalid = TRUE],
            AFile("App", 2), AFile("kanji", 0), AFile("app", 3),
            [AFile("app", 1) EXCEPT !.formats = {}], AFile("app", 0)>>,
          <<Group("one", 0, 4), Group("none", -1, -1), Group("two", 4, 7)>>)
Lengths ==
  Cabinet(<<AFile("long", 0), AFile("app", 4), AFile("long", 1), AFile("My Dir", 0)>>,
          <<Group("one", 0, 1), Group("two", 1, 4), Group("two", 0, 3)>>)
Plain ==
  Cabinet(<<AFile("App", 0), [AFile("App", 1) EXCEPT !.formats = {"new"}],
            [AFile("cafe+", 5) EXCEPT !.formats = Formats],
            [AFile("two", 0) EXCEPT !.named = FALSE], [AFile("two", 0) EXCEPT !.stored = FALSE]>>,
          <<Group("one", 0, 1), Group("My Dir", 2, 4)>>)
Unreadable == [Plain EXCEPT !.opens = FALSE]
Wide == [Plain EXCEPT !.unicode = TRUE]

(* What never ends: a list of components, the links of a file, a group.    *)
NeverOpened == [Plain EXCEPT !.returns = FALSE]
Circular == [Plain EXCEPT !.files[1].returns = FALSE]
Endless ==
  Cabinet(<<AFile("App", 0), AFile("app", 1)>>,
          <<Group("one", 0, 0), Group("two", 1, INT_MAX), Group("three", 0, INT_MAX - 1)>>)

Empty == <<>> :> Directory @@ Home :> Directory
Clean == Empty
Used ==
  Empty @@ Home \o <<"out">> :> Directory @@ Home \o <<"out", "one">> :> Directory
    @@ Home \o <<"out", "one", "App">> :> Before @@ Home \o <<"out", "two">> :> Before
    @@ Home \o <<"one">> :> Directory @@ Home \o <<"one", "App">> :> Directory
Blocked == Empty @@ Home \o <<"out">> :> Before

Flag(o) == [option |-> o, arg |-> "none"]
To_(path) == [option |-> "d", arg |-> path]
In(code) == [option |-> "e", arg |-> code]
Of(group) == [option |-> "g", arg |-> <<group>>]
Lists ==
  {<<>>, <<To_(<<"out">>)>>, <<To_(<<"out">>), Flag("j")>>, <<Flag("L"), To_(<<"out">>)>>,
   <<To_(<<"out">>), Flag("R")>>, <<In("known"), To_(<<"out">>)>>, <<To_(<<"cafe+">>), In("known")>>,
   <<In("known"), In("unknown")>>, <<Flag("O"), To_(<<"out">>)>>, <<Flag("r"), Flag("j")>>,
   <<Of("two"), To_(<<"out">>)>>, <<Of("two"), Of("none")>>, <<Of("app")>>,
   <<Flag("c")>>, <<Flag("j"), Flag("V"), Flag("h")>>, <<Flag("h"), Flag("V")>>,
   <<To_(<<"long">>)>>, <<To_(<<"out", "long">>), Flag("D")>>, <<To_(<<"..", "out">>), Flag("L")>>}

Input(list, action, named, patterns, cab, disk) ==
  [options |-> list, action |-> action, named |-> named, patterns |-> patterns, cabinet |-> cab,
   disk |-> disk]
MCInputs ==
  {Input(list, "x", TRUE, <<>>, cab, disk) :
     list \in Lists, cab \in {Large, Lengths, Plain, Wide}, disk \in {Clean, Used, Blocked}}
  \cup {Input(list, action, TRUE, patterns, cab, Clean) :
          list \in {<<>>, <<In("unknown")>>, <<Flag("r")>>, <<Of("two")>>, <<Flag("c")>>},
          action \in {"c", "g", "l", "t", "x", "none"},
          patterns \in {<<>>, <<{"App"}, {"kanji", "app"}>>}, cab \in {Large, Unreadable}}
  \cup {Input(list, action, TRUE, <<>>, cab, Clean) :
          list \in {<<>>, <<Of("one")>>, <<Of("two")>>, <<Of("three")>>, <<Flag("V")>>},
          action \in {"c", "l", "t", "x"}, cab \in {NeverOpened, Circular, Endless}}
  \cup {Input(<<>>, "x", FALSE, <<>>, Plain, Clean)}

RawInputs ==
  {Input(<<Flag("R"), Flag("L"), To_(<<"out">>)>>, "x", TRUE, <<>>, Plain, Clean)}
=============================================================================
