----------------------------- MODULE MCDocServe -----------------------------
(***************************************************************************)
(* DocServe for TLC: two bases; a template, a custom file that aggregates  *)
(* two submodules and one that is not YAML; one directory that is linked   *)
(* unless the project keeps one of its own under docs, and one left out.   *)
(*                                                                         *)
(* The trees of a doc-build vary the log of a submodule (all logs of up to *)
(* two commits over two authors, two dates and two pages, and one with an  *)
(* author whose name has a "|") and what the other one's config is.        *)
(***************************************************************************)
EXTENDS DocServe

CONSTANTS b1, b2, template, aggregate, broken, page, authors, mailmap, clab, vendored

MCNoAnchor == ""
PageAt(at, path, anchor) ==
    [at |-> at, val |-> [kind |-> "page", path |-> path, anchor |-> anchor]]
IncludeAt(at, path) ==
    [at |-> at, val |-> [kind |-> "include", path |-> path, anchor |-> MCNoAnchor]]
Link == [at |-> <<"Web">>, val |-> [kind |-> "external", path |-> <<"web">>, anchor |-> ""]]

Index == PageAt(<<"Start">>, <<"index.md">>, MCNoAnchor)

MCNavs == [c \in {template, aggregate} |->
    IF c = template THEN <<Index>>
    ELSE <<Index, IncludeAt(<<"Sub">>, <<"docs", "sub", "mkdocs_custom.yml">>), Link,
           IncludeAt(<<"Tool">>, <<"tools", "tool", "mkdocs_custom.yml">>), IncludeAt(<<>>, <<>>)>>]

SubConfig(tagged) ==
    [nav |-> <<PageAt(<<"A">>, <<"a.md">>, "top"), PageAt(<<"More", "Up">>, <<"..", "up.md">>, ""),
               Link, IncludeAt(<<"Nested">>, <<"x.yml">>)>>,
     docs_dir |-> <<"docs">>, tagged |-> tagged]
NoNav == [nav |-> <<>>, docs_dir |-> <<"docs">>, tagged |-> FALSE]

SubAt == <<"docs", "sub", "mkdocs_custom.yml">>
ToolAt == <<"tools", "tool", "mkdocs_custom.yml">>

MCConfigs ==
    {[p \in {SubAt} |-> SubConfig(FALSE)], [p \in {SubAt} |-> SubConfig(TRUE)],
     [p \in {SubAt, ToolAt} |-> IF p = SubAt THEN SubConfig(FALSE) ELSE NoNav],
     [p \in {ToolAt} |-> SubConfig(FALSE)]}

A == <<"docs", "a.md">>
B == <<"docs", "b.md">>
Plain(name) == [name |-> name, barred |-> FALSE]
Ann == Plain("ann")
CommitsOver(people) ==
    [author : people, time : {1, 2}, files : {<<A>>, <<B>>, <<A, B>>}]
MCLogs ==
    BoundedSeq(CommitsOver({Ann, Plain("bob")}), 2)
        \union {<<[author |-> [name |-> "a|b", barred |-> TRUE], time |-> 1, files |-> <<A>>]>>}

FileAt(path, link, real) ==
    [abs |-> path, link |-> link, real |-> real, page |-> link # "dir"]
SubPath == <<"docs", "sub">>
Clab == <<"clab">>
IndexFile == FileAt(<<"docs", "index.md">>, "no", <<"docs", "index.md">>)
MCFiles ==
    <<IndexFile,
      FileAt(SubPath \o A, "no", SubPath \o A),
      FileAt(<<"docs", "b.md">>, "file", SubPath \o B),
      FileAt(<<"docs", "clab">>, "dir", Clab), FileAt(<<"docs", "lab">>, "dir", Clab),
      FileAt(<<"docs", "old.md">>, "gone", <<"old.md">>)>>

TreeWith(configs, log) ==
    [configs |-> configs, files |-> MCFiles,
     submodules |-> <<[path |-> <<"docs", "tool">>, log |-> <<>>],
                      [path |-> SubPath, log |-> log]>>]

DefaultConfigs == [p \in {SubAt} |-> SubConfig(FALSE)]
OneLog == <<[author |-> Ann, time |-> 1, files |-> <<A>>]>>
MCDevTree == [configs |-> << >>, files |-> <<IndexFile>>, submodules |-> <<>>]
MCTrees == {TreeWith(DefaultConfigs, log) : log \in MCLogs}
               \union {TreeWith(configs, OneLog) : configs \in MCConfigs}

MCSnippetBase == <<<<"!relative">>>>

=============================================================================
