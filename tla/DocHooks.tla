------------------------------ MODULE DocHooks ------------------------------
(***************************************************************************)
(* The mkdocs hooks as operators on what a build hands them:               *)
(* inline_nav_include.py (on_config), fix_symlinks.py and                  *)
(* submodule_authors.py (on_files, in this order).                         *)
(*                                                                         *)
(* A path is the sequence of its components from the project root.  A nav  *)
(* is the sequence of its leaves, each with the titles it stands under:    *)
(* the lists and dicts of the YAML only group leaves, and a hook that      *)
(* recurses through them maps leaf to leaf.  `git log` is external.        *)
(***************************************************************************)
EXTENDS Naturals, SequencesExt

Path == Seq(STRING)
DocsDir == <<"docs">>

\* What the hooks are handed.
Nav == Seq([at : Seq(STRING),
            val : [kind : {"page", "include", "external"}, path : Path, anchor : STRING]])
Config == [nav : Nav, docs_dir : Path, tagged : BOOLEAN]
File == [abs : Path, link : {"no", "file", "dir", "gone"}, real : Path, page : BOOLEAN]
Author == [name : STRING, barred : BOOLEAN]
Log == Seq([author : Author, time : Nat, files : Seq(Path)])
Submodule == [path : Path, log : Log]

(***************************************************************************)
(* inline_nav_include.py                                                   *)
(*                                                                         *)
(* A leaf is [at |-> titles, val |-> [kind, path, anchor]].  Of kind       *)
(* "external" is every value the hook leaves alone: URLs, mailto:, "#..."  *)
(* and paths that start with "/".  An "include" without a target has the   *)
(* empty path.                                                             *)
(***************************************************************************)

\* One more component of a path, an absolute one starting anew.
Walk(at, c) == CASE c = "/" -> <<>> [] c = ".." -> Front(at) [] OTHER -> Append(at, c)

\* Path.resolve()
Resolved(dir, path) == FoldLeft(Walk, dir, path)

\* Mutant: relative to the included project's docs.
RelativeToItself(path, dir) == <<Last(path)>>

\* relative_to(root_docs_path), or the absolute path when that raises.
RelativeTo(path, dir) ==
    IF IsPrefix(dir, path) THEN SubSeq(path, Len(dir) + 1, Len(path)) ELSE <<"/">> \o path

\* An include inside an included nav is taken for a page: "!include " and its first
\* component are the name of a directory nobody has.
AsPath(val) ==
    IF val.kind = "include" THEN <<"!include">> \o Tail(val.path) ELSE val.path

_rewrite_path(val, include_docs) ==
    IF val.kind = "external" THEN val
    ELSE [val EXCEPT !.kind = "page",
                     !.path = RelativeTo(Resolved(include_docs, AsPath(val)), DocsDir)]

\* configs: the YAML files of the tree, by path.
IncludePath(val) == Resolved(<<>>, val.path)

Includes(val, configs) ==
    /\ val.kind = "include" /\ val.path # <<>>
    /\ IncludePath(val) \in DOMAIN configs
    /\ configs[IncludePath(val)].nav # <<>>

IncludeDocs(val, configs) ==
    Resolved(Front(IncludePath(val)), configs[IncludePath(val)].docs_dir)

_load_include_nav(leaf, configs) ==
    LET nav == configs[IncludePath(leaf.val)].nav
    IN  [i \in DOMAIN nav |->
            [at  |-> leaf.at \o nav[i].at,
             val |-> _rewrite_path(nav[i].val, IncludeDocs(leaf.val, configs))]]

_replace_includes(nav, configs) ==
    FlattenSeq([i \in DOMAIN nav |->
        IF Includes(nav[i].val, configs) THEN _load_include_nav(nav[i], configs)
                                         ELSE <<nav[i]>>])

\* yaml.safe_load raises on the tags setup_documentation.py lets through.
IncludeRaises(nav, configs) ==
    \E i \in DOMAIN nav :
        /\ nav[i].val.kind = "include" /\ IncludePath(nav[i].val) \in DOMAIN configs
        /\ configs[IncludePath(nav[i].val)].tagged

(***************************************************************************)
(* fix_symlinks.py                                                         *)
(*                                                                         *)
(* A file of the build is [abs, link, real, page]: where it is read from,   *)
(* the kind of the symlink it is ("no": none, "gone": a dangling one),      *)
(* where Path.resolve() leads from there, and whether it is a *.md.         *)
(***************************************************************************)

WithPath(base_path, path) == IF Contains(base_path, path) THEN base_path
                                                          ELSE Append(base_path, path)

\* Mutant: appended although it is there.
WithPathAgain(base_path, path) == Append(base_path, path)

_add_to_snippets_config(base_path, path) == WithPath(base_path, path)

FixedFile(f) == IF f.link \in {"file", "dir"} THEN [f EXCEPT !.abs = f.real] ELSE f

\* One more file: what is behind a directory symlink is searched too.
AddTarget(base_path, f) ==
    IF f.link = "dir" THEN _add_to_snippets_config(base_path, f.real) ELSE base_path

\* The project root and docs first.
SnippetPaths(base_path, files) ==
    FoldLeft(AddTarget,
             _add_to_snippets_config(_add_to_snippets_config(base_path, <<>>), DocsDir), files)

(***************************************************************************)
(* submodule_authors.py                                                    *)
(***************************************************************************)

\* `git log --reverse --name-only`: a header, then the files of the commit.
LogLines(log) ==
    FlattenSeq([i \in DOMAIN log |->
        <<[header |-> TRUE, author |-> log[i].author, time |-> log[i].time]>>
        \o [j \in DOMAIN log[i].files |-> [header |-> FALSE, path |-> log[i].files[j]]]])

\* Mutant: the first commit's date kept for both.
DatedOnce(entry, author, time) ==
    [entry EXCEPT !.authors = IF Contains(@, author) THEN @ ELSE Append(@, author)]

Dated(entry, author, time) ==
    [entry EXCEPT !.updated = time,
                  !.authors = IF Contains(@, author) THEN @ ELSE Append(@, author)]

FirstDated(author, time) == [created |-> time, updated |-> time, authors |-> <<author>>]

Recorded(meta, path, author, time) ==
    [p \in DOMAIN meta \union {path} |->
        IF p # path THEN meta[p]
        ELSE IF p \in DOMAIN meta THEN Dated(meta[p], author, time)
                                  ELSE FirstDated(author, time)]

\* An author with a "|" in the name shifts the parts: the third is no number, and
\* int() raises at the first file of the commit.
ReadLine(acc, line) ==
    IF line.header THEN [acc EXCEPT !.current = <<line.author, line.time>>]
    ELSE IF acc.current = <<>> THEN acc
    ELSE LET author == acc.current[1]
             time == acc.current[2]
         IN  IF author.barred THEN [acc EXCEPT !.raised = TRUE]
             ELSE [acc EXCEPT !.meta = Recorded(@, line.path, author, time)]

_load_submodule_metadata(log) ==
    FoldLeft(ReadLine, [current |-> <<>>, meta |-> << >>, raised |-> FALSE], LogLines(log))

\* The submodules of .gitmodules a page lies in; the first one is its owner.
Owners(f, submodules) ==
    {i \in DOMAIN submodules : f.page /\ IsPrefix(submodules[i].path, f.real)}

Owner(f, submodules) ==
    submodules[CHOOSE i \in Owners(f, submodules) :
                   \A j \in Owners(f, submodules) : i <= j]

RelToSub(f, submodule) == SubSeq(f.real, Len(submodule.path) + 1, Len(f.real))

\* What the plugin's cache holds for a file after the hook.
DatesOf(f, cached, submodules) ==
    IF Owners(f, submodules) = {} THEN cached
    ELSE LET owner == Owner(f, submodules)
             meta == _load_submodule_metadata(owner.log).meta
             rel_to_sub == RelToSub(f, owner)
         IN  IF rel_to_sub \in DOMAIN meta THEN meta[rel_to_sub] ELSE cached

MetadataRaises(files, submodules) ==
    \E i \in DOMAIN files :
        /\ Owners(files[i], submodules) # {}
        /\ _load_submodule_metadata(Owner(files[i], submodules).log).raised

=============================================================================
