------------------------------ MODULE LnpmPack ------------------------------
(***************************************************************************)
(* Which files of a source tree are published: the walk of pack.Pack, what *)
(* it prunes, what it skips when a path cannot be read, and the rules it   *)
(* asks: the two built-in lists, the ignore files of every directory, the  *)
(* "files" and the "main" of package.json.                                 *)
(*                                                                         *)
(* A path is the sequence of its segments below the package root, a        *)
(* pattern the sequence of its own; splitting them at "/" is left out.     *)
(* What a segment with a metacharacter in it matches is given by Glob.     *)
(***************************************************************************)
EXTENDS Naturals, SequencesExt

CONSTANTS
    Name,           \* the names of files and directories, lower-cased ones too
    Lower,          \* Lower[n]: strings.ToLower(n)
    Glob,           \* Glob[s]: the names that s, a segment with a "*" in it, matches
    Source,         \* source trees: [tree, lines], see below
    FilesField,     \* what "files" may be; <<>> is none
    Main            \* what "main" may be

(* The lists of the source, lower-cased, one pattern a line there.         *)
ReservedTrees == {".git", ".hg", ".svn", "cvs", "node_modules", ".lnpm", ".yalc"}
ReservedFiles == {".gitignore", ".gitattributes", ".gitmodules", ".ds_store", ".npmrc",
                  "*.orig", "package-lock.json", "yarn.lock", "pnpm-lock.yaml", "bun.lockb",
                  "lnpm.lock", "lnpm.lock.retreat", "yalc.lock"}
DefaultNames == {".npmignore", "thumbs.db", "*.log", "*.swp", "*.swo", "*~",
                 ".env", ".env.*", "*.tgz"}
IncludedNames == {"package.json", "readme*", "license*", "licence*"}
                   \cup {n \o x : n \in {"changelog", "changes", "history"},
                                  x \in {"", ".md", ".markdown", ".txt", ".rst"}}

VARIABLES
    pkg,        \* the package that is packed, as it is on disk
    todo,       \* the paths filepath.Walk is still to hand to its callback
    packed,     \* filesToHash
    phase       \* "walking", "hashing", then "packed" or "failed"

vars == <<pkg, todo, packed, phase>>

Root == <<>>
Manifest == <<"package.json">>

-----------------------------------------------------------------------------
(* Matching.                                                               *)

Wild(s) == s = "**" \/ s \in DOMAIN Glob
SegmentMatches(s, n) == s = n \/ (s \in DOMAIN Glob /\ n \in Glob[s])

(* doublestar.Match: "**" stands for any number of segments.  upto[i] is   *)
(* how much of the path the first i segments of the pattern take.          *)
Match(pattern, path) ==
    \E upto \in [0 .. Len(pattern) -> 0 .. Len(path)] :
        /\ upto[0] = 0 /\ upto[Len(pattern)] = Len(path)
        /\ \A i \in 1 .. Len(pattern) :
              IF pattern[i] = "**" THEN upto[i - 1] <= upto[i]
              ELSE upto[i] = upto[i - 1] + 1 /\ SegmentMatches(pattern[i], path[upto[i]])

Under(path, dir) == IsStrictPrefix(dir, path)
Ancestors(path) == {SubSeq(path, 1, k) : k \in 1 .. Len(path) - 1}
Fold(path) == [k \in DOMAIN path |-> Lower[path[k]]]

(* A line of an ignore file: its segments, and whether it starts with "!"  *)
(* and with "/" and ends with "/".  An entry of "files" may end with "/".  *)
PatternLine == [neg : BOOLEAN, anchored : BOOLEAN, dir : BOOLEAN, segs : Seq(STRING)]
FilesEntry == [segs : Seq(STRING), slash : BOOLEAN]

(* A tree has the directories of everything that is in it.  That no name   *)
(* excluded by default is the manifest's is so of those in the list.       *)
ASSUME PackAssumption ==
    /\ Name \subseteq STRING /\ "package.json" \in Name
    /\ Lower \in [Name -> Name] /\ \A n \in Name : Lower[Lower[n]] = Lower[n]
    /\ Lower["package.json"] = "package.json"
    /\ \A s \in DOMAIN Glob : Glob[s] \subseteq Name
    /\ \A s \in DefaultNames : ~SegmentMatches(s, "package.json")
    /\ FilesField \subseteq Seq(FilesEntry)
    /\ \A s \in Source :
          /\ s.lines \in [DOMAIN s.lines -> Seq(PatternLine)]
          /\ s.tree \in [DOMAIN s.tree -> {"dir", "file", "link"}]
          /\ \A p \in DOMAIN s.tree :
                /\ p \in Seq(Name) \ {Root}
                /\ \A d \in Ancestors(p) : d \in DOMAIN s.tree /\ s.tree[d] = "dir"

(* What a line names.  A directory, and what stands before a last "**",    *)
(* are compared as they are spelled.                                       *)
IgnoreMatch(line, path) ==
    LET segs == line.segs
        Names(s) == path = s \/ (~line.neg /\ Under(path, s))
    IN  CASE segs = <<>> -> FALSE
          [] segs # <<>> /\ line.dir -> Names(segs)
          [] segs # <<>> /\ ~line.dir /\ Len(segs) > 1 /\ Last(segs) = "**" -> Names(Front(segs))
          [] OTHER -> \/ Names(segs)
                      \/ IF ~line.anchored /\ Len(segs) = 1 THEN Match(segs, <<Last(path)>>)
                                                            ELSE Match(segs, path)

(* The last line that matches decides.                                     *)
applyIgnorePatterns(path, lines, excluded) ==
    LET hit == SelectLastInSeq(lines, LAMBDA l : IgnoreMatch(l, path))
    IN  IF hit = 0 THEN excluded ELSE ~lines[hit].neg

Line(segs) == [neg |-> FALSE, anchored |-> FALSE, dir |-> FALSE, segs |-> segs]
isExcludedBy(path, patterns) == \E segs \in patterns : IgnoreMatch(Line(segs), path)

(* A slip: the list is matched as the path is spelled.                     *)
ReservedAsSpelled(path) ==
    isExcludedBy(path, {<<n>> : n \in ReservedTrees \cup ReservedFiles}
                         \cup {<<n, "**">> : n \in ReservedTrees})

isHardReserved(path) ==
    isExcludedBy(Fold(path), {<<n>> : n \in ReservedTrees \cup ReservedFiles}
                               \cup {<<n, "**">> : n \in ReservedTrees})

isDefaultExcluded(path) == isExcludedBy(Fold(path), {<<n>> : n \in DefaultNames})

isDefaultInclude(path) ==
    Len(path) = 1 /\ \E n \in IncludedNames : SegmentMatches(n, Lower[path[1]])

isGitRelatedPath(path) ==
    \/ \E k \in 1 .. Len(path) : Lower[path[k]] = ".git" /\ (k = 1 \/ k < Len(path))
    \/ Lower[Last(path)] \in {".gitignore", ".gitattributes", ".gitmodules"}

-----------------------------------------------------------------------------
(* The package: tree, the kind of every path below the root; lines, what   *)
(* its ignore files say; files, the "files" of package.json, each entry    *)
(* its segments and whether a "/" ends it; main, its "main"; unread, the   *)
(* directories that cannot be listed and the files that cannot be opened;  *)
(* unstat, the paths that lstat fails on.                                  *)

Below(tree, dir) == {p \in DOMAIN tree : Front(p) = dir}

(* Nothing fails; a path cannot be read, or statted; or a directory can be *)
(* listed and not entered.                                                 *)
Faults(tree) ==
    {<<{}, {}>>} \cup {<<{p}, {}>> : p \in DOMAIN tree \cup {Root}}
      \cup {<<{}, {p}>> : p \in DOMAIN tree}
      \cup {<<Below(tree, d), Below(tree, d)>> : d \in {p \in DOMAIN tree : tree[p] = "dir"}}

Kind(path) == IF path = Root THEN "dir" ELSE pkg.tree[path]

Children(dir) == Below(pkg.tree, dir)
Files == {p \in DOMAIN pkg.tree : pkg.tree[p] = "file"}
Whitelist == pkg.files # <<>>

(* No such file, one that cannot be read and one with no lines are alike.  *)
readIgnoreFile(path) ==
    IF path \in DOMAIN pkg.lines /\ path \notin pkg.unread THEN pkg.lines[path] ELSE <<>>

loadIgnorePatterns(dir) ==
    LET npm == readIgnoreFile(Append(dir, ".npmignore"))
    IN  IF npm # <<>> THEN npm ELSE readIgnoreFile(Append(dir, ".gitignore"))

(* The lines that govern a path, of the root's ignore file first.          *)
scopes(path) == [k \in 0 .. Len(path) - 1 |-> loadIgnorePatterns(SubSeq(path, 1, k))]

(* The built-in list speaks first and the deepest ignore file last, each   *)
(* of the path below its own directory.                                    *)
chainVerdict(path, chain) ==
    LET verdict[k \in DOMAIN chain] ==
            applyIgnorePatterns(SubSeq(path, k + 1, Len(path)), chain[k],
                                IF k = 0 THEN isDefaultExcluded(path) ELSE verdict[k - 1])
    IN  verdict[Len(path) - 1]

(* An ignore file that lies in an excluded directory excludes all it       *)
(* governs, the ignore files below it included.                            *)
excludes(path) ==
    \/ chainVerdict(path, scopes(path))
    \/ \E dir \in Ancestors(path) :
          loadIgnorePatterns(dir) # <<>> /\ chainVerdict(dir, scopes(dir))

defaultExcludedTree(path) == \E p \in Ancestors(path) \cup {path} : isDefaultExcluded(p)

-----------------------------------------------------------------------------
(* The "files" of package.json.                                            *)

(* A "/" at the end marks a directory and is dropped, but not from a glob, *)
(* which it makes match nothing.                                           *)
normalizeFilesEntry(e) ==
    IF \E s \in ToSet(e.segs) : Wild(s) THEN e ELSE [e EXCEPT !.slash = FALSE]
Entries == {normalizeFilesEntry(e) : e \in ToSet(pkg.files)}

isBareWildcard(s) == s \in {"*", "**"}

MatchDirect(e, path) ==
    /\ e.segs # <<>> /\ ~e.slash
    /\ path = e.segs \/ (Match(e.segs, path) /\ ~isBareWildcard(Last(e.segs)))

MatchContains(e, path) ==
    \/ e.segs = <<>>
    \/ /\ ~e.slash
       /\ \/ Under(path, e.segs)
          \/ /\ isBareWildcard(Last(e.segs))
             /\ IF Len(e.segs) > 1 /\ Last(e.segs) = "**" THEN IsPrefix(Front(e.segs), path)
                ELSE \E p \in Ancestors(path) \cup {path} : Match(e.segs, p)

isIncludedDirectly(path) == \E e \in Entries : MatchDirect(e, path)
isIncluded(path) == \E e \in Entries : MatchDirect(e, path) \/ MatchContains(e, path)

segmentsReach(segs, dir) ==
    \A i \in 1 .. Len(dir) :
        i <= Len(segs) =>
            \/ \E j \in 1 .. i : segs[j] = "**"
            \/ SegmentMatches(segs[i], dir[i])

(* A slip: asked whether an entry selects the directory itself.            *)
EntrySelects(dir) == isIncluded(dir)

filesFieldMayReach(dir) ==
    \E e \in Entries :
        e.segs = <<>> \/ segmentsReach(IF e.slash THEN Append(e.segs, "") ELSE e.segs, dir)

(* slashpath.Clean; a "main" outside of the package is none.               *)
mainEntryPath(main) ==
    LET clean == FoldLeft(LAMBDA done, s :
                            IF s = "." THEN done
                            ELSE IF s = ".." /\ done # <<>> /\ Last(done) # ".." THEN Front(done)
                            ELSE Append(done, s), <<>>, main)
    IN  IF clean # <<>> /\ Head(clean) \in {"..", ""} THEN <<>> ELSE clean

(* A slip: a line of the ignore file decides before "files" does.          *)
IgnoreFileFirst(path) ==
    \/ Whitelist /\ ~isIncluded(path) /\ ~isDefaultInclude(path)
    \/ applyIgnorePatterns(path, loadIgnorePatterns(Root), FALSE)

(* What `lnpm check` asks of a file of the package root.                   *)
ExcludedByProjectRules(path) ==
    /\ Whitelist => ~isIncluded(path)
    /\ \/ Whitelist /\ ~isDefaultInclude(path)
       \/ applyIgnorePatterns(path, loadIgnorePatterns(Root), FALSE)

-----------------------------------------------------------------------------
(* The walk.                                                               *)

(* A directory or file the ignore chain keeps out, where it decides.       *)
Pruned(path) == ~Whitelist /\ path # Manifest /\ excludes(path)

(* A slip: "main" is asked of no list.                                     *)
MainIsAlwaysIn(path) ==
    \/ path = Manifest \/ ~Whitelist \/ path = mainEntryPath(pkg.main)
    \/ isIncluded(path) /\ (defaultExcludedTree(path) => isIncludedDirectly(path))
    \/ ~isIncluded(path) /\ isDefaultInclude(path) /\ ~excludes(path)

(* The arms of the switch: "main" and "files" are asked of the default     *)
(* list, which a direct match outranks, and of no ignore file; the default *)
(* includes are asked of both.                                             *)
Selected(path) ==
    \/ path = Manifest \/ ~Whitelist
    \/ IF path = mainEntryPath(pkg.main) \/ isIncluded(path)
         THEN defaultExcludedTree(path) => isIncludedDirectly(path)
         ELSE isDefaultInclude(path) /\ ~excludes(path)

unreadableDirIsExcluded(path) ==
    \/ isHardReserved(path)
    \/ ~Whitelist /\ excludes(path)
    \/ Whitelist /\ ~IsPrefix(path, mainEntryPath(pkg.main)) /\ ~filesFieldMayReach(path)

Init ==
    /\ \E s \in Source, f \in FilesField, m \in Main : \E x \in Faults(s.tree) :
         pkg = [tree |-> s.tree, lines |-> s.lines, files |-> f, main |-> m,
                unread |-> x[1], unstat |-> x[2]]
    /\ todo = {}
    /\ packed = {}
    /\ phase = "reading"

Fail == phase' = "failed" /\ UNCHANGED <<pkg, todo, packed>>

ReadManifest ==
    /\ phase = "reading"
    /\ IF Manifest \in DOMAIN pkg.tree /\ Kind(Manifest) # "dir" /\ Manifest \notin pkg.unread
         THEN todo' = {Root} /\ phase' = "walking" /\ UNCHANGED <<pkg, packed>>
         ELSE Fail

(* In some order: Walk's, which is lexical, decides only which of several  *)
(* errors is the one reported.                                             *)
Here == CHOOSE p \in todo : TRUE
Visiting == phase = "walking" /\ todo # {}
Unlistable == Kind(Here) = "dir" /\ Here \in pkg.unread
Broken == Here \in pkg.unstat \/ Unlistable

(* The root is nobody's exclusion; and what could not be statted may be a  *)
(* file, and a file of the root may be one that is always included.        *)
Answerable == IF Here \in pkg.unstat THEN Len(Here) > 1 ELSE Here # Root

SkipUnreadable ==
    /\ Visiting /\ Broken /\ Answerable /\ unreadableDirIsExcluded(Here)
    /\ todo' = todo \ {Here}
    /\ UNCHANGED <<pkg, packed, phase>>

Abort ==
    /\ Visiting /\ Broken /\ ~(Answerable /\ unreadableDirIsExcluded(Here))
    /\ Fail

(* A symlink is not followed, a reserved or excluded directory is not      *)
(* entered.                                                                *)
Prune ==
    /\ Visiting /\ ~Broken /\ Here # Root
    /\ Kind(Here) = "link" \/ isHardReserved(Here) \/ Pruned(Here)
    /\ todo' = todo \ {Here}
    /\ UNCHANGED <<pkg, packed, phase>>

Descend ==
    /\ Visiting /\ ~Broken /\ Kind(Here) = "dir"
    /\ Here # Root => ~isHardReserved(Here) /\ ~Pruned(Here)
    /\ todo' = (todo \ {Here}) \cup Children(Here)
    /\ UNCHANGED <<pkg, packed, phase>>

Collect ==
    /\ Visiting /\ ~Broken /\ Kind(Here) = "file"
    /\ ~isHardReserved(Here) /\ ~Pruned(Here)
    /\ packed' = IF Selected(Here) THEN packed \cup {Here} ELSE packed
    /\ todo' = todo \ {Here}
    /\ UNCHANGED <<pkg, phase>>

Walked ==
    /\ phase = "walking" /\ todo = {}
    /\ phase' = "hashing"
    /\ UNCHANGED <<pkg, todo, packed>>

(* Every file is opened and hashed, the git filter is passed, and without  *)
(* its manifest the package is refused.                                    *)
Finish ==
    LET kept == {p \in packed : ~isGitRelatedPath(p)}
    IN  /\ phase = "hashing"
        /\ IF packed \cap pkg.unread = {} /\ Manifest \in kept
             THEN packed' = kept /\ phase' = "packed" /\ UNCHANGED <<pkg, todo>>
             ELSE Fail

Next ==
    \/ ReadManifest \/ SkipUnreadable \/ Abort \/ Prune \/ Descend \/ Collect
    \/ Walked \/ Finish

Spec == Init /\ [][Next]_vars

-----------------------------------------------------------------------------
(* What is published.                                                      *)

Published ==
    {p \in Files :
        /\ \A q \in Ancestors(p) \cup {p} : ~isHardReserved(q)
        /\ p # Manifest /\ ~Whitelist => \A q \in Ancestors(p) \cup {p} : ~excludes(q)
        /\ Selected(p)}

(* A pack that succeeds has every file the rules publish, and no other:    *)
(* what was pruned, and what was skipped because it could not be read, had *)
(* nothing to give, whatever lies in it; and the manifest is there.        *)
NothingIsLost == phase = "packed" => packed = Published /\ Manifest \in packed

(* Nothing of what is never published is, at any depth, in any case, by    *)
(* any route: "files", "main", a negation, or lying in such a directory.   *)
NothingReserved ==
    phase = "packed" =>
        \A p \in packed : \A k \in 1 .. Len(p) :
            \A n \in ReservedTrees \cup ReservedFiles : ~SegmentMatches(n, Lower[p[k]])

(* What is excluded unless one says otherwise, .env and its like, is there *)
(* only if one does: a "files" entry that says something of the name, and  *)
(* not only of the directory it lies in, or, where the ignore files are    *)
(* asked, a negation of the very name.                                     *)
SecretsNeedConsent ==
    phase = "packed" =>
        \A p \in packed : \A k \in 1 .. Len(p) :
            (\E n \in DefaultNames : SegmentMatches(n, Lower[p[k]])) =>
                \/ \E e \in ToSet(pkg.files) :
                      e.segs = p \/ (e.segs # <<>> /\ ~isBareWildcard(Last(e.segs)) /\ Match(e.segs, p))
                \/ /\ ~Whitelist \/ Len(p) = 1
                   /\ \E j \in 0 .. k - 1 :
                        \E l \in ToSet(loadIgnorePatterns(SubSeq(p, 1, j))) :
                          l.neg /\ IgnoreMatch(l, SubSeq(p, j + 1, k))

(* `lnpm check` and the pack agree on the files of the root that neither   *)
(* built-in list nor "main" has a say in: what it says a publish by the    *)
(* project's own rules leaves out, the pack leaves out, and nothing else.  *)
(* ExcludedByProjectRules takes any path.  The one that check asks it of   *)
(* today, lnpm.lock.retreat, is reserved, so not among these.              *)
CheckAgreesWithPack ==
    phase = "packed" =>
        \A p \in Files :
            Len(p) = 1 /\ p \notin {Manifest, mainEntryPath(pkg.main)}
            /\ ~isHardReserved(p) /\ ~isDefaultExcluded(p) =>
                (ExcludedByProjectRules(p) <=> p \notin packed)
=============================================================================
