----------------------------- MODULE MCLnpmPack -----------------------------
(* Packing, over three small trees, each with every "files", "main" and    *)
(* ignore file below, and at most one thing in it that cannot be read.     *)
EXTENDS LnpmPack

MCName == {"package.json", "README.md", "readme.md", "a.js", "x.js", ".env", ".ENV", "app.log",
           "dist", "src", "node_modules", "Node_Modules", ".npmignore", ".gitignore", ".git", "config"}
MCLower == [n \in MCName |-> CASE n = "README.md" -> "readme.md" [] n = ".ENV" -> ".env"
                               [] n = "Node_Modules" -> "node_modules" [] OTHER -> n]
MCGlob == ("*" :> MCName) @@ ("*.js" :> {"a.js", "x.js"}) @@ (".env*" :> {".env"})
          @@ ("*.log" :> {"app.log"}) @@ ("readme*" :> {"readme.md"})

Tree(dirs, files) == [p \in dirs \cup files |-> IF p \in dirs THEN "dir" ELSE "file"]
Trees ==
    { Tree({<<"dist">>, <<"dist", "node_modules">>},
           {Manifest, <<"README.md">>, <<"a.js">>, <<"dist", "a.js">>, <<"dist", ".env">>,
            <<"dist", "node_modules", "x.js">>}),
      Tree({<<"src">>, <<"src", ".ENV">>, <<"src", "dist">>},
           {Manifest, <<"app.log">>, <<"src", "x.js">>, <<"src", ".ENV", "config">>,
            <<"src", "dist", "a.js">>, <<"src", "package.json">>}),
      Tree({<<".git">>, <<"dist">>, <<"Node_Modules">>},
           {Manifest, <<".env">>, <<"x.js">>, <<".git", "config">>, <<"dist", "x.js">>,
            <<"Node_Modules", "a.js">>})
        @@ (<<"src">> :> "link") }

Entry(segs) == [segs |-> segs, slash |-> FALSE]
MCFilesField ==
    { <<>>, <<Entry(<<>>)>>, <<Entry(<<"dist">>)>>, <<[segs |-> <<"src">>, slash |-> TRUE]>>,
      <<Entry(<<"dist", "a.js">>)>>, <<Entry(<<"**", "*.js">>)>>, <<Entry(<<"*">>)>>,
      <<Entry(<<"src", "**">>)>>, <<Entry(<<"src", "**", "config">>), Entry(<<".env*">>)>>,
      <<[segs |-> <<"*", "*">>, slash |-> TRUE], Entry(<<"Node_Modules", "a.js">>)>> }
MCMain == { <<>>, <<".", "dist", "a.js">>, <<"src", "..", ".env">>, <<"..", "x.js">> }

Not(l) == [l EXCEPT !.neg = TRUE]
Dir(l) == [l EXCEPT !.dir = TRUE]
At(l) == [l EXCEPT !.anchored = TRUE]
Npm == <<".npmignore">>
Git == <<".gitignore">>
Lines ==
    { <<>>, Npm :> <<Dir(Line(<<"dist">>)), Not(Line(<<"dist", "a.js">>))>>,
      Git :> <<Line(<<"*.js">>), Not(At(Line(<<"x.js">>))), Line(<<"README.md">>)>>,
      (Npm :> <<Not(Line(<<".env">>)), Line(<<"src", "**">>)>>) @@ (Git :> <<Line(<<"*">>)>>),
      (Npm :> <<Line(<<"**", "dist", "*.js">>), Not(Line(<<"*.log">>))>>)
        @@ (<<"dist", ".npmignore">> :> <<Not(Line(<<"a.js">>)), Line(<<".env">>)>>)
        @@ (<<"src", ".gitignore">> :> <<Dir(Line(<<"dist">>)), Not(Line(<<".ENV">>))>>) }

WithIgnoreFiles(tree, lines) ==
    LET dirs == {Root} \cup {d \in DOMAIN tree : tree[d] = "dir"}
    IN  tree @@ [p \in {q \in DOMAIN lines : Front(q) \in dirs} |-> "file"]

MCSource ==
    { LET all == WithIgnoreFiles(t, l)
      IN  [tree |-> all, lines |-> [p \in DOMAIN l \cap DOMAIN all |-> l[p]]]
      : t \in Trees, l \in Lines }
=============================================================================
