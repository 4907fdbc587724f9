--------------------------- MODULE MCLnpmProject ---------------------------
(* The commands on small sets.                                             *)
EXTENDS LnpmProject, TLC

(* One at a time: every command but a push, none of which fails, on two    *)
(* channels, with add --pure where nothing removes what it adds; and all   *)
(* of them, tag and live links left out, any step of which may fail or be  *)
(* the last, on one: there a publish is a publish --push cut short, and a  *)
(* push one that is not told that the build is recorded already.           *)
Sequential ==
    { [used |-> Command \ {"publish-push", "push", "add-pure"}, tags |-> Tag,
       faults |-> FALSE, atonce |-> 1],
      [used |-> {"publish", "tag", "gc", "add", "add-pure", "pull"}, tags |-> Tag,
       faults |-> FALSE, atonce |-> 1],
      [used |-> Command \ {"publish", "push", "tag", "add-pure", "add-link"}, tags |-> {Latest},
       faults |-> TRUE, atonce |-> 1] }

(* Two at once, on one channel: those that wait for the database, and a    *)
(* retreat, which may go on without it.                                    *)
Concurrent == {[used |-> {"push", "gc", "add", "pull", "remove", "retreat"}, tags |-> {Latest},
                faults |-> FALSE, atonce |-> 2]}

All == Sequential \cup Concurrent

Pure == {[used |-> {"publish", "add-pure", "remove"}, tags |-> {Latest},
          faults |-> FALSE, atonce |-> 1]}

(* Builds are interchangeable, and so are processes.                       *)
Symmetry == Permutations(Hash) \cup Permutations(Proc)
=============================================================================
