----------------------------- MODULE LnpmUpdate -----------------------------
(***************************************************************************)
(* internal/cli/update.go: `lnpm update` of an lnpm that was installed     *)
(* from a release archive.  Each update is a process, and nothing keeps    *)
(* two of them apart: no lock is taken.  A step is one file operation or   *)
(* one answer of the release server; any may fail, and a process may die   *)
(* after any.  What the server sends is any archive, any checksums and any *)
(* signature.                                                              *)
(***************************************************************************)
EXTENDS Naturals

CONSTANTS
    Updater,    \* processes
    Releases,   \* the versions released; a version stands for its binary
    Foreign,    \* bytes that are no release's
    Part,       \* a binary written in part
    Attempts,   \* how many updates are started; bounds a behaviour
    None

ASSUME UpdateAssumption ==
    /\ Releases \subseteq Nat
    /\ Attempts \in Nat
    /\ {Foreign, Part, None} \cap Nat = {}

VARIABLES
    bin,       \* the binary users run
    bak,       \* bin.bak
    staged,    \* staged[u]: u's .lnpm-update-* file beside bin
    up,        \* up[u]: where update u is
    managed,   \* whether a package manager owns bin
    started,   \* how many updates were started
    crossed,   \* history: two updates were between backup and cleanup at once
    torn       \* history: one died in there, or could not put the backup back

updateVars == <<bin, bak, staged, up, managed, started, crossed, torn>>
history == <<crossed, torn>>

Idle == [pc |-> "idle", running |-> None, force |-> FALSE, latest |-> None, archive |-> None]

UpdateInit ==
    /\ bin \in Releases
    /\ bak = None
    /\ staged = [u \in Updater |-> None]
    /\ up = [u \in Updater |-> Idle]
    /\ managed \in BOOLEAN
    /\ started = 0
    /\ crossed = FALSE /\ torn = FALSE

At(u, pc) == up[u].pc = pc
GoOn(u, pc) == up' = [up EXCEPT ![u].pc = pc]
End(u) == up' = [up EXCEPT ![u] = Idle]
InSwap(u) == up[u].pc \in {"stage", "copy", "install", "restore", "cleanup"}

(* Whoever runs lnpm runs bin.                                             *)
Start(u) ==
    /\ At(u, "idle") /\ started < Attempts
    /\ bin # None
    /\ \E force \in BOOLEAN :
          up' = [up EXCEPT ![u] = [Idle EXCEPT !.pc = "check", !.running = bin, !.force = force]]
    /\ started' = started + 1
    /\ UNCHANGED <<bin, bak, staged, managed, history>>

(* Only what supersedes the running version is installed, and over a       *)
(* managed binary only when forced.                                        *)
RunUpdate(u) ==
    /\ At(u, "check")
    /\ \E latest \in Releases :
          up' = IF latest > up[u].running /\ (managed => up[u].force)
                THEN [up EXCEPT ![u].pc = "download", ![u].latest = latest]
                ELSE [up EXCEPT ![u] = Idle]
    /\ UNCHANGED <<bin, bak, staged, managed, started, history>>

downloadToFile(u) ==
    /\ At(u, "download")
    /\ \E a \in Releases \cup {Foreign} :
          up' = [up EXCEPT ![u].pc = "verify", ![u].archive = a]
    /\ UNCHANGED <<bin, bak, staged, managed, started, history>>

(* A slip: whatever the checksums beside the archive list is taken.        *)
verifyChecksum(u) ==
    /\ At(u, "verify")
    /\ \E list \in Releases \cup {Foreign}, sig \in Releases \cup {Foreign, None} :
          IF list \in {up[u].latest, Foreign} /\ up[u].archive = list
          THEN GoOn(u, "backup") ELSE End(u)
    /\ UNCHANGED <<bin, bak, staged, managed, started, history>>

(* The checksums of a release list its archive under its versioned name,   *)
(* and are signed; what is foreign may list anything but is not.           *)
verifyRelease(u) ==
    /\ At(u, "verify")
    /\ \E list \in Releases \cup {Foreign}, sig \in Releases \cup {Foreign, None} :
          IF /\ list # Foreign /\ sig = list
             /\ list = up[u].latest
             /\ up[u].archive = list
          THEN GoOn(u, "backup") ELSE End(u)
    /\ UNCHANGED <<bin, bak, staged, managed, started, history>>

(* Nothing beside bin has been touched so far.                             *)
GiveUp(u) ==
    /\ up[u].pc \in {"check", "download", "verify", "backup"}
    /\ End(u)
    /\ UNCHANGED <<bin, bak, staged, managed, started, history>>

(* The rename fails if there is nothing at bin; it replaces an old backup. *)
Backup(u) ==
    /\ At(u, "backup") /\ bin # None
    /\ bak' = bin /\ bin' = None
    /\ GoOn(u, "stage")
    /\ crossed' = (crossed \/ \E v \in Updater : InSwap(v))
    /\ UNCHANGED <<staged, managed, started, torn>>

CreateTemp(u) ==
    /\ At(u, "stage")
    /\ staged' = [staged EXCEPT ![u] = Part]
    /\ GoOn(u, "copy")
    /\ UNCHANGED <<bin, bak, managed, started, history>>

Copy(u) ==
    /\ At(u, "copy")
    /\ staged' = [staged EXCEPT ![u] = up[u].archive]
    /\ GoOn(u, "install")
    /\ UNCHANGED <<bin, bak, managed, started, history>>

Install(u) ==
    /\ At(u, "install")
    /\ bin' = staged[u]
    /\ staged' = [staged EXCEPT ![u] = None]
    /\ GoOn(u, "cleanup")
    /\ UNCHANGED <<bak, managed, started, history>>

(* A slip: the error is returned with the backup left where it is.         *)
leaveBackup(u) ==
    /\ up[u].pc \in {"stage", "copy", "install"}
    /\ staged' = [staged EXCEPT ![u] = None]
    /\ End(u)
    /\ UNCHANGED <<bin, bak, managed, started, history>>

(* Staging, copying, chmod, closing or the rename failed.                  *)
installFails(u) ==
    /\ up[u].pc \in {"stage", "copy", "install"}
    /\ staged' = [staged EXCEPT ![u] = None]
    /\ GoOn(u, "restore")
    /\ UNCHANGED <<bin, bak, managed, started, history>>

Restore(u) ==
    /\ At(u, "restore") /\ bak # None
    /\ bin' = bak /\ bak' = None
    /\ End(u)
    /\ UNCHANGED <<staged, managed, started, history>>

RestoreFails(u) ==
    /\ At(u, "restore")
    /\ End(u)
    /\ torn' = TRUE
    /\ UNCHANGED <<bin, bak, staged, managed, started, crossed>>

(* That the backup could not be removed is not an error.                   *)
Cleanup(u) ==
    /\ At(u, "cleanup")
    /\ bak' \in {None, bak}
    /\ End(u)
    /\ UNCHANGED <<bin, staged, managed, started, history>>

Kill(u) ==
    /\ ~At(u, "idle")
    /\ End(u)
    /\ torn' = (torn \/ (InSwap(u) /\ ~At(u, "cleanup")))
    /\ UNCHANGED <<bin, bak, staged, managed, started, crossed>>

UpdateNext == \E u \in Updater :
    \/ Start(u) \/ RunUpdate(u) \/ downloadToFile(u) \/ verifyRelease(u) \/ GiveUp(u)
    \/ Backup(u) \/ CreateTemp(u) \/ Copy(u) \/ Install(u) \/ installFails(u)
    \/ Restore(u) \/ RestoreFails(u) \/ Cleanup(u) \/ Kill(u)

UpdateSpec == UpdateInit /\ [][UpdateNext]_updateVars

-----------------------------------------------------------------------------
(* verifyRelease: "a tampered or corrupted asset must never reach the      *)
(* running binary".  What is at bin, and what a restore can bring back     *)
(* there, is at every moment a whole binary of a release, the very one the *)
(* update said it was installing, whatever the server sent and wherever    *)
(* updates, two at once or cut short, stopped.                             *)
OnlyReleasesRun ==
    /\ bin \in Releases \cup {None} /\ bak \in Releases \cup {None}
    /\ \A u \in Updater : InSwap(u) => up[u].archive = up[u].latest

(* replaceBinary: "a failed install leaves the working binary in place".   *)
(* Once every update has returned there is a binary at bin, and at every   *)
(* moment, even after one died, there is one at bin or at bin.bak - as     *)
(* long as no two updates were swapping at once: the second can take the   *)
(* first one's new binary for its backup, which the first then removes.    *)
BinaryKept ==
    ~crossed =>
        /\ bin # None \/ bak # None
        /\ ~torn /\ (\A u \in Updater : ~InSwap(u)) => bin # None
=============================================================================
