----------------------------- MODULE Installer -----------------------------
(***************************************************************************)
(* Installation of one managed language server (installer.rs) by several   *)
(* daemons, one per running Vim, that share the directory of servers.  A   *)
(* process may be killed at any step; afterwards others find its hidden    *)
(* siblings `.name.installing-PID-stamp' and `.name.backup-PID-stamp'.     *)
(*                                                                         *)
(* A tree is the installation that built it and whether all of it is       *)
(* there: deleting a tree takes two steps.  The backup made by an          *)
(* installation is backup[i], its staging directory staging[i]; `found'    *)
(* are the stale backups a recovery has listed.  A stamp is a reading of   *)
(* the wall clock: any number no other has, whatever the order in which    *)
(* they are read.  An I/O error may happen at most MaxFaults times.  A pid *)
(* is not used twice.                                                      *)
(***************************************************************************)
EXTENDS Naturals, FiniteSets, SequencesExt

CONSTANTS Install,     \* requests to install the server, in any daemon
          Process,     \* daemon processes
          Shipped,     \* an installation made before the first of them
          None,
          Archive,     \* what a download may turn out to be
          Limit,       \* bytes an archive may expand to
          MaxEntries,  \* entries an archive may have
          MaxFaults

Version == Install \union {Shipped}
Tree == [version : Version, whole : BOOLEAN]
Ended == {"refused", "failed", "done", "dead"}

ASSUME InstallerAssumption ==
  /\ IsFiniteSet(Install) /\ Shipped \notin Install
  /\ None \notin Process \union Version \union Tree
  /\ MaxFaults \in Nat

ASSUME ArchiveAssumption ==
  /\ Archive \subseteq [kind : {"gz", "tar", "zip"},
                        entries : Seq([size : Nat, fine : BOOLEAN])]
  /\ Limit \in Nat /\ MaxEntries \in Nat

VARIABLES pc, proc, alive, guard,          \* installations and processes
          dest, staging, backup, stamp,    \* the file system
          found, writing,                  \* stale backups, running children
          faults,
          retired, collided                \* history, see AtomicInstall

disk == <<dest, staging, backup, stamp>>
history == <<retired, collided>>
vars == <<pc, proc, alive, guard, disk, found, writing, faults, history>>

Init == /\ pc = [i \in Install |-> "new"]
        /\ proc = [i \in Install |-> None]
        /\ alive = Process
        /\ guard = {}
        /\ dest \in {None, [version |-> Shipped, whole |-> TRUE]}
        /\ staging = [i \in Install |-> "none"]
        /\ backup = [i \in Install |-> None]
        /\ stamp = [i \in Install |-> 0]
        /\ found = [i \in Install |-> {}]
        /\ writing = {}
        /\ faults = 0
        /\ retired = {}
        /\ collided = FALSE

-----------------------------------------------------------------------------
(* Archives: entries are [size, fine], where `fine' means a plain file or   *)
(* directory inside the destination.                                        *)

\* A gzip holds one file; what exceeds the limit by one byte is an error.
UnpackGz(entries) ==
  [ok |-> Head(entries).size <= Limit,
   whole |-> Head(entries).size <= Limit]

\* A tar is refused at the entry that is not fine, or one too many, or whose
\* size would take the sum beyond the limit; until then entries are written.
TarEntry(state, e) ==
  IF state.ok /\ e.fine /\ state.count < MaxEntries /\ state.bytes + e.size <= Limit
    THEN [state EXCEPT !.count = @ + 1, !.bytes = @ + e.size]
    ELSE [state EXCEPT !.ok = FALSE]
UnpackTar(entries) ==
  LET end == FoldLeft(TarEntry, [ok |-> TRUE, count |-> 0, bytes |-> 0], entries)
  IN  [ok |-> end.ok, whole |-> end.count = Len(entries)]

\* Mutant: what exceeds the limit is silently cut off.
UnpackZipCut(entries) == [ok |-> TRUE, whole |-> Len(entries) <= MaxEntries
  /\ \A k \in 1 .. Len(entries) : entries[k].fine /\ entries[k].size < Limit]

\* A zip counts the bytes that really come out of the decoder.
ZipEntry(state, e) ==
  IF state.ok /\ e.fine /\ e.size <= state.left
    THEN [state EXCEPT !.count = @ + 1, !.left = @ - e.size]
    ELSE [state EXCEPT !.ok = FALSE]
UnpackZip(entries) ==
  LET start == [ok |-> Len(entries) <= MaxEntries, count |-> 0, left |-> Limit]
      end == FoldLeft(ZipEntry, start, entries)
  IN  [ok |-> end.ok, whole |-> end.count = Len(entries)]

Unpacked(a) == CASE a.kind = "gz" -> UnpackGz(a.entries)
                 [] a.kind = "tar" -> UnpackTar(a.entries)
                 [] a.kind = "zip" -> UnpackZip(a.entries)

-----------------------------------------------------------------------------
Live(i, at) == pc[i] = at /\ proc[i] \in alive
Go(i, to) == pc' = [pc EXCEPT ![i] = to]

\* The guard of the process is dropped with the installation.
End(i, how) == Go(i, how) /\ guard' = guard \ {proc[i]}

Fault == faults < MaxFaults /\ faults' = faults + 1

\* Mutant: the owner of a sibling is not looked at.
StaleAlways(p, q) == q # None

\* The pid that a hidden name carries is this process's own or nobody's.
Stale(p, q) == q # None /\ (q = p \/ q \notin alive)

\* A request for a server that this daemon is installing already is refused.
Begin(i, p) ==
  /\ pc[i] = "new" /\ p \in alive
  /\ proc' = [proc EXCEPT ![i] = p]
  /\ IF p \in guard THEN Go(i, "refused") /\ UNCHANGED guard
                    ELSE Go(i, "recover") /\ guard' = guard \union {p}
  /\ UNCHANGED <<alive, disk, found, writing, faults, history>>

\* Lists the siblings: stale staging trees go, stale backups are collected.
Recover(i) ==
  /\ Live(i, "recover")
  /\ LET Old(j) == Stale(proc[i], proc[j])
     IN  /\ staging' = [j \in Install |-> IF Old(j) THEN "none" ELSE staging[j]]
         /\ found' = [found EXCEPT ![i] = {j \in Install : Old(j) /\ backup[j] # None}]
  /\ Go(i, "restore")
  /\ UNCHANGED <<proc, alive, guard, dest, backup, stamp, writing, faults, history>>

Whole(tree) == IF tree = None THEN FALSE ELSE tree.whole
Newest(s) == CHOOSE j \in s : \A k \in s : stamp[k] <= stamp[j]
Oldest(s) == CHOOSE j \in s : \A k \in s : stamp[j] <= stamp[k]
\* What a recovery would find: the active tree, or the newest backup.
Kept == LET backups == {j \in Install : backup[j] # None}
        IN  IF dest # None THEN dest
            ELSE IF backups = {} THEN None ELSE backup[Newest(backups)]

\* Another backup has a newer stamp than n's.
Overlooks(n) == \E j \in Install : backup[j] # None /\ stamp[j] > stamp[n]

\* Without an active tree the newest stale backup becomes it, unless another
\* recovery was faster; then the rename fails and so does the installation.
Restore(i) ==
  /\ Live(i, "restore")
  /\ IF dest # None \/ found[i] = {}
       THEN Go(i, "prune") /\ UNCHANGED <<guard, dest, backup, found, collided>>
       ELSE LET n == Newest(found[i]) IN
            IF backup[n] = None
              THEN End(i, "failed") /\ UNCHANGED <<dest, backup, found, collided>>
              ELSE /\ dest' = backup[n]
                   /\ backup' = [backup EXCEPT ![n] = None]
                   /\ found' = [found EXCEPT ![i] = @ \ {n}]
                   /\ collided' = (collided \/ Overlooks(n))
                   /\ Go(i, "prune") /\ UNCHANGED guard
  /\ UNCHANGED <<proc, alive, staging, stamp, writing, faults, retired>>

\* The other stale backups are deleted one after the other, in two steps each;
\* one that cannot be deleted is left.
Prune(i) ==
  /\ Live(i, "prune")
  /\ IF found[i] = {}
       THEN Go(i, "stage") /\ UNCHANGED <<backup, found, faults>>
       ELSE LET j == Oldest(found[i]) IN
            /\ \/ /\ Whole(backup[j])
                  /\ backup' = [backup EXCEPT ![j].whole = FALSE]
                  /\ UNCHANGED <<found, faults>>
               \/ /\ ~Whole(backup[j])
                  /\ backup' = [backup EXCEPT ![j] = None]
                  /\ found' = [found EXCEPT ![i] = @ \ {j}]
                  /\ UNCHANGED faults
               \/ /\ Fault
                  /\ found' = [found EXCEPT ![i] = @ \ {j}]
                  /\ UNCHANGED backup
            /\ UNCHANGED pc
  /\ UNCHANGED <<proc, alive, guard, dest, staging, stamp, writing, history>>

Stage(i) ==
  /\ Live(i, "stage")
  /\ staging' = [staging EXCEPT ![i] = "partial"]
  /\ Go(i, "build")
  /\ UNCHANGED <<proc, alive, guard, dest, backup, stamp, found, writing, faults, history>>

\* An error before the staging directory exists leaves nothing to clean up.
EarlyError(i) ==
  /\ Live(i, "restore") \/ Live(i, "stage")
  /\ Fault
  /\ End(i, "failed")
  /\ UNCHANGED <<proc, alive, disk, found, writing, history>>

-----------------------------------------------------------------------------
\* StagingGuard: every ordinary error removes the staging directory.
Cleaned(i) == staging' = [staging EXCEPT ![i] = "none"]

Download(i) ==
  /\ Live(i, "build")
  /\ \/ Go(i, "unpack") /\ UNCHANGED <<guard, staging>>
     \/ End(i, "failed") /\ Cleaned(i)
  /\ UNCHANGED <<proc, alive, dest, backup, stamp, found, writing, faults, history>>

\* A tree whose binary is missing is an error like one that does not unpack.
Unpack(i) ==
  /\ Live(i, "unpack")
  /\ \/ \E a \in Archive :
          IF Unpacked(a).ok
            THEN /\ staging' = [staging EXCEPT ![i] =
                                  IF Unpacked(a).whole THEN "whole" ELSE "partial"]
                 /\ Go(i, "promote") /\ UNCHANGED guard
            ELSE End(i, "failed") /\ Cleaned(i)
     \/ End(i, "failed") /\ Cleaned(i)
  /\ UNCHANGED <<proc, alive, dest, backup, stamp, found, writing, faults, history>>

\* npm, go or julia, in a process group of its own.
RunChild(i) ==
  /\ Live(i, "build")
  /\ writing' = writing \union {i}
  /\ Go(i, "child")
  /\ UNCHANGED <<proc, alive, guard, disk, found, faults, history>>

\* Mutant: the exit status of the child is not looked at.
ChildExitsAnyhow(i) ==
  /\ Live(i, "child")
  /\ writing' = writing \ {i}
  /\ Go(i, "promote")
  /\ UNCHANGED <<proc, alive, guard, disk, found, faults, history>>

\* The rest of the group is killed when its leader has ended.
ChildExits(i) ==
  /\ Live(i, "child")
  /\ writing' = writing \ {i}
  /\ \/ /\ staging' = [staging EXCEPT ![i] = "whole"]
        /\ Go(i, "promote") /\ UNCHANGED guard
     \/ End(i, "failed") /\ Cleaned(i)
  /\ UNCHANGED <<proc, alive, dest, backup, stamp, found, faults, history>>

\* Mutant: the cleanup does not ask whether the child was reaped.
ChildTimesOutUnreaped(i) ==
  /\ Live(i, "child")
  /\ End(i, "failed") /\ Cleaned(i)
  /\ writing' \in {writing, writing \ {i}}
  /\ UNCHANGED <<proc, alive, dest, backup, stamp, found, faults, history>>

\* A child that is killed at the deadline but not reaped within a second may
\* still write: its staging directory is left to a later recovery.
ChildTimesOut(i) ==
  /\ Live(i, "child")
  /\ End(i, "failed")
  /\ \/ writing' = writing \ {i} /\ Cleaned(i)
     \/ UNCHANGED <<writing, staging>>
  /\ UNCHANGED <<proc, alive, dest, backup, stamp, found, faults, history>>

\* A killed or orphaned child ends at last.
ChildGone(i) ==
  /\ i \in writing /\ pc[i] \in Ended
  /\ writing' = writing \ {i}
  /\ UNCHANGED <<pc, proc, alive, guard, disk, found, faults, history>>

-----------------------------------------------------------------------------
(* A promotion runs without an await, so that no abort falls between its    *)
(* steps; other daemons and kills do.                                       *)

\* The name of the backup is made first, needed or not.
TakeStamp(i) ==
  /\ Live(i, "promote")
  /\ \E now \in 1 .. Cardinality(Install) :
       /\ \A j \in Install : stamp[j] # now
       /\ stamp' = [stamp EXCEPT ![i] = now]
  /\ Go(i, "look")
  /\ UNCHANGED <<proc, alive, guard, dest, staging, backup, found, writing, faults, history>>

\* Then it looks whether there is an active tree to set aside.
Look(i) ==
  /\ Live(i, "look")
  /\ Go(i, IF dest = None THEN "activate" ELSE "aside")
  /\ UNCHANGED <<proc, alive, guard, disk, found, writing, faults, history>>

\* Mutant: the active tree is deleted first.
SetAsideDeleting(i) ==
  /\ Live(i, "aside")
  /\ dest' = None
  /\ Go(i, "activate")
  /\ UNCHANGED <<proc, alive, guard, staging, backup, stamp, found, writing, faults, history>>

\* First rename: the active tree becomes a backup, unless another daemon has
\* taken it since.
SetAside(i) ==
  /\ Live(i, "aside")
  /\ IF dest = None
       THEN End(i, "failed") /\ Cleaned(i) /\ UNCHANGED <<dest, backup, collided>>
       ELSE /\ backup' = [backup EXCEPT ![i] = dest]
            /\ dest' = None
            /\ collided' = (collided \/ Overlooks(i))
            /\ Go(i, "activate") /\ UNCHANGED <<guard, staging>>
  /\ UNCHANGED <<proc, alive, stamp, found, writing, faults, retired>>

SetAsideFails(i) ==
  /\ Live(i, "aside")
  /\ Fault
  /\ End(i, "failed") /\ Cleaned(i)
  /\ UNCHANGED <<proc, alive, dest, backup, stamp, found, writing, history>>

\* Second rename.
Activate(i) ==
  /\ Live(i, "activate") /\ dest = None
  /\ dest' = [version |-> i, whole |-> staging[i] = "whole"]
  /\ staging' = [staging EXCEPT ![i] = "none"]
  /\ IF backup[i] = None
       THEN End(i, "done")
       ELSE Go(i, "discard") /\ UNCHANGED guard
  /\ retired' = IF Kept = None THEN retired ELSE retired \union {Kept.version}
  /\ UNCHANGED <<proc, alive, backup, stamp, found, writing, faults, collided>>

\* It fails where a tree has appeared in the meantime; the backup is put back
\* if it can be, and otherwise stays a backup.
Undone(i) == IF backup[i] # None /\ dest = None
             THEN /\ dest' = backup[i]
                  /\ backup' = [backup EXCEPT ![i] = None]
                  /\ collided' = (collided \/ Overlooks(i))
             ELSE UNCHANGED <<dest, backup, collided>>
ActivateFails(i) ==
  /\ Live(i, "activate")
  /\ \/ dest # None /\ UNCHANGED faults /\ Undone(i)
     \/ Fault /\ Undone(i)
     \/ /\ faults + 2 <= MaxFaults /\ faults' = faults + 2
        /\ UNCHANGED <<dest, backup, collided>>
  /\ End(i, "failed") /\ Cleaned(i)
  /\ UNCHANGED <<proc, alive, stamp, found, writing, retired>>

\* The backup is deleted, or left if it cannot be.
Discard(i) ==
  /\ Live(i, "discard")
  /\ \/ /\ backup[i].whole
        /\ backup' = [backup EXCEPT ![i].whole = FALSE]
        /\ UNCHANGED <<pc, guard, faults>>
     \/ /\ ~backup[i].whole
        /\ backup' = [backup EXCEPT ![i] = None]
        /\ End(i, "done") /\ UNCHANGED faults
     \/ Fault /\ End(i, "done") /\ UNCHANGED backup
  /\ UNCHANGED <<proc, alive, dest, staging, stamp, found, writing, history>>

-----------------------------------------------------------------------------
Ends(p) == /\ alive' = alive \ {p}
           /\ guard' = guard \ {p}
           /\ pc' = [i \in Install |-> IF proc[i] = p /\ pc[i] \notin Ended
                                       THEN "dead" ELSE pc[i]]
           /\ UNCHANGED <<proc, disk, found, faults, history>>

\* Killed, or the machine goes down: children may survive as orphans.
Crash(p) == p \in alive /\ Ends(p) /\ UNCHANGED writing

\* End of input: what has not ended by the deadline is aborted at an await,
\* never in a promotion, and children are killed.
ShutDown(p) == /\ p \in alive
               /\ ~\E i \in Install : proc[i] = p /\ pc[i] \in {"look", "aside", "activate"}
               /\ Ends(p)
               /\ writing' = {i \in writing : proc[i] # p}

Step(i) == \/ Recover(i) \/ Restore(i) \/ Prune(i) \/ Stage(i) \/ EarlyError(i)
           \/ Download(i) \/ Unpack(i) \/ RunChild(i) \/ ChildExits(i)
           \/ ChildTimesOut(i) \/ ChildGone(i)
           \/ TakeStamp(i) \/ Look(i) \/ SetAside(i) \/ SetAsideFails(i)
           \/ Activate(i) \/ ActivateFails(i) \/ Discard(i)

Next == \/ \E i \in Install : Step(i) \/ \E p \in Process : Begin(i, p)
        \/ \E p \in Process : Crash(p) \/ ShutDown(p)

Spec == Init /\ [][Next]_vars

-----------------------------------------------------------------------------
\* Every variable has its type, and a promotion works on what it built.
TypeOK ==
  /\ pc \in [Install -> Ended \union {"new", "recover", "restore", "prune", "stage",
               "build", "unpack", "child", "promote", "look", "aside", "activate", "discard"}]
  /\ proc \in [Install -> Process \union {None}]
  /\ alive \subseteq Process /\ guard \subseteq alive
  /\ dest \in Tree \union {None}
  /\ staging \in [Install -> {"none", "partial", "whole"}]
  /\ backup \in [Install -> Tree \union {None}]
  /\ stamp \in [Install -> 0 .. Cardinality(Install)]
  /\ found \in [Install -> SUBSET Install]
  /\ writing \subseteq Install
  /\ faults \in 0 .. MaxFaults
  /\ retired \subseteq Version /\ collided \in BOOLEAN
  /\ \A i \in Install : proc[i] \in alive /\ pc[i] \in {"promote", "look", "aside", "activate"}
                          => staging[i] = "whole"

\* The installation found by a server start or a recovery is always complete,
\* whoever was killed or failed at whatever step ("a failed download,
\* extraction, npm, or Go command can then be discarded without corrupting a
\* working server", installer.rs:460), unless a backup was put back or made
\* while another with a newer stamp existed.
KeptIsWhole == ~collided /\ Kept # None => Kept.whole

\* The same without the excuse does not hold, and no run lists it: of two
\* promotions that overlap, the one that read the clock first (installer.rs:1209)
\* may rename last (1212), while the other deletes its backup; a recovery goes by
\* the stamps (1158).
NeverCorrupted == Kept # None => Kept.whole

\* Hidden trees of a live daemon are moved and deleted by that daemon alone
\* ("Live foreign PIDs are never touched", installer.rs:1130).
LivesUntouched ==
  [][\A i \in Install :
       proc[i] \in alive \intersect alive' /\ <<staging[i], backup[i]>>' # <<staging[i], backup[i]>>
         => \E j \in Install : proc[j] = proc[i] /\ Step(j)]_vars

\* A staging directory in which a child may write is neither activated nor
\* deleted (StagingGuard, installer.rs:364), except by a recovery when the
\* installation it was made for has ended: of a later installation of that
\* daemon, or of another one after its death.
CleanedAfterChild ==
  [][\A i \in Install : staging[i] # "none" /\ staging'[i] = "none" /\ i \in writing'
       => pc[i] \in Ended /\ \E j \in Install \ {i} : Recover(j)]_vars

\* The same without the exception does not hold, and no run lists it: a recovery
\* asks for the pid of the daemon (installer.rs:1110), never for the child.
CleanedOnlyAfterChild ==
  [][\A i \in Install : staging[i] # "none" /\ staging'[i] = "none" => i \notin writing']_vars

\* The promise of AtomicInstall is kept.
Promise == INSTANCE AtomicInstall WITH
             installed <- IF Kept = None THEN None ELSE Kept.version
KeepsPromise == Promise!Spec
=============================================================================
