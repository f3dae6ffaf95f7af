----------------------------- MODULE ResumeState -----------------------------
(***************************************************************************)
(* The resume state of src/src/resume_state.rs: the file that records the  *)
(* color of the last whole set-all, written by any number of alienrgb      *)
(* processes and read by contrib/systemd/alienrgb-resume.  A write is the  *)
(* sequence of persist_at_with_backend, one file-system call per step; a   *)
(* process may be killed and the machine may lose power between any two.   *)
(*                                                                         *)
(* A color is known by its version, the number of the rename that made it  *)
(* the target; version 0 is the absent file.  The file system (external,   *)
(* from what the code relies on): a rename shows either file, an fsync'ed  *)
(* file keeps its contents, an fsync'ed directory keeps its entries, and   *)
(* nothing else survives a power loss for certain.                         *)
(***************************************************************************)
EXTENDS Naturals

CONSTANTS
  Writer,        \* the processes that persist a color
  MaxRenames,    \* bound: versions of the file
  MaxLosses      \* bound: power losses

ASSUME ResumeAssumption == MaxRenames \in Nat /\ MaxLosses \in Nat

VARIABLES
  dir,       \* the state directory: "none", "volatile" or "durable"
  target,    \* the version a reader of the path finds
  onDisk,    \* the versions the path may have after a power loss
  clock,     \* the renames so far
  contents,  \* what each version holds: "synced", "unsynced" or "partial"
  pc,        \* the next file-system call of each writer
  temp,      \* what the temporary file of its call holds, or "none"
  mine,      \* history: the version its last call made, or 0
  result,    \* how its last call since the start of the machine ended
  excused,   \* history: its temporary file may stay behind
  acked,     \* history: the newest version reported as persisted that did not
             \* go with an unflushed directory
  losses,    \* power losses, for the bound
  reader,    \* the next open of the helper
  since,     \* history: the version in place when the helper started
  found      \* what the helper ends with

disk == <<dir, target, onDisk, clock, contents>>
call == <<pc, temp, mine, result, excused>>
helper == <<reader, since, found>>
vars == <<disk, call, acked, losses, helper>>

Version == 1..MaxRenames
Data    == {"partial", "unsynced", "synced"}
Calls   == {"idle", "ensure", "write", "chmod", "sync", "rename", "syncdir",
            "remove"}

\* What the temporary file holds before each of the calls.
TempHolds ==
  \A w \in Writer :
    /\ pc[w] \in {"ensure", "write", "syncdir"} => temp[w] = "none"
    /\ pc[w] \in {"chmod", "sync"} => temp[w] = "unsynced"
    /\ pc[w] = "rename" => temp[w] = "synced"

\* The types of the variables, and that of a temporary file at each call.
TypeOK ==
  /\ dir \in {"none", "volatile", "durable"}
  /\ clock \in 0..MaxRenames
  /\ target \in 0..clock
  /\ onDisk \in SUBSET (0..clock)
  /\ contents \in [Version -> Data]
  /\ pc \in [Writer -> Calls]
  /\ temp \in [Writer -> Data \cup {"none"}]
  /\ mine \in [Writer -> 0..clock]
  /\ result \in [Writer -> {"none", "ok", "err", "unsynced", "killed"}]
  /\ excused \in [Writer -> BOOLEAN]
  /\ acked \in 0..clock
  /\ losses \in 0..MaxLosses
  /\ reader \in {"idle", "count", "line"}
  /\ since \in 0..clock
  /\ found \in {"none", "absent", "invalid", "color"}
  /\ TempHolds

Init ==
  /\ dir = "none"
  /\ target = 0
  /\ onDisk = {0}
  /\ clock = 0
  /\ contents = [v \in Version |-> "partial"]
  /\ pc = [w \in Writer |-> "idle"]
  /\ temp = [w \in Writer |-> "none"]
  /\ mine = [w \in Writer |-> 0]
  /\ result = [w \in Writer |-> "none"]
  /\ excused = [w \in Writer |-> FALSE]
  /\ acked = 0
  /\ losses = 0
  /\ reader = "idle"
  /\ since = 0
  /\ found = "none"

------------------------------------------------------------------------------
(* persist_at_with_backend: a failed call ends it, after the temporary file *)
(* was removed when there may be one.                                       *)

Goto(w, step) == pc' = [pc EXCEPT ![w] = step]

End(w, code) ==
  /\ Goto(w, "idle")
  /\ result' = [result EXCEPT ![w] = code]

\* persist_color: the path resolves and unique_temp_suffix names a temporary
\* file no other call uses; an unresolved path fails before anything.
Persist(w) ==
  /\ pc[w] = "idle"
  /\ clock < MaxRenames
  /\ temp' = [temp EXCEPT ![w] = "none"]
  /\ mine' = [mine EXCEPT ![w] = 0]
  /\ excused' = [excused EXCEPT ![w] = FALSE]
  /\ \/ /\ Goto(w, "ensure")
        /\ result' = [result EXCEPT ![w] = "none"]
     \/ End(w, "err")
  /\ UNCHANGED <<disk, acked, losses, helper>>

\* create_dir_all and the mode 0700; nothing syncs the parent of a directory
\* that was made.
EnsureDirectory(w) ==
  /\ pc[w] = "ensure"
  /\ dir' \in IF dir = "none" THEN {"none", "volatile"} ELSE {dir}
  /\ \/ dir' # "none" /\ Goto(w, "write") /\ UNCHANGED result
     \/ End(w, "err")
  /\ UNCHANGED <<target, onDisk, clock, contents, temp, mine, excused, acked, losses,
                 helper>>

\* Mutant: the target itself is opened, truncated and written.
WriteInPlace(w) ==
  /\ pc[w] = "write"
  /\ clock < MaxRenames
  /\ clock' = clock + 1
  /\ target' = clock + 1
  /\ onDisk' = onDisk \cup {clock + 1}
  /\ \E data \in {"partial", "synced"} :
       contents' = [contents EXCEPT ![clock + 1] = data]
  /\ End(w, "ok")
  /\ UNCHANGED <<dir, temp, mine, excused, acked, losses, helper>>

\* Mutant: an error of the write is not looked at.
WriteTempUnchecked(w) ==
  /\ pc[w] = "write"
  /\ \E data \in {"none", "partial", "unsynced"} :
       temp' = [temp EXCEPT ![w] = data]
  /\ Goto(w, "chmod")
  /\ UNCHANGED <<disk, mine, result, excused, acked, losses, helper>>

\* create_new with mode 0600 and write_all.
WriteTemp(w) ==
  /\ pc[w] = "write"
  /\ \/ temp' = [temp EXCEPT ![w] = "unsynced"] /\ Goto(w, "chmod")
     \/ /\ \E data \in {"none", "partial"} : temp' = [temp EXCEPT ![w] = data]
        /\ Goto(w, "remove")
  /\ UNCHANGED <<disk, mine, result, excused, acked, losses, helper>>

SetPermissions(w) ==
  /\ pc[w] = "chmod"
  /\ Goto(w, "sync") \/ Goto(w, "remove")
  /\ UNCHANGED <<disk, temp, mine, result, excused, acked, losses, helper>>

\* Mutant: the temporary file is renamed without having been synced.
SyncTempSkipped(w) ==
  /\ pc[w] = "sync"
  /\ Goto(w, "rename") \/ Goto(w, "remove")
  /\ UNCHANGED <<disk, temp, mine, result, excused, acked, losses, helper>>

\* Mutant: the removal of the temporary file is forgotten.
SyncTempLeaks(w) ==
  /\ pc[w] = "sync"
  /\ \/ /\ temp' = [temp EXCEPT ![w] = "synced"]
        /\ Goto(w, "rename")
        /\ UNCHANGED result
     \/ End(w, "err") /\ UNCHANGED temp
  /\ UNCHANGED <<disk, mine, excused, acked, losses, helper>>

SyncTemp(w) ==
  /\ pc[w] = "sync"
  /\ \/ temp' = [temp EXCEPT ![w] = "synced"] /\ Goto(w, "rename")
     \/ Goto(w, "remove") /\ UNCHANGED temp
  /\ UNCHANGED <<disk, mine, result, excused, acked, losses, helper>>

\* Mutant: the old target is removed before the rename.
RenameAfterRemoval(w) ==
  /\ pc[w] = "rename"
  /\ IF target # 0
       THEN /\ target' = 0
            /\ UNCHANGED <<onDisk, clock, contents, pc, temp, mine>>
       ELSE /\ clock < MaxRenames
            /\ clock' = clock + 1
            /\ target' = clock + 1
            /\ onDisk' = onDisk \cup {clock + 1}
            /\ contents' = [contents EXCEPT ![clock + 1] = temp[w]]
            /\ mine' = [mine EXCEPT ![w] = clock + 1]
            /\ temp' = [temp EXCEPT ![w] = "none"]
            /\ Goto(w, "syncdir")
  /\ UNCHANGED <<dir, result, excused, acked, losses, helper>>

\* The temporary file becomes the newest version of the target.
Rename(w) ==
  /\ pc[w] = "rename"
  /\ clock < MaxRenames
  /\ clock' = clock + 1
  /\ target' = clock + 1
  /\ onDisk' = onDisk \cup {clock + 1}
  /\ contents' = [contents EXCEPT ![clock + 1] = temp[w]]
  /\ mine' = [mine EXCEPT ![w] = clock + 1]
  /\ temp' = [temp EXCEPT ![w] = "none"]
  /\ Goto(w, "syncdir")
  /\ UNCHANGED <<dir, result, excused, acked, losses, helper>>

RenameFails(w) ==
  /\ pc[w] = "rename"
  /\ Goto(w, "remove")
  /\ UNCHANGED <<disk, temp, mine, result, excused, acked, losses, helper>>

\* remove_temp, whose own failure is ignored.
RemoveTemp(w) ==
  /\ pc[w] = "remove"
  /\ \/ temp' = [temp EXCEPT ![w] = "none"] /\ UNCHANGED excused
     \/ excused' = [excused EXCEPT ![w] = TRUE] /\ UNCHANGED temp
  /\ End(w, "err")
  /\ UNCHANGED <<disk, mine, acked, losses, helper>>

\* Mutant: the directory is not synced, yet the call succeeds.
SyncDirectorySkipped(w) ==
  /\ pc[w] = "syncdir"
  /\ acked' = IF mine[w] > acked THEN mine[w] ELSE acked
  /\ End(w, "ok")
  /\ UNCHANGED <<disk, temp, mine, excused, losses, helper>>

\* The directory is synced with the target it has now, and the call succeeds.
SyncDirectory(w) ==
  /\ pc[w] = "syncdir"
  /\ onDisk' = {target}
  /\ acked' = IF mine[w] > acked THEN mine[w] ELSE acked
  /\ End(w, "ok")
  /\ UNCHANGED <<dir, target, clock, contents, temp, mine, excused, losses,
                 helper>>

\* Mutant: a failed sync of the directory ends as the other errors do.
SyncDirectoryFailsAlike(w) ==
  /\ pc[w] = "syncdir"
  /\ Goto(w, "remove")
  /\ UNCHANGED <<disk, temp, mine, result, excused, acked, losses, helper>>

\* The one error that comes after the replacement, told by its own text.
SyncDirectoryFails(w) ==
  /\ pc[w] = "syncdir"
  /\ End(w, "unsynced")
  /\ UNCHANGED <<disk, temp, mine, excused, acked, losses, helper>>

\* The process is killed (Ctrl-C, the systemd timeout): a write may be halfway.
Kill(w) ==
  /\ pc[w] # "idle"
  /\ temp' \in {temp} \cup IF pc[w] # "write" THEN {}
       ELSE {[temp EXCEPT ![w] = data] : data \in {"partial", "unsynced"}}
  /\ excused' = [excused EXCEPT ![w] = TRUE]
  /\ End(w, "killed")
  /\ UNCHANGED <<disk, mine, acked, losses, helper>>

------------------------------------------------------------------------------
(* The file system on its own, and the helper. *)

\* Write-back: everything that is visible becomes durable.
Flush ==
  /\ onDisk' = {target}
  /\ dir' = IF dir = "volatile" THEN "durable" ELSE dir
  /\ UNCHANGED <<target, clock, contents, call, acked, losses, helper>>

\* The machine goes down and comes back.
PowerLoss ==
  /\ losses < MaxLosses
  /\ losses' = losses + 1
  /\ \/ /\ dir' = IF dir = "volatile" THEN "durable" ELSE dir
        /\ target' \in onDisk
        /\ UNCHANGED acked
     \/ /\ dir = "volatile"
        /\ dir' = "none"
        /\ target' = 0
        /\ acked' = 0
  /\ onDisk' = {target'}
  /\ contents' = [v \in Version |->
                    IF contents[v] = "unsynced" THEN "partial" ELSE contents[v]]
  /\ pc' = [w \in Writer |-> "idle"]
  /\ mine' = [w \in Writer |-> 0]
  /\ temp' = [w \in Writer |-> "none"]
  /\ excused' = [w \in Writer |-> FALSE]
  /\ result' = [w \in Writer |->
                  IF pc[w] = "idle" THEN "none" ELSE "killed"]
  /\ reader' = "idle"
  /\ since' = 0
  /\ found' = "none"
  /\ UNCHANGED clock

\* The helper tests that the file exists, and exits if it does not.
HelperLooks ==
  /\ reader = "idle"
  /\ since' = target
  /\ IF target = 0 THEN found' = "absent" /\ UNCHANGED reader
                   ELSE found' = "none" /\ reader' = "count"
  /\ UNCHANGED <<disk, call, acked, losses>>

\* A file shows its line when it holds all of it.
Readable == target > 0 /\ contents[target] # "partial"

\* `wc -c' opens the file first, `read' opens it again; a byte count other than
\* seven or a line that is not canonical is fatal.
HelperCounts ==
  /\ reader = "count"
  /\ IF Readable THEN reader' = "line" /\ UNCHANGED found
                 ELSE reader' = "idle" /\ found' = "invalid"
  /\ UNCHANGED <<disk, call, acked, losses, since>>

HelperReads ==
  /\ reader = "line"
  /\ reader' = "idle"
  /\ found' = IF Readable THEN "color" ELSE "invalid"
  /\ UNCHANGED <<disk, call, acked, losses, since>>

------------------------------------------------------------------------------

Step(w) ==
  \/ Persist(w) \/ EnsureDirectory(w) \/ WriteTemp(w) \/ SetPermissions(w)
  \/ SyncTemp(w) \/ Rename(w) \/ RenameFails(w) \/ RemoveTemp(w)
  \/ SyncDirectory(w) \/ SyncDirectoryFails(w) \/ Kill(w)

Next ==
  \/ \E w \in Writer : Step(w)
  \/ Flush \/ PowerLoss
  \/ HelperLooks \/ HelperCounts \/ HelperReads

Spec == Init /\ [][Next]_vars

------------------------------------------------------------------------------
(* Properties *)

\* No reader, now or after a power loss, finds a file that is not one whole
\* canonical line: the version in place and every version that may come back
\* were synced before they were renamed.
NeverTorn ==
  \A v \in (onDisk \cup {target}) \ {0} : contents[v] = "synced"

\* Once a call returned Ok, a power loss leaves its version or a newer one,
\* unless it takes away the state directory itself, made since the last
\* write-back.
DurableOnceAcked == \A v \in onDisk : v >= acked

\* A temporary file outlives its call only if the process was killed or the
\* removal failed.
TempsAccounted ==
  \A w \in Writer : (pc[w] = "idle" /\ temp[w] # "none") => excused[w]

\* What a failed call leaves is told by its error: after the error of the
\* directory sync a reader finds the call's own version or a newer one, and
\* after any other error the call has replaced nothing.
ErrorsTell ==
  \A w \in Writer :
    /\ result[w] = "unsynced" => mine[w] \in 1..target
    /\ result[w] = "err" => mine[w] = 0

\* The two opens of the helper agree enough: whatever writers do between them,
\* it finds the color of a version at least as new as the one it started with,
\* and never an invalid or vanished file.
HelperReadsWhole ==
  /\ found # "invalid"
  /\ reader # "idle" \/ found = "color" => target >= since /\ target > 0

\* The file implements the register.
Register == INSTANCE ColorRegister WITH
  value <- target,
  safe <- onDisk \cup IF dir = "volatile" THEN {0} ELSE {}

IsRegister == Register!Spec
=============================================================================
