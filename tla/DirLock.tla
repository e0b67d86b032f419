------------------------------ MODULE DirLock ------------------------------
(***************************************************************************)
(* The data-directory lock of internal/badger/dir_unix.go: service         *)
(* instances (read-write, or read-only with a shared lock) call            *)
(* AcquireDirectoryLock on the same directory and later Release.  The      *)
(* flock is held while the directory handle f is open; the OS drops it     *)
(* when a process dies.  The pid file is advisory: one path, whose content *)
(* is the pid of the last read-write process that wrote it.                *)
(***************************************************************************)
EXTENDS Naturals

CONSTANTS
    Procs,      \* processes opening the same data directory
    ReadOnly,   \* those opening it read-only (shared lock, no pid file)
    NoPid       \* sentinel: there is no pid file

ASSUME DirLockAssumption ==
    /\ ReadOnly \subseteq Procs
    /\ NoPid \notin Procs

VARIABLES
    pc,         \* per process: where it is in Acquire / Release
    pidFile     \* the process whose pid the pid file holds, or NoPid

vars == <<pc, pidFile>>

RW == Procs \ ReadOnly

PCs == {"idle", "locked", "held", "unlocking", "released", "failed", "crashed"}

(* Processes whose directory handle holds the flock.                       *)
Holders == {p \in Procs : pc[p] \in {"locked", "held", "unlocking"}}

(* flock(LOCK_EX|LOCK_NB) needs no other holder; LOCK_SH only no           *)
(* exclusive one.                                                          *)
FlockGranted(p) ==
    IF p \in ReadOnly THEN Holders \cap RW = {} ELSE Holders = {}

-----------------------------------------------------------------------------
FlockPidBeforeCheck(p) ==
    /\ pc[p] = "idle"
    /\ pc' = [pc EXCEPT ![p] = IF ~FlockGranted(p) THEN "failed"
                               ELSE IF p \in ReadOnly THEN "held"
                               ELSE "locked"]
    /\ pidFile' = IF p \in RW THEN p ELSE pidFile

(* AcquireDirectoryLock up to the flock.  filepath.Abs or os.Open may     *)
(* fail before any lock is taken; a refused flock closes the handle.       *)
(* Either way the error ("Another process is using this Badger database")  *)
(* is returned and nothing else is touched.                                *)
Flock(p) ==
    /\ pc[p] = "idle"
    /\ \/ pc' = [pc EXCEPT ![p] = "failed"]
       \/ /\ FlockGranted(p)
          /\ pc' = [pc EXCEPT ![p] = IF p \in ReadOnly THEN "held" ELSE "locked"]
    /\ UNCHANGED pidFile

(* A read-write process overwrites whatever pid file is there.  If the     *)
(* write fails, f is closed (dropping the lock) and the error returned;    *)
(* WriteFile opens with O_TRUNC, so a failure after the open leaves an     *)
(* empty or partial file that names no process.                           *)
WritePid(p) ==
    /\ pc[p] = "locked"
    /\ \/ /\ pidFile' = p
          /\ pc' = [pc EXCEPT ![p] = "held"]
       \/ /\ pc' = [pc EXCEPT ![p] = "failed"]
          /\ pidFile' \in {pidFile, NoPid}

(* Release, read-write: remove the pid file first ("It's important that we *)
(* remove the pid file first").  os.Remove removes the path, whoever wrote *)
(* it.  If it fails its error is only kept in err: f is still closed and  *)
(* the error returned, with the pid file left in place.                   *)
RemovePid(p) ==
    /\ pc[p] = "held"
    /\ p \in RW
    /\ pidFile' \in {NoPid, pidFile}
    /\ pc' = [pc EXCEPT ![p] = "unlocking"]

(* Release: close f, which drops the flock.  A read-only process goes      *)
(* straight here.                                                          *)
CloseDir(p) ==
    /\ \/ pc[p] = "unlocking"
       \/ pc[p] = "held" /\ p \in ReadOnly
    /\ pc' = [pc EXCEPT ![p] = "released"]
    /\ UNCHANGED pidFile

(* The process dies: the kernel drops its flock, the pid file stays.       *)
Crash(p) ==
    /\ pc[p] \in {"locked", "held", "unlocking"}
    /\ pc' = [pc EXCEPT ![p] = "crashed"]
    /\ UNCHANGED pidFile

(* The process (or a new one in its place) opens the directory again.      *)
Restart(p) ==
    /\ pc[p] \in {"released", "failed", "crashed"}
    /\ pc' = [pc EXCEPT ![p] = "idle"]
    /\ UNCHANGED pidFile

Init ==
    /\ pc = [p \in Procs |-> "idle"]
    /\ pidFile = NoPid

Next ==
    \E p \in Procs :
        \/ Flock(p) \/ WritePid(p) \/ RemovePid(p) \/ CloseDir(p)
        \/ Crash(p) \/ Restart(p)

Spec == Init /\ [][Next]_vars

-----------------------------------------------------------------------------
TypeOK ==
    /\ pc \in [Procs -> PCs]
    /\ pidFile \in Procs \cup {NoPid}

(* While a read-write process holds the directory with its pid written,    *)
(* the pid file names it: a second instance that fails to lock does not    *)
(* touch it (spec S5), and an earlier holder's Release cannot remove the   *)
(* file of the next one, because Release removes the file before it drops *)
(* the lock.                                                               *)
PidFileOwned ==
    \A p \in RW : pc[p] = "held" => pidFile = p

(* Inductive strengthening used by DirLockProofs: a read-write process in *)
(* the flock holds it alone (the kernel's LOCK_EX semantics).              *)
ExclusiveRW ==
    \A p \in Holders \cap RW : Holders = {p}

IInv == TypeOK /\ ExclusiveRW /\ PidFileOwned

=============================================================================
