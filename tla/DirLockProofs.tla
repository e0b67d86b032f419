--------------------------- MODULE DirLockProofs ---------------------------
(* Proofs that the directory lock's pid file names its holder, for any     *)
(* number of processes and any split into read-write and read-only.        *)
EXTENDS DirLock, TLAPS

USE DirLockAssumption

(* The initial state satisfies the inductive invariant: nobody holds the  *)
(* flock and there is no pid file.                                         *)
LEMMA InitIInv == Init => IInv
BY DEF Init, IInv, TypeOK, PCs, RW, ExclusiveRW, Holders, PidFileOwned

(* Every step of AcquireDirectoryLock, Release, a crash or a restart      *)
(* preserves the inductive invariant.                                     *)
LEMMA NextIInv == IInv /\ [Next]_vars => IInv'
<1> SUFFICES ASSUME IInv, [Next]_vars PROVE IInv'
    OBVIOUS
<1> USE DEF IInv, TypeOK, PCs, RW
<1>1. ASSUME NEW p \in Procs, Flock(p) PROVE IInv'
  <2>0. CASE pc' = [pc EXCEPT ![p] = "failed"]
    <3>1. Holders' = Holders
      BY <1>1, <2>0 DEF Flock, Holders
    <3> QED BY <1>1, <2>0, <3>1 DEF Flock, ExclusiveRW, PidFileOwned
  <2>1. CASE FlockGranted(p) /\ p \in RW
          /\ pc' = [pc EXCEPT ![p] = "locked"]
    <3>1. Holders = {}
      BY <1>1, <2>1 DEF FlockGranted
    <3>2. Holders' = {p}
      BY <1>1, <2>1, <3>1 DEF Flock, Holders
    <3> QED BY <1>1, <2>1, <3>2 DEF Flock, ExclusiveRW, PidFileOwned
  <2>2. CASE FlockGranted(p) /\ p \in ReadOnly
          /\ pc' = [pc EXCEPT ![p] = "held"]
    <3>1. Holders \cap RW = {}
      BY <1>1, <2>2 DEF FlockGranted
    <3>2. Holders' = Holders \cup {p}
      BY <1>1, <2>2 DEF Flock, Holders
    <3> QED BY <1>1, <2>2, <3>1, <3>2 DEF Flock, ExclusiveRW, PidFileOwned
  <2> QED BY <1>1, <2>0, <2>1, <2>2 DEF Flock
<1>2. ASSUME NEW p \in Procs, WritePid(p) PROVE IInv'
  <2>1. Holders' \subseteq Holders
    BY <1>2 DEF WritePid, Holders
  <2>2. p \in Holders
    BY <1>2 DEF WritePid, Holders
  \* only p itself writes the pid file, and it is alone in the flock
  <2>3. CASE pidFile' = p /\ pc' = [pc EXCEPT ![p] = "held"]
    BY <1>2, <2>1, <2>2, <2>3 DEF WritePid, ExclusiveRW, PidFileOwned,
                            Holders
  <2>4. CASE pc' = [pc EXCEPT ![p] = "failed"] /\ pidFile' \in {pidFile, NoPid}
    BY <1>2, <2>1, <2>2, <2>4 DEF WritePid, ExclusiveRW, PidFileOwned,
                            Holders
  <2> QED BY <1>2, <2>3, <2>4 DEF WritePid
<1>3. ASSUME NEW p \in Procs, RemovePid(p) PROVE IInv'
  BY <1>3 DEF RemovePid, ExclusiveRW, PidFileOwned,
              Holders
<1>4. ASSUME NEW p \in Procs, CloseDir(p) PROVE IInv'
  BY <1>4 DEF CloseDir, ExclusiveRW, PidFileOwned,
              Holders
<1>5. ASSUME NEW p \in Procs, Crash(p) PROVE IInv'
  BY <1>5 DEF Crash, ExclusiveRW, PidFileOwned,
              Holders
<1>6. ASSUME NEW p \in Procs, Restart(p) PROVE IInv'
  BY <1>6 DEF Restart, ExclusiveRW, PidFileOwned,
              Holders
<1>7. CASE UNCHANGED vars
  BY <1>7 DEF vars, ExclusiveRW, PidFileOwned, Holders
<1> QED BY <1>1, <1>2, <1>3, <1>4, <1>5, <1>6, <1>7 DEF Next

(* While a read-write instance holds the data directory its pid is in the *)
(* pid file: no interleaving of AcquireDirectoryLock, Release (with or    *)
(* without a failed os.Remove), failed or truncated pid writes and        *)
(* crashes of other instances, in any number, breaks this.                *)
THEOREM PidFileCorrect == Spec => []PidFileOwned
<1>1. Init => IInv
  BY InitIInv
<1>2. IInv /\ [Next]_vars => IInv'
  BY NextIInv
<1>3. IInv => PidFileOwned
  BY DEF IInv
<1> QED BY <1>1, <1>2, <1>3, PTL DEF Spec

=============================================================================
