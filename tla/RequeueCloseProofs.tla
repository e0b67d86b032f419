------------------------- MODULE RequeueCloseProofs -------------------------
(***************************************************************************)
(* Proofs about how Conn.Close ends, for any values of the constants other *)
(* than StartupRace: when Close returns, every write a batched writer      *)
(* accepted has had its callback and badger is no longer open            *)
(* (ClosedQuiescent), and from then on no write is accepted               *)
(* (NoWriteAfterClose).  The start-up race breaks NoWriteAfterClose (run  *)
(* startup_race), so these theorems assume it away.                       *)
(***************************************************************************)
EXTENDS RequeueProofs

USE ConstantsAssumption

(* The messages of a queue of committed writes.                            *)
CbqMsgs(q) == {q[i].msg : i \in DOMAIN q}

(* The messages a worker's writer still owes a callback: those in its     *)
(* open transaction and those committed but not yet called back.          *)
Owed(w) == Range(txn[w]) \cup CbqMsgs(cbq[w])

(* Every accepted write has been called back or is still owed by some     *)
(* worker's writer: Set hands it to the transaction, the commit hands the *)
(* transaction to the callback queue, the callback runs.                  *)
Accounted ==
    \A m \in accepted : m \in called \/ \E w \in Workers : m \in Owed(w)

(* A worker that is absent or has run its deferred Done owes nothing and  *)
(* holds nothing; only a running worker holds a received message.         *)
StoppedEmpty ==
    \A w \in Workers :
        /\ wstate[w] # "running" => holding[w] = NoMsg
        /\ wstate[w] \in {"absent", "done"} => txn[w] = <<>> /\ cbq[w] = <<>>

(* Without the start-up race, Close only starts once Connect has failed   *)
(* or is serving, so initBadger and initNatsConsumers are behind it.      *)
CloseAfterStart ==
    closing # "idle" => boot \in {"failed", "serving"}

(* Once natsConsumers.SignalAndWait has returned, no worker is running,   *)
(* and once Close has returned the badger closer goroutine has exited.    *)
StoppedAtClose ==
    /\ closing \in {"badger", "done"} =>
           \A w \in Workers : wstate[w] \in {"absent", "done"}
    /\ closing = "done" => ~badgerGo

(* An open badger has its closer goroutine still waiting to close it.     *)
OpenHasCloser ==
    db = "open" => badgerGo

QInv ==
    /\ TypeOK
    /\ Accounted
    /\ StoppedEmpty
    /\ CloseAfterStart
    /\ StoppedAtClose
    /\ OpenHasCloser


-----------------------------------------------------------------------------
(* Lemmas about the callback queues.                                       *)

(* A commit appends its transaction to the callback queue, every entry    *)
(* with the same result.                                                   *)
LEMMA CbqMsgsCommit ==
  ASSUME NEW q \in Seq(Entry), NEW t \in Seq(Msgs), NEW ok \in BOOLEAN
  PROVE  CbqMsgs(q \o [i \in DOMAIN t |-> [msg |-> t[i], ok |-> ok]])
           = CbqMsgs(q) \cup Range(t)
<1> DEFINE s == [i \in DOMAIN t |-> [msg |-> t[i], ok |-> ok]]
<1>1. s \in Seq(Entry) /\ Len(s) = Len(t) /\ DOMAIN t = 1..Len(t)
  <2>1. DOMAIN t = 1..Len(t) /\ Len(t) \in Nat
    OBVIOUS
  <2>2. s \in [1..Len(t) -> Entry]
    BY <2>1 DEF Entry
  <2>3. QED
    BY <2>1, <2>2
<1>2. /\ DOMAIN (q \o s) = 1..(Len(q) + Len(s))
      /\ \A i \in 1..Len(q) : (q \o s)[i] = q[i]
      /\ \A i \in 1..Len(s) : (q \o s)[Len(q) + i] = s[i]
  BY <1>1
<1>3. CbqMsgs(q \o s) \subseteq CbqMsgs(q) \cup Range(t)
  <2> SUFFICES ASSUME NEW i \in 1..(Len(q) + Len(s))
               PROVE  (q \o s)[i].msg \in CbqMsgs(q) \cup Range(t)
    <3>1. CbqMsgs(q \o s) = {(q \o s)[i].msg : i \in 1..(Len(q) + Len(s))}
      BY <1>2 DEF CbqMsgs
    <3>2. QED
      BY <3>1, Zenon
  <2>1. CASE i <= Len(q)
    BY <1>2, <2>1 DEF CbqMsgs
  <2>2. CASE i > Len(q)
    <3>1. i - Len(q) \in 1..Len(s) /\ i = Len(q) + (i - Len(q))
      BY <2>2
    <3>2. (q \o s)[i] = s[i - Len(q)]
      BY <1>2, <3>1
    <3>3. QED
      BY SMTT(30), <1>1, <3>1, <3>2 DEF Range
  <2>3. QED
    BY <2>1, <2>2
<1>4. CbqMsgs(q) \subseteq CbqMsgs(q \o s)
  <2> SUFFICES ASSUME NEW i \in DOMAIN q PROVE q[i].msg \in CbqMsgs(q \o s)
    BY DEF CbqMsgs
  <2>1. i \in 1..Len(q) /\ i \in DOMAIN (q \o s) /\ (q \o s)[i] = q[i]
    BY <1>2
  <2>2. QED
    BY <2>1 DEF CbqMsgs
<1>5. Range(t) \subseteq CbqMsgs(q \o s)
  <2> SUFFICES ASSUME NEW j \in DOMAIN t PROVE t[j] \in CbqMsgs(q \o s)
    BY DEF Range
  <2>1. Len(q) + j \in DOMAIN (q \o s) /\ (q \o s)[Len(q) + j] = s[j]
    BY <1>1, <1>2
  <2>2. QED
    BY <2>1 DEF CbqMsgs
<1>6. QED
  BY <1>3, <1>4, <1>5

(* A callback takes the head of its queue.                                 *)
LEMMA CbqMsgsTail ==
  ASSUME NEW q \in Seq(Entry), q # <<>>
  PROVE  CbqMsgs(q) \subseteq {Head(q).msg} \cup CbqMsgs(Tail(q))
<1> SUFFICES ASSUME NEW i \in DOMAIN q
             PROVE  q[i].msg \in {Head(q).msg} \cup CbqMsgs(Tail(q))
  BY SMTT(30) DEF CbqMsgs
<1>1. CASE i = 1
  BY <1>1
<1>2. CASE i # 1
  <2>1. i - 1 \in DOMAIN Tail(q) /\ Tail(q)[i - 1] = q[i]
    BY <1>2
  <2>2. QED
    BY <2>1 DEF CbqMsgs
<1>3. QED
  BY <1>1, <1>2

-----------------------------------------------------------------------------
(* The strengthening is inductive.                                         *)

LEMMA InitQInv == Init => QInv
<1> SUFFICES ASSUME Init PROVE QInv
  OBVIOUS
<1>1. TypeOK
  BY SMTT(30), InitTypeOK
<1>2. QED
  BY <1>1 DEF Init, QInv, Accounted, StoppedEmpty, CloseAfterStart,
             StoppedAtClose, OpenHasCloser

LEMMA NextQInv ==
  ASSUME ~StartupRace
  PROVE  QInv /\ [Next]_vars => QInv'
<1> SUFFICES ASSUME QInv, [Next]_vars PROVE QInv'
  OBVIOUS
<1>0. TypeOK'
  BY NextTypeOK DEF QInv
<1> USE <1>0 DEF QInv, TypeOK, bootVars, busVars, workerVars, dataVars, closeVars
<1> USE DEF StoppedEmpty, CloseAfterStart, StoppedAtClose, OpenHasCloser
(* The steps that change neither the writes nor the workers.               *)
<1>1. ASSUME UNCHANGED <<txn, cbq, accepted, called>> PROVE Accounted'
  BY <1>1 DEF Accounted, Owed, CbqMsgs
<1>2. CASE InitBadger
  BY <1>1, <1>2 DEF InitBadger
<1>3. CASE InitNATS
  BY <1>1, <1>3 DEF InitNATS
<1>4. CASE InitNATSFail
  BY <1>1, <1>4 DEF InitNATSFail, StartClose
<1>5. CASE InitConsumers
  <2>1. closing = "idle" /\ UNCHANGED <<txn, cbq, accepted, called, closeVars, db>>
    BY <1>5 DEF InitConsumers
  <2>2. QED
    BY <1>1, <1>5, <2>1 DEF InitConsumers
<1>6. ASSUME NEW m \in Msgs, Publish(m) PROVE QInv'
  BY <1>1, <1>6 DEF Publish
<1>7. ASSUME NEW m \in Msgs, Deliver(m) PROVE QInv'
  BY <1>1, <1>7 DEF Deliver
<1>8. CASE Shutdown
  BY <1>1, <1>8 DEF Shutdown, StartClose
<1>9. CASE BusClosed
  BY <1>1, <1>9 DEF BusClosed, BusClosedPhases, StartClose
<1>10. ASSUME NEW w \in Workers, Receive(w) PROVE QInv'
  <2>1. UNCHANGED <<txn, cbq, accepted, called>>
    BY <1>10 DEF Receive
  <2>2. QED
    BY <1>1, <1>10, <2>1 DEF Receive
<1>11. ASSUME NEW w \in Workers, Ingest(w) PROVE QInv'
  <2>1. wstate[w] = "running"
    BY <1>11 DEF Ingest
  <2>2. Accounted'
    <3>1. CASE holding[w] \in Oversized
      BY <1>1, <1>11, <3>1 DEF Ingest
    <3>2. CASE holding[w] \notin Oversized
      <4>1. /\ holding[w] \in Msgs
            /\ txn' = [txn EXCEPT ![w] = Append(txn[w], holding[w])]
            /\ accepted' = accepted \cup {holding[w]}
            /\ UNCHANGED <<cbq, called>>
        BY <1>11, <3>2 DEF Ingest
      <4>2. Range(txn'[w]) = Range(txn[w]) \cup {holding[w]}
        BY <4>1, RangeAppend
      <4>3. \A v \in Workers : Owed(v) \subseteq Owed(v)'
        BY <4>1, <4>2 DEF Owed
      <4>4. holding[w] \in Owed(w)'
        BY <4>2 DEF Owed
      <4>5. QED
        BY <4>1, <4>3, <4>4 DEF Accounted
    <3>3. QED
      BY <3>1, <3>2
  <2>3. QED
    BY SMTT(30), <1>11, <2>1, <2>2 DEF Ingest
<1>12. ASSUME NEW w \in Workers, Stop(w) PROVE QInv'
  <2>1. UNCHANGED <<txn, cbq, accepted, called>>
    BY <1>12 DEF Stop
  <2>2. QED
    BY <1>1, <1>12, <2>1 DEF Stop
<1>13. ASSUME NEW w \in Workers, Commit(w) PROVE QInv'
  <2>1. PICK ok \in CommitOutcomes :
          cbq' = [cbq EXCEPT ![w] =
                    @ \o [i \in DOMAIN txn[w] |-> [msg |-> txn[w][i], ok |-> ok]]]
    BY <1>13 DEF Commit
  <2>2. ok \in BOOLEAN
    BY DEF CommitOutcomes
  <2>3. /\ txn' = [txn EXCEPT ![w] = <<>>]
        /\ UNCHANGED <<wstate, holding, accepted, called, closeVars, boot, db>>
        /\ wstate[w] \in {"running", "closing"}
    BY <1>13 DEF Commit
  <2>4. Owed(w)' = Owed(w)
    <3>1. CbqMsgs(cbq'[w]) = CbqMsgs(cbq[w]) \cup Range(txn[w])
      BY <2>1, <2>2, CbqMsgsCommit
    <3>2. Range(txn'[w]) = {}
      BY SMTT(30), <2>3 DEF Range
    <3>3. QED
      BY <3>1, <3>2 DEF Owed
  <2>5. \A v \in Workers \ {w} : Owed(v)' = Owed(v)
    BY <2>1, <2>3 DEF Owed
  <2>6. Accounted'
    <3> SUFFICES ASSUME NEW m \in accepted', m \notin called'
                 PROVE  \E v \in Workers : m \in Owed(v)'
      BY DEF Accounted
    <3>1. PICK v \in Workers : m \in Owed(v)
      BY <2>3 DEF Accounted
    <3>2. QED
      BY <2>4, <2>5, <3>1
  <2>7. txn'[w] = <<>> /\ cbq'[w] \in Seq(Entry)
    BY <2>3
  <2>8. StoppedEmpty'
    BY <2>1, <2>3, <2>7
  <2>9. QED
    BY SMTT(30), <2>3, <2>6, <2>8
<1>14. ASSUME NEW w \in Workers, Callback(w) PROVE QInv'
  <2>1. /\ cbq[w] # <<>>
        /\ cbq' = [cbq EXCEPT ![w] = Tail(cbq[w])]
        /\ called' = called \cup {Head(cbq[w]).msg}
        /\ UNCHANGED <<wstate, holding, txn, accepted, closeVars, boot, db>>
    BY <1>14 DEF Callback
  <2>2. CbqMsgs(cbq[w]) \subseteq {Head(cbq[w]).msg} \cup CbqMsgs(cbq'[w])
    BY <2>1, CbqMsgsTail
  <2>3. Owed(w) \subseteq {Head(cbq[w]).msg} \cup Owed(w)'
    BY <2>1, <2>2 DEF Owed
  <2>4. \A v \in Workers \ {w} : Owed(v)' = Owed(v)
    BY <2>1 DEF Owed
  <2>5. Accounted'
    <3> SUFFICES ASSUME NEW m \in accepted', m \notin called'
                 PROVE  \E v \in Workers : m \in Owed(v)'
      BY SMTT(30) DEF Accounted
    <3>1. PICK v \in Workers : m \in Owed(v)
      BY SMTT(30), <2>1 DEF Accounted
    <3>2. CASE v = w
      BY <2>1, <2>3, <3>1, <3>2
    <3>3. CASE v # w
      BY <2>4, <3>1, <3>3
    <3>4. QED
      BY <3>2, <3>3
  <2>6. wstate[w] \in {"running", "closing"}
    BY <2>1
  <2>7. QED
    BY SMTT(30), <2>1, <2>5, <2>6
<1>15. ASSUME NEW w \in Workers, WriterClosed(w) PROVE QInv'
  <2>1. UNCHANGED <<txn, cbq, accepted, called>>
    BY <1>15 DEF WriterClosed
  <2>2. QED
    BY <1>1, <1>15, <2>1 DEF WriterClosed
<1>16. CASE NatsCloser
  BY <1>1, <1>16 DEF NatsCloser
<1>17. CASE CloseConsumers
  BY <1>1, <1>17 DEF CloseConsumers
<1>18. CASE CloseBadger
  BY <1>1, <1>18 DEF CloseBadger, ConsumersRunning
<1>19. CASE BadgerCloser
  BY <1>1, <1>19 DEF BadgerCloser
<1>20. CASE CloseDone
  BY SMTT(30), <1>1, <1>20 DEF CloseDone
<1>21. CASE UNCHANGED vars
  BY <1>1, <1>21 DEF vars
<1>22. QED
  BY <1>2, <1>3, <1>4, <1>5, <1>6, <1>7, <1>8, <1>9, <1>10, <1>11, <1>12,
     <1>13, <1>14, <1>15, <1>16, <1>17, <1>18, <1>19, <1>20, <1>21 DEF Next

-----------------------------------------------------------------------------
(* Without the start-up race, when Conn.Close returns (c.closed is        *)
(* closed) every write a batched writer accepted has been called back and *)
(* badger is not open: the consumers' SignalAndWait waits for each        *)
(* worker's deferred wb.Close, which commits and calls back everything,   *)
(* and badger's SignalAndWait waits for the goroutine that closes the DB. *)
THEOREM ClosedQuiescentHolds ==
  ASSUME ~StartupRace
  PROVE  Spec => []ClosedQuiescent
<1>1. Init => QInv
  BY InitQInv
<1>2. QInv /\ [Next]_vars => QInv'
  BY NextQInv
<1>3. QInv => ClosedQuiescent
  <2> SUFFICES ASSUME QInv, closing = "done"
               PROVE  accepted \subseteq called /\ db # "open"
    BY DEF ClosedQuiescent
  <2>1. \A w \in Workers : Owed(w) = {}
    BY DEF QInv, StoppedAtClose, StoppedEmpty, Owed, CbqMsgs, Range
  <2>2. accepted \subseteq called
    BY <2>1 DEF QInv, Accounted
  <2>3. db # "open"
    BY SMTT(30) DEF QInv, StoppedAtClose, OpenHasCloser
  <2>4. QED
    BY <2>2, <2>3
<1>4. QED
  BY <1>1, <1>2, <1>3, PTL DEF Spec

(* Without the start-up race, once Conn.Close has returned no batched     *)
(* writer accepts another write: every worker has returned from its       *)
(* receive loop, so no processIngressMessage can call Set.                *)
THEOREM NoWriteAfterCloseHolds ==
  ASSUME ~StartupRace
  PROVE  Spec => NoWriteAfterClose
<1>1. QInv /\ [Next]_vars => (closing = "done" => accepted' = accepted)
  <2> SUFFICES ASSUME QInv, [Next]_vars, closing = "done"
               PROVE  accepted' = accepted
    OBVIOUS
  <2>1. \A w \in Workers : holding[w] = NoMsg
    BY SMTT(30) DEF QInv, StoppedAtClose, StoppedEmpty
  <2>2. \A w \in Workers : ~Ingest(w)
    BY <2>1 DEF Ingest
  <2>3. QED
    BY <2>2 DEF Next, vars, dataVars, InitBadger, InitNATS, InitNATSFail,
           InitConsumers, Publish, Deliver, Shutdown, BusClosed, Receive,
           Stop, Commit, Callback, WriterClosed, NatsCloser, CloseConsumers,
           CloseBadger, BadgerCloser, CloseDone
<1>2. QED
  BY <1>1, InitQInv, NextQInv, PTL DEF Spec, NoWriteAfterClose

=============================================================================
