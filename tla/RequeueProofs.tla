--------------------------- MODULE RequeueProofs ---------------------------
(***************************************************************************)
(* Proofs about the ingress pipeline of Requeue.tla: the type invariant,   *)
(* and that every acknowledged message is committed to badger (when       *)
(* neither badger.Open nor a commit fails, with or without the start-up   *)
(* race).                                                                  *)
(***************************************************************************)
EXTENDS Requeue, TLAPS

USE ConstantsAssumption

-----------------------------------------------------------------------------
(* Type correctness.                                                       *)

LEMMA InitTypeOK == Init => TypeOK
<1> SUFFICES ASSUME Init PROVE TypeOK
  OBVIOUS
<1>1. wstate \in [Workers -> {"absent", "running", "closing", "done"}]
      /\ holding \in [Workers -> Msgs \cup {NoMsg}]
  BY DEF Init
<1>2. txn \in [Workers -> Seq(Msgs)] /\ cbq \in [Workers -> Seq(Entry)]
  BY DEF Init
<1>3. sig \in [Closers -> BOOLEAN]
  BY DEF Init
<1>4. QED
  BY <1>1, <1>2, <1>3 DEF Init, TypeOK

(* Close's first step (StartClose) keeps the closer signals and the      *)
(* closing phase in their types.                                          *)
LEMMA StartCloseTypeOK ==
  ASSUME sig \in [Closers -> BOOLEAN],
         closing \in {"idle", "nats", "consumers", "badger", "done"},
         StartClose
  PROVE  /\ sig' \in [Closers -> BOOLEAN]
         /\ closing' \in {"idle", "nats", "consumers", "badger", "done"}
<1>1. CASE closing = "idle"
  BY <1>1 DEF StartClose, Closers
<1>2. CASE closing # "idle"
  BY <1>2 DEF StartClose
<1>3. QED
  BY <1>1, <1>2

LEMMA NextTypeOK == TypeOK /\ [Next]_vars => TypeOK'
<1> SUFFICES ASSUME TypeOK, [Next]_vars PROVE TypeOK'
  OBVIOUS
<1> USE DEF TypeOK, bootVars, busVars, workerVars, dataVars, closeVars
<1>1. CASE InitBadger
  BY <1>1 DEF InitBadger
<1>2. CASE InitNATS
  BY <1>2 DEF InitNATS
<1>3. CASE InitNATSFail
  <2>1. StartClose
    BY <1>3 DEF InitNATSFail
  <2>2. QED
    BY ZenonT(40), <1>3, <2>1, StartCloseTypeOK DEF InitNATSFail
<1>4. CASE InitConsumers
  BY <1>4 DEF InitConsumers
<1>5. ASSUME NEW m \in Msgs, Publish(m) PROVE TypeOK'
  BY <1>5 DEF Publish
<1>6. ASSUME NEW m \in Msgs, Deliver(m) PROVE TypeOK'
  BY <1>6 DEF Deliver
<1>7. CASE Shutdown
  <2>1. StartClose
    BY <1>7 DEF Shutdown
  <2>2. QED
    BY <1>7, <2>1, StartCloseTypeOK DEF Shutdown
<1>8. CASE BusClosed
  <2>1. StartClose
    BY <1>8 DEF BusClosed
  <2>2. QED
    BY <1>8, <2>1, StartCloseTypeOK DEF BusClosed
<1>9. ASSUME NEW w \in Workers, Receive(w) PROVE TypeOK'
  BY <1>9 DEF Receive
<1>10. ASSUME NEW w \in Workers, Ingest(w) PROVE TypeOK'
  <2>1. holding[w] \in Msgs
    BY <1>10 DEF Ingest
  <2>2. txn[w] \in Seq(Msgs)
    OBVIOUS
  <2>3. Append(txn[w], holding[w]) \in Seq(Msgs)
    BY <2>1, <2>2
  <2>4. txn' \in [Workers -> Seq(Msgs)]
    BY ZenonT(40), <1>10, <2>3 DEF Ingest
  <2>5. accepted' \subseteq Msgs /\ hookErr' \subseteq Msgs
    BY <1>10, <2>1 DEF Ingest
  <2>6. holding' \in [Workers -> Msgs \cup {NoMsg}]
    BY <1>10 DEF Ingest
  <2>7. UNCHANGED <<bootVars, busVars, wstate, cbq, db, store, called, acked,
                    closeVars>>
    BY <1>10 DEF Ingest
  <2>8. QED
    BY <2>4, <2>5, <2>6, <2>7
<1>11. ASSUME NEW w \in Workers, Stop(w) PROVE TypeOK'
  BY <1>11 DEF Stop
<1>12. ASSUME NEW w \in Workers, Commit(w) PROVE TypeOK'
  <2>1. PICK ok \in CommitOutcomes :
          /\ store' = IF ok THEN store \cup Range(txn[w]) ELSE store
          /\ cbq' = [cbq EXCEPT ![w] =
                        @ \o [i \in DOMAIN txn[w] |-> [msg |-> txn[w][i], ok |-> ok]]]
    BY <1>12 DEF Commit
  <2>2. ok \in BOOLEAN
    BY DEF CommitOutcomes
  <2>3. txn[w] \in Seq(Msgs) /\ cbq[w] \in Seq(Entry)
    OBVIOUS
  <2>4. Range(txn[w]) \subseteq Msgs
    BY <2>3 DEF Range
  <2>5. [i \in DOMAIN txn[w] |-> [msg |-> txn[w][i], ok |-> ok]] \in Seq(Entry)
    <3>1. DOMAIN txn[w] = 1..Len(txn[w]) /\ Len(txn[w]) \in Nat
      BY <2>3
    <3>2. \A i \in DOMAIN txn[w] : [msg |-> txn[w][i], ok |-> ok] \in Entry
      BY <2>2, <2>3 DEF Entry
    <3>3. QED
      BY <3>1, <3>2
  <2>6. cbq[w] \o [i \in DOMAIN txn[w] |-> [msg |-> txn[w][i], ok |-> ok]] \in Seq(Entry)
    BY <2>3, <2>5
  <2>7. store' \subseteq Msgs
    BY <2>1, <2>4
  <2>8. cbq' \in [Workers -> Seq(Entry)]
    BY <2>1, <2>6
  <2>9. txn' \in [Workers -> Seq(Msgs)]
    BY <1>12 DEF Commit
  <2>10. UNCHANGED <<bootVars, busVars, wstate, holding, db, accepted, called,
                     acked, hookErr, closeVars>>
    BY <1>12 DEF Commit
  <2>11. QED
    BY <2>7, <2>8, <2>9, <2>10
<1>13. ASSUME NEW w \in Workers, Callback(w) PROVE TypeOK'
  <2>1. cbq[w] \in Seq(Entry) /\ cbq[w] # <<>>
    BY <1>13 DEF Callback
  <2>2. Head(cbq[w]) \in Entry /\ Tail(cbq[w]) \in Seq(Entry)
    BY <2>1
  <2>3. Head(cbq[w]).msg \in Msgs
    BY <2>2 DEF Entry
  <2>4. called' \subseteq Msgs /\ acked' \subseteq Msgs
    BY <1>13, <2>3 DEF Callback
  <2>5. cbq' \in [Workers -> Seq(Entry)]
    BY <1>13, <2>2 DEF Callback
  <2>6. UNCHANGED <<bootVars, busVars, wstate, holding, txn, db, store,
                    accepted, hookErr, closeVars>>
    BY <1>13 DEF Callback
  <2>7. QED
    BY <2>4, <2>5, <2>6
<1>14. ASSUME NEW w \in Workers, WriterClosed(w) PROVE TypeOK'
  BY <1>14 DEF WriterClosed
<1>15. CASE NatsCloser
  BY ZenonT(40), <1>15 DEF NatsCloser
<1>16. CASE CloseConsumers
  BY <1>16 DEF CloseConsumers, Closers
<1>17. CASE CloseBadger
  BY <1>17 DEF CloseBadger, Closers
<1>18. CASE BadgerCloser
  BY ZenonT(40), <1>18 DEF BadgerCloser
<1>19. CASE CloseDone
  BY <1>19 DEF CloseDone
<1>20. CASE UNCHANGED vars
  BY <1>20 DEF vars, bootVars, busVars, workerVars, dataVars, closeVars
<1>21. QED
  BY <1>1, <1>2, <1>3, <1>4, <1>5, <1>6, <1>7, <1>8, <1>9, <1>10, <1>11,
     <1>12, <1>13, <1>14, <1>15, <1>16, <1>17, <1>18, <1>19, <1>20 DEF Next

(* The pipeline's state always has the types TypeOK gives it.             *)
THEOREM TypeCorrect == Spec => []TypeOK
BY InitTypeOK, NextTypeOK, PTL DEF Spec

-----------------------------------------------------------------------------
(* Acknowledged messages are committed.                                    *)
(*                                                                         *)
(* AckedDurable is not inductive: a callback acks Head(cbq[w]), so every  *)
(* pending callback must be for a committed write (CallbacksCommitted).   *)
(* (or the connection is closed for good, so no reply can be sent).      *)
(* That needs every commit to succeed while the connection can still     *)
(* carry a reply: workers only exist once Connect is serving              *)
(* (WorkersAfterStart), storage is open from then on until it is closed  *)
(* (StorageOpened), and badger is closed only after every worker is done *)
(* -- the order of the three closer signals -- unless NATSClosedHandler  *)
(* closed the connection during start-up and the workers were started    *)
(* after Close, in which case no reply can reach a producer any more.    *)

CallbacksCommitted ==
    \A w \in Workers : \A i \in DOMAIN cbq[w] :
        \/ cbq[w][i].ok /\ cbq[w][i].msg \in store
        \/ nc = "closed"

WorkersAfterStart ==
    \A w \in Workers : wstate[w] # "absent" => boot = "serving"

StorageOpened ==
    boot # "badger" => db \in {"open", "closed"}

NotConnectedEarly ==
    boot \in {"badger", "nats"} => nc = "none" /\ ~natsGo

WorkersStopped ==
    \A w \in Workers : wstate[w] \in {"absent", "done"}

CloseOrder ==
    /\ db = "closed" => sig["badger"]
    /\ sig["badger"] => (WorkersStopped \/ nc = "closed") /\ closing # "idle"
    /\ closing # "idle" => \/ boot \in {"failed", "serving"}
                           \/ boot = "consumers" /\ nc = "closed"

IInv ==
    /\ TypeOK
    /\ AckedDurable
    /\ CallbacksCommitted
    /\ WorkersAfterStart
    /\ StorageOpened
    /\ NotConnectedEarly
    /\ CloseOrder

LEMMA InitIInv == Init => IInv
<1> SUFFICES ASSUME Init PROVE IInv
  OBVIOUS
<1>1. TypeOK
  BY SMTT(30), InitTypeOK
<1>2. QED
  BY <1>1 DEF Init, IInv, AckedDurable, CallbacksCommitted, WorkersAfterStart,
             StorageOpened, NotConnectedEarly, CloseOrder, WorkersStopped,
             Closers

(* The strengthening is preserved when neither badger.Open nor a commit   *)
(* can fail.                                                               *)
LEMMA NextIInv ==
  ASSUME ~OpenMayFail, ~CommitMayFail
  PROVE  IInv /\ [Next]_vars => IInv'
<1> SUFFICES ASSUME IInv, [Next]_vars PROVE IInv'
  OBVIOUS
<1>0. TypeOK'
  BY SMTT(30), NextTypeOK DEF IInv
<1> USE <1>0 DEF IInv, TypeOK, bootVars, busVars, workerVars, dataVars, closeVars
<1> USE DEF AckedDurable, CallbacksCommitted, WorkersAfterStart,
            StorageOpened, NotConnectedEarly, CloseOrder, WorkersStopped
<1>1. CASE InitBadger
  BY SMTT(30), <1>1 DEF InitBadger
<1>2. CASE InitNATS
  BY SMTT(30), <1>2 DEF InitNATS
<1>3. CASE InitNATSFail
  BY SMTT(30), <1>3 DEF InitNATSFail, StartClose, Closers
<1>4. CASE InitConsumers
  BY SMTT(30), <1>4 DEF InitConsumers
<1>5. ASSUME NEW m \in Msgs, Publish(m) PROVE IInv'
  BY <1>5 DEF Publish
<1>6. ASSUME NEW m \in Msgs, Deliver(m) PROVE IInv'
  BY <1>6 DEF Deliver
<1>7. CASE Shutdown
  BY SMTT(30), <1>7 DEF Shutdown, StartClose, Closers
<1>8. CASE BusClosed
  BY <1>8 DEF BusClosed, BusClosedPhases, StartClose, Closers
<1>9. ASSUME NEW w \in Workers, Receive(w) PROVE IInv'
  BY SMTT(30), <1>9 DEF Receive
<1>10. ASSUME NEW w \in Workers, Ingest(w) PROVE IInv'
  BY SMTT(30), <1>10 DEF Ingest
<1>11. ASSUME NEW w \in Workers, Stop(w) PROVE IInv'
  BY SMTT(30), <1>11 DEF Stop
<1>12. ASSUME NEW w \in Workers, Commit(w) PROVE IInv'
  <2>1. CASE db = "open"
    <3>1. db = "open"
      BY SMTT(30), <1>12, <2>1 DEF Commit
    <3>2. CommitOutcomes = {TRUE}
      BY SMTT(30), <3>1 DEF CommitOutcomes
    <3>3. /\ store' = store \cup Range(txn[w])
          /\ cbq' = [cbq EXCEPT ![w] =
                       @ \o [i \in DOMAIN txn[w] |-> [msg |-> txn[w][i], ok |-> TRUE]]]
      BY SMTT(30), <1>12, <3>2 DEF Commit
    <3>4. CallbacksCommitted'
      <4> SUFFICES ASSUME NEW v \in Workers, NEW i \in DOMAIN cbq'[v]
                   PROVE  \/ cbq'[v][i].ok /\ cbq'[v][i].msg \in store'
                          \/ nc' = "closed"
        BY SMTT(30)
      <4>0. nc' = nc
        BY SMTT(30), <1>12 DEF Commit
      <4>1. CASE v # w
        BY SMTT(30), <3>3, <4>0, <4>1
      <4>2. CASE v = w
        <5> DEFINE s == [j \in DOMAIN txn[w] |-> [msg |-> txn[w][j], ok |-> TRUE]]
        <5>0. DOMAIN txn[w] = 1..Len(txn[w]) /\ Len(txn[w]) \in Nat
          BY SMTT(30)
        <5>1. s \in Seq([msg : Msgs, ok : BOOLEAN]) /\ DOMAIN s = DOMAIN txn[w]
          BY SMTT(30), <5>0 DEF Entry
        <5>2. cbq'[w] = cbq[w] \o s
          BY SMTT(30), <3>3
        <5>3. i \in 1..(Len(cbq[w]) + Len(s))
          BY SMTT(30), <4>2, <5>1, <5>2 DEF Entry
        <5>4. CASE i <= Len(cbq[w])
          BY SMTT(30), <4>0, <4>2, <5>1, <5>2, <5>3, <5>4, <3>3 DEF Entry
        <5>5. CASE i > Len(cbq[w])
          <6>1. cbq'[w][i] = s[i - Len(cbq[w])]
            BY SMTT(30), <5>1, <5>2, <5>3, <5>5 DEF Entry
          <6>0. i - Len(cbq[w]) \in DOMAIN txn[w]
            BY SMTT(30), <5>0, <5>1, <5>3, <5>5
          <6>2. s[i - Len(cbq[w])].ok /\ s[i - Len(cbq[w])].msg \in Range(txn[w])
            BY SMTT(30), <6>0 DEF Range
          <6>3. QED
            BY SMTT(30), <4>2, <6>1, <6>2, <3>3
        <5>6. QED
          BY SMTT(30), <5>4, <5>5, <5>3
      <4>3. QED
        BY SMTT(30), <4>1, <4>2
    <3>5. QED
      BY ZenonT(40), <1>12, <3>3, <3>4 DEF Commit
  <2>2. CASE db # "open"
    <3>1. wstate[w] \in {"running", "closing"}
      BY <1>12 DEF Commit
    <3>2. db = "closed"
      BY <2>2, <3>1
    <3>3. nc = "closed"
      BY SMTT(30), <3>1, <3>2
    <3>4. store \subseteq store' /\ UNCHANGED <<nc, db, sig, closing, boot, wstate, acked>>
      BY SMTT(30), <1>12 DEF Commit
    <3>5. CallbacksCommitted'
      BY SMTT(30), <3>3, <3>4
    <3>6. QED
      BY <1>12, <3>4, <3>5 DEF Commit
  <2>3. QED
    BY SMTT(30), <2>1, <2>2
<1>13. ASSUME NEW w \in Workers, Callback(w) PROVE IInv'
  <2>1. cbq[w] # <<>> /\ cbq[w] \in Seq(Entry)
    BY SMTT(30), <1>13 DEF Callback
  <2>2. nc = "connected" => Head(cbq[w]).msg \in store
    BY SMTT(30), <2>1
  <2>3. AckedDurable'
    BY SMTT(30), <1>13, <2>2 DEF Callback
  <2>4. CallbacksCommitted'
    <3> SUFFICES ASSUME NEW v \in Workers, NEW i \in DOMAIN cbq'[v]
                 PROVE  \/ cbq'[v][i].ok /\ cbq'[v][i].msg \in store'
                        \/ nc' = "closed"
      OBVIOUS
    <3>1. CASE v # w
      BY SMTT(30), <1>13, <3>1 DEF Callback
    <3>2. CASE v = w
      <4>1. cbq'[w] = Tail(cbq[w])
        BY SMTT(30), <1>13 DEF Callback
      <4>2. i + 1 \in DOMAIN cbq[w] /\ Tail(cbq[w])[i] = cbq[w][i + 1]
        BY SMTT(30), <2>1, <4>1, <3>2
      <4>3. QED
        BY SMTT(30), <1>13, <3>2, <4>1, <4>2 DEF Callback
    <3>3. QED
      BY <3>1, <3>2
  <2>5. QED
    BY SMTT(30), <1>13, <2>3, <2>4 DEF Callback
<1>14. ASSUME NEW w \in Workers, WriterClosed(w) PROVE IInv'
  BY SMTT(30), <1>14 DEF WriterClosed
<1>15. CASE NatsCloser
  BY SMTT(30), <1>15 DEF NatsCloser
<1>16. CASE CloseConsumers
  BY SMTT(30), <1>16 DEF CloseConsumers, Closers
<1>17. CASE CloseBadger
  BY SMTT(30), <1>17 DEF CloseBadger, Closers, ConsumersRunning
<1>18. CASE BadgerCloser
  BY SMTT(30), <1>18 DEF BadgerCloser
<1>19. CASE CloseDone
  BY SMTT(30), <1>19 DEF CloseDone
<1>20. CASE UNCHANGED vars
  BY <1>20 DEF vars
<1>21. QED
  BY <1>1, <1>2, <1>3, <1>4, <1>5, <1>6, <1>7, <1>8, <1>9, <1>10, <1>11,
     <1>12, <1>13, <1>14, <1>15, <1>16, <1>17, <1>18, <1>19, <1>20 DEF Next

(* When badger.Open and commits do not fail, every message whose producer *)
(* got the reply from processIngressMessageCallback is committed: the ack *)
(* of a write never precedes its commit, and Conn.Close closes badger     *)
(* only after every worker's batched writer has drained.  This holds for  *)
(* either value of StartupRace: workers started after an early Close can  *)
(* only reply on a connection that is closed for good.                    *)
THEOREM AckedDurableHolds ==
  ASSUME ~OpenMayFail, ~CommitMayFail
  PROVE  Spec => []AckedDurable
<1>1. Init => IInv
  BY InitIInv
<1>2. IInv /\ [Next]_vars => IInv'
  BY NextIInv
<1>3. IInv => AckedDurable
  BY DEF IInv
<1>4. QED
  BY <1>1, <1>2, <1>3, PTL DEF Spec


-----------------------------------------------------------------------------
(* A sequence lemma used by RequeueCloseProofs.                           *)

(* Range of an appended sequence.                                          *)
LEMMA RangeAppend ==
  ASSUME NEW S, NEW s \in Seq(S), NEW x \in S
  PROVE  Range(Append(s, x)) = Range(s) \cup {x}
<1>1. /\ DOMAIN Append(s, x) = 1..Len(s) + 1
      /\ \A i \in 1..Len(s) : Append(s, x)[i] = s[i]
      /\ Append(s, x)[Len(s) + 1] = x
      /\ DOMAIN s = 1..Len(s)
  OBVIOUS
<1>2. Range(Append(s, x)) \subseteq Range(s) \cup {x}
  BY <1>1 DEF Range
<1>3. Range(s) \cup {x} \subseteq Range(Append(s, x))
  BY <1>1 DEF Range
<1>4. QED
  BY <1>2, <1>3

=============================================================================
