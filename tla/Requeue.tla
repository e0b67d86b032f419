------------------------------ MODULE Requeue ------------------------------
(***************************************************************************)
(* The ingress-to-storage pipeline of nats-requeue (requeue.go):           *)
(*                                                                         *)
(*   bus subscription --natsMsgCh--> worker w --Set--> batched writer w    *)
(*        --commit--> badger --callback--> msg.Respond (the producer ack)  *)
(*                                                                         *)
(* together with the start-up sequence of Options.Connect (initBadger,     *)
(* initNATS, initNatsConsumers) and the three-phase Conn.Close built from  *)
(* the y.Closer objects c.closers.nats, .natsConsumers and .badger.        *)
(*                                                                         *)
(* Messages are model values; the envelope bytes, the key built from the   *)
(* original subject and a ksuid, and all logging are abstracted away: the  *)
(* properties only tell messages apart.  The batched writer (its source is *)
(* not part of the files modelled) follows the contract of the spec: one   *)
(* flusher per writer, a transaction committed when full or when the flush *)
(* timer fires, and one callback per write, fired in order after commit.   *)
(***************************************************************************)
EXTENDS Naturals, Sequences, Functions

CONSTANTS
    Msgs,           \* messages producers publish on the requeue subject
    Workers,        \* ingress workers (DefaultNumConcurrentBatchTransactions)
    BatchLimit,     \* writes a transaction holds before the writer commits it
    Oversized,      \* messages too large for one transaction (Set fails)
    NoMsg,          \* sentinel: no message held
    OpenMayFail,    \* badger.Open may return an error
    InitMayFail,    \* nats.Connect / QueueSubscribe / LastError may fail
    CommitMayFail,  \* a transaction commit may fail (I/O error)
    StartupRace     \* the connection may close for good while Connect is
                    \* still starting the consumers

ASSUME ConstantsAssumption ==
    /\ Workers # {}
    /\ BatchLimit \in Nat \ {0}
    /\ Oversized \subseteq Msgs
    /\ NoMsg \notin Msgs
    /\ OpenMayFail \in BOOLEAN
    /\ InitMayFail \in BOOLEAN
    /\ CommitMayFail \in BOOLEAN
    /\ StartupRace \in BOOLEAN

VARIABLES
    boot,       \* how far Options.Connect has got
    db,         \* c.badgerDB: "unopened", "open", "nil" (Open failed), "closed"
    nc,         \* c.nc: "none", "connected", "closed"
    subscribed, \* the queue subscription exists
    sent,       \* messages producers have published (history)
    pending,    \* messages the bus client holds for the subscription callback
    cb,         \* message the subscription callback is sending on natsMsgCh
    wstate,     \* per worker: "absent", "running", "closing" (in wb.Close), "done"
    holding,    \* per worker: message received and not yet passed to wb.Set
    txn,        \* per worker: writes of the writer's current transaction
    cbq,        \* per worker: committed writes whose callbacks have not run
    store,      \* messages whose key is committed to badger
    accepted,   \* messages wb.Set accepted (history)
    called,     \* messages whose commit callback has run (history)
    acked,      \* messages whose producer received the empty reply
    hookErr,    \* messages passed to Opts.BadgerWriteMsgErr
    sig,        \* which of the three closers has been signalled
    natsGo,     \* the nats closer goroutine is still running
    badgerGo,   \* the badger closer goroutine is still running
    closing     \* where Conn.Close (inside closeOnce.Do) is

bootVars   == <<boot, subscribed>>
busVars    == <<nc, sent, pending, cb>>
workerVars == <<wstate, holding, txn, cbq>>
dataVars   == <<db, store, accepted, called, acked, hookErr>>
closeVars  == <<sig, natsGo, badgerGo, closing>>
vars == <<bootVars, busVars, workerVars, dataVars, closeVars>>

Closers == {"nats", "consumers", "badger"}

Entry == [msg : Msgs, ok : BOOLEAN]

-----------------------------------------------------------------------------
(* Mutant of ConsumersRunning: the wait counts workers that were never   *)
(* started, as if AddRunning(N) ran before Connect could fail.            *)
ConsumersRunningCountsAbsent == {w \in Workers : wstate[w] # "done"}

(* Workers that have called natsConsumers.AddRunning and not yet Done.    *)
ConsumersRunning == {w \in Workers : wstate[w] \in {"running", "closing"}}

(* Outcomes of a commit: it can only succeed on an open database.         *)
CommitOutcomes ==
    IF db = "open" THEN (IF CommitMayFail THEN BOOLEAN ELSE {TRUE})
                   ELSE {FALSE}

(* Conn.Close entered for the first time (closeOnce): it signals the nats *)
(* closer and then waits on it.  A later call blocks in closeOnce.Do and  *)
(* changes nothing.                                                       *)
StartClose ==
    IF closing = "idle"
    THEN /\ closing' = "nats"
         /\ sig' = [sig EXCEPT !["nats"] = TRUE]
    ELSE UNCHANGED <<closing, sig>>

-----------------------------------------------------------------------------
(* Start-up: Options.Connect.                                              *)

(* initBadger: badger.Open; an error is only logged, c.badgerDB is set to  *)
(* the (nil) result and the badger closer goroutine is started anyway.    *)
InitBadger ==
    /\ boot = "badger"
    /\ db' \in IF OpenMayFail THEN {"open", "nil"} ELSE {"open"}
    /\ badgerGo' = TRUE
    /\ boot' = "nats"
    /\ UNCHANGED <<subscribed, busVars, workerVars, store, accepted, called,
                   acked, hookErr, sig, natsGo, closing>>

(* initNATS succeeds: connected, nats closer goroutine started, queue     *)
(* subscription made and flushed without error.                           *)
InitNATS ==
    /\ boot = "nats"
    /\ nc' = "connected"
    /\ natsGo' = TRUE
    /\ subscribed' = TRUE
    /\ boot' = "consumers"
    /\ UNCHANGED <<sent, pending, cb, workerVars, dataVars, sig, badgerGo,
                   closing>>

(* initNATS fails and Connect calls rc.Close().  Either nats.Connect      *)
(* failed (no closer goroutine), or it connected and QueueSubscribe or    *)
(* the LastError check after Flush failed (the subscription may exist).   *)
InitNATSFail ==
    /\ InitMayFail
    /\ boot = "nats"
    /\ \/ /\ UNCHANGED <<nc, natsGo, subscribed>>
       \/ /\ nc' = "connected"
          /\ natsGo' = TRUE
          /\ subscribed' \in BOOLEAN
    /\ boot' = "failed"
    /\ StartClose
    /\ UNCHANGED <<sent, pending, cb, workerVars, dataVars, badgerGo>>

(* initNatsConsumers: AddRunning(N), then N goroutines, each creating its *)
(* batched writer and entering its receive loop.  Nothing checks whether *)
(* Close has already run: the workers start on whatever closers and DB   *)
(* are left, and Connect returns the Conn with a nil error.               *)
InitConsumers ==
    /\ boot = "consumers"
    /\ wstate' = [w \in Workers |-> "running"]
    /\ boot' = "serving"
    /\ UNCHANGED <<subscribed, busVars, holding, txn, cbq, dataVars, closeVars>>

-----------------------------------------------------------------------------
(* The bus and its environment.                                            *)

(* A producer publishes m on the subject; the bus client queues it for    *)
(* the subscription.                                                      *)
Publish(m) ==
    /\ m \notin sent
    /\ nc = "connected"
    /\ subscribed
    /\ sent' = sent \cup {m}
    /\ pending' = pending \cup {m}
    /\ UNCHANGED <<bootVars, nc, cb, workerVars, dataVars, closeVars>>

(* The client's delivery goroutine calls the subscription callback, which *)
(* blocks on the unbuffered send c.natsMsgCh <- msg.                      *)
Deliver(m) ==
    /\ nc = "connected"
    /\ cb = NoMsg
    /\ m \in pending
    /\ cb' = m
    /\ pending' = pending \ {m}
    /\ UNCHANGED <<bootVars, nc, sent, workerVars, dataVars, closeVars>>

(* Interrupt, SIGTERM or ctx.Done: the watcher goroutines call rc.Close(). *)
Shutdown ==
    /\ boot = "serving"
    /\ StartClose
    /\ UNCHANGED <<bootVars, busVars, workerVars, dataVars, natsGo, badgerGo>>

(* Where Connect may be when NATSClosedHandler runs.  The handler is      *)
(* installed before nats.Connect (349), so it can run as soon as the      *)
(* connection exists, before initNatsConsumers has started any worker.   *)
BusClosedPhases ==
    IF StartupRace THEN {"consumers", "serving"} ELSE {"serving"}

(* The connection is closed for good (reconnects exhausted): undelivered  *)
(* messages are dropped and NATSClosedHandler calls c.Close().            *)
BusClosed ==
    /\ boot \in BusClosedPhases
    /\ nc = "connected"
    /\ nc' = "closed"
    /\ pending' = {}
    /\ StartClose
    /\ UNCHANGED <<bootVars, sent, cb, workerVars, dataVars, natsGo, badgerGo>>

-----------------------------------------------------------------------------
(* Ingress workers: initNatsConsumer and processIngressMessage.           *)

(* The select receives from natsMsgCh (a rendezvous with the callback).   *)
Receive(w) ==
    /\ wstate[w] = "running"
    /\ holding[w] = NoMsg
    /\ cb # NoMsg
    /\ holding' = [holding EXCEPT ![w] = cb]
    /\ cb' = NoMsg
    /\ UNCHANGED <<bootVars, nc, sent, pending, wstate, txn, cbq, dataVars,
                   closeVars>>

(* Mutant of Ingest: a nil message (as received from a closed channel)   *)
(* is passed to wb.Set like any other.                                    *)
IngestNil(w) ==
    LET m == holding[w] IN
    /\ \/ /\ m \in Oversized
          /\ hookErr' = hookErr \cup {m}
          /\ UNCHANGED <<txn, accepted>>
       \/ /\ m \notin Oversized
          /\ Len(txn[w]) < BatchLimit
          /\ txn' = [txn EXCEPT ![w] = Append(@, m)]
          /\ accepted' = accepted \cup ({m} \cap Msgs)
          /\ UNCHANGED hookErr
    /\ holding' = [holding EXCEPT ![w] = NoMsg]
    /\ UNCHANGED <<bootVars, busVars, wstate, cbq, db, store, called, acked,
                   closeVars>>

Ingest(w) ==
    LET m == holding[w] IN
    /\ m # NoMsg
    /\ \/ /\ m \in Oversized
          /\ hookErr' = hookErr \cup {m}
          /\ UNCHANGED <<txn, accepted>>
       \/ /\ m \notin Oversized
          /\ Len(txn[w]) < BatchLimit
          /\ txn' = [txn EXCEPT ![w] = Append(@, m)]
          /\ accepted' = accepted \cup {m}
          /\ UNCHANGED hookErr
    /\ holding' = [holding EXCEPT ![w] = NoMsg]
    /\ UNCHANGED <<bootVars, busVars, wstate, cbq, db, store, called, acked,
                   closeVars>>

(* Mutant of Stop: the deferred Done() runs before wb.Close(), so the    *)
(* worker counts as finished while its writer still holds writes.         *)
StopDoneFirst(w) ==
    /\ wstate[w] = "running"
    /\ holding[w] = NoMsg
    /\ sig["consumers"]
    /\ wstate' = [wstate EXCEPT ![w] = "done"]
    /\ UNCHANGED <<bootVars, busVars, holding, txn, cbq, dataVars, closeVars>>

(* The select sees natsConsumers.HasBeenClosed(): the loop returns and    *)
(* the deferred wb.Close() runs (before the deferred Done).               *)
Stop(w) ==
    /\ wstate[w] = "running"
    /\ holding[w] = NoMsg
    /\ sig["consumers"]
    /\ wstate' = [wstate EXCEPT ![w] = "closing"]
    /\ UNCHANGED <<bootVars, busVars, holding, txn, cbq, dataVars, closeVars>>

(* Mutant of Commit: no flush timer; a transaction is only committed     *)
(* when it is full or when the writer is closed.                          *)
CommitNoTimer(w) ==
    /\ wstate[w] \in {"running", "closing"}
    /\ txn[w] # <<>>
    /\ Len(txn[w]) = BatchLimit \/ wstate[w] = "closing"
    /\ \E ok \in CommitOutcomes :
          /\ store' = IF ok THEN store \cup Range(txn[w]) ELSE store
          /\ cbq' = [cbq EXCEPT ![w] =
                        @ \o [i \in DOMAIN txn[w] |-> [msg |-> txn[w][i], ok |-> ok]]]
    /\ txn' = [txn EXCEPT ![w] = <<>>]
    /\ UNCHANGED <<bootVars, busVars, wstate, holding, db, accepted, called,
                   acked, hookErr, closeVars>>

(* The writer's flusher commits the current transaction: because it is   *)
(* full, because the flush timer fired, or because wb.Close flushes.      *)
Commit(w) ==
    /\ wstate[w] \in {"running", "closing"}
    /\ txn[w] # <<>>
    /\ \E ok \in CommitOutcomes :
          /\ store' = IF ok THEN store \cup Range(txn[w]) ELSE store
          /\ cbq' = [cbq EXCEPT ![w] =
                        @ \o [i \in DOMAIN txn[w] |-> [msg |-> txn[w][i], ok |-> ok]]]
    /\ txn' = [txn EXCEPT ![w] = <<>>]
    /\ UNCHANGED <<bootVars, busVars, wstate, holding, db, accepted, called,
                   acked, hookErr, closeVars>>

(* processIngressMessageCallback: whatever the commit error, it logs and  *)
(* calls msg.Respond(nil); the reply only reaches the producer while the *)
(* connection is open.                                                    *)
Callback(w) ==
    LET e == Head(cbq[w]) IN
    /\ cbq[w] # <<>>
    /\ called' = called \cup {e.msg}
    /\ acked' = IF nc = "connected" THEN acked \cup {e.msg} ELSE acked
    /\ cbq' = [cbq EXCEPT ![w] = Tail(@)]
    /\ UNCHANGED <<bootVars, busVars, wstate, holding, txn, db, store,
                   accepted, hookErr, closeVars>>

(* wb.Close has flushed and every callback has run: the deferred          *)
(* natsConsumer.Done() runs and the goroutine exits.                      *)
WriterClosed(w) ==
    /\ wstate[w] = "closing"
    /\ txn[w] = <<>>
    /\ cbq[w] = <<>>
    /\ wstate' = [wstate EXCEPT ![w] = "done"]
    /\ UNCHANGED <<bootVars, busVars, holding, txn, cbq, dataVars, closeVars>>

-----------------------------------------------------------------------------
(* Conn.Close and the closer goroutines.                                   *)

(* The nats closer goroutine: Drain() (asynchronous) then Close(): the    *)
(* messages still queued in the client are dropped; a callback already    *)
(* blocked on natsMsgCh stays blocked.                                    *)
NatsCloser ==
    /\ natsGo
    /\ sig["nats"]
    /\ nc' = "closed"
    /\ pending' = {}
    /\ natsGo' = FALSE
    /\ UNCHANGED <<bootVars, sent, cb, workerVars, dataVars, sig, badgerGo,
                   closing>>

(* Close: closers.nats.SignalAndWait() returned; signal the consumers.     *)
CloseConsumers ==
    /\ closing = "nats"
    /\ ~natsGo
    /\ sig' = [sig EXCEPT !["consumers"] = TRUE]
    /\ closing' = "consumers"
    /\ UNCHANGED <<bootVars, busVars, workerVars, dataVars, natsGo, badgerGo>>

(* Mutant of CloseBadger: Close does not wait for the consumers' Done.    *)
CloseBadgerNoWait ==
    /\ closing = "consumers"
    /\ sig' = [sig EXCEPT !["badger"] = TRUE]
    /\ closing' = "badger"
    /\ UNCHANGED <<bootVars, busVars, workerVars, dataVars, natsGo, badgerGo>>

(* Close: natsConsumers.SignalAndWait() returned; signal badger.          *)
CloseBadger ==
    /\ closing = "consumers"
    /\ ConsumersRunning = {}
    /\ sig' = [sig EXCEPT !["badger"] = TRUE]
    /\ closing' = "badger"
    /\ UNCHANGED <<bootVars, busVars, workerVars, dataVars, natsGo, badgerGo>>

(* Mutant of BadgerCloser: the goroutine does not wait for its own       *)
(* closer's signal, only for the nats one.                                *)
BadgerCloserEager ==
    /\ badgerGo
    /\ sig["nats"]
    /\ db' = IF db = "open" THEN "closed" ELSE db
    /\ badgerGo' = FALSE
    /\ UNCHANGED <<bootVars, busVars, workerVars, store, accepted, called,
                   acked, hookErr, sig, natsGo, closing>>

(* The badger closer goroutine: waits for the badger and nats signals,   *)
(* then closes c.badgerDB if it is not nil.                               *)
BadgerCloser ==
    /\ badgerGo
    /\ sig["badger"]
    /\ sig["nats"]
    /\ db' = IF db = "open" THEN "closed" ELSE db
    /\ badgerGo' = FALSE
    /\ UNCHANGED <<bootVars, busVars, workerVars, store, accepted, called,
                   acked, hookErr, sig, natsGo, closing>>

(* Close: badger.SignalAndWait() returned; close(c.closed).                *)
CloseDone ==
    /\ closing = "badger"
    /\ ~badgerGo
    /\ closing' = "done"
    /\ UNCHANGED <<bootVars, busVars, workerVars, dataVars, sig, natsGo,
                   badgerGo>>

-----------------------------------------------------------------------------
Init ==
    /\ boot = "badger"
    /\ db = "unopened"
    /\ nc = "none"
    /\ subscribed = FALSE
    /\ sent = {}
    /\ pending = {}
    /\ cb = NoMsg
    /\ wstate = [w \in Workers |-> "absent"]
    /\ holding = [w \in Workers |-> NoMsg]
    /\ txn = [w \in Workers |-> <<>>]
    /\ cbq = [w \in Workers |-> <<>>]
    /\ store = {}
    /\ accepted = {}
    /\ called = {}
    /\ acked = {}
    /\ hookErr = {}
    /\ sig = [c \in Closers |-> FALSE]
    /\ natsGo = FALSE
    /\ badgerGo = FALSE
    /\ closing = "idle"

Next ==
    \/ InitBadger \/ InitNATS \/ InitNATSFail \/ InitConsumers
    \/ \E m \in Msgs : Publish(m) \/ Deliver(m)
    \/ Shutdown \/ BusClosed
    \/ \E w \in Workers :
          \/ Receive(w) \/ Ingest(w) \/ Stop(w) \/ Commit(w)
          \/ Callback(w) \/ WriterClosed(w)
    \/ NatsCloser \/ CloseConsumers \/ CloseBadger \/ BadgerCloser \/ CloseDone

(* Every goroutine of the service keeps running when it can: Connect's    *)
(* own steps, the workers, the flushers (the flush timer always fires)    *)
(* and the closers.  Producers, signals and the bus going away are not    *)
(* obliged to happen.                                                     *)
Fairness ==
    /\ WF_vars(InitBadger) /\ WF_vars(InitNATS) /\ WF_vars(InitConsumers)
    /\ \A m \in Msgs : WF_vars(Deliver(m))
    /\ \A w \in Workers :
          /\ WF_vars(Receive(w)) /\ WF_vars(Ingest(w)) /\ WF_vars(Stop(w))
          /\ WF_vars(Commit(w)) /\ WF_vars(Callback(w))
          /\ WF_vars(WriterClosed(w))
    /\ WF_vars(NatsCloser) /\ WF_vars(CloseConsumers) /\ WF_vars(CloseBadger)
    /\ WF_vars(BadgerCloser) /\ WF_vars(CloseDone)

Spec == Init /\ [][Next]_vars /\ Fairness

-----------------------------------------------------------------------------
TypeOK ==
    /\ boot \in {"badger", "nats", "consumers", "serving", "failed"}
    /\ db \in {"unopened", "open", "nil", "closed"}
    /\ nc \in {"none", "connected", "closed"}
    /\ subscribed \in BOOLEAN
    /\ sent \subseteq Msgs
    /\ pending \subseteq Msgs
    /\ cb \in Msgs \cup {NoMsg}
    /\ wstate \in [Workers -> {"absent", "running", "closing", "done"}]
    /\ holding \in [Workers -> Msgs \cup {NoMsg}]
    /\ txn \in [Workers -> Seq(Msgs)]
    /\ cbq \in [Workers -> Seq(Entry)]
    /\ store \subseteq Msgs
    /\ accepted \subseteq Msgs
    /\ called \subseteq Msgs
    /\ acked \subseteq Msgs
    /\ hookErr \subseteq Msgs
    /\ sig \in [Closers -> BOOLEAN]
    /\ natsGo \in BOOLEAN
    /\ badgerGo \in BOOLEAN
    /\ closing \in {"idle", "nats", "consumers", "badger", "done"}

(* The durability contract (spec section 2, 4.4): a producer only gets   *)
(* its reply for a message whose key badger has committed.  It rests on  *)
(* processIngressMessageCallback and on Close closing badger last.       *)
AckedDurable == acked \subseteq store

(* Close returns (c.closed is closed) only after every write a batched    *)
(* writer accepted has had its callback, and after badger is closed: the *)
(* order nats, consumers, badger of Conn.Close and the deferred wb.Close. *)
ClosedQuiescent ==
    closing = "done" => /\ accepted \subseteq called
                        /\ db # "open"

(* Start-up (spec section 4.5 step 1, 7): a failure to open storage is     *)
(* fatal, so Connect never hands out a serving Conn without a database.   *)
ServingHasStorage ==
    boot = "serving" => db \in {"open", "closed"}

(* Shutdown (spec section 4.5 step 1): in-flight subscription callbacks   *)
(* finish writing into natsMsgCh before the workers stop, so when Close   *)
(* returns no callback is left blocked on the channel.                    *)
DrainedAtClose ==
    closing = "done" => cb = NoMsg

(* Shutdown (spec section 4.5 step 1): the nats closer goroutine drains    *)
(* the bus, so its Drain() and Close() discard none of the messages the   *)
(* client has already received for the subscription.                      *)
DrainKeepsReceived ==
    [][natsGo /\ ~natsGo' => pending' = pending]_vars

(* Once Close has returned (c.closed is closed), no batched writer       *)
(* accepts another write: the database is closed or closing and the      *)
(* producer could never be acked for it.                                 *)
NoWriteAfterClose ==
    [][closing = "done" => accepted' = accepted]_vars

(* Once Close has started it returns: no closer waits forever.            *)
CloseCompletes == closing # "idle" ~> closing = "done"

(* Every write Set accepted has its callback invoked (spec 4.3).          *)
AcceptedCalledBack == \A m \in Msgs : m \in accepted ~> m \in called

=============================================================================
