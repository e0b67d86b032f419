------------------------------ MODULE StatsPub ------------------------------
(***************************************************************************)
(* The stats publisher of src/unnamed/part_001: NewStatsPublisher starts   *)
(* initBackgroundTasks, which sets a WaitGroup, a goroutine that closes    *)
(* done when the group is empty, and the republish loop; Close closes quit *)
(* and waits on done.                                                      *)
(***************************************************************************)
EXTENDS Naturals

CONSTANT MaxTicks    \* bound on publish ticks explored

VARIABLES
    started,    \* initBackgroundTasks has run its body
    wg,         \* the WaitGroup counter
    quit,       \* sp.quit closed
    done,       \* sp.done closed
    stopped,    \* the ticker was stopped by the quit watcher
    loop,       \* republish loop: "absent", "running", "exited"
    ticks,      \* publish() calls so far
    closer      \* Close(): "no", "waiting", "returned"

vars == <<started, wg, quit, done, stopped, loop, ticks, closer>>

-----------------------------------------------------------------------------
(* initBackgroundTasks: wg.Add(2), then spawn the waiter and the loop.        *)
StartTasks ==
    /\ ~started
    /\ started' = TRUE
    /\ wg' = 2
    /\ loop' = "running"
    /\ UNCHANGED <<quit, done, stopped, ticks, closer>>

(* The waiter goroutine: wg.Wait() returns when the counter is zero, then  *)
(* close(sp.done).                                                         *)
Waiter ==
    /\ started /\ ~done
    /\ wg = 0
    /\ done' = TRUE
    /\ UNCHANGED <<started, wg, quit, stopped, loop, ticks, closer>>

(* A tick of the ticker: the loop calls publish(), which returns true.     *)
Tick ==
    /\ loop = "running" /\ ~stopped
    /\ ticks < MaxTicks
    /\ ticks' = ticks + 1
    /\ UNCHANGED <<started, wg, quit, done, stopped, loop, closer>>

(* The goroutine inside the loop: <-sp.quit, then t.Stop().                *)
QuitWatcher ==
    /\ loop # "absent" /\ quit /\ ~stopped
    /\ stopped' = TRUE
    /\ UNCHANGED <<started, wg, quit, done, loop, ticks, closer>>

(* t.Loop returns once the ticker is stopped; the deferred wg.Done runs.   *)
LoopExit ==
    /\ loop = "running" /\ stopped
    /\ loop' = "exited"
    /\ wg' = wg - 1
    /\ UNCHANGED <<started, quit, done, stopped, ticks, closer>>

(* Close: close(sp.quit), then block on <-sp.done.                         *)
CallClose ==
    /\ closer = "no"
    /\ closer' = "waiting"
    /\ quit' = TRUE
    /\ UNCHANGED <<started, wg, done, stopped, loop, ticks>>

CloseReturn ==
    /\ closer = "waiting" /\ done
    /\ closer' = "returned"
    /\ UNCHANGED <<started, wg, quit, done, stopped, loop, ticks>>

Init ==
    /\ started = FALSE /\ wg = 0 /\ quit = FALSE /\ done = FALSE
    /\ stopped = FALSE /\ loop = "absent" /\ ticks = 0 /\ closer = "no"

Next ==
    \/ StartTasks \/ Waiter \/ Tick \/ QuitWatcher \/ LoopExit
    \/ CallClose \/ CloseReturn

(* Every goroutine is scheduled: weak fairness on each of them.  Close is  *)
(* called by the user and is not forced.                                   *)
Spec == Init /\ [][Next]_vars
        /\ WF_vars(StartTasks) /\ WF_vars(Waiter) /\ WF_vars(QuitWatcher)
        /\ WF_vars(LoopExit) /\ WF_vars(CloseReturn)

-----------------------------------------------------------------------------
(* A call of StatsPublisher.Close returns: once quit is closed, the loop   *)
(* stops, the WaitGroup drains and done is closed.                         *)
CloseReturns == closer = "waiting" ~> closer = "returned"

=============================================================================
