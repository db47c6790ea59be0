---------------------------- MODULE WorkerManager ----------------------------
(***************************************************************************)
(* fanout-worker's WorkerManager: Start runs a goroutine per worker, which *)
(* registers the worker's handler with the queue and then waits for        *)
(* stopChan; Stop closes stopChan and waits for those goroutines.  The     *)
(* handler itself runs in the goroutine of ConsumeMessages, which neither  *)
(* stopChan nor the wait group reaches.                                    *)
(***************************************************************************)
EXTENDS Naturals

CONSTANTS WorkerSet

VARIABLES
    start,      \* the goroutine of each worker
    stop,       \* the call of Stop
    metrics     \* WorkerMetrics of each worker

workerVars == <<start, stop, metrics>>

NoMetrics == [processed |-> 0, batches |-> 0, errors |-> 0]

InitWorkers ==
    /\ start = [w \in WorkerSet |-> "registering"]
    /\ stop = "no"
    /\ metrics = [w \in WorkerSet |-> NoMetrics]

(* Worker.start: the goroutine ends at once when ConsumeMessages fails.    *)
Registers(w) ==
    /\ start[w] = "registering"
    /\ start' = [start EXCEPT ![w] = "waiting"]
    /\ UNCHANGED <<stop, metrics>>

RegisterFails(w) ==
    /\ start[w] = "registering"
    /\ start' = [start EXCEPT ![w] = "stopped"]
    /\ UNCHANGED <<stop, metrics>>

(* <-stopChan *)
Stops(w) ==
    /\ start[w] = "waiting" /\ stop # "no"
    /\ start' = [start EXCEPT ![w] = "stopped"]
    /\ UNCHANGED <<stop, metrics>>

Stop ==
    /\ stop = "no"
    /\ stop' = "closed"
    /\ UNCHANGED <<start, metrics>>

(* workerWaitGroup.Wait *)
StopReturns ==
    /\ stop = "closed" /\ \A w \in WorkerSet : start[w] = "stopped"
    /\ stop' = "returned"
    /\ UNCHANGED <<start, metrics>>

Count(w, counter) ==
    /\ metrics' = [metrics EXCEPT ![w][counter] = @ + 1]
    /\ UNCHANGED <<start, stop>>

(* The process starts anew. *)
ManagerRestarts ==
    /\ start' = [w \in WorkerSet |-> "registering"]
    /\ stop' = "no"
    /\ metrics' = [w \in WorkerSet |-> NoMetrics]

WorkersTypeOK ==
    /\ start \in [WorkerSet -> {"registering", "waiting", "stopped"}]
    /\ stop \in {"no", "closed", "returned"}
    /\ metrics \in [WorkerSet -> [processed : Nat, batches : Nat, errors : Nat]]
==============================================================================
