--------------------------- MODULE MCEventPipeline ---------------------------
(* A post event, a malformed one and one of an unknown type; a goroutine   *)
(* of the notification service and a worker compete for them.              *)
EXTENDS EventPipeline, TLC

MCRoute == [e \in Events |-> "post_events"]
MCSubscribed == [c \in Notifiers \cup WorkerSet |-> "post_events"]
MCRecipient == [e \in Events |-> 1]
==============================================================================
