------------------------ MODULE MCNotificationService ------------------------
(* Two events, for one user or for two.                                    *)
EXTENDS NotificationService

MCRecipient == [e \in Events |-> 1]
MCRecipients == [e \in Events |-> IF e = 1 THEN 1 ELSE 2]
==============================================================================
