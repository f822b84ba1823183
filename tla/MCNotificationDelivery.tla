----------------------- MODULE MCNotificationDelivery -----------------------
(***************************************************************************)
(* Instances of NotificationDelivery for TLC.                              *)
(***************************************************************************)
EXTENDS NotificationDelivery, TLC

\* Events sent to every member who may read them.
Broadcast == [e \in Event |-> {}]
\* Events about one member, whose delivery exists even if it is skipped later.
Personal == [e \in Event |-> User]

\* Workers are interchangeable, and so are the operators' requests.
Interchangeable == Permutations(Worker) \cup Permutations(Admin)
=============================================================================
