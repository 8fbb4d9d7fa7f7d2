--------------------------- MODULE ConnLifecycle ---------------------------
(***************************************************************************)
(* What the worker promises the UI about the connection, whatever happens  *)
(* on the wire: the order in which ConnStatus values may be announced, and *)
(* when the worker may hold a socket.  EcWorker implements it.             *)
(***************************************************************************)

VARIABLES status,   \* the last ConnStatus announced (statusChanged)
          held,     \* the worker owns an authenticated EcClient
          exited    \* the worker is being destroyed

vars == <<status, held, exited>>

Statuses == {"Disconnected", "Connecting", "Connected", "Error"}

Init == status = "Disconnected" /\ held = FALSE /\ exited = FALSE

\* A connection attempt begins; an earlier link, if any, is still there.
Attempt == status' = "Connecting" /\ UNCHANGED <<held, exited>>

\* The attempt succeeds, and its link replaces the earlier one.
Establish ==
  status = "Connecting" /\ status' = "Connected" /\ held' = TRUE /\ UNCHANGED exited

\* The attempt fails; it does not touch an earlier link.
GiveUp == status = "Connecting" /\ status' = "Error" /\ UNCHANGED <<held, exited>>

\* The link is lost, or the user ends it.  No link ends unannounced...
End ==
  status' \in {"Disconnected", "Error"} /\ held' = FALSE /\ UNCHANGED exited

\* ...but for the last one: the application exits and nobody is told.
Exit == exited' = TRUE /\ held' = FALSE /\ UNCHANGED status

Next == ~exited /\ (Attempt \/ Establish \/ GiveUp \/ End \/ Exit)

Spec == Init /\ [][Next]_vars
=============================================================================
