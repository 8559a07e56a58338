------------------------------- MODULE Handoff -------------------------------
(***************************************************************************)
(* What a Sender promises its caller (sender.h, spec section 4.2), without *)
(* threads, locks or flags: a connection carries, in order and once, the   *)
(* lists the sender accepted on it; a list is accepted only when all that  *)
(* was accepted before is on the connection; bytes go out only while the  *)
(* worker lives and the connection is open; the connection is closed only *)
(* once the worker is gone; and while the worker lives, accepted bytes    *)
(* keep going out.                                                         *)
(***************************************************************************)
EXTENDS Naturals, Sequences

CONSTANTS
  Lists,        \* the packet lists a caller can hand to send()
  Content(_)    \* the bytes a sequence of lists puts on the connection

VARIABLES
  open,         \* the client connection is open
  alive,        \* a worker serves the connection
  accepted,     \* the lists accepted on this connection, in order
  out           \* the bytes on the connection, in order

hvars == <<open, alive, accepted, out>>

\* Everything accepted so far, as bytes.
Pending == Content(accepted)

Init ==
  /\ open = FALSE
  /\ alive = FALSE
  /\ accepted = <<>>
  /\ out = <<>>

\* initialize(): a new connection, or none if it could not be made.
Connect ==
  /\ ~alive
  /\ open' \in BOOLEAN
  /\ accepted' = <<>>
  /\ out' = <<>>
  /\ UNCHANGED alive

\* A worker starts serving the open connection.
Start ==
  /\ open
  /\ ~alive
  /\ alive' = TRUE
  /\ UNCHANGED <<open, accepted, out>>

\* The worker ends: asked to, or on an error.
Stop ==
  /\ alive
  /\ alive' = FALSE
  /\ UNCHANGED <<open, accepted, out>>

\* The connection is closed, once no worker can write to it.
Close ==
  /\ ~alive
  /\ open' = FALSE
  /\ UNCHANGED <<alive, accepted, out>>

\* send(l): accepted only when everything before it is out.
Accept(l) ==
  /\ open
  /\ out = Pending
  /\ accepted' = Append(accepted, l)
  /\ UNCHANGED <<open, alive, out>>

\* Some more of the accepted bytes go out; the worker may end right after.
Emit ==
  /\ open
  /\ alive
  /\ \E n \in (Len(out) + 1)..Len(Pending) : out' = SubSeq(Pending, 1, n)
  /\ alive' \in BOOLEAN
  /\ UNCHANGED <<open, accepted>>

Next ==
  \/ Connect \/ Start \/ Stop \/ Close \/ Emit
  \/ \E l \in Lists : Accept(l)

\* A live worker on an open connection does not leave accepted bytes
\* unsent forever.
Spec == Init /\ [][Next]_hvars /\ WF_hvars(Emit)

=============================================================================
