--------------------------- MODULE RequestService ---------------------------
(***************************************************************************)
(* What raspike_request() promises its callers, without mutexes, frames,   *)
(* retries or a receiver: a port serves one call at a time; a call returns *)
(* what the hub answered to this very call in the session the host is in,  *)
(* or an error; and it is told that its session is stale only if the       *)
(* session has changed since the call was entered.  RaspikeRequest is      *)
(* shown to implement this.                                                *)
(***************************************************************************)
EXTENDS Integers

CONSTANTS Caller, Port, Cmd,
          Ticket, \* what tells the calls apart
          Values, \* what the hub may answer
          Stale,  \* the error for a change of session
          Others  \* every other error

VARIABLES
  stage,    \* "idle", "asked" or "served", for each caller
  asked,    \* its current (or last) call, its ticket and the session it was entered in
  returned, \* what its last call returned
  session,  \* the session the host is in
  given     \* every answer the hub ever gave

vars == <<stage, asked, returned, session, given>>

Asking(p, k) == [port |-> p, cmd |-> k, ticket |-> 0, entered |-> 0]

Init ==
  /\ stage = [c \in Caller |-> "idle"]
  /\ \E p \in Port, k \in Cmd : asked = [c \in Caller |-> Asking(p, k)]
  /\ returned = [c \in Caller |-> 0]
  /\ session = 1
  /\ given = {}

Ask(c, p, k) ==
  /\ stage[c] = "idle"
  /\ stage' = [stage EXCEPT ![c] = "asked"]
  /\ asked' = [asked EXCEPT ![c] = Asking(p, k)]
  /\ returned' = [returned EXCEPT ![c] = 0]
  /\ UNCHANGED <<session, given>>

Admit(c) ==
  /\ stage[c] = "asked"
  /\ \A d \in Caller : stage[d] = "served" => asked[d].port # asked[c].port
  /\ stage' = [stage EXCEPT ![c] = "served"]
  /\ UNCHANGED <<asked, returned, session, given>>

\* A call gets one ticket, whatever has to be repeated for it.
TakeTicket(c) ==
  /\ stage[c] = "served" /\ asked[c].ticket = 0
  /\ \E t \in Ticket : asked' = [asked EXCEPT ![c].ticket = t]
  /\ UNCHANGED <<stage, returned, session, given>>

\* It is entered in the session of the moment, or in none while that changes.
Enter(c) ==
  /\ stage[c] = "served" /\ asked[c].ticket # 0
  /\ \E s \in {0, session} : asked' = [asked EXCEPT ![c].entered = s]
  /\ UNCHANGED <<stage, returned, session, given>>

Honest(c, r) ==
  \/ /\ r \in Values
     /\ [port |-> asked[c].port, cmd |-> asked[c].cmd, sequence |-> asked[c].ticket,
         session |-> session, data |-> r] \in given
  \/ r = Stale /\ asked[c].entered # session
  \/ r \in Others

Return(c) ==
  /\ stage[c] = "served"
  /\ \E r \in Values \cup Others \cup {Stale} :
       Honest(c, r) /\ returned' = [returned EXCEPT ![c] = r]
  /\ asked' = [asked EXCEPT ![c] = Asking(asked[c].port, asked[c].cmd)]
  /\ stage' = [stage EXCEPT ![c] = "idle"]
  /\ UNCHANGED <<session, given>>

\* The hub answers, or the host learns of a new session.
World ==
  /\ given \subseteq given'
  /\ UNCHANGED <<stage, asked, returned>>

Next ==
  \/ \E c \in Caller, p \in Port, k \in Cmd : Ask(c, p, k)
  \/ \E c \in Caller : Admit(c) \/ TakeTicket(c) \/ Enter(c) \/ Return(c)
  \/ World

Spec == Init /\ [][Next]_vars
=============================================================================
