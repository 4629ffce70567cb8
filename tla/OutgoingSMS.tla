---------------------------- MODULE OutgoingSMS ----------------------------
(***************************************************************************)
(* What the outgoing path promises for one message to one recipient (an    *)
(* item): while it is pending the network may take copies whose            *)
(* acknowledgement is lost; it is reported sent after one acknowledged     *)
(* whole copy, or failed; afterwards nothing more is sent for it.          *)
(***************************************************************************)
EXTENDS Naturals

CONSTANTS Items, MaxCopies

VARIABLES state, copies

absVars == <<state, copies>>

States == {"new", "pending", "accepted", "sent", "failed"}

AbsInit ==
  /\ state = [i \in Items |-> "new"]
  /\ copies = [i \in Items |-> 0]

Becomes(i, from, to) == state[i] = from /\ state' = [state EXCEPT ![i] = to]

Copy(i) == copies[i] < MaxCopies /\ copies' = [copies EXCEPT ![i] = @ + 1]

Submit(i) == Becomes(i, "new", "pending") /\ UNCHANGED copies

LoseAck(i) == state[i] = "pending" /\ Copy(i) /\ UNCHANGED state

Accept(i) == Becomes(i, "pending", "accepted") /\ Copy(i)

Report(i) == Becomes(i, "accepted", "sent") /\ UNCHANGED copies

Fail(i) == Becomes(i, "pending", "failed") /\ UNCHANGED copies

AbsNext == \E i \in Items : Submit(i) \/ LoseAck(i) \/ Accept(i) \/ Report(i) \/ Fail(i)

AbsSpec == AbsInit /\ [][AbsNext]_absVars
=============================================================================
