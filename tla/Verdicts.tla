------------------------------ MODULE Verdicts ------------------------------
(***************************************************************************)
(* What the propose ledger promises of its candidates: each is offered,    *)
(* then decided once.  Where calls do not overlap, one that was decided is *)
(* never acted upon again; where they do, a call that decided to act before *)
(* the verdict still acts after it, and the verdict stands.                *)
(* Several candidates may move in one step (a batch, a direct write that   *)
(* settles what was proposed), each by one of the moves below.             *)
(***************************************************************************)
EXTENDS Naturals

CONSTANT Candidate

VARIABLES
    alone,      \* whether calls never overlap
    status,     \* what the ledger says of each candidate
    acted       \* how often each candidate was turned into a domain event

vars == <<alone, status, acted>>

Status == {"unknown", "pending", "applied", "rejected"}

Init ==
    /\ alone \in BOOLEAN
    /\ status = [c \in Candidate |-> "unknown"]
    /\ acted = [c \in Candidate |-> 0]

Stay(c) == status'[c] = status[c] /\ acted'[c] = acted[c]

Offer(c) == status[c] = "unknown" /\ status'[c] = "pending" /\ acted'[c] = acted[c]

Reject(c) == status[c] = "pending" /\ status'[c] = "rejected" /\ acted'[c] = acted[c]

\* A human approves the candidate as it stands.
Approve(c) == status[c] = "pending" /\ status'[c] = "applied" /\ acted'[c] = acted[c] + 1

\* A human writes what the candidate proposes, without approving it.
Moot(c) == status[c] = "pending" /\ status'[c] = "applied" /\ acted'[c] = acted[c]

\* A candidate that was never persisted is applied, and stays unknown.
ActUnknown(c) ==
    status[c] = "unknown" /\ status'[c] = "unknown" /\ acted'[c] = acted[c] + 1

\* A call under way did not see the verdict.
Late(c) ==
    /\ ~alone
    /\ status[c] \in {"applied", "rejected"}
    /\ status'[c] = status[c]
    /\ acted'[c] = acted[c] + 1

Next ==
    /\ UNCHANGED alone
    /\ status' \in [Candidate -> Status]
    /\ acted' \in [Candidate -> Nat]
    /\ \A c \in Candidate :
          Stay(c) \/ Offer(c) \/ Reject(c) \/ Approve(c) \/ Moot(c) \/ ActUnknown(c)
          \/ Late(c)

Spec == Init /\ [][Next]_vars
=============================================================================
