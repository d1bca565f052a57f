-------------------------- MODULE MCProposalLedger --------------------------
(* Small instances of the propose ledger. *)
EXTENDS ProposalLedger, TLC

CONSTANTS a, b, triageDone, triageLater, draft1, draft2, task, item, mail,
          p1, p2

\* Two candidates of the same title under different modes, two verdicts on one inbox
\* item, one draft proposed under two modes.
MCBaseOf == [c \in Candidate |-> CASE c \in Minted -> task
                                   [] c \in Triage -> item
                                   [] c \in Drafted -> mail]
MCTarget == [c \in Triage |-> IF c = triageDone THEN "done" ELSE "snoozed"]
Servers == Permutations(Client)
MCTaskOf == [i \in Item |-> task]
=============================================================================
