------------------------------ MODULE MCPersons ------------------------------
(* Three identities: two share a handle across connectors.  The third one's  *)
(* handle is what another person is called.  One person is nobody's home.    *)
EXTENDS Persons

CONSTANTS slackAnn, githubAnn, slackBob, ann, bob, pA, pB, pC, pX

MCHandleOf ==
    [i \in Identity |-> CASE i \in {slackAnn, githubAnn} -> ann [] i = slackBob -> bob]
MCHome == [i \in Identity |-> CASE i = slackAnn -> pA [] i = githubAnn -> pB [] i = slackBob -> pC]
=============================================================================
