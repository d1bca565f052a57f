------------------------------- MODULE MCDesk -------------------------------
(* Small values for the constants of the parts of Desk.                      *)
EXTENDS Desk, TLC

CONSTANTS s1, s2, e1, e2, e3, c1

MCSrcOf  == (e1 :> {s1}) @@ (e2 :> {s1, s2}) @@ (e3 :> {s2})
MCKindOf == (e1 :> "task") @@ (e2 :> "commitment") @@ (e3 :> "inbox")

\* Skill 1 stays, skill 2 is renamed to skill 4, skill 3 was retired long ago.
MCCatalogs == << (1 :> "a1") @@ (2 :> "b1"), (1 :> "a2") >>

Job(n, c, f) == [name |-> n, channel |-> c, filename |-> f]

MCJobLists ==
    { <<>>,
      <<Job("a", "file", "f"), Job("b", "slack-dm", "g"), Job("a", "file", "f")>>,
      <<Job("a", "slack-dm", "f"), Job("b", "os-notification", "g"), Job("c", "file", "a/b")>> }

MCWordOrders == {<<1, 2, 3, 4>>, <<4, 3, 2, 1>>}
MCNearOrders == {<<3, 1, 4, 2>>}

MCPages == << <<1>>, <<2>> >>

\* Conversation 1 is in reach of both tokens, 2 of the second, 3 of the first.
MCSeen == {<<1, 1>>, <<2, 1>>, <<2, 2>>, <<1, 3>>}

MCMembersOf == ("c" :> {}) @@ ("g" :> {"u", "me"})
MCPost      == {[user |-> "u", conv |-> "c"], [user |-> "u", conv |-> "g"]}
MCTeamOf    == <<"T1", "T2">>
MCSelfOf    == <<"me", "me">>
MCSees      == <<{"c", "me"}, {"c", "g", "u", "me"}>>
MCReach     == <<{}, {"T2"}>>

At(t) == [time |-> t, offset |-> 0]
Link(f, t, r) == [from |-> f, to |-> t, relation |-> r]

\* 1 is a person, 2 a source, 3 a task, 4 a decision.
Moments(source, task, decision) == <<At(0), source, At(task), At(decision)>>

MCShapes ==
    { [links |-> {Link(3, 2, "derived_from"), Link(4, 2, "derived_from"), Link(1, 3, "manual_link")},
       moment |-> Moments(At(5), 6, 4)],
      [links |-> {Link(2, 3, "manual_link"), Link(3, 2, "derived_from"),
                  Link(3, 4, "manual_link"), Link(4, 1, "manual_link")},
       moment |-> Moments([time |-> 5, offset |-> 2], 6, 5)] }

Asked(tool, from, direction, depth, limit, relation, after, before) ==
    [tool |-> tool, origin |-> from, direction |-> direction, depth |-> depth, limit |-> limit,
     relation |-> relation, after |-> At(after), before |-> At(before)]

Ways == {"out", "in", "both"}

MCAsks ==
    {Asked("related", n, w, 1, 1, r, 0, 0) : n \in {2, 3}, w \in Ways, r \in {"any", "manual_link"}}
    \union {Asked("expand", n, w, d, max, "any", 0, 0) :
              n \in {1, 2}, w \in Ways, d \in {1, 2}, max \in {1, 3, 9}}
    \union {Asked("timeline", n, "both", d, max, "any", after, before) :
              n \in {1, 2}, d \in {1, 2}, max \in {1, 2}, after \in {0, 5}, before \in {0, 6}}

MCLinkable == {Link(2, 1, "manual_link"), Link(3, 4, "manual_link"), Link(3, 2, "derived_from")}
=============================================================================
