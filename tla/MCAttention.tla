---------------------------- MODULE MCAttention ----------------------------
(* Small instances of Attention: five scenarios, each about one kind of row. *)
EXTENDS Attention

Base(source, ord) ==
  [source |-> source, ord |-> ord, dm |-> FALSE, mention |-> FALSE, thread |-> "t",
   mine |-> FALSE, to |-> "none", bulk |-> FALSE, allDay |-> FALSE, attend |-> FALSE,
   prepare |-> FALSE, worthy |-> FALSE]

Mail(ord, thread, to) == [Base("email", ord) EXCEPT !.thread = thread, !.to = to]
Reply(ord, thread) == [Base("email", ord) EXCEPT !.thread = thread, !.mine = TRUE]
Meeting(ord, attend, prepare) ==
  [Base("calendar", ord) EXCEPT !.attend = attend, !.prepare = prepare]
Message(ord, dm) == [Base("slack", ord) EXCEPT !.dm = dm, !.mention = ~dm]
Notice(ord, worthy) == [Base("github", ord) EXCEPT !.worthy = worthy]

World(items, someTasks, somePromises) ==
  [items |-> items, tasks |-> someTasks, promises |-> somePromises, edited |-> {}]

\* One thread: a mail to the operator, one in copy, the operator's reply.
Conversation ==
  World([m1 |-> Mail(1, "t", "to"), m2 |-> Mail(2, "t", "cc"), r1 |-> Reply(3, "t")], {}, {})

\* Two threads, one of them a newsletter.
Post ==
  World([m1 |-> Mail(1, "t", "to"), r1 |-> Reply(2, "u"),
         n1 |-> [Mail(3, "u", "to") EXCEPT !.bulk = TRUE]], {}, {})

\* A meeting to attend, which is moved or declined, and one to prepare.
Diary ==
  [World([c1 |-> Meeting(1, TRUE, FALSE), c2 |-> Meeting(2, TRUE, TRUE)], {}, {})
     EXCEPT !.edited = {"c1"}]

\* More promises than the cap, and dated tasks beside a promise.
Chase == World(<<>>, {}, {"p1", "p2", "p3"})
Board == World(<<>>, {"k1", "k2"}, {})
Deadline == World([c1 |-> Meeting(1, TRUE, TRUE)], {}, {"p1"})

\* More calls than the cap.
Rush ==
  World([c1 |-> Meeting(1, TRUE, FALSE), d1 |-> Message(2, TRUE), d2 |-> Message(3, FALSE)],
        {}, {})
Bell ==
  [World([c1 |-> Meeting(1, FALSE, TRUE), g1 |-> Notice(2, TRUE), g2 |-> Notice(3, FALSE)], {}, {})
     EXCEPT !.edited = {"g1"}]

MCWorlds == {Conversation, Post, Diary, Chase, Board, Deadline, Rush, Bell}
=============================================================================
