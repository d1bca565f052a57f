---------------------------- MODULE MCSyncAll ----------------------------
(* Small instances of SyncAll: two or three connectors of different kinds. *)
EXTENDS SyncAll

MCContents ==
  [gmail |-> <<"m1">>, mail |-> <<"m1", "m2">>, cal1 |-> <<"e1">>, cal2 |-> <<"e1">>,
   pages |-> <<"p1">>, db |-> <<"p2">>, folder |-> <<"f1">>,
   url1 |-> <<"u1">>, url2 |-> <<"u2">>, root1 |-> <<"x1", "x2">>,
   root2 |-> <<"x2">>]

Acct(name, scope, calendars, secret, settings) ==
  [name |-> name, scope |-> scope, calendars |-> calendars, secret |-> secret,
   settings |-> settings]
Flat(scope) == <<Acct("default", scope, <<>>, TRUE, TRUE)>>

Scenario(names, kind, configured, hung, others) ==
  [names |-> names, kind |-> kind, accounts |-> configured, binary |-> FALSE,
   off |-> {}, hung |-> hung, requests |-> {Range(names)}, others |-> others]

\* Two Google accounts, one with two calendars that share an event.
TwoMailboxes ==
  Scenario(<<"google">>, [google |-> "google"],
    [google |-> <<Acct("default", <<"gmail", "calendar">>,
                       <<"cal1", "", "cal1", "cal2">>, TRUE, TRUE),
                  Acct("work", <<"gmail">>, <<>>, TRUE, TRUE)>>],
    {}, {"google"})

\* An account that is to read no calendar, and nothing else.
NoCalendar ==
  Scenario(<<"google">>, [google |-> "google"],
    [google |-> <<Acct("default", <<"calendar">>, <<>>, TRUE, TRUE),
                  Acct("work", <<"gmail">>, <<>>, TRUE, TRUE)>>],
    {}, {})

\* Accounts without a secret, without settings, without a scope.
Incomplete(s1, s2, t1) ==
  Scenario(<<"msgraph", "notion">>, [msgraph |-> "ms-graph", notion |-> "notion"],
     [msgraph |-> <<Acct("default", <<"mail">>, <<>>, s1, t1),
                    Acct("idle", <<>>, <<>>, s1, TRUE),
                    Acct("work", <<"mail">>, <<>>, s2, TRUE)>>,
      notion |-> Flat(<<"pages", "db">>)],
     {"notion"}, {})

\* Three connectors, one of which may hang.
Files ==
  Scenario(<<"box", "local", "web">>, [box |-> "box", local |-> "local", web |-> "web"],
    [box |-> Flat(<<"folder">>), local |-> Flat(<<"root2">>),
     web |-> Flat(<<"url1">>)],
    {"box"}, {})

\* The standalone binary, and a connector that is switched off.
Binary ==
  [Files EXCEPT !.accounts.local = Flat(<<"root1", "root2">>), !.binary = TRUE, !.hung = {}, !.off = {"web"}, !.others = {},
     !.requests = {{"box", "local"}, {"box", "local", "web"}, {"box"}}]

MCScenarios == 
  <<TwoMailboxes, NoCalendar, Files, Binary, Incomplete(TRUE, TRUE, FALSE),
    Incomplete(TRUE, FALSE, TRUE), Incomplete(FALSE, FALSE, TRUE)>>
=============================================================================
