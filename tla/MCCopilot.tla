------------------------------ MODULE MCCopilot ------------------------------
(* Results of two scenarios, actors, routes and treatments, sorted by name as  *)
(* result_adapter.py does, and the claims a model may make about them.         *)
EXTENDS CopilotService

CONSTANTS s1, s2, a1, a2, c1, d1, r1, r2, t1, t2, opened, closed, t0

NamedItem(n, a, t) == [name |-> n, aal |-> a, tail |-> t, state |-> NoEntity]
RouteItem(n, s) == [name |-> n, aal |-> 1, tail |-> 1, state |-> s]
ResultOf(n, s, st) ==
  [metrics |-> <<NamedItem(t0, 1, n)>>, actors |-> <<NamedItem(a1, 1, 2), NamedItem(a2, n, 3)>>,
   scenarios |-> s, categories |-> <<NamedItem(c1, 2, 3)>>, drivers |-> <<NamedItem(d1, 3, 3)>>,
   routes |-> <<RouteItem(r1, st), RouteItem(r2, NoEntity)>>,
   treatments |-> <<NamedItem(t1, 0, 0), NamedItem(t2, n - 1, 0)>>]
SmallResults ==
  {ResultOf(1, << >>, opened), ResultOf(2, <<NamedItem(s1, 1, 2)>>, NoEntity),
   ResultOf(2, <<NamedItem(s1, 2, 2), NamedItem(s2, 1, 3)>>, opened), ResultOf(1, <<NamedItem(s1, 1, 3), NamedItem(s2, 3, 3)>>, NoEntity)}
SmallPhrases ==
  {{Number(1)}, {Number(2), Greater}, {Ranked(a1), Named(s1)}, {Ranked(a2)},
   {Named(s2), Number(3)}, {State(opened)}, {Vague, State(closed)}, {Ranked(s1), Named(s1)} }
==============================================================================
