------------------------------ MODULE MCAccess ------------------------------
(***************************************************************************)
(* Access on small instances: two companies and two clients. The handlers  *)
(* of two requests run side by side; a third one waits for one of them.    *)
(***************************************************************************)
EXTENDS Access

CONSTANTS ana, bea, cai, dan, A, B, r1, r2, r3

MCUsers == {ana, bea, cai, dan}
MCSeeded == {ana, bea, cai}
MCCompanyOf == [u \in MCUsers |-> IF u = cai THEN B ELSE A]
MCAdminsIn == [company \in Companies |-> {u \in MCUsers \ {dan} : MCCompanyOf[u] = company}]

Mix(requests, kinds, users, wrong) ==
  [requests |-> requests, kinds |-> kinds, users |-> users, failures |-> wrong]

MCDeactivations == Mix({r1, r2}, {"login", "deactivate"}, {ana, bea}, 0)

\* Passwords tried; administrators deactivated; requests of two companies; an account
\* opened and its password changed; a password reset and changed.
MCMixes ==
  {Mix({r1, r2}, {"login", "wrong-login"}, {ana}, 4),
   MCDeactivations,
   Mix({r1, r2, r3}, {"login", "work"}, {ana, cai}, 0),
   Mix({r1, r2}, {"login", "create", "change"}, {ana, dan}, 0),
   Mix({r1, r2}, {"login", "logout", "reset-request", "reset", "change"}, {ana}, 0)}

\* For the run about the last administrator alone.
MCDeactivationsOnly == {MCDeactivations}
=============================================================================
