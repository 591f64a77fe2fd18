------------------------------ MODULE Condition -----------------------------
(* threads::Condition of bodytrack: a pthread condition variable with two     *)
(* counters beside it, so that nobody returns from Wait without a ticket that *)
(* a notification has issued.  The callers are to hold its mutex.             *)
EXTENDS Integers

NewCondition == [nWaiting |-> 0, nWakeupTickets |-> 0]

(* The threads that no notification is on its way to.                         *)
Slack(c) == c.nWaiting - c.nWakeupTickets

(* NotifyOne and NotifyAll; both go on to the pthread condition variable only *)
(* if there is slack.                                                         *)
NotifyOne(c) == IF Slack(c) > 0 THEN [c EXCEPT !.nWakeupTickets = @ + 1] ELSE c

NotifyAll(c) == IF Slack(c) > 0 THEN [c EXCEPT !.nWakeupTickets = c.nWaiting] ELSE c

(* Wait: a thread is counted, sleeps for as long as there is no ticket, and   *)
(* takes one.                                                                 *)
Counted(c) == [c EXCEPT !.nWaiting = @ + 1]

HasTicket(c) == c.nWakeupTickets # 0

(* Mutant: a thread that leaves is not counted out.                           *)
TakeTicket_stay(c) == [c EXCEPT !.nWakeupTickets = @ - 1]

TakeTicket(c) == [c EXCEPT !.nWakeupTickets = @ - 1, !.nWaiting = @ - 1]
=============================================================================
