---------------------------- MODULE EbertTickets ----------------------------
(***************************************************************************)
(* How Ebert acts for its users (tools/ebert/ebert): UserContext and Login *)
(* give a request the context of its user, with a Perforce ticket that     *)
(* GetTicket takes from a cache or has p4 login make, one request at a     *)
(* time under ticketsMutex.  Time passes meanwhile, p4 answers late or not *)
(* at all, and an administrator may log a user out.                        *)
(***************************************************************************)
EXTENDS Naturals, Sequences

CONSTANTS
    Users,
    ApiUser,     \* the user Ebert itself is logged in as
    Requests,    \* requests at a time
    Threshold,   \* expirationThreshold
    Life,        \* how long a ticket lasts
    Latency,     \* bound: how late the answer of p4 login comes
    MaxTime,     \* bound: the clock
    MaxIssued    \* bound: tickets made
\* A ticket outlasts the threshold, and the threshold the slowest answer.
TicketsConstants ==
    /\ Threshold \in Nat /\ Life \in Nat /\ Latency \in Nat /\ MaxTime \in Nat /\ MaxIssued \in Nat
    /\ Latency < Threshold /\ Threshold < Life

VARIABLES
    now,
    issued,      \* the tickets Perforce made, numbered: user, expires, revoked
    tickets,     \* the cache: the number of a user's ticket, 0 for none, and its expiration
    mutex,       \* the requests that hold ticketsMutex
    req          \* the request each handler works on

vars == <<now, issued, tickets, mutex, req>>

Free == [pc |-> "idle", user |-> ApiUser, ticket |-> 0, since |-> 0]
NoTicket == [ticket |-> 0, expiration |-> 0]
Init ==
    /\ now = 0 /\ issued = <<>> /\ mutex = {}
    /\ tickets = [u \in Users |-> NoTicket]
    /\ req = [r \in Requests |-> Free]

Become(r, new) == req' = [req EXCEPT ![r] = new]
Using(r, ticket) == [req[r] EXCEPT !.pc = "use", !.ticket = ticket, !.since = now]

\* The context of Ebert's own user serves that user.
Login(r, u) ==
    /\ req[r].pc = "idle"
    /\ Become(r, [pc |-> IF u = ApiUser THEN "use" ELSE "ticket", user |-> u, ticket |-> 0, since |-> 0])
    /\ UNCHANGED <<now, issued, tickets, mutex>>

\* Mutant: a ticket is used until it expires.
FreshMut(info) == info.ticket # 0 /\ info.expiration > now
Fresh(info) == info.ticket # 0 /\ info.expiration > now + Threshold
\* A ticket of the cache.
GetTicket(r) ==
    /\ req[r].pc = "ticket" /\ mutex = {} /\ Fresh(tickets[req[r].user])
    /\ Become(r, Using(r, tickets[req[r].user].ticket))
    /\ UNCHANGED <<now, issued, tickets, mutex>>
\* None that lasts: it is deleted, and p4 login asked with the lock held.
AskTicket(r) ==
    /\ req[r].pc = "ticket" /\ mutex = {} /\ ~ Fresh(tickets[req[r].user])
    /\ mutex' = {r} /\ tickets' = [tickets EXCEPT ![req[r].user] = NoTicket]
    /\ Become(r, [req[r] EXCEPT !.pc = "login"])
    /\ UNCHANGED <<now, issued>>

\* Perforce makes the ticket and sends it with the seconds it lasts.
Grant(r) ==
    /\ req[r].pc = "login" /\ Len(issued) < MaxIssued
    /\ issued' = Append(issued, [user |-> req[r].user, expires |-> now + Life, revoked |-> FALSE])
    /\ Become(r, [req[r] EXCEPT !.pc = "answer", !.ticket = Len(issued) + 1, !.since = now])
    /\ UNCHANGED <<now, tickets, mutex>>
\* Login returns: the expiration is counted from now, not from when the ticket was made.
SetTicket(r) ==
    /\ req[r].pc = "answer"
    /\ tickets' = [tickets EXCEPT ![req[r].user] = [ticket |-> req[r].ticket, expiration |-> now + Life]]
    /\ mutex' = {} /\ Become(r, Using(r, req[r].ticket))
    /\ UNCHANGED <<now, issued>>
LoginFails(r) ==
    /\ req[r].pc \in {"login", "answer"}
    /\ mutex' = {} /\ Become(r, Free)
    /\ UNCHANGED <<now, issued, tickets>>

Respond(r) == req[r].pc = "use" /\ Become(r, Free) /\ UNCHANGED <<now, issued, tickets, mutex>>

Tick ==
    /\ now < MaxTime /\ \A r \in Requests : req[r].pc = "answer" => now < req[r].since + Latency
    /\ now' = now + 1 /\ UNCHANGED <<issued, tickets, mutex, req>>
\* p4 logout -a by an administrator, which Ebert is not told.
Revoke(t) ==
    /\ ~ issued[t].revoked /\ issued' = [issued EXCEPT ![t].revoked = TRUE]
    /\ UNCHANGED <<now, tickets, mutex, req>>

Next ==
    \/ Tick
    \/ \E t \in DOMAIN issued : Revoke(t)
    \/ \E r \in Requests :
        \/ GetTicket(r) \/ AskTicket(r) \/ Grant(r) \/ SetTicket(r) \/ LoginFails(r) \/ Respond(r)
        \/ \E u \in Users \cup {ApiUser} : Login(r, u)

Spec == Init /\ [][Next]_vars

-----------------------------------------------------------------------------
(* A request acts with a ticket of its own user that outlives it: one that takes less than
   expirationThreshold, and the time p4 login may take to answer, never has its ticket expire
   under it, although the cache counts the life of a ticket from when the answer came.  Only a ticket
   that was revoked fails it, until its time is over. *)
TicketLasts ==
    \A r \in Requests : req[r].pc = "use" /\ req[r].user # ApiUser =>
        /\ req[r].ticket \in DOMAIN issued /\ issued[req[r].ticket].user = req[r].user
        /\ now + Latency <= req[r].since + Threshold => now < issued[req[r].ticket].expires
=============================================================================
