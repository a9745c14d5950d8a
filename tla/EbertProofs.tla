---------------------------- MODULE EbertProofs -----------------------------
(***************************************************************************)
(* Proofs about the parts of Ebert that serve requests: its tickets, the   *)
(* comments and the changes of a review, and about the server that         *)
(* MCEbert puts together from them and the watcher.  They hold for any     *)
(* number of users, requests, drafts, versions and writers; for the        *)
(* tickets, a life that exceeds the threshold and a threshold that exceeds *)
(* the latency of p4 login are assumed (TicketsConstants).                 *)
(***************************************************************************)
EXTENDS MCEbert, Sequences, FiniteSetTheorems, TLAPS

-----------------------------------------------------------------------------
(* Tickets.  TicketLasts is not inductive: it says nothing of the tickets that are in the cache or
   on their way.  The strengthening bounds how far the expiration of the cache is ahead of
   Perforce's own, by the time the answer of a login took. *)

AllUsers == Users \cup {ApiUser}
Ticket == [user : AllUsers, expires : Nat, revoked : BOOLEAN]
TicketRequest == [pc : {"idle", "ticket", "login", "answer", "use"}, user : AllUsers, ticket : Nat, since : Nat]
TicketTyped ==
    /\ now \in Nat
    /\ issued \in Seq(Ticket)
    /\ tickets \in [Users -> [ticket : Nat, expiration : Nat]]
    /\ acting \in [Requests -> TicketRequest]

\* The parts of the invariant are about the tickets made (made) and the time (time), so that
\* they can be stated of a record before and after the step that makes it.
\* Ticket t was made for user u.
Owned(made, t, u) == t \in DOMAIN made /\ made[t].user = u

CacheOk(made, u, info) ==
    info.ticket # 0 =>
        Owned(made, info.ticket, u) /\ info.expiration <= made[info.ticket].expires + Latency

ActingOk(made, time, q) ==
    /\ q.pc \in {"ticket", "login", "answer"} => q.user \in Users
    /\ q.pc = "answer" =>
          /\ Owned(made, q.ticket, q.user)
          /\ made[q.ticket].expires = q.since + Life
          /\ time <= q.since + Latency
    /\ q.pc = "use" /\ q.user # ApiUser =>
          Owned(made, q.ticket, q.user) /\ q.since + Threshold < made[q.ticket].expires + Latency

(* The inductive invariant. *)
TicketInv ==
    /\ TicketTyped
    /\ \A u \in Users : CacheOk(issued, u, tickets[u])
    /\ \A r \in Requests : ActingOk(issued, now, acting[r])

(* Perforce does not change a ticket it made, but for revoking it. *)
Stays ==
    \A t \in DOMAIN issued : /\ t \in DOMAIN issued'
                             /\ issued'[t].user = issued[t].user
                             /\ issued'[t].expires = issued[t].expires

-----------------------------------------------------------------------------
(* No ticket is issued or cached before the first request. *)
LEMMA TicketInit == ASSUME Tickets!TicketsConstants PROVE Tickets!Init => TicketInv
<1> SUFFICES ASSUME Tickets!Init PROVE TicketInv
  OBVIOUS
<1>1. TicketTyped
  BY DEF Tickets!Init, TicketTyped, Tickets!NoTicket, Tickets!Free, TicketRequest, AllUsers
<1>2. \A u \in Users : tickets[u].ticket = 0
  BY DEF Tickets!Init, Tickets!NoTicket
<1>3. \A r \in Requests : acting[r].pc = "idle"
  BY DEF Tickets!Init, Tickets!Free
<1> QED BY <1>1, <1>2, <1>3 DEF TicketInv, CacheOk, ActingOk

(* The tickets that are made and revoked. *)
LEMMA IssuedOk ==
    ASSUME Tickets!TicketsConstants, TicketTyped, Tickets!Next
    PROVE  Stays /\ issued' \in Seq(Ticket)
<1>1. ASSUME NEW r \in Requests, Tickets!Grant(r) PROVE Stays /\ issued' \in Seq(Ticket)
  <2> DEFINE t == [user |-> acting[r].user, expires |-> now + Life, revoked |-> FALSE]
  <2>1. t \in Ticket
    BY DEF TicketTyped, TicketRequest, Ticket, Tickets!TicketsConstants
  <2>2. issued' = Append(issued, t)
    BY <1>1 DEF Tickets!Grant
  <2> HIDE DEF t
  <2>3. issued' \in Seq(Ticket) /\ \A i \in DOMAIN issued : i \in DOMAIN issued' /\ issued'[i] = issued[i]
    BY <2>1, <2>2 DEF TicketTyped
  <2> QED BY <2>3 DEF Stays
<1>2. ASSUME NEW t \in DOMAIN issued, Tickets!Revoke(t) PROVE Stays /\ issued' \in Seq(Ticket)
  <2> DEFINE new == [issued[t] EXCEPT !.revoked = TRUE]
  <2>1. issued[t] \in Ticket
    BY DEF TicketTyped
  <2>2. new \in Ticket /\ new.user = issued[t].user /\ new.expires = issued[t].expires
    BY <2>1 DEF Ticket
  <2>3. issued' = [issued EXCEPT ![t] = new]
    BY <1>2 DEF Tickets!Revoke
  <2> HIDE DEF new
  <2>4. issued' \in Seq(Ticket) /\ DOMAIN issued' = DOMAIN issued
        /\ \A i \in DOMAIN issued : issued'[i] = IF i = t THEN new ELSE issued[i]
    BY <2>2, <2>3 DEF TicketTyped
  <2> QED BY <2>2, <2>4 DEF Stays
<1>3. CASE issued' = issued
  BY <1>3 DEF Stays, TicketTyped
<1> QED BY <1>1, <1>2, <1>3 DEF Tickets!Next, Tickets!Tick, Tickets!GetTicket, Tickets!AskTicket, Tickets!SetTicket, Tickets!LoginFails, Tickets!Respond, Tickets!Login

(* A ticket expires at some time. *)
LEMMA ExpiresNat == ASSUME TicketTyped, NEW t \in DOMAIN issued PROVE issued[t].expires \in Nat
<1>1. issued[t] \in Ticket
  BY DEF TicketTyped
<1> QED BY <1>1 DEF Ticket

(* What is known of a request stays known while the clock stands. *)
LEMMA RequestStays ==
    ASSUME TicketTyped, Stays, now' = now, NEW q \in TicketRequest, ActingOk(issued, now, q)
    PROVE  ActingOk(issued', now', q)
BY DEF Stays, Owned, ActingOk

(* A cached ticket that was good stays good while tickets are only added and the old ones keep their owners. *)
LEMMA CacheStays ==
    ASSUME TicketTyped, Stays, NEW u \in Users, NEW info \in [ticket : Nat, expiration : Nat], CacheOk(issued, u, info)
    PROVE  CacheOk(issued', u, info)
BY DEF Stays, Owned, CacheOk

(* A step of request r with its new record, that may put a ticket into the cache. *)
LEMMA OneRequest ==
    ASSUME TicketInv, Stays, issued' \in Seq(Ticket), now' = now,
           NEW r \in Requests, NEW new \in TicketRequest, acting' = [acting EXCEPT ![r] = new], ActingOk(issued', now', new),
           \/ tickets' = tickets
           \/ \E v \in Users, info \in [ticket : Nat, expiration : Nat] :
                 tickets' = [tickets EXCEPT ![v] = info] /\ CacheOk(issued', v, info)
    PROVE  TicketInv'
<1>1. TicketTyped'
  BY DEF TicketInv, TicketTyped
<1>2. \A u \in Users : CacheOk(issued', u, tickets'[u])
  <2> SUFFICES ASSUME NEW u \in Users PROVE CacheOk(issued', u, tickets'[u])
    OBVIOUS
  <2>1. tickets[u] \in [ticket : Nat, expiration : Nat] /\ CacheOk(issued, u, tickets[u])
    BY DEF TicketInv, TicketTyped
  <2>2. \/ tickets'[u] = tickets[u]
        \/ \E info \in [ticket : Nat, expiration : Nat] : tickets'[u] = info /\ CacheOk(issued', u, info)
    BY DEF TicketInv, TicketTyped
  <2>3. CASE tickets'[u] = tickets[u]
    <3>1. ASSUME NEW i \in [ticket : Nat, expiration : Nat], CacheOk(issued, u, i) PROVE CacheOk(issued', u, i)
      BY <3>1, CacheStays DEF TicketInv
    <3> QED BY <2>1, <2>3, <3>1 DEF CacheOk, Owned
  <2>4. ASSUME NEW info \in [ticket : Nat, expiration : Nat], tickets'[u] = info, CacheOk(issued', u, info)
        PROVE  CacheOk(issued', u, tickets'[u])
    BY <2>4 DEF CacheOk, Owned
  <2> QED BY <2>2, <2>3, <2>4
<1>3. \A h \in Requests : ActingOk(issued', now', acting'[h])
  <2> SUFFICES ASSUME NEW h \in Requests PROVE ActingOk(issued', now', acting'[h])
    OBVIOUS
  <2>1. acting[h] \in TicketRequest /\ ActingOk(issued, now, acting[h])
    BY DEF TicketInv, TicketTyped
  <2>2. acting'[h] = IF h = r THEN new ELSE acting[h]
    BY DEF TicketInv, TicketTyped
  <2>3. CASE h = r
    BY <2>2, <2>3 DEF ActingOk, Owned
  <2>4. CASE h # r
    <3>1. ASSUME NEW q \in TicketRequest, ActingOk(issued, now, q) PROVE ActingOk(issued', now', q)
      BY <3>1, RequestStays DEF TicketInv
    <3> QED BY <2>1, <2>2, <2>4, <3>1 DEF ActingOk, Owned
  <2> QED BY <2>3, <2>4
<1> QED BY <1>1, <1>2, <1>3 DEF TicketInv

(* Every step of a request, of the clock or of Perforce preserves the ticket invariant. *)
LEMMA TicketStep == ASSUME Tickets!TicketsConstants PROVE TicketInv /\ [Tickets!Next]_ticketVars => TicketInv'
<1> SUFFICES ASSUME TicketInv, [Tickets!Next]_ticketVars PROVE TicketInv'
  OBVIOUS
<1>0. TicketTyped
  BY DEF TicketInv
<1>1. ASSUME NEW r \in Requests, NEW u \in AllUsers, Tickets!Login(r, u), Stays, issued' \in Seq(Ticket)
      PROVE  TicketInv'
  <2> DEFINE new == [pc |-> IF u = ApiUser THEN "use" ELSE "ticket", user |-> u, ticket |-> 0, since |-> 0]
  <2>1. acting' = [acting EXCEPT ![r] = new] /\ now' = now /\ tickets' = tickets
    BY <1>1 DEF Tickets!Login, Tickets!Become
  <2>2. new \in TicketRequest /\ ActingOk(issued', now', new)
    BY DEF TicketRequest, ActingOk, AllUsers
  <2> HIDE DEF new
  <2> QED BY <1>1, <2>1, <2>2, OneRequest
<1>2. ASSUME NEW r \in Requests, Tickets!GetTicket(r), Stays, issued' \in Seq(Ticket) PROVE TicketInv'
  <2> DEFINE u == acting[r].user
             info == tickets[u]
             new == [acting[r] EXCEPT !.pc = "use", !.ticket = info.ticket, !.since = now]
  <2>1. acting' = [acting EXCEPT ![r] = new] /\ now' = now /\ tickets' = tickets /\ issued' = issued
    BY <1>2 DEF Tickets!GetTicket, Tickets!Become, Tickets!Using
  <2>2. acting[r] \in TicketRequest /\ u \in Users
    BY <1>2 DEF Tickets!GetTicket, TicketInv, TicketTyped, ActingOk
  <2>3. info \in [ticket : Nat, expiration : Nat] /\ CacheOk(issued, u, info)
    BY <2>2 DEF TicketInv, TicketTyped
  <2>4. info.ticket # 0 /\ info.expiration > now + Threshold
    BY <1>2 DEF Tickets!GetTicket, Tickets!Fresh
  <2> HIDE DEF info
  <2>5. new \in TicketRequest /\ new.pc = "use" /\ new.user = u /\ new.ticket = info.ticket /\ new.since = now
    BY <1>0, <2>2, <2>3 DEF TicketRequest, TicketTyped
  <2> HIDE DEF new, u
  <2>6. Owned(issued, info.ticket, u) /\ now + Threshold < issued[info.ticket].expires + Latency
    <3>1. Owned(issued, info.ticket, u) /\ info.expiration <= issued[info.ticket].expires + Latency
      BY <2>3, <2>4 DEF CacheOk
    <3>2. issued[info.ticket].expires \in Nat
      BY <1>0, <3>1, ExpiresNat DEF Owned
    <3> QED BY <1>0, <2>3, <2>4, <3>1, <3>2 DEF TicketTyped, Tickets!TicketsConstants
  <2>7. ActingOk(issued', now', new)
    BY <2>1, <2>5, <2>6 DEF ActingOk, Owned
  <2> QED BY <1>2, <2>1, <2>5, <2>7, OneRequest
<1>3. ASSUME NEW r \in Requests, Tickets!AskTicket(r), Stays, issued' \in Seq(Ticket) PROVE TicketInv'
  <2> DEFINE u == acting[r].user
             new == [acting[r] EXCEPT !.pc = "login"]
  <2>1. acting' = [acting EXCEPT ![r] = new] /\ now' = now /\ tickets' = [tickets EXCEPT ![u] = Tickets!NoTicket]
    BY <1>3 DEF Tickets!AskTicket, Tickets!Become
  <2>2. acting[r] \in TicketRequest /\ u \in Users
    BY <1>3 DEF Tickets!AskTicket, TicketInv, TicketTyped, ActingOk
  <2>3. new \in TicketRequest /\ new.pc = "login" /\ new.user = u
    BY <2>2 DEF TicketRequest
  <2> HIDE DEF new, u
  <2>4. ActingOk(issued', now', new)
    BY <2>2, <2>3 DEF ActingOk
  <2>5. Tickets!NoTicket \in [ticket : Nat, expiration : Nat] /\ CacheOk(issued', u, Tickets!NoTicket)
    BY DEF Tickets!NoTicket, CacheOk
  <2> QED BY <1>3, <2>1, <2>2, <2>3, <2>4, <2>5, OneRequest
<1>4. ASSUME NEW r \in Requests, Tickets!Grant(r), Stays, issued' \in Seq(Ticket) PROVE TicketInv'
  <2> DEFINE n == Len(issued) + 1
             t == [user |-> acting[r].user, expires |-> now + Life, revoked |-> FALSE]
             new == [acting[r] EXCEPT !.pc = "answer", !.ticket = n, !.since = now]
  <2>1. acting' = [acting EXCEPT ![r] = new] /\ now' = now /\ tickets' = tickets /\ issued' = Append(issued, t)
    BY <1>4 DEF Tickets!Grant, Tickets!Become
  <2>2. acting[r] \in TicketRequest /\ acting[r].user \in Users
    BY <1>4 DEF Tickets!Grant, TicketInv, TicketTyped, ActingOk
  <2>3. n \in DOMAIN issued' /\ issued'[n] = t /\ n \in Nat
    <3> HIDE DEF t
    <3> QED BY <1>0, <2>1 DEF TicketTyped
  <2>4. new \in TicketRequest /\ new.pc = "answer" /\ new.user = acting[r].user /\ new.ticket = n /\ new.since = now
    <3> HIDE DEF n
    <3> QED BY <1>0, <2>2, <2>3 DEF TicketRequest, TicketTyped
  <2> HIDE DEF new, n
  <2>5. ActingOk(issued', now', new)
    BY <1>0, <2>1, <2>2, <2>3, <2>4 DEF ActingOk, Owned, TicketTyped, Tickets!TicketsConstants
  <2> QED BY <1>4, <2>1, <2>4, <2>5, OneRequest
<1>5. ASSUME NEW r \in Requests, Tickets!SetTicket(r), Stays, issued' \in Seq(Ticket) PROVE TicketInv'
  <2> DEFINE u == acting[r].user
             t == acting[r].ticket
             info == [ticket |-> t, expiration |-> now + Life]
             new == [acting[r] EXCEPT !.pc = "use", !.ticket = t, !.since = now]
  <2>1. acting' = [acting EXCEPT ![r] = new] /\ now' = now /\ tickets' = [tickets EXCEPT ![u] = info]
        /\ issued' = issued
    BY <1>5 DEF Tickets!SetTicket, Tickets!Become, Tickets!Using
  <2>2. acting[r] \in TicketRequest /\ u \in Users /\ Owned(issued, t, u) /\ issued[t].expires = acting[r].since + Life
        /\ now <= acting[r].since + Latency
    BY <1>5 DEF Tickets!SetTicket, TicketInv, TicketTyped, ActingOk
  <2>3. t \in Nat /\ acting[r].since \in Nat /\ now \in Nat
    BY <1>0, <2>2 DEF TicketRequest, TicketTyped
  <2>4. info \in [ticket : Nat, expiration : Nat] /\ info.ticket = t /\ info.expiration = now + Life
    BY <2>3 DEF Tickets!TicketsConstants
  <2>5. new \in TicketRequest /\ new.pc = "use" /\ new.user = u /\ new.ticket = t /\ new.since = now
    BY <2>2, <2>3 DEF TicketRequest
  <2> HIDE DEF new, info
  <2>6. now + Life <= issued[t].expires + Latency /\ now + Threshold < issued[t].expires + Latency
    BY <2>2, <2>3 DEF Tickets!TicketsConstants
  <2> HIDE DEF t, u
  <2>7. ActingOk(issued', now', new)
    BY <2>1, <2>2, <2>5, <2>6 DEF ActingOk, Owned
  <2>8. CacheOk(issued', u, info)
    BY <2>1, <2>2, <2>4, <2>6 DEF CacheOk, Owned
  <2> QED BY <1>5, <2>1, <2>2, <2>4, <2>5, <2>7, <2>8, OneRequest
<1>6. ASSUME NEW r \in Requests, Tickets!LoginFails(r) \/ Tickets!Respond(r), Stays, issued' \in Seq(Ticket) PROVE TicketInv'
  <2>1. acting' = [acting EXCEPT ![r] = Tickets!Free] /\ now' = now /\ tickets' = tickets
    BY <1>6 DEF Tickets!LoginFails, Tickets!Respond, Tickets!Become
  <2>2. Tickets!Free \in TicketRequest /\ ActingOk(issued', now', Tickets!Free)
    BY DEF Tickets!Free, TicketRequest, ActingOk, AllUsers
  <2> QED BY <1>6, <2>1, <2>2, OneRequest
<1>7. ASSUME Tickets!Tick PROVE TicketInv'
  <2>1. now' = now + 1 /\ issued' = issued /\ tickets' = tickets /\ acting' = acting
    BY <1>7 DEF Tickets!Tick
  <2>2. TicketTyped' /\ \A u \in Users : CacheOk(issued', u, tickets'[u])
    BY <2>1 DEF TicketInv, TicketTyped, CacheOk, Owned
  <2>3. ASSUME NEW r \in Requests PROVE ActingOk(issued', now', acting'[r])
    <3>1. acting[r].pc = "answer" => now + 1 <= acting[r].since + Latency
      BY <1>0, <1>7 DEF Tickets!Tick, TicketTyped, TicketRequest, Tickets!TicketsConstants
    <3> QED BY <2>1, <3>1 DEF TicketInv, ActingOk, Owned
  <2> QED BY <2>2, <2>3 DEF TicketInv
<1>8. ASSUME NEW t \in DOMAIN issued, Tickets!Revoke(t), Stays, issued' \in Seq(Ticket) PROVE TicketInv'
  <2>1. now' = now /\ tickets' = tickets /\ acting' = acting
    BY <1>8 DEF Tickets!Revoke
  <2>2. ASSUME NEW u \in Users PROVE CacheOk(issued', u, tickets'[u])
    BY <1>8, <2>1 DEF TicketInv, CacheOk, Owned, Stays
  <2>3. ASSUME NEW r \in Requests PROVE ActingOk(issued', now', acting'[r])
    BY <1>8, <2>1 DEF TicketInv, ActingOk, Owned, Stays
  <2>4. TicketTyped'
    BY <1>0, <1>8, <2>1 DEF TicketTyped
  <2> QED BY <2>2, <2>3, <2>4 DEF TicketInv
<1>9. CASE UNCHANGED ticketVars
  BY <1>9 DEF ticketVars, TicketInv, TicketTyped, CacheOk, ActingOk, Owned
<1> QED
  <2>1. CASE Tickets!Next
    <3>1. Stays /\ issued' \in Seq(Ticket)
      BY <1>0, <2>1, IssuedOk
    <3> QED BY <1>1, <1>2, <1>3, <1>4, <1>5, <1>6, <1>7, <1>8, <2>1, <3>1 DEF Tickets!Next, AllUsers
  <2> QED BY <1>9, <2>1

(* What the invariant says of a ticket in use. *)
LEMMA TicketInvLasts == TicketInv => Tickets!TicketLasts
<1> SUFFICES ASSUME TicketInv, NEW r \in Requests, acting[r].pc = "use", acting[r].user # ApiUser
             PROVE  /\ acting[r].ticket \in DOMAIN issued /\ issued[acting[r].ticket].user = acting[r].user
                    /\ now + Latency <= acting[r].since + Threshold => now < issued[acting[r].ticket].expires
  BY DEF Tickets!TicketLasts
<1>1. /\ Owned(issued, acting[r].ticket, acting[r].user)
      /\ acting[r].since + Threshold < issued[acting[r].ticket].expires + Latency
  BY DEF TicketInv, ActingOk
<1>2. now \in Nat /\ acting[r].since \in Nat
  BY DEF TicketInv, TicketTyped, TicketRequest
<1>3. issued[acting[r].ticket].expires \in Nat
  BY <1>1, ExpiresNat DEF TicketInv, Owned
<1> QED BY <1>1, <1>2, <1>3, TicketsAssumption DEF Owned, Tickets!TicketsConstants

(* A request acts with a ticket of its own user that outlives it, although GetTicket takes it from a
   cache that counts its life from when the answer of the login came. *)
THEOREM TicketCorrect == Tickets!Spec => []Tickets!TicketLasts
<1>1. Tickets!Init => TicketInv
  BY TicketInit, TicketsAssumption
<1>2. TicketInv /\ [Tickets!Next]_ticketVars => TicketInv'
  BY TicketStep, TicketsAssumption
<1> QED BY <1>1, <1>2, TicketInvLasts, PTL DEF Tickets!Spec, Tickets!vars, ticketVars

-----------------------------------------------------------------------------
(* The changes of a review.  What a request was told is a matter of what it saw while it ran: the
   invariant says what holds of the review, the key, the runs and the jobs at every stage of a
   request, of a stage before the answer too. *)

Patching ==
    [op : {"patch"}, pc : {"patch", "wait", "answered"}, bug : {"get", "write", "send", "none"}, tries : Nat,
     orig : Nat, bugOk : BOOLEAN, ok : BOOLEAN, shows : BOOLEAN]
Approving ==
    [op : {"approve"}, pc : {"state", "check", "vote", "answered"}, bug : {"none"}, user : Users, version : Nat,
     ok : BOOLEAN, shows : BOOLEAN]
Testing ==
    [op : {"tests"}, pc : {"create", "send", "answered"}, bug : {"none"}, version : Nat, ok : BOOLEAN,
     shows : BOOLEAN]
Reading == [op : {"login", "get"}, pc : {"answered"}, bug : {"none"}, ok : BOOLEAN, shows : BOOLEAN]
Change == Patching \cup Approving \cup Testing \cup Reading \cup {Review!Free}
ReviewRecord ==
    [exists : BOOLEAN, versions : Nat, state : {"needsReview", "approved"}, votes : SUBSET Users,
     committed : BOOLEAN, patched : SUBSET Review!Requests]
Run == [run : Review!Requests, version : Nat]

ReviewTyped ==
    /\ review \in ReviewRecord
    /\ aux \in Seq(Nat)
    /\ runs \subseteq Run /\ jobs \subseteq Run
    /\ changing \in [Review!Requests -> Change]

\* Stated of the review rv, the writers ax of the key, the runs rs and the jobs js, like the above.
Wrote(ax, r) == \E i \in DOMAIN ax : ax[i] = r
RunOf(r, version) == [run |-> r, version |-> version]
PatchOk(rv, ax, r, q) ==
    q.op = "patch" =>
        /\ q.pc = "wait" => r \in rv.patched
        /\ q.bugOk => Wrote(ax, r)
        /\ q.ok => r \in rv.patched /\ Wrote(ax, r)
ApproveOk(rv, q) ==
    q.op = "approve" =>
        /\ q.version <= rv.versions
        /\ (q.pc = "vote" \/ q.ok) /\ q.version = rv.versions => rv.state = "approved"
        /\ q.ok /\ q.version = rv.versions => q.user \in rv.votes
TestsOk(rv, rs, js, r, q) ==
    q.op = "tests" =>
        /\ q.pc \in {"create", "send"} => q.version \in 1 .. rv.versions
        /\ q.pc = "send" => RunOf(r, q.version) \in rs
        /\ q.ok => RunOf(r, q.version) \in js
ChangeOk(rv, ax, rs, js, r, q) == PatchOk(rv, ax, r, q) /\ ApproveOk(rv, q) /\ TestsOk(rv, rs, js, r, q)
JobsOk(rv, rs, js) == js \subseteq rs /\ \A j \in js : j.version \in 1 .. rv.versions

(* The inductive invariant. *)
ReviewInv ==
    /\ ReviewTyped
    /\ JobsOk(review, runs, jobs)
    /\ \A r \in Review!Requests : ChangeOk(review, aux, runs, jobs, r, changing[r])

(* What others do to a review, its key, its runs and its jobs while a request runs. *)
ReviewGrows ==
    /\ review'.patched \in SUBSET Review!Requests /\ review.patched \subseteq review'.patched
    /\ review'.versions \in Nat /\ review.versions <= review'.versions
    /\ review'.versions = review.versions /\ review.state = "approved" =>
          review'.state = "approved" /\ review.votes \subseteq review'.votes
    /\ \A i \in DOMAIN aux : i \in DOMAIN aux' /\ aux'[i] = aux[i]
    /\ runs \subseteq runs' /\ jobs \subseteq jobs'

(* A Swarm call that returned no error did what it was asked for. *)
LEMMA OutcomeHonest ==
    ASSUME NEW out \in Review!Outcomes
    PROVE  out \in [applied : BOOLEAN, ok : BOOLEAN] /\ (out.ok => out.applied)
<1>1. PICK reply \in Review!Replies : out = [applied |-> reply.applied, ok |-> Review!ContextDoSwarmRequest(reply)]
  BY DEF Review!Outcomes
<1>2. reply.applied \in BOOLEAN /\ (reply.form \in {"json", "odd"} => reply.applied)
  <2>1. reply.applied = TRUE \/ reply.applied = FALSE
    BY DEF Review!Replies
  <2>2. reply.form \in {"json", "odd"} => reply.applied = TRUE
    BY DEF Review!Replies
  <2> QED BY <2>1, <2>2
<1>3. /\ Review!ContextDoSwarmRequest(reply) \in BOOLEAN
      /\ Review!ContextDoSwarmRequest(reply) => reply.form \in {"json", "odd"}
  BY DEF Review!ContextDoSwarmRequest, Review!doSwarmRequest, Review!UnmarshalJSON
<1> QED BY <1>1, <1>2, <1>3

(* The record of a request tells its operation; only a patch has a goroutine. *)
LEMMA ChangeKinds ==
    ASSUME NEW q \in Change
    PROVE  /\ q.op = "patch" \/ q.bug # "none" => q \in Patching
           /\ q.op = "approve" => q \in Approving
           /\ q.op = "tests" => q \in Testing
BY DEF Change, Patching, Approving, Testing, Reading, Review!Free

(* What is known of a request stays known whatever others do. *)
LEMMA ChangeStays ==
    ASSUME ReviewTyped, ReviewGrows, NEW r \in Review!Requests, NEW q \in Change,
           ChangeOk(review, aux, runs, jobs, r, q)
    PROVE  ChangeOk(review', aux', runs', jobs', r, q)
<1>0. review.versions \in Nat
  BY DEF ReviewTyped, ReviewRecord
<1>1. PatchOk(review', aux', r, q)
  BY DEF ChangeOk, PatchOk, ReviewGrows, Wrote
<1>2. ApproveOk(review', q)
  <2> SUFFICES ASSUME q.op = "approve" PROVE ApproveOk(review', q)
    BY DEF ApproveOk
  <2>1. q.version \in Nat
    BY DEF Change, Patching, Approving, Testing, Reading, Review!Free
  <2> QED BY <1>0, <2>1 DEF ChangeOk, ApproveOk, ReviewGrows
<1>3. TestsOk(review', runs', jobs', r, q)
  BY <1>0 DEF ChangeOk, TestsOk, ReviewGrows
<1> QED BY <1>1, <1>2, <1>3 DEF ChangeOk

(* The first state, with no job and no request on the review, satisfies the review invariant. *)
LEMMA ReviewInit == Review!Init => ReviewInv
<1> SUFFICES ASSUME Review!Init PROVE ReviewInv
  OBVIOUS
<1>1. ReviewTyped
  BY DEF Review!Init, ReviewTyped, ReviewRecord, Change
<1>2. JobsOk(review, runs, jobs)
  BY DEF Review!Init, JobsOk
<1>3. \A r \in Review!Requests : changing[r].op = "none"
  BY DEF Review!Init, Review!Free
<1> QED BY <1>1, <1>2, <1>3 DEF ReviewInv, ChangeOk, PatchOk, ApproveOk, TestsOk

(* A step of request r with its new record, in a review that may have changed with it. *)
LEMMA OneChange ==
    ASSUME ReviewInv, ReviewGrows, review' \in ReviewRecord, aux' \in Seq(Nat), runs' \subseteq Run, jobs' \subseteq Run,
           JobsOk(review', runs', jobs'),
           NEW r \in Review!Requests, NEW new \in Change, changing' = [changing EXCEPT ![r] = new],
           ChangeOk(review', aux', runs', jobs', r, new)
    PROVE  ReviewInv'
<1>1. ReviewTyped'
  BY DEF ReviewInv, ReviewTyped
<1>2. ASSUME NEW h \in Review!Requests PROVE ChangeOk(review', aux', runs', jobs', h, changing'[h])
  <2>1. changing[h] \in Change /\ ChangeOk(review, aux, runs, jobs, h, changing[h])
    BY DEF ReviewInv, ReviewTyped
  <2>2. changing'[h] = IF h = r THEN new ELSE changing[h]
    BY DEF ReviewInv, ReviewTyped
  <2>3. CASE h = r
    BY <2>2, <2>3
  <2>4. CASE h # r
    <3>1. ASSUME NEW q \in Change, ChangeOk(review, aux, runs, jobs, h, q)
          PROVE  ChangeOk(review', aux', runs', jobs', h, q)
      BY <3>1, ChangeStays DEF ReviewInv
    <3> QED BY <2>1, <2>2, <2>4, <3>1
  <2> QED BY <2>3, <2>4
<1> QED BY <1>1, <1>2 DEF ReviewInv

(* The same for a step that changes nothing but the request. *)
LEMMA OnlyRequest ==
    ASSUME ReviewInv, review' = review, aux' = aux, runs' = runs, jobs' = jobs,
           NEW r \in Review!Requests, NEW new \in Change, changing' = [changing EXCEPT ![r] = new],
           ChangeOk(review, aux, runs, jobs, r, new)
    PROVE  ReviewInv'
<1>1. ReviewGrows
  BY DEF ReviewInv, ReviewTyped, ReviewGrows, ReviewRecord
<1>2. review' \in ReviewRecord /\ aux' \in Seq(Nat) /\ runs' \subseteq Run /\ jobs' \subseteq Run
  BY DEF ReviewInv, ReviewTyped
<1>3. JobsOk(review', runs', jobs') /\ ChangeOk(review', aux', runs', jobs', r, new)
  <2> SUFFICES JobsOk(review, runs, jobs) /\ ChangeOk(review, aux, runs, jobs, r, new)
    OBVIOUS
  <2> QED BY DEF ReviewInv
<1> QED BY <1>1, <1>2, <1>3, OneChange

(* A step of others: the requests stay as they are. *)
LEMMA OnlyReview ==
    ASSUME ReviewInv, ReviewGrows, review' \in ReviewRecord, aux' \in Seq(Nat), runs' = runs, jobs' = jobs,
           changing' = changing
    PROVE  ReviewInv'
<1>1. JobsOk(review', runs', jobs')
  BY DEF ReviewInv, JobsOk, ReviewGrows, ReviewTyped, ReviewRecord
<1>2. ASSUME NEW h \in Review!Requests PROVE ChangeOk(review', aux', runs', jobs', h, changing'[h])
  <2>1. changing[h] \in Change /\ ChangeOk(review, aux, runs, jobs, h, changing[h])
    BY DEF ReviewInv, ReviewTyped
  <2>2. ASSUME NEW q \in Change, ChangeOk(review, aux, runs, jobs, h, q)
        PROVE  ChangeOk(review', aux', runs', jobs', h, q)
    BY <2>2, ChangeStays DEF ReviewInv
  <2> QED BY <2>1, <2>2
<1>3. ReviewTyped'
  BY DEF ReviewInv, ReviewTyped
<1> QED BY <1>1, <1>2, <1>3 DEF ReviewInv

(* The requests that arrive. *)
LEMMA ArriveStep ==
    ASSUME ReviewInv, NEW r \in Review!Requests,
           \/ Review!Get(r) \/ Review!LoginError(r) \/ Review!Patch(r)
           \/ \E u \in Users : Review!BeginApprove(r, u)
           \/ \E v \in 0 .. MaxVersions : Review!BeginTests(r, v)
    PROVE  ReviewInv'
<1>1. review' = review /\ aux' = aux /\ runs' = runs /\ jobs' = jobs
  BY DEF Review!Get, Review!LoginError, Review!Patch, Review!BeginApprove, Review!BeginTests
<1>2. review.versions \in Nat
  BY DEF ReviewInv, ReviewTyped, ReviewRecord
<1>3. CASE Review!Get(r) \/ Review!LoginError(r)
  <2>1. PICK new \in Reading : changing' = [changing EXCEPT ![r] = new]
    BY <1>3 DEF Review!Get, Review!LoginError, Review!Arrive, Reading
  <2>2. new \in Change /\ ChangeOk(review, aux, runs, jobs, r, new)
    BY DEF Reading, Change, ChangeOk, PatchOk, ApproveOk, TestsOk
  <2> QED BY <1>1, <2>1, <2>2, OnlyRequest
<1>4. CASE Review!Patch(r)
  <2> DEFINE new == [op |-> "patch", pc |-> "patch", bug |-> "get", tries |-> 1, orig |-> 0, bugOk |-> FALSE,
                     ok |-> FALSE, shows |-> FALSE]
  <2>1. changing' = [changing EXCEPT ![r] = new]
    BY <1>4 DEF Review!Patch, Review!Arrive, Review!Unset
  <2>2. new \in Patching /\ ChangeOk(review, aux, runs, jobs, r, new)
    BY DEF Patching, ChangeOk, PatchOk, ApproveOk, TestsOk
  <2> HIDE DEF new
  <2>3. new \in Change
    BY <2>2 DEF Change
  <2> QED BY <1>1, <2>1, <2>2, <2>3, OnlyRequest
<1>5. ASSUME NEW u \in Users, Review!BeginApprove(r, u) PROVE ReviewInv'
  <2> DEFINE new == [op |-> "approve", pc |-> "state", bug |-> "none", user |-> u, version |-> review.versions,
                     ok |-> FALSE, shows |-> FALSE]
  <2>1. changing' = [changing EXCEPT ![r] = new]
    BY <1>5 DEF Review!BeginApprove, Review!Arrive
  <2>2. new \in Approving /\ ChangeOk(review, aux, runs, jobs, r, new)
    BY <1>2 DEF Approving, ChangeOk, PatchOk, ApproveOk, TestsOk
  <2> HIDE DEF new
  <2>3. new \in Change
    BY <2>2 DEF Change
  <2> QED BY <1>1, <2>1, <2>2, <2>3, OnlyRequest
<1>6. ASSUME NEW v \in 0 .. MaxVersions, Review!BeginTests(r, v) PROVE ReviewInv'
  <2> DEFINE At(pc) == [op |-> "tests", pc |-> pc, bug |-> "none", version |-> v, ok |-> FALSE, shows |-> FALSE]
  <2>1. PICK pc \in {"create", "answered"} :
           /\ changing' = [changing EXCEPT ![r] = At(pc)]
           /\ pc = "create" => v \in 1 .. review.versions
    BY <1>6 DEF Review!BeginTests, Review!Arrive, Review!Testable
  <2>2. At(pc) \in Testing /\ ChangeOk(review, aux, runs, jobs, r, At(pc))
    BY <2>1 DEF Testing, ChangeOk, PatchOk, ApproveOk, TestsOk
  <2> HIDE DEF At
  <2>3. At(pc) \in Change
    BY <2>2 DEF Change
  <2> QED BY <1>1, <2>1, <2>2, <2>3, OnlyRequest
<1> QED BY <1>3, <1>4, <1>5, <1>6

(* The steps of a patch: the call to Swarm and the goroutine that writes the bugs. *)
LEMMA PatchStep ==
    ASSUME ReviewInv, NEW r \in Review!Requests, NEW out \in Review!Outcomes, Review!PatchReview(r, out)
    PROVE  ReviewInv'
<1> DEFINE q == changing[r]
           pc == IF out.ok THEN "wait" ELSE "answered"
           new == IF out.ok THEN [q EXCEPT !.pc = "wait"]
                  ELSE [q EXCEPT !.pc = "answered", !.ok = FALSE, !.shows = FALSE]
<1>1. changing' = [changing EXCEPT ![r] = new] /\ aux' = aux /\ runs' = runs /\ jobs' = jobs
  BY DEF Review!PatchReview, Review!Become, Review!Answer
<1>2. q \in Patching /\ q.op = "patch" /\ ChangeOk(review, aux, runs, jobs, r, q)
  BY DEF Review!PatchReview, Review!At, ReviewInv, ReviewTyped, Change, Patching, Approving, Testing, Reading, Review!Free
<1> HIDE DEF q
<1>3. /\ new \in Patching /\ new.op = "patch" /\ new.bugOk = q.bugOk
      /\ new.pc = (IF out.ok THEN "wait" ELSE "answered")
      /\ new.ok => q.ok
  BY <1>2 DEF Patching
<1> HIDE DEF new
<1>4. review \in ReviewRecord
  BY DEF ReviewInv, ReviewTyped
<1>5. review' = IF out.applied THEN [review EXCEPT !.patched = @ \cup {r}] ELSE review
  BY DEF Review!PatchReview
<1>6. /\ review' \in ReviewRecord /\ review'.versions = review.versions /\ review'.state = review.state
      /\ review'.votes = review.votes /\ review.patched \subseteq review'.patched
      /\ out.applied => r \in review'.patched
  BY <1>4, <1>5 DEF ReviewRecord
<1>7. ReviewGrows
  BY <1>1, <1>4, <1>6 DEF ReviewGrows, ReviewRecord
<1>8. JobsOk(review', runs', jobs')
  BY <1>1, <1>6 DEF JobsOk, ReviewInv
<1>9. PatchOk(review', aux', r, new)
  BY <1>1, <1>2, <1>3, <1>6, OutcomeHonest DEF PatchOk, ChangeOk
<1>10. ChangeOk(review', aux', runs', jobs', r, new)
  BY <1>3, <1>9 DEF ChangeOk, ApproveOk, TestsOk
<1>11. new \in Change
  BY <1>3 DEF Change
<1>12. aux' \in Seq(Nat) /\ runs' \subseteq Run /\ jobs' \subseteq Run
  BY <1>1 DEF ReviewInv, ReviewTyped
<1> QED BY <1>1, <1>6, <1>7, <1>8, <1>10, <1>11, <1>12, OneChange

(* The goroutine of a patch that updates the bugs, but for the write itself, and the handler that
   takes its result. *)
LEMMA BugsStep ==
    ASSUME ReviewInv, NEW r \in Review!Requests,
           Review!ReadAux(r) \/ Review!WriteFails(r) \/ Review!Mismatch(r) \/ Review!TakeBugs(r)
    PROVE  ReviewInv'
<1> DEFINE q == changing[r]
<1>1. review' = review /\ aux' = aux /\ runs' = runs /\ jobs' = jobs
  BY DEF Review!ReadAux, Review!WriteFails, Review!Mismatch, Review!TakeBugs
<1>2. q \in Patching /\ ChangeOk(review, aux, runs, jobs, r, q)
  <2>1. q.op = "patch" \/ q.bug # "none"
    BY DEF Review!ReadAux, Review!WriteFails, Review!Mismatch, Review!TakeBugs, Review!At
  <2>2. q \in Change /\ ChangeOk(review, aux, runs, jobs, r, q)
    BY DEF ReviewInv, ReviewTyped
  <2> QED BY <2>1, <2>2, ChangeKinds
<1>3. CASE Review!ReadAux(r)
  <2>0. aux \in Seq(Nat)
    BY DEF ReviewInv, ReviewTyped
  <2>1. Review!Current \in Nat /\ Review!Unset \in Nat
    BY <2>0 DEF Review!Current, Review!Unset
  <2>2. PICK orig \in Nat : changing' = [changing EXCEPT ![r] = [q EXCEPT !.bug = "write", !.orig = orig]]
    BY <1>3, <2>1 DEF Review!ReadAux, Review!Become
  <2> DEFINE new == [q EXCEPT !.bug = "write", !.orig = orig]
  <2> HIDE DEF q
  <2>3. /\ new \in Patching /\ new.op = "patch" /\ new.pc = q.pc /\ new.bugOk = q.bugOk /\ new.ok = q.ok
        /\ q.op = "patch"
    BY <1>2 DEF Patching
  <2>4. changing' = [changing EXCEPT ![r] = new]
    BY <2>2
  <2> HIDE DEF new
  <2>5. new \in Change /\ ChangeOk(review, aux, runs, jobs, r, new)
    BY <1>2, <2>3 DEF Change, ChangeOk, PatchOk, ApproveOk, TestsOk
  <2> QED BY <1>1, <2>4, <2>5, OnlyRequest
<1>4. CASE Review!WriteFails(r) \/ Review!Mismatch(r)
  <2> DEFINE fail == [q EXCEPT !.bug = "send", !.bugOk = FALSE]
             n == q.tries + 1
             again == [q EXCEPT !.bug = "get", !.tries = n]
  <2>1. PICK new \in {fail, again} : changing' = [changing EXCEPT ![r] = new]
    BY <1>4 DEF Review!WriteFails, Review!Mismatch, Review!BugsDone, Review!GiveUp, Review!Become
  <2> HIDE DEF q
  <2>2. q.op = "patch" /\ fail \in Patching /\ fail.op = "patch" /\ fail.pc = q.pc /\ ~fail.bugOk /\ fail.ok = q.ok
    BY <1>2 DEF Patching
  <2>3. n \in Nat
    BY <1>2 DEF Patching
  <2> HIDE DEF n
  <2>4. again \in Patching /\ again.op = "patch" /\ again.pc = q.pc /\ again.bugOk = q.bugOk /\ again.ok = q.ok
    BY <1>2, <2>3 DEF Patching
  <2> HIDE DEF fail, again
  <2>5. new \in Change /\ ChangeOk(review, aux, runs, jobs, r, new)
    BY <1>2, <2>2, <2>4 DEF Change, ChangeOk, PatchOk, ApproveOk, TestsOk
  <2> QED BY <1>1, <2>1, <2>5, OnlyRequest
<1>5. CASE Review!TakeBugs(r)
  <2>1. PICK annotated \in BOOLEAN :
           changing' = [changing EXCEPT ![r] = [q EXCEPT !.pc = "answered", !.bug = "none", !.shows = TRUE,
                                                         !.ok = annotated /\ q.bugOk]]
    BY <1>5 DEF Review!TakeBugs, Review!Become
  <2> DEFINE new == [q EXCEPT !.pc = "answered", !.bug = "none", !.shows = TRUE, !.ok = annotated /\ q.bugOk]
  <2>2. changing' = [changing EXCEPT ![r] = new]
    BY <2>1
  <2>3. q.pc = "wait"
    BY <1>5 DEF Review!TakeBugs, Review!At
  <2> HIDE DEF q
  <2>4. /\ new \in Patching /\ new.op = "patch" /\ new.pc = "answered" /\ new.bugOk = q.bugOk
        /\ new.ok = (annotated /\ q.bugOk) /\ q.op = "patch"
    BY <1>2 DEF Patching
  <2> HIDE DEF new
  <2>5. new \in Change /\ ChangeOk(review, aux, runs, jobs, r, new)
    BY <1>2, <2>3, <2>4 DEF Change, ChangeOk, PatchOk, ApproveOk, TestsOk
  <2> QED BY <1>1, <2>2, <2>5, OnlyRequest
<1> QED BY <1>3, <1>4, <1>5

(* KeySet or KeyCas of the bugs. *)
LEMMA WriteStep ==
    ASSUME ReviewInv, NEW r \in Review!Requests, Review!WriteAux(r)
    PROVE  ReviewInv'
<1> DEFINE q == changing[r]
           new == [q EXCEPT !.bug = "send", !.bugOk = TRUE]
<1>1. review' = review /\ aux' = Append(aux, r) /\ runs' = runs /\ jobs' = jobs /\ changing' = [changing EXCEPT ![r] = new]
  BY DEF Review!WriteAux, Review!BugsDone, Review!Become
<1>2. q \in Patching /\ ChangeOk(review, aux, runs, jobs, r, q)
  BY DEF Review!WriteAux, ReviewInv, ReviewTyped, Change, Patching, Approving, Testing, Reading, Review!Free
<1>3. ReviewTyped /\ r \in Nat
  BY DEF ReviewInv, Review!Requests
<1> HIDE DEF q
<1>4. new \in Patching /\ new.op = "patch" /\ new.pc = q.pc /\ new.bugOk /\ new.ok = q.ok /\ q.op = "patch"
  BY <1>2 DEF Patching
<1> HIDE DEF new
<1>5. /\ aux' \in Seq(Nat) /\ Wrote(aux', r)
      /\ \A i \in DOMAIN aux : i \in DOMAIN aux' /\ aux'[i] = aux[i]
  <2>1. aux \in Seq(Nat)
    BY <1>3 DEF ReviewTyped
  <2>2. Len(aux) + 1 \in DOMAIN aux' /\ aux'[Len(aux) + 1] = r
    BY <1>1, <1>3, <2>1
  <2> QED BY <1>1, <1>3, <2>1, <2>2 DEF Wrote
<1>6. ReviewGrows
  BY <1>1, <1>3, <1>5 DEF ReviewGrows, ReviewTyped, ReviewRecord
<1>7. new \in Change /\ ChangeOk(review', aux', runs', jobs', r, new)
  BY <1>1, <1>2, <1>4, <1>5 DEF Change, ChangeOk, PatchOk, ApproveOk, TestsOk
<1>8. JobsOk(review', runs', jobs')
  BY <1>1 DEF ReviewInv, JobsOk
<1>9. review' \in ReviewRecord /\ runs' \subseteq Run /\ jobs' \subseteq Run
  BY <1>1, <1>3 DEF ReviewTyped
<1> QED BY <1>1, <1>5, <1>6, <1>7, <1>8, <1>9, OneChange

(* The steps of an approval that ask Swarm for something. *)
LEMMA ApproveStep ==
    ASSUME ReviewInv, NEW r \in Review!Requests, NEW out \in Review!Outcomes,
           Review!SetApproved(r, out) \/ Review!Vote(r, out)
    PROVE  ReviewInv'
<1> DEFINE q == changing[r]
           u == q.user
<1>1. aux' = aux /\ runs' = runs /\ jobs' = jobs
  BY DEF Review!SetApproved, Review!Vote
<1>2. q \in Approving /\ ChangeOk(review, aux, runs, jobs, r, q)
  <2>1. q.op = "approve"
    BY DEF Review!SetApproved, Review!Vote, Review!At
  <2>2. q \in Change /\ ChangeOk(review, aux, runs, jobs, r, q)
    BY DEF ReviewInv, ReviewTyped
  <2> QED BY <2>1, <2>2, ChangeKinds
<1>3. review \in ReviewRecord /\ review.versions \in Nat
  BY DEF ReviewInv, ReviewTyped, ReviewRecord
<1>4. q.op = "approve" /\ u \in Users /\ q.version \in Nat
  BY <1>2 DEF Approving
<1> SUFFICES ASSUME NEW new \in Approving, changing' = [changing EXCEPT ![r] = new], new.version = q.version, new.user = u,
                    review' \in ReviewRecord, review'.versions = review.versions, review'.patched = review.patched,
                    review.votes \subseteq review'.votes, review.state = "approved" => review'.state = "approved",
                    new.pc # "vote", new.ok => q.ok \/ (u \in review'.votes /\ (q.version = review.versions => review'.state = "approved"))
             PROVE  ReviewInv'
  <2>1. CASE Review!SetApproved(r, out)
    <3> DEFINE new == IF out.ok THEN [q EXCEPT !.pc = "answered", !.ok = TRUE, !.shows = TRUE]
                      ELSE [q EXCEPT !.pc = "check"]
               app == [review EXCEPT !.state = "approved", !.votes = @ \cup {u}]
    <3>1. changing' = [changing EXCEPT ![r] = new]
      BY <2>1 DEF Review!SetApproved, Review!Become, Review!Answer
    <3>2. review' = IF out.applied THEN app ELSE review
      BY <2>1 DEF Review!SetApproved, Review!Approved
    <3> HIDE DEF q
    <3>3. /\ new \in Approving /\ new.version = q.version /\ new.user = u /\ new.pc # "vote"
          /\ new.ok => q.ok \/ out.ok
      BY <1>2 DEF Approving
    <3> HIDE DEF new, u
    <3>4. /\ app \in ReviewRecord /\ app.versions = review.versions /\ app.patched = review.patched
          /\ app.votes = review.votes \cup {u} /\ app.state = "approved"
      BY <1>3, <1>4 DEF ReviewRecord
    <3> HIDE DEF app
    <3> QED BY <1>3, <3>1, <3>2, <3>3, <3>4, OutcomeHonest
  <2>2. CASE Review!Vote(r, out)
    <3> DEFINE new == [q EXCEPT !.pc = "answered", !.ok = out.ok, !.shows = TRUE]
               app == [review EXCEPT !.votes = @ \cup {u}]
    <3>1. changing' = [changing EXCEPT ![r] = new] /\ q.pc = "vote"
      BY <2>2 DEF Review!Vote, Review!Become, Review!Answer, Review!At
    <3>2. review' = IF out.applied THEN app ELSE review
      BY <2>2 DEF Review!Vote
    <3>0. q.version = review.versions => review.state = "approved"
      BY <1>2, <1>4, <3>1 DEF ChangeOk, ApproveOk
    <3> HIDE DEF q
    <3>3. out \in [applied : BOOLEAN, ok : BOOLEAN] /\ (out.ok => out.applied)
      BY OutcomeHonest
    <3>4. new \in Approving /\ new.version = q.version /\ new.user = u /\ new.pc = "answered" /\ new.ok = out.ok
      BY <1>2, <3>3 DEF Approving
    <3> HIDE DEF new, u
    <3>5. /\ app \in ReviewRecord /\ app.versions = review.versions /\ app.patched = review.patched
          /\ app.votes = review.votes \cup {u} /\ app.state = review.state
      BY <1>3, <1>4 DEF ReviewRecord
    <3> HIDE DEF app
    <3> QED BY <1>3, <3>0, <3>1, <3>2, <3>3, <3>4, <3>5
  <2> QED BY <2>1, <2>2
<1>5. ReviewGrows
  BY <1>1, <1>3 DEF ReviewGrows, ReviewRecord
<1>6. JobsOk(review', runs', jobs')
  BY <1>1 DEF JobsOk, ReviewInv
<1>7. new.op = "approve"
  BY DEF Approving
<1>8. ApproveOk(review', new)
  <2> HIDE DEF q, u
  <2>1. ApproveOk(review, q)
    BY <1>2 DEF ChangeOk
  <2>2. new.version <= review'.versions
    BY <1>3, <1>4, <2>1 DEF ApproveOk
  <2>3. ASSUME new.ok, new.version = review'.versions
        PROVE  review'.state = "approved" /\ new.user \in review'.votes
    <3>1. CASE q.ok
      <4>1. review.state = "approved" /\ u \in review.votes
        <5>1. q.version = review.versions
          BY <2>3
        <5> QED BY <1>4, <2>1, <3>1, <5>1 DEF ApproveOk, u
      <4> QED BY <4>1
    <3>2. CASE u \in review'.votes /\ (q.version = review.versions => review'.state = "approved")
      BY <2>3, <3>2
    <3> QED BY <2>3, <3>1, <3>2
  <2> QED BY <1>7, <2>2, <2>3 DEF ApproveOk
<1>9. new \in Change /\ ChangeOk(review', aux', runs', jobs', r, new)
  BY <1>7, <1>8 DEF Change, ChangeOk, PatchOk, TestsOk
<1>10. aux' \in Seq(Nat) /\ runs' \subseteq Run /\ jobs' \subseteq Run
  BY <1>1 DEF ReviewInv, ReviewTyped
<1> QED BY <1>5, <1>6, <1>9, <1>10, OneChange

(* The review is fetched to see whether it is approved already. *)
LEMMA CheckStep ==
    ASSUME ReviewInv, NEW r \in Review!Requests, Review!CheckApproved(r)
    PROVE  ReviewInv'
<1> DEFINE q == changing[r]
           no == [q EXCEPT !.pc = "answered", !.ok = FALSE, !.shows = FALSE]
           vote == [q EXCEPT !.pc = "vote"]
           yes == [q EXCEPT !.pc = "answered", !.ok = TRUE, !.shows = TRUE]
<1>1. review' = review /\ aux' = aux /\ runs' = runs /\ jobs' = jobs
  BY DEF Review!CheckApproved
<1>2. q \in Approving /\ ApproveOk(review, q)
  <2>1. q.op = "approve"
    BY DEF Review!CheckApproved, Review!At
  <2>2. q \in Change /\ ChangeOk(review, aux, runs, jobs, r, q)
    BY DEF ReviewInv, ReviewTyped
  <2> QED BY <2>1, <2>2, ChangeKinds DEF ChangeOk
<1>3. PICK new \in {no, vote, yes} :
         /\ changing' = [changing EXCEPT ![r] = new]
         /\ new = no \/ review.state = "approved"
         /\ new = yes => q.user \in review.votes
  <2>1. \/ changing' = [changing EXCEPT ![r] = no]
        \/ changing' = [changing EXCEPT ![r] = vote] /\ review.state = "approved"
        \/ changing' = [changing EXCEPT ![r] = yes] /\ review.state = "approved" /\ q.user \in review.votes
    BY DEF Review!CheckApproved, Review!Answer, Review!Become, Review!NeedsVote
  <2>2. ~no.ok /\ yes.ok /\ vote.pc = "vote" /\ yes.pc = "answered" /\ no.pc = "answered"
    BY <1>2 DEF Approving
  <2>3. no # yes /\ no # vote /\ yes # vote
    BY <2>2
  <2> HIDE DEF no, vote, yes
  <2> QED BY <2>1, <2>3
<1> HIDE DEF q
<1>4. q.op = "approve"
  BY <1>2 DEF Approving
<1>5. no \in Approving /\ no.op = "approve" /\ no.version = q.version /\ no.user = q.user /\ ~no.ok /\ no.pc = "answered"
  BY <1>2 DEF Approving
<1>6. vote \in Approving /\ vote.op = "approve" /\ vote.version = q.version /\ vote.user = q.user /\ vote.ok = q.ok
  BY <1>2 DEF Approving
<1>7. yes \in Approving /\ yes.op = "approve" /\ yes.version = q.version /\ yes.user = q.user
  BY <1>2 DEF Approving
<1> HIDE DEF no, vote, yes
<1>8. ApproveOk(review, new)
  <2>1. CASE new = no
    BY <1>2, <1>4, <1>5, <2>1 DEF ApproveOk
  <2>2. CASE new = vote
    BY <1>2, <1>3, <1>4, <1>5, <1>6, <2>2 DEF ApproveOk
  <2>3. CASE new = yes
    BY <1>2, <1>3, <1>4, <1>5, <1>7, <2>3 DEF ApproveOk
  <2> QED BY <1>3, <2>1, <2>2, <2>3
<1>9. new \in Change /\ ChangeOk(review, aux, runs, jobs, r, new)
  BY <1>5, <1>6, <1>7, <1>8 DEF Change, ChangeOk, PatchOk, TestsOk
<1> QED BY <1>1, <1>3, <1>9, OnlyRequest

(* The steps of a request to test the review. *)
LEMMA TestsStep ==
    ASSUME ReviewInv, NEW r \in Review!Requests, NEW out \in Review!Outcomes,
           Review!CreateTestRun(r, out) \/ Review!SendPresubmitRequest(r, out)
    PROVE  ReviewInv'
<1> DEFINE q == changing[r]
           run == RunOf(r, q.version)
<1>1. review' = review /\ aux' = aux
  BY DEF Review!CreateTestRun, Review!SendPresubmitRequest
<1>2. q \in Testing /\ TestsOk(review, runs, jobs, r, q) /\ q.pc \in {"create", "send"}
  <2>1. q.op = "tests" /\ q.pc \in {"create", "send"}
    BY DEF Review!CreateTestRun, Review!SendPresubmitRequest, Review!At
  <2>2. q \in Change /\ ChangeOk(review, aux, runs, jobs, r, q)
    BY DEF ReviewInv, ReviewTyped
  <2> QED BY <2>1, <2>2, ChangeKinds DEF ChangeOk
<1>3. out \in [applied : BOOLEAN, ok : BOOLEAN] /\ (out.ok => out.applied)
  BY OutcomeHonest
<1>4. q.op = "tests" /\ q.version \in Nat /\ run \in Run /\ run.version = q.version
  BY <1>2 DEF Testing, Run, RunOf
<1>5. ReviewTyped /\ JobsOk(review, runs, jobs)
  BY DEF ReviewInv
<1>6. CASE Review!CreateTestRun(r, out)
  <2> DEFINE go == [q EXCEPT !.pc = "send"]
             no == [q EXCEPT !.pc = "answered", !.ok = FALSE, !.shows = FALSE]
             new == IF out.ok THEN go ELSE no
  <2>1. /\ runs' = (IF out.applied THEN runs \cup {run} ELSE runs) /\ jobs' = jobs
        /\ changing' = [changing EXCEPT ![r] = new]
    BY <1>6 DEF Review!CreateTestRun, Review!TestRun, Review!Created, Review!Become, Review!Answer, RunOf
  <2> HIDE DEF q, run
  <2>2. /\ go \in Testing /\ go.op = "tests" /\ go.pc = "send" /\ go.version = q.version /\ go.ok = q.ok
        /\ no \in Testing /\ no.op = "tests" /\ no.pc = "answered" /\ no.version = q.version /\ ~no.ok
    BY <1>2 DEF Testing
  <2> HIDE DEF go, no
  <2>3. runs' \subseteq Run /\ runs \subseteq runs' /\ (out.ok => run \in runs')
    BY <1>3, <1>4, <1>5, <2>1 DEF ReviewTyped
  <2>4. TestsOk(review', runs', jobs', r, new)
    BY <1>1, <1>2, <1>4, <2>1, <2>2, <2>3 DEF TestsOk, run
  <2>5. new \in Change /\ ChangeOk(review', aux', runs', jobs', r, new)
    BY <2>2, <2>4 DEF Change, ChangeOk, PatchOk, ApproveOk
  <2> HIDE DEF new
  <2>6. ReviewGrows
    BY <1>1, <1>5, <2>1, <2>3 DEF ReviewGrows, ReviewTyped, ReviewRecord
  <2>7. JobsOk(review', runs', jobs')
    BY <1>1, <1>5, <2>1, <2>3 DEF JobsOk
  <2>8. review' \in ReviewRecord /\ aux' \in Seq(Nat) /\ jobs' \subseteq Run
    BY <1>1, <1>5, <2>1 DEF ReviewTyped
  <2> QED BY <2>1, <2>3, <2>5, <2>6, <2>7, <2>8, OneChange
<1>7. CASE Review!SendPresubmitRequest(r, out)
  <2> DEFINE new == [q EXCEPT !.pc = "answered", !.ok = out.ok, !.shows = out.ok]
  <2>0. q.pc = "send"
    BY <1>7 DEF Review!SendPresubmitRequest, Review!At
  <2>1. /\ jobs' = (IF out.applied THEN jobs \cup {run} ELSE jobs) /\ runs' = runs
        /\ changing' = [changing EXCEPT ![r] = new]
    BY <1>7 DEF Review!SendPresubmitRequest, Review!TestRun, Review!Become, Review!Answer, RunOf
  <2>2. run \in runs /\ q.version \in 1 .. review.versions
    BY <1>2, <1>4, <2>0 DEF TestsOk
  <2> HIDE DEF q, run
  <2>3. new \in Testing /\ new.op = "tests" /\ new.pc = "answered" /\ new.version = q.version /\ new.ok = out.ok
    BY <1>2, <1>3 DEF Testing
  <2> HIDE DEF new
  <2>4. jobs' \subseteq Run /\ jobs \subseteq jobs' /\ (out.ok => run \in jobs')
    BY <1>3, <1>4, <1>5, <2>1 DEF ReviewTyped
  <2>5. TestsOk(review', runs', jobs', r, new)
    BY <2>3, <2>4 DEF TestsOk, run
  <2>6. new \in Change /\ ChangeOk(review', aux', runs', jobs', r, new)
    BY <2>3, <2>5 DEF Change, ChangeOk, PatchOk, ApproveOk
  <2>7. ReviewGrows
    BY <1>1, <1>5, <2>1, <2>4 DEF ReviewGrows, ReviewTyped, ReviewRecord
  <2>8. JobsOk(review', runs', jobs')
    BY <1>1, <1>4, <1>5, <2>1, <2>2 DEF JobsOk
  <2>9. review' \in ReviewRecord /\ aux' \in Seq(Nat) /\ runs' \subseteq Run
    BY <1>1, <1>5, <2>1 DEF ReviewTyped
  <2> QED BY <2>1, <2>4, <2>6, <2>7, <2>8, <2>9, OneChange
<1> QED BY <1>6, <1>7

(* The server is started again: what a request was told stays, and nothing it had under way is
   reported any more. *)
LEMMA ServerRestarts ==
    ASSUME ReviewInv, Review!Restart
    PROVE  ReviewInv'
<1>1. review' = review /\ aux' = aux /\ runs' = runs /\ jobs' = jobs
  BY DEF Review!Restart
<1>2. ASSUME NEW h \in Review!Requests
      PROVE  changing'[h] \in Change /\ ChangeOk(review, aux, runs, jobs, h, changing'[h])
  <2> DEFINE q == changing[h]
             new == [q EXCEPT !.pc = "answered", !.bug = "none"]
  <2>1. q \in Change /\ ChangeOk(review, aux, runs, jobs, h, q)
    BY DEF ReviewInv, ReviewTyped
  <2>2. changing'[h] = IF q = Review!Free THEN Review!Free ELSE new
    BY DEF Review!Restart
  <2> HIDE DEF q
  <2>3. CASE q = Review!Free
    BY <2>1, <2>2, <2>3
  <2>4. CASE q \in Patching /\ q # Review!Free
    <3>1. new \in Patching /\ new.op = q.op /\ new.pc = "answered" /\ new.bugOk = q.bugOk /\ new.ok = q.ok /\ q.op = "patch"
      BY <2>4 DEF Patching
    <3> HIDE DEF new
    <3> QED BY <2>1, <2>2, <2>4, <3>1 DEF Change, ChangeOk, PatchOk, ApproveOk, TestsOk
  <2>5. CASE q \in Approving /\ q # Review!Free
    <3>1. /\ new \in Approving /\ new.op = q.op /\ new.pc = "answered" /\ new.version = q.version
          /\ new.user = q.user /\ new.ok = q.ok /\ q.op = "approve"
      BY <2>5 DEF Approving
    <3> HIDE DEF new
    <3> QED BY <2>1, <2>2, <2>5, <3>1 DEF Change, ChangeOk, PatchOk, ApproveOk, TestsOk
  <2>6. CASE q \in Testing /\ q # Review!Free
    <3>1. new \in Testing /\ new.op = q.op /\ new.pc = "answered" /\ new.version = q.version /\ new.ok = q.ok /\ q.op = "tests"
      BY <2>6 DEF Testing
    <3> HIDE DEF new
    <3> QED BY <2>1, <2>2, <2>6, <3>1 DEF Change, ChangeOk, PatchOk, ApproveOk, TestsOk
  <2>7. CASE q \in Reading /\ q # Review!Free
    <3>1. new \in Reading /\ new.op \in {"login", "get"}
      BY <2>7 DEF Reading
    <3> HIDE DEF new
    <3> QED BY <2>1, <2>2, <2>7, <3>1 DEF Change, ChangeOk, PatchOk, ApproveOk, TestsOk
  <2> QED BY <2>1, <2>3, <2>4, <2>5, <2>6, <2>7 DEF Change
<1>3. changing' = [r \in Review!Requests |-> changing'[r]]
  BY DEF Review!Restart
<1>4. ReviewTyped'
  BY <1>1, <1>2, <1>3 DEF ReviewInv, ReviewTyped
<1>5. JobsOk(review, runs, jobs)
  BY DEF ReviewInv
<1> QED BY <1>1, <1>2, <1>4, <1>5 DEF ReviewInv

(* The steps of others: a new version, the commit, and a write of the key. *)
LEMMA OthersStep ==
    ASSUME ReviewInv, Review!NewVersion \/ Review!Commit \/ Review!OtherWrite
    PROVE  ReviewInv'
<1>1. ReviewTyped /\ runs' = runs /\ jobs' = jobs /\ changing' = changing
  BY DEF ReviewInv, Review!NewVersion, Review!Commit, Review!OtherWrite
<1>2. review \in ReviewRecord /\ aux \in Seq(Nat)
  BY <1>1 DEF ReviewTyped
<1>3. CASE Review!NewVersion
  <2> DEFINE n == review.versions + 1
             new == [review EXCEPT !.versions = n, !.state = "needsReview", !.votes = {}]
  <2>1. review' = new /\ aux' = aux
    BY <1>3 DEF Review!NewVersion
  <2>2. n \in Nat /\ n > review.versions /\ review.versions \in Nat
    BY <1>2 DEF ReviewRecord
  <2> HIDE DEF n
  <2>3. new \in ReviewRecord /\ new.versions = n /\ new.patched = review.patched
    BY <1>2, <2>2 DEF ReviewRecord
  <2> HIDE DEF new
  <2>4. ReviewGrows
    BY <1>1, <1>2, <2>1, <2>2, <2>3 DEF ReviewGrows, ReviewRecord
  <2> QED BY <1>1, <1>2, <2>1, <2>3, <2>4, OnlyReview
<1>4. CASE Review!Commit
  <2> DEFINE new == [review EXCEPT !.committed = TRUE]
  <2>1. review' = new /\ aux' = aux
    BY <1>4 DEF Review!Commit
  <2>2. /\ new \in ReviewRecord /\ new.versions = review.versions /\ new.patched = review.patched
        /\ new.state = review.state /\ new.votes = review.votes
    BY <1>2 DEF ReviewRecord
  <2> HIDE DEF new
  <2>3. ReviewGrows
    BY <1>1, <1>2, <2>1, <2>2 DEF ReviewGrows, ReviewRecord
  <2> QED BY <1>1, <1>2, <2>1, <2>2, <2>3, OnlyReview
<1>5. CASE Review!OtherWrite
  <2>1. review' = review /\ aux' = Append(aux, MaxRequests + 1 + Len(aux))
    BY <1>5 DEF Review!OtherWrite
  <2>2. MaxRequests + 1 + Len(aux) \in Nat
    BY <1>2, RequestsAssumption
  <2>3. aux' \in Seq(Nat) /\ \A i \in DOMAIN aux : i \in DOMAIN aux' /\ aux'[i] = aux[i]
    BY <1>2, <2>1, <2>2
  <2>4. ReviewGrows
    BY <1>1, <1>2, <2>1, <2>3 DEF ReviewGrows, ReviewRecord
  <2> QED BY <1>1, <1>2, <2>1, <2>3, <2>4, OnlyReview
<1> QED BY <1>3, <1>4, <1>5

(* Every step of the requests and of the others keeps the invariant. *)
LEMMA ReviewStepOk == ReviewInv /\ [Review!Next]_reviewVars => ReviewInv'
<1> SUFFICES ASSUME ReviewInv, [Review!Next]_reviewVars PROVE ReviewInv'
  OBVIOUS
<1>1. CASE UNCHANGED reviewVars
  BY <1>1 DEF reviewVars, ReviewInv, ReviewTyped
<1>2. CASE \E r \in Review!Requests : Review!SendOnClosed(r)
  BY <1>2 DEF Review!SendOnClosed, ReviewInv, ReviewTyped
<1> QED BY <1>1, <1>2, ArriveStep, PatchStep, BugsStep, WriteStep, ApproveStep, CheckStep, TestsStep, ServerRestarts, OthersStep
        DEF Review!Next

(* What a request was told is what the invariant says of it at its answer. *)
LEMMA ReviewInvAnswers == ReviewInv => Review!ReviewAnswers
<1> SUFFICES ASSUME ReviewInv, NEW r \in Review!Requests
             PROVE  /\ Review!Ok(r, "patch") => r \in review.patched /\ \E i \in DOMAIN aux : aux[i] = r
                    /\ Review!Ok(r, "approve") /\ changing[r].version = review.versions =>
                          review.state = "approved" /\ changing[r].user \in review.votes
                    /\ Review!Ok(r, "tests") => Review!TestRun(r) \in jobs
                    /\ jobs \subseteq runs /\ \A j \in jobs : j.version \in 1 .. review.versions
  BY DEF Review!ReviewAnswers
<1> QED BY DEF ReviewInv, ChangeOk, PatchOk, ApproveOk, TestsOk, JobsOk, Wrote, RunOf, Review!Ok, Review!TestRun

(* A success told about a review is one, for any number of requests, users and versions: a patch
   changed the review and its bugs were stored, whoever raced for the key in updateBugs; an
   approval left the review approved with the vote of its user, unless a new version came; started
   tests have their job, and no job is without its run in Swarm. *)
THEOREM ReviewCorrect == Review!Spec => []Review!ReviewAnswers
<1>1. UNCHANGED Review!vars <=> UNCHANGED reviewVars
  BY DEF Review!vars, reviewVars
<1> QED BY <1>1, ReviewInit, ReviewStepOk, ReviewInvAnswers, PTL DEF Review!Spec, Review!vars, reviewVars

-----------------------------------------------------------------------------
(* The comments of a review.  AnswerHonest and DraftsStay rest on what a request to publish has
   done so far: a draft is deleted once it is in Swarm, a draft that is neither posted nor to be
   posted has left an error, and the first result of the goroutine that votes is the one that
   counts. *)

DraftId == [user : Commenters, id : Nat]
Comment == [draft : DraftId, body : Bodies \cup {""}]
Post == [c : Comment, by : Comments!Requests]
Shown == [readBy : SUBSET Commenters, version : Nat]
SwarmRecord ==
    [comments : SUBSET Post, notified : SUBSET Comments!Requests, approved : SUBSET Comments!Requests,
     voted : SUBSET Comments!Requests]

Editing == [op : {"add", "edit"}, pc : {"set", "answered"}, draft : DraftId, body : Bodies, ok : BOOLEAN]
Deleting == [op : {"delete"}, pc : {"answered"}, ok : BOOLEAN]
Marking == [op : {"read"}, pc : {"get", "cas", "answered"}, user : Commenters, old : Shown, ok : BOOLEAN]
Results == {<<>>, <<TRUE>>, <<FALSE>>}
Posting ==
    [op : {"publish"}, pc : {"drafts", "post", "notified", "answered"}, user : Commenters, body : Bodies \cup {""},
     wants : {"nothing", "approve", "lgtm"}, drafts : SUBSET Comment, posting : SUBSET Comment,
     deleting : SUBSET Comment, errs : BOOLEAN, panic : BOOLEAN, bg : {"ended", "approve", "lgtm"},
     ech : Results, ok : BOOLEAN]
Writing == Editing \cup Deleting \cup Marking \cup Posting \cup {Comments!Free}

KeysTyped == DOMAIN keys \subseteq DraftId /\ \A d \in DOMAIN keys : keys[d] \in Bodies
CommentsTyped ==
    /\ KeysTyped
    /\ count \in [Commenters -> Nat]
    /\ swarm \in SwarmRecord
    /\ shown \in Shown
    /\ writing \in [Comments!Requests -> Writing]

\* Stated of what is in Swarm (sw).
Posted(sw, r, c) == [c |-> c, by |-> r] \in sw.comments
DraftsOk(sw, r, q) ==
    /\ \A c \in q.deleting : Posted(sw, r, c)
    /\ q.pc = "post" /\ ~q.errs => \A c \in q.drafts : c \in q.posting \/ Posted(sw, r, c)
    /\ q.pc = "notified" /\ ~q.errs => r \in sw.notified /\ \A c \in q.drafts : Posted(sw, r, c)
VoteOk(sw, r, q) ==
    /\ q.bg = "approve" => q.wants = "approve" /\ q.ech = <<>>
    /\ q.bg = "lgtm" => q.wants = "lgtm" \/ q.ech = <<FALSE>>
    /\ q.ech = <<TRUE>> /\ q.wants = "approve" => r \in sw.approved
    /\ q.ech = <<TRUE>> /\ q.wants = "lgtm" => r \in sw.voted
ToldOk(sw, r, q) ==
    q.ok =>
        /\ q.pc = "answered"
        /\ r \in sw.notified /\ \A c \in q.drafts : Posted(sw, r, c)
        /\ q.wants = "approve" => r \in sw.approved
        /\ q.wants = "lgtm" => r \in sw.voted
WritingOk(sw, r, q) == q.op = "publish" => DraftsOk(sw, r, q) /\ VoteOk(sw, r, q) /\ ToldOk(sw, r, q)

(* The inductive invariant. *)
CommentsInv ==
    /\ CommentsTyped
    /\ \A r \in Comments!Requests : WritingOk(swarm, r, writing[r])

(* Nothing that was done in Swarm is undone. *)
SwarmGrows ==
    /\ swarm.comments \subseteq swarm'.comments
    /\ swarm.notified \subseteq swarm'.notified
    /\ swarm.approved \subseteq swarm'.approved
    /\ swarm.voted \subseteq swarm'.voted

(* A Swarm call that returned no error did what it was asked for. *)
LEMMA PostHonest ==
    ASSUME NEW out \in Comments!Outcomes
    PROVE  out \in [applied : BOOLEAN, ok : BOOLEAN] /\ (out.ok => out.applied)
<1>1. PICK reply \in Comments!Replies : out = [applied |-> reply.applied, ok |-> Comments!ContextDoSwarmRequest(reply)]
  BY DEF Comments!Outcomes
<1>2. reply.applied \in BOOLEAN /\ (reply.form \in {"json", "odd"} => reply.applied)
  <2>1. reply.applied = TRUE \/ reply.applied = FALSE
    BY DEF Comments!Replies
  <2>2. reply.form \in {"json", "odd"} => reply.applied = TRUE
    BY DEF Comments!Replies
  <2> QED BY <2>1, <2>2
<1>3. /\ Comments!ContextDoSwarmRequest(reply) \in BOOLEAN
      /\ Comments!ContextDoSwarmRequest(reply) => reply.form \in {"json", "odd"}
  BY DEF Comments!ContextDoSwarmRequest, Comments!doSwarmRequest, Comments!UnmarshalJSON
<1> QED BY <1>1, <1>2, <1>3

(* The record of a request tells its operation. *)
LEMMA WritingKinds ==
    ASSUME NEW q \in Writing
    PROVE  /\ q.op = "publish" => q \in Posting
           /\ q.op \in {"add", "edit"} => q \in Editing
           /\ q.op = "read" => q \in Marking
<1>1. q \in Editing => q.op \in {"add", "edit"}
  BY DEF Editing
<1>2. q \in Deleting => q.op = "delete"
  BY DEF Deleting
<1>3. q \in Marking => q.op = "read"
  BY DEF Marking
<1>4. q \in Posting => q.op = "publish"
  BY DEF Posting
<1>5. Comments!Free.op = "none"
  BY DEF Comments!Free
<1> QED BY <1>1, <1>2, <1>3, <1>4, <1>5 DEF Writing

(* Before any request there is nothing to be said of one. *)
LEMMA CommentsInit == Comments!Init => CommentsInv
<1> SUFFICES ASSUME Comments!Init PROVE CommentsInv
  OBVIOUS
<1>1. count \in [Commenters -> Nat]
  BY DEF Comments!Init
<1>2. KeysTyped
  <2>1. DOMAIN keys = UNION {{Comments!Draft(u, id) : id \in 1 .. count[u]} : u \in Commenters}
        /\ \A d \in DOMAIN keys : keys[d] \in Bodies
    BY DEF Comments!Init
  <2>2. ASSUME NEW u \in Commenters, NEW id \in 1 .. count[u] PROVE Comments!Draft(u, id) \in DraftId
    BY <1>1, <2>2 DEF Comments!Draft, DraftId
  <2> QED BY <2>1, <2>2 DEF KeysTyped
<1>3. swarm \in SwarmRecord /\ shown \in Shown
  BY DEF Comments!Init, SwarmRecord, Shown
<1>4. writing = [r \in Comments!Requests |-> Comments!Free]
  BY DEF Comments!Init
<1>5. \A r \in Comments!Requests : writing[r].op = "none"
  BY <1>4 DEF Comments!Free
<1>6. writing \in [Comments!Requests -> Writing]
  BY <1>4 DEF Writing
<1> QED BY <1>1, <1>2, <1>3, <1>5, <1>6 DEF CommentsInv, CommentsTyped, WritingOk

(* What is known of a request stays known whatever others do. *)
LEMMA WritingStays ==
    ASSUME SwarmGrows, NEW r \in Comments!Requests, NEW q \in Writing, WritingOk(swarm, r, q)
    PROVE  WritingOk(swarm', r, q)
<1> SUFFICES ASSUME q.op = "publish" PROVE DraftsOk(swarm', r, q) /\ VoteOk(swarm', r, q) /\ ToldOk(swarm', r, q)
  BY DEF WritingOk
<1>1. DraftsOk(swarm', r, q)
  BY DEF WritingOk, DraftsOk, Posted, SwarmGrows
<1>2. VoteOk(swarm', r, q)
  BY DEF WritingOk, VoteOk, SwarmGrows
<1>3. ToldOk(swarm', r, q)
  BY DEF WritingOk, ToldOk, Posted, SwarmGrows
<1> QED BY <1>1, <1>2, <1>3

(* A step of request r with its new record. *)
LEMMA OneWriting ==
    ASSUME CommentsInv, SwarmGrows, KeysTyped', count' \in [Commenters -> Nat], swarm' \in SwarmRecord, shown' \in Shown,
           NEW r \in Comments!Requests, NEW new \in Writing, writing' = [writing EXCEPT ![r] = new],
           WritingOk(swarm', r, new)
    PROVE  CommentsInv'
<1>1. CommentsTyped'
  BY DEF CommentsInv, CommentsTyped
<1>2. ASSUME NEW h \in Comments!Requests PROVE WritingOk(swarm', h, writing'[h])
  <2>1. writing[h] \in Writing /\ WritingOk(swarm, h, writing[h])
    BY DEF CommentsInv, CommentsTyped
  <2>2. writing'[h] = IF h = r THEN new ELSE writing[h]
    BY DEF CommentsInv, CommentsTyped
  <2>3. CASE h = r
    BY <2>2, <2>3
  <2>4. CASE h # r
    <3>1. ASSUME NEW q \in Writing, WritingOk(swarm, h, q) PROVE WritingOk(swarm', h, q)
      BY <3>1, WritingStays
    <3> QED BY <2>1, <2>2, <2>4, <3>1
  <2> QED BY <2>3, <2>4
<1> QED BY <1>1, <1>2 DEF CommentsInv

(* The same for a step that leaves the keys, Swarm and the published comment alone. *)
LEMMA OnlyWriting ==
    ASSUME CommentsInv, keys' = keys, count' = count, swarm' = swarm, shown' = shown,
           NEW r \in Comments!Requests, NEW new \in Writing, writing' = [writing EXCEPT ![r] = new],
           WritingOk(swarm, r, new)
    PROVE  CommentsInv'
<1>1. SwarmGrows
  BY DEF SwarmGrows
<1>2. KeysTyped' /\ count' \in [Commenters -> Nat] /\ swarm' \in SwarmRecord /\ shown' \in Shown
  BY DEF CommentsInv, CommentsTyped, KeysTyped
<1>3. WritingOk(swarm', r, new)
  <2> SUFFICES WritingOk(swarm, r, new)
    OBVIOUS
  <2> QED OBVIOUS
<1> QED BY <1>1, <1>2, <1>3, OneWriting

(* The requests on drafts: adding, editing and deleting one. *)
LEMMA DraftStep ==
    ASSUME CommentsInv, NEW r \in Comments!Requests,
           \/ \E u \in Commenters, b \in Bodies : Comments!AddDraft(r, u, b)
           \/ \E d \in DOMAIN keys : Comments!deleteComment(r, d) \/ \E b \in Bodies : Comments!EditDraft(r, d, b)
           \/ Comments!SetDraft(r)
    PROVE  CommentsInv'
<1>0. KeysTyped /\ count \in [Commenters -> Nat] /\ swarm \in SwarmRecord /\ shown \in Shown
  BY DEF CommentsInv, CommentsTyped
<1>1. ASSUME NEW u \in Commenters, NEW b \in Bodies, Comments!AddDraft(r, u, b) PROVE CommentsInv'
  <2> DEFINE d == Comments!Draft(u, count[u] + 1)
             new == [op |-> "add", pc |-> "set", draft |-> d, body |-> b, ok |-> FALSE]
  <2>1. /\ keys' = keys /\ swarm' = swarm /\ shown' = shown /\ count' = [count EXCEPT ![u] = @ + 1]
        /\ writing' = [writing EXCEPT ![r] = new]
    BY <1>1 DEF Comments!AddDraft, Comments!Become
  <2>2. d \in DraftId
    BY <1>0 DEF Comments!Draft, DraftId
  <2> HIDE DEF d
  <2>3. new \in Editing /\ new.op = "add"
    BY <2>2 DEF Editing
  <2> HIDE DEF new
  <2>4. new \in Writing /\ WritingOk(swarm', r, new)
    BY <2>3 DEF Writing, WritingOk
  <2>5. count' \in [Commenters -> Nat] /\ KeysTyped' /\ SwarmGrows
    BY <1>0, <2>1 DEF KeysTyped, SwarmGrows
  <2> QED BY <1>0, <2>1, <2>4, <2>5, OneWriting
<1>2. ASSUME NEW d \in DOMAIN keys, Comments!deleteComment(r, d) PROVE CommentsInv'
  <2> DEFINE new == [op |-> "delete", pc |-> "answered", ok |-> TRUE]
  <2>1. /\ keys' = [x \in DOMAIN keys \ {d} |-> keys[x]] /\ count' = count /\ swarm' = swarm /\ shown' = shown
        /\ writing' = [writing EXCEPT ![r] = new]
    BY <1>2 DEF Comments!deleteComment, Comments!Become, Comments!KeyDelete
  <2>2. new \in Deleting /\ new.op = "delete"
    BY DEF Deleting
  <2> HIDE DEF new
  <2>3. new \in Writing /\ WritingOk(swarm', r, new)
    BY <2>2 DEF Writing, WritingOk
  <2>4. KeysTyped' /\ SwarmGrows
    BY <1>0, <2>1 DEF KeysTyped, SwarmGrows
  <2> QED BY <1>0, <2>1, <2>3, <2>4, OneWriting
<1>3. ASSUME NEW d \in DOMAIN keys, NEW b \in Bodies, Comments!EditDraft(r, d, b) PROVE CommentsInv'
  <2> DEFINE new == [op |-> "edit", pc |-> "set", draft |-> d, body |-> b, ok |-> FALSE]
  <2>1. /\ keys' = keys /\ count' = count /\ swarm' = swarm /\ shown' = shown
        /\ writing' = [writing EXCEPT ![r] = new]
    BY <1>3 DEF Comments!EditDraft, Comments!Become
  <2>2. new \in Editing /\ new.op = "edit"
    BY <1>0 DEF Editing, KeysTyped
  <2> HIDE DEF new
  <2>3. new \in Writing /\ WritingOk(swarm, r, new)
    BY <2>2 DEF Writing, WritingOk
  <2> QED BY <2>1, <2>3, OnlyWriting
<1>4. CASE Comments!SetDraft(r)
  <2> DEFINE q == writing[r]
             new == [q EXCEPT !.pc = "answered", !.ok = TRUE]
  <2>1. /\ keys' = [x \in DOMAIN keys \cup {q.draft} |-> IF x = q.draft THEN q.body ELSE keys[x]]
        /\ count' = count /\ swarm' = swarm /\ shown' = shown
        /\ writing' = [writing EXCEPT ![r] = new]
    BY <1>4 DEF Comments!SetDraft, Comments!KeySet, Comments!Answer, Comments!Become
  <2>2. q \in Editing
    BY <1>4, WritingKinds DEF Comments!SetDraft, CommentsInv, CommentsTyped
  <2> HIDE DEF q
  <2>3. new \in Editing /\ new.op = q.op /\ q.op # "publish" /\ q.draft \in DraftId /\ q.body \in Bodies
    BY <2>2 DEF Editing
  <2> HIDE DEF new
  <2>4. new \in Writing /\ WritingOk(swarm', r, new)
    BY <2>3 DEF Writing, WritingOk
  <2>5. KeysTyped' /\ SwarmGrows
    BY <1>0, <2>1, <2>3 DEF KeysTyped, SwarmGrows
  <2> QED BY <1>0, <2>1, <2>4, <2>5, OneWriting
<1> QED BY <1>1, <1>2, <1>3, <1>4

(* A p4 command that fails, and the steps of a mark as read. *)
LEMMA MarkStep ==
    ASSUME CommentsInv, NEW r \in Comments!Requests,
           \/ Comments!KeyFails(r) \/ Comments!ReadComment(r) \/ Comments!CasComment(r)
           \/ \E u \in Commenters : Comments!MarkRead(r, u)
    PROVE  CommentsInv'
<1> DEFINE q == writing[r]
<1>0. KeysTyped /\ count \in [Commenters -> Nat] /\ swarm \in SwarmRecord /\ shown \in Shown /\ q \in Writing
  BY DEF CommentsInv, CommentsTyped
<1>1. CASE Comments!KeyFails(r)
  <2> DEFINE new == [q EXCEPT !.pc = "answered", !.ok = FALSE]
  <2>1. keys' = keys /\ count' = count /\ swarm' = swarm /\ shown' = shown /\ writing' = [writing EXCEPT ![r] = new]
    BY <1>1 DEF Comments!KeyFails, Comments!Answer, Comments!Become
  <2>2. q \in Editing \/ q \in Marking
    BY <1>0, <1>1, WritingKinds DEF Comments!KeyFails
  <2> HIDE DEF q
  <2>3. q \in Editing => new \in Editing /\ new.op = q.op /\ q.op # "publish"
    BY DEF Editing
  <2>4. q \in Marking => new \in Marking /\ new.op = q.op /\ q.op # "publish"
    BY DEF Marking
  <2> HIDE DEF new
  <2>5. new \in Writing /\ WritingOk(swarm, r, new)
    BY <2>2, <2>3, <2>4 DEF Writing, WritingOk
  <2> QED BY <2>1, <2>5, OnlyWriting
<1>2. ASSUME NEW u \in Commenters, Comments!MarkRead(r, u) PROVE CommentsInv'
  <2> DEFINE new == [op |-> "read", pc |-> "get", user |-> u, old |-> shown, ok |-> FALSE]
  <2>1. keys' = keys /\ count' = count /\ swarm' = swarm /\ shown' = shown /\ writing' = [writing EXCEPT ![r] = new]
    BY <1>2 DEF Comments!MarkRead, Comments!Become
  <2>2. new \in Marking /\ new.op = "read"
    BY <1>0 DEF Marking
  <2> HIDE DEF new
  <2>3. new \in Writing /\ WritingOk(swarm, r, new)
    BY <2>2 DEF Writing, WritingOk
  <2> QED BY <2>1, <2>3, OnlyWriting
<1>3. CASE Comments!ReadComment(r)
  <2> DEFINE done == [q EXCEPT !.pc = "answered", !.ok = TRUE]
             cas == [q EXCEPT !.pc = "cas", !.old = shown]
  <2>1. PICK new \in {done, cas} :
           keys' = keys /\ count' = count /\ swarm' = swarm /\ shown' = shown /\ writing' = [writing EXCEPT ![r] = new]
    BY <1>3 DEF Comments!ReadComment, Comments!Answer, Comments!Become
  <2>2. q \in Marking
    BY <1>0, <1>3, WritingKinds DEF Comments!ReadComment, Comments!At
  <2> HIDE DEF q
  <2>3. done \in Marking /\ done.op = "read"
    BY <2>2 DEF Marking
  <2>4. cas \in Marking /\ cas.op = "read"
    BY <1>0, <2>2 DEF Marking
  <2> HIDE DEF done, cas
  <2>5. new \in Writing /\ WritingOk(swarm, r, new)
    BY <2>3, <2>4 DEF Writing, WritingOk
  <2> QED BY <2>1, <2>5, OnlyWriting
<1>4. CASE Comments!CasComment(r)
  <2> DEFINE done == [q EXCEPT !.pc = "answered", !.ok = TRUE]
             again == [q EXCEPT !.pc = "get"]
             marked == [q.old EXCEPT !.readBy = @ \cup {q.user}]
  <2>1. PICK new \in {done, again} :
           /\ keys' = keys /\ count' = count /\ swarm' = swarm /\ writing' = [writing EXCEPT ![r] = new]
           /\ shown' = shown \/ shown' = marked
    BY <1>4 DEF Comments!CasComment, Comments!Answer, Comments!Become
  <2>2. q \in Marking
    BY <1>0, <1>4, WritingKinds DEF Comments!CasComment, Comments!At
  <2> HIDE DEF q
  <2>3. done \in Marking /\ done.op = "read" /\ again \in Marking /\ again.op = "read" /\ q.old \in Shown /\ q.user \in Commenters
    BY <2>2 DEF Marking
  <2>4. marked \in Shown
    BY <2>3 DEF Shown
  <2> HIDE DEF done, again, marked
  <2>5. new \in Writing /\ WritingOk(swarm', r, new)
    BY <2>3 DEF Writing, WritingOk
  <2>6. shown' \in Shown /\ KeysTyped' /\ SwarmGrows
    BY <1>0, <2>1, <2>4 DEF KeysTyped, SwarmGrows
  <2> QED BY <1>0, <2>1, <2>5, <2>6, OneWriting
<1> QED BY <1>1, <1>2, <1>3, <1>4

(* A request to publish, as the invariant knows it. *)
LEMMA PostingKnown ==
    ASSUME CommentsInv, NEW r \in Comments!Requests, writing[r].op = "publish"
    PROVE  /\ writing[r] \in Posting
           /\ DraftsOk(swarm, r, writing[r]) /\ VoteOk(swarm, r, writing[r]) /\ ToldOk(swarm, r, writing[r])
<1>1. writing[r] \in Writing /\ WritingOk(swarm, r, writing[r])
  BY DEF CommentsInv, CommentsTyped
<1> QED BY <1>1, WritingKinds DEF WritingOk

(* A step of a request to publish that leaves the keys and the published comment alone. *)
LEMMA OnePosting ==
    ASSUME CommentsInv, SwarmGrows, keys' = keys, count' = count, shown' = shown, swarm' \in SwarmRecord,
           NEW r \in Comments!Requests, NEW new \in Posting, writing' = [writing EXCEPT ![r] = new],
           DraftsOk(swarm', r, new), VoteOk(swarm', r, new), ToldOk(swarm', r, new)
    PROVE  CommentsInv'
<1>1. KeysTyped' /\ count' \in [Commenters -> Nat] /\ shown' \in Shown
  BY DEF CommentsInv, CommentsTyped, KeysTyped
<1>2. new \in Writing /\ WritingOk(swarm', r, new)
  BY DEF Writing, WritingOk
<1> QED BY <1>1, <1>2, OneWriting

(* The beginning of a request to publish. *)
LEMMA PublishStep ==
    ASSUME CommentsInv, NEW r \in Comments!Requests, NEW u \in Commenters, NEW b \in Bodies \cup {""},
           NEW w \in {"nothing", "approve", "lgtm"}, Comments!Publish(r, u, b, w)
    PROVE  CommentsInv'
<1> DEFINE new == [op |-> "publish", pc |-> "drafts", user |-> u, body |-> b, wants |-> w,
                   drafts |-> {}, posting |-> {}, deleting |-> {}, errs |-> FALSE, panic |-> FALSE,
                   bg |-> IF w = "nothing" THEN "ended" ELSE w,
                   ech |-> IF w = "nothing" THEN <<TRUE>> ELSE <<>>, ok |-> FALSE]
<1>1. keys' = keys /\ count' = count /\ swarm' = swarm /\ shown' = shown /\ writing' = [writing EXCEPT ![r] = new]
  BY DEF Comments!Publish, Comments!Become
<1>2. new \in Posting
  BY DEF Posting, Results
<1>3. /\ new.op = "publish" /\ new.pc = "drafts" /\ new.wants = w /\ new.deleting = {} /\ ~new.ok
      /\ new.bg = (IF w = "nothing" THEN "ended" ELSE w) /\ new.ech = (IF w = "nothing" THEN <<TRUE>> ELSE <<>>)
  OBVIOUS
<1> HIDE DEF new
<1>4. DraftsOk(swarm, r, new) /\ VoteOk(swarm, r, new) /\ ToldOk(swarm, r, new)
  <2>1. DraftsOk(swarm, r, new) /\ ToldOk(swarm, r, new)
    BY <1>3 DEF DraftsOk, ToldOk
  <2>2. <<>> # <<TRUE>>
    OBVIOUS
  <2>3. VoteOk(swarm, r, new)
    BY <1>3, <2>2 DEF VoteOk
  <2> QED BY <2>1, <2>3
<1>5. new \in Writing /\ WritingOk(swarm, r, new)
  BY <1>2, <1>4 DEF Writing, WritingOk
<1> QED BY <1>1, <1>5, OnlyWriting

(* publishComments up to the first call to Swarm: the drafts are read, or that fails, or the login. *)
LEMMA ReadDraftsStep ==
    ASSUME CommentsInv, NEW r \in Comments!Requests,
           Comments!ReadDrafts(r) \/ Comments!ReadDraftsFails(r) \/ Comments!LoginRefused(r)
    PROVE  CommentsInv'
<1> DEFINE q == writing[r]
<1>1. keys' = keys /\ count' = count /\ swarm' = swarm /\ shown' = shown
  BY DEF Comments!ReadDrafts, Comments!ReadDraftsFails, Comments!LoginRefused
<1>2. q \in Posting /\ DraftsOk(swarm, r, q) /\ VoteOk(swarm, r, q) /\ ToldOk(swarm, r, q) /\ q.pc = "drafts" /\ q.op = "publish"
  BY PostingKnown DEF Comments!ReadDrafts, Comments!ReadDraftsFails, Comments!LoginRefused, Comments!At
<1>3. SwarmGrows /\ swarm' \in SwarmRecord
  BY <1>1 DEF SwarmGrows, CommentsInv, CommentsTyped
<1>4. CASE Comments!ReadDrafts(r)
  <2> DEFINE own == IF q.body = "" THEN {} ELSE {[draft |-> Comments!Draft(q.user, 0), body |-> q.body]}
             all == Comments!getDraftComments(q.user) \cup own
             new == [q EXCEPT !.pc = "post", !.drafts = all, !.posting = all]
  <2>1. writing' = [writing EXCEPT ![r] = new]
    BY <1>4 DEF Comments!ReadDrafts, Comments!Become
  <2> HIDE DEF q
  <2>2. q.user \in Commenters /\ q.body \in Bodies \cup {""}
    BY <1>2 DEF Posting
  <2>3. all \subseteq Comment
    <3>1. own \subseteq Comment
      <4>1. Comments!Draft(q.user, 0) \in DraftId
        BY <2>2 DEF DraftId, Comments!Draft
      <4>2. [draft |-> Comments!Draft(q.user, 0), body |-> q.body] \in Comment
        BY <2>2, <4>1 DEF Comment
      <4> QED BY <4>2
    <3>2. ASSUME NEW c \in Comments!getDraftComments(q.user) PROVE c \in Comment
      <4>1. PICK d \in DOMAIN keys : c = [draft |-> d, body |-> keys[d]]
        BY DEF Comments!getDraftComments
      <4>2. d \in DraftId /\ keys[d] \in Bodies
        BY DEF CommentsInv, CommentsTyped, KeysTyped
      <4> QED BY <4>1, <4>2 DEF Comment
    <3> QED BY <3>1, <3>2
  <2> HIDE DEF all
  <2>4. /\ new \in Posting /\ new.pc = "post" /\ new.drafts = all /\ new.posting = all /\ new.deleting = q.deleting
        /\ new.wants = q.wants /\ new.bg = q.bg /\ new.ech = q.ech /\ new.ok = q.ok
    BY <1>2, <2>3 DEF Posting
  <2> HIDE DEF new
  <2>5. ~q.ok
    BY <1>2 DEF ToldOk
  <2>6. DraftsOk(swarm', r, new) /\ VoteOk(swarm', r, new) /\ ToldOk(swarm', r, new)
    BY <1>1, <1>2, <2>4, <2>5 DEF DraftsOk, VoteOk, ToldOk
  <2> QED BY <1>1, <1>3, <2>1, <2>4, <2>6, OnePosting
<1>5. CASE Comments!ReadDraftsFails(r)
  <2> DEFINE new == [q EXCEPT !.pc = "answered", !.panic = TRUE]
  <2>1. writing' = [writing EXCEPT ![r] = new]
    BY <1>5 DEF Comments!ReadDraftsFails, Comments!Become
  <2> HIDE DEF q
  <2>2. /\ new \in Posting /\ new.pc = "answered" /\ new.drafts = q.drafts /\ new.deleting = q.deleting
        /\ new.wants = q.wants /\ new.bg = q.bg /\ new.ech = q.ech /\ new.ok = q.ok
    BY <1>2 DEF Posting
  <2> HIDE DEF new
  <2>3. DraftsOk(swarm', r, new) /\ VoteOk(swarm', r, new) /\ ToldOk(swarm', r, new)
    BY <1>1, <1>2, <2>2 DEF DraftsOk, VoteOk, ToldOk
  <2> QED BY <1>1, <1>3, <2>1, <2>2, <2>3, OnePosting
<1>6. CASE Comments!LoginRefused(r)
  <2> DEFINE new == [q EXCEPT !.pc = "notified", !.errs = TRUE]
  <2>1. writing' = [writing EXCEPT ![r] = new]
    BY <1>6 DEF Comments!LoginRefused, Comments!Become
  <2> HIDE DEF q
  <2>2. /\ new \in Posting /\ new.pc = "notified" /\ new.errs = TRUE /\ new.drafts = q.drafts /\ new.deleting = q.deleting
        /\ new.wants = q.wants /\ new.bg = q.bg /\ new.ech = q.ech /\ new.ok = q.ok
    BY <1>2 DEF Posting
  <2> HIDE DEF new
  <2>3. DraftsOk(swarm', r, new) /\ VoteOk(swarm', r, new) /\ ToldOk(swarm', r, new)
    BY <1>1, <1>2, <2>2 DEF DraftsOk, VoteOk, ToldOk
  <2> QED BY <1>1, <1>3, <2>1, <2>2, <2>3, OnePosting
<1> QED BY <1>4, <1>5, <1>6

(* AddCommentEx: a draft that was posted is deleted next, one that was not has left an error. *)
LEMMA PostStep ==
    ASSUME CommentsInv, NEW r \in Comments!Requests, NEW c \in writing[r].posting, NEW out \in Comments!Outcomes,
           Comments!AddCommentEx(r, c, out)
    PROVE  CommentsInv'
<1> DEFINE q == writing[r]
           errs == q.errs \/ ~out.ok
           todo == q.posting \ {c}
           gone == IF out.ok /\ c.draft.id # 0 THEN q.deleting \cup {c} ELSE q.deleting
           new == [q EXCEPT !.posting = todo, !.errs = errs, !.deleting = gone]
           post == [c |-> c, by |-> r]
           posts == swarm.comments \cup {post}
<1>1. keys' = keys /\ count' = count /\ shown' = shown /\ writing' = [writing EXCEPT ![r] = new]
  BY DEF Comments!AddCommentEx, Comments!Become, Comments!NextStep
<1>2. swarm' = IF out.applied THEN [swarm EXCEPT !.comments = posts] ELSE swarm
  BY DEF Comments!AddCommentEx
<1>3. q \in Posting /\ DraftsOk(swarm, r, q) /\ VoteOk(swarm, r, q) /\ ToldOk(swarm, r, q) /\ q.pc = "post"
  BY PostingKnown DEF Comments!AddCommentEx, Comments!At
<1>4. out \in [applied : BOOLEAN, ok : BOOLEAN] /\ (out.ok => out.applied)
  BY PostHonest
<1>5. swarm \in SwarmRecord
  BY DEF CommentsInv, CommentsTyped
<1> HIDE DEF q
<1>6. /\ c \in Comment /\ todo \in SUBSET Comment /\ gone \in SUBSET Comment /\ q.errs \in BOOLEAN
      /\ q.drafts \in SUBSET Comment /\ q.deleting \in SUBSET Comment
  BY <1>3 DEF Posting, q
<1>7. errs \in BOOLEAN
  OBVIOUS
<1>8. post \in Post
  BY <1>6 DEF Post
<1> HIDE DEF errs, todo, gone, post
<1>9. /\ new \in Posting /\ new.pc = q.pc /\ new.drafts = q.drafts /\ new.posting = todo /\ new.deleting = gone
      /\ new.errs = errs /\ new.wants = q.wants /\ new.bg = q.bg /\ new.ech = q.ech /\ new.ok = q.ok
  BY <1>3, <1>6, <1>7 DEF Posting
<1> HIDE DEF new
<1>10. posts \in SUBSET Post /\ swarm.comments \subseteq posts /\ post \in posts
  BY <1>5, <1>8 DEF SwarmRecord
<1> HIDE DEF posts
<1>11. /\ swarm' \in SwarmRecord /\ SwarmGrows /\ (out.ok => post \in swarm'.comments)
       /\ swarm'.approved = swarm.approved /\ swarm'.voted = swarm.voted
  BY <1>2, <1>4, <1>5, <1>10 DEF SwarmRecord, SwarmGrows
<1>12. ~q.ok
  BY <1>3 DEF ToldOk
<1>13. DraftsOk(swarm', r, new)
  <2>1. \A d \in q.deleting : Posted(swarm', r, d)
    BY <1>3, <1>11 DEF DraftsOk, Posted, SwarmGrows
  <2>2. out.ok => Posted(swarm', r, c)
    BY <1>11 DEF Posted, post
  <2>3. \A d \in gone : Posted(swarm', r, d)
    BY <2>1, <2>2 DEF gone
  <2>4. ASSUME ~errs, NEW d \in q.drafts PROVE d \in todo \/ Posted(swarm', r, d)
    <3>1. ~q.errs /\ out.ok
      BY <1>4, <1>6, <2>4 DEF errs
    <3>2. d \in q.posting \/ Posted(swarm, r, d)
      BY <1>3, <3>1 DEF DraftsOk
    <3>3. Posted(swarm, r, d) => Posted(swarm', r, d)
      BY <1>11 DEF Posted, SwarmGrows
    <3> QED BY <2>2, <3>1, <3>2, <3>3 DEF todo
  <2> QED BY <1>3, <1>9, <2>3, <2>4 DEF DraftsOk
<1>14. VoteOk(swarm', r, new) /\ ToldOk(swarm', r, new)
  BY <1>3, <1>9, <1>11, <1>12 DEF VoteOk, ToldOk
<1> QED BY <1>1, <1>9, <1>11, <1>13, <1>14, OnePosting

(* The key of a posted draft is deleted, or that fails. *)
LEMMA DeleteStep ==
    ASSUME CommentsInv, NEW r \in Comments!Requests, writing[r].op = "publish", NEW c \in writing[r].deleting,
           Comments!DeletePosted(r, c)
    PROVE  CommentsInv'
<1> DEFINE q == writing[r]
           gone == q.deleting \ {c}
           done == [q EXCEPT !.deleting = gone]
           fail == [q EXCEPT !.deleting = gone, !.errs = TRUE]
<1>1. PICK new \in {done, fail} :
         /\ writing' = [writing EXCEPT ![r] = new] /\ count' = count /\ swarm' = swarm /\ shown' = shown
         /\ keys' = keys \/ keys' = [x \in DOMAIN keys \ {c.draft} |-> keys[x]]
  BY DEF Comments!DeletePosted, Comments!KeyDelete, Comments!Become
<1>2. q \in Posting /\ DraftsOk(swarm, r, q) /\ VoteOk(swarm, r, q) /\ ToldOk(swarm, r, q)
  BY PostingKnown
<1> HIDE DEF q
<1>3. gone \in SUBSET Comment /\ gone \subseteq q.deleting /\ q.errs \in BOOLEAN
  BY <1>2 DEF Posting
<1> HIDE DEF gone
<1>4. /\ done \in Posting /\ done.pc = q.pc /\ done.drafts = q.drafts /\ done.posting = q.posting /\ done.deleting = gone
      /\ done.errs = q.errs /\ done.wants = q.wants /\ done.bg = q.bg /\ done.ech = q.ech /\ done.ok = q.ok
  BY <1>2, <1>3 DEF Posting
<1>5. /\ fail \in Posting /\ fail.pc = q.pc /\ fail.drafts = q.drafts /\ fail.posting = q.posting /\ fail.deleting = gone
      /\ fail.errs = TRUE /\ fail.wants = q.wants /\ fail.bg = q.bg /\ fail.ech = q.ech /\ fail.ok = q.ok
  BY <1>2, <1>3 DEF Posting
<1> HIDE DEF done, fail
<1>6. DraftsOk(swarm, r, new) /\ VoteOk(swarm, r, new) /\ ToldOk(swarm, r, new)
  <2>1. CASE new = done
    BY <1>2, <1>3, <1>4, <2>1 DEF DraftsOk, VoteOk, ToldOk
  <2>2. CASE new = fail
    BY <1>2, <1>3, <1>5, <2>2 DEF DraftsOk, VoteOk, ToldOk
  <2> QED BY <2>1, <2>2
<1>7. new \in Writing /\ WritingOk(swarm', r, new)
  BY <1>1, <1>4, <1>5, <1>6 DEF Writing, WritingOk
<1>8. SwarmGrows /\ KeysTyped' /\ count' \in [Commenters -> Nat] /\ swarm' \in SwarmRecord /\ shown' \in Shown
  BY <1>1 DEF SwarmGrows, CommentsInv, CommentsTyped, KeysTyped
<1> QED BY <1>1, <1>7, <1>8, OneWriting

(* SendNotifications, once every goroutine is done. *)
LEMMA NotifyStep ==
    ASSUME CommentsInv, NEW r \in Comments!Requests, NEW out \in Comments!Outcomes, Comments!SendNotifications(r, out)
    PROVE  CommentsInv'
<1> DEFINE q == writing[r]
           errs == q.errs \/ ~out.ok
           new == [q EXCEPT !.pc = "notified", !.errs = errs]
           told == swarm.notified \cup {r}
<1>1. /\ keys' = keys /\ count' = count /\ shown' = shown /\ writing' = [writing EXCEPT ![r] = new]
      /\ q.posting = {} /\ q.deleting = {}
  BY DEF Comments!SendNotifications, Comments!Become
<1>2. swarm' = IF out.applied THEN [swarm EXCEPT !.notified = told] ELSE swarm
  BY DEF Comments!SendNotifications
<1>3. q \in Posting /\ DraftsOk(swarm, r, q) /\ VoteOk(swarm, r, q) /\ ToldOk(swarm, r, q) /\ q.pc = "post"
  BY PostingKnown DEF Comments!SendNotifications, Comments!At
<1>4. out \in [applied : BOOLEAN, ok : BOOLEAN] /\ (out.ok => out.applied)
  BY PostHonest
<1>5. swarm \in SwarmRecord
  BY DEF CommentsInv, CommentsTyped
<1> HIDE DEF q
<1>6. q.errs \in BOOLEAN /\ errs \in BOOLEAN
  BY <1>3 DEF Posting
<1> HIDE DEF errs
<1>7. /\ new \in Posting /\ new.pc = "notified" /\ new.drafts = q.drafts /\ new.posting = q.posting
      /\ new.deleting = q.deleting
      /\ new.errs = errs /\ new.wants = q.wants /\ new.bg = q.bg /\ new.ech = q.ech /\ new.ok = q.ok
  BY <1>3, <1>6 DEF Posting
<1> HIDE DEF new
<1>8. told \in SUBSET Comments!Requests /\ swarm.notified \subseteq told /\ r \in told
  BY <1>5 DEF SwarmRecord
<1> HIDE DEF told
<1>9. /\ swarm' \in SwarmRecord /\ SwarmGrows /\ (out.ok => r \in swarm'.notified)
      /\ swarm'.approved = swarm.approved /\ swarm'.voted = swarm.voted /\ swarm'.comments = swarm.comments
  BY <1>2, <1>4, <1>5, <1>8 DEF SwarmRecord, SwarmGrows
<1>10. ~q.ok
  BY <1>3 DEF ToldOk
<1>11. DraftsOk(swarm', r, new)
  <2>1. ASSUME ~errs PROVE r \in swarm'.notified /\ \A c \in q.drafts : Posted(swarm', r, c)
    <3>1. ~q.errs /\ out.ok
      BY <1>4, <1>6, <2>1 DEF errs
    <3> QED BY <1>1, <1>3, <1>9, <3>1 DEF DraftsOk, Posted
  <2> QED BY <1>1, <1>7, <2>1 DEF DraftsOk
<1>12. VoteOk(swarm', r, new) /\ ToldOk(swarm', r, new)
  BY <1>3, <1>7, <1>9, <1>10 DEF VoteOk, ToldOk
<1> QED BY <1>1, <1>7, <1>9, <1>11, <1>12, OnePosting

(* The goroutine that approves or votes: its first result is that of the approval, or of the vote
   when only that was asked for. *)
LEMMA VoteStep ==
    ASSUME CommentsInv, NEW r \in Comments!Requests, NEW out \in Comments!Outcomes,
           Comments!LoginFails(r) \/ Comments!SetState(r, out) \/ Comments!SetVote(r, out)
    PROVE  CommentsInv'
<1> DEFINE q == writing[r]
<1>1. keys' = keys /\ count' = count /\ shown' = shown
  BY DEF Comments!LoginFails, Comments!SetState, Comments!SetVote
<1>2. q \in Posting /\ DraftsOk(swarm, r, q) /\ VoteOk(swarm, r, q) /\ ToldOk(swarm, r, q)
  BY PostingKnown DEF Comments!LoginFails, Comments!SetState, Comments!SetVote, Comments!Voter
<1>3. out \in [applied : BOOLEAN, ok : BOOLEAN] /\ (out.ok => out.applied) /\ swarm \in SwarmRecord
  BY PostHonest DEF CommentsInv, CommentsTyped
<1>4. <<>> # <<TRUE>> /\ <<>> # <<FALSE>> /\ <<TRUE>> # <<FALSE>>
  OBVIOUS
<1>5. <<out.ok>> \in Results /\ <<FALSE>> \in Results /\ (<<out.ok>> = <<TRUE>> => out.ok) /\ <<out.ok>> # <<>>
      /\ (~out.ok => <<out.ok>> = <<FALSE>>)
  <2>1. out.ok = TRUE \/ out.ok = FALSE
    BY <1>3
  <2> QED BY <2>1 DEF Results
<1>6. q.ech \in Results
  BY <1>2 DEF Posting
<1> SUFFICES ASSUME NEW bg \in {"ended", "lgtm"}, NEW ech \in Results,
                    writing' = [writing EXCEPT ![r] = [q EXCEPT !.bg = bg, !.ech = ech]],
                    SwarmGrows, swarm' \in SwarmRecord,
                    bg = "lgtm" => ech = <<FALSE>>,
                    ech = <<TRUE>> => /\ q.wants = "approve" => r \in swarm'.approved
                                      /\ q.wants = "lgtm" => r \in swarm'.voted
             PROVE  CommentsInv'
  <2>1. CASE Comments!LoginFails(r)
    <3>1. writing' = [writing EXCEPT ![r] = [q EXCEPT !.bg = "ended", !.ech = <<FALSE>>]] /\ swarm' = swarm
      BY <2>1 DEF Comments!LoginFails, Comments!Become
    <3>2. SwarmGrows /\ swarm' \in SwarmRecord
      BY <1>3, <3>1 DEF SwarmGrows
    <3> HIDE DEF q
    <3> QED BY <1>4, <1>5, <3>1, <3>2
  <2>2. CASE Comments!SetState(r, out)
    <3> DEFINE bg == IF out.ok THEN "ended" ELSE "lgtm"
               given == swarm.approved \cup {r}
    <3>1. /\ writing' = [writing EXCEPT ![r] = [q EXCEPT !.bg = bg, !.ech = <<out.ok>>]]
          /\ swarm' = (IF out.applied THEN [swarm EXCEPT !.approved = given] ELSE swarm) /\ q.bg = "approve"
      BY <2>2 DEF Comments!SetState, Comments!Become
    <3>2. given \in SUBSET Comments!Requests /\ swarm.approved \subseteq given /\ r \in given
      BY <1>3 DEF SwarmRecord
    <3> HIDE DEF given
    <3>3. SwarmGrows /\ swarm' \in SwarmRecord /\ (out.ok => r \in swarm'.approved)
      BY <1>3, <3>1, <3>2 DEF SwarmGrows, SwarmRecord
    <3>4. q.wants = "approve"
      BY <1>2, <3>1 DEF VoteOk
    <3> HIDE DEF q
    <3>5. bg \in {"ended", "lgtm"} /\ (bg = "lgtm" => ~out.ok)
      BY <1>3
    <3> HIDE DEF bg
    <3> QED BY <1>5, <3>1, <3>3, <3>4, <3>5
  <2>3. CASE Comments!SetVote(r, out)
    <3> DEFINE ech == IF q.ech = <<>> THEN <<out.ok>> ELSE q.ech
               given == swarm.voted \cup {r}
    <3>1. /\ writing' = [writing EXCEPT ![r] = [q EXCEPT !.bg = "ended", !.ech = ech]]
          /\ swarm' = (IF out.applied THEN [swarm EXCEPT !.voted = given] ELSE swarm) /\ q.bg = "lgtm"
      BY <2>3 DEF Comments!SetVote, Comments!Become
    <3>2. given \in SUBSET Comments!Requests /\ swarm.voted \subseteq given /\ r \in given
      BY <1>3 DEF SwarmRecord
    <3> HIDE DEF given
    <3>3. SwarmGrows /\ swarm' \in SwarmRecord /\ (out.ok => r \in swarm'.voted)
      BY <1>3, <3>1, <3>2 DEF SwarmGrows, SwarmRecord
    <3>4. q.wants = "lgtm" \/ q.ech = <<FALSE>>
      BY <1>2, <3>1 DEF VoteOk
    <3>5. q.ech = <<TRUE>> => q.wants = "lgtm" /\ r \in swarm'.voted
      BY <1>2, <1>4, <3>3, <3>4 DEF VoteOk, SwarmGrows
    <3>6. ech = <<TRUE>> => q.wants = "lgtm" /\ r \in swarm'.voted
      BY <1>4, <1>5, <3>3, <3>4, <3>5
    <3>7. ech \in Results
      BY <1>5, <1>6
    <3> HIDE DEF q, ech
    <3> QED BY <3>1, <3>3, <3>6, <3>7
  <2> QED BY <2>1, <2>2, <2>3
<1> DEFINE new == [q EXCEPT !.bg = bg, !.ech = ech]
<1> HIDE DEF q
<1>7. /\ new \in Posting /\ new.pc = q.pc /\ new.drafts = q.drafts /\ new.posting = q.posting
      /\ new.deleting = q.deleting /\ new.errs = q.errs /\ new.wants = q.wants /\ new.bg = bg /\ new.ech = ech
      /\ new.ok = q.ok
  BY <1>2 DEF Posting
<1>8. writing' = [writing EXCEPT ![r] = new]
  OBVIOUS
<1> HIDE DEF new
<1>9. DraftsOk(swarm', r, new)
  BY <1>2, <1>7 DEF DraftsOk, Posted, SwarmGrows
<1>10. VoteOk(swarm', r, new)
  BY <1>7 DEF VoteOk
<1>11. ToldOk(swarm', r, new)
  BY <1>2, <1>7 DEF ToldOk, Posted, SwarmGrows
<1> QED BY <1>1, <1>7, <1>8, <1>9, <1>10, <1>11, OnePosting

(* The answer: no error of a comment, and a first result that is a success. *)
LEMMA RespondStep ==
    ASSUME CommentsInv, NEW r \in Comments!Requests, Comments!Respond(r)
    PROVE  CommentsInv'
<1> DEFINE q == writing[r]
           ok == ~q.errs /\ \A i \in DOMAIN q.ech : q.ech[i]
           new == [q EXCEPT !.pc = "answered", !.ok = ok]
<1>1. /\ keys' = keys /\ count' = count /\ swarm' = swarm /\ shown' = shown /\ writing' = [writing EXCEPT ![r] = new]
      /\ q.ech # <<>>
  BY DEF Comments!Respond, Comments!Verdict, Comments!Answer, Comments!Become
<1>2. q \in Posting /\ DraftsOk(swarm, r, q) /\ VoteOk(swarm, r, q) /\ ToldOk(swarm, r, q) /\ q.pc = "notified"
  BY PostingKnown DEF Comments!Respond, Comments!At
<1> HIDE DEF q
<1>3. ok => q.ech = <<TRUE>>
  <2>1. q.ech \in Results
    BY <1>2 DEF Posting
  <2>2. CASE q.ech = <<FALSE>>
    <3>1. 1 \in DOMAIN q.ech /\ q.ech[1] = FALSE
      BY <2>2
    <3> QED BY <3>1
  <2> QED BY <1>1, <2>1, <2>2 DEF Results
<1>4. ok \in BOOLEAN /\ (ok => ~q.errs)
  OBVIOUS
<1> HIDE DEF ok
<1>5. /\ new \in Posting /\ new.op = "publish" /\ new.pc = "answered" /\ new.drafts = q.drafts
      /\ new.deleting = q.deleting /\ new.wants = q.wants /\ new.bg = q.bg /\ new.ech = q.ech /\ new.ok = ok
  BY <1>2, <1>4 DEF Posting
<1> HIDE DEF new
<1>6. DraftsOk(swarm, r, new) /\ VoteOk(swarm, r, new)
  BY <1>2, <1>5 DEF DraftsOk, VoteOk
<1>7. ToldOk(swarm, r, new)
  BY <1>2, <1>3, <1>4, <1>5 DEF ToldOk, DraftsOk, VoteOk
<1>8. new \in Writing /\ WritingOk(swarm, r, new)
  BY <1>5, <1>6, <1>7 DEF Writing, WritingOk
<1> QED BY <1>1, <1>8, OnlyWriting

(* Every step of the requests, and of others in Swarm, keeps the invariant. *)
LEMMA CommentsStepOk == CommentsInv /\ [Comments!Next]_commentVars => CommentsInv'
<1> SUFFICES ASSUME CommentsInv, [Comments!Next]_commentVars PROVE CommentsInv'
  OBVIOUS
<1>1. CASE UNCHANGED commentVars
  BY <1>1 DEF commentVars, CommentsInv, CommentsTyped, KeysTyped
<1>2. CASE Comments!SwarmEdit
  <2>1. /\ keys' = keys /\ count' = count /\ swarm' = swarm /\ writing' = writing
        /\ shown' = [shown EXCEPT !.version = shown.version + 1]
    BY <1>2 DEF Comments!SwarmEdit
  <2>2. shown \in Shown /\ shown.version + 1 \in Nat
    BY DEF CommentsInv, CommentsTyped, Shown
  <2>3. shown' \in Shown
    <3> DEFINE n == shown.version + 1
    <3> HIDE DEF n
    <3>1. n \in Nat /\ shown' = [shown EXCEPT !.version = n]
      BY <2>1, <2>2 DEF n
    <3> QED BY <2>2, <3>1 DEF Shown
  <2> QED BY <2>1, <2>3 DEF CommentsInv, CommentsTyped, KeysTyped
<1>3. ASSUME NEW r \in Comments!Requests, Comments!LoginFails(r) PROVE CommentsInv'
  <2>1. [applied |-> FALSE, ok |-> FALSE] \in Comments!Outcomes
    <3> DEFINE reply == [applied |-> FALSE, form |-> "none"]
    <3>1. reply \in Comments!Replies /\ reply.applied = FALSE /\ ~Comments!ContextDoSwarmRequest(reply)
      BY DEF Comments!Replies, Comments!ContextDoSwarmRequest, Comments!doSwarmRequest
    <3> QED BY <3>1 DEF Comments!Outcomes, Comments!ContextDoSwarmRequest
  <2> QED BY <1>3, <2>1, VoteStep
<1>4. ASSUME NEW r \in Comments!Publishing, NEW c \in writing[r].posting, NEW out \in Comments!Outcomes,
             Comments!AddCommentEx(r, c, out)
      PROVE  CommentsInv'
  BY <1>4, PostStep DEF Comments!Publishing
<1>5. ASSUME NEW r \in Comments!Publishing, NEW c \in writing[r].deleting, Comments!DeletePosted(r, c) PROVE CommentsInv'
  BY <1>5, DeleteStep DEF Comments!Publishing
<1> QED BY <1>1, <1>2, <1>3, <1>4, <1>5, DraftStep, MarkStep, PublishStep, ReadDraftsStep, NotifyStep, VoteStep, RespondStep
        DEF Comments!Next

(* What a request to publish was told is what the invariant says of it at its answer. *)
LEMMA CommentsInvHonest == CommentsInv => Comments!AnswerHonest
<1> SUFFICES ASSUME CommentsInv, NEW r \in Comments!Requests, writing[r].op = "publish", writing[r].ok
             PROVE  /\ \A c \in writing[r].drafts : [c |-> c, by |-> r] \in swarm.comments
                    /\ r \in swarm.notified
                    /\ writing[r].wants = "approve" => r \in swarm.approved
                    /\ writing[r].wants = "lgtm" => r \in swarm.voted
  BY DEF Comments!AnswerHonest, Comments!Publishing
<1>1. ToldOk(swarm, r, writing[r])
  BY PostingKnown
<1> QED BY <1>1 DEF ToldOk, Posted

(* The only steps that take a key away are the user's deletion and DeletePosted, which works on what
   Swarm has; the only steps that write the published comment add to it. *)
LEMMA CommentsStepKeeps ==
    CommentsInv /\ [Comments!Next]_commentVars => Comments!DraftsStay /\ Comments!ReadersStay
<1> SUFFICES ASSUME CommentsInv, [Comments!Next]_commentVars PROVE Comments!DraftsStay /\ Comments!ReadersStay
  OBVIOUS
<1>0. shown \in Shown /\ shown.version \in Nat
  BY DEF CommentsInv, CommentsTyped, Shown
<1>1. \/ shown' = shown
      \/ Comments!SwarmEdit
      \/ \E r \in Comments!Requests : Comments!CasComment(r) /\ shown = writing[r].old
                                      /\ shown' = [shown EXCEPT !.readBy = @ \cup {writing[r].user}]
  <2>1. ASSUME NEW r \in Comments!Requests, Comments!CasComment(r)
        PROVE  \/ shown' = shown
               \/ shown = writing[r].old /\ shown' = [shown EXCEPT !.readBy = @ \cup {writing[r].user}]
    BY <2>1 DEF Comments!CasComment, Comments!KeyCas
  <2> QED BY <2>1, ZenonT(40) DEF Comments!Next, commentVars, Comments!SetDraft, Comments!KeyFails, Comments!ReadDrafts,
             Comments!ReadDraftsFails, Comments!LoginRefused, Comments!LoginFails, Comments!Respond, Comments!ReadComment,
             Comments!MarkRead, Comments!AddDraft, Comments!Publish, Comments!deleteComment, Comments!EditDraft,
             Comments!SendNotifications, Comments!SetState, Comments!SetVote, Comments!AddCommentEx, Comments!DeletePosted
<1>2. Comments!ReadersStay
  <2>1. CASE shown' = shown
    BY <1>0, <2>1 DEF Comments!ReadersStay
  <2>2. CASE Comments!SwarmEdit
    BY <1>0, <2>2 DEF Comments!SwarmEdit, Comments!ReadersStay, Shown
  <2>3. ASSUME NEW r \in Comments!Requests, shown' = [shown EXCEPT !.readBy = @ \cup {writing[r].user}]
        PROVE  Comments!ReadersStay
    BY <1>0, <2>3 DEF Comments!ReadersStay, Shown
  <2> QED BY <1>1, <2>1, <2>2, <2>3
<1>3. \/ DOMAIN keys \subseteq DOMAIN keys'
      \/ \E r \in Comments!Requests, d \in DOMAIN keys : Comments!deleteComment(r, d)
      \/ \E r \in Comments!Publishing : \E c \in writing[r].deleting : keys' = [x \in DOMAIN keys \ {c.draft} |-> keys[x]]
  <2>1. ASSUME NEW r \in Comments!Requests, Comments!SetDraft(r) PROVE DOMAIN keys \subseteq DOMAIN keys'
    BY <2>1 DEF Comments!SetDraft, Comments!KeySet
  <2>2. ASSUME NEW r \in Comments!Publishing, NEW c \in writing[r].deleting, Comments!DeletePosted(r, c)
        PROVE  keys' = keys \/ keys' = [x \in DOMAIN keys \ {c.draft} |-> keys[x]]
    BY <2>2 DEF Comments!DeletePosted, Comments!KeyDelete
  <2> QED BY <2>1, <2>2, ZenonT(40) DEF Comments!Next, commentVars, Comments!SwarmEdit, Comments!KeyFails, Comments!ReadDrafts,
             Comments!ReadDraftsFails, Comments!LoginRefused, Comments!LoginFails, Comments!Respond, Comments!ReadComment,
             Comments!CasComment, Comments!MarkRead, Comments!AddDraft, Comments!Publish, Comments!EditDraft,
             Comments!SendNotifications, Comments!SetState, Comments!SetVote, Comments!AddCommentEx
<1>4. Comments!DraftsStay
  <2> SUFFICES ASSUME NEW d \in DOMAIN keys \ DOMAIN keys'
               PROVE  \/ \E r \in Comments!Requests : Comments!deleteComment(r, d)
                      \/ \E p \in swarm.comments : p.c.draft = d
    BY DEF Comments!DraftsStay
  <2>1. ASSUME NEW r \in Comments!Requests, NEW e \in DOMAIN keys, Comments!deleteComment(r, e)
        PROVE  Comments!deleteComment(r, d)
    BY <2>1 DEF Comments!deleteComment, Comments!KeyDelete
  <2>2. ASSUME NEW r \in Comments!Publishing, NEW c \in writing[r].deleting,
               keys' = [x \in DOMAIN keys \ {c.draft} |-> keys[x]]
        PROVE  \E p \in swarm.comments : p.c.draft = d
    <3>1. d = c.draft
      BY <2>2
    <3>2. [c |-> c, by |-> r] \in swarm.comments
      BY PostingKnown DEF Comments!Publishing, DraftsOk, Posted
    <3> QED BY <3>1, <3>2
  <2> QED BY <1>3, <2>1, <2>2
<1> QED BY <1>2, <1>4

(* Ebert tells the front end that comments were published only when Swarm has every one of them,
   the participants were told and the approval or vote was given, for any number of requests. *)
THEOREM CommentsCorrect == Comments!Spec => []Comments!AnswerHonest
<1>1. UNCHANGED Comments!vars <=> UNCHANGED commentVars
  BY DEF Comments!vars, commentVars
<1> QED BY <1>1, CommentsInit, CommentsStepOk, CommentsInvHonest, PTL DEF Comments!Spec, Comments!vars, commentVars

(* However requests interleave and calls fail, no draft is lost and no mark as read taken back. *)
THEOREM DraftsCorrect == Comments!Spec => [][Comments!DraftsStay /\ Comments!ReadersStay]_commentVars
<1>1. UNCHANGED Comments!vars <=> UNCHANGED commentVars
  BY DEF Comments!vars, commentVars
<1> QED BY <1>1, CommentsInit, CommentsStepOk, CommentsStepKeeps, PTL DEF Comments!Spec, Comments!vars, commentVars

-----------------------------------------------------------------------------
(* The server: which says whose step it is, and the part at work keeps its invariant. *)

EbertInv ==
    /\ which = "comments" => CommentsInv
    /\ which = "review" => ReviewInv
    /\ which = "tickets" => TicketInv

(* The invariant of the server holds at first. *)
LEMMA ServerInit == EbertInit => EbertInv
BY CommentsInit, ReviewInit, TicketInit, TicketsAssumption DEF EbertInit, EbertInv

(* Every step of the server is a step of the part at work, which leaves the others alone. *)
LEMMA ServerSteps ==
    ASSUME [EbertNext]_allVars
    PROVE  /\ which' = which
           /\ which = "comments" => [Comments!Next]_commentVars
           /\ which = "review" => [Review!Next]_reviewVars
           /\ which = "tickets" => [Tickets!Next]_ticketVars
<1>1. CASE UNCHANGED allVars
  BY <1>1 DEF allVars
<1>2. CASE SubmitStep \/ \E i \in Instances : PollStep(i) \/ RestartStep(i)
  BY <1>2 DEF SubmitStep, PollStep, RestartStep, Watcher
<1>3. CASE CommentsStep \/ ReviewStep \/ TicketsStep
  BY <1>3 DEF CommentsStep, ReviewStep, TicketsStep
<1> QED BY <1>1, <1>2, <1>3 DEF EbertNext

(* The invariant of the server is kept. *)
LEMMA ServerStep == EbertInv /\ [EbertNext]_allVars => EbertInv'
<1> SUFFICES ASSUME EbertInv, [EbertNext]_allVars PROVE EbertInv'
  OBVIOUS
<1>1. which' = "comments" => CommentsInv'
  BY ServerSteps, CommentsStepOk DEF EbertInv
<1>2. which' = "review" => ReviewInv'
  BY ServerSteps, ReviewStepOk DEF EbertInv
<1>3. which' = "tickets" => TicketInv'
  BY ServerSteps, TicketStep, TicketsAssumption DEF EbertInv
<1> QED BY <1>1, <1>2, <1>3 DEF EbertInv

(* What the invariant of the server says of its answers and tickets. *)
LEMMA ServerInvSays == EbertInv => AnswersHonest /\ TicketLasts
BY CommentsInvHonest, ReviewInvAnswers, TicketInvLasts DEF EbertInv, AnswersHonest, TicketLasts

(* A success the server tells its front end is one, of a request to publish comments (publishComments and
   the goroutine that votes) as of one to patch, approve or test a review. *)
THEOREM AnswersHonestCorrect == EbertSpec => []AnswersHonest
BY ServerInit, ServerStep, ServerInvSays, PTL DEF EbertSpec

(* A request of the server acts with a ticket of its user that outlives it (GetTicket). *)
THEOREM TicketLastsCorrect == EbertSpec => []TicketLasts
BY ServerInit, ServerStep, ServerInvSays, PTL DEF EbertSpec

(* No step of the server loses a draft, takes back a mark as read or undoes somebody else's change of
   a comment (publishComments, MarkRead). *)
THEOREM CommentsKeptCorrect == EbertSpec => CommentsKept
<1>1. EbertInv /\ [EbertNext]_allVars => [which = "comments" => Comments!DraftsStay /\ Comments!ReadersStay]_allVars
  BY ServerSteps, CommentsStepKeeps DEF EbertInv
<1> QED BY <1>1, ServerInit, ServerStep, PTL DEF EbertSpec, CommentsKept

-----------------------------------------------------------------------------
(***************************************************************************)
(* The watcher, for any number of processes, any batch size and any number *)
(* of changes and faults.                                                  *)
(*                                                                         *)
(* NoneSkipped is not inductive: it says nothing of the change a process   *)
(* is about to store.  The strengthening is that every position, the key   *)
(* and the lastChecked of every production process, is covered: it is 0 or *)
(* a submitted change, and every submitted change up to it is started.     *)
(* Being submitted matters: a position past the newest change would skip   *)
(* the changes that are submitted later.                                   *)
(***************************************************************************)

Covered(n) ==
    /\ n = 0 \/ n \in submitted
    /\ \A c \in submitted : c <= n => c \in started

(* The inductive invariant. *)
CoverInv ==
    /\ Covered(key)
    /\ \A i \in Production : Covered(inst[i].last)

(* A process that is about to save has moved on from what it read. *)
AheadInv ==
    \A i \in Production : inst[i].pc \in {"list", "save"} => inst[i].old <= inst[i].last

(* A process in dev mode never saves. *)
DevInv == \A i \in DevInstances : inst[i].pc # "save"

USE WatcherAssumption

-----------------------------------------------------------------------------
(* The list of a poll has no gap: a newer change below one of the list is in it too. *)
LEMMA NoGap ==
    ASSUME TypeOK, NEW n \in Nat, NEW m \in Changes(n), NEW c \in submitted, c > n, c <= m
    PROVE  c \in Changes(n)
<1> DEFINE Below(x) == {d \in Newer(n) : d < x}
<1>1. m \in CLs /\ c \in CLs /\ m \in Newer(n) /\ c \in Newer(n)
  BY DEF TypeOK, Changes, Newer
<1>2. Below(c) \subseteq Below(m)
  <2>1. \A d \in Newer(n) : d \in Int
    BY DEF Newer, TypeOK, CLs
  <2>2. m \in Int /\ c \in Int
    BY <1>1 DEF CLs
  <2> QED
    BY <2>1, <2>2
<1>3. IsFiniteSet(Below(m))
  <2>1. IsFiniteSet(1 .. MaxCL)
    BY FS_Interval
  <2>2. Below(m) \subseteq 1 .. MaxCL
    BY DEF Newer, TypeOK, CLs
  <2> QED
    BY <2>1, <2>2, FS_Subset
<1>4. Cardinality(Below(c)) <= Cardinality(Below(m))
  BY <1>2, <1>3, FS_Subset
<1>5. Cardinality(Below(m)) \in Nat /\ Cardinality(Below(c)) \in Nat
  BY <1>2, <1>3, FS_Subset, FS_CardinalityType
<1>6. Cardinality(Below(m)) < MaxPerPoll
  BY DEF Changes
<1>7. Cardinality(Below(c)) < MaxPerPoll
  BY <1>4, <1>5, <1>6
<1> QED
  BY <1>1, <1>7 DEF Changes

(* Every variable keeps its type. *)
LEMMA TypeCorrect == Spec => []TypeOK
<1>1. Init => TypeOK
  BY DEF Init, TypeOK, CLs, NewProcess
<1>2. TypeOK /\ [Next]_vars => TypeOK'
  <2> SUFFICES ASSUME TypeOK, [Next]_vars
               PROVE  TypeOK'
    OBVIOUS
  <2> USE DEF TypeOK, CLs
  <2>1. CASE Submit
    BY <2>1 DEF Submit, histories
  <2>2. ASSUME NEW i \in Instances, GetKey(i)
        PROVE  TypeOK'
    BY <2>2 DEF GetKey, FromKey, histories
  <2>3. ASSUME NEW i \in Instances, GetKeyFails(i)
        PROVE  TypeOK'
    BY <2>3 DEF GetKeyFails, FromKey, histories, Fault
  <2>4. ASSUME NEW i \in Instances, List(i)
        PROVE  TypeOK'
    <3> DEFINE changes == Changes(inst[i].last)
    <3>1. changes \subseteq CLs
      BY DEF Changes, Newer
    <3>2. (submitted \subseteq CLs /\ key \in Nat /\ faults \in Nat)'
      BY <2>4 DEF List
    <3>3. inst' \in [Instances -> [pc : {"idle", "list", "save"}, last : Nat, old : Nat]]
      <4>1. PICK m \in submitted \cup {inst[i].last} :
               inst' = [inst EXCEPT ![i].last = m,
                                    ![i].pc = IF i \in DevInstances THEN "idle" ELSE "save"]
        BY <2>4 DEF List
      <4> DEFINE new == [inst[i] EXCEPT !.last = m,
                                        !.pc = IF i \in DevInstances THEN "idle" ELSE "save"]
      <4>2. new \in [pc : {"idle", "list", "save"}, last : Nat, old : Nat]
        <5>1. m \in Nat
          OBVIOUS
        <5>2. inst[i] \in [pc : {"idle", "list", "save"}, last : Nat, old : Nat]
          OBVIOUS
        <5> HIDE DEF TypeOK
        <5> QED
          BY <5>1, <5>2
      <4>3. inst' = [inst EXCEPT ![i] = new]
        BY <4>1
      <4> HIDE DEF new
      <4> QED
        BY <4>2, <4>3
    <3>4. started' \subseteq CLs
      BY <2>4, <3>1 DEF List
    <3>5. seen' \in [DevInstances -> SUBSET CLs] /\ twice' \in [DevInstances -> SUBSET CLs]
      BY <2>4, <3>1 DEF List
    <3> QED
      BY <3>2, <3>3, <3>4, <3>5
  <2>5. ASSUME NEW i \in Instances, ListFails(i)
        PROVE  TypeOK'
    BY <2>5 DEF ListFails, histories, Fault
  <2>6. ASSUME NEW i \in Instances, SaveFails(i)
        PROVE  TypeOK'
    BY <2>6 DEF SaveFails, histories, Fault
  <2>7. ASSUME NEW i \in Instances, Save(i)
        PROVE  TypeOK'
    BY <2>7 DEF Save, SavedKey, histories
  <2>8. ASSUME NEW i \in Instances, Restart(i)
        PROVE  TypeOK'
    BY <2>8 DEF Restart, NewProcess, Fault
  <2>9. CASE UNCHANGED vars
    BY <2>9 DEF vars
  <2> QED
    BY <2>1, <2>2, <2>3, <2>4, <2>5, <2>6, <2>7, <2>8, <2>9 DEF Next, Poll
<1> QED
  BY <1>1, <1>2, PTL DEF Spec

-----------------------------------------------------------------------------
(* A position stays covered when changes are submitted after it and when more are started. *)
LEMMA CoveredStays ==
    ASSUME TypeOK, NEW n \in Nat, Covered(n),
           submitted' = submitted \/ Submit, started \subseteq started'
    PROVE  Covered(n)'
<1>1. CASE submitted' = submitted
  BY <1>1 DEF Covered
<1>2. CASE Submit
  <2>1. PICK c \in CLs : (\A d \in submitted : d < c) /\ submitted' = submitted \cup {c}
    BY <1>2 DEF Submit
  <2>2. ~(c <= n)
    BY <2>1 DEF Covered, CLs, TypeOK
  <2> QED
    BY <2>1, <2>2 DEF Covered
<1> QED
  BY <1>1, <1>2

(* The same for every position that a step does not move. *)
LEMMA UnmovedStays ==
    ASSUME TypeOK, CoverInv, submitted' = submitted \/ Submit, started \subseteq started'
    PROVE  /\ key' = key => Covered(key)'
           /\ \A j \in Production : inst'[j].last = inst[j].last => Covered(inst[j].last)'
<1>1. ASSUME key' = key
      PROVE  Covered(key)'
  <2>1. PICK n \in Nat : n = key
    BY DEF TypeOK
  <2>2. Covered(n)
    BY <2>1 DEF CoverInv
  <2>3. Covered(n)'
    BY <2>2, CoveredStays
  <2> QED
    BY <1>1, <2>1, <2>3 DEF Covered
<1>2. ASSUME NEW j \in Production, inst'[j].last = inst[j].last
      PROVE  Covered(inst[j].last)'
  <2>1. PICK n \in Nat : n = inst[j].last
    BY DEF TypeOK, Production
  <2>2. Covered(n)
    BY <2>1 DEF CoverInv
  <2>3. Covered(n)'
    BY <2>2, CoveredStays
  <2> QED
    BY <1>2, <2>1, <2>3 DEF Covered
<1> QED
  BY <1>1, <1>2

(* Neither does a step take a dev process to its KeySet. *)
LEMMA DevStep == TypeOK /\ DevInv /\ [Next]_vars => DevInv'
<1> SUFFICES ASSUME TypeOK, DevInv, [Next]_vars, NEW j \in DevInstances
             PROVE  inst'[j].pc # "save"
  BY DEF DevInv
<1>1. ASSUME NEW i \in Instances, List(i)
      PROVE  inst'[j].pc # "save"
  BY <1>1 DEF List, DevInv, TypeOK
<1>2. ASSUME NEW i \in Instances, GetKey(i) \/ GetKeyFails(i)
      PROVE  inst'[j].pc # "save"
  BY <1>2 DEF GetKey, GetKeyFails, DevInv, TypeOK
<1>3. ASSUME NEW i \in Instances, ListFails(i) \/ Save(i) \/ SaveFails(i) \/ Restart(i)
      PROVE  inst'[j].pc # "save"
  BY <1>3 DEF ListFails, Save, SaveFails, Restart, NewProcess, DevInv, TypeOK
<1>4. CASE inst' = inst
  BY <1>4 DEF DevInv
<1> QED
  BY <1>1, <1>2, <1>3, <1>4 DEF Next, Poll, Submit, vars

(* The inductive step, one case per action that moves a position. *)
LEMMA CoverStep == TypeOK /\ TypeOK' /\ DevInv /\ CoverInv /\ [Next]_vars => CoverInv'
<1> SUFFICES ASSUME TypeOK, TypeOK', DevInv, CoverInv, [Next]_vars
             PROVE  CoverInv'
  OBVIOUS
<1>0. Covered(0)'
  BY DEF Covered, TypeOK, CLs
<1>1. CASE Submit
  <2>1. key' = key /\ inst' = inst /\ started' = started
    BY <1>1 DEF Submit, histories
  <2> QED
    BY <1>1, <2>1, UnmovedStays DEF CoverInv
<1>2. ASSUME NEW i \in Instances, GetKey(i)
      PROVE  CoverInv'
  <2>1. submitted' = submitted /\ key' = key /\ started' = started
    BY <1>2 DEF GetKey, histories
  <2>2. Covered(key)'
    BY <2>1, UnmovedStays
  <2>3. ASSUME NEW j \in Production
        PROVE  Covered(inst[j].last)'
    <3>1. CASE j = i
      <4>1. inst'[j].last = key'
        BY <1>2, <2>1, <3>1 DEF GetKey, FromKey, TypeOK, Production
      <4> QED
        BY <2>2, <4>1 DEF Covered
    <3>2. CASE j # i
      <4>1. inst'[j].last = inst[j].last
        BY <1>2, <3>2 DEF GetKey, TypeOK, Production
      <4> QED
        BY <2>1, <4>1, UnmovedStays
    <3> QED
      BY <3>1, <3>2
  <2> QED
    BY <2>2, <2>3 DEF CoverInv
<1>3. ASSUME NEW i \in Instances, GetKeyFails(i) \/ Restart(i)
      PROVE  CoverInv'
  <2>1. submitted' = submitted /\ key' = key /\ started' = started
    BY <1>3 DEF GetKeyFails, Restart, histories
  <2>2. ASSUME NEW j \in Production
        PROVE  inst'[j].last \in {0, inst[j].last}
    BY <1>3 DEF GetKeyFails, Restart, FromKey, NewProcess, TypeOK, Production
  <2>3. ASSUME NEW j \in Production
        PROVE  Covered(inst[j].last)'
    <3>1. CASE inst'[j].last = 0
      BY <1>0, <3>1 DEF Covered
    <3>2. CASE inst'[j].last = inst[j].last
      BY <2>1, <3>2, UnmovedStays
    <3> QED
      BY <2>2, <3>1, <3>2
  <2> QED
    BY <2>1, <2>3, UnmovedStays DEF CoverInv
<1>4. ASSUME NEW i \in Instances, List(i)
      PROVE  CoverInv'
  <2> DEFINE n == inst[i].last
             changes == Changes(n)
  <2>1. submitted' = submitted /\ key' = key /\ started \subseteq started'
    BY <1>4 DEF List
  <2>2. ASSUME NEW j \in Production, j # i
        PROVE  Covered(inst[j].last)'
    <3>1. inst'[j].last = inst[j].last
      BY <1>4, <2>2 DEF List, TypeOK, Production
    <3> QED
      BY <2>1, <3>1, UnmovedStays
  <2>3. ASSUME i \in Production
        PROVE  Covered(inst[i].last)'
    <3>1. PICK m \in submitted \cup {n} :
             LastOf(changes, n, m) /\ inst'[i].last = m
      BY <1>4 DEF List, TypeOK
    <3>2. CASE m = n
      BY <2>1, <2>3, <3>1, <3>2, UnmovedStays
    <3>3. CASE m \in changes
      <4>1. m \in submitted /\ n \in Nat
        BY <3>3 DEF Changes, Newer, TypeOK
      <4>2. started' = started \cup changes
        BY <1>4, <2>3 DEF List, Production
      <4>3. ASSUME NEW c \in submitted, c <= m
            PROVE  c \in started'
        <5>1. CASE c <= n
          BY <2>3, <4>2, <5>1 DEF CoverInv, Covered
        <5>2. CASE c > n
          BY <3>3, <4>1, <4>2, <4>3, <5>2, NoGap
        <5> QED
          BY <4>1, <5>1, <5>2 DEF TypeOK, CLs
      <4> QED
        BY <2>1, <3>1, <4>1, <4>3 DEF Covered
    <3> QED
      BY <3>1, <3>2, <3>3 DEF LastOf
  <2> QED
    BY <2>1, <2>2, <2>3, UnmovedStays DEF CoverInv
<1>5. ASSUME NEW i \in Instances, Save(i)
      PROVE  CoverInv'
  <2>0. i \in Production
    BY <1>5 DEF Save, DevInv, Production
  <2>1. /\ submitted' = submitted /\ started' = started
        /\ \A j \in Production : inst'[j].last = inst[j].last
    BY <1>5 DEF Save, histories, TypeOK, Production
  <2>2. key' \in {key, inst'[i].last}
    BY <1>5, <2>1 DEF Save, SavedKey
  <2>3. Covered(inst[i].last)'
    BY <2>0, <2>1, UnmovedStays
  <2>4. Covered(key)'
    <3>1. CASE key' = key
      BY <2>1, <3>1, UnmovedStays
    <3>2. CASE key' = inst'[i].last
      BY <2>3, <3>2 DEF Covered
    <3> QED
      BY <2>2, <3>1, <3>2
  <2> QED
    BY <2>1, <2>4, UnmovedStays DEF CoverInv
<1>6. CASE submitted' = submitted /\ key' = key /\ started' = started
           /\ \A j \in Production : inst'[j].last = inst[j].last
  BY <1>6, UnmovedStays DEF CoverInv
<1>7. ASSUME NEW i \in Instances, ListFails(i) \/ SaveFails(i)
      PROVE  CoverInv'
  BY <1>6, <1>7 DEF ListFails, SaveFails, histories, TypeOK, Production
<1>9. CASE UNCHANGED vars
  BY <1>6, <1>9 DEF vars
<1> QED
  BY <1>1, <1>2, <1>3, <1>4, <1>5, <1>7, <1>9 DEF Next, Poll

(* The process that saves has not read more than it reached. *)
LEMMA AheadStep == TypeOK /\ DevInv /\ AheadInv /\ [Next]_vars => AheadInv'
<1> SUFFICES ASSUME TypeOK, AheadInv, [Next]_vars, NEW j \in Production,
                    inst'[j].pc \in {"list", "save"}
             PROVE  inst'[j].old <= inst'[j].last
  BY DEF AheadInv
<1> USE DEF Production, TypeOK
<1>1. ASSUME NEW i \in Instances, GetKey(i) \/ GetKeyFails(i)
      PROVE  inst'[j].old <= inst'[j].last
  <2>1. CASE j # i
    BY <1>1, <2>1 DEF GetKey, GetKeyFails, AheadInv
  <2>2. CASE j = i /\ GetKey(i)
    <3>1. inst'[j].old = key /\ inst'[j].last = key
      BY <2>2 DEF GetKey, FromKey
    <3> QED
      BY <3>1
  <2>3. CASE j = i /\ GetKeyFails(i)
    <3>1. inst'[j].old = 0 /\ inst'[j].last = 0
      BY <2>3 DEF GetKeyFails, FromKey
    <3> QED
      BY <3>1
  <2> QED
    BY <1>1, <2>1, <2>2, <2>3
<1>2. ASSUME NEW i \in Instances, List(i)
      PROVE  inst'[j].old <= inst'[j].last
  <2>1. PICK m \in submitted \cup {inst[i].last} :
           /\ LastOf(Changes(inst[i].last), inst[i].last, m)
           /\ inst' = [inst EXCEPT ![i].last = m,
                                   ![i].pc = IF i \in DevInstances THEN "idle" ELSE "save"]
    BY <1>2 DEF List
  <2>2. inst[i].pc = "list" /\ inst[i].last \in Nat /\ m \in Nat
    BY <1>2 DEF List, CLs
  <2>3. m >= inst[i].last
    BY <2>1, <2>2 DEF LastOf, Changes, Newer
  <2>4. CASE j = i
    BY <2>1, <2>2, <2>3, <2>4 DEF AheadInv
  <2>5. CASE j # i
    BY <2>1, <2>5 DEF AheadInv
  <2> QED
    BY <2>4, <2>5
<1>3. ASSUME NEW i \in Instances, ListFails(i) \/ Save(i) \/ SaveFails(i) \/ Restart(i)
      PROVE  inst'[j].old <= inst'[j].last
  BY <1>3 DEF ListFails, Save, SaveFails, Restart, NewProcess, AheadInv
<1>4. CASE inst' = inst
  BY <1>4 DEF AheadInv
<1> QED
  BY <1>1, <1>2, <1>3, <1>4 DEF Next, Poll, Submit, vars

-----------------------------------------------------------------------------
(* The three invariants hold of every behaviour. *)
LEMMA InvCorrect == Spec => [](DevInv /\ CoverInv /\ AheadInv)
<1>1. Init => DevInv /\ CoverInv /\ AheadInv
  BY DEF Init, DevInv, CoverInv, AheadInv, Covered, NewProcess, Production
<1>2. TypeOK /\ TypeOK' /\ (DevInv /\ CoverInv /\ AheadInv) /\ [Next]_vars
      => (DevInv /\ CoverInv /\ AheadInv)'
  BY DevStep, CoverStep, AheadStep
<1> QED
  BY <1>1, <1>2, TypeCorrect, PTL DEF Spec

(* A change that is at or before the key of Watch has been started, for any number of
   processes, changes and faults and any maxChangesPerPoll. *)
THEOREM NoneSkippedCorrect == Spec => []NoneSkipped
<1>1. CoverInv => NoneSkipped
  BY DEF CoverInv, Covered, NoneSkipped
<1> QED
  BY <1>1, InvCorrect, PTL

(* Only a KeySet, by a process that read "0", moves the key back: a KeyCas of Watch never
   does. *)
THEOREM KeyOnlyForwardCorrect == Spec => KeyOnlyForward
<1>1. TypeOK /\ DevInv /\ AheadInv /\ [Next]_vars
      => [key' < key => \E i \in Production : inst[i].pc = "save" /\ inst[i].old = 0]_vars
  <2> SUFFICES ASSUME TypeOK, DevInv, AheadInv, Next, key' < key
               PROVE  \E i \in Production : inst[i].pc = "save" /\ inst[i].old = 0
    OBVIOUS
  <2>1. key' # key
    BY DEF TypeOK
  <2>2. PICK i \in Instances : Save(i)
    BY <2>1 DEF Next, Poll, Submit, GetKey, GetKeyFails, List, ListFails, SaveFails,
                Restart
  <2>3. i \in Production /\ inst[i].pc = "save"
    BY <2>2 DEF Save, DevInv, Production
  <2>4. inst[i].old <= inst[i].last /\ inst[i].old \in Nat /\ inst[i].last \in Nat
    BY <2>3 DEF AheadInv, TypeOK
  <2>5. inst[i].old = 0
    BY <2>2, <2>4 DEF Save, SavedKey, TypeOK
  <2> QED
    BY <2>3, <2>5
<1> QED
  BY <1>1, TypeCorrect, InvCorrect, PTL DEF Spec, KeyOnlyForward
-----------------------------------------------------------------------------
(* DevOnce needs to know where the changes that were started lie: none of them is past the
   position of the process, and a poll only lists changes past it. *)
DevBehind ==
    \A j \in DevInstances : twice[j] = {} /\ \A c \in seen[j] : c <= inst[j].last

(* The position of a dev process only moves forward when it reads the key, "0" included. *)
LEMMA FromKeyForward ==
    ASSUME TypeOK, NEW j \in DevInstances, NEW k \in Nat
    PROVE  FromKey(j, k) \in Nat /\ inst[j].last <= FromKey(j, k)
BY DEF FromKey, TypeOK

(* A step that leaves alone what a dev process has started keeps it behind, if the position of
   the process does not go back. *)
LEMMA BehindStays ==
    ASSUME TypeOK, TypeOK', DevBehind, NEW j \in DevInstances,
           seen'[j] = seen[j], twice'[j] = twice[j], inst[j].last <= inst'[j].last
    PROVE  twice'[j] = {} /\ \A c \in seen'[j] : c <= inst'[j].last
<1>1. inst[j].last \in Nat /\ inst'[j].last \in Nat /\ \A c \in seen[j] : c \in Nat
  BY DEF TypeOK, CLs
<1> QED
  BY <1>1 DEF DevBehind

(* The inductive step, one case per action that touches a dev process. *)
LEMMA BehindStep == TypeOK /\ TypeOK' /\ DevBehind /\ [Next]_vars => DevBehind'
<1> SUFFICES ASSUME TypeOK, TypeOK', DevBehind, [Next]_vars, NEW j \in DevInstances
             PROVE  twice'[j] = {} /\ \A c \in seen'[j] : c <= inst'[j].last
  BY DEF DevBehind
<1> DEFINE Goal == twice'[j] = {} /\ \A c \in seen'[j] : c <= inst'[j].last
<1>0. inst[j] \in [pc : {"idle", "list", "save"}, last : Nat, old : Nat] /\ j \in Instances
  BY DEF TypeOK
<1>1. ASSUME NEW i \in Instances, GetKey(i) \/ GetKeyFails(i)
      PROVE  Goal
  <2>1. seen' = seen /\ twice' = twice
    BY <1>1 DEF GetKey, GetKeyFails, histories
  <2>2. CASE i # j
    <3>1. inst'[j] = inst[j]
      BY <1>1, <2>2 DEF GetKey, GetKeyFails, TypeOK
    <3> QED
      BY <1>0, <2>1, <3>1, BehindStays
  <2>3. CASE i = j
    <3>1. inst'[j].last = FromKey(j, key) \/ inst'[j].last = FromKey(j, 0)
      BY <1>1, <2>3 DEF GetKey, GetKeyFails, TypeOK
    <3>2. inst[j].last <= inst'[j].last
      BY <3>1, FromKeyForward DEF TypeOK
    <3> QED
      BY <2>1, <3>2, BehindStays
  <2> QED
    BY <2>2, <2>3
<1>2. ASSUME NEW i \in Instances, List(i)
      PROVE  Goal
  <2> DEFINE n == inst[i].last
             changes == Changes(n)
  <2>1. PICK m \in submitted \cup {n} :
           /\ LastOf(changes, n, m)
           /\ inst' = [inst EXCEPT ![i].last = m,
                                   ![i].pc = IF i \in DevInstances THEN "idle" ELSE "save"]
    BY <1>2 DEF List
  <2>2. /\ seen'[j] = seen[j] \cup IF j = i THEN changes ELSE {}
        /\ twice'[j] = twice[j] \cup IF j = i THEN changes \cap seen[j] ELSE {}
    BY <1>2 DEF List
  <2>3. CASE i # j
    <3>1. inst'[j] = inst[j] /\ seen'[j] = seen[j] /\ twice'[j] = twice[j]
      BY <2>1, <2>2, <2>3 DEF TypeOK
    <3> QED
      BY <1>0, <3>1, BehindStays
  <2>4. CASE i = j
    <3>1. n \in Nat /\ m \in Nat /\ inst'[j].last = m
      BY <1>0, <2>1, <2>4 DEF TypeOK, CLs
    <3>2. \A c \in changes : c \in Nat /\ c > n
      BY DEF Changes, Newer, TypeOK, CLs
    <3>3. \A c \in seen[j] : c \in Nat /\ c <= n
      BY <2>4 DEF DevBehind, TypeOK, CLs
    <3>4. changes \cap seen[j] = {}
      BY <3>1, <3>2, <3>3
    <3>5. twice'[j] = {}
      BY <2>2, <2>4, <3>4 DEF DevBehind
    <3>6. n <= m /\ \A c \in changes : c <= m
      BY <2>1, <3>1, <3>2 DEF LastOf
    <3>7. \A c \in seen'[j] : c <= m
      BY <2>2, <2>4, <3>1, <3>3, <3>6
    <3> QED
      BY <3>1, <3>5, <3>7
  <2> QED
    BY <2>3, <2>4
<1>3. ASSUME NEW i \in Instances, ListFails(i) \/ Save(i) \/ SaveFails(i)
      PROVE  Goal
  <2>1. seen' = seen /\ twice' = twice /\ inst'[j].last = inst[j].last
    BY <1>3 DEF ListFails, Save, SaveFails, histories, TypeOK
  <2> QED
    BY <1>0, <2>1, BehindStays
<1>4. ASSUME NEW i \in Instances, Restart(i)
      PROVE  Goal
  <2>1. CASE i = j
    BY <1>4, <2>1 DEF Restart
  <2>2. CASE i # j
    <3>1. inst'[j] = inst[j] /\ seen'[j] = seen[j] /\ twice'[j] = twice[j]
      BY <1>4, <2>2 DEF Restart, TypeOK
    <3> QED
      BY <1>0, <3>1, BehindStays
  <2> QED
    BY <2>1, <2>2
<1>5. CASE Submit \/ UNCHANGED vars
  <2>1. seen' = seen /\ twice' = twice /\ inst' = inst
    BY <1>5 DEF Submit, histories, vars
  <2> QED
    BY <1>0, <2>1, BehindStays
<1> QED
  BY <1>1, <1>2, <1>3, <1>4, <1>5 DEF Next, Poll

(* A dev process of Watch starts no change twice in its life, for any number of processes that
   move the key under it and any number of failed calls. *)
THEOREM DevOnceCorrect == Spec => []DevOnce
<1>1. Init => DevBehind
  BY DEF Init, DevBehind
<1>2. DevBehind => DevOnce
  BY DEF DevBehind, DevOnce
<1> QED
  BY <1>1, <1>2, BehindStep, TypeCorrect, PTL DEF Spec
=============================================================================
