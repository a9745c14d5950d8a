------------------------------- MODULE P4Api -------------------------------
(***************************************************************************)
(* How p4lib runs a Perforce command through the C++ API: runCmdCb         *)
(* (p4_cgo_api.go) registers the caller's callback object under an id and  *)
(* calls p4runcb (p4_cgo_bridge.cc), which takes a connection from one of  *)
(* two pools or makes one, lends it the user's identity, runs the command  *)
(* while the server's output comes back through the id to the callback     *)
(* object, and gives the connection back.  A dropped connection is thrown  *)
(* away and the command is run again from its beginning.                   *)
(*                                                                         *)
(* A callback object is named by the type that implements it.  What it     *)
(* collects is the sequence of the records it was given, each named by the *)
(* call whose command made the server send it and by its place in the      *)
(* output; the objects that keep one value per key hold a record once.     *)
(***************************************************************************)
EXTENDS Naturals, Sequences

CONSTANTS
    Calls,        \* goroutines that run commands
    Users,        \* Perforce users
    DefaultUser,  \* the user a connection has when it is made
    Cbs,          \* callback types in use
    Emits,        \* Emits[cb]: the kinds of the records the server sends for its command
    MaxIdle,      \* kMaxClients
    FinalReports, \* the outcomes of err.Test() after Final on a dropped connection
    MaxIds,       \* bound: how many calls are made
    MaxDrops,     \* bound: how many connections drop
    MaxErrors     \* bound: how many times the server, a callback or Init reports an error

CallbackTypes == {"print", "key", "where", "whereex", "describe", "changes", "dirs", "login",
                  "fstat", "buffer"}
OutputKinds == {"stat", "info", "text", "binary"}
\* The handler interfaces a callback type implements.
Accepts(cb) ==
    CASE cb = "print"  -> {"stat", "text", "binary"}
      [] cb = "dirs"   -> {"info"}
      [] cb = "login"  -> {"info", "stat"}
      [] cb = "buffer" -> OutputKinds
      [] OTHER         -> {"stat"}

ASSUME P4ApiAssumption ==
    /\ DefaultUser \in Users
    /\ FinalReports \subseteq BOOLEAN
    /\ Cbs \subseteq CallbackTypes
    /\ MaxIdle \in Nat /\ MaxIds \in Nat /\ MaxDrops \in Nat /\ MaxErrors \in Nat
    /\ Emits \in [Cbs -> Seq(OutputKinds)]
    /\ \A cb \in Cbs : \A k \in DOMAIN Emits[cb] : Emits[cb][k] \in Accepts(cb)

VARIABLES
    pools,     \* pools[tag]: the users the idle connections of a pool would run commands as
    handlers,  \* handlers[id]: the call whose callback object is registered, NoCall if none
    next,      \* the next callback id
    call,      \* call[g]: the locals of runCmdCb and p4runcb, and the callback object
    drops, errors

vars == <<pools, handlers, next, call, drops, errors>>

NoCall == "no call"
Ids == 1 .. MaxIds

\* Tagger: the types whose commands use the tag protocol, and so the other pool.
Tagger(cb) == cb \notin {"dirs", "fstat", "buffer"}
\* Types that keep one value for a key: keycb and wherecb are maps, logincb two fields.
Keyed(cb) == cb \in {"key", "where", "login"}
\* The only type with an onRetry method.  dirscb, keycb, wherecb, whereexcb and buffer name
\* theirs retry, which is not the method of RetryHandler; the others have none.
Resets(cb) == cb = "print"

\* A call with a new callback object.
NewCall(pc, u, cb, id) ==
    [pc |-> pc, cb |-> cb, user |-> u, id |-> id, conn |-> DefaultUser, orig |-> DefaultUser,
     sent |-> 0, out |-> <<>>, err |-> FALSE]
Returned == {"idle", "ok", "failed"}
Init ==
    /\ pools = [tag \in BOOLEAN |-> <<>>]
    /\ handlers = [id \in Ids |-> NoCall]
    /\ next = 1
    /\ \E cb \in Cbs :
          call = [g \in Calls |-> NewCall("idle", DefaultUser, cb, 0)]
    /\ drops = 0 /\ errors = 0

-----------------------------------------------------------------------------
\* Mutant: register without the increment, so that two calls share an id.
RegisterMut(g) ==
    /\ next <= MaxIds
    /\ handlers' = [handlers EXCEPT ![next] = g]
    /\ next' = next
Register(g) ==
    /\ next <= MaxIds
    /\ handlers' = [handlers EXCEPT ![next] = g]
    /\ next' = next + 1

\* runCmdCb: the call is made on the interface of user u with a callback object of type cb.
Start(g, u, cb) ==
    /\ call[g].pc \in Returned
    /\ Register(g)
    /\ call' = [call EXCEPT ![g] = NewCall("take", u, cb, next)]
    /\ UNCHANGED <<pools, drops, errors>>

\* The identity a connection c is given: New leaves user and passwd empty, and then the
\* connection keeps the user it has.
Lend(user, c) == IF user = DefaultUser THEN c ELSE user
Run(r, c) == [r EXCEPT !.pc = "run", !.orig = c, !.conn = Lend(r.user, c), !.sent = 0]

\* Pool::Client under the lock: the first idle connection, or none.
Take(g) ==
    LET tag == Tagger(call[g].cb) IN
    /\ call[g].pc = "take"
    /\ \/ /\ pools[tag] # <<>>
          /\ pools' = [pools EXCEPT ![tag] = Tail(@)]
          /\ call' = [call EXCEPT ![g] = Run(@, Head(pools[tag]))]
       \/ /\ pools[tag] = <<>>
          /\ call' = [call EXCEPT ![g].pc = "connect"]
          /\ UNCHANGED pools
    /\ UNCHANGED <<handlers, next, drops, errors>>

\* ClientApi::Init makes a connection of the default user.
Connect(g) ==
    /\ call[g].pc = "connect"
    /\ call' = [call EXCEPT ![g] = Run(@, DefaultUser)]
    /\ UNCHANGED <<pools, handlers, next, drops, errors>>

\* handleError of the object registered under the id of call g; nobody if there is none.
Report(g) == [h \in Calls |->
    IF h = handlers[call[g].id] THEN [call[h] EXCEPT !.err = TRUE] ELSE call[h]]
Error == errors < MaxErrors /\ errors' = errors + 1

ConnectFails(g) ==
    /\ call[g].pc = "connect"
    /\ Error
    /\ call' = [Report(g) EXCEPT ![g].pc = "returning"]
    /\ UNCHANGED <<pools, handlers, next, drops>>

Holds(out, rec) == \E i \in DOMAIN out : out[i] = rec
\* What the object of the call r holds once it has taken rec.
Collect(r, rec) == IF Keyed(r.cb) /\ Holds(r.out, rec) THEN r.out ELSE Append(r.out, rec)
Records(g, cb) == {<<g, k>> : k \in DOMAIN Emits[cb]}
More(g) == call[g].sent < Len(Emits[call[g].cb])

\* The server sends the next record; the object registered under the id of g takes it.
Output(g) ==
    LET h == handlers[call[g].id] IN
    /\ call[g].pc = "run" /\ More(g)
    /\ call' = [i \in Calls |->
          LET r == IF i = h THEN [call[i] EXCEPT !.out = Collect(call[i], <<g, call[g].sent + 1>>)]
                            ELSE call[i]
          IN  IF i = g THEN [r EXCEPT !.sent = @ + 1] ELSE r]
    /\ UNCHANGED <<pools, handlers, next, drops, errors>>

\* The server ends the command with an error, or the object refuses the record ("missing
\* 'key'", "expected stats before payload") and the output goes on.
OutputFails(g) ==
    /\ call[g].pc = "run"
    /\ Error
    /\ \/ call' = [Report(g) EXCEPT ![g].pc = "ran"]
       \/ More(g) /\ call' = [Report(g) EXCEPT ![g].sent = @ + 1]
    /\ UNCHANGED <<pools, handlers, next, drops>>

Ran(g) ==
    /\ call[g].pc = "run" /\ ~More(g)
    /\ call' = [call EXCEPT ![g].pc = "ran"]
    /\ UNCHANGED <<pools, handlers, next, drops, errors>>

\* handler.retry: the object's onRetry leaves h.err as it is.
Retried(r) == IF Resets(r.cb) THEN [r EXCEPT !.out = <<>>] ELSE [r EXCEPT !.err = FALSE]

\* The connection drops and is deleted.  The callback hears of the retry only when Final
\* reports an error.
Dropped(g) ==
    LET h == handlers[call[g].id] IN
    /\ call[g].pc = "run"
    /\ drops < MaxDrops /\ drops' = drops + 1
    /\ \E told \in FinalReports :
          call' = [i \in Calls |->
             LET r == IF i = h /\ told THEN Retried(call[i]) ELSE call[i]
             IN  IF i = g THEN [r EXCEPT !.pc = "take"] ELSE r]
    /\ UNCHANGED <<pools, handlers, next, errors>>

\* Mutant: the user is not restored.
RestoreMut(r) == r.conn
\* SetUser(origUser), only for the calls that lent one.
Restore(r) == IF r.user = DefaultUser THEN r.conn ELSE r.orig

\* Mutant: the deleter waits for room in the pool.
ReleaseMut(g) ==
    LET tag == Tagger(call[g].cb) IN
    /\ call[g].pc = "ran"
    /\ IF Len(pools[tag]) < MaxIdle
       THEN /\ pools' = [pools EXCEPT ![tag] = Append(@, Restore(call[g]))]
            /\ call' = [call EXCEPT ![g].pc = "returning"]
       ELSE UNCHANGED <<pools, call>>
    /\ UNCHANGED <<handlers, next, drops, errors>>
\* The end of the loop body: the shared pointer's deleter keeps the connection if there is room.
Release(g) ==
    LET tag == Tagger(call[g].cb) IN
    /\ call[g].pc = "ran"
    /\ pools' = IF Len(pools[tag]) < MaxIdle
                THEN [pools EXCEPT ![tag] = Append(@, Restore(call[g]))] ELSE pools
    /\ call' = [call EXCEPT ![g].pc = "returning"]
    /\ UNCHANGED <<handlers, next, drops, errors>>

\* The result is read and the deferred unregister runs.
Return(g) ==
    /\ call[g].pc = "returning"
    /\ call' = [call EXCEPT ![g].pc = IF call[g].err THEN "failed" ELSE "ok"]
    /\ handlers' = [handlers EXCEPT ![call[g].id] = NoCall]
    /\ UNCHANGED <<pools, next, drops, errors>>

Step(g) ==
    \/ Take(g) \/ Connect(g) \/ ConnectFails(g)
    \/ Output(g) \/ OutputFails(g) \/ Ran(g) \/ Dropped(g)
    \/ Release(g) \/ Return(g)

\* Every call has been made and has returned.
Quiet == next > MaxIds /\ \A g \in Calls : call[g].pc \in Returned

Next ==
    \/ \E g \in Calls : (\E u \in Users, cb \in Cbs : Start(g, u, cb)) \/ Step(g)
    \/ Quiet /\ UNCHANGED vars

Spec == Init /\ [][Next]_vars

\* A goroutine that is running its command goes on.
FairSpec == Spec /\ \A g \in Calls : WF_vars(Step(g))

-----------------------------------------------------------------------------
(* Properties. *)

Status(g) == IF call[g].pc \in Returned THEN call[g].pc ELSE "running"

CallType == [pc : Returned \cup {"take", "connect", "run", "ran", "returning"},
             cb : Cbs, user : Users, id : 0 .. MaxIds, conn : Users, orig : Users,
             sent : Nat, out : Seq(Calls \X Nat), err : BOOLEAN]
TypeOK ==
    /\ pools \in [BOOLEAN -> Seq(Users)]
    /\ handlers \in [Ids -> Calls \cup {NoCall}]
    /\ next \in 1 .. MaxIds + 1
    /\ call \in [Calls -> CallType]
    /\ drops \in 0 .. MaxDrops /\ errors \in 0 .. MaxErrors

(* Whatever users shared the pools before, the connection a command runs on has the identity of
   the interface the command was called on, also after a connection was dropped in the middle
   of a command of another user (p4runcb lends and restores it). *)
RunsAsCaller == \A g \in Calls : call[g].pc \in {"run", "ran"} => call[g].conn = call[g].user

(* A call that returns without an error has each record of its command once, although its
   connection may have dropped and the command been run again: what RetryHandler is there for
   ("to reset internal state before a command is retried", p4_cgo_api.go:60). *)
EachRecordOnce ==
    \A g \in Calls : call[g].pc = "ok" =>
        \A i, j \in DOMAIN call[g].out : i < j => call[g].out[i] # call[g].out[j]

Delivered(g) ==
    IF call[g].pc = "ok" THEN {call[g].out[i] : i \in DOMAIN call[g].out} ELSE {}
Command == INSTANCE P4Command WITH
    status <- [g \in Calls |-> Status(g)],
    cmd <- [g \in Calls |-> call[g].cb],
    identity <- [g \in Calls |-> IF call[g].pc = "ok" THEN call[g].conn ELSE call[g].user],
    got <- [g \in Calls |-> Delivered(g)]
(* Pools, ids, drops and retries are invisible to a caller: runCmdCb implements P4Command, every
   record at least once, no record of another call, and the caller's identity. *)
ImplementsCommand == Command!Spec

(* Every call returns, when only finitely many connections drop. *)
CallsReturn == \A g \in Calls : (call[g].pc = "take") ~> (call[g].pc \in Returned)
=============================================================================
