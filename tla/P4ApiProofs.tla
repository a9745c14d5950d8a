---------------------------- MODULE P4ApiProofs ----------------------------
(***************************************************************************)
(* Proofs about P4Api for any number of goroutines, users, callback types, *)
(* connections, drops and errors.                                          *)
(***************************************************************************)
EXTENDS P4Api, TLAPS

Active(g) == call[g].pc \notin Returned

(* A call that has not returned is the one registered under its id. *)
IdInv ==
    \A g \in Calls : Active(g) =>
        call[g].id \in Ids /\ call[g].id < next /\ handlers[call[g].id] = g

USE P4ApiAssumption

-----------------------------------------------------------------------------
(* The callbacks of a call change that call alone. *)

(* The id a running call registered leads back to that call: an error is reported to it and to no other. *)
LEMMA ReportOwn ==
    ASSUME TypeOK, IdInv, NEW g \in Calls, Active(g)
    PROVE  Report(g) = [call EXCEPT ![g] = [@ EXCEPT !.err = TRUE]]
BY DEF TypeOK, IdInv, Report

\* The call g with its next record.
Given(g) == [[call[g] EXCEPT !.out = Collect(call[g], <<g, call[g].sent + 1>>)] EXCEPT !.sent = @ + 1]
(* A record the server sends reaches the callback of the call that is running the command. *)
LEMMA OutputOwn ==
    ASSUME TypeOK, IdInv, NEW g \in Calls, Output(g)
    PROVE  call' = [call EXCEPT ![g] = Given(g)]
<1>1. handlers[call[g].id] = g
  BY DEF IdInv, Active, Output, Returned
<1>2. call = [i \in Calls |-> call[i]]
  BY DEF TypeOK
<1>3. call' = [i \in Calls |->
          LET r == IF i = g THEN [call[i] EXCEPT !.out = Collect(call[i], <<g, call[g].sent + 1>>)]
                            ELSE call[i]
          IN  IF i = g THEN [r EXCEPT !.sent = @ + 1] ELSE r]
  BY <1>1, Zenon DEF Output
<1>4. \A i \in Calls : call'[i] = IF i = g THEN Given(g) ELSE call[i]
  BY <1>3, Zenon DEF Given
<1>5. call' = [i \in Calls |-> call'[i]]
  BY <1>3, Zenon
<1> QED BY <1>2, <1>4, <1>5

(* A dropped connection sends only its own call back to the pools, with or without a retry notice. *)
LEMMA DroppedOwn ==
    ASSUME TypeOK, IdInv, NEW g \in Calls, Dropped(g)
    PROVE  \E told \in BOOLEAN :
              call' = [call EXCEPT ![g] = [(IF told THEN Retried(call[g]) ELSE call[g]) EXCEPT !.pc = "take"]]
<1>1. handlers[call[g].id] = g
  BY DEF IdInv, Active, Dropped, Returned
<1>2. call = [i \in Calls |-> call[i]]
  BY DEF TypeOK
<1>3. PICK told \in BOOLEAN :
        call' = [i \in Calls |->
             LET r == IF i = g /\ told THEN Retried(call[i]) ELSE call[i]
             IN  IF i = g THEN [r EXCEPT !.pc = "take"] ELSE r]
  BY <1>1 DEF Dropped
<1> QED BY <1>2, <1>3

-----------------------------------------------------------------------------
(* Type correctness and the registry, which need each other: only because a callback's id is its
   own are the callbacks of the others left alone. *)

(* What a callback has collected is a sequence of records. *)
LEMMA CollectType ==
    ASSUME NEW g \in Calls, NEW r \in CallType, NEW k \in Nat
    PROVE  Collect(r, <<g, k>>) \in Seq(Calls \X Nat)
BY DEF Collect, CallType

(* Changing one field of a call keeps its type and its other fields. *)
LEMMA Updates ==
    ASSUME NEW r \in CallType, NEW n \in Nat, NEW q \in Seq(Calls \X Nat), NEW b \in BOOLEAN
    PROVE  /\ [r EXCEPT !.sent = n] \in CallType /\ [r EXCEPT !.out = q] \in CallType
           /\ [r EXCEPT !.err = b] \in CallType
           /\ r.sent \in Nat /\ r.out \in Seq(Calls \X Nat) /\ r.id \in 0 .. MaxIds
           /\ [r EXCEPT !.sent = n].id = r.id /\ [r EXCEPT !.sent = n].pc = r.pc
           /\ [r EXCEPT !.out = q].id = r.id /\ [r EXCEPT !.err = b].id = r.id
BY DEF CallType

(* What a step of call g may do to its record and to the registry. *)
Fits(g, new) ==
    /\ new \in CallType
    /\ new.id = call[g].id
    /\ new.pc \in Returned => handlers' = [handlers EXCEPT ![call[g].id] = NoCall]
    /\ new.pc \notin Returned => handlers' = handlers

(* The pool a callback asks for is a sequence of connections, with a head to take when not empty. *)
LEMMA PoolType ==
    ASSUME TypeOK, NEW cb
    PROVE  /\ Tagger(cb) \in BOOLEAN
           /\ pools[Tagger(cb)] \in Seq(Users)
           /\ pools[Tagger(cb)] # <<>> => /\ Head(pools[Tagger(cb)]) \in Users
                                         /\ Tail(pools[Tagger(cb)]) \in Seq(Users)
<1>1. Tagger(cb) \in BOOLEAN
  BY DEF Tagger
<1>2. pools[Tagger(cb)] \in Seq(Users)
  BY <1>1, Zenon DEF TypeOK
<1>3. ASSUME NEW q \in Seq(Users), q # <<>> PROVE Head(q) \in Users /\ Tail(q) \in Seq(Users)
  BY <1>3
<1> QED BY <1>1, <1>2, <1>3

(* The first state is typed, and no call in it is active. *)
LEMMA TypeInit == Init => TypeOK /\ IdInv
<1> SUFFICES ASSUME Init PROVE TypeOK /\ IdInv
  OBVIOUS
<1>1. PICK cb \in Cbs :
          call = [g \in Calls |-> NewCall("idle", DefaultUser, cb, 0)]
  BY DEF Init
<1>2. call \in [Calls -> CallType]
  BY <1>1 DEF CallType, Returned, NewCall
<1>3. pools \in [BOOLEAN -> Seq(Users)]
  BY DEF Init
<1>4. handlers \in [Ids -> Calls \cup {NoCall}] /\ next \in 1 .. MaxIds + 1
      /\ drops \in 0 .. MaxDrops /\ errors \in 0 .. MaxErrors
  BY DEF Init
<1>5. IdInv
  BY <1>1 DEF IdInv, Active, Returned, NewCall
<1> QED BY <1>2, <1>3, <1>4, <1>5 DEF TypeOK

(* Every step of a call changes its own record. *)
LEMMA StepFits ==
    ASSUME TypeOK, IdInv, NEW g \in Calls, Step(g)
    PROVE  \E new \in CallType : call' = [call EXCEPT ![g] = new] /\ Fits(g, new)
<1>0. call[g] \in CallType
  BY DEF TypeOK
<1>1. ASSUME Take(g) PROVE \E new \in CallType : call' = [call EXCEPT ![g] = new] /\ Fits(g, new)
  <2> DEFINE tag == Tagger(call[g].cb)
  <2>1. CASE pools[tag] # <<>>
    <3>1. Head(pools[tag]) \in Users
      BY <2>1, PoolType
    <3>2. Run(call[g], Head(pools[tag])) \in CallType
      BY <1>0, <3>1 DEF Run, Lend, CallType
    <3>3. call' = [call EXCEPT ![g] = Run(call[g], Head(pools[tag]))] /\ handlers' = handlers
      BY <1>1, <2>1 DEF Take
    <3>4. /\ Run(call[g], Head(pools[tag])).id = call[g].id
          /\ Run(call[g], Head(pools[tag])).pc \notin Returned
      BY <1>0 DEF Run, CallType, Returned
    <3> QED BY <3>2, <3>3, <3>4 DEF Fits
  <2>2. CASE pools[tag] = <<>>
    <3> DEFINE new == [call[g] EXCEPT !.pc = "connect"]
    <3>1. call' = [call EXCEPT ![g] = new] /\ handlers' = handlers
      BY <1>1, <2>2 DEF Take
    <3>2. new \in CallType /\ new.id = call[g].id /\ new.pc \notin Returned
      BY <1>0 DEF CallType, Returned
    <3> QED BY <3>1, <3>2 DEF Fits
  <2> QED BY <2>1, <2>2
<1>2. ASSUME Connect(g) PROVE \E new \in CallType : call' = [call EXCEPT ![g] = new] /\ Fits(g, new)
  <2>1. call' = [call EXCEPT ![g] = Run(call[g], DefaultUser)] /\ handlers' = handlers
    BY <1>2 DEF Connect
  <2>2. /\ Run(call[g], DefaultUser) \in CallType /\ Run(call[g], DefaultUser).id = call[g].id
        /\ Run(call[g], DefaultUser).pc \notin Returned
    BY <1>0 DEF Run, Lend, CallType, Returned
  <2> QED BY <2>1, <2>2 DEF Fits
<1>3. ASSUME ConnectFails(g) PROVE \E new \in CallType : call' = [call EXCEPT ![g] = new] /\ Fits(g, new)
  <2> DEFINE new == [[call[g] EXCEPT !.err = TRUE] EXCEPT !.pc = "returning"]
  <2>0. Active(g)
    BY <1>3 DEF ConnectFails, Active, Returned
  <2>1. call' = [call EXCEPT ![g] = new] /\ handlers' = handlers
    BY <1>3, <2>0, ReportOwn DEF ConnectFails, TypeOK
  <2>2. new \in CallType /\ new.id = call[g].id /\ new.pc \notin Returned
    BY <1>0 DEF CallType, Returned
  <2> QED BY <2>1, <2>2 DEF Fits
<1>4. ASSUME Output(g) PROVE \E new \in CallType : call' = [call EXCEPT ![g] = new] /\ Fits(g, new)
  <2>1. call' = [call EXCEPT ![g] = Given(g)] /\ handlers' = handlers
    BY <1>4, OutputOwn DEF Output
  <2>2. call[g].sent + 1 \in Nat
    BY <1>0 DEF CallType
  <2>3. Collect(call[g], <<g, call[g].sent + 1>>) \in Seq(Calls \X Nat)
    BY <1>0, <2>2, CollectType
  <2>4. Given(g) \in CallType /\ Given(g).id = call[g].id /\ Given(g).pc = call[g].pc
    BY <1>0, <2>2, <2>3 DEF Given, CallType
  <2> QED BY <1>4, <2>1, <2>4 DEF Fits, Output, Returned
<1>5. ASSUME OutputFails(g) PROVE \E new \in CallType : call' = [call EXCEPT ![g] = new] /\ Fits(g, new)
  <2> DEFINE bad == [call[g] EXCEPT !.err = TRUE]
  <2>0. Active(g) /\ call[g].pc = "run"
    BY <1>5 DEF OutputFails, Active, Returned
  <2>1. Report(g) = [call EXCEPT ![g] = bad] /\ handlers' = handlers
    BY <1>5, <2>0, ReportOwn DEF OutputFails
  <2>2. CASE call' = [Report(g) EXCEPT ![g].pc = "ran"]
    <3> DEFINE new == [bad EXCEPT !.pc = "ran"]
    <3>1. call' = [call EXCEPT ![g] = new]
      BY <2>1, <2>2 DEF TypeOK
    <3>2. new \in CallType /\ new.id = call[g].id /\ new.pc \notin Returned
      BY <1>0 DEF CallType, Returned
    <3> QED BY <2>1, <3>1, <3>2 DEF Fits
  <2>3. CASE call' = [Report(g) EXCEPT ![g].sent = @ + 1]
    <3> DEFINE new == [bad EXCEPT !.sent = @ + 1]
    <3>0. bad \in CallType /\ bad.id = call[g].id /\ bad.pc = "run"
      BY <1>0, <2>0 DEF CallType
    <3> HIDE DEF bad
    <3>1. call' = [call EXCEPT ![g] = new]
      BY <2>1, <2>3 DEF TypeOK
    <3>2. new \in CallType /\ new.id = call[g].id /\ new.pc = "run"
      <4>1. bad.sent + 1 \in Nat /\ <<>> \in Seq(Calls \X Nat)
        BY <3>0 DEF CallType
      <4> QED BY <3>0, <4>1, Updates
    <3>3. new.pc \notin Returned
      BY <3>2 DEF Returned
    <3> HIDE DEF new
    <3> QED BY <2>1, <3>1, <3>2, <3>3 DEF Fits
  <2> QED BY <1>5, <2>2, <2>3 DEF OutputFails
<1>6. ASSUME Ran(g) PROVE \E new \in CallType : call' = [call EXCEPT ![g] = new] /\ Fits(g, new)
  <2> DEFINE new == [call[g] EXCEPT !.pc = "ran"]
  <2>1. call' = [call EXCEPT ![g] = new] /\ handlers' = handlers
    BY <1>6 DEF Ran
  <2>2. new \in CallType /\ new.id = call[g].id /\ new.pc \notin Returned
    BY <1>0 DEF CallType, Returned
  <2> QED BY <2>1, <2>2 DEF Fits
<1>7. ASSUME Dropped(g) PROVE \E new \in CallType : call' = [call EXCEPT ![g] = new] /\ Fits(g, new)
  <2>1. PICK told \in BOOLEAN :
          call' = [call EXCEPT ![g] = [(IF told THEN Retried(call[g]) ELSE call[g]) EXCEPT !.pc = "take"]]
    BY <1>7, DroppedOwn
  <2> DEFINE old == IF told THEN Retried(call[g]) ELSE call[g]
             new == [old EXCEPT !.pc = "take"]
  <2>2. old \in CallType /\ old.id = call[g].id
    <3>1. <<>> \in Seq(Calls \X Nat) /\ FALSE \in BOOLEAN /\ 0 \in Nat
      OBVIOUS
    <3>2. /\ [call[g] EXCEPT !.out = <<>>] \in CallType /\ [call[g] EXCEPT !.err = FALSE] \in CallType
          /\ [call[g] EXCEPT !.out = <<>>].id = call[g].id /\ [call[g] EXCEPT !.err = FALSE].id = call[g].id
      BY <1>0, <3>1, Updates
    <3> QED BY <1>0, <3>2, Zenon DEF Retried
  <2>3. new \in CallType /\ new.id = call[g].id /\ new.pc \notin Returned
    <3> HIDE DEF old
    <3> QED BY <2>2 DEF CallType, Returned
  <2>4. handlers' = handlers
    BY <1>7 DEF Dropped
  <2> QED BY <2>1, <2>3, <2>4 DEF Fits
<1>8. ASSUME Release(g) PROVE \E new \in CallType : call' = [call EXCEPT ![g] = new] /\ Fits(g, new)
  <2> DEFINE new == [call[g] EXCEPT !.pc = "returning"]
  <2>1. call' = [call EXCEPT ![g] = new] /\ handlers' = handlers
    BY <1>8 DEF Release
  <2>2. new \in CallType /\ new.id = call[g].id /\ new.pc \notin Returned
    BY <1>0 DEF CallType, Returned
  <2> QED BY <2>1, <2>2 DEF Fits
<1>9. ASSUME Return(g) PROVE \E new \in CallType : call' = [call EXCEPT ![g] = new] /\ Fits(g, new)
  <2> DEFINE new == [call[g] EXCEPT !.pc = IF call[g].err THEN "failed" ELSE "ok"]
  <2>1. call' = [call EXCEPT ![g] = new] /\ handlers' = [handlers EXCEPT ![call[g].id] = NoCall]
    BY <1>9 DEF Return
  <2>2. new \in CallType /\ new.id = call[g].id /\ new.pc \in Returned
    BY <1>0 DEF CallType, Returned
  <2> QED BY <2>1, <2>2 DEF Fits
<1> QED BY <1>1, <1>2, <1>3, <1>4, <1>5, <1>6, <1>7, <1>8, <1>9 DEF Step

(* A step of a call keeps the pools and the counters typed, and hands out no id. *)
LEMMA StepPools ==
    ASSUME TypeOK, NEW g \in Calls, Step(g)
    PROVE  /\ pools' \in [BOOLEAN -> Seq(Users)]
           /\ drops' \in 0 .. MaxDrops /\ errors' \in 0 .. MaxErrors
           /\ next' = next
<1> DEFINE tag == Tagger(call[g].cb)
<1>1. CASE Take(g)
  <2>1. UNCHANGED <<next, drops, errors>>
    BY <1>1 DEF Take
  <2>2. pools' = pools \/ (pools[tag] # <<>> /\ pools' = [pools EXCEPT ![tag] = Tail(pools[tag])])
    BY <1>1 DEF Take
  <2>3. tag \in BOOLEAN /\ (pools[tag] # <<>> => Tail(pools[tag]) \in Seq(Users))
    BY PoolType
  <2>4. pools' \in [BOOLEAN -> Seq(Users)]
    <3> HIDE DEF tag
    <3> QED BY <2>2, <2>3, Zenon DEF TypeOK
  <2> QED BY <2>1, <2>4 DEF TypeOK
<1>2. CASE Release(g)
  <2>1. UNCHANGED <<next, drops, errors>>
    BY <1>2 DEF Release
  <2>2. pools' = pools \/ pools' = [pools EXCEPT ![tag] = Append(pools[tag], Restore(call[g]))]
    BY <1>2 DEF Release
  <2>3. Restore(call[g]) \in Users
    BY DEF TypeOK, CallType, Restore
  <2>4. tag \in BOOLEAN /\ Append(pools[tag], Restore(call[g])) \in Seq(Users)
    BY <2>3, PoolType
  <2>5. pools' \in [BOOLEAN -> Seq(Users)]
    <3> HIDE DEF tag
    <3> QED BY <2>2, <2>4, Zenon DEF TypeOK
  <2> QED BY <2>1, <2>5 DEF TypeOK
<1>3. CASE Connect(g) \/ ConnectFails(g) \/ Output(g) \/ OutputFails(g) \/ Ran(g) \/ Dropped(g) \/ Return(g)
  <2>1. pools' = pools /\ next' = next
    BY <1>3 DEF Connect, ConnectFails, Output, OutputFails, Ran, Dropped, Return
  <2>2. drops' = drops \/ (drops < MaxDrops /\ drops' = drops + 1)
    BY <1>3 DEF Connect, ConnectFails, Output, OutputFails, Ran, Dropped, Return
  <2>3. errors' = errors \/ (errors < MaxErrors /\ errors' = errors + 1)
    BY <1>3 DEF Connect, ConnectFails, Output, OutputFails, Ran, Dropped, Return, Error
  <2> QED BY <2>1, <2>2, <2>3 DEF TypeOK
<1> QED BY <1>1, <1>2, <1>3 DEF Step

(* A new call is registered under the next free id. *)
LEMMA StartRecord ==
    ASSUME TypeOK, NEW g \in Calls, NEW u \in Users, NEW cb \in Cbs, Start(g, u, cb)
    PROVE  /\ call' = [call EXCEPT ![g] = NewCall("take", u, cb, next)]
           /\ NewCall("take", u, cb, next) \in CallType
           /\ NewCall("take", u, cb, next).pc = "take" /\ NewCall("take", u, cb, next).id = next
           /\ NewCall("take", u, cb, next).user = u /\ NewCall("take", u, cb, next).cb = cb
           /\ NewCall("take", u, cb, next).out = <<>>
           /\ next \in Ids /\ next' = next + 1 /\ handlers' = [handlers EXCEPT ![next] = g]
           /\ pools' = pools
<1>1. next \in Ids /\ next' = next + 1 /\ handlers' = [handlers EXCEPT ![next] = g]
  BY DEF Start, Register, TypeOK, Ids
<1>2. call' = [call EXCEPT ![g] = NewCall("take", u, cb, next)] /\ pools' = pools
  BY DEF Start
<1>3. /\ NewCall("take", u, cb, next) \in CallType
      /\ NewCall("take", u, cb, next).pc = "take" /\ NewCall("take", u, cb, next).id = next
      /\ NewCall("take", u, cb, next).user = u /\ NewCall("take", u, cb, next).cb = cb
      /\ NewCall("take", u, cb, next).out = <<>>
  BY <1>1 DEF NewCall, CallType, Returned, Ids
<1> QED BY <1>1, <1>2, <1>3

(* Every step keeps the types, and every handler id on the one call that owns it. *)
LEMMA TypeStep == TypeOK /\ IdInv /\ [Next]_vars => TypeOK' /\ IdInv'
<1> SUFFICES ASSUME TypeOK, IdInv, [Next]_vars PROVE TypeOK' /\ IdInv'
  OBVIOUS
<1>1. ASSUME NEW g \in Calls, NEW u \in Users, NEW cb \in Cbs, Start(g, u, cb)
      PROVE  TypeOK' /\ IdInv'
  <2> DEFINE new == NewCall("take", u, cb, next)
  <2>1. call' = [call EXCEPT ![g] = new] /\ new \in CallType /\ new.id = next
        /\ next \in Ids /\ next' = next + 1 /\ handlers' = [handlers EXCEPT ![next] = g]
    BY <1>1, StartRecord
  <2>4. pools' = pools /\ drops' = drops /\ errors' = errors
    BY <1>1 DEF Start
  <2> HIDE DEF new
  <2>2. TypeOK'
    BY <2>1, <2>4 DEF TypeOK, Ids
  <2>3. IdInv'
    <3> SUFFICES ASSUME NEW h \in Calls, Active(h)'
                 PROVE  (call[h].id \in Ids /\ call[h].id < next /\ handlers[call[h].id] = h)'
      BY DEF IdInv
    <3>1. CASE h = g
      BY <2>1, <3>1 DEF TypeOK, Ids
    <3>2. CASE h # g
      <4>1. call'[h] = call[h] /\ Active(h)
        BY <2>1, <3>2 DEF TypeOK, Active
      <4> QED BY <2>1, <4>1 DEF TypeOK, Ids, IdInv
    <3> QED BY <3>1, <3>2
  <2> QED BY <2>2, <2>3
<1>2. ASSUME NEW g \in Calls, Step(g) PROVE TypeOK' /\ IdInv'
  <2>1. PICK new \in CallType : call' = [call EXCEPT ![g] = new] /\ Fits(g, new)
    BY <1>2, StepFits
  <2>2. /\ pools' \in [BOOLEAN -> Seq(Users)]
        /\ drops' \in 0 .. MaxDrops /\ errors' \in 0 .. MaxErrors /\ next' = next
    BY <1>2, StepPools
  <2>3. handlers' = handlers \/ handlers' = [handlers EXCEPT ![call[g].id] = NoCall]
    BY <2>1 DEF Fits
  <2>4. call' \in [Calls -> CallType] /\ handlers' \in [Ids -> Calls \cup {NoCall}]
    BY <2>1, <2>3 DEF TypeOK
  <2>5. Active(g)
    BY <1>2 DEF Step, Take, Connect, ConnectFails, Output, OutputFails, Ran, Dropped, Release, Return,
                Active, Returned
  <2>6. IdInv'
    <3> SUFFICES ASSUME NEW h \in Calls, Active(h)'
                 PROVE  (call[h].id \in Ids /\ call[h].id < next /\ handlers[call[h].id] = h)'
      BY DEF IdInv
    <3>1. CASE h = g
      <4>1. call'[g] = new /\ new.pc \notin Returned
        BY <2>1, <3>1 DEF TypeOK, Active
      <4> QED BY <2>1, <2>2, <2>5, <3>1, <4>1 DEF Fits, IdInv
    <3>2. CASE h # g
      <4>1. call'[h] = call[h] /\ Active(h)
        BY <2>1, <3>2 DEF TypeOK, Active
      <4>2. call[h].id # call[g].id
        BY <2>5, <3>2, <4>1 DEF IdInv
      <4>3. handlers'[call[h].id] = handlers[call[h].id]
        BY <2>3, <4>1, <4>2 DEF TypeOK, IdInv
      <4> QED BY <2>2, <4>1, <4>3 DEF IdInv
    <3> QED BY <3>1, <3>2
  <2>7. next' \in 1 .. MaxIds + 1
    BY <2>2 DEF TypeOK
  <2> QED BY <2>2, <2>4, <2>6, <2>7 DEF TypeOK
<1>3. CASE UNCHANGED vars
  BY <1>3 DEF vars, TypeOK, IdInv, Active
<1> QED BY <1>1, <1>2, <1>3 DEF Next

(* Every variable keeps its type, and a call that has not returned is found under its id. *)
THEOREM TypeCorrect == Spec => [](TypeOK /\ IdInv)
<1>1. Init => TypeOK /\ IdInv
  BY TypeInit
<1>2. TypeOK /\ IdInv /\ [Next]_vars => (TypeOK /\ IdInv)'
  BY TypeStep
<1> QED BY <1>1, <1>2, PTL DEF Spec

-----------------------------------------------------------------------------
(* Identities and records.  RunsAsCaller is not inductive: it says nothing of the connections that
   are idle.  The strengthening is that those are the default user's, and what a call knows of its
   connection and of its records at each point. *)

Items(q) == {q[i] : i \in DOMAIN q}
Sent(g, r) == {<<g, k>> : k \in 1 .. r.sent}

PoolsClean == \A tag \in BOOLEAN : pools[tag] \in Seq({DefaultUser})

CallOk(g, r) ==
    /\ r.pc \in {"run", "ran"} => r.orig = DefaultUser /\ r.conn = r.user
    /\ r.pc = "returning" /\ ~r.err => r.conn = r.user
    /\ r.pc \notin Returned => Items(r.out) \subseteq Records(g, r.cb)
    /\ r.pc \in {"run", "ran", "returning"} /\ ~r.err => Sent(g, r) \subseteq Items(r.out)
    /\ r.pc \in {"ran", "returning"} /\ ~r.err => r.sent >= Len(Emits[r.cb])
    /\ r.pc = "ok" => r.conn = r.user /\ Items(r.out) = Records(g, r.cb)

CallerInv == PoolsClean /\ \A g \in Calls : CallOk(g, call[g])

(* What lending and restoring do with a connection of the default user. *)
LEMMA LentOk ==
    ASSUME NEW r \in CallType
    PROVE  /\ Run(r, DefaultUser) = [r EXCEPT !.pc = "run", !.orig = DefaultUser, !.conn = r.user, !.sent = 0]
           /\ r.orig = DefaultUser /\ r.conn = r.user => Restore(r) = DefaultUser
<1>1. Lend(r.user, DefaultUser) = r.user
  BY DEF Lend
<1>2. r.orig = DefaultUser /\ r.conn = r.user => Restore(r) = DefaultUser
  BY DEF Restore
<1> QED BY <1>1, <1>2 DEF Run

(* Collecting a record adds that record and loses none. *)
LEMMA CollectItems ==
    ASSUME NEW g \in Calls, NEW r \in CallType, NEW k \in Nat
    PROVE  Items(Collect(r, <<g, k>>)) = Items(r.out) \cup {<<g, k>>}
<1>1. r.out \in Seq(Calls \X Nat)
  BY DEF CallType
<1>2. ASSUME NEW q \in Seq(Calls \X Nat), NEW x \in Calls \X Nat
      PROVE  Items(Append(q, x)) = Items(q) \cup {x}
  <2>1. DOMAIN Append(q, x) = 1 .. Len(q) + 1 /\ DOMAIN q = 1 .. Len(q) /\ Len(q) \in Nat
    OBVIOUS
  <2>2. \A i \in 1 .. Len(q) : Append(q, x)[i] = q[i]
    OBVIOUS
  <2>3. Append(q, x)[Len(q) + 1] = x
    OBVIOUS
  <2> QED BY <2>1, <2>2, <2>3 DEF Items
<1>3. CASE Keyed(r.cb) /\ Holds(r.out, <<g, k>>)
  BY <1>3 DEF Collect, Holds, Items
<1>4. CASE ~(Keyed(r.cb) /\ Holds(r.out, <<g, k>>))
  BY <1>1, <1>2, <1>4 DEF Collect
<1> QED BY <1>3, <1>4

(* The pools are empty and no call has output in the first state. *)
LEMMA CallerInit == Init => CallerInv
<1> SUFFICES ASSUME Init PROVE CallerInv
  OBVIOUS
<1>1. PoolsClean
  <2>1. <<>> \in Seq({DefaultUser})
    OBVIOUS
  <2>2. \A tag \in BOOLEAN : pools[tag] = <<>>
    BY Zenon DEF Init
  <2> QED BY <2>1, <2>2 DEF PoolsClean
<1>2. ASSUME NEW g \in Calls PROVE CallOk(g, call[g])
  <2>1. call[g].pc = "idle"
    BY DEF Init, NewCall
  <2> QED BY <2>1 DEF CallOk, Returned
<1> QED BY <1>1, <1>2 DEF CallerInv

(* The pools stay clean. *)
LEMMA CleanStep ==
    ASSUME TypeOK, CallerInv, NEW g \in Calls, Step(g)
    PROVE  PoolsClean'
<1> DEFINE mine == Tagger(call[g].cb)
<1>0. mine \in BOOLEAN
  BY PoolType
<1>1. CASE Take(g)
  <2>1. pools' = pools \/ (pools[mine] # <<>> /\ pools' = [pools EXCEPT ![mine] = Tail(pools[mine])])
    BY <1>1 DEF Take
  <2>2. ASSUME NEW q \in Seq({DefaultUser}), q # <<>> PROVE Tail(q) \in Seq({DefaultUser})
    BY <2>2
  <2>3. pools[mine] # <<>> => Tail(pools[mine]) \in Seq({DefaultUser})
    BY <1>0, <2>2 DEF CallerInv, PoolsClean
  <2> HIDE DEF mine
  <2> QED BY <1>0, <2>1, <2>3, Zenon DEF CallerInv, PoolsClean, TypeOK
<1>2. CASE Release(g)
  <2>1. pools' = pools \/ pools' = [pools EXCEPT ![mine] = Append(pools[mine], Restore(call[g]))]
    BY <1>2 DEF Release
  <2>2. call[g].pc = "ran" /\ call[g] \in CallType
    BY <1>2 DEF Release, TypeOK
  <2>3. Restore(call[g]) = DefaultUser
    BY <2>2, LentOk DEF CallerInv, CallOk
  <2>4. ASSUME NEW q \in Seq({DefaultUser}) PROVE Append(q, DefaultUser) \in Seq({DefaultUser})
    OBVIOUS
  <2>5. Append(pools[mine], Restore(call[g])) \in Seq({DefaultUser})
    BY <1>0, <2>3, <2>4 DEF CallerInv, PoolsClean
  <2> HIDE DEF mine
  <2> QED BY <1>0, <2>1, <2>5, Zenon DEF CallerInv, PoolsClean, TypeOK
<1>3. CASE Connect(g) \/ ConnectFails(g) \/ Output(g) \/ OutputFails(g) \/ Ran(g) \/ Dropped(g) \/ Return(g)
  <2>1. pools' = pools
    BY <1>3 DEF Connect, ConnectFails, Output, OutputFails, Ran, Dropped, Return
  <2> QED BY <2>1 DEF CallerInv, PoolsClean
<1> QED BY <1>1, <1>2, <1>3 DEF Step

(* A step of call g leaves it a good record of the same command. *)
Keeps(g, new) ==
    /\ CallOk(g, new)
    /\ new.cb = call[g].cb /\ new.user = call[g].user
    /\ new.pc \in Returned => /\ new.pc = IF new.err THEN "failed" ELSE "ok"
                              /\ new.conn = call[g].conn

(* A connection of the default user, lent to the user of the call, suits that call. *)
LEMMA RunOk ==
    ASSUME NEW g \in Calls, NEW r \in CallType, CallOk(g, r), r.pc \notin Returned
    PROVE  /\ Run(r, DefaultUser) \in CallType
           /\ CallOk(g, Run(r, DefaultUser))
           /\ Run(r, DefaultUser).cb = r.cb /\ Run(r, DefaultUser).user = r.user
           /\ Run(r, DefaultUser).pc = "run"
<1> DEFINE new == Run(r, DefaultUser)
<1>1. new = [r EXCEPT !.pc = "run", !.orig = DefaultUser, !.conn = r.user, !.sent = 0]
  BY LentOk
<1>2. new \in CallType /\ new.pc = "run" /\ new.cb = r.cb /\ new.user = r.user /\ new.conn = r.user
      /\ new.orig = DefaultUser /\ new.sent = 0 /\ new.out = r.out
  <2> HIDE DEF new
  <2> QED BY <1>1 DEF CallType
<1>3. Sent(g, new) = {}
  BY <1>2 DEF Sent
<1> HIDE DEF new
<1>4. CallOk(g, new)
  BY <1>2, <1>3 DEF CallOk, Returned
<1> QED BY <1>2, <1>4 DEF new

(* A step of a call changes only its own record, and keeps what its caller relies on. *)
LEMMA StepKeeps ==
    ASSUME TypeOK, IdInv, CallerInv, NEW g \in Calls, Step(g)
    PROVE  \E new \in CallType : call' = [call EXCEPT ![g] = new] /\ Keeps(g, new)
<1> DEFINE r == call[g]
<1>0. r \in CallType /\ CallOk(g, r)
  BY DEF TypeOK, CallerInv
<1>1. ASSUME Take(g) PROVE \E new \in CallType : call' = [call EXCEPT ![g] = new] /\ Keeps(g, new)
  <2> DEFINE tag == Tagger(r.cb)
  <2>1. CASE pools[tag] # <<>>
    <3>1. pools[tag] \in Seq({DefaultUser})
      BY PoolType DEF CallerInv, PoolsClean
    <3>2. Head(pools[tag]) = DefaultUser
      BY <2>1, <3>1
    <3>3. call' = [call EXCEPT ![g] = Run(r, Head(pools[tag]))] /\ r.pc = "take"
      BY <1>1, <2>1 DEF Take
    <3>4. call' = [call EXCEPT ![g] = Run(r, DefaultUser)] /\ r.pc \notin Returned
      BY <3>2, <3>3 DEF Returned
    <3>5. Run(r, DefaultUser) \in CallType /\ Keeps(g, Run(r, DefaultUser))
      BY <1>0, <3>4, RunOk DEF Keeps, Returned
    <3> QED BY <3>4, <3>5
  <2>2. CASE pools[tag] = <<>>
    <3> DEFINE new == [r EXCEPT !.pc = "connect"]
    <3>1. call' = [call EXCEPT ![g] = new] /\ r.pc = "take"
      BY <1>1, <2>2 DEF Take
    <3>2. new \in CallType /\ new.pc = "connect" /\ new.cb = r.cb /\ new.user = r.user /\ new.out = r.out
      BY <1>0 DEF CallType
    <3> HIDE DEF new
    <3>3. Keeps(g, new)
      BY <1>0, <3>1, <3>2 DEF Keeps, CallOk, Returned
    <3> QED BY <3>1, <3>2, <3>3
  <2> QED BY <2>1, <2>2
<1>2. ASSUME Connect(g) PROVE \E new \in CallType : call' = [call EXCEPT ![g] = new] /\ Keeps(g, new)
  <2>1. call' = [call EXCEPT ![g] = Run(r, DefaultUser)] /\ r.pc \notin Returned
    BY <1>2 DEF Connect, Returned
  <2>2. Run(r, DefaultUser) \in CallType /\ Keeps(g, Run(r, DefaultUser))
    BY <1>0, <2>1, RunOk DEF Keeps, Returned
  <2> QED BY <2>1, <2>2
<1>3. ASSUME ConnectFails(g) PROVE \E new \in CallType : call' = [call EXCEPT ![g] = new] /\ Keeps(g, new)
  <2> DEFINE new == [[r EXCEPT !.err = TRUE] EXCEPT !.pc = "returning"]
  <2>0. Active(g) /\ r.pc = "connect"
    BY <1>3 DEF ConnectFails, Active, Returned
  <2>1. call' = [call EXCEPT ![g] = new]
    BY <1>3, <2>0, ReportOwn DEF ConnectFails, TypeOK
  <2>2. new \in CallType /\ new.pc = "returning" /\ new.err /\ new.cb = r.cb /\ new.user = r.user
        /\ new.out = r.out
    BY <1>0 DEF CallType
  <2> HIDE DEF new
  <2>3. Keeps(g, new)
    BY <1>0, <2>0, <2>2 DEF Keeps, CallOk, Returned
  <2> QED BY <2>1, <2>2, <2>3
<1>4. ASSUME Output(g) PROVE \E new \in CallType : call' = [call EXCEPT ![g] = new] /\ Keeps(g, new)
  <2>1. call' = [call EXCEPT ![g] = Given(g)] /\ r.pc = "run" /\ r.sent < Len(Emits[r.cb])
    BY <1>4, OutputOwn DEF Output, More
  <2> DEFINE n == r.sent + 1
             new == Given(g)
  <2>2. n \in Nat /\ r.sent \in Nat /\ r.cb \in Cbs
    BY <1>0 DEF CallType
  <2>3. Collect(r, <<g, n>>) \in Seq(Calls \X Nat)
    BY <1>0, <2>2, CollectType
  <2>4. new \in CallType /\ new.pc = r.pc /\ new.cb = r.cb /\ new.user = r.user /\ new.conn = r.conn
        /\ new.orig = r.orig /\ new.err = r.err /\ new.sent = n /\ new.out = Collect(r, <<g, n>>)
    BY <1>0, <2>2, <2>3 DEF Given, CallType
  <2>5. Items(new.out) = Items(r.out) \cup {<<g, n>>}
    BY <1>0, <2>2, <2>4, CollectItems
  <2> HIDE DEF new
  <2>6. n \in DOMAIN Emits[r.cb]
    BY <2>1, <2>2
  <2>7. <<g, n>> \in Records(g, r.cb)
    BY <2>6 DEF Records
  <2>8. Sent(g, new) = Sent(g, r) \cup {<<g, n>>}
    <3>1. 1 .. n = (1 .. r.sent) \cup {n}
      BY <2>2
    <3> QED BY <2>4, <3>1 DEF Sent
  <2>9. Keeps(g, new)
    BY <1>0, <2>1, <2>4, <2>5, <2>7, <2>8 DEF Keeps, CallOk, Returned
  <2> QED BY <2>1, <2>4, <2>9 DEF new
<1>5. ASSUME OutputFails(g) PROVE \E new \in CallType : call' = [call EXCEPT ![g] = new] /\ Keeps(g, new)
  <2> DEFINE bad == [r EXCEPT !.err = TRUE]
  <2>0. Active(g) /\ r.pc = "run"
    BY <1>5 DEF OutputFails, Active, Returned
  <2>1. Report(g) = [call EXCEPT ![g] = bad]
    BY <2>0, ReportOwn
  <2>2. bad \in CallType /\ bad.pc = "run" /\ bad.err /\ bad.cb = r.cb /\ bad.user = r.user
        /\ bad.conn = r.conn /\ bad.orig = r.orig /\ bad.out = r.out
    BY <1>0, <2>0 DEF CallType
  <2> HIDE DEF bad
  <2>3. CASE call' = [Report(g) EXCEPT ![g].pc = "ran"]
    <3> DEFINE new == [bad EXCEPT !.pc = "ran"]
    <3>1. call' = [call EXCEPT ![g] = new]
      BY <2>1, <2>3 DEF TypeOK
    <3>2. new \in CallType /\ new.pc = "ran" /\ new.err /\ new.cb = r.cb /\ new.user = r.user
          /\ new.conn = r.conn /\ new.orig = r.orig /\ new.out = r.out
      BY <2>2 DEF CallType
    <3> HIDE DEF new
    <3>3. Keeps(g, new)
      BY <1>0, <2>0, <3>2 DEF Keeps, CallOk, Returned
    <3> QED BY <3>1, <3>2, <3>3
  <2>4. CASE call' = [Report(g) EXCEPT ![g].sent = @ + 1]
    <3> DEFINE new == [bad EXCEPT !.sent = @ + 1]
    <3>1. call' = [call EXCEPT ![g] = new]
      BY <2>1, <2>4 DEF TypeOK
    <3>2. new \in CallType /\ new.pc = "run" /\ new.err /\ new.cb = r.cb /\ new.user = r.user
          /\ new.conn = r.conn /\ new.orig = r.orig /\ new.out = r.out
      <4>1. bad.sent + 1 \in Nat
        BY <2>2 DEF CallType
      <4>2. ASSUME NEW m \in Nat, NEW b \in CallType
            PROVE  LET c == [b EXCEPT !.sent = m]
                   IN  /\ c \in CallType /\ c.pc = b.pc /\ c.err = b.err /\ c.cb = b.cb
                       /\ c.user = b.user /\ c.conn = b.conn /\ c.orig = b.orig /\ c.out = b.out
        BY DEF CallType
      <4> QED BY <2>2, <4>1, <4>2
    <3> HIDE DEF new
    <3>3. Keeps(g, new)
      BY <1>0, <2>0, <3>2 DEF Keeps, CallOk, Returned
    <3> QED BY <3>1, <3>2, <3>3
  <2> QED BY <1>5, <2>3, <2>4 DEF OutputFails
<1>6. ASSUME Ran(g) PROVE \E new \in CallType : call' = [call EXCEPT ![g] = new] /\ Keeps(g, new)
  <2> DEFINE new == [r EXCEPT !.pc = "ran"]
  <2>1. call' = [call EXCEPT ![g] = new] /\ r.pc = "run" /\ ~(r.sent < Len(Emits[r.cb]))
    BY <1>6 DEF Ran, More
  <2>2. r.sent >= Len(Emits[r.cb])
    <3>1. r.sent \in Nat /\ r.cb \in Cbs
      BY <1>0 DEF CallType
    <3>2. Len(Emits[r.cb]) \in Nat
      BY <3>1
    <3> QED BY <2>1, <3>1, <3>2
  <2>3. new \in CallType /\ new.pc = "ran" /\ new.cb = r.cb /\ new.user = r.user /\ new.conn = r.conn
        /\ new.orig = r.orig /\ new.err = r.err /\ new.sent = r.sent /\ new.out = r.out
    BY <1>0 DEF CallType
  <2> HIDE DEF new
  <2>4. Sent(g, new) = Sent(g, r)
    BY <2>3 DEF Sent
  <2>5. Keeps(g, new)
    BY <1>0, <2>1, <2>2, <2>3, <2>4 DEF Keeps, CallOk, Returned
  <2> QED BY <2>1, <2>3, <2>5
<1>7. ASSUME Dropped(g) PROVE \E new \in CallType : call' = [call EXCEPT ![g] = new] /\ Keeps(g, new)
  <2>1. PICK told \in BOOLEAN :
          call' = [call EXCEPT ![g] = [(IF told THEN Retried(call[g]) ELSE call[g]) EXCEPT !.pc = "take"]]
    BY <1>7, DroppedOwn
  <2> DEFINE old == IF told THEN Retried(call[g]) ELSE call[g]
             new == [old EXCEPT !.pc = "take"]
  <2>2. r.pc = "run"
    BY <1>7 DEF Dropped
  <2>3. old \in CallType /\ old.cb = r.cb /\ old.user = r.user /\ (old.out = r.out \/ old.out = <<>>)
    <3>1. <<>> \in Seq(Calls \X Nat)
      OBVIOUS
    <3>2. [r EXCEPT !.out = <<>>] \in CallType /\ [r EXCEPT !.out = <<>>].cb = r.cb
          /\ [r EXCEPT !.out = <<>>].user = r.user /\ [r EXCEPT !.out = <<>>].out = <<>>
      BY <1>0, <3>1 DEF CallType
    <3>3. [r EXCEPT !.err = FALSE] \in CallType /\ [r EXCEPT !.err = FALSE].cb = r.cb
          /\ [r EXCEPT !.err = FALSE].user = r.user /\ [r EXCEPT !.err = FALSE].out = r.out
      BY <1>0 DEF CallType
    <3> QED BY <1>0, <3>2, <3>3, Zenon DEF Retried
  <2>4. call' = [call EXCEPT ![g] = new]
    BY <2>1
  <2> HIDE DEF old
  <2>5. new \in CallType /\ new.pc = "take" /\ new.cb = r.cb /\ new.user = r.user /\ new.out = old.out
    BY <2>3 DEF CallType
  <2>6. Items(<<>>) = {}
    BY DEF Items
  <2> HIDE DEF new
  <2>7. Items(new.out) \subseteq Records(g, r.cb)
    BY <1>0, <2>2, <2>3, <2>5, <2>6 DEF CallOk, Returned
  <2>8. Keeps(g, new)
    BY <2>5, <2>7 DEF Keeps, CallOk, Returned
  <2> QED BY <2>4, <2>5, <2>8
<1>8. ASSUME Release(g) PROVE \E new \in CallType : call' = [call EXCEPT ![g] = new] /\ Keeps(g, new)
  <2> DEFINE new == [r EXCEPT !.pc = "returning"]
  <2>1. call' = [call EXCEPT ![g] = new] /\ r.pc = "ran"
    BY <1>8 DEF Release
  <2>2. new \in CallType /\ new.pc = "returning" /\ new.cb = r.cb /\ new.user = r.user /\ new.conn = r.conn
        /\ new.err = r.err /\ new.sent = r.sent /\ new.out = r.out
    BY <1>0 DEF CallType
  <2> HIDE DEF new
  <2>3. Sent(g, new) = Sent(g, r)
    BY <2>2 DEF Sent
  <2>4. Keeps(g, new)
    BY <1>0, <2>1, <2>2, <2>3 DEF Keeps, CallOk, Returned
  <2> QED BY <2>1, <2>2, <2>4
<1>9. ASSUME Return(g) PROVE \E new \in CallType : call' = [call EXCEPT ![g] = new] /\ Keeps(g, new)
  <2> DEFINE new == [r EXCEPT !.pc = IF r.err THEN "failed" ELSE "ok"]
  <2>1. call' = [call EXCEPT ![g] = new] /\ r.pc = "returning"
    BY <1>9 DEF Return
  <2>2. new \in CallType /\ new.cb = r.cb /\ new.user = r.user /\ new.conn = r.conn
        /\ new.pc = (IF r.err THEN "failed" ELSE "ok") /\ new.err = r.err /\ new.out = r.out
    BY <1>0 DEF CallType, Returned
  <2> HIDE DEF new
  <2>3. ~r.err => Items(r.out) = Records(g, r.cb)
    <3> SUFFICES ASSUME ~r.err PROVE Records(g, r.cb) \subseteq Items(r.out)
      BY <1>0, <2>1 DEF CallOk, Returned
    <3>1. r.cb \in Cbs /\ r.sent \in Nat
      BY <1>0 DEF CallType
    <3>2. DOMAIN Emits[r.cb] = 1 .. Len(Emits[r.cb]) /\ Len(Emits[r.cb]) \in Nat
      BY <3>1
    <3>3. r.sent >= Len(Emits[r.cb]) /\ Sent(g, r) \subseteq Items(r.out)
      BY <1>0, <2>1 DEF CallOk
    <3>4. DOMAIN Emits[r.cb] \subseteq 1 .. r.sent
      BY <3>1, <3>2, <3>3
    <3> QED BY <3>3, <3>4 DEF Records, Sent
  <2>4. Keeps(g, new)
    BY <1>0, <2>1, <2>2, <2>3 DEF Keeps, CallOk, Returned
  <2> QED BY <2>1, <2>2, <2>4
<1> QED BY <1>1, <1>2, <1>3, <1>4, <1>5, <1>6, <1>7, <1>8, <1>9 DEF Step

(* Every step of any call preserves what the callers rely on. *)
LEMMA CallerStep == TypeOK /\ IdInv /\ CallerInv /\ [Next]_vars => CallerInv'
<1> SUFFICES ASSUME TypeOK, IdInv, CallerInv, [Next]_vars PROVE CallerInv'
  OBVIOUS
<1>1. ASSUME NEW g \in Calls, NEW u \in Users, NEW cb \in Cbs, Start(g, u, cb) PROVE CallerInv'
  <2> DEFINE new == NewCall("take", u, cb, next)
  <2>1. call' = [call EXCEPT ![g] = new] /\ pools' = pools /\ new.pc = "take" /\ new.out = <<>>
    BY <1>1, StartRecord
  <2>2. Items(<<>>) = {}
    BY DEF Items
  <2> HIDE DEF new
  <2>3. CallOk(g, new)
    BY <2>1, <2>2 DEF CallOk, Returned
  <2>4. \A h \in Calls : call'[h] = IF h = g THEN new ELSE call[h]
    BY <2>1 DEF TypeOK
  <2>5. \A h \in Calls : CallOk(h, call'[h])
    BY <2>3, <2>4 DEF CallerInv
  <2> QED BY <2>1, <2>5 DEF CallerInv, PoolsClean, CallOk
<1>2. ASSUME NEW g \in Calls, Step(g) PROVE CallerInv'
  <2>1. PICK new \in CallType : call' = [call EXCEPT ![g] = new] /\ Keeps(g, new)
    BY <1>2, StepKeeps
  <2>2. \A h \in Calls : call'[h] = IF h = g THEN new ELSE call[h]
    BY <2>1 DEF TypeOK
  <2>3. \A h \in Calls : CallOk(h, call'[h])
    BY <2>1, <2>2 DEF CallerInv, Keeps
  <2>4. PoolsClean'
    BY <1>2, CleanStep
  <2> QED BY <2>3, <2>4 DEF CallerInv, CallOk
<1>3. CASE UNCHANGED vars
  BY <1>3 DEF vars, CallerInv, PoolsClean, CallOk
<1> QED BY <1>1, <1>2, <1>3 DEF Next

(* In every reachable state the types, the ids and what the callers rely on hold together. *)
LEMMA CallerAlways == Spec => [](TypeOK /\ IdInv /\ CallerInv)
<1>1. Init => CallerInv
  BY CallerInit
<1>2. TypeOK /\ IdInv /\ CallerInv /\ [Next]_vars => CallerInv'
  BY CallerStep
<1> QED BY <1>1, <1>2, TypeCorrect, PTL DEF Spec

(* Whatever users shared the pools before and whichever connections dropped, a command runs as the
   user of the interface it was called on (p4runcb lends a connection and restores it). *)
THEOREM CallerCorrect == Spec => []RunsAsCaller
<1>1. CallerInv => RunsAsCaller
  BY DEF CallerInv, CallOk, RunsAsCaller
<1> QED BY <1>1, CallerAlways, PTL

-----------------------------------------------------------------------------
(* The refinement. *)

(* The first state maps to a state where no command was asked for. *)
LEMMA RefinesInit == Init => Command!Init
<1> SUFFICES ASSUME Init PROVE Command!Init
  OBVIOUS
<1>1. PICK cb \in Cbs : call = [g \in Calls |-> NewCall("idle", DefaultUser, cb, 0)]
  BY DEF Init
<1>2. \A g \in Calls : call[g].pc = "idle" /\ call[g].cb = cb /\ call[g].user = DefaultUser
  BY <1>1 DEF NewCall
<1>3. \A g \in Calls : Status(g) = "idle" /\ Delivered(g) = {}
  BY <1>2 DEF Status, Returned, Delivered
<1> QED BY <1>2, <1>3 DEF Command!Init

(* Every step maps to a step of the abstract command, or to no change of it. *)
LEMMA RefinesStep == TypeOK /\ IdInv /\ CallerInv /\ [Next]_vars => [Command!Next]_(Command!vars)
<1> SUFFICES ASSUME TypeOK, IdInv, CallerInv, [Next]_vars PROVE [Command!Next]_(Command!vars)
  OBVIOUS
<1> DEFINE status == [g \in Calls |-> Status(g)]
           cmd == [g \in Calls |-> call[g].cb]
           identity == [g \in Calls |-> IF call[g].pc = "ok" THEN call[g].conn ELSE call[g].user]
           got == [g \in Calls |-> Delivered(g)]
<1>1. ASSUME NEW g \in Calls, NEW u \in Users, NEW cb \in Cbs, Start(g, u, cb)
      PROVE  Command!Begin(g)
  <2> DEFINE new == NewCall("take", u, cb, next)
  <2>1. /\ call' = [call EXCEPT ![g] = new]
        /\ new.pc = "take" /\ new.cb = cb /\ new.user = u
    BY <1>1, StartRecord
  <2> HIDE DEF new
  <2>2. \A h \in Calls : call'[h] = IF h = g THEN new ELSE call[h]
    BY <2>1 DEF TypeOK
  <2>3. status[g] # "running"
    BY <1>1 DEF Start, Status, Returned
  <2>4. status' = [status EXCEPT ![g] = "running"]
    BY <2>1, <2>2 DEF Status, Returned
  <2>5. cmd' = [cmd EXCEPT ![g] = cb]
    <3>1. \A h \in Calls : call'[h].cb = IF h = g THEN cb ELSE call[h].cb
      BY <2>1, <2>2
    <3> QED BY <3>1, Zenon
  <2>6. identity' = [identity EXCEPT ![g] = u]
    <3>1. \A h \in Calls : (IF call'[h].pc = "ok" THEN call'[h].conn ELSE call'[h].user)
                         = IF h = g THEN u ELSE IF call[h].pc = "ok" THEN call[h].conn ELSE call[h].user
      BY <2>1, <2>2
    <3> QED BY <3>1, Zenon
  <2>7. got' = [got EXCEPT ![g] = {}]
    <3>1. \A h \in Calls : Delivered(h)' = IF h = g THEN {} ELSE Delivered(h)
      BY <2>1, <2>2 DEF Delivered
    <3> QED BY <3>1, Zenon
  <2> QED BY <2>3, <2>4, <2>5, <2>6, <2>7 DEF Command!Begin
<1>2. ASSUME NEW g \in Calls, Step(g)
      PROVE  Command!Return(g) \/ Command!Fail(g) \/ UNCHANGED Command!vars
  <2>1. PICK new \in CallType : call' = [call EXCEPT ![g] = new] /\ Keeps(g, new)
    BY <1>2, StepKeeps
  <2>2. \A h \in Calls : call'[h] = IF h = g THEN new ELSE call[h]
    BY <2>1 DEF TypeOK
  <2>3. call[g].pc \notin Returned /\ call[g].pc # "ok"
    BY <1>2 DEF Step, Take, Connect, ConnectFails, Output, OutputFails, Ran, Dropped, Release, Return,
                Returned
  <2>4. status[g] = "running" /\ Delivered(g) = {}
    BY <2>3 DEF Status, Delivered
  <2>5. cmd' = cmd
    <3>1. \A h \in Calls : call'[h].cb = call[h].cb
      BY <2>1, <2>2 DEF Keeps
    <3> QED BY <3>1, Zenon
  <2>6. identity' = identity
    <3>1. (IF new.pc = "ok" THEN new.conn ELSE new.user) = call[g].user
      BY <2>1 DEF Keeps, CallOk
    <3>2. \A h \in Calls : (IF call'[h].pc = "ok" THEN call'[h].conn ELSE call'[h].user)
                         = IF call[h].pc = "ok" THEN call[h].conn ELSE call[h].user
      BY <2>2, <2>3, <3>1
    <3> QED BY <3>2, Zenon
  <2>7. CASE new.pc \notin Returned
    <3>1. new.pc # "ok"
      BY <2>7 DEF Returned
    <3>2. \A h \in Calls : Status(h)' = Status(h) /\ Delivered(h)' = Delivered(h)
      BY <2>2, <2>3, <2>7, <3>1 DEF Status, Delivered
    <3>3. status' = status /\ got' = got
      BY <3>2, Zenon
    <3> QED BY <2>5, <2>6, <3>3 DEF Command!vars
  <2>8. CASE new.pc = "ok"
    <3>1. \A h \in Calls : Status(h)' = IF h = g THEN "ok" ELSE Status(h)
      BY <2>2, <2>8 DEF Status, Returned
    <3>2. status' = [status EXCEPT ![g] = "ok"]
      BY <3>1, Zenon
    <3>3. Items(new.out) = Records(g, call[g].cb)
      BY <2>1, <2>8 DEF Keeps, CallOk
    <3>4. \A h \in Calls : Delivered(h)' = IF h = g THEN Records(g, cmd[g]) ELSE Delivered(h)
      BY <2>2, <2>8, <3>3 DEF Delivered, Items
    <3>5. got' = [got EXCEPT ![g] = Records(g, cmd[g])]
      BY <3>4, Zenon
    <3> QED BY <2>4, <2>5, <2>6, <3>2, <3>5 DEF Command!Return
  <2>9. CASE new.pc = "failed"
    <3>1. \A h \in Calls : Status(h)' = IF h = g THEN "failed" ELSE Status(h)
      BY <2>2, <2>9 DEF Status, Returned
    <3>2. status' = [status EXCEPT ![g] = "failed"]
      BY <3>1, Zenon
    <3>3. \A h \in Calls : Delivered(h)' = Delivered(h)
      BY <2>2, <2>3, <2>9 DEF Delivered
    <3>4. got' = got
      BY <3>3, Zenon
    <3> QED BY <2>4, <2>5, <2>6, <3>2, <3>4 DEF Command!Fail
  <2> QED BY <2>1, <2>7, <2>8, <2>9 DEF Keeps
<1>3. CASE UNCHANGED vars
  <2>1. call' = call
    BY <1>3 DEF vars
  <2>2. status' = status /\ cmd' = cmd /\ identity' = identity /\ got' = got
    BY <2>1 DEF Status, Delivered
  <2> QED BY <2>2 DEF Command!vars
<1> QED BY <1>1, <1>2, <1>3 DEF Next, Command!Next

(* Pools, ids, drops and retries are invisible to a caller: runCmdCb implements P4Command for any
   number of goroutines, users, connections, drops and errors. *)
THEOREM CommandCorrect == Spec => ImplementsCommand
<1>1. Init => Command!Init
  BY RefinesInit
<1>2. TypeOK /\ IdInv /\ CallerInv /\ [Next]_vars => [Command!Next]_(Command!vars)
  BY RefinesStep
<1> QED BY <1>1, <1>2, CallerAlways, PTL DEF Spec, ImplementsCommand, Command!Spec
=============================================================================
