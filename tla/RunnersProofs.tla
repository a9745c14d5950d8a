--------------------------- MODULE RunnersProofs ---------------------------
(***************************************************************************)
(* The publish runner and the cron runner do nothing too often and tell    *)
(* their owners how things stand, for every number of units, invocations   *)
(* and faults.  Both promises are about quiet behaviours: invocations have *)
(* not overlapped, and no fault but those the promise allows has happened. *)
(* What the stored state says is then what really happened, except between *)
(* an attempt and the write of its result, when the invocation's copy does *)
(* (publish) or the invocation's locals do (cron).                         *)
(***************************************************************************)
EXTENDS MCRunners, TLAPS

(* Time goes on for the older of two times too. *)
LEMMA OlderOrder ==
    ASSUME NEW limit \in Nat, NEW a \in Ages(limit), NEW b \in Ages(limit)
    PROVE  /\ Older(a, limit) \in Ages(limit)
           /\ Older(a, limit) = Nil <=> a = Nil
           /\ a <= b => Older(a, limit) <= Older(b, limit)
BY DEF Ages, Older, Nil

-----------------------------------------------------------------------------
(* The publish runner. *)

PState == [success : BOOLEAN, mail : Ages(MailGap)]
Local == [pc : {"idle", "next", "publish", "save"}, todo : SUBSET Units,
          unit : Units \cup {Idle.unit}, st : PState]

Quiet == ~overlap /\ happened \subseteq {"get", "mail"}
AllMailed == ~overlap /\ happened \subseteq {"get"}

(* One invocation at a time. *)
Single == \A q, r \in Runners : run[q].pc # "idle" /\ run[r].pc # "idle" => q = r

(* The types that the invariant needs. *)
Typed ==
    /\ state \in [Units -> PState] /\ run \in [Runners -> Local]
    /\ told \in [Units -> Ages(MailGap)]
    /\ last \in [Units -> {"none", "fail", "empty", "published"}]
    /\ \A r \in Runners : run[r].pc \in {"publish", "save"} => run[r].unit \in Units

(* A state that knows of the last email and of the last attempt.  The time *)
(* is kept of an email that was not sent, too.                             *)
Knows(u, st, age, outcome, mailed) ==
    /\ age # Nil => st.mail # Nil /\ st.mail <= age
    /\ outcome = "fail" => ~st.success
    /\ mailed /\ Policy[u] # "NEVER" => age = st.mail

Saving(u) == \E r \in Runners : run[r].pc = "save" /\ run[r].unit = u

(* What is known of every unit, in the state or in the invocation's copy. *)
PublishKnown ==
    /\ Single
    /\ \A u \in Units : ~Saving(u) => Knows(u, state[u], told[u], last[u], AllMailed)
    /\ \A r \in Runners : run[r].pc = "publish" => run[r].st = state[run[r].unit]
    /\ \A r \in Runners : run[r].pc = "save" =>
          Knows(run[r].unit, run[r].st, told[run[r].unit], last[run[r].unit], AllMailed)

(* What is promised of the past. *)
PublishKept ==
    /\ early = {}
    /\ \A u \in unrelieved : Policy[u] \notin {"ON_FAILURE_AND_RECOVERY", "ALWAYS"}
    /\ AllMailed => \A u \in untold : Policy[u] = "NEVER"

PublishInv == Quiet => PublishKnown /\ PublishKept

(* A step of the only invocation. *)
LEMMA OnlyInvocation ==
    ASSUME Typed, Single, NEW r \in Runners, NEW loc, run' = [run EXCEPT ![r] = loc],
           run[r].pc # "idle"
    PROVE  /\ run'[r] = loc /\ \A x \in Runners \ {r} : run'[x].pc = "idle"
           /\ Single'
           /\ \A u : Saving(u) <=> run[r].pc = "save" /\ run[r].unit = u
           /\ \A u : Saving(u)' <=> loc.pc = "save" /\ loc.unit = u
<1>1. run'[r] = loc /\ \A x \in Runners \ {r} : run'[x] = run[x] /\ run[x].pc = "idle"
    BY DEF Typed, Single
<1> QED BY <1>1 DEF Single, Saving

(* The shapes of the local states a step leaves. *)
LEMMA LocalTypes ==
    ASSUME Typed, NEW r \in Runners
    PROVE  /\ run[r] \in Local /\ Idle \in Local /\ run[r].st \in PState
           /\ Succeeded(run[r].st) \in PState /\ Failed(run[r].st) \in PState
           /\ \A u \in Units : state[u] \in PState
<1>1. Nil \in Ages(MailGap) /\ 0 \in Ages(MailGap)
    BY PublishAssumption DEF Ages, Nil
<1>2. Fresh \in PState
    BY <1>1 DEF Fresh, PState
<1>3. Idle \in Local
    BY <1>2 DEF Idle, Local
<1>4. run[r] \in Local /\ run[r].st \in PState /\ \A u \in Units : state[u] \in PState
    BY DEF Typed, Local
<1> QED BY <1>1, <1>3, <1>4 DEF Succeeded, Failed, PState

\* The initial state of a publish runner has the types.
LEMMA PublishTypedInit == Init => Typed
<1> SUFFICES ASSUME Init PROVE Typed
    OBVIOUS
<1>1. Nil \in Ages(MailGap)
    BY PublishAssumption DEF Ages, Nil
<1>2. Fresh \in PState
    BY <1>1 DEF Fresh, PState
<1>3. Idle \in Local /\ Idle.pc = "idle"
    BY <1>2 DEF Idle, Local
<1> QED BY <1>1, <1>2, <1>3 DEF Init, Typed

(* Types are kept. *)
LEMMA PublishTypedStep == Typed /\ [Next]_vars => Typed'
<1> SUFFICES ASSUME Typed, [Next]_vars PROVE Typed'
    OBVIOUS
<1>0. MailGap \in Nat /\ Nil \in Ages(MailGap) /\ 0 \in Ages(MailGap)
    BY PublishAssumption DEF Ages, Nil
<1>1. CASE Tick
    <2>1. \A a \in Ages(MailGap) : Older(a, MailGap) \in Ages(MailGap)
        BY <1>0, OlderOrder
    <2>2. state' \in [Units -> PState]
        BY <1>1, <2>1 DEF Tick, Typed, PState
    <2>3. told' \in [Units -> Ages(MailGap)]
        BY <1>1, <2>1 DEF Tick, Typed
    <2>4. ASSUME NEW r \in Runners
          PROVE  run'[r] \in Local /\ run'[r].pc = run[r].pc /\ run'[r].unit = run[r].unit
        <3> DEFINE st1 == [run[r].st EXCEPT !.mail = Older(@, MailGap)]
        <3>1. run'[r] = [run[r] EXCEPT !.st = st1]
            BY <1>1 DEF Tick
        <3>2. st1 \in PState
            BY <2>1, LocalTypes DEF PState
        <3> HIDE DEF st1
        <3> QED BY <3>1, <3>2, LocalTypes DEF Local
    <2>5. run' = [r \in Runners |-> run'[r]]
        BY <1>1 DEF Tick
    <2>6. run' \in [Runners -> Local]
        BY <2>4, <2>5
    <2>7. last' = last
        BY <1>1 DEF Tick
    <2> QED BY <2>2, <2>3, <2>4, <2>6, <2>7 DEF Typed
<1>2. ASSUME NEW r \in Runners, NEW loc \in Local, run' = [run EXCEPT ![r] = loc],
             loc.pc \in {"publish", "save"} => loc.unit \in Units,
             state' \in [Units -> PState], told' \in [Units -> Ages(MailGap)],
             last' \in [Units -> {"none", "fail", "empty", "published"}]
      PROVE  Typed'
    BY <1>2 DEF Typed
<1>3. ASSUME NEW r \in Runners, Start(r) PROVE Typed'
    <2> DEFINE loc == [run[r] EXCEPT !.pc = "next", !.todo = Units]
    <2>1. run' = [run EXCEPT ![r] = loc] /\ UNCHANGED <<state, told, last>>
        BY <1>3 DEF Start, histories, Typed
    <2>2. loc \in Local /\ loc.pc = "next"
        BY LocalTypes DEF Local
    <2> HIDE DEF loc
    <2> QED BY <1>2, <2>1, <2>2 DEF Typed
<1>4. ASSUME NEW r \in Runners, Read(r) PROVE Typed'
    <2> DEFINE loc(u) == [pc |-> "publish", todo |-> run[r].todo \ {u}, unit |-> u,
                          st |-> state[u]]
    <2>1. UNCHANGED <<state, told, last>>
          /\ \E u \in run[r].todo : run' = [run EXCEPT ![r] = loc(u)]
        BY <1>4 DEF Read, histories, Typed
    <2>2. PICK u \in run[r].todo : run' = [run EXCEPT ![r] = loc(u)]
        BY <2>1
    <2>3. loc(u) \in Local /\ loc(u).unit \in Units
        BY LocalTypes DEF Local
    <2> HIDE DEF loc
    <2> QED BY <1>2, <2>1, <2>2, <2>3 DEF Typed
<1>5. ASSUME NEW r \in Runners, ReadFails(r) PROVE Typed'
    <2> DEFINE loc(u) == [run[r] EXCEPT !.todo = @ \ {u}]
    <2>1. UNCHANGED <<state, told, last>> /\ run[r].pc = "next"
          /\ \E u \in run[r].todo : run' = [run EXCEPT ![r] = loc(u)]
        BY <1>5 DEF ReadFails, histories, Typed
    <2>2. PICK u \in run[r].todo : run' = [run EXCEPT ![r] = loc(u)]
        BY <2>1
    <2>3. loc(u) \in Local /\ loc(u).pc = "next"
        BY <2>1, LocalTypes DEF Local
    <2> HIDE DEF loc
    <2> QED BY <1>2, <2>1, <2>2, <2>3 DEF Typed
<1>6. ASSUME NEW r \in Runners, PublishSucceeds(r) \/ PublishFails(r) PROVE Typed'
    <2> DEFINE loc(st) == [run[r] EXCEPT !.pc = "save", !.st = st]
    <2>1. /\ run[r].pc = "publish" /\ UNCHANGED state
          /\ \E st \in {Succeeded(run[r].st), Failed(run[r].st)} : run' = [run EXCEPT ![r] = loc(st)]
        BY <1>6 DEF PublishSucceeds, PublishFails, Typed
    <2>2. told' \in [Units -> Ages(MailGap)]
        BY <1>0, <1>6 DEF PublishSucceeds, PublishFails, Typed
    <2>3. last' \in [Units -> {"none", "fail", "empty", "published"}]
        BY <1>6 DEF PublishSucceeds, PublishFails, Typed
    <2>4. PICK st \in {Succeeded(run[r].st), Failed(run[r].st)} : run' = [run EXCEPT ![r] = loc(st)]
        BY <2>1
    <2>5. st \in PState
        BY LocalTypes
    <2>6. loc(st) \in Local /\ loc(st).unit = run[r].unit
        BY <2>5, LocalTypes DEF Local
    <2> HIDE DEF loc
    <2> QED BY <1>2, <2>1, <2>2, <2>3, <2>4, <2>6 DEF Typed
<1>7. ASSUME NEW r \in Runners, Save(r) \/ SaveFails(r) PROVE Typed'
    <2> DEFINE loc == [run[r] EXCEPT !.pc = "next"]
    <2>1. run' = [run EXCEPT ![r] = loc] /\ UNCHANGED <<told, last>>
        BY <1>7 DEF Save, SaveFails, histories, Typed
    <2>2. loc \in Local /\ loc.pc = "next"
        BY LocalTypes DEF Local
    <2>3. state' \in [Units -> PState]
        BY <1>7, LocalTypes DEF Save, SaveFails, Typed
    <2> HIDE DEF loc
    <2> QED BY <1>2, <2>1, <2>2, <2>3 DEF Typed
<1>8. ASSUME NEW r \in Runners, Finish(r) \/ Die(r) PROVE Typed'
    <2>1. run' = [run EXCEPT ![r] = Idle] /\ UNCHANGED <<state, told, last>>
        BY <1>8 DEF Finish, Die, histories
    <2>2. Idle \in Local /\ Idle.pc = "idle"
        BY LocalTypes DEF Idle
    <2> QED BY <1>2, <2>1, <2>2 DEF Typed
<1>9. CASE UNCHANGED vars
    BY <1>9 DEF vars, Typed
<1> QED BY <1>1, <1>3, <1>4, <1>5, <1>6, <1>7, <1>8, <1>9 DEF Next, Step

(* Nothing makes a behaviour quiet again. *)
LEMMA QuietBefore ==
    ASSUME [Next]_vars
    PROVE  (Quiet' => Quiet) /\ (AllMailed' => AllMailed)
<1>1. ~overlap' => ~overlap
    BY DEF Next, Step, Tick, Start, Read, ReadFails, PublishSucceeds, PublishFails, Save, SaveFails,
           Finish, Die, vars
<1>2. happened \subseteq happened'
    BY DEF Next, Step, Tick, Start, Read, ReadFails, PublishSucceeds, PublishFails, Save, SaveFails,
           Finish, Die, NoFault, Fault, vars
<1> QED BY <1>1, <1>2 DEF Quiet, AllMailed

(* A step of the only invocation that neither attempts nor writes. *)
LEMMA PublishMoves ==
    ASSUME Typed, PublishKnown, UNCHANGED <<state, told, last>>, AllMailed' => AllMailed,
           NEW r \in Runners, NEW loc, run' = [run EXCEPT ![r] = loc],
           run[r].pc \in {"next", "publish"}, loc.pc # "save",
           loc.pc = "publish" => loc.st = state[loc.unit]
    PROVE  PublishKnown'
<1>1. /\ run'[r] = loc /\ \A x \in Runners \ {r} : run'[x].pc = "idle"
      /\ Single' /\ \A u : ~Saving(u)
    BY OnlyInvocation DEF PublishKnown
<1>2. \A u \in Units : Knows(u, state'[u], told'[u], last'[u], AllMailed')
    BY <1>1 DEF PublishKnown, Knows
<1> QED BY <1>1, <1>2 DEF PublishKnown

(* Time passes for a state and for what it knows. *)
LEMMA KnowsAges ==
    ASSUME NEW u, NEW st \in PState, NEW age \in Ages(MailGap), NEW outcome, NEW mailed,
           Knows(u, st, age, outcome, mailed)
    PROVE  Knows(u, [st EXCEPT !.mail = Older(@, MailGap)], Older(age, MailGap), outcome, mailed)
<1> DEFINE new == [st EXCEPT !.mail = Older(@, MailGap)]
<1>1. new.mail = Older(st.mail, MailGap) /\ new.success = st.success /\ st.mail \in Ages(MailGap)
    BY DEF PState
<1> HIDE DEF new
<1>2. Older(age, MailGap) # Nil => new.mail # Nil /\ new.mail <= Older(age, MailGap)
    BY <1>1, PublishAssumption, OlderOrder DEF Knows
<1>3. Knows(u, new, Older(age, MailGap), outcome, mailed)
    BY <1>1, <1>2 DEF Knows
<1> QED BY <1>3 DEF new

(* A success, told or not: the state says so and the next failure is told at once. *)
LEMMA KnowsSuccess ==
    ASSUME NEW u, NEW st, NEW outcome \in {"empty", "published"}, NEW mailed
    PROVE  Knows(u, Succeeded(st), Nil, outcome, mailed)
BY DEF Knows, Succeeded

(* A failure: the email is not early, the owners have one, the state says so. *)
LEMMA KnowsFailure ==
    ASSUME NEW u, NEW st \in PState, NEW age \in Ages(MailGap), NEW outcome, NEW mailed,
           Knows(u, st, age, outcome, mailed), NEW new,
           \/ new = (IF ShouldSendFailEmail(st.mail) /\ OnFailure(Policy[u]) THEN 0 ELSE age)
           \/ ShouldSendFailEmail(st.mail) /\ ~mailed /\ new = age
    PROVE  /\ Knows(u, Failed(st), new, "fail", mailed)
           /\ ShouldSendFailEmail(st.mail) => age \notin 0 .. MailGap - 1
           /\ mailed /\ Policy[u] # "NEVER" => new \in 0 .. MailGap - 1
<1>0. MailGap \in Nat \ {0} /\ st.mail \in -1 .. MailGap /\ age \in -1 .. MailGap
    BY PublishAssumption DEF PState, Ages
<1>1. Failed(st).success = FALSE
      /\ Failed(st).mail = IF ShouldSendFailEmail(st.mail) THEN 0 ELSE st.mail
    BY DEF Failed
<1>2. ShouldSendFailEmail(st.mail) => age \notin 0 .. MailGap - 1
    BY <1>0 DEF ShouldSendFailEmail, Knows, Nil
<1>3. mailed /\ Policy[u] # "NEVER" => new \in 0 .. MailGap - 1
    BY <1>0 DEF ShouldSendFailEmail, OnFailure, Knows, Nil
<1>4. new # Nil => Failed(st).mail # Nil /\ Failed(st).mail <= new
    BY <1>0, <1>1 DEF ShouldSendFailEmail, OnFailure, Knows, Nil
<1>5. mailed /\ Policy[u] # "NEVER" => new = Failed(st).mail
    BY <1>1 DEF OnFailure, Knows
<1> QED BY <1>1, <1>2, <1>3, <1>4, <1>5 DEF Knows

(* The inductive step, one case per action. *)
LEMMA PublishStepKnown ==
    ASSUME Typed, PublishKnown, PublishKept, Quiet', [Next]_vars
    PROVE  PublishKnown' /\ PublishKept'
<1>0. Quiet /\ (AllMailed' => AllMailed) /\ MailGap \in Nat \ {0}
    BY QuietBefore, PublishAssumption
<1>a. ASSUME UNCHANGED <<early, untold, unrelieved>> PROVE PublishKept'
    BY <1>0, <1>a DEF PublishKept
<1>b. ASSUME NEW f, Fault(f) PROVE f \in {"get", "mail"} /\ (f = "mail" => ~AllMailed')
    BY <1>b DEF Fault, Quiet, AllMailed
<1>1. CASE Tick
    <2>1. UNCHANGED <<early, untold, unrelieved, last>>
        BY <1>1 DEF Tick
    <2>2. ASSUME NEW r \in Runners
          PROVE  /\ run'[r].pc = run[r].pc /\ run'[r].unit = run[r].unit
                 /\ run'[r].st = [run[r].st EXCEPT !.mail = Older(@, MailGap)]
        <3> DEFINE st1 == [run[r].st EXCEPT !.mail = Older(@, MailGap)]
        <3>1. run'[r] = [run[r] EXCEPT !.st = st1] /\ run[r] \in Local
            BY <1>1, LocalTypes DEF Tick
        <3> HIDE DEF st1
        <3>2. run'[r].pc = run[r].pc /\ run'[r].unit = run[r].unit /\ run'[r].st = st1
            BY <3>1 DEF Local
        <3> QED BY <3>2 DEF st1
    <2>3. \A u \in Units : /\ state'[u] = [state[u] EXCEPT !.mail = Older(@, MailGap)]
                           /\ told'[u] = Older(told[u], MailGap)
                           /\ told[u] \in Ages(MailGap) /\ state[u] \in PState
        BY <1>1 DEF Tick, Typed
    <2>4. Single' /\ \A u : Saving(u)' <=> Saving(u)
        BY <2>2 DEF PublishKnown, Single, Saving
    <2>5. ASSUME NEW u \in Units, ~Saving(u)
          PROVE  Knows(u, state'[u], told'[u], last'[u], AllMailed')
        <3>1. Knows(u, state[u], told[u], last[u], AllMailed')
            BY <1>0, <2>5 DEF PublishKnown, Knows
        <3>2. Knows(u, [state[u] EXCEPT !.mail = Older(@, MailGap)], Older(told[u], MailGap), last[u],
                    AllMailed')
            BY <2>3, <3>1, KnowsAges
        <3> QED BY <2>1, <2>3, <3>2
    <2>6. ASSUME NEW r \in Runners, run'[r].pc = "publish"
          PROVE  run'[r].st = state'[run'[r].unit]
        <3>1. run[r].unit \in Units /\ run[r].st = state[run[r].unit]
            BY <2>2, <2>6 DEF PublishKnown, Typed
        <3> DEFINE Aged(st) == [st EXCEPT !.mail = Older(@, MailGap)]
        <3>2. /\ run'[r].st = Aged(run[r].st) /\ run'[r].unit = run[r].unit
              /\ state'[run[r].unit] = Aged(state[run[r].unit])
            BY <2>2, <2>3, <3>1
        <3> HIDE DEF Aged
        <3> QED BY <3>1, <3>2
    <2>7. ASSUME NEW r \in Runners, run'[r].pc = "save"
          PROVE  Knows(run'[r].unit, run'[r].st, told'[run'[r].unit], last'[run'[r].unit], AllMailed')
        <3> DEFINE u == run[r].unit
        <3>1. u \in Units /\ run[r].st \in PState /\ Knows(u, run[r].st, told[u], last[u], AllMailed')
            BY <1>0, <2>2, <2>7, LocalTypes DEF PublishKnown, Typed, Knows
        <3>2. Knows(u, [run[r].st EXCEPT !.mail = Older(@, MailGap)], Older(told[u], MailGap), last[u],
                    AllMailed')
            BY <2>3, <3>1, KnowsAges
        <3> QED BY <2>1, <2>2, <2>3, <3>1, <3>2
    <2> QED BY <1>a, <2>1, <2>4, <2>5, <2>6, <2>7 DEF PublishKnown
<1>2. ASSUME NEW r \in Runners, Start(r) PROVE PublishKnown' /\ PublishKept'
    <2> DEFINE loc == [run[r] EXCEPT !.pc = "next", !.todo = Units]
    <2>1. /\ UNCHANGED <<state, told, last, early, untold, unrelieved>>
          /\ run' = [run EXCEPT ![r] = loc]
        BY <1>2 DEF Start, histories, Typed
    <2>2. \A q \in Runners : run[q].pc = "idle"
        BY <1>2 DEF Start, Quiet
    <2>3. loc.pc = "next"
        BY LocalTypes DEF Local
    <2> HIDE DEF loc
    <2>4. run'[r].pc = "next" /\ \A q \in Runners \ {r} : run'[q].pc = "idle"
        BY <2>1, <2>2, <2>3 DEF Typed
    <2>5. Single' /\ \A u : ~Saving(u)
        BY <2>2, <2>4 DEF Single, Saving
    <2>6. \A u \in Units : Knows(u, state'[u], told'[u], last'[u], AllMailed')
        BY <1>0, <2>1, <2>5 DEF PublishKnown, Knows
    <2>7. \A q \in Runners : run'[q].pc \notin {"publish", "save"}
        BY <2>4
    <2> QED BY <1>a, <2>1, <2>5, <2>6, <2>7 DEF PublishKnown
<1>3. ASSUME NEW r \in Runners, Read(r) PROVE PublishKnown' /\ PublishKept'
    <2> DEFINE loc(u) == [pc |-> "publish", todo |-> run[r].todo \ {u}, unit |-> u,
                          st |-> state[u]]
    <2>1. /\ UNCHANGED <<state, told, last, early, untold, unrelieved>> /\ run[r].pc = "next"
          /\ \E u \in run[r].todo : run' = [run EXCEPT ![r] = loc(u)]
        BY <1>3 DEF Read, histories, Typed
    <2>2. PICK u \in run[r].todo : run' = [run EXCEPT ![r] = loc(u)]
        BY <2>1
    <2>3. loc(u).pc = "publish" /\ loc(u).st = state[loc(u).unit]
        OBVIOUS
    <2> HIDE DEF loc
    <2> QED BY <1>0, <1>a, <2>1, <2>2, <2>3, PublishMoves
<1>4. ASSUME NEW r \in Runners, ReadFails(r) PROVE PublishKnown' /\ PublishKept'
    <2> DEFINE loc(u) == [run[r] EXCEPT !.todo = @ \ {u}]
    <2>1. /\ UNCHANGED <<state, told, last, early, untold, unrelieved>> /\ run[r].pc = "next"
          /\ \E u \in run[r].todo : run' = [run EXCEPT ![r] = loc(u)]
        BY <1>4 DEF ReadFails, histories, Typed
    <2>2. PICK u \in run[r].todo : run' = [run EXCEPT ![r] = loc(u)]
        BY <2>1
    <2>3. loc(u).pc = "next"
        BY <2>1, LocalTypes DEF Local
    <2> HIDE DEF loc
    <2> QED BY <1>0, <1>a, <2>1, <2>2, <2>3, PublishMoves
<1>5. ASSUME NEW r \in Runners, PublishSucceeds(r) \/ PublishFails(r)
      PROVE  PublishKnown' /\ PublishKept'
    <2> DEFINE u == run[r].unit
               st == run[r].st
               loc(new) == [run[r] EXCEPT !.pc = "save", !.st = new]
               mail == ShouldSendFailEmail(st.mail) /\ OnFailure(Policy[u])
    <2>1. /\ run[r].pc = "publish" /\ u \in Units /\ st = state[u] /\ UNCHANGED state
          /\ st \in PState /\ told[u] \in Ages(MailGap)
        BY <1>5, LocalTypes DEF PublishSucceeds, PublishFails, PublishKnown, Typed
    <2>2. Knows(u, st, told[u], last[u], AllMailed')
        <3>1. ~Saving(u)
            BY <2>1 DEF PublishKnown, Single, Saving
        <3> QED BY <1>0, <2>1, <3>1 DEF PublishKnown, Knows
    <2>3. \A v \in Units : v # u => told'[v] = told[v] /\ last'[v] = last[v]
        BY <1>5 DEF PublishSucceeds, PublishFails, Typed
    <2>4. \A new : loc(new).pc = "save" /\ loc(new).unit = u /\ loc(new).st = new
        BY LocalTypes DEF Local
    <2>5. ASSUME NEW new, run' = [run EXCEPT ![r] = loc(new)],
                 Knows(u, new, told'[u], last'[u], AllMailed')
          PROVE  PublishKnown'
        <3>1. loc(new).pc = "save" /\ loc(new).unit = u /\ loc(new).st = new
            BY <2>4
        <3> HIDE DEF loc
        <3>2. /\ run'[r] = loc(new) /\ \A x \in Runners \ {r} : run'[x].pc = "idle"
              /\ Single' /\ \A v : ~Saving(v) /\ (Saving(v)' <=> v = u)
            BY <2>1, <2>5, <3>1, OnlyInvocation, ZenonT(40) DEF PublishKnown
        <3>3. \A v \in Units : v # u => Knows(v, state'[v], told'[v], last'[v], AllMailed')
            BY <1>0, <2>1, <2>3, <3>2 DEF PublishKnown, Knows
        <3> QED BY <2>5, <3>1, <3>2, <3>3 DEF PublishKnown
    <2>6. CASE PublishSucceeds(r)
        <3>1. PICK outcome \in {"empty", "published"} :
                 /\ last' = [last EXCEPT ![u] = outcome]
                 /\ unrelieved' = IF last[u] = "fail" /\ outcome = "published"
                                     /\ ~(outcome = "published" /\ OnSuccess(Policy[u], st.success))
                                  THEN unrelieved \cup {u} ELSE unrelieved
            BY <2>6 DEF PublishSucceeds
        <3>2. /\ run' = [run EXCEPT ![r] = loc(Succeeded(st))] /\ told' = [told EXCEPT ![u] = Nil]
              /\ UNCHANGED <<early, untold>>
            BY <2>6 DEF PublishSucceeds, Typed
        <3>3. Knows(u, Succeeded(st), told'[u], last'[u], AllMailed')
            <4>1. told'[u] = Nil /\ last'[u] = outcome
                BY <2>1, <3>1, <3>2 DEF Typed
            <4> QED BY <4>1, KnowsSuccess
        <3>4. last[u] = "fail" /\ Policy[u] \in {"ON_FAILURE_AND_RECOVERY", "ALWAYS"}
                => OnSuccess(Policy[u], st.success)
            BY <2>2 DEF Knows, OnSuccess
        <3>5. PublishKept'
            BY <1>0, <3>1, <3>2, <3>4 DEF PublishKept
        <3>6. PublishKnown'
            BY <2>5, <3>2, <3>3
        <3> QED BY <3>5, <3>6
    <2>7. CASE PublishFails(r)
        <3>1. /\ run' = [run EXCEPT ![r] = loc(Failed(st))] /\ last' = [last EXCEPT ![u] = "fail"]
              /\ UNCHANGED unrelieved
              /\ early' = IF told'[u] = 0 /\ mail /\ told[u] \in 0 .. MailGap - 1
                          THEN early \cup {u} ELSE early
              /\ untold' = IF told'[u] \in 0 .. MailGap - 1 THEN untold ELSE untold \cup {u}
            BY <2>7 DEF PublishFails, Typed
        <3>2. \/ told'[u] = (IF ShouldSendFailEmail(st.mail) /\ OnFailure(Policy[u]) THEN 0 ELSE told[u])
              \/ ShouldSendFailEmail(st.mail) /\ ~AllMailed' /\ told'[u] = told[u]
            BY <1>b, <2>1, <2>7 DEF PublishFails, Typed
        <3>3. last'[u] = "fail"
            BY <2>1, <3>1 DEF Typed
        <3>4. /\ Knows(u, Failed(st), told'[u], "fail", AllMailed')
              /\ ShouldSendFailEmail(st.mail) => told[u] \notin 0 .. MailGap - 1
              /\ AllMailed' /\ Policy[u] # "NEVER" => told'[u] \in 0 .. MailGap - 1
            BY <2>1, <2>2, <3>2, KnowsFailure
        <3>5. PublishKept'
            BY <1>0, <3>1, <3>4 DEF PublishKept
        <3>6. PublishKnown'
            BY <2>5, <3>1, <3>3, <3>4
        <3> QED BY <3>5, <3>6
    <2> QED BY <1>5, <2>6, <2>7
<1>6. ASSUME NEW r \in Runners, Save(r) PROVE PublishKnown' /\ PublishKept'
    <2> DEFINE loc == [run[r] EXCEPT !.pc = "next"]
               u == run[r].unit
    <2>1. /\ run[r].pc = "save" /\ run' = [run EXCEPT ![r] = loc]
          /\ state' = [state EXCEPT ![u] = run[r].st]
          /\ UNCHANGED <<told, last, early, untold, unrelieved>>
        BY <1>6 DEF Save, histories, Typed
    <2>2. loc.pc = "next"
        BY LocalTypes DEF Local
    <2> HIDE DEF loc
    <2>3. /\ run'[r] = loc /\ \A x \in Runners \ {r} : run'[x].pc = "idle"
          /\ Single' /\ \A v : Saving(v) <=> v = u
        BY <2>1, OnlyInvocation DEF PublishKnown
    <2>4. ASSUME NEW v \in Units PROVE Knows(v, state'[v], told'[v], last'[v], AllMailed')
        <3>1. CASE v = u
            <4>1. state'[v] = run[r].st
                BY <2>1, <3>1 DEF Typed
            <4> QED BY <1>0, <2>1, <3>1, <4>1 DEF PublishKnown, Knows
        <3>2. CASE v # u
            <4>1. state'[v] = state[v]
                BY <2>1, <3>2 DEF Typed
            <4> QED BY <1>0, <2>1, <2>3, <3>2, <4>1 DEF PublishKnown, Knows
        <3> QED BY <3>1, <3>2
    <2>5. \A q \in Runners : run'[q].pc \notin {"publish", "save"}
        BY <2>2, <2>3
    <2> QED BY <1>a, <2>1, <2>3, <2>4, <2>5 DEF PublishKnown
<1>7. ASSUME NEW r \in Runners, SaveFails(r) \/ Die(r) PROVE FALSE
    BY <1>7, <1>b DEF SaveFails, Die
<1>8. ASSUME NEW r \in Runners, Finish(r) PROVE PublishKnown' /\ PublishKept'
    <2>1. /\ UNCHANGED <<state, told, last, early, untold, unrelieved>> /\ run[r].pc = "next"
          /\ run' = [run EXCEPT ![r] = Idle] /\ Idle.pc = "idle"
        BY <1>8 DEF Finish, histories, Idle
    <2> QED BY <1>0, <1>a, <2>1, PublishMoves
<1>9. CASE UNCHANGED vars
    BY <1>0, <1>9 DEF vars, PublishKnown, PublishKept, Single, Saving, Knows
<1> QED BY <1>1, <1>2, <1>3, <1>4, <1>5, <1>6, <1>7, <1>8, <1>9 DEF Next, Step

(* The invariant of the publish runner. *)
LEMMA PublishInvInit == Init => PublishInv
<1> SUFFICES ASSUME Init PROVE PublishKnown /\ PublishKept
    BY DEF PublishInv
<1>1. \A r \in Runners : run[r].pc = "idle"
    BY DEF Init, Idle
<1>2. \A u \in Units : /\ state[u].mail = Nil /\ state[u].success = TRUE
                       /\ told[u] = Nil /\ last[u] = "none"
    BY DEF Init, Fresh
<1>3. early = {} /\ unrelieved = {} /\ untold = {}
    BY DEF Init
<1> QED BY <1>1, <1>2, <1>3 DEF PublishKnown, PublishKept, Single, Knows

\* Every step of a publish run keeps what Publish knows of the units and
\* what it keeps of their mail.
LEMMA PublishInvStep == Typed /\ PublishInv /\ [Next]_vars => PublishInv'
BY QuietBefore, PublishStepKnown DEF PublishInv

(* It says what the runs check of the publish runner. *)
LEMMA PublishInvMeans == PublishInv => RateLimited /\ OwnersTold /\ RecoveryMailed
BY DEF PublishInv, PublishKept, Quiet, AllMailed, RateLimited, OwnersTold, RecoveryMailed

-----------------------------------------------------------------------------
(* The cron runner. *)

CronPoint == [success : BOOLEAN, time : Int]
CronLocal ==
    [pc : {"idle", "scan", "run", "save"}, todo : SUBSET CronUnits,
     triggered : SUBSET [unit : CronUnits, healthy : BOOLEAN],
     unit : CronUnits \cup {Cron!Idle.unit}, healthy : BOOLEAN, ok : BOOLEAN, began : Int]
Outcomes == {"none", "success", "failure"}

CronQuiet == ~cOverlap /\ cHappened \subseteq {"get", "mail"}
CronMailed == ~cOverlap /\ cHappened \subseteq {"get"}

(* One invocation at a time. *)
CronSingle == \A q, r \in Runners : cRun[q].pc # "idle" /\ cRun[r].pc # "idle" => q = r

(* The types that the invariant needs. *)
CronTyped ==
    /\ cState \in [CronUnits -> CronPoint] /\ cRun \in [Runners -> CronLocal]
    /\ cSince \in [CronUnits -> Int]
    /\ cLastRun \in [CronUnits -> Outcomes] /\ cLastMail \in [CronUnits -> Outcomes]
    /\ \A r \in Runners :
          /\ cRun[r].pc \in {"run", "save"} => cRun[r].unit \in CronUnits
          /\ cRun[r].pc = "idle" => cRun[r].triggered = {}

(* With the units' last starts S and last outcomes L: u may be run again,  *)
(* and u did not fail.                                                     *)
Due(u, S) == S[u] = Nil \/ S[u] >= CronFreq[u]
Healthy(u, L) == L[u] # "failure"

(* The unit is between its start and the write of its new state. *)
Busy(u) == \E r \in Runners : cRun[r].pc \in {"run", "save"} /\ cRun[r].unit = u

(* What an invocation has collected is due, however long ago it looked,    *)
(* and no unit is in its list twice.                                       *)
Collected(loc, S, L) ==
    /\ \A t \in loc.triggered :
          /\ t.unit \notin loc.todo /\ Due(t.unit, S) /\ t.healthy = Healthy(t.unit, L)
          /\ loc.pc \in {"run", "save"} => t.unit # loc.unit
    /\ \A t1, t2 \in loc.triggered : t1.unit = t2.unit => t1 = t2

(* What it knows of the unit that is running. *)
Watches(loc, S, L) ==
    /\ loc.pc \in {"run", "save"} => loc.began = S[loc.unit]
    /\ loc.pc = "run" => loc.healthy = Healthy(loc.unit, L)
    /\ loc.pc = "save" => loc.ok = Healthy(loc.unit, L)

(* What is known of every unit, in the state or in the invocation's locals. *)
CronKnown ==
    /\ CronSingle
    /\ \A u \in CronUnits :
          ~Busy(u) => cState[u].time = cSince[u] /\ cState[u].success = Healthy(u, cLastRun)
    /\ \A r \in Runners : Collected(cRun[r], cSince, cLastRun) /\ Watches(cRun[r], cSince, cLastRun)

(* What is promised of the past. *)
CronKept ==
    /\ cEarly = {}
    /\ CronMailed =>
          \A u \in CronUnits : CronPolicy[u] \in {"ON_FAILURE_AND_RECOVERY", "ALWAYS"} =>
              ((cLastMail[u] = "failure") = (cLastRun[u] = "failure"))

CronInv == CronQuiet => CronKnown /\ CronKept

\* The initial state of the cron runners has the types.
LEMMA CronTypedInit == Cron!Init => CronTyped
<1> SUFFICES ASSUME Cron!Init PROVE CronTyped
    OBVIOUS
<1>1. Cron!Nil \in Int
    BY DEF Cron!Nil
<1>2. Cron!Fresh \in CronPoint
    BY <1>1 DEF Cron!Fresh, CronPoint
<1>3. Cron!Idle \in CronLocal /\ Cron!Idle.pc = "idle" /\ Cron!Idle.triggered = {}
    BY <1>1 DEF Cron!Idle, CronLocal
<1> QED BY <1>1, <1>2, <1>3 DEF Cron!Init, CronTyped, Outcomes

(* A new local state of one invocation. *)
LEMMA CronTypedBecomes ==
    ASSUME CronTyped, NEW r \in Runners, NEW loc \in CronLocal, cRun' = [cRun EXCEPT ![r] = loc],
           loc.pc \in {"run", "save"} => loc.unit \in CronUnits,
           loc.pc = "idle" => loc.triggered = {},
           cState' \in [CronUnits -> CronPoint], cSince' \in [CronUnits -> Int],
           cLastRun' \in [CronUnits -> Outcomes], cLastMail' \in [CronUnits -> Outcomes]
    PROVE  CronTyped'
BY DEF CronTyped

(* Types are kept. *)
LEMMA CronTypedStep == CronTyped /\ [Cron!Next]_cronVars => CronTyped'
<1> SUFFICES ASSUME CronTyped, [Cron!Next]_cronVars PROVE CronTyped'
    OBVIOUS
<1>0. \A a \in Int : \A limit : Cron!Older(a, limit) \in Int
    BY DEF Cron!Older, Cron!Nil
<1>a. \A r \in Runners : cRun[r] \in CronLocal
    BY DEF CronTyped
<1>b. 0 \in Int /\ Cron!Idle \in CronLocal /\ Cron!Idle.pc = "idle" /\ Cron!Idle.triggered = {}
    BY DEF Cron!Idle, CronLocal, Cron!Nil
<1>1. CASE Cron!Tick
    <2>1. cState' \in [CronUnits -> CronPoint]
        BY <1>0, <1>1 DEF Cron!Tick, CronTyped, CronPoint
    <2>2. cSince' \in [CronUnits -> Int]
        BY <1>0, <1>1 DEF Cron!Tick, CronTyped
    <2>3. ASSUME NEW r \in Runners
          PROVE  /\ cRun'[r] \in CronLocal /\ cRun'[r].pc = cRun[r].pc
                 /\ cRun'[r].unit = cRun[r].unit /\ cRun'[r].triggered = cRun[r].triggered
        <3> DEFINE age == Cron!Older(cRun[r].began, CronFreq[cRun[r].unit])
        <3>1. cRun'[r] = [cRun[r] EXCEPT !.began = age]
            BY <1>1 DEF Cron!Tick
        <3>2. age \in Int
            BY <1>0, <1>a DEF CronLocal
        <3> HIDE DEF age
        <3> QED BY <1>a, <3>1, <3>2 DEF CronLocal
    <2>4. cRun' = [r \in Runners |-> cRun'[r]]
        BY <1>1 DEF Cron!Tick
    <2>5. cRun' \in [Runners -> CronLocal]
        BY <2>3, <2>4
    <2>6. UNCHANGED <<cLastRun, cLastMail>>
        BY <1>1 DEF Cron!Tick
    <2> QED BY <2>1, <2>2, <2>3, <2>5, <2>6 DEF CronTyped
<1>2. ASSUME NEW r \in Runners, Cron!Start(r) PROVE CronTyped'
    <2> DEFINE loc == [cRun[r] EXCEPT !.pc = "scan", !.todo = CronUnits]
    <2>1. cRun' = [cRun EXCEPT ![r] = loc] /\ UNCHANGED <<cState, cSince, cLastRun, cLastMail>>
        BY <1>2 DEF Cron!Start, Cron!histories, CronTyped
    <2>2. loc \in CronLocal /\ loc.pc = "scan"
        BY <1>a DEF CronLocal
    <2> HIDE DEF loc
    <2> QED BY <2>1, <2>2, CronTypedBecomes DEF CronTyped
<1>3. ASSUME NEW r \in Runners, Cron!Scan(r) \/ Cron!ScanFails(r) PROVE CronTyped'
    <2> DEFINE due(u) == IF Cron!ShouldRunCronUnit(u, cState[u])
                         THEN {[unit |-> u, healthy |-> cState[u].success]} ELSE {}
               loc(u, more) == [cRun[r] EXCEPT !.todo = @ \ {u}, !.triggered = @ \cup more]
               fail(u) == [cRun[r] EXCEPT !.todo = @ \ {u}]
    <2>1. cRun[r].pc = "scan" /\ UNCHANGED <<cState, cSince, cLastRun, cLastMail>>
        BY <1>3 DEF Cron!Scan, Cron!ScanFails, Cron!histories
    <2>2. \E u \in cRun[r].todo : \/ cRun' = [cRun EXCEPT ![r] = loc(u, due(u))]
                                  \/ cRun' = [cRun EXCEPT ![r] = fail(u)]
        BY <1>3 DEF Cron!Scan, Cron!ScanFails, CronTyped
    <2>3. PICK u \in cRun[r].todo : \/ cRun' = [cRun EXCEPT ![r] = loc(u, due(u))]
                                    \/ cRun' = [cRun EXCEPT ![r] = fail(u)]
        BY <2>2
    <2>4. due(u) \subseteq [unit : CronUnits, healthy : BOOLEAN]
        BY <1>a DEF CronTyped, CronLocal, CronPoint
    <2> HIDE DEF due
    <2>5. loc(u, due(u)) \in CronLocal /\ loc(u, due(u)).pc = "scan"
        BY <1>a, <2>1, <2>4 DEF CronLocal
    <2>6. fail(u) \in CronLocal /\ fail(u).pc = "scan"
        BY <1>a, <2>1 DEF CronLocal
    <2> HIDE DEF loc, fail
    <2> QED BY <2>1, <2>3, <2>5, <2>6, CronTypedBecomes DEF CronTyped
<1>4. ASSUME NEW r \in Runners, Cron!RunUnit(r) PROVE CronTyped'
    <2> DEFINE loc(t) == [pc |-> "run", todo |-> {}, triggered |-> cRun[r].triggered \ {t},
                          unit |-> t.unit, healthy |-> t.healthy, ok |-> cRun[r].ok, began |-> 0]
    <2>1. UNCHANGED <<cState, cLastRun, cLastMail>>
        BY <1>4 DEF Cron!RunUnit
    <2>2. PICK t \in cRun[r].triggered :
             /\ cRun' = [cRun EXCEPT ![r] = loc(t)] /\ cSince' = [cSince EXCEPT ![t.unit] = 0]
        BY <1>4 DEF Cron!RunUnit, CronTyped
    <2>3. t.unit \in CronUnits /\ t.healthy \in BOOLEAN
        BY <1>a DEF CronLocal
    <2>4. loc(t) \in CronLocal /\ loc(t).pc = "run" /\ loc(t).unit = t.unit
        BY <1>a, <2>3 DEF CronLocal
    <2>5. cSince' \in [CronUnits -> Int]
        <3>1. cSince \in [CronUnits -> Int] /\ cSince' = [cSince EXCEPT ![t.unit] = 0]
            BY <2>2 DEF CronTyped
        <3> QED BY <1>b, <3>1, Zenon
    <2> HIDE DEF loc
    <2> QED BY <2>1, <2>2, <2>3, <2>4, <2>5, CronTypedBecomes DEF CronTyped
<1>5. ASSUME NEW r \in Runners, Cron!RunEnds(r) PROVE CronTyped'
    <2> DEFINE loc(ok) == [cRun[r] EXCEPT !.pc = "save", !.ok = ok]
    <2>1. cRun[r].pc = "run" /\ UNCHANGED <<cState, cSince>>
        BY <1>5 DEF Cron!RunEnds
    <2>2. PICK ok \in BOOLEAN : cRun' = [cRun EXCEPT ![r] = loc(ok)]
        BY <1>5 DEF Cron!RunEnds, CronTyped
    <2>3. cLastRun' \in [CronUnits -> Outcomes]
        BY <1>5 DEF Cron!RunEnds, CronTyped, Outcomes
    <2>4. cLastMail' \in [CronUnits -> Outcomes]
        <3>1. \E v \in Outcomes : \/ cLastMail' = cLastMail
                                  \/ cLastMail' = [cLastMail EXCEPT ![cRun[r].unit] = v]
            BY <1>5, <2>1, <2>3 DEF Cron!RunEnds, CronTyped
        <3> QED BY <3>1 DEF CronTyped
    <2>5. loc(ok) \in CronLocal /\ loc(ok).pc = "save" /\ loc(ok).unit = cRun[r].unit
        BY <1>a DEF CronLocal
    <2> HIDE DEF loc
    <2> QED BY <2>1, <2>2, <2>3, <2>4, <2>5, CronTypedBecomes DEF CronTyped
<1>6. ASSUME NEW r \in Runners, Cron!Save(r) \/ Cron!SaveFails(r) PROVE CronTyped'
    <2> DEFINE loc == [cRun[r] EXCEPT !.pc = "scan"]
    <2>1. cRun' = [cRun EXCEPT ![r] = loc] /\ UNCHANGED <<cSince, cLastRun, cLastMail>>
        BY <1>6 DEF Cron!Save, Cron!SaveFails, Cron!histories, CronTyped
    <2>2. loc \in CronLocal /\ loc.pc = "scan"
        BY <1>a DEF CronLocal
    <2>3. Cron!Saved(cRun[r]) \in CronPoint
        BY <1>a DEF Cron!Saved, CronLocal, CronPoint
    <2>4. cState' \in [CronUnits -> CronPoint]
        BY <1>6, <2>3 DEF Cron!Save, Cron!SaveFails, CronTyped
    <2> HIDE DEF loc
    <2> QED BY <2>1, <2>2, <2>4, CronTypedBecomes DEF CronTyped
<1>7. ASSUME NEW r \in Runners, Cron!Finish(r) \/ Cron!Die(r) PROVE CronTyped'
    <2>1. cRun' = [cRun EXCEPT ![r] = Cron!Idle] /\ UNCHANGED <<cState, cSince, cLastRun, cLastMail>>
        BY <1>7 DEF Cron!Finish, Cron!Die, Cron!histories
    <2> QED BY <1>b, <2>1, CronTypedBecomes DEF CronTyped
<1>8. CASE UNCHANGED cronVars
    BY <1>8 DEF cronVars, CronTyped
<1> QED BY <1>1, <1>2, <1>3, <1>4, <1>5, <1>6, <1>7, <1>8 DEF Cron!Next, Cron!Step

(* Nothing makes a behaviour quiet again. *)
LEMMA CronQuietBefore ==
    ASSUME [Cron!Next]_cronVars
    PROVE  (CronQuiet' => CronQuiet) /\ (CronMailed' => CronMailed)
<1>1. ~cOverlap' => ~cOverlap
    BY DEF Cron!Next, Cron!Step, Cron!Tick, Cron!Start, Cron!Scan, Cron!ScanFails, Cron!RunUnit,
           Cron!RunEnds, Cron!Save, Cron!SaveFails, Cron!Finish, Cron!Die, cronVars
<1>2. cHappened \subseteq cHappened'
    BY DEF Cron!Next, Cron!Step, Cron!Tick, Cron!Start, Cron!Scan, Cron!ScanFails, Cron!RunUnit,
           Cron!RunEnds, Cron!Save, Cron!SaveFails, Cron!Finish, Cron!Die, Cron!NoFault, Cron!Fault,
           cronVars
<1> QED BY <1>1, <1>2 DEF CronQuiet, CronMailed

(* A step of the only invocation; the idle ones have collected nothing. *)
LEMMA CronOnly ==
    ASSUME CronTyped, CronSingle, NEW r \in Runners, NEW loc, cRun' = [cRun EXCEPT ![r] = loc],
           cRun[r].pc # "idle"
    PROVE  /\ cRun'[r] = loc /\ CronSingle'
           /\ \A x \in Runners \ {r} : \A S, L : Collected(cRun'[x], S, L) /\ Watches(cRun'[x], S, L)
           /\ \A u : Busy(u) <=> cRun[r].pc \in {"run", "save"} /\ cRun[r].unit = u
           /\ \A u : Busy(u)' <=> loc.pc \in {"run", "save"} /\ loc.unit = u
<1>1. cRun'[r] = loc /\ \A x \in Runners \ {r} : cRun'[x] = cRun[x] /\ cRun[x].pc = "idle"
                                                /\ cRun[x].triggered = {}
    BY DEF CronTyped, CronSingle
<1>2. \A x \in Runners \ {r} : \A S, L : Collected(cRun'[x], S, L) /\ Watches(cRun'[x], S, L)
    BY <1>1 DEF Collected, Watches
<1>3. CronSingle' /\ \A u : /\ Busy(u) <=> cRun[r].pc \in {"run", "save"} /\ cRun[r].unit = u
                            /\ Busy(u)' <=> loc.pc \in {"run", "save"} /\ loc.unit = u
    BY <1>1 DEF CronSingle, Busy
<1> QED BY <1>1, <1>2, <1>3

(* A step that starts, ends and writes nothing. *)
LEMMA CronMoves ==
    ASSUME CronTyped, CronKnown, UNCHANGED <<cState, cSince, cLastRun>>,
           NEW r \in Runners, NEW loc, cRun' = [cRun EXCEPT ![r] = loc],
           cRun[r].pc = "scan", loc.pc \notin {"run", "save"}, Collected(loc, cSince, cLastRun)
    PROVE  CronKnown'
<1>1. /\ cRun'[r] = loc /\ CronSingle' /\ \A u : ~Busy(u)
      /\ \A x \in Runners \ {r} : \A S, L : Collected(cRun'[x], S, L) /\ Watches(cRun'[x], S, L)
    BY CronOnly DEF CronKnown
<1>2. Watches(loc, cSince, cLastRun)
    BY DEF Watches
<1>3. \A u \in CronUnits : /\ cState'[u].time = cSince'[u]
                           /\ cState'[u].success = Healthy(u, cLastRun')
    BY <1>1 DEF CronKnown
<1> QED BY <1>1, <1>2, <1>3 DEF CronKnown

(* The inductive step, one case per action. *)
LEMMA CronStepKnown ==
    ASSUME CronTyped, CronKnown, CronKept, CronQuiet', [Cron!Next]_cronVars
    PROVE  CronKnown' /\ CronKept'
<1>0. CronQuiet /\ (CronMailed' => CronMailed) /\ CronFreq \in [CronUnits -> Nat]
    BY CronQuietBefore, CronAssumption DEF Cron!CronConstants
<1>a. ASSUME UNCHANGED <<cEarly, cLastRun, cLastMail>> PROVE CronKept'
    BY <1>0, <1>a DEF CronKept
<1>b. ASSUME NEW f, Cron!Fault(f) PROVE f \in {"get", "mail"} /\ (f = "mail" => ~CronMailed')
    BY <1>b DEF Cron!Fault, CronQuiet, CronMailed
<1>c. ASSUME NEW r \in Runners
      PROVE  /\ cRun[r] \in CronLocal /\ Collected(cRun[r], cSince, cLastRun)
             /\ Watches(cRun[r], cSince, cLastRun)
    BY DEF CronTyped, CronKnown
<1>1. CASE Cron!Tick
    <2>1. UNCHANGED <<cEarly, cLastRun, cLastMail>>
        BY <1>1 DEF Cron!Tick
    <2>2. ASSUME NEW r \in Runners
          PROVE  /\ cRun'[r].pc = cRun[r].pc /\ cRun'[r].unit = cRun[r].unit
                 /\ cRun'[r].todo = cRun[r].todo /\ cRun'[r].triggered = cRun[r].triggered
                 /\ cRun'[r].healthy = cRun[r].healthy /\ cRun'[r].ok = cRun[r].ok
                 /\ cRun'[r].began = Cron!Older(cRun[r].began, CronFreq[cRun[r].unit])
        <3> DEFINE age == Cron!Older(cRun[r].began, CronFreq[cRun[r].unit])
        <3>1. cRun'[r] = [cRun[r] EXCEPT !.began = age]
            BY <1>1 DEF Cron!Tick
        <3> HIDE DEF age
        <3>2. /\ cRun'[r].pc = cRun[r].pc /\ cRun'[r].unit = cRun[r].unit
              /\ cRun'[r].todo = cRun[r].todo /\ cRun'[r].triggered = cRun[r].triggered
              /\ cRun'[r].healthy = cRun[r].healthy /\ cRun'[r].ok = cRun[r].ok
              /\ cRun'[r].began = age
            BY <1>c, <3>1 DEF CronLocal
        <3> QED BY <3>2 DEF age
    <2>3. \A u \in CronUnits : /\ cState'[u].time = Cron!Older(cState[u].time, CronFreq[u])
                               /\ cState'[u].success = cState[u].success
                               /\ cSince'[u] = Cron!Older(cSince[u], CronFreq[u])
        BY <1>1 DEF Cron!Tick, CronTyped, CronPoint
    <2>4. \A u \in CronUnits : Due(u, cSince) => Due(u, cSince')
        <3> SUFFICES ASSUME NEW u \in CronUnits, Due(u, cSince) PROVE Due(u, cSince')
            OBVIOUS
        <3>1. cSince[u] \in Int /\ CronFreq[u] \in Nat
            BY <1>0 DEF CronTyped
        <3> QED BY <2>3, <3>1 DEF Due, Cron!Older, Cron!Nil, Nil
    <2>5. CronSingle' /\ \A u : Busy(u)' <=> Busy(u)
        BY <2>2 DEF CronKnown, CronSingle, Busy
    <2>6. ASSUME NEW r \in Runners PROVE Collected(cRun'[r], cSince', cLastRun')
        <3>1. \A t \in cRun[r].triggered : t.unit \in CronUnits
            BY <1>c DEF CronLocal
        <3> QED BY <1>c, <2>1, <2>2, <2>4, <3>1 DEF Collected
    <2>7. ASSUME NEW r \in Runners PROVE Watches(cRun'[r], cSince', cLastRun')
        <3>1. cRun[r].pc \in {"run", "save"} => cRun[r].unit \in CronUnits
            BY DEF CronTyped
        <3> QED BY <1>c, <2>1, <2>2, <2>3, <3>1 DEF Watches
    <2>8. \A u \in CronUnits : ~Busy(u)' => /\ cState'[u].time = cSince'[u]
                                            /\ cState'[u].success = Healthy(u, cLastRun')
        BY <2>1, <2>3, <2>5 DEF CronKnown
    <2> QED BY <1>a, <2>1, <2>5, <2>6, <2>7, <2>8 DEF CronKnown
<1>2. ASSUME NEW r \in Runners, Cron!Start(r) PROVE CronKnown' /\ CronKept'
    <2> DEFINE loc == [cRun[r] EXCEPT !.pc = "scan", !.todo = CronUnits]
    <2>1. /\ UNCHANGED <<cState, cSince, cLastRun, cLastMail, cEarly>>
          /\ cRun' = [cRun EXCEPT ![r] = loc]
        BY <1>2 DEF Cron!Start, Cron!histories, CronTyped
    <2>2. \A q \in Runners : cRun[q].pc = "idle" /\ cRun[q].triggered = {}
        BY <1>2 DEF Cron!Start, CronQuiet, CronTyped
    <2>3. loc.pc = "scan" /\ loc.triggered = {}
        BY <1>c, <2>2 DEF CronLocal
    <2> HIDE DEF loc
    <2>4. /\ cRun'[r].pc = "scan" /\ cRun'[r].triggered = {}
          /\ \A q \in Runners \ {r} : cRun'[q].pc = "idle" /\ cRun'[q].triggered = {}
        BY <2>1, <2>2, <2>3 DEF CronTyped
    <2>5. CronSingle' /\ \A u : ~Busy(u)
        BY <2>2, <2>4 DEF CronSingle, Busy
    <2>6. \A q \in Runners : Collected(cRun'[q], cSince', cLastRun') /\ Watches(cRun'[q], cSince', cLastRun')
        BY <2>4 DEF Collected, Watches
    <2>7. \A u \in CronUnits : /\ cState'[u].time = cSince'[u]
                               /\ cState'[u].success = Healthy(u, cLastRun')
        BY <2>1, <2>5 DEF CronKnown
    <2> QED BY <1>a, <2>1, <2>5, <2>6, <2>7 DEF CronKnown
<1>3. ASSUME NEW r \in Runners, Cron!Scan(r) PROVE CronKnown' /\ CronKept'
    <2> DEFINE due(u) == IF Cron!ShouldRunCronUnit(u, cState[u])
                         THEN {[unit |-> u, healthy |-> cState[u].success]} ELSE {}
               loc(u, more) == [cRun[r] EXCEPT !.todo = @ \ {u}, !.triggered = @ \cup more]
    <2>1. cRun[r].pc = "scan" /\ UNCHANGED <<cState, cSince, cLastRun, cLastMail, cEarly>>
        BY <1>3 DEF Cron!Scan, Cron!histories
    <2>2. PICK u \in cRun[r].todo : cRun' = [cRun EXCEPT ![r] = loc(u, due(u))]
        BY <1>3 DEF Cron!Scan, CronTyped
    <2>3. u \in CronUnits
        BY <1>c DEF CronLocal
    <2>4. cState[u].time = cSince[u] /\ cState[u].success = Healthy(u, cLastRun)
        <3>1. ~Busy(u)
            BY <2>1 DEF CronKnown, CronSingle, Busy
        <3> QED BY <2>3, <3>1 DEF CronKnown
    <2>5. \A t \in due(u) : t.unit = u /\ Due(u, cSince) /\ t.healthy = Healthy(u, cLastRun)
        BY <2>4 DEF Cron!ShouldRunCronUnit, Due, Cron!Nil, Nil
    <2>6. \A t1, t2 \in due(u) : t1 = t2
        OBVIOUS
    <2> HIDE DEF due
    <2>7. /\ loc(u, due(u)).pc = "scan" /\ loc(u, due(u)).todo = cRun[r].todo \ {u}
          /\ loc(u, due(u)).triggered = cRun[r].triggered \cup due(u)
        BY <1>c, <2>1 DEF CronLocal
    <2> HIDE DEF loc
    <2>8. Collected(loc(u, due(u)), cSince, cLastRun)
        BY <1>c, <2>1, <2>2, <2>5, <2>6, <2>7 DEF Collected
    <2> QED BY <1>a, <2>1, <2>2, <2>7, <2>8, CronMoves
<1>4. ASSUME NEW r \in Runners, Cron!ScanFails(r) PROVE CronKnown' /\ CronKept'
    <2> DEFINE loc(u) == [cRun[r] EXCEPT !.todo = @ \ {u}]
    <2>1. cRun[r].pc = "scan" /\ UNCHANGED <<cState, cSince, cLastRun, cLastMail, cEarly>>
        BY <1>4 DEF Cron!ScanFails, Cron!histories
    <2>2. PICK u \in cRun[r].todo : cRun' = [cRun EXCEPT ![r] = loc(u)]
        BY <1>4 DEF Cron!ScanFails, CronTyped
    <2>3. /\ loc(u).pc = "scan" /\ loc(u).todo = cRun[r].todo \ {u}
          /\ loc(u).triggered = cRun[r].triggered
        BY <1>c, <2>1 DEF CronLocal
    <2> HIDE DEF loc
    <2>4. Collected(loc(u), cSince, cLastRun)
        BY <1>c, <2>3 DEF Collected
    <2> QED BY <1>a, <2>1, <2>2, <2>3, <2>4, CronMoves
<1>5. ASSUME NEW r \in Runners, Cron!RunUnit(r) PROVE CronKnown' /\ CronKept'
    <2> DEFINE loc(t) == [pc |-> "run", todo |-> {}, triggered |-> cRun[r].triggered \ {t},
                          unit |-> t.unit, healthy |-> t.healthy, ok |-> cRun[r].ok, began |-> 0]
    <2>1. cRun[r].pc = "scan" /\ UNCHANGED <<cState, cLastRun, cLastMail>>
        BY <1>5 DEF Cron!RunUnit
    <2>2. PICK t \in cRun[r].triggered :
             /\ cRun' = [cRun EXCEPT ![r] = loc(t)] /\ cSince' = [cSince EXCEPT ![t.unit] = 0]
             /\ cEarly' = IF cSince[t.unit] \in 0 .. CronFreq[t.unit] - 1
                          THEN cEarly \cup {t.unit} ELSE cEarly
        BY <1>5 DEF Cron!RunUnit, CronTyped
    <2>3. t.unit \in CronUnits /\ Due(t.unit, cSince) /\ t.healthy = Healthy(t.unit, cLastRun)
        BY <1>c DEF CronLocal, Collected
    <2>4. cEarly' = cEarly
        <3>1. cSince[t.unit] \in Int /\ CronFreq[t.unit] \in Nat
            BY <1>0, <2>3 DEF CronTyped
        <3>2. cSince[t.unit] \notin 0 .. CronFreq[t.unit] - 1
            BY <2>3, <3>1 DEF Due, Nil
        <3> QED BY <2>2, <3>2
    <2>5. cSince'[t.unit] = 0 /\ \A u \in CronUnits : u # t.unit => cSince'[u] = cSince[u]
        <3>1. cSince \in [CronUnits -> Int] /\ cSince' = [cSince EXCEPT ![t.unit] = 0]
            BY <2>2 DEF CronTyped
        <3> QED BY <2>3, <3>1
    <2>6. /\ loc(t).pc = "run" /\ loc(t).todo = {} /\ loc(t).triggered = cRun[r].triggered \ {t}
          /\ loc(t).unit = t.unit /\ loc(t).healthy = t.healthy /\ loc(t).began = 0
        OBVIOUS
    <2> HIDE DEF loc
    <2>7. /\ cRun'[r] = loc(t) /\ CronSingle' /\ \A u : ~Busy(u) /\ (Busy(u)' <=> u = t.unit)
          /\ \A x \in Runners \ {r} : \A S, L : Collected(cRun'[x], S, L) /\ Watches(cRun'[x], S, L)
        <3>1. CronSingle /\ cRun' = [cRun EXCEPT ![r] = loc(t)] /\ cRun[r].pc # "idle"
            BY <2>1, <2>2 DEF CronKnown
        <3>2. /\ cRun'[r] = loc(t) /\ CronSingle'
              /\ \A x \in Runners \ {r} : \A S, L : Collected(cRun'[x], S, L) /\ Watches(cRun'[x], S, L)
              /\ \A v : Busy(v) <=> cRun[r].pc \in {"run", "save"} /\ cRun[r].unit = v
              /\ \A v : Busy(v)' <=> loc(t).pc \in {"run", "save"} /\ loc(t).unit = v
            BY <3>1, CronOnly
        <3> QED BY <2>1, <2>6, <3>2
    <2>8. Collected(loc(t), cSince', cLastRun')
        <3>1. \A s \in cRun[r].triggered \ {t} : s.unit \in CronUnits /\ s.unit # t.unit
            BY <1>c DEF CronLocal, Collected
        <3>2. \A s \in cRun[r].triggered \ {t} : Due(s.unit, cSince')
            BY <1>c, <2>5, <3>1 DEF Due, Collected
        <3> QED BY <1>c, <2>1, <2>6, <3>1, <3>2 DEF Collected
    <2>9. Watches(loc(t), cSince', cLastRun')
        BY <2>1, <2>3, <2>5, <2>6 DEF Watches
    <2>10. \A u \in CronUnits : u # t.unit => /\ cState'[u].time = cSince'[u]
                                              /\ cState'[u].success = Healthy(u, cLastRun')
        BY <2>1, <2>5, <2>7 DEF CronKnown
    <2> QED BY <1>a, <2>1, <2>4, <2>7, <2>8, <2>9, <2>10 DEF CronKnown
<1>6. ASSUME NEW r \in Runners, Cron!RunEnds(r) PROVE CronKnown' /\ CronKept'
    <2> DEFINE u == cRun[r].unit
               loc(ok) == [cRun[r] EXCEPT !.pc = "save", !.ok = ok]
               mail(ok) == IF ok THEN Cron!OnSuccess(CronPolicy[u], cRun[r].healthy)
                                 ELSE Cron!OnFailure(CronPolicy[u])
    <2>1. cRun[r].pc = "run" /\ u \in CronUnits /\ UNCHANGED <<cState, cSince, cEarly>>
        BY <1>6 DEF Cron!RunEnds, CronTyped
    <2>2. PICK ok \in BOOLEAN :
             /\ cRun' = [cRun EXCEPT ![r] = loc(ok)]
             /\ cLastRun' = [cLastRun EXCEPT ![u] = IF ok THEN "success" ELSE "failure"]
             /\ \/ cLastMail' = IF mail(ok) THEN [cLastMail EXCEPT ![u] = cLastRun'[u]] ELSE cLastMail
                \/ Cron!Fault("mail") /\ UNCHANGED cLastMail
        BY <1>6 DEF Cron!RunEnds, CronTyped
    <2>3. /\ cLastRun'[u] = (IF ok THEN "success" ELSE "failure")
          /\ \A v \in CronUnits : v # u => cLastRun'[v] = cLastRun[v]
        BY <2>1, <2>2 DEF CronTyped
    <2>4. Healthy(u, cLastRun') = ok
        BY <2>3 DEF Healthy
    <2>5. /\ loc(ok).pc = "save" /\ loc(ok).unit = u /\ loc(ok).todo = cRun[r].todo
          /\ loc(ok).triggered = cRun[r].triggered /\ loc(ok).ok = ok
          /\ loc(ok).began = cRun[r].began
        BY <1>c DEF CronLocal
    <2> HIDE DEF loc
    <2>6. /\ cRun'[r] = loc(ok) /\ CronSingle' /\ \A v : (Busy(v) <=> v = u) /\ (Busy(v)' <=> v = u)
          /\ \A x \in Runners \ {r} : \A S, L : Collected(cRun'[x], S, L) /\ Watches(cRun'[x], S, L)
        <3>1. CronSingle /\ cRun' = [cRun EXCEPT ![r] = loc(ok)] /\ cRun[r].pc # "idle"
            BY <2>1, <2>2 DEF CronKnown
        <3>2. /\ cRun'[r] = loc(ok) /\ CronSingle'
              /\ \A x \in Runners \ {r} : \A S, L : Collected(cRun'[x], S, L) /\ Watches(cRun'[x], S, L)
              /\ \A v : Busy(v) <=> cRun[r].pc \in {"run", "save"} /\ cRun[r].unit = v
              /\ \A v : Busy(v)' <=> loc(ok).pc \in {"run", "save"} /\ loc(ok).unit = v
            BY <3>1, CronOnly
        <3> QED BY <2>1, <2>5, <3>2
    <2>7. Collected(loc(ok), cSince', cLastRun')
        <3>1. \A t \in cRun[r].triggered : t.unit \in CronUnits /\ t.unit # u
            BY <1>c, <2>1 DEF CronLocal, Collected
        <3>2. \A t \in cRun[r].triggered : Healthy(t.unit, cLastRun') = Healthy(t.unit, cLastRun)
            BY <2>3, <3>1 DEF Healthy
        <3> QED BY <1>c, <2>1, <2>5, <3>1, <3>2 DEF Collected
    <2>8. Watches(loc(ok), cSince', cLastRun')
        BY <1>c, <2>1, <2>4, <2>5 DEF Watches
    <2>9. \A v \in CronUnits : v # u => /\ cState'[v].time = cSince'[v]
                                        /\ cState'[v].success = Healthy(v, cLastRun')
        BY <2>1, <2>3, <2>6 DEF CronKnown, Healthy
    <2>10. ASSUME CronMailed', NEW v \in CronUnits,
                  CronPolicy[v] \in {"ON_FAILURE_AND_RECOVERY", "ALWAYS"}
           PROVE  (cLastMail'[v] = "failure") = (cLastRun'[v] = "failure")
        <3>1. (cLastMail[v] = "failure") = (cLastRun[v] = "failure")
            BY <1>0, <2>10 DEF CronKept
        <3>2. cLastMail' = IF mail(ok) THEN [cLastMail EXCEPT ![u] = cLastRun'[u]] ELSE cLastMail
            BY <1>b, <2>2, <2>10
        <3>3. CASE v # u
            BY <2>3, <3>1, <3>2, <3>3 DEF CronTyped
        <3>4. CASE v = u
            <4>1. cRun[r].healthy = Healthy(u, cLastRun)
                BY <1>c, <2>1 DEF Watches
            <4>2. ~mail(ok) => ok /\ cRun[r].healthy
                BY <2>10, <3>4 DEF Cron!OnSuccess, Cron!OnFailure
            <4>3. mail(ok) => cLastMail'[u] = cLastRun'[u]
                BY <2>1, <3>2 DEF CronTyped
            <4>4. ~mail(ok) => cLastMail'[u] = cLastMail[u]
                BY <3>2
            <4> HIDE DEF mail
            <4> QED BY <2>3, <3>1, <3>4, <4>1, <4>2, <4>3, <4>4 DEF Healthy
        <3> QED BY <3>3, <3>4
    <2>11. CronKept'
        BY <2>1, <2>10 DEF CronKept
    <2> QED BY <2>6, <2>7, <2>8, <2>9, <2>11 DEF CronKnown
<1>7. ASSUME NEW r \in Runners, Cron!Save(r) PROVE CronKnown' /\ CronKept'
    <2> DEFINE loc == [cRun[r] EXCEPT !.pc = "scan"]
               u == cRun[r].unit
    <2>1. /\ cRun[r].pc = "save" /\ u \in CronUnits /\ cRun' = [cRun EXCEPT ![r] = loc]
          /\ cState' = [cState EXCEPT ![u] = Cron!Saved(cRun[r])]
          /\ UNCHANGED <<cSince, cLastRun, cLastMail, cEarly>>
        BY <1>7 DEF Cron!Save, Cron!histories, CronTyped
    <2>2. loc.pc = "scan" /\ loc.todo = cRun[r].todo /\ loc.triggered = cRun[r].triggered
        BY <1>c DEF CronLocal
    <2> HIDE DEF loc
    <2>3. /\ cRun'[r] = loc /\ CronSingle' /\ \A v : Busy(v) <=> v = u
          /\ \A x \in Runners \ {r} : \A S, L : Collected(cRun'[x], S, L) /\ Watches(cRun'[x], S, L)
        BY <2>1, CronOnly DEF CronKnown
    <2>4. Collected(loc, cSince', cLastRun') /\ Watches(loc, cSince', cLastRun')
        BY <1>c, <2>1, <2>2 DEF Collected, Watches
    <2>5. Cron!Saved(cRun[r]).time = cSince[u] /\ Cron!Saved(cRun[r]).success = Healthy(u, cLastRun)
        BY <1>c, <2>1 DEF Cron!Saved, Watches
    <2>6. ASSUME NEW v \in CronUnits
          PROVE  cState'[v].time = cSince'[v] /\ cState'[v].success = Healthy(v, cLastRun')
        <3>1. cState'[v] = IF v = u THEN Cron!Saved(cRun[r]) ELSE cState[v]
            BY <2>1 DEF CronTyped
        <3> QED BY <2>1, <2>3, <2>5, <3>1 DEF CronKnown
    <2> QED BY <1>a, <2>1, <2>3, <2>4, <2>6 DEF CronKnown
<1>8. ASSUME NEW r \in Runners, Cron!SaveFails(r) \/ Cron!Die(r) PROVE FALSE
    BY <1>8, <1>b DEF Cron!SaveFails, Cron!Die
<1>9. ASSUME NEW r \in Runners, Cron!Finish(r) PROVE CronKnown' /\ CronKept'
    <2>1. /\ cRun[r].pc = "scan" /\ cRun' = [cRun EXCEPT ![r] = Cron!Idle]
          /\ UNCHANGED <<cState, cSince, cLastRun, cLastMail, cEarly>>
        BY <1>9 DEF Cron!Finish, Cron!histories
    <2>2. Cron!Idle.pc = "idle" /\ Cron!Idle.triggered = {}
        BY DEF Cron!Idle
    <2>3. Collected(Cron!Idle, cSince, cLastRun)
        BY <2>2 DEF Collected
    <2> QED BY <1>a, <2>1, <2>2, <2>3, CronMoves
<1>10. CASE UNCHANGED cronVars
    BY <1>0, <1>10 DEF cronVars, CronKnown, CronKept, CronSingle, Busy
<1> QED BY <1>1, <1>2, <1>3, <1>4, <1>5, <1>6, <1>7, <1>8, <1>9, <1>10 DEF Cron!Next, Cron!Step

\* Before any run there is no state file, no trigger and no mail.
LEMMA CronInvInit == Cron!Init => CronInv
<1> SUFFICES ASSUME Cron!Init PROVE CronKnown /\ CronKept
    BY DEF CronInv
<1>1. \A r \in Runners : cRun[r].pc = "idle" /\ cRun[r].triggered = {}
    BY DEF Cron!Init, Cron!Idle
<1>2. \A u \in CronUnits : /\ cState[u].time = cSince[u] /\ cState[u].success = TRUE
                           /\ cLastRun[u] = "none" /\ cLastMail[u] = "none"
    BY DEF Cron!Init, Cron!Fresh
<1>3. cEarly = {}
    BY DEF Cron!Init
<1>4. \A r \in Runners : Collected(cRun[r], cSince, cLastRun) /\ Watches(cRun[r], cSince, cLastRun)
    BY <1>1 DEF Collected, Watches
<1>5. CronKept
    BY <1>2, <1>3 DEF CronKept
<1> QED BY <1>1, <1>2, <1>4, <1>5 DEF CronKnown, CronSingle, Healthy

\* Every step of a cron run, of the clock and of a crash keeps the invariant.
LEMMA CronInvStep == CronTyped /\ CronInv /\ [Cron!Next]_cronVars => CronInv'
BY CronQuietBefore, CronStepKnown DEF CronInv

(* It says what the runs check of the cron runner. *)
LEMMA CronInvMeans == CronInv => Cron!NoEarlyRun /\ Cron!CronMailAgrees
BY DEF CronInv, CronKept, CronQuiet, CronMailed, Cron!NoEarlyRun, Cron!CronMailAgrees

-----------------------------------------------------------------------------
(* The theorems, of each runner and of the two side by side. *)

(* publish_runner spaces the failure emails about a unit, tells its owners *)
(* of every failure that lasts and of the recovery after it, in every      *)
(* behaviour without overlapping invocations, lost writes or deaths.       *)
THEOREM PublishCorrect == Spec => [](RateLimited /\ OwnersTold /\ RecoveryMailed)
<1>1. Init => Typed /\ PublishInv
    BY PublishTypedInit, PublishInvInit
<1>2. Typed /\ PublishInv /\ [Next]_vars => Typed' /\ PublishInv'
    BY PublishTypedStep, PublishInvStep
<1>3. PublishInv => RateLimited /\ OwnersTold /\ RecoveryMailed
    BY PublishInvMeans
<1> QED BY <1>1, <1>2, <1>3, PTL DEF Spec

(* cron_runner starts no unit before its frequency has passed, however     *)
(* long after reading the states it gets to it, and the last email about a *)
(* unit agrees with its last run.                                          *)
THEOREM CronCorrect == Cron!Spec => [](Cron!NoEarlyRun /\ Cron!CronMailAgrees)
<1>1. Cron!Init => CronTyped /\ CronInv
    BY CronTypedInit, CronInvInit
<1>2. CronTyped /\ CronInv /\ [Cron!Next]_(Cron!vars) => CronTyped' /\ CronInv'
    <2>1. [Cron!Next]_(Cron!vars) => [Cron!Next]_cronVars
        BY DEF Cron!vars, cronVars
    <2> QED BY <2>1, CronTypedStep, CronInvStep
<1>3. CronInv => Cron!NoEarlyRun /\ Cron!CronMailAgrees
    BY CronInvMeans
<1> QED BY <1>1, <1>2, <1>3, PTL DEF Cron!Spec

(* A step of the two side by side is a step of one and a stutter of the other. *)
LEMMA SideBySideStep ==
    [RunnersNext]_allVars => [Next]_vars /\ [Cron!Next]_cronVars
<1> SUFFICES ASSUME [RunnersNext]_allVars PROVE [Next]_vars /\ [Cron!Next]_cronVars
    OBVIOUS
<1>1. CASE UNCHANGED allVars
    BY <1>1 DEF allVars
<1>2. CASE PublishTick
    BY <1>2 DEF PublishTick, OfPublish, Next
<1>3. CASE CronTick
    BY <1>3 DEF CronTick, OfCron, Cron!Next
<1>4. ASSUME NEW r \in Runners, PublishStep(r) \/ PublishDie(r)
      PROVE  [Next]_vars /\ [Cron!Next]_cronVars
    BY <1>4 DEF PublishStep, PublishDie, OfPublish, Next
<1>5. ASSUME NEW r \in Runners, CronStep(r) \/ CronDie(r)
      PROVE  [Next]_vars /\ [Cron!Next]_cronVars
    BY <1>5 DEF CronStep, CronDie, OfCron, Cron!Next
<1> QED BY <1>1, <1>2, <1>3, <1>4, <1>5 DEF RunnersNext

(* The invariant of the two. *)
LEMMA RunnersInv == RunnersSpec => [](PublishInv /\ CronInv)
<1>1. RunnersInit => Typed /\ PublishInv /\ CronTyped /\ CronInv
    BY PublishTypedInit, PublishInvInit, CronTypedInit, CronInvInit DEF RunnersInit
<1>2. Typed /\ PublishInv /\ CronTyped /\ CronInv /\ [RunnersNext]_allVars
        => Typed' /\ PublishInv' /\ CronTyped' /\ CronInv'
    BY SideBySideStep, PublishTypedStep, PublishInvStep, CronTypedStep, CronInvStep
<1> QED BY <1>1, <1>2, PTL DEF RunnersSpec

(* Neither runner does anything too often. *)
THEOREM NotTooOftenCorrect == RunnersSpec => []NotTooOften
<1>1. PublishInv /\ CronInv => NotTooOften
    BY PublishInvMeans, CronInvMeans DEF NotTooOften
<1> QED BY <1>1, RunnersInv, PTL

(* The owners of both runners' units know how their units are. *)
THEOREM OwnersInformedCorrect == RunnersSpec => []OwnersInformed
<1>1. PublishInv /\ CronInv => OwnersInformed
    BY PublishInvMeans, CronInvMeans DEF OwnersInformed
<1> QED BY <1>1, RunnersInv, PTL
=============================================================================
