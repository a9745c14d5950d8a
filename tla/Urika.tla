------------------------------- MODULE Urika --------------------------------
(***************************************************************************)
(* tools/urika and libs/go/urika: Windows starts a urika process for every *)
(* sge:// link that is clicked.  It puts itself into the registry where it *)
(* is missing, if need be again as administrator, and hands the link to    *)
(* its application: by a post to port 8080, or by starting the             *)
(* application with it.  The applications (gigantick, poogle, perculator)  *)
(* all try to listen on that port; the first one gets it, and the others   *)
(* do not notice.                                                          *)
(***************************************************************************)
EXTENDS Naturals, FiniteSets, FiniteSetsExt

CONSTANTS
    Links, Apps, AppOf,   \* AppOf[l]: the host of link l
    Exes,                 \* paths urika may be run from
    OthersSlots,          \* the sets of allowlist slots other programs may have
    MaxFaults             \* bound: failing registry calls, replies, starts and dying processes

Mask == "sge://*"         \* urika's entry in the allowlist
Other == "other"
Unset == "unset"

VARIABLES
    allow,      \* the allowlist of Chrome: a function from the slots in use to masks
    holders,    \* the holders: name, protocol, command
    urika,      \* urika[l]: the process for a link
    instance,   \* instance[i]: the application started by a link, or by hand (i \in Apps)
    port,       \* the instances that listen on port 8080
    handled,    \* history: handled[l]: the instances whose fromLink got the link, or that ended with it
    faults      \* [left, noReply, names]: faults to come; history: links whose post got no reply,
                \* and whether the names of the allowlist could not be read

vars == <<allow, holders, urika, instance, port, handled, faults>>

UrikaConstants ==
    /\ Links \cap Apps = {} /\ Exes # {}
    /\ \A slots \in OthersSlots : IsFiniteSet(slots)

NoProcess == [pc |-> "none", exe |-> "", admin |-> FALSE, slot |-> 0, ok |-> FALSE, code |-> 0]
NoInstance == [pc |-> "none", app |-> "", uris |-> {}]
Wanted(exe) == [name |-> "URL:sge protocol", protocol |-> "", command |-> exe]

\* Nothing installed yet, an installation from the first of the paths, or half of one.
Init ==
    /\ \E slots \in OthersSlots : allow = [s \in slots |-> Other]
    /\ LET unset == [name |-> Unset, protocol |-> Unset, command |-> Unset]
           exe == CHOOSE e \in Exes : TRUE
       IN  holders \in {unset, [unset EXCEPT !.name = "URL:sge protocol"], Wanted(exe)}
    /\ urika = [l \in Links |-> NoProcess]
    /\ instance = [i \in Links \cup Apps |-> NoInstance]
    /\ port = {} /\ handled = [l \in Links |-> {}]
    /\ faults = [left |-> MaxFaults, noReply |-> {}, names |-> FALSE]

Fault == faults.left > 0 /\ faults' = [faults EXCEPT !.left = @ - 1]
Go(l, pc) == urika' = [urika EXCEPT ![l].pc = pc]
RestSame == UNCHANGED <<instance, port, handled>>

Click(l, exe, admin) ==
    /\ urika[l].pc = "none"
    /\ urika' = [urika EXCEPT ![l] = [NoProcess EXCEPT !.pc = "check", !.exe = exe, !.admin = admin]]
    /\ UNCHANGED <<allow, holders, faults>> /\ RestSame

-----------------------------------------------------------------------------
(* AppUriKeyInstall *)

\* CheckAnySubKeyWithValue in allowlistInstall; any error of it counts as not found.
CheckAnySubKeyWithValue(l) ==
    /\ urika[l].pc = "check"
    /\ \/ Go(l, IF \E s \in DOMAIN allow : allow[s] = Mask THEN "holders" ELSE "slot") /\ UNCHANGED faults
       \/ Go(l, "slot") /\ Fault
    /\ UNCHANGED <<allow, holders>> /\ RestSame

\* Mutant: the slot after the number of entries.
FreeSlotMut(names) == Cardinality(names) + 1
FreeSlot(names) == Min({s \in 1 .. Cardinality(names) + 1 : s \notin names})
\* The rest of allowlistInstall up to SetStringValue.  CreateKey needs an administrator; when the names
\* cannot be read the first slot is taken.  The error of allowlistInstall is only printed.
allowlistInstall(l) ==
    /\ urika[l].pc = "slot"
    /\ \/ urika[l].admin /\ UNCHANGED faults
          /\ urika' = [urika EXCEPT ![l].pc = "put", ![l].slot = FreeSlot(DOMAIN allow)]
       \/ /\ urika[l].admin /\ faults.left > 0
          /\ faults' = [faults EXCEPT !.left = @ - 1, !.names = TRUE]
          /\ urika' = [urika EXCEPT ![l].pc = "put", ![l].slot = 1]
       \/ ~urika[l].admin /\ Go(l, "holders") /\ UNCHANGED faults
    /\ UNCHANGED <<allow, holders>> /\ RestSame
SetAllowed(l) ==
    /\ urika[l].pc = "put" /\ Go(l, "holders")
    /\ \/ allow' = [s \in DOMAIN allow \cup {urika[l].slot} |-> IF s = urika[l].slot THEN Mask ELSE allow[s]]
          /\ UNCHANGED faults
       \/ Fault /\ UNCHANGED allow
    /\ UNCHANGED holders /\ RestSame

checkHolders(l) ==
    /\ urika[l].pc = "holders"
    /\ urika' = [urika EXCEPT ![l].pc = IF holders = Wanted(urika[l].exe) THEN "done" ELSE "name",
                              ![l].ok = holders = Wanted(urika[l].exe)]
    /\ UNCHANGED <<allow, holders, faults>> /\ RestSame

AfterHolder(h) == CASE h = "name" -> "protocol" [] h = "protocol" -> "command" [] h = "command" -> "done"
\* installHolders, one value after the other; the first error ends it.
installHolders(l, h) ==
    /\ urika[l].pc = h
    /\ \/ /\ urika[l].admin
          /\ holders' = [holders EXCEPT ![h] = Wanted(urika[l].exe)[h]]
          /\ urika' = [urika EXCEPT ![l].pc = AfterHolder(h), ![l].ok = AfterHolder(h) = "done"]
          /\ UNCHANGED faults
       \/ ~urika[l].admin /\ Go(l, "failed") /\ UNCHANGED <<holders, faults>>
       \/ urika[l].admin /\ Fault /\ Go(l, "failed") /\ UNCHANGED holders
    /\ UNCHANGED allow /\ RestSame

\* run after AppUriKeyInstall: without an administrator's rights the whole of it is tried again in a
\* process that has them, which the user may refuse and whose result is not looked at.
AfterInstall(l) ==
    /\ urika[l].pc \in {"done", "failed"}
    /\ \/ Go(l, "send")
       \/ /\ urika[l].pc = "failed" /\ ~urika[l].admin
          /\ urika' = [urika EXCEPT ![l].pc = "check", ![l].admin = TRUE]
    /\ UNCHANGED <<allow, holders, faults>> /\ RestSame

-----------------------------------------------------------------------------
(* The link *)

End(l, code) == urika' = [urika EXCEPT ![l].pc = "end", ![l].code = code]

\* url.Parse refuses the link.
ParseFails(l) ==
    /\ urika[l].pc = "send" /\ End(l, 3)
    /\ UNCHANGED <<allow, holders, faults>> /\ RestSame
\* sendMessage: the reply is good when it is the right application that listens.
sendMessage(l) ==
    LET here == {i \in port : instance[i].app = AppOf[l]} IN
    /\ urika[l].pc = "send"
    /\ instance' = [i \in DOMAIN instance |->
          IF i \in here THEN [instance[i] EXCEPT !.uris = @ \cup {l}] ELSE instance[i]]
    /\ \/ here = {} /\ Go(l, "launch") /\ UNCHANGED faults
       \/ here # {} /\ End(l, 0) /\ UNCHANGED faults
       \/ /\ here # {} /\ faults.left > 0 /\ Go(l, "launch")
          /\ faults' = [faults EXCEPT !.left = @ - 1, !.noReply = @ \cup {l}]
    /\ UNCHANGED <<allow, holders, port, handled>>

\* launchApp: with the link as an argument, or an error when it is not there or does not start.
launchApp(l) ==
    /\ urika[l].pc = "launch"
    /\ \/ /\ instance' = [instance EXCEPT ![l] = [pc |-> "starting", app |-> AppOf[l], uris |-> {l}]]
          /\ End(l, 0) /\ UNCHANGED faults
       \/ Fault /\ End(l, 4) /\ UNCHANGED instance
    /\ UNCHANGED <<allow, holders, port, handled>>

\* A urika process that is ended.
Dies(l) ==
    /\ urika[l].pc \notin {"none", "end", "dead"} /\ Fault /\ Go(l, "dead")
    /\ UNCHANGED <<allow, holders>> /\ RestSame

-----------------------------------------------------------------------------
(* The applications *)

\* An application started from the launcher, without a link.
StartByHand(i) ==
    /\ i \in Apps /\ instance[i].pc = "none"
    /\ instance' = [instance EXCEPT ![i] = [pc |-> "starting", app |-> i, uris |-> {}]]
    /\ UNCHANGED <<allow, holders, urika, port, handled, faults>>
\* main: ListenAndServe in a goroutine, whose error is dropped; fromLink of the argument may come first.
Serve(i) ==
    /\ instance[i].pc = "starting"
    /\ instance' = [instance EXCEPT ![i].pc = "running"]
    /\ port' = IF port = {} THEN {i} ELSE port
    /\ UNCHANGED <<allow, holders, urika, handled, faults>>
\* update: one of the goroutines that wait with a uri gets to send it, and fromLink reads it.
updateUri(i, l) ==
    /\ instance[i].pc \in {"starting", "running"} /\ l \in instance[i].uris
    /\ instance' = [instance EXCEPT ![i].uris = @ \ {l}]
    /\ handled' = [handled EXCEPT ![l] = @ \cup {i}]
    /\ UNCHANGED <<allow, holders, urika, port, faults>>
\* The window is closed, or init failed: links that still wait are lost.
Close(i) ==
    /\ instance[i].pc \in {"starting", "running"}
    /\ instance' = [instance EXCEPT ![i].pc = "closed", ![i].uris = {}]
    /\ handled' = [l \in Links |-> IF l \in instance[i].uris THEN handled[l] \cup {i} ELSE handled[l]]
    /\ port' = port \ {i}
    /\ UNCHANGED <<allow, holders, urika, faults>>

UrikaStep(l) ==
    \/ \E exe \in Exes, admin \in BOOLEAN : Click(l, exe, admin)
    \/ CheckAnySubKeyWithValue(l) \/ allowlistInstall(l) \/ SetAllowed(l) \/ checkHolders(l)
    \/ \E h \in {"name", "protocol", "command"} : installHolders(l, h)
    \/ AfterInstall(l) \/ ParseFails(l) \/ sendMessage(l) \/ launchApp(l) \/ Dies(l)
AppStep(i) == StartByHand(i) \/ Serve(i) \/ Close(i) \/ \E l \in Links : updateUri(i, l)
Next == (\E l \in Links : UrikaStep(l)) \/ \E i \in Links \cup Apps : AppStep(i)

Spec == Init /\ [][Next]_vars

-----------------------------------------------------------------------------
(* The registry: a process that found or made its entries leaves a handler that is complete, and
   with it, however many processes install at once, the entries of other programs in the allowlist,
   unless their names could not be read. *)
RegistrySound ==
    /\ (\E l \in Links : urika[l].ok) =>
          \E exe \in {urika[l].exe : l \in {x \in Links : urika[x].ok}} \cup
                     {urika[l].exe : l \in {x \in Links : urika[x].admin}} : holders = Wanted(exe)
    /\ faults.names \/ \E slots \in OthersSlots : {s \in DOMAIN allow : allow[s] = Other} = slots

(* The links: a link whose process ends with 0 is with exactly one instance, and with two only when
   the reply to its post was lost; one whose process ends with an error is with none; and no
   instance but one of its application gets it. *)
LinksArrive ==
    \A l \in Links :
        LET with == handled[l] \cup {i \in DOMAIN instance : l \in instance[i].uris} IN
        /\ \A i \in with : instance[i].app = AppOf[l]
        /\ urika[l].pc = "end" /\ urika[l].code = 0 =>
              Cardinality(with) = IF l \in faults.noReply THEN 2 ELSE 1
        /\ urika[l].pc = "end" /\ urika[l].code # 0 /\ l \notin faults.noReply => with = {}
=============================================================================
