----------------------------- MODULE P4Command -----------------------------
(***************************************************************************)
(* What p4lib promises the goroutines that run a Perforce command: a       *)
(* command is run under the identity of the interface it is called on, and *)
(* a call that returns without an error has every record the server sent   *)
(* for that command, and nothing that belongs to another call.  It says    *)
(* nothing of how often a record is delivered, nor of pooled connections,  *)
(* callback ids or dropped connections.                                    *)
(***************************************************************************)
EXTENDS Naturals

CONSTANTS Calls, Users, Cbs, Records(_, _)

VARIABLES
    status,     \* status[g]: "idle", "running", "ok" or "failed"
    cmd,        \* cmd[g]: the callback of the command, that stands for the command
    identity,   \* identity[g]: the user of the interface the call is made on
    got         \* got[g]: the records handed to the caller of g

vars == <<status, cmd, identity, got>>

Init ==
    /\ status = [g \in Calls |-> "idle"]
    /\ cmd \in [Calls -> Cbs]
    /\ identity \in [Calls -> Users]
    /\ got = [g \in Calls |-> {}]

Begin(g) ==
    /\ status[g] # "running"
    /\ status' = [status EXCEPT ![g] = "running"]
    /\ \E c \in Cbs : cmd' = [cmd EXCEPT ![g] = c]
    /\ \E u \in Users : identity' = [identity EXCEPT ![g] = u]
    /\ got' = [got EXCEPT ![g] = {}]

Return(g) ==
    /\ status[g] = "running"
    /\ status' = [status EXCEPT ![g] = "ok"]
    /\ got' = [got EXCEPT ![g] = Records(g, cmd[g])]
    /\ UNCHANGED <<cmd, identity>>

Fail(g) ==
    /\ status[g] = "running"
    /\ status' = [status EXCEPT ![g] = "failed"]
    /\ UNCHANGED <<cmd, identity, got>>

Next == \E g \in Calls : Begin(g) \/ Return(g) \/ Fail(g)

Spec == Init /\ [][Next]_vars
=============================================================================
