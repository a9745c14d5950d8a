------------------------------ MODULE MCP4Api ------------------------------
(* Two goroutines make three calls with callback types of every sort: printcb resets itself,
   keycb holds one value per key, describecb appends.  There is room for one idle connection
   per pool. *)
EXTENDS P4Api
MCEmits == [cb \in Cbs |-> CASE cb = "print" -> <<"stat", "text">>
                             [] cb = "buffer" -> <<"info">>
                             [] OTHER -> <<"stat">>]
=============================================================================
