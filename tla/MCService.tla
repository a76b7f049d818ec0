----------------------------- MODULE MCService -----------------------------
(* Two services for TLC: s1 with one goroutine and modules, s2 with two      *)
(* goroutines and a queue made smaller by SetEventChannelNum.                *)
EXTENDS Service

CONSTANTS s1, s2, g1, g2, g3

MCServiceOf == [w \in Workers |-> IF w = g1 THEN s1 ELSE s2]
MCChanCap == [s \in Services |-> IF s = s1 THEN Limit ELSE 1]
MCRegistered == {<<s1, s2>>, <<s2, s2>>}
\* Pushes with a registration between them, or many changes of the modules.
MCBudgets == {[push |-> 2, change |-> 1], [push |-> 0, change |-> 4]}
MCPushed == [s \in Services |-> <<Rpc>>]
MCPublishers == Services \cup Modules
=============================================================================
