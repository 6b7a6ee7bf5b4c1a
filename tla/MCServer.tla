------------------------------- MODULE MCServer -----------------------------
EXTENDS Server
CONSTANTS patient, eager, node1
MCClients == {patient, eager}
MCOneSlave == <<node1>>
\* The eager client also sends empty requests, and SHUTDOWN.
MCRequests ==
    [c \in Clients |->
        IF c = patient THEN {[len |-> 1, effect |-> "run"]}
        ELSE {[len |-> 0, effect |-> "run"], [len |-> 1, effect |-> "run"],
              [len |-> 1, effect |-> "exit"]}]
MCWindow == [c \in Clients |-> IF c = patient THEN 1 ELSE 2]
=============================================================================
