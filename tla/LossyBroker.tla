---------------------------- MODULE LossyBroker -----------------------------
(***************************************************************************)
(* The system with the broker of the loss tests, test/lossy_broker.c: a    *)
(* copy of the broker that drops a PUBLISH of any level but QoS 2 when     *)
(* rand() says so.                                                         *)
(***************************************************************************)
EXTENDS SlimMQ

\* Mutant: the message is dropped where it would have been forwarded, and is
\* acknowledged all the same.
DropPublishLate(m) ==
    /\ m.type = "PUBLISH" /\ m.qos # 2
    /\ Receive(m, IF m.qos = 1 THEN {Ack(Down, m.peer, m.id)} ELSE {})
    /\ UNCHANGED brokerVars

\* rand() % 3 == 0 in handle_publish: nothing is forwarded or answered.
DropPublish(m) ==
    /\ m.type = "PUBLISH" /\ m.qos # 2
    /\ Receive(m, {})
    /\ UNCHANGED brokerVars

LossyTurn ==
    /\ \E m \in net : m.dir = Up /\ DropPublish(m)
    /\ UNCHANGED <<clientVars, audience>>

LossySpec == Init /\ [][Next \/ LossyTurn]_vars
LossyFairSpec == LossySpec /\ PublishFairness
=============================================================================
