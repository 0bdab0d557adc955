----------------------------- MODULE Qos2Table ------------------------------
(***************************************************************************)
(* qos2_table.c of a client process as slimmq_client.c uses it: the        *)
(* application looks up and removes its current message, the listener sets *)
(* the state of the messages it has answers for, and nothing locks the     *)
(* lists.  The broker's answers may be late, repeated and in any order.    *)
(*                                                                         *)
(* Assumed: an answer is less than NBuckets calls late.  Without this an   *)
(* answer can add an entry to a list from which the application is         *)
(* removing another one, and a freed entry stays in the list.              *)
(***************************************************************************)
EXTENDS HashChain

CONSTANT MaxId     \* bound on the messages of a connection

app == "app"
listener == "listener"

ASSUME Qos2Assumption ==
    /\ MaxId \in Nat \ {0}
    /\ Thread = {app, listener}
    /\ Key = 1 .. MaxId
    /\ HashOf = [k \in Key |-> k % NBuckets]
    /\ Value = {"WAIT_COMPLETE", "COMPLETED"}

VARIABLES
    phase,       \* of the application: "ready", "publish", "closing" or "closed"
    current,     \* msg_id of its last message, 0 before the first
    stored,      \* history: the last state set for each message
    readable,    \* history: the states the running or last lookup may return
    removed      \* history: the messages that the application has removed

historyVars == <<stored, readable, removed>>
qosVars == <<chainVars, phase, current, historyVars>>

\* slimmq_connect and the first slimmq_set_qos have returned.
QosInit ==
    /\ ChainInit
    /\ phase = "ready"
    /\ current = 0
    /\ stored = [k \in Key |-> NONE]
    /\ readable = {}
    /\ removed = {}

-----------------------------------------------------------------------------
(* The application thread. *)

\* qos2_table_init forgets the lists without freeing them.
InitTable ==
    /\ table' = [b \in Bucket |-> NULL]
    /\ UNCHANGED <<entry, live, now, pc, call, ptrVars, did>>

\* slimmq_set_qos between two messages.
SetQos ==
    /\ phase = "ready" /\ pc[app] = "idle"
    /\ InitTable
    /\ UNCHANGED <<phase, current, historyVars>>

\* The listener does not stay in one call while the application makes so many
\* that their identifiers share a list with its own.
InTime(k) == pc[listener] = "idle" \/ k - call[listener].key < NBuckets

\* slimmq_publish takes the next identifier.
Publish ==
    /\ phase = "ready" /\ pc[app] = "idle"
    /\ current < MaxId /\ InTime(current + 1)
    /\ phase' = "publish"
    /\ current' = current + 1
    /\ readable' = {}
    /\ UNCHANGED <<chainVars, stored, removed>>

\* slimmq_publish looks the message up, once per poll.
GetState ==
    /\ phase = "publish"
    /\ Begin(app, "get", current, "COMPLETED")
    /\ readable' = {stored[current]} \cup
                   {call[t].value : t \in {u \in {listener} : pc[u] # "idle" /\ call[u].key = current}}
    /\ UNCHANGED <<phase, current, stored, removed>>

Completed == did[app] = <<"get", current, "COMPLETED">>

\* It removes the message when it has found it completed, and returns.
Remove ==
    /\ phase = "publish" /\ Completed
    /\ Begin(app, "remove", current, "COMPLETED")
    /\ phase' = "ready"
    /\ removed' = removed \cup {current}
    /\ UNCHANGED <<current, stored, readable>>

\* It returns without it when its retries are used up.
GiveUp ==
    /\ phase = "publish" /\ pc[app] = "idle"
    /\ phase' = "ready"
    /\ UNCHANGED <<chainVars, current, historyVars>>

\* slimmq_close of a client whose level is no longer QoS 2: the table stays.
CloseOnly ==
    /\ phase = "ready" /\ pc[app] = "idle" /\ pc[listener] = "idle"
    /\ phase' = "closed"
    /\ UNCHANGED <<chainVars, current, historyVars>>

\* slimmq_close of a QoS 2 client.  The listener is cancelled in recvfrom,
\* never in the table.
Close ==
    /\ phase = "ready" /\ pc[listener] = "idle"
    /\ Sweep(app, "destroy")
    /\ phase' = "closing"
    /\ UNCHANGED <<current, historyVars>>

Closed ==
    /\ phase = "closing" /\ pc[app] = "idle"
    /\ phase' = "closed"
    /\ UNCHANGED <<chainVars, current, historyVars>>

\* The application is in a call of the table.
AppStep ==
    /\ CallStep(app) \/ SweepStep(app)
    /\ UNCHANGED <<phase, current, historyVars>>

-----------------------------------------------------------------------------
(* The listener thread. *)

\* RECEIVED or COMPLETE of message k has arrived.  Bound: a cell is left.
Answer(k, v) ==
    /\ phase \in {"ready", "publish"}
    /\ k <= current /\ current - k < NBuckets
    /\ Cell # live
    /\ Begin(listener, "set", k, v)
    /\ readable' = IF k = current THEN readable \cup {v} ELSE readable
    /\ UNCHANGED <<phase, current, stored, removed>>

ListenerStep ==
    /\ CallStep(listener)
    /\ stored' = IF pc'[listener] = "idle"
                 THEN [stored EXCEPT ![call[listener].key] = call[listener].value]
                 ELSE stored
    /\ UNCHANGED <<phase, current, readable, removed>>

-----------------------------------------------------------------------------
AppNext ==
    \/ SetQos \/ Publish \/ GetState \/ Remove \/ GiveUp
    \/ CloseOnly \/ Close \/ Closed \/ AppStep
ListenerNext == ListenerStep \/ \E k \in Key, v \in Value : Answer(k, v)
QosNext == AppNext \/ ListenerNext

\* A thread in a call goes on with it.
QosSpec ==
    /\ QosInit /\ [][QosNext]_qosVars
    /\ WF_qosVars(AppStep) /\ WF_qosVars(ListenerStep)

-----------------------------------------------------------------------------
(* Properties *)

\* Every lookup of slimmq_publish returns the state that was set last, or one
\* that the listener was setting during the lookup: the missing lock costs the
\* application no answer and shows it none of another message.
LookupIsCurrent ==
    \A v \in Value \cup {NONE} : did[app] = <<"get", current, v>> => v \in readable

\* No list holds a freed entry, the application never stands on one, and the
\* listener only when the application has meanwhile removed the message of the
\* listener's answer.
NoFreedEntryInUse ==
    /\ phase # "closing" => InTable \subseteq live
    /\ pc[app] # "idle" => cur[app] \in live \cup {NULL}
    /\ pc[listener] # "idle" /\ cur[listener] \notin live \cup {NULL} =>
          call[listener].key \in removed

\* README.md, "no need to manage sockets or threads manually": the listener
\* writes the state of a message only into an entry that is allocated.
WritesOnlyAllocated ==
    \A t \in Thread : pc[t] = "found" /\ call[t].op = "set" => cur[t] \in live

\* Every walk along a list comes to its end, although the other thread changes
\* the list on the way.
CallsReturn == \A t \in Thread : pc[t] # "idle" ~> pc[t] = "idle"
=============================================================================
