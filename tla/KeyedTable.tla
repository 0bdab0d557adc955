----------------------------- MODULE KeyedTable -----------------------------
(***************************************************************************)
(* What pending_table.h and qos2_table.h offer: a map from keys to states  *)
(* with the time of the last update, and the result of the last call.      *)
(***************************************************************************)
EXTENDS Integers

CONSTANTS Key, Value, NONE, MaxTime, Expiration

VARIABLES
    map,     \* <<value, time>> of a key, or <<>>
    now,     \* the clock
    last     \* the last call and its result

TableInit == map = [k \in Key |-> <<>>] /\ now = 0 /\ last = <<"init">>

Set(k, v) ==
    /\ map' = [map EXCEPT ![k] = <<v, now>>]
    /\ last' = <<"set", k, v>>
    /\ UNCHANGED now

Get(k) ==
    /\ last' = <<"get", k, IF map[k] = <<>> THEN NONE ELSE map[k][1]>>
    /\ UNCHANGED <<map, now>>

Remove(k) ==
    /\ map' = [map EXCEPT ![k] = <<>>]
    /\ last' = <<"remove", k, NONE>>
    /\ UNCHANGED now

\* A call begins.  A cleanup or a destroy then runs for a while, and keys leave
\* the map one by one.
Begin(op) == last' = <<op>> /\ UNCHANGED <<map, now>>

Old(k) == map[k] # <<>> /\ now - map[k][2] > Expiration

Leave(k) ==
    /\ \/ last = <<"cleanup">> /\ Old(k)
       \/ last = <<"destroy">> /\ map[k] # <<>>
    /\ map' = [map EXCEPT ![k] = <<>>]
    /\ UNCHANGED <<now, last>>

\* At its end there is no old key left, or no key at all.
SweepDone ==
    /\ \/ last = <<"cleanup">> /\ \A k \in Key : ~Old(k)
       \/ last = <<"destroy">> /\ \A k \in Key : map[k] = <<>>
    /\ last' = <<last[1], "done">>
    /\ UNCHANGED <<map, now>>

TimePasses == now < MaxTime /\ now' = now + 1 /\ UNCHANGED <<map, last>>

TableNext ==
    \/ \E k \in Key : Get(k) \/ Remove(k) \/ Leave(k) \/ \E v \in Value : Set(k, v)
    \/ \E op \in {"set", "get", "remove", "cleanup", "destroy"} : Begin(op)
    \/ SweepDone
    \/ TimePasses

TableSpec == TableInit /\ [][TableNext]_<<map, now, last>>
=============================================================================
