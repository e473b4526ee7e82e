------------------------------ MODULE Datagrams ------------------------------
(***************************************************************************)
(* What a datagram socket promises: a datagram arrives at the address it   *)
(* was sent to, once or not at all, in any order, and nothing arrives that *)
(* was not sent.                                                           *)
(*                                                                         *)
(* The game in the browser is written for UDP.  SocketPeers, the socket    *)
(* layer it is given instead (SOCKFS of public/ioquake3.js over            *)
(* websockets, behind the server's proxy), implements this specification   *)
(* in both directions.                                                     *)
(***************************************************************************)
EXTENDS Naturals

CONSTANT Addr           \* the addresses of the game servers

VARIABLES
    count,              \* datagrams sent, which are numbered 1, 2, ...
    flight,             \* those on their way, by address
    arrived             \* those that arrived, by address

vars == <<count, flight, arrived>>

Init ==
    /\ count = 0
    /\ flight = [a \in Addr |-> {}]
    /\ arrived = [a \in Addr |-> {}]

Send(a) ==
    /\ count' = count + 1
    /\ flight' = [flight EXCEPT ![a] = @ \cup {count'}]
    /\ UNCHANGED arrived

Arrive(a) ==
    \E i \in flight[a] :
        /\ flight' = [flight EXCEPT ![a] = @ \ {i}]
        /\ arrived' = [arrived EXCEPT ![a] = @ \cup {i}]
        /\ UNCHANGED count

Lose ==
    /\ flight' = [a \in Addr |-> flight'[a]]
    /\ \A a \in Addr : flight'[a] \subseteq flight[a]
    /\ UNCHANGED <<count, arrived>>

Next ==
    \/ \E a \in Addr : Send(a) \/ Arrive(a)
    \/ Lose

Spec == Init /\ [][Next]_vars
==============================================================================
