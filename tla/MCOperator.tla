----------------------------- MODULE MCOperator -----------------------------
(* Values for the constants of Operator.                                   *)
EXTENDS Operator, TLC

CONSTANTS a, b, c1, t1, t2

Given(paused, routes, ref) ==
    [cfg |-> c1, paused |-> paused, routes |-> routes, ref |-> ref]

\* A plain server, a paused one, one behind a gateway, and one that takes its
\* configuration from the template.
Plain == Given(FALSE, {}, FALSE)
Paused == Given(TRUE, {}, FALSE)
Hosted == Given(FALSE, {"HTTPRoute"}, FALSE)
Templated == Given(FALSE, {}, TRUE)

AllSpecs == {Plain, Paused, Hosted, Templated}

WithRoute == <<"ConfigMap", "Deployment", "HTTPRoute">>

(* Two scenarios: one server, with faults; and two servers, one with a route  *)
(* and one with a template, without.                                         *)
VARIABLE scenario

Roles ==
    IF scenario = "one" THEN (a :> {Plain, Paused, Templated}) @@ (b :> {})
    ELSE (a :> {Hosted}) @@ (b :> {Templated})

\* The two contents of the template differ in nothing: t1 comes first.
Allowed ==
    /\ \A n \in Names : api'[n] # None => api'[n].spec \in Roles[n]
    /\ template' = t2 => template # None
    /\ scenario = "two" => ops' <= 2 /\ faults' = 0

MCInit == Init /\ scenario \in {"one", "two"}
MCNext == Next /\ Allowed /\ UNCHANGED scenario
MCSpec == MCInit /\ [][MCNext]_<<vars, scenario>> /\ Fairness
=============================================================================
