----------------------------- MODULE MCRequestGate -----------------------------
(* RequestGate for TLC: a local user and an SSO user, each with the JWT the    *)
(* service once issued, the SSO user's session and one API token.              *)
EXTENDS RequestGate, TLC

CONSTANTS alice, sam, t, ja, js, ss

MCHolder == (ja :> alice) @@ (js :> sam) @@ (ss :> sam)

\* alice administers; or sam does, and alice's account is still to be created
MCInitially == {(alice :> "admin") @@ (sam :> "viewer"),
                (alice :> Absent) @@ (sam :> "admin")}
===============================================================================
