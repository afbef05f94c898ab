--------------------------- MODULE MCOAuthRefresh ---------------------------
(* Two workers: the background cycle of one process, and a request of the *)
(* same process, or the cycle or a request of another.  A request of       *)
(* another process for a Grok account is a cycle's attempt that judges     *)
(* nothing, and is left out.                                               *)
EXTENDS OAuthRefresh, TLC

CONSTANTS p1, p2, w1, w2

Deployment(g, p, k) ==
    [grok |-> g, home |-> w1 :> p1 @@ w2 :> p, kind |-> w1 :> "background" @@ w2 :> k]

MCDeployments ==
    {Deployment(g, p1, "request") : g \in BOOLEAN}
    \cup {Deployment(g, p2, "background") : g \in BOOLEAN}
    \cup {Deployment(FALSE, p2, "request")}
=============================================================================
