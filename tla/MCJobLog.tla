------------------------------- MODULE MCJobLog -------------------------------
(* Two machines with one agent token each and two UUIDs: enough for one   *)
(* machine's job to be deleted and its UUID to go to the other's job while *)
(* a request of the first is between its two lookups.                      *)
EXTENDS JobLog, TLC

CONSTANTS c1, c2, m1, m2, u1, u2

MCScope == [c \in {c1, c2} |-> IF c = c1 THEN m1 ELSE m2]

\* Nothing tells the UUIDs apart, and swapping the two clients together
\* with the machines their tokens are scoped to maps MCScope to itself.
MCSwapUUIDs == (u1 :> u2) @@ (u2 :> u1)
MCSwapAgents == (c1 :> c2) @@ (c2 :> c1) @@ (m1 :> m2) @@ (m2 :> m1)
MCSymmetry ==
    {[x \in {c1, c2, m1, m2, u1, u2} |->
        IF x \in DOMAIN f THEN f[x] ELSE IF x \in DOMAIN g THEN g[x] ELSE x] :
       f \in {<< >>, MCSwapUUIDs}, g \in {<< >>, MCSwapAgents}}

====
