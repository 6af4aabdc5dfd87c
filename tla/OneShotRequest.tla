--------------------------- MODULE OneShotRequest ---------------------------
(***************************************************************************)
(* What an Idempotency-Key promises its caller, whatever the retries,      *)
(* crashes and late writers behind it: the tools with effects that cannot  *)
(* be replayed run on behalf of at most one attempt, and every attempt     *)
(* that is answered at all is answered with the same response.             *)
(***************************************************************************)
CONSTANTS Keys, Attempts, Responses, None

VARIABLES actor,    \* actor[k]: the one attempt whose effects ran, or None
          verdict   \* verdict[k]: the one response of this key, or None

Init == /\ actor = [k \in Keys |-> None]
        /\ verdict = [k \in Keys |-> None]

\* An attempt starts a tool whose effect cannot be replayed.
Act(k, a) == /\ actor[k] \in {None, a}
             /\ actor' = [actor EXCEPT ![k] = a]
             /\ UNCHANGED verdict

\* The request gets its one response.
Settle(k, r) == /\ verdict[k] = None
                /\ verdict' = [verdict EXCEPT ![k] = r]
                /\ UNCHANGED actor

Next == \E k \in Keys : \/ \E a \in Attempts : Act(k, a)
                        \/ \E r \in Responses : Settle(k, r)

Spec == Init /\ [][Next]_<<actor, verdict>>
=============================================================================
