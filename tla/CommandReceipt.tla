--------------------------- MODULE CommandReceipt ---------------------------
(***************************************************************************)
(* What the command gateway promises a client: under one idempotency key   *)
(* there is at most one receipt, it keeps the payload it was accepted      *)
(* with, and it gets one final result.  CommandGateway implements this.    *)
(***************************************************************************)
CONSTANTS Keys, Payloads, Results

VARIABLES accepted, \* accepted[k]: the payload accepted under key k ({} or one)
          final     \* final[k]: its final result ({} or one)

rvars == <<accepted, final>>

RInit == /\ accepted = [k \in Keys |-> {}]
         /\ final = [k \in Keys |-> {}]

AcceptCommand(k, p) ==
  /\ accepted[k] = {}
  /\ accepted' = [accepted EXCEPT ![k] = {p}]
  /\ UNCHANGED final

Finish(k, r) ==
  /\ accepted[k] # {} /\ final[k] = {}
  /\ final' = [final EXCEPT ![k] = {r}]
  /\ UNCHANGED accepted

RNext == \E k \in Keys : \/ \E p \in Payloads : AcceptCommand(k, p)
                         \/ \E r \in Results : Finish(k, r)

RSpec == RInit /\ [][RNext]_rvars
=============================================================================
