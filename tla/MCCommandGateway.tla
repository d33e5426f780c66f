-------------------------- MODULE MCCommandGateway --------------------------
(* CommandGateway for TLC.  A behaviour is about rival submissions or about the  *)
(* owners and consumers of one command, and `part' says which.                   *)
EXTENDS CommandGateway, TLC

CONSTANTS o1, o2, c1, c2, w1, w2, s1, s2
VARIABLE part
allVars == <<vars, part>>

\* A request, another payload under its key, and one that the policy refuses.
ReqRival == [r \in Requests |-> CASE r = "first" -> [key |-> "k1", payload |-> "p1", allowed |-> TRUE]
                                [] r = "rival" -> [key |-> "k1", payload |-> "p2", allowed |-> TRUE]
                                [] OTHER -> [key |-> "k1", payload |-> "p1", allowed |-> FALSE]]

\* Who takes part: two clients before one owner and one consumer, or one call that
\* does not fail before two of each, one fault or owner that stops, and other results.  Idle
\* ones are alike, so the second owner or consumer begins when the first is at work.
\* A rejected result is like a successful one, and so only in the first part; another
\* result is published before the claim, and delivered at any time after that.
Works(w)    == w = w1 \/ (part = "owner" /\ {opc[w], opc[w1]} # {"idle"})
Consumes(k) == k = s1 \/ (part = "owner" /\ {kpc[k], kpc[s1]} # {"idle"})
Limits ==
  /\ part = "submit" => ownerStops' = 0 /\ \A o \in OpIds : rstate'[o]["other"] = "none"
  /\ part = "owner" =>
       /\ calls' <= 1 /\ op'[o2] = NoReceipt /\ creq'[c1] \subseteq {"first"} /\ creq'[c2] = {}
       /\ faults' # faults => clientVars' = clientVars
       /\ \A o \in OpIds : rstate[o]["other"] = "none" /\ rstate'[o]["other"] # "none"
                          => inbox[o] = "NONE"
       /\ \A w \in Owners : \A r \in ores'[w] : r.status # "REJECTED"
       /\ faults' + ownerStops' <= 1
  /\ \A w \in Owners : ~Works(w) => opc'[w] = opc[w]
  /\ \A k \in Consumers : ~Consumes(k) => kpc'[k] = kpc[k]

PartInit == Init /\ part \in {"submit", "owner"}
PartNext == Next /\ Limits /\ UNCHANGED part
PartSpec == PartInit /\ [][PartNext]_allVars

PartFairSpec ==
  /\ PartSpec
  /\ \A c \in Clients : WF_vars(CallStep(c))
  /\ \A w \in Owners : WF_vars(Works(w) /\ OwnerStep(w))
  /\ \A k \in Consumers : WF_vars(Consumes(k) /\ ConsumerStep(k))
=============================================================================
