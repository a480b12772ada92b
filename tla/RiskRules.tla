------------------------------ MODULE RiskRules ------------------------------
(***************************************************************************)
(* The rules of the risk score (scoring_engine.py, RiskEvaluator).  A      *)
(* transaction is the set of signals it carries on its own; the amount and *)
(* the place are compared with the profile of the user.                    *)
(*                                                                         *)
(* The rule about blacklisted addresses (72-75) is not here: it looks for  *)
(* ip_address among the undeclared fields, and the input schema takes that *)
(* name for its own client_ip.                                             *)
(***************************************************************************)
EXTENDS Integers

CONSTANTS
    Many,           \* tx_count_10m beyond which the velocity is suspicious (97)
    TooMany         \* and beyond which it is very much so (95)

ASSUME VelocityAssumption == Many \in Nat /\ TooMany \in Nat /\ Many <= TooMany

Signals == {"whole amount", "night", "risky mcc", "magstripe", "no 3ds", "blacklisted method"}

\* A rule that applies adds its points.
Points(n, applies) == IF applies THEN n ELSE 0

Stateless(tx) ==
    Points(5, "whole amount" \in tx)
    + Points(50, {"night", "risky mcc"} \subseteq tx)
    + Points(25, "risky mcc" \in tx /\ "night" \notin tx)
    + Points(15, "night" \in tx /\ "risky mcc" \notin tx)
    + Points(50, "magstripe" \in tx)
    + Points(20, "no 3ds" \in tx)
    + Points(100, "blacklisted method" \in tx)

\* A profile, as the rules see it: last score, velocity, count and sum of the
\* amounts.  far: the last place cannot have been left for this one in time.
IsSpike(amount, profile) == profile.sum > 0 /\ amount * profile.count > 3 * profile.sum

\* Mutant: an amount of three times the average is one too many.
Stateful_SpikeAtThree(amount, far, profile) ==
    Points(50, profile.lastScore > 80) + Points(60, far)
    + Points(45, profile.txCount10m > TooMany)
    + Points(15, profile.txCount10m > Many /\ profile.txCount10m <= TooMany)
    + Points(25, profile.sum > 0 /\ amount * profile.count >= 3 * profile.sum)

Stateful(amount, far, profile) ==
    Points(50, profile.lastScore > 80)
    + Points(60, far)
    + Points(45, profile.txCount10m > TooMany)
    + Points(15, profile.txCount10m > Many /\ profile.txCount10m <= TooMany)
    + Points(25, IsSpike(amount, profile))

Capped(n) == IF n <= 100 THEN n ELSE 100

Evaluate(tx, amount, far, profile) == Capped(Stateless(tx) + Stateful(amount, far, profile))

RiskLevel(score) ==
    CASE score <= 20 -> "APPROVED"
      [] score > 20 /\ score <= 79 -> "SUSPICIOUS"
      [] score > 79 -> "BLOCKED"
=============================================================================
