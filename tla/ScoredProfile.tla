---------------------------- MODULE ScoredProfile ----------------------------
(***************************************************************************)
(* The scores of one user's transactions (scoring.py, process_message) on  *)
(* top of the commands of UserProfile: a worker computes the score from    *)
(* the profile it reads first, and writes it, with the rest of the update, *)
(* for the next transaction to be judged by.                               *)
(***************************************************************************)
EXTENDS UserProfile, RiskRules

CONSTANT Kinds          \* sets of signals that transactions carry

ASSUME KindsAssumption == Kinds \subseteq SUBSET Signals

VARIABLES
    lastScore,          \* last_tx_score of the profile hash; without a profile it is 0
    score,              \* result.score of each worker between its commands
    strange             \* history: whether a transaction that the profile, or a worker, still
                        \* knows of was not ordinary, or far from the one before

scoreVars == <<lastScore, score, strange>>

ScoredInit == Init /\ lastScore = 0 /\ score = [w \in Workers |-> 0] /\ strange = FALSE

ProfileRead == [lastScore |-> lastScore, txCount10m |-> ScoredVelocity,
                count |-> profile.count, sum |-> profile.sum]

\* What an ordinary purchase may carry: a whole amount and no 3-D Secure, by day.
Ordinary == {"whole amount", "no 3ds"}

\* _is_impossible_travel: the place of the last transaction is known and too far
\* away for the time since.
Far == {FALSE, profile.count > 0}

\* The worker reads the profile and evaluates its transaction.
ScoreTransaction(w, a, tx, far) ==
    /\ Score(w, a)
    /\ score' = [score EXCEPT ![w] = Evaluate(tx, a, far, ProfileRead)]
    /\ strange' = (strange \/ far \/ ~(tx \subseteq Ordinary))
    /\ UNCHANGED lastScore

\* The score goes into the hash with the hset of the update.
WriteScore(w) ==
    /\ WriteProfile(w)
    /\ lastScore' = score[w]
    /\ score' = [score EXCEPT ![w] = 0]
    /\ UNCHANGED strange

AbandonScore(w) ==
    /\ Abandon(w)
    /\ score' = [score EXCEPT ![w] = 0]
    /\ UNCHANGED <<lastScore, strange>>

Forget ==
    /\ Tick
    /\ lastScore' = IF Gone(profile) THEN 0 ELSE lastScore
    /\ strange' = (strange /\ ~(Gone(profile) /\ \A w \in Workers : score[w] = 0))
    /\ UNCHANGED score

ScoredNext ==
    \/ \E w \in Workers :
          \/ \E a \in Amounts, tx \in Kinds, far \in Far : ScoreTransaction(w, a, tx, far)
          \/ (ReadProfile(w) \/ IncrementVelocity(w) \/ KeepVelocity(w) \/ KeepProfile(w)) /\ UNCHANGED scoreVars
          \/ WriteScore(w)
          \/ AbandonScore(w)
    \/ Forget

ScoredSpec == ScoredInit /\ [][ScoredNext]_<<vars, scoreVars>>

-----------------------------------------------------------------------------
(* Properties *)

\* A customer who buys ordinary things in ordinary amounts is never blocked: not
\* for a burst of purchases, not for a velocity that is out of date, and not for
\* a penalty, since no such purchase earns one, however two workers interleave.
OrdinaryIsNotBlocked ==
    ~strange => \A w \in Workers : RiskLevel(score[w]) # "BLOCKED"
=============================================================================
