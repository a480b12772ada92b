----------------------------- MODULE UserProfile -----------------------------
(***************************************************************************)
(* The profile of one user in Redis (scoring-system/src/redis_state.py)    *)
(* and the scoring workers that read and update it while they process      *)
(* that user's transactions (scoring.py, process_message).                 *)
(*                                                                         *)
(* Two keys: the profile hash and the velocity counter, each with its own  *)
(* time to live.  A worker reads the hash to score, reads it again to      *)
(* update, increments the counter, renews its time to live, writes the     *)
(* hash and renews that one: six commands of their own, between which      *)
(* another worker's commands may come.  Any of them may raise, with or     *)
(* without having taken effect, and then the rest are not sent.            *)
(*                                                                         *)
(* Time may pass between any two commands, so a key may be dropped in the  *)
(* middle of an update.  What comes after then meets no key: an expire     *)
(* does nothing, incr and hset make a new one without a time to live.      *)
(*                                                                         *)
(* The rolling average is kept as the exact sum it stands for (average     *)
(* times count): rounding is not modelled.                                 *)
(***************************************************************************)
EXTENDS Integers, FiniteSets, Sequences

CONSTANTS
    Workers,        \* the scoring workers
    Amounts,        \* the amounts of transactions
    Window,         \* the 600 seconds of the velocity counter
    ProfileTTL,     \* profile_ttl_seconds
    MaxTime,        \* bound on the clock
    MaxUpdates,     \* bound on the transactions
    MaxFaults       \* bound on the failing commands

ASSUME ProfileAssumption ==
    /\ Amounts \subseteq Nat \ {0}
    /\ Window \in Nat \ {0}
    /\ ProfileTTL \in Nat \ {0}
    /\ {MaxTime, MaxUpdates, MaxFaults} \subseteq Nat

ASSUME WorkersAssumption == IsFiniteSet(Workers)

VARIABLES
    now,            \* the clock
    profile,        \* user-profile:<id>
    velocity,       \* user-velocity:<id>
    pc,             \* the next command of each worker
    work,           \* what each worker holds between its commands
    increments,     \* history: when the counter was incremented
    written,        \* history: the sum and number of the amounts written into the profile
    overlapped,     \* history: whether a worker wrote over a reading of another one,
                    \* or holds a reading of a profile that was dropped since
    missed,         \* history: how many increments went with the counter before
                    \* their worker could renew its time to live
    faults          \* how many transactions were abandoned

historyVars == <<increments, written, overlapped, missed>>
vars == <<now, profile, velocity, pc, work, historyVars, faults>>

Forever == 0    \* a key without a time to live; deadlines are positive

\* Keys that do not exist; one that does counts at least one transaction.
NoProfile == [count |-> 0, sum |-> 0, txCount10m |-> 0, deadline |-> Forever]
NoVelocity == [n |-> 0, deadline |-> Forever]
Nothing == [count |-> 0, sum |-> 0]
Idle == [amount |-> 0, count |-> 0, sum |-> 0, txCount10m |-> 0]

TypeOK ==
    /\ now \in 0..MaxTime
    /\ profile \in [count : Nat, sum : Nat, txCount10m : Nat, deadline : Nat]
    /\ velocity \in [n : Nat, deadline : Nat]
    /\ pc \in [Workers -> {"idle", "read", "increment", "keepVelocity", "write", "keepProfile"}]
    /\ work \in [Workers -> [amount : Nat, count : Nat, sum : Nat, txCount10m : Nat]]
    /\ increments \in Seq(0..MaxTime)
    /\ written \in [count : Nat, sum : Nat]
    /\ overlapped \in BOOLEAN
    /\ missed \in Nat
    /\ faults \in 0..MaxFaults

Init ==
    /\ now = 0
    /\ profile = NoProfile
    /\ velocity = NoVelocity
    /\ pc = [w \in Workers |-> "idle"]
    /\ work = [w \in Workers |-> Idle]
    /\ increments = <<>>
    /\ written = Nothing
    /\ overlapped = FALSE
    /\ missed = 0
    /\ faults = 0

Goto(w, step) == pc' = [pc EXCEPT ![w] = step]

\* get_user_profile and the score it goes into; the velocity that the score
\* uses is the one stored in the profile.
Score(w, a) ==
    /\ pc[w] = "idle"
    /\ Len(increments) < MaxUpdates
    /\ work' = [work EXCEPT ![w] = [Idle EXCEPT !.amount = a]]
    /\ Goto(w, "read")
    /\ UNCHANGED <<now, profile, velocity, historyVars, faults>>

ScoredVelocity == profile.txCount10m

\* update_user_profile, command by command.
ReadProfile(w) ==
    /\ pc[w] = "read"
    /\ work' = [work EXCEPT ![w].count = profile.count, ![w].sum = profile.sum]
    /\ Goto(w, "increment")
    /\ UNCHANGED <<now, profile, velocity, historyVars, faults>>

IncrementVelocity(w) ==
    /\ pc[w] = "increment"
    /\ velocity' = [velocity EXCEPT !.n = @ + 1]
    /\ work' = [work EXCEPT ![w].txCount10m = velocity.n + 1]
    /\ increments' = Append(increments, now)
    /\ Goto(w, "keepVelocity")
    /\ UNCHANGED <<now, profile, written, overlapped, missed, faults>>

\* expire: a key that is there gets a new deadline.
Renewed(key, exists, deadline) == IF exists THEN [key EXCEPT !.deadline = deadline] ELSE key

KeepVelocityUntil(w, deadline) ==
    /\ pc[w] = "keepVelocity"
    /\ velocity' = Renewed(velocity, velocity.n > 0, deadline)
    /\ Goto(w, "write")
    /\ UNCHANGED <<now, profile, work, historyVars, faults>>

\* Change: the window is opened by its first transaction only.
KeepVelocity_FromFirst(w) ==
    KeepVelocityUntil(w, IF work[w].txCount10m = 1 THEN now + Window ELSE velocity.deadline)

\* Change: the deadline is reckoned backwards.
KeepVelocity_Backwards(w) == KeepVelocityUntil(w, now - Window)

KeepVelocity(w) == KeepVelocityUntil(w, now + Window)

\* Workers that have read the profile and not yet written it.
Updating == {w \in Workers : pc[w] \in {"increment", "keepVelocity", "write"}}

\* hset leaves the time to live of an existing key alone.
WriteWith(w, newCount) ==
    /\ pc[w] = "write"
    /\ profile' = [profile EXCEPT !.count = newCount,
                                  !.sum = work[w].sum + work[w].amount,
                                  !.txCount10m = work[w].txCount10m]
    /\ written' = [count |-> written.count + 1, sum |-> written.sum + work[w].amount]
    /\ overlapped' = (overlapped \/ Updating # {w})
    /\ Goto(w, "keepProfile")
    /\ UNCHANGED <<now, velocity, work, increments, missed, faults>>

\* Change: the average is over the transactions the velocity counter knows.
WriteProfile_OverVelocity(w) == WriteWith(w, work[w].txCount10m)

\* Change: the new average is taken over the old number of transactions.
WriteProfile_OldCount(w) ==
    WriteWith(w, IF work[w].count = 0 THEN 1 ELSE work[w].count)

WriteProfile(w) == WriteWith(w, work[w].count + 1)

KeepProfile(w) ==
    /\ pc[w] = "keepProfile"
    /\ profile' = Renewed(profile, profile.count > 0, now + ProfileTTL)
    /\ work' = [work EXCEPT ![w] = Idle]
    /\ Goto(w, "idle")
    /\ UNCHANGED <<now, velocity, historyVars, faults>>

\* A command raises before or after it took effect, or the worker is killed:
\* the rest of the commands are not sent.
Abandon(w) ==
    /\ pc[w] # "idle"
    /\ faults < MaxFaults
    /\ faults' = faults + 1
    /\ work' = [work EXCEPT ![w] = Idle]
    /\ Goto(w, "idle")
    /\ UNCHANGED <<now, profile, velocity, historyVars>>

Gone(key) == key.deadline # Forever /\ key.deadline <= now + 1

\* Workers between incr and expire.
Keeping == {w \in Workers : pc[w] = "keepVelocity"}

\* Time passes, and Redis drops the keys whose time is over, wherever the
\* workers are.
Tick ==
    /\ now < MaxTime
    /\ now' = now + 1
    /\ IF Gone(velocity)
       THEN velocity' = NoVelocity /\ missed' = missed + Cardinality(Keeping)
       ELSE UNCHANGED <<velocity, missed>>
    /\ IF Gone(profile)
       THEN profile' = NoProfile /\ written' = Nothing /\ overlapped' = (Updating # {})
       ELSE UNCHANGED <<profile, written, overlapped>>
    /\ UNCHANGED <<pc, work, increments, faults>>

Next ==
    \/ \E w \in Workers :
          \/ \E a \in Amounts : Score(w, a)
          \/ ReadProfile(w)
          \/ IncrementVelocity(w)
          \/ KeepVelocity(w)
          \/ WriteProfile(w)
          \/ KeepProfile(w)
          \/ Abandon(w)
    \/ Tick

Spec == Init /\ [][Next]_vars

-----------------------------------------------------------------------------
(* Properties *)

\* How many transactions the counter saw within the last Window.
Recent == Cardinality({i \in DOMAIN increments : increments[i] > now - Window})

\* The stored average is an average of amounts this user really spent: it lies
\* between the least and the greatest of them, also when workers overwrite each
\* other's updates and updates break off.  The spike rule (three times the
\* average, scoring_engine.py:101) never compares with an impossible amount.
AverageIsPlausible ==
    \A lo, hi \in Amounts :
        (\A a \in Amounts : lo <= a /\ a <= hi)
            => lo * profile.count <= profile.sum /\ profile.sum <= hi * profile.count

\* The average is exact unless two workers updated the user at the same time,
\* or the profile was dropped between a worker's reading and its writing:
\* broken-off updates leave it exact, since one hset writes all of it.
AverageIsExact ==
    ~overlapped => profile.count = written.count /\ profile.sum = written.sum

\* The counter misses a transaction of the last ten minutes only if its update
\* had not come from incr to expire when the counter was dropped, or broke off
\* there; once renewed it covers every transaction before, whoever else is
\* updating and whenever keys are dropped.
VelocityNeverUndercounts == Recent <= velocity.n + missed + faults
=============================================================================
