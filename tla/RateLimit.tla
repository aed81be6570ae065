------------------------------ MODULE RateLimit -----------------------------
(* _check_limit: for each client and bucket a deque of the times at which      *)
(* requests were admitted.  The clock is read before the lock is taken, so the *)
(* threads of the API may enter in another order than they read it.            *)
EXTENDS Integers, Sequences, FiniteSets

CONSTANTS
  Callers,    \* threads that ask for the same key
  Limit,      \* admitted in one window
  WindowSeconds, \* window_seconds
  MaxClock,   \* bound: the last time
  MaxAdmitted \* bound: requests admitted

ASSUME RateAssumption ==
  Limit \in Nat \ {0} /\ WindowSeconds \in Nat /\ MaxClock \in Nat /\ MaxAdmitted \in Nat

VARIABLES
  clock,      \* time.time()
  reading,    \* what a caller has read from it, or Outside
  admitted,   \* history: the times of all admissions
  dropped,    \* the deque is what follows the first so many of them
  newest,     \* history: the latest reading that has reached the deque
  late        \* history: admissions with an older reading than that

rateVars == <<clock, reading, admitted, dropped, newest, late>>

Times == 0..MaxClock
Outside == -1

RateInit ==
  /\ clock = 0
  /\ reading = [c \in Callers |-> Outside]
  /\ admitted = <<>> /\ dropped = 0
  /\ newest = 0 /\ late = {}

Tick ==
  /\ clock < MaxClock
  /\ clock' = clock + 1
  /\ UNCHANGED <<reading, admitted, dropped, newest, late>>

\* enforce_rate_limit: the time is read, the lock not yet taken.
ReadClock(c) ==
  /\ reading[c] = Outside
  /\ reading' = [reading EXCEPT ![c] = clock]
  /\ UNCHANGED <<clock, admitted, dropped, newest, late>>

\* Mutant: what is exactly as old as the window is dropped as well.
ExpiredAtEdge(k, now) == admitted[k] <= now - WindowSeconds

Expired(k, now) == admitted[k] < now - WindowSeconds

\* popleft while the oldest has expired: d entries are gone afterwards.
Drops(d, now) ==
  /\ d \in dropped..Len(admitted)
  /\ \A k \in dropped+1..d : Expired(k, now)
  /\ d < Len(admitted) => ~Expired(d + 1, now)

\* Under the lock: drop, then refuse with 429 or admit.
Check(c) ==
  /\ reading[c] # Outside
  /\ Len(admitted) < MaxAdmitted
  /\ reading' = [reading EXCEPT ![c] = Outside]
  /\ newest' = IF reading[c] < newest THEN newest ELSE reading[c]
  /\ \E d \in 0..Len(admitted) :
       /\ Drops(d, reading[c])
       /\ dropped' = d
       /\ \/ /\ Len(admitted) - d >= Limit
             /\ UNCHANGED <<admitted, late>>
          \/ /\ Len(admitted) - d < Limit
             /\ admitted' = Append(admitted, reading[c])
             /\ late' = IF reading[c] < newest THEN late \cup {Len(admitted')} ELSE late
  /\ UNCHANGED clock

RateNext == Tick \/ \E c \in Callers : ReadClock(c) \/ Check(c)

RateSpec == RateInit /\ [][RateNext]_rateVars

-----------------------------------------------------------------------------
RateTypeOK ==
  /\ clock \in Nat /\ newest \in Nat
  /\ reading \in [Callers -> Nat \cup {Outside}]
  /\ admitted \in Seq(Nat)
  /\ dropped \in 0..Len(admitted)
  /\ late \subseteq 1..Len(admitted)

\* More requests than the limit never fit into one window, both of its ends
\* included: an admission and the one Limit later are more than a window apart.
\* Only a thread that was overtaken between the clock and the lock may be
\* admitted although the window it belongs to is full.
WindowBound ==
  \A i, j \in 1..Len(admitted) :
    j - i >= Limit /\ j \notin late => admitted[i] + WindowSeconds < admitted[j]
=============================================================================
