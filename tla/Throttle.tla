------------------------------- MODULE Throttle -------------------------------
(***************************************************************************)
(* LoginThrottle: the brake the server process puts on wrong passwords.    *)
(* One lock for all sessions; wait() sleeps with the lock held, and        *)
(* record() takes it too.  The clock's stamps are kept as what they say     *)
(* now: how old a failure is, how long a sleep still lasts, in seconds.     *)
(***************************************************************************)
EXTENDS Integers, Sequences, FiniteSets

CONSTANTS
  Session,                      \* browser tabs, each a thread of its own
  NoSession,
  LOGIN_FREE_FAILURES, LOGIN_FAILURE_WINDOW_SECONDS, MAX_LOGIN_DELAY_SECONDS

VARIABLES
  failures,     \* the ages of the wrong passwords recorded, oldest first
  lock,         \* the session that sleeps in wait(), or NoSession
  sleep         \* per session: what is left of its sleep

ASSUME ThrottleAssumption ==
  /\ NoSession \notin Session
  /\ LOGIN_FREE_FAILURES \in Nat
  /\ LOGIN_FAILURE_WINDOW_SECONDS \in Nat
  /\ MAX_LOGIN_DELAY_SECONDS \in Nat

throttleVars == <<failures, lock, sleep>>

ThrottleInit ==
  /\ failures = <<>>
  /\ lock = NoSession
  /\ sleep = [s \in Session |-> 0]

(* Mutant: one more attempt is free. *)
DelayFor_OneMoreFree(recent) ==
  LET over    == recent - LOGIN_FREE_FAILURES
      doubled == 2^(over + 1)
  IN  IF over <= 0 THEN 0
      ELSE IF doubled < MAX_LOGIN_DELAY_SECONDS THEN doubled ELSE MAX_LOGIN_DELAY_SECONDS

(* 0 while the free attempts last, then 2, 4, 8... up to the cap. *)
DelayFor(recent) ==
  LET over    == recent - LOGIN_FREE_FAILURES
      doubled == 2^(over + 1)
  IN  IF over < 0 THEN 0
      ELSE IF doubled < MAX_LOGIN_DELAY_SECONDS THEN doubled ELSE MAX_LOGIN_DELAY_SECONDS

Recent(age) == age <= LOGIN_FAILURE_WINDOW_SECONDS

(* The old ones leave from the front, up to the first recent one. *)
SinceRecent(ages) ==
  LET recent == {n \in DOMAIN ages : Recent(ages[n])}
  IN  IF recent = {} THEN <<>>
      ELSE SubSeq(ages, CHOOSE n \in recent : \A m \in recent : n <= m, Len(ages))

Pruned == SinceRecent(failures)

(* Mutant: the lock guards the computation of the delay, not the sleep. *)
BeginWait_Unlocked(s) ==
  /\ lock = NoSession
  /\ failures' = Pruned
  /\ sleep' = [sleep EXCEPT ![s] = DelayFor(Len(Pruned))]
  /\ UNCHANGED lock

(* wait(), up to its sleep... *)
BeginWait(s) ==
  /\ lock = NoSession
  /\ lock' = s
  /\ failures' = Pruned
  /\ sleep' = [sleep EXCEPT ![s] = DelayFor(Len(Pruned))]

(* Mutant: the sleep is over, the lock is kept. *)
EndWait_LockKept(s) == sleep[s] = 0 /\ UNCHANGED throttleVars

(* ...and from its end. *)
EndWait(s) ==
  /\ sleep[s] = 0
  /\ lock' = NoSession
  /\ UNCHANGED <<failures, sleep>>

RecordOk ==
  /\ lock = NoSession
  /\ failures' = <<>>
  /\ UNCHANGED <<lock, sleep>>

RecordWrong ==
  /\ lock = NoSession
  /\ failures' = Append(Pruned, 0)
  /\ UNCHANGED <<lock, sleep>>

(* A second passes; what is older than the window only is older. *)
Older(age) == IF Recent(age) THEN age + 1 ELSE age

Tick ==
  /\ failures' = [n \in DOMAIN failures |-> Older(failures[n])]
  /\ sleep' = [s \in Session |-> IF sleep[s] > 0 THEN sleep[s] - 1 ELSE 0]
  /\ UNCHANGED lock

-----------------------------------------------------------------------------
OldestFirst(ages) == \A m, n \in DOMAIN ages : m <= n => ages[m] >= ages[n]

(* The failures are in order of time, which is what lets pruning stop at    *)
(* the first recent one.                                                    *)
ThrottleTypeOK ==
  /\ failures \in Seq(0..LOGIN_FAILURE_WINDOW_SECONDS + 1)
  /\ OldestFirst(failures)
  /\ lock \in Session \cup {NoSession}
  /\ sleep \in [Session -> 0..MAX_LOGIN_DELAY_SECONDS]

=============================================================================
