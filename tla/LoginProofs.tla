----------------------------- MODULE LoginProofs -----------------------------
(***************************************************************************)
(* Proofs about the login gate, for any number of sessions and browsers,   *)
(* any passwords typed and any times the throttle is set to.               *)
(***************************************************************************)
EXTENDS Login, FiniteSetTheorems, SequenceTheorems, WellFoundedInduction, TLAPS

LoginTyped ==
  /\ failures \in Seq(Nat)
  /\ lock \in Session \cup {NoSession}
  /\ sleep \in [Session -> Int]
  /\ stage \in [Session -> Stage]
  /\ authed \in [Session -> BOOLEAN]
  /\ logged_out \in [Session -> BOOLEAN]
  /\ quiet \in 0..MAX_LOGIN_DELAY_SECONDS
  /\ left \subseteq Session

(* Whoever sleeps in wait() has the lock, and nobody else. *)
OneSleeper == \A s \in Session : lock = s <=> stage[s] = "sleeping"

(* What a sleeper has slept, and what it has still to sleep, cover the      *)
(* delay the failures ask for: they cannot change while it has the lock.    *)
SleepCovers == \A s \in Session : lock = s => quiet + sleep[s] >= DelayFor(Len(failures))

LoginInv == LoginTyped /\ OneSleeper /\ SleepCovers

-----------------------------------------------------------------------------
(* A delay never exceeds the cap. *)
LEMMA DelayCapped ==
  ASSUME NEW n \in Int
  PROVE  DelayFor(n) \in Int /\ DelayFor(n) <= MAX_LOGIN_DELAY_SECONDS
<1> DEFINE over == n - LOGIN_FREE_FAILURES
<1>1. over \in Int /\ MAX_LOGIN_DELAY_SECONDS \in Nat
  BY ThrottleAssumption
<1>2. over >= 0 => 2^(over + 1) \in Int
  <2> SUFFICES ASSUME over >= 0 PROVE 2^(over + 1) \in Int
    OBVIOUS
  <2> DEFINE k == over + 1
  <2>1. k \in Nat
    BY <1>1
  <2> HIDE DEF k
  <2>2. 2^k \in Int
    BY <2>1
  <2> QED BY <2>2 DEF k
<1> QED BY <1>1, <1>2 DEF DelayFor

(* What leaves a list of ages are those before the first recent one: nothing *)
(* recent is lost, and what is left starts with a recent one.              *)
LEMMA SinceRecentDrops ==
  ASSUME NEW ages \in Seq(Nat)
  PROVE  \E k \in 0..Len(ages) :
           /\ SinceRecent(ages) \in Seq(Nat) /\ Len(SinceRecent(ages)) = Len(ages) - k
           /\ \A n \in 1..(Len(ages) - k) : SinceRecent(ages)[n] = ages[n + k]
           /\ \A n \in 1..k : ~Recent(ages[n])
           /\ k < Len(ages) => Recent(ages[k + 1])
<1> DEFINE recent == {n \in DOMAIN ages : Recent(ages[n])}
<1>0. DOMAIN ages = 1..Len(ages) /\ Len(ages) \in Nat
  OBVIOUS
<1>1. CASE recent = {}
  <2>1. SinceRecent(ages) = <<>>
    BY <1>1 DEF SinceRecent
  <2>2. \A n \in 1..Len(ages) : ~Recent(ages[n])
    BY <1>0, <1>1
  <2>3. Len(ages) - Len(ages) = 0 /\ ~ (Len(ages) < Len(ages)) /\ Len(<<>>) = 0 /\ Len(ages) \in 0..Len(ages)
    BY <1>0
  <2>4. WITNESS Len(ages) \in 0..Len(ages)
  <2> QED BY <1>0, <2>1, <2>2, <2>3
<1>2. CASE recent # {}
  <2>1. recent \subseteq Nat
    BY <1>0
  <2>2. PICK n \in recent : \A m \in recent : ~ (<<m, n>> \in OpToRel(<, Nat))
    BY <1>2, <2>1, WFMin, NatLessThanWellFounded, Zenon
  <2>3. \A m \in recent : n <= m
    <3> TAKE m \in recent
    <3>1. ~ (m < n)
      BY <2>1, <2>2 DEF OpToRel
    <3> QED BY <2>1, <3>1
  <2> DEFINE first == CHOOSE k \in recent : \A m \in recent : k <= m
  <2>4. first \in recent /\ \A m \in recent : first <= m
    BY <2>3
  <2>5. SinceRecent(ages) = SubSeq(ages, first, Len(ages))
    BY <1>2 DEF SinceRecent
  <2>6. first \in 1..Len(ages) /\ Recent(ages[first])
    BY <1>0, <2>4
  <2>7. \A m \in 1..(first - 1) : ~Recent(ages[m])
    <3> SUFFICES ASSUME NEW m \in 1..(first - 1), Recent(ages[m]) PROVE FALSE
      OBVIOUS
    <3>1. m \in recent
      BY <1>0, <2>6
    <3>2. first <= m
      BY <2>4, <3>1
    <3> HIDE DEF first
    <3> QED BY <1>0, <2>6, <3>2
  <2> HIDE DEF first, recent
  <2>8. \A i \in first..Len(ages) : ages[i] \in Nat
    BY <1>0, <2>6
  <2>9. /\ SubSeq(ages, first, Len(ages)) \in Seq(Nat)
        /\ Len(SubSeq(ages, first, Len(ages))) = Len(ages) - first + 1
        /\ \A i \in 1..(Len(ages) - first + 1) : SubSeq(ages, first, Len(ages))[i] = ages[first + i - 1]
    BY <1>0, <2>6, <2>8, SubSeqProperties
  <2> DEFINE k == first - 1
  <2>10. k \in 0..Len(ages) /\ Recent(ages[k + 1])
    BY <1>0, <2>6
  <2>11. Len(SinceRecent(ages)) = Len(ages) - k /\ SinceRecent(ages) \in Seq(Nat)
    BY <1>0, <2>5, <2>6, <2>9
  <2>12. \A i \in 1..(Len(ages) - k) : SinceRecent(ages)[i] = ages[i + k]
    BY <1>0, <2>5, <2>6, <2>9
  <2> QED BY <2>7, <2>10, <2>11, <2>12
<1> QED BY <1>1, <1>2

(* What the throttle keeps of its failures is a list of failures. *)
LEMMA PrunedTyped == ASSUME failures \in Seq(Nat) PROVE Pruned \in Seq(Nat)
  BY SinceRecentDrops DEF Pruned

(* The rooms open empty: nobody sleeps and nothing is to be covered. *)
LEMMA InitLogin == Init => LoginInv
<1> SUFFICES ASSUME Init PROVE LoginInv
  OBVIOUS
<1> USE ThrottleAssumption
<1>1. LoginTyped
  BY DEF Init, ThrottleInit, LoginTyped, Stage
<1>2. OneSleeper /\ SleepCovers
  BY DEF Init, ThrottleInit, OneSleeper, SleepCovers
<1> QED BY <1>1, <1>2 DEF LoginInv

(* A step that leaves the throttle and the answers alone, and neither sends *)
(* a session to sleep nor wakes one.                                        *)
LEMMA SessionStep ==
  ASSUME LoginInv, LoginTyped',
         UNCHANGED <<throttleVars, quiet>>,
         \A s \in Session : stage'[s] = "sleeping" <=> stage[s] = "sleeping"
  PROVE  LoginInv'
  BY DEF LoginInv, OneSleeper, SleepCovers, throttleVars, DelayFor

(* While nobody sleeps nothing is covered: a step that takes no lock.       *)
LEMMA LockFreeStep ==
  ASSUME LoginInv, LoginTyped', lock = NoSession, lock' = NoSession,
         \A s \in Session : stage'[s] = "sleeping" <=> stage[s] = "sleeping"
  PROVE  LoginInv'
  BY ThrottleAssumption DEF LoginInv, OneSleeper, SleepCovers

(* Entering the throttle starts a sleep of the whole delay. *)
LEMMA WaitStep ==
  ASSUME LoginInv, NEW s \in Session, Wait(s)
  PROVE  LoginInv'
<1> USE DEF LoginInv, LoginTyped
<1>1. /\ lock = NoSession /\ lock' = s /\ failures' = Pruned
      /\ sleep' = [sleep EXCEPT ![s] = DelayFor(Len(Pruned))]
      /\ stage' = [stage EXCEPT ![s] = "sleeping"]
      /\ UNCHANGED <<authed, logged_out, quiet, left>>
  BY DEF Wait, BeginWait
<1>2. failures' \in Seq(Nat) /\ Len(Pruned) \in Int
  BY <1>1, PrunedTyped
<1>3. DelayFor(Len(Pruned)) \in Int
  BY <1>2, DelayCapped
<1>4. LoginTyped'
  BY <1>1, <1>2, <1>3 DEF Stage
<1>5. OneSleeper'
  BY <1>1, ThrottleAssumption DEF OneSleeper
<1>6. SleepCovers'
  <2>1. DelayFor(Len(failures))' = DelayFor(Len(Pruned))
    BY <1>1 DEF DelayFor
  <2>2. sleep'[s] = DelayFor(Len(Pruned)) /\ quiet' \in Nat
    BY <1>1
  <2> QED BY <1>1, <1>3, <2>1, <2>2 DEF SleepCovers
<1> QED BY <1>4, <1>5, <1>6

(* The answer is given when the sleep is over, so it has been covered. *)
LEMMA AwakeStep ==
  ASSUME LoginInv, NEW s \in Session, Awake(s)
  PROVE  LoginInv'
<1> USE DEF LoginInv, LoginTyped
<1>1. /\ stage[s] = "sleeping" /\ lock' = NoSession
      /\ stage' = [stage EXCEPT ![s] = "answering"] /\ quiet' = 0
      /\ UNCHANGED <<failures, sleep, authed, logged_out, left>>
  BY DEF Awake, EndWait
<1>2. LoginTyped'
  BY <1>1, ThrottleAssumption DEF Stage
<1>3. OneSleeper'
  BY <1>1, ThrottleAssumption DEF OneSleeper
<1>4. SleepCovers'
  BY <1>1, ThrottleAssumption DEF SleepCovers
<1> QED BY <1>2, <1>3, <1>4

(* A function on the first n numbers is a sequence. *)
LEMMA FunctionIsSeq ==
  ASSUME NEW n \in Nat, NEW S, NEW f \in [1..n -> S]
  PROVE  f \in Seq(S) /\ Len(f) = n
<1>1. f \in Seq(S)
  BY SeqDef
<1> QED BY <1>1, LenProperties

(* A tick takes as much from the sleep to come as it adds to the one slept. *)
LEMMA TimeStep == ASSUME LoginInv, TimePasses PROVE LoginInv'
<1> USE DEF LoginInv, LoginTyped
<1>1. /\ failures' = [n \in DOMAIN failures |-> Older(failures[n])]
      /\ sleep' = [s \in Session |-> IF sleep[s] > 0 THEN sleep[s] - 1 ELSE 0]
      /\ quiet' = IF quiet < MAX_LOGIN_DELAY_SECONDS THEN quiet + 1 ELSE quiet
      /\ UNCHANGED <<lock, stage, authed, logged_out, left>>
  BY DEF TimePasses, Tick, sessionVars
<1>2. failures' \in Seq(Nat) /\ Len(failures') = Len(failures)
  <2>1. \A n \in DOMAIN failures : Older(failures[n]) \in Nat
    BY DEF Older
  <2>2. DOMAIN failures = 1..Len(failures) /\ Len(failures) \in Nat
    OBVIOUS
  <2>3. failures' \in [1..Len(failures) -> Nat]
    BY <1>1, <2>1, <2>2
  <2> QED BY <2>2, <2>3, FunctionIsSeq
<1>3. quiet' \in 0..MAX_LOGIN_DELAY_SECONDS /\ sleep' \in [Session -> Int]
  BY <1>1, ThrottleAssumption
<1>4. LoginTyped'
  BY <1>1, <1>2, <1>3
<1>5. OneSleeper'
  BY <1>1 DEF OneSleeper
<1>6. SleepCovers'
  <2> SUFFICES ASSUME NEW s \in Session, lock' = s
               PROVE  quiet' + sleep'[s] >= DelayFor(Len(failures))'
    BY DEF SleepCovers
  <2> DEFINE due == DelayFor(Len(failures))
  <2>1. due \in Int /\ due <= MAX_LOGIN_DELAY_SECONDS
    BY DelayCapped
  <2>2. DelayFor(Len(failures))' = due
    BY <1>2 DEF DelayFor
  <2> HIDE DEF due
  <2>3. quiet + sleep[s] >= due
    BY <1>1 DEF SleepCovers, due
  <2>4. sleep'[s] = IF sleep[s] > 0 THEN sleep[s] - 1 ELSE 0
    BY <1>1
  <2>5. quiet \in Nat /\ MAX_LOGIN_DELAY_SECONDS \in Nat /\ sleep[s] \in Int
    BY ThrottleAssumption
  <2> QED BY <1>1, <2>1, <2>2, <2>3, <2>4, <2>5
<1> QED BY <1>4, <1>5, <1>6

(* Every step keeps the invariant. *)
LEMMA LoginStep == LoginInv /\ [Next]_vars => LoginInv'
<1> SUFFICES ASSUME LoginInv, [Next]_vars PROVE LoginInv'
  OBVIOUS
<1>1. ASSUME NEW s \in Session, CookieAdmits(s) PROVE LoginInv'
  <2>1. LoginTyped'
    BY <1>1 DEF CookieAdmits, LoginInv, LoginTyped, Stage, throttleVars, history
  <2> QED BY <1>1, <2>1, SessionStep DEF CookieAdmits, LoginInv, LoginTyped, history
<1>2. ASSUME NEW s \in Session, Submit(s) PROVE LoginInv'
  <2>1. LoginTyped'
    BY <1>2 DEF Submit, LoginInv, LoginTyped, Stage, throttleVars, history
  <2> QED BY <1>2, <2>1, SessionStep DEF Submit, LoginInv, LoginTyped, history
<1>3. ASSUME NEW s \in Session, Logout(s) PROVE LoginInv'
  <2>1. LoginTyped'
    BY <1>3 DEF Logout, LoginInv, LoginTyped, Stage, throttleVars
  <2> QED BY <1>3, <2>1, SessionStep DEF Logout, LoginInv, LoginTyped
<1>4. ASSUME NEW s \in Session, Admit(s) PROVE LoginInv'
  <2>1. LoginTyped'
    BY <1>4 DEF Admit, RecordOk, LoginInv, LoginTyped, Stage
  <2> QED BY <1>4, <2>1, LockFreeStep DEF Admit, RecordOk, LoginInv, LoginTyped
<1>5. ASSUME NEW s \in Session, Wait(s) PROVE LoginInv'
  BY <1>5, WaitStep
<1>6. ASSUME NEW s \in Session, Awake(s) PROVE LoginInv'
  BY <1>6, AwakeStep
<1>7. ASSUME NEW s \in Session, Refuse(s) PROVE LoginInv'
  <2>1. Pruned \in Seq(Nat)
    BY PrunedTyped DEF LoginInv, LoginTyped
  <2>2. LoginTyped'
    BY <1>7, <2>1 DEF Refuse, RecordWrong, LoginInv, LoginTyped, Stage, history
  <2> QED BY <1>7, <2>2, LockFreeStep DEF Refuse, RecordWrong, LoginInv, LoginTyped
<1>8. ASSUME NEW s \in Session, Reload(s) PROVE LoginInv'
  <2>1. LoginTyped'
    BY <1>8 DEF Reload, LoginInv, LoginTyped, Stage, throttleVars
  <2> QED BY <1>8, <2>1, SessionStep DEF Reload, LoginInv, LoginTyped
<1>9. ASSUME NEW s \in Session, CookieWritten(s) PROVE LoginInv'
  <2>1. LoginTyped'
    BY <1>9 DEF CookieWritten, LoginInv, LoginTyped, throttleVars, history
  <2> QED BY <1>9, <2>1, SessionStep DEF CookieWritten, history
<1>10. ASSUME NEW b \in Browser, Expire(b) PROVE LoginInv'
  <2>1. LoginTyped'
    BY <1>10 DEF Expire, LoginInv, LoginTyped, throttleVars, history
  <2> QED BY <1>10, <2>1, SessionStep DEF Expire, history
<1>11. ASSUME TimePasses PROVE LoginInv'
  BY <1>11, TimeStep
<1>12. ASSUME UNCHANGED vars PROVE LoginInv'
  <2>1. LoginTyped'
    BY <1>12 DEF vars, LoginInv, LoginTyped, throttleVars, sessionVars, history
  <2> QED BY <1>12, <2>1, SessionStep DEF vars, sessionVars, history
<1> QED BY <1>1, <1>2, <1>3, <1>4, <1>5, <1>6, <1>7, <1>8, <1>9, <1>10, <1>11, <1>12 DEF Next, Script

-----------------------------------------------------------------------------
(* However many sessions guess, the answers to two wrong passwords lie as   *)
(* far apart as the delay the second was due: what holding the lock through *)
(* the sleep of wait() is for.                                              *)
THEOREM GuessesAreSpaced == Spec => AnswersSpaced
<1> DEFINE Woken(s) == stage[s] = "sleeping" /\ stage'[s] = "answering"
           Spaced   == \A s \in Session : Woken(s) => quiet >= DelayFor(Len(failures))
<1>1. LoginInv /\ [Next]_vars => [Spaced]_vars
  <2> SUFFICES ASSUME LoginInv, Next, NEW s \in Session, Woken(s)
               PROVE  quiet >= DelayFor(Len(failures))
    OBVIOUS
  <2>1. Awake(s)
    <3> USE DEF LoginInv, LoginTyped
    <3>1. ASSUME NEW t \in Session, CookieAdmits(t) \/ Submit(t) \/ Logout(t) \/ Reload(t) PROVE FALSE
      BY <3>1 DEF CookieAdmits, Submit, Logout, Reload
    <3>2. ASSUME NEW t \in Session, Admit(t) \/ Wait(t) \/ Refuse(t) PROVE FALSE
      BY <3>2 DEF Admit, Wait, Refuse
    <3>3. ASSUME NEW t \in Session, CookieWritten(t) PROVE FALSE
      BY <3>3 DEF CookieWritten
    <3>4. ASSUME NEW b \in Browser, Expire(b) PROVE FALSE
      BY <3>4 DEF Expire
    <3>5. ASSUME TimePasses PROVE FALSE
      BY <3>5 DEF TimePasses, sessionVars
    <3>6. ASSUME NEW t \in Session, Awake(t) PROVE t = s
      BY <3>6 DEF Awake
    <3> QED BY <3>1, <3>2, <3>3, <3>4, <3>5, <3>6 DEF Next, Script
  <2>2. lock = s /\ sleep[s] = 0
    BY <2>1 DEF Awake, EndWait, LoginInv, OneSleeper
  <2> QED BY <2>2 DEF LoginInv, SleepCovers, LoginTyped
<1>2. Spec => [][Spaced]_vars
  BY <1>1, InitLogin, LoginStep, PTL DEF Spec
<1> QED BY <1>2 DEF AnswersSpaced

(* A session that was logged out of stays on the form: the flag that makes  *)
(* it ignore the cookie goes only with a right password or a new session.   *)
LeftOut ==
  /\ authed \in [Session -> BOOLEAN] /\ logged_out \in [Session -> BOOLEAN]
  /\ left \subseteq Session
  /\ \A s \in left : logged_out[s] /\ ~authed[s]

(* A session that logged out stays out until it types a password again. *)
LEMMA LeftOutStep == LeftOut /\ [Next]_vars => LeftOut'
<1> SUFFICES ASSUME LeftOut, [Next]_vars PROVE LeftOut'
  OBVIOUS
<1> USE DEF LeftOut
<1>1. ASSUME NEW s \in Session, CookieAdmits(s) PROVE LeftOut'
  BY <1>1 DEF CookieAdmits, Remembered, history
<1>2. ASSUME NEW s \in Session, Submit(s) PROVE LeftOut'
  BY <1>2 DEF Submit, history
<1>3. ASSUME NEW s \in Session, Logout(s) PROVE LeftOut'
  BY <1>3 DEF Logout
<1>4. ASSUME NEW s \in Session, Admit(s) PROVE LeftOut'
  BY <1>4 DEF Admit
<1>5. ASSUME NEW s \in Session, Wait(s) \/ Awake(s) \/ Refuse(s) PROVE LeftOut'
  BY <1>5 DEF Wait, Awake, Refuse, history
<1>6. ASSUME NEW s \in Session, Reload(s) PROVE LeftOut'
  BY <1>6 DEF Reload
<1>7. ASSUME NEW s \in Session, CookieWritten(s) PROVE LeftOut'
  BY <1>7 DEF CookieWritten, history
<1>8. ASSUME NEW b \in Browser, Expire(b) PROVE LeftOut'
  BY <1>8 DEF Expire, history
<1>9. ASSUME TimePasses \/ UNCHANGED vars PROVE LeftOut'
  BY <1>9 DEF TimePasses, vars, sessionVars, history
<1> QED BY <1>1, <1>2, <1>3, <1>4, <1>5, <1>6, <1>7, <1>8, <1>9 DEF Next, Script

(* Logging out sticks, whatever the browser still holds of the cookie and   *)
(* whenever the component gets to remove it.                                *)
THEOREM LogoutIsKept == Spec => []LogoutSticks
<1>1. Init => LeftOut
  BY DEF Init, LeftOut
<1>2. LeftOut => LogoutSticks
  BY DEF LeftOut, LogoutSticks
<1> QED BY <1>1, <1>2, LeftOutStep, PTL DEF Spec

-----------------------------------------------------------------------------
(* A finite set has a power of two of subsets, and one at least.            *)
LEMMA PowersArePositive == ASSUME NEW k \in Nat PROVE 2^k \in Nat \ {0}
<1> DEFINE S == 1..k
<1>1. IsFiniteSet(S) /\ Cardinality(S) = k
  BY FS_Interval
<1>2. IsFiniteSet(SUBSET S) /\ Cardinality(SUBSET S) = 2^k
  BY <1>1, FS_SUBSET
<1>3. SUBSET S # {}
  OBVIOUS
<1> HIDE DEF S
<1>4. Cardinality(SUBSET S) \in Nat /\ Cardinality(SUBSET S) # 0
  BY <1>2, <1>3, FS_CardinalityType, FS_EmptySet
<1> QED BY <1>2, <1>4

(* A delay is none only while the free attempts last. *)
LEMMA DelayRange ==
  ASSUME NEW n \in Nat
  PROVE  /\ DelayFor(n) \in 0..MAX_LOGIN_DELAY_SECONDS
         /\ MAX_LOGIN_DELAY_SECONDS > 0 /\ DelayFor(n) = 0 => n < LOGIN_FREE_FAILURES
<1> DEFINE over == n - LOGIN_FREE_FAILURES
           doubled == 2^(over + 1)
<1>1. over \in Int /\ MAX_LOGIN_DELAY_SECONDS \in Nat /\ LOGIN_FREE_FAILURES \in Nat
  BY ThrottleAssumption
<1>2. over >= 0 => doubled \in Nat \ {0}
  BY <1>1, PowersArePositive
<1>3. DelayFor(n) = IF over < 0 THEN 0
                    ELSE IF doubled < MAX_LOGIN_DELAY_SECONDS THEN doubled ELSE MAX_LOGIN_DELAY_SECONDS
  BY DEF DelayFor
<1> HIDE DEF doubled
<1> QED BY <1>1, <1>2, <1>3

(* A list whose elements are all in a set is a list of that set. *)
LEMMA NarrowerSeq ==
  ASSUME NEW S, NEW T, NEW list \in Seq(S), \A n \in 1..Len(list) : list[n] \in T
  PROVE  list \in Seq(T)
<1>1. Len(list) \in Nat /\ list \in [1..Len(list) -> T]
  OBVIOUS
<1> QED BY <1>1, FunctionIsSeq

(* Ages that are in order, the oldest first, and none above top. *)
Ages(top) == {ages \in Seq(0..top) : OldestFirst(ages)}

(* What is left since the first recent age is recent, and still in order. *)
LEMMA SinceRecentOrdered ==
  ASSUME NEW top \in Nat, NEW ages \in Ages(top)
  PROVE  SinceRecent(ages) \in Ages(LOGIN_FAILURE_WINDOW_SECONDS)
<1> DEFINE left_over == SinceRecent(ages)
<1>0. /\ ages \in Seq(Nat) /\ OldestFirst(ages) /\ ages \in Seq(0..top)
      /\ DOMAIN ages = 1..Len(ages) /\ Len(ages) \in Nat
  <2>1. ages \in Seq(0..top) /\ OldestFirst(ages)
    BY DEF Ages
  <2> QED BY <2>1
<1>1. PICK k \in 0..Len(ages) :
           /\ left_over \in Seq(Nat) /\ Len(left_over) = Len(ages) - k
           /\ \A n \in 1..(Len(ages) - k) : left_over[n] = ages[n + k]
           /\ k < Len(ages) => Recent(ages[k + 1])
  BY <1>0, SinceRecentDrops
<1> HIDE DEF left_over
<1>2. ASSUME NEW n \in 1..Len(left_over) PROVE left_over[n] \in 0..LOGIN_FAILURE_WINDOW_SECONDS
  <2>1. k < Len(ages) /\ n + k \in 1..Len(ages) /\ k + 1 \in 1..Len(ages) /\ k + 1 <= n + k
    BY <1>0, <1>1, <1>2
  <2>2. ages[k + 1] >= ages[n + k]
    BY <1>0, <2>1 DEF OldestFirst
  <2>3. ages[k + 1] <= LOGIN_FAILURE_WINDOW_SECONDS
    BY <1>1, <2>1 DEF Recent
  <2>4. left_over[n] = ages[n + k] /\ ages[n + k] \in Nat /\ ages[k + 1] \in Nat
    BY <1>0, <1>1, <2>1
  <2> QED BY <2>2, <2>3, <2>4, ThrottleAssumption
<1>3. left_over \in Seq(0..LOGIN_FAILURE_WINDOW_SECONDS)
  BY <1>1, <1>2, NarrowerSeq
<1>4. OldestFirst(left_over)
  <2>0. DOMAIN left_over = 1..(Len(ages) - k)
    BY <1>1
  <2> SUFFICES ASSUME NEW m \in 1..(Len(ages) - k), NEW n \in 1..(Len(ages) - k), m <= n
               PROVE  left_over[m] >= left_over[n]
    BY <2>0 DEF OldestFirst
  <2>1. m + k \in 1..Len(ages) /\ n + k \in 1..Len(ages) /\ m + k <= n + k
    <3>1. Len(ages) \in Nat /\ k \in Nat
      BY <1>0
    <3> QED BY <3>1
  <2>2. ages[m + k] >= ages[n + k]
    BY <1>0, <2>1 DEF OldestFirst
  <2> QED BY <1>1, <2>2
<1> QED BY <1>3, <1>4 DEF Ages, left_over

(* The youngest goes to the end. *)
LEMMA YoungestLast ==
  ASSUME NEW top \in Nat, NEW ages \in Ages(top)
  PROVE  Append(ages, 0) \in Ages(top)
<1>0. ages \in Seq(0..top) /\ OldestFirst(ages) /\ DOMAIN ages = 1..Len(ages) /\ Len(ages) \in Nat
  BY DEF Ages
<1>1. Append(ages, 0) \in Seq(0..top) /\ Len(Append(ages, 0)) = Len(ages) + 1
  BY <1>0
<1>2. OldestFirst(Append(ages, 0))
  <2> SUFFICES ASSUME NEW m \in 1..(Len(ages) + 1), NEW n \in 1..(Len(ages) + 1), m <= n
               PROVE  Append(ages, 0)[m] >= Append(ages, 0)[n]
    BY <1>1 DEF OldestFirst
  <2>1. CASE n = Len(ages) + 1
    <3>1. Append(ages, 0)[n] = 0 /\ Append(ages, 0)[m] \in 0..top
      BY <1>0, <1>1, <2>1
    <3> QED BY <3>1
  <2>2. CASE n # Len(ages) + 1
    <3>1. n \in 1..Len(ages) /\ m \in 1..Len(ages)
      BY <1>0, <2>2
    <3>2. ages[m] >= ages[n]
      BY <1>0, <3>1 DEF OldestFirst
    <3>3. Append(ages, 0)[m] = ages[m] /\ Append(ages, 0)[n] = ages[n]
      BY <1>0, <3>1
    <3> QED BY <3>2, <3>3
  <2> QED BY <2>1, <2>2
<1> QED BY <1>1, <1>2 DEF Ages

(* A second passes for each of them. *)
LEMMA AllGrowOlder ==
  ASSUME NEW top \in Nat, NEW ages \in Ages(top), NEW next, NEW higher \in Nat,
         DOMAIN next = DOMAIN ages,
         next = [n \in DOMAIN ages |-> next[n]],
         \A n \in DOMAIN ages : next[n] \in 0..higher,
         \A m, n \in DOMAIN ages : ages[m] >= ages[n] => next[m] >= next[n]
  PROVE  next \in Ages(higher) /\ Len(next) = Len(ages)
<1>0. ages \in Seq(0..top) /\ OldestFirst(ages) /\ DOMAIN ages = 1..Len(ages) /\ Len(ages) \in Nat
  BY DEF Ages
<1>1. next \in [1..Len(ages) -> 0..higher]
  BY <1>0
<1>2. next \in Seq(0..higher) /\ Len(next) = Len(ages)
  BY <1>0, <1>1, FunctionIsSeq
<1>3. OldestFirst(next)
  BY <1>0 DEF OldestFirst
<1> QED BY <1>2, <1>3 DEF Ages

(* The invariant of the types: TypeOK, and that the history is in order too. *)
LoginTypes ==
  /\ failures \in Ages(LOGIN_FAILURE_WINDOW_SECONDS + 1)
  /\ free \in Ages(LOGIN_FAILURE_WINDOW_SECONDS)
  /\ lock \in Session \cup {NoSession}
  /\ sleep \in [Session -> 0..MAX_LOGIN_DELAY_SECONDS]
  /\ stage \in [Session -> Stage]
  /\ authed \in [Session -> BOOLEAN]
  /\ logged_out \in [Session -> BOOLEAN]
  /\ \A s \in Session : authed[s] <=> stage[s] = "in"
  /\ \A s \in Session : lock = s <=> stage[s] = "sleeping"
  /\ cookie \in [Browser -> BOOLEAN]
  /\ ops \in [Session -> {"none", "set", "remove"}]
  /\ attempts \in 0..MaxAttempts
  /\ quiet \in 0..MAX_LOGIN_DELAY_SECONDS
  /\ left \subseteq Session

(* It is the type invariant that TLC checks, and more. *)
LEMMA TypesAreTypes == LoginTypes => TypeOK
  BY DEF LoginTypes, TypeOK, ThrottleTypeOK, Ages

(* The throttle's lists stay lists of ages, whatever is done to them. *)
LEMMA ThrottleAges ==
  ASSUME LoginTypes
  PROVE  /\ Pruned \in Ages(LOGIN_FAILURE_WINDOW_SECONDS)
         /\ Pruned \in Ages(LOGIN_FAILURE_WINDOW_SECONDS + 1)
         /\ Append(Pruned, 0) \in Ages(LOGIN_FAILURE_WINDOW_SECONDS + 1)
         /\ Append(free, 0) \in Ages(LOGIN_FAILURE_WINDOW_SECONDS)
         /\ <<>> \in Ages(LOGIN_FAILURE_WINDOW_SECONDS)
         /\ <<>> \in Ages(LOGIN_FAILURE_WINDOW_SECONDS + 1)
<1> DEFINE W == LOGIN_FAILURE_WINDOW_SECONDS
<1>0. W \in Nat /\ W + 1 \in Nat
  BY ThrottleAssumption
<1>1. Pruned \in Ages(W)
  BY <1>0, SinceRecentOrdered DEF Pruned, LoginTypes
<1>2. Pruned \in Ages(W + 1)
  <2>1. Pruned \in Seq(0..W) /\ OldestFirst(Pruned)
    BY <1>1 DEF Ages
  <2>2. \A n \in 1..Len(Pruned) : Pruned[n] \in 0..(W + 1)
    BY <1>0, <2>1
  <2>3. Pruned \in Seq(0..(W + 1))
    BY <2>1, <2>2, NarrowerSeq
  <2> QED BY <2>1, <2>3 DEF Ages
<1>3. Append(Pruned, 0) \in Ages(W + 1)
  BY <1>0, <1>2, YoungestLast
<1>4. Append(free, 0) \in Ages(W)
  BY <1>0, YoungestLast DEF LoginTypes
<1>5. <<>> \in Ages(W) /\ <<>> \in Ages(W + 1)
  BY DEF Ages, OldestFirst
<1> QED BY <1>1, <1>2, <1>3, <1>4, <1>5

(* A tick makes all of them older, and the history forgets what is old. *)
LEMMA TickAges ==
  ASSUME LoginTypes
  PROVE  /\ [n \in DOMAIN failures |-> Older(failures[n])] \in Ages(LOGIN_FAILURE_WINDOW_SECONDS + 1)
         /\ [n \in DOMAIN free |-> free[n] + 1] \in Ages(LOGIN_FAILURE_WINDOW_SECONDS + 1)
         /\ SinceRecent([n \in DOMAIN free |-> free[n] + 1]) \in Ages(LOGIN_FAILURE_WINDOW_SECONDS)
<1> DEFINE W == LOGIN_FAILURE_WINDOW_SECONDS
           older == [n \in DOMAIN failures |-> Older(failures[n])]
           later == [n \in DOMAIN free |-> free[n] + 1]
<1>0. /\ W \in Nat /\ W + 1 \in Nat
      /\ failures \in Seq(0..(W + 1)) /\ free \in Seq(0..W)
      /\ failures \in Ages(W + 1) /\ free \in Ages(W)
  BY ThrottleAssumption DEF LoginTypes, Ages
<1>1. older \in Ages(W + 1)
  <2>1. \A n \in DOMAIN failures : failures[n] \in 0..(W + 1)
    BY <1>0
  <2>2. \A n \in DOMAIN failures : older[n] = IF failures[n] <= W THEN failures[n] + 1 ELSE failures[n]
    BY DEF Older, Recent
  <2>3. DOMAIN older = DOMAIN failures /\ older = [n \in DOMAIN failures |-> older[n]]
    OBVIOUS
  <2> HIDE DEF older, W
  <2>4. ASSUME NEW n \in DOMAIN failures PROVE older[n] \in 0..(W + 1)
    <3>1. W \in Nat /\ failures[n] \in 0..(W + 1)
      BY <1>0, <2>1
    <3>2. older[n] = IF failures[n] <= W THEN failures[n] + 1 ELSE failures[n]
      BY <2>2
    <3> QED BY <3>1, <3>2
  <2>5. \A m, n \in DOMAIN failures : failures[m] >= failures[n] => older[m] >= older[n]
    BY <1>0, <2>1, <2>2
  <2> QED BY <1>0, <2>3, <2>4, <2>5, AllGrowOlder
<1>2. later \in Ages(W + 1)
  <2>1. \A n \in DOMAIN free : free[n] \in 0..W
    BY <1>0
  <2>2. \A n \in DOMAIN free : later[n] = free[n] + 1
    OBVIOUS
  <2>3. DOMAIN later = DOMAIN free /\ later = [n \in DOMAIN free |-> later[n]]
    OBVIOUS
  <2> HIDE DEF later, W
  <2>4. \A n \in DOMAIN free : later[n] \in 0..(W + 1)
    BY <1>0, <2>1, <2>2
  <2>5. \A m, n \in DOMAIN free : free[m] >= free[n] => later[m] >= later[n]
    BY <1>0, <2>1, <2>2
  <2> QED BY <1>0, <2>3, <2>4, <2>5, AllGrowOlder
<1>3. SinceRecent(later) \in Ages(W)
  BY <1>0, <1>2, SinceRecentOrdered
<1> QED BY <1>1, <1>2, <1>3

(* The rooms open with nobody in them. *)
LEMMA InitTypes == Init => LoginTypes
<1> SUFFICES ASSUME Init PROVE LoginTypes
  OBVIOUS
<1>1. <<>> \in Ages(LOGIN_FAILURE_WINDOW_SECONDS) /\ <<>> \in Ages(LOGIN_FAILURE_WINDOW_SECONDS + 1)
  BY DEF Ages, OldestFirst
<1> QED
  BY <1>1, ThrottleAssumption, LoginAssumption DEF Init, ThrottleInit, LoginTypes, Stage

(* Every step keeps the types. *)
LEMMA TypesStep == LoginTypes /\ [Next]_vars => LoginTypes'
<1> SUFFICES ASSUME LoginTypes, [Next]_vars PROVE LoginTypes'
  OBVIOUS
<1> USE ThrottleAssumption, LoginAssumption
<1>1. ASSUME NEW s \in Session, CookieAdmits(s) PROVE LoginTypes'
  BY <1>1 DEF CookieAdmits, LoginTypes, Stage, throttleVars, history
<1>2. ASSUME NEW s \in Session, Submit(s) PROVE LoginTypes'
  BY <1>2 DEF Submit, LoginTypes, Stage, throttleVars, history
<1>3. ASSUME NEW s \in Session, Logout(s) PROVE LoginTypes'
  BY <1>3 DEF Logout, LoginTypes, Stage, throttleVars
<1>4. ASSUME NEW s \in Session, Admit(s) PROVE LoginTypes'
  BY <1>4, ThrottleAges DEF Admit, RecordOk, LoginTypes, Stage
<1>5. ASSUME NEW s \in Session, Wait(s) PROVE LoginTypes'
  <2>1. Len(Pruned) \in Nat
    BY ThrottleAges DEF Ages
  <2>2. DelayFor(Len(Pruned)) \in 0..MAX_LOGIN_DELAY_SECONDS
    BY <2>1, DelayRange
  <2>3. free' \in Ages(LOGIN_FAILURE_WINDOW_SECONDS)
    BY <1>5, ThrottleAges DEF Wait, LoginTypes
  <2>4. failures' \in Ages(LOGIN_FAILURE_WINDOW_SECONDS + 1)
    BY <1>5, ThrottleAges DEF Wait, BeginWait
  <2> QED BY <1>5, <2>2, <2>3, <2>4 DEF Wait, BeginWait, LoginTypes, Stage
<1>6. ASSUME NEW s \in Session, Awake(s) PROVE LoginTypes'
  BY <1>6 DEF Awake, EndWait, LoginTypes, Stage
<1>7. ASSUME NEW s \in Session, Refuse(s) PROVE LoginTypes'
  BY <1>7, ThrottleAges DEF Refuse, RecordWrong, LoginTypes, Stage, history
<1>8. ASSUME NEW s \in Session, Reload(s) PROVE LoginTypes'
  BY <1>8 DEF Reload, LoginTypes, Stage, throttleVars
<1>9. ASSUME NEW s \in Session, CookieWritten(s) PROVE LoginTypes'
  BY <1>9 DEF CookieWritten, LoginTypes, throttleVars, history
<1>10. ASSUME NEW b \in Browser, Expire(b) PROVE LoginTypes'
  BY <1>10 DEF Expire, LoginTypes, throttleVars, history
<1>11. ASSUME TimePasses PROVE LoginTypes'
  <2>1. /\ failures' \in Ages(LOGIN_FAILURE_WINDOW_SECONDS + 1)
        /\ free' \in Ages(LOGIN_FAILURE_WINDOW_SECONDS)
    BY <1>11, TickAges DEF TimePasses, Tick
  <2> QED BY <1>11, <2>1 DEF TimePasses, Tick, LoginTypes, sessionVars
<1>12. ASSUME UNCHANGED vars PROVE LoginTypes'
  BY <1>12 DEF vars, LoginTypes, throttleVars, sessionVars, history
<1> QED BY <1>1, <1>2, <1>3, <1>4, <1>5, <1>6, <1>7, <1>8, <1>9, <1>10, <1>11, <1>12 DEF Next, Script

(* The types, and what they say: the failures stay in order of time, so     *)
(* that pruning may stop at the first recent one; a session is in exactly   *)
(* when it is authed; and the lock is with the session that sleeps.         *)
THEOREM LoginIsTyped == Spec => []TypeOK
  BY InitTypes, TypesStep, TypesAreTypes, PTL DEF Spec

-----------------------------------------------------------------------------
(* The positions of a list of ages that are not above an age. *)
Within(ages, age) == {n \in DOMAIN ages : ages[n] <= age}

(* Who has been through wait(), or is in it, and has not recorded yet. *)
Pending == {s \in Session : stage[s] \in {"sleeping", "answering"}}

(* Of the wrong passwords that went without delay in the last so many       *)
(* seconds, all but the pending ones are among the failures recorded in     *)
(* those seconds: a failure is recorded after the wait it answers.          *)
Backed ==
  \A age \in 0..LOGIN_FAILURE_WINDOW_SECONDS :
    Cardinality(Within(free, age)) <= Cardinality(Pending) + Cardinality(Within(failures, age))

(* Positions of a list are finitely many. *)
LEMMA WithinFinite ==
  ASSUME NEW ages \in Seq(Nat), NEW age
  PROVE  /\ IsFiniteSet(Within(ages, age)) /\ Cardinality(Within(ages, age)) \in Nat
         /\ Cardinality(Within(ages, age)) <= Len(ages)
<1>1. Within(ages, age) \in SUBSET (1..Len(ages)) /\ Len(ages) \in Nat
  BY DEF Within
<1>2. IsFiniteSet(1..Len(ages)) /\ Cardinality(1..Len(ages)) = Len(ages)
  <2> DEFINE size == Len(ages)
  <2>1. size \in Nat
    BY <1>1
  <2> HIDE DEF size
  <2>2. IsFiniteSet(1..size) /\ Cardinality(1..size) = size
    BY <2>1, FS_Interval
  <2> QED BY <2>2 DEF size
<1> QED BY <1>1, <1>2, FS_Subset, FS_CardinalityType

(* The pending sessions are finitely many, and so far none of those others. *)
LEMMA PendingFinite ==
  ASSUME IsFiniteSet(Session)
  PROVE  /\ IsFiniteSet(Pending) /\ Cardinality(Pending) \in Nat
         /\ \A s \in Session : s \notin Pending => Cardinality(Pending) <= Cardinality(Session) - 1
<1>1. Pending \in SUBSET Session
  BY DEF Pending
<1>2. IsFiniteSet(Pending) /\ Cardinality(Pending) \in Nat /\ Cardinality(Session) \in Nat
  BY <1>1, FS_Subset, FS_CardinalityType
<1>3. ASSUME NEW s \in Session, s \notin Pending PROVE Cardinality(Pending) <= Cardinality(Session) - 1
  <2>1. Pending \in SUBSET (Session \ {s})
    BY <1>1, <1>3
  <2>2. IsFiniteSet(Session \ {s}) /\ Cardinality(Session \ {s}) = Cardinality(Session) - 1
    BY FS_RemoveElement
  <2> QED BY <2>1, <2>2, FS_Subset
<1> QED BY <1>2, <1>3

(* What leaves a list from the front is too old to be counted. *)
LEMMA WithinSinceRecent ==
  ASSUME NEW ages \in Seq(Nat), NEW age \in 0..LOGIN_FAILURE_WINDOW_SECONDS
  PROVE  Cardinality(Within(SinceRecent(ages), age)) = Cardinality(Within(ages, age))
<1> DEFINE kept == SinceRecent(ages)
<1>0. LOGIN_FAILURE_WINDOW_SECONDS \in Nat /\ Len(ages) \in Nat /\ DOMAIN ages = 1..Len(ages)
  BY ThrottleAssumption
<1>1. PICK k \in 0..Len(ages) :
           /\ kept \in Seq(Nat) /\ Len(kept) = Len(ages) - k
           /\ \A n \in 1..(Len(ages) - k) : kept[n] = ages[n + k]
           /\ \A n \in 1..k : ~Recent(ages[n])
  BY SinceRecentDrops
<1> HIDE DEF kept
<1>2. DOMAIN kept = 1..(Len(ages) - k) /\ k \in Nat
  BY <1>0, <1>1
<1> DEFINE f == [n \in Within(kept, age) |-> n + k]
<1>3. \A n \in Within(kept, age) : n \in Nat /\ n + k \in Within(ages, age)
  <2> TAKE n \in Within(kept, age)
  <2>1. n \in 1..(Len(ages) - k) /\ kept[n] <= age
    BY <1>2 DEF Within
  <2>2. kept[n] = ages[n + k] /\ n + k \in 1..Len(ages)
    BY <1>0, <1>1, <1>2, <2>1
  <2> QED BY <1>0, <2>1, <2>2 DEF Within
<1>4. \A m \in Within(ages, age) : m - k \in Within(kept, age) /\ m \in Int
  <2> TAKE m \in Within(ages, age)
  <2>1. m \in 1..Len(ages) /\ ages[m] <= age
    BY <1>0 DEF Within
  <2>2. m \notin 1..k
    <3> SUFFICES ASSUME m \in 1..k PROVE FALSE
      OBVIOUS
    <3>1. ~ (ages[m] <= LOGIN_FAILURE_WINDOW_SECONDS)
      BY <1>1 DEF Recent
    <3>2. ages[m] \in Nat
      BY <2>1
    <3> QED BY <1>0, <2>1, <3>1, <3>2
  <2>3. m - k \in 1..(Len(ages) - k) /\ (m - k) + k = m
    BY <1>0, <1>2, <2>1, <2>2
  <2>4. kept[m - k] = ages[m]
    BY <1>1, <2>3
  <2> QED BY <1>2, <2>1, <2>3, <2>4 DEF Within
<1>5. f \in Bijection(Within(kept, age), Within(ages, age))
  <2>1. f \in [Within(kept, age) -> Within(ages, age)]
    BY <1>3
  <2>2. ASSUME NEW m \in Within(kept, age), NEW n \in Within(kept, age), f[m] = f[n] PROVE m = n
    BY <1>2, <1>3, <2>2
  <2>3. ASSUME NEW m \in Within(ages, age) PROVE \E n \in Within(kept, age) : f[n] = m
    <3>1. m - k \in Within(kept, age) /\ (m - k) + k = m
      BY <1>2, <1>4
    <3> QED BY <3>1
  <2> HIDE DEF f
  <2> QED BY <2>1, <2>2, <2>3 DEF Bijection, Injection, Surjection, IsInjective
<1>6. IsFiniteSet(Within(kept, age))
  BY <1>1, WithinFinite
<1> QED BY <1>5, <1>6, FS_Bijection DEF kept, ExistsBijection

(* The youngest counts for every age. *)
LEMMA WithinAppend ==
  ASSUME NEW ages \in Seq(Nat), NEW age \in Nat
  PROVE  Cardinality(Within(Append(ages, 0), age)) = Cardinality(Within(ages, age)) + 1
<1> DEFINE n1 == Len(ages) + 1
<1>1. /\ Len(ages) \in Nat /\ DOMAIN ages = 1..Len(ages)
      /\ DOMAIN Append(ages, 0) = 1..n1 /\ Append(ages, 0)[n1] = 0
      /\ \A n \in 1..Len(ages) : Append(ages, 0)[n] = ages[n]
  OBVIOUS
<1>2. 1..n1 = (1..Len(ages)) \cup {n1} /\ n1 \notin 1..Len(ages) /\ 0 <= age
  BY <1>1
<1> HIDE DEF n1
<1>3. Within(Append(ages, 0), age) = Within(ages, age) \cup {n1} /\ n1 \notin Within(ages, age)
  BY <1>1, <1>2 DEF Within
<1>4. IsFiniteSet(Within(ages, age))
  BY WithinFinite
<1> QED BY <1>3, <1>4, FS_AddElement

(* What holds while at most so many answers have gone without delay. *)
FewInv == LoginTypes /\ Backed /\ FreeAnswersAreFew

(* The lists as the lemmas on ages take them. *)
LEMMA ListsOfAges ==
  ASSUME LoginTypes
  PROVE  /\ failures \in Seq(Nat) /\ free \in Seq(Nat) /\ Pruned \in Seq(Nat)
         /\ \A n \in DOMAIN free : free[n] <= LOGIN_FAILURE_WINDOW_SECONDS
<1>1. failures \in Seq(0..LOGIN_FAILURE_WINDOW_SECONDS + 1) /\ free \in Seq(0..LOGIN_FAILURE_WINDOW_SECONDS)
  BY DEF LoginTypes, Ages
<1>2. failures \in Seq(Nat) /\ free \in Seq(Nat)
  BY <1>1, ThrottleAssumption
<1>3. \A n \in DOMAIN free : free[n] \in 0..LOGIN_FAILURE_WINDOW_SECONDS
  <2>1. DOMAIN free = 1..Len(free)
    BY <1>2
  <2> QED BY <1>1, <2>1, ElementOfSeq
<1>4. \A n \in DOMAIN free : free[n] <= LOGIN_FAILURE_WINDOW_SECONDS
  BY <1>3, ThrottleAssumption
<1> QED BY <1>2, <1>4, PrunedTyped

(* A step that neither adds an answer or a failure nor changes who is       *)
(* pending.                                                                 *)
LEMMA FewSame ==
  ASSUME FewInv, LoginTypes', UNCHANGED <<failures, free>>,
         \A s \in Session : stage'[s] \in {"sleeping", "answering"} <=> stage[s] \in {"sleeping", "answering"}
  PROVE  FewInv'
<1>1. Pending' = Pending
  BY DEF Pending
<1>2. \A age : Within(free, age)' = Within(free, age) /\ Within(failures, age)' = Within(failures, age)
  BY DEF Within
<1> QED BY <1>1, <1>2 DEF FewInv, Backed, FreeAnswersAreFew

(* After a right password everything is forgotten. *)
LEMMA FewAdmit ==
  ASSUME FewInv, LoginTypes', IsFiniteSet(Session), NEW s \in Session, Admit(s)
  PROVE  FewInv'
<1>1. free' = <<>> /\ failures' \in Seq(Nat)
  BY ListsOfAges DEF Admit, RecordOk
<1>2. Cardinality(Session) \in Nat /\ Cardinality(Session) # 0
  BY FS_CardinalityType, FS_EmptySet
<1>3. FreeAnswersAreFew'
  <2>1. Len(<<>>) = 0 /\ LOGIN_FREE_FAILURES \in Nat
    BY ThrottleAssumption
  <2> QED BY <1>1, <1>2, <2>1 DEF FreeAnswersAreFew
<1>4. Backed'
  <2> SUFFICES ASSUME NEW age \in 0..LOGIN_FAILURE_WINDOW_SECONDS
               PROVE  Cardinality(Within(free, age)') <= Cardinality(Pending') + Cardinality(Within(failures, age)')
    BY DEF Backed
  <2>1. Within(free, age)' = {}
    BY <1>1 DEF Within
  <2>2. Cardinality(Within(failures', age)) \in Nat
    BY <1>1, WithinFinite
  <2>3. Within(failures, age)' = Within(failures', age)
    BY DEF Within
  <2>4. Pending' \in SUBSET Session
    BY DEF Pending
  <2>5. Cardinality(Pending') \in Nat
    BY <2>4, FS_Subset, FS_CardinalityType
  <2> QED BY <2>1, <2>2, <2>3, <2>5, FS_EmptySet
<1> QED BY <1>3, <1>4 DEF FewInv

(* A session goes through wait(): it is pending from here on, and goes      *)
(* without delay only while fewer failures than the free ones are recent.   *)
LEMMA FewWait ==
  ASSUME FewInv, LoginTypes', IsFiniteSet(Session), MAX_LOGIN_DELAY_SECONDS > 0,
         NEW s \in Session, Wait(s)
  PROVE  FewInv'
<1> DEFINE W == LOGIN_FAILURE_WINDOW_SECONDS
<1>0. /\ W \in Nat /\ LOGIN_FREE_FAILURES \in Nat
      /\ failures \in Seq(Nat) /\ free \in Seq(Nat) /\ Pruned \in Seq(Nat)
      /\ Len(free) \in Nat /\ Len(Pruned) \in Nat
  BY ThrottleAssumption, ListsOfAges DEF FewInv
<1>1. /\ stage[s] = "refused" /\ stage' = [stage EXCEPT ![s] = "sleeping"] /\ failures' = Pruned
      /\ sleep'[s] = DelayFor(Len(Pruned))
      /\ free' = IF sleep'[s] = 0 THEN Append(free, 0) ELSE free
  BY DEF Wait, BeginWait, FewInv, LoginTypes
<1>2. Pending' = Pending \cup {s} /\ s \notin Pending
  BY <1>1 DEF Pending, FewInv, LoginTypes
<1>3. /\ IsFiniteSet(Pending) /\ Cardinality(Pending) \in Nat /\ Cardinality(Session) \in Nat
      /\ Cardinality(Pending) <= Cardinality(Session) - 1
      /\ Cardinality(Pending') = Cardinality(Pending) + 1
  BY <1>2, PendingFinite, FS_AddElement, FS_CardinalityType
<1>4. ASSUME NEW age \in 0..W
      PROVE  /\ Cardinality(Within(free, age)) <= Cardinality(Pending) + Cardinality(Within(Pruned, age))
             /\ Cardinality(Within(Pruned, age)) \in Nat /\ Cardinality(Within(Pruned, age)) <= Len(Pruned)
             /\ Cardinality(Within(free, age)) \in Nat
  <2>1. Cardinality(Within(Pruned, age)) = Cardinality(Within(failures, age))
    BY <1>0, WithinSinceRecent DEF Pruned
  <2>2. Cardinality(Within(free, age)) <= Cardinality(Pending) + Cardinality(Within(failures, age))
    BY DEF FewInv, Backed
  <2> QED BY <1>0, <2>1, <2>2, WithinFinite
<1>5. Backed'
  <2> SUFFICES ASSUME NEW age \in 0..W
               PROVE  Cardinality(Within(free', age)) <= Cardinality(Pending') + Cardinality(Within(failures', age))
    BY DEF Backed, Within
  <2>1. age \in Nat
    BY <1>0
  <2>2. Cardinality(Within(free', age)) <= Cardinality(Within(free, age)) + 1
    BY <1>0, <1>1, <1>4, <2>1, WithinAppend
  <2>3. Within(failures', age) = Within(Pruned, age)
    BY <1>1
  <2> DEFINE a == Cardinality(Within(free', age))
             b == Cardinality(Within(free, age))
             c == Cardinality(Within(Pruned, age))
             p == Cardinality(Pending)
  <2>4. a <= b + 1 /\ b <= p + c /\ b \in Nat /\ c \in Nat /\ p \in Nat
    BY <1>3, <1>4, <2>2
  <2>5. a = b \/ a = b + 1
    BY <1>0, <1>1, <2>1, WithinAppend
  <2>6. a <= (p + 1) + c
    <3> HIDE DEF a, b, c, p
    <3> QED BY <2>4, <2>5
  <2> QED BY <1>3, <2>3, <2>6
<1>6. FreeAnswersAreFew'
  <2>1. CASE sleep'[s] # 0
    BY <1>1, <2>1 DEF FewInv, FreeAnswersAreFew
  <2>2. CASE sleep'[s] = 0
    <3>1. Len(Pruned) < LOGIN_FREE_FAILURES
      BY <1>0, <1>1, <2>2, DelayRange
    <3>2. Within(free, W) = 1..Len(free)
      <4>1. \A n \in DOMAIN free : free[n] <= W
        BY ListsOfAges DEF FewInv
      <4>2. DOMAIN free = 1..Len(free)
        BY <1>0
      <4> QED BY <4>1, <4>2 DEF Within
    <3>3. Cardinality(Within(free, W)) = Len(free)
      <4> DEFINE size == Len(free)
      <4>1. size \in Nat
        BY <1>0
      <4> HIDE DEF size
      <4>2. Cardinality(1..size) = size
        BY <4>1, FS_Interval
      <4> QED BY <3>2, <4>2 DEF size
    <3>4. W \in 0..W
      BY <1>0
    <3>5. Len(free) <= Cardinality(Pending) + Len(Pruned)
      <4> DEFINE c == Cardinality(Within(Pruned, W))
                 p == Cardinality(Pending)
      <4>1. Len(free) <= p + c /\ c \in Nat /\ c <= Len(Pruned) /\ p \in Nat
        BY <1>3, <1>4, <3>3, <3>4
      <4> HIDE DEF c, p
      <4>2. Len(free) <= p + Len(Pruned)
        BY <1>0, <4>1
      <4> QED BY <4>2 DEF p
    <3>6. Len(free') = Len(free) + 1
      BY <1>0, <1>1, <2>2
    <3>7. Len(free) + 1 <= LOGIN_FREE_FAILURES + Cardinality(Session) - 1
      BY <1>0, <1>3, <3>1, <3>5
    <3> QED BY <3>6, <3>7 DEF FreeAnswersAreFew
  <2> QED BY <2>1, <2>2
<1> QED BY <1>5, <1>6 DEF FewInv

(* What was pending is recorded: one less of these, one more of those. *)
LEMMA FewRefuse ==
  ASSUME FewInv, LoginTypes', IsFiniteSet(Session), NEW s \in Session, Refuse(s)
  PROVE  FewInv'
<1> DEFINE W == LOGIN_FAILURE_WINDOW_SECONDS
<1>0. W \in Nat /\ failures \in Seq(Nat) /\ Pruned \in Seq(Nat)
  BY ThrottleAssumption, ListsOfAges DEF FewInv
<1>1. /\ stage[s] = "answering" /\ stage' = [stage EXCEPT ![s] = "form"]
      /\ failures' = Append(Pruned, 0) /\ free' = free
  BY DEF Refuse, RecordWrong, history
<1>2. Pending' = Pending \ {s} /\ s \in Pending
  BY <1>1 DEF Pending, FewInv, LoginTypes
<1>3. Cardinality(Pending) \in Nat /\ Cardinality(Pending') = Cardinality(Pending) - 1
  BY <1>2, PendingFinite, FS_RemoveElement
<1>4. Backed'
  <2> SUFFICES ASSUME NEW age \in 0..W
               PROVE  Cardinality(Within(free', age)) <= Cardinality(Pending') + Cardinality(Within(failures', age))
    BY DEF Backed, Within
  <2>1. age \in Nat
    BY <1>0
  <2> DEFINE b == Cardinality(Within(free, age))
             c == Cardinality(Within(failures, age))
             p == Cardinality(Pending)
  <2>2. Cardinality(Within(failures', age)) = c + 1
    <3>1. Cardinality(Within(Pruned, age)) = c
      BY <1>0, WithinSinceRecent DEF Pruned
    <3> QED BY <1>0, <1>1, <2>1, <3>1, WithinAppend
  <2>3. b <= p + c /\ c \in Nat /\ p \in Nat
    BY <1>0, <1>3, WithinFinite DEF FewInv, Backed
  <2>4. Within(free', age) = Within(free, age)
    BY <1>1
  <2>5. p + c = (p - 1) + (c + 1)
    <3> HIDE DEF c, p
    <3> QED BY <2>3
  <2> QED BY <1>3, <2>2, <2>3, <2>4, <2>5
<1>5. FreeAnswersAreFew'
  BY <1>1 DEF FewInv, FreeAnswersAreFew
<1> QED BY <1>4, <1>5 DEF FewInv

(* Time makes answers and failures older alike. *)
LEMMA FewTime ==
  ASSUME FewInv, LoginTypes', IsFiniteSet(Session), TimePasses
  PROVE  FewInv'
<1> DEFINE W == LOGIN_FAILURE_WINDOW_SECONDS
           later == [n \in DOMAIN free |-> free[n] + 1]
           older == [n \in DOMAIN failures |-> Older(failures[n])]
<1>0. /\ W \in Nat /\ failures \in Seq(Nat) /\ free \in Seq(Nat)
      /\ \A n \in DOMAIN failures : failures[n] \in Nat
      /\ \A n \in DOMAIN free : free[n] \in Nat
      /\ DOMAIN free = 1..Len(free) /\ Len(free) \in Nat
  BY ThrottleAssumption, ListsOfAges DEF FewInv
<1>1. free' = SinceRecent(later) /\ failures' = older /\ stage' = stage
  BY DEF TimePasses, Tick, sessionVars
<1>2. later \in [1..Len(free) -> Nat]
  BY <1>0
<1>3. later \in Seq(Nat) /\ Len(later) = Len(free)
  BY <1>0, <1>2, FunctionIsSeq
<1>4. Pending' = Pending /\ Cardinality(Pending) \in Nat
  BY <1>1, PendingFinite DEF Pending
<1>5. Backed'
  <2> SUFFICES ASSUME NEW age \in 0..W
               PROVE  Cardinality(Within(free', age)) <= Cardinality(Pending') + Cardinality(Within(failures', age))
    BY DEF Backed, Within
  <2>1. Cardinality(Within(free', age)) = Cardinality(Within(later, age))
    BY <1>1, <1>3, WithinSinceRecent
  <2>2. CASE age = 0
    <3>1. Within(later, age) = {}
      BY <1>0, <2>2 DEF Within
    <3>2. failures' \in Seq(Nat)
      <4>1. failures' \in Seq(0..(W + 1))
        BY DEF LoginTypes, Ages
      <4> QED BY <1>0, <4>1
    <3>3. Cardinality(Within(failures', age)) \in Nat
      BY <3>2, WithinFinite
    <3>4. Cardinality(Within(free', age)) = 0
      BY <2>1, <3>1, FS_EmptySet
    <3> QED BY <1>4, <3>3, <3>4
  <2>3. CASE age # 0
    <3>1. age - 1 \in 0..W /\ age \in Nat
      BY <1>0, <2>3
    <3>2. Within(later, age) = Within(free, age - 1)
      BY <1>0, <3>1 DEF Within
    <3>3. Within(older, age) = Within(failures, age - 1)
      <4>1. \A n \in DOMAIN failures : Older(failures[n]) <= age <=> failures[n] <= age - 1
        BY <1>0, <3>1 DEF Older, Recent
      <4> QED BY <4>1 DEF Within
    <3>4. Cardinality(Within(free, age - 1)) <= Cardinality(Pending) + Cardinality(Within(failures, age - 1))
      BY <3>1 DEF FewInv, Backed
    <3> QED BY <1>1, <1>4, <2>1, <3>2, <3>3, <3>4
  <2> QED BY <2>2, <2>3
<1>6. FreeAnswersAreFew'
  <2>1. Len(free') <= Len(free) /\ Len(free') \in Nat
    <3> HIDE DEF later
    <3>1. PICK k \in 0..Len(later) : Len(SinceRecent(later)) = Len(later) - k
      BY <1>3, SinceRecentDrops
    <3> QED BY <1>0, <1>1, <1>3, <3>1
  <2>2. Len(free) <= LOGIN_FREE_FAILURES + Cardinality(Session) - 1
    BY DEF FewInv, FreeAnswersAreFew
  <2>3. LOGIN_FREE_FAILURES + Cardinality(Session) - 1 \in Int
    BY ThrottleAssumption, FS_CardinalityType
  <2> QED BY <1>0, <2>1, <2>2, <2>3 DEF FreeAnswersAreFew
<1> QED BY <1>5, <1>6 DEF FewInv

(* However many sessions type wrong passwords side by side, of those of a   *)
(* window only the free ones go without delay, and those that the other     *)
(* sessions have between their wait() and their record().  There is a       *)
(* session, and a delay to speak of.                                        *)
THEOREM GuessesAreFew ==
  ASSUME IsFiniteSet(Session), Session # {}, MAX_LOGIN_DELAY_SECONDS > 0
  PROVE  Spec => []FreeAnswersAreFew
<1>1. Init => FewInv
  <2> SUFFICES ASSUME Init PROVE FewInv
    OBVIOUS
  <2>1. LoginTypes /\ free = <<>> /\ failures = <<>>
    BY InitTypes DEF Init, ThrottleInit
  <2>2. Cardinality(Session) \in Nat /\ Cardinality(Session) # 0 /\ LOGIN_FREE_FAILURES \in Nat
    BY FS_CardinalityType, FS_EmptySet, ThrottleAssumption
  <2>3. FreeAnswersAreFew
    BY <2>1, <2>2 DEF FreeAnswersAreFew
  <2>4. \A age : Within(free, age) = {} /\ Within(failures, age) = {}
    BY <2>1 DEF Within
  <2>5. Backed
    BY <2>4, PendingFinite, FS_EmptySet DEF Backed
  <2> QED BY <2>1, <2>3, <2>5 DEF FewInv
<1>2. FewInv /\ [Next]_vars => FewInv'
  <2> SUFFICES ASSUME FewInv, [Next]_vars PROVE FewInv'
    OBVIOUS
  <2>0. LoginTypes' /\ stage \in [Session -> Stage]
    BY TypesStep DEF FewInv, LoginTypes
  <2>1. ASSUME NEW s \in Session, CookieAdmits(s) PROVE FewInv'
    BY <2>0, <2>1, FewSame DEF CookieAdmits, throttleVars, history
  <2>2. ASSUME NEW s \in Session, Submit(s) PROVE FewInv'
    BY <2>0, <2>2, FewSame DEF Submit, throttleVars, history
  <2>3. ASSUME NEW s \in Session, Logout(s) PROVE FewInv'
    BY <2>0, <2>3, FewSame DEF Logout, throttleVars
  <2>4. ASSUME NEW s \in Session, Admit(s) PROVE FewInv'
    BY <2>0, <2>4, FewAdmit
  <2>5. ASSUME NEW s \in Session, Wait(s) PROVE FewInv'
    BY <2>0, <2>5, FewWait
  <2>6. ASSUME NEW s \in Session, Awake(s) PROVE FewInv'
    BY <2>0, <2>6, FewSame DEF Awake, EndWait
  <2>7. ASSUME NEW s \in Session, Refuse(s) PROVE FewInv'
    BY <2>0, <2>7, FewRefuse
  <2>8. ASSUME NEW s \in Session, Reload(s) PROVE FewInv'
    BY <2>0, <2>8, FewSame DEF Reload, throttleVars
  <2>9. ASSUME NEW s \in Session, CookieWritten(s) PROVE FewInv'
    BY <2>0, <2>9, FewSame DEF CookieWritten, throttleVars, history
  <2>10. ASSUME NEW b \in Browser, Expire(b) PROVE FewInv'
    BY <2>0, <2>10, FewSame DEF Expire, throttleVars, history
  <2>11. ASSUME TimePasses PROVE FewInv'
    BY <2>0, <2>11, FewTime
  <2>12. ASSUME UNCHANGED vars PROVE FewInv'
    BY <2>0, <2>12, FewSame DEF vars, throttleVars, sessionVars, history
  <2> QED BY <2>1, <2>2, <2>3, <2>4, <2>5, <2>6, <2>7, <2>8, <2>9, <2>10, <2>11, <2>12 DEF Next, Script
<1>3. FewInv => FreeAnswersAreFew
  BY DEF FewInv
<1> QED BY <1>1, <1>2, <1>3, PTL DEF Spec

=============================================================================
