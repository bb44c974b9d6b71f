--------------------------------- MODULE Login ---------------------------------
(***************************************************************************)
(* The login gate of the dashboard: every tab is a Streamlit session with  *)
(* flags of its own, the tabs of a browser share the remember-me cookie,   *)
(* which a component writes and removes later, if at all.                  *)
(***************************************************************************)
EXTENDS Throttle

CONSTANTS
  Browser, BrowserOf,
  MaxAttempts       \* passwords typed (bounds the model)

VARIABLES
  stage,        \* per session: where its script stands
  authed, logged_out,      \* per session: its session_state
  cookie,       \* per browser: whether it holds a valid token
  ops,          \* per session: what the cookie component has still to do
  attempts,     \* passwords typed
  free,         \* history: ages of the wrong passwords that went without delay
  quiet,        \* history: seconds since the last answer to a wrong password, up to the cap
  left          \* history: sessions logged out of and not logged into since

ASSUME LoginAssumption ==
  /\ BrowserOf \in [Session -> Browser]
  /\ MaxAttempts \in Nat

sessionVars == <<stage, authed, logged_out, cookie, ops, attempts>>
history     == <<free, quiet, left>>
vars        == <<throttleVars, sessionVars, history>>

Stage == {"form", "accepted", "refused", "sleeping", "answering", "in"}

Init ==
  /\ ThrottleInit
  /\ stage = [s \in Session |-> "form"]
  /\ authed = [s \in Session |-> FALSE]
  /\ logged_out = [s \in Session |-> FALSE]
  /\ cookie \in [Browser -> BOOLEAN]
  /\ ops = [s \in Session |-> "none"]
  /\ attempts = 0
  /\ free = <<>>
  /\ quiet = MAX_LOGIN_DELAY_SECONDS
  /\ left = {}

-----------------------------------------------------------------------------
(* The token is read unless the session was logged out of. *)
Remembered(s) == ~logged_out[s] /\ cookie[BrowserOf[s]]

CookieAdmits(s) ==
  /\ stage[s] = "form"
  /\ Remembered(s)
  /\ stage' = [stage EXCEPT ![s] = "in"]
  /\ authed' = [authed EXCEPT ![s] = TRUE]
  /\ UNCHANGED <<throttleVars, logged_out, cookie, ops, attempts, history>>

(* A password is typed, and checked before anything else. *)
Submit(s) ==
  /\ stage[s] = "form"
  /\ ~Remembered(s)
  /\ attempts < MaxAttempts
  /\ attempts' = attempts + 1
  /\ \E outcome \in {"accepted", "refused"} : stage' = [stage EXCEPT ![s] = outcome]
  /\ UNCHANGED <<throttleVars, authed, logged_out, cookie, ops, history>>

(* The right one: record(ok=True), then the session is in. *)
Admit(s) ==
  /\ stage[s] = "accepted"
  /\ RecordOk
  /\ stage' = [stage EXCEPT ![s] = "in"]
  /\ authed' = [authed EXCEPT ![s] = TRUE]
  /\ logged_out' = [logged_out EXCEPT ![s] = FALSE]
  /\ ops' = [ops EXCEPT ![s] = "set"]
  /\ left' = left \ {s}
  /\ free' = <<>>
  /\ UNCHANGED <<cookie, attempts, quiet>>

(* A wrong one: wait(), record(ok=False), and the form again. *)
Wait(s) ==
  /\ stage[s] = "refused"
  /\ BeginWait(s)
  /\ stage' = [stage EXCEPT ![s] = "sleeping"]
  /\ free' = IF sleep'[s] = 0 THEN Append(free, 0) ELSE free
  /\ UNCHANGED <<authed, logged_out, cookie, ops, attempts, quiet, left>>

Awake(s) ==
  /\ stage[s] = "sleeping"
  /\ EndWait(s)
  /\ stage' = [stage EXCEPT ![s] = "answering"]
  /\ quiet' = 0
  /\ UNCHANGED <<authed, logged_out, cookie, ops, attempts, free, left>>

Refuse(s) ==
  /\ stage[s] = "answering"
  /\ RecordWrong
  /\ stage' = [stage EXCEPT ![s] = "form"]
  /\ UNCHANGED <<authed, logged_out, cookie, ops, attempts, history>>

(* Mutant: the session does not remember that it was logged out of. *)
Logout_NoFlag(s) ==
  /\ stage[s] = "in"
  /\ stage' = [stage EXCEPT ![s] = "form"]
  /\ authed' = [authed EXCEPT ![s] = FALSE]
  /\ ops' = [ops EXCEPT ![s] = "remove"]
  /\ left' = left \cup {s}
  /\ UNCHANGED <<throttleVars, logged_out, cookie, attempts, free, quiet>>

Logout(s) ==
  /\ stage[s] = "in"
  /\ stage' = [stage EXCEPT ![s] = "form"]
  /\ authed' = [authed EXCEPT ![s] = FALSE]
  /\ logged_out' = [logged_out EXCEPT ![s] = TRUE]
  /\ ops' = [ops EXCEPT ![s] = "remove"]
  /\ left' = left \cup {s}
  /\ UNCHANGED <<throttleVars, cookie, attempts, free, quiet>>

-----------------------------------------------------------------------------
(* The environment: the tab is reloaded, which is a new session; the cookie *)
(* component gets to work, or never does; a token expires; time passes.     *)
Reload(s) ==
  /\ stage[s] \in {"form", "in"}
  /\ stage' = [stage EXCEPT ![s] = "form"]
  /\ authed' = [authed EXCEPT ![s] = FALSE]
  /\ logged_out' = [logged_out EXCEPT ![s] = FALSE]
  /\ left' = left \ {s}
  /\ UNCHANGED <<throttleVars, cookie, ops, attempts, free, quiet>>

CookieWritten(s) ==
  /\ ops[s] # "none"
  /\ ops' = [ops EXCEPT ![s] = "none"]
  /\ \/ cookie' = [cookie EXCEPT ![BrowserOf[s]] = (ops[s] = "set")]
     \/ UNCHANGED cookie
  /\ UNCHANGED <<throttleVars, stage, authed, logged_out, attempts, history>>

Expire(b) ==
  /\ cookie[b]
  /\ cookie' = [cookie EXCEPT ![b] = FALSE]
  /\ UNCHANGED <<throttleVars, stage, authed, logged_out, ops, attempts, history>>

TimePasses ==
  /\ Tick
  /\ free' = SinceRecent([n \in DOMAIN free |-> free[n] + 1])
  /\ quiet' = IF quiet < MAX_LOGIN_DELAY_SECONDS THEN quiet + 1 ELSE quiet
  /\ UNCHANGED <<sessionVars, left>>

Script(s) == Admit(s) \/ Wait(s) \/ Awake(s) \/ Refuse(s)

Next ==
  \/ \E s \in Session :
       \/ CookieAdmits(s) \/ Submit(s) \/ Logout(s)
       \/ Script(s)
       \/ Reload(s) \/ CookieWritten(s)
  \/ \E b \in Browser : Expire(b)
  \/ TimePasses

(* The scripts of the sessions run on, and time passes.  Nobody has to type *)
(* a password, to log out or to reload, and cookies need not be written.    *)
Fairness == WF_vars(TimePasses) /\ \A s \in Session : WF_vars(Script(s))

Spec == Init /\ [][Next]_vars /\ Fairness

-----------------------------------------------------------------------------
TypeOK ==
  /\ ThrottleTypeOK
  /\ stage \in [Session -> Stage]
  /\ authed \in [Session -> BOOLEAN]
  /\ logged_out \in [Session -> BOOLEAN]
  /\ \A s \in Session : authed[s] <=> stage[s] = "in"
  /\ \A s \in Session : lock = s <=> stage[s] = "sleeping"
  /\ cookie \in [Browser -> BOOLEAN]
  /\ ops \in [Session -> {"none", "set", "remove"}]
  /\ attempts \in 0..MaxAttempts
  /\ free \in Seq(0..LOGIN_FAILURE_WINDOW_SECONDS)
  /\ quiet \in 0..MAX_LOGIN_DELAY_SECONDS
  /\ left \subseteq Session

(* Logging out sticks: whatever the browser still holds of the cookie, the  *)
(* session is not let in again before a right password is typed in it.      *)
LogoutSticks == \A s \in left : ~authed[s]

(* Sessions queue behind a sleeper instead of being answered side by side:  *)
(* between two answers to wrong passwords lies the whole delay the second   *)
(* one was due.                                                             *)
AnswersSpaced ==
  [][\A s \in Session : stage[s] = "sleeping" /\ stage'[s] = "answering"
       => quiet >= DelayFor(Len(failures))]_vars

(* Only so many wrong passwords of a window go without delay, however many  *)
(* sessions type them: the free ones, and what the other sessions may have  *)
(* between their wait() and their record().                                 *)
FreeAnswersAreFew ==
  Len(free) <= LOGIN_FREE_FAILURES + Cardinality(Session) - 1

(* A delay, never a lockout: a right password gets the session in. *)
RightPasswordEnters == \A s \in Session : stage[s] = "accepted" ~> authed[s]

(* What the class says of it: the right password never queues behind a      *)
(* session that sleeps off a wrong one.                                     *)
RightPasswordNeverQueues ==
  \A s \in Session : stage[s] = "accepted" /\ lock # NoSession => sleep[lock] = 0

=============================================================================
