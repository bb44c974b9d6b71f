----------------------------- MODULE PoliteClient -----------------------------
(***************************************************************************)
(* PoliteHttpClient: the HTTP client every adapter asks through, one per   *)
(* store.  A call is one or more attempts, each sent after its pauses; an  *)
(* attempt is a request and, where the store redirects it, the hops that   *)
(* httpx follows at once.  A call ends in a response or in an              *)
(* AdapterError.  robots.txt is kept for the client's life.  The store     *)
(* answers a URL with 200 or, for those of site.gone, with a 4xx, redirects *)
(* what it likes, and any attempt may fail.                                *)
(***************************************************************************)
EXTENDS Integers, Sequences, FiniteSets, Lists

CONSTANTS
  Url, RobotsUrl, NoUrl,
  NoRobots,             \* robots.txt is not loaded
  MAX_RETRIES,
  MAX_REDIRECTS,        \* hops that an attempt follows
  COURTESY_DELAY        \* seconds

VARIABLES
  site,      \* the store: gone, disallowed and, per platform, what it serves
  robots,    \* what robots.txt disallows, once loaded
  made,      \* a request was made
  url,       \* the URL of the call in progress or just ended
  attempt,   \* its attempts that failed
  hops,      \* redirects followed by the attempt at hand
  reply,     \* how the call ended: "pending" before it does
  sent,      \* history: requests sent in the client's life
  waited     \* history: seconds slept just before the last of them

ASSUME ClientAssumption ==
  /\ RobotsUrl \in Url /\ NoUrl \notin Url
  /\ \A disallowed \in SUBSET Url : disallowed # NoRobots
  /\ MAX_RETRIES \in Nat /\ MAX_REDIRECTS \in Nat
  /\ COURTESY_DELAY \in Nat

clientVars == <<robots, made, url, attempt, hops, reply, sent, waited>>

Reply == {"pending", "ok", "refused", "gave_up"}

ClientInit ==
  /\ robots = NoRobots
  /\ made = FALSE
  /\ url = NoUrl
  /\ attempt = 0
  /\ hops = 0
  /\ reply = "pending"
  /\ sent = 0
  /\ waited = 0

Allows(u) == u \notin robots

(* get and post: a call begins. *)
Ask(u) == url' = u /\ attempt' = 0 /\ hops' = 0 /\ reply' = "pending"

NoCall == UNCHANGED <<url, attempt, hops, reply>>

(* Backoff before a retry, and the courtesy delay before all but the first  *)
(* request of the client.  The hops of a redirect go out without either.    *)
Pause ==
  IF hops > 0 THEN 0
  ELSE (IF attempt > 0 THEN 2^attempt ELSE 0) + (IF made THEN COURTESY_DELAY ELSE 0)

(* Mutant: robots.txt goes out of turn, and does not count as a request. *)
Send_RobotsUncounted ==
  /\ url # NoUrl /\ reply = "pending"
  /\ waited' = Pause
  /\ made' = (made \/ url # RobotsUrl)
  /\ sent' = sent + 1
  /\ UNCHANGED <<robots, url>>

Send ==
  /\ url # NoUrl /\ reply = "pending"
  /\ waited' = Pause
  /\ made' = TRUE
  /\ sent' = sent + 1
  /\ UNCHANGED <<robots, url>>

Answered ==
  /\ Send
  /\ reply' = IF url \in site.gone THEN "refused" ELSE "ok"
  /\ UNCHANGED <<attempt, hops>>

(* The store redirects, to wherever it likes: the next request of the       *)
(* attempt is the hop.                                                      *)
Redirected ==
  /\ Send
  /\ hops < MAX_REDIRECTS
  /\ hops' = hops + 1
  /\ UNCHANGED <<attempt, reply>>

(* Mutant: one retry too many. *)
Retry_OneMore ==
  /\ Send
  /\ attempt <= MAX_RETRIES
  /\ attempt' = attempt + 1
  /\ hops' = 0
  /\ UNCHANGED reply

(* A network error or a 5xx, on the request or on a hop: tried again from   *)
(* the call's own URL, a bounded number of times.                           *)
Retry ==
  /\ Send
  /\ attempt < MAX_RETRIES
  /\ attempt' = attempt + 1
  /\ hops' = 0
  /\ UNCHANGED reply

OutOfRetries ==
  /\ Send
  /\ attempt = MAX_RETRIES
  /\ reply' = "gave_up"
  /\ UNCHANGED <<attempt, hops>>

(* One redirect too many and a body past the cap are final, however few     *)
(* attempts were made.                                                      *)
TooManyRedirects ==
  /\ Send
  /\ hops = MAX_REDIRECTS
  /\ reply' = "gave_up"
  /\ UNCHANGED <<attempt, hops>>

ResponseTooLarge ==
  /\ Send
  /\ reply' = "gave_up"
  /\ UNCHANGED <<attempt, hops>>

GivesUp == OutOfRetries \/ TooManyRedirects \/ ResponseTooLarge

Attempt == Answered \/ Redirected \/ Retry \/ GivesUp

(* The robots.txt call ended: a 4xx allows everything. *)
LoadRobots ==
  /\ url = RobotsUrl
  /\ reply \in {"ok", "refused"}
  /\ robots' = IF reply = "ok" THEN site.disallowed ELSE {}

-----------------------------------------------------------------------------
ClientTypeOK ==
  /\ robots \in (SUBSET Url) \cup {NoRobots}
  /\ made \in BOOLEAN
  /\ url \in Url \cup {NoUrl}
  /\ attempt \in 0..MAX_RETRIES
  /\ hops \in 0..MAX_REDIRECTS
  /\ reply \in Reply
  /\ sent \in Nat
  /\ waited \in Nat

(* The courtesy of the client: whatever it asks for, in whatever fetch and  *)
(* after whatever failure, no attempt but the client's first goes out less  *)
(* than the courtesy delay after the request before it.  The policy says it *)
(* of requests; the hops of a redirect, no more of them in a row than       *)
(* MAX_REDIRECTS, are not spaced.                                           *)
AttemptsSpaced ==
  [][sent' # sent /\ sent > 0 /\ hops = 0 => waited' >= COURTESY_DELAY]_clientVars

=============================================================================
