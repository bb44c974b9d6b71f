------------------------------- MODULE Adapter -------------------------------
(***************************************************************************)
(* What all adapters share: fetch is called again and again over one       *)
(* client, once per tracked item, until it raises; ingest never asks a     *)
(* source again that raised.                                               *)
(***************************************************************************)
EXTENDS PoliteClient

CONSTANT MaxFetches     \* bounds the model

VARIABLES
  platform,   \* Source.platform, which picks the adapter
  at,         \* where fetch stands
  fetches,    \* fetches begun
  skipped,    \* malformed products the last fetch reports
  reported    \* history: the sum of what the fetches that returned reported

ASSUME AdapterAssumption == MaxFetches \in Nat

adapterVars == <<platform, at, fetches, skipped, reported>>

Platform == {"tiendanube", "woocommerce", "wix"}

Stage == {"idle", "robots", "maps", "home", "token", "pages", "returned", "failed"}

AdapterInit ==
  /\ platform \in Platform
  /\ at = "idle"
  /\ fetches = 0
  /\ skipped = 0
  /\ reported = 0

(* fetch is called. *)
Begin ==
  /\ at \in {"idle", "returned"}
  /\ fetches < MaxFetches
  /\ fetches' = fetches + 1

(* A call of the client ended in a response. *)
Response(stage) == at = stage /\ reply \in {"ok", "refused"}

(* fetch waits for u. *)
Await(stage, u) == at' = stage /\ Ask(u)

Return == at' = "returned" /\ NoCall /\ reported' = reported + skipped'

Raise == at' = "failed" /\ NoCall

(* The client gave up: every adapter lets the AdapterError through. *)
ClientGaveUp ==
  /\ at \notin {"idle", "returned", "failed"}
  /\ reply = "gave_up"
  /\ Raise
  /\ UNCHANGED <<robots, made, sent, waited, fetches, skipped, reported>>

-----------------------------------------------------------------------------
AdapterTypeOK ==
  /\ ClientTypeOK
  /\ platform \in Platform
  /\ at \in Stage
  /\ fetches \in 0..MaxFetches
  /\ skipped \in Nat
  /\ reported \in Nat

=============================================================================
