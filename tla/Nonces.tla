------------------------------- MODULE Nonces -------------------------------
(***************************************************************************)
(* The nonces table and the statements of app/services/nonce.py.           *)
(*                                                                         *)
(* A row is born unburned with an expiry 30 minutes ahead.  validate_nonce *)
(* burns it before the expiry, check_nonce_expired burns it after, each in *)
(* one conditional UPDATE.  Time enters only as the moment at which a live *)
(* row becomes stale, so the state keeps that instead of two instants:     *)
(*   "live"    burned = FALSE, expires_at >  now()                         *)
(*   "stale"   burned = FALSE, expires_at <= now()                         *)
(*   "used"    burned by validate_nonce     (burned_at <  expires_at)      *)
(*   "lapsed"  burned by check_nonce_expired (burned_at >= expires_at)     *)
(* by names the handler whose UPDATE set burned_at.  It outlives the row.  *)
(***************************************************************************)
EXTENDS Accounts

CONSTANTS
    NonceIds,    \* bound: the secrets that can be generated in a behaviour
    Requests,    \* the inbound POSTs, which are what burns a nonce
    Nobody       \* not a request and not an agent

ASSUME NoncesAssumption == Nobody \notin Requests /\ Nobody \notin Agents

VARIABLE nonces

NonceTypeOK ==
    nonces \in [NonceIds -> [st : {"unborn", "live", "stale", "used", "lapsed", "deleted"},
                             owner : Agents \cup {Nobody},
                             by : Requests \cup {Nobody}]]

NonceInit == nonces = [n \in NonceIds |-> [st |-> "unborn", owner |-> Nobody, by |-> Nobody]]

(* generate_nonce: a secret never seen before.                              *)
Generate(n, a) ==
    /\ nonces[n].st = "unborn"
    /\ nonces' = [nonces EXCEPT ![n] = [st |-> "live", owner |-> a, by |-> Nobody]]

(* Mutants: validate_nonce without AND burned = FALSE, check_nonce_expired  *)
(* with the test the wrong way round.                                       *)
ValidatesBurned(t) == t \in NonceIds /\ nonces[t].st \in {"live", "used"}
ExpiredBurned(t) == t \in NonceIds /\ nonces[t].st = "lapsed"

(* The two UPDATE ... RETURNING statements: the row each can match, and the *)
(* table once request r has burned it.                                      *)
Validates(t) == t \in NonceIds /\ nonces[t].st = "live"
Expired(t) == t \in NonceIds /\ nonces[t].st = "stale"
BurnValid(t, r) == nonces' = [nonces EXCEPT ![t] = [@ EXCEPT !.st = "used", !.by = r]]
BurnExpired(t, r) == nonces' = [nonces EXCEPT ![t] = [@ EXCEPT !.st = "lapsed", !.by = r]]

(* expires_at passes.                                                       *)
PassExpiry(n) ==
    /\ nonces[n].st = "live"
    /\ nonces' = [nonces EXCEPT ![n].st = "stale"]

(* DELETE FROM nonces WHERE agent_id = a, in update_contact.                *)
DeleteNonces(a) ==
    nonces' = [n \in NonceIds |->
                 IF nonces[n].owner = a THEN [nonces[n] EXCEPT !.st = "deleted"] ELSE nonces[n]]
=============================================================================
