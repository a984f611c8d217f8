-------------------------- MODULE IdempotencyStore --------------------------
(***************************************************************************)
(* The table idempotency_records that every command service keeps          *)
(* (service/transaction/database/schema/idempotency.go and its copies),    *)
(* one record per client key.  Each operator is the effect of one SQL      *)
(* statement; whether the caller learns of the effect is the caller's      *)
(* concern.  A request stands for its hash.                                *)
(***************************************************************************)
CONSTANTS Keys

VARIABLES idem

Absent == [status |-> "absent", request |-> {}, resource |-> {}]

Init == idem = [k \in Keys |-> Absent]

\* INSERT ... ON CONFLICT DO UPDATE ... WHERE expired.  An expired record is
\* modelled as absent.
Claim(k, r) ==
    /\ idem[k].status = "absent"
    /\ idem' = [idem EXCEPT ![k] = [status |-> "processing", request |-> {r}, resource |-> {}]]

\* Get finds a stored response to this very request.
Replayable(k, r) == idem[k].status = "success" /\ idem[k].request = {r}

\* The UPDATE names key and hash and not the status.
Complete(k, r, x) ==
    IF idem[k].request = {r}
      THEN idem' = [idem EXCEPT ![k] = [status |-> "success", request |-> {r}, resource |-> {x}]]
      ELSE UNCHANGED idem

\* The DELETE names key, hash and the status processing.
Release(k, r) ==
    IF idem[k].request = {r} /\ idem[k].status = "processing"
      THEN idem' = [idem EXCEPT ![k] = Absent]
      ELSE UNCHANGED idem

\* expires_at, 24 hours after the claim, passes.
Expire(k) ==
    /\ idem[k].status # "absent"
    /\ idem' = [idem EXCEPT ![k] = Absent]
=============================================================================
