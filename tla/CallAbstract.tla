---------------------------- MODULE CallAbstract ----------------------------
(***************************************************************************)
(* What a client call (client/common.go, contextCall.processCall) promises *)
(* its caller, with the stages abstracted away.  The call ends "ok" or     *)
(* "error".  Before it ends it may record, once, the status of a response  *)
(* it accepted (statusRes.setStatus), and it fills the result structure    *)
(* from that response exactly when it ends "ok".                           *)
(***************************************************************************)
CONSTANTS Keys,      \* public keys a response may be signed with
          Trusted,   \* the keys the response callback accepts
          NoStatus,  \* statusRes before setStatus
          NoResult   \* the result structure before result(resp)

VARIABLES params,    \* the call parameters, fixed for the call
          outcome,   \* "pending", "ok" or "error"
          status,    \* the response whose status was recorded, or NoStatus
          result     \* the response written to the result, or NoResult

avars == <<params, outcome, status, result>>

(* The API statuses; the model keeps only success and failure.             *)
Statuses == {"OK", "Fail"}

(* A response: the key of its body signature, whether its signatures       *)
(* verify, and its status.                                                 *)
Resp == [key : Keys, sig : BOOLEAN, st : Statuses]

(* The fields of contextCall set before processCall: resolveAPIFailures,   *)
(* and whether callbackResp, rResp, closer and result are set.             *)
Params == [resolve : BOOLEAN, cb : BOOLEAN, rResp : BOOLEAN,
           closer : BOOLEAN, result : BOOLEAN]

(* A response whose status the call may record: its signature verifies,    *)
(* the callback (if any) accepts its key, and its status is successful     *)
(* unless API failures are not resolved into errors.                       *)
Acceptable(r) ==
    /\ r.sig
    /\ params.cb => r.key \in Trusted
    /\ r.st = "OK" \/ ~params.resolve

AInit ==
    /\ params \in Params
    /\ outcome = "pending"
    /\ status = NoStatus
    /\ result = NoResult

SetStatus(r) ==
    /\ outcome = "pending"
    /\ status = NoStatus
    /\ Acceptable(r)
    /\ status' = r
    /\ UNCHANGED <<params, outcome, result>>

Succeed ==
    /\ outcome = "pending"
    /\ status # NoStatus
    /\ outcome' = "ok"
    /\ result' = IF params.result THEN status ELSE NoResult
    /\ UNCHANGED <<params, status>>

Fail ==
    /\ outcome = "pending"
    /\ outcome' = "error"
    /\ UNCHANGED <<params, status, result>>

ANext == (\E r \in Resp : SetStatus(r)) \/ Succeed \/ Fail

ASpec == AInit /\ [][ANext]_avars
=============================================================================
