----------------------------- MODULE ClientCall -----------------------------
(***************************************************************************)
(* contextCall.processCall of client/common.go: one request/response       *)
(* exchange, stage by stage.  Every stage that calls out (signing, the     *)
(* unary call, rResp, the response callback, signature verification,       *)
(* closer) may fail, and a failed stage ends the call with false and the   *)
(* reason in x.err.  The environment (transport and server) is             *)
(* nondeterministic: any response, well or badly signed, from any key.     *)
(***************************************************************************)
EXTENDS Naturals

CONSTANTS Keys, Trusted, NoStatus, NoResult,
          NetMagic,  \* c.opts.netMagic
          NoMeta,    \* a request without meta header
          NoVerif,   \* a request without verification header
          NoResp,    \* x.resp when the call returned an error
          NoReq      \* nothing handed to the transport yet

VARIABLES params, status, result,
          req,    \* x.req: its meta header and verification header
          sent,   \* the request handed to the transport, or NoReq
          resp,   \* x.resp
          err,    \* x.err: "nil" or the stage that failed
          pc,     \* the stage of processCall about to run
          ret     \* the value processCall returned (once pc = "done")

vars == <<params, status, result, req, sent, resp, err, pc, ret>>

(* The mapping to the abstract call: the call is pending until            *)
(* processCall returns, and the result structure is the caller's to read  *)
(* only then.                                                             *)
Outcome == IF pc # "done" THEN "pending" ELSE IF ret THEN "ok" ELSE "error"
Result == IF pc = "done" THEN result ELSE NoResult

Abstract == INSTANCE CallAbstract WITH outcome <- Outcome, result <- Result

Resp == Abstract!Resp

ASSUME CallAssumption ==
    /\ Trusted \subseteq Keys
    /\ NetMagic \in Nat
    /\ NoStatus \notin Resp /\ NoResult \notin Resp /\ NoResp \notin Resp

(* Meta headers: TTL, whether a version is set, network magic.  Requests   *)
(* built by the caller may already carry one.                              *)
Meta == [ttl : 0..2, version : BOOLEAN, magic : 0..NetMagic]

(* A verification header: the meta header it signs and whether it wraps    *)
(* an earlier verification header as origin.                               *)
Verif == [over : Meta, origin : BOOLEAN]

Request == [meta : Meta \cup {NoMeta}, verif : Verif \cup {NoVerif}]

Errors == {"nil", "sign", "write", "read", "callback", "signature",
           "status", "close"}

-----------------------------------------------------------------------------
(* prepareRequest: a missing meta header is created; TTL 0 becomes 2; a    *)
(* missing version becomes the current one; the magic is always set.       *)
PrepareRequest(m) ==
    LET base == IF m = NoMeta THEN [ttl |-> 0, version |-> FALSE, magic |-> 0]
                              ELSE m
    IN  [ttl |-> IF base.ttl = 0 THEN 2 ELSE base.ttl,
         version |-> TRUE,
         magic |-> NetMagic]

(* SignServiceMessage signs the meta header and wraps the verification     *)
(* header the request already carries.                                     *)
SignServiceMessage(q) ==
    [meta |-> q.meta, verif |-> [over |-> q.meta, origin |-> q.verif # NoVerif]]

SignedRequestNoClear(q) ==
    SignServiceMessage([q EXCEPT !.meta = PrepareRequest(q.meta)])

(* writeRequest up to the signature: prepare, clear the verification       *)
(* header, sign.                                                           *)
SignedRequest(q) ==
    SignServiceMessage([meta |-> PrepareRequest(q.meta), verif |-> NoVerif])

(* processCall after a stage: go on when it returned true, else return     *)
(* false.                                                                  *)
Step(ok, next) ==
    IF ok THEN pc' = next /\ UNCHANGED ret ELSE pc' = "done" /\ ret' = FALSE

ResponseOKNoResolve(r) == r.st = "OK"

(* The value processResponse returns once it set the status.               *)
ResponseOK(r) == r.st = "OK" \/ ~params.resolve

-----------------------------------------------------------------------------
Init ==
    /\ params \in Abstract!Params
    /\ status = NoStatus
    /\ result = NoResult
    /\ req \in [meta : Meta \cup {NoMeta},
                verif : {NoVerif} \cup [over : Meta, origin : {FALSE}]]
    /\ sent = NoReq
    /\ resp = NoResp
    /\ err = "nil"
    /\ pc = "write"
    /\ ret = FALSE

(* writeRequest with the wReq set by processCall (x.resp, err = x.call()). *)
WriteRequest ==
    /\ pc = "write"
    /\ \/ /\ req' = [meta |-> PrepareRequest(req.meta), verif |-> NoVerif]
          /\ err' = "sign"
          /\ Step(FALSE, "read")
          /\ UNCHANGED <<sent, resp>>
       \/ /\ req' = SignedRequest(req)
          /\ sent' = req'
          /\ \/ \E r \in Resp : resp' = r /\ err' = "nil" /\ Step(TRUE, "read")
             \/ resp' = NoResp /\ err' = "write" /\ Step(FALSE, "read")
    /\ UNCHANGED <<params, status, result>>

(* The response callback (lines 165-173) accepts the response.           *)
CallbackAccepts(r) == params.cb => r.key \in Trusted

ProcessResponseNoVerify(r) ==
    \/ /\ ~CallbackAccepts(r)
       /\ err' = "callback" /\ Step(FALSE, "close") /\ UNCHANGED status
    \/ /\ CallbackAccepts(r) /\ r.st # "OK" /\ params.resolve
       /\ err' = "status" /\ Step(FALSE, "close") /\ UNCHANGED status
    \/ /\ CallbackAccepts(r) /\ (r.st = "OK" \/ ~params.resolve)
       /\ err' = "nil" /\ status' = r /\ Step(ResponseOK(r), "close")

(* processResponse on response r: the callback first, then the signature,  *)
(* then the status; each returns false with x.err set, in this order.      *)
ProcessResponse(r) ==
    \/ /\ ~CallbackAccepts(r)
       /\ err' = "callback" /\ Step(FALSE, "close") /\ UNCHANGED status
    \/ /\ CallbackAccepts(r) /\ ~r.sig
       /\ err' = "signature" /\ Step(FALSE, "close") /\ UNCHANGED status
    \/ /\ CallbackAccepts(r) /\ r.sig /\ r.st # "OK" /\ params.resolve
       /\ err' = "status" /\ Step(FALSE, "close") /\ UNCHANGED status
    \/ /\ CallbackAccepts(r) /\ r.sig /\ (r.st = "OK" \/ ~params.resolve)
       /\ err' = "nil" /\ status' = r /\ Step(ResponseOK(r), "close")

(* readResponse: rResp (if set) reads a new x.resp, then processResponse.  *)
ReadResponse ==
    /\ pc = "read"
    /\ \/ /\ params.rResp
          /\ err' = "read"
          /\ Step(FALSE, "close")
          /\ UNCHANGED <<resp, status>>
       \/ \E r \in IF params.rResp THEN Resp ELSE {resp} :
             resp' = r /\ ProcessResponse(r)
    /\ UNCHANGED <<params, result, req, sent>>

(* close: closer (if set), then result(x.resp) (if set).                   *)
Close ==
    /\ pc = "close"
    /\ \/ /\ params.closer
          /\ err' = "close"
          /\ Step(FALSE, "return")
          /\ UNCHANGED result
       \/ /\ err' = IF params.closer THEN "nil" ELSE err
          /\ result' = IF params.result THEN resp ELSE result
          /\ Step(TRUE, "return")
    /\ UNCHANGED <<params, status, req, sent, resp>>

(* The last line of processCall: return x.err == nil.                      *)
Return ==
    /\ pc = "return"
    /\ pc' = "done"
    /\ ret' = (err = "nil")
    /\ UNCHANGED <<params, status, result, req, sent, resp, err>>

Terminated == pc = "done" /\ UNCHANGED vars

Next == WriteRequest \/ ReadResponse \/ Close \/ Return \/ Terminated

(* No fairness: the stages are RPCs and a user callback, which the code    *)
(* does not bound, so nothing here claims that processCall returns.        *)
Spec == Init /\ [][Next]_vars

-----------------------------------------------------------------------------
TypeOK ==
    /\ params \in Abstract!Params
    /\ status \in Resp \cup {NoStatus}
    /\ result \in Resp \cup {NoResult}
    /\ req \in Request
    /\ sent \in Request \cup {NoReq}
    /\ resp \in Resp \cup {NoResp}
    /\ err \in Errors
    /\ pc \in {"write", "read", "close", "return", "done"}
    /\ ret \in BOOLEAN

(* Every request handed to the transport (writeRequest, lines 136-147)     *)
(* carries a meta header with a TTL, a version and this network's magic,   *)
(* and exactly one verification header, over that very meta header: the   *)
(* meta header is final before signing and a verification header left on  *)
(* a reused request is dropped, not wrapped.                               *)
WellSigned(q) ==
    /\ q.meta.ttl > 0
    /\ q.meta.version
    /\ q.meta.magic = NetMagic
    /\ q.verif = [over |-> q.meta, origin |-> FALSE]

SentRequestSigned == sent # NoReq => WellSigned(sent)

(* processCall returns false exactly when x.err holds a reason (comments   *)
(* of lines 134, 202, 216 and 235; line 262).                              *)
ReturnContract == pc = "done" => (ret <=> err = "nil")

(* processCall implements its abstract contract: a status is recorded only *)
(* from a response whose signature verified, whose key the callback        *)
(* accepted and whose status is successful unless failures are resolved;  *)
(* true is returned only after that, with the result structure filled      *)
(* from the same response.                                                 *)
Refinement == Abstract!ASpec

(* The comment of processResponse (lines 156-157): a problem in the        *)
(* response is written "as a result status or client error (in both cases  *)
(* returns false)".  So a call that recorded an unsuccessful status never  *)
(* returns true.                                                           *)
ProblemReturnsFalse ==
    (status # NoStatus /\ status.st # "OK" /\ pc = "done") => ~ret
=============================================================================
