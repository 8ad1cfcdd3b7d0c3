-------------------------- MODULE ClientCallProofs --------------------------
(***************************************************************************)
(* Proofs about ClientCall for every set of keys, every trusted subset and *)
(* every network magic: the sent request is well signed, processCall's    *)
(* result agrees with x.err, and processCall implements CallAbstract.      *)
(***************************************************************************)
EXTENDS ClientCall, TLAPS

(* The inductive invariant: what each stage of processCall may assume of  *)
(* the stages before it.                                                   *)
Inv ==
    /\ TypeOK
    /\ SentRequestSigned
    /\ ReturnContract
    /\ pc \in {"write", "read"} => status = NoStatus
    /\ pc \in {"write", "read", "close"} => result = NoResult
    /\ pc = "read" => resp \in Resp
    /\ pc \in {"close", "return"} => status = resp /\ resp \in Resp /\ err = "nil"
    /\ pc = "return" => result = IF params.result THEN resp ELSE NoResult

-----------------------------------------------------------------------------
(* prepareRequest yields a meta header with a TTL, a version and the       *)
(* network magic, from any meta header or none.                            *)
LEMMA PrepareFacts ==
  ASSUME NEW m \in Meta \cup {NoMeta}
  PROVE  /\ PrepareRequest(m) \in Meta
         /\ PrepareRequest(m).ttl > 0
         /\ PrepareRequest(m).version
         /\ PrepareRequest(m).magic = NetMagic
BY CallAssumption DEF PrepareRequest, Meta

(* writeRequest signs a well-formed request: one verification header over *)
(* the prepared meta header.                                               *)
LEMMA SignedFacts ==
  ASSUME NEW q \in Request
  PROVE  SignedRequest(q) \in Request /\ WellSigned(SignedRequest(q))
<1>1. q.meta \in Meta \cup {NoMeta}
  BY DEF Request
<1>. QED  BY <1>1, PrepareFacts DEF SignedRequest, SignServiceMessage, Request, Verif, WellSigned

LEMMA InitInv == Init => Inv
BY CallAssumption DEF Init, Inv, TypeOK, SentRequestSigned, ReturnContract, Request, Verif, Errors

LEMMA NextInv == Inv /\ [Next]_vars => Inv'
<1> SUFFICES ASSUME Inv, [Next]_vars PROVE Inv'
  OBVIOUS
<1>. USE CallAssumption DEF Inv, TypeOK, SentRequestSigned, ReturnContract, Errors
<1>1. CASE WriteRequest
  <2>1. req.meta \in Meta \cup {NoMeta}
    BY DEF Request
  <2>2. CASE req' = [meta |-> PrepareRequest(req.meta), verif |-> NoVerif]
             /\ err' = "sign" /\ Step(FALSE, "read") /\ UNCHANGED <<sent, resp>>
    <3>1. req' \in Request
      BY <2>1, <2>2, PrepareFacts DEF Request
    <3>. QED  BY <1>1, <2>2, <3>1 DEF WriteRequest, Step
  <2>3. CASE req' = SignedRequest(req) /\ sent' = req'
    <3>1. req' \in Request /\ WellSigned(sent')
      BY <2>3, SignedFacts
    <3>. QED  BY <1>1, <2>3, <3>1 DEF WriteRequest, Step
  <2>. QED  BY <1>1, <2>2, <2>3 DEF WriteRequest
<1>2. CASE ReadResponse
  <2>1. CASE params.rResp /\ err' = "read" /\ Step(FALSE, "close") /\ UNCHANGED <<resp, status>>
    BY <1>2, <2>1 DEF ReadResponse, Step
  <2>2. CASE \E r \in IF params.rResp THEN Resp ELSE {resp} : resp' = r /\ ProcessResponse(r)
    <3>1. PICK r \in IF params.rResp THEN Resp ELSE {resp} : resp' = r /\ ProcessResponse(r)
      BY <2>2
    <3>2. r \in Resp
      BY <1>2 DEF ReadResponse
    <3>. QED  BY <1>2, <3>1, <3>2 DEF ReadResponse, ProcessResponse, Step, ResponseOK, CallbackAccepts
  <2>. QED  BY <1>2, <2>1, <2>2 DEF ReadResponse
<1>3. CASE Close
  BY <1>3 DEF Close, Step
<1>4. CASE Return
  BY <1>4 DEF Return
<1>5. CASE Terminated \/ UNCHANGED vars
  BY <1>5 DEF Terminated, vars
<1>. QED  BY <1>1, <1>2, <1>3, <1>4, <1>5 DEF Next

LEMMA InvAlways == Spec => []Inv
BY InitInv, NextInv, PTL DEF Spec

(* Every request processCall hands to the transport carries a TTL, a      *)
(* version and the network magic, and one verification header over that   *)
(* meta header (writeRequest, common.go 136-147).                          *)
THEOREM RequestsWellSigned == Spec => []SentRequestSigned
BY InvAlways, PTL DEF Inv

(* processCall returns false exactly when x.err holds the reason          *)
(* (common.go 234-263).                                                    *)
THEOREM ReturnMatchesErr == Spec => []ReturnContract
BY InvAlways, PTL DEF Inv

(* processCall keeps every field of contextCall within its type.          *)
THEOREM CallTypeCorrect == Spec => []TypeOK
BY InvAlways, PTL DEF Inv

-----------------------------------------------------------------------------
(* Each step of processCall is a step of the abstract call or leaves the  *)
(* abstract state alone: writeRequest, a successful close and a stutter   *)
(* leave it; a failing stage is Fail; processResponse recording a status  *)
(* is SetStatus; the last line returning true is Succeed.                  *)
LEMMA StepRefines == Inv /\ [Next]_vars => [Abstract!ANext]_Abstract!avars
<1> SUFFICES ASSUME Inv, [Next]_vars PROVE [Abstract!ANext]_Abstract!avars
  OBVIOUS
<1>. USE CallAssumption DEF Inv, TypeOK, ReturnContract, Outcome, Result,
         Abstract!ANext, Abstract!avars, Abstract!Fail, Abstract!Succeed
<1>1. CASE WriteRequest
  BY <1>1 DEF WriteRequest, Step
<1>2. CASE ReadResponse
  <2>1. CASE params.rResp /\ err' = "read" /\ Step(FALSE, "close") /\ UNCHANGED <<resp, status>>
    BY <1>2, <2>1 DEF ReadResponse, Step
  <2>2. CASE \E r \in IF params.rResp THEN Resp ELSE {resp} : resp' = r /\ ProcessResponse(r)
    <3>1. PICK r \in IF params.rResp THEN Resp ELSE {resp} : resp' = r /\ ProcessResponse(r)
      BY <2>2
    <3>2. r \in Resp
      BY <1>2 DEF ReadResponse
    <3>3. CASE CallbackAccepts(r) /\ r.sig /\ (r.st = "OK" \/ ~params.resolve)
      <4>1. Abstract!SetStatus(r)
        BY <1>2, <3>1, <3>3 DEF ReadResponse, ProcessResponse, Step, ResponseOK,
           CallbackAccepts, Abstract!SetStatus, Abstract!Acceptable
      <4>. QED  BY <3>2, <4>1 DEF Resp
    <3>4. CASE ~(CallbackAccepts(r) /\ r.sig /\ (r.st = "OK" \/ ~params.resolve))
      BY <1>2, <3>1, <3>4 DEF ReadResponse, ProcessResponse, Step
    <3>. QED  BY <3>3, <3>4
  <2>. QED  BY <1>2, <2>1, <2>2 DEF ReadResponse
<1>3. CASE Close
  BY <1>3 DEF Close, Step
<1>4. CASE Return
  BY <1>4 DEF Return
<1>5. CASE Terminated \/ UNCHANGED vars
  BY <1>5 DEF Terminated, vars
<1>. QED  BY <1>1, <1>2, <1>3, <1>4, <1>5 DEF Next

(* processCall implements its abstract contract CallAbstract under the    *)
(* mapping Outcome/Result: statuses come only from verified, accepted     *)
(* responses, and true is returned only with the result filled from the   *)
(* response whose status was recorded.                                     *)
THEOREM Refines == Spec => Refinement
<1>1. Init => Abstract!AInit
  BY DEF Init, Abstract!AInit, Outcome, Result
<1>. QED  BY <1>1, InvAlways, StepRefines, PTL DEF Spec, Refinement, Abstract!ASpec

=============================================================================
