---------------------------- MODULE GlobalTrust ----------------------------
(***************************************************************************)
(* reputation.GlobalTrust (reputation/trust.go): a version, a lazily       *)
(* created body (manager, trust) and a signature over the marshalled body. *)
(* SetTrust stores the caller's *Trust itself (Trust.ToV2 is a pointer     *)
(* cast), so the caller's later Trust.SetValue/SetPeer edit the body.      *)
(* The caller's Trust objects are the heap cells TrustIds.                 *)
(***************************************************************************)
EXTENDS Naturals, Sequences

CONSTANTS Versions, Current,  \* protocol versions; version.Current()
          Managers,           \* PeerID values
          TrustIds,           \* the caller's Trust objects
          Vals,               \* non-zero trust values
          Keys, NilKey,       \* private keys; a nil *ecdsa.PrivateKey
          Nil, NoBody, NoSig

VARIABLES trusts,   \* the caller's Trust objects: peer and value
          version,  \* GlobalTrust version
          body,     \* NoBody or [manager, trust], trust a pointer into trusts
          sig,      \* NoSig or [key, data]
          signed    \* (history) the body contents at the last successful Sign

vars == <<trusts, version, body, sig, signed>>

TrustMsg == [peer : Managers \cup {Nil}, value : Vals]
Body == [manager : Managers \cup {Nil}, trust : TrustIds \cup {Nil}]

(* What a reader of a body sees (Manager(), Trust() dereferenced), the    *)
(* fields of a marshalled body, and a signature.                           *)
Contents == [m : Managers \cup {Nil}, t : TrustMsg \cup {Nil}]
Field == ({"manager"} \X Managers) \cup ({"trust"} \X TrustMsg)
Signature == [key : Keys, data : Seq(Field)]

ASSUME TrustAssumption ==
    /\ Current \in Versions
    /\ NilKey \notin Keys
    /\ 0 \notin Vals
    /\ Nil \notin Managers \cup TrustIds \cup TrustMsg
    /\ NoBody \notin Body
    /\ NoSig \notin Signature \cup Contents

-----------------------------------------------------------------------------
MarshalPointer(b) ==
    IF b = NoBody THEN <<>>
    ELSE (IF b.manager = Nil THEN <<>> ELSE <<<<"manager", b.manager>>>>)
         \o (IF b.trust = Nil THEN <<>> ELSE <<<<"trust", b.trust>>>>)

(* GetBody().StableMarshal(nil): the set fields in field order, the trust  *)
(* marshalled from the Trust object the body points to.  A nil body and   *)
(* an empty body both marshal to nothing.                                  *)
Marshal(b) ==
    IF b = NoBody THEN <<>>
    ELSE (IF b.manager = Nil THEN <<>> ELSE <<<<"manager", b.manager>>>>)
         \o (IF b.trust = Nil THEN <<>> ELSE <<<<"trust", trusts[b.trust]>>>>)

(* setBodyField: the body, created empty if it is nil; the setter then    *)
(* sets one of its fields.                                                 *)
BodyOrNew == IF body = NoBody THEN [manager |-> Nil, trust |-> Nil] ELSE body

(* VerifySignature: "missing signature", "wrong signature" or nil.         *)
VerifySignature ==
    IF sig = NoSig THEN "missing"
    ELSE IF sig.data = Marshal(body) THEN "ok" ELSE "wrong"

-----------------------------------------------------------------------------
(* The manager and the trust (peer and value) a reader of the body sees:  *)
(* Manager() and Trust() dereferenced, Nil when absent.  Sign records it *)
(* in the history variable signed.                                       *)
Content ==
    [m |-> IF body = NoBody THEN Nil ELSE body.manager,
     t |-> IF body = NoBody \/ body.trust = Nil THEN Nil
           ELSE trusts[body.trust]]

(* NewGlobalTrust, with the caller's Trust objects already filled in.      *)
Init ==
    /\ trusts \in [TrustIds -> TrustMsg]
    /\ version = Current
    /\ body = NoBody
    /\ sig = NoSig
    /\ signed = NoSig

SetVersion(v) ==
    /\ version' = v
    /\ UNCHANGED <<trusts, body, sig, signed>>

SetManager(m) ==
    /\ body' = [manager |-> m, trust |-> BodyOrNew.trust]
    /\ UNCHANGED <<trusts, version, sig, signed>>

SetTrust(t) ==
    /\ body' = [manager |-> BodyOrNew.manager, trust |-> t]
    /\ UNCHANGED <<trusts, version, sig, signed>>

(* Sign: a nil key is an error; otherwise the marshalled body is signed.   *)
Sign(k) ==
    /\ k # NilKey
    /\ sig' = [key |-> k, data |-> Marshal(body)]
    /\ signed' = Content
    /\ UNCHANGED <<trusts, version, body>>

(* The caller edits one of its Trust objects (Trust.SetValue, SetPeer).    *)
EditTrust(t, msg) ==
    /\ trusts' = [trusts EXCEPT ![t] = msg]
    /\ UNCHANGED <<version, body, sig, signed>>

Next ==
    \/ \E v \in Versions : SetVersion(v)
    \/ \E m \in Managers \cup {Nil} : SetManager(m)
    \/ \E t \in TrustIds \cup {Nil} : SetTrust(t)
    \/ \E k \in Keys \cup {NilKey} : Sign(k)
    \/ \E t \in TrustIds, msg \in TrustMsg : EditTrust(t, msg)

Spec == Init /\ [][Next]_vars

-----------------------------------------------------------------------------
(* VerifySignature succeeds exactly when the body reads as it did at the  *)
(* last Sign: every edit of what Manager() and Trust() return, including  *)
(* one made through the caller's aliased *Trust, invalidates the          *)
(* signature, and nothing else does (not SetVersion, not a lazily created *)
(* empty body).                                                           *)
VerifyIffUnchanged == (VerifySignature = "ok") <=> (sig # NoSig /\ Content = signed)
=============================================================================
