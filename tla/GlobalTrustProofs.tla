------------------------- MODULE GlobalTrustProofs -------------------------
(***************************************************************************)
(* VerifyIffUnchanged for every set of versions, managers, Trust objects, *)
(* values and keys: the signature GlobalTrust.Sign writes verifies exactly *)
(* while the body reads as it did when it was signed.                      *)
(***************************************************************************)
EXTENDS GlobalTrust, TLAPS

(* The marshalled form of a body whose reading is c.                       *)
Enc(c) ==
    (IF c.m = Nil THEN <<>> ELSE <<<<"manager", c.m>>>>)
    \o (IF c.t = Nil THEN <<>> ELSE <<<<"trust", c.t>>>>)

(* The inductive invariant: the signature is over the marshalled form of  *)
(* what the body read at Sign, and the history variable is set with it.    *)
GInv ==
    /\ trusts \in [TrustIds -> TrustMsg]
    /\ body \in Body \cup {NoBody}
    /\ signed \in Contents \cup {NoSig}
    /\ (sig = NoSig) <=> (signed = NoSig)
    /\ sig # NoSig => sig.data = Enc(signed)

(* Under the invariant, what the body reads is in Contents and the body   *)
(* marshals as its reading.                                                *)
LEMMA ContentFacts ==
  ASSUME GInv
  PROVE  /\ Content \in Contents
         /\ Marshal(body) = Enc(Content)
         /\ Enc(Content) \in Seq(Field)
<1>1. CASE body = NoBody
  <2>1. Content = [m |-> Nil, t |-> Nil]
    BY <1>1 DEF Content
  <2>. QED  BY <1>1, <2>1 DEF Contents, Marshal, Enc
<1>2. CASE body # NoBody
  <2>1. body \in Body
    BY <1>2 DEF GInv
  <2>2. Content = [m |-> body.manager,
                   t |-> IF body.trust = Nil THEN Nil ELSE trusts[body.trust]]
    BY <1>2 DEF Content
  <2>3. body.trust # Nil => trusts[body.trust] \in TrustMsg
    BY <2>1 DEF GInv, Body
  <2>4. Content \in Contents
    BY <2>1, <2>2, <2>3 DEF Contents, Body
  <2>5. Marshal(body) = Enc(Content)
    BY <1>2, <2>2, <2>3, TrustAssumption DEF Marshal, Enc
  <2>6. Enc(Content) \in Seq(Field)
    BY <2>4 DEF Enc, Contents, Field
  <2>. QED  BY <2>4, <2>5, <2>6
<1>. QED  BY <1>1, <1>2

(* Marshalling loses nothing a reader can see.                             *)
LEMMA EncInjective ==
  ASSUME NEW c1 \in Contents, NEW c2 \in Contents, Enc(c1) = Enc(c2)
  PROVE  c1 = c2
BY TrustAssumption DEF Contents, Enc

LEMMA GInit == Init => GInv
BY TrustAssumption DEF Init, GInv

LEMMA GNext == GInv /\ [Next]_vars => GInv'
<1> SUFFICES ASSUME GInv, [Next]_vars PROVE GInv'
  OBVIOUS
<1>1. Content \in Contents /\ Marshal(body) = Enc(Content) /\ Enc(Content) \in Seq(Field)
  BY ContentFacts
<1>. USE TrustAssumption DEF GInv
<1>2. ASSUME NEW v \in Versions, SetVersion(v) PROVE GInv'
  BY <1>2 DEF SetVersion
<1>3. ASSUME NEW m \in Managers \cup {Nil}, SetManager(m) PROVE GInv'
  BY <1>3 DEF SetManager, BodyOrNew, Body
<1>4. ASSUME NEW t \in TrustIds \cup {Nil}, SetTrust(t) PROVE GInv'
  BY <1>4 DEF SetTrust, BodyOrNew, Body
<1>5. ASSUME NEW k \in Keys \cup {NilKey}, Sign(k) PROVE GInv'
  BY <1>1, <1>5 DEF Sign, Signature
<1>6. ASSUME NEW t \in TrustIds, NEW msg \in TrustMsg, EditTrust(t, msg) PROVE GInv'
  BY <1>6 DEF EditTrust
<1>7. CASE UNCHANGED vars
  BY <1>7 DEF vars
<1>. QED  BY <1>2, <1>3, <1>4, <1>5, <1>6, <1>7 DEF Next

(* VerifySignature succeeds exactly while what Manager() and Trust()      *)
(* return is what they returned at the last Sign (trust.go 266-317),       *)
(* whatever the caller does to the Trust objects it passed to SetTrust.    *)
THEOREM SignatureTracksBody == Spec => []VerifyIffUnchanged
<1>1. GInv => VerifyIffUnchanged
  <2> SUFFICES ASSUME GInv PROVE VerifyIffUnchanged
    OBVIOUS
  <2>1. Content \in Contents /\ Marshal(body) = Enc(Content)
    BY ContentFacts
  <2>2. CASE sig = NoSig
    BY <2>2 DEF VerifyIffUnchanged, VerifySignature
  <2>3. CASE sig # NoSig
    <3>1. signed \in Contents /\ sig.data = Enc(signed)
      BY <2>3 DEF GInv
    <3>2. Enc(signed) = Enc(Content) <=> signed = Content
      BY <2>1, <3>1, EncInjective
    <3>. QED  BY <2>1, <2>3, <3>1, <3>2 DEF VerifyIffUnchanged, VerifySignature
  <2>. QED  BY <2>2, <2>3
<1>. QED  BY <1>1, GInit, GNext, PTL DEF Spec
=============================================================================
