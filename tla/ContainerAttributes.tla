------------------------- MODULE ContainerAttributes -------------------------
(***************************************************************************)
(* The native name and zone of a container (container/attribute.go).  A   *)
(* container's attributes are a list of key/value pairs; setAttribute      *)
(* overwrites the first pair with the key or appends one, and             *)
(* GetNativeNameWithZone scans the list until it has seen a non-empty     *)
(* name and a non-empty zone.  The list a container starts with is any    *)
(* list of InitAttrs: the SDK's SetAttributes and decoding from the        *)
(* network accept any list, duplicate keys included.                       *)
(***************************************************************************)
EXTENDS Naturals, Sequences

CONSTANTS Keys,         \* attribute keys, SysAttributeName and SysAttributeZone among them
          Values,       \* attribute values; Empty is ""
          Empty,
          Name,         \* container.SysAttributeName
          Zone,         \* container.SysAttributeZone
          ZoneDefault,  \* container.SysAttributeZoneDefault
          InitAttrs,    \* the attribute lists a container may start with
          NoLast

ASSUME AttrAssumption ==
    /\ {Name, Zone} \subseteq Keys /\ Name # Zone
    /\ {Empty, ZoneDefault} \subseteq Values /\ ZoneDefault # Empty
    /\ NoLast \notin Values \X Values
    /\ InitAttrs \subseteq Seq([key : Keys, value : Values])

VARIABLES attrs,  \* c.Attributes()
          last    \* the <<name, zone>> of the last SetNativeName(WithZone), or NoLast

vars == <<attrs, last>>

Attribute == [key : Keys, value : Values]

-----------------------------------------------------------------------------
\* The least and the greatest of a set of indices.
MinIdx(I) == CHOOSE j \in I : \A m \in I : j <= m
MaxIdx(I) == CHOOSE j \in I : \A m \in I : m <= j

\* The indices of the attributes with the key among the first n.
KeyIdx(as, key, n) == {j \in 1..n : as[j].key = key}

(* The loop of setAttribute: the index of the first attribute with the    *)
(* key, 0 when there is none.                                             *)
FirstIndex(as, key) ==
    IF KeyIdx(as, key, Len(as)) = {} THEN 0 ELSE MinIdx(KeyIdx(as, key, Len(as)))

SetAttributeAppend(as, key, value) == Append(as, [key |-> key, value |-> value])

(* setAttribute: overwrite the value of the first attribute with the key,  *)
(* or append a new attribute.                                             *)
SetAttribute(as, key, value) ==
    LET i == FirstIndex(as, key)
    IN  IF i # 0 THEN [as EXCEPT ![i].value = value]
                 ELSE Append(as, [key |-> key, value |-> value])

(* The handler of GetNativeNameWithZone after it ran on the first n       *)
(* attributes: it holds the value of the last Name (Zone) attribute among *)
(* them, or "" when there is none.                                        *)
Seen(as, key, n) ==
    IF KeyIdx(as, key, n) = {} THEN Empty ELSE as[MaxIdx(KeyIdx(as, key, n))].value
Read(as, n) == <<Seen(as, Name, n), Seen(as, Zone, n)>>

(* Mutant: the handler stops once the name or the zone is non-empty.      *)
StopsEarly(as) == {n \in 1..Len(as) : Read(as, n)[1] # Empty \/ Read(as, n)[2] # Empty}
GetNativeNameWithZoneStopEarly(as) ==
    Read(as, IF StopsEarly(as) = {} THEN Len(as) ELSE MinIdx(StopsEarly(as)))

(* GetNativeNameWithZone: iterateAttributes returns after the first       *)
(* attribute on which the handler reports both values non-empty, or after *)
(* the last one.                                                           *)
Stops(as) == {n \in 1..Len(as) : Read(as, n)[1] # Empty /\ Read(as, n)[2] # Empty}
GetNativeNameWithZone(as) ==
    Read(as, IF Stops(as) = {} THEN Len(as) ELSE MinIdx(Stops(as)))

-----------------------------------------------------------------------------
Init ==
    /\ attrs \in InitAttrs
    /\ last = NoLast

SetNativeNameWithZone(name, zone) ==
    /\ attrs' = SetAttribute(SetAttribute(attrs, Name, name), Zone, zone)
    /\ last' = <<name, zone>>

SetNativeName(name) == SetNativeNameWithZone(name, ZoneDefault)

Next ==
    \/ \E name, zone \in Values : SetNativeNameWithZone(name, zone)
    \/ \E name \in Values : SetNativeName(name)

Spec == Init /\ [][Next]_vars

-----------------------------------------------------------------------------
(* No two attributes share the key k.                                     *)
KeyUnique(as, k) == \A i, j \in DOMAIN as : as[i].key = k /\ as[j].key = k => i = j

(* setAttribute never duplicates a key: a list with one attribute per key *)
(* keeps one attribute per key, whatever SetNativeName(WithZone) does.     *)
KeysStayUnique ==
    [][\A k \in Keys : KeyUnique(attrs, k) => KeyUnique(attrs', k)]_vars

(* What TestGetNameWithZone asserts: after SetNativeNameWithZone(c, n, z)  *)
(* (or SetNativeName), GetNativeNameWithZone(c) returns n and z.           *)
RoundTrip == last # NoLast => GetNativeNameWithZone(attrs) = last
=============================================================================
