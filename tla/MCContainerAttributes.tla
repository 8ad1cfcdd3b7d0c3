----------------------- MODULE MCContainerAttributes -----------------------
(* Three keys (Name, Zone and another), three values ("", one name and the *)
(* default zone) and starting lists of up to three attributes.            *)
EXTENDS ContainerAttributes, SequencesExt

(* Starting lists with at most one Name and one Zone attribute.           *)
MCUniqueAttrs ==
    {as \in SeqOf(Attribute, 3) : KeyUnique(as, Name) /\ KeyUnique(as, Zone)}

(* Every starting list, duplicate Name or Zone attributes included.        *)
MCAnyAttrs == SeqOf(Attribute, 3)

=============================================================================
