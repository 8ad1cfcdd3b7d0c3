CONSTANTS
    Keys = {"Name", "Zone", "Other"}
    Values = {0, 1, 2}
    Empty = 0
    Name = "Name"
    Zone = "Zone"
    ZoneDefault = 2
    NoLast = NoLast
    InitAttrs <- MCAnyAttrs
SPECIFICATION Spec
INVARIANT RoundTrip
