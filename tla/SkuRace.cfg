CONSTANTS
  Callers = {c1, c2}
  Locations = {"west", "east"}
  Types = {"small", "large"}
  Empty = Empty
  Nobody = Nobody
  Offered <- MCOffered
SPECIFICATION Spec
INVARIANT OfferedTypeIsKnown
