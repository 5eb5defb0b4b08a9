CONSTANTS
  Names = {x, y}
  AliasNames = {x}
  Handlers = {h1, h2}
  Clients = {c1}
  MaxAliases = 2
  MaxAsked = 4
  NoRow = NoRow
  NoView = NoView
  Nobody = Nobody
SPECIFICATION CatalogSpec
SYMMETRY Symmetry
INVARIANTS CatalogHolds DisabledStaysOff
CHECK_DEADLOCK FALSE
