SPECIFICATION Spec
CONSTANTS
    Operators = {o1}
    Subfolders = {s1}
    Packages = {p1, p2}
    Names <- TheNames
    Prices <- ThePrices
    Floor <- TheFloor
    Unused = Unused
    Gone = Gone
    Root = Root
INVARIANTS TypeOK OrphanOnlyByRace NoFloatingPackage
  
SYMMETRY Symmetry
