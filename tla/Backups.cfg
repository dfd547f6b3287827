SPECIFICATION Spec
CONSTANTS
    Txns <- TheTxns
    Touches <- TheTouches
    Needs <- TheNeeds
    Deletable <- TheDeletable
    Listed <- TheListed
    Unlisted <- TheUnlisted
    Connections = {conn1, conn2}
    Tasks = {t1}
    NoFile = NoFile
    MaxFiles = 2
INVARIANTS TypeOK  LostIsSaved 
SYMMETRY Symmetry
