SPECIFICATION StoreSpec
CONSTANTS
    Networks = {n1, n2, n3}
    NoNetwork = NoNetwork
    MaxProfiles = 2
    MaxSuccess = 5
INVARIANTS
    BlobConsistent
PROPERTIES
    ImplementsSavedProfiles
SYMMETRY Symmetry
