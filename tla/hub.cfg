CONSTANTS
    main = main  lake = lake  k1 = k1  k2 = k2  k3 = k3  n1 = n1
    Stores <- MCStores
    NoStore = NoStore
    Keys <- MCKeys
    NoKey = NoKey
    Nodes <- MCNodes
SPECIFICATION Spec
INVARIANTS TablesMatchSnapshot AckedSurvivesReads StoresSeparate AdvertisedKeyIsKnown
PROPERTY ImplementsDurableRoster
