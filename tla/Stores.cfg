\* Two clients, three project files, crashes at every point; and the other parts, bounded
\* where they are instantiated.
SPECIFICATION StoresSpec
CONSTANTS
    Clients = {c1, c2}
    Ids = {i1, i2, i3}
    b1 = b1
    b2 = b2
    h1 = h1
    h2 = h2
    Bodies <- MCBodies
    Hosts <- MCHosts
    Initial <- MCInitial
    Missing = Missing
    NoId = NoId
    Unseen = Unseen
    Nobody = Nobody
    None = None
    Provider = Provider
    OtherProvider = OtherProvider
    Model = Model
    Key = Key
    OtherKey = OtherKey
    Tab = Tab
    OtherTab = OtherTab
SYMMETRY Symmetry
INVARIANTS
    DecisionHolds
    RestartIsNeutral
    EditsLand
    StudioFilesHold
    PluginsHold
PROPERTIES
    NeverForgotten
    Implements
    ArrangementHolds
