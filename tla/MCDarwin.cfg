SPECIFICATION FairSpec
CONSTANTS
    Handles = {h1, h2}
    Opener = h1
    Transfers = {bulk1, bulk2, control}
    Control = {control}
    On <- MCOn
    PipeCapacity = 4
    MaxSubmits = 4
    DeviceHandles = {h1}
    Configs = {1, 2, 3}
    Interfaces = {0, 1}
    first_config = 1
    Has <- MCHas
    MaxDepth = 4
INVARIANTS
    InterfacesWhole
    MessagesWhole
PROPERTIES
    ConfigurationKnown
    EndsAreNoticed
CHECK_DEADLOCK FALSE
