\* Commands interrupted anywhere, next to a kernel that loads and binds.
SPECIFICATION InstallSpec
CONSTANTS
    Roots <- MCRoots
    Slots <- MCSlots
    Packages <- MCPackages
    Name <- MCName
    Version <- MCVersion
    Table <- MCTable
    Needs <- MCNeeds
    Implements <- MCImplements
    Package <- MCPackage
    Layout <- MCLayout
    Shipped <- MCShipped
    Sources <- MCSources
    Tables <- MCTables
    Runtime <- MCRuntime
    Releases <- MCReleases
    Bindings <- MCBindings
    Edited <- MCEdited
    NoTable = NoTable
    NoPin = NoPin
    Absent = Absent
 
PROPERTIES BoundWasResolved CompatibleUpgradeLoads
