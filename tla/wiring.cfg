CONSTANT MaxBuilds = 3
CONSTANT DefaultName <- MCDefaultName
CONSTANT Signature <- MCSignature
CONSTANT Locators = {"k1", "k2"}
CONSTANT Imports <- MCImports
CONSTANT MaxDeclarations = 2
CONSTANT Applications = {"k1", "k2"}
CONSTANT Configurations <- MCConfigurations
CONSTANT Asked <- MCAsked
CONSTANT MaxBoots = 2
SPECIFICATION Spec
INVARIANTS NamesHold OneTransportPerName BoundToItsContainer SigtermIsBorrowed
PROPERTIES EachEntryIsItsOwn ShutdownClosesItsOwn
CHECK_DEADLOCK FALSE
