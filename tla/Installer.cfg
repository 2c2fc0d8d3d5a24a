\* Both boot loaders, sound and failing flash, one newer version of each image,
\* two power losses or hangs.
SPECIFICATION Spec
CONSTANTS
    Chips = {"esp8266", "esp32"}
    FlashKinds = {"sound", "failing"}
    MaxVersion = 2
    MaxPartial = 2
    MaxGlobal = 2
    MaxLosses = 2
CHECK_DEADLOCK FALSE
INVARIANTS
    TypeOK
    BootableIsWhole
    NeverBricked
PROPERTIES
    RecoversToMain
    ImplementsSlots
