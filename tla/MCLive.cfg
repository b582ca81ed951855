SPECIFICATION FairSpec
CONSTANTS
    Component = {"log", "disk", "clock", "uart", "trap", "shell", "malloc"}
PROPERTIES
    WaitersServed
    KilledExits
    ByteSent
    CallsEnd
