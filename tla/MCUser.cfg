SPECIFICATION Spec
CONSTANTS
    Component = {"parse", "shell", "grep", "malloc", "vm"}
INVARIANTS
    LineParsed
    LineRuns
    GrepPrints
    PagesOwned
PROPERTIES
    HeapDivided
