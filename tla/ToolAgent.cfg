SPECIFICATION ToolsSpec
CONSTANTS
    light = light
    door = door
    NoName = NoName
    Tool = {light, door}
    mains = mains
    handlers = handlers
    Policy = {mains, handlers}
    MainPolicy = mains
    Lines <- SomeLines
    Texts <- SomeTexts
    Numbers = {"0.82"}
    MaxDepth = 3
INVARIANTS
    ToolsTypeOK
    LastNamedStarts
PROPERTY
    PolicyHolds
\* After an exception nobody catches the program has ended.
CHECK_DEADLOCK FALSE
