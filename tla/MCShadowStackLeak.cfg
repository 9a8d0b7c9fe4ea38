SPECIFICATION StackSpec
CONSTANTS
    Functions = {"leaf", "small", "big"}
    Frame <- MCFrame
    StackTop = 14
    StackSize = 10
    MaxDepth = 5
    LowestSp = 0
INVARIANT
    FramesInStack
