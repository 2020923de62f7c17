SPECIFICATION Spec
CONSTANTS
    planner = planner
    guard = guard
    Agent = {planner, guard}
    Layers <- EitherOrder
    Chars = {9}
    MaxTokens = {2, 5}
    Limits = {2200}
    Modulus = 256
    Budgets <- FullBudgets
    Backend <- AllMock
    ResponseWords = 3
    PromptWords = {2}
    Throws = FALSE
    MaxDepth = 3
    MaxExcess = 2
PROPERTY
    RespectsMaxTokens
