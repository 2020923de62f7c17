SPECIFICATION Spec
CONSTANTS
    planner = planner
    guard = guard
    Agent = {planner, guard}
    Layers <- EitherOrder
    Chars = {9, 273}
    MaxTokens = {2, 5}
    Limits = {1068, 2400}
    Modulus = 256
    Budgets <- FullBudgets
    Backend <- MockAndHonest
    ResponseWords = 3
    PromptWords = {2}
    Throws = TRUE
    MaxDepth = 4
    MaxExcess = 2
INVARIANTS
    TypeOK
    BytesAccounted
    TokensAccounted
    CallsCovered
