CONSTANTS
    Sources <- MCThree
    Resolvers <- MCThree
    Candidates = {1, 2}
    Priority <- MCPriority
    Score <- MCScore
SPECIFICATION ResolutionSpec
INVARIANT SelectionInv

