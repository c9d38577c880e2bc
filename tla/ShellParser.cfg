\* Every line of up to seven pieces, typed to each of the three shells.
SPECIFICATION Spec
CONSTANTS
    MaxPieces = 7
INVARIANTS
    TokensAreTheLine
    SyntaxIsTheGrammar
    ArgumentsOfEachCommand
