CONSTANT Messages <- MCMessages
CONSTANT Settings <- MCSettings
CONSTANT Inputs <- MCInputs
CONSTANT Generated <- MCGenerated
CONSTANT Nested <- MCNested
CONSTANT MaxDispatches = 3
SPECIFICATION Spec
INVARIANTS SentAsRouted EveryHandlerRuns StampsTell UnitsAndErrorsApart
CHECK_DEADLOCK FALSE
