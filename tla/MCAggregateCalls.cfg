SPECIFICATION Spec
CONSTANTS
    Values = {"zero", "one"}
    Zero = "zero"
    Params <- MCParams
    Locals = {"x"}
    Temps = {t1, t2, t3}
    Globals = {}
    MaxDepth = 2
    MaxTasks = 4
    MaxTemps = 3
CHECK_DEADLOCK FALSE
SYMMETRY TempsSymmetric
CONSTRAINT SmallProgram
VIEW Relevant
INVARIANTS
    TypeOK
    VariablesHold
    ResultsIntact
