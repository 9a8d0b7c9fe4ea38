SPECIFICATION Spec
CONSTANTS
    Values = {"zero", "one"}
    Zero = "zero"
    Params <- MCParams
    Locals = {"x"}
    Temps = {t1, t2, t3}
    Globals = {"g"}
    MaxDepth = 2
    MaxTasks = 4
    MaxTemps = 3
SYMMETRY TempsSymmetric
CONSTRAINT SmallProgram
VIEW Relevant
INVARIANT
    ArgumentsByValue
CHECK_DEADLOCK FALSE
