CONSTANTS
    Files <- MCFiles
    Machines <- MCMachines
    RowSizes = {1, 20}
    JobCounts = {1, 12, 100}
    Invocations = 2
SPECIFICATION Spec
INVARIANTS ResumeFindsState PermitsFit BudgetKept
