SPECIFICATION Spec
CONSTANTS
    x1 = x1  x2 = x2  x3 = x3
    Files = {x1, x2, x3}
    Staged = Staged  NoFile = NoFile
    Contents = {c1, c2}
    Absent = Absent  Irregular = Irregular  Torn = Torn
    MaxWrites = 2
SYMMETRY FileSymmetry
INVARIANTS
    TypeOK
    SuccessStands SuccessFromPrestate FailureInstallsNothing
    DisplacedKept TargetNeverVacant NoTornTarget
