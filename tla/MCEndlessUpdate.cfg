SPECIFICATION Spec
CONSTANTS
    Files = {updater, maestro}
    MaxCommit = 2
PROPERTY UpdateSettles
