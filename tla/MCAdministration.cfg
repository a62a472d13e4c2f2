SPECIFICATION PartSpec
CONSTANTS
    Requests = {r1}
    User = "ann"
    Other = "bob"
    Guards <- SomeGuards
    Rows <- SomeRows
    Admins = {a1, a2}
    Keys = {"maintenanceMode", "smtpPort", "storageProvider"}
    Bodies <- FewBodies
    Readers = {"reader", "another"}
    MaxCommits = 3
    Flags = {f1, f2}
    FlagKeys = {"beta", "gamma"}
    MaxChanges = 5
    Calls = {c1, c2, c3}
SYMMETRY Symmetry
INVARIANTS
    RowDecides
    SettingsTrue
    FlagsTrue
    UserSettingsTrue
CHECK_DEADLOCK FALSE
