\* Two items and one to-do, every order of tools, failed saves and restarts.
SPECIFICATION Spec
CONSTANTS
    n1 = n1
    n2 = n2
    t1 = t1
    Items = {n1, n2}
    DirectItems = {n2}
    Todos = {t1}
    Links = {n1, None}
    Phases = {"intake", "inspect", "validate", "closeout", "blocked"}
    Texts = {{}, {"objective"}, {"action", "override"}}
    None = None
    MaxLosses = 1
INVARIANTS
    TypeOK
    OwnRecords
    WorkingSetSound
    FocusIsClaimed
    ClaimIsRepairable
    DirectFocusReleased
PROPERTIES
    HandledIsEarned
