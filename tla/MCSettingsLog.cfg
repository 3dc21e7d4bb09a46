SPECIFICATION AppSpec
CONSTANTS
    Device <- TwoDevices
    Key = {e1, s1, s2}
    Value <- AppValue
    NoValue = NoValue
    MaxDeviceSequence = 2
    Entity = {e1}
    Slot = {s1, s2}
    Text = {t1, t2}
    Url = {u1, u2}
    Deleted = Deleted
    NoRow = NoRow
    NoUrl = NoUrl
    NoSave = NoSave
    Seed <- FirstRun
    MaxChanges = 3
    s1 = s1
    s2 = s2
    u1 = u1
INVARIANTS ViewIsWinner Convergence SequenceIdentifiesChange EventsLeadToView RowIsWinner HomeIsCurrent LossIsExplained
PROPERTIES ImplementsLastWriterWins
