CONSTANTS
    Users = {u1, u2}
    Roles = {operator}
    Classes = {"created", "updated", "reset"}
    All = ""
    Filters = {"", "updated"}
    PageSize = 1
    MaxChanges = 2
    MaxEvents = 3
    None = None
    Sent = Sent
SPECIFICATION Spec
INVARIANTS TypeOK UsersListIsCurrent RowsOnceInOrder NothingSkipped
