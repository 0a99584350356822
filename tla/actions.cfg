CONSTANTS
  Address = {"boss", "friend"}
  Pattern = {"boss"}
  Group = {"friend"}
  Policies <- AnyOrContacts
  Message = {"m"}
  Sender <- FromFriend
  Others <- ToBoss
  Ttl = 1
  Timeout = 1
  Op = {1, 2}
  Setup <- SomeSetups
  MaxRelink = 1
  Call = {1, 2}
  Id = {1, 2, 3}
  Title = {"standup"}
  NoTitle = ""
  Calendar = {"Work", "Home"}
  Default = "Home"
  Named = {"Work", "Gym"}
  Allowed = {"Work", "Gym"}
  MaxEdits = 2
  Case <- AllCases
  Inspection <- AllCalls
SPECIFICATION ActionsSpec
INVARIANTS TerminalSafe ReviewSafe RowsKept
PROPERTIES ScopeIsKept FloorHolds RecipientsChecked UndoTakesItsOwn
CHECK_DEADLOCK FALSE
