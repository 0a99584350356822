CONSTANTS
  Call = {1, 2, 3}
  Id = {1, 2, 3}
  Title = {"standup"}
  NoTitle = ""
  Calendar = {"Work", "Home"}
  Default = "Home"
  Named = {"Work", "Gym"}
  Allowed = {"Work", "Gym"}
  MaxEdits = 1
SPECIFICATION ItemsSpec
PROPERTIES OnlyAllowedCalendars
CHECK_DEADLOCK FALSE
