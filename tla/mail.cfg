CONSTANTS
  Borrower = {"idle", "periodic", "op"}
  Waiter = {"idle"}
  Twice = {"periodic"}
  MaxConns = 2
  Retries = 1
  MaxFaults = 2
  Msg = {"old", "new"}
  Old = {"old"}
  NoId = {}
  Folder = {"INBOX", "Archive"}
  Inbox = "INBOX"
  Early <- InboxOnly
  Rest <- ArchiveOnly
  Setting <- Settings
SPECIFICATION MailSpec
INVARIANTS RightMessage NothingSkipped ConnsSafe
PROPERTIES InTheEnd BorrowEnds
CHECK_DEADLOCK FALSE
