SPECIFICATION CSpec
CONSTANTS
  a = a
  b = b
  main = main
  work = work
  Name = {a, b}
  Room = {main, work}
  Main = main
  Sys = Sys
  MaxUnread = 2
  MaxChats = 5
INVARIANT ChatsOK
PROPERTY ImplementsInbox
