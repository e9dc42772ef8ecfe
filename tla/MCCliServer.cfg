CONSTANTS
  SubMax = 1
  CmdMax = 2
  ArgsMax = 1
  CoreCommands <- Help
  UserCommands <- UserCmds
  Conns = {"user", "client"}
  Port = "port"
  Blocks = {b1, b2}
  Items <- MCItems
  MaxItems = 3
  MaxUnread = 0
SPECIFICATION CliSpec
INVARIANTS
  ExecutedAsTyped
  WhatYouSee
  ReaderComesBack
SYMMETRY BlockSymmetry
