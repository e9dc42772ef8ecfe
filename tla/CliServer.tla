----------------------------- MODULE CliServer -----------------------------
(***************************************************************************)
(* cli/cli_telnet.c and cli/cli_serial.c: the command line, served to      *)
(* telnet clients and on a serial port, by one loop.                       *)
(*                                                                         *)
(* A connection lives in a block from malloc.  alloc_cli_connection sets   *)
(* neither cmd_buffer_ndx nor cmd_buffer, so a new connection has the line *)
(* that its block holds: an empty one in fresh memory, and where the last  *)
(* connection ended in the middle of a line, that beginning of a line.     *)
(* (The model has the blocks used by connections only.)                    *)
(***************************************************************************)
EXTENDS Integers, Sequences, SequencesExt

(***************************************************************************)
(* cli/cli.c: the line a user types, and its execution.  Characters are    *)
(* strings; "CR", "BS" (backspace or delete), "SP" (blank or tab) and      *)
(* "NUL" have a meaning.  The line is cmd_buffer up to cmd_buffer_ndx.     *)
(***************************************************************************)

CONSTANTS
  CmdMax,         (* CLI_MAX_COMMAND_LEN, in the code 252                   *)
  ArgsMax,        (* CLI_COMMAND_MAX_ARGS, in the code 16                   *)
  CoreCommands,   (* the names in _core_commands                            *)
  UserCommands    (* the names in _user_commands                            *)

ASSUME LimitsAssumption == CmdMax \in Nat \ {0} /\ ArgsMax \in Nat \ {0}

-----------------------------------------------------------------------------
(* cli_execute_command *)

(* The line as a string of C. *)
CString(line) ==
  LET end == SelectInSeq(line, LAMBDA k : k = "NUL")
  IN  IF end = 0 THEN line ELSE SubSeq(line, 1, end - 1)

(* The parts of s between the separators. *)
Split(s, sep) ==
  FoldLeft(LAMBDA parts, k : IF k = sep THEN Append(parts, << >>)
                             ELSE Front(parts) \o << Append(Last(parts), k) >>,
           << << >> >>, s)

(* strtok_r, again and again *)
Words(string) == SelectSeq(Split(string, "SP"), LAMBDA word : word # << >>)

(* What the execution of a line comes to: which command got which argv.  A   *)
(* user command that has the name of a core command is never reached.        *)
Execute(line) ==
  LET argv == Words(CString(line)) IN
  IF argv = << >> THEN [does |-> "nothing"]
  ELSE IF Len(argv) > ArgsMax THEN [does |-> "too many arguments"]
  ELSE IF argv[1] \in CoreCommands THEN [does |-> "core", argv |-> argv]
  ELSE IF argv[1] \in UserCommands THEN [does |-> "user", argv |-> argv]
  ELSE [does |-> "unknown", name |-> argv[1]]

-----------------------------------------------------------------------------
(* cli_handle_rx, of one character.  cli is the line, what was executed, and *)
(* what was written to the terminal (the replies of commands left out).      *)

CliStart(line) == [line |-> line, ran |-> << >>, out |-> << >>]

IsFull(line) == Len(line) >= CmdMax

(* The '\0' of a full line goes to cmd_buffer[CLI_MAX_COMMAND_LEN], one      *)
(* behind the array, in the build a byte of padding.                         *)
Enter(cli) ==
  [line |-> << >>,
   ran |-> Append(cli.ran, Execute(cli.line)),
   out |-> Append(cli.out, <<"prompt">>)]

(* mutant: the terminal erases also where the line is empty *)
EraseAlways(cli) ==
  [cli EXCEPT !.line = IF @ = << >> THEN @ ELSE Front(@), !.out = Append(@, <<"erase">>)]

Erase(cli) ==
  IF cli.line = << >> THEN cli
  ELSE [cli EXCEPT !.line = Front(@), !.out = Append(@, <<"erase">>)]

Echo(cli, k) ==
  [cli EXCEPT !.line = Append(@, k), !.out = Append(@, <<"echo", k>>)]

(* A full line takes nothing more, not even a backspace. *)
HandleKey(cli, k) ==
  CASE k = "CR" -> Enter(cli)
    [] k # "CR" /\ IsFull(cli.line) -> cli
    [] k = "BS" /\ ~IsFull(cli.line) -> Erase(cli)
    [] k \notin {"CR", "BS"} /\ ~IsFull(cli.line) -> Echo(cli, k)

HandleRx(line, keys) == FoldLeft(HandleKey, CliStart(line), keys)

-----------------------------------------------------------------------------
(***************************************************************************)
(* protocols/telnet_reader.c: takes the telnet commands out of what a      *)
(* telnet client sends.  Bytes are model values or strings; what a command *)
(* says is dropped, as cli_telnet.c does in telnet_rx_cmdback.             *)
(***************************************************************************)

CONSTANT SubMax   (* TELNET_READER_BUFFER_SIZE, in the code 32 *)

ASSUME SubMaxAssumption == SubMax \in Nat

Verbs == {"DO", "DONT", "WILL", "WONT"}

(* telnet_reader_init.  size is buf_ndx.                                     *)
ReaderStart == [state |-> "start", size |-> 0]

Move(tr, state) == [reader |-> [tr EXCEPT !.state = state], data |-> << >>]
Data(tr, d) == [reader |-> [tr EXCEPT !.state = "start"], data |-> << d >>]

(* mutant: after IAC IAC the reader goes on as after IAC *)
RxIacStays(tr, d) ==
  CASE d = "IAC" -> [reader |-> tr, data |-> << d >>]
    [] d \in Verbs -> Move(tr, "rx_do_dont_will_wont")
    [] d = "SB" -> Move([tr EXCEPT !.size = 0], "rx_sb")
    [] OTHER -> Move(tr, "start")

(* telnet_reader_handle_command; IAC IAC stands for a byte of data.          *)
RxIac(tr, d) ==
  CASE d = "IAC" -> Data(tr, d)
    [] d \in Verbs -> Move(tr, "rx_do_dont_will_wont")
    [] d = "SB" -> Move([tr EXCEPT !.size = 0], "rx_sb")
    [] OTHER -> Move(tr, "start")

(* mutant: a subcommand too long is swallowed up to its end *)
RxSbSwallows(tr, d) ==
  IF d = "IAC" THEN Move(tr, "wait_for_se")
  ELSE Move([tr EXCEPT !.size = IF @ < SubMax THEN @ + 1 ELSE @], "rx_sb")

(* telnet_reader_handle_subcommand: one that is too long ends the command,   *)
(* and the rest of it is taken for data.                                     *)
RxSb(tr, d) ==
  IF d = "IAC" THEN Move(tr, "wait_for_se")
  ELSE IF tr.size < SubMax THEN Move([tr EXCEPT !.size = @ + 1], "rx_sb")
  ELSE Move(tr, "start")

(* telnet_reader_state_machine *)
Read(tr, d) ==
  CASE tr.state = "start" -> IF d = "IAC" THEN Move(tr, "rx_iac") ELSE Data(tr, d)
    [] tr.state = "rx_iac" -> RxIac(tr, d)
    [] tr.state = "rx_sb" -> RxSb(tr, d)
    [] tr.state \in {"rx_do_dont_will_wont", "wait_for_se"} -> Move(tr, "start")

-----------------------------------------------------------------------------

CONSTANTS
  Conns,      (* the connections of telnet clients; they come and go again  *)
  Port,       (* the serial port, _serial_if1                               *)
  Blocks,     (* the memory malloc gives                                    *)
  Items,      (* what each user sends: sequences of bytes                   *)
  MaxItems,   (* bound: items of all open connections together              *)
  MaxUnread   (* bound: a user sends on when this many bytes are unread     *)

Users == Conns \cup {Port}
NoBlock == "none"

ASSUME UsersAssumption == Port \notin Conns /\ Port \notin Blocks /\ NoBlock \notin Blocks
ASSUME ItemsAssumption ==
  /\ MaxItems \in Nat /\ MaxUnread \in Nat
  /\ \A u \in Users : \A item \in Items[u] : item \in Seq(Range(item))

VARIABLES
  block,     (* the block of a connection, NoBlock when it is not open      *)
  mem,       (* the line (cmd_buffer up to cmd_buffer_ndx) in each block;   *)
             (* the port has its own, static one                            *)
  reader,    (* the telnet reader of each connection                        *)
  stuck,     (* the tx_buf of the stream holds bytes: nothing more is sent  *)
  bytes,     (* sent by the user and not yet read                           *)
  sent_items, (* history: the items a user has sent on this connection      *)
  swallowed, (* history: bytes read since the reader was last in "start"    *)
  ran,       (* history: what was executed for the user                     *)
  screen     (* history: what the user's terminal shows after the last      *)
             (* prompt, empty once not everything was sent                  *)

connVars == <<block, mem, reader, stuck>>
cliVars == <<connVars, bytes, sent_items, swallowed, ran, screen>>

Open(u) == u # Port => block[u] # NoBlock
LineOf(u) == mem[IF u = Port THEN Port ELSE block[u]]

(* cli_init *)
CliInit ==
  /\ block = [c \in Conns |-> NoBlock]
  /\ mem = [b \in Blocks \cup {Port} |-> << >>]
  /\ reader = [c \in Conns |-> ReaderStart]
  /\ stuck = [u \in Users |-> FALSE]
  /\ bytes = [u \in Users |-> << >>]
  /\ sent_items = [u \in Users |-> << >>]
  /\ swallowed = [c \in Conns |-> 0]
  /\ ran = [u \in Users |-> << >>]
  /\ screen = [u \in Users |-> << >>]

-----------------------------------------------------------------------------
(* The users *)

UserSends(u) ==
  /\ Open(u)
  /\ FoldFunction(LAMBDA items, n : Len(items) + n, 0, sent_items) < MaxItems
  /\ Len(bytes[u]) <= MaxUnread
  /\ \E item \in Items[u] :
       /\ sent_items' = [sent_items EXCEPT ![u] = Append(@, item)]
       /\ bytes' = [bytes EXCEPT ![u] = @ \o item]
  /\ UNCHANGED <<connVars, swallowed, ran, screen>>

(* What a terminal makes of what is written to it. *)
Show(text, w) ==
  CASE w[1] = "prompt" -> << >>
    [] w[1] = "echo" -> Append(text, w[2])
    [] w[1] = "erase" -> IF text = << >> THEN <<"damaged prompt">> ELSE Front(text)

Terminal(shown, out) == FoldLeft(Show, shown, out)

-----------------------------------------------------------------------------
(* cli_put_tx_data: the stream sends all of it, or keeps a rest that it      *)
(* never sends (module Stream).                                              *)
Put(u, out) ==
  \/ /\ ~stuck[u]
     /\ screen' = [screen EXCEPT ![u] = Terminal(@, out)]
     /\ UNCHANGED stuck
  \/ /\ out # << >>
     /\ stuck' = [stuck EXCEPT ![u] = TRUE]
     /\ screen' = [screen EXCEPT ![u] = << >>]
  \/ /\ out = << >> /\ stuck[u]
     /\ UNCHANGED <<stuck, screen>>

(* cli_handle_rx on the interface whose line is kept at b *)
Handle(u, b, keys) ==
  LET cli == HandleRx(mem[b], keys) IN
  /\ mem' = [mem EXCEPT ![b] = cli.line]
  /\ ran' = [ran EXCEPT ![u] = @ \o cli.ran]
  /\ Put(u, cli.out)

FreeBlocks == Blocks \ Range(block)

(* alloc_cli_connection, of a connection that the server accepts; the '\r'   *)
(* that is to show the prompt executes what the block held.  When malloc     *)
(* fails the client is turned away and nothing changes.                      *)
Accept(c) ==
  /\ ~Open(c)
  /\ \E b \in FreeBlocks :
       /\ block' = [block EXCEPT ![c] = b]
       /\ Handle(c, b, <<"CR">>)
  /\ reader' = [reader EXCEPT ![c] = ReaderStart]
  /\ UNCHANGED <<bytes, sent_items, swallowed>>

(* telnet_reader_feed, and how many bytes it swallowed in a row *)
FeedByte(acc, d) ==
  LET s == Read(acc.reader, d) IN
  [reader |-> s.reader,
   data |-> acc.data \o s.data,
   count |-> IF s.reader.state = "start" THEN 0 ELSE acc.count + 1]

Feed(c, read) ==
  FoldLeft(FeedByte, [reader |-> reader[c], data |-> << >>, count |-> swallowed[c]], read)

(* telnet_rx_databack *)
PassKey(keys, k) == IF k = "NUL" THEN keys ELSE Append(keys, k)
Keys(data) == FoldLeft(PassKey, << >>, data)

(* handle_stream_event, rx, of cli_telnet.c: read() gives some of the bytes *)
TelnetRx(c) ==
  /\ Open(c)
  /\ \E n \in DOMAIN bytes[c] :
       LET fed == Feed(c, SubSeq(bytes[c], 1, n)) IN
       /\ bytes' = [bytes EXCEPT ![c] = SubSeq(@, n + 1, Len(@))]
       /\ reader' = [reader EXCEPT ![c] = fed.reader]
       /\ swallowed' = [swallowed EXCEPT ![c] = fed.count]
       /\ Handle(c, block[c], Keys(fed.data))
  /\ UNCHANGED <<block, sent_items>>

(* handle_stream_event, eof and err: dealloc_cli_connection.  After an error *)
(* what was not read is lost.  The histories of the connection end with it.  *)
End(c) ==
  /\ Open(c)
  /\ block' = [block EXCEPT ![c] = NoBlock]
  /\ reader' = [reader EXCEPT ![c] = ReaderStart]
  /\ stuck' = [stuck EXCEPT ![c] = FALSE]
  /\ bytes' = [bytes EXCEPT ![c] = << >>]
  /\ sent_items' = [sent_items EXCEPT ![c] = << >>]
  /\ swallowed' = [swallowed EXCEPT ![c] = 0]
  /\ ran' = [ran EXCEPT ![c] = << >>]
  /\ screen' = [screen EXCEPT ![c] = << >>]
  /\ UNCHANGED mem

(* handle_stream_event, rx, of cli_serial.c: no telnet here *)
SerialRx ==
  /\ \E n \in DOMAIN bytes[Port] :
       /\ bytes' = [bytes EXCEPT ![Port] = SubSeq(@, n + 1, Len(@))]
       /\ Handle(Port, Port, SubSeq(bytes[Port], 1, n))
  /\ UNCHANGED <<block, reader, sent_items, swallowed>>

CliNext ==
  \/ \E c \in Conns : Accept(c) \/ TelnetRx(c) \/ End(c)
  \/ \E u \in Users : UserSends(u)
  \/ SerialRx

CliSpec == CliInit /\ [][CliNext]_cliVars

-----------------------------------------------------------------------------
(* Properties *)

(* What a client that keeps the rules of telnet sends: characters, IAC IAC   *)
(* for a character, options, other commands, and subcommands that fit.       *)
Proper(item) ==
  \/ Len(item) = 1 /\ item[1] # "IAC"
  \/ item = <<"IAC", "IAC">>
  \/ Len(item) = 2 /\ item[1] = "IAC" /\ item[2] \notin Verbs \cup {"SB", "IAC"}
  \/ Len(item) = 3 /\ item[1] = "IAC" /\ item[2] \in Verbs
  \/ /\ Len(item) \in 4 .. (SubMax + 4)
     /\ IsPrefix(<<"IAC", "SB">>, item) /\ IsSuffix(<<"IAC", "SE">>, item)
     /\ "IAC" \notin Range(SubSeq(item, 3, Len(item) - 2))

(* The characters a user typed. *)
Typed(u) ==
  IF u = Port THEN FlattenSeq(sent_items[u])
  ELSE LET keys == SelectSeq(sent_items[u], LAMBDA i : (Len(i) = 1 /\ i # <<"NUL">>) \/ i = <<"IAC", "IAC">>)
       IN  [i \in DOMAIN keys |-> keys[i][1]]

(* What is left of the characters of a line after its backspaces: those that *)
(* no later backspace takes back.                                            *)
Edited(keys) ==
  LET BS(i, j) == Cardinality({k \in i .. j : keys[k] = "BS"})
      Kept(i) == keys[i] # "BS" /\ \A j \in i .. Len(keys) : 2 * BS(i, j) <= j - i
      kept == SetToSortSeq({i \in DOMAIN keys : Kept(i)}, LAMBDA i, j : i < j)
  IN  [n \in DOMAIN kept |-> keys[kept[n]]]

(* What is executed is what was typed: every line, edited, in order, and     *)
(* nothing else, whatever telnet commands stand between the characters,      *)
(* however read() cuts them, and whatever the other users do.  Only what a   *)
(* telnet user never typed comes first: the line left in the block (cli.c    *)
(* 183-213, telnet_reader.c 59-113, cli_telnet.c 108-109).                   *)
ExecutedAsTyped ==
  \A u \in Users :
    LET lines == Split(Typed(u), "CR")
        own == IF u = Port THEN ran[u] ELSE Tail(ran[u])
    IN  /\ Open(u) /\ bytes[u] = << >>
        /\ u \in Conns => \A item \in Range(sent_items[u]) : Proper(item)
        /\ \A line \in Range(lines) : Len(line) <= CmdMax
        => /\ own = [i \in 1 .. (Len(lines) - 1) |-> Execute(Edited(lines[i]))]
           /\ LineOf(u) = Edited(Last(lines))

(* The terminal shows the line that "enter" would execute, whatever was sent *)
(* and also where the line is full: no character is stored that is not       *)
(* echoed, none erased that is not (cli.c 187-201).                          *)
WhatYouSee ==
  \A u \in Users : Open(u) /\ ~stuck[u] => screen[u] = LineOf(u)

(* A client that breaks off a subcommand, or sends one too long, is not      *)
(* deaf for long: at most SubMax + 4 bytes in a row, the last of them ending *)
(* it, are not taken for characters (telnet_reader.c 35-57, 97-112).         *)
ReaderComesBack == \A c \in Conns : swallowed[c] <= SubMax + 3

=============================================================================
