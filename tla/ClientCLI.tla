----------------------------- MODULE ClientCLI -----------------------------
(***************************************************************************)
(* src/Client/ClientCLI.{h,cpp}: the loop that reads a line, makes a       *)
(* command of it and runs it, down to the client's message buffer.  A      *)
(* keyword is one byte here, as all the code does with it is to compare.   *)
(***************************************************************************)
EXTENDS Messages

CONSTANTS
  Space,       \* the byte ' '
  Keyword,     \* command -> the word it begins with
  Inputs,      \* what may be typed: sequences of lines
  Responses,   \* what a server answers: Success and Failure messages
  Chats,       \* ReceiveChat messages that may come before the answer
  MaxInbox     \* bound: chats that come between two looks at the inbox

ASSUME LineAssumption ==
  /\ Space \in Byte
  /\ Keyword \in [{"ping", "login", "register", "chat", "check", "quit"} -> Byte \ {Space}]
  /\ \A f, g \in DOMAIN Keyword : f # g => Keyword[f] # Keyword[g]
  /\ \A lines \in Inputs : /\ lines \in Seq(Seq(Byte))
                          /\ \A i \in DOMAIN lines : Len(lines[i]) <= MaxSize
  /\ Responses \subseteq Message /\ Chats \subseteq Message
  /\ \A m \in Responses : m.type \in {"Success", "Failure"}
  /\ \A m \in Chats : m.type = "ReceiveChat"
  /\ MaxInbox \in Nat

VARIABLES
  run,          \* Run(): "connecting", "loop", "waiting" (in SendRequest), "returned"
  typed,        \* the lines still to be read from std::cin
  terminated,   \* whether the last of them ends with a newline
  stream,       \* std::cin: "good", or "ended" once it has met its end
  input,        \* Run's string of that name
  inbox         \* Client::_inbox

lineVars == <<typed, stream, input>>
cliVars == <<run, terminated, inbox, lineVars, msgVars>>

-----------------------------------------------------------------------------
(* From a line to a command *)

\* The words of a line: what is before, between and behind its spaces.  Split(line)
\* has those of its first i bytes.
Split(line) ==
  LET upTo[i \in 0..Len(line)] ==
        IF i = 0 THEN <<<< >>>>
        ELSE IF line[i] = Space THEN Append(upTo[i - 1], << >>)
        ELSE Append(Front(upTo[i - 1]), Append(Last(upTo[i - 1]), line[i]))
  IN  upTo

Words(line) == Split(line)[Len(line)]

\* Mutant of ParseCommandArguments: several spaces separate like one.
ParseCommandArgumentsTrimmed(line) == SelectSeq(Words(line), LAMBDA w : w # << >>)

\* Each space ends a word, which may be empty; so does the end of the line, but
\* only a word that is not.
ParseCommandArguments(line) ==
  IF Last(Words(line)) = << >> THEN Front(Words(line)) ELSE Words(line)

\* The words with one space between each two; Spaced(words) has those of the
\* first i.
Spaced(words) ==
  LET upTo[i \in 0..Len(words)] ==
        IF i = 0 THEN << >>
        ELSE IF i = 1 THEN words[1]
        ELSE Append(upTo[i - 1], Space) \o words[i]
  IN  upTo

JoinWithSpace(words) == Spaced(words)[Len(words)]

RequestOf(type, fields) == [type |-> type, fields |-> fields]

\* CommandType, which carries nothing else.
CheckInbox == RequestOf("CheckInbox", << >>)
Quit == RequestOf("Quit", << >>)
ParseFailure == RequestOf("ParseFailure", << >>)

BuildCommand(line) ==
  LET args  == ParseCommandArguments(line)
      Is(k) == args # << >> /\ args[1] = <<Keyword[k]>>
  IN  IF Is("ping") /\ Len(args) = 1 THEN RequestOf("Ping", << >>)
      ELSE IF Is("login") /\ Len(args) = 3 THEN RequestOf("Login", <<args[2], args[3]>>)
      ELSE IF Is("register") /\ Len(args) = 3 THEN RequestOf("Register", <<args[2], args[3]>>)
      ELSE IF Is("chat") /\ Len(args) >= 3
      THEN RequestOf("SendChat", <<args[2], JoinWithSpace(SubSeq(args, 3, Len(args)))>>)
      ELSE IF Is("check") THEN CheckInbox
      ELSE IF Is("quit") THEN Quit ELSE ParseFailure

-----------------------------------------------------------------------------
(* The loop *)

\* Mutant of GetLine: a line that is not there leaves the string alone.
GetLineKeeping ==
  IF stream = "good" /\ typed # << >>
  THEN /\ input' = Head(typed)
       /\ typed' = Tail(typed)
       /\ stream' = IF Tail(typed) = << >> /\ ~terminated THEN "ended" ELSE "good"
  ELSE stream' = "ended" /\ UNCHANGED <<input, typed>>

\* std::getline: the string is emptied first and filled up to a newline or the
\* end.  On a stream that has met its end it does not touch the string.
GetLine ==
  IF stream = "ended" THEN UNCHANGED lineVars
  ELSE IF typed = << >>
  THEN input' = << >> /\ stream' = "ended" /\ UNCHANGED typed
  ELSE /\ input' = Head(typed)
       /\ typed' = Tail(typed)
       /\ stream' = IF Tail(typed) = << >> /\ ~terminated THEN "ended" ELSE "good"

\* Client::Connect comes to an end; without success Run returns.
Connects ==
  /\ run = "connecting"
  /\ run' \in {"loop", "returned"}
  /\ UNCHANGED <<lineVars, terminated, inbox, msgVars>>

\* Mutant of AfterSend: the response is awaited in any case.
AfterSendBlindly(sent) == "waiting"

\* Where SendRequest goes from Serialize: RequestError::Serialization is printed.
AfterSend(sent) == IF sent THEN "waiting" ELSE "loop"

\* One turn of the loop, up to where it blocks.
Turn ==
  /\ run = "loop"
  /\ GetLine
  /\ LET command == BuildCommand(input')
     IN  CASE command = Quit ->
                run' = "returned" /\ UNCHANGED <<inbox, msgVars>>
           [] command = CheckInbox ->
                inbox' = << >> /\ UNCHANGED <<run, msgVars>>
           [] command = ParseFailure ->
                UNCHANGED <<run, inbox, msgVars>>
           [] OTHER ->
                Send(command) /\ run' = AfterSend(success') /\ UNCHANGED inbox
  /\ UNCHANGED terminated

\* GetResponse: the server's message has taken the request's place in the
\* buffer.  A chat goes to the inbox, the response is printed.
ChatComes ==
  /\ run = "waiting" /\ success /\ Len(inbox) < MaxInbox
  /\ \E chat \in Chats : Send(chat)
  /\ inbox' = Append(inbox, Deserialize("ReceiveChat", bytes').fields)
  /\ UNCHANGED <<lineVars, run, terminated>>

ResponseComes ==
  /\ run = "waiting" /\ success
  /\ \E response \in Responses : Send(response)
  /\ run' = "loop"
  /\ UNCHANGED <<lineVars, terminated, inbox>>

\* RequestError::Disconnected is printed; the client still counts as connected.
ServerIsGone ==
  /\ run = "waiting" /\ success
  /\ run' = "loop"
  /\ UNCHANGED <<lineVars, terminated, inbox, msgVars>>

-----------------------------------------------------------------------------
CLIInit ==
  /\ MessagesInit
  /\ run = "connecting"
  /\ typed \in Inputs /\ terminated \in BOOLEAN
  /\ stream = "good" /\ input = << >>
  /\ inbox = << >>

Outcome == ResponseComes \/ ServerIsGone

CLINext == Connects \/ Turn \/ ChatComes \/ Outcome

\* The first thing a Turn does; it has no other guard.
TakeLine == run = "loop" /\ GetLine

(***************************************************************************)
(* The loop runs on the program's only thread and takes what has been      *)
(* typed, and a call of the client returns: the server answers or is gone. *)
(***************************************************************************)
CLISpec ==
  /\ CLIInit /\ [][CLINext]_cliVars
  /\ WF_cliVars(Connects) /\ WF_lineVars(TakeLine) /\ WF_cliVars(Outcome)

-----------------------------------------------------------------------------
(* Properties *)

\* The word a request's line begins with.
WordOf(type) ==
  Keyword[CHOOSE k \in DOMAIN Keyword :
            <<k, type>> \in {<<"ping", "Ping">>, <<"login", "Login">>,
                             <<"register", "Register">>, <<"chat", "SendChat">>}]

\* What the server reads out of the buffer a request was sent in is what was
\* typed, but for one space at the end of the line: no space inside a chat is
\* lost, and nothing of earlier messages gets in (ClientCLI.cpp:51-96,
\* Client.cpp:46).
TypedIsReceived ==
  run = "waiting" /\ last.type # "ReceiveChat" =>
    LET r    == Deserialize(last.type, bytes)
        line == JoinWithSpace(<<<<WordOf(last.type)>>>> \o r.fields)
    IN  r.ok /\ input \in {line, Append(line, Space)}

\* A request is sent because somebody typed it: each turn that sends one has
\* taken a line.  Only if the last line ends with a newline (ClientCLI.cpp:13).
RequestsAreTyped ==
  [][run = "loop" /\ run' = "waiting" /\ terminated => typed' # typed]_cliVars

\* Run() returns once it has come to a line that says quit, whatever became of
\* the requests before it: answered, too long for the buffer, or lost.
QuitEndsRun ==
  (\E i \in DOMAIN typed :
     LET line == typed[i]
     IN  line # << >> /\ Head(line) = Keyword["quit"] /\ (Len(line) > 1 => line[2] = Space))
  ~> run = "returned"
=============================================================================
