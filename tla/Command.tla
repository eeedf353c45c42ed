------------------------------ MODULE Command ------------------------------
(***************************************************************************)
(* main.go: one run of the program.  The main goroutine sets the logger    *)
(* up, parses the command line and runs the checks of the command one      *)
(* after the other; the goroutine of newSignalContext handles one signal.  *)
(* Both write to the same Chatwork.  What a check does is abstracted to    *)
(* the two messages it adds, its Send, and its outcome (see Check).        *)
(***************************************************************************)
EXTENDS Chatwork, FiniteSets

CONSTANTS Commands,   \* sequences of check names: the sub-commands of "test"
          Lines       \* command lines: [logLevel, debug, noDnsCheck]

Checks == {"cluster-autoscaler", "ingress", "fluent", "datadog-agent", "cert-manager"}

TestAll == <<"cluster-autoscaler", "ingress", "fluent", "datadog-agent", "cert-manager">>

\* What the flags can be given; "absent" leaves the default.
LogLevels  == {"absent", "debug", "error"}
DnsFlags   == {"absent", "true", "false"}

\* A sub-command runs at least one check, and no check twice.
ASSUME CommandsAssumption ==
    \A c \in Commands : c \in Seq(Checks) \ {<<>>} /\ IsInjective(c)

ASSUME LinesAssumption ==
    Lines \subseteq [logLevel : LogLevels, debug : BOOLEAN, noDnsCheck : DnsFlags]

VARIABLES
    command,     \* the checks to run
    line,        \* the command line
    options,     \* the Go variables the flags are bound to
    logLevel,    \* the level of the logger
    skipsDns,    \* noDnsCheck, as NewIngress was given it
    pc,          \* where the main goroutine is
    current,     \* the index in command of the current check
    outcome,     \* what the main goroutine is going to do after Send
    passed,      \* history: how many checks returned nil
    handler,     \* where the signal goroutine is
    ctxDone,     \* the context is cancelled
    doomed,      \* the current check was begun with a cancelled context
    added        \* history: what the main goroutine wrote, in order

flags  == <<line, options, logLevel>>
course == <<command, current, outcome, passed, skipsDns, doomed>>
signal == <<handler, ctxDone>>
vars   == <<chatwork, flags, course, signal, pc, added>>

Defaults == [logLevel |-> "info", debug |-> FALSE, noDnsCheck |-> FALSE]

Parsed(l) ==
    [logLevel   |-> IF l.logLevel = "absent" THEN "info" ELSE l.logLevel,
     debug      |-> l.debug,
     noDnsCheck |-> l.noDnsCheck = "true"]

Exits  == {"exit 0", "exit 1", "exit 2"}
Exited == pc \in Exits

Init ==
    /\ NewChatwork
    /\ command \in Commands /\ line \in Lines
    /\ options = Defaults /\ logLevel = "unset" /\ skipsDns = "unset"
    /\ pc = "initLogger" /\ current = 1 /\ outcome = "none" /\ passed = 0
    /\ handler = "waiting" /\ ctxDone = FALSE /\ doomed = FALSE
    /\ added = <<>>

-----------------------------------------------------------------------------
(* The main goroutine.                                                     *)

\* initLogger is called while main builds the commands, and cobra parses the
\* command line in Execute.
InitLogger ==
    /\ pc = "initLogger"
    /\ logLevel' = IF options.debug THEN "debug" ELSE options.logLevel
    /\ pc' = "execute"
    /\ UNCHANGED <<chatwork, line, options, course, signal, added>>

Execute ==
    /\ pc = "execute"
    /\ options' = Parsed(line)
    /\ pc' = "new"
    /\ UNCHANGED <<chatwork, line, logLevel, course, signal, added>>

\* An unknown flag, or a value that does not parse.
ExecuteFails ==
    /\ pc = "execute"
    /\ outcome' = "error" /\ pc' = "failed"
    /\ UNCHANGED <<chatwork, flags, command, current, passed, skipsDns, doomed, signal, added>>

\* AddMessage by the main goroutine, in two steps, going on to next.
Say(m, next) ==
    \/ AddMessage("main", m) /\ UNCHANGED <<pc, added>>
    \/ MessageAdded("main") /\ pc' = next /\ added' = Append(added, m)

\* NewClusterAutoscaler and the others announce the check.
New ==
    /\ pc = "new"
    /\ Say(<<command[current], "start">>, "clients")
    /\ UNCHANGED <<flags, course, signal>>

\* NewDatadogAgent looks for its keys before it announces anything.
NoKeys ==
    /\ pc = "new" /\ command[current] = "datadog-agent"
    /\ writing["main"] = NotAdding
    /\ outcome' = "error" /\ pc' = "failed"
    /\ UNCHANGED <<chatwork, flags, command, current, passed, skipsDns, doomed, signal, added>>

\* The others make their clients after.
NewFails ==
    /\ pc = "clients" /\ command[current] # "datadog-agent"
    /\ outcome' = "error" /\ pc' = "failed"
    /\ UNCHANGED <<chatwork, flags, command, current, passed, skipsDns, doomed, signal, added>>

\* NewK8sClient, which only cert-manager needs, gets its configuration with
\* GetConfigOrDie: without one the process exits where it is.
NewDies ==
    /\ pc = "clients" /\ command[current] = "cert-manager"
    /\ pc' = "exit 1"
    /\ UNCHANGED <<chatwork, flags, course, signal, added>>

\* "test all" checks DNS whatever --no-dns-check says: its flag is another's.
SkipsDns ==
    IF command # TestAll /\ options.noDnsCheck THEN "skip" ELSE "check"

NewReturns ==
    /\ pc = "clients"
    /\ pc' = "check"
    /\ skipsDns' = IF command[current] = "ingress" THEN SkipsDns ELSE skipsDns
    /\ UNCHANGED <<chatwork, flags, command, current, outcome, passed, doomed, signal, added>>

\* The first call of every check needs the context.
CheckBegins ==
    /\ pc = "check"
    /\ doomed' = ctxDone
    /\ pc' = "checking"
    /\ UNCHANGED <<chatwork, flags, command, current, outcome, passed, skipsDns, signal, added>>

\* What the check found is its last message; Send is deferred.
CheckSays ==
    /\ pc = "checking"
    /\ Say(<<command[current], "end">>, "return")
    /\ UNCHANGED <<flags, course, signal>>

CheckReturns ==
    /\ pc = "return"
    /\ \/ ~doomed /\ outcome' = "nil" /\ passed' = passed + 1
       \/ outcome' = "error" /\ UNCHANGED passed
    /\ pc' = "send"
    /\ UNCHANGED <<chatwork, flags, command, current, skipsDns, doomed, signal, added>>

SendReads ==
    /\ pc = "send"
    /\ ReadMessages
    /\ pc' = "post"
    /\ UNCHANGED <<flags, course, signal, added>>

\* Any answer, 200 or not, is a response.
SendPosts ==
    /\ pc = "post"
    /\ Accepted \/ Refused
    /\ pc' = "reset"
    /\ UNCHANGED <<flags, course, signal, added>>

\* Mutant: a request without an answer counts as sent.
SendFailsQuietly ==
    /\ pc = "post"
    /\ Unanswered
    /\ pc' = "reset"
    /\ UNCHANGED <<flags, course, signal, added>>

\* Without one Send dereferences nil.
SendFails ==
    /\ pc = "post"
    /\ Unanswered
    /\ pc' = "panic"
    /\ UNCHANGED <<flags, course, signal, added>>

SendPanics ==
    /\ pc = "panic"
    /\ Reset
    /\ pc' = "exit 2"
    /\ UNCHANGED <<flags, course, signal, added>>

\* Mutants: the loop over the checks runs one too far; "test all" returns the
\* result of a check whether it is an error or not.
GoesTooFar == outcome = "nil" /\ current <= Len(command)
ReturnsEarly == FALSE

\* "test all" goes on to the next check only if this one returned nil.
GoesOn == outcome = "nil" /\ current < Len(command)

SendReturns ==
    /\ pc = "reset"
    /\ Reset
    /\ IF GoesOn THEN pc' = "new" /\ current' = current + 1
       ELSE /\ pc' = CASE outcome = "nil"   -> "exit 0"
                       [] outcome = "error" -> "failed"
                       [] outcome = "fatal" -> "exit 1"
            /\ UNCHANGED current
    /\ UNCHANGED <<flags, command, outcome, passed, skipsDns, doomed, signal, added>>

\* Mutant: main exits without sending.
FailedUnsent ==
    /\ pc = "failed"
    /\ Say(<<"main", "error">>, "exit 1")
    /\ outcome' = "fatal"
    /\ UNCHANGED <<flags, command, current, passed, skipsDns, doomed, signal>>

\* Execute returned an error: main adds it, sends, and exits.
Failed ==
    /\ pc = "failed"
    /\ Say(<<"main", "error">>, "send")
    /\ outcome' = "fatal"
    /\ UNCHANGED <<flags, command, current, passed, skipsDns, doomed, signal>>

-----------------------------------------------------------------------------
(* The goroutine of newSignalContext.  It takes one signal; those that     *)
(* follow stay in the channel.                                             *)

Notice == <<"signal", "Exiting">>

Signal ==
    /\ handler = "waiting" /\ ~Exited
    /\ AddMessage("signal", Notice)
    /\ handler' = "writing"
    /\ UNCHANGED <<flags, course, pc, ctxDone, added>>

NoticeAdded ==
    /\ handler = "writing" /\ ~Exited
    /\ MessageAdded("signal")
    /\ handler' = "cancel"
    /\ UNCHANGED <<flags, course, pc, ctxDone, added>>

Cancel ==
    /\ handler = "cancel" /\ ~Exited
    /\ ctxDone' = TRUE
    /\ handler' = "gone"
    /\ UNCHANGED <<chatwork, flags, course, pc, added>>

Done == Exited /\ UNCHANGED vars

-----------------------------------------------------------------------------
Main == \/ InitLogger \/ Execute \/ ExecuteFails
        \/ New \/ NoKeys \/ NewFails \/ NewDies \/ NewReturns
        \/ CheckBegins \/ CheckSays \/ CheckReturns
        \/ SendReads \/ SendPosts \/ SendFails \/ SendPanics \/ SendReturns \/ Failed
Handler == Signal \/ NoticeAdded \/ Cancel

Next == Main \/ Handler \/ Done

Spec == Init /\ [][Next]_vars

-----------------------------------------------------------------------------
(* Properties.                                                             *)

Places == Exits \cup {"initLogger", "execute", "new", "clients", "check", "checking",
                      "return", "send", "post", "reset", "panic", "failed"}

Message == Checks \X {"start", "end"} \cup {<<"main", "error">>, Notice, Mangled}

TypeOK ==
    /\ messages \in Seq(Message) /\ body \in Seq(Message) /\ added \in Seq(Message)
    /\ writing \in [Goroutines -> {NotAdding} \cup
                       [adding : {TRUE}, message : Message, loaded : Seq(Message)]]
    /\ posted \in Seq(Message) /\ room \in Seq(Message) /\ refused \subseteq Message
    /\ command \in Commands /\ line \in Lines
    /\ options \in [logLevel : {"info", "debug", "error"}, debug : BOOLEAN, noDnsCheck : BOOLEAN]
    /\ logLevel \in {"unset", "info", "debug", "error"}
    /\ skipsDns \in {"unset", "skip", "check"}
    /\ pc \in Places
    /\ current \in DOMAIN command /\ passed \in 0..current
    /\ outcome \in {"none", "nil", "error", "fatal"}
    /\ handler \in {"waiting", "writing", "cancel", "gone"}
    /\ ctxDone \in BOOLEAN /\ doomed \in BOOLEAN

(***************************************************************************)
(* As long as no signal arrives, every message the program writes is in    *)
(* exactly one request to the chat, or still in the buffer, in the order   *)
(* of writing: over the Sends of all checks and the one of main.           *)
(***************************************************************************)
NotPosted == IF pc \in {"reset", "panic"} THEN <<>> ELSE messages

PostedInOrder == handler = "waiting" => posted \o NotPosted = added

(***************************************************************************)
(* However the signal handler's AddMessage falls among the writes of the   *)
(* main goroutine: the notice is posted once at the most, and no message   *)
(* more than twice (the handler may put messages back that were posted and *)
(* reset while it was writing).                                            *)
(***************************************************************************)
Times(m) == Cardinality({i \in DOMAIN posted : posted[i] = m})

RarelyTwice ==
    /\ Times(Notice) <= 1
    /\ \A i \in DOMAIN added : Times(added[i]) <= IF handler = "waiting" THEN 1 ELSE 2

(***************************************************************************)
(* The program exits with 0 only when every check of the command was run   *)
(* and returned nil, with 1 only when one was not run or did not.          *)
(***************************************************************************)
ExitTellsOutcome ==
    /\ pc = "exit 0" => passed = Len(command)
    /\ pc = "exit 1" => passed < Len(command)

(***************************************************************************)
(* When the program exits without a panic and without a signal, a message  *)
(* that is not in the room was in a request that was answered with an      *)
(* error; where there was none, the room has all of them, in order; and    *)
(* after a failure main's error is the last.  Only a run whose cert-       *)
(* manager client found no configuration exits without a word of it.       *)
(***************************************************************************)
Dead == pc = "exit 1" /\ outcome # "fatal"

ExitIsTold ==
    pc \in {"exit 0", "exit 1"} /\ ~Dead /\ handler = "waiting" =>
        /\ \A i \in DOMAIN added : Contains(room, added[i]) \/ added[i] \in refused
        /\ refused = {} => room = added
        /\ pc = "exit 1" => Last(added) = <<"main", "error">>

-----------------------------------------------------------------------------
(* What the repository says of the program and the program does not do.    *)

\* chatwork.go, above Send: "errors are no problem, they are only logged".
SendErrorsAreHarmless == pc # "exit 2"
=============================================================================
