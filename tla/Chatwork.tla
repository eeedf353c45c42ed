------------------------------ MODULE Chatwork ------------------------------
(***************************************************************************)
(* util/notify: the message buffer every check writes to, and Send.        *)
(*                                                                         *)
(* The strings.Builder is shared, without a lock, by the main goroutine    *)
(* and the signal handler of main.go.  WriteString loads the buffer's      *)
(* header, copies the message behind it and stores the new header, so that *)
(* AddMessage is two steps here.  When another goroutine stores in between *)
(* (a data race) the later store wins, or the content is mangled.          *)
(*                                                                         *)
(* The room itself and the answers of the Chatwork API are external.       *)
(***************************************************************************)
EXTENDS Naturals, SequencesExt

Goroutines == {"main", "signal"}
Mangled    == <<"mangled", "bytes">>
NotAdding  == [adding |-> FALSE]

VARIABLES
    messages,    \* Chatwork.Messages: the messages in the buffer, in order
    writing,     \* per goroutine: the WriteString it is in, with what it loaded
    body,        \* the body Send is posting
    posted,      \* history: the messages in the requests made, in order
    room,        \* the messages in the room, in order
    refused      \* history: messages of requests that were answered with an error

requests == <<posted, room, refused>>
chatwork == <<messages, writing, body, requests>>

NewChatwork ==
    /\ messages = <<>>
    /\ writing = [g \in Goroutines |-> NotAdding]
    /\ body = <<>>
    /\ posted = <<>> /\ room = <<>> /\ refused = {}

-----------------------------------------------------------------------------
\* WriteString, up to the load of the header.
AddMessage(g, m) ==
    /\ writing[g] = NotAdding
    /\ writing' = [writing EXCEPT ![g] = [adding |-> TRUE, message |-> m, loaded |-> messages]]
    /\ UNCHANGED <<messages, body, requests>>

\* Another goroutine touched the buffer since g loaded it, or is about to.
Raced(g) == \/ messages # writing[g].loaded
            \/ \E h \in Goroutines \ {g} : writing[h] # NotAdding

\* Mutant: the message replaces what is in the buffer.
MessageReplaces(g) ==
    /\ writing[g] # NotAdding
    /\ messages' = <<writing[g].message>>
    /\ writing' = [writing EXCEPT ![g] = NotAdding]
    /\ UNCHANGED <<body, requests>>

\* WriteString, from the copy to the store.
MessageAdded(g) ==
    /\ writing[g] # NotAdding
    /\ \/ messages' = Append(writing[g].loaded, writing[g].message)
       \/ Raced(g) /\ messages' = <<Mangled>>
    /\ writing' = [writing EXCEPT ![g] = NotAdding]
    /\ UNCHANGED <<body, requests>>

\* Send, up to Messages.String().  It may see half a store.
ReadMessages ==
    /\ \/ body' = messages
       \/ writing["signal"] # NotAdding /\ body' = <<Mangled>>
    /\ UNCHANGED <<messages, writing, requests>>

\* The request goes to a fixed host: Send never reads Site.
Post ==
    /\ posted' = posted \o body
    /\ UNCHANGED <<messages, writing, body>>

\* 200: the text is in the room.
Accepted == Post /\ room' = room \o body /\ UNCHANGED refused

\* 401, 429, 500: the status is logged like any other, and nothing is retried.
Refused == Post /\ refused' = refused \cup ToSet(body) /\ UNCHANGED room

\* No answer: the text may be in the room all the same.
Unanswered == Post /\ room' \in {room, room \o body} /\ UNCHANGED refused

\* Mutant: Send leaves the buffer as it is.
ResetForgotten ==
    /\ body' = <<>>
    /\ UNCHANGED <<messages, writing, requests>>

\* The deferred Messages.Reset(), which runs when Send panics as well.
Reset ==
    /\ messages' = <<>> /\ body' = <<>>
    /\ UNCHANGED <<writing, requests>>
=============================================================================
