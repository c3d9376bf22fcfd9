--------------------------------- MODULE Wire ---------------------------------
(***************************************************************************)
(* The client's HTTP over the connection it keeps (commands/client.rs,     *)
(* request to read_content_length): requests with a body in memory or read *)
(* from a file, each answered on the same connection, and sent once more   *)
(* from the start when it was denied and the vault has been unlocked.      *)
(* Messages are tokens on the two directions of a stream, which a read     *)
(* takes in pieces of any size.  The agent may answer before it has read a *)
(* body, closing the connection, and may die with an answer half written;  *)
(* the file that is sent may be cut or grow meanwhile.                     *)
(***************************************************************************)
EXTENDS Naturals, Sequences

CONSTANTS
    Scripts,    \* what a command sends: sequences of "none", "bytes", "reader"
    Blocks      \* the blocks of the file, in order

VARIABLES
    todo,       \* the requests still to be made, the present one first
    wire,       \* the client: at, step (first, methods, unlock, again), n (the
                \* request on the wire, counted), left and pos (blocks to write, the
                \* reader's position), initial (read along with the head)
    link,       \* the connection: state, and what is under way up and down
    server,     \* the agent's end: at, n, what, need and got of the request it
                \* reads, whether the client is authorized, and
                \* (history) whether the agent has closed a connection
    upload,     \* the file, and what has become of it
    written,    \* history: what the client wrote as the body of each request
    executed,   \* history: the requests the agent has executed, with their bodies
    taken,      \* history: what the client took for the answers
    said        \* history: what the agent answered

wireVars == <<todo, wire, link, server, upload, written, executed, taken, said>>

(***************************************************************************)
(* The connection, which the client drops (take) after any error and after *)
(* an answer that says so.  With its end of it the client drops what was   *)
(* under way, and the agent gives up the request (or has executed it       *)
(* before it notices: that is an Answer which nobody takes).               *)
(***************************************************************************)
NoLink == [state |-> "none", up |-> <<>>, down |-> <<>>]
NewLink == [state |-> "open", up |-> <<>>, down |-> <<>>]
Awaiting(authorized) ==
    [at |-> "head", n |-> 0, what |-> "call", need |-> 0, got |-> <<>>,
     authorized |-> authorized, closed |-> FALSE]

DropLinkNot == UNCHANGED <<link, server>>

DropLink ==
    /\ link' = NoLink
    /\ server' = IF server.at = "dead" THEN server ELSE [server EXCEPT !.at = "head"]

KeepLink == UNCHANGED <<link, server>>

(***************************************************************************)
(* One request: its head, then its body, a block at a time.  The four steps*)
(* of a denied request are requests of their own; only the script's own    *)
(* have a body, and a reader is set back to its start each time.           *)
(***************************************************************************)
BodyOf(step) == IF step \in {"methods", "unlock"} THEN "none" ELSE Head(todo)
BodyLength(step) == IF BodyOf(step) = "none" THEN 0 ELSE Len(Blocks)

What(step) == IF step \in {"methods", "unlock"} THEN step ELSE "call"

Rewind(step) == 0

RequestFails == wire' = [wire EXCEPT !.at = "failed"]

SendHead ==
    /\ wire.at = "head"
    /\ IF link.state = "none" /\ server.at = "dead"
       THEN /\ RequestFails
            /\ UNCHANGED <<link, server, written>>
       ELSE IF link.state = "closed"
       THEN RequestFails /\ DropLink /\ UNCHANGED written
       ELSE /\ LET head == [head |-> wire.n + 1, what |-> What(wire.step),
                              length |-> BodyLength(wire.step)]
                   old  == IF link.state = "none" THEN NewLink ELSE link
               IN  link' = [old EXCEPT !.up = Append(@, head)]
            /\ wire' = [wire EXCEPT !.at = "body", !.n = @ + 1,
                                    !.left = BodyLength(wire.step), !.pos = Rewind(wire.step)]
            /\ written' = Append(written, <<>>)
            /\ UNCHANGED server
    /\ UNCHANGED <<todo, upload, executed, taken, said>>

Write(block) ==
    IF link.state = "closed" THEN RequestFails /\ DropLink /\ UNCHANGED written
    ELSE /\ link' = [link EXCEPT !.up = Append(@, [block |-> block])]
         /\ wire' = [wire EXCEPT !.left = @ - 1, !.pos = @ + 1]
         /\ written' = [written EXCEPT ![wire.n] = Append(@, block)]
         /\ UNCHANGED server

SendBytes ==
    /\ wire.at = "body"
    /\ wire.left > 0
    /\ BodyOf(wire.step) = "bytes"
    /\ Write(Blocks[wire.pos + 1])
    /\ UNCHANGED <<todo, upload, executed, taken, said>>

SendReader ==
    /\ wire.at = "body"
    /\ wire.left > 0
    /\ BodyOf(wire.step) = "reader"
    /\ IF wire.pos < Len(upload.file) THEN Write(upload.file[wire.pos + 1])
       ELSE RequestFails /\ DropLink /\ UNCHANGED written
    /\ UNCHANGED <<todo, upload, executed, taken, said>>

(***************************************************************************)
(* The length was taken beforehand: a file that has grown is noticed only  *)
(* when its first blocks have been sent.                                   *)
(***************************************************************************)
BodySent ==
    /\ wire.at = "body"
    /\ wire.left = 0
    /\ IF BodyOf(wire.step) = "reader" /\ wire.pos < Len(upload.file)
       THEN RequestFails /\ DropLink
       ELSE wire' = [wire EXCEPT !.at = "answer", !.initial = <<>>] /\ KeepLink
    /\ UNCHANGED <<todo, upload, written, executed, taken, said>>

(***************************************************************************)
(* read_response: the read that brings the head may bring more.            *)
(***************************************************************************)
ReadHead ==
    /\ wire.at = "answer"
    /\ IF link.down = <<>>
       THEN link.state = "closed" /\ RequestFails /\ DropLink
       ELSE \E k \in 1 .. Len(link.down) :
            /\ wire' = [wire EXCEPT !.at = "rest", !.initial = SubSeq(link.down, 1, k)]
            /\ link' = [link EXCEPT !.down = SubSeq(@, k + 1, Len(@))]
            /\ UNCHANGED server
    /\ UNCHANGED <<todo, upload, written, executed, taken, said>>

(***************************************************************************)
(* decode_chunked: sizes, as many blocks, and a mark after each chunk; a   *)
(* size of 0 ends the body.  read_content_length: as many blocks as said,  *)
(* of which the read above may not have brought more.  The result is the   *)
(* body and how many tokens it takes, or what is wrong: "more" is needed.  *)
(***************************************************************************)
Outcome(ok, body, used) == [ok |-> ok, body |-> body, used |-> used]
More == Outcome("more", <<>>, 0)
Wrong == Outcome("wrong", <<>>, 0)

Mark == [mark |-> TRUE]
IsMark(tokens, i) == "mark" \in DOMAIN tokens[i]
IsSize(tokens, i) == "size" \in DOMAIN tokens[i]
BlocksIn(tokens, a, b) == [i \in 1 .. b - a + 1 |-> tokens[a + i - 1].block]

DecodeChunked(tokens) ==
    LET n == Len(tokens)
        from[i \in 1 .. n + 1] ==
            IF i > n THEN More
            ELSE IF ~IsSize(tokens, i) THEN Wrong
            ELSE LET end == i + tokens[i].size + 1
                 IN  IF end > n THEN More
                     ELSE IF ~IsMark(tokens, end) THEN Wrong
                     ELSE IF tokens[i].size = 0 THEN Outcome("done", <<>>, end)
                     ELSE LET rest == from[end + 1]
                              chunk == BlocksIn(tokens, i + 1, end - 1)
                          IN  [rest EXCEPT !.body = chunk \o @]
    IN  from[1]

ReadContentLength(initial, tokens, length) ==
    IF Len(initial) > length THEN Wrong
    ELSE IF Len(tokens) < length THEN More
    ELSE IF \E i \in 1 .. length : "block" \notin DOMAIN tokens[i] THEN Wrong
    ELSE Outcome("done", BlocksIn(tokens, 1, length), length)

(***************************************************************************)
(* parse_response: the head says how the body is framed.                   *)
(***************************************************************************)
ReadBody(head, initial, tokens) ==
    CASE head.framing = "empty" ->
            IF initial = <<>> THEN Outcome("done", <<>>, 0) ELSE Wrong
      [] head.framing = "chunked" -> DecodeChunked(tokens)
      [] head.framing = "length" -> ReadContentLength(initial, tokens, head.length)

After(step, denied) ==
    CASE step = "first" /\ denied -> "methods"
      [] step = "methods" -> "unlock"
      [] step = "unlock" -> "again"
      [] OTHER -> "over"

Continue(step) ==
    IF step = "over" THEN todo' = Tail(todo) /\ wire' = [wire EXCEPT !.at = "next"]
    ELSE wire' = [wire EXCEPT !.at = "head", !.step = step] /\ UNCHANGED todo

(***************************************************************************)
(* What follows the body in what was read with the head is dropped; what   *)
(* is still on the stream stays there, unless the connection is dropped.   *)
(***************************************************************************)
ReadRest ==
    /\ wire.at = "rest"
    /\ LET head    == Head(wire.initial)
           initial == Tail(wire.initial)
           read    == ReadBody(head, initial, initial \o link.down)
           unread  == IF read.used <= Len(initial) THEN link.down
                      ELSE SubSeq(link.down, 1 + read.used - Len(initial), Len(link.down))
       IN  IF read.ok = "done"
           THEN /\ taken' = taken \cup {[n |-> wire.n, answers |-> head.answers,
                                          body |-> read.body]}
                /\ IF head.close THEN DropLink
                   ELSE link' = [link EXCEPT !.down = unread] /\ UNCHANGED server
                /\ Continue(After(wire.step, head.denied))
           ELSE /\ read.ok = "wrong" \/ link.state = "closed"
                /\ RequestFails /\ DropLink
                /\ UNCHANGED <<todo, taken>>
    /\ UNCHANGED <<upload, written, executed, said>>

NextRequest ==
    /\ wire.at \in {"next", "failed"}
    /\ LET rest == IF wire.at = "next" THEN todo ELSE Tail(todo)
       IN  /\ rest # <<>>
           /\ todo' = rest
           /\ wire' = [wire EXCEPT !.at = "head", !.step = "first"]
    /\ UNCHANGED <<link, server, upload, written, executed, taken, said>>

(***************************************************************************)
(* The agent's end (hyper, as the client needs it): a request is executed  *)
(* when its body is there, and answered in one of the framings.            *)
(***************************************************************************)
TakeHead ==
    /\ server.at = "head"
    /\ link.state = "open" /\ link.up # <<>>
    /\ LET head == Head(link.up)
       IN  server' = [server EXCEPT !.at = "body", !.n = head.head, !.what = head.what,
                                    !.need = head.length, !.got = <<>>]
    /\ link' = [link EXCEPT !.up = Tail(@)]
    /\ UNCHANGED <<todo, wire, upload, written, executed, taken, said>>

TakeBlock ==
    /\ server.at = "body" /\ server.need > 0
    /\ link.state = "open" /\ link.up # <<>>
    /\ server' = [server EXCEPT !.need = @ - 1, !.got = Append(@, Head(link.up))]
    /\ link' = [link EXCEPT !.up = Tail(@)]
    /\ UNCHANGED <<todo, wire, upload, written, executed, taken, said>>

HeadOf(framing, body, denied, close) ==
    [answers |-> server.n, framing |-> framing, length |-> Len(body), denied |-> denied,
     close |-> close]
Data(body) == [i \in 1 .. Len(body) |-> [block |-> body[i]]]
Chunk(body) == <<[size |-> Len(body)]>> \o Data(body) \o <<Mark>>
Framed(framing, body, denied, close) ==
    <<HeadOf(framing, body, denied, close)>> \o
    CASE framing = "empty" -> <<>>
      [] framing = "length" -> Data(body)
      [] framing = "chunked" -> Chunk(SubSeq(body, 1, 1)) \o Chunk(Tail(body)) \o Chunk(<<>>)

Answers ==
    {<<"length", <<server.n, server.n>>>>} \cup
    IF server.what = "call"
    THEN {<<"empty", <<>>>>, <<"chunked", <<server.n, server.n>>>>} ELSE {}

Say(answer, denied, close) ==
    /\ said' = said \cup {<<server.n, answer[2]>>}
    /\ link' = [link EXCEPT !.state = IF close THEN "closed" ELSE @,
                            !.up = SubSeq(@, 1 + server.need, Len(@)), !.down = @ \o Framed(answer[1], answer[2], denied, close)]

Answer ==
    /\ server.at = "body" /\ server.need = 0
    /\ server.what = "call" => server.authorized
    /\ \E answer \in Answers : Say(answer, FALSE, FALSE)
    /\ executed' = executed \cup {[n |-> server.n, body |-> server.got]}
    /\ server' = [server EXCEPT !.at = "head", !.authorized = @ \/ server.what = "unlock"]
    /\ UNCHANGED <<todo, wire, upload, written, taken>>

(***************************************************************************)
(* A denied request is answered without its body: what is there already is *)
(* read and dropped, and if that is not all the connection is closed.      *)
(***************************************************************************)
Deny ==
    /\ server.at = "body" /\ server.what = "call" /\ ~server.authorized
    /\ LET drained == Len(link.up) >= server.need
       IN  /\ Say(<<"length", <<server.n>>>>, TRUE, ~drained)
           /\ server' = [server EXCEPT !.at = "head", !.closed = @ \/ ~drained]
    /\ UNCHANGED <<todo, wire, upload, written, executed, taken>>

ServerDies ==
    /\ server.at # "dead"
    /\ server' = [server EXCEPT !.at = "dead", !.closed = TRUE]
    /\ \E k \in 0 .. Len(link.down) :
        link' = IF link.state = "none" THEN link
                ELSE [state |-> "closed", up |-> <<>>, down |-> SubSeq(link.down, 1, k)]
    /\ UNCHANGED <<todo, wire, upload, written, executed, taken, said>>

(***************************************************************************)
(* Another program shortens or lengthens the file, once.                   *)
(***************************************************************************)
Disturb ==
    /\ upload.intact
    /\ \E file \in {Tail(Blocks), Append(Blocks, "more")} :
        upload' = [intact |-> FALSE, file |-> file]
    /\ UNCHANGED <<todo, wire, link, server, written, executed, taken, said>>

InitWire ==
    /\ todo \in Scripts
    /\ wire = [at |-> "next", step |-> "first", n |-> 0, left |-> 0, pos |-> 0,
               initial |-> <<>>]
    /\ link = NoLink
    /\ \E a \in BOOLEAN : server = Awaiting(a)
    /\ upload = [intact |-> TRUE, file |-> Blocks]
    /\ written = <<>> /\ executed = {} /\ taken = {} /\ said = {}

NextWire ==
    \/ NextRequest \/ SendHead \/ SendBytes \/ SendReader \/ BodySent
    \/ ReadHead \/ ReadRest
    \/ TakeHead \/ TakeBlock \/ Answer \/ Deny \/ ServerDies \/ Disturb

WireSpec == InitWire /\ [][NextWire]_wireVars

-----------------------------------------------------------------------------
(***************************************************************************)
(* Requests and answers stay together on a connection that is used again   *)
(* after denials, failures and half-written messages: what the client      *)
(* takes for an answer is the agent's whole answer to that request; what   *)
(* the agent executes is the request as it was written, and the whole file *)
(* if that has not been touched; and a request fails only if the agent     *)
(* died or closed the connection, or the file was touched.                 *)
(***************************************************************************)
AnswersMatch ==
    /\ \A t \in taken : t.answers = t.n /\ <<t.n, t.body>> \in said
    /\ \A e \in executed :
        /\ e.body = Data(written[e.n])
        /\ upload.intact /\ written[e.n] # <<>> => written[e.n] = Blocks
    /\ wire.at = "failed" => server.closed \/ ~upload.intact
=============================================================================
