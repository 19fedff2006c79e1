---------------------------- MODULE StreamProxy ----------------------------
(***************************************************************************)
(* internal/proxy/shimproxy.go, Handler: one gRPC stream relayed between a  *)
(* client and a backend by two goroutines, the sender (client to backend)   *)
(* and the receiver (backend to client), which report to the handler over   *)
(* errCh.  The gRPC runtime is external: frames queue between the parties,   *)
(* a send on a stream that has ended fails, and when the handler returns    *)
(* the stream's context is cancelled, which ends the backend stream too; a  *)
(* call on a cancelled stream fails or, if it can, still does its work.     *)
(* The backend is seen from the gateway: what it got is what was written to *)
(* its stream, and its status is the one that has arrived.  A frame is its  *)
(* number.                                                                  *)
(***************************************************************************)
EXTENDS Integers, Sequences

CONSTANTS
  MaxRequests,   \* bound: frames the client sends
  MaxResponses   \* bound: frames the backend sends

ASSUME StreamAssumption ==
  /\ MaxRequests \in Nat
  /\ MaxResponses \in Nat

VARIABLES
  client,    \* what the client did and saw
  backend,   \* what the backend did and saw
  up,        \* frames the client sent and ss.RecvMsg has not returned
  down,      \* frames the backend sent and clientStream.RecvMsg has not returned
  sender,    \* the sender goroutine: pc and the frame or result it holds
  receiver,  \* the receiver goroutine
  errCh,     \* the channel of results
  handler    \* the handler: pc, results it has taken, what it returned

streamVars == <<client, backend, up, down, sender, receiver, errCh, handler>>

\* Results: nil, the io.EOF of a send on a finished stream, a cancelled context,
\* the backend's error status, and the handler's own refusals.
Nil == "nil"
Status == {"ok", "failed"}
Result == {Nil, "eof", "canceled", "failed", "notfound", "unavailable"}

\* errCh := make(chan error, 2).
ErrChCap == 2

ClientState == [sent : Nat, halfClosed : BOOLEAN, canceled : BOOLEAN, got : Seq(Nat),
                header : BOOLEAN, trailer : BOOLEAN]
BackendState == [got : Seq(Nat), halfClosed : BOOLEAN, sent : Nat, header : BOOLEAN,
                 status : Status \cup {Nil}]
SenderState == [pc : {"off", "recv", "send", "post", "ended"}, frame : Nat, err : Result]
ReceiverState == [pc : {"off", "header", "recv", "send", "trailer", "post", "ended"},
                  frame : Nat, err : Result]
HandlerState == [pc : {"new", "open", "returned"}, taken : 0..2, result : Result]

StreamTypeOK ==
  /\ client \in ClientState
  /\ backend \in BackendState
  /\ up \in Seq(Nat) /\ down \in Seq(Nat)
  /\ sender \in SenderState
  /\ receiver \in ReceiverState
  /\ errCh \in Seq(Result) /\ Len(errCh) <= ErrChCap
  /\ handler \in HandlerState

StreamInit ==
  /\ client = [sent |-> 0, halfClosed |-> FALSE, canceled |-> FALSE, got |-> <<>>,
               header |-> FALSE, trailer |-> FALSE]
  /\ backend = [got |-> <<>>, halfClosed |-> FALSE, sent |-> 0, header |-> FALSE,
                status |-> Nil]
  /\ up = <<>> /\ down = <<>>
  /\ sender = [pc |-> "off", frame |-> 0, err |-> Nil]
  /\ receiver = [pc |-> "off", frame |-> 0, err |-> Nil]
  /\ errCh = <<>>
  /\ handler = [pc |-> "new", taken |-> 0, result |-> Nil]

\* The context of the client's stream, and with it the backend's, is done.
Canceled == client.canceled \/ handler.pc = "returned"

-----------------------------------------------------------------------------
(* The client and the backend.                                             *)

ClientSends ==
  /\ client.sent < MaxRequests /\ ~client.halfClosed /\ ~Canceled
  /\ client' = [client EXCEPT !.sent = @ + 1]
  /\ up' = Append(up, client.sent + 1)
  /\ UNCHANGED <<backend, down, sender, receiver, errCh, handler>>

ClientHalfCloses ==
  /\ ~client.halfClosed /\ ~Canceled
  /\ client' = [client EXCEPT !.halfClosed = TRUE]
  /\ UNCHANGED <<backend, up, down, sender, receiver, errCh, handler>>

\* The client cancels, loses its connection, or its deadline passes.
ClientCancels ==
  /\ ~Canceled
  /\ client' = [client EXCEPT !.canceled = TRUE]
  /\ UNCHANGED <<backend, up, down, sender, receiver, errCh, handler>>

\* Frames the sender relayed are in backend.got as soon as they are sent.
BackendLives == handler.pc = "open" /\ backend.status = Nil /\ ~Canceled

BackendResponds ==
  /\ BackendLives
  /\ backend.sent < MaxResponses
  /\ backend' = [backend EXCEPT !.sent = @ + 1, !.header = TRUE]
  /\ down' = Append(down, backend.sent + 1)
  /\ UNCHANGED <<client, up, sender, receiver, errCh, handler>>

\* The backend ends the RPC, perhaps before it has read everything.
BackendEnds(s) ==
  /\ BackendLives
  /\ backend' = [backend EXCEPT !.status = s, !.header = TRUE]
  /\ UNCHANGED <<client, up, down, sender, receiver, errCh, handler>>

-----------------------------------------------------------------------------
(* The handler.                                                            *)

\* The method is not exposed (NotFound), or the backend stream cannot be opened.
Refuse(e) ==
  /\ handler.pc = "new"
  /\ handler' = [handler EXCEPT !.pc = "returned", !.result = e]
  /\ UNCHANGED <<client, backend, up, down, sender, receiver, errCh>>

OpenStream ==
  /\ handler.pc = "new"
  /\ handler' = [handler EXCEPT !.pc = "open"]
  /\ sender' = [sender EXCEPT !.pc = "recv"]
  /\ receiver' = [receiver EXCEPT !.pc = "header"]
  /\ UNCHANGED <<client, backend, up, down, errCh>>

\* Mutant: the first result ends the loop.
TakeOne ==
  /\ handler.pc = "open"
  /\ errCh # <<>>
  /\ errCh' = Tail(errCh)
  /\ handler' = [pc |-> "returned", taken |-> 1, result |-> Head(errCh)]
  /\ UNCHANGED <<client, backend, up, down, sender, receiver>>

\* One turn of the handler's loop: an error ends it, and so does the second nil.
Take ==
  /\ handler.pc = "open"
  /\ errCh # <<>>
  /\ errCh' = Tail(errCh)
  /\ handler' = [pc     |-> IF Head(errCh) # Nil \/ handler.taken = 1
                              THEN "returned" ELSE "open",
                 taken  |-> handler.taken + 1,
                 result |-> Head(errCh)]
  /\ UNCHANGED <<client, backend, up, down, sender, receiver>>

-----------------------------------------------------------------------------
(* The sender: ss.RecvMsg, clientStream.SendMsg, errCh <- err.             *)

\* Mutant: the half-close is not relayed.
NoCloseSend == UNCHANGED backend

CloseSend == backend' = [backend EXCEPT !.halfClosed = TRUE]

SenderRecv ==
  /\ sender.pc = "recv"
  /\ \/ /\ up # <<>>
        /\ sender' = [sender EXCEPT !.pc = "send", !.frame = Head(up)]
        /\ up' = Tail(up)
        /\ UNCHANGED backend
     \/ /\ up = <<>> /\ client.halfClosed
        /\ CloseSend
        /\ sender' = [sender EXCEPT !.pc = "post", !.err = Nil]
        /\ UNCHANGED up
     \/ /\ Canceled
        /\ sender' = [sender EXCEPT !.pc = "post", !.err = "canceled"]
        /\ UNCHANGED <<up, backend>>
  /\ UNCHANGED <<client, down, receiver, errCh, handler>>

\* Mutant: the loop sends the frame it has sent.
SenderSendAgain ==
  /\ sender.pc = "send" /\ backend.status = Nil
  /\ backend' = [backend EXCEPT !.got = Append(@, sender.frame)]
  /\ UNCHANGED <<client, up, down, sender, receiver, errCh, handler>>

\* A send on a backend stream that has ended, or was cancelled, returns io.EOF
\* (a cancelled one may take the frame first).
SenderSend ==
  /\ sender.pc = "send"
  /\ \/ /\ backend.status = Nil
        /\ backend' = [backend EXCEPT !.got = Append(@, sender.frame)]
        /\ sender' = [sender EXCEPT !.pc = "recv", !.frame = 0]
     \/ /\ backend.status # Nil \/ Canceled
        /\ sender' = [sender EXCEPT !.pc = "post", !.frame = 0, !.err = "eof"]
        /\ UNCHANGED backend
  /\ UNCHANGED <<client, up, down, receiver, errCh, handler>>

\* Mutant: the channel has no buffer, and nobody receives after the return.
SenderPostsUnbuffered ==
  /\ sender.pc = "post"
  /\ handler.pc = "open"
  /\ errCh' = Append(errCh, sender.err)
  /\ sender' = [sender EXCEPT !.pc = "ended"]
  /\ UNCHANGED <<client, backend, up, down, receiver, handler>>

SenderPosts ==
  /\ sender.pc = "post"
  /\ Len(errCh) < ErrChCap
  /\ errCh' = Append(errCh, sender.err)
  /\ sender' = [sender EXCEPT !.pc = "ended"]
  /\ UNCHANGED <<client, backend, up, down, receiver, handler>>

-----------------------------------------------------------------------------
(* The receiver: Header, clientStream.RecvMsg, ss.SendMsg, Trailer,        *)
(* errCh <- err.                                                           *)

\* Header() returns when the backend sent its header or the stream is over.
ReceiverHeader ==
  /\ receiver.pc = "header"
  /\ backend.header \/ Canceled
  /\ receiver' = [receiver EXCEPT !.pc = "recv"]
  /\ client' = [client EXCEPT !.header =
                  @ \/ (backend.header /\ handler.pc # "returned")]
  /\ UNCHANGED <<backend, up, down, sender, errCh, handler>>

\* io.EOF from RecvMsg, the end of a successful stream, is posted as nil.
ResultOf(s) == IF s = "ok" THEN Nil ELSE s

ReceiverRecv ==
  /\ receiver.pc = "recv"
  /\ \/ /\ down # <<>>
        /\ receiver' = [receiver EXCEPT !.pc = "send", !.frame = Head(down)]
        /\ down' = Tail(down)
     \/ /\ down = <<>> /\ backend.status # Nil
        /\ receiver' = [receiver EXCEPT !.pc = "trailer", !.err = ResultOf(backend.status)]
        /\ UNCHANGED down
     \/ /\ Canceled
        /\ receiver' = [receiver EXCEPT !.pc = "trailer", !.err = "canceled"]
        /\ UNCHANGED down
  /\ UNCHANGED <<client, backend, up, sender, errCh, handler>>

ReceiverSend ==
  /\ receiver.pc = "send"
  /\ \/ /\ handler.pc # "returned"
        /\ client' = [client EXCEPT !.got = Append(@, receiver.frame)]
        /\ receiver' = [receiver EXCEPT !.pc = "recv", !.frame = 0]
     \/ /\ Canceled
        /\ receiver' = [receiver EXCEPT !.pc = "post", !.frame = 0, !.err = "canceled"]
        /\ UNCHANGED client
  /\ UNCHANGED <<backend, up, down, sender, errCh, handler>>

\* ss.SetTrailer: kept for the client until the handler returns.
ReceiverTrailer ==
  /\ receiver.pc = "trailer"
  /\ receiver' = [receiver EXCEPT !.pc = "post"]
  /\ client' = [client EXCEPT !.trailer =
                  @ \/ (backend.status # Nil /\ handler.pc # "returned")]
  /\ UNCHANGED <<backend, up, down, sender, errCh, handler>>

ReceiverPosts ==
  /\ receiver.pc = "post"
  /\ Len(errCh) < ErrChCap
  /\ errCh' = Append(errCh, receiver.err)
  /\ receiver' = [receiver EXCEPT !.pc = "ended"]
  /\ UNCHANGED <<client, backend, up, down, sender, handler>>

-----------------------------------------------------------------------------
Sender   == SenderRecv \/ SenderSend \/ SenderPosts
Receiver == ReceiverHeader \/ ReceiverRecv \/ ReceiverSend \/ ReceiverTrailer
              \/ ReceiverPosts

Ended ==
  /\ handler.pc = "returned"
  /\ sender.pc \in {"off", "ended"} /\ receiver.pc \in {"off", "ended"}

\* The stream is over and both goroutines are gone.
Over == Ended /\ UNCHANGED streamVars

StreamNext ==
  \/ ClientSends \/ ClientHalfCloses \/ ClientCancels
  \/ BackendResponds \/ \E s \in Status : BackendEnds(s)
  \/ \E e \in {"notfound", "unavailable"} : Refuse(e)
  \/ OpenStream \/ Take
  \/ Sender \/ Receiver
  \/ Over

StreamSpec == StreamInit /\ [][StreamNext]_streamVars

\* A backend that has seen the client's half-close ends the RPC, and the runtime
\* schedules the handler and both goroutines.  Nothing is assumed of the client.
FairStreamSpec ==
  /\ StreamSpec
  /\ WF_streamVars(Sender) /\ WF_streamVars(Receiver) /\ WF_streamVars(Take)
  /\ WF_streamVars(backend.halfClosed /\ \E s \in Status : BackendEnds(s))

-----------------------------------------------------------------------------
(* Properties.                                                             *)

IsCount(s, n) == Len(s) = n /\ \A i \in 1..n : s[i] = i

\* Both directions are relayed in order and without loss or duplication: at any
\* moment what one side received, what the goroutine holds and what is queued are
\* together what the other side sent.
RelayIsTransparent ==
  /\ StreamTypeOK
  /\ ~Canceled /\ sender.pc \in {"recv", "send"} =>
       IsCount(backend.got \o (IF sender.pc = "send" THEN <<sender.frame>> ELSE <<>>)
                 \o up, client.sent)
  /\ ~Canceled /\ receiver.pc \in {"header", "recv", "send"} =>
       IsCount(client.got \o (IF receiver.pc = "send" THEN <<receiver.frame>> ELSE <<>>)
                 \o down, backend.sent)

\* The status is never premature.  When the handler returns what the backend ended
\* with, every response, the backend's header and its trailer, which carries the
\* details of an error, have been relayed before; an OK means besides that the
\* client half-closed and every request was relayed.
ResultIsComplete ==
  handler.pc = "returned" /\ handler.result \in {Nil, "failed"} =>
    /\ backend.status = (IF handler.result = Nil THEN "ok" ELSE "failed")
    /\ IsCount(client.got, backend.sent)
    /\ client.header /\ client.trailer
    /\ handler.result = Nil =>
         backend.halfClosed /\ IsCount(backend.got, client.sent)

\* No goroutine outlives its stream: whichever result ends the handler first, the
\* other goroutine can still post its own (errCh has room for both) and ends.
NoGoroutineLeak == (handler.pc = "returned") ~> Ended

\* The half-close is relayed and the stream then ends.
HalfCloseEndsStream ==
  (handler.pc = "open" /\ client.halfClosed) ~> (handler.pc = "returned")

-----------------------------------------------------------------------------
(* What the documentation says, and the code does not ensure.              *)

\* "the backend's error status is passed on as it is": unless the client
\* cancelled, the handler returns the status the backend ended with.
StatusIsForwarded ==
  /\ handler.pc = "returned" /\ handler.taken > 0
  /\ backend.status = "failed" /\ ~client.canceled
  => handler.result = "failed"
=============================================================================
