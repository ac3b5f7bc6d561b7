---------------------------- MODULE GeeRPCServer ----------------------------
(***************************************************************************)
(* The geerpc server (package geerpc, src/Geektutu/Gee/main.go lines       *)
(* 137-389) serving one connection.  Connections share only serviceMap    *)
(* (a sync.Map), so one connection shows every interleaving of a          *)
(* connection with the Register calls.  The client's Option carries       *)
(* HandleTimeout (timeout: 0 is no limit, 1 is a limit).                  *)
(*                                                                         *)
(* Goroutines: the serveCodec loop (lpc), one handleRequest per request    *)
(* (hpc[i]) and the goroutine it starts to call the service (gpc[i]).     *)
(* The channels called and sent are unbuffered, so a send on them is a    *)
(* joint step of the sender and the receiver.  time.After may fire at any  *)
(* point while the select waits.  The gob codec is not in src/: cc.Write   *)
(* is modelled as encoding the header and then the body on the stream the *)
(* connection shares, each as a step of its own.                           *)
(*                                                                         *)
(* Request i carries Seq i.  Strings (ServiceMethod, names) are sequences  *)
(* of characters because findService splits them at the last '.'.         *)
(***************************************************************************)
EXTENDS Naturals, Sequences, SequencesExt, FiniteSets

CONSTANTS Receivers,      \* receivers passed to Register: [name, methods]
          ServiceMethods, \* Header.ServiceMethod values the client sends
          Options,        \* Option values the client may send first
          MaxReqs,        \* bound on the requests of the connection
          MaxWriteFails   \* bound on the cc.Write calls that fail

MagicNumber == "0x3bef5c"
GobType     == "application/gob"

\* codec.NewCodecFuncMap: only the gob codec is registered (codec.go init).
NewCodecFuncMap == {GobType}

\* What the client writes after the Option: requests, then the end of the
\* stream (EOF, or a header that does not decode).
ReqMsgs == [kind : {"req"}, sm : ServiceMethods, body : {"ok", "bad"}]
EndMsg  == [kind |-> "end", sm |-> <<>>, body |-> "none"]
Streams == {s \o <<EndMsg>> : s \in BoundedSeq(ReqMsgs, MaxReqs)}

Reqs == 1 .. MaxReqs

\* Actors that call sendResponse, and the free sending mutex.
Loop       == <<"loop", 0>>
Handler(i) == <<"handler", i>>
Caller(i)  == <<"caller", i>>
NoActor    == <<"none", 0>>

\* Option: MagicNumber, CodecType and HandleTimeout as the server reads them
\* (ConnectTimeout is the client's), and whether the JSON decodes at all.
OptionType == [decodes : BOOLEAN, magic : STRING, codec : STRING, timeout : {0, 1}]

VARIABLES opt,        \* the Option the client sent
          stream,     \* the messages the client sends after it
          serviceMap, \* Server.serviceMap: name -> method names
          lpc,        \* ServeConn/serveCodec: where the loop is
          rd,         \* index of the next message readRequest reads
          reqState,   \* i -> "unread" | "nil" | "invalid" | "spawned"
          hpc,        \* i -> where handleRequest is
          gpc,        \* i -> where the goroutine calling the service is
          gerr,       \* i -> the service call returned an error
          lock,       \* holder of the sending mutex
          wire,       \* header and body frames written on the connection
          wg,         \* the WaitGroup counter
          failed      \* requests whose response cc.Write failed

vars == <<opt, stream, serviceMap, lpc, rd, reqState, hpc, gpc, gerr, lock,
          wire, wg, failed>>

Init ==
    /\ opt        \in Options
    /\ stream     \in Streams
    /\ serviceMap = <<>>
    /\ lpc        = "option"
    /\ rd         = 1
    /\ reqState   = [i \in Reqs |-> "unread"]
    /\ hpc        = [i \in Reqs |-> "none"]
    /\ gpc        = [i \in Reqs |-> "none"]
    /\ gerr       = [i \in Reqs |-> FALSE]
    /\ lock       = NoActor
    /\ wire       = <<>>
    /\ wg         = 0
    /\ failed     = {}

(***************************************************************************)
(* Register: newService names the service after the receiver; LoadOrStore *)
(* keeps the first service of a name and the second call returns an error.*)
(***************************************************************************)
Register(r) ==
    /\ r.name \notin DOMAIN serviceMap
    /\ serviceMap' = (r.name :> r.methods) @@ serviceMap
    /\ UNCHANGED <<opt, stream, lpc, rd, reqState, hpc, gpc, gerr, lock, wire, wg, failed>>

\* findService: split at the last '.'; the service must be registered and
\* have the method.  FALSE is any of its three errors.
FindService(sm) ==
    LET dot    == SelectLastInSeq(sm, LAMBDA c : c = ".")
        name   == SubSeq(sm, 1, dot - 1)
        method == SubSeq(sm, dot + 1, Len(sm))
    IN /\ dot > 0
       /\ name \in DOMAIN serviceMap
       /\ method \in serviceMap[name]

(***************************************************************************)
(* ServeConn: decode the Option, check its MagicNumber and CodecType; on   *)
(* any failure return, and the deferred conn.Close closes the connection. *)
(***************************************************************************)
OptionAccepted(o) ==
    /\ o.decodes
    /\ o.magic = MagicNumber
    /\ o.codec \in NewCodecFuncMap

ServeConn ==
    /\ lpc = "option"
    /\ lpc' = IF OptionAccepted(opt) THEN "read" ELSE "closed"
    /\ UNCHANGED <<opt, stream, serviceMap, rd, reqState, hpc, gpc, gerr, lock, wire, wg, failed>>

(***************************************************************************)
(* sendResponse: take the sending mutex, cc.Write the header and the body, *)
(* release the mutex.                                                      *)
(***************************************************************************)
\* Mutant of sendResponse: the sending mutex is not taken.
AcquireNoLock(a) == lock' = lock

Acquire(a) == lock = NoActor /\ lock' = a

Header(i, e) == [part |-> "header", seq |-> i, err |-> e]
Body(i)      == [part |-> "body", seq |-> i, err |-> ""]

(***************************************************************************)
(* cc.Write may fail (the codec is not in src/): either before the header *)
(* or after it, leaving nothing or the header alone on the wire.           *)
(* sendResponse logs the error; the deferred Unlock still runs.           *)
(***************************************************************************)
WriteFails(i) ==
    /\ Cardinality(failed) < MaxWriteFails
    /\ failed' = failed \cup {i}
    /\ UNCHANGED wire

WriteHeader(i, e) ==
    \/ wire' = Append(wire, Header(i, e)) /\ UNCHANGED failed
    \/ WriteFails(i)

\* Mutant of sendResponse: a failed Write returns before Unlock.
WriteBodyKeepsLockOnError(a, i) ==
    \/ /\ i \in failed
       /\ UNCHANGED <<wire, failed, lock>>
    \/ /\ i \notin failed
       /\ wire' = Append(wire, Body(i))
       /\ UNCHANGED failed
       /\ lock' = IF lock = a THEN NoActor ELSE lock
    \/ /\ i \notin failed
       /\ WriteFails(i)
       /\ UNCHANGED lock

\* The body, unless the header already failed; then Unlock.
WriteBodyAndRelease(a, i) ==
    /\ \/ i \in failed /\ UNCHANGED <<wire, failed>>
       \/ i \notin failed /\ wire' = Append(wire, Body(i)) /\ UNCHANGED failed
       \/ i \notin failed /\ WriteFails(i)
    /\ lock' = IF lock = a THEN NoActor ELSE lock

(***************************************************************************)
(* serveCodec's loop: readRequest, then one of                             *)
(*  - the header does not read (EOF or garbage): break;                    *)
(*  - findService fails: readRequest returns a nil request: break;         *)
(*  - the body does not read: answer invalidRequest with the error, go on; *)
(*  - else wg.Add(1) and go handleRequest.                                 *)
(* After the loop, wg.Wait and cc.Close.                                   *)
(***************************************************************************)
ReadRequest ==
    /\ lpc = "read"
    /\ LET msg == stream[rd] IN
       \/ /\ msg.kind = "end"
          /\ lpc' = "wait"
          /\ UNCHANGED <<rd, reqState, hpc, gpc, wg, failed>>
       \/ /\ msg.kind = "req"
          /\ ~FindService(msg.sm)
          /\ lpc'      = "wait"
          /\ rd'       = rd + 1
          /\ reqState' = [reqState EXCEPT ![rd] = "nil"]
          /\ UNCHANGED <<hpc, gpc, wg, failed>>
       \/ /\ msg.kind = "req"
          /\ FindService(msg.sm)
          /\ msg.body = "bad"
          /\ lpc'      = "inv_lock"
          /\ rd'       = rd + 1
          /\ reqState' = [reqState EXCEPT ![rd] = "invalid"]
          /\ UNCHANGED <<hpc, gpc, wg, failed>>
       \/ /\ msg.kind = "req"
          /\ FindService(msg.sm)
          /\ msg.body = "ok"
          /\ rd'       = rd + 1
          /\ reqState' = [reqState EXCEPT ![rd] = "spawned"]
          /\ wg'       = wg + 1
          \* handleRequest starts the calling goroutine, then waits.
          /\ hpc' = [hpc EXCEPT ![rd] = IF opt.timeout = 0 THEN "waitCalled"
                                                           ELSE "select"]
          /\ gpc' = [gpc EXCEPT ![rd] = "call"]
          /\ UNCHANGED lpc
    /\ UNCHANGED <<opt, stream, serviceMap, gerr, lock, wire, failed>>

InvalidLock ==
    /\ lpc = "inv_lock"
    /\ Acquire(Loop)
    /\ lpc' = "inv_header"
    /\ UNCHANGED <<opt, stream, serviceMap, rd, reqState, hpc, gpc, gerr, wire, wg, failed>>

InvalidHeader ==
    /\ lpc = "inv_header"
    /\ WriteHeader(rd - 1, "body")
    /\ lpc' = "inv_body"
    /\ UNCHANGED <<opt, stream, serviceMap, rd, reqState, hpc, gpc, gerr, lock, wg>>

InvalidBody ==
    /\ lpc = "inv_body"
    /\ WriteBodyAndRelease(Loop, rd - 1)
    /\ lpc' = "read"
    /\ UNCHANGED <<opt, stream, serviceMap, rd, reqState, hpc, gpc, gerr, wg>>

\* Mutant of serveCodec: cc.Close without wg.Wait.
CloseConnNoWait ==
    /\ lpc = "wait"
    /\ lpc' = "closed"
    /\ UNCHANGED <<opt, stream, serviceMap, rd, reqState, hpc, gpc, gerr, lock, wire, wg, failed>>

CloseConn ==
    /\ lpc = "wait"
    /\ wg = 0
    /\ lpc' = "closed"
    /\ UNCHANGED <<opt, stream, serviceMap, rd, reqState, hpc, gpc, gerr, lock, wire, wg, failed>>

(***************************************************************************)
(* The goroutine handleRequest starts: call the service, send on called,  *)
(* sendResponse (the error, or the reply), send on sent.                   *)
(***************************************************************************)
\* Mutant of the calling goroutine: called is buffered, so the goroutine
\* goes on to sendResponse without handleRequest receiving on it.
CallSkipsCalled(i) ==
    /\ gpc[i] = "call"
    /\ \E e \in BOOLEAN : gerr' = [gerr EXCEPT ![i] = e]
    /\ gpc' = [gpc EXCEPT ![i] = "lock"]
    /\ UNCHANGED <<opt, stream, serviceMap, lpc, rd, reqState, hpc, lock, wire, wg, failed>>

Call(i) ==
    /\ gpc[i] = "call"
    /\ \E e \in BOOLEAN : gerr' = [gerr EXCEPT ![i] = e]
    /\ gpc' = [gpc EXCEPT ![i] = "called"]
    /\ UNCHANGED <<opt, stream, serviceMap, lpc, rd, reqState, hpc, lock, wire, wg, failed>>

\* Mutant of handleRequest: it returns once called is received, without
\* waiting on sent.
ReceiveReturns(i) ==
    /\ gpc[i] = "called"
    /\ hpc[i] \in {"select", "waitCalled"}
    /\ gpc' = [gpc EXCEPT ![i] = "lock"]
    /\ hpc' = [hpc EXCEPT ![i] = "done"]
    /\ wg'  = wg - 1
    /\ UNCHANGED <<opt, stream, serviceMap, lpc, rd, reqState, gerr, lock, wire, failed>>

\* called <- struct{}{} meets <-called in the select or in the no-limit
\* branch; handleRequest then waits on sent.
Receive(i) ==
    /\ gpc[i] = "called"
    /\ hpc[i] \in {"select", "waitCalled"}
    /\ gpc' = [gpc EXCEPT ![i] = "lock"]
    /\ hpc' = [hpc EXCEPT ![i] = "waitSent"]
    /\ UNCHANGED <<opt, stream, serviceMap, lpc, rd, reqState, gerr, lock, wire, wg, failed>>

CallerLock(i) ==
    /\ gpc[i] = "lock"
    /\ Acquire(Caller(i))
    /\ gpc' = [gpc EXCEPT ![i] = "header"]
    /\ UNCHANGED <<opt, stream, serviceMap, lpc, rd, reqState, hpc, gerr, wire, wg, failed>>

CallerHeader(i) ==
    /\ gpc[i] = "header"
    /\ WriteHeader(i, IF gerr[i] THEN "call" ELSE "")
    /\ gpc' = [gpc EXCEPT ![i] = "body"]
    /\ UNCHANGED <<opt, stream, serviceMap, lpc, rd, reqState, hpc, gerr, lock, wg>>

CallerBody(i) ==
    /\ gpc[i] = "body"
    /\ WriteBodyAndRelease(Caller(i), i)
    /\ gpc' = [gpc EXCEPT ![i] = "sent"]
    /\ UNCHANGED <<opt, stream, serviceMap, lpc, rd, reqState, hpc, gerr, wg>>

\* Mutant of the calling goroutine: the error branch returns without
\* sending on sent.
SentOnlyOnSuccess(i) ==
    /\ ~gerr[i]
    /\ gpc[i] = "sent"
    /\ hpc[i] = "waitSent"
    /\ gpc' = [gpc EXCEPT ![i] = "done"]
    /\ hpc' = [hpc EXCEPT ![i] = "done"]
    /\ wg'  = wg - 1
    /\ UNCHANGED <<opt, stream, serviceMap, lpc, rd, reqState, gerr, lock, wire, failed>>

\* Mutant of handleRequest: wg.Done is called twice.
SentDoneTwice(i) ==
    /\ gpc[i] = "sent"
    /\ hpc[i] = "waitSent"
    /\ gpc' = [gpc EXCEPT ![i] = "done"]
    /\ hpc' = [hpc EXCEPT ![i] = "done"]
    /\ wg'  = wg - 2
    /\ UNCHANGED <<opt, stream, serviceMap, lpc, rd, reqState, gerr, lock, wire, failed>>

\* sent <- struct{}{} meets <-sent; handleRequest returns and its deferred
\* wg.Done runs.
Sent(i) ==
    /\ gpc[i] = "sent"
    /\ hpc[i] = "waitSent"
    /\ gpc' = [gpc EXCEPT ![i] = "done"]
    /\ hpc' = [hpc EXCEPT ![i] = "done"]
    /\ wg'  = wg - 1
    /\ UNCHANGED <<opt, stream, serviceMap, lpc, rd, reqState, gerr, lock, wire, failed>>

(***************************************************************************)
(* handleRequest's select, case <-time.After(timeout): answer with the     *)
(* timeout error and return (wg.Done).  The goroutine is left behind.     *)
(***************************************************************************)
Timeout(i) ==
    /\ hpc[i] = "select"
    /\ hpc' = [hpc EXCEPT ![i] = "to_lock"]
    /\ UNCHANGED <<opt, stream, serviceMap, lpc, rd, reqState, gpc, gerr, lock, wire, wg, failed>>

TimeoutLock(i) ==
    /\ hpc[i] = "to_lock"
    /\ Acquire(Handler(i))
    /\ hpc' = [hpc EXCEPT ![i] = "to_header"]
    /\ UNCHANGED <<opt, stream, serviceMap, lpc, rd, reqState, gpc, gerr, wire, wg, failed>>

TimeoutHeader(i) ==
    /\ hpc[i] = "to_header"
    /\ WriteHeader(i, "timeout")
    /\ hpc' = [hpc EXCEPT ![i] = "to_body"]
    /\ UNCHANGED <<opt, stream, serviceMap, lpc, rd, reqState, gpc, gerr, lock, wg>>

TimeoutBody(i) ==
    /\ hpc[i] = "to_body"
    /\ WriteBodyAndRelease(Handler(i), i)
    /\ hpc' = [hpc EXCEPT ![i] = "done"]
    /\ wg'  = wg - 1
    /\ UNCHANGED <<opt, stream, serviceMap, lpc, rd, reqState, gpc, gerr>>

LoopStep ==
    \/ ServeConn \/ ReadRequest \/ InvalidLock \/ InvalidHeader \/ InvalidBody
    \/ CloseConn

HandlerStep(i) ==
    \/ Receive(i) \/ Sent(i) \/ Timeout(i) \/ TimeoutLock(i) \/ TimeoutHeader(i)
    \/ TimeoutBody(i)

CallerStep(i) ==
    \/ Call(i) \/ CallerLock(i) \/ CallerHeader(i) \/ CallerBody(i)

Next ==
    \/ \E r \in Receivers : Register(r)
    \/ LoopStep
    \/ \E i \in Reqs : HandlerStep(i) \/ CallerStep(i)

Spec == Init /\ [][Next]_vars

\* The Go scheduler runs every runnable goroutine, the service methods
\* return, and a started timer fires.  Register is the application's call
\* and is not assumed.
Fairness ==
    /\ WF_vars(LoopStep)
    /\ \A i \in Reqs : WF_vars(HandlerStep(i)) /\ WF_vars(CallerStep(i))

FairSpec == Spec /\ Fairness

-----------------------------------------------------------------------------
(* Properties. *)

Frames == [part : {"header"}, seq : Reqs, err : {"", "call", "timeout", "body"}]
              \cup {Body(i) : i \in Reqs}

TypeOK ==
    /\ opt \in OptionType
    /\ lpc \in {"option", "read", "inv_lock", "inv_header", "inv_body", "wait",
                "closed"}
    /\ rd \in 1 .. MaxReqs + 1
    /\ reqState \in [Reqs -> {"unread", "nil", "invalid", "spawned"}]
    /\ hpc \in [Reqs -> {"none", "select", "waitCalled", "waitSent", "to_lock",
                         "to_header", "to_body", "done"}]
    /\ gpc \in [Reqs -> {"none", "call", "called", "lock", "header", "body",
                         "sent", "done"}]
    /\ lock \in {Loop, NoActor} \cup {Handler(i) : i \in Reqs} \cup {Caller(i) : i \in Reqs}
    /\ wire \in Seq(Frames)
    /\ wg \in 0 .. MaxReqs
    /\ failed \subseteq Reqs

\* Request i has a response header on the wire.
Answered(i) == \E k \in 1 .. Len(wire) : wire[k].part = "header" /\ wire[k].seq = i

\* serveCodec's comment: replies are sent one by one, never intertwined, so
\* the client can parse them.  Whichever goroutines answer concurrently,
\* every body directly follows the header of its own request, and a header
\* is followed by its body unless it is the frame just written or that
\* response's Write failed after the header.
WireFramed ==
    \A k \in 1 .. Len(wire) :
        /\ wire[k].part = "body" =>
              k > 1 /\ wire[k - 1].part = "header" /\ wire[k - 1].seq = wire[k].seq
        /\ (wire[k].part = "header" /\ k < Len(wire)) =>
              wire[k + 1].part = "body" \/ wire[k].seq \in failed

\* A request gets at most one response, even when its timeout fires while
\* the service call is still running or has just returned.
AtMostOneResponse ==
    \A j, k \in 1 .. Len(wire) :
        (wire[j].part = "header" /\ wire[k].part = "header" /\ wire[j].seq = wire[k].seq)
            => j = k

\* The connection is closed only after every request readRequest returned
\* (a handled one or one with an unreadable body) has been answered, or
\* its answer's Write has failed.
ResponseBeforeClose ==
    lpc = "closed" =>
        \A i \in Reqs : reqState[i] \in {"invalid", "spawned"} =>
            Answered(i) \/ i \in failed

\* The comment at the invalid-request branch: a request that cannot be
\* served is answered with the error info.  Every request whose header was
\* read is answered before the connection closes.
EveryHeaderAnswered ==
    lpc = "closed" => \A i \in Reqs : reqState[i] # "unread" => Answered(i)

\* The connection is eventually closed.
Termination == <>(lpc = "closed")

\* Both goroutines serveCodec starts for a request, handleRequest and the
\* one it starts to call the service, eventually return.
GoroutinesFinish ==
    \A i \in Reqs : reqState[i] = "spawned" ~> (hpc[i] = "done" /\ gpc[i] = "done")

\* With HandleTimeout 0 ("no timeout limit", handleRequest's comment)
\* handleRequest waits on called and on sent, and both goroutines of every
\* request return, on the error path of the call as well.
GoroutinesFinishNoLimit == opt.timeout = 0 => GoroutinesFinish

-----------------------------------------------------------------------------
(***************************************************************************)
(* Refinement: the connection implements GeeRPCResponses.  A request is    *)
(* accepted when readRequest returns it (a handled request or one with an  *)
(* unreadable body); a body frame completes its request's response, a     *)
(* failed Write loses it; header frames alone are internal steps.          *)
(***************************************************************************)
Accepted == {i \in Reqs : reqState[i] \in {"invalid", "spawned"}}

ResponsesOnWire ==
    LET bodies == SelectSeq(wire, LAMBDA f : f.part = "body")
    IN [k \in 1 .. Len(bodies) |-> bodies[k].seq]

Abs == INSTANCE GeeRPCResponses
           WITH pending <- Accepted, responses <- ResponsesOnWire,
                lost <- failed, closed <- (lpc = "closed")

\* The connection, with its goroutines, mutex, WaitGroup and timeouts, only
\* takes steps the abstract connection allows: whole responses, one per
\* accepted request, and a close after all of them.
ImplementsResponses == Abs!Spec

=============================================================================
