-------------------------- MODULE GeeRPCResponses --------------------------
(***************************************************************************)
(* What a geerpc connection promises its client, as the comments of        *)
(* serveCodec state it (src/Geektutu/Gee/main.go lines 241-262): requests *)
(* the server accepts are answered one whole response at a time, each at  *)
(* most once, and the connection is closed only once every accepted       *)
(* request has been answered or its answer has been lost to a failed      *)
(* write.  A response is atomic here; GeeRPCServer writes it as a header  *)
(* and a body frame under the sending mutex.                               *)
(***************************************************************************)
EXTENDS Sequences, SequencesExt

CONSTANT Reqs          \* the requests of the connection

VARIABLES pending,     \* requests accepted and owed a response
          responses,   \* the requests answered, in the order of the wire
          lost,        \* the requests whose answer failed to be written
          closed       \* the connection is closed

vars == <<pending, responses, lost, closed>>

\* Requests whose answer is written or lost.
Settled == ToSet(responses) \cup lost

Init ==
    /\ pending   = {}
    /\ responses = <<>>
    /\ lost      = {}
    /\ closed    = FALSE

\* The server takes on request i.
Accept(i) ==
    /\ ~closed
    /\ i \notin pending
    /\ pending' = pending \cup {i}
    /\ UNCHANGED <<responses, lost, closed>>

\* One whole response to an accepted request that has none yet.
Respond(i) ==
    /\ i \in pending
    /\ i \notin Settled
    /\ responses' = Append(responses, i)
    /\ UNCHANGED <<pending, lost, closed>>

\* The answer to an accepted request fails to be written.
Lose(i) ==
    /\ i \in pending
    /\ i \notin Settled
    /\ lost' = lost \cup {i}
    /\ UNCHANGED <<pending, responses, closed>>

\* The connection closes once every accepted request is settled.
Close ==
    /\ ~closed
    /\ pending \subseteq Settled
    /\ closed' = TRUE
    /\ UNCHANGED <<pending, responses, lost>>

Next ==
    \/ \E i \in Reqs : Accept(i) \/ Respond(i) \/ Lose(i)
    \/ Close

Spec == Init /\ [][Next]_vars

=============================================================================
