---------------------------- MODULE ModelGateway ----------------------------
(***************************************************************************)
(* The recording proxy of harness/model_gateway.py.  One gateway serves    *)
(* one benchmark stage: a threading HTTP server hands every connection to  *)
(* a handler thread (_proxy), which normalises an inference request, logs  *)
(* it, forwards it to the model, streams the answer back and logs what it  *)
(* observed.  The stage's owner closes the gateway (close) and reads the   *)
(* log (read_model_transport_observations) to decide whether the transport *)
(* evidence can be trusted.                                                *)
(*                                                                         *)
(* The log is one file.  Its rows, the request counter and the set of      *)
(* pending ids are each touched under one lock, but never together: adding *)
(* a pending id and appending its request row are two critical sections,   *)
(* and so are appending a response row and discarding the pending id.      *)
(* Every such section is an action here.                                   *)
(***************************************************************************)
EXTENDS Naturals, Sequences, FiniteSets

CONSTANTS
  Conns,      \* the connections the stage's client may open, one request each
  Asks,       \* the kinds of request each of them may carry
  Short,      \* what an append that raises may have left of its row, if anything
  MaxFaults   \* bound: appends to the log that raise OSError

Inference == {"stream", "plain"}
Kinds == Inference \cup {"probe", "bad", "reject"}

\* How much of a row is in the file: the whole line, all but its newline, or less.
Written == {"whole", "bare", "part"}

ASSUME GatewayAssumption ==
  Asks \in [Conns -> SUBSET Kinds] /\ Short \subseteq Written /\ MaxFaults \in Nat

VARIABLES
  stage,      \* "upstream": the log is read after close; "hermes": before it
  agent,      \* the client process: "running", "exited" or "killed"
  serving,    \* serve_forever still accepts connections
  owner,      \* "open", "draining", "closed", "read"
  timedOut,   \* close() gave up waiting for pending ids
  counter,    \* _request_counter
  pending,    \* _pending_request_ids
  log,        \* the rows of model-transport-observations.jsonl
  faults,     \* failed appends so far
  pc,         \* where each connection's handler is
  kind,       \* what each connection asks for
  client,     \* what each connection's client has seen
  id,         \* request_id of each connection, 0 before it is counted
  row,        \* the response row a handler is about to append
  judged,     \* what run_once read while the gateway was still open
  final       \* what the log held when it was read (or copied) after close

shared  == <<counter, pending, log, faults>>
handler == <<pc, kind, client, id, row>>
stageVars == <<stage, agent, serving, owner, timedOut, judged, final>>
vars == <<shared, handler, stageVars>>

\* The handler's locations in _proxy.
Locations == {"idle", "backlog", "accepted", "counted", "forward", "unanswered",
              "body", "unfinished", "rec", "unpend", "write", "502", "done", "dead"}

\* It waits for an upstream that has fallen silent, before or after its status.
Silent == {"unanswered", "unfinished"}

----------------------------------------------------------------------------
(* The log and its reader.                                                 *)

\* A response row about to be appended: whether it carries a transport error, and
\* what the handler does once it is recorded.
NoRow == [err |-> FALSE, then |-> "end"]
Entry(event, n, r) == [event |-> event, id |-> n, err |-> r.err, written |-> "whole"]

\* The reader takes the file line by line.  What follows a row without a newline
\* stands on the same line with it, and such a line is no JSON.
Readable(l, i) ==
  /\ l[i].written # "part"
  /\ i = 1 \/ l[i - 1].written = "whole"
  /\ l[i].written = "whole" \/ i = Len(l)

\* Some line is not JSON: malformed_rows is not 0.
Torn(l) == \E i \in DOMAIN l : ~Readable(l, i)

\* The rows of one event kind that the reader gets, and their request ids.
RowsOf(l, event) == {i \in DOMAIN l : Readable(l, i) /\ l[i].event = event}
Ids(l, event) == {l[i].id : i \in RowsOf(l, event)}
Duplicated(l, event) ==
  {n \in Ids(l, event) : \E i, j \in RowsOf(l, event) :
      i # j /\ l[i].id = n /\ l[j].id = n}

\* read_model_transport_observations: what the reader concludes from the rows.
Report(l) ==
  LET requests  == Ids(l, "request")
      responses == Ids(l, "response")
      duplicate == Duplicated(l, "request") \cup Duplicated(l, "response")
      orphan    == responses \ requests
      missing   == requests \ responses
      faulty    == \E i \in DOMAIN l :
                     Readable(l, i) /\ (l[i].event = "observer_error" \/ l[i].err)
      requestOk == ~Torn(l) /\ ~faulty /\ duplicate = {} /\ orphan = {}
  IN [read |-> TRUE, requests |-> requests, duplicate |-> duplicate,
      orphan |-> orphan, missing |-> missing, malformed |-> Torn(l),
      request_observer_ok |-> requestOk,
      observer_ok |-> requestOk /\ missing = {}]

NoReport == [Report(<<>>) EXCEPT !.read = FALSE]

Init ==
  /\ stage \in {"upstream", "hermes"}
  /\ agent = "running" /\ serving = TRUE /\ owner = "open" /\ timedOut = FALSE
  /\ counter = 0 /\ pending = {} /\ log = <<>> /\ faults = 0
  /\ pc = [c \in Conns |-> "idle"] /\ kind = [c \in Conns |-> "none"]
  /\ client = [c \in Conns |-> "none"] /\ id = [c \in Conns |-> 0]
  /\ row = [c \in Conns |-> NoRow]
  /\ judged = NoReport /\ final = NoReport

----------------------------------------------------------------------------
(* The client: the process under test and the connections it holds.        *)

Connect(c) ==
  /\ agent = "running" /\ pc[c] = "idle"
  /\ \E k \in Asks[c] : kind' = [kind EXCEPT ![c] = k]
  /\ pc' = [pc EXCEPT ![c] = "backlog"]
  /\ client' = [client EXCEPT ![c] = "waiting"]
  /\ UNCHANGED <<shared, id, row, stageVars>>

\* The client gives up on one request (its own timeout or cancellation).
Leave(c) ==
  /\ agent = "running" /\ client[c] = "waiting"
  /\ client' = [client EXCEPT ![c] = "gone"]
  /\ UNCHANGED <<shared, pc, kind, id, row, stageVars>>

AgentExits ==
  /\ agent = "running" /\ \A c \in Conns : client[c] # "waiting"
  /\ agent' = "exited"
  /\ UNCHANGED <<shared, handler, stage, serving, owner, timedOut, judged, final>>

\* A deadline expired: run_process_group killed the client's process group.
AgentKilled ==
  /\ agent = "running"
  /\ agent' = "killed"
  /\ client' = [c \in Conns |-> IF client[c] = "waiting" THEN "gone" ELSE client[c]]
  /\ UNCHANGED <<shared, pc, kind, id, row, stage, serving, owner, timedOut,
                 judged, final>>

----------------------------------------------------------------------------
(* The handler, _proxy.                                                    *)

Goto(c, l) == pc' = [pc EXCEPT ![c] = l]
Answer(c) == client' = [client EXCEPT ![c] = IF @ = "waiting" THEN "answered" ELSE @]
\* The connection is closed: the client sees its end.
Hangup(c) == client' = [client EXCEPT ![c] = IF @ = "waiting" THEN "ended" ELSE @]

\* _append; it raises OSError at most MaxFaults times.  The file may not have been
\* opened, or the write may have been short; closing the file retries the rest of
\* it, so that any part of the row may be in the log, the whole of it included.
AppendRow(r) == log' = Append(log, r)
AppendRaises(r) ==
  /\ faults < MaxFaults /\ faults' = faults + 1
  /\ \/ UNCHANGED log
     \/ \E w \in Short : AppendRow([r EXCEPT !.written = w])

Accept(c) ==
  /\ serving /\ pc[c] = "backlog" /\ Goto(c, "accepted")
  /\ UNCHANGED <<shared, kind, client, id, row, stageVars>>

\* A path outside the allowlist, a query, a bad Content-Length: not recorded.
RejectPath(c) ==
  /\ pc[c] = "accepted" /\ kind[c] = "reject"
  /\ Goto(c, "done") /\ Answer(c)
  /\ UNCHANGED <<shared, kind, id, row, stageVars>>

\* A path without an api_mode (/v1/models) is proxied and never observed.
PassProbe(c) ==
  /\ pc[c] = "accepted" /\ kind[c] = "probe" /\ Goto(c, "forward")
  /\ UNCHANGED <<shared, kind, client, id, row, stageVars>>

\* The body cannot be normalised, or its sender left before it was complete.
Unreadable(c) == kind[c] = "bad" \/ (kind[c] \in Inference /\ client[c] = "gone")

RefuseBody(c) ==
  /\ pc[c] = "accepted" /\ Unreadable(c)
  /\ \/ /\ AppendRow(Entry("observer_error", 0, NoRow)) /\ UNCHANGED faults
        /\ Goto(c, "done") /\ Answer(c)
     \/ /\ AppendRaises(Entry("observer_error", 0, NoRow))
        /\ Goto(c, "dead") /\ Hangup(c)
  /\ UNCHANGED <<counter, pending, kind, id, row, stageVars>>

\* Variant: the id is taken before the counter is advanced.
CountRequestLate(c) ==
  /\ pc[c] = "accepted" /\ kind[c] \in Inference
  /\ counter' = counter + 1
  /\ id' = [id EXCEPT ![c] = counter]
  /\ pending' = pending \cup {counter}
  /\ Goto(c, "counted")
  /\ UNCHANGED <<log, faults, kind, client, row, stageVars>>

\* record_request, first critical section.
CountRequest(c) ==
  /\ pc[c] = "accepted" /\ kind[c] \in Inference
  /\ counter' = counter + 1
  /\ id' = [id EXCEPT ![c] = counter']
  /\ pending' = pending \cup {counter'}
  /\ Goto(c, "counted")
  /\ UNCHANGED <<log, faults, kind, client, row, stageVars>>

\* record_request, second critical section.  An append that raises is not
\* caught by _proxy: the handler dies and its id stays pending.
LogRequest(c) ==
  /\ pc[c] = "counted"
  /\ \/ /\ AppendRow(Entry("request", id[c], NoRow))
        /\ Goto(c, "forward") /\ UNCHANGED <<faults, client>>
     \/ /\ AppendRaises(Entry("request", id[c], NoRow))
        /\ Goto(c, "dead") /\ Hangup(c)
  /\ UNCHANGED <<counter, pending, kind, id, row, stageVars>>

\* Go on to append a response row r (inference) or to finish (probe).
Conclude(c, r, otherwise) ==
  IF kind[c] \in Inference
  THEN Goto(c, "rec") /\ row' = [row EXCEPT ![c] = r]
  ELSE Goto(c, otherwise) /\ UNCHANGED row

\* The request is sent and getresponse returned.  An error status makes the observer of a streamed
\* request parse a plain JSON body (set_http_status).
Headers(c) ==
  /\ pc[c] = "forward" /\ Goto(c, "body")
  /\ \/ UNCHANGED kind
     \/ kind[c] = "stream" /\ kind' = [kind EXCEPT ![c] = "plain"]
  /\ UNCHANGED <<shared, client, id, row, stageVars>>

\* Writing the response headers to a client that reset the connection raises.
HeadersLost(c) ==
  /\ pc[c] = "forward" /\ client[c] = "gone"
  /\ Conclude(c, [NoRow EXCEPT !.err = TRUE], "done")
  /\ UNCHANGED <<shared, kind, client, id, stageVars>>

\* The upstream sends nothing more, neither data nor the end of the connection.
GoesSilent(c) ==
  /\ \/ pc[c] = "forward" /\ Goto(c, "unanswered")
     \/ pc[c] = "body" /\ Goto(c, "unfinished")
  /\ UNCHANGED <<shared, kind, client, id, row, stageVars>>

\* Variant: the timeout covers the connection and the headers only.
UpstreamFailsEarly(c) ==
  /\ pc[c] \in {"forward", "unanswered"}
  /\ Conclude(c, [NoRow EXCEPT !.err = TRUE, !.then = "502"], "502")
  /\ UNCHANGED <<shared, kind, client, id, stageVars>>

\* The upstream socket refuses, resets or times out: OSError/HTTPException.
\* Before a status is known the client is sent a 502, after it nothing.
UpstreamFails(c) ==
  /\ pc[c] \in {"forward", "body"} \cup Silent
  /\ LET next == IF pc[c] \in {"body", "unfinished"} THEN "end" ELSE "502"
     IN  /\ Conclude(c, [NoRow EXCEPT !.err = TRUE, !.then = next],
                     IF next = "502" THEN "502" ELSE "done")
         /\ IF next = "end" /\ kind[c] \notin Inference THEN Hangup(c)
            ELSE UNCHANGED client
  /\ UNCHANGED <<shared, kind, id, stageVars>>

\* Chunks without the done marker are fed to the observer and written; they
\* change nothing here until a write raises BrokenPipeError: the complete events are recorded.
PartLost(c) ==
  /\ pc[c] = "body" /\ client[c] = "gone" /\ kind[c] \in Inference
  /\ Conclude(c, NoRow, "done")
  /\ UNCHANGED <<shared, kind, client, id, stageVars>>

\* The last chunk of an answer that is not streamed: it is written as it is
\* read, and recorded only when the next read returns b"".
DeliverBody(c) ==
  /\ pc[c] = "body" /\ kind[c] # "stream" /\ client[c] = "waiting" /\ Answer(c)
  /\ UNCHANGED <<shared, pc, kind, id, row, stageVars>>

\* The upstream ended the response (with or without its done marker).
EndOfBody(c) ==
  /\ pc[c] = "body"
  /\ Conclude(c, NoRow, "done")
  /\ IF kind[c] \notin Inference THEN Hangup(c) ELSE UNCHANGED client
  /\ UNCHANGED <<shared, kind, id, stageVars>>

\* Variant: the chunk is written to the client before it is recorded.
DoneMarkerWritten(c) ==
  /\ pc[c] = "body" /\ kind[c] = "stream"
  /\ Conclude(c, NoRow, "done") /\ Answer(c)
  /\ UNCHANGED <<shared, kind, id, stageVars>>

\* Variant: the observer is kept, so the end of the body is recorded too.
DoneMarkerKept(c) ==
  /\ pc[c] = "body" /\ kind[c] = "stream"
  /\ Conclude(c, [NoRow EXCEPT !.then = "body"], "done")
  /\ UNCHANGED <<shared, kind, client, id, stageVars>>

\* The chunk with the done marker: recorded first, written afterwards.
DoneMarker(c) ==
  /\ pc[c] = "body" /\ kind[c] = "stream"
  /\ Conclude(c, [NoRow EXCEPT !.then = "write"], "done")
  /\ UNCHANGED <<shared, kind, client, id, stageVars>>

\* record_response, first critical section.  An append that raises inside the
\* try block is handled like an upstream OSError and recorded again, as a
\* transport error; raised from that handler it ends the thread, the id pending.
AppendResponse(c) ==
  /\ pc[c] = "rec"
  /\ AppendRow(Entry("response", id[c], row[c]))
  /\ Goto(c, "unpend")
  /\ UNCHANGED <<counter, pending, faults, kind, client, id, row, stageVars>>

LoseResponse(c) ==
  /\ pc[c] = "rec" /\ AppendRaises(Entry("response", id[c], row[c]))
  /\ \/ /\ ~row[c].err
        /\ row' = [row EXCEPT ![c].err = TRUE, ![c].then = "end"]
        /\ UNCHANGED <<pc, client>>
     \/ /\ row[c].err
        /\ Goto(c, "dead") /\ Hangup(c) /\ UNCHANGED row
  /\ UNCHANGED <<counter, pending, kind, id, stageVars>>

\* record_response, second critical section.
Unpend(c) ==
  /\ pc[c] = "unpend"
  /\ pending' = pending \ {id[c]}
  /\ row' = [row EXCEPT ![c] = NoRow]
  /\ \/ /\ row[c].then = "end" /\ Goto(c, "done") /\ Hangup(c)
     \/ /\ row[c].then # "end" /\ Goto(c, row[c].then) /\ UNCHANGED client
  /\ UNCHANGED <<counter, log, faults, kind, id, stageVars>>

\* The done chunk, or a 502, is written; a BrokenPipeError ends the handler.
Reply(c) ==
  /\ pc[c] \in {"write", "502"} /\ Goto(c, "done") /\ Answer(c)
  /\ UNCHANGED <<shared, kind, id, row, stageVars>>

----------------------------------------------------------------------------
(* The stage's owner: run_once, run_upstream_component, close.             *)

\* run_once reads the log as soon as its process ended, inside the with block.
JudgeOpen ==
  /\ stage = "hermes" /\ agent # "running" /\ owner = "open" /\ ~judged.read
  /\ judged' = Report(log)
  /\ UNCHANGED <<shared, handler, stage, agent, serving, owner, timedOut, final>>

\* close: shutdown() returns when serve_forever has left its loop.
Shutdown ==
  /\ owner = "open" /\ agent # "running" /\ (stage = "hermes" => judged.read)
  /\ owner' = "draining" /\ serving' = FALSE
  /\ UNCHANGED <<shared, handler, stage, agent, timedOut, judged, final>>

\* Variant: close does not wait for the pending ids.
DrainedAtOnce ==
  /\ owner = "draining"
  /\ owner' = "closed"
  /\ UNCHANGED <<shared, handler, stage, agent, serving, timedOut, judged, final>>

Drained ==
  /\ owner = "draining" /\ pending = {}
  /\ owner' = "closed"
  /\ UNCHANGED <<shared, handler, stage, agent, serving, timedOut, judged, final>>

\* Variant: the wait has no timeout.
DrainNeverExpires == FALSE /\ UNCHANGED vars

\* OBSERVER_DRAIN_SECONDS passed first.
DrainExpires ==
  /\ owner = "draining" /\ pending # {}
  /\ owner' = "closed" /\ timedOut' = TRUE
  /\ UNCHANGED <<shared, handler, stage, agent, serving, judged, final>>

\* The log is read (upstream) or copied beside the results (hermes).
ReadClosed ==
  /\ owner = "closed"
  /\ owner' = "read" /\ final' = Report(log)
  /\ UNCHANGED <<shared, handler, stage, agent, serving, timedOut, judged>>

----------------------------------------------------------------------------
(* The specification.                                                      *)

ClientStep(c) == Connect(c) \/ Leave(c)

\* The critical sections in which a handler records what it has observed.
Recording(c) == LogRequest(c) \/ AppendResponse(c) \/ LoseResponse(c) \/ Unpend(c)

\* Steps that need the client: its connection, its body, its reading of the answer.
Serving(c) ==
  \/ Accept(c) \/ RejectPath(c) \/ PassProbe(c) \/ RefuseBody(c) \/ CountRequest(c)
  \/ Reply(c)

\* Steps that need something from the model, or the client's socket.
Exchange(c) ==
  \/ Headers(c) \/ HeadersLost(c) \/ GoesSilent(c) \/ UpstreamFails(c) \/ PartLost(c)
  \/ DeliverBody(c) \/ EndOfBody(c) \/ DoneMarker(c)

OwnerStep == JudgeOpen \/ Shutdown \/ Drained \/ DrainExpires \/ ReadClosed

Next ==
  \/ \E c \in Conns : ClientStep(c) \/ Serving(c) \/ Recording(c) \/ Exchange(c)
  \/ AgentExits \/ AgentKilled \/ OwnerStep

Spec == Init /\ [][Next]_vars

\* Recording waits for nothing but the lock and the file; every wait of the owner
\* is bounded; and one operation on the upstream's socket ends after
\* upstream_timeout, if nothing at all is received.  The timeout is per operation:
\* a model that keeps sending may keep its handler for ever, and so may a client
\* that does not send its body or does not read its answer.  Nothing is assumed of
\* either.
Fairness ==
  /\ \A c \in Conns :
       WF_vars(Recording(c)) /\ WF_vars(pc[c] \in Silent /\ UpstreamFails(c))
  /\ WF_vars(OwnerStep)

FairSpec == Spec /\ Fairness

----------------------------------------------------------------------------
(* What must hold.                                                         *)

Replies == [err : BOOLEAN, then : {"end", "write", "502"}]
ClientStates == {"none", "waiting", "answered", "ended", "gone"}
Rows == [event : {"request", "response", "observer_error"}, id : Nat, err : BOOLEAN,
         written : Written]
Reports == [read : BOOLEAN, requests : SUBSET Nat, duplicate : SUBSET Nat,
            orphan : SUBSET Nat, missing : SUBSET Nat,
            malformed : BOOLEAN, request_observer_ok : BOOLEAN, observer_ok : BOOLEAN]

\* The variables have the shapes that _proxy, record_request, close and
\* read_model_transport_observations give them.
TypeOK ==
  /\ stage \in {"upstream", "hermes"}
  /\ agent \in {"running", "exited", "killed"}
  /\ serving \in BOOLEAN /\ timedOut \in BOOLEAN
  /\ owner \in {"open", "draining", "closed", "read"}
  /\ counter \in Nat /\ pending \subseteq 1 .. counter
  /\ log \in Seq(Rows)
  /\ faults \in 0 .. MaxFaults
  /\ pc \in [Conns -> Locations]
  /\ kind \in [Conns -> Kinds \cup {"none"}]
  /\ client \in [Conns -> ClientStates]
  /\ id \in [Conns -> 0 .. counter]
  /\ row \in [Conns -> Replies]
  /\ judged \in Reports /\ final \in Reports

Logged(c)   == id[c] \in Ids(log, "request")
Answered(c) == id[c] \in Ids(log, "response")

\* However the handler threads interleave, no request id has two rows; and a log
\* without a failed append has no malformed row and no id with two responses.  A
\* response without its request is found only beside a malformed row.  So the
\* complaints of read_model_transport_observations tell of a tampered log or of a
\* failed append, never of a race.
LogWellFormed ==
  /\ Duplicated(log, "request") = {}
  /\ Torn(log) \/ Duplicated(log, "response") # {} => faults > 0
  /\ Ids(log, "response") \subseteq Ids(log, "request") \/ Torn(log)

\* The model never receives an inference request that is in doubt: record_request
\* returns before connection.request is called, so the log holds the request, or
\* has a malformed row for which the reader rejects all of it.
Forwarded(c) ==
  pc[c] \in {"forward", "body", "rec", "unpend", "write", "502"} \cup Silent
NothingForwardedUnlogged ==
  \A c \in Conns : kind[c] \in Inference /\ Forwarded(c) => Logged(c) \/ Torn(log)

\* close() waits for the right thing: a request row without its response row
\* always belongs to a pending id, so with an empty _pending_request_ids the log is
\* complete at that moment (or known to be damaged).
DrainSound ==
  Ids(log, "request") \ Ids(log, "response") \subseteq pending \/ Torn(log)

\* When the client left in good order (it exited, with no request abandoned) and
\* close() did not time out, the log read after it misses no response, unless the
\* reader also finds the malformed row of a failed append.
Orderly == agent = "exited" /\ \A c \in Conns : client[c] # "gone"
CleanClose ==
  final.read /\ ~timedOut /\ Orderly => final.missing = {} \/ final.malformed

\* ... and no handler thread writes to it any more, though server_close() does
\* not wait for them (block_on_close is False).
QuietAfterClose == [][final.read /\ ~timedOut /\ Orderly => log' = log]_vars

\* A streamed answer is in the log before its done chunk reaches the client, or
\* the log is one that the reader rejects.
StreamRecordedFirst ==
  \A c \in Conns :
    kind[c] = "stream" /\ id[c] # 0 /\ client[c] = "answered"
      => Answered(c) \/ Torn(log)

\* run_once judges the transport while the gateway is still open.  If the client
\* exited with every answer it waited for, and none came outside a stream, that
\* early reading is the final one.
JudgedIsFinal ==
  /\ judged.read /\ final.read /\ Orderly
  /\ \A c \in Conns : kind[c] # "plain"
  => judged = final

\* close() is bounded: a stage whose client is gone ends, even when a failed
\* append left an id pending for ever.
ClosingTerminates == (agent # "running") ~> final.read

\* No thread waits for ever on a silent model, and no id stays pending because of
\* one: its request is recorded as failed, unless that append fails and ends the
\* handler.
RequestsResolve ==
  \A c \in Conns :
    (id[c] # 0 /\ pc[c] \in Silent) ~> (id[c] \notin pending \/ pc[c] = "dead")
=============================================================================
