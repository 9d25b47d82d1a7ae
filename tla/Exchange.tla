------------------------------ MODULE Exchange ------------------------------
(***************************************************************************)
(* What one gateway makes of the requests of its stage, one after another: *)
(* each is rewritten for the deployment's reasoning policy and logged, its *)
(* answer is observed while it is relayed chunk by chunk and logged too,   *)
(* and the log is judged when the stage is over.  ModelGateway has the     *)
(* threads, the failing log and the races of closing; here a handler runs  *)
(* alone, and what it writes is looked at in full.                         *)
(***************************************************************************)
EXTENDS ReasoningPolicy, ResponseObserver

CONSTANTS
  Configurations,  \* what qualifications may be asked to run, and for which models
  Payloads,        \* the bodies clients send
  Paths,           \* the API modes clients use
  Answers,         \* Answers[n]: what the model may answer to request n
  MaxRequests,     \* bound: requests of the stage that are forwarded
  MaxRejected      \* bound: requests of the stage that are not

ASSUME ExchangeAssumption ==
  Payloads \subseteq Requested /\ MaxRequests \in Nat /\ MaxRejected \in Nat

Events == [kind : {"object", "comment", "done", "list", "noise"}, members : Seq(Members),
           folded : BOOLEAN]
AnswerSet == [status : {"ok", "error"}, crlf : BOOLEAN, cut : BOOLEAN, events : Seq(Events)]

ASSUME AnswerAssumption ==
  \A n \in 1..MaxRequests : \A a \in Answers[n] : a \in AnswerSet /\ a.events # <<>>

VARIABLES
  config,      \* the configuration that runs
  log,         \* the rows of the observations file
  phase,       \* "idle", "asked", "reading", "answered", "judged"
  mode,        \* the API mode of the current request
  sent,        \* the body that was forwarded
  answer,      \* the answer to it
  rest,        \* the part of it still to come
  observer,    \* the observer of the answer
  seen,        \* what the response row says
  ended,       \* how the answer ended
  trusted      \* what the judge of the log made of it

request == <<mode, sent>>
response == <<answer, rest, observer, seen, ended>>
exchangeVars == <<config, log, phase, request, response, trusted>>

NoBody == [object |-> TRUE, controls |-> {}, other |-> {}, opaque |-> {}, stream |-> FALSE]
NoAnswer == [status |-> "none", crlf |-> FALSE, cut |-> FALSE, events |-> <<>>]
NoObserver == NewObserver("none", FALSE, "none")

\* The gateway that qualification starts for a stage.  SparkBench's own profile may
\* run without reasoning whatever the deployment's policy is.
Deployment(c) ==
  [runtime |-> c.runtime, profile |-> c.profile,
   policy  |-> IF c.spark THEN "off" ELSE Resolve(c.requested, c.model),
   honor   |-> Selection(c.requested) = "configured"]
deployment == Deployment(config)

ExchangeInit ==
  /\ config \in Configurations
  /\ Resolve(config.requested, config.model) # Refused /\ Deployable(deployment)
  /\ log = <<>> /\ phase = "idle" /\ trusted = FALSE
  /\ mode = "none" /\ sent = NoBody
  /\ answer = NoAnswer /\ rest = <<>> /\ observer = NoObserver
  /\ seen = Observation(NoObserver, FALSE) /\ ended = "no"

----------------------------------------------------------------------------
(* The log and its reader.                                                 *)

RequestRow(n, row) == [event |-> "request", id |-> n, row |-> row]
ResponseRow(n, status, o, broken) ==
  [event |-> "response", id |-> n, status |-> status,
   faulty |-> o.errors # {}, broken |-> broken]

Requests == {i \in DOMAIN log : log[i].event = "request"}
Responses == {i \in DOMAIN log : log[i].event = "response"}
Rows == {log[i].row : i \in Requests}
LastId == Cardinality(Requests)

\* observer_ok, and _transport_observer_matches_deployment
Trusted ==
  /\ Requests # {} /\ Responses # {}
  /\ \A i \in DOMAIN log : log[i].event # "observer_error"
  /\ \A r \in Rows : RowValid(r) /\ r.deployment = deployment.policy
  /\ PolicyConsistent(Rows)
  /\ \A i \in Responses : log[i].status # "none" /\ ~log[i].faulty /\ ~log[i].broken
  /\ {log[i].id : i \in Requests} = {log[i].id : i \in Responses}

----------------------------------------------------------------------------
(* The model server (external): what an answer looks like on the wire.     *)

Eol(a) == IF a.crlf THEN <<"cr", "nl">> ELSE <<"nl">>
Text(e) ==
  IF e.kind = "object" THEN <<"{">> \o e.members \o <<"}">>
  ELSE IF e.kind = "done" THEN <<"[DONE]">> ELSE <<e.kind>>

WireEvent(m, a, e) ==
  IF e.kind = "comment" THEN (IF m = "openai" THEN <<":">> ELSE <<>>) \o Eol(a)
  ELSE IF e.kind = "noise" \/ m # "openai" THEN Text(e) \o Eol(a)
  ELSE IF e.kind = "object" /\ e.folded
       THEN <<"data:", "{">> \o Eol(a) \o <<"data:">> \o Tail(Text(e)) \o Eol(a) \o Eol(a)
  ELSE <<"data:">> \o Text(e) \o Eol(a) \o Eol(a)

\* A stream whose last line has no end, a "cut" one.
Unended(s) == SubSeq(s, 1, Max({0} \cup {n \in DOMAIN s : s[n] \notin {"cr", "nl"}}))

IsStream(s, a) == s /\ a.status = "ok"
Wire(m, s, a) ==
  LET stream == FlattenSeq([i \in DOMAIN a.events |-> WireEvent(m, a, a.events[i])])
  IN IF ~IsStream(s, a) THEN Text(a.events[1])
     ELSE IF a.cut THEN Unended(stream) ELSE stream

----------------------------------------------------------------------------
(* The handler.                                                            *)

Between == phase \in {"idle", "answered"}

Ask(m, payload) ==
  /\ Between /\ LastId < MaxRequests
  /\ Normalizable(deployment, m, payload)
  /\ log' = Append(log, RequestRow(LastId + 1, Row(deployment, m, payload)))
  /\ sent' = Body(deployment, m, payload) /\ mode' = m /\ phase' = "asked"
  /\ answer' = NoAnswer /\ rest' = <<>> /\ observer' = NoObserver
  /\ seen' = Observation(NoObserver, FALSE) /\ ended' = "no"
  /\ UNCHANGED <<config, trusted>>

\* Only Ollama has a chat API of its own; elsewhere its path is unknown to the gateway,
\* which answers 404 and logs nothing.
HasPath(m) == m = "native-chat" => deployment.runtime = "ollama"

\* No JSON object, or controls that cannot be served: the client gets status 400.  A body
\* that is no JSON, or cannot be encoded again, has the same row and the same answer.
Reject(m, payload) ==
  /\ HasPath(m)
  /\ Between /\ Cardinality({i \in DOMAIN log : log[i].event = "observer_error"}) < MaxRejected
  /\ ~Normalizable(deployment, m, payload)
  /\ log' = Append(log, [event |-> "observer_error"])
  /\ UNCHANGED <<config, phase, request, response, trusted>>

\* The model cannot be reached: an answer of the gateway's own, 502.
Unreachable ==
  /\ phase = "asked" /\ phase' = "answered" /\ ended' = "broken"
  /\ log' = Append(log, ResponseRow(LastId, "none", NoObserver, TRUE))
  /\ UNCHANGED <<config, request, answer, rest, observer, seen, trusted>>

Begin ==
  /\ phase = "asked" /\ phase' = "reading"
  /\ \E a \in Answers[LastId] :
       /\ answer' = a /\ rest' = Wire(mode, sent.stream, a)
       /\ observer' = NewObserver(mode, sent.stream, a.status)
  /\ UNCHANGED <<config, log, request, seen, ended, trusted>>

\* record_response
Record(o, how) ==
  /\ log' = Append(log, ResponseRow(LastId, answer.status, o, how = "broken"))
  /\ seen' = o /\ ended' = how /\ phase' = "answered"

\* A chunk arrives and is observed before it is passed on: a done marker closes the
\* record, whatever the client does; else a client that is gone ends it.
Chunk(n) ==
  LET fed == Feed(observer, SubSeq(rest, 1, n))
  IN /\ phase = "reading" /\ n \in 1..Len(rest)
     /\ rest' = SubSeq(rest, n + 1, Len(rest)) /\ observer' = fed
     /\ IF fed.done THEN Record(Finish(fed), "done")
        ELSE \/ UNCHANGED <<log, seen, ended, phase>>
             \/ Record(Snapshot(fed), "left")
     /\ UNCHANGED <<config, request, answer, trusted>>

\* The connection to the model ends: after the whole answer, before it, or with an error.
\* A client that left before the headers were written to it is such an error as well; to
\* the code it has left only when the write of a chunk fails.
End ==
  /\ phase = "reading"
  /\ \/ rest = <<>> /\ Record(Finish(observer), "whole")
     \/ rest # <<>> /\ Record(Finish(observer), "short")
     \/ Record(Finish(observer), "broken")
  /\ UNCHANGED <<config, request, answer, rest, observer, trusted>>

\* The gateway is closed and its log judged.  The verdict is what is left of the stage;
\* the rest is read by nobody and dropped here.
Judge ==
  /\ Between /\ phase' = "judged" /\ trusted' = Trusted
  /\ log' = <<>> /\ mode' = "none" /\ sent' = NoBody
  /\ answer' = NoAnswer /\ rest' = <<>> /\ observer' = NoObserver
  /\ seen' = Observation(NoObserver, FALSE) /\ ended' = "no"
  /\ UNCHANGED config

ExchangeNext ==
  \/ \E m \in Paths : \E p \in Payloads : Ask(m, p)
  \/ \E m \in Paths : \E p \in Payloads : Reject(m, p)
  \/ Unreachable
  \/ Begin
  \/ \E n \in 1..Len(rest) : Chunk(n)
  \/ End
  \/ Judge

----------------------------------------------------------------------------
(* What an answer means, read off its events and not off its bytes.        *)

Said(a) == FlattenSeq([i \in DOMAIN a.events |->
             IF a.events[i].kind = "object" THEN a.events[i].members ELSE <<>>])
Meant(a) ==
  (IF \E m \in Visible : Holds(Said(a), m) THEN {"content"} ELSE {})
    \cup (IF Holds(Said(a), "think") THEN {"reasoning"} ELSE {})
    \cup (IF Holds(Said(a), "call") THEN {"tools"} ELSE {})
    \cup (IF Holds(Said(a), "stop") \/ Holds(Said(a), "end") THEN {"finish"} ELSE {})
    \cup (IF Adjacent(Content(Said(a)), "<th", "ink>") THEN {"tag"} ELSE {})

WellFormed(m, a) ==
  /\ \A i \in DOMAIN a.events : a.events[i].kind \in {"object", "comment"} \cup (IF m = "openai" THEN {"done"} ELSE {})
  /\ \A i \in DOMAIN a.events : a.events[i].kind = "object" =>
       ValidUtf8(a.events[i].members \o <<"}">>)

\* What the observer is not built for: an event with as much text as it remembers, a
\* line over its limit (the line end counts), and events after the one that ends the answer.
EndsIt(e) == e.kind = "done" \/ (e.kind = "object" /\ Holds(e.members, "end"))
Fits(a) ==
  \A i \in DOMAIN a.events :
    /\ a.events[i].kind = "object" => Len(a.events[i].members) < TailSize
    /\ Len(Text(a.events[i])) + Len(Eol(a)) <= MaxBody
    /\ EndsIt(a.events[i]) => i = Len(a.events)

----------------------------------------------------------------------------
(* Properties.                                                             *)

\* Every request row the gateway writes is one its reader accepts, and so are all of
\* them together, whatever runtime, policy and selection the gateway runs under and
\* whatever mix of controls its clients send.  The rows are written by
\* normalize_model_request and judged by code that recomputes them from the policy
\* alone; a disagreement would turn an honest run into an infrastructure failure.
RowsAccepted == (\A r \in Rows : RowValid(r)) /\ PolicyConsistent(Rows)

\* What was forwarded carries exactly the control its row reports, in no container any
\* other, and a policy "off" that was asked for on the command line cannot be lifted by
\* a request: every request then goes out with reasoning switched off.
OffIsAuthoritative ==
  LastId > 0 =>
    LET row == (CHOOSE i \in Requests : log[i].id = LastId)
    IN /\ sent.controls = log[row].row.control
       /\ deployment.policy = "off" /\ ~deployment.honor =>
            sent.controls = ControlOf(deployment.runtime, mode, "off") /\ sent.controls # {}

\* What the observer reports of a whole answer is what its events say, wherever the
\* network cut it (inside a character, a line or an event): an answer is held faulty
\* iff it is, and nothing of one that is not is missed or invented.
CutsDontMatter ==
  ended \in {"whole", "done"} /\ IsStream(sent.stream, answer) /\ Fits(answer) =>
    /\ (seen.errors = {}) = WellFormed(mode, answer)
    /\ seen.errors = {} => seen.flags = Meant(answer)

\* A client that leaves in the middle of an answer makes no fault of it: what had come
\* by then is reported, the event in flight is not held against the model.
DisconnectIsNoFault ==
  ended = "left" /\ Fits(answer) /\ WellFormed(mode, answer) =>
    /\ seen.errors = {} /\ seen.flags \subseteq Meant(answer)
=============================================================================
