-------------------------- MODULE ResponseObserver --------------------------
(***************************************************************************)
(* _ResponseObserver of harness/model_gateway.py: what the gateway notes   *)
(* about an answer while it relays the bytes, cut wherever the network     *)
(* cuts them.  An answer is a sequence of symbols, each the size of what   *)
(* the code tells apart: "u1" and "u2" are the two bytes of one character  *)
(* (a symbol may be cut between them), "<th" and "ink>" the two halves of  *)
(* a reasoning tag, the other members of an object what one field of it    *)
(* says.  Whether a chunk ends inside a longer symbol makes no difference  *)
(* to the code, which joins the text before it looks at a line.            *)
(***************************************************************************)
EXTENDS Naturals, Sequences, FiniteSets, SequencesExt

CONSTANTS
  MaxBody,    \* MAX_JSON_RESPONSE_BYTES, in symbols
  TailSize    \* how much visible content _visible_tail keeps (64), in symbols

ASSUME ObserverAssumption == MaxBody \in Nat /\ TailSize \in Nat \ {0}

Visible == {"say", "u1", "u2", "<th", "ink>"}
Members == Visible \cup {"think", "call", "stop", "end"}
Symbols == Members \cup {"{", "}", "list", "data:", "[DONE]", ":", "noise", "cr", "nl"}

\* What set_http_status leaves of "streaming": an error's body is no stream.
NewObserver(mode, streaming, status) ==
  [mode |-> mode, streaming |-> streaming /\ status = "ok",
   http_error |-> streaming /\ status # "ok",
   flags |-> {}, tail |-> <<>>, done |-> FALSE, errors |-> {},
   pending |-> <<>>, buffer |-> <<>>, sse |-> <<>>, body |-> <<>>]

Fault(o, error) == [o EXCEPT !.errors = @ \cup {error}]

----------------------------------------------------------------------------
(* One JSON text: _parse_json_text, _merge, _response_presence.            *)

IsObject(text) ==
  /\ Len(text) >= 2 /\ text[1] = "{" /\ text[Len(text)] = "}"
  /\ \A i \in 2..(Len(text) - 1) : text[i] \in Members

Holds(s, m) == \E i \in DOMAIN s : s[i] = m
Adjacent(s, a, b) == \E i \in 1..(Len(s) - 1) : s[i] = a /\ s[i + 1] = b
LastOf(s, n) == IF Len(s) <= n THEN s ELSE SubSeq(s, Len(s) - n + 1, Len(s))
Content(s) == FlattenSeq([i \in DOMAIN s |-> IF s[i] \in Visible THEN <<s[i]>> ELSE <<>>])

\* Variant: a tag is looked for within one event only.
MergeWithoutTail(o, members) ==
  LET content == Content(members)
      flags   == (IF content # <<>> THEN {"content"} ELSE {})
                   \cup (IF Holds(members, "think") THEN {"reasoning"} ELSE {})
                   \cup (IF Holds(members, "call") THEN {"tools"} ELSE {})
                   \cup (IF Holds(members, "stop") \/ Holds(members, "end") THEN {"finish"} ELSE {})
                   \cup (IF Adjacent(content, "<th", "ink>") THEN {"tag"} ELSE {})
  IN [o EXCEPT !.flags = @ \cup flags, !.done = @ \/ Holds(members, "end")]

Merge(o, members) ==
  LET content == Content(members)
      tail    == LastOf(o.tail \o content, TailSize)
      flags   == (IF content # <<>> THEN {"content"} ELSE {})
                   \cup (IF Holds(members, "think") THEN {"reasoning"} ELSE {})
                   \cup (IF Holds(members, "call") THEN {"tools"} ELSE {})
                   \cup (IF Holds(members, "stop") \/ Holds(members, "end") THEN {"finish"} ELSE {})
                   \cup (IF Adjacent(content, "<th", "ink>") \/ Adjacent(tail, "<th", "ink>")
                         THEN {"tag"} ELSE {})
  IN [o EXCEPT !.flags = @ \cup flags, !.tail = tail, !.done = @ \/ Holds(members, "end")]

ParseText(o, text) ==
  IF text = <<>> THEN o
  ELSE IF IsObject(text) THEN Merge(o, SubSeq(text, 2, Len(text) - 1))
  ELSE Fault(o, IF text = <<"list">> THEN "not an object" ELSE "malformed JSON event")

----------------------------------------------------------------------------
(* Lines and server-sent events.                                           *)

FinishEvent(o) ==
  LET text  == FlattenSeq(o.sse)
      clear == [o EXCEPT !.sse = <<>>]
  IN IF o.sse = <<>> THEN o
     ELSE IF text = <<"[DONE]">> THEN [clear EXCEPT !.done = TRUE]
     ELSE ParseText(clear, text)

WithoutCr(line) ==
  IF line # <<>> /\ line[Len(line)] = "cr" THEN SubSeq(line, 1, Len(line) - 1) ELSE line

Line(o, raw) ==
  LET line == WithoutCr(raw)
  IN IF o.mode # "openai" THEN ParseText(o, line)
     ELSE IF line = <<>> THEN FinishEvent(o)
     ELSE IF line[1] = "data:" THEN [o EXCEPT !.sse = Append(@, Tail(line))]
     ELSE IF line[1] = ":" THEN o
     ELSE Fault(o, "malformed SSE line")

Symbol(o, c) ==
  IF c = "nl" THEN Line([o EXCEPT !.buffer = <<>>], o.buffer)
  ELSE [o EXCEPT !.buffer = Append(@, c)]

----------------------------------------------------------------------------
(* feed and finish.                                                        *)

\* Every first byte that something follows is followed by a second one, and no
\* second byte comes without a first.
ValidUtf8(s) ==
  \A i \in DOMAIN s :
    /\ s[i] = "u1" /\ i < Len(s) => s[i + 1] = "u2"
    /\ s[i] = "u2" => i > 1 /\ s[i - 1] = "u1"

\* The incremental decoder holds back an unfinished character.
Unfinished(s) == IF s # <<>> /\ s[Len(s)] = "u1" THEN <<"u1">> ELSE <<>>
Finished(s)   == SubSeq(s, 1, Len(s) - Len(Unfinished(s)))

\* A chunk with a byte that cannot be decoded is dropped; so is a plain answer's chunk
\* that would pass the limit, and a line that has not ended by then.
Feed(o, chunk) ==
  LET bytes == o.pending \o chunk
      fed   == FoldLeft(Symbol, [o EXCEPT !.pending = Unfinished(bytes)], Finished(bytes))
  IN IF ~o.streaming
     THEN IF Len(o.body) + Len(chunk) > MaxBody
          THEN Fault(o, "answer over the limit") ELSE [o EXCEPT !.body = @ \o chunk]
     ELSE IF ~ValidUtf8(bytes) THEN Fault(o, "invalid UTF-8")
     ELSE IF Len(fed.buffer) > MaxBody
          THEN [Fault(fed, "line over the limit") EXCEPT !.buffer = <<>>] ELSE fed

\* _result
Observation(o, left) ==
  [flags |-> o.flags, done |-> o.done, http_error |-> o.http_error,
   left |-> left, errors |-> o.errors]

\* Variant: the fragment in the buffer is read as if the answer had ended.
SnapshotFinishes(o) ==
  Observation(IF o.buffer # <<>> THEN Line(o, o.buffer) ELSE o, TRUE)

\* snapshot_downstream_disconnect: nothing is made of an event in flight.
Snapshot(o) == Observation(o, TRUE)

Finish(o) ==
  LET decoded == IF o.pending # <<>> THEN Fault(o, "ended inside a character") ELSE o
      drained == IF decoded.buffer # <<>>
                 THEN Line([decoded EXCEPT !.buffer = <<>>], decoded.buffer) ELSE decoded
      plain   == IF o.body = <<>> THEN o
                 ELSE IF ValidUtf8(o.body) /\ Unfinished(o.body) = <<>>
                      THEN ParseText(o, o.body) ELSE Fault(o, "malformed JSON body")
  IN Observation(IF ~o.streaming THEN plain
                 ELSE IF o.mode = "openai" THEN FinishEvent(drained) ELSE drained, FALSE)
=============================================================================
