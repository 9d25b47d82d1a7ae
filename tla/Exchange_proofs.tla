--------------------------- MODULE Exchange_proofs ---------------------------
(***************************************************************************)
(* Facts about Exchange, for any deployments, payloads and answers and any *)
(* number of requests.  The log: the rows a gateway writes are rows its    *)
(* reader accepts, and what it forwards is what they say (EInv).  The      *)
(* observer: however an answer is cut, its report is what the events of    *)
(* the answer say (AnswerInv).  The second argument is the longer one:     *)
(*   - Feed is a fold of Symbol over the bytes, so that it does not matter *)
(*     where the chunks end, but for the character in flight (After);      *)
(*   - the bytes of one event take an observer that is between two events  *)
(*     to what Reads says of the event (EventIsRead), and so the bytes of  *)
(*     all of them to what their members together say (StreamIsRead);      *)
(*   - an unfinished last line is finished by the end of the answer, as if *)
(*     its line end had come (CutIsValid, FinishedStream);                 *)
(*   - Reading relates an observer in the middle of an answer to what has  *)
(*     come of it and what is to come, and every chunk keeps it.           *)
(* The theorems are in Publication_proofs, whose specification runs this.  *)
(***************************************************************************)
EXTENDS Exchange, FiniteSetTheorems, SequenceTheorems, WellFoundedInduction, TLAPS

----------------------------------------------------------------------------
(* The policy, request by request.                                         *)

\* A deployment that a gateway starts with, and a request it can serve.
Served(d, m, p) == Deployable(d) /\ m \in Modes /\ p \in Requested /\ Normalizable(d, m, p)

\* The row of every request that is served is accepted by itself.
LEMMA RowIsValid ==
  ASSUME NEW d, NEW m, NEW p, Served(d, m, p)
  PROVE  RowValid(Row(d, m, p))
<1> DEFINE e == Effective(d, p)
           r == Row(d, m, p)
<1>1. /\ r.runtime = d.runtime /\ r.mode = m /\ r.profile = d.profile /\ r.deployment = d.policy
      /\ r.honor = d.honor /\ r.requested = e.policy /\ r.source = e.source /\ r.signals = e.signals
      /\ r.control = ControlOf(d.runtime, m, e.policy)
  BY DEF Row
<1>2. Controllable(d.runtime, m, e.policy, d.profile) /\ e.policy # Refused
  BY DEF Served, Normalizable
<1>3. ASSUME d.runtime = "vllm" PROVE SourceValid(r)
  <2>1. d.policy \in {"off", "native"} /\ e.policy \in {"off", "native"}
    BY <1>2, <1>3 DEF Served, Deployable, Controllable
  <2>2. CASE ~Listens(d) \/ Signals(p) = {}
    <3>1. e.policy = d.policy /\ e.source = "deployment-policy"
      BY <2>2 DEF Effective
    <3> QED
      BY <3>1, <2>1, <1>1 DEF SourceValid
  <2>3. CASE Listens(d) /\ Signals(p) # {}
    <3>1. e.source = "request-control" /\ e.signals = {<<s.at, s.name>> : s \in Signals(p)}
      BY <2>3 DEF Effective
    <3>2. e.signals # {}
      BY <3>1, <2>3
    <3> QED
      BY <3>1, <3>2, <2>1, <2>3, <1>1 DEF SourceValid, Listens
  <2> QED
    BY <2>2, <2>3
<1> QED
  BY <1>1, <1>2, <1>3 DEF RowValid

\* The rows of one deployment are accepted together.
LEMMA RowsAreConsistent ==
  ASSUME NEW d, NEW R, Deployable(d),
         \A r \in R : \E m, p : Served(d, m, p) /\ r = Row(d, m, p)
  PROVE  PolicyConsistent(R)
<1>1. \A r \in R : r.deployment = d.policy
  BY DEF Row
<1>2. CASE Listens(d)
  <2> SUFFICES ASSUME NEW r \in R
               PROVE  /\ r.runtime = "vllm" /\ r.profile = "qwen"
                      /\ r.deployment \in {"off", "native"}
                      /\ r.deployment = "native" \/ r.honor
                      /\ r.requested \in {"off", "native"}
                      /\ r.source \in {"deployment-policy", "request-control"}
    BY <1>1 DEF PolicyConsistent, MixAllowed
  <2>1. PICK m, p : Served(d, m, p) /\ r = Row(d, m, p)
    OBVIOUS
  <2>2. /\ r.runtime = d.runtime /\ r.profile = d.profile /\ r.deployment = d.policy
        /\ r.honor = d.honor /\ r.requested = Effective(d, p).policy
        /\ r.source = Effective(d, p).source
    BY <2>1 DEF Row
  <2>3. Effective(d, p).policy \in {"off", "native"}
    BY <2>1, <1>2 DEF Served, Normalizable, Controllable, Listens
  <2>4. Effective(d, p).source \in {"deployment-policy", "request-control"}
    BY DEF Effective
  <2> QED
    BY <2>2, <2>3, <2>4, <1>2 DEF Listens
<1>3. CASE ~Listens(d)
  <2>1. \A r \in R : r.requested = d.policy
    <3> SUFFICES ASSUME NEW r \in R PROVE r.requested = d.policy
      OBVIOUS
    <3>1. PICK m, p : Served(d, m, p) /\ r = Row(d, m, p)
      OBVIOUS
    <3>2. Effective(d, p).policy = d.policy
      BY <1>3 DEF Effective
    <3> QED
      BY <3>1, <3>2 DEF Row
  <2> QED
    BY <2>1, <1>1 DEF PolicyConsistent
<1> QED
  BY <1>2, <1>3

\* What is forwarded carries the control that the row reports, and no other.
LEMMA BodyHasControl ==
  ASSUME NEW d, NEW m, NEW p, Served(d, m, p)
  PROVE  /\ Body(d, m, p).controls = Row(d, m, p).control
         /\ d.policy = "off" /\ ~d.honor =>
              /\ Body(d, m, p).controls = ControlOf(d.runtime, m, "off")
              /\ Body(d, m, p).controls # {}
<1>1. Body(d, m, p).controls = ControlOf(d.runtime, m, Effective(d, p).policy)
  BY DEF Body, Served, Requested
<1>2. ASSUME d.policy = "off", ~d.honor PROVE Effective(d, p).policy = "off"
  BY <1>2 DEF Effective, Listens
<1>3. ControlOf(d.runtime, m, "off") # {}
  BY DEF ControlOf
<1> QED
  BY <1>1, <1>2, <1>3 DEF Row

----------------------------------------------------------------------------
(* The log, row by row.                                                    *)

LogInv == \E S : log \in Seq(S)

\* Every request row (R is where they are in the log l) is one that was written for the
\* deployment d, with a number up to n.
RowsOk(d, R, l, n) ==
  \A i \in R : /\ \E m, p : Served(d, m, p) /\ l[i].row = Row(d, m, p)
               /\ l[i].id \in 1..n

\* The row numbered n is unique, and tells what was forwarded in mode m.
LastOk(d, R, l, n, m, body) ==
  n > 0 => \E i \in R, p \in Requested :
             /\ l[i].id = n /\ \A j \in R : l[j].id = n => j = i
             /\ Served(d, m, p) /\ l[i].row = Row(d, m, p) /\ body = Body(d, m, p)

RowsInv == RowsOk(deployment, Requests, log, LastId)
LastInv == LastOk(deployment, Requests, log, LastId, mode, sent)

EInv == Deployable(deployment) /\ LogInv /\ RowsInv /\ LastInv

\* Both look only at the rows of R.
LEMMA SameRows ==
  ASSUME NEW d, NEW R, NEW l, NEW k, NEW n, NEW m, NEW body, \A i \in R : k[i] = l[i],
         RowsOk(d, R, l, n), LastOk(d, R, l, n, m, body)
  PROVE  RowsOk(d, R, k, n) /\ LastOk(d, R, k, n, m, body)
<1>1. RowsOk(d, R, k, n)
  BY DEF RowsOk
<1>2. LastOk(d, R, k, n, m, body)
  BY DEF LastOk
<1> QED
  BY <1>1, <1>2

\* A row for a request that is served, numbered one higher.
LEMMA MoreRows ==
  ASSUME NEW d, NEW R, NEW l, NEW k, NEW n \in Nat, NEW m, NEW p, NEW at,
         \A i \in R : k[i] = l[i] /\ i # at, RowsOk(d, R, l, n),
         Served(d, m, p), k[at].id = n + 1, k[at].row = Row(d, m, p)
  PROVE  /\ RowsOk(d, R \cup {at}, k, n + 1)
         /\ LastOk(d, R \cup {at}, k, n + 1, m, Body(d, m, p))
<1>1. \A i \in R : k[i].id \in 1..n
  BY DEF RowsOk
<1>2. RowsOk(d, R \cup {at}, k, n + 1)
  <2> SUFFICES ASSUME NEW i \in R \cup {at}
               PROVE  /\ \E b, q : Served(d, b, q) /\ k[i].row = Row(d, b, q)
                      /\ k[i].id \in 1..(n + 1)
    BY DEF RowsOk
  <2>1. CASE i = at
    BY <2>1
  <2>2. CASE i \in R
    <3>1. k[i].id \in 1..(n + 1)
      BY <1>1, <2>2
    <3>2. \E b, q : Served(d, b, q) /\ k[i].row = Row(d, b, q)
      BY <2>2 DEF RowsOk
    <3> QED
      BY <3>1, <3>2
  <2> QED
    BY <2>1, <2>2
<1>3. \A i \in R \cup {at} : k[i].id = n + 1 => i = at
  BY <1>1
<1>4. LastOk(d, R \cup {at}, k, n + 1, m, Body(d, m, p))
  <2>1. p \in Requested
    BY DEF Served
  <2> QED
    BY ONLY <1>3, <2>1, Served(d, m, p), k[at].id = n + 1, k[at].row = Row(d, m, p) DEF LastOk
<1> QED
  BY <1>2, <1>4

\* There are finitely many request rows, and so a last number.
LEMMA RequestsAreCounted ==
  ASSUME LogInv
  PROVE  /\ IsFiniteSet(Requests) /\ LastId \in Nat
         /\ LastId = 0 <=> Requests = {}
<1>1. PICK S : log \in Seq(S)
  BY DEF LogInv
<1>2. DOMAIN log = 1..Len(log) /\ Len(log) \in Nat
  BY <1>1
<1>3. IsFiniteSet(1..Len(log))
  BY <1>2, FS_Interval
<1>4. Requests \in SUBSET (1..Len(log))
  BY <1>2 DEF Requests
<1>5. IsFiniteSet(Requests)
  BY <1>3, <1>4, FS_Subset
<1> QED
  BY <1>5, FS_CardinalityType, FS_EmptySet DEF LastId

\* What appending a row does to the log.
LEMMA Appended ==
  ASSUME LogInv, NEW row, log' = Append(log, row)
  PROVE  /\ LogInv'
         /\ Len(log) \in Nat /\ DOMAIN log = 1..Len(log) /\ DOMAIN log' = 1..(Len(log) + 1)
         /\ \A i \in DOMAIN log : log'[i] = log[i]
         /\ log'[Len(log) + 1] = row
<1>1. PICK S : log \in Seq(S)
  BY DEF LogInv
<1>2. log \in Seq(S \cup {row}) /\ row \in S \cup {row}
  BY <1>1
<1>3. log' \in Seq(S \cup {row})
  BY <1>2
<1> QED
  BY <1>2, <1>3 DEF LogInv

\* A row that is no request row leaves the requests alone.
LEMMA OtherAppended ==
  ASSUME LogInv, NEW row, log' = Append(log, row), row.event # "request"
  PROVE  LogInv' /\ Requests' = Requests /\ \A i \in Requests : log'[i] = log[i]
<1>1. /\ LogInv' /\ Len(log) \in Nat /\ DOMAIN log = 1..Len(log)
      /\ DOMAIN log' = 1..(Len(log) + 1)
      /\ \A i \in DOMAIN log : log'[i] = log[i]
      /\ log'[Len(log) + 1] = row
  BY Appended
<1> QED
  BY <1>1 DEF Requests

\* A request row is one more.
LEMMA RequestAppended ==
  ASSUME LogInv, NEW row, log' = Append(log, row), row.event = "request"
  PROVE  /\ LogInv' /\ Requests' = Requests \cup {Len(log) + 1}
         /\ \A i \in Requests : log'[i] = log[i] /\ i # Len(log) + 1
         /\ log'[Len(log) + 1] = row /\ LastId' = LastId + 1
<1>1. /\ LogInv' /\ Len(log) \in Nat /\ DOMAIN log = 1..Len(log)
      /\ DOMAIN log' = 1..(Len(log) + 1)
      /\ \A i \in DOMAIN log : log'[i] = log[i]
      /\ log'[Len(log) + 1] = row
  BY Appended
<1>2. /\ Requests' = Requests \cup {Len(log) + 1} /\ Len(log) + 1 \notin Requests
      /\ \A i \in Requests : i \in DOMAIN log
  BY <1>1 DEF Requests
<1>3. IsFiniteSet(Requests)
  BY RequestsAreCounted
<1>4. Cardinality(Requests \cup {Len(log) + 1}) = Cardinality(Requests) + 1
  BY <1>2, <1>3, FS_AddElement
<1> QED
  BY <1>1, <1>2, <1>4 DEF LastId

\* A step that leaves the log and what was forwarded alone.
LEMMA QuietStep ==
  ASSUME EInv, UNCHANGED <<config, log, mode, sent>>
  PROVE  EInv'
<1>1. config' = config /\ log' = log /\ mode' = mode /\ sent' = sent
  OBVIOUS
<1>2. Requests' = Requests /\ deployment' = deployment
  BY <1>1 DEF Requests, deployment
<1>3. LastId' = LastId
  BY <1>2 DEF LastId
<1> QED
  BY <1>1, <1>2, <1>3 DEF EInv, LogInv, RowsInv, LastInv

\* A step that writes a row which is no request row, and forwards nothing.
LEMMA OtherStep ==
  ASSUME EInv, NEW row, log' = Append(log, row), row.event # "request",
         UNCHANGED <<config, mode, sent>>
  PROVE  EInv'
<1>1. LogInv' /\ Requests' = Requests /\ \A i \in Requests : log'[i] = log[i]
  BY OtherAppended DEF EInv
<1>2. config' = config /\ mode' = mode /\ sent' = sent
  OBVIOUS
<1>3. LastId' = LastId /\ deployment' = deployment
  BY <1>1, <1>2 DEF LastId, deployment
<1>4. /\ RowsOk(deployment, Requests, log', LastId)
      /\ LastOk(deployment, Requests, log', LastId, mode, sent)
  <2>1. RowsOk(deployment, Requests, log, LastId) /\ LastOk(deployment, Requests, log, LastId, mode, sent)
    BY DEF EInv, RowsInv, LastInv
  <2> QED
    BY ONLY <1>1, <2>1, SameRows
<1>5. RowsInv' /\ LastInv'
  BY ONLY <1>1, <1>2, <1>3, <1>4 DEF RowsInv, LastInv
<1>6. Deployable(deployment)'
  BY <1>3 DEF EInv
<1> QED
  BY ONLY <1>1, <1>5, <1>6 DEF EInv

\* A request is asked for.
LEMMA AskStep ==
  ASSUME EInv, NEW m \in Paths, NEW p \in Payloads, Ask(m, p)
  PROVE  EInv'
<1> DEFINE row == RequestRow(LastId + 1, Row(deployment, m, p))
<1>1. /\ log' = Append(log, row) /\ sent' = Body(deployment, m, p) /\ mode' = m /\ config' = config
      /\ Normalizable(deployment, m, p)
  BY DEF Ask
<1>2. row.event = "request" /\ row.id = LastId + 1 /\ row.row = Row(deployment, m, p)
  BY DEF RequestRow
<1> HIDE DEF row
<1>3. /\ LogInv' /\ Requests' = Requests \cup {Len(log) + 1}
      /\ \A i \in Requests : log'[i] = log[i] /\ i # Len(log) + 1
      /\ log'[Len(log) + 1] = row /\ LastId' = LastId + 1
  BY <1>1, <1>2, RequestAppended DEF EInv
<1>4. LastId \in Nat
  BY RequestsAreCounted DEF EInv
<1>5. Served(deployment, m, p)
  <2>1. p \in Requested
    BY ExchangeAssumption
  <2>2. m \in Modes
    BY <1>1 DEF Normalizable, Controllable, Modes
  <2> QED
    BY <1>1, <2>1, <2>2 DEF Served, EInv
<1>6. deployment' = deployment
  BY <1>1 DEF deployment
<1>7. RowsOk(deployment, Requests, log, LastId)
  BY DEF EInv, RowsInv
<1>8. /\ RowsOk(deployment, Requests \cup {Len(log) + 1}, log', LastId + 1)
      /\ LastOk(deployment, Requests \cup {Len(log) + 1}, log', LastId + 1, m, Body(deployment, m, p))
  <2>1. log'[Len(log) + 1].id = LastId + 1 /\ log'[Len(log) + 1].row = Row(deployment, m, p)
    BY <1>2, <1>3
  <2> QED
    BY ONLY <1>3, <1>4, <1>5, <1>7, <2>1, MoreRows
<1>9. RowsInv' /\ LastInv'
  BY ONLY <1>1, <1>3, <1>6, <1>8 DEF RowsInv, LastInv
<1> QED
  BY ONLY <1>3, <1>6, <1>9, EInv DEF EInv

\* An empty log.
LEMMA Empty ==
  ASSUME log = <<>>, Deployable(deployment)
  PROVE  EInv
<1>1. Requests = {} /\ LogInv
  BY DEF Requests, LogInv
<1>2. LastId = 0
  BY <1>1, FS_EmptySet DEF LastId
<1> QED
  BY <1>1, <1>2 DEF EInv, RowsInv, LastInv, RowsOk, LastOk

\* The stage is judged, and its log dropped.
LEMMA JudgeStep ==
  ASSUME EInv, Judge
  PROVE  EInv'
<1>1. log' = <<>> /\ config' = config
  BY DEF Judge
<1>2. deployment' = deployment
  BY <1>1 DEF deployment
<1>3. Requests' = {} /\ LogInv'
  BY <1>1 DEF Requests, LogInv
<1>4. LastId' = 0
  BY <1>3, FS_EmptySet DEF LastId
<1> QED
  BY <1>2, <1>3, <1>4 DEF EInv, RowsInv, LastInv, RowsOk, LastOk

\* The first state.
LEMMA ExchangeInitOk == ExchangeInit => EInv
BY Empty DEF ExchangeInit

\* Every step keeps the invariant.
LEMMA ExchangeStep ==
  ASSUME EInv, [ExchangeNext]_exchangeVars
  PROVE  EInv'
<1>1. ASSUME NEW m \in Paths, NEW p \in Payloads, Ask(m, p) PROVE EInv'
  BY <1>1, AskStep
<1>2. ASSUME NEW m \in Paths, NEW p \in Payloads, Reject(m, p) PROVE EInv'
  BY <1>2, OtherStep DEF Reject, request
<1>3. CASE Unreachable
  BY <1>3, OtherStep DEF Unreachable, request, ResponseRow
<1>4. CASE Begin
  BY <1>4, QuietStep DEF Begin, request
<1>5. ASSUME NEW n \in 1..Len(rest), Chunk(n) PROVE EInv'
  <2> DEFINE fed == Feed(observer, SubSeq(rest, 1, n))
  <2>1. /\ config' = config /\ mode' = mode /\ sent' = sent
        /\ \/ log' = log
           \/ \E o, how : log' = Append(log, ResponseRow(LastId, answer.status, o, how = "broken"))
    BY <1>5 DEF Chunk, request, Record
  <2> QED
    BY <2>1, QuietStep, OtherStep DEF ResponseRow
<1>6. CASE End
  <2>1. /\ config' = config /\ mode' = mode /\ sent' = sent
        /\ \E o, how : log' = Append(log, ResponseRow(LastId, answer.status, o, how = "broken"))
    BY <1>6 DEF End, request, Record
  <2> QED
    BY <2>1, OtherStep DEF ResponseRow
<1>7. CASE Judge
  BY <1>7, JudgeStep
<1>8. CASE UNCHANGED exchangeVars
  BY <1>8, QuietStep DEF exchangeVars, request
<1> QED
  BY <1>1, <1>2, <1>3, <1>4, <1>5, <1>6, <1>7, <1>8 DEF ExchangeNext

\* What the invariant is for.
LEMMA RowsAreAccepted == EInv => RowsAccepted
<1> SUFFICES ASSUME EInv PROVE RowsAccepted
  OBVIOUS
<1>1. \A r \in Rows : \E m, p : Served(deployment, m, p) /\ r = Row(deployment, m, p)
  BY DEF EInv, RowsInv, RowsOk, Rows
<1>2. \A r \in Rows : RowValid(r)
  BY <1>1, RowIsValid
<1>3. PolicyConsistent(Rows)
  <2>1. Deployable(deployment)
    BY DEF EInv
  <2> QED
    BY ONLY <1>1, <2>1, RowsAreConsistent
<1> QED
  BY <1>2, <1>3 DEF RowsAccepted

\* And what is forwarded.
LEMMA ForwardedAsLogged == EInv => OffIsAuthoritative
<1> SUFFICES ASSUME EInv, LastId > 0 PROVE OffIsAuthoritative
  BY DEF OffIsAuthoritative
<1>1. PICK i \in Requests, p \in Requested :
        /\ log[i].id = LastId /\ \A j \in Requests : log[j].id = LastId => j = i
        /\ Served(deployment, mode, p)
        /\ log[i].row = Row(deployment, mode, p) /\ sent = Body(deployment, mode, p)
  BY DEF EInv, LastInv, LastOk
<1>2. (CHOOSE j \in Requests : log[j].id = LastId) = i
  BY <1>1
<1>3. /\ sent.controls = log[i].row.control
      /\ deployment.policy = "off" /\ ~deployment.honor =>
           /\ sent.controls = ControlOf(deployment.runtime, mode, "off")
           /\ sent.controls # {}
  BY <1>1, BodyHasControl
<1> QED
  BY <1>2, <1>3 DEF OffIsAuthoritative

----------------------------------------------------------------------------
(* Three texts in a row.  (The fact is a predicate so that it can be used    *)
(* where other concatenations are about.)                                    *)

Joined(f, g, h) == (f \o g) \o h = f \o (g \o h)

\* What concatenation does to lengths and places, with the case of three parts.
LEMMA Joining ==
  ASSUME NEW S, NEW f \in Seq(S), NEW g \in Seq(S), NEW h \in Seq(S)
  PROVE  Joined(f, g, h)
BY ConcatAssociative, SMTT(60) DEF Joined

----------------------------------------------------------------------------
(* Induction, over a set: what is in it for 0 and for the successor of     *)
(* each number in it is in it for every number; and so for sequences.      *)

\* Induction over the naturals, for a set of numbers rather than a predicate.
LEMMA SetInduction ==
  ASSUME NEW T, 0 \in T, \A n \in Nat : n \in T => n + 1 \in T
  PROVE  Nat \subseteq T
<1> DEFINE R == OpToRel(<, Nat)
<1> SUFFICES ASSUME Nat \ T # {} PROVE FALSE
  OBVIOUS
<1>1. IsWellFoundedOn(R, Nat)
  BY NatLessThanWellFounded
<1>2. \A k, m \in Nat : k < m => <<k, m>> \in R
  BY DEF OpToRel
<1> HIDE DEF R
<1>3. PICK m \in Nat \ T : \A k \in Nat \ T : ~(<<k, m>> \in R)
  BY <1>1, WFMin
<1>4. m # 0 /\ m - 1 \in Nat /\ (m - 1) + 1 = m
  BY <1>3
<1>5. m - 1 \in T
  <2>1. <<m - 1, m>> \in R
    BY <1>2, <1>4
  <2> QED
    BY <1>3, <1>4, <2>1
<1>6. (m - 1) + 1 \in T
  BY <1>4, <1>5
<1> QED
  BY <1>3, <1>4, <1>6

\* Induction over sequences by appending, for a set of sequences.
LEMMA SeqInduction ==
  ASSUME NEW S, NEW T, <<>> \in T,
         \A s \in Seq(S) : \A e \in S : s \in T => Append(s, e) \in T
  PROVE  Seq(S) \subseteq T
<1> DEFINE N == {n \in Nat : \A s \in Seq(S) : Len(s) = n => s \in T}
<1>1. 0 \in N
  <2>1. \A s \in Seq(S) : Len(s) = 0 => s = <<>>
    BY EmptySeq
  <2> QED
    BY <2>1
<1>2. ASSUME NEW n \in Nat, n \in N
      PROVE  n + 1 \in N
  <2> SUFFICES ASSUME NEW s \in Seq(S), Len(s) = n + 1
               PROVE  s \in T
    OBVIOUS
  <2>1. s # <<>>
    BY EmptySeq
  <2>2. PICK t \in Seq(S), e \in S : s = Append(t, e)
    BY <2>1, SequenceEmptyOrAppend
  <2>3. Len(t) = n
    BY <2>2, AppendProperties, LenProperties
  <2> QED
    BY <1>2, <2>2, <2>3
<1>3. Nat \subseteq N
  <2> HIDE DEF N
  <2> QED
    BY <1>1, <1>2, SetInduction
<1> QED
  BY <1>3, LenProperties

----------------------------------------------------------------------------
(* FlattenSeq.                                                             *)

\* f[i] is what the first i sequences of ss are, one after the other.
Flattens(f, ss, n) ==
  /\ f = [i \in 1..n |-> f[i]]
  /\ \A i \in 1..n : f[i] = IF i = 1 THEN ss[i] ELSE f[i - 1] \o ss[i]

\* The function that FlattenSeq unfolds exists, at every length.
LEMMA FlattensExists ==
  ASSUME NEW ss, NEW n \in Nat
  PROVE  \E f : Flattens(f, ss, n)
<1> DEFINE T == {m \in Nat : \E f : Flattens(f, ss, m)}
<1>1. 0 \in T
  <2>1. Flattens([i \in 1..0 |-> ss], ss, 0)
    BY DEF Flattens
  <2> QED
    BY <2>1
<1>2. ASSUME NEW m \in Nat, m \in T PROVE m + 1 \in T
  <2>1. PICK f : Flattens(f, ss, m)
    BY <1>2
  <2> DEFINE last == IF m = 0 THEN ss[m + 1] ELSE f[m] \o ss[m + 1]
             g == [i \in 1..(m + 1) |-> IF i \in 1..m THEN f[i] ELSE last]
  <2>2. \A i \in 1..m : g[i] = f[i]
    OBVIOUS
  <2>3. g[m + 1] = last /\ g = [i \in 1..(m + 1) |-> g[i]]
    OBVIOUS
  <2>4. g[m + 1] = IF m + 1 = 1 THEN ss[m + 1] ELSE g[(m + 1) - 1] \o ss[m + 1]
    <3>1. CASE m = 0
      BY <2>3, <3>1
    <3>2. CASE m # 0
      <4>1. (m + 1) - 1 = m /\ m \in 1..m /\ m + 1 # 1
        BY <3>2
      <4> HIDE DEF g
      <4>2. g[(m + 1) - 1] = f[m]
        BY <2>2, <4>1
      <4> QED
        BY <2>3, <3>2, <4>1, <4>2
    <3> QED
      BY <3>1, <3>2
  <2> HIDE DEF g
  <2>5. ASSUME NEW i \in 1..m
        PROVE  g[i] = IF i = 1 THEN ss[i] ELSE g[i - 1] \o ss[i]
    <3>1. f[i] = IF i = 1 THEN ss[i] ELSE f[i - 1] \o ss[i]
      BY <2>1 DEF Flattens
    <3>2. CASE i = 1
      BY <2>2, <3>1, <3>2
    <3>3. CASE i # 1
      <4>1. g[i] = f[i] /\ g[i - 1] = f[i - 1]
        BY <2>2, <3>3
      <4> QED
        BY <3>1, <3>3, <4>1
    <3> QED
      BY <3>2, <3>3
  <2>6. \A i \in 1..(m + 1) : i \in 1..m \/ i = m + 1
    OBVIOUS
  <2>7. \A i \in 1..(m + 1) : g[i] = IF i = 1 THEN ss[i] ELSE g[i - 1] \o ss[i]
    BY <2>4, <2>5, <2>6
  <2>8. Flattens(g, ss, m + 1)
    BY <2>3, <2>7 DEF Flattens
  <2> QED
    BY <2>8
<1>3. n \in T
  <2> HIDE DEF T
  <2> QED
    BY <1>1, <1>2, SetInduction
<1> QED
  BY <1>3

\* FlattenSeq of a sequence that is not empty is the value of that function at its
\* length.
LEMMA FlattensIs ==
  ASSUME NEW ss, NEW n \in Nat \ {0}, Len(ss) = n
  PROVE  \E f : Flattens(f, ss, n) /\ FlattenSeq(ss) = f[n]
<1> DEFINE Is(f) == f = [i \in 1..n |-> IF i = 1 THEN ss[i] ELSE f[i - 1] \o ss[i]]
<1>1. PICK f : Flattens(f, ss, n)
  BY FlattensExists
<1>2. Is(f)
  BY <1>1 DEF Flattens
<1>3. FlattenSeq(ss) = (CHOOSE g : Is(g))[n]
  BY DEF FlattenSeq
<1> DEFINE g == CHOOSE g : Is(g)
<1>4. Is(g)
  BY <1>2
<1> HIDE DEF g
<1>5. Flattens(g, ss, n)
  BY <1>4 DEF Flattens
<1> QED
  BY <1>3, <1>5 DEF g

\* Nothing flattens to nothing.
LEMMA FlattenEmpty == FlattenSeq(<<>>) = <<>>
  BY DEF FlattenSeq

\* Two such functions agree as far as the sequences do.
LEMMA FlattensAgree ==
  ASSUME NEW ss, NEW tt, NEW f, NEW g, NEW n \in Nat, NEW m \in Nat, n <= m,
         Flattens(f, ss, n), Flattens(g, tt, m), \A i \in 1..n : ss[i] = tt[i]
  PROVE  \A i \in 1..n : f[i] = g[i]
<1> DEFINE T == {i \in Nat : i \in 1..n => f[i] = g[i]}
<1>1. 0 \in T
  OBVIOUS
<1>2. ASSUME NEW i \in Nat, i \in T PROVE i + 1 \in T
  <2> SUFFICES ASSUME i + 1 \in 1..n PROVE f[i + 1] = g[i + 1]
    OBVIOUS
  <2> DEFINE j == i + 1
  <2>1. j \in 1..n /\ j \in 1..m /\ ss[j] = tt[j]
    OBVIOUS
  <2>2. f[j] = IF j = 1 THEN ss[j] ELSE f[j - 1] \o ss[j]
    BY <2>1 DEF Flattens
  <2>3. g[j] = IF j = 1 THEN tt[j] ELSE g[j - 1] \o tt[j]
    BY <2>1 DEF Flattens
  <2>4. j # 1 => f[j - 1] = g[j - 1]
    BY <1>2
  <2> HIDE DEF j
  <2>5. f[j] = g[j]
    BY <2>1, <2>2, <2>3, <2>4
  <2> QED
    BY <2>5 DEF j
<1>3. Nat \subseteq T
  <2> HIDE DEF T
  <2> QED
    BY <1>1, <1>2, SetInduction
<1> QED
  BY <1>3

\* Flattening a sequence with one more part adds that part at the end.
LEMMA FlattenAppend ==
  ASSUME NEW S, NEW ss \in Seq(Seq(S)), NEW t \in Seq(S)
  PROVE  FlattenSeq(Append(ss, t)) = FlattenSeq(ss) \o t
<1> DEFINE n == Len(ss)  tt == Append(ss, t)
<1>1. /\ n \in Nat /\ n + 1 \in Nat \ {0} /\ Len(tt) = n + 1 /\ tt[n + 1] = t
      /\ \A i \in 1..n : ss[i] = tt[i]
  BY AppendProperties, LenProperties
<1>2. n = 0 => ss = <<>>
  BY EmptySeq
<1>3. Len(ss) = n
  OBVIOUS
<1> HIDE DEF tt, n
<1>4. PICK g : Flattens(g, tt, n + 1) /\ FlattenSeq(tt) = g[n + 1]
  BY <1>1, FlattensIs
<1>5. g[n + 1] = IF n + 1 = 1 THEN tt[n + 1] ELSE g[(n + 1) - 1] \o tt[n + 1]
  <2>1. n + 1 \in 1..(n + 1)
    BY <1>1
  <2> QED
    BY <1>4, <2>1 DEF Flattens
<1>6. FlattenSeq(tt) = FlattenSeq(ss) \o t
  <2>1. CASE n = 0
    <3>1. FlattenSeq(ss) = <<>>
      BY <1>2, <2>1, FlattenEmpty
    <3>2. FlattenSeq(tt) = t
      BY <1>1, <1>4, <1>5, <2>1
    <3> QED
      BY <3>1, <3>2, ConcatEmptySeq
  <2>2. CASE n # 0
    <3>1. PICK f : Flattens(f, ss, n) /\ FlattenSeq(ss) = f[n]
      BY <1>1, <1>3, <2>2, FlattensIs
    <3>2. \A i \in 1..n : f[i] = g[i]
      BY <1>1, <1>4, <3>1, FlattensAgree
    <3>3. f[n] = g[n] /\ (n + 1) - 1 = n /\ n + 1 # 1
      BY <1>1, <2>2, <3>2
    <3> QED
      BY <1>1, <1>4, <1>5, <3>1, <3>3
  <2> QED
    BY <2>1, <2>2
<1> QED
  BY <1>6 DEF tt

\* Flattening sequences over S gives a sequence over S.
LEMMA FlattenType ==
  ASSUME NEW S, NEW ss \in Seq(Seq(S))
  PROVE  FlattenSeq(ss) \in Seq(S)
<1> DEFINE T == {tt \in Seq(Seq(S)) : FlattenSeq(tt) \in Seq(S)}
<1>1. <<>> \in T
  BY FlattenEmpty, EmptySeq
<1>2. ASSUME NEW tt \in Seq(Seq(S)), NEW t \in Seq(S), tt \in T
      PROVE  Append(tt, t) \in T
  BY <1>2, FlattenAppend, AppendProperties, ConcatProperties
<1>3. Seq(Seq(S)) \subseteq T
  <2> HIDE DEF T
  <2> QED
    BY <1>1, <1>2, SeqInduction
<1> QED
  BY <1>3

----------------------------------------------------------------------------
(* The observer after a sequence of symbols.                               *)

After(o, s) == FoldLeft(Symbol, o, s)

\* f[d] is what is left of o after the symbols of s at the places d, up to n.
FoldsUp(f, o, s, n) ==
  /\ f = [d \in SUBSET (1..n) |-> f[d]]
  /\ \A d \in SUBSET (1..n) :
       f[d] = IF d = {} THEN o ELSE Symbol(f[d \ {Max(d)}], s[Max(d)])

\* The maximum of a set of numbers up to n that holds n is n.
LEMMA MaxIs ==
  ASSUME NEW n \in Nat, NEW d \in SUBSET (1..n), n \in d
  PROVE  Max(d) = n
<1>1. \A y \in d : n >= y
  OBVIOUS
<1>2. \A x \in d : (\A y \in d : x >= y) => x = n
  OBVIOUS
<1> QED
  BY <1>1, <1>2 DEF Max

\* The fold of Symbol over the prefixes of a sequence exists as a function.
LEMMA FoldsUpExists ==
  ASSUME NEW o, NEW s, NEW n \in Nat
  PROVE  \E f : FoldsUp(f, o, s, n)
<1> DEFINE T == {m \in Nat : \E f : FoldsUp(f, o, s, m)}
<1>1. 0 \in T
  <2>1. FoldsUp([d \in SUBSET (1..0) |-> o], o, s, 0)
    BY DEF FoldsUp
  <2> QED
    BY <2>1
<1>2. ASSUME NEW m \in Nat, m \in T PROVE m + 1 \in T
  <2>1. PICK f : FoldsUp(f, o, s, m)
    BY <1>2
  <2> DEFINE g == [d \in SUBSET (1..(m + 1)) |->
                     IF m + 1 \in d THEN Symbol(f[d \ {m + 1}], s[m + 1]) ELSE f[d]]
  <2>2. g = [d \in SUBSET (1..(m + 1)) |-> g[d]]
    OBVIOUS
  <2>3. \A d \in SUBSET (1..(m + 1)) :
          g[d] = IF m + 1 \in d THEN Symbol(f[d \ {m + 1}], s[m + 1]) ELSE f[d]
    OBVIOUS
  <2> HIDE DEF g
  <2>4. \A d \in SUBSET (1..m) : g[d] = f[d]
    BY <2>3
  <2>5. ASSUME NEW d \in SUBSET (1..(m + 1))
        PROVE  g[d] = IF d = {} THEN o ELSE Symbol(g[d \ {Max(d)}], s[Max(d)])
    <3>1. CASE m + 1 \in d
      <4>1. Max(d) = m + 1
        BY <3>1, MaxIs
      <4>2. d \ {m + 1} \in SUBSET (1..m)
        OBVIOUS
      <4>3. g[d \ {m + 1}] = f[d \ {m + 1}]
        BY <2>4, <4>2
      <4> QED
        BY <2>3, <3>1, <4>1, <4>3
    <3>2. CASE m + 1 \notin d
      <4>1. d \in SUBSET (1..m) /\ d \ {Max(d)} \in SUBSET (1..m)
        <5>1. \A i \in d : i \in 1..m
          BY <3>2
        <5> QED
          BY <5>1
      <4>2. g[d] = f[d] /\ g[d \ {Max(d)}] = f[d \ {Max(d)}]
        BY <2>4, <4>1
      <4>3. f[d] = IF d = {} THEN o ELSE Symbol(f[d \ {Max(d)}], s[Max(d)])
        BY <2>1, <4>1 DEF FoldsUp
      <4> QED
        BY <4>2, <4>3
    <3> QED
      BY <3>1, <3>2
  <2>6. FoldsUp(g, o, s, m + 1)
    BY <2>2, <2>5 DEF FoldsUp
  <2> QED
    BY <2>6
<1>3. n \in T
  <2> HIDE DEF T
  <2> QED
    BY <1>1, <1>2, SetInduction
<1> QED
  BY <1>3

\* After is that fold, at the whole sequence.
LEMMA AfterIs ==
  ASSUME NEW o, NEW S, NEW s \in Seq(S)
  PROVE  \E f : FoldsUp(f, o, s, Len(s)) /\ After(o, s) = f[1..Len(s)]
<1> DEFINE n == Len(s)
           Is(f) == f = [d \in SUBSET (1..n) |->
                           IF d = {} THEN o ELSE Symbol(f[d \ {Max(d)}], s[Max(d)])]
<1>1. n \in Nat /\ DOMAIN s = 1..n
  BY LenProperties
<1>2. PICK f : FoldsUp(f, o, s, n)
  BY <1>1, FoldsUpExists
<1>3. Is(f)
  BY <1>2 DEF FoldsUp
<1>4. After(o, s) = (CHOOSE g : Is(g))[1..n]
  BY <1>1 DEF After, FoldLeft, MapThenFoldSet
<1> DEFINE g == CHOOSE g : Is(g)
<1>5. Is(g)
  BY <1>3
<1> HIDE DEF g
<1>6. FoldsUp(g, o, s, n)
  BY <1>5 DEF FoldsUp
<1> QED
  BY <1>4, <1>6 DEF g

SameUpTo(s, t, n) == \A i \in 1..n : s[i] = t[i]

\* Two such folds over sequences that agree up to n agree at n.
LEMMA FoldsAgree ==
  ASSUME NEW o, NEW s, NEW t, NEW f, NEW g, NEW n \in Nat, NEW m \in Nat, n <= m,
         FoldsUp(f, o, s, n), FoldsUp(g, o, t, m), SameUpTo(s, t, n)
  PROVE  f[1..n] = g[1..n]
<1> DEFINE T == {i \in Nat : i <= n => \A d \in SUBSET (1..i) : f[d] = g[d]}
<1>1. 0 \in T
  <2> SUFFICES ASSUME NEW d \in SUBSET (1..0) PROVE f[d] = g[d]
    OBVIOUS
  <2>1. d = {} /\ d \in SUBSET (1..n) /\ d \in SUBSET (1..m)
    OBVIOUS
  <2>2. f[d] = o /\ g[d] = o
    BY <2>1 DEF FoldsUp
  <2> QED
    BY <2>2
<1>2. ASSUME NEW i \in Nat, i \in T PROVE i + 1 \in T
  <2> SUFFICES ASSUME i + 1 <= n, NEW d \in SUBSET (1..(i + 1)) PROVE f[d] = g[d]
    OBVIOUS
  <2>1. \A e \in SUBSET (1..i) : f[e] = g[e]
    BY <1>2
  <2>2. CASE i + 1 \in d
    <3>1. Max(d) = i + 1
      BY <2>2, MaxIs
    <3>2. d \ {i + 1} \in SUBSET (1..i)
      OBVIOUS
    <3>3. d \in SUBSET (1..n) /\ d \in SUBSET (1..m) /\ d # {} /\ s[i + 1] = t[i + 1]
      BY <2>2 DEF SameUpTo
    <3>4. f[d] = Symbol(f[d \ {i + 1}], s[i + 1])
      BY <3>1, <3>3 DEF FoldsUp
    <3>5. g[d] = Symbol(g[d \ {i + 1}], t[i + 1])
      BY <3>1, <3>3 DEF FoldsUp
    <3>6. f[d \ {i + 1}] = g[d \ {i + 1}]
      BY <2>1, <3>2
    <3> QED
      BY <3>3, <3>4, <3>5, <3>6
  <2>3. CASE i + 1 \notin d
    <3>1. d \in SUBSET (1..i)
      BY <2>3
    <3> QED
      BY <2>1, <3>1
  <2> QED
    BY <2>2, <2>3
<1>3. n \in T
  <2> HIDE DEF T
  <2> QED
    BY <1>1, <1>2, SetInduction
<1> QED
  BY <1>3

\* The observer is as it was after no symbol.
LEMMA AfterEmpty ==
  ASSUME NEW o
  PROVE  After(o, <<>>) = o
<1>1. PICK f : FoldsUp(f, o, <<>>, 0) /\ After(o, <<>>) = f[1..0]
  BY AfterIs, EmptySeq
<1>2. 1..0 = {} /\ 1..0 \in SUBSET (1..0)
  OBVIOUS
<1> QED
  BY <1>1, <1>2 DEF FoldsUp

\* One more symbol is one more step of the observer.
LEMMA AfterAppend ==
  ASSUME NEW o, NEW S, NEW s \in Seq(S), NEW c \in S
  PROVE  After(o, Append(s, c)) = Symbol(After(o, s), c)
<1> DEFINE k == Len(s)  u == Append(s, c)
<1>1. /\ k \in Nat /\ Len(u) = k + 1 /\ u[k + 1] = c /\ u \in Seq(S)
      /\ \A i \in 1..k : s[i] = u[i]
  BY AppendProperties, LenProperties
<1>2. PICK f : FoldsUp(f, o, s, k) /\ After(o, s) = f[1..k]
  BY AfterIs
<1> HIDE DEF u
<1>3. PICK g : FoldsUp(g, o, u, k + 1) /\ After(o, u) = g[1..(k + 1)]
  BY <1>1, AfterIs
<1> HIDE DEF k
<1>4. f[1..k] = g[1..k]
  <2> DEFINE l == k + 1
  <2>1. k \in Nat /\ l \in Nat /\ k <= l /\ SameUpTo(s, u, k)
    BY <1>1 DEF SameUpTo
  <2>2. FoldsUp(f, o, s, k) /\ FoldsUp(g, o, u, l)
    BY <1>2, <1>3
  <2> HIDE DEF l
  <2> QED
    BY ONLY <2>1, <2>2, FoldsAgree
<1> DEFINE d == 1..(k + 1)
<1>5. d \in SUBSET (1..(k + 1)) /\ k + 1 \in d /\ d # {} /\ d \ {k + 1} = 1..k
  <2>1. \A i : i \in d /\ i # k + 1 <=> i \in 1..k
    BY <1>1
  <2>2. k + 1 \in d
    BY <1>1
  <2> QED
    BY <2>1, <2>2
<1>6. Max(d) = k + 1
  BY <1>1, <1>5, MaxIs
<1>7. g[d] = Symbol(g[d \ {k + 1}], u[k + 1])
  <2> HIDE DEF d
  <2> QED
    BY <1>3, <1>5, <1>6 DEF FoldsUp
<1> QED
  BY <1>1, <1>2, <1>3, <1>4, <1>5, <1>7 DEF u

\* Reading two texts one after the other is reading their concatenation.
LEMMA AfterConcat ==
  ASSUME NEW o, NEW S, NEW s \in Seq(S), NEW t \in Seq(S)
  PROVE  After(o, s \o t) = After(After(o, s), t)
<1> DEFINE T == {u \in Seq(S) : After(o, s \o u) = After(After(o, s), u)}
<1>1. <<>> \in T
  BY AfterEmpty, EmptySeq, ConcatEmptySeq
<1>2. ASSUME NEW u \in Seq(S), NEW c \in S, u \in T PROVE Append(u, c) \in T
  <2>1. s \o Append(u, c) = Append(s \o u, c)
    OBVIOUS
  <2>2. s \o u \in Seq(S) /\ Append(u, c) \in Seq(S)
    BY ConcatProperties, AppendProperties
  <2>3. After(o, Append(s \o u, c)) = Symbol(After(o, s \o u), c)
    BY <2>2, AfterAppend
  <2>4. After(After(o, s), Append(u, c)) = Symbol(After(After(o, s), u), c)
    BY AfterAppend
  <2> QED
    BY <1>2, <2>1, <2>2, <2>3, <2>4
<1>3. Seq(S) \subseteq T
  <2> HIDE DEF T
  <2> QED
    BY <1>1, <1>2, SeqInduction
<1> QED
  BY <1>3

----------------------------------------------------------------------------
(* What one symbol may change.                                             *)

Flags == {"content", "reasoning", "tools", "finish", "tag"}
Faults == {"not an object", "malformed JSON event", "malformed SSE line", "invalid UTF-8",
           "line over the limit", "answer over the limit", "ended inside a character",
           "malformed JSON body"}
Observers(m) ==
  [mode : {m}, streaming : BOOLEAN, http_error : BOOLEAN, flags : SUBSET Flags,
   tail : Seq(Symbols), done : BOOLEAN, errors : SUBSET Faults, pending : Seq(Symbols),
   buffer : Seq(Symbols), sse : Seq(Seq(Symbols)), body : Seq(Symbols)]

WithPending(o, x) == [o EXCEPT !.pending = x]

\* What a step of the observer leaves alone, and what it only adds to.
Grows(o, p) ==
  /\ p.mode = o.mode /\ p.streaming = o.streaming /\ p.http_error = o.http_error
  /\ p.body = o.body /\ p.pending = o.pending
  /\ o.flags \subseteq p.flags /\ o.errors \subseteq p.errors /\ (o.done => p.done)

\* The tail that is kept is a sequence over the same set.
LEMMA LastOfType ==
  ASSUME NEW S, NEW s \in Seq(S), NEW n \in Nat
  PROVE  LastOf(s, n) \in Seq(S)
<1>1. CASE Len(s) <= n
  BY <1>1 DEF LastOf
<1>2. CASE ~(Len(s) <= n)
  <2>1. Len(s) \in Nat /\ \A i \in (Len(s) - n + 1)..Len(s) : s[i] \in S
    BY <1>2, ElementOfSeq
  <2>2. SubSeq(s, Len(s) - n + 1, Len(s)) \in Seq(S)
    BY <2>1, SubSeqProperties
  <2> QED
    BY <1>2, <2>2 DEF LastOf
<1> QED
  BY <1>1, <1>2

\* What a client sees of a text is a sequence of symbols.
LEMMA ContentType ==
  ASSUME NEW s \in Seq(Symbols)
  PROVE  Content(s) \in Seq(Symbols)
<1> DEFINE ss == [i \in DOMAIN s |-> IF s[i] \in Visible THEN <<s[i]>> ELSE <<>>]
<1>1. DOMAIN s = 1..Len(s) /\ Len(s) \in Nat
  BY LenProperties
<1>2. \A i \in DOMAIN s : ss[i] \in Seq(Symbols)
  <2>1. Visible \subseteq Symbols /\ \A c \in Symbols : <<c>> \in Seq(Symbols)
    <3>1. Visible \subseteq Symbols
      BY DEF Visible, Symbols, Members
    <3>2. \A c \in Symbols : <<c>> \in Seq(Symbols)
      OBVIOUS
    <3> QED
      BY <3>1, <3>2
  <2>2. <<>> \in Seq(Symbols)
    BY EmptySeq
  <2> QED
    BY <2>1, <2>2
<1>3. ss \in Seq(Seq(Symbols))
  BY <1>1, <1>2
<1> HIDE DEF ss
<1>4. FlattenSeq(ss) \in Seq(Symbols)
  BY ONLY <1>3, FlattenType, SMTT(30)
<1> QED
  BY <1>4 DEF Content, ss

\* Noting a fault adds to the errors, and touches neither the buffer nor the pending
\* bytes.
LEMMA FaultFacts ==
  ASSUME NEW m, NEW o \in Observers(m), NEW e \in Faults
  PROVE  /\ Fault(o, e) \in Observers(m) /\ Grows(o, Fault(o, e))
         /\ Fault(o, e).errors # {} /\ Fault(o, e).buffer = o.buffer
         /\ \A x : Fault(WithPending(o, x), e) = WithPending(Fault(o, e), x)
  BY DEF Fault, Observers, Grows, WithPending

\* Merging an object's content keeps the errors, the buffer and the pending bytes.
LEMMA MergeFacts ==
  ASSUME NEW m, NEW o \in Observers(m), NEW s \in Seq(Symbols)
  PROVE  /\ Merge(o, s) \in Observers(m) /\ Grows(o, Merge(o, s))
         /\ Merge(o, s).errors = o.errors /\ Merge(o, s).buffer = o.buffer
         /\ \A x : Merge(WithPending(o, x), s) = WithPending(Merge(o, s), x)
<1> DEFINE content == Content(s)
           tail    == LastOf(o.tail \o content, TailSize)
           flags   == (IF content # <<>> THEN {"content"} ELSE {})
                   \cup (IF Holds(s, "think") THEN {"reasoning"} ELSE {})
                   \cup (IF Holds(s, "call") THEN {"tools"} ELSE {})
                   \cup (IF Holds(s, "stop") \/ Holds(s, "end") THEN {"finish"} ELSE {})
                   \cup (IF Adjacent(content, "<th", "ink>") \/ Adjacent(tail, "<th", "ink>")
                         THEN {"tag"} ELSE {})
           done    == Holds(s, "end")
<1>1. Merge(o, s) = [o EXCEPT !.flags = @ \cup flags, !.tail = tail, !.done = @ \/ done]
  BY DEF Merge
<1>2. \A x : WithPending(o, x).tail = o.tail
  BY DEF WithPending, Observers
<1>3. \A x : Merge(WithPending(o, x), s) =
               [WithPending(o, x) EXCEPT !.flags = @ \cup flags, !.tail = tail, !.done = @ \/ done]
  <2> SUFFICES ASSUME NEW x
               PROVE  Merge(WithPending(o, x), s) =
                 [WithPending(o, x) EXCEPT !.flags = @ \cup flags, !.tail = tail, !.done = @ \/ done]
    OBVIOUS
  <2> DEFINE p == WithPending(o, x)
  <2>1. p.tail = o.tail
    BY <1>2
  <2> HIDE DEF p
  <2>2. Merge(p, s) = [p EXCEPT !.flags = @ \cup flags, !.tail = tail, !.done = @ \/ done]
    BY <2>1 DEF Merge
  <2> QED
    BY <2>2 DEF p
<1>4. flags \in SUBSET Flags
  BY DEF Flags
<1>5. done \in BOOLEAN
  BY DEF Holds
<1>6. tail \in Seq(Symbols)
  <2>1. o.tail \o Content(s) \in Seq(Symbols)
    BY ContentType, ConcatProperties DEF Observers
  <2> QED
    BY <2>1, LastOfType, ObserverAssumption
<1> HIDE DEF flags, done, tail
<1>7. Merge(o, s) \in Observers(m)
  BY <1>1, <1>4, <1>5, <1>6, ZenonT(40) DEF Observers
<1>8. Grows(o, Merge(o, s)) /\ Merge(o, s).errors = o.errors /\ Merge(o, s).buffer = o.buffer
  BY <1>1 DEF Observers, Grows
<1>9. ASSUME NEW x PROVE Merge(WithPending(o, x), s) = WithPending(Merge(o, s), x)
  <2>1. Merge(WithPending(o, x), s) = [[o EXCEPT !.pending = x] EXCEPT !.flags = @ \cup flags, !.tail = tail, !.done = @ \/ done]
    BY <1>3 DEF WithPending
  <2>2. o = [k \in DOMAIN o |-> o[k]] /\ "pending" \in DOMAIN o /\ "flags" \in DOMAIN o /\ "done" \in DOMAIN o
    BY DEF Observers
  <2>3. WithPending(Merge(o, s), x) = [[o EXCEPT !.flags = @ \cup flags, !.tail = tail, !.done = @ \/ done] EXCEPT !.pending = x]
    BY <1>1 DEF WithPending
  <2> QED
    BY <2>1, <2>2, <2>3
<1> QED
  BY <1>7, <1>8, <1>9

\* What each of two steps leaves alone, or only adds to, both together do.
LEMMA GrowsOn ==
  ASSUME NEW o, NEW p, NEW q, Grows(o, p), Grows(p, q)
  PROVE  Grows(o, q)
  BY DEF Grows

\* Parsing an event's text only adds errors and flags, beside the buffer and the pending
\* bytes.
LEMMA ParseFacts ==
  ASSUME NEW m, NEW o \in Observers(m), NEW text \in Seq(Symbols)
  PROVE  /\ ParseText(o, text) \in Observers(m) /\ Grows(o, ParseText(o, text))
         /\ ParseText(o, text).buffer = o.buffer
         /\ \A x : ParseText(WithPending(o, x), text) = WithPending(ParseText(o, text), x)
<1>1. CASE text = <<>>
  BY <1>1 DEF ParseText, Grows
<1>2. CASE text # <<>> /\ IsObject(text)
  <2> DEFINE s == SubSeq(text, 2, Len(text) - 1)
  <2>1. s \in Seq(Symbols)
    <3>1. Len(text) \in Nat /\ \A i \in 2..(Len(text) - 1) : text[i] \in Symbols
      BY ElementOfSeq, LenProperties
    <3> QED
      BY <3>1, SubSeqProperties
  <2>2. \A p : ParseText(p, text) = Merge(p, s)
    BY <1>2 DEF ParseText
  <2> HIDE DEF s
  <2> QED
    BY <2>1, <2>2, MergeFacts
<1>3. CASE text # <<>> /\ ~IsObject(text)
  <2> DEFINE e == IF text = <<"list">> THEN "not an object" ELSE "malformed JSON event"
  <2>1. e \in Faults
    BY DEF Faults
  <2>2. \A p : ParseText(p, text) = Fault(p, e)
    BY <1>3 DEF ParseText
  <2> HIDE DEF e
  <2> QED
    BY <2>1, <2>2, FaultFacts
<1> QED
  BY <1>1, <1>2, <1>3

Cleared(o) == [o EXCEPT !.sse = <<>>]
Done(o) == [o EXCEPT !.done = TRUE]

\* Clearing the lines of an event touches nothing else.
LEMMA ClearedFacts ==
  ASSUME NEW m, NEW o \in Observers(m)
  PROVE  /\ Cleared(o) \in Observers(m) /\ Grows(o, Cleared(o))
         /\ Cleared(o).buffer = o.buffer /\ Cleared(o).sse = <<>>
         /\ \A x : Cleared(WithPending(o, x)) = WithPending(Cleared(o), x)
<1>1. <<>> \in Seq(Seq(Symbols))
  BY EmptySeq
<1>2. o = [k \in DOMAIN o |-> o[k]] /\ {"sse", "pending"} \subseteq DOMAIN o
  BY DEF Observers
<1>3. \A x : Cleared(WithPending(o, x)) = WithPending(Cleared(o), x)
  BY <1>2 DEF Cleared, WithPending
<1>4. Cleared(o) \in Observers(m) /\ Grows(o, Cleared(o)) /\ Cleared(o).buffer = o.buffer /\ Cleared(o).sse = <<>>
  BY <1>1 DEF Cleared, Observers, Grows
<1> QED
  BY <1>3, <1>4

\* Noting the end of the stream only adds, beside the buffer and the pending bytes.
LEMMA DoneFacts ==
  ASSUME NEW m, NEW o \in Observers(m)
  PROVE  /\ Done(o) \in Observers(m) /\ Grows(o, Done(o)) /\ Done(o).buffer = o.buffer
         /\ \A x : Done(WithPending(o, x)) = WithPending(Done(o), x)
<1>1. o = [k \in DOMAIN o |-> o[k]] /\ {"done", "pending"} \subseteq DOMAIN o
  BY DEF Observers
<1>2. \A x : Done(WithPending(o, x)) = WithPending(Done(o), x)
  BY <1>1 DEF Done, WithPending
<1>3. Done(o) \in Observers(m) /\ Grows(o, Done(o)) /\ Done(o).buffer = o.buffer
  BY DEF Done, Observers, Grows
<1> QED
  BY <1>2, <1>3

\* Finishing an event only adds, beside the buffer and the pending bytes.
LEMMA EventFacts ==
  ASSUME NEW m, NEW o \in Observers(m)
  PROVE  /\ FinishEvent(o) \in Observers(m) /\ Grows(o, FinishEvent(o))
         /\ FinishEvent(o).buffer = o.buffer
         /\ \A x : FinishEvent(WithPending(o, x)) = WithPending(FinishEvent(o), x)
<1> DEFINE text == FlattenSeq(o.sse)
<1>1. text \in Seq(Symbols) /\ \A x : WithPending(o, x).sse = o.sse
  BY FlattenType DEF Observers, WithPending
<1>2. Cleared(o) \in Observers(m) /\ Grows(o, Cleared(o)) /\ Cleared(o).buffer = o.buffer
  BY ClearedFacts
<1>3. CASE o.sse = <<>>
  BY <1>1, <1>3 DEF FinishEvent, Grows
<1>4. CASE o.sse # <<>> /\ text = <<"[DONE]">>
  <2>1. \A p : p.sse = o.sse => FinishEvent(p) = Done(Cleared(p))
    BY <1>4 DEF FinishEvent, Cleared, Done
  <2>2. FinishEvent(o) = Done(Cleared(o))
    BY <2>1
  <2>3. \A x : FinishEvent(WithPending(o, x)) = WithPending(Done(Cleared(o)), x)
    BY <1>1, <1>2, <2>1, ClearedFacts, DoneFacts
  <2> QED
    BY <1>2, <2>2, <2>3, DoneFacts, GrowsOn
<1>5. CASE o.sse # <<>> /\ text # <<"[DONE]">>
  <2>1. \A p : p.sse = o.sse => FinishEvent(p) = ParseText(Cleared(p), text)
    BY <1>5 DEF FinishEvent, Cleared
  <2> HIDE DEF text
  <2>2. FinishEvent(o) = ParseText(Cleared(o), text)
    BY <2>1
  <2>3. \A x : FinishEvent(WithPending(o, x)) = WithPending(ParseText(Cleared(o), text), x)
    BY <1>1, <1>2, <2>1, ClearedFacts, ParseFacts
  <2> QED
    BY <1>1, <1>2, <2>2, <2>3, ParseFacts, GrowsOn
<1> QED
  BY <1>3, <1>4, <1>5

\* A line without its carriage return is still a sequence of symbols.
LEMMA WithoutCrType ==
  ASSUME NEW line \in Seq(Symbols)
  PROVE  WithoutCr(line) \in Seq(Symbols)
<1>1. Len(line) \in Nat /\ \A i \in 1..(Len(line) - 1) : line[i] \in Symbols
  BY LenProperties, ElementOfSeq
<1>2. SubSeq(line, 1, Len(line) - 1) \in Seq(Symbols)
  BY <1>1, SubSeqProperties
<1> QED
  BY <1>2 DEF WithoutCr

WithData(o, x) == [o EXCEPT !.sse = Append(@, x)]

\* One more data line joins the event's lines and touches nothing else.
LEMMA DataFacts ==
  ASSUME NEW m, NEW o \in Observers(m), NEW t \in Seq(Symbols)
  PROVE  /\ WithData(o, t) \in Observers(m) /\ Grows(o, WithData(o, t))
         /\ WithData(o, t).buffer = o.buffer /\ WithData(o, t).sse = Append(o.sse, t)
         /\ \A x : WithData(WithPending(o, x), t) = WithPending(WithData(o, t), x)
<1>1. Append(o.sse, t) \in Seq(Seq(Symbols))
  BY AppendProperties DEF Observers
<1>2. o = [k \in DOMAIN o |-> o[k]] /\ {"sse", "pending"} \subseteq DOMAIN o
  BY DEF Observers
<1>3. \A x : WithPending(o, x).sse = o.sse
  BY DEF WithPending, Observers
<1>4. \A x : WithData(WithPending(o, x), t) = WithPending(WithData(o, t), x)
  BY <1>2, <1>3 DEF WithData, WithPending
<1>5. WithData(o, t) \in Observers(m) /\ Grows(o, WithData(o, t)) /\ WithData(o, t).buffer = o.buffer
      /\ WithData(o, t).sse = Append(o.sse, t)
  BY <1>1 DEF WithData, Observers, Grows
<1> QED
  BY <1>4, <1>5

\* Reading a line only adds, beside the buffer and the pending bytes.
LEMMA LineFacts ==
  ASSUME NEW m, NEW o \in Observers(m), NEW raw \in Seq(Symbols)
  PROVE  /\ Line(o, raw) \in Observers(m) /\ Grows(o, Line(o, raw))
         /\ Line(o, raw).buffer = o.buffer
         /\ \A x : Line(WithPending(o, x), raw) = WithPending(Line(o, raw), x)
<1> DEFINE line == WithoutCr(raw)
<1>1. line \in Seq(Symbols) /\ \A x : WithPending(o, x).mode = m /\ o.mode = m
  BY WithoutCrType DEF Observers, WithPending
<1>2. CASE m # "openai"
  <2>1. \A p : p.mode = m => Line(p, raw) = ParseText(p, line)
    BY <1>2 DEF Line
  <2> HIDE DEF line
  <2> QED
    BY <1>1, <2>1, ParseFacts
<1>3. CASE m = "openai" /\ line = <<>>
  <2>1. \A p : p.mode = m => Line(p, raw) = FinishEvent(p)
    BY <1>3 DEF Line
  <2> HIDE DEF line
  <2> QED
    BY <1>1, <2>1, EventFacts
<1>4. CASE m = "openai" /\ line # <<>> /\ line[1] = "data:"
  <2>1. \A p : p.mode = m => Line(p, raw) = WithData(p, Tail(line))
    BY <1>4 DEF Line, WithData
  <2>2. Tail(line) \in Seq(Symbols)
    BY <1>1, <1>4, HeadTailProperties
  <2> DEFINE t == Tail(line)
  <2> HIDE DEF line, t
  <2>3. /\ WithData(o, t) \in Observers(m) /\ Grows(o, WithData(o, t))
        /\ WithData(o, t).buffer = o.buffer
        /\ \A x : WithData(WithPending(o, x), t) = WithPending(WithData(o, t), x)
    BY <2>2, DataFacts DEF t
  <2>4. Line(o, raw) = WithData(o, t) /\ \A x : Line(WithPending(o, x), raw) = WithData(WithPending(o, x), t)
    BY <1>1, <2>1 DEF t
  <2> QED
    BY <2>3, <2>4
<1>5. CASE m = "openai" /\ line # <<>> /\ line[1] = ":"
  <2>1. \A p : p.mode = m => Line(p, raw) = p
    BY <1>5 DEF Line
  <2> HIDE DEF line
  <2> QED
    BY <1>1, <2>1 DEF Grows
<1>6. CASE m = "openai" /\ line # <<>> /\ line[1] # "data:" /\ line[1] # ":"
  <2>1. \A p : p.mode = m => Line(p, raw) = Fault(p, "malformed SSE line")
    BY <1>6 DEF Line
  <2>2. "malformed SSE line" \in Faults
    BY DEF Faults
  <2> HIDE DEF line
  <2> DEFINE e == "malformed SSE line"
  <2> HIDE DEF e
  <2>3. /\ Fault(o, e) \in Observers(m) /\ Grows(o, Fault(o, e)) /\ Fault(o, e).buffer = o.buffer
        /\ \A x : Fault(WithPending(o, x), e) = WithPending(Fault(o, e), x)
    BY <2>2, FaultFacts DEF e
  <2>4. Line(o, raw) = Fault(o, e) /\ \A x : Line(WithPending(o, x), raw) = Fault(WithPending(o, x), e)
    BY <1>1, <2>1 DEF e
  <2> QED
    BY <2>3, <2>4
<1> QED
  BY <1>2, <1>3, <1>4, <1>5, <1>6

WithBuffer(o, b) == [o EXCEPT !.buffer = b]

\* Replacing the buffer leaves an observer with that buffer.
LEMMA BufferSet ==
  ASSUME NEW m, NEW o \in Observers(m), NEW b \in Seq(Symbols)
  PROVE  /\ WithBuffer(o, b) \in Observers(m) /\ Grows(o, WithBuffer(o, b))
         /\ WithBuffer(o, b).buffer = b
BY DEF WithBuffer, Observers, Grows

\* The buffer and the pending bytes are set independently.
LEMMA BufferBeside ==
  ASSUME NEW m, NEW o \in Observers(m), NEW b, NEW x
  PROVE  /\ WithBuffer(WithPending(o, x), b) = WithPending(WithBuffer(o, b), x)
         /\ WithPending(o, x).buffer = o.buffer
<1>1. o = [k \in DOMAIN o |-> o[k]] /\ {"buffer", "pending"} \subseteq DOMAIN o
  BY DEF Observers
<1>2. WithBuffer(WithPending(o, x), b) = WithPending(WithBuffer(o, b), x)
  BY <1>1 DEF WithBuffer, WithPending
<1>3. WithPending(o, x).buffer = o.buffer
  BY DEF Observers, WithPending
<1> QED
  BY <1>2, <1>3

\* Setting the buffer to what it holds changes nothing.
LEMMA BufferOwn ==
  ASSUME NEW m, NEW o \in Observers(m)
  PROVE  WithBuffer(o, o.buffer) = o
BY DEF WithBuffer, Observers

\* The second of two settings of the buffer is the one that counts.
LEMMA BufferTwice ==
  ASSUME NEW m, NEW o \in Observers(m), NEW b, NEW c
  PROVE  WithBuffer(WithBuffer(o, c), b) = WithBuffer(o, b)
BY DEF WithBuffer, Observers

\* A symbol other than a newline joins the buffer; a newline reads the buffer as a line
\* and empties it.
LEMMA SymbolFacts ==
  ASSUME NEW m, NEW o \in Observers(m), NEW c \in Symbols
  PROVE  /\ Symbol(o, c) \in Observers(m) /\ Grows(o, Symbol(o, c))
         /\ \A x : Symbol(WithPending(o, x), c) = WithPending(Symbol(o, c), x)
         /\ c = "nl" => Symbol(o, c) = Line(WithBuffer(o, <<>>), o.buffer)
                        /\ Symbol(o, c).buffer = <<>>
         /\ c # "nl" => Symbol(o, c) = WithBuffer(o, Append(o.buffer, c))
<1>1. o.buffer \in Seq(Symbols) /\ Append(o.buffer, c) \in Seq(Symbols) /\ <<>> \in Seq(Symbols)
  BY AppendProperties, EmptySeq DEF Observers
<1>2. \A x : WithPending(o, x).buffer = o.buffer
  BY BufferBeside
<1>3. CASE c = "nl"
  <2> DEFINE p == WithBuffer(o, <<>>)
  <2>1. p \in Observers(m) /\ Grows(o, p) /\ p.buffer = <<>>
        /\ \A x : WithBuffer(WithPending(o, x), <<>>) = WithPending(p, x)
    <3>1. WithBuffer(o, <<>>) \in Observers(m) /\ Grows(o, WithBuffer(o, <<>>))
          /\ WithBuffer(o, <<>>).buffer = <<>>
      BY <1>1, BufferSet
    <3>2. \A x : WithBuffer(WithPending(o, x), <<>>) = WithPending(WithBuffer(o, <<>>), x)
      BY BufferBeside
    <3> QED
      BY <3>1, <3>2
  <2>2. \A q : Symbol(q, c) = Line(WithBuffer(q, <<>>), q.buffer)
    BY <1>3 DEF Symbol, WithBuffer
  <2> HIDE DEF p
  <2>3. /\ Line(p, o.buffer) \in Observers(m) /\ Grows(p, Line(p, o.buffer))
        /\ Line(p, o.buffer).buffer = <<>>
        /\ \A x : Line(WithPending(p, x), o.buffer) = WithPending(Line(p, o.buffer), x)
    BY <1>1, <2>1, LineFacts
  <2>4. Symbol(o, c) = Line(p, o.buffer)
    BY <2>2 DEF p
  <2>5. Grows(o, Symbol(o, c))
    BY <2>1, <2>3, <2>4, GrowsOn
  <2>6. \A x : Symbol(WithPending(o, x), c) = WithPending(Symbol(o, c), x)
    BY <1>2, <2>1, <2>2, <2>3, <2>4
  <2> QED
    BY <1>3, <2>3, <2>4, <2>5, <2>6 DEF p
<1>4. CASE c # "nl"
  <2> DEFINE b == Append(o.buffer, c)
  <2>1. \A q : q.buffer = o.buffer => Symbol(q, c) = WithBuffer(q, b)
    BY <1>4 DEF Symbol, WithBuffer
  <2>2. b \in Seq(Symbols) /\ Symbol(o, c) = WithBuffer(o, b)
    BY <1>1, <2>1
  <2> HIDE DEF b
  <2>3. \A x : Symbol(WithPending(o, x), c) = WithPending(Symbol(o, c), x)
    <3>1. \A x : WithBuffer(WithPending(o, x), b) = WithPending(WithBuffer(o, b), x)
      BY BufferBeside
    <3> QED
      BY <1>2, <2>1, <2>2, <3>1
  <2>4. WithBuffer(o, b) \in Observers(m) /\ Grows(o, WithBuffer(o, b))
    BY <2>2, BufferSet
  <2> QED
    BY <1>4, <2>2, <2>3, <2>4 DEF b
<1> QED
  BY <1>3, <1>4

\* What holds of one symbol holds of a whole text: only additions, beside the pending
\* bytes.
LEMMA AfterFacts ==
  ASSUME NEW m, NEW o \in Observers(m), NEW s \in Seq(Symbols)
  PROVE  /\ After(o, s) \in Observers(m) /\ Grows(o, After(o, s))
         /\ \A x : After(WithPending(o, x), s) = WithPending(After(o, s), x)
<1> DEFINE Ok(t) == /\ After(o, t) \in Observers(m) /\ Grows(o, After(o, t))
                    /\ \A x : After(WithPending(o, x), t) = WithPending(After(o, t), x)
           T == {t \in Seq(Symbols) : Ok(t)}
<1>1. <<>> \in T
  <2>1. Ok(<<>>)
    BY AfterEmpty DEF Grows
  <2> QED
    BY <2>1, EmptySeq
<1>2. ASSUME NEW t \in Seq(Symbols), NEW c \in Symbols, t \in T PROVE Append(t, c) \in T
  <2>1. Ok(t)
    BY <1>2
  <2>2. \A p : After(p, Append(t, c)) = Symbol(After(p, t), c)
    BY AfterAppend
  <2>3. Ok(Append(t, c))
    BY <2>1, <2>2, SymbolFacts, GrowsOn
  <2> HIDE DEF Ok
  <2> QED
    BY <2>3, AppendProperties
<1>3. Seq(Symbols) \subseteq T
  <2> HIDE DEF T
  <2> QED
    BY <1>1, <1>2, SeqInduction
<1> QED
  BY <1>3

----------------------------------------------------------------------------
(* What a sequence of members says.                                        *)

Shown(c) == IF c \in Visible THEN <<c>> ELSE <<>>

\* What a client sees of one symbol is a sequence of symbols.
LEMMA ShownType == ASSUME NEW c \in Symbols PROVE Shown(c) \in Seq(Symbols)
<1>1. <<c>> \in Seq(Symbols) /\ <<>> \in Seq(Symbols)
  OBVIOUS
<1> QED
  BY <1>1 DEF Shown

\* A client sees nothing of nothing.
LEMMA ContentEmpty == Content(<<>>) = <<>>
<1> DEFINE e == <<>>
           ss == [i \in DOMAIN e |-> IF e[i] \in Visible THEN <<e[i]>> ELSE <<>>]
<1>1. ss = <<>>
  OBVIOUS
<1>2. Content(e) = FlattenSeq(ss)
  BY DEF Content
<1> QED
  BY <1>1, <1>2, FlattenEmpty

\* What a map makes of a sequence, put together.
Maps(f, E, S) == f \in [E -> Seq(S)]
Mapped(f, s) == FlattenSeq([i \in DOMAIN s |-> f[s[i]]])

\* Mapping a sequence with one more element adds that element's image at the end.
LEMMA MapAppend ==
  ASSUME NEW S, NEW E, NEW f, Maps(f, E, S), NEW s \in Seq(E), NEW c \in E
  PROVE  /\ Mapped(f, s) \in Seq(S)
         /\ Mapped(f, Append(s, c)) = Mapped(f, s) \o f[c]
<1> DEFINE t == Append(s, c)
           ss == [i \in DOMAIN s |-> f[s[i]]]
           tt == [i \in DOMAIN t |-> f[t[i]]]
           n == Len(s)
<1>0. f \in [E -> Seq(S)]
  BY DEF Maps
<1>1. /\ n \in Nat /\ DOMAIN s = 1..n /\ DOMAIN t = 1..(n + 1) /\ t[n + 1] = c
      /\ (\A i \in 1..n : t[i] = s[i] /\ s[i] \in E) /\ t \in Seq(E)
  BY AppendProperties, LenProperties, ElementOfSeq
<1> HIDE DEF t, n
<1>2. ss \in Seq(Seq(S)) /\ Len(ss) = n /\ \A i \in 1..n : ss[i] = f[s[i]]
  BY <1>0, <1>1
<1>3. tt \in Seq(Seq(S)) /\ Len(tt) = n + 1 /\ \A i \in 1..(n + 1) : tt[i] = f[t[i]]
  <2>1. \A i \in 1..(n + 1) : t[i] \in E
    BY <1>1
  <2> QED
    BY <1>0, <1>1, <2>1
<1>4. f[c] \in Seq(S)
  BY <1>0
<1> HIDE DEF ss, tt
<1> DEFINE uu == Append(ss, f[c])
<1>5. /\ uu \in Seq(Seq(S)) /\ Len(uu) = n + 1 /\ uu[n + 1] = f[c]
      /\ \A i \in 1..n : uu[i] = ss[i]
  BY <1>2, <1>4, AppendProperties
<1> HIDE DEF uu
<1>6. \A i \in 1..(n + 1) : tt[i] = uu[i]
  <2> TAKE i \in 1..(n + 1)
  <2>1. CASE i = n + 1
    BY <1>1, <1>3, <1>5, <2>1
  <2>2. CASE i # n + 1
    <3>1. i \in 1..n
      BY <1>1, <2>2
    <3>2. tt[i] = f[t[i]] /\ t[i] = s[i] /\ uu[i] = ss[i] /\ ss[i] = f[s[i]]
      BY <1>1, <1>2, <1>3, <1>5, <3>1
    <3> QED
      BY <3>2
  <2> QED
    BY <2>1, <2>2
<1>7. tt = uu
  BY <1>3, <1>5, <1>6, SeqEqual
<1>8. FlattenSeq(tt) = FlattenSeq(ss) \o f[c] /\ FlattenSeq(ss) \in Seq(S)
  BY <1>2, <1>4, <1>7, FlattenAppend, FlattenType DEF uu
<1> QED
  BY <1>8 DEF ss, tt, t, Mapped

\* One more symbol adds what a client sees of it.
LEMMA ContentAppend ==
  ASSUME NEW s \in Seq(Symbols), NEW c \in Symbols
  PROVE  Content(Append(s, c)) = Content(s) \o Shown(c)
<1> DEFINE g == [x \in Symbols |-> Shown(x)]  t == Append(s, c)
<1>1. g \in [Symbols -> Seq(Symbols)] /\ g[c] = Shown(c)
  BY ShownType
<1>2. t \in Seq(Symbols)
  BY AppendProperties
<1>3. \A r \in Seq(Symbols) : Content(r) = Mapped(g, r)
  <2> TAKE r \in Seq(Symbols)
  <2>1. \A i \in DOMAIN r : g[r[i]] = IF r[i] \in Visible THEN <<r[i]>> ELSE <<>>
    BY ElementOfSeq, LenProperties DEF Shown
  <2> QED
    BY <2>1 DEF Content, Mapped
<1> HIDE DEF g
<1>4. Mapped(g, t) = Mapped(g, s) \o g[c]
  <2>1. Maps(g, Symbols, Symbols)
    BY <1>1 DEF Maps
  <2>2. Mapped(g, Append(s, c)) = Mapped(g, s) \o g[c]
    BY <2>1, MapAppend
  <2> QED
    BY <2>2
<1> QED
  BY <1>1, <1>2, <1>3, <1>4 DEF t

\* What a client sees of two texts is what it sees of each, in order.
LEMMA ContentConcat ==
  ASSUME NEW s \in Seq(Symbols), NEW t \in Seq(Symbols)
  PROVE  Content(s \o t) = Content(s) \o Content(t)
<1> DEFINE T == {u \in Seq(Symbols) : Content(s \o u) = Content(s) \o Content(u)}
<1>1. <<>> \in T
  BY ContentEmpty, ContentType, EmptySeq, ConcatEmptySeq
<1>2. ASSUME NEW u \in Seq(Symbols), NEW c \in Symbols, u \in T PROVE Append(u, c) \in T
  <2>1. s \o Append(u, c) = Append(s \o u, c) /\ Append(u, c) \in Seq(Symbols)
    BY AppendProperties
  <2>2. s \o u \in Seq(Symbols) /\ Shown(c) \in Seq(Symbols) /\ Content(s) \in Seq(Symbols)
        /\ Content(u) \in Seq(Symbols)
    BY ConcatProperties, ShownType, ContentType
  <2>3. Content(Append(s \o u, c)) = Content(s \o u) \o Shown(c)
    BY <2>2, ContentAppend
  <2>4. Content(Append(u, c)) = Content(u) \o Shown(c)
    BY ContentAppend
  <2>5. (Content(s) \o Content(u)) \o Shown(c) = Content(s) \o (Content(u) \o Shown(c))
    <3> DEFINE a == Content(s)  b == Content(u)  d == Shown(c)
    <3>1. a \in Seq(Symbols) /\ b \in Seq(Symbols) /\ d \in Seq(Symbols)
      BY <2>2
    <3> HIDE DEF a, b, d
    <3>2. Joined(a, b, d)
      BY <3>1, Joining
    <3> QED
      BY ONLY <3>2 DEF a, b, d, Joined
  <2> QED
    BY <1>2, <2>1, <2>3, <2>4, <2>5
<1>3. Seq(Symbols) \subseteq T
  <2> HIDE DEF T
  <2> QED
    BY <1>1, <1>2, SeqInduction
<1> QED
  BY <1>3

\* A member stands in a concatenation when it stands in one of the parts.
LEMMA HoldsConcat ==
  ASSUME NEW S, NEW s \in Seq(S), NEW t \in Seq(S), NEW m
  PROVE  Holds(s \o t, m) <=> Holds(s, m) \/ Holds(t, m)
<1>1. /\ Len(s) \in Nat /\ Len(t) \in Nat /\ DOMAIN s = 1..Len(s) /\ DOMAIN t = 1..Len(t)
      /\ DOMAIN (s \o t) = 1..(Len(s) + Len(t))
      /\ \A i \in 1..(Len(s) + Len(t)) : (s \o t)[i] = IF i <= Len(s) THEN s[i] ELSE t[i - Len(s)]
  BY ConcatProperties, LenProperties
<1>2. ASSUME NEW i \in DOMAIN t, t[i] = m PROVE Holds(s \o t, m)
  <2>1. i + Len(s) \in DOMAIN (s \o t) /\ (s \o t)[i + Len(s)] = t[i]
    BY <1>1
  <2> QED
    BY <1>2, <2>1 DEF Holds
<1>3. ASSUME NEW i \in DOMAIN s, s[i] = m PROVE Holds(s \o t, m)
  <2>1. i \in DOMAIN (s \o t) /\ (s \o t)[i] = s[i]
    BY <1>1
  <2> QED
    BY <1>3, <2>1 DEF Holds
<1>4. ASSUME NEW i \in DOMAIN (s \o t), (s \o t)[i] = m PROVE Holds(s, m) \/ Holds(t, m)
  <2>1. CASE i <= Len(s)
    BY <1>1, <1>4, <2>1 DEF Holds
  <2>2. CASE ~(i <= Len(s))
    <3>1. i - Len(s) \in DOMAIN t /\ t[i - Len(s)] = m
      BY <1>1, <1>4, <2>2
    <3> QED
      BY <3>1 DEF Holds
  <2> QED
    BY <2>1, <2>2
<1> QED
  BY <1>2, <1>3, <1>4 DEF Holds

\* Content is no longer than its text, and is not empty exactly when something visible
\* stands in it.
LEMMA ContentSize ==
  ASSUME NEW s \in Seq(Symbols)
  PROVE  Len(Content(s)) <= Len(s) /\ (Content(s) # <<>> <=> \E m \in Visible : Holds(s, m))
<1> DEFINE Ok(u) == Len(Content(u)) <= Len(u)
                      /\ (Content(u) # <<>> <=> \E m \in Visible : Holds(u, m))
           T == {u \in Seq(Symbols) : Ok(u)}
<1>1. <<>> \in T
  <2>1. Ok(<<>>)
    BY ContentEmpty DEF Holds
  <2> QED
    BY <2>1, EmptySeq
<1>2. ASSUME NEW u \in Seq(Symbols), NEW c \in Symbols, u \in T PROVE Append(u, c) \in T
  <2>1. Append(u, c) \in Seq(Symbols) /\ Len(Append(u, c)) = Len(u) + 1 /\ Append(u, c) = u \o <<c>>
    BY AppendProperties, AppendIsConcat
  <2>2. Content(Append(u, c)) = Content(u) \o Shown(c) /\ Content(u) \in Seq(Symbols)
        /\ Shown(c) \in Seq(Symbols)
    BY ContentAppend, ContentType, ShownType
  <2>3. \A m : Holds(<<c>>, m) <=> m = c
    BY DEF Holds
  <2>4. \A m : Holds(Append(u, c), m) <=> Holds(u, m) \/ m = c
    <3>1. <<c>> \in Seq(Symbols)
      OBVIOUS
    <3>2. \A m : Holds(u \o <<c>>, m) <=> Holds(u, m) \/ Holds(<<c>>, m)
      BY <3>1, HoldsConcat
    <3> QED
      BY <2>1, <2>3, <3>2
  <2>5. Len(Shown(c)) <= 1 /\ Len(Shown(c)) \in Nat /\ (Shown(c) # <<>> <=> c \in Visible)
    BY DEF Shown
  <2>6. Len(Content(u)) \in Nat /\ Len(u) \in Nat
    BY <2>2, LenProperties
  <2>7. Len(Content(u) \o Shown(c)) = Len(Content(u)) + Len(Shown(c))
    BY <2>2, ConcatProperties
  <2>8. Content(u) \o Shown(c) = <<>> <=> Content(u) = <<>> /\ Shown(c) = <<>>
    BY <2>2, ConcatEqualIffEmpty
  <2>9. Len(Content(Append(u, c))) <= Len(Append(u, c))
    BY <1>2, <2>1, <2>2, <2>5, <2>6, <2>7
  <2>10. Content(Append(u, c)) # <<>> <=> \E m \in Visible : Holds(Append(u, c), m)
    BY <1>2, <2>2, <2>4, <2>5, <2>8
  <2> QED
    BY <2>1, <2>9, <2>10
<1>3. Seq(Symbols) \subseteq T
  <2> HIDE DEF T
  <2> QED
    BY <1>1, <1>2, SeqInduction
<1> QED
  BY <1>3

\* The tail that is kept has at most n elements: the last ones, in order.
LEMMA LastOfFacts ==
  ASSUME NEW S, NEW s \in Seq(S), NEW n \in Nat
  PROVE  /\ LastOf(s, n) \in Seq(S)
         /\ Len(LastOf(s, n)) = IF Len(s) <= n THEN Len(s) ELSE n
         /\ \A i \in 1..Len(LastOf(s, n)) :
              LastOf(s, n)[i] = s[i + (Len(s) - Len(LastOf(s, n)))]
<1>1. CASE Len(s) <= n
  BY <1>1, LenProperties DEF LastOf
<1>2. CASE ~(Len(s) <= n)
  <2> DEFINE k == Len(s) - n + 1
  <2>1. Len(s) \in Nat /\ k \in Int /\ \A i \in k..Len(s) : s[i] \in S
    BY <1>2, ElementOfSeq, LenProperties
  <2>2. /\ SubSeq(s, k, Len(s)) \in Seq(S)
        /\ Len(SubSeq(s, k, Len(s))) = n
        /\ \A i \in 1..n : SubSeq(s, k, Len(s))[i] = s[i + (Len(s) - n)]
    BY <1>2, <2>1, SubSeqProperties
  <2> QED
    BY <1>2, <2>2 DEF LastOf
<1> QED
  BY <1>1, <1>2

\* Cutting to the tail early and then again is cutting once at the end.
LEMMA LastOfLast ==
  ASSUME NEW S, NEW s \in Seq(S), NEW t \in Seq(S), NEW n \in Nat
  PROVE  LastOf(LastOf(s, n) \o t, n) = LastOf(s \o t, n)
<1> DEFINE l == LastOf(s, n)  u == l \o t  v == s \o t  a == LastOf(u, n)  b == LastOf(v, n)
<1>1. /\ l \in Seq(S) /\ Len(l) \in Nat /\ Len(s) \in Nat /\ Len(t) \in Nat
      /\ Len(l) = IF Len(s) <= n THEN Len(s) ELSE n
      /\ \A i \in 1..Len(l) : l[i] = s[i + (Len(s) - Len(l))]
  BY LastOfFacts, LenProperties
<1> HIDE DEF l
<1>2. /\ u \in Seq(S) /\ Len(u) = Len(l) + Len(t)
      /\ \A i \in 1..Len(u) : u[i] = IF i <= Len(l) THEN l[i] ELSE t[i - Len(l)]
  <2>1. l \in Seq(S)
    BY <1>1
  <2> QED
    BY <2>1, ConcatProperties
<1>3. /\ v \in Seq(S) /\ Len(v) = Len(s) + Len(t)
      /\ \A i \in 1..Len(v) : v[i] = IF i <= Len(s) THEN s[i] ELSE t[i - Len(s)]
  BY <1>1, ConcatProperties
<1> HIDE DEF u, v
<1>4. /\ a \in Seq(S) /\ Len(a) = IF Len(u) <= n THEN Len(u) ELSE n
      /\ \A i \in 1..Len(a) : a[i] = u[i + (Len(u) - Len(a))]
  BY <1>2, LastOfFacts
<1>5. /\ b \in Seq(S) /\ Len(b) = IF Len(v) <= n THEN Len(v) ELSE n
      /\ \A i \in 1..Len(b) : b[i] = v[i + (Len(v) - Len(b))]
  BY <1>3, LastOfFacts
<1> HIDE DEF a, b
<1>6. Len(a) = Len(b)
  BY <1>1, <1>2, <1>3, <1>4, <1>5
<1>7. ASSUME NEW i \in 1..Len(a) PROVE a[i] = b[i]
  <2> DEFINE j == i + (Len(u) - Len(a))  k == i + (Len(v) - Len(b))
  <2>1. Len(a) \in Nat /\ Len(a) <= Len(u) /\ Len(b) <= Len(v) /\ Len(u) \in Nat /\ Len(v) \in Nat
    BY <1>1, <1>2, <1>3, <1>4, <1>5
  <2>2. j \in 1..Len(u) /\ k \in 1..Len(v)
    BY <1>6, <2>1
  <2>3. k = j + (Len(s) - Len(l)) /\ j - Len(l) = k - Len(s)
    <3>1. /\ Len(u) = Len(l) + Len(t) /\ Len(v) = Len(s) + Len(t)
          /\ Len(l) \in Nat /\ Len(s) \in Nat /\ Len(t) \in Nat
      BY <1>1, <1>2, <1>3
    <3> QED
      BY <1>6, <2>1, <3>1
  <2>4. a[i] = u[j] /\ b[i] = v[k]
    BY <1>4, <1>5, <1>6
  <2>5. j \in Nat /\ k \in Nat
    BY <2>1, <2>2
  <2> HIDE DEF j, k
  <2>6. CASE j <= Len(l)
    <3>1. u[j] = l[j] /\ j \in 1..Len(l)
      BY <1>1, <1>2, <2>2, <2>5, <2>6
    <3>2. l[j] = s[k]
      BY <1>1, <2>3, <3>1
    <3>3. k <= Len(s)
      BY <1>1, <2>3, <2>5, <2>6
    <3>4. v[k] = s[k]
      BY <1>3, <2>2, <3>3
    <3> QED
      BY <2>4, <3>1, <3>2, <3>4
  <2>7. CASE ~(j <= Len(l))
    <3>1. u[j] = t[j - Len(l)]
      BY <1>2, <2>2, <2>7
    <3>2. ~(k <= Len(s))
      BY <1>1, <2>3, <2>5, <2>7
    <3>3. v[k] = t[k - Len(s)]
      BY <1>3, <2>2, <3>2
    <3> QED
      BY <2>3, <2>4, <3>1, <3>3
  <2> QED
    BY <2>6, <2>7
<1>8. a = b
  BY <1>4, <1>5, <1>6, <1>7, SeqEqual
<1> QED
  BY <1>8 DEF a, b, u, v, l

\* Two neighbours are in one part, or among the last of what was seen once the second
\* part has come, if that is short enough.
LEMMA AdjacentConcat ==
  ASSUME NEW S, NEW s \in Seq(S), NEW t \in Seq(S), NEW n \in Nat, Len(t) < n, NEW x, NEW y
  PROVE  Adjacent(s \o t, x, y) <=>
           Adjacent(s, x, y) \/ Adjacent(t, x, y) \/ Adjacent(LastOf(s \o t, n), x, y)
<1> DEFINE v == s \o t  b == LastOf(v, n)
<1>1. /\ Len(s) \in Nat /\ Len(t) \in Nat /\ v \in Seq(S) /\ Len(v) = Len(s) + Len(t)
      /\ \A i \in 1..Len(v) : v[i] = IF i <= Len(s) THEN s[i] ELSE t[i - Len(s)]
  BY ConcatProperties, LenProperties
<1> HIDE DEF v
<1>2. /\ b \in Seq(S) /\ Len(b) = IF Len(v) <= n THEN Len(v) ELSE n
      /\ \A i \in 1..Len(b) : b[i] = v[i + (Len(v) - Len(b))]
  BY <1>1, LastOfFacts
<1> HIDE DEF b
<1>3. ASSUME NEW i \in 1..(Len(s) - 1), s[i] = x, s[i + 1] = y PROVE Adjacent(v, x, y)
  <2>1. i \in 1..(Len(v) - 1) /\ v[i] = x /\ v[i + 1] = y
    BY <1>1, <1>3
  <2> QED
    BY <2>1 DEF Adjacent
<1>4. ASSUME NEW i \in 1..(Len(t) - 1), t[i] = x, t[i + 1] = y PROVE Adjacent(v, x, y)
  <2> DEFINE j == i + Len(s)
  <2>1. /\ j \in 1..(Len(v) - 1) /\ j \in 1..Len(v) /\ j + 1 \in 1..Len(v)
        /\ ~(j <= Len(s)) /\ ~(j + 1 <= Len(s)) /\ j - Len(s) = i /\ (j + 1) - Len(s) = i + 1
    BY <1>1
  <2> HIDE DEF j
  <2>2. v[j] = t[j - Len(s)] /\ v[j + 1] = t[(j + 1) - Len(s)]
    BY <1>1, <2>1
  <2>3. v[j] = x /\ v[j + 1] = y
    BY <1>4, <2>1, <2>2
  <2> QED
    BY <2>1, <2>3 DEF Adjacent
<1>5. ASSUME NEW i \in 1..(Len(b) - 1), b[i] = x, b[i + 1] = y PROVE Adjacent(v, x, y)
  <2> DEFINE d == Len(v) - Len(b)  j == i + d
  <2>1. Len(b) \in Nat /\ Len(v) \in Nat /\ d \in Nat
    BY <1>1, <1>2
  <2>2. j \in 1..(Len(v) - 1) /\ (i + 1) + d = j + 1 /\ i \in 1..Len(b) /\ i + 1 \in 1..Len(b)
    BY <2>1
  <2>3. b[i] = v[i + d] /\ b[i + 1] = v[(i + 1) + d]
    BY <1>2, <2>2
  <2> HIDE DEF j
  <2>4. v[j] = x /\ v[j + 1] = y
    BY <1>5, <2>2, <2>3 DEF j
  <2> QED
    BY <2>2, <2>4 DEF Adjacent
<1>6. ASSUME NEW i \in 1..(Len(v) - 1), v[i] = x, v[i + 1] = y
      PROVE  Adjacent(s, x, y) \/ Adjacent(t, x, y) \/ Adjacent(b, x, y)
  <2>1. CASE i < Len(s)
    <3>1. i \in 1..(Len(s) - 1) /\ s[i] = x /\ s[i + 1] = y
      BY <1>1, <1>6, <2>1
    <3> QED
      BY <3>1 DEF Adjacent
  <2>2. CASE i > Len(s)
    <3> DEFINE j == i - Len(s)
    <3>1. j \in 1..(Len(t) - 1) /\ t[j] = x /\ t[j + 1] = y
      BY <1>1, <1>6, <2>2
    <3> QED
      BY <3>1 DEF Adjacent
  <2>3. CASE i = Len(s)
    <3> DEFINE d == Len(v) - Len(b)  j == i - d
    <3>1. Len(b) \in Nat /\ Len(v) \in Nat /\ d \in Nat /\ i \in Nat
      BY <1>1, <1>2
    <3>2. d < i
      <4>1. /\ Len(v) = Len(s) + Len(t) /\ Len(s) \in Nat /\ Len(t) \in Nat /\ i >= 1
            /\ (Len(b) = Len(v) \/ Len(b) = n)
        BY <1>1, <1>2
      <4> QED
        BY <2>3, <3>1, <4>1
    <3>3. /\ j \in 1..(Len(b) - 1) /\ j \in 1..Len(b) /\ j + 1 \in 1..Len(b)
          /\ j + d = i /\ (j + 1) + d = i + 1
      BY <3>1, <3>2
    <3> HIDE DEF j
    <3>4. b[j] = v[j + d] /\ b[j + 1] = v[(j + 1) + d]
      BY <1>2, <3>3
    <3>5. b[j] = x /\ b[j + 1] = y
      BY <1>6, <3>3, <3>4
    <3> QED
      BY <3>3, <3>5 DEF Adjacent
  <2> QED
    BY <1>1, <2>1, <2>2, <2>3
<1>7. Adjacent(v, x, y) <=> Adjacent(s, x, y) \/ Adjacent(t, x, y) \/ Adjacent(b, x, y)
  <2>1. Adjacent(v, x, y) => Adjacent(s, x, y) \/ Adjacent(t, x, y) \/ Adjacent(b, x, y)
    BY <1>6 DEF Adjacent
  <2>2. Adjacent(s, x, y) \/ Adjacent(t, x, y) \/ Adjacent(b, x, y) => Adjacent(v, x, y)
    <3>1. ASSUME Adjacent(s, x, y) PROVE Adjacent(v, x, y)
      <4>1. PICK i \in 1..(Len(s) - 1) : s[i] = x /\ s[i + 1] = y
        BY ONLY <3>1 DEF Adjacent
      <4> QED
        BY ONLY <4>1, <1>3
    <3>2. ASSUME Adjacent(t, x, y) PROVE Adjacent(v, x, y)
      <4>1. PICK i \in 1..(Len(t) - 1) : t[i] = x /\ t[i + 1] = y
        BY ONLY <3>2 DEF Adjacent
      <4> QED
        BY ONLY <4>1, <1>4
    <3>3. ASSUME Adjacent(b, x, y) PROVE Adjacent(v, x, y)
      <4>1. PICK i \in 1..(Len(b) - 1) : b[i] = x /\ b[i + 1] = y
        BY ONLY <3>3, Zenon DEF Adjacent
      <4> QED
        BY ONLY <4>1, <1>5
    <3> QED
      BY ONLY <3>1, <3>2, <3>3
  <2> QED
    BY ONLY <2>1, <2>2
<1> QED
  BY <1>7 DEF v, b

----------------------------------------------------------------------------
(* Sequences that begin alike.                                             *)

\* A sequence is its first n elements followed by the others.
LEMMA CutAt ==
  ASSUME NEW S, NEW s \in Seq(S), NEW n \in 0..Len(s)
  PROVE  /\ SubSeq(s, 1, n) \in Seq(S) /\ Len(SubSeq(s, 1, n)) = n
         /\ SubSeq(s, n + 1, Len(s)) \in Seq(S) /\ Len(SubSeq(s, n + 1, Len(s))) = Len(s) - n
         /\ s = SubSeq(s, 1, n) \o SubSeq(s, n + 1, Len(s))
<1>1. Len(s) \in Nat /\ \A i \in 1..Len(s) : s[i] \in S
  BY LenProperties, ElementOfSeq
<1>2. SubSeq(s, 1, n) \in Seq(S) /\ Len(SubSeq(s, 1, n)) = n
  BY <1>1, SubSeqProperties
<1>3. SubSeq(s, n + 1, Len(s)) \in Seq(S) /\ Len(SubSeq(s, n + 1, Len(s))) = Len(s) - n
  BY <1>1, SubSeqProperties
<1>4. SubSeq(s, 1, n) \o SubSeq(s, n + 1, Len(s)) = SubSeq(s, 1, Len(s))
  <2>1. 1 \in 1..(Len(s) + 1) /\ n \in (1 - 1)..Len(s) /\ Len(s) \in n..Len(s)
    BY <1>1
  <2> QED
    BY <2>1, ConcatAdjacentSubSeq
<1>5. SubSeq(s, 1, Len(s)) = s
  BY SubSeqFull
<1> QED
  BY <1>2, <1>3, <1>4, <1>5

\* The start of a concatenation, as long as its first part, is that part.
LEMMA FirstPart ==
  ASSUME NEW S, NEW s \in Seq(S), NEW t \in Seq(S)
  PROVE  SubSeq(s \o t, 1, Len(s)) = s
<1>1. Len(s) \in Nat /\ Len(t) \in Nat
  BY LenProperties
<1>2. CASE s = <<>>
  <2>1. Len(s) = 0
    BY <1>2
  <2> QED
    BY <1>2, <2>1, SubSeqEmpty
<1>3. CASE s # <<>>
  <2>1. 1 \in 1..Len(s) /\ Len(s) \in 1..Len(s)
    BY <1>3, EmptySeq
  <2> QED
    BY <2>1, SubSeqOfConcat1, SubSeqFull
<1> QED
  BY <1>2, <1>3

\* The rest of a concatenation after its first part is its second part.
LEMMA SecondPart ==
  ASSUME NEW S, NEW s \in Seq(S), NEW t \in Seq(S)
  PROVE  SubSeq(s \o t, Len(s) + 1, Len(s \o t)) = t
<1>1. Len(s) \in Nat /\ Len(t) \in Nat /\ Len(s \o t) = Len(s) + Len(t)
  BY LenProperties, ConcatProperties
<1>2. CASE t = <<>>
  <2>1. Len(s \o t) < Len(s) + 1
    BY <1>1, <1>2
  <2> QED
    BY <1>1, <1>2, <2>1, SubSeqEmpty
<1>3. CASE t # <<>>
  <2>1. Len(t) \in Nat \ {0}
    BY <1>3, EmptySeq
  <2> DEFINE a == Len(s) + 1  b == Len(s) + Len(t)
  <2>2. a \in (Len(s) + 1)..(Len(s) + Len(t)) /\ b \in (Len(s) + 1)..(Len(s) + Len(t))
        /\ a - Len(s) = 1 /\ b - Len(s) = Len(t)
    BY <1>1, <2>1
  <2> HIDE DEF a, b
  <2>3. SubSeq(s \o t, a, b) = SubSeq(t, a - Len(s), b - Len(s))
    BY <2>2, SubSeqOfConcat2
  <2>4. SubSeq(s \o t, a, b) = t
    BY <2>2, <2>3, SubSeqFull
  <2> QED
    BY <1>1, <2>4 DEF a, b
<1> QED
  BY <1>2, <1>3

\* Equal concatenations with first parts of one length have equal parts.
LEMMA SameStart ==
  ASSUME NEW S, NEW q \in Seq(S), NEW r \in Seq(S), NEW s \in Seq(S), NEW t \in Seq(S),
         q \o r = s \o t, Len(q) = Len(s)
  PROVE  q = s /\ r = t
<1>1. SubSeq(q \o r, 1, Len(q)) = q /\ SubSeq(s \o t, 1, Len(s)) = s
  BY FirstPart
<1>2. SubSeq(q \o r, Len(q) + 1, Len(q \o r)) = r /\ SubSeq(s \o t, Len(s) + 1, Len(s \o t)) = t
  BY SecondPart
<1> QED
  BY <1>1, <1>2

Alike(b, c, d, e) == b \o c = d \o e
Later(S, b, c, d, e) == \E u \in Seq(S) : b = d \o u /\ e = u \o c

\* Of two ways to cut one text, the later cut extends the earlier one.
LEMMA CutLater ==
  ASSUME NEW S, NEW b \in Seq(S), NEW c \in Seq(S), NEW d \in Seq(S), NEW e \in Seq(S),
         Alike(b, c, d, e), Len(d) <= Len(b)
  PROVE  Later(S, b, c, d, e)
<1> DEFINE head == SubSeq(b, 1, Len(d))  more == SubSeq(b, Len(d) + 1, Len(b))
<1>1. head \in Seq(S) /\ Len(head) = Len(d) /\ more \in Seq(S) /\ b = head \o more
  <2>1. Len(d) \in 0..Len(b)
    BY LenProperties
  <2> QED
    BY ONLY b \in Seq(S), <2>1, CutAt, ZenonT(40)
<1> HIDE DEF head, more
<1>2. (head \o more) \o c = head \o (more \o c)
  <2>1. head \in Seq(S) /\ more \in Seq(S)
    BY <1>1
  <2>2. Joined(head, more, c)
    BY <2>1, Joining
  <2> QED
    BY ONLY <2>2 DEF Joined
<1>3. more \o c \in Seq(S)
  BY <1>1, ConcatProperties
<1>4. head \o (more \o c) = d \o e
  BY <1>1, <1>2 DEF Alike
<1>5. head = d /\ more \o c = e
  BY <1>1, <1>3, <1>4, SameStart
<1> QED
  BY <1>1, <1>5 DEF Later

\* Of two ways to cut a sequence, one cuts first.
LEMMA CutTwice ==
  ASSUME NEW S, NEW q \in Seq(S), NEW r \in Seq(S), NEW s \in Seq(S), NEW t \in Seq(S),
         Alike(q, r, s, t)
  PROVE  Later(S, q, r, s, t) \/ Later(S, s, t, q, r)
<1>1. Alike(s, t, q, r)
  BY DEF Alike
<1>2. Len(s) <= Len(q) \/ Len(q) <= Len(s)
  BY LenProperties
<1> QED
  BY <1>1, <1>2, CutLater

----------------------------------------------------------------------------
(* Characters and their bytes.                                             *)

\* The sequence may end here: no character is unfinished.
Closed(s) == s = <<>> \/ s[Len(s)] # "u1"

\* A start of a decodable text decodes; after a whole character each part decodes by
\* itself.
LEMMA ValidConcat ==
  ASSUME NEW S, NEW s \in Seq(S), NEW t \in Seq(S)
  PROVE  /\ ValidUtf8(s \o t) => ValidUtf8(s)
         /\ Closed(s) => (ValidUtf8(s \o t) <=> ValidUtf8(s) /\ ValidUtf8(t))
<1> DEFINE v == s \o t
<1>1. /\ Len(s) \in Nat /\ Len(t) \in Nat /\ Len(v) = Len(s) + Len(t)
      /\ DOMAIN s = 1..Len(s) /\ DOMAIN t = 1..Len(t) /\ DOMAIN v = 1..Len(v)
      /\ (s = <<>> => Len(s) = 0) /\ (s # <<>> => Len(s) > 0)
  BY ConcatProperties, LenProperties, EmptySeq
<1>2. \A i \in 1..Len(v) : v[i] = IF i <= Len(s) THEN s[i] ELSE t[i - Len(s)]
  BY <1>1, ConcatProperties
<1> HIDE DEF v
<1>3. \A i \in 1..Len(s) : i \in DOMAIN v /\ v[i] = s[i] /\ i \in Nat
  BY <1>1, <1>2
<1>4. \A i \in 1..Len(t) : /\ i + Len(s) \in DOMAIN v /\ v[i + Len(s)] = t[i] /\ i \in Nat
                           /\ (i + 1) + Len(s) = (i + Len(s)) + 1 /\ (i - 1) + Len(s) = (i + Len(s)) - 1
  <2> SUFFICES ASSUME NEW i \in 1..Len(t) PROVE v[i + Len(s)] = t[i]
    BY <1>1
  <2>1. i + Len(s) \in 1..Len(v) /\ ~(i + Len(s) <= Len(s)) /\ (i + Len(s)) - Len(s) = i
    BY <1>1
  <2> QED
    BY <1>2, <2>1
<1>5. ASSUME ValidUtf8(v) PROVE ValidUtf8(s)
  <2> SUFFICES ASSUME NEW i \in 1..Len(s)
               PROVE  /\ s[i] = "u1" /\ i < Len(s) => s[i + 1] = "u2"
                      /\ s[i] = "u2" => i > 1 /\ s[i - 1] = "u1"
    BY <1>1 DEF ValidUtf8
  <2>1. /\ v[i] = "u1" /\ i < Len(v) => v[i + 1] = "u2"
        /\ v[i] = "u2" => i > 1 /\ v[i - 1] = "u1"
    BY <1>3, <1>5 DEF ValidUtf8
  <2>2. i < Len(s) => i + 1 \in 1..Len(s) /\ i < Len(v)
    BY <1>1
  <2>3. i > 1 => i - 1 \in 1..Len(s)
    BY <1>1
  <2> QED
    BY <1>3, <2>1, <2>2, <2>3
<1>6. ASSUME Closed(s), ValidUtf8(v) PROVE ValidUtf8(t)
  <2> SUFFICES ASSUME NEW i \in 1..Len(t)
               PROVE  /\ t[i] = "u1" /\ i < Len(t) => t[i + 1] = "u2"
                      /\ t[i] = "u2" => i > 1 /\ t[i - 1] = "u1"
    BY <1>1 DEF ValidUtf8
  <2> DEFINE j == i + Len(s)
  <2>1. /\ v[j] = "u1" /\ j < Len(v) => v[j + 1] = "u2"
        /\ v[j] = "u2" => j > 1 /\ v[j - 1] = "u1"
    BY <1>4, <1>6 DEF ValidUtf8
  <2>2. i < Len(t) => i + 1 \in 1..Len(t) /\ j < Len(v)
    BY <1>1
  <2>3. i > 1 => i - 1 \in 1..Len(t)
    BY <1>1
  <2>4. v[j] = t[i] /\ (i < Len(t) => v[j + 1] = t[i + 1]) /\ (i > 1 => v[j - 1] = t[i - 1])
    BY <1>4, <2>2, <2>3
  <2>5. ~(i > 1) => j - 1 = Len(s)
    BY <1>1
  <2>6. ~(i > 1) /\ j > 1 => Len(s) \in 1..Len(s) /\ s # <<>>
    BY <1>1
  <2>7. ~(i > 1) /\ j > 1 => v[j - 1] # "u1"
    BY <1>3, <1>6, <2>5, <2>6 DEF Closed
  <2> QED
    BY <2>1, <2>2, <2>4, <2>7
<1>7. ASSUME Closed(s), ValidUtf8(s), ValidUtf8(t) PROVE ValidUtf8(v)
  <2> SUFFICES ASSUME NEW i \in 1..Len(v)
               PROVE  /\ v[i] = "u1" /\ i < Len(v) => v[i + 1] = "u2"
                      /\ v[i] = "u2" => i > 1 /\ v[i - 1] = "u1"
    BY <1>1 DEF ValidUtf8
  <2>1. CASE i <= Len(s)
    <3>1. i \in 1..Len(s) /\ v[i] = s[i]
      BY <1>1, <1>2, <2>1
    <3>2. /\ s[i] = "u1" /\ i < Len(s) => s[i + 1] = "u2"
          /\ s[i] = "u2" => i > 1 /\ s[i - 1] = "u1"
      BY <1>1, <1>7, <3>1 DEF ValidUtf8
    <3>3. i = Len(s) => s[i] # "u1"
      BY <1>1, <1>7, <3>1 DEF Closed
    <3>4. i < Len(s) => v[i + 1] = s[i + 1]
      <4>1. i < Len(s) => i + 1 \in 1..Len(s)
        BY <3>1
      <4> QED
        BY <1>3, <4>1
    <3>5. i > 1 => v[i - 1] = s[i - 1]
      <4>1. i > 1 => i - 1 \in 1..Len(s)
        BY <3>1, <1>1
      <4> QED
        BY <1>3, <4>1
    <3>6. i < Len(s) \/ i = Len(s)
      <4>1. Len(s) \in Nat /\ i \in 1..Len(s)
        BY <1>1, <3>1
      <4> QED
        BY <4>1
    <3> QED
      BY <3>1, <3>2, <3>3, <3>4, <3>5, <3>6
  <2>2. CASE ~(i <= Len(s))
    <3> DEFINE k == i - Len(s)
    <3>1. k \in 1..Len(t) /\ k + Len(s) = i /\ (i < Len(v) => k < Len(t)) /\ (k > 1 => i > 1)
      BY <1>1, <2>2
    <3>2. /\ t[k] = "u1" /\ k < Len(t) => t[k + 1] = "u2"
          /\ t[k] = "u2" => k > 1 /\ t[k - 1] = "u1"
      BY <1>1, <1>7, <3>1 DEF ValidUtf8
    <3> HIDE DEF k
    <3>3. v[i] = t[k]
      BY <1>4, <3>1
    <3>4. k < Len(t) => v[i + 1] = t[k + 1]
      <4>1. k < Len(t) => k + 1 \in 1..Len(t) /\ (k + 1) + Len(s) = i + 1
        BY <1>1, <3>1
      <4> QED
        BY <1>4, <4>1
    <3>5. k > 1 => v[i - 1] = t[k - 1]
      <4>1. k > 1 => k - 1 \in 1..Len(t) /\ (k - 1) + Len(s) = i - 1
        BY <1>1, <3>1
      <4> QED
        BY <1>4, <4>1
    <3> QED
      BY <3>1, <3>2, <3>3, <3>4, <3>5
  <2> QED
    BY <2>1, <2>2
<1>8. /\ ValidUtf8(v) => ValidUtf8(s)
      /\ Closed(s) => (ValidUtf8(v) <=> ValidUtf8(s) /\ ValidUtf8(t))
  BY <1>5, <1>6, <1>7
<1> QED
  BY <1>8 DEF v

\* A text without parts of characters decodes, and leaves nothing unfinished.
LEMMA ValidPlain ==
  ASSUME NEW S, NEW s \in Seq(S), "u1" \notin S, "u2" \notin S
  PROVE  ValidUtf8(s) /\ Closed(s) /\ Unfinished(s) = <<>>
<1>1. Len(s) \in Nat /\ DOMAIN s = 1..Len(s) /\ \A i \in 1..Len(s) : s[i] # "u1" /\ s[i] # "u2"
  BY LenProperties, ElementOfSeq
<1>2. s # <<>> => Len(s) \in 1..Len(s)
  BY EmptySeq
<1> QED
  BY <1>1, <1>2 DEF ValidUtf8, Closed, Unfinished

\* A sequence is its finished part and what the decoder holds back.
LEMMA FinishedIs ==
  ASSUME NEW s \in Seq(Symbols)
  PROVE  /\ Finished(s) \in Seq(Symbols) /\ Unfinished(s) \in Seq(Symbols)
         /\ s = Finished(s) \o Unfinished(s)
         /\ ValidUtf8(s) => Closed(Finished(s)) /\ ValidUtf8(Finished(s))
         /\ Unfinished(s) = <<>> => Finished(s) = s
<1>1. Len(s) \in Nat /\ \A i \in 1..Len(s) : s[i] \in Symbols
  BY LenProperties, ElementOfSeq
<1>2. CASE s # <<>> /\ s[Len(s)] = "u1"
  <2>1. Len(s) \in Nat \ {0}
    BY <1>2, EmptySeq
  <2>2. Unfinished(s) = <<"u1">> /\ Len(Unfinished(s)) = 1
    BY <1>2 DEF Unfinished
  <2>3. Finished(s) = SubSeq(s, 1, Len(s) - 1)
    BY <2>2 DEF Finished
  <2> DEFINE f == SubSeq(s, 1, Len(s) - 1)
  <2>4. /\ f \in Seq(Symbols) /\ Len(f) = Len(s) - 1
        /\ \A i \in 1..(Len(s) - 1) : f[i] = s[i]
    <3> DEFINE n == Len(s) - 1
    <3>1. n \in Nat /\ n \in 0..Len(s) /\ \A i \in 1..n : s[i] \in Symbols
      BY <1>1, <2>1
    <3> HIDE DEF n
    <3>2. f \in Seq(Symbols) /\ Len(f) = n
      BY <3>1, CutAt DEF n
    <3>3. \A i \in 1..n : f[i] = s[i]
      BY <3>1 DEF n
    <3> QED
      BY <3>2, <3>3 DEF n
  <2> HIDE DEF f
  <2>5. <<"u1">> \in Seq(Symbols)
    <3>1. "u1" \in Symbols
      BY DEF Symbols, Members, Visible
    <3> QED
      BY <3>1
  <2>6. s = f \o <<"u1">>
    <3>1. /\ f \o <<"u1">> \in Seq(Symbols) /\ Len(f \o <<"u1">>) = Len(s)
          /\ \A i \in 1..Len(s) : (f \o <<"u1">>)[i] = IF i <= Len(f) THEN f[i] ELSE <<"u1">>[i - Len(f)]
      BY <2>1, <2>4, <2>5, ConcatProperties
    <3>2. ASSUME NEW i \in 1..Len(s) PROVE (f \o <<"u1">>)[i] = s[i]
      <4>1. CASE i <= Len(f)
        BY <2>1, <2>4, <3>1, <4>1
      <4>2. CASE ~(i <= Len(f))
        <5>1. i = Len(s) /\ i - Len(f) = 1
          BY <2>1, <2>4, <4>2
        <5> QED
          BY <1>2, <3>1, <4>2, <5>1
      <4> QED
        BY <4>1, <4>2
    <3> QED
      BY <3>1, <3>2, SeqEqual
  <2>7. ASSUME ValidUtf8(s) PROVE Closed(f) /\ ValidUtf8(f)
    <3>1. ValidUtf8(f)
      BY <2>4, <2>5, <2>6, <2>7, ValidConcat
    <3>2. ASSUME f # <<>> PROVE f[Len(f)] # "u1"
      <4> DEFINE k == Len(f)
      <4>1. k \in Nat \ {0} /\ k + 1 = Len(s)
        BY <2>1, <2>4, <3>2, EmptySeq
      <4>2. k \in DOMAIN s /\ k < Len(s) /\ f[k] = s[k] /\ s[k + 1] = "u1"
        BY <1>2, <2>4, <4>1, LenProperties
      <4> HIDE DEF k
      <4>3. s[k] # "u1"
        BY <2>7, <4>2 DEF ValidUtf8
      <4> QED
        BY <4>2, <4>3 DEF k
    <3> QED
      BY <3>1, <3>2 DEF Closed
  <2>8. Finished(s) = f /\ Unfinished(s) # <<>>
    BY <2>2, <2>3 DEF f
  <2> QED
    BY <2>2, <2>4, <2>5, <2>6, <2>7, <2>8
<1>3. CASE ~(s # <<>> /\ s[Len(s)] = "u1")
  <2>1. Unfinished(s) = <<>>
    BY <1>3 DEF Unfinished
  <2>2. Finished(s) = s
    <3>1. Finished(s) = SubSeq(s, 1, Len(s))
      BY <1>1, <2>1 DEF Finished
    <3> QED
      BY <3>1, SubSeqFull
  <2> QED
    BY <1>3, <2>1, <2>2, ConcatEmptySeq, EmptySeq DEF Closed
<1> QED
  BY <1>2, <1>3

\* What a chunk adds to what came before it.
LEMMA ChunkIs ==
  ASSUME NEW p \in Seq(Symbols), NEW c \in Seq(Symbols), ValidUtf8(p)
  PROVE  LET x == Unfinished(p) \o c
         IN /\ x \in Seq(Symbols)
            /\ ValidUtf8(p \o c) <=> ValidUtf8(x)
            /\ Unfinished(p \o c) = Unfinished(x)
            /\ Finished(p \o c) = Finished(p) \o Finished(x)
<1> DEFINE f == Finished(p)  u == Unfinished(p)  x == u \o c  v == p \o c
<1>1. /\ f \in Seq(Symbols) /\ u \in Seq(Symbols) /\ p = f \o u /\ Closed(f) /\ ValidUtf8(f)
      /\ (u = <<>> => f = p)
  BY FinishedIs
<1>2. u = <<>> => Unfinished(p) = <<>>
  OBVIOUS
<1> HIDE DEF f, u
<1>3. x \in Seq(Symbols) /\ v = f \o x
  <2>1. (f \o u) \o c = f \o (u \o c)
    <3>1. f \in Seq(Symbols) /\ u \in Seq(Symbols)
      BY <1>1
    <3>2. Joined(f, u, c)
      BY <3>1, Joining
    <3> QED
      BY ONLY <3>2 DEF Joined
  <2> QED
    BY <1>1, <2>1, ConcatProperties
<1> HIDE DEF x
<1>4. ValidUtf8(v) <=> ValidUtf8(x)
  BY <1>1, <1>3, ValidConcat
<1>5. Unfinished(v) = Unfinished(x)
  <2>1. CASE x = <<>>
    <3>1. v = f /\ Unfinished(f) = <<>>
      BY <1>1, <1>3, <2>1, ConcatEmptySeq DEF Closed, Unfinished
    <3> QED
      BY <2>1, <3>1 DEF Unfinished
  <2>2. CASE x # <<>>
    <3>1. Len(x) \in Nat \ {0} /\ Len(f) \in Nat
      BY <1>1, <1>3, <2>2, EmptySeq, LenProperties
    <3>2. Len(v) = Len(f) + Len(x) /\ v[Len(f) + Len(x)] = x[Len(x)] /\ v # <<>>
      <4>1. /\ Len(f \o x) = Len(f) + Len(x)
            /\ \A i \in 1..(Len(f) + Len(x)) : (f \o x)[i] = IF i <= Len(f) THEN f[i] ELSE x[i - Len(f)]
        BY <1>1, <1>3, ConcatProperties
      <4> DEFINE k == Len(f) + Len(x)
      <4>2. k \in 1..k /\ ~(k <= Len(f)) /\ k - Len(f) = Len(x) /\ k # 0
        BY <3>1
      <4> HIDE DEF k
      <4>3. (f \o x)[k] = x[Len(x)] /\ Len(f \o x) = k
        BY <4>1, <4>2 DEF k
      <4> QED
        BY <1>3, <4>2, <4>3 DEF k
    <3> QED
      BY <2>2, <3>2 DEF Unfinished
  <2> QED
    BY <2>1, <2>2
<1>6. Finished(v) = f \o Finished(x)
  <2> DEFINE w == Unfinished(x)  g == Finished(x)
  <2>1. g \in Seq(Symbols) /\ w \in Seq(Symbols) /\ x = g \o w
    BY <1>3, FinishedIs
  <2> HIDE DEF g
  <2>2. v = (f \o g) \o w /\ f \o g \in Seq(Symbols) /\ Len(v) = Len(f \o g) + Len(w)
    <3> HIDE DEF w
    <3>1. (f \o g) \o w = f \o (g \o w)
      <4>1. f \in Seq(Symbols) /\ g \in Seq(Symbols) /\ w \in Seq(Symbols)
        BY <1>1, <2>1
      <4>2. Joined(f, g, w)
        BY <4>1, Joining
      <4> QED
        BY ONLY <4>2 DEF Joined
    <3>2. f \o g \in Seq(Symbols)
      BY <1>1, <2>1, ConcatProperties
    <3>3. Len((f \o g) \o w) = Len(f \o g) + Len(w)
      BY <2>1, <3>2, ConcatProperties
    <3> QED
      BY <1>3, <2>1, <3>1, <3>2, <3>3
  <2>3. Len(f \o g) \in Nat /\ Len(w) \in Nat
    BY <2>1, <2>2, LenProperties
  <2>4. Finished(v) = SubSeq(v, 1, Len(v) - Len(w))
    BY <1>5 DEF Finished
  <2>5. Len(v) - Len(w) = Len(f \o g)
    BY <2>2, <2>3
  <2> HIDE DEF w
  <2>6. SubSeq(v, 1, Len(f \o g)) = f \o g
    BY <2>1, <2>2, FirstPart
  <2> QED
    BY <2>4, <2>5, <2>6 DEF g
<1> QED
  BY <1>3, <1>4, <1>5, <1>6 DEF x, f, u

----------------------------------------------------------------------------
(* Lines.                                                                  *)

Plain == Symbols \ {"cr", "nl"}

\* The symbols and members the proofs name are symbols and members.
LEMMA SomeSymbols ==
  /\ {"{", "}", "list", "data:", "[DONE]", ":", "noise", "cr", "nl"} \subseteq Symbols
  /\ Members \subseteq Symbols /\ Visible \subseteq Members
  BY DEF Symbols, Members, Visible

\* Appending to the second part is appending to the whole.
LEMMA ConcatAppend ==
  ASSUME NEW S, NEW s \in Seq(S), NEW t \in Seq(S), NEW c \in S
  PROVE  s \o Append(t, c) = Append(s \o t, c)
  OBVIOUS

\* Two single symbols make a sequence of two.
LEMMA Pair ==
  ASSUME NEW S, NEW c \in S, NEW d \in S
  PROVE  <<c>> \o <<d>> = <<c, d>> /\ <<c>> \in Seq(S) /\ <<c, d>> \in Seq(S)
<1> DEFINE l == <<c>> \o <<d>>
<1>1. <<c>> \in Seq(S) /\ <<d>> \in Seq(S) /\ <<c, d>> \in Seq(S)
  OBVIOUS
<1>2. /\ l \in Seq(S) /\ Len(l) = 2
      /\ \A i \in 1..2 : l[i] = IF i <= 1 THEN <<c>>[i] ELSE <<d>>[i - 1]
  BY <1>1, ConcatProperties
<1>3. l[1] = c /\ l[2] = d
  BY <1>2
<1> HIDE DEF l
<1>4. Len(<<c, d>>) = 2 /\ \A i \in 1..2 : l[i] = <<c, d>>[i]
  BY <1>3
<1>5. l = <<c, d>>
  BY <1>1, <1>2, <1>4, SeqEqual
<1> QED
  BY <1>1, <1>5 DEF l

\* A text without line ends is a sequence of symbols that has no carriage return to
\* lose.
LEMMA PlainIsSymbols ==
  ASSUME NEW x \in Seq(Plain)
  PROVE  x \in Seq(Symbols) /\ WithoutCr(x) = x
<1>1. x \in Seq(Symbols)
  BY SeqMonotonic DEF Plain
<1>2. \A i \in 1..Len(x) : x[i] # "cr"
  BY ElementOfSeq DEF Plain
<1>3. x # <<>> => Len(x) \in 1..Len(x)
  BY <1>1, EmptySeq
<1> QED
  BY <1>1, <1>2, <1>3 DEF WithoutCr

\* Without a line end in it, a text is only collected.
LEMMA TextIsBuffered ==
  ASSUME NEW m, NEW o \in Observers(m), NEW x \in Seq(Symbols \ {"nl"})
  PROVE  After(o, x) = WithBuffer(o, o.buffer \o x)
<1> DEFINE T == {y \in Seq(Symbols \ {"nl"}) : After(o, y) = WithBuffer(o, o.buffer \o y)}
<1>0. o.buffer \in Seq(Symbols)
  BY DEF Observers
<1>1. <<>> \in T
  <2>1. o.buffer \o <<>> = o.buffer /\ WithBuffer(o, o.buffer) = o
    BY <1>0, ConcatEmptySeq, BufferOwn
  <2> QED
    BY <2>1, AfterEmpty, EmptySeq
<1>2. ASSUME NEW y \in Seq(Symbols \ {"nl"}), NEW c \in Symbols \ {"nl"}, y \in T
      PROVE  Append(y, c) \in T
  <2> DEFINE p == WithBuffer(o, o.buffer \o y)
  <2>1. y \in Seq(Symbols) /\ Append(y, c) \in Seq(Symbols \ {"nl"})
    BY SeqMonotonic, AppendProperties
  <2>2. o.buffer \o y \in Seq(Symbols)
    BY <1>0, <2>1, ConcatProperties
  <2>3. p \in Observers(m) /\ p.buffer = o.buffer \o y
    BY <2>2, BufferSet
  <2>4. After(o, Append(y, c)) = Symbol(p, c)
    BY <1>2, <2>1, AfterAppend
  <2>5. o.buffer \o Append(y, c) = Append(o.buffer \o y, c)
    <3> DEFINE b == o.buffer
    <3>1. b \in Seq(Symbols) /\ c \in Symbols /\ y \in Seq(Symbols)
      BY <1>0, <2>1
    <3> HIDE DEF b
    <3>2. b \o Append(y, c) = Append(b \o y, c)
      BY <3>1, ConcatAppend
    <3> QED
      BY <3>2 DEF b
  <2>6. Append(o.buffer \o y, c) \in Seq(Symbols)
    BY <2>2, AppendProperties
  <2> DEFINE b == Append(o.buffer \o y, c)
  <2> HIDE DEF p
  <2>7. Symbol(p, c) = WithBuffer(p, b)
    BY <2>3, SymbolFacts
  <2>8. WithBuffer(p, b) = WithBuffer(o, b)
    BY BufferTwice DEF p
  <2> QED
    BY <2>1, <2>4, <2>5, <2>7, <2>8
<1>3. Seq(Symbols \ {"nl"}) \subseteq T
  <2> HIDE DEF T
  <2> QED
    BY <1>1, <1>2, SeqInduction
<1> QED
  BY <1>3

\* A line is looked at when its end comes.
LEMMA LineIsRead ==
  ASSUME NEW m, NEW o \in Observers(m), NEW x \in Seq(Symbols \ {"nl"})
  PROVE  After(o, x \o <<"nl">>) = Line(WithBuffer(o, <<>>), o.buffer \o x)
<1> DEFINE b == o.buffer \o x  p == WithBuffer(o, b)
<1>1. o.buffer \in Seq(Symbols) /\ x \in Seq(Symbols) /\ "nl" \in Symbols
  <2>1. o.buffer \in Seq(Symbols)
    BY DEF Observers
  <2> QED
    BY <2>1, SeqMonotonic, SomeSymbols
<1>2. b \in Seq(Symbols) /\ <<>> \in Seq(Symbols)
  BY <1>1, ConcatProperties, EmptySeq
<1>3. After(o, x) = p
  BY TextIsBuffered
<1>4. x \o <<"nl">> = Append(x, "nl")
  BY <1>1, AppendIsConcat
<1>5. After(o, Append(x, "nl")) = Symbol(After(o, x), "nl")
  BY <1>1, AfterAppend
<1> HIDE DEF b
<1>6. p \in Observers(m) /\ p.buffer = b /\ WithBuffer(p, <<>>) = WithBuffer(o, <<>>)
  <2>1. p \in Observers(m) /\ p.buffer = b
    BY <1>2, BufferSet
  <2>2. WithBuffer(p, <<>>) = WithBuffer(o, <<>>)
    BY BufferTwice
  <2> QED
    BY <2>1, <2>2
<1> HIDE DEF p
<1>7. Symbol(p, "nl") = Line(WithBuffer(p, <<>>), p.buffer)
  BY <1>1, <1>6, SymbolFacts
<1> QED
  BY <1>3, <1>4, <1>5, <1>6, <1>7 DEF b

\* A line end is one newline after a line that is the text itself, with or without a
\* carriage return.
LEMMA EolFacts ==
  ASSUME NEW x \in Seq(Plain), NEW a
  PROVE  \E y \in Seq(Symbols \ {"nl"}) :
           /\ x \o Eol(a) = y \o <<"nl">> /\ WithoutCr(y) = x
           /\ Len(y) + 1 = Len(x) + Len(Eol(a))
<1>1. x \in Seq(Symbols) /\ WithoutCr(x) = x /\ x \in Seq(Symbols \ {"nl"}) /\ Len(x) \in Nat
  BY PlainIsSymbols, SeqMonotonic, LenProperties DEF Plain
<1>2. CASE ~a.crlf
  <2>1. Eol(a) = <<"nl">> /\ Len(Eol(a)) = 1
    BY <1>2 DEF Eol
  <2> QED
    BY <1>1, <2>1
<1>3. CASE a.crlf
  <2> DEFINE line == Append(x, "cr")
  <2>1. "cr" \in Symbols \ {"nl"} /\ "cr" \in Symbols /\ "nl" \in Symbols
    BY SomeSymbols
  <2>2. /\ line \in Seq(Symbols \ {"nl"}) /\ line # <<>> /\ Len(line) = Len(x) + 1 /\ line[Len(x) + 1] = "cr"
        /\ \A i \in 1..Len(x) : line[i] = x[i]
    BY <1>1, <2>1, AppendProperties
  <2>3. Eol(a) = <<"cr", "nl">> /\ Len(Eol(a)) = 2
    BY <1>3 DEF Eol
  <2>4. x \o Eol(a) = line \o <<"nl">>
    <3>1. <<"cr">> \o <<"nl">> = <<"cr", "nl">>
      BY <2>1, Pair
    <3>2. <<"cr">> \in Seq(Symbols) /\ <<"nl">> \in Seq(Symbols)
      BY <2>1, Pair
    <3>3. line = x \o <<"cr">>
      BY <1>1, <2>1, AppendIsConcat
    <3>4. (x \o <<"cr">>) \o <<"nl">> = x \o (<<"cr">> \o <<"nl">>)
      <4>1. Joined(x, <<"cr">>, <<"nl">>)
        BY <1>1, <3>2, Joining
      <4> QED
        BY ONLY <4>1 DEF Joined
    <3> QED
      BY <2>3, <3>1, <3>3, <3>4
  <2>5. WithoutCr(line) = x
    <3>1. line = x \o <<"cr">> /\ <<"cr">> \in Seq(Symbols)
      BY <1>1, <2>1, AppendIsConcat
    <3>2. SubSeq(line, 1, Len(x)) = x
      BY <1>1, <3>1, FirstPart
    <3>3. Len(line) - 1 = Len(x)
      BY <1>1, <2>2
    <3> QED
      BY <2>2, <3>2, <3>3 DEF WithoutCr
  <2> HIDE DEF line
  <2>6. Len(line) + 1 = Len(x) + Len(Eol(a))
    BY <1>1, <2>2, <2>3
  <2> QED
    BY <2>2, <2>4, <2>5, <2>6
<1> QED
  BY <1>2, <1>3

\* A text with its line end, read from an empty buffer, is read as that line.
LEMMA WholeLine ==
  ASSUME NEW m, NEW o \in Observers(m), NEW x \in Seq(Plain), NEW a, o.buffer = <<>>
  PROVE  /\ After(o, x \o Eol(a)) = Line(o, x) /\ Line(o, x) \in Observers(m)
         /\ Line(o, x).buffer = <<>>
<1>1. x \in Seq(Symbols) /\ WithoutCr(x) = x
  BY PlainIsSymbols
<1>2. PICK y \in Seq(Symbols \ {"nl"}) : x \o Eol(a) = y \o <<"nl">> /\ WithoutCr(y) = x
  BY EolFacts
<1>3. After(o, y \o <<"nl">>) = Line(WithBuffer(o, <<>>), o.buffer \o y)
  BY LineIsRead
<1>4. WithBuffer(o, <<>>) = o /\ o.buffer \o y = y
  <2>1. WithBuffer(o, o.buffer) = o
    BY BufferOwn
  <2> QED
    BY <2>1, ConcatEmptySeq
<1>5. Line(o, y) = Line(o, x)
  BY <1>1, <1>2 DEF Line
<1> QED
  BY <1>1, <1>2, <1>3, <1>4, <1>5, LineFacts

----------------------------------------------------------------------------
(* An answer that the observer can hold.                                   *)

\* Wherever s is cut, what has come of a line fits the limit, and the answer is not
\* over before the end of s.
Calm(o, s) ==
  \A q, r \in Seq(Symbols) : q \o r = s =>
    Len(After(o, q).buffer) <= MaxBody /\ (r # <<>> => ~After(o, q).done)

\* A line within the limit never has more in the buffer than the limit allows.
LEMMA CalmLine ==
  ASSUME NEW m, NEW o \in Observers(m), NEW x \in Seq(Plain), NEW a,
         o.buffer = <<>>, ~o.done, Len(x) + Len(Eol(a)) <= MaxBody + 1
  PROVE  Calm(o, x \o Eol(a))
<1> SUFFICES ASSUME NEW q \in Seq(Symbols), NEW r \in Seq(Symbols), q \o r = x \o Eol(a)
             PROVE  Len(After(o, q).buffer) <= MaxBody /\ (r # <<>> => ~After(o, q).done)
  BY DEF Calm
<1>1. PICK y \in Seq(Symbols \ {"nl"}) :
        /\ x \o Eol(a) = y \o <<"nl">> /\ Len(y) + 1 = Len(x) + Len(Eol(a))
  BY EolFacts
<1>2. Len(y) \in Nat /\ Len(y) <= MaxBody /\ y \in Seq(Symbols)
  <2>1. Len(y) \in Nat /\ y \in Seq(Symbols)
    BY SeqMonotonic, LenProperties
  <2> QED
    BY <1>1, <2>1, ObserverAssumption
<1>3. CASE r = <<>>
  <2>1. q = x \o Eol(a)
    BY <1>3, ConcatEmptySeq
  <2>2. After(o, q).buffer = <<>>
    BY <2>1, WholeLine
  <2> QED
    BY <1>3, <2>2, ObserverAssumption
<1>4. CASE r # <<>>
  <2>1. q \o r \in Seq(Symbols) /\ Len(q \o r) = Len(q) + Len(r) /\ Len(q) \in Nat /\ Len(r) \in Nat \ {0}
    BY <1>4, ConcatProperties, LenProperties, EmptySeq
  <2>2. <<"nl">> \in Seq(Symbols) /\ Len(<<"nl">>) = 1
    BY SomeSymbols, Pair
  <2>3. Len(q \o r) = Len(y) + 1
    BY <1>1, <1>2, <2>2, ConcatProperties
  <2>4. Len(q) <= Len(y)
    BY <1>2, <2>1, <2>3
  <2>5. q \in Seq(Symbols \ {"nl"})
    <3>1. q = SubSeq(q \o r, 1, Len(q))
      BY FirstPart
    <3>2. \A i \in 1..Len(q) : (q \o r)[i] = y[i] /\ y[i] \in Symbols \ {"nl"}
      <4> SUFFICES ASSUME NEW i \in 1..Len(q) PROVE (y \o <<"nl">>)[i] = y[i] /\ y[i] \in Symbols \ {"nl"}
        BY <1>1
      <4>1. i \in 1..Len(y) /\ i \in 1..(Len(y) + Len(<<"nl">>)) /\ i <= Len(y)
        BY <1>2, <2>1, <2>2, <2>4
      <4> QED
        BY <1>2, <2>2, <4>1, ConcatProperties, ElementOfSeq
    <3>3. SubSeq(q \o r, 1, Len(q)) \in Seq(Symbols \ {"nl"})
      BY <2>1, <3>2, SubSeqProperties
    <3> QED
      BY <3>1, <3>3
  <2>6. After(o, q) = WithBuffer(o, q)
    <3>1. After(o, q) = WithBuffer(o, o.buffer \o q)
      BY <2>5, TextIsBuffered
    <3>2. <<>> \o q = q
      BY ConcatEmptySeq
    <3> QED
      BY <3>1, <3>2
  <2>7. WithBuffer(o, q).buffer = q /\ WithBuffer(o, q).done = o.done
    BY DEF WithBuffer, Observers
  <2> QED
    BY <1>2, <2>1, <2>4, <2>6, <2>7, ObserverAssumption
<1> QED
  BY <1>3, <1>4

\* Two calm texts make a calm one, when the stream is not over between them.
LEMMA CalmConcat ==
  ASSUME NEW o, NEW s \in Seq(Symbols), NEW t \in Seq(Symbols),
         Calm(o, s), Calm(After(o, s), t), t # <<>> => ~After(o, s).done
  PROVE  Calm(o, s \o t)
<1> SUFFICES ASSUME NEW q \in Seq(Symbols), NEW r \in Seq(Symbols), Alike(q, r, s, t)
             PROVE  Len(After(o, q).buffer) <= MaxBody /\ (r # <<>> => ~After(o, q).done)
  BY DEF Calm, Alike
<1>1. CASE Later(Symbols, q, r, s, t)
  <2>1. PICK w \in Seq(Symbols) : q = s \o w /\ t = w \o r
    BY <1>1 DEF Later
  <2>2. After(o, q) = After(After(o, s), w)
    BY <2>1, AfterConcat
  <2> QED
    BY <2>1, <2>2 DEF Calm
<1>2. CASE Later(Symbols, s, t, q, r)
  <2>1. PICK w \in Seq(Symbols) : s = q \o w /\ r = w \o t
    BY <1>2 DEF Later
  <2>2. Len(After(o, q).buffer) <= MaxBody /\ (w # <<>> => ~After(o, q).done)
    BY <2>1 DEF Calm
  <2>3. ASSUME w = <<>>, r # <<>> PROVE ~After(o, q).done
    <3>1. q = s /\ r = t
      BY <2>1, <2>3, ConcatEmptySeq
    <3> QED
      BY <2>3, <3>1
  <2> QED
    BY <2>2, <2>3
<1> QED
  BY <1>1, <1>2, CutTwice

\* Every start of a calm text is calm.
LEMMA CalmPrefix ==
  ASSUME NEW o, NEW s \in Seq(Symbols), NEW t \in Seq(Symbols), Calm(o, s \o t)
  PROVE  Calm(o, s)
<1>1. \A q, r \in Seq(Symbols) : (q \o r) \o t = q \o (r \o t) /\ r \o t \in Seq(Symbols)
  <2> SUFFICES ASSUME NEW q \in Seq(Symbols), NEW r \in Seq(Symbols)
               PROVE  (q \o r) \o t = q \o (r \o t) /\ r \o t \in Seq(Symbols)
    OBVIOUS
  <2>1. Joined(q, r, t)
    BY ONLY t \in Seq(Symbols), q \in Seq(Symbols), r \in Seq(Symbols), Joining
  <2>2. (q \o r) \o t = q \o (r \o t)
    BY ONLY <2>1 DEF Joined
  <2> QED
    BY <2>2, ConcatProperties
<1> SUFFICES ASSUME NEW q \in Seq(Symbols), NEW r \in Seq(Symbols), q \o r = s
             PROVE  Len(After(o, q).buffer) <= MaxBody /\ (r # <<>> => ~After(o, q).done)
  BY DEF Calm
<1>2. r # <<>> => r \o t # <<>>
  BY ConcatEqualIffEmpty
<1> QED
  BY <1>1, <1>2 DEF Calm

\* Reading nothing is calm.
LEMMA CalmEmpty ==
  ASSUME NEW m, NEW o \in Observers(m), o.buffer = <<>>
  PROVE  Calm(o, <<>>)
<1> SUFFICES ASSUME NEW q \in Seq(Symbols), NEW r \in Seq(Symbols), q \o r = <<>>
             PROVE  Len(After(o, q).buffer) <= MaxBody /\ (r # <<>> => ~After(o, q).done)
  BY DEF Calm
<1>1. q = <<>> /\ r = <<>>
  BY ConcatEqualIffEmpty
<1> QED
  BY <1>1, AfterEmpty, ObserverAssumption

----------------------------------------------------------------------------
(* Line ends that an answer lacks at its end make no difference.           *)

Drained(p) == IF p.buffer # <<>> THEN Line(WithBuffer(p, <<>>), p.buffer) ELSE p
Ended(p) == IF p.mode = "openai" THEN FinishEvent(Drained(p)) ELSE Drained(p)

\* With no byte pending, the final report of a stream is that of its last line and
\* event.
LEMMA FinishIs ==
  ASSUME NEW p, p.streaming, p.pending = <<>>
  PROVE  Finish(p) = Observation(Ended(p), FALSE)
  BY DEF Finish, Ended, Drained, WithBuffer

\* Parsing leaves the event's lines alone.
LEMMA ParseKeepsSse ==
  ASSUME NEW m, NEW o \in Observers(m), NEW text
  PROVE  ParseText(o, text).sse = o.sse
<1>1. \A members : Merge(o, members).sse = o.sse
  BY DEF Merge, Observers
<1>2. \A e : Fault(o, e).sse = o.sse
  BY DEF Fault, Observers
<1> QED
  BY <1>1, <1>2 DEF ParseText

\* Finishing an event twice is finishing it once.
LEMMA EventEndsOnce ==
  ASSUME NEW m, NEW o \in Observers(m)
  PROVE  FinishEvent(o).sse = <<>> /\ FinishEvent(FinishEvent(o)) = FinishEvent(o)
<1> DEFINE text == FlattenSeq(o.sse)
<1>1. Cleared(o) \in Observers(m) /\ Cleared(o).sse = <<>>
  BY ClearedFacts
<1>2. \A p : p.sse = <<>> => FinishEvent(p) = p
  BY DEF FinishEvent
<1>3. FinishEvent(o).sse = <<>>
  <2>1. CASE o.sse = <<>>
    BY <1>2, <2>1
  <2>2. CASE o.sse # <<>> /\ text = <<"[DONE]">>
    <3>1. FinishEvent(o) = Done(Cleared(o))
      BY <2>2 DEF FinishEvent, Done, Cleared
    <3>2. Done(Cleared(o)).sse = Cleared(o).sse
      BY <1>1 DEF Done, Observers
    <3> QED
      BY <1>1, <3>1, <3>2
  <2>3. CASE o.sse # <<>> /\ text # <<"[DONE]">>
    <3>1. FinishEvent(o) = ParseText(Cleared(o), text)
      BY <2>3 DEF FinishEvent, Cleared
    <3> QED
      BY <1>1, <3>1, ParseKeepsSse
  <2> QED
    BY <2>1, <2>2, <2>3
<1> QED
  BY <1>2, <1>3

\* An empty line ends the event, as the end of the answer does.
LEMMA EmptyLineEnds ==
  ASSUME NEW m, NEW o \in Observers(m), o.buffer = <<>>
  PROVE  Ended(Line(o, <<>>)) = Ended(o)
<1> DEFINE p == Line(o, <<>>)
<1>1. p \in Observers(m) /\ p.buffer = <<>> /\ p.mode = m /\ o.mode = m
  <2>1. <<>> \in Seq(Symbols)
    BY EmptySeq
  <2>2. p \in Observers(m) /\ p.buffer = <<>>
    BY <2>1, LineFacts
  <2> HIDE DEF p
  <2> QED
    BY <2>2 DEF Observers
<1>2. WithoutCr(<<>>) = <<>>
  BY DEF WithoutCr
<1>3. CASE m = "openai"
  <2>1. p = FinishEvent(o)
    BY <1>1, <1>2, <1>3 DEF Line
  <2> HIDE DEF p
  <2>2. Ended(p) = FinishEvent(p) /\ Ended(o) = FinishEvent(o)
    BY <1>1, <1>3 DEF Ended, Drained
  <2> QED
    BY <2>1, <2>2, EventEndsOnce DEF p
<1>4. CASE m # "openai"
  <2>1. p = o
    BY <1>1, <1>2, <1>4 DEF Line, ParseText
  <2> QED
    BY <2>1
<1> QED
  BY <1>3, <1>4

\* A buffer that is set is the buffer, and the last setting counts.
LEMMA BufferIs ==
  ASSUME NEW m, NEW o \in Observers(m), NEW x \in Seq(Symbols), NEW y \in Seq(Symbols)
  PROVE  /\ WithBuffer(o, x) \in Observers(m) /\ WithBuffer(o, x).buffer = x
         /\ WithBuffer(WithBuffer(o, x), y) = WithBuffer(o, y)
<1>1. WithBuffer(o, x) \in Observers(m) /\ WithBuffer(o, x).buffer = x
  BY BufferSet
<1>2. WithBuffer(WithBuffer(o, x), y) = WithBuffer(o, y)
  BY BufferTwice
<1> QED
  BY <1>1, <1>2

\* The final report is the same with or without one last character of a line end.
LEMMA FinishIgnoresEol ==
  ASSUME NEW m, NEW o \in Observers(m), o.streaming, o.pending = <<>>,
         NEW c \in {"cr", "nl"}, c = "cr" => WithoutCr(o.buffer) = o.buffer
  PROVE  Finish(Symbol(o, c)) = Finish(o)
<1> DEFINE held == o.buffer  p == WithBuffer(o, <<>>)  q == Symbol(o, c)
<1>1. held \in Seq(Symbols) /\ c \in Symbols
  BY SomeSymbols DEF Observers
<1>2. p \in Observers(m) /\ p.buffer = <<>> /\ (held = <<>> => p = o)
  <2>1. <<>> \in Seq(Symbols)
    BY EmptySeq
  <2>2. p \in Observers(m) /\ p.buffer = <<>> /\ WithBuffer(o, o.buffer) = o
    BY <2>1, BufferSet, BufferOwn
  <2> QED
    BY <2>2
<1>3. q \in Observers(m) /\ q.streaming /\ q.pending = <<>> /\ q.mode = m /\ o.mode = m
  <2>1. q \in Observers(m) /\ Grows(o, q)
    BY <1>1, SymbolFacts
  <2> HIDE DEF q
  <2> QED
    BY <2>1 DEF Grows, Observers
<1>4. Ended(q) = Ended(o)
  <2> HIDE DEF held
  <2>1. CASE c = "nl"
    <3>1. q = Line(p, held) /\ q.buffer = <<>>
      BY <1>1, <2>1, SymbolFacts DEF held
    <3>2. CASE held # <<>>
      <4>1. Drained(o) = q /\ Drained(q) = q
        BY <3>1, <3>2 DEF Drained, held
      <4> QED
        BY <1>3, <4>1 DEF Ended
    <3>3. CASE held = <<>>
      BY <1>2, <3>1, <3>3, EmptyLineEnds
    <3> QED
      BY <3>2, <3>3
  <2>2. CASE c = "cr"
    <3> DEFINE l == Append(held, c)
    <3>1. q = WithBuffer(o, l) /\ l \in Seq(Symbols) /\ l # <<>>
      <4>1. l \in Seq(Symbols) /\ l # <<>>
        BY <1>1, AppendProperties
      <4> QED
        BY <1>1, <2>2, <4>1, SymbolFacts DEF held
    <3>2. WithoutCr(l) = held
      <4>1. l = held \o <<c>> /\ <<c>> \in Seq(Symbols) /\ l[Len(l)] = "cr" /\ Len(l) - 1 = Len(held)
        BY <1>1, <2>2, AppendIsConcat, AppendProperties, LenProperties, Pair
      <4>2. SubSeq(l, 1, Len(held)) = held
        BY <1>1, <4>1, FirstPart
      <4> QED
        BY <3>1, <4>1, <4>2 DEF WithoutCr
    <3> HIDE DEF l
    <3>3. q.buffer = l /\ WithBuffer(q, <<>>) = p
      <4>1. <<>> \in Seq(Symbols)
        BY EmptySeq
      <4>2. WithBuffer(o, l).buffer = l /\ WithBuffer(WithBuffer(o, l), <<>>) = WithBuffer(o, <<>>)
        BY <3>1, <4>1, BufferIs
      <4> QED
        BY <3>1, <4>2
    <3> HIDE DEF q, p
    <3>4. Drained(q) = Line(p, l)
      BY <3>1, <3>3 DEF Drained
    <3>5. Line(p, l) = Line(p, held)
      BY <2>2, <3>2 DEF Line, held
    <3>6. CASE held # <<>>
      <4>1. Drained(o) = Line(p, held)
        BY <3>6 DEF Drained, held, p
      <4> QED
        BY <1>3, <3>4, <3>5, <4>1 DEF Ended
    <3>7. CASE held = <<>>
      <4> DEFINE e == Line(o, <<>>)
      <4>1. Drained(q) = e /\ o.buffer = <<>>
        BY <1>2, <3>4, <3>5, <3>7 DEF held
      <4>2. e.buffer = <<>> /\ e.mode = m /\ Drained(e) = e
        <5>1. <<>> \in Seq(Symbols) /\ o.mode = m
          BY EmptySeq DEF Observers
        <5>2. e.buffer = o.buffer /\ Grows(o, e)
          BY <5>1, LineFacts
        <5> QED
          BY <4>1, <5>1, <5>2 DEF Drained, Grows
      <4>3. Ended(q) = Ended(e)
        BY <1>3, <4>1, <4>2 DEF Ended
      <4> QED
        BY <4>1, <4>3, EmptyLineEnds
    <3> QED
      BY <3>6, <3>7
  <2> QED
    BY <2>1, <2>2
<1>5. Finish(q) = Observation(Ended(q), FALSE) /\ Finish(o) = Observation(Ended(o), FALSE)
  <2> HIDE DEF q
  <2> QED
    BY <1>3, FinishIs
<1> QED
  BY <1>4, <1>5

\* The buffer ends as what was fed does.
LEMMA BufferEnd ==
  ASSUME NEW m, NEW o \in Observers(m), o.buffer = <<>>, NEW s \in Seq(Symbols),
         After(o, s).buffer # <<>>
  PROVE  s # <<>> /\ After(o, s).buffer[Len(After(o, s).buffer)] = s[Len(s)]
<1>1. s # <<>>
  BY AfterEmpty
<1>2. PICK t \in Seq(Symbols), c \in Symbols : s = Append(t, c)
  BY <1>1, SequenceEmptyOrAppend
<1> DEFINE p == After(o, t)  held == p.buffer
<1>3. p \in Observers(m) /\ held \in Seq(Symbols)
  BY AfterFacts DEF Observers
<1>4. After(o, s) = Symbol(p, c)
  BY <1>2, AfterAppend
<1> HIDE DEF p
<1>5. c # "nl" /\ After(o, s).buffer = Append(held, c)
  <2>1. c # "nl"
    BY <1>3, <1>4, SymbolFacts
  <2>2. Symbol(p, c) = WithBuffer(p, Append(held, c)) /\ Append(held, c) \in Seq(Symbols)
    BY <1>3, <2>1, SymbolFacts, AppendProperties
  <2> QED
    BY <1>3, <1>4, <2>1, <2>2 DEF WithBuffer, Observers
<1>6. Append(held, c)[Len(Append(held, c))] = c
  BY <1>3, AppendProperties
<1>7. s[Len(s)] = c
  BY <1>2, AppendProperties
<1> QED
  BY <1>1, <1>5, <1>6, <1>7

NoDouble(s) == ~Adjacent(s, "cr", "cr")

\* The final report is the same with or without the line ends that close the stream.
LEMMA FinishIgnoresEols ==
  ASSUME NEW m, NEW o \in Observers(m), o.streaming, o.pending = <<>>, o.buffer = <<>>,
         NEW s \in Seq(Symbols), NEW z \in Seq({"cr", "nl"}), NoDouble(s \o z)
  PROVE  Finish(After(o, s \o z)) = Finish(After(o, s))
<1> DEFINE T == {y \in Seq({"cr", "nl"}) :
                   NoDouble(s \o y) => Finish(After(o, s \o y)) = Finish(After(o, s))}
<1>1. <<>> \in T
  BY ConcatEmptySeq, EmptySeq
<1>2. ASSUME NEW y \in Seq({"cr", "nl"}), NEW c \in {"cr", "nl"}, y \in T
      PROVE  Append(y, c) \in T
  <2>1. y \in Seq(Symbols) /\ c \in Symbols /\ Append(y, c) \in Seq({"cr", "nl"})
    <3>1. {"cr", "nl"} \subseteq Symbols
      BY SomeSymbols
    <3> QED
      BY <3>1, SeqMonotonic, AppendProperties
  <2> SUFFICES ASSUME NoDouble(s \o Append(y, c))
               PROVE  Finish(After(o, s \o Append(y, c))) = Finish(After(o, s))
    BY <2>1
  <2> DEFINE h == s \o y  p == After(o, h)
  <2>2. s \o Append(y, c) = Append(h, c) /\ h \in Seq(Symbols)
    BY <2>1, ConcatAppend, ConcatProperties
  <2> HIDE DEF h
  <2>3. /\ Append(h, c) \in Seq(Symbols) /\ Len(Append(h, c)) = Len(h) + 1 /\ Append(h, c)[Len(h) + 1] = c
        /\ \A i \in 1..Len(h) : Append(h, c)[i] = h[i]
        /\ Len(h) \in Nat /\ (h # <<>> => Len(h) > 0)
    BY <2>1, <2>2, AppendProperties, LenProperties, EmptySeq
  <2>4. NoDouble(h)
    <3> SUFFICES ASSUME NEW i \in 1..(Len(h) - 1), h[i] = "cr", h[i + 1] = "cr" PROVE FALSE
      BY DEF NoDouble, Adjacent
    <3>1. i \in 1..Len(h) /\ i + 1 \in 1..Len(h) /\ i \in 1..(Len(Append(h, c)) - 1)
      BY <2>3
    <3>2. Append(h, c)[i] = "cr" /\ Append(h, c)[i + 1] = "cr"
      BY <2>3, <3>1
    <3> QED
      BY <2>2, <3>1, <3>2 DEF NoDouble, Adjacent
  <2>5. Finish(p) = Finish(After(o, s))
    BY <1>2, <2>4 DEF h
  <2>6. p \in Observers(m) /\ p.streaming /\ p.pending = <<>>
    BY <2>2, AfterFacts DEF Grows
  <2>7. c = "cr" => WithoutCr(p.buffer) = p.buffer
    <3> SUFFICES ASSUME c = "cr", p.buffer # <<>>, p.buffer[Len(p.buffer)] = "cr" PROVE FALSE
      BY DEF WithoutCr
    <3>1. h # <<>> /\ h[Len(h)] = "cr"
      BY <2>2, BufferEnd
    <3>2. /\ Len(h) \in 1..(Len(Append(h, c)) - 1) /\ Append(h, c)[Len(h)] = "cr"
          /\ Append(h, c)[Len(h) + 1] = "cr"
      BY <2>3, <3>1
    <3> QED
      BY <2>2, <3>2 DEF NoDouble, Adjacent
  <2>8. After(o, Append(h, c)) = Symbol(p, c)
    BY <2>1, <2>2, AfterAppend
  <2> HIDE DEF p
  <2>9. Finish(Symbol(p, c)) = Finish(p)
    BY <2>6, <2>7, FinishIgnoresEol
  <2> QED
    BY <2>2, <2>5, <2>8, <2>9
<1>3. Seq({"cr", "nl"}) \subseteq T
  <2> HIDE DEF T
  <2> QED
    BY <1>1, <1>2, SeqInduction
<1> QED
  BY <1>3

\* A set of numbers up to n that holds 0 has a greatest element, which is its Max.
LEMMA MaxExists ==
  ASSUME NEW n \in Nat, NEW D \in SUBSET (0..n), 0 \in D
  PROVE  Max(D) \in D /\ \A i \in D : i <= Max(D)
<1> DEFINE Top(C) == \E i \in C : \A j \in C : i >= j
           T == {k \in Nat : \A C \in SUBSET (0..k) : 0 \in C => Top(C)}
<1>1. 0 \in T
  OBVIOUS
<1>2. ASSUME NEW k \in Nat, k \in T PROVE k + 1 \in T
  <2> SUFFICES ASSUME NEW C \in SUBSET (0..(k + 1)), 0 \in C PROVE Top(C)
    OBVIOUS
  <2>1. CASE k + 1 \in C
    <3>1. \A j \in C : k + 1 >= j
      OBVIOUS
    <3> QED
      BY <2>1, <3>1
  <2>2. CASE k + 1 \notin C
    <3>1. \A j \in C : j \in 0..k
      BY <2>2
    <3>2. C \in SUBSET (0..k)
      BY <3>1
    <3> HIDE DEF Top
    <3> QED
      BY <1>2, <3>2
  <2> QED
    BY <2>1, <2>2
<1>3. n \in T
  <2> HIDE DEF T
  <2> QED
    BY <1>1, <1>2, SetInduction
<1>4. PICK x \in D : \A j \in D : x >= j
  BY <1>3
<1>5. Max(D) \in D /\ \A i \in D : Max(D) >= i
  BY <1>4 DEF Max
<1> QED
  BY <1>5

\* A stream is its unended part followed by line ends.
LEMMA UnendedIs ==
  ASSUME NEW s \in Seq(Symbols)
  PROVE  \E z \in Seq({"cr", "nl"}) : Unended(s) \in Seq(Symbols) /\ s = Unended(s) \o z
<1> DEFINE D == {0} \cup {n \in DOMAIN s : s[n] \notin {"cr", "nl"}}
           k == Max(D)
           z == SubSeq(s, k + 1, Len(s))
<1>1. Len(s) \in Nat /\ DOMAIN s = 1..Len(s)
  BY LenProperties
<1>2. D \in SUBSET (0..Len(s)) /\ 0 \in D
  BY <1>1
<1>3. k \in D /\ \A i \in D : i <= k
  <2> HIDE DEF D
  <2> QED
    BY <1>1, <1>2, MaxExists
<1>4. k \in 0..Len(s)
  BY <1>2, <1>3
<1>5. \A i \in (k + 1)..Len(s) : s[i] \in {"cr", "nl"}
  <2> SUFFICES ASSUME NEW i \in (k + 1)..Len(s), s[i] \notin {"cr", "nl"} PROVE FALSE
    OBVIOUS
  <2>1. i \in D
    BY <1>1, <1>4
  <2> HIDE DEF D, k
  <2> QED
    BY <1>1, <1>3, <1>4, <2>1
<1>6. Unended(s) = SubSeq(s, 1, k)
  BY DEF Unended
<1> HIDE DEF k
<1>7. z \in Seq({"cr", "nl"})
  BY <1>1, <1>4, <1>5, SubSeqProperties
<1>8. Unended(s) \in Seq(Symbols) /\ s = Unended(s) \o z
  <2>1. SubSeq(s, 1, k) \in Seq(Symbols) /\ s = SubSeq(s, 1, k) \o z
    BY ONLY s \in Seq(Symbols), <1>4, CutAt
  <2> QED
    BY ONLY <1>6, <2>1
<1> HIDE DEF z
<1> QED
  BY <1>7, <1>8

----------------------------------------------------------------------------
(* Line ends and characters, in the parts of an answer.                    *)

Paired(s) == \A i \in DOMAIN s : s[i] = "cr" => i < Len(s) /\ s[i + 1] = "nl"

\* Every carriage return of a concatenation is followed by a newline when that is so in
\* its parts.
LEMMA PairedConcat ==
  ASSUME NEW S, NEW s \in Seq(S), NEW t \in Seq(S), Paired(s), Paired(t)
  PROVE  Paired(s \o t)
<1> DEFINE l == s \o t
<1>1. /\ Len(s) \in Nat /\ Len(t) \in Nat /\ Len(l) = Len(s) + Len(t)
      /\ DOMAIN s = 1..Len(s) /\ DOMAIN t = 1..Len(t) /\ DOMAIN l = 1..Len(l)
      /\ \A i \in 1..Len(l) : l[i] = IF i <= Len(s) THEN s[i] ELSE t[i - Len(s)]
  BY ConcatProperties, LenProperties
<1> HIDE DEF l
<1> SUFFICES ASSUME NEW i \in 1..Len(l), l[i] = "cr" PROVE i < Len(l) /\ l[i + 1] = "nl"
  BY <1>1 DEF Paired, l
<1>2. CASE i <= Len(s)
  <2>1. i \in 1..Len(s) /\ s[i] = "cr"
    BY <1>1, <1>2
  <2>2. i < Len(s) /\ s[i + 1] = "nl"
    BY <1>1, <2>1 DEF Paired
  <2>3. i + 1 \in 1..Len(l) /\ i + 1 <= Len(s)
    BY <1>1, <2>2
  <2> QED
    BY <1>1, <2>2, <2>3
<1>3. CASE ~(i <= Len(s))
  <2> DEFINE k == i - Len(s)
  <2>1. k \in 1..Len(t) /\ t[k] = "cr"
    BY <1>1, <1>3
  <2>2. k < Len(t) /\ t[k + 1] = "nl"
    BY <1>1, <2>1 DEF Paired
  <2>3. i + 1 \in 1..Len(l) /\ ~(i + 1 <= Len(s)) /\ (i + 1) - Len(s) = k + 1
    BY <1>1, <1>3, <2>2
  <2>4. l[i + 1] = t[k + 1]
    <3> HIDE DEF k
    <3> QED
      BY <1>1, <2>3
  <2> QED
    BY <1>1, <2>2, <2>3, <2>4
<1> QED
  BY <1>1, <1>2, <1>3

\* A text whose carriage returns all stand before newlines has no two carriage returns
\* side by side.
LEMMA PairedNoDouble ==
  ASSUME NEW S, NEW s \in Seq(S), Paired(s)
  PROVE  NoDouble(s)
<1> SUFFICES ASSUME NEW i \in 1..(Len(s) - 1), s[i] = "cr", s[i + 1] = "cr" PROVE FALSE
  BY DEF NoDouble, Adjacent
<1>1. i \in DOMAIN s
  BY LenProperties
<1> QED
  BY <1>1 DEF Paired

\* A concatenation ends with a whole character when its second part does.
LEMMA ClosedConcat ==
  ASSUME NEW S, NEW s \in Seq(S), NEW t \in Seq(S), t # <<>>, Closed(t)
  PROVE  Closed(s \o t) /\ s \o t # <<>>
<1>1. /\ Len(s) \in Nat /\ Len(t) \in Nat \ {0} /\ Len(s \o t) = Len(s) + Len(t)
      /\ \A i \in 1..(Len(s) + Len(t)) : (s \o t)[i] = IF i <= Len(s) THEN s[i] ELSE t[i - Len(s)]
  BY ConcatProperties, LenProperties, EmptySeq
<1> DEFINE k == Len(s) + Len(t)
<1>2. k \in 1..k /\ ~(k <= Len(s)) /\ k - Len(s) = Len(t)
  BY <1>1
<1> HIDE DEF k
<1>3. (s \o t)[k] = t[Len(t)] /\ Len(s \o t) = k
  BY <1>1, <1>2 DEF k
<1>4. s \o t # <<>>
  BY ConcatEqualIffEmpty
<1> QED
  BY <1>3, <1>4 DEF Closed

\* What every part of an answer is: whole lines.
Tidy(s) == s \in Seq(Symbols) /\ Closed(s) /\ Paired(s)

\* A line end is tidy, decodes, and has one or two characters.
LEMMA TidyEol ==
  ASSUME NEW a
  PROVE  Tidy(Eol(a)) /\ Eol(a) # <<>> /\ ValidUtf8(Eol(a)) /\ Len(Eol(a)) \in {1, 2}
<1>1. CASE a.crlf
  <2>1. Eol(a) = <<"cr", "nl">>
    BY <1>1 DEF Eol
  <2>2. "cr" \in Symbols /\ "nl" \in Symbols
    BY SomeSymbols
  <2>3. <<"cr", "nl">> \in Seq(Symbols)
    BY <2>2
  <2> QED
    BY <2>1, <2>3 DEF Tidy, Closed, Paired, ValidUtf8
<1>2. CASE ~a.crlf
  <2>1. Eol(a) = <<"nl">>
    BY <1>2 DEF Eol
  <2>2. <<"nl">> \in Seq(Symbols)
    BY SomeSymbols, Pair
  <2> QED
    BY <2>1, <2>2 DEF Tidy, Closed, Paired, ValidUtf8
<1> QED
  BY <1>1, <1>2

\* Tidy texts make a tidy text, which decodes when both do.
LEMMA TidyConcat ==
  ASSUME NEW s \in Seq(Symbols), NEW t \in Seq(Symbols), Tidy(s), Tidy(t)
  PROVE  Tidy(s \o t) /\ (ValidUtf8(s \o t) <=> ValidUtf8(s) /\ ValidUtf8(t))
<1>1. s \o t \in Seq(Symbols) /\ Paired(s \o t)
  BY ConcatProperties, PairedConcat DEF Tidy
<1>2. Closed(s \o t)
  <2>1. CASE t = <<>>
    BY <2>1, ConcatEmptySeq DEF Tidy
  <2>2. CASE t # <<>>
    BY <2>2, ClosedConcat DEF Tidy
  <2> QED
    BY <2>1, <2>2
<1>3. ValidUtf8(s \o t) <=> ValidUtf8(s) /\ ValidUtf8(t)
  BY ValidConcat DEF Tidy
<1> QED
  BY <1>1, <1>2, <1>3 DEF Tidy

\* A line with its end is tidy, and decodes when the line does.
LEMMA TidyLine ==
  ASSUME NEW x \in Seq(Plain), NEW a, Closed(x)
  PROVE  /\ Tidy(x \o Eol(a)) /\ x \o Eol(a) # <<>>
         /\ ValidUtf8(x \o Eol(a)) <=> ValidUtf8(x)
<1>1. Tidy(Eol(a)) /\ Eol(a) # <<>> /\ ValidUtf8(Eol(a)) /\ Eol(a) \in Seq(Symbols)
  BY TidyEol DEF Tidy
<1>2. x \in Seq(Symbols)
  BY PlainIsSymbols
<1>3. Paired(x)
  <2>1. \A i \in DOMAIN x : x[i] # "cr"
    BY LenProperties, ElementOfSeq DEF Plain
  <2> QED
    BY <2>1 DEF Paired
<1>4. Tidy(x)
  BY <1>2, <1>3 DEF Tidy
<1>5. x \o Eol(a) # <<>>
  BY <1>1, <1>2, ConcatEqualIffEmpty
<1> QED
  BY <1>1, <1>2, <1>4, <1>5, TidyConcat

----------------------------------------------------------------------------
(* One event of an answer.                                                 *)

\* From o, with no line begun, the observer comes to p by s, without a line over the
\* limit or an end of the answer on the way, and is at the beginning of a line again.
Reaches(m, o, s, p) ==
  After(o, s) = p /\ p \in Observers(m) /\ p.buffer = <<>> /\ Calm(o, s)

\* A line within the limit takes the observer, calmly, to the state after that line.
LEMMA ReachLine ==
  ASSUME NEW m, NEW o \in Observers(m), NEW x \in Seq(Plain), NEW a,
         o.buffer = <<>>, ~o.done, Len(x) + Len(Eol(a)) <= MaxBody + 1
  PROVE  Reaches(m, o, x \o Eol(a), Line(o, x))
  BY WholeLine, CalmLine DEF Reaches

\* What two texts reach one after the other, their concatenation reaches.
LEMMA ReachConcat ==
  ASSUME NEW m, NEW o, NEW p, NEW q, NEW s \in Seq(Symbols), NEW t \in Seq(Symbols),
         Reaches(m, o, s, p), Reaches(m, p, t, q), ~p.done
  PROVE  Reaches(m, o, s \o t, q)
<1>1. After(o, s \o t) = q
  BY AfterConcat DEF Reaches
<1>2. Calm(o, s \o t)
  BY CalmConcat DEF Reaches
<1> QED
  BY <1>1, <1>2 DEF Reaches

Regrouped(f, g, h, k) == ((f \o g) \o h) \o k = f \o ((g \o h) \o k)

\* Concatenation of four parts does not depend on how they are grouped.
LEMMA Regroup ==
  ASSUME NEW S, NEW f \in Seq(S), NEW g \in Seq(S), NEW h \in Seq(S), NEW k \in Seq(S)
  PROVE  Regrouped(f, g, h, k)
<1>1. (f \o g) \o h = f \o (g \o h) /\ g \o h \in Seq(S)
  <2>1. Joined(f, g, h)
    BY Joining
  <2>2. (f \o g) \o h = f \o (g \o h)
    BY ONLY <2>1 DEF Joined
  <2> QED
    BY <2>2, ConcatProperties
<1>2. (f \o (g \o h)) \o k = f \o ((g \o h) \o k)
  <2> DEFINE w == g \o h
  <2>1. w \in Seq(S)
    BY <1>1
  <2> HIDE DEF w
  <2>2. (f \o w) \o k = f \o (w \o k)
    <3>1. Joined(f, w, k)
      BY <2>1, Joining
    <3> QED
      BY ONLY <3>1 DEF Joined
  <2> QED
    BY <2>2 DEF w
<1> QED
  BY <1>1, <1>2 DEF Regrouped

Closing(e) == e.members \o <<"}">>

\* Members and the marks of events stand in plain text, and braces are no members.
LEMMA PlainMembers ==
  /\ Members \subseteq Plain /\ {"{", "}", "list", "data:", "[DONE]", ":", "noise"} \subseteq Plain
  /\ "{" \notin Members /\ "}" \notin Members
  BY DEF Plain, Symbols, Members, Visible

\* A single element is a sequence of one.
LEMMA OneIsSeq ==
  ASSUME NEW S, NEW c \in S
  PROVE  /\ <<c>> \in Seq(S) /\ Len(<<c>>) = 1 /\ <<c>>[1] = c /\ <<c>> # <<>>
  OBVIOUS

\* What stands between two single symbols.
Wraps(t, p, b, q) ==
  /\ Len(t) = Len(b) + 2 /\ t[1] = p[1] /\ t[Len(t)] = q[1]
  /\ (b \o q)[Len(b \o q)] = q[1]
  /\ \A i \in 2..(Len(t) - 1) : i - 1 \in 1..Len(b) /\ t[i] = b[i - 1]
  /\ SubSeq(t, 2, Len(t) - 1) = b

\* A text between two single symbols has the text as its middle.
LEMMA Wrapped ==
  ASSUME NEW S, NEW p \in Seq(S), NEW b \in Seq(S), NEW q \in Seq(S), Len(p) = 1, Len(q) = 1
  PROVE  p \o (b \o q) \in Seq(S) /\ Wraps(p \o (b \o q), p, b, q)
<1> DEFINE c == b \o q  t == p \o c
<1>1. /\ Len(b) \in Nat /\ c \in Seq(S) /\ Len(c) = Len(b) + Len(q)
      /\ \A i \in 1..(Len(b) + Len(q)) : c[i] = IF i <= Len(b) THEN b[i] ELSE q[i - Len(b)]
  BY ConcatProperties, LenProperties
<1> HIDE DEF c
<1>2. /\ t \in Seq(S) /\ Len(t) = Len(p) + Len(c)
      /\ \A i \in 1..(Len(p) + Len(c)) : t[i] = IF i <= Len(p) THEN p[i] ELSE c[i - Len(p)]
  <2>1. p \in Seq(S) /\ c \in Seq(S)
    BY <1>1
  <2> QED
    BY ONLY <2>1, ConcatProperties
<1> HIDE DEF t
<1> DEFINE n == Len(b)
<1>3. /\ n \in Nat /\ Len(c) = n + 1 /\ Len(t) = n + 2
      /\ \A i \in 1..(n + 1) : c[i] = IF i <= n THEN b[i] ELSE q[i - n]
      /\ \A i \in 1..(n + 2) : t[i] = IF i <= 1 THEN p[i] ELSE c[i - 1]
  <2>1. n \in Nat /\ Len(c) = n + 1
    BY <1>1
  <2>2. Len(t) = n + 2
    BY <1>2, <2>1
  <2>3. \A i \in 1..(n + 1) : c[i] = IF i <= n THEN b[i] ELSE q[i - n]
    BY <1>1, <2>1
  <2>4. \A i \in 1..(n + 2) : t[i] = IF i <= 1 THEN p[i] ELSE c[i - 1]
    <3> TAKE i \in 1..(n + 2)
    <3>1. i \in 1..(Len(p) + Len(c))
      BY <2>1
    <3> QED
      BY <1>2, <3>1
  <2> QED
    BY <2>1, <2>2, <2>3, <2>4
<1> HIDE DEF n
<1>4. c[n + 1] = q[1]
  <2>1. n + 1 \in 1..(n + 1) /\ ~(n + 1 <= n) /\ (n + 1) - n = 1
    BY <1>3
  <2> QED
    BY <1>3, <2>1
<1>5. t[1] = p[1] /\ t[n + 2] = q[1]
  <2>1. 1 \in 1..(n + 2) /\ n + 2 \in 1..(n + 2) /\ ~(n + 2 <= 1) /\ (n + 2) - 1 = n + 1
    BY <1>3
  <2>2. t[1] = p[1]
    BY <1>3, <2>1
  <2>3. t[n + 2] = c[n + 1]
    BY <1>3, <2>1
  <2> QED
    BY <1>4, <2>2, <2>3
<1>6. \A i \in 2..(n + 1) : i - 1 \in 1..n /\ t[i] = b[i - 1]
  <2> TAKE i \in 2..(n + 1)
  <2>1. i \in 1..(n + 2) /\ ~(i <= 1) /\ i - 1 \in 1..(n + 1) /\ i - 1 <= n /\ i - 1 \in 1..n
    BY <1>3
  <2>2. t[i] = c[i - 1]
    BY <1>3, <2>1
  <2> QED
    BY <1>3, <2>1, <2>2
<1>7. SubSeq(t, 2, n + 1) = b
  <2> DEFINE k == 2  j == n + 1  w == SubSeq(t, k, j)
  <2>1. k \in Int /\ j \in Int /\ (IF k <= j THEN j - k + 1 ELSE 0) = n
        /\ \A i \in 1..n : k + i - 1 = i + 1 /\ i + 1 \in 2..(n + 1) /\ (i + 1) - 1 = i
    BY <1>3
  <2>2. \A i \in k..j : t[i] \in S
    <3>1. \A i \in k..j : i \in 1..Len(t)
      BY <1>3
    <3> QED
      BY <1>2, <3>1, ElementOfSeq
  <2> HIDE DEF k, j
  <2>3. /\ w \in Seq(S) /\ Len(w) = (IF k <= j THEN j - k + 1 ELSE 0)
        /\ \A i \in 1..Len(w) : w[i] = t[k + i - 1]
    BY <1>2, <2>1, <2>2, SubSeqProperties
  <2> HIDE DEF w
  <2>4. \A i \in 1..n : w[i] = b[i]
    <3> TAKE i \in 1..n
    <3>1. w[i] = t[i + 1]
      BY <2>1, <2>3
    <3> QED
      BY <1>6, <2>1, <3>1
  <2>5. w = b
    <3>1. Len(w) = Len(b) /\ \A i \in 1..Len(w) : w[i] = b[i]
      BY <2>1, <2>3, <2>4 DEF n
    <3> QED
      BY <2>3, <3>1, SeqEqual
  <2> QED
    BY <2>5 DEF w, k, j
<1>8. Len(t) - 1 = n + 1
  BY <1>3
<1> QED
  BY <1>2, <1>3, <1>4, <1>5, <1>6, <1>7, <1>8 DEF n, t, c, Wraps

\* An object's text is its members between braces, and is recognised as an object.
LEMMA ObjectText ==
  ASSUME NEW e \in Events, e.kind = "object"
  PROVE  /\ Text(e) = <<"{">> \o Closing(e) /\ Closing(e) \in Seq(Plain) /\ Closed(Closing(e))
         /\ Closing(e) # <<>> /\ Text(e) # <<"[DONE]">>
         /\ e.members \in Seq(Members) /\ e.members \in Seq(Plain)
         /\ Text(e) \in Seq(Plain) /\ Len(Text(e)) = Len(e.members) + 2
         /\ IsObject(Text(e)) /\ SubSeq(Text(e), 2, Len(Text(e)) - 1) = e.members
<1> DEFINE b == e.members  p == <<"{">>  q == <<"}">>
<1>1. /\ b \in Seq(Members) /\ b \in Seq(Plain) /\ Len(b) \in Nat
      /\ \A i \in 1..Len(b) : b[i] \in Members
  <2>1. b \in Seq(Members)
    BY DEF Events
  <2> QED
    BY <2>1, PlainMembers, SeqMonotonic, LenProperties, ElementOfSeq
<1>2. /\ p \in Seq(Plain) /\ Len(p) = 1 /\ p[1] = "{"
      /\ q \in Seq(Plain) /\ Len(q) = 1 /\ q[1] = "}"
  BY PlainMembers, OneIsSeq
<1>3. Closing(e) = b \o q
  BY DEF Closing
<1>4. Text(e) = p \o (b \o q)
  <2>1. Text(e) = (p \o b) \o q
    BY DEF Text
  <2> HIDE DEF p, q, b
  <2>2. p \in Seq(Plain) /\ b \in Seq(Plain) /\ q \in Seq(Plain)
    BY <1>1, <1>2
  <2>3. (p \o b) \o q = p \o (b \o q)
    <3>1. Joined(p, b, q)
      BY ONLY <2>2, Joining
    <3> QED
      BY ONLY <3>1 DEF Joined
  <2> QED
    BY <2>1, <2>3
<1> HIDE DEF p, q, b
<1> DEFINE t == p \o (b \o q)
<1>5. /\ t \in Seq(Plain) /\ Len(t) = Len(b) + 2 /\ t[1] = p[1] /\ t[Len(t)] = q[1]
      /\ (b \o q)[Len(b \o q)] = q[1]
      /\ \A i \in 2..(Len(t) - 1) : i - 1 \in 1..Len(b) /\ t[i] = b[i - 1]
      /\ SubSeq(t, 2, Len(t) - 1) = b
  <2>1. p \in Seq(Plain) /\ b \in Seq(Plain) /\ q \in Seq(Plain) /\ Len(p) = 1 /\ Len(q) = 1
    BY <1>1, <1>2
  <2>2. t \in Seq(Plain) /\ Wraps(t, p, b, q)
    BY ONLY <2>1, Wrapped
  <2> HIDE DEF t
  <2> QED
    BY ONLY <2>2 DEF Wraps
<1> HIDE DEF t
<1>6. IsObject(t)
  <2>1. Len(t) >= 2
    BY <1>1, <1>5
  <2> QED
    BY <1>1, <1>2, <1>5, <2>1 DEF IsObject
<1>7. b \o q \in Seq(Plain)
  BY <1>1, <1>2, ConcatProperties
<1>8. Closed(b \o q)
  BY <1>2, <1>5 DEF Closed
<1>9. b \o q # <<>>
  <2>1. q # <<>>
    BY <1>2, EmptySeq
  <2>2. b \in Seq(Plain) /\ q \in Seq(Plain)
    BY <1>1, <1>2
  <2> QED
    BY ONLY <2>1, <2>2, ConcatEqualIffEmpty
<1>10. t # <<"[DONE]">>
  <2> DEFINE n == Len(b)  l == Len(<<"[DONE]">>)
  <2>1. Len(t) = n + 2 /\ n \in Nat /\ l = 1
    BY <1>1, <1>5
  <2> HIDE DEF n, l
  <2>2. Len(t) # l
    BY <2>1
  <2>3. Len(t) # Len(<<"[DONE]">>)
    BY <2>2 DEF l
  <2> QED
    BY ONLY <2>3
<1> QED
  BY <1>1, <1>3, <1>4, <1>5, <1>6, <1>7, <1>8, <1>9, <1>10 DEF t, b, p

\* The text of every other event is the one symbol that stands for it, and is no object.
LEMMA OtherText ==
  ASSUME NEW e \in Events, e.kind \in {"done", "list", "noise"}
  PROVE  /\ Text(e) \in Seq(Plain) /\ Text(e) # <<>> /\ Closed(Text(e)) /\ ValidUtf8(Text(e))
         /\ Len(Text(e)) = 1
         /\ Text(e)[1] \in {"[DONE]", "list", "noise"} /\ ~IsObject(Text(e))
         /\ Text(e) = <<IF e.kind = "done" THEN "[DONE]" ELSE e.kind>>
<1> DEFINE c == IF e.kind = "done" THEN "[DONE]" ELSE e.kind
<1>1. c \in {"[DONE]", "list", "noise"} /\ c \in Plain
  BY PlainMembers
<1>2. Text(e) = <<c>>
  BY DEF Text
<1> HIDE DEF c
<1>3. <<c>> \in Seq(Plain) /\ Len(<<c>>) = 1 /\ <<c>>[1] = c /\ <<c>> # <<>>
  BY <1>1, OneIsSeq
<1>4. ValidUtf8(<<c>>) /\ Closed(<<c>>)
  <2>1. <<c>> \in Seq({"[DONE]", "list", "noise"})
    BY <1>1, OneIsSeq
  <2> QED
    BY <2>1, ValidPlain
<1>5. ~IsObject(<<c>>)
  BY <1>3 DEF IsObject
<1> QED
  BY <1>1, <1>2, <1>3, <1>4, <1>5 DEF c

\* What the observer makes of an event, when it is at the beginning of one.
Quiet(m, o) == o \in Observers(m) /\ o.buffer = <<>> /\ o.sse = <<>> /\ ~o.done
Failing(m, e) ==
  IF e.kind = "list" THEN "not an object"
  ELSE IF m = "openai" THEN "malformed SSE line" ELSE "malformed JSON event"
Reads(m, o, e) ==
  IF e.kind = "comment" THEN o
  ELSE IF e.kind = "object" THEN Merge(o, e.members)
  ELSE IF e.kind = "done" /\ m = "openai" THEN Done(o)
  ELSE Fault(o, Failing(m, e))
Decodes(e) == e.kind = "object" => ValidUtf8(Closing(e))

\* An event's text is plain, ends with a whole character, and decodes when the event
\* does.
LEMMA TextIs ==
  ASSUME NEW e \in Events, e.kind # "comment"
  PROVE  /\ Text(e) \in Seq(Plain) /\ Text(e) # <<>> /\ Closed(Text(e))
         /\ ValidUtf8(Text(e)) <=> Decodes(e)
<1>1. CASE e.kind = "object"
  <2>1. Text(e) = <<"{">> \o Closing(e) /\ Closing(e) \in Seq(Plain) /\ Closed(Closing(e))
        /\ Text(e) \in Seq(Plain)
    BY <1>1, ObjectText
  <2>2. <<"{">> \in Seq(Plain) /\ <<"{">> \in Seq({"{"}) /\ <<"{">> # <<>>
    BY PlainMembers, OneIsSeq
  <2>3. ValidUtf8(<<"{">>) /\ Closed(<<"{">>)
    BY <2>2, ValidPlain
  <2>4. ValidUtf8(Text(e)) <=> ValidUtf8(Closing(e))
    BY <2>1, <2>2, <2>3, ValidConcat
  <2>6. Closed(Text(e)) /\ Text(e) # <<>>
    BY <1>1, <2>1, <2>2, ObjectText, ClosedConcat
  <2> QED
    BY <1>1, <2>1, <2>4, <2>6 DEF Decodes
<1>2. CASE e.kind # "object"
  <2>1. e.kind \in {"done", "list", "noise"}
    BY <1>2 DEF Events
  <2> QED
    BY <1>2, <2>1, OtherText DEF Decodes
<1> QED
  BY <1>1, <1>2

\* What a text of an event does to the observer.
LEMMA ReadText ==
  ASSUME NEW m, NEW o \in Observers(m), NEW e \in Events, e.kind # "comment",
         m = "openai" => e.kind \notin {"noise", "done"}
  PROVE  ParseText(o, Text(e)) = Reads(m, o, e)
<1>1. Text(e) # <<>>
  BY TextIs
<1>2. CASE e.kind = "object"
  <2>1. IsObject(Text(e)) /\ SubSeq(Text(e), 2, Len(Text(e)) - 1) = e.members
    BY <1>2, ObjectText
  <2> QED
    BY <1>1, <1>2, <2>1 DEF ParseText, Reads
<1>3. CASE e.kind # "object"
  <2>1. e.kind \in {"done", "list", "noise"}
    BY <1>3 DEF Events
  <2>2. ~IsObject(Text(e)) /\ Text(e) = <<IF e.kind = "done" THEN "[DONE]" ELSE e.kind>>
        /\ Text(e)[1] \in {"[DONE]", "list", "noise"}
    BY <2>1, OtherText
  <2>3. ParseText(o, Text(e)) =
          Fault(o, IF Text(e) = <<"list">> THEN "not an object" ELSE "malformed JSON event")
    BY <1>1, <2>2 DEF ParseText
  <2>4. (Text(e) = <<"list">>) = (e.kind = "list")
    <3>1. CASE e.kind = "list"
      BY <2>2, <3>1
    <3>2. CASE e.kind # "list"
      BY <2>1, <2>2, <3>2
    <3> QED
      BY <3>1, <3>2
  <2> QED
    BY <1>3, <2>1, <2>3, <2>4 DEF Reads, Failing
<1> QED
  BY <1>2, <1>3

\* The rest of a sequence after a part of one element is the second part.
LEMMA TailOf ==
  ASSUME NEW S, NEW d \in Seq(S), NEW x \in Seq(S), Len(d) = 1
  PROVE  Tail(d \o x) = x
<1> DEFINE l == d \o x
<1>1. l \in Seq(S) /\ Len(l) = Len(d) + Len(x) /\ Len(x) \in Nat
  BY ConcatProperties, LenProperties
<1>2. SubSeq(l, Len(d) + 1, Len(l)) = x
  BY SecondPart
<1> HIDE DEF l
<1>3. l # <<>> /\ Len(d) + 1 = 2
  BY <1>1
<1>4. Tail(l) = SubSeq(l, 2, Len(l))
  BY <1>1, <1>3, HeadTailProperties
<1> QED
  BY <1>2, <1>3, <1>4 DEF l

\* A line that starts with the data mark gives its rest to the event.
LEMMA LineIsData ==
  ASSUME NEW o \in Observers("openai"), NEW x \in Seq(Plain)
  PROVE  /\ <<"data:">> \o x \in Seq(Plain) /\ Len(<<"data:">> \o x) = Len(x) + 1
         /\ Line(o, <<"data:">> \o x) = WithData(o, x)
<1> DEFINE d == <<"data:">>  l == d \o x
<1>1. d \in Seq(Plain) /\ Len(d) = 1 /\ d[1] = "data:"
  BY PlainMembers, OneIsSeq
<1> HIDE DEF d
<1>2. /\ l \in Seq(Plain) /\ Len(l) = Len(d) + Len(x)
      /\ \A i \in 1..(Len(d) + Len(x)) : l[i] = IF i <= Len(d) THEN d[i] ELSE x[i - Len(d)]
  BY <1>1, ConcatProperties
<1>3. Tail(l) = x
  BY <1>1, TailOf
<1> HIDE DEF l
<1>4. Len(l) = Len(x) + 1 /\ Len(x) \in Nat /\ l # <<>>
  <2>1. Len(x) \in Nat
    BY LenProperties
  <2> QED
    BY <1>1, <1>2, <2>1
<1>5. l[1] = "data:"
  <2>1. 1 \in 1..(Len(d) + Len(x)) /\ 1 <= Len(d)
    BY <1>1, <1>4
  <2> QED
    BY <1>1, <1>2, <2>1
<1>6. WithoutCr(l) = l /\ o.mode = "openai"
  BY <1>2, PlainIsSymbols DEF Observers
<1>7. Line(o, l) = WithData(o, x)
  BY <1>3, <1>4, <1>5, <1>6 DEF Line, WithData
<1> QED
  BY <1>2, <1>4, <1>7 DEF l, d

\* A blank line ends an event.
LEMMA BlankLine ==
  ASSUME NEW m, NEW o \in Observers(m), NEW a, o.buffer = <<>>, ~o.done, Len(Eol(a)) <= MaxBody
  PROVE  Reaches(m, o, Eol(a), Line(o, <<>>))
<1> DEFINE n == <<>>
<1>1. n \in Seq(Plain) /\ Len(n) = 0 /\ Len(Eol(a)) \in {1, 2} /\ Eol(a) \in Seq(Symbols)
  BY EmptySeq, TidyEol DEF Tidy
<1>2. n \o Eol(a) = Eol(a)
  BY <1>1, ConcatEmptySeq
<1> HIDE DEF n
<1>3. ASSUME Len(n) + Len(Eol(a)) <= MaxBody + 1 PROVE Reaches(m, o, n \o Eol(a), Line(o, n))
  BY <1>1, <1>3, ReachLine
<1>4. Len(n) + Len(Eol(a)) <= MaxBody + 1
  BY <1>1, ObserverAssumption
<1> QED
  BY <1>2, <1>3, <1>4 DEF n

\* One data line is the whole text of its event.
LEMMA FlattenOne ==
  ASSUME NEW S, NEW x \in Seq(S)
  PROVE  FlattenSeq(Append(<<>>, x)) = x
<1>1. <<>> \in Seq(Seq(S)) /\ <<>> \o x = x
  BY EmptySeq, ConcatEmptySeq
<1> QED
  BY <1>1, FlattenAppend, FlattenEmpty

\* A blank line ends the event, and its lines are parsed as one text, or end the stream.
LEMMA EventIs ==
  ASSUME NEW o, NEW p, NEW x \in Seq(Symbols), o \in Observers("openai"), p \in Observers("openai"),
         p.sse # <<>>, FlattenSeq(p.sse) = x, Cleared(p) = o
  PROVE  Line(p, <<>>) = IF x = <<"[DONE]">> THEN Done(o) ELSE ParseText(o, x)
<1>1. Line(p, <<>>) = FinishEvent(p)
  <2>1. WithoutCr(<<>>) = <<>> /\ p.mode = "openai"
    BY DEF WithoutCr, Observers
  <2> QED
    BY <2>1 DEF Line
<1> QED
  BY <1>1 DEF FinishEvent, Cleared, Done

\* A first data line leaves an observer that differs by that line only.
LEMMA DataOf ==
  ASSUME NEW o, Quiet("openai", o), NEW x \in Seq(Plain)
  PROVE  /\ WithData(o, x) \in Observers("openai") /\ WithData(o, x).buffer = <<>>
         /\ ~WithData(o, x).done /\ WithData(o, x).sse = Append(<<>>, x)
         /\ Cleared(WithData(o, x)) = o /\ FlattenSeq(WithData(o, x).sse) = x
<1>1. o \in Observers("openai") /\ x \in Seq(Symbols) /\ o.sse = <<>> /\ ~o.done /\ o.buffer = <<>>
  BY PlainIsSymbols DEF Quiet
<1>2. WithData(o, x) \in Observers("openai") /\ WithData(o, x).buffer = o.buffer
      /\ WithData(o, x).sse = Append(o.sse, x)
  BY <1>1, DataFacts
<1>3. ~WithData(o, x).done /\ Cleared(WithData(o, x)) = o
  BY <1>1 DEF WithData, Cleared, Observers
<1> QED
  BY <1>1, <1>2, <1>3, FlattenOne

\* A second line of the same event.
LEMMA MoreData ==
  ASSUME NEW o, Quiet("openai", o), NEW x \in Seq(Plain), NEW y \in Seq(Plain)
  PROVE  LET p == WithData(WithData(o, x), y)
         IN /\ p \in Observers("openai") /\ p.buffer = <<>> /\ ~p.done /\ p.sse # <<>>
            /\ Cleared(p) = o /\ FlattenSeq(p.sse) = x \o y
<1> DEFINE q == WithData(o, x)  p == WithData(q, y)
<1>1. /\ q \in Observers("openai") /\ q.buffer = <<>> /\ ~q.done /\ q.sse = Append(<<>>, x)
      /\ Cleared(q) = o /\ FlattenSeq(q.sse) = x
  BY DataOf
<1>2. x \in Seq(Symbols) /\ y \in Seq(Symbols)
  BY PlainIsSymbols
<1> HIDE DEF q
<1>3. /\ p \in Observers("openai") /\ p.buffer = q.buffer /\ p.sse = Append(q.sse, y)
  BY <1>1, <1>2, DataFacts
<1>4. ~p.done /\ Cleared(p) = Cleared(q)
  BY <1>1 DEF WithData, Cleared, Observers
<1>5. q.sse \in Seq(Seq(Symbols))
  BY <1>1 DEF Observers
<1>6. FlattenSeq(Append(q.sse, y)) = x \o y /\ Append(q.sse, y) # <<>>
  <2> DEFINE r == q.sse
  <2>1. r \in Seq(Seq(Symbols)) /\ y \in Seq(Symbols) /\ FlattenSeq(r) = x
    BY <1>1, <1>2, <1>5
  <2> HIDE DEF r
  <2>2. FlattenSeq(Append(r, y)) = FlattenSeq(r) \o y
    BY <2>1, FlattenAppend
  <2>3. Append(r, y) # <<>>
    BY <2>1, AppendProperties
  <2> QED
    BY <2>1, <2>2, <2>3 DEF r
<1> QED
  BY <1>1, <1>3, <1>4, <1>6 DEF q

\* The event's bytes bring the observer from o to p; they are whole lines, and can be
\* decoded if and only if v.
Carries(m, o, s, p, v) == Reaches(m, o, s, p) /\ Tidy(s) /\ (ValidUtf8(s) <=> v)

\* What an event that fits leaves of the limit for the braces and the data mark.
LEMMA TextSize ==
  ASSUME NEW e \in Events, NEW a, Len(Text(e)) + Len(Eol(a)) <= MaxBody
  PROVE  /\ Len(Eol(a)) + 1 <= MaxBody /\ Len(Eol(a)) \in {1, 2}
         /\ e.kind = "object" => Len(Eol(a)) + 2 <= MaxBody
         /\ e.kind # "comment" => Len(Text(e)) \in Nat /\ Text(e) # <<>>
<1>1. Len(Eol(a)) \in {1, 2} /\ MaxBody \in Nat
  BY TidyEol, ObserverAssumption
<1>2. CASE e.kind = "comment"
  <2>1. Text(e) = <<"comment">>
    BY <1>2 DEF Text
  <2>2. Len(Text(e)) = 1
    BY <2>1
  <2> HIDE DEF Text
  <2> QED
    BY <1>1, <1>2, <2>2
<1>3. CASE e.kind = "object"
  <2>1. e.members \in Seq(Plain) /\ Len(Text(e)) = Len(e.members) + 2 /\ Text(e) \in Seq(Plain)
    BY <1>3, ObjectText
  <2>2. Len(e.members) \in Nat
    BY <2>1, LenProperties
  <2> QED
    BY <1>1, <1>3, <2>1, <2>2, TextIs
<1>4. CASE e.kind \notin {"comment", "object"}
  <2>1. e.kind \in {"done", "list", "noise"}
    BY <1>4 DEF Events
  <2>2. Len(Text(e)) = 1
    BY <2>1, OtherText
  <2> QED
    BY <1>1, <1>4, <2>2, TextIs
<1> QED
  BY <1>2, <1>3, <1>4

\* A comment is carried to the observer, and changes nothing in it.
LEMMA CommentIsRead ==
  ASSUME NEW m, NEW o, Quiet(m, o), NEW a, NEW e \in Events, e.kind = "comment",
         Len(Text(e)) + Len(Eol(a)) <= MaxBody
  PROVE  Carries(m, o, WireEvent(m, a, e), Reads(m, o, e), Decodes(e))
<1> DEFINE x == IF m = "openai" THEN <<":">> ELSE <<>>
<1>1. x \in Seq(Plain) /\ x \in Seq({":"}) /\ Len(x) <= 1 /\ Len(x) \in Nat
  <2>1. CASE m = "openai"
    <3>1. x = <<":">>
      BY <2>1
    <3>2. ":" \in Plain
      BY PlainMembers
    <3> HIDE DEF x
    <3> QED
      BY <3>1, <3>2, OneIsSeq
  <2>2. CASE m # "openai"
    BY <2>2, EmptySeq
  <2> QED
    BY <2>1, <2>2
<1>2. Closed(x) /\ ValidUtf8(x)
  <2> HIDE DEF x
  <2> QED
    BY <1>1, ValidPlain
<1>3. WireEvent(m, a, e) = x \o Eol(a)
  BY DEF WireEvent
<1>4. Line(o, x) = o
  <2>1. o.mode = m /\ WithoutCr(x) = x
    BY <1>1, PlainIsSymbols DEF Quiet, Observers
  <2>2. CASE m = "openai"
    <3>1. x = <<":">> /\ x # <<>> /\ x[1] = ":"
      BY <2>2
    <3> HIDE DEF x
    <3> QED
      BY <2>1, <2>2, <3>1 DEF Line
  <2>3. CASE m # "openai"
    <3>1. x = <<>>
      BY <2>3
    <3> HIDE DEF x
    <3> QED
      BY <2>1, <2>3, <3>1 DEF Line, ParseText
  <2> QED
    BY <2>2, <2>3
<1>5. Reads(m, o, e) = o /\ Decodes(e)
  BY DEF Reads, Decodes
<1> HIDE DEF x
<1>6. Len(x) + Len(Eol(a)) <= MaxBody + 1
  BY <1>1, TextSize, ObserverAssumption
<1>7. Reaches(m, o, x \o Eol(a), Line(o, x))
  BY <1>1, <1>6, ReachLine DEF Quiet
<1>8. Tidy(x \o Eol(a)) /\ (ValidUtf8(x \o Eol(a)) <=> ValidUtf8(x))
  BY <1>1, <1>2, TidyLine
<1> QED
  BY <1>2, <1>3, <1>4, <1>5, <1>7, <1>8 DEF Carries

\* A text on a line of its own: an answer in the native mode, and a line that is none.
LEMMA BareIsRead ==
  ASSUME NEW m, NEW o, Quiet(m, o), NEW a, NEW e \in Events,
         e.kind = "noise" \/ (m # "openai" /\ e.kind # "comment"),
         Len(Text(e)) + Len(Eol(a)) <= MaxBody
  PROVE  Carries(m, o, WireEvent(m, a, e), Reads(m, o, e), Decodes(e))
<1> DEFINE x == Text(e)
<1>1. /\ x \in Seq(Plain) /\ x # <<>> /\ Closed(x) /\ (ValidUtf8(x) <=> Decodes(e))
  BY TextIs
<1>2. WireEvent(m, a, e) = x \o Eol(a)
  BY DEF WireEvent
<1>3. Line(o, x) = Reads(m, o, e)
  <2>1. o.mode = m /\ WithoutCr(x) = x /\ o \in Observers(m)
    BY <1>1, PlainIsSymbols DEF Quiet, Observers
  <2>2. CASE m = "openai"
    <3>1. x = <<"noise">> /\ x[1] = "noise"
      BY <2>2, OtherText
    <3>2. Line(o, x) = Fault(o, "malformed SSE line")
      <4> HIDE DEF x
      <4> QED
        BY <1>1, <2>1, <2>2, <3>1 DEF Line
    <3> QED
      BY <2>2, <3>2 DEF Reads, Failing
  <2>3. CASE m # "openai"
    <3>1. Line(o, x) = ParseText(o, x)
      BY <2>1, <2>3 DEF Line
    <3> QED
      BY <2>1, <2>3, <3>1, ReadText
  <2> QED
    BY <2>2, <2>3
<1>4. Len(x) + Len(Eol(a)) <= MaxBody + 1
  <2>1. Len(x) \in Nat /\ Len(Eol(a)) \in {1, 2}
    BY TextSize
  <2> QED
    BY <2>1, ObserverAssumption
<1> HIDE DEF x
<1>5. Reaches(m, o, x \o Eol(a), Line(o, x))
  BY <1>1, <1>4, ReachLine DEF Quiet
<1>6. Tidy(x \o Eol(a)) /\ (ValidUtf8(x \o Eol(a)) <=> ValidUtf8(x))
  BY <1>1, TidyLine
<1> QED
  BY <1>1, <1>2, <1>3, <1>5, <1>6 DEF Carries

\* A data line that fits is carried to the observer whole.
LEMMA DataLine ==
  ASSUME NEW o \in Observers("openai"), o.buffer = <<>>, ~o.done, NEW a,
         NEW y \in Seq(Plain), y # <<>>, Closed(y), Len(y) + Len(Eol(a)) <= MaxBody
  PROVE  LET s == (<<"data:">> \o y) \o Eol(a)
         IN /\ Carries("openai", o, s, WithData(o, y), ValidUtf8(y))
            /\ s \in Seq(Symbols)
<1> DEFINE d == <<"data:">>  x == d \o y
<1>1. d \in Seq(Plain) /\ d \in Seq({"data:"}) /\ d # <<>>
  BY PlainMembers, OneIsSeq
<1>2. Closed(d) /\ ValidUtf8(d)
  <2> HIDE DEF d
  <2> QED
    BY <1>1, ValidPlain
<1>3. x \in Seq(Plain) /\ Len(x) = Len(y) + 1 /\ Line(o, x) = WithData(o, y)
  BY LineIsData
<1> HIDE DEF d
<1>4. Closed(x) /\ (ValidUtf8(x) <=> ValidUtf8(y))
  BY <1>1, <1>2, ClosedConcat, ValidConcat
<1> HIDE DEF x
<1>5. Len(x) + Len(Eol(a)) <= MaxBody + 1
  <2>1. Len(y) \in Nat /\ Len(Eol(a)) \in {1, 2} /\ MaxBody \in Nat
    BY LenProperties, TidyEol, ObserverAssumption
  <2> QED
    BY <1>3, <2>1
<1>6. Reaches("openai", o, x \o Eol(a), WithData(o, y))
  BY <1>3, <1>5, ReachLine
<1>7. Tidy(x \o Eol(a)) /\ (ValidUtf8(x \o Eol(a)) <=> ValidUtf8(x))
  BY <1>3, <1>4, TidyLine
<1>8. x \o Eol(a) \in Seq(Symbols)
  BY <1>7 DEF Tidy
<1> QED
  BY <1>4, <1>6, <1>7, <1>8 DEF Carries, x, d

\* What two texts carry one after the other, their concatenation carries.
LEMMA CarriesConcat ==
  ASSUME NEW m, NEW o, NEW p, NEW q, NEW s, NEW t, NEW v, NEW w,
         Carries(m, o, s, p, v), Carries(m, p, t, q, w), ~p.done
  PROVE  Carries(m, o, s \o t, q, v /\ w)
<1>1. s \in Seq(Symbols) /\ t \in Seq(Symbols)
  BY DEF Carries, Tidy
<1>2. Reaches(m, o, s \o t, q)
  BY <1>1, ReachConcat DEF Carries
<1>3. Tidy(s \o t) /\ (ValidUtf8(s \o t) <=> ValidUtf8(s) /\ ValidUtf8(t))
  BY <1>1, TidyConcat DEF Carries
<1> QED
  BY <1>2, <1>3 DEF Carries

\* A blank line that fits is carried to the observer as a blank line.
LEMMA BlankCarries ==
  ASSUME NEW m, NEW o \in Observers(m), NEW a, o.buffer = <<>>, ~o.done, Len(Eol(a)) <= MaxBody
  PROVE  Carries(m, o, Eol(a), Line(o, <<>>), TRUE)
  BY BlankLine, TidyEol DEF Carries

\* An event on one data line is carried to the observer as that event.
LEMMA DataIsRead ==
  ASSUME NEW o, Quiet("openai", o), NEW a, NEW e \in Events,
         e.kind \in {"object", "list", "done"}, ~(e.kind = "object" /\ e.folded),
         Len(Text(e)) + Len(Eol(a)) <= MaxBody
  PROVE  Carries("openai", o, WireEvent("openai", a, e), Reads("openai", o, e), Decodes(e))
<1> DEFINE x == Text(e)  p == WithData(o, x)  s == (<<"data:">> \o x) \o Eol(a)
<1>1. /\ x \in Seq(Plain) /\ x # <<>> /\ Closed(x) /\ (ValidUtf8(x) <=> Decodes(e))
      /\ x \in Seq(Symbols)
  BY TextIs, PlainIsSymbols
<1>2. WireEvent("openai", a, e) = s \o Eol(a)
  BY DEF WireEvent
<1>3. o \in Observers("openai") /\ o.buffer = <<>> /\ ~o.done
  BY DEF Quiet
<1>4. /\ p \in Observers("openai") /\ p.buffer = <<>> /\ ~p.done /\ p.sse = Append(<<>>, x)
      /\ Cleared(p) = o /\ FlattenSeq(p.sse) = x
  <2> HIDE DEF x
  <2> QED
    BY <1>1, DataOf
<1>5. Line(p, <<>>) = Reads("openai", o, e)
  <2>1. p.sse # <<>>
    <3> HIDE DEF p, x
    <3>1. Append(<<>>, x) # <<>>
      BY <1>1, EmptySeq, AppendProperties
    <3> QED
      BY <1>4, <3>1
  <2>2. Line(p, <<>>) = IF x = <<"[DONE]">> THEN Done(o) ELSE ParseText(o, x)
    <3> HIDE DEF p, x
    <3> QED
      BY <1>1, <1>3, <1>4, <2>1, EventIs
  <2>3. CASE e.kind = "done"
    BY <2>2, <2>3, OtherText DEF Reads
  <2>4. CASE e.kind = "list"
    <3>1. x = <<"list">> /\ ParseText(o, x) = Reads("openai", o, e)
      BY <1>3, <2>4, OtherText, ReadText
    <3>2. <<"list">> # <<"[DONE]">>
      OBVIOUS
    <3> QED
      BY <2>2, <3>1, <3>2
  <2>5. CASE e.kind = "object"
    BY <1>3, <2>2, <2>5, ObjectText, ReadText
  <2> QED
    BY <2>3, <2>4, <2>5
<1>6. Carries("openai", o, s, p, ValidUtf8(x))
  <2> HIDE DEF x
  <2> QED
    BY <1>1, <1>3, DataLine DEF x
<1>7. Carries("openai", p, Eol(a), Line(p, <<>>), TRUE)
  <2>1. Len(Eol(a)) <= MaxBody
    BY TextSize, ObserverAssumption
  <2> HIDE DEF p
  <2> QED
    BY <1>4, <2>1, BlankCarries
<1> HIDE DEF s, p, x
<1>8. Carries("openai", o, s \o Eol(a), Line(p, <<>>), ValidUtf8(x) /\ TRUE)
  BY <1>4, <1>6, <1>7, CarriesConcat
<1> QED
  BY <1>1, <1>2, <1>5, <1>8 DEF Carries

\* An object on two data lines.
LEMMA FoldedIsRead ==
  ASSUME NEW o, Quiet("openai", o), NEW a, NEW e \in Events, e.kind = "object", e.folded,
         Len(Text(e)) + Len(Eol(a)) <= MaxBody
  PROVE  Carries("openai", o, WireEvent("openai", a, e), Reads("openai", o, e), Decodes(e))
<1> DEFINE d == <<"data:">>  b == <<"{">>  c == Closing(e)  n == Eol(a)
           p == WithData(o, b)  q == WithData(p, c)
           s == (d \o b) \o n  t == (d \o c) \o n
<1>1. /\ Text(e) = b \o c /\ c \in Seq(Plain) /\ Closed(c) /\ c # <<>>
      /\ Len(Text(e)) = Len(c) + 1 /\ (Decodes(e) <=> ValidUtf8(c))
      /\ b \in Seq(Plain) /\ b # <<>> /\ Len(b) = 1 /\ Closed(b) /\ ValidUtf8(b)
      /\ d \in Seq(Plain) /\ Tail(Text(e)) = c
  <2>1. /\ Text(e) = b \o c /\ c \in Seq(Plain) /\ Closed(c) /\ c # <<>>
        /\ (Decodes(e) <=> ValidUtf8(c))
    BY ObjectText DEF Decodes
  <2>2. b \in Seq(Plain) /\ b \in Seq({"{"}) /\ b # <<>> /\ Len(b) = 1 /\ d \in Seq(Plain)
    BY PlainMembers, OneIsSeq
  <2> HIDE DEF b, c, d
  <2>3. Closed(b) /\ ValidUtf8(b)
    BY <2>2, ValidPlain
  <2>4. b \in Seq(Plain) /\ c \in Seq(Plain) /\ Len(b) = 1
    BY <2>1, <2>2
  <2>5. Tail(b \o c) = c
    BY ONLY <2>4, TailOf
  <2>6. Len(b \o c) = Len(b) + Len(c) /\ Len(c) \in Nat
    BY ONLY <2>4, ConcatProperties, LenProperties
  <2>7. Len(Text(e)) = Len(c) + 1 /\ Tail(Text(e)) = c
    <3>1. Len(Text(e)) = Len(b \o c) /\ Tail(Text(e)) = Tail(b \o c)
      BY <2>1
    <3> DEFINE n1 == Len(c)  n2 == Len(b \o c)
    <3>2. n2 = 1 + n1 /\ n1 \in Nat
      BY <2>4, <2>6
    <3> HIDE DEF n1, n2
    <3>3. n2 = n1 + 1
      BY <3>2
    <3> QED
      BY <2>5, <3>1, <3>3 DEF n1, n2
  <2> QED
    BY <2>1, <2>2, <2>3, <2>7
<1>2. WireEvent("openai", a, e) = (s \o t) \o n
  <2>1. WireEvent("openai", a, e) = ((((<<"data:", "{">> \o n) \o d) \o c) \o n) \o n
    <3>1. WireEvent("openai", a, e) = ((((<<"data:", "{">> \o n) \o d) \o Tail(Text(e))) \o n) \o n
      BY DEF WireEvent
    <3> QED
      BY <1>1, <3>1
  <2>2. <<"data:", "{">> = d \o b
    BY PlainMembers, Pair
  <2>3. n \in Seq(Symbols) /\ d \in Seq(Symbols) /\ c \in Seq(Symbols) /\ b \in Seq(Symbols)
    BY <1>1, PlainIsSymbols, TidyEol DEF Tidy
  <2> HIDE DEF n, d, c, b
  <2>4. s \in Seq(Symbols)
    BY <2>3, ConcatProperties
  <2> HIDE DEF s
  <2>5. ((s \o d) \o c) \o n = s \o ((d \o c) \o n)
    <3> HIDE DEF t
    <3>1. Regrouped(s, d, c, n)
      BY <2>3, <2>4, Regroup
    <3> QED
      BY ONLY <3>1 DEF Regrouped
  <2> QED
    BY <2>1, <2>2, <2>5 DEF s
<1>3. o \in Observers("openai") /\ o.buffer = <<>> /\ ~o.done
  BY DEF Quiet
<1>4. /\ p \in Observers("openai") /\ p.buffer = <<>> /\ ~p.done
  <2> HIDE DEF b
  <2> QED
    BY <1>1, DataOf
<1>5. /\ q \in Observers("openai") /\ q.buffer = <<>> /\ ~q.done /\ q.sse # <<>>
      /\ Cleared(q) = o /\ FlattenSeq(q.sse) = b \o c
  <2> HIDE DEF b, c
  <2> QED
    BY <1>1, MoreData
<1>6. Line(q, <<>>) = Reads("openai", o, e)
  <2>1. Text(e) \in Seq(Symbols) /\ Text(e) # <<"[DONE]">>
    BY ObjectText, PlainIsSymbols
  <2>2. Line(q, <<>>) = ParseText(o, Text(e))
    <3> HIDE DEF q
    <3> QED
      BY <1>1, <1>3, <1>5, <2>1, EventIs
  <2> QED
    BY <1>3, <2>2, ReadText
<1>7. /\ Len(b) + Len(n) <= MaxBody /\ Len(c) + Len(n) <= MaxBody /\ Len(n) <= MaxBody
  <2>1. Len(n) + 2 <= MaxBody /\ Len(n) \in {1, 2} /\ Len(c) \in Nat
    BY <1>1, TextSize, LenProperties
  <2> HIDE DEF n, b, c
  <2> QED
    BY <1>1, <2>1, ObserverAssumption DEF n
<1> HIDE DEF b, c
<1>8. Carries("openai", o, s, p, ValidUtf8(b))
  BY <1>1, <1>3, <1>7, DataLine
<1>9. Carries("openai", p, t, q, ValidUtf8(c))
  <2> HIDE DEF p
  <2> QED
    BY <1>1, <1>4, <1>7, DataLine
<1>10. Carries("openai", q, n, Line(q, <<>>), TRUE)
  <2> HIDE DEF q
  <2> QED
    BY <1>5, <1>7, BlankCarries
<1> HIDE DEF s, t, p, q, n
<1>11. Carries("openai", o, (s \o t) \o n, Line(q, <<>>), (ValidUtf8(b) /\ ValidUtf8(c)) /\ TRUE)
  BY <1>4, <1>5, <1>8, <1>9, <1>10, CarriesConcat
<1> QED
  BY <1>1, <1>2, <1>6, <1>11 DEF Carries

\* Every event that fits, in either framing, is carried to the observer as that event.
LEMMA EventIsRead ==
  ASSUME NEW m, NEW o, Quiet(m, o), NEW a, NEW e \in Events,
         Len(Text(e)) + Len(Eol(a)) <= MaxBody
  PROVE  Carries(m, o, WireEvent(m, a, e), Reads(m, o, e), Decodes(e))
<1>1. CASE e.kind = "comment"
  BY <1>1, CommentIsRead
<1>2. CASE e.kind = "noise" \/ (m # "openai" /\ e.kind # "comment")
  BY <1>2, BareIsRead
<1>3. CASE m = "openai" /\ e.kind = "object" /\ e.folded
  BY <1>3, FoldedIsRead
<1>4. CASE m = "openai" /\ e.kind \in {"object", "list", "done"} /\ ~(e.kind = "object" /\ e.folded)
  BY <1>4, DataIsRead
<1>5. e.kind \in {"object", "comment", "done", "list", "noise"}
  BY DEF Events
<1> QED
  BY <1>1, <1>2, <1>3, <1>4, <1>5

\* What is known of a text once it has been seen: the flags it sets.
FlagsOf(s) ==
  (IF \E v \in Visible : Holds(s, v) THEN {"content"} ELSE {})
    \cup (IF Holds(s, "think") THEN {"reasoning"} ELSE {})
    \cup (IF Holds(s, "call") THEN {"tools"} ELSE {})
    \cup (IF Holds(s, "stop") \/ Holds(s, "end") THEN {"finish"} ELSE {})
    \cup (IF Adjacent(Content(s), "<th", "ink>") THEN {"tag"} ELSE {})

\* The observer knows what s says.
Knows(o, s) == o.flags = FlagsOf(s) /\ o.tail = LastOf(Content(s), TailSize)

\* The flags and the tail after one more object are those of the content so far and its
\* own.
LEMMA MergeKnows ==
  ASSUME NEW m, NEW o \in Observers(m), NEW s \in Seq(Symbols), NEW t \in Seq(Symbols),
         Knows(o, s), Len(t) < TailSize
  PROVE  Knows(Merge(o, t), s \o t)
<1> DEFINE cs == Content(s)  ct == Content(t)  c == Content(s \o t)  l == LastOf(c, TailSize)
<1>1. cs \in Seq(Symbols) /\ ct \in Seq(Symbols) /\ c = cs \o ct
  BY ContentType, ContentConcat
<1>2. Len(ct) < TailSize
  <2>1. Len(ct) <= Len(t) /\ Len(ct) \in Nat /\ Len(t) \in Nat
    BY <1>1, ContentSize, LenProperties
  <2> QED
    BY <2>1, ObserverAssumption
<1>3. LastOf(o.tail \o ct, TailSize) = l
  <2>1. LastOf(LastOf(cs, TailSize) \o ct, TailSize) = LastOf(cs \o ct, TailSize)
    <3> HIDE DEF cs, ct
    <3> QED
      BY <1>1, ObserverAssumption, LastOfLast
  <2> QED
    BY <1>1, <2>1 DEF Knows
<1>4. Adjacent(c, "<th", "ink>") <=>
        Adjacent(cs, "<th", "ink>") \/ Adjacent(ct, "<th", "ink>") \/ Adjacent(l, "<th", "ink>")
  <2> HIDE DEF cs, ct
  <2>1. Adjacent(cs \o ct, "<th", "ink>") <=>
          Adjacent(cs, "<th", "ink>") \/ Adjacent(ct, "<th", "ink>")
            \/ Adjacent(LastOf(cs \o ct, TailSize), "<th", "ink>")
    BY <1>1, <1>2, ObserverAssumption, AdjacentConcat
  <2> QED
    BY <1>1, <2>1
<1>5. \A v : Holds(s \o t, v) <=> Holds(s, v) \/ Holds(t, v)
  BY HoldsConcat
<1>6. ct # <<>> <=> \E v \in Visible : Holds(t, v)
  BY ContentSize
<1>7. Merge(o, t).tail = l
  BY <1>3 DEF Merge, Observers
<1>8. Merge(o, t).flags = o.flags \cup
        ((IF ct # <<>> THEN {"content"} ELSE {})
           \cup (IF Holds(t, "think") THEN {"reasoning"} ELSE {})
           \cup (IF Holds(t, "call") THEN {"tools"} ELSE {})
           \cup (IF Holds(t, "stop") \/ Holds(t, "end") THEN {"finish"} ELSE {})
           \cup (IF Adjacent(ct, "<th", "ink>") \/ Adjacent(l, "<th", "ink>")
                 THEN {"tag"} ELSE {}))
  BY <1>3 DEF Merge, Observers
<1>9. o.flags = FlagsOf(s)
  BY DEF Knows
<1> HIDE DEF cs, ct, c, l
<1>10. Merge(o, t).flags = FlagsOf(s \o t)
  BY <1>4, <1>5, <1>6, <1>8, <1>9 DEF FlagsOf, cs, c
<1> QED
  BY <1>7, <1>10 DEF Knows, l, c

----------------------------------------------------------------------------
(* An answer, event by event.                                              *)

Saying(e) == IF e.kind = "object" THEN e.members ELSE <<>>
Good(m, e) == e.kind \in {"object", "comment"} \cup (IF m = "openai" THEN {"done"} ELSE {})

\* The events that fit: two of the conditions of Fits.
Fitting(a) == {e \in Events : /\ e.kind = "object" => Len(e.members) < TailSize
                              /\ Len(Text(e)) + Len(Eol(a)) <= MaxBody}

\* What an event says is a sequence of symbols.
LEMMA SayingType ==
  ASSUME NEW e \in Events
  PROVE  Saying(e) \in Seq(Symbols)
<1>1. CASE e.kind = "object"
  BY <1>1, ObjectText, PlainIsSymbols DEF Saying
<1>2. CASE e.kind # "object"
  BY <1>2, EmptySeq DEF Saying
<1> QED
  BY <1>1, <1>2

\* An event that leaves flags and tail alone says nothing.
LEMMA NothingIsSaid ==
  ASSUME NEW o, NEW p, NEW s \in Seq(Symbols), Knows(o, s), p.flags = o.flags, p.tail = o.tail
  PROVE  Knows(p, s \o <<>>)
<1>1. s \o <<>> = s
  BY ConcatEmptySeq
<1> QED
  BY <1>1 DEF Knows

\* What an event changes of what is known.
LEMMA ReadsFacts ==
  ASSUME NEW m, NEW o, Quiet(m, o), NEW a, NEW e \in Fitting(a),
         NEW s \in Seq(Symbols), Knows(o, s)
  PROVE  LET p == Reads(m, o, e)
         IN /\ p \in Observers(m) /\ p.sse = <<>> /\ Knows(p, s \o Saying(e))
            /\ (p.done <=> EndsIt(e) /\ Good(m, e))
            /\ (p.errors = {} <=> o.errors = {} /\ Good(m, e))
<1>1. o \in Observers(m) /\ o.sse = <<>> /\ ~o.done /\ e \in Events
  BY DEF Quiet, Fitting
<1>2. CASE e.kind = "comment"
  <2>1. Reads(m, o, e) = o /\ Saying(e) = <<>> /\ Good(m, e) /\ ~EndsIt(e)
    BY <1>2 DEF Reads, Saying, Good, EndsIt
  <2> QED
    BY <1>1, <2>1, NothingIsSaid
<1>3. CASE e.kind = "object"
  <2> DEFINE b == e.members
  <2>1. Reads(m, o, e) = Merge(o, b) /\ Saying(e) = b /\ Good(m, e) /\ (EndsIt(e) <=> Holds(b, "end"))
    BY <1>3 DEF Reads, Saying, Good, EndsIt
  <2>2. b \in Seq(Symbols) /\ Len(b) < TailSize
    BY <1>1, <1>3, ObjectText, PlainIsSymbols DEF Fitting
  <2> HIDE DEF b
  <2>3. Knows(Merge(o, b), s \o b)
    BY <1>1, <2>2, MergeKnows
  <2>4. Merge(o, b) \in Observers(m) /\ Merge(o, b).errors = o.errors
    BY <1>1, <2>2, MergeFacts
  <2>5. Merge(o, b).sse = o.sse /\ (Merge(o, b).done <=> Holds(b, "end"))
    BY <1>1 DEF Merge, Observers
  <2> QED
    BY <1>1, <2>1, <2>3, <2>4, <2>5
<1>4. CASE e.kind = "done" /\ m = "openai"
  <2>1. Reads(m, o, e) = Done(o) /\ Saying(e) = <<>> /\ Good(m, e) /\ EndsIt(e)
    BY <1>4 DEF Reads, Saying, Good, EndsIt
  <2>2. Done(o) \in Observers(m)
    BY <1>1, DoneFacts
  <2>3. /\ Done(o).sse = o.sse /\ Done(o).done /\ Done(o).errors = o.errors
        /\ Done(o).flags = o.flags /\ Done(o).tail = o.tail
    BY <1>1 DEF Done, Observers
  <2> QED
    BY <1>1, <2>1, <2>2, <2>3, NothingIsSaid
<1>5. CASE ~(e.kind \in {"comment", "object"}) /\ ~(e.kind = "done" /\ m = "openai")
  <2> DEFINE x == Failing(m, e)  p == Fault(o, x)
  <2>1. Reads(m, o, e) = p /\ Saying(e) = <<>> /\ ~Good(m, e)
    BY <1>5 DEF Reads, Saying, Good
  <2>2. x \in Faults
    BY DEF Failing, Faults
  <2> HIDE DEF x
  <2>3. p \in Observers(m) /\ p.errors # {}
    BY <1>1, <2>2, FaultFacts
  <2>4. p.sse = o.sse /\ p.done = o.done /\ p.flags = o.flags /\ p.tail = o.tail
    BY <1>1 DEF Fault, Observers
  <2> HIDE DEF p
  <2> QED
    BY <1>1, <2>1, <2>3, <2>4, NothingIsSaid
<1> QED
  BY <1>2, <1>3, <1>4, <1>5

StreamOf(m, a, evs) == FlattenSeq([i \in DOMAIN evs |-> WireEvent(m, a, evs[i])])
SaidBy(evs) == FlattenSeq([i \in DOMAIN evs |-> Saying(evs[i])])
Fresh(m) == NewObserver(m, TRUE, "ok")
EndsLast(evs) == \A i \in DOMAIN evs : EndsIt(evs[i]) => i = Len(evs)

\* What the whole stream of these events makes of a new observer.
Answered(m, a, evs, p) ==
  /\ Carries(m, Fresh(m), StreamOf(m, a, evs), p, \A i \in DOMAIN evs : Decodes(evs[i]))
  /\ p.sse = <<>> /\ SaidBy(evs) \in Seq(Symbols) /\ Knows(p, SaidBy(evs))
  /\ p.done => \E i \in DOMAIN evs : EndsIt(evs[i])
  /\ p.errors = {} <=> \A i \in DOMAIN evs : Good(m, evs[i])

\* A new observer of a stream is quiet and knows nothing.
LEMMA FreshIs ==
  ASSUME NEW m
  PROVE  /\ Quiet(m, Fresh(m)) /\ Fresh(m).streaming /\ Fresh(m).pending = <<>>
         /\ Fresh(m).errors = {} /\ Fresh(m).flags = {} /\ Fresh(m).tail = <<>>
         /\ Fresh(m).body = <<>>
<1>1. <<>> \in Seq(Symbols) /\ <<>> \in Seq(Seq(Symbols))
  BY EmptySeq
<1> QED
  BY <1>1 DEF Quiet, Fresh, NewObserver, Observers

\* An event on the wire is a sequence of symbols.
LEMMA WireType ==
  ASSUME NEW m, NEW a, NEW e \in Fitting(a)
  PROVE  WireEvent(m, a, e) \in Seq(Symbols)
<1>1. e \in Events /\ Len(Text(e)) + Len(Eol(a)) <= MaxBody
  BY DEF Fitting
<1>2. Carries(m, Fresh(m), WireEvent(m, a, e), Reads(m, Fresh(m), e), Decodes(e))
  BY <1>1, FreshIs, EventIsRead
<1> QED
  BY <1>2 DEF Carries, Tidy

\* The stream and what it says grow by an event's part of them.
LEMMA StreamGrows ==
  ASSUME NEW m, NEW a, NEW evs \in Seq(Fitting(a)), NEW e \in Fitting(a)
  PROVE  /\ StreamOf(m, a, Append(evs, e)) = StreamOf(m, a, evs) \o WireEvent(m, a, e)
         /\ SaidBy(Append(evs, e)) = SaidBy(evs) \o Saying(e)
<1> DEFINE g == [x \in Fitting(a) |-> WireEvent(m, a, x)]
           h == [x \in Fitting(a) |-> Saying(x)]
           more == Append(evs, e)
<1>1. Maps(g, Fitting(a), Symbols) /\ g[e] = WireEvent(m, a, e)
  BY WireType DEF Maps
<1>2. Maps(h, Fitting(a), Symbols) /\ h[e] = Saying(e)
  <2>1. Fitting(a) \subseteq Events
    BY DEF Fitting
  <2> QED
    BY <2>1, SayingType DEF Maps
<1>3. \A r \in Seq(Fitting(a)) : StreamOf(m, a, r) = Mapped(g, r) /\ SaidBy(r) = Mapped(h, r)
  <2> TAKE r \in Seq(Fitting(a))
  <2>1. \A i \in DOMAIN r : g[r[i]] = WireEvent(m, a, r[i]) /\ h[r[i]] = Saying(r[i])
    BY ElementOfSeq, LenProperties
  <2> QED
    BY <2>1 DEF StreamOf, SaidBy, Mapped
<1>4. more \in Seq(Fitting(a))
  BY AppendProperties
<1> HIDE DEF g, h
<1>5. Mapped(g, more) = Mapped(g, evs) \o g[e]
  <2>1. Maps(g, Fitting(a), Symbols)
    BY <1>1
  <2> QED
    BY ONLY evs \in Seq(Fitting(a)), e \in Fitting(a), <2>1, MapAppend
<1>6. Mapped(h, more) = Mapped(h, evs) \o h[e]
  <2>1. Maps(h, Fitting(a), Symbols)
    BY <1>2
  <2> QED
    BY ONLY evs \in Seq(Fitting(a)), e \in Fitting(a), <2>1, MapAppend
<1> QED
  BY <1>1, <1>2, <1>3, <1>4, <1>5, <1>6

\* An answer without events is read by the new observer as it stands.
LEMMA NothingAnswered ==
  ASSUME NEW m, NEW a
  PROVE  Answered(m, a, <<>>, Fresh(m))
<1> DEFINE o == Fresh(m)
<1>1. StreamOf(m, a, <<>>) = <<>> /\ SaidBy(<<>>) = <<>>
  <2>1. [i \in DOMAIN <<>> |-> WireEvent(m, a, <<>>[i])] = <<>>
        /\ [i \in DOMAIN <<>> |-> Saying(<<>>[i])] = <<>>
    OBVIOUS
  <2> QED
    BY <2>1, FlattenEmpty DEF StreamOf, SaidBy
<1>2. Quiet(m, o) /\ o.errors = {} /\ o.flags = {} /\ o.tail = <<>>
  BY FreshIs
<1>3. Tidy(<<>>) /\ ValidUtf8(<<>>) /\ <<>> \in Seq(Symbols)
  BY EmptySeq DEF Tidy, Closed, Paired, ValidUtf8
<1> HIDE DEF o
<1>4. After(o, <<>>) = o /\ Calm(o, <<>>)
  BY <1>2, AfterEmpty, CalmEmpty DEF Quiet
<1>5. Carries(m, o, <<>>, o, TRUE)
  BY <1>2, <1>3, <1>4 DEF Carries, Reaches, Quiet
<1>6. Knows(o, <<>>)
  <2>1. Content(<<>>) = <<>>
    BY ContentEmpty
  <2>2. \A x, y : ~Holds(<<>>, x) /\ ~Adjacent(<<>>, x, y)
    BY EmptySeq DEF Holds, Adjacent
  <2>3. LastOf(<<>>, TailSize) = <<>>
    BY EmptySeq, ObserverAssumption DEF LastOf
  <2>4. o.flags = {} /\ o.tail = <<>>
    BY <1>2
  <2>5. FlagsOf(<<>>) = {}
    <3>1. \A x, y : ~Adjacent(Content(<<>>), x, y)
      BY <2>1, <2>2
    <3> QED
      BY ONLY <2>2, <3>1 DEF FlagsOf
  <2> QED
    BY ONLY <2>1, <2>3, <2>4, <2>5 DEF Knows
<1>7. DOMAIN <<>> = {}
  OBVIOUS
<1>8. o.sse = <<>> /\ ~o.done
  BY <1>2 DEF Quiet
<1> QED
  BY <1>1, <1>2, <1>3, <1>5, <1>6, <1>7, <1>8 DEF Answered, o

\* The elements of a sequence with one more, by place.
LEMMA LastOfAppend ==
  ASSUME NEW S, NEW s \in Seq(S), NEW c \in S
  PROVE  LET t == Append(s, c)
         IN /\ DOMAIN s = 1..Len(s) /\ DOMAIN t = 1..(Len(s) + 1) /\ t[Len(s) + 1] = c
            /\ Len(t) = Len(s) + 1 /\ Len(s) \in Nat
            /\ (\A i \in 1..Len(s) : t[i] = s[i] /\ t[i] \in S)
  BY AppendProperties, LenProperties, ElementOfSeq

\* One more event that fits is read as that event after the ones before it.
LEMMA EventAnswered ==
  ASSUME NEW m, NEW a, NEW evs \in Seq(Fitting(a)), NEW e \in Fitting(a), NEW o,
         Answered(m, a, evs, o), EndsLast(Append(evs, e))
  PROVE  Answered(m, a, Append(evs, e), Reads(m, o, e))
<1> DEFINE more == Append(evs, e)  p == Reads(m, o, e)  n == Len(evs)
           v == \A i \in DOMAIN evs : Decodes(evs[i])
<1>1. /\ DOMAIN evs = 1..n /\ DOMAIN more = 1..(n + 1) /\ more[n + 1] = e
      /\ Len(more) = n + 1 /\ n \in Nat
      /\ (\A i \in 1..n : more[i] = evs[i])
  BY LastOfAppend
<1>2. \A i \in DOMAIN evs : ~EndsIt(evs[i])
  <2> HIDE DEF more, n
  <2> TAKE i \in DOMAIN evs
  <2>1. i \in 1..n /\ i \in DOMAIN more /\ i # Len(more) /\ more[i] = evs[i]
    BY <1>1
  <2>2. EndsIt(more[i]) => i = Len(more)
    BY <2>1 DEF EndsLast, more
  <2> QED
    BY <2>1, <2>2
<1>3. Quiet(m, o)
  BY <1>2 DEF Answered, Carries, Reaches, Quiet
<1>4. e \in Events /\ Len(Text(e)) + Len(Eol(a)) <= MaxBody
  BY DEF Fitting
<1>5. /\ p \in Observers(m) /\ p.sse = <<>> /\ Knows(p, SaidBy(evs) \o Saying(e))
      /\ (p.done <=> EndsIt(e) /\ Good(m, e))
      /\ (p.errors = {} <=> o.errors = {} /\ Good(m, e))
  BY <1>3, ReadsFacts DEF Answered
<1> HIDE DEF p
<1>6. Carries(m, o, WireEvent(m, a, e), p, Decodes(e))
  BY <1>3, <1>4, EventIsRead DEF p
<1>7. Carries(m, Fresh(m), StreamOf(m, a, evs), o, v)
  BY DEF Answered
<1> HIDE DEF v
<1>8. ~o.done
  BY <1>3 DEF Quiet
<1>9. Carries(m, Fresh(m), StreamOf(m, a, evs) \o WireEvent(m, a, e), p, v /\ Decodes(e))
  BY <1>6, <1>7, <1>8, CarriesConcat
<1>10. /\ StreamOf(m, a, more) = StreamOf(m, a, evs) \o WireEvent(m, a, e)
       /\ SaidBy(more) = SaidBy(evs) \o Saying(e)
  BY StreamGrows
<1> HIDE DEF more, n
<1>11. (v /\ Decodes(e)) <=> \A i \in DOMAIN more : Decodes(more[i])
  <2>1. \A i \in 1..(n + 1) : i \in 1..n \/ i = n + 1
    BY <1>1
  <2>2. n + 1 \in DOMAIN more /\ (\A i \in DOMAIN evs : i \in DOMAIN more)
    BY <1>1
  <2> QED
    BY <1>1, <2>1, <2>2 DEF v
<1>12. SaidBy(more) \in Seq(Symbols)
  BY <1>4, <1>10, SayingType, ConcatProperties DEF Answered
<1>13. n + 1 \in DOMAIN more
  BY <1>1
<1>14. (p.errors = {}) <=> \A i \in DOMAIN more : Good(m, more[i])
  <2>1. \A i \in 1..(n + 1) : i \in 1..n \/ i = n + 1
    BY <1>1
  <2>2. \A i \in DOMAIN evs : i \in DOMAIN more
    BY <1>1
  <2>3. (o.errors = {}) <=> \A i \in DOMAIN evs : Good(m, evs[i])
    BY DEF Answered
  <2> QED
    BY <1>1, <1>5, <1>13, <2>1, <2>2, <2>3
<1>15. Carries(m, Fresh(m), StreamOf(m, a, more), p, \A i \in DOMAIN more : Decodes(more[i]))
  BY <1>9, <1>10, <1>11 DEF Carries
<1>16. p.done => \E i \in DOMAIN more : EndsIt(more[i])
  BY <1>1, <1>5, <1>13
<1>17. p.sse = <<>> /\ Knows(p, SaidBy(more))
  BY <1>5, <1>10
<1>18. Answered(m, a, more, p)
  BY <1>12, <1>14, <1>15, <1>16, <1>17 DEF Answered
<1> QED
  BY <1>18 DEF more, p

\* So the observer makes of a whole stream what its events say.
LEMMA StreamIsRead ==
  ASSUME NEW m, NEW a, NEW evs \in Seq(Fitting(a)), EndsLast(evs)
  PROVE  Answered(m, a, evs, After(Fresh(m), StreamOf(m, a, evs)))
<1> DEFINE F == Fitting(a)
           T == {s \in Seq(F) : EndsLast(s) => \E p : Answered(m, a, s, p)}
<1>1. <<>> \in T
  <2>1. \E p : Answered(m, a, <<>>, p)
    BY NothingAnswered
  <2> QED
    BY <2>1, EmptySeq
<1>2. ASSUME NEW s \in Seq(F), NEW e \in F, s \in T
      PROVE  Append(s, e) \in T
  <2>1. Append(s, e) \in Seq(F)
    BY AppendProperties
  <2> SUFFICES ASSUME EndsLast(Append(s, e)) PROVE \E p : Answered(m, a, Append(s, e), p)
    BY <2>1
  <2>2. EndsLast(s)
    <3> DEFINE more == Append(s, e)
    <3>1. /\ DOMAIN s = 1..Len(s) /\ DOMAIN more = 1..(Len(s) + 1) /\ Len(more) = Len(s) + 1
          /\ Len(s) \in Nat /\ (\A i \in 1..Len(s) : more[i] = s[i])
      BY LastOfAppend
    <3> HIDE DEF more
    <3>2. \A i \in DOMAIN s : i \in DOMAIN more /\ i # Len(more) /\ more[i] = s[i]
      BY <3>1
    <3>3. \A i \in DOMAIN more : EndsIt(more[i]) => i = Len(more)
      BY DEF EndsLast, more
    <3> QED
      BY <3>2, <3>3 DEF EndsLast
  <2>3. PICK o : Answered(m, a, s, o)
    BY <1>2, <2>2
  <2>4. Answered(m, a, Append(s, e), Reads(m, o, e))
    BY <2>3, EventAnswered
  <2> QED
    BY <2>4
<1>3. Seq(F) \subseteq T
  <2> HIDE DEF T, F
  <2> QED
    BY <1>1, <1>2, SeqInduction
<1>4. PICK p : Answered(m, a, evs, p)
  BY <1>3
<1>5. p = After(Fresh(m), StreamOf(m, a, evs))
  BY <1>4 DEF Answered, Carries, Reaches
<1> QED
  BY <1>4, <1>5

----------------------------------------------------------------------------
(* An answer that fits, cut after w or not.                                *)

CutStream(m, a, w, z) ==
  /\ a \in AnswerSet /\ Fits(a) /\ w \in Seq(Symbols) /\ z \in Seq({"cr", "nl"})
  /\ StreamOf(m, a, a.events) = w \o z

\* The events of an answer that fits fit each, and only the last one ends the stream.
LEMMA EventsFit ==
  ASSUME NEW a \in AnswerSet, Fits(a)
  PROVE  a.events \in Seq(Fitting(a)) /\ EndsLast(a.events)
<1>1. a.events \in Seq(Events) /\ Len(a.events) \in Nat /\ DOMAIN a.events = 1..Len(a.events)
  BY LenProperties DEF AnswerSet
<1>2. \A i \in 1..Len(a.events) : a.events[i] \in Fitting(a)
  BY <1>1, ElementOfSeq DEF Fits, Fitting
<1>3. a.events \in Seq(Fitting(a))
  BY <1>1, <1>2
<1> QED
  BY <1>3 DEF Fits, EndsLast

\* What an answer means and whether it is well formed, said of its events.
LEMMA MeantIs ==
  ASSUME NEW m, NEW a \in AnswerSet
  PROVE  /\ Meant(a) = FlagsOf(SaidBy(a.events))
         /\ WellFormed(m, a) <=> (\A i \in DOMAIN a.events : Good(m, a.events[i]))
                                   /\ (\A i \in DOMAIN a.events : Decodes(a.events[i]))
<1>1. Said(a) = SaidBy(a.events)
  BY DEF Said, SaidBy, Saying
<1>2. Meant(a) = FlagsOf(Said(a))
  BY DEF Meant, FlagsOf
<1>3. WellFormed(m, a) <=> (\A i \in DOMAIN a.events : Good(m, a.events[i]))
                             /\ (\A i \in DOMAIN a.events : Decodes(a.events[i]))
  BY DEF WellFormed, Good, Decodes, Closing
<1> QED
  BY <1>1, <1>2, <1>3

\* After the whole stream the observer is between events, has met a fault exactly when
\* the answer is not well formed, and holds the flags the answer means.
LEMMA StreamFacts ==
  ASSUME NEW m, NEW a, NEW w, NEW z, CutStream(m, a, w, z)
  PROVE  LET p == After(Fresh(m), w \o z)
         IN /\ p \in Observers(m) /\ p.buffer = <<>> /\ p.sse = <<>>
            /\ Calm(Fresh(m), w \o z) /\ Tidy(w \o z)
            /\ WellFormed(m, a) <=> p.errors = {} /\ ValidUtf8(w \o z)
            /\ p.flags = Meant(a)
<1> DEFINE p == After(Fresh(m), w \o z)
<1>1. a \in AnswerSet /\ Fits(a) /\ StreamOf(m, a, a.events) = w \o z
  BY DEF CutStream
<1>2. Answered(m, a, a.events, p)
  BY <1>1, EventsFit, StreamIsRead
<1> HIDE DEF p
<1>3. /\ Reaches(m, Fresh(m), w \o z, p) /\ Tidy(w \o z)
      /\ ValidUtf8(w \o z) <=> \A i \in DOMAIN a.events : Decodes(a.events[i])
  BY <1>1, <1>2 DEF Answered, Carries
<1>4. p \in Observers(m) /\ p.buffer = <<>> /\ Calm(Fresh(m), w \o z)
  BY <1>3 DEF Reaches
<1>5. p.flags = Meant(a)
  BY <1>1, <1>2, MeantIs DEF Answered, Knows
<1>6. (p.errors = {}) <=> \A i \in DOMAIN a.events : Good(m, a.events[i])
  BY <1>2 DEF Answered
<1>7. WellFormed(m, a) <=> p.errors = {} /\ ValidUtf8(w \o z)
  BY <1>1, <1>3, <1>6, MeantIs
<1>8. p.sse = <<>>
  BY <1>2 DEF Answered
<1> QED
  BY <1>3, <1>4, <1>5, <1>7, <1>8 DEF p

\* What was not there before the cut cannot complete a character.
LEMMA CutIsValid ==
  ASSUME NEW w \in Seq(Symbols), NEW z \in Seq({"cr", "nl"}), Tidy(w \o z)
  PROVE  ValidUtf8(w \o z) <=> ValidUtf8(w) /\ Unfinished(w) = <<>>
<1>1. z \in Seq(Symbols) /\ ValidUtf8(z) /\ Closed(z)
  <2>1. {"cr", "nl"} \subseteq Symbols
    BY SomeSymbols
  <2> QED
    BY <2>1, SeqMonotonic, ValidPlain
<1>2. Unfinished(w) = <<>> <=> Closed(w)
  BY DEF Unfinished, Closed
<1>3. Closed(w) => (ValidUtf8(w \o z) <=> ValidUtf8(w))
  BY <1>1, ValidConcat
<1>4. ASSUME ValidUtf8(w \o z) PROVE Closed(w)
  <2> SUFFICES ASSUME w # <<>>, w[Len(w)] = "u1" PROVE FALSE
    BY DEF Closed
  <2> DEFINE l == w \o z  n == Len(w)
  <2>1. /\ n \in Nat \ {0} /\ Len(z) \in Nat /\ Len(l) = n + Len(z) /\ DOMAIN l = 1..Len(l)
        /\ \A i \in 1..(n + Len(z)) : l[i] = IF i <= n THEN w[i] ELSE z[i - n]
    BY <1>1, ConcatProperties, LenProperties, EmptySeq
  <2>2. CASE z = <<>>
    <3>1. l = w
      BY <2>2, ConcatEmptySeq
    <3> QED
      BY <3>1 DEF Tidy, Closed
  <2>3. CASE z # <<>>
    <3>1. Len(z) > 0 /\ z[1] \in {"cr", "nl"}
      <4>1. Len(z) \in Nat \ {0}
        BY <1>1, <2>3, EmptySeq, LenProperties
      <4>2. 1 \in 1..Len(z)
        BY <4>1
      <4> QED
        BY <4>1, <4>2, ElementOfSeq
    <3> HIDE DEF l, n
    <3>2. n \in 1..(n + Len(z)) /\ n + 1 \in 1..(n + Len(z)) /\ n <= n /\ ~(n + 1 <= n)
          /\ (n + 1) - n = 1 /\ n < Len(l)
      BY <2>1, <3>1
    <3>3. l[n] = "u1" /\ l[n + 1] = z[1]
      BY <2>1, <3>2 DEF n
    <3>4. l[n + 1] = "u2"
      <4>1. n \in DOMAIN l
        BY <2>1, <3>2
      <4> QED
        BY <1>4, <3>2, <3>3, <4>1 DEF ValidUtf8, l
    <3> QED
      BY <3>1, <3>3, <3>4
  <2> QED
    BY <2>2, <2>3
<1>5. ValidUtf8(w \o z) => ValidUtf8(w)
  BY <1>1, ValidConcat
<1> QED
  BY <1>2, <1>3, <1>4, <1>5

\* Finishing adds faults and takes none back.
LEMMA FinishGrows ==
  ASSUME NEW m, NEW o \in Observers(m), o.streaming
  PROVE  /\ o.errors \subseteq Finish(o).errors
         /\ o.pending # <<>> => Finish(o).errors # {}
<1> DEFINE x == "ended inside a character"
           d == IF o.pending # <<>> THEN Fault(o, x) ELSE o
           l == Drained(d)
           q == IF o.mode = "openai" THEN FinishEvent(l) ELSE l
<1>1. d \in Observers(m) /\ Grows(o, d) /\ (o.pending # <<>> => d.errors # {})
  <2>1. x \in Faults
    BY DEF Faults
  <2> HIDE DEF x
  <2>2. CASE o.pending # <<>>
    BY <2>1, <2>2, FaultFacts
  <2>3. CASE ~(o.pending # <<>>)
    BY <2>3 DEF Grows
  <2> QED
    BY <2>2, <2>3
<1>2. Finish(o).errors = q.errors
  BY DEF Finish, Observation, Drained, WithBuffer
<1> HIDE DEF d
<1>3. l \in Observers(m) /\ Grows(d, l)
  <2>1. CASE d.buffer # <<>>
    <3> DEFINE b == d.buffer  k == WithBuffer(d, <<>>)
    <3>1. b \in Seq(Symbols) /\ <<>> \in Seq(Symbols)
      BY <1>1, EmptySeq DEF Observers
    <3>2. k \in Observers(m) /\ Grows(d, k)
      BY <1>1, <3>1, BufferSet
    <3> HIDE DEF b, k
    <3>3. Line(k, b) \in Observers(m) /\ Grows(k, Line(k, b))
      BY <3>1, <3>2, LineFacts
    <3>4. l = Line(k, b)
      BY <2>1 DEF Drained, k, b
    <3> QED
      BY <3>2, <3>3, <3>4, GrowsOn
  <2>2. CASE d.buffer = <<>>
    BY <1>1, <2>2 DEF Drained, Grows
  <2> QED
    BY <2>1, <2>2
<1> HIDE DEF l
<1>4. q \in Observers(m) /\ Grows(l, q)
  <2>1. CASE o.mode = "openai"
    BY <1>3, <2>1, EventFacts
  <2>2. CASE o.mode # "openai"
    BY <1>3, <2>2 DEF Grows
  <2> QED
    BY <2>1, <2>2
<1> HIDE DEF q
<1>5. Grows(o, q) /\ d.errors \subseteq q.errors
  BY <1>1, <1>3, <1>4, GrowsOn DEF Grows
<1> QED
  BY <1>1, <1>2, <1>5 DEF Grows

\* What a finished stream is reported as.
LEMMA FinishedStream ==
  ASSUME NEW m, NEW a, NEW w, NEW z, CutStream(m, a, w, z), ValidUtf8(w), Unfinished(w) = <<>>
  PROVE  LET f == Finish(After(Fresh(m), w))
         IN (f.errors = {}) = WellFormed(m, a) /\ f.flags = Meant(a)
<1> DEFINE o == Fresh(m)  p == After(o, w \o z)
<1>1. w \in Seq(Symbols) /\ z \in Seq({"cr", "nl"}) /\ w \o z \in Seq(Symbols)
  <2>1. Tidy(w \o z)
    BY StreamFacts
  <2> QED
    BY <2>1 DEF CutStream, Tidy
<1>2. /\ p \in Observers(m) /\ p.buffer = <<>> /\ p.sse = <<>> /\ Tidy(w \o z)
      /\ WellFormed(m, a) <=> p.errors = {} /\ ValidUtf8(w \o z)
      /\ p.flags = Meant(a)
  BY StreamFacts
<1>3. /\ o \in Observers(m) /\ o.streaming /\ o.pending = <<>> /\ o.buffer = <<>>
  BY FreshIs DEF Quiet
<1>4. ValidUtf8(w \o z)
  BY <1>1, <1>2, CutIsValid
<1>5. NoDouble(w \o z)
  BY <1>1, <1>2, PairedNoDouble DEF Tidy
<1> HIDE DEF o
<1>6. Finish(p) = Finish(After(o, w))
  BY <1>1, <1>3, <1>5, FinishIgnoresEols
<1>7. p.streaming /\ p.pending = <<>>
  BY <1>1, <1>3, AfterFacts DEF Grows
<1> HIDE DEF p
<1>8. Finish(p) = Observation(Ended(p), FALSE)
  BY <1>7, FinishIs
<1>9. Ended(p) = p
  BY <1>2 DEF Ended, Drained, FinishEvent
<1>10. Finish(p).errors = p.errors /\ Finish(p).flags = p.flags
  BY <1>8, <1>9 DEF Observation
<1>11. WellFormed(m, a) \in BOOLEAN
  BY DEF WellFormed
<1> QED
  BY <1>2, <1>4, <1>6, <1>10, <1>11 DEF o

----------------------------------------------------------------------------
(* An answer that fits, chunk by chunk.                                    *)

\* Of the answer w the part p has come: it was decoded and read, but for the first byte
\* of a character; or the answer cannot be decoded, and a chunk was dropped for that.
Follows(m, w, o, p) ==
  \/ ValidUtf8(p) /\ o = WithPending(After(Fresh(m), Finished(p)), Unfinished(p))
  \/ ~ValidUtf8(w) /\ o \in Observers(m) /\ o.streaming /\ o.errors # {}

Fed(o, x) == After(WithPending(o, Unfinished(x)), Finished(x))

\* What feeding a chunk does to a streaming observer, with the pending bytes put before
\* it.
LEMMA FeedIs ==
  ASSUME NEW o, NEW c, o.streaming
  PROVE  LET x == o.pending \o c
             q == Fed(o, x)
         IN Feed(o, c) = IF ~ValidUtf8(x) THEN Fault(o, "invalid UTF-8")
                         ELSE IF Len(q.buffer) > MaxBody
                              THEN WithBuffer(Fault(q, "line over the limit"), <<>>)
                              ELSE q
  BY DEF Feed, Fed, After, WithPending, WithBuffer

\* A new observer follows any answer of which nothing has come yet.
LEMMA FollowsBegin ==
  ASSUME NEW m, NEW w
  PROVE  Follows(m, w, Fresh(m), <<>>)
<1>1. ValidUtf8(<<>>) /\ Unfinished(<<>>) = <<>>
  BY EmptySeq DEF ValidUtf8, Unfinished
<1>2. Finished(<<>>) = <<>>
  BY <1>1, EmptySeq, FinishedIs
<1>3. After(Fresh(m), <<>>) = Fresh(m)
  BY AfterEmpty
<1>4. WithPending(Fresh(m), <<>>) = Fresh(m)
  <2> DEFINE o == Fresh(m)
  <2>1. o \in Observers(m) /\ o.pending = <<>>
    BY FreshIs DEF Quiet
  <2> HIDE DEF o
  <2>2. WithPending(o, <<>>) = o
    BY <2>1 DEF WithPending, Observers
  <2> QED
    BY <2>2 DEF o
<1> QED
  BY <1>1, <1>2, <1>3, <1>4 DEF Follows

\* Setting the pending bytes sets nothing else.
LEMMA PendingFacts ==
  ASSUME NEW m, NEW o \in Observers(m), NEW x \in Seq(Symbols), NEW y \in Seq(Symbols)
  PROVE  /\ WithPending(o, x) \in Observers(m) /\ WithPending(o, x).pending = x
         /\ WithPending(WithPending(o, x), y) = WithPending(o, y)
         /\ WithPending(o, x).errors = o.errors /\ WithPending(o, x).flags = o.flags
         /\ WithPending(o, x).streaming = o.streaming /\ WithPending(o, x).done = o.done
         /\ WithPending(o, x).buffer = o.buffer
         /\ WithPending(o, o.pending) = o
  BY DEF WithPending, Observers

\* Whatever comes, faults stay.
LEMMA FeedKeeps ==
  ASSUME NEW m, NEW o \in Observers(m), o.streaming, NEW c \in Seq(Symbols)
  PROVE  /\ Feed(o, c) \in Observers(m) /\ Feed(o, c).streaming
         /\ o.errors \subseteq Feed(o, c).errors
         /\ ~ValidUtf8(o.pending \o c) => Feed(o, c).errors # {}
<1> DEFINE x == o.pending \o c  q == Fed(o, x)  r == Fault(q, "line over the limit")
           u == Fault(o, "invalid UTF-8")
<1>1. x \in Seq(Symbols)
  <2>1. o.pending \in Seq(Symbols)
    BY DEF Observers
  <2> QED
    BY <2>1, ConcatProperties
<1>2. Feed(o, c) = IF ~ValidUtf8(x) THEN u
                   ELSE IF Len(q.buffer) > MaxBody THEN WithBuffer(r, <<>>) ELSE q
  BY FeedIs
<1>3. u \in Observers(m) /\ Grows(o, u) /\ u.errors # {}
  <2>1. "invalid UTF-8" \in Faults
    BY DEF Faults
  <2> QED
    BY <2>1, FaultFacts
<1> HIDE DEF x
<1>4. q \in Observers(m) /\ q.streaming /\ o.errors \subseteq q.errors
  <2> DEFINE k == WithPending(o, Unfinished(x))
  <2>1. Finished(x) \in Seq(Symbols) /\ Unfinished(x) \in Seq(Symbols)
    BY <1>1, FinishedIs
  <2>2. k \in Observers(m) /\ k.errors = o.errors /\ k.streaming = o.streaming
    BY <2>1, PendingFacts
  <2> HIDE DEF k
  <2>3. After(k, Finished(x)) \in Observers(m) /\ Grows(k, After(k, Finished(x)))
    BY <2>1, <2>2, AfterFacts
  <2> QED
    BY <2>2, <2>3 DEF Fed, Grows, k
<1> HIDE DEF q
<1>5. r \in Observers(m) /\ Grows(q, r)
  <2>1. "line over the limit" \in Faults
    BY DEF Faults
  <2> QED
    BY <1>4, <2>1, FaultFacts
<1> HIDE DEF r, u
<1>6. WithBuffer(r, <<>>) \in Observers(m) /\ Grows(r, WithBuffer(r, <<>>))
  <2>1. <<>> \in Seq(Symbols)
    BY EmptySeq
  <2> QED
    BY <1>5, <2>1, BufferSet
<1> QED
  BY <1>2, <1>3, <1>4, <1>5, <1>6 DEF Grows, x

\* A chunk c of an answer of which p has come, and r is still to come.
LEMMA FollowsChunk ==
  ASSUME NEW m, NEW a, NEW z, NEW o, NEW p \in Seq(Symbols), NEW c \in Seq(Symbols),
         NEW r \in Seq(Symbols), CutStream(m, a, (p \o c) \o r, z),
         Follows(m, (p \o c) \o r, o, p)
  PROVE  Follows(m, (p \o c) \o r, Feed(o, c), p \o c)
<1> DEFINE w == (p \o c) \o r  f == Fresh(m)  pc == p \o c
<1>1. CASE ~ValidUtf8(w) /\ o \in Observers(m) /\ o.streaming /\ o.errors # {}
  BY <1>1, FeedKeeps DEF Follows
<1>2. CASE ValidUtf8(p) /\ o = WithPending(After(f, Finished(p)), Unfinished(p))
  <2> DEFINE x == Unfinished(p) \o c  q == Fed(o, x)  b == After(f, Finished(p))
  <2>1. pc \in Seq(Symbols) /\ w \in Seq(Symbols)
    BY ConcatProperties
  <2>2. /\ x \in Seq(Symbols) /\ (ValidUtf8(pc) <=> ValidUtf8(x))
        /\ Unfinished(pc) = Unfinished(x) /\ Finished(pc) = Finished(p) \o Finished(x)
    BY <1>2, ChunkIs
  <2>3. ValidUtf8(w) => ValidUtf8(pc)
    BY <2>1, ValidConcat
  <2>4. /\ Finished(p) \in Seq(Symbols) /\ Unfinished(p) \in Seq(Symbols)
        /\ Finished(x) \in Seq(Symbols) /\ Unfinished(x) \in Seq(Symbols)
        /\ Finished(pc) \in Seq(Symbols) /\ Unfinished(pc) \in Seq(Symbols)
        /\ pc = Finished(pc) \o Unfinished(pc)
    BY <2>1, <2>2, FinishedIs
  <2>5. f \in Observers(m) /\ f.streaming
    BY FreshIs DEF Quiet
  <2> HIDE DEF f, x
  <2>6. b \in Observers(m) /\ b.streaming
    BY <2>4, <2>5, AfterFacts DEF Grows
  <2> HIDE DEF b
  <2>7. o \in Observers(m) /\ o.pending = Unfinished(p) /\ o.streaming
    BY <1>2, <2>4, <2>6, PendingFacts DEF b
  <2>8. CASE ~ValidUtf8(x)
    <3>1. Feed(o, c) \in Observers(m) /\ Feed(o, c).streaming /\ Feed(o, c).errors # {}
      BY <2>7, <2>8, FeedKeeps DEF x
    <3> QED
      BY <2>2, <2>3, <2>8, <3>1 DEF Follows
  <2>9. CASE ValidUtf8(x)
    <3>1. WithPending(o, Unfinished(x)) = WithPending(b, Unfinished(x))
      BY <1>2, <2>4, <2>6, PendingFacts DEF b
    <3>2. q = WithPending(After(b, Finished(x)), Unfinished(x))
      BY <2>4, <2>6, <3>1, AfterFacts DEF Fed
    <3>3. After(b, Finished(x)) = After(f, Finished(pc))
      BY <2>2, <2>4, AfterConcat DEF b
    <3>4. q = WithPending(After(f, Finished(pc)), Unfinished(pc))
      BY <2>2, <3>2, <3>3
    <3>5. Len(q.buffer) <= MaxBody
      <4>1. Calm(f, w \o z)
        BY StreamFacts DEF f
      <4>2. z \in Seq(Symbols)
        <5>1. {"cr", "nl"} \subseteq Symbols /\ z \in Seq({"cr", "nl"})
          BY SomeSymbols DEF CutStream
        <5> QED
          BY <5>1, SeqMonotonic
      <4> HIDE DEF w, pc
      <4>3. Calm(f, w)
        BY <2>1, <4>1, <4>2, CalmPrefix
      <4>4. Calm(f, pc)
        <5>1. Calm(f, pc \o r)
          BY <4>3 DEF w, pc
        <5> QED
          BY <2>1, <5>1, CalmPrefix
      <4>5. Len(After(f, Finished(pc)).buffer) <= MaxBody
        BY <2>4, <4>4 DEF Calm
      <4>6. After(f, Finished(pc)) \in Observers(m)
        BY <2>4, <2>5, AfterFacts
      <4> QED
        BY <2>4, <3>4, <4>5, <4>6, PendingFacts
    <3>6. Feed(o, c) = q
      <4>1. ~(Len(q.buffer) > MaxBody)
        <5> DEFINE n == Len(q.buffer)
        <5>1. n \in Nat /\ MaxBody \in Nat /\ n <= MaxBody
          <6>1. After(f, Finished(pc)) \in Observers(m)
            BY <2>4, <2>5, AfterFacts
          <6>2. q \in Observers(m)
            BY <2>4, <3>4, <6>1, PendingFacts
          <6> HIDE DEF q
          <6>3. q.buffer \in Seq(Symbols)
            BY <6>2 DEF Observers
          <6> QED
            BY <3>5, <6>3, LenProperties, ObserverAssumption
        <5> HIDE DEF n
        <5> QED
          BY <5>1 DEF n
      <4>2. o.pending \o c = x
        BY <2>7 DEF x
      <4> HIDE DEF q
      <4> QED
        BY <2>7, <2>9, <4>1, <4>2, FeedIs DEF q
    <3> QED
      BY <2>2, <2>9, <3>4, <3>6 DEF Follows, f
  <2> QED
    BY <2>8, <2>9
<1> QED
  BY <1>1, <1>2 DEF Follows

\* The answer is done only at its end.
LEMMA FollowsDone ==
  ASSUME NEW m, NEW a, NEW z, NEW o, NEW p \in Seq(Symbols), NEW r \in Seq(Symbols),
         CutStream(m, a, p \o r, z), Follows(m, p \o r, o, p), o.done
  PROVE  Follows(m, p \o r, o, p \o r)
<1> DEFINE w == p \o r  f == Fresh(m)  g == Finished(p)  held == Unfinished(p)
<1>1. CASE ~ValidUtf8(w) /\ o \in Observers(m) /\ o.streaming /\ o.errors # {}
  BY <1>1 DEF Follows
<1>2. CASE ValidUtf8(p) /\ o = WithPending(After(f, g), held)
  <2>1. /\ g \in Seq(Symbols) /\ held \in Seq(Symbols) /\ p = g \o held /\ f \in Observers(m)
        /\ z \in Seq(Symbols)
    <3>1. {"cr", "nl"} \subseteq Symbols /\ z \in Seq({"cr", "nl"})
      BY SomeSymbols DEF CutStream
    <3>2. z \in Seq(Symbols)
      BY <3>1, SeqMonotonic
    <3>3. g \in Seq(Symbols) /\ held \in Seq(Symbols) /\ p = g \o held
      BY FinishedIs
    <3> QED
      BY <3>2, <3>3, FreshIs DEF Quiet
  <2>2. Calm(f, w \o z)
    BY StreamFacts
  <2> HIDE DEF f, g, held
  <2>3. After(f, g).done
    <3>1. After(f, g) \in Observers(m)
      BY <2>1, AfterFacts
    <3> QED
      BY <1>2, <2>1, <3>1, PendingFacts
  <2>4. w \in Seq(Symbols)
    BY ConcatProperties
  <2> HIDE DEF w
  <2>5. Calm(f, w)
    BY <2>1, <2>2, <2>4, CalmPrefix
  <2>6. w = g \o (held \o r) /\ held \o r \in Seq(Symbols)
    <3>1. w = (g \o held) \o r
      BY <2>1 DEF w
    <3>2. (g \o held) \o r = g \o (held \o r) /\ held \o r \in Seq(Symbols)
      <4>1. Joined(g, held, r)
        BY <2>1, Joining
      <4>2. (g \o held) \o r = g \o (held \o r)
        BY ONLY <4>1 DEF Joined
      <4> QED
        BY ONLY <2>1, <4>2, r \in Seq(Symbols), ConcatProperties
    <3> QED
      BY <3>1, <3>2
  <2>7. held \o r = <<>>
    <3> DEFINE k == held \o r
    <3>1. k \in Seq(Symbols) /\ g \o k = w
      BY <2>6
    <3> HIDE DEF k
    <3>2. k # <<>> => ~After(f, g).done
      BY <2>1, <2>5, <3>1 DEF Calm
    <3> QED
      BY <2>3, <3>2 DEF k
  <2>8. r = <<>>
    BY <2>1, <2>7, ConcatEqualIffEmpty
  <2>9. p \o r = p
    BY <2>8, ConcatEmptySeq
  <2> QED
    BY <2>9
<1> QED
  BY <1>1, <1>2 DEF Follows

\* What is reported of an answer that has come in full.
LEMMA FollowsEnd ==
  ASSUME NEW m, NEW a, NEW w, NEW z, NEW o, CutStream(m, a, w, z), Follows(m, w, o, w)
  PROVE  /\ (Finish(o).errors = {}) = WellFormed(m, a)
         /\ Finish(o).errors = {} => Finish(o).flags = Meant(a)
<1>1. w \in Seq(Symbols) /\ z \in Seq({"cr", "nl"}) /\ Tidy(w \o z)
  BY StreamFacts DEF CutStream
<1>2. ValidUtf8(w \o z) <=> ValidUtf8(w) /\ Unfinished(w) = <<>>
  BY <1>1, CutIsValid
<1>3. WellFormed(m, a) => ValidUtf8(w \o z)
  BY StreamFacts
<1>4. WellFormed(m, a) \in BOOLEAN
  BY DEF WellFormed
<1>5. CASE ~ValidUtf8(w) /\ o \in Observers(m) /\ o.streaming /\ o.errors # {}
  <2>1. Finish(o).errors # {}
    BY <1>5, FinishGrows
  <2> QED
    BY <1>2, <1>3, <1>4, <1>5, <2>1
<1>6. CASE ValidUtf8(w) /\ o = WithPending(After(Fresh(m), Finished(w)), Unfinished(w))
  <2> DEFINE b == After(Fresh(m), Finished(w))
  <2>1. Finished(w) \in Seq(Symbols) /\ Unfinished(w) \in Seq(Symbols)
        /\ (Unfinished(w) = <<>> => Finished(w) = w)
    BY <1>1, FinishedIs
  <2>2. b \in Observers(m) /\ b.streaming /\ b.pending = <<>>
    BY <2>1, FreshIs, AfterFacts DEF Quiet, Grows
  <2> HIDE DEF b
  <2>3. o \in Observers(m) /\ o.streaming /\ o.pending = Unfinished(w)
    BY <1>6, <2>1, <2>2, PendingFacts DEF b
  <2>4. CASE Unfinished(w) # <<>>
    <3>1. Finish(o).errors # {}
      BY <2>3, <2>4, FinishGrows
    <3> QED
      BY <1>2, <1>3, <1>4, <2>4, <3>1
  <2>5. CASE Unfinished(w) = <<>>
    <3>1. o = b
      <4>1. o = WithPending(b, b.pending)
        BY <1>6, <2>2, <2>5 DEF b
      <4> QED
        BY <2>2, <4>1 DEF WithPending, Observers
    <3>2. o = After(Fresh(m), w)
      BY <2>1, <2>5, <3>1 DEF b
    <3> QED
      BY <1>6, <2>5, <3>2, FinishedStream
  <2> QED
    BY <2>4, <2>5
<1> QED
  BY <1>5, <1>6 DEF Follows

\* What is reported of a part of a good answer.
LEMMA FollowsLeft ==
  ASSUME NEW m, NEW a, NEW z, NEW o, NEW p \in Seq(Symbols), NEW r \in Seq(Symbols),
         CutStream(m, a, p \o r, z), Follows(m, p \o r, o, p), WellFormed(m, a)
  PROVE  o.errors = {} /\ o.flags \subseteq Meant(a)
<1> DEFINE w == p \o r  f == Fresh(m)  g == Finished(p)  held == Unfinished(p)
           b == After(f, g)  all == After(f, w \o z)
<1>1. ValidUtf8(w \o z) /\ all.errors = {} /\ all.flags = Meant(a) /\ all \in Observers(m)
      /\ w \o z \in Seq(Symbols)
  BY StreamFacts DEF Tidy
<1>2. w \in Seq(Symbols) /\ z \in Seq({"cr", "nl"}) /\ z \in Seq(Symbols)
  <2>1. {"cr", "nl"} \subseteq Symbols /\ z \in Seq({"cr", "nl"})
    BY SomeSymbols DEF CutStream
  <2> QED
    BY <2>1, SeqMonotonic, ConcatProperties
<1>3. ValidUtf8(w)
  <2> HIDE DEF w
  <2> QED
    BY <1>1, <1>2, ValidConcat
<1>4. ValidUtf8(p) /\ o = WithPending(b, held)
  BY <1>3 DEF Follows
<1>5. g \in Seq(Symbols) /\ held \in Seq(Symbols) /\ p = g \o held /\ f \in Observers(m)
  BY FinishedIs, FreshIs DEF Quiet
<1> HIDE DEF f, g, held
<1>6. b \in Observers(m)
  BY <1>5, AfterFacts
<1>7. Grows(b, all)
  <2> DEFINE k == held \o (r \o z)
  <2>1. k \in Seq(Symbols) /\ w \o z = g \o k
    <3>1. w \o z = ((g \o held) \o r) \o z
      BY <1>5
    <3>2. Regrouped(g, held, r, z)
      BY <1>2, <1>5, Regroup
    <3>3. (held \o r) \o z = held \o (r \o z) /\ r \o z \in Seq(Symbols)
      <4>1. held \in Seq(Symbols) /\ r \in Seq(Symbols) /\ z \in Seq(Symbols)
        BY <1>2, <1>5
      <4> QED
        <5>1. Joined(held, r, z)
          BY ONLY <4>1, Joining
        <5>2. (held \o r) \o z = held \o (r \o z)
          BY ONLY <5>1 DEF Joined
        <5> QED
          BY ONLY <4>1, <5>2, ConcatProperties
    <3>4. ((g \o held) \o r) \o z = g \o ((held \o r) \o z)
      BY ONLY <3>2 DEF Regrouped
    <3>5. w \o z = g \o k
      BY ONLY <3>1, <3>3, <3>4
    <3>6. k \in Seq(Symbols)
      BY ONLY <1>5, <3>3, ConcatProperties
    <3> QED
      BY <3>5, <3>6
  <2> HIDE DEF k, w
  <2>2. all = After(b, k)
    BY <1>5, <2>1, AfterConcat
  <2> HIDE DEF b, all
  <2> QED
    BY <1>6, <2>1, <2>2, AfterFacts
<1> HIDE DEF b, all
<1>8. o.errors = b.errors /\ o.flags = b.flags
  BY <1>4, <1>5, <1>6, PendingFacts
<1> QED
  BY <1>1, <1>7, <1>8 DEF Grows

----------------------------------------------------------------------------
(* An answer in the handler.                                               *)

\* The stream of an answer that fits is its events and the line ends that close it.
LEMMA WireIsCut ==
  ASSUME NEW m, NEW s, NEW a \in AnswerSet, Fits(a), IsStream(s, a)
  PROVE  \E z \in Seq({"cr", "nl"}) : CutStream(m, a, Wire(m, s, a), z)
<1> DEFINE all == StreamOf(m, a, a.events)
<1>1. all \in Seq(Symbols)
  <2>1. Answered(m, a, a.events, After(Fresh(m), all))
    BY EventsFit, StreamIsRead
  <2> QED
    BY <2>1 DEF Answered, Carries, Tidy
<1>2. Wire(m, s, a) = IF a.cut THEN Unended(all) ELSE all
  BY DEF Wire, StreamOf
<1>3. CASE a.cut
  <2> HIDE DEF all
  <2>1. PICK z \in Seq({"cr", "nl"}) : Unended(all) \in Seq(Symbols) /\ all = Unended(all) \o z
    BY <1>1, UnendedIs
  <2> QED
    BY <1>2, <1>3, <2>1 DEF CutStream, all
<1>4. CASE ~a.cut
  <2> HIDE DEF all
  <2>1. <<>> \in Seq({"cr", "nl"}) /\ all = all \o <<>>
    BY <1>1, EmptySeq, ConcatEmptySeq
  <2> QED
    BY <1>1, <1>2, <1>4, <2>1 DEF CutStream, all
<1> QED
  BY <1>3, <1>4

\* A text that is no stream: a comment may stand in it.
Told == Symbols \cup {"comment"}
WithBody(o, b) == [o EXCEPT !.body = b]

\* How far the observer o of an answer a is when r of it is still to come.
Reading(m, s, a, o, r) ==
  IF IsStream(s, a)
  THEN \E p \in Seq(Symbols), z \in Seq({"cr", "nl"}) :
         /\ r \in Seq(Symbols) /\ p \o r = Wire(m, s, a) /\ CutStream(m, a, Wire(m, s, a), z)
         /\ Follows(m, Wire(m, s, a), o, p)
  ELSE \E b \in Seq(Told) :
         /\ r \in Seq(Told) /\ o = WithBody(NewObserver(m, s, a.status), b)
         /\ Len(b) + Len(r) <= MaxBody

\* The observer of a new answer reads it from the start.
LEMMA ReadingBegins ==
  ASSUME NEW m, NEW s, NEW a \in AnswerSet, a.events # <<>>, Fits(a)
  PROVE  Reading(m, s, a, NewObserver(m, s, a.status), Wire(m, s, a))
<1>1. CASE IsStream(s, a)
  <2> DEFINE w == Wire(m, s, a)  e == <<>>
  <2>1. PICK z \in Seq({"cr", "nl"}) : CutStream(m, a, w, z)
    BY <1>1, WireIsCut
  <2>2. w \in Seq(Symbols) /\ e \in Seq(Symbols)
    BY <2>1, EmptySeq DEF CutStream
  <2>3. NewObserver(m, s, a.status) = Fresh(m)
    BY <1>1 DEF IsStream, NewObserver, Fresh
  <2> HIDE DEF w
  <2>4. e \o w = w
    BY <2>2, ConcatEmptySeq
  <2>5. Follows(m, w, Fresh(m), e)
    BY FollowsBegin
  <2> QED
    BY <1>1, <2>1, <2>2, <2>3, <2>4, <2>5 DEF Reading, w
<1>2. CASE ~IsStream(s, a)
  <2> DEFINE e == a.events[1]  n == <<>>  o == NewObserver(m, s, a.status)
  <2>1. 1 \in DOMAIN a.events /\ e \in Events
    <3>1. a.events \in Seq(Events) /\ Len(a.events) \in Nat \ {0}
      BY EmptySeq, LenProperties DEF AnswerSet
    <3>2. 1 \in 1..Len(a.events)
      BY <3>1
    <3> QED
      BY <3>1, <3>2, ElementOfSeq
  <2>2. Wire(m, s, a) = Text(e) /\ Len(Text(e)) + Len(Eol(a)) <= MaxBody
    BY <1>2, <2>1 DEF Wire, Fits
  <2> HIDE DEF e
  <2>3. Text(e) \in Seq(Told)
    <3>1. CASE e.kind = "comment"
      <4>1. Text(e) = <<"comment">> /\ "comment" \in Told
        BY <3>1 DEF Text, Told
      <4> QED
        BY <4>1, OneIsSeq
    <3>2. CASE e.kind # "comment"
      <4>1. Text(e) \in Seq(Symbols)
        BY <2>1, <3>2, TextIs, PlainIsSymbols
      <4> QED
        BY <4>1, SeqMonotonic DEF Told
    <3> QED
      BY <3>1, <3>2
  <2>4. n \in Seq(Told) /\ Len(n) = 0 /\ o = WithBody(o, n)
    <3>1. o = [o EXCEPT !.body = <<>>]
      <4> DEFINE x == s /\ a.status = "ok"  y == s /\ a.status # "ok"  d == FALSE
      <4>1. o = [mode |-> m, streaming |-> x, http_error |-> y,
                 flags |-> {}, tail |-> n, done |-> d, errors |-> {},
                 pending |-> n, buffer |-> n, sse |-> n, body |-> n]
        BY DEF NewObserver
      <4> HIDE DEF x, y, d, n, o
      <4>2. o = [o EXCEPT !.body = n]
        BY ONLY <4>1
      <4> QED
        BY <4>2 DEF n
    <3> QED
      BY <3>1, EmptySeq DEF WithBody
  <2>5. Len(n) + Len(Text(e)) <= MaxBody
    <3>1. Len(Text(e)) \in Nat /\ Len(Eol(a)) \in {1, 2} /\ MaxBody \in Nat
      BY <2>3, LenProperties, TidyEol, ObserverAssumption
    <3> QED
      BY <2>2, <2>4, <3>1
  <2> QED
    BY <1>2, <2>2, <2>3, <2>4, <2>5 DEF Reading
<1> QED
  BY <1>1, <1>2

\* An observer that reads an answer still reads it after any chunk of what is left.
LEMMA ReadingChunk ==
  ASSUME NEW m, NEW s, NEW a, NEW o, NEW r, NEW n \in 1..Len(r), Reading(m, s, a, o, r)
  PROVE  Reading(m, s, a, Feed(o, SubSeq(r, 1, n)), SubSeq(r, n + 1, Len(r)))
<1> DEFINE c == SubSeq(r, 1, n)  k == SubSeq(r, n + 1, Len(r))  w == Wire(m, s, a)
<1>1. ASSUME NEW S, r \in Seq(S)
      PROVE  c \in Seq(S) /\ k \in Seq(S) /\ r = c \o k /\ Len(c) = n /\ Len(k) = Len(r) - n
             /\ Len(r) \in Nat
  <2>1. n \in 0..Len(r) /\ Len(r) \in Nat
    BY <1>1, LenProperties
  <2> QED
    BY <1>1, <2>1, CutAt
<1>2. CASE IsStream(s, a)
  <2>1. PICK p \in Seq(Symbols), z \in Seq({"cr", "nl"}) :
          /\ r \in Seq(Symbols) /\ p \o r = w /\ CutStream(m, a, w, z) /\ Follows(m, w, o, p)
    BY <1>2 DEF Reading
  <2>2. c \in Seq(Symbols) /\ k \in Seq(Symbols) /\ r = c \o k
    BY <1>1, <2>1
  <2> HIDE DEF c, k, w
  <2>3. (p \o c) \o k = w /\ p \o c \in Seq(Symbols)
    <3>1. p \in Seq(Symbols) /\ c \in Seq(Symbols) /\ k \in Seq(Symbols)
      BY <2>1, <2>2
    <3>2. (p \o c) \o k = p \o (c \o k) /\ p \o c \in Seq(Symbols)
      <4>1. Joined(p, c, k)
        BY ONLY <3>1, Joining
      <4>2. (p \o c) \o k = p \o (c \o k)
        BY ONLY <4>1 DEF Joined
      <4> QED
        BY ONLY <3>1, <4>2, ConcatProperties
    <3> QED
      BY <2>1, <2>2, <3>2
  <2>4. CutStream(m, a, (p \o c) \o k, z) /\ Follows(m, (p \o c) \o k, o, p)
    BY <2>1, <2>3
  <2>5. Follows(m, (p \o c) \o k, Feed(o, c), p \o c)
    BY ONLY <2>2, <2>4, p \in Seq(Symbols), FollowsChunk
  <2>6. Follows(m, w, Feed(o, c), p \o c)
    BY <2>3, <2>5
  <2> QED
    BY <1>2, <2>1, <2>2, <2>3, <2>6 DEF Reading, c, k, w
<1>3. CASE ~IsStream(s, a)
  <2> DEFINE f == NewObserver(m, s, a.status)
  <2>1. PICK b \in Seq(Told) : /\ r \in Seq(Told) /\ o = WithBody(f, b)
                               /\ Len(b) + Len(r) <= MaxBody
    BY <1>3 DEF Reading
  <2>2. c \in Seq(Told) /\ k \in Seq(Told) /\ Len(c) = n /\ Len(k) = Len(r) - n /\ Len(r) \in Nat
    BY <1>1, <2>1
  <2> HIDE DEF c, k
  <2>3. b \o c \in Seq(Told) /\ Len(b \o c) = Len(b) + Len(c) /\ Len(b) \in Nat
    BY <2>2, ConcatProperties, LenProperties
  <2>4. Len(b) + Len(c) <= MaxBody /\ Len(b \o c) + Len(k) <= MaxBody
    <3> DEFINE lb == Len(b)  lc == Len(c)  lk == Len(k)  lr == Len(r)  lbc == Len(b \o c)
    <3>1. /\ lb \in Nat /\ lc = n /\ lk = lr - n /\ lr \in Nat /\ lbc = lb + lc
          /\ lb + lr <= MaxBody /\ n \in 1..lr /\ MaxBody \in Nat
      BY <2>1, <2>2, <2>3, ObserverAssumption
    <3> HIDE DEF lb, lc, lk, lr, lbc
    <3>2. lb + lc <= MaxBody /\ lbc + lk <= MaxBody
      BY <3>1
    <3> QED
      BY <3>2 DEF lb, lc, lk, lbc
  <2>5. ~o.streaming /\ o.body = b /\ [o EXCEPT !.body = @ \o c] = WithBody(f, b \o c)
    BY <1>3, <2>1 DEF WithBody, NewObserver, IsStream
  <2>6. Feed(o, c) = WithBody(f, b \o c)
    <3>1. ~(Len(o.body) + Len(c) > MaxBody)
      <4> DEFINE lb == Len(b)  lc == Len(c)
      <4>1. lb + lc <= MaxBody /\ lb \in Nat /\ lc \in Nat /\ MaxBody \in Nat
        BY <2>2, <2>3, <2>4, LenProperties, ObserverAssumption
      <4> HIDE DEF lb, lc
      <4>2. ~(lb + lc > MaxBody)
        BY <4>1
      <4> QED
        BY <2>5, <4>2 DEF lb, lc
    <3> QED
      BY <2>5, <3>1 DEF Feed
  <2> QED
    BY <1>3, <2>2, <2>3, <2>4, <2>6 DEF Reading, c, k
<1> QED
  BY <1>2, <1>3

\* The reports.
LEMMA ReadingDone ==
  ASSUME NEW m, NEW s, NEW a, NEW o, NEW r, Reading(m, s, a, o, r), IsStream(s, a),
         o.done \/ r = <<>>
  PROVE  /\ (Finish(o).errors = {}) = WellFormed(m, a)
         /\ Finish(o).errors = {} => Finish(o).flags = Meant(a)
<1> DEFINE w == Wire(m, s, a)
<1>1. PICK p \in Seq(Symbols), z \in Seq({"cr", "nl"}) :
        /\ r \in Seq(Symbols) /\ p \o r = w /\ CutStream(m, a, w, z) /\ Follows(m, w, o, p)
  BY DEF Reading
<1> HIDE DEF w
<1>2. Follows(m, w, o, w)
  <2>1. CASE o.done
    <3>1. CutStream(m, a, p \o r, z) /\ Follows(m, p \o r, o, p)
      BY <1>1
    <3>2. Follows(m, p \o r, o, p \o r)
      BY ONLY <1>1, <2>1, <3>1, FollowsDone
    <3> QED
      BY <1>1, <3>2
  <2>2. CASE r = <<>>
    <3>1. p \o r = p
      BY <2>2, ConcatEmptySeq
    <3> QED
      BY <1>1, <3>1
  <2> QED
    BY <2>1, <2>2
<1> QED
  BY <1>1, <1>2, FollowsEnd

\* An observer that reads a well formed answer has met no fault, and no flag that the
\* answer does not mean, wherever it stops.
LEMMA ReadingLeft ==
  ASSUME NEW m, NEW s, NEW a, NEW o, NEW r, Reading(m, s, a, o, r), WellFormed(m, a)
  PROVE  Snapshot(o).errors = {} /\ Snapshot(o).flags \subseteq Meant(a)
<1>1. Snapshot(o).errors = o.errors /\ Snapshot(o).flags = o.flags
  BY DEF Snapshot, Observation
<1>2. CASE IsStream(s, a)
  <2> DEFINE w == Wire(m, s, a)
  <2>1. PICK p \in Seq(Symbols), z \in Seq({"cr", "nl"}) :
          /\ r \in Seq(Symbols) /\ p \o r = w /\ CutStream(m, a, w, z) /\ Follows(m, w, o, p)
    BY <1>2 DEF Reading
  <2> HIDE DEF w
  <2>2. CutStream(m, a, p \o r, z) /\ Follows(m, p \o r, o, p) /\ r \in Seq(Symbols)
    BY <2>1
  <2>3. o.errors = {} /\ o.flags \subseteq Meant(a)
    BY ONLY <2>2, p \in Seq(Symbols), WellFormed(m, a), FollowsLeft
  <2> QED
    BY <1>1, <2>3
<1>3. CASE ~IsStream(s, a)
  <2>1. PICK b : o = WithBody(NewObserver(m, s, a.status), b)
    BY <1>3 DEF Reading
  <2>2. o.errors = {} /\ o.flags = {}
    BY <2>1 DEF WithBody, NewObserver
  <2> QED
    BY <1>1, <2>2
<1> QED
  BY <1>2, <1>3

----------------------------------------------------------------------------
(* The reports the gateway writes.                                         *)

\* While an answer is read, its observer has seen what has come of it; no verdict stands
\* then, and the verdicts that do are the ones the two properties ask for.
AnswerInv ==
  /\ phase \in {"asked", "reading"} => ended = "no"
  /\ phase = "asked" => LastId \in 1..MaxRequests
  /\ phase = "reading" /\ Fits(answer) => Reading(mode, sent.stream, answer, observer, rest)
  /\ CutsDontMatter /\ DisconnectIsNoFault

\* No verdict, or the one that was there.
LEMMA NoVerdict ==
  ASSUME ended' \notin {"whole", "done", "left"}
  PROVE  CutsDontMatter' /\ DisconnectIsNoFault'
BY DEF CutsDontMatter, DisconnectIsNoFault

\* A step that leaves alone what the two properties speak of leaves them true.
LEMMA SameVerdict ==
  ASSUME AnswerInv, UNCHANGED <<mode, sent, answer, seen, ended>>
  PROVE  CutsDontMatter' /\ DisconnectIsNoFault'
<1>1. mode' = mode /\ sent' = sent /\ answer' = answer /\ seen' = seen /\ ended' = ended
  OBVIOUS
<1> QED
  BY <1>1 DEF AnswerInv, CutsDontMatter, DisconnectIsNoFault

\* A step between two answers.
LEMMA RestStep ==
  ASSUME AnswerInv, phase' \notin {"asked", "reading"},
         \/ ended' \notin {"whole", "done", "left"}
         \/ UNCHANGED <<mode, sent, answer, seen, ended>>
  PROVE  AnswerInv'
<1>1. CutsDontMatter' /\ DisconnectIsNoFault'
  BY NoVerdict, SameVerdict
<1> QED
  BY <1>1 DEF AnswerInv

\* A new request has no answer yet, and no report.
LEMMA AskedStep ==
  ASSUME EInv, NEW m \in Paths, NEW p \in Payloads, Ask(m, p)
  PROVE  AnswerInv'
<1> DEFINE row == RequestRow(LastId + 1, Row(deployment, m, p))
<1>1. log' = Append(log, row) /\ row.event = "request"
  BY DEF Ask, RequestRow
<1> HIDE DEF row
<1>2. LastId' = LastId + 1
  BY <1>1, RequestAppended DEF EInv
<1>3. LastId \in Nat
  BY RequestsAreCounted DEF EInv
<1>4. LastId < MaxRequests /\ phase' = "asked" /\ ended' = "no"
  BY DEF Ask
<1>5. LastId' \in 1..MaxRequests
  BY <1>2, <1>3, <1>4, ExchangeAssumption
<1>6. CutsDontMatter' /\ DisconnectIsNoFault'
  BY <1>4, NoVerdict
<1> QED
  BY <1>4, <1>5, <1>6 DEF AnswerInv

\* The answer begins, and the new observer reads it from the start.
LEMMA BeginStep ==
  ASSUME AnswerInv, Begin
  PROVE  AnswerInv'
<1>1. phase = "asked" /\ phase' = "reading" /\ ended' = ended /\ mode' = mode /\ sent' = sent
  BY DEF Begin, request
<1>2. PICK a \in Answers[LastId] :
        /\ answer' = a /\ rest' = Wire(mode, sent.stream, a)
        /\ observer' = NewObserver(mode, sent.stream, a.status)
  BY DEF Begin
<1>3. ended' = "no" /\ LastId \in 1..MaxRequests
  BY <1>1 DEF AnswerInv
<1>4. a \in AnswerSet /\ a.events # <<>>
  BY <1>2, <1>3, AnswerAssumption
<1>5. ASSUME Fits(a)
      PROVE  Reading(mode, sent.stream, a, NewObserver(mode, sent.stream, a.status),
                     Wire(mode, sent.stream, a))
  BY <1>4, <1>5, ReadingBegins
<1>6. Fits(answer') => Reading(mode', sent'.stream, answer', observer', rest')
  BY <1>1, <1>2, <1>5
<1>7. CutsDontMatter' /\ DisconnectIsNoFault'
  BY <1>3, NoVerdict
<1> QED
  BY <1>1, <1>3, <1>6, <1>7 DEF AnswerInv

\* An answer is over: what is left of it counts only if the observer is not done with it.
LEMMA FinishedStep ==
  ASSUME NEW o, NEW r, UNCHANGED <<mode, sent, answer>>,
         Fits(answer) => Reading(mode, sent.stream, answer, o, r), o.done \/ r = <<>>,
         phase' = "answered", ended' \in {"whole", "done"}, seen' = Finish(o)
  PROVE  AnswerInv'
<1>1. mode' = mode /\ sent' = sent /\ answer' = answer
  OBVIOUS
<1>2. ASSUME IsStream(sent.stream, answer), Fits(answer)
      PROVE  /\ (seen'.errors = {}) = WellFormed(mode, answer)
             /\ seen'.errors = {} => seen'.flags = Meant(answer)
  <2>1. Reading(mode, sent.stream, answer, o, r)
    BY <1>2
  <2>2. /\ (Finish(o).errors = {}) = WellFormed(mode, answer)
        /\ Finish(o).errors = {} => Finish(o).flags = Meant(answer)
    BY <1>2, <2>1, ReadingDone
  <2> QED
    BY <2>2
<1>3. CutsDontMatter'
  BY <1>1, <1>2 DEF CutsDontMatter
<1>4. DisconnectIsNoFault'
  BY DEF DisconnectIsNoFault
<1> QED
  BY <1>3, <1>4 DEF AnswerInv

\* The client leaves in the middle of it.
LEMMA LeftStep ==
  ASSUME NEW o, NEW r, UNCHANGED <<mode, sent, answer>>,
         Fits(answer) => Reading(mode, sent.stream, answer, o, r),
         phase' = "answered", ended' = "left", seen' = Snapshot(o)
  PROVE  AnswerInv'
<1>1. mode' = mode /\ sent' = sent /\ answer' = answer
  OBVIOUS
<1>2. ASSUME Fits(answer), WellFormed(mode, answer)
      PROVE  seen'.errors = {} /\ seen'.flags \subseteq Meant(answer)
  <2>1. Reading(mode, sent.stream, answer, o, r)
    BY <1>2
  <2>2. Snapshot(o).errors = {} /\ Snapshot(o).flags \subseteq Meant(answer)
    BY <1>2, <2>1, ReadingLeft
  <2> QED
    BY <2>2
<1>3. DisconnectIsNoFault'
  BY <1>1, <1>2 DEF DisconnectIsNoFault
<1>4. CutsDontMatter'
  BY DEF CutsDontMatter
<1> QED
  BY <1>3, <1>4 DEF AnswerInv

\* A chunk of any length leaves an observer that reads the answer.
LEMMA ChunkStep ==
  ASSUME AnswerInv, NEW n \in 1..Len(rest), Chunk(n)
  PROVE  AnswerInv'
<1> DEFINE fed == Feed(observer, SubSeq(rest, 1, n))  left == SubSeq(rest, n + 1, Len(rest))
<1>1. /\ phase = "reading" /\ rest' = left /\ observer' = fed
      /\ mode' = mode /\ sent' = sent /\ answer' = answer
      /\ IF fed.done THEN Record(Finish(fed), "done")
         ELSE \/ UNCHANGED <<log, seen, ended, phase>>
              \/ Record(Snapshot(fed), "left")
  BY DEF Chunk, request
<1>2. ASSUME Fits(answer)
      PROVE  Reading(mode, sent.stream, answer, fed, left)
  <2>1. Reading(mode, sent.stream, answer, observer, rest)
    BY <1>1, <1>2 DEF AnswerInv
  <2> QED
    BY <2>1, ReadingChunk
<1> HIDE DEF fed, left
<1>3. CASE fed.done
  <2>1. phase' = "answered" /\ ended' = "done" /\ seen' = Finish(fed)
    BY <1>1, <1>3 DEF Record
  <2>2. UNCHANGED <<mode, sent, answer>>
    BY <1>1
  <2> QED
    BY ONLY <1>2, <1>3, <2>1, <2>2, FinishedStep
<1>4. CASE ~fed.done /\ Record(Snapshot(fed), "left")
  <2>1. phase' = "answered" /\ ended' = "left" /\ seen' = Snapshot(fed)
    BY <1>4 DEF Record
  <2>2. UNCHANGED <<mode, sent, answer>>
    BY <1>1
  <2> QED
    BY ONLY <1>2, <2>1, <2>2, LeftStep
<1>5. CASE ~fed.done /\ UNCHANGED <<log, seen, ended, phase>>
  <2>1. ended' = "no" /\ phase' = "reading"
    BY <1>1, <1>5 DEF AnswerInv
  <2>2. CutsDontMatter' /\ DisconnectIsNoFault'
    BY <2>1, NoVerdict
  <2>3. Fits(answer') => Reading(mode', sent'.stream, answer', observer', rest')
    BY <1>1, <1>2
  <2> QED
    BY <2>1, <2>2, <2>3 DEF AnswerInv
<1> QED
  BY <1>1, <1>3, <1>4, <1>5

\* At the end the report is that of the whole answer, or of a client that left.
LEMMA EndStep ==
  ASSUME AnswerInv, End
  PROVE  AnswerInv'
<1>1. /\ phase = "reading" /\ mode' = mode /\ sent' = sent /\ answer' = answer
      /\ \/ rest = <<>> /\ Record(Finish(observer), "whole")
         \/ rest # <<>> /\ Record(Finish(observer), "short")
         \/ Record(Finish(observer), "broken")
  BY DEF End, request
<1>2. Fits(answer) => Reading(mode, sent.stream, answer, observer, rest)
  BY <1>1 DEF AnswerInv
<1>3. CASE rest = <<>> /\ Record(Finish(observer), "whole")
  <2>1. phase' = "answered" /\ ended' = "whole" /\ seen' = Finish(observer)
    BY <1>3 DEF Record
  <2>2. UNCHANGED <<mode, sent, answer>>
    BY <1>1
  <2> QED
    BY ONLY <1>2, <1>3, <2>1, <2>2, FinishedStep
<1>4. CASE Record(Finish(observer), "short") \/ Record(Finish(observer), "broken")
  <2>1. phase' = "answered" /\ ended' \in {"short", "broken"}
    BY <1>4 DEF Record
  <2> QED
    BY <2>1, RestStep
<1> QED
  BY <1>1, <1>3, <1>4

\* Before the first request there is no answer to speak of.
LEMMA AnswerInitOk == ExchangeInit => AnswerInv
BY DEF ExchangeInit, AnswerInv, CutsDontMatter, DisconnectIsNoFault

\* Every step of an exchange keeps the observer invariant.
LEMMA AnswerStep ==
  ASSUME EInv, AnswerInv, [ExchangeNext]_exchangeVars
  PROVE  AnswerInv'
<1>1. ASSUME NEW m \in Paths, NEW p \in Payloads, Ask(m, p) PROVE AnswerInv'
  BY <1>1, AskedStep
<1>2. ASSUME NEW m \in Paths, NEW p \in Payloads, Reject(m, p) PROVE AnswerInv'
  <2>1. phase' \notin {"asked", "reading"} /\ UNCHANGED <<mode, sent, answer, seen, ended>>
    BY <1>2 DEF Reject, Between, request, response
  <2> QED
    BY <2>1, RestStep
<1>3. CASE Unreachable
  <2>1. phase' = "answered" /\ ended' = "broken"
    BY <1>3 DEF Unreachable
  <2> QED
    BY <2>1, RestStep
<1>4. CASE Begin
  BY <1>4, BeginStep
<1>5. ASSUME NEW n \in 1..Len(rest), Chunk(n) PROVE AnswerInv'
  BY <1>5, ChunkStep
<1>6. CASE End
  BY <1>6, EndStep
<1>7. CASE Judge
  <2>1. phase' = "judged" /\ ended' = "no"
    BY <1>7 DEF Judge
  <2> QED
    BY <2>1, RestStep
<1>8. CASE UNCHANGED exchangeVars
  <2>1. /\ UNCHANGED <<mode, sent, answer, seen, ended, phase, observer, rest>> /\ log' = log
    BY <1>8 DEF exchangeVars, request, response
  <2>2. CutsDontMatter' /\ DisconnectIsNoFault'
    BY <2>1, SameVerdict
  <2>3. LastId' = LastId
    BY <2>1 DEF LastId, Requests
  <2> QED
    BY <2>1, <2>2, <2>3 DEF AnswerInv
<1> QED
  BY <1>1, <1>2, <1>3, <1>4, <1>5, <1>6, <1>7, <1>8 DEF ExchangeNext
=============================================================================
