------------------------ MODULE ModelGateway_proofs ------------------------
(***************************************************************************)
(* Proofs about ModelGateway, for any set of connections and any number of *)
(* failed appends, whatever they leave of their rows.  The safety          *)
(* invariants are not inductive: that a response row is never a second one *)
(* depends on where the handlers are, and what the reader gets depends on  *)
(* what a row was merged with.  IInv is about all rows, readable or not:   *)
(* it adds what each handler location says of its id, of the log and of    *)
(* the pending ids.  In a log that is not torn all rows are readable.      *)
(* What is read of the log, and who may still write to it then, depends on *)
(* the client as well; CloseInv relates the two.                           *)
(***************************************************************************)
EXTENDS ModelGateway, TLAPS

Early == {"idle", "backlog", "accepted"}

\* The ids of all rows of an event, readable or not, and those with two of them.
AllIds(l, e) == {l[i].id : i \in {j \in DOMAIN l : l[j].event = e}}
AllDuplicated(l, e) ==
  {n \in AllIds(l, e) : \E i, j \in DOMAIN l :
      i # j /\ l[i].event = e /\ l[j].event = e /\ l[i].id = n /\ l[j].id = n}
Asked(c) == id[c] \in AllIds(log, "request")
Told(c)  == id[c] \in AllIds(log, "response")

\* The properties, said of all rows.
AllWellFormed ==
  /\ AllDuplicated(log, "request") = {}
  /\ faults = 0 => /\ AllDuplicated(log, "response") = {}
                   /\ \A i \in DOMAIN log : log[i].written = "whole"
  /\ AllIds(log, "response") \subseteq AllIds(log, "request")
AllDrained == AllIds(log, "request") \ AllIds(log, "response") \subseteq pending
AllStreamed ==
  \A c \in Conns :
    kind[c] = "stream" /\ id[c] # 0 /\ client[c] = "answered" => Told(c)

\* Ids are handed out once, and every id of the log was.
Distinct == \A c, d \in Conns : id[c] # 0 /\ id[c] = id[d] => c = d
Fresh == AllIds(log, "request") \cup AllIds(log, "response") \subseteq 1 .. counter

\* What a handler's location says of its request.
AtLocation(c) ==
  /\ pc[c] \in Early => id[c] = 0 /\ client[c] # "answered"
  /\ pc[c] \in {"counted", "rec", "unpend", "write"} => kind[c] \in Inference
  /\ kind[c] \in Inference /\ pc[c] \notin Early \cup {"done", "dead"} => id[c] # 0
  /\ id[c] # 0 => kind[c] \in Inference
  /\ pc[c] = "counted" => id[c] \in pending /\ ~Asked(c) /\ ~Told(c)
  /\ kind[c] \in Inference /\ pc[c] \in {"forward", "body", "rec"} \cup Silent
       => id[c] \in pending /\ Asked(c)
  /\ kind[c] \in Inference /\ pc[c] \in {"forward", "body"} \cup Silent => ~Told(c)
  /\ pc[c] = "rec" /\ faults = 0 => ~Told(c)
  /\ kind[c] \in Inference /\ pc[c] \in {"unpend", "write", "502"}
       => Asked(c) /\ Told(c)

IInv ==
  /\ TypeOK /\ Distinct /\ Fresh
  /\ \A c \in Conns : AtLocation(c)
  /\ AllWellFormed /\ AllDrained /\ AllStreamed

----------------------------------------------------------------------------
(* The log.                                                                *)

\* Appending a row adds its id to the ids of its own event and to no other.
LEMMA IdsAppend ==
  ASSUME NEW l \in Seq(Rows), NEW r \in Rows, NEW e
  PROVE  AllIds(Append(l, r), e) = AllIds(l, e) \cup (IF r.event = e THEN {r.id} ELSE {})
<1> DEFINE a == Append(l, r)
<1>1. /\ DOMAIN a = 1 .. Len(l) + 1 /\ DOMAIN l = 1 .. Len(l) /\ Len(l) \in Nat
      /\ \A i \in 1 .. Len(l) : a[i] = l[i]
      /\ a[Len(l) + 1] = r
  OBVIOUS
<1>2. ASSUME NEW n
      PROVE  n \in AllIds(a, e) <=> \E i \in DOMAIN a : a[i].event = e /\ a[i].id = n
  BY DEF AllIds
<1>3. ASSUME NEW n
      PROVE  n \in AllIds(l, e) <=> \E i \in DOMAIN l : l[i].event = e /\ l[i].id = n
  BY DEF AllIds
<1>4. ASSUME NEW n
      PROVE  n \in AllIds(a, e) <=> n \in AllIds(l, e) \/ (r.event = e /\ n = r.id)
  <2>1. ASSUME n \in AllIds(a, e)
        PROVE  n \in AllIds(l, e) \/ (r.event = e /\ n = r.id)
    <3>1. PICK i \in DOMAIN a : a[i].event = e /\ a[i].id = n
      BY <1>2, <2>1
    <3>2. CASE i = Len(l) + 1
      BY <1>1, <3>1, <3>2
    <3>3. CASE i \in 1 .. Len(l)
      BY <1>1, <1>3, <3>1, <3>3
    <3>4. QED
      BY <1>1, <3>2, <3>3
  <2>2. ASSUME n \in AllIds(l, e)
        PROVE  n \in AllIds(a, e)
    <3>1. PICK i \in DOMAIN l : l[i].event = e /\ l[i].id = n
      BY <1>3, <2>2
    <3>2. i \in DOMAIN a /\ a[i] = l[i]
      BY <1>1
    <3>3. QED
      BY <1>2, <3>1, <3>2
  <2>3. ASSUME r.event = e /\ n = r.id
        PROVE  n \in AllIds(a, e)
    <3>1. Len(l) + 1 \in DOMAIN a
      BY <1>1
    <3>2. QED
      BY <1>1, <1>2, <2>3, <3>1
  <2>4. QED
    BY <2>1, <2>2, <2>3
<1>5. QED
  BY <1>4

\* A row whose id is new among the rows of its event duplicates nothing.
LEMMA DuplicatedAppend ==
  ASSUME NEW l \in Seq(Rows), NEW r \in Rows, NEW e,
         AllDuplicated(l, e) = {}, r.event = e => r.id \notin AllIds(l, e)
  PROVE  AllDuplicated(Append(l, r), e) = {}
<1> DEFINE a == Append(l, r)
<1>1. /\ DOMAIN a = 1 .. Len(l) + 1 /\ DOMAIN l = 1 .. Len(l) /\ Len(l) \in Nat
      /\ \A i \in 1 .. Len(l) : a[i] = l[i]
      /\ a[Len(l) + 1] = r
  OBVIOUS
<1>2. \A i \in DOMAIN l : l[i].event = e => l[i].id \in AllIds(l, e)
  BY DEF AllIds
<1>3. \A i, j \in DOMAIN l :
        l[i].event = e /\ l[j].event = e /\ l[i].id = l[j].id => i = j
  <2>1. ASSUME NEW i \in DOMAIN l, NEW j \in DOMAIN l, i # j,
               l[i].event = e, l[j].event = e, l[i].id = l[j].id
        PROVE  FALSE
    <3>1. l[i].id \in AllDuplicated(l, e)
      BY <1>2, <2>1 DEF AllDuplicated
    <3>2. QED
      BY <3>1
  <2>2. QED
    BY <2>1
<1>4. ASSUME NEW i \in DOMAIN a, NEW j \in DOMAIN a, i # j,
             a[i].event = e, a[j].event = e, a[i].id = a[j].id
      PROVE  FALSE
  <2>1. CASE i \in DOMAIN l /\ j \in DOMAIN l
    BY <1>1, <1>3, <1>4, <2>1
  <2>2. CASE i \in DOMAIN l /\ j = Len(l) + 1
    BY <1>1, <1>2, <1>4, <2>2
  <2>3. CASE j \in DOMAIN l /\ i = Len(l) + 1
    BY <1>1, <1>2, <1>4, <2>3
  <2>4. QED
    BY <1>1, <1>4, <2>1, <2>2, <2>3
<1>5. \A n : n \notin AllDuplicated(a, e)
  BY <1>4 DEF AllDuplicated
<1>6. QED
  BY <1>5

\* A duplicate that the reader sees is one.
LEMMA DuplicatesAreReal ==
  ASSUME NEW l, NEW e
  PROVE  Duplicated(l, e) \subseteq AllDuplicated(l, e) /\ Ids(l, e) \subseteq AllIds(l, e)
<1>1. Ids(l, e) \subseteq AllIds(l, e)
  BY DEF Ids, AllIds, RowsOf
<1>2. QED
  BY <1>1 DEF Duplicated, AllDuplicated, RowsOf

\* In a log that is not torn the reader gets every row.
LEMMA UntornIsRead ==
  ASSUME NEW l, ~Torn(l), NEW e
  PROVE  Ids(l, e) = AllIds(l, e) /\ Duplicated(l, e) = AllDuplicated(l, e)
<1>1. RowsOf(l, e) = {j \in DOMAIN l : l[j].event = e}
  BY DEF RowsOf, Torn
<1>2. Ids(l, e) = AllIds(l, e)
  BY <1>1 DEF Ids, AllIds
<1>3. QED
  BY <1>1, <1>2 DEF Duplicated, AllDuplicated

\* Rows that were all written whole tear nothing.
LEMMA WholeIsUntorn ==
  ASSUME NEW l \in Seq(Rows), \A i \in DOMAIN l : l[i].written = "whole"
  PROVE  ~Torn(l)
<1>1. ASSUME NEW i \in DOMAIN l
      PROVE  Readable(l, i)
  <2>1. i = 1 \/ i - 1 \in DOMAIN l
    OBVIOUS
  <2>2. QED
    BY <2>1 DEF Readable
<1>2. QED
  BY <1>1 DEF Torn

\* What the reader reports of a well-typed log is well typed.
LEMMA ReportType ==
  ASSUME NEW l \in Seq(Rows)
  PROVE  Report(l) \in Reports
<1>1. \A i \in DOMAIN l : l[i].id \in Nat
  <2>1. \A i \in DOMAIN l : l[i] \in Rows
    OBVIOUS
  <2>2. QED
    BY <2>1 DEF Rows
<1>2. \A e : Ids(l, e) \subseteq Nat
  BY <1>1 DEF Ids, RowsOf
<1>3. \A e : Duplicated(l, e) \subseteq Nat
  BY <1>2 DEF Duplicated
<1>4. Torn(l) \in BOOLEAN
  BY DEF Torn
<1>5. QED
  BY <1>2, <1>3, <1>4 DEF Report, Reports

\* Appending a response row for an id that has a request row keeps the log well
\* formed, if it is the first or an append has failed; so does a request row for a
\* fresh id.
LEMMA LogAppend ==
  ASSUME TypeOK, AllWellFormed, NEW r \in Rows,
         r.event = "request" => r.id \notin AllIds(log, "request"),
         r.event = "response" => r.id \in AllIds(log, "request"),
         faults' = 0 => /\ faults = 0 /\ r.written = "whole"
                        /\ r.event = "response" => r.id \notin AllIds(log, "response"),
         log' = Append(log, r)
  PROVE  AllWellFormed'
<1>1. log \in Seq(Rows)
  BY DEF TypeOK
<1>2. AllDuplicated(Append(log, r), "request") = {}
  BY <1>1, DuplicatedAppend DEF AllWellFormed
<1>3. ASSUME faults' = 0
      PROVE  /\ AllDuplicated(Append(log, r), "response") = {}
             /\ \A i \in DOMAIN Append(log, r) : Append(log, r)[i].written = "whole"
  <2>1. AllDuplicated(Append(log, r), "response") = {}
    BY <1>1, <1>3, DuplicatedAppend DEF AllWellFormed
  <2>2. \A i \in DOMAIN Append(log, r) : i \in DOMAIN log \/ Append(log, r)[i] = r
    BY <1>1
  <2>3. \A i \in DOMAIN log : Append(log, r)[i] = log[i]
    BY <1>1
  <2>4. QED
    BY <1>3, <2>1, <2>2, <2>3 DEF AllWellFormed
<1>5. \A e : AllIds(Append(log, r), e)
             = AllIds(log, e) \cup (IF r.event = e THEN {r.id} ELSE {})
  BY <1>1, IdsAppend
<1>6. AllIds(log', "response") \subseteq AllIds(log', "request")
  BY <1>5 DEF AllWellFormed
<1>7. QED
  BY <1>2, <1>3, <1>6 DEF AllWellFormed

----------------------------------------------------------------------------
(* Type correctness.                                                       *)

\* The rows the proxy writes for a connection are rows of the log, however much of
\* them is written.
LEMMA EntryType ==
  ASSUME TypeOK, NEW c \in Conns, NEW e \in {"request", "response", "observer_error"},
         NEW n \in {0, id[c]}, NEW y \in {NoRow, row[c]}
  PROVE  /\ Entry(e, n, y) \in Rows
         /\ Entry(e, n, y).event = e /\ Entry(e, n, y).id = n
         /\ Entry(e, n, y).written = "whole"
         /\ \A w \in Written :
              LET x == [Entry(e, n, y) EXCEPT !.written = w]
              IN  x \in Rows /\ x.event = e /\ x.id = n
<1>1. n \in Nat
  BY DEF TypeOK
<1>2. y.err \in BOOLEAN
  <2>1. row[c] \in Replies
    BY DEF TypeOK
  <2>2. row[c].err \in BOOLEAN
    BY <2>1 DEF Replies
  <2>3. NoRow.err \in BOOLEAN
    BY DEF NoRow
  <2>4. QED
    BY <2>2, <2>3
<1>3. QED
  BY <1>1, <1>2 DEF Entry, Rows, Written

\* The locations, client states and replies that the actions name are of the type they
\* are declared with.
LEMMA Names ==
  /\ \A l \in {"idle", "backlog", "accepted", "counted", "forward", "unanswered",
               "body", "unfinished", "rec", "unpend", "write", "502", "done",
               "dead"} : l \in Locations
  /\ \A s \in {"none", "waiting", "answered", "ended", "gone"} : s \in ClientStates
  /\ \A t \in {"end", "write", "502"} :
       /\ [NoRow EXCEPT !.then = t] \in Replies
       /\ [NoRow EXCEPT !.err = TRUE, !.then = t] \in Replies
  /\ NoRow \in Replies /\ [NoRow EXCEPT !.err = TRUE] \in Replies
  BY DEF Locations, ClientStates, NoRow, Replies

\* The helpers of the handler keep pc, client and row typed.
LEMMA GotoType ==
  ASSUME TypeOK, NEW c \in Conns, NEW l \in Locations, Goto(c, l)
  PROVE  pc' \in [Conns -> Locations]
  BY DEF TypeOK, Goto

\* What a client does leaves every client in a client's state.
LEMMA ClientType ==
  ASSUME TypeOK, NEW c \in Conns, Answer(c) \/ Hangup(c)
  PROVE  client' \in [Conns -> ClientStates]
<1>1. client \in [Conns -> ClientStates]
  BY DEF TypeOK
<1>2. client[c] \in ClientStates /\ "answered" \in ClientStates /\ "ended" \in ClientStates
  BY <1>1, Names
<1>3. CASE Answer(c)
  BY <1>1, <1>2, <1>3 DEF Answer
<1>4. CASE Hangup(c)
  BY <1>1, <1>2, <1>4 DEF Hangup
<1>5. QED
  BY <1>3, <1>4

\* Concluding an exchange leaves locations and replies of their types.
LEMMA ConcludeType ==
  ASSUME TypeOK, NEW c \in Conns, NEW l \in Locations, NEW r \in Replies,
         Conclude(c, r, l)
  PROVE  pc' \in [Conns -> Locations] /\ row' \in [Conns -> Replies]
<1>1. CASE kind[c] \in Inference
  BY <1>1, Names, GotoType DEF TypeOK, Conclude
<1>2. CASE kind[c] \notin Inference
  BY <1>2, GotoType DEF TypeOK, Conclude
<1>3. QED
  BY <1>1, <1>2

\* A write to the log adds a row, or uses up one of the faults and may add some of it.
LEMMA AppendType ==
  ASSUME TypeOK, NEW r \in Rows, \A w \in Written : [r EXCEPT !.written = w] \in Rows,
         (AppendRow(r) /\ UNCHANGED faults) \/ AppendRaises(r)
  PROVE  log' \in Seq(Rows) /\ faults' \in 0 .. MaxFaults
<1>1. log \in Seq(Rows) /\ faults \in 0 .. MaxFaults /\ MaxFaults \in Nat
  BY GatewayAssumption DEF TypeOK
<1>2. CASE AppendRow(r) /\ UNCHANGED faults
  BY <1>1, <1>2 DEF AppendRow
<1>3. CASE AppendRaises(r)
  <2>1. faults' \in 0 .. MaxFaults
    BY <1>1, <1>3 DEF AppendRaises
  <2>2. log' = log \/ \E w \in Written : log' = Append(log, [r EXCEPT !.written = w])
    BY <1>3, GatewayAssumption DEF AppendRaises, AppendRow
  <2>3. ASSUME NEW w \in Written, log' = Append(log, [r EXCEPT !.written = w])
        PROVE  log' \in Seq(Rows)
    <3> DEFINE x == [r EXCEPT !.written = w]
    <3>1. x \in Rows
      OBVIOUS
    <3> HIDE DEF x
    <3>2. log' = Append(log, x)
      BY <2>3 DEF x
    <3>3. QED
      BY <1>1, <3>1, <3>2
  <2>4. QED
    BY <1>1, <2>1, <2>2, <2>3
<1>4. QED
  BY <1>2, <1>3

\* The types hold when the proxy starts.
LEMMA InitType == Init => TypeOK
<1>1. NoReport \in Reports
  <2>1. <<>> \in Seq(Rows)
    OBVIOUS
  <2>2. Report(<<>>) \in Reports
    BY <2>1, ReportType
  <2>3. QED
    BY <2>2 DEF NoReport, Reports
<1>2. ASSUME Init
      PROVE  TypeOK
  <2>1. pc \in [Conns -> Locations] /\ client \in [Conns -> ClientStates]
        /\ row \in [Conns -> Replies]
    BY <1>2, Names DEF Init
  <2>2. log \in Seq(Rows) /\ faults \in 0 .. MaxFaults /\ pending \subseteq 1 .. counter
    BY <1>2, GatewayAssumption DEF Init
  <2>3. QED
    <3>1. pending \subseteq 1 .. counter /\ counter \in Nat /\ id \in [Conns -> 0 .. counter]
      BY <1>2 DEF Init
    <3>2. kind \in [Conns -> Kinds \cup {"none"}]
      BY <1>2 DEF Init
    <3>3. QED
      BY <1>1, <1>2, <2>1, <2>2, <3>1, <3>2 DEF Init, TypeOK
<1>3. QED
  BY <1>2

\* Every step keeps the types.
LEMMA TypeStep == TypeOK /\ [Next]_vars => TypeOK'
<1> SUFFICES ASSUME TypeOK, [Next]_vars PROVE TypeOK'
  OBVIOUS
<1> USE DEF shared, handler, stageVars
<1>1. Report(log) \in Reports
  BY ReportType DEF TypeOK
<1>2. CASE UNCHANGED vars
  BY <1>2 DEF TypeOK, vars
<1>3. ASSUME NEW c \in Conns, ClientStep(c)
      PROVE  TypeOK'
  <2>1. CASE Connect(c)
    <3>1. pc' \in [Conns -> Locations] /\ client' \in [Conns -> ClientStates]
      BY <2>1, Names DEF Connect, TypeOK
    <3>2. kind' \in [Conns -> Kinds \cup {"none"}]
      <4>1. Asks[c] \subseteq Kinds
        BY GatewayAssumption
      <4>2. QED
        BY <2>1, <4>1 DEF Connect, TypeOK
    <3>3. QED
      BY <2>1, <3>1, <3>2 DEF Connect, TypeOK
  <2>2. CASE Leave(c)
    <3>1. client' \in [Conns -> ClientStates]
      BY <2>2, Names DEF Leave, TypeOK
    <3>2. QED
      BY <2>2, <3>1 DEF Leave, TypeOK
  <2>3. QED
    BY <1>3, <2>1, <2>2 DEF ClientStep
<1>4. ASSUME NEW c \in Conns, Serving(c) \/ Recording(c)
      PROVE  TypeOK'
  <2>1. CASE Accept(c)
    BY <2>1, Names, GotoType DEF Accept, TypeOK
  <2>2. CASE RejectPath(c)
    BY <2>2, Names, GotoType, ClientType DEF RejectPath, TypeOK
  <2>3. CASE PassProbe(c)
    BY <2>3, Names, GotoType DEF PassProbe, TypeOK
  <2>4. CASE RefuseBody(c)
    <3>1. pc' \in [Conns -> Locations] /\ client' \in [Conns -> ClientStates]
      BY <2>4, Names, GotoType, ClientType DEF RefuseBody
    <3>2. log' \in Seq(Rows) /\ faults' \in 0 .. MaxFaults
      BY <2>4, EntryType, AppendType DEF RefuseBody
    <3>3. QED
      BY <2>4, <3>1, <3>2 DEF RefuseBody, TypeOK
  <2>5. CASE CountRequest(c)
    <3>1. pc' \in [Conns -> Locations]
      BY <2>5, Names, GotoType DEF CountRequest
    <3>2. counter' \in Nat /\ pending' \subseteq 1 .. counter'
          /\ id' \in [Conns -> 0 .. counter']
      BY <2>5 DEF CountRequest, TypeOK
    <3>3. QED
      BY <2>5, <3>1, <3>2 DEF CountRequest, TypeOK
  <2>6. CASE LogRequest(c)
    <3>1. pc' \in [Conns -> Locations] /\ client' \in [Conns -> ClientStates]
      BY <2>6, Names, GotoType, ClientType DEF LogRequest, TypeOK
    <3>2. log' \in Seq(Rows) /\ faults' \in 0 .. MaxFaults
      BY <2>6, EntryType, AppendType DEF LogRequest
    <3>3. QED
      BY <2>6, <3>1, <3>2 DEF LogRequest, TypeOK
  <2>7. CASE AppendResponse(c)
    <3>1. pc' \in [Conns -> Locations]
      BY <2>7, Names, GotoType DEF AppendResponse
    <3>2. log' \in Seq(Rows)
      BY <2>7, EntryType DEF AppendResponse, AppendRow, TypeOK
    <3>3. QED
      BY <2>7, <3>1, <3>2 DEF AppendResponse, TypeOK
  <2>8. CASE LoseResponse(c)
    <3>1. pc' \in [Conns -> Locations] /\ client' \in [Conns -> ClientStates]
      BY <2>8, Names, GotoType, ClientType DEF LoseResponse, TypeOK
    <3>2. row' \in [Conns -> Replies]
      <4>1. CASE row[c].err
        BY <2>8, <4>1 DEF LoseResponse, TypeOK
      <4>2. CASE ~row[c].err
        <5>1. row[c] \in Replies /\ row \in [Conns -> Replies]
          BY DEF TypeOK
        <5>2. [row[c] EXCEPT !.err = TRUE, !.then = "end"] \in Replies
          BY <5>1 DEF Replies
        <5>3. row' = [row EXCEPT ![c] = [row[c] EXCEPT !.err = TRUE, !.then = "end"]]
          BY <2>8, <4>2, <5>1 DEF LoseResponse, Replies
        <5>4. QED
          BY <5>1, <5>2, <5>3
      <4>3. QED
        BY <4>1, <4>2
    <3>3. log' \in Seq(Rows) /\ faults' \in 0 .. MaxFaults
      BY <2>8, EntryType, AppendType DEF LoseResponse
    <3>4. QED
      BY <2>8, <3>1, <3>2, <3>3 DEF LoseResponse, TypeOK
  <2>9. CASE Unpend(c)
    <3>1. row[c].then \in {"end", "write", "502"}
      BY DEF TypeOK, Replies
    <3>2. pc' \in [Conns -> Locations] /\ client' \in [Conns -> ClientStates]
      BY <2>9, <3>1, Names, GotoType, ClientType DEF Unpend, TypeOK
    <3>3. row' \in [Conns -> Replies] /\ pending' \subseteq 1 .. counter'
      BY <2>9, Names DEF Unpend, TypeOK
    <3>4. QED
      BY <2>9, <3>2, <3>3 DEF Unpend, TypeOK
  <2>10. CASE Reply(c)
    BY <2>10, Names, GotoType, ClientType DEF Reply, TypeOK
  <2>11. QED
    BY <1>4, <2>1, <2>2, <2>3, <2>4, <2>5, <2>6, <2>7, <2>8, <2>9, <2>10
       DEF Serving, Recording
<1>5. ASSUME NEW c \in Conns, Exchange(c)
      PROVE  TypeOK'
  <2>1. CASE Headers(c)
    <3>1. kind' \in [Conns -> Kinds \cup {"none"}]
      BY <2>1 DEF Headers, TypeOK, Kinds, Inference
    <3>2. QED
      BY <2>1, <3>1, Names, GotoType DEF Headers, TypeOK
  <2>2. CASE HeadersLost(c)
    BY <2>2, Names, ConcludeType DEF HeadersLost, TypeOK
  <2>3. CASE PartLost(c)
    BY <2>3, Names, ConcludeType DEF PartLost, TypeOK
  <2>4. CASE DeliverBody(c)
    BY <2>4, ClientType DEF DeliverBody, TypeOK
  <2>5. CASE EndOfBody(c)
    <3>1. client' \in [Conns -> ClientStates]
      BY <2>5, ClientType DEF EndOfBody, TypeOK
    <3>2. QED
      BY <2>5, <3>1, Names, ConcludeType DEF EndOfBody, TypeOK
  <2>6. CASE DoneMarker(c)
    BY <2>6, Names, ConcludeType DEF DoneMarker, TypeOK
  <2>7. CASE UpstreamFails(c)
    <3>1. client' \in [Conns -> ClientStates]
      BY <2>7, ClientType DEF UpstreamFails, TypeOK
    <3>2. CASE pc[c] \in {"body", "unfinished"}
      BY <2>7, <3>1, <3>2, Names, ConcludeType DEF UpstreamFails, TypeOK
    <3>3. CASE pc[c] \notin {"body", "unfinished"}
      BY <2>7, <3>1, <3>3, Names, ConcludeType DEF UpstreamFails, TypeOK
    <3>4. QED
      BY <3>2, <3>3
  <2>8. CASE GoesSilent(c)
    BY <2>8, Names, GotoType DEF GoesSilent, TypeOK
  <2>9. QED
    BY <1>5, <2>1, <2>2, <2>3, <2>4, <2>5, <2>6, <2>7, <2>8 DEF Exchange
<1>6. CASE AgentExits
  BY <1>6 DEF AgentExits, TypeOK
<1>7. CASE AgentKilled
  <2>1. client' \in [Conns -> ClientStates]
    BY <1>7, Names DEF AgentKilled, TypeOK
  <2>2. QED
    BY <1>7, <2>1 DEF AgentKilled, TypeOK
<1>8. CASE OwnerStep
  BY <1>1, <1>8 DEF OwnerStep, JudgeOpen, Shutdown, Drained, DrainExpires, ReadClosed, TypeOK
<1>9. QED
  BY <1>2, <1>3, <1>4, <1>5, <1>6, <1>7, <1>8 DEF Next

\* Every variable keeps the shape the code gives it.
THEOREM TypeCorrect == Spec => []TypeOK
<1>1. Init => TypeOK
  BY InitType
<1>2. TypeOK /\ [Next]_vars => TypeOK'
  BY TypeStep
<1>3. QED
  BY <1>1, <1>2, PTL DEF Spec

----------------------------------------------------------------------------
(* The inductive invariant.                                                *)

\* What one handler's step leaves alone: every other handler.
Elsewhere(c) ==
  \A d \in Conns \ {c} : /\ pc'[d] = pc[d] /\ kind'[d] = kind[d]
                        /\ client'[d] = client[d] /\ id'[d] = id[d]

\* An append never takes a failed one back.
LEMMA FaultsStay ==
  ASSUME TypeOK, NEW r, AppendRaises(r)
  PROVE  faults' # 0
  BY GatewayAssumption DEF TypeOK, AppendRaises

\* A step that touches neither the log, nor the ids, nor the pending set.
LEMMA QuietStep ==
  ASSUME IInv, NEW c \in Conns, UNCHANGED <<counter, pending, log, id>>, Elsewhere(c),
         faults' = 0 => faults = 0, AtLocation(c)',
         kind'[c] = "stream" /\ id'[c] # 0 /\ client'[c] = "answered" => Told(c)'
  PROVE  /\ Distinct' /\ Fresh' /\ (\A d \in Conns : AtLocation(d)')
         /\ AllWellFormed' /\ AllDrained' /\ AllStreamed'
<1>1. ASSUME NEW d \in Conns, d # c
      PROVE  AtLocation(d)'
  BY <1>1 DEF IInv, AtLocation, Elsewhere, Asked, Told
<1>2. Distinct' /\ Fresh' /\ AllWellFormed' /\ AllDrained'
  BY DEF IInv, Distinct, Fresh, AllWellFormed, AllDrained
<1>3. AllStreamed'
  BY DEF IInv, AllStreamed, Elsewhere, Told
<1>4. QED
  BY <1>1, <1>2, <1>3

\* The actions that touch neither counter, pending set nor log leave every other
\* connection where it was.
LEMMA QuietActions ==
  ASSUME IInv, NEW c \in Conns,
         \/ ClientStep(c) \/ Accept(c) \/ RejectPath(c) \/ PassProbe(c) \/ Reply(c)
         \/ Exchange(c)
  PROVE  /\ UNCHANGED <<counter, pending, log, faults, id>> /\ Elsewhere(c)
         /\ AtLocation(c)'
         /\ kind'[c] = "stream" /\ id'[c] # 0 /\ client'[c] = "answered" => Told(c)'
<1> USE DEF shared, Goto, Answer, Hangup, IInv, AtLocation, Elsewhere,
            Asked, Told, TypeOK, AllStreamed, Silent
<1>1. CASE ClientStep(c)
  BY <1>1 DEF ClientStep, Connect, Leave, Early
<1>2. CASE Accept(c) \/ RejectPath(c) \/ PassProbe(c)
  BY <1>2 DEF Accept, RejectPath, PassProbe, Early, Inference
<1>3. CASE GoesSilent(c)
  BY <1>3 DEF GoesSilent, Early
<1>4. CASE Reply(c)
  BY <1>4 DEF Reply, Early, Inference
<1>5. CASE Headers(c)
  BY <1>5 DEF Headers, Early, Inference
<1>6. CASE HeadersLost(c)
  BY <1>6 DEF HeadersLost, Conclude, Early, Inference
<1>7. CASE PartLost(c)
  BY <1>7 DEF PartLost, Conclude, Early, Inference
<1>8. CASE DeliverBody(c)
  BY <1>8 DEF DeliverBody, Early, Inference
<1>9. CASE EndOfBody(c)
  BY <1>9 DEF EndOfBody, Conclude, Early, Inference
<1>10. CASE DoneMarker(c)
  BY <1>10 DEF DoneMarker, Conclude, Early, Inference
<1>11. CASE UpstreamFails(c)
  BY <1>11 DEF UpstreamFails, Conclude, Early, Inference
<1>12. QED
  BY <1>1, <1>2, <1>3, <1>4, <1>5, <1>6, <1>7, <1>8, <1>9, <1>10, <1>11 DEF Exchange

\* What appending a row does to the ids of the log.
LEMMA IdsAfter ==
  ASSUME TypeOK, NEW r \in Rows, log' = Append(log, r)
  PROVE  \A e : AllIds(log', e) = AllIds(log, e) \cup (IF r.event = e THEN {r.id} ELSE {})
  BY IdsAppend DEF TypeOK

\* A handler appends a row, or some of one: a rejection, the request it has counted, or
\* the response to it.  If its own place is right afterwards, so is all the rest.
LEMMA RowStep ==
  ASSUME IInv, NEW c \in Conns, NEW r \in Rows, log' = Append(log, r),
         UNCHANGED <<counter, pending, id, kind>>, Elsewhere(c),
         faults' = 0 => faults = 0 /\ r.written = "whole",
         \/ r.event = "observer_error"
         \/ r.event = "request" /\ r.id = id[c] /\ pc[c] = "counted"
         \/ r.event = "response" /\ r.id = id[c] /\ pc[c] = "rec",
         AtLocation(c)',
         id[c] # 0 /\ client'[c] = "answered" => client[c] = "answered"
  PROVE  /\ Distinct' /\ Fresh' /\ (\A d \in Conns : AtLocation(d)')
         /\ AllWellFormed' /\ AllDrained' /\ AllStreamed'
<1> USE DEF IInv
<1>1. \A e : AllIds(log', e) = AllIds(log, e) \cup (IF r.event = e THEN {r.id} ELSE {})
  BY IdsAfter
<1>2. pc[c] \in {"counted", "rec"} =>
        /\ id[c] # 0 /\ id[c] \in 1 .. counter /\ id[c] \in pending /\ kind[c] \in Inference
        /\ pc[c] = "counted" => ~Asked(c)
        /\ pc[c] = "rec" => Asked(c) /\ (faults = 0 => ~Told(c))
  BY DEF AtLocation, TypeOK, Early
<1>3. AllWellFormed'
  BY <1>2, LogAppend DEF Asked, Told
<1>4. Distinct' /\ Fresh' /\ AllDrained'
  BY <1>1, <1>2 DEF Distinct, Fresh, AllDrained
<1>5. ASSUME NEW d \in Conns, d # c
      PROVE  AtLocation(d)'
  <2>1. id[d] # 0 => /\ id[d] \in AllIds(log', "request") <=> Asked(d)
                     /\ id[d] \in AllIds(log', "response") <=> Told(d)
    BY <1>1, <1>2, <1>5 DEF Distinct, Asked, Told
  <2>2. Asked(d) => id[d] \in AllIds(log', "request")
    BY <1>1 DEF Asked
  <2>3. Told(d) => id[d] \in AllIds(log', "response")
    BY <1>1 DEF Told
  <2>4. QED
    BY <1>5, <2>1, <2>2, <2>3 DEF AtLocation, Asked, Told, Elsewhere, Early, Silent
<1>6. AllStreamed'
  <2>1. ASSUME NEW d \in Conns, kind[d] = "stream", id[d] # 0, client'[d] = "answered"
        PROVE  Told(d)'
    <3>1. client[d] = "answered"
      BY <2>1 DEF Elsewhere
    <3>2. QED
      BY <1>1, <2>1, <3>1 DEF AllStreamed, Told
  <2>2. QED
    BY <2>1 DEF AllStreamed
<1>7. QED
  BY <1>3, <1>4, <1>5, <1>6

\* Refusing a body keeps the invariant: the connection has no number to lose.
LEMMA RefuseStep ==
  ASSUME IInv, NEW c \in Conns, RefuseBody(c)
  PROVE  /\ Distinct' /\ Fresh' /\ (\A d \in Conns : AtLocation(d)')
         /\ AllWellFormed' /\ AllDrained' /\ AllStreamed'
<1> DEFINE e == Entry("observer_error", 0, NoRow)
<1>1. UNCHANGED <<counter, pending, id, kind>> /\ Elsewhere(c)
  BY DEF IInv, RefuseBody, Elsewhere, Goto, Answer, Hangup, TypeOK, stageVars
<1>2. id[c] = 0 /\ pc'[c] \in {"done", "dead"} /\ id'[c] = 0
  BY <1>1 DEF IInv, RefuseBody, AtLocation, Early, Goto, TypeOK
<1>3. AtLocation(c)'
  BY <1>2 DEF AtLocation, Early, Silent
<1>4. CASE AppendRow(e) /\ UNCHANGED faults
  <2>1. e \in Rows /\ e.event = "observer_error" /\ e.written = "whole"
    BY EntryType DEF IInv
  <2>2. QED
    BY <1>1, <1>2, <1>3, <1>4, <2>1, RowStep DEF AppendRow
<1>5. CASE AppendRaises(e)
  <2>1. faults' # 0
    BY <1>5, FaultsStay DEF IInv
  <2>2. CASE log' = log
    BY <1>1, <1>2, <1>3, <2>1, <2>2, QuietStep
  <2>3. ASSUME NEW w \in Written, log' = Append(log, [e EXCEPT !.written = w])
        PROVE  /\ Distinct' /\ Fresh' /\ (\A d \in Conns : AtLocation(d)')
               /\ AllWellFormed' /\ AllDrained' /\ AllStreamed'
    <3> DEFINE x == [e EXCEPT !.written = w]
    <3>1. x \in Rows /\ x.event = "observer_error"
      BY EntryType DEF IInv
    <3> HIDE DEF x
    <3>2. log' = Append(log, x)
      BY <2>3 DEF x
    <3>3. QED
      BY <1>1, <1>2, <1>3, <2>1, <3>1, <3>2, RowStep
  <2>4. QED
    BY <1>5, <2>2, <2>3, GatewayAssumption DEF AppendRaises, AppendRow
<1>6. QED
  BY <1>4, <1>5 DEF RefuseBody

\* Taking a number keeps the numbers distinct and below the counter.
LEMMA CountStep ==
  ASSUME IInv, NEW c \in Conns, CountRequest(c)
  PROVE  /\ Distinct' /\ Fresh' /\ (\A d \in Conns : AtLocation(d)')
         /\ AllWellFormed' /\ AllDrained' /\ AllStreamed'
<1> USE DEF IInv
<1>1. /\ counter \in Nat /\ counter' = counter + 1 /\ pc[c] = "accepted" /\ log' = log
      /\ id \in [Conns -> 0 .. counter] /\ id' = [id EXCEPT ![c] = counter']
      /\ pending' = pending \cup {counter'} /\ UNCHANGED <<kind, client, faults>>
      /\ kind[c] \in Inference
      /\ pc' = [pc EXCEPT ![c] = "counted"] /\ pc \in [Conns -> Locations]
  BY DEF CountRequest, TypeOK, Goto
<1>2. Distinct' /\ Fresh'
  BY <1>1 DEF Distinct, Fresh
<1>3. counter' \notin AllIds(log, "request") \cup AllIds(log, "response")
  BY <1>1 DEF Fresh
<1>4. \A d \in Conns : AtLocation(d)'
  BY <1>1, <1>3 DEF AtLocation, Asked, Told, Early, Silent
<1>5. AllWellFormed' /\ AllDrained'
  BY <1>1 DEF AllWellFormed, AllDrained
<1>6. AllStreamed'
  BY <1>1 DEF AllStreamed, AtLocation, Told, Early
<1>7. QED
  BY <1>2, <1>4, <1>5, <1>6

\* Writing the request's row keeps the log well formed, and so does failing to: then the
\* handler dies, and its id stays pending.
LEMMA LogStep ==
  ASSUME IInv, NEW c \in Conns, LogRequest(c)
  PROVE  /\ Distinct' /\ Fresh' /\ (\A d \in Conns : AtLocation(d)')
         /\ AllWellFormed' /\ AllDrained' /\ AllStreamed'
<1> DEFINE e == Entry("request", id[c], NoRow)
<1>1. /\ pc[c] = "counted" /\ id[c] \in pending /\ id[c] # 0
      /\ ~Told(c) /\ kind[c] \in Inference
  BY DEF IInv, LogRequest, AtLocation, TypeOK, Early
<1>2. /\ UNCHANGED <<counter, pending, id, kind>> /\ Elsewhere(c)
      /\ client'[c] = "answered" => client[c] = "answered"
  BY DEF IInv, LogRequest, Elsewhere, Goto, Hangup, TypeOK, stageVars
<1>3. CASE AppendRow(e) /\ UNCHANGED faults /\ Goto(c, "forward")
  <2>1. e \in Rows /\ e.event = "request" /\ e.id = id[c] /\ e.written = "whole"
    BY EntryType DEF IInv
  <2> HIDE DEF e
  <2>2. /\ AllIds(log', "request") = AllIds(log, "request") \cup {id[c]}
        /\ AllIds(log', "response") = AllIds(log, "response")
    <3>1. \A k : AllIds(log', k) = AllIds(log, k) \cup (IF e.event = k THEN {e.id} ELSE {})
      BY <1>3, <2>1, IdsAfter DEF IInv, AppendRow
    <3>2. QED
      BY <2>1, <3>1
  <2>3. AtLocation(c)'
    BY <1>1, <1>2, <1>3, <2>2 DEF IInv, AtLocation, Asked, Told, Goto, Early, Silent, TypeOK
  <2>4. QED
    BY <1>1, <1>2, <1>3, <2>1, <2>3, RowStep DEF AppendRow
<1>4. CASE AppendRaises(e) /\ Goto(c, "dead")
  <2>1. faults' # 0
    BY <1>4, FaultsStay DEF IInv
  <2>2. AtLocation(c)'
    BY <1>1, <1>2, <1>4 DEF IInv, AtLocation, Goto, Early, Silent, TypeOK
  <2>3. CASE log' = log
    <3>1. kind'[c] = "stream" /\ id'[c] # 0 /\ client'[c] = "answered" => Told(c)'
      BY <1>2, <2>3 DEF IInv, AllStreamed, Told
    <3>2. QED
      BY <1>2, <2>1, <2>2, <2>3, <3>1, QuietStep
  <2>4. ASSUME NEW w \in Written, log' = Append(log, [e EXCEPT !.written = w])
        PROVE  /\ Distinct' /\ Fresh' /\ (\A d \in Conns : AtLocation(d)')
               /\ AllWellFormed' /\ AllDrained' /\ AllStreamed'
    <3> DEFINE x == [e EXCEPT !.written = w]
    <3>1. x \in Rows /\ x.event = "request" /\ x.id = id[c]
      BY EntryType DEF IInv
    <3> HIDE DEF x
    <3>2. log' = Append(log, x)
      BY <2>4 DEF x
    <3>3. QED
      BY <1>1, <1>2, <2>1, <2>2, <3>1, <3>2, RowStep
  <2>5. QED
    BY <1>4, <2>3, <2>4, GatewayAssumption DEF AppendRaises, AppendRow
<1>5. QED
  BY <1>3, <1>4 DEF LogRequest

\* Writing the response's row keeps the log well formed, and stands before the client's
\* last byte of a stream.
LEMMA AppendStep ==
  ASSUME IInv, NEW c \in Conns, AppendResponse(c)
  PROVE  /\ Distinct' /\ Fresh' /\ (\A d \in Conns : AtLocation(d)')
         /\ AllWellFormed' /\ AllDrained' /\ AllStreamed'
<1> DEFINE e == Entry("response", id[c], row[c])
<1>1. /\ pc[c] = "rec" /\ id[c] \in pending /\ id[c] # 0 /\ Asked(c) /\ kind[c] \in Inference
  BY DEF IInv, AppendResponse, AtLocation, TypeOK, Early
<1>2. /\ UNCHANGED <<counter, pending, faults, id, kind, client>> /\ Elsewhere(c)
      /\ pc'[c] = "unpend" /\ log' = Append(log, e)
  BY DEF IInv, AppendResponse, AppendRow, Elsewhere, Goto, TypeOK, stageVars
<1>3. e \in Rows /\ e.event = "response" /\ e.id = id[c] /\ e.written = "whole"
  BY EntryType DEF IInv
<1> HIDE DEF e
<1>4. /\ AllIds(log', "response") = AllIds(log, "response") \cup {id[c]}
      /\ AllIds(log', "request") = AllIds(log, "request")
  <2>1. \A k : AllIds(log', k) = AllIds(log, k) \cup (IF e.event = k THEN {e.id} ELSE {})
    BY <1>2, <1>3, IdsAfter DEF IInv
  <2>2. QED
    BY <1>3, <2>1
<1>5. AtLocation(c)'
  BY <1>1, <1>2, <1>4 DEF AtLocation, Asked, Told, Early, Silent
<1>6. QED
  BY <1>1, <1>2, <1>3, <1>5, RowStep

\* Failing to write it does too: the row is tried again, or the handler dies and its id
\* stays pending.
LEMMA LoseStep ==
  ASSUME IInv, NEW c \in Conns, LoseResponse(c)
  PROVE  /\ Distinct' /\ Fresh' /\ (\A d \in Conns : AtLocation(d)')
         /\ AllWellFormed' /\ AllDrained' /\ AllStreamed'
<1> DEFINE e == Entry("response", id[c], row[c])
<1>1. /\ pc[c] = "rec" /\ id[c] \in pending /\ id[c] # 0 /\ Asked(c) /\ kind[c] \in Inference
  BY DEF IInv, LoseResponse, AtLocation, TypeOK, Early
<1>2. /\ UNCHANGED <<counter, pending, id, kind>> /\ Elsewhere(c)
      /\ pc'[c] \in {"rec", "dead"} /\ AppendRaises(e)
      /\ client'[c] = "answered" => client[c] = "answered"
  BY DEF IInv, LoseResponse, Elsewhere, Goto, Hangup, TypeOK, stageVars
<1>3. faults' # 0
  BY <1>2, FaultsStay DEF IInv
<1>4. CASE log' = log
  <2>1. AtLocation(c)'
    BY <1>1, <1>2, <1>3, <1>4 DEF AtLocation, Asked, Told, Early, Silent
  <2>2. kind'[c] = "stream" /\ id'[c] # 0 /\ client'[c] = "answered" => Told(c)'
    BY <1>2, <1>4 DEF IInv, AllStreamed, Told
  <2>3. QED
    BY <1>2, <1>3, <1>4, <2>1, <2>2, QuietStep
<1>5. ASSUME NEW w \in Written, log' = Append(log, [e EXCEPT !.written = w])
      PROVE  /\ Distinct' /\ Fresh' /\ (\A d \in Conns : AtLocation(d)')
             /\ AllWellFormed' /\ AllDrained' /\ AllStreamed'
  <2> DEFINE x == [e EXCEPT !.written = w]
  <2>1. x \in Rows /\ x.event = "response" /\ x.id = id[c]
    BY EntryType DEF IInv
  <2> HIDE DEF x
  <2>2. log' = Append(log, x)
    BY <1>5 DEF x
  <2>3. AllIds(log', "request") = AllIds(log, "request")
    BY <2>1, <2>2, IdsAfter DEF IInv
  <2>4. AtLocation(c)'
    BY <1>1, <1>2, <1>3, <2>3 DEF AtLocation, Asked, Early, Silent
  <2>5. QED
    BY <1>1, <1>2, <1>3, <2>1, <2>2, <2>4, RowStep
<1>6. QED
  BY <1>2, <1>4, <1>5, GatewayAssumption DEF AppendRaises, AppendRow

\* Leaving the pending set keeps what the drain relies on.
LEMMA UnpendStep ==
  ASSUME IInv, NEW c \in Conns, Unpend(c)
  PROVE  /\ Distinct' /\ Fresh' /\ (\A d \in Conns : AtLocation(d)')
         /\ AllWellFormed' /\ AllDrained' /\ AllStreamed'
<1> USE DEF IInv
<1>1. /\ pc[c] = "unpend" /\ id[c] # 0 /\ Asked(c) /\ Told(c) /\ kind[c] \in Inference
      /\ row[c].then \in {"end", "write", "502"}
  BY DEF Unpend, AtLocation, TypeOK, Replies, Early
<1>2. /\ UNCHANGED <<counter, log, faults, id, kind>> /\ pending' = pending \ {id[c]}
      /\ Elsewhere(c) /\ pc'[c] \in {"done", "write", "502"}
      /\ client'[c] = "answered" => client[c] = "answered"
  BY <1>1 DEF Unpend, Elsewhere, Goto, Hangup, TypeOK, stageVars
<1>3. Distinct' /\ Fresh' /\ AllWellFormed'
  BY <1>2 DEF Distinct, Fresh, AllWellFormed
<1>4. AllDrained'
  BY <1>1, <1>2 DEF AllDrained, Told
<1>5. AtLocation(c)'
  BY <1>1, <1>2 DEF AtLocation, Asked, Told, Early, Silent
<1>6. ASSUME NEW d \in Conns, d # c
      PROVE  AtLocation(d)'
  <2>1. id[d] # 0 => id[d] # id[c]
    BY <1>1, <1>6 DEF Distinct
  <2>2. id[d] # 0 /\ id[d] \in pending => id[d] \in pending'
    BY <1>2, <2>1
  <2>3. QED
    BY <1>2, <1>6, <2>1, <2>2 DEF AtLocation, Asked, Told, Elsewhere, Early, Silent
<1>7. AllStreamed'
  BY <1>1, <1>2 DEF AllStreamed, Told, Elsewhere
<1>8. QED
  BY <1>3, <1>4, <1>5, <1>6, <1>7

\* The inductive invariant holds when the proxy starts.
LEMMA InitInv == Init => IInv
<1> SUFFICES ASSUME Init PROVE IInv
  OBVIOUS
<1>1. TypeOK
  BY InitType
<1>2. DOMAIN log = {} /\ \A e : AllIds(log, e) = {} /\ AllDuplicated(log, e) = {}
  BY DEF Init, AllIds, AllDuplicated
<1>3. Distinct /\ Fresh /\ AllWellFormed /\ AllDrained
  BY <1>2 DEF Init, Distinct, Fresh, AllWellFormed, AllDrained
<1>4. \A c \in Conns : AtLocation(c)
  BY DEF Init, AtLocation, Early, Inference, Silent
<1>5. AllStreamed
  BY DEF Init, AllStreamed
<1>6. QED
  BY <1>1, <1>3, <1>4, <1>5 DEF IInv

\* Every step keeps the inductive invariant.
LEMMA InvStep == IInv /\ [Next]_vars => IInv'
<1> SUFFICES ASSUME IInv, [Next]_vars PROVE IInv'
  OBVIOUS
<1>1. TypeOK'
  BY TypeStep DEF IInv
<1> DEFINE Rest == /\ Distinct' /\ Fresh' /\ (\A d \in Conns : AtLocation(d)')
                   /\ AllWellFormed' /\ AllDrained' /\ AllStreamed'
<1>2. ASSUME NEW c \in Conns, ClientStep(c) \/ Serving(c) \/ Recording(c) \/ Exchange(c)
      PROVE  Rest
  <2>1. CASE RefuseBody(c)
    BY <2>1, RefuseStep
  <2>2. CASE CountRequest(c)
    BY <2>2, CountStep
  <2>3. CASE LogRequest(c)
    BY <2>3, LogStep
  <2>4. CASE AppendResponse(c)
    BY <2>4, AppendStep
  <2>5. CASE Unpend(c)
    BY <2>5, UnpendStep
  <2>6. CASE LoseResponse(c)
    BY <2>6, LoseStep
  <2>7. CASE \/ ClientStep(c) \/ Accept(c) \/ RejectPath(c) \/ PassProbe(c) \/ Reply(c)
             \/ Exchange(c)
    BY <2>7, QuietActions, QuietStep
  <2>8. QED
    BY <1>2, <2>1, <2>2, <2>3, <2>4, <2>5, <2>6, <2>7 DEF Serving, Recording
<1>3. ASSUME AgentExits \/ AgentKilled \/ OwnerStep \/ UNCHANGED vars
      PROVE  Rest
  <2>1. /\ UNCHANGED <<counter, pending, log, faults, id, pc, kind, row>>
        /\ \A c \in Conns : client'[c] = "answered" => client[c] = "answered"
    BY <1>3 DEF IInv, TypeOK, AgentExits, AgentKilled, OwnerStep, JudgeOpen, Shutdown,
                Drained, DrainExpires, ReadClosed, vars, shared, handler, stageVars
  <2>2. Distinct' /\ Fresh' /\ AllWellFormed' /\ AllDrained'
    BY <2>1 DEF IInv, Distinct, Fresh, AllWellFormed, AllDrained
  <2>3. (\A d \in Conns : AtLocation(d)') /\ AllStreamed'
    BY <2>1 DEF IInv, AtLocation, AllStreamed, Asked, Told, Early, Silent
  <2>4. QED
    BY <2>2, <2>3
<1>4. Rest
  <2>1. CASE \E c \in Conns : ClientStep(c) \/ Serving(c) \/ Recording(c) \/ Exchange(c)
    BY <1>2, <2>1
  <2>2. CASE AgentExits \/ AgentKilled \/ OwnerStep \/ UNCHANGED vars
    BY <1>3, <2>2
  <2>3. QED
    BY <2>1, <2>2 DEF Next
<1>5. QED
  BY <1>1, <1>4 DEF IInv

\* The invariant holds of every reachable state.
THEOREM Invariance == Spec => []IInv
  BY InitInv, InvStep, PTL DEF Spec

\* What the invariant says of all rows, said of those that the reader gets.
LEMMA WhatIsRead ==
  ASSUME IInv
  PROVE  LogWellFormed /\ DrainSound /\ StreamRecordedFirst /\ NothingForwardedUnlogged
<1> USE DEF IInv
<1>1. ASSUME ~Torn(log), NEW e
      PROVE  Ids(log, e) = AllIds(log, e)
  BY <1>1, UntornIsRead
<1>2. LogWellFormed
  <2>1. Duplicated(log, "request") = {}
    BY DuplicatesAreReal DEF AllWellFormed
  <2>2. ASSUME faults = 0
        PROVE  ~Torn(log) /\ Duplicated(log, "response") = {}
    <3>1. ~Torn(log)
      BY <2>2, WholeIsUntorn DEF AllWellFormed, TypeOK
    <3>2. Duplicated(log, "response") = {}
      BY <2>2, DuplicatesAreReal DEF AllWellFormed
    <3>3. QED
      BY <3>1, <3>2
  <2>3. faults # 0 => faults > 0
    BY GatewayAssumption DEF TypeOK
  <2>4. QED
    BY <1>1, <2>1, <2>2, <2>3 DEF LogWellFormed, AllWellFormed
<1>3. DrainSound
  BY <1>1 DEF DrainSound, AllDrained
<1>4. StreamRecordedFirst
  BY <1>1 DEF StreamRecordedFirst, AllStreamed, Answered, Told
<1>5. NothingForwardedUnlogged
  BY <1>1 DEF NothingForwardedUnlogged, Forwarded, AtLocation, Logged, Asked
<1>6. QED
  BY <1>2, <1>3, <1>4, <1>5

\* No interleaving of handler threads duplicates a row, tears the log or records a
\* response whose request is not in it; a failed append gives a request no second row
\* and leaves no such response without a malformed row beside it.
THEOREM LogIsWellFormed == Spec => []LogWellFormed
<1>1. IInv => LogWellFormed
  BY WhatIsRead
<1>2. QED
  BY <1>1, Invariance, PTL

\* In a log without a malformed row the pending ids cover every request still without
\* a response row, which is what lets close() conclude from an empty set that the log
\* is complete.
THEOREM DrainIsSound == Spec => []DrainSound
<1>1. IInv => DrainSound
  BY WhatIsRead
<1>2. QED
  BY <1>1, Invariance, PTL

\* The model sees no inference request that is not in the log, unless the reader finds
\* a malformed row and rejects the log.
THEOREM LoggedBeforeForwarded == Spec => []NothingForwardedUnlogged
<1>1. IInv => NothingForwardedUnlogged
  BY WhatIsRead
<1>2. QED
  BY <1>1, Invariance, PTL

\* A client that has read a streamed answer to its end finds it in the log, or the log
\* has a malformed row.
THEOREM StreamedAnswersAreRecorded == Spec => []StreamRecordedFirst
<1>1. IInv => StreamRecordedFirst
  BY WhatIsRead
<1>2. QED
  BY <1>1, Invariance, PTL

----------------------------------------------------------------------------
(* Closing and judging.  What a reading of the log is worth depends on the *)
(* client: one that left in good order waits for no handler any more, so   *)
(* no handler that could still write is without an id among the pending    *)
(* ones, or, if no answer came outside a stream, at work at all.           *)

\* What a client's state says of its handler.
Whence(c) ==
  /\ client[c] = "none" <=> pc[c] = "idle"
  /\ pc[c] \in {"backlog", "accepted"} => client[c] \in {"waiting", "gone"}
  /\ client[c] \in {"answered", "ended"} /\ kind[c] \notin {"plain", "probe"}
       => pc[c] \in {"done", "dead"}
  /\ pc[c] \in {"forward", "body", "502"} \cup Silent => kind[c] \in Inference \cup {"probe"}

Unplain == \A c \in Conns : kind[c] # "plain"

CloseInv ==
  /\ \A c \in Conns : Whence(c)
  /\ owner # "open" \/ judged.read => agent # "running"
  /\ agent = "exited" => \A c \in Conns : client[c] # "waiting"
  /\ owner \in {"closed", "read"} /\ ~timedOut /\ Orderly => pending = {}
  /\ final.read => owner = "read"
  /\ final.read /\ ~timedOut /\ Orderly => final = Report(log)
  /\ judged.read /\ Orderly /\ Unplain => judged = Report(log)
  /\ judged.read /\ Orderly /\ Unplain /\ final.read => final = Report(log)

\* A step of one handler moves its own client only.
LEMMA WhenceHere ==
  ASSUME IInv, NEW c \in Conns, Whence(c),
         ClientStep(c) \/ Serving(c) \/ Recording(c) \/ Exchange(c)
  PROVE  Whence(c)' /\ Elsewhere(c)
<1> USE DEF IInv, TypeOK, Whence, Silent, Elsewhere, Goto, Answer, Hangup, shared, stageVars
<1>1. CASE ClientStep(c)
  BY <1>1 DEF ClientStep, Connect, Leave
<1>2. CASE Accept(c) \/ RejectPath(c) \/ PassProbe(c) \/ Reply(c)
  BY <1>2 DEF Accept, RejectPath, PassProbe, Reply
<1>3. CASE RefuseBody(c)
  BY <1>3 DEF RefuseBody
<1>4. CASE CountRequest(c)
  BY <1>4 DEF CountRequest, Inference
<1>5. CASE LogRequest(c)
  BY <1>5 DEF LogRequest, AtLocation
<1>6. CASE AppendResponse(c)
  BY <1>6 DEF AppendResponse
<1>7. CASE LoseResponse(c)
  BY <1>7 DEF LoseResponse
<1>8. CASE Unpend(c)
  <2>1. row[c].then \in {"end", "write", "502"}
    BY DEF Replies
  <2>2. QED
    BY <1>8, <2>1 DEF Unpend, AtLocation
<1>9. CASE Headers(c) \/ DeliverBody(c)
  BY <1>9 DEF Headers, DeliverBody, Inference
<1>10. CASE HeadersLost(c) \/ PartLost(c)
  BY <1>10 DEF HeadersLost, PartLost, Conclude
<1>11. CASE EndOfBody(c) \/ DoneMarker(c)
  BY <1>11 DEF EndOfBody, DoneMarker, Conclude, Inference
<1>12. CASE UpstreamFails(c)
  BY <1>12 DEF UpstreamFails, Conclude, Inference
<1>13. CASE GoesSilent(c)
  BY <1>13 DEF GoesSilent
<1>14. QED
  BY <1>1, <1>2, <1>3, <1>4, <1>5, <1>6, <1>7, <1>8, <1>9, <1>10, <1>11, <1>12, <1>13
     DEF Serving, Recording, Exchange

\* Handlers leave the stage alone, and its owner leaves the handlers alone.
LEMMA HandlerFrame ==
  ASSUME NEW c \in Conns, ClientStep(c) \/ Serving(c) \/ Recording(c) \/ Exchange(c)
  PROVE  UNCHANGED stageVars
  BY DEF ClientStep, Connect, Leave, Serving, Recording, Accept, RejectPath, PassProbe, RefuseBody,
         CountRequest, LogRequest, AppendResponse, LoseResponse, Unpend, Reply, Exchange,
         Headers, GoesSilent, HeadersLost, PartLost, DeliverBody, EndOfBody, DoneMarker, UpstreamFails

\* The owner's steps and the agent's exit leave the handlers, and what they share,
\* alone.
LEMMA OwnerFrame ==
  ASSUME OwnerStep \/ AgentExits \/ UNCHANGED vars
  PROVE  UNCHANGED <<shared, handler>> /\ stage' = stage
  BY DEF OwnerStep, JudgeOpen, Shutdown, Drained, DrainExpires, ReadClosed, AgentExits,
         vars, stageVars

\* Every step keeps what a handler's location says of its client and of its request.
LEMMA WhenceStep ==
  ASSUME IInv, \A c \in Conns : Whence(c), [Next]_vars
  PROVE  \A c \in Conns : Whence(c)'
<1>1. ASSUME NEW c \in Conns, ClientStep(c) \/ Serving(c) \/ Recording(c) \/ Exchange(c),
             NEW d \in Conns
      PROVE  Whence(d)'
  <2>1. CASE d = c
    BY <1>1, <2>1, WhenceHere
  <2>2. CASE d # c
    BY <1>1, <2>2, WhenceHere DEF Whence, Elsewhere
  <2>3. QED
    BY <2>1, <2>2
<1>2. CASE OwnerStep \/ AgentExits \/ UNCHANGED vars
  BY <1>2, OwnerFrame DEF Whence, handler
<1>3. CASE AgentKilled
  BY <1>3 DEF AgentKilled, Whence, shared
<1>4. QED
  BY <1>1, <1>2, <1>3 DEF Next

----------------------------------------------------------------------------
(* After the client has exited.                                            *)

\* Whether it left in good order is settled, and nobody waits.
LEMMA OrderSettled ==
  ASSUME IInv, CloseInv, agent # "running", [Next]_vars
  PROVE  /\ agent' = agent
         /\ \A c \in Conns : client'[c] = "gone" <=> client[c] = "gone"
         /\ \A c \in Conns : client'[c] = "waiting" => client[c] = "waiting"
<1>1. ASSUME NEW c \in Conns, ClientStep(c) \/ Serving(c) \/ Recording(c) \/ Exchange(c)
      PROVE  /\ client'[c] = "gone" <=> client[c] = "gone"
             /\ client'[c] = "waiting" => client[c] = "waiting"
  BY <1>1 DEF IInv, TypeOK, ClientStep, Connect, Leave, Serving, Recording, Accept, RejectPath, PassProbe,
         RefuseBody, CountRequest, LogRequest, AppendResponse, LoseResponse, Unpend, Reply,
         Exchange, Headers, GoesSilent, HeadersLost, PartLost, DeliverBody, EndOfBody, DoneMarker,
         UpstreamFails, Answer, Hangup
<1>2. ASSUME NEW c \in Conns, ClientStep(c) \/ Serving(c) \/ Recording(c) \/ Exchange(c)
      PROVE  agent' = agent /\ \A d \in Conns \ {c} : client'[d] = client[d]
  BY <1>2, HandlerFrame, WhenceHere DEF CloseInv, stageVars, Elsewhere
<1>3. CASE \E c \in Conns : ClientStep(c) \/ Serving(c) \/ Recording(c) \/ Exchange(c)
  BY <1>1, <1>2, <1>3
<1>4. CASE OwnerStep \/ UNCHANGED vars
  <2>1. agent' = agent
    BY <1>4 DEF OwnerStep, JudgeOpen, Shutdown, Drained, DrainExpires, ReadClosed,
                vars, stageVars
  <2>2. QED
    BY <1>4, <2>1, OwnerFrame DEF handler
<1>5. QED
  BY <1>3, <1>4 DEF Next, AgentExits, AgentKilled

\* Once the agent has stopped, nothing turns an orderly run into a disorderly one or
\* back.
LEMMA OrderlyAfter ==
  ASSUME IInv, CloseInv, agent # "running", [Next]_vars
  PROVE  Orderly' <=> Orderly
  BY OrderSettled DEF Orderly

\* The steps of a handler that touch the log or add to the pending ids.
Writes(c) ==
  \/ RefuseBody(c) \/ CountRequest(c) \/ LogRequest(c) \/ AppendResponse(c)
  \/ LoseResponse(c)

\* A handler that writes to the log, or counts, has an id that is pending or a
\* client that waits or is gone.
LEMMA Writers ==
  ASSUME IInv, CloseInv, Orderly, NEW c \in Conns,
         Writes(c)
  PROVE  id[c] \in pending /\ kind[c] \in Inference /\ pc[c] \notin {"done", "dead", "idle"}
<1>1. client[c] \notin {"waiting", "gone"}
  BY DEF Orderly, CloseInv
<1>2. pc[c] # "accepted"
  BY <1>1 DEF CloseInv, Whence
<1>3. pc[c] \in {"counted", "rec"}
  BY <1>2 DEF Writes, RefuseBody, CountRequest, LogRequest, AppendResponse, LoseResponse
<1>4. QED
  BY <1>3 DEF IInv, AtLocation

\* Nothing else writes.
LEMMA OnlyWriters ==
  ASSUME [Next]_vars,
         \A c \in Conns : ~Writes(c)
  PROVE  log' = log /\ pending' \subseteq pending
<1>1. CASE OwnerStep \/ AgentExits \/ UNCHANGED vars
  BY <1>1, OwnerFrame DEF shared
<1>2. CASE AgentKilled
  BY <1>2 DEF AgentKilled, shared
<1>3. ASSUME NEW c \in Conns, ClientStep(c) \/ Serving(c) \/ Recording(c) \/ Exchange(c)
      PROVE  log' = log /\ pending' \subseteq pending
  BY <1>3 DEF shared, ClientStep, Connect, Leave, Serving, Recording, Accept, RejectPath, PassProbe,
         Unpend, Reply, Exchange, Headers, GoesSilent, HeadersLost, PartLost, DeliverBody,
         EndOfBody, DoneMarker, UpstreamFails, Writes
<1>4. QED
  BY <1>1, <1>2, <1>3 DEF Next

\* Once nothing is pending, nothing is written.
LEMMA QuietWhenDrained ==
  ASSUME IInv, CloseInv, Orderly, pending = {}, [Next]_vars
  PROVE  log' = log /\ pending' = {}
  BY Writers, OnlyWriters

\* Once every answer came as a stream, nothing is written either.
LEMMA QuietWhenStreamed ==
  ASSUME IInv, CloseInv, Orderly, Unplain, [Next]_vars
  PROVE  log' = log
<1>1. ASSUME NEW c \in Conns,
             Writes(c)
      PROVE  FALSE
  <2>1. kind[c] = "stream" /\ pc[c] \notin {"done", "dead", "idle"}
    BY <1>1, Writers DEF Inference, Unplain
  <2>2. client[c] \in {"answered", "ended"}
    BY <2>1 DEF IInv, TypeOK, ClientStates, Orderly, CloseInv, Whence
  <2>3. QED
    BY <2>1, <2>2 DEF CloseInv, Whence
<1>2. QED
  BY <1>1, OnlyWriters

\* An answer that came outside a stream stays one.
LEMMA PlainStays ==
  ASSUME IInv, CloseInv, agent # "running", [Next]_vars, Unplain'
  PROVE  Unplain
<1>1. ASSUME NEW c \in Conns, kind[c] = "plain"
      PROVE  FALSE
  <2>1. ASSUME NEW d \in Conns, ClientStep(d) \/ Serving(d) \/ Recording(d) \/ Exchange(d)
        PROVE  kind'[c] = "plain"
    <3>1. CASE d = c
      BY <1>1, <2>1, <3>1
         DEF IInv, TypeOK, ClientStep, Connect, Leave, Serving, Recording, Accept, RejectPath, PassProbe,
             RefuseBody, CountRequest, LogRequest, AppendResponse, LoseResponse, Unpend, Reply,
             Exchange, Headers, GoesSilent, HeadersLost, PartLost, DeliverBody, EndOfBody, DoneMarker,
             UpstreamFails
    <3>2. CASE d # c
      BY <1>1, <2>1, <3>2, WhenceHere DEF CloseInv, Elsewhere
    <3>3. QED
      BY <3>1, <3>2
  <2>2. CASE OwnerStep \/ AgentExits \/ AgentKilled \/ UNCHANGED vars
    BY <1>1, <2>2, OwnerFrame DEF handler, AgentKilled, Unplain
  <2>3. QED
    BY <1>1, <2>1, <2>2 DEF Next, Unplain
<1>2. QED
  BY <1>1 DEF Unplain

----------------------------------------------------------------------------
(* The invariant of closing.                                               *)

\* The closing invariant holds when the proxy starts.
LEMMA CloseInit == Init => CloseInv
<1> SUFFICES ASSUME Init PROVE CloseInv
  OBVIOUS
<1>1. ~judged.read /\ ~final.read
  BY DEF Init, NoReport, Report
<1>2. \A c \in Conns : Whence(c)
  BY DEF Init, Whence, Silent
<1>3. QED
  BY <1>1, <1>2 DEF Init, CloseInv

\* While the client runs, the gateway is open and nothing has been judged.
LEMMA CloseWhileRunning ==
  ASSUME IInv, CloseInv, agent = "running", [Next]_vars
  PROVE  CloseInv'
<1>1. owner = "open" /\ ~judged.read /\ ~final.read
  BY DEF CloseInv, IInv, TypeOK
<1>2. owner' = owner /\ judged' = judged /\ final' = final
  <2>1. CASE OwnerStep
    BY <1>1, <2>1 DEF OwnerStep, JudgeOpen, Shutdown, Drained, DrainExpires, ReadClosed
  <2>2. CASE AgentExits \/ AgentKilled \/ UNCHANGED vars
    BY <2>2 DEF AgentExits, AgentKilled, vars, stageVars
  <2>3. QED
    BY <2>1, <2>2, HandlerFrame DEF Next, stageVars
<1>3. agent' = "exited" => \A c \in Conns : client'[c] # "waiting"
  <2>1. CASE AgentExits
    BY <2>1 DEF AgentExits, handler
  <2>2. CASE AgentKilled \/ OwnerStep \/ UNCHANGED vars
    BY <2>2 DEF AgentKilled, OwnerStep, JudgeOpen, Shutdown, Drained, DrainExpires, ReadClosed,
                vars, stageVars
  <2>3. QED
    BY <2>1, <2>2, HandlerFrame DEF Next, stageVars
<1>4. \A c \in Conns : Whence(c)'
  BY WhenceStep DEF CloseInv
<1>5. QED
  BY <1>1, <1>2, <1>3, <1>4 DEF CloseInv

\* What the owner's steps do.
LEMMA OwnerMoves ==
  ASSUME IInv, CloseInv, agent # "running", [Next]_vars
  PROVE  \/ UNCHANGED <<owner, timedOut, judged, final>>
         \/ /\ ~judged.read /\ owner = "open" /\ UNCHANGED <<shared, owner, timedOut, final>>
            /\ judged' = Report(log)
         \/ /\ owner' = "draining" /\ owner = "open" /\ UNCHANGED <<timedOut, judged, final>>
         \/ /\ owner' = "closed" /\ owner = "draining" /\ (pending = {} \/ timedOut')
            /\ UNCHANGED <<shared, judged, final>> /\ (pending = {} => timedOut' = timedOut)
         \/ /\ owner' = "read" /\ owner = "closed" /\ UNCHANGED <<shared, timedOut, judged>>
            /\ final' = Report(log)
<1>1. CASE OwnerStep
  BY <1>1 DEF OwnerStep, JudgeOpen, Shutdown, Drained, DrainExpires, ReadClosed
<1>2. CASE UNCHANGED vars
  BY <1>2 DEF vars, stageVars
<1>3. QED
  BY <1>1, <1>2, HandlerFrame DEF Next, AgentExits, AgentKilled, stageVars

\* After the agent has stopped, every step keeps the closing invariant.
LEMMA CloseAfterwards ==
  ASSUME IInv, CloseInv, agent # "running", [Next]_vars
  PROVE  CloseInv'
<1> DEFINE Streamed == judged.read /\ Orderly /\ Unplain
<1>1. \A c \in Conns : Whence(c)'
  BY WhenceStep DEF CloseInv
<1>2. agent' = agent /\ (Orderly' <=> Orderly)
  BY OrderSettled, OrderlyAfter
<1>3. agent' = "exited" => \A c \in Conns : client'[c] # "waiting"
  BY <1>2, OrderSettled DEF CloseInv
<1>4. owner' \in {"closed", "read"} /\ ~timedOut' /\ Orderly' => pending' = {}
  <2>1. Orderly /\ pending = {} => pending' = {}
    BY QuietWhenDrained
  <2>2. QED
    BY <1>2, <2>1, OwnerMoves DEF CloseInv, shared
<1>5. final'.read => owner' = "read"
  BY OwnerMoves DEF CloseInv
<1>6. final'.read /\ ~timedOut' /\ Orderly' => final' = Report(log')
  <2>1. final.read /\ ~timedOut /\ Orderly => log' = log
    BY QuietWhenDrained DEF CloseInv
  <2>2. QED
    BY <1>2, <2>1, OwnerMoves DEF CloseInv, shared
<1>7. Orderly /\ Unplain' => Unplain /\ log' = log
  BY PlainStays, QuietWhenStreamed
<1>8. judged'.read /\ Orderly' /\ Unplain' => judged' = Report(log')
  BY <1>2, <1>7, OwnerMoves DEF CloseInv
<1>9. judged'.read /\ Orderly' /\ Unplain' /\ final'.read => final' = Report(log')
  BY <1>2, <1>7, OwnerMoves DEF CloseInv
<1>10. QED
  BY <1>1, <1>2, <1>3, <1>4, <1>5, <1>6, <1>8, <1>9 DEF CloseInv

\* The invariant of closing holds of every reachable state.
THEOREM ClosingInvariance == Spec => []CloseInv
<1>1. IInv /\ CloseInv /\ [Next]_vars => CloseInv'
  BY CloseWhileRunning, CloseAfterwards
<1>2. QED
  BY <1>1, CloseInit, Invariance, PTL DEF Spec

\* The log that is read after close() misses no response if the client left in good
\* order, close() did not give up and no row is malformed.
THEOREM CloseIsClean == Spec => []CleanClose
<1>1. IInv /\ CloseInv => CleanClose
  BY WhatIsRead DEF CloseInv, CleanClose, DrainSound, Report
<1>2. QED
  BY <1>1, Invariance, ClosingInvariance, PTL

\* ... and the handler threads that close() does not wait for leave it as it is.
THEOREM ClosedIsQuiet == Spec => QuietAfterClose
<1>1. IInv /\ CloseInv /\ [Next]_vars
        => [final.read /\ ~timedOut /\ Orderly => log' = log]_vars
  BY QuietWhenDrained DEF CloseInv
<1>2. QED
  BY <1>1, Invariance, ClosingInvariance, PTL DEF Spec, QuietAfterClose

\* run_once's early reading of the log is the final one, if its client exited with all
\* the answers it waited for and all of them were streamed.
THEOREM EarlyJudgementStands == Spec => []JudgedIsFinal
<1>1. CloseInv => JudgedIsFinal
  BY DEF CloseInv, JudgedIsFinal, Unplain
<1>2. QED
  BY <1>1, ClosingInvariance, PTL
=============================================================================
