----------------------------- MODULE WebServerProofs -----------------------------
(* The route table is kept, no protected route runs unasked while its Route lives,   *)
(* and without a clash no request is lost, for any number of routes and credentials. *)
EXTENDS WebServer, FiniteSetTheorems, SequenceTheorems, TLAPS

\* How many routes are settled: all but one that is being registered.
Told == IF glue = "pushed" THEN Len(routes) - 1 ELSE Len(routes)

\* g_routes and httpd's table, between and within the glue's calls.
TableInv ==
  /\ glue = "pushed" => Len(routes) >= 1
  /\ server = "down" => routes = <<>> /\ glue = "idle"
  /\ IsFiniteSet(table) /\ Cardinality(table) = Told
  /\ table = {routes[i].key : i \in 1 .. Told}
  /\ \A i, j \in 1 .. Told : routes[i].key = routes[j].key => i = j

\* A request for a known route finds it, unless the vector moved away under the loop,
\* and goes on with it, unless a destroyed Route was read.
KnownOK ==
  job.known =>
    /\ At("scan") /\ job.current => \E i \in job.at .. Told : routes[i].key = job.key
    /\ job.pc \in {"gate", "ask", "call", "run"} /\ ~job.stale =>
         job.at \in 1 .. Told /\ routes[job.at].key = job.key
    /\ job.pc \in {"call", "run"} /\ ~job.stale =>
         routes[job.at].public \/ job.asked \in {Nobody, job.creds}
    /\ At("run") /\ ~job.stale => job.found = routes[job.at]

\* Without a clash the loop runs over g_routes as it was when the request came.
CalmOK ==
  ~job.clash =>
    /\ job.pc \in {"scan", "gate", "ask", "call"} =>
         glue # "pushed" /\ job.current /\ job.end = Len(routes)
    /\ job.pc \in {"gate", "ask", "call"} => job.at <= job.end
    /\ At("done") /\ job.known => job.answer # "404"

JobInv ==
  /\ job.pc # "idle" => server = "up"
  /\ job.at >= 1
  /\ KnownOK /\ CalmOK

IInv == TypeOK /\ TableInv /\ JobInv
-----------------------------------------------------------------------------
(* A registration grows the vector by one at its end, or takes the last one off. *)

LEMMA Grown ==
  ASSUME NEW S, NEW s \in Seq(S), NEW e \in S
  PROVE  /\ Append(s, e) \in Seq(S) /\ Len(Append(s, e)) = Len(s) + 1
         /\ \A i \in 1 .. Len(s) : Append(s, e)[i] = s[i]
         /\ Append(s, e)[Len(s) + 1] = e
         /\ SubSeq(Append(s, e), 1, Len(s)) = s
<1>1. /\ Append(s, e) \in Seq(S) /\ Len(Append(s, e)) = Len(s) + 1
      /\ \A i \in 1 .. Len(s) : Append(s, e)[i] = s[i]
      /\ Append(s, e)[Len(s) + 1] = e
  BY AppendProperties, LenProperties
<1> DEFINE t == Append(s, e)  u == SubSeq(t, 1, Len(s))
<1> HIDE DEF t
<1>2. /\ u \in Seq(S) /\ Len(u) = Len(s) /\ \A i \in 1 .. Len(s) : u[i] = t[i]
  <2>1. \A i \in 1 .. Len(s) : t[i] \in S
    BY <1>1, ElementOfSeq DEF t
  <2>2. Len(s) \in Nat
    BY LenProperties
  <2>3. /\ u \in Seq(S) /\ Len(u) = IF 1 <= Len(s) THEN Len(s) - 1 + 1 ELSE 0
        /\ \A i \in 1 .. Len(s) - 1 + 1 : u[i] = t[1 + i - 1]
    BY <2>1, <2>2, SubSeqProperties
  <2> QED BY <2>2, <2>3
<1> HIDE DEF u
<1>3. u = s
  BY <1>1, <1>2, SeqEqual DEF t
<1> QED BY <1>1, <1>3 DEF t, u

LEMMA Popped ==
  ASSUME NEW S, NEW s \in Seq(S), Len(s) >= 1
  PROVE  /\ SubSeq(s, 1, Len(s) - 1) \in Seq(S)
         /\ Len(SubSeq(s, 1, Len(s) - 1)) = Len(s) - 1
         /\ \A i \in 1 .. Len(s) - 1 : SubSeq(s, 1, Len(s) - 1)[i] = s[i]
         /\ s[Len(s)] \in S
         /\ Append(SubSeq(s, 1, Len(s) - 1), s[Len(s)]) = s
<1> DEFINE t == SubSeq(s, 1, Len(s) - 1)
<1>1. Len(s) \in Nat \ {0} /\ \A i \in 1 .. Len(s) : s[i] \in S
  BY LenProperties, ElementOfSeq, SMTT(30)
<1>2. t \in Seq(S) /\ Len(t) = Len(s) - 1 /\ \A i \in 1 .. Len(s) - 1 : t[i] = s[i]
  <2>1. \A i \in 1 .. Len(s) - 1 : s[i] \in S
    BY <1>1
  <2>2. /\ t \in Seq(S) /\ Len(t) = IF 1 <= Len(s) - 1 THEN Len(s) - 1 - 1 + 1 ELSE 0
        /\ \A i \in 1 .. Len(s) - 1 - 1 + 1 : t[i] = s[1 + i - 1]
    BY <1>1, <2>1, SubSeqProperties
  <2> HIDE DEF t
  <2>3. Len(s) - 1 - 1 + 1 = Len(s) - 1 /\ \A i \in 1 .. Len(s) - 1 : 1 + i - 1 = i
    BY <1>1
  <2>4. Len(t) = Len(s) - 1
    <3>1. CASE Len(s) = 1
      BY <3>1, <2>2
    <3>2. CASE Len(s) # 1
      <4>1. 1 <= Len(s) - 1
        BY <1>1, <3>2
      <4> QED BY <1>1, <2>2, <2>3, <4>1
    <3> QED BY <3>1, <3>2
  <2> QED BY <2>2, <2>3, <2>4
<1> HIDE DEF t
<1>3. s[Len(s)] \in S
  BY <1>1
<1>4. Append(t, s[Len(s)]) = s
  <2>1. /\ Append(t, s[Len(s)]) \in Seq(S) /\ Len(Append(t, s[Len(s)])) = Len(s)
        /\ \A i \in 1 .. Len(t) : Append(t, s[Len(s)])[i] = t[i]
        /\ Append(t, s[Len(s)])[Len(t) + 1] = s[Len(s)]
    BY <1>1, <1>2, <1>3, Grown
  <2>2. ASSUME NEW i \in 1 .. Len(s) PROVE Append(t, s[Len(s)])[i] = s[i]
    <3>1. i \in 1 .. Len(t) \/ i = Len(t) + 1
      BY <1>1, <1>2
    <3> QED BY <1>1, <1>2, <2>1, <3>1
  <2> QED BY <2>1, <2>2, SeqEqual
<1> QED BY <1>2, <1>3, <1>4 DEF t
-----------------------------------------------------------------------------
(* The inductive invariant.                                                *)

LEMMA Initially == Init => IInv
<1> SUFFICES ASSUME Init PROVE IInv
  OBVIOUS
<1> USE DEF Init
<1>1. Len(routes) = 0 /\ routes \in Seq(Route) /\ Told = 0
  BY EmptySeq DEF Told
<1>2. Cardinality({}) = 0 /\ IsFiniteSet({})
  BY FS_EmptySet
<1>3. AnyKey \in Keys
  BY ServerOK DEF AnyKey
<1>4. TypeOK
  BY <1>1, <1>2, <1>3, ServerOK DEF TypeOK, NoJob, Unasked
<1>5. TableInv
  BY <1>1, <1>2 DEF TableInv
<1>6. JobInv
  BY DEF JobInv, KnownOK, CalmOK, At, NoJob
<1> QED BY <1>4, <1>5, <1>6 DEF IInv

\* The worker's own steps leave the table alone.
LEMMA JobAlone ==
  ASSUME IInv, UNCHANGED table_side
  PROVE  TableInv' /\ Told' = Told
BY DEF IInv, TableInv, Told, table_side

LEMMA StartKeeps ==
  ASSUME IInv, NEW c \in Creds \cup {Nobody}, Start(c)
  PROVE  IInv'
<1>1. routes = <<>> /\ Len(routes) = 0 /\ Told = 0 /\ Told' = 0 /\ job.pc = "idle"
  BY EmptySeq DEF IInv, TableInv, JobInv, Start, Told, TypeOK
<1>2. TypeOK'
  BY <1>1 DEF IInv, TypeOK, Start
<1>3. TableInv'
  BY <1>1 DEF IInv, TableInv, Start
<1>4. JobInv'
  BY <1>1 DEF IInv, JobInv, KnownOK, CalmOK, At, Start
<1> QED BY <1>2, <1>3, <1>4 DEF IInv

LEMMA PushKeeps ==
  ASSUME IInv, NEW r \in Route, Push(r)
  PROVE  IInv' /\ Settled' = Settled
<1>1. /\ routes' \in Seq(Route) /\ Len(routes') = Len(routes) + 1
      /\ \A i \in 1 .. Len(routes) : routes'[i] = routes[i]
      /\ SubSeq(routes', 1, Len(routes)) = routes
  BY Grown DEF IInv, TypeOK, Push, Listed
<1>2. Len(routes) \in Nat /\ Told = Len(routes) /\ Told' = Len(routes)
  BY <1>1, LenProperties DEF IInv, TypeOK, Told, Push
<1>3. TypeOK'
  <2>1. Len(routes) <= MaxHandlers
    BY <1>2, Zenon DEF IInv, TypeOK, TableInv
  <2>2. cap' \in Nat /\ Len(routes') <= cap'
    BY <1>1, <1>2 DEF IInv, TypeOK, Push
  <2>3. Len(routes') <= MaxHandlers + 1
    BY <1>1, <1>2, <2>1, ServerOK
  <2> QED BY <1>1, <2>2, <2>3, ZenonT(40) DEF IInv, TypeOK, Push
<1>4. TableInv'
  <2>1. {routes'[i].key : i \in 1 .. Told'} = {routes[i].key : i \in 1 .. Told}
    BY <1>1, <1>2
  <2>2. \A i, j \in 1 .. Told' : routes'[i].key = routes'[j].key => i = j
    <3>1. \A i, j \in 1 .. Len(routes) : routes[i].key = routes[j].key => i = j
      BY <1>2, Zenon DEF IInv, TableInv
    <3>2. \A i \in 1 .. Len(routes) : routes'[i] = routes[i]
      BY <1>1
    <3> QED BY <1>2, <3>1, <3>2
  <2>3. Len(routes') >= 1 /\ server' = "up"
    <3>1. Len(routes') >= 1
      BY <1>1, <1>2
    <3>2. server' = "up"
      BY SMTT(30) DEF Push
    <3> QED
      BY <3>1, <3>2
  <2>4. IsFiniteSet(table') /\ Cardinality(table') = Told' /\ table' = {routes[i].key : i \in 1 .. Told}
    BY <1>2, Zenon DEF IInv, TableInv, Push
  <2> QED BY <2>1, <2>2, <2>3, <2>4, Zenon DEF TableInv
<1>5. JobInv'
  <2>1. KnownOK'
    BY <1>1, <1>2 DEF IInv, JobInv, KnownOK, At, Push, TypeOK
  <2>2. CalmOK'
    <3>1. job'.pc = job.pc /\ job'.clash = (job.pc # "idle")
      BY DEF IInv, Push, TypeOK
    <3> QED BY <3>1 DEF CalmOK, At
  <2> QED BY <2>1, <2>2 DEF IInv, JobInv, Push, TypeOK
<1>6. Settled' = Settled
  BY <1>1, <1>2 DEF Settled, Push
<1> QED BY <1>3, <1>4, <1>5, <1>6 DEF IInv

\* What both ends of a registration have in common.
LEMMA RegisterAlone ==
  ASSUME IInv, Register
  PROVE  /\ server = "up" /\ Len(routes) \in Nat \ {0} /\ Told = Len(routes) - 1
         /\ routes \in Seq(Route) /\ routes[Len(routes)] \in Route
         /\ Settled = SubSeq(routes, 1, Len(routes) - 1)
         /\ CalmOK'
<1>1. Len(routes) \in Nat \ {0}
  BY LenProperties DEF IInv, TypeOK, TableInv, Register
<1>2. CalmOK'
  <2>1. CalmOK /\ glue = "pushed" /\ UNCHANGED job
    BY DEF IInv, JobInv, Register
  <2> QED BY <2>1, Zenon DEF CalmOK, At
<1>3. server = "up" /\ Told = Len(routes) - 1
  BY DEF IInv, TypeOK, TableInv, Told, Register
<1> QED BY <1>1, <1>2, <1>3, ElementOfSeq DEF IInv, TypeOK, Settled, Register

LEMMA RefuseKeeps ==
  ASSUME IInv, Register, Refuse
  PROVE  IInv' /\ Settled' = Settled
<1>1. /\ routes' \in Seq(Route) /\ Len(routes') = Len(routes) - 1
      /\ \A i \in 1 .. Len(routes) - 1 : routes'[i] = routes[i]
  BY RegisterAlone, Popped DEF Refuse
<1>2. Len(routes) \in Nat \ {0} /\ Told = Len(routes) - 1 /\ Told' = Len(routes) - 1
  BY <1>1, RegisterAlone DEF Told, Register
<1>3. TypeOK'
  <2>1. Len(routes') <= cap /\ Len(routes') <= MaxHandlers + 1
    BY <1>1, <1>2, ServerOK DEF IInv, TypeOK
  <2> QED BY <1>1, <2>1 DEF IInv, TypeOK, Register, Refuse
<1>4. TableInv'
  <2>1. {routes'[i].key : i \in 1 .. Told'} = {routes[i].key : i \in 1 .. Told}
    BY <1>1, <1>2
  <2> QED BY <1>1, <1>2, <2>1, RegisterAlone DEF IInv, TableInv, Register, Refuse
<1>5. JobInv'
  <2>1. KnownOK'
    BY <1>1, <1>2 DEF IInv, JobInv, KnownOK, At, Register, TypeOK
  <2> QED BY <2>1, RegisterAlone DEF IInv, JobInv, Register
<1>6. Settled' = Settled
  BY RegisterAlone DEF Settled, Register, Refuse
<1> QED BY <1>3, <1>4, <1>5, <1>6 DEF IInv

LEMMA AdmitKeeps ==
  ASSUME IInv, Register, Admit
  PROVE  /\ IInv'
         /\ Settled \in Seq(Route) /\ Len(Settled) < MaxHandlers
         /\ \A i \in 1 .. Len(Settled) : Settled[i].key \in table
         /\ Settled' = Append(Settled, routes[Len(routes)])
<1>1. /\ Len(routes) \in Nat \ {0} /\ Told = Len(routes) - 1 /\ Told' = Len(routes)
      /\ routes' = routes
  BY RegisterAlone DEF Told, Register, Admit
<1>2. /\ Pushed = routes[Len(routes)].key /\ Pushed \notin table /\ Pushed \in Keys
      /\ Cardinality(table) < MaxHandlers /\ table' = table \cup {Pushed}
  BY RegisterAlone DEF Pushed, Admit, Matched, Route
<1>3. IsFiniteSet(table') /\ Cardinality(table') = Cardinality(table) + 1
  BY <1>2, FS_AddElement DEF IInv, TableInv
<1>4. TypeOK'
  <2>1. Cardinality(table) \in Nat
    BY FS_CardinalityType DEF IInv, TableInv
  <2>2. Cardinality(table') <= MaxHandlers
    BY <1>2, <1>3, <2>1, ServerOK
  <2> QED BY <1>1, <1>2, <2>2 DEF IInv, TypeOK, Register, Admit
<1>5. TableInv'
  <2>1. table' = {routes'[i].key : i \in 1 .. Told'}
    BY <1>1, <1>2 DEF IInv, TableInv
  <2>2. \A i, j \in 1 .. Told' : routes'[i].key = routes'[j].key => i = j
    BY <1>1, <1>2 DEF IInv, TableInv
  <2>3. Cardinality(table') = Told'
    <3>1. Cardinality(table) = Len(routes) - 1
      BY <1>1 DEF IInv, TableInv
    <3> QED BY <1>1, <1>3, <3>1
  <2>4. glue' = "idle" /\ server' = "up"
    BY RegisterAlone DEF Register
  <2> QED BY <1>3, <2>1, <2>2, <2>3, <2>4 DEF TableInv
<1>6. JobInv'
  <2>1. KnownOK'
    BY <1>1 DEF IInv, JobInv, KnownOK, At, Register, TypeOK
  <2> QED BY <2>1, RegisterAlone DEF IInv, JobInv, Register
<1>7. /\ Settled \in Seq(Route) /\ Len(Settled) = Told
      /\ \A i \in 1 .. Told : Settled[i] = routes[i]
      /\ Append(Settled, routes[Len(routes)]) = routes
  BY <1>1, RegisterAlone, Popped
<1>8. Settled' = routes
  BY <1>1 DEF Settled, Register
<1>9. Len(Settled) < MaxHandlers /\ \A i \in 1 .. Len(Settled) : Settled[i].key \in table
  BY <1>2, <1>7 DEF IInv, TableInv
<1> QED BY <1>4, <1>5, <1>6, <1>7, <1>8, <1>9 DEF IInv

LEMMA StopKeeps ==
  ASSUME IInv, Stop
  PROVE  IInv' /\ Settled' = Settled
<1>1. Told' = Told
  BY DEF Told, Stop
<1>2. TypeOK' /\ TableInv'
  BY <1>1 DEF IInv, TypeOK, TableInv, Stop
<1>3. JobInv'
  BY <1>1 DEF IInv, JobInv, KnownOK, CalmOK, At, Stop
<1>4. Settled' = Settled
  BY DEF Settled, Stop
<1> QED BY <1>2, <1>3, <1>4 DEF IInv

LEMMA StoppedKeeps ==
  ASSUME IInv, Stopped
  PROVE  IInv' /\ Settled' = <<>>
<1>1. routes' = <<>> /\ Len(routes') = 0 /\ Told' = 0 /\ routes' \in Seq(Route)
  BY EmptySeq DEF Stopped, Told
<1>2. Cardinality({}) = 0 /\ IsFiniteSet({})
  BY FS_EmptySet
<1>3. TypeOK'
  BY <1>1, <1>2, ServerOK DEF IInv, TypeOK, Stopped
<1>4. TableInv'
  BY <1>1, <1>2 DEF TableInv, Stopped
<1>5. JobInv'
  BY <1>1 DEF IInv, JobInv, KnownOK, CalmOK, At, Stopped
<1>6. Settled' = <<>>
  BY <1>1 DEF Settled, Stopped
<1> QED BY <1>3, <1>4, <1>5, <1>6 DEF IInv

LEMMA PanicKeeps ==
  ASSUME IInv, Panic
  PROVE  IInv' /\ Settled' = <<>> /\ server' = "down"
<1>1. routes' = <<>> /\ Len(routes') = 0 /\ Told' = 0 /\ routes' \in Seq(Route)
  BY EmptySeq DEF Panic, Told
<1>2. Cardinality({}) = 0 /\ IsFiniteSet({})
  BY FS_EmptySet
<1>3. AnyKey \in Keys
  BY ServerOK DEF AnyKey
<1>4. TypeOK'
  BY <1>1, <1>2, <1>3, ServerOK DEF TypeOK, Panic, NoJob, Unasked
<1>5. TableInv'
  BY <1>1, <1>2 DEF TableInv, Panic
<1>6. JobInv'
  BY DEF JobInv, KnownOK, CalmOK, At, Panic, NoJob
<1>7. Settled' = <<>>
  BY <1>1 DEF Settled, Panic
<1> QED BY <1>4, <1>5, <1>6, <1>7 DEF IInv, Panic

LEMMA SetCredsKeeps ==
  ASSUME IInv, NEW c \in Creds \cup {Nobody}, SetCreds(c)
  PROVE  IInv'
<1>1. TableInv' /\ Told' = Told
  BY JobAlone DEF SetCreds
<1> QED BY <1>1 DEF IInv, TypeOK, JobInv, KnownOK, CalmOK, At, SetCreds, table_side
-----------------------------------------------------------------------------
(* The worker's steps.                                                     *)

LEMMA ArriveKeeps ==
  ASSUME IInv, NEW k \in Keys, NEW c \in Creds \cup {Nobody}, Arrive(k, c)
  PROVE  IInv'
<1>1. TableInv' /\ Told' = Told /\ routes' = routes /\ glue' = glue /\ server' = server
  BY JobAlone DEF Arrive, table_side
<1>2. Len(routes) \in Nat /\ AnyKey \in Keys
  BY LenProperties, ServerOK DEF IInv, TypeOK, AnyKey
<1>3. /\ job'.pc = "scan" /\ job'.key = k /\ job'.creds = c /\ job'.end = Len(routes)
      /\ job'.known = (k \in table) /\ job'.clash = (glue = "pushed")
      /\ job'.at = 1 /\ job'.current = TRUE
  BY DEF Arrive, NoJob
<1>4. TypeOK'
  <2>1. Len(routes) \in 0 .. MaxHandlers + 1
    BY <1>2, ServerOK DEF IInv, TypeOK
  <2>2. job' = [pc |-> "scan", key |-> k, creds |-> c, known |-> (k \in table),
                at |-> 1, end |-> Len(routes), current |-> TRUE, clash |-> (glue = "pushed"),
                stale |-> FALSE, asked |-> Unasked, answer |-> "ok", found |-> NoJob.found]
    BY DEF Arrive, NoJob
  <2>3. UNCHANGED <<server, config, routes, cap, table, glue, active>>
    BY DEF Arrive, table_side
  <2> HIDE DEF NoJob
  <2> QED BY <2>1, <2>2, <2>3 DEF IInv, TypeOK
<1>5. KnownOK'
  BY <1>1, <1>2, <1>3 DEF IInv, TableInv, KnownOK, At
<1>6. CalmOK'
  BY <1>1, <1>3 DEF CalmOK, At
<1> QED BY <1>1, <1>3, <1>4, <1>5, <1>6 DEF IInv, JobInv, Arrive

\* What every step of the dispatcher has in common.
LEMMA DispatchAlone ==
  ASSUME IInv, UNCHANGED table_side
  PROVE  /\ TableInv' /\ Told' = Told /\ routes' = routes /\ glue' = glue /\ server' = server
         /\ Len(routes) \in Nat /\ Told \in Int /\ Told <= Len(routes)
<1>1. Len(routes) \in Nat
  BY LenProperties DEF IInv, TypeOK
<1> QED BY <1>1, JobAlone DEF table_side, Told

LEMMA StaleType ==
  ASSUME IInv
  PROVE  Stale \in BOOLEAN /\ (~Stale => Live /\ ~job.stale)
BY DEF IInv, TypeOK, Stale, Live

LEMMA CompareKeeps ==
  ASSUME IInv, Compare
  PROVE  IInv'
<1>1. UNCHANGED table_side /\ UNCHANGED active /\ job.pc = "scan" /\ job.at <= job.end
  BY DEF Compare, At, More, Local
<1>2. job.at \in Nat /\ job.at >= 1 /\ job.end \in Int
  BY DEF IInv, TypeOK, JobInv
<1>3. CASE (Live => routes[job.at].key = job.key)
           /\ job' = [job EXCEPT !.pc = "gate", !.stale = Stale]
  <2>1. TypeOK'
    BY <1>1, <1>3, StaleType DEF IInv, TypeOK, table_side
  <2>2. KnownOK'
    <3>1. SUFFICES ASSUME job.known, Live PROVE job.at \in 1 .. Told
      BY <1>1, <1>3, DispatchAlone, StaleType DEF IInv, TypeOK, KnownOK, At, Stale
    <3>2. PICK i \in job.at .. Told : routes[i].key = job.key
      BY <1>1, <3>1 DEF IInv, JobInv, KnownOK, At, Live
    <3> QED BY <1>1, <1>2, <3>2, DispatchAlone
  <2>3. CalmOK'
    BY <1>1, <1>3, DispatchAlone DEF IInv, TypeOK, JobInv, CalmOK, At
  <2> QED BY <1>1, <1>2, <1>3, <2>1, <2>2, <2>3, DispatchAlone DEF IInv, JobInv, TypeOK
<1>4. CASE /\ Live => routes[job.at].key # job.key
           /\ job' = [job EXCEPT !.at = @ + 1, !.stale = Stale]
  <2>1. TypeOK'
    <3>1. job.at + 1 \in Nat /\ Stale \in BOOLEAN /\ UNCHANGED active
      BY <1>1, <1>2, StaleType
    <3> QED BY <1>1, <1>4, <3>1 DEF IInv, TypeOK, table_side
  <2>2. KnownOK'
    <3>1. SUFFICES ASSUME job.known, job.current
                   PROVE  \E i \in job.at + 1 .. Told : routes[i].key = job.key
      BY <1>1, <1>4, DispatchAlone DEF IInv, TypeOK, KnownOK, At
    <3>2. PICK i \in job.at .. Told : routes[i].key = job.key
      BY <1>1, <3>1 DEF IInv, JobInv, KnownOK, At
    <3>3. Live
      BY <1>1, <1>2, <3>1, <3>2, DispatchAlone DEF Live
    <3>4. i # job.at
      BY <1>4, <3>2, <3>3
    <3> QED BY <1>1, <1>2, <3>2, <3>4, DispatchAlone
  <2>3. CalmOK'
    BY <1>1, <1>4, DispatchAlone DEF IInv, TypeOK, JobInv, CalmOK, At
  <2> QED BY <1>1, <1>2, <1>4, <2>1, <2>2, <2>3, DispatchAlone DEF IInv, JobInv, TypeOK
<1> QED BY <1>3, <1>4 DEF Compare

\* The dispatcher returns; a 404 for a known route needs a clash.
LEMMA DoneKeeps ==
  ASSUME IInv, NEW a \in {"ok", "401", "404"}, Done(a), Local, job.pc # "idle",
         a = "404" => job.clash \/ ~job.known
  PROVE  IInv'
<1>1. /\ AnyKey \in Keys /\ 0 \in 0 .. MaxHandlers + 1
      /\ job.known \in BOOLEAN /\ job.clash \in BOOLEAN
  BY ServerOK DEF AnyKey, IInv, TypeOK
<1>2. job' = [pc |-> "done", key |-> AnyKey, creds |-> Nobody, known |-> job.known,
              at |-> 1, end |-> 0, current |-> TRUE, clash |-> job.clash,
              stale |-> FALSE, asked |-> Unasked, answer |-> a, found |-> NoJob.found]
  BY DEF Done, NoJob
<1>3. TypeOK'
  <2> HIDE DEF NoJob
  <2> QED BY <1>1, <1>2 DEF IInv, TypeOK, Local, table_side
<1>4. job'.pc = "done" /\ job'.at = 1 /\ job'.known = job.known /\ job'.clash = job.clash
      /\ job'.answer = a
  BY <1>2
<1>5. KnownOK' /\ CalmOK'
  BY <1>4 DEF KnownOK, CalmOK, At
<1>6. TableInv' /\ server' = "up"
  BY JobAlone DEF Local, IInv, JobInv, table_side
<1> QED BY <1>3, <1>4, <1>5, <1>6 DEF IInv, JobInv

LEMMA NotFoundKeeps ==
  ASSUME IInv, NotFound
  PROVE  IInv'
<1>1. UNCHANGED table_side /\ job.pc = "scan" /\ ~(job.at <= job.end)
  BY DEF NotFound, At, More, Local
<1>2. ASSUME job.known, ~job.clash PROVE FALSE
  <2>1. job.current /\ glue # "pushed" /\ job.end = Len(routes)
    BY <1>1, <1>2 DEF IInv, JobInv, CalmOK
  <2>2. PICK i \in job.at .. Told : routes[i].key = job.key
    BY <1>1, <1>2, <2>1 DEF IInv, JobInv, KnownOK, At
  <2>3. job.at \in Nat
    BY DEF IInv, TypeOK
  <2> QED BY <1>1, <2>1, <2>2, <2>3, DispatchAlone
<1> QED BY <1>1, <1>2, DoneKeeps DEF NotFound

LEMMA GateKeeps ==
  ASSUME IInv, Gate
  PROVE  IInv'
<1>1. UNCHANGED table_side /\ job.pc = "gate"
  BY DEF Gate, At
<1>2. InForce \in Creds \cup {Nobody}
  BY DEF IInv, TypeOK, InForce
<1>3. CASE /\ Live => routes[job.at].public
           /\ job' = [job EXCEPT !.pc = "call", !.stale = Stale] /\ UNCHANGED active
  <2>1. TypeOK'
    BY <1>1, <1>3, StaleType DEF IInv, TypeOK, table_side
  <2>2. KnownOK'
    BY <1>1, <1>3, DispatchAlone, StaleType DEF IInv, TypeOK, JobInv, KnownOK, At
  <2>3. CalmOK'
    BY <1>1, <1>3, DispatchAlone DEF IInv, TypeOK, JobInv, CalmOK, At
  <2> QED BY <1>1, <1>3, <2>1, <2>2, <2>3, DispatchAlone DEF IInv, JobInv, TypeOK
<1>4. CASE job' = [job EXCEPT !.pc = "ask", !.stale = Stale] /\ active' = InForce
  <2>1. TypeOK'
    BY <1>1, <1>2, <1>4, StaleType DEF IInv, TypeOK, table_side
  <2>2. KnownOK'
    BY <1>1, <1>4, DispatchAlone, StaleType DEF IInv, TypeOK, JobInv, KnownOK, At
  <2>3. CalmOK'
    BY <1>1, <1>4, DispatchAlone DEF IInv, TypeOK, JobInv, CalmOK, At
  <2> QED BY <1>1, <1>4, <2>1, <2>2, <2>3, DispatchAlone DEF IInv, JobInv, TypeOK
<1> QED BY <1>3, <1>4 DEF Gate

LEMMA AskKeeps ==
  ASSUME IInv, Ask
  PROVE  IInv'
<1>1. UNCHANGED table_side /\ UNCHANGED active /\ job.pc = "ask"
  BY DEF Ask, At, Local
<1>2. CASE /\ active \in {Nobody, job.creds}
           /\ job' = [job EXCEPT !.pc = "call", !.asked = active]
  <2>1. TypeOK'
    BY <1>1, <1>2 DEF IInv, TypeOK, table_side
  <2>2. KnownOK'
    BY <1>1, <1>2, DispatchAlone DEF IInv, TypeOK, JobInv, KnownOK, At
  <2>3. CalmOK'
    BY <1>1, <1>2, DispatchAlone DEF IInv, TypeOK, JobInv, CalmOK, At
  <2> QED BY <1>1, <1>2, <2>1, <2>2, <2>3, DispatchAlone DEF IInv, JobInv, TypeOK
<1>3. CASE Done("401")
  BY <1>1, <1>3, DoneKeeps DEF Local
<1> QED BY <1>2, <1>3 DEF Ask

LEMMA CallHandlerKeeps ==
  ASSUME IInv, CallHandler
  PROVE  IInv'
<1>1. UNCHANGED table_side /\ UNCHANGED active /\ job.pc = "call"
  BY DEF CallHandler, At, Local
<1>2. PICK r \in Route :
        /\ Live => r = routes[job.at]
        /\ job' = [job EXCEPT !.found = r, !.pc = "run", !.stale = Stale]
  BY DEF CallHandler
<1>3. TypeOK'
  BY <1>1, <1>2, StaleType DEF IInv, TypeOK, table_side
<1>4. KnownOK'
  BY <1>1, <1>2, DispatchAlone, StaleType DEF IInv, TypeOK, JobInv, KnownOK, At
<1>5. CalmOK'
  BY <1>1, <1>2, DispatchAlone DEF IInv, TypeOK, JobInv, CalmOK, At
<1> QED BY <1>1, <1>2, <1>3, <1>4, <1>5, DispatchAlone DEF IInv, JobInv, TypeOK

LEMMA HandlerReturnsKeeps ==
  ASSUME IInv, HandlerReturns
  PROVE  IInv'
BY DoneKeeps DEF HandlerReturns, At

LEMMA FinishKeeps ==
  ASSUME IInv, Finish
  PROVE  IInv'
<1>1. UNCHANGED table_side /\ UNCHANGED active /\ job' = NoJob
  BY DEF Finish, Local
<1>2. AnyKey \in Keys
  BY ServerOK DEF AnyKey
<1>3. TypeOK'
  BY <1>1, <1>2, ServerOK DEF IInv, TypeOK, table_side, NoJob, Unasked
<1>4. JobInv'
  BY <1>1 DEF JobInv, KnownOK, CalmOK, At, NoJob
<1> QED BY <1>1, <1>3, <1>4, DispatchAlone DEF IInv
-----------------------------------------------------------------------------
(* The theorems.                                                           *)

THEOREM Inductive == Spec => []IInv
<1>1. IInv /\ [Next]_vars => IInv'
  <2> SUFFICES ASSUME IInv, [Next]_vars PROVE IInv'
    OBVIOUS
  <2>1. ASSUME NEW c \in Creds \cup {Nobody}, Start(c) PROVE IInv'
    BY <2>1, StartKeeps
  <2>2. ASSUME NEW c \in Creds \cup {Nobody}, SetCreds(c) PROVE IInv'
    BY <2>2, SetCredsKeeps
  <2>3. ASSUME NEW r \in Route, Push(r) PROVE IInv'
    BY <2>3, PushKeeps
  <2>4. CASE Register
    BY <2>4, RefuseKeeps, AdmitKeeps DEF Register
  <2>5. CASE Stop
    BY <2>5, StopKeeps
  <2>6. CASE Stopped
    BY <2>6, StoppedKeeps
  <2>7. ASSUME NEW k \in Keys, NEW c \in Creds \cup {Nobody}, Arrive(k, c) PROVE IInv'
    BY <2>7, ArriveKeeps
  <2>8. CASE Dispatch
    BY <2>8, CompareKeeps, NotFoundKeeps, GateKeeps, AskKeeps, CallHandlerKeeps,
       HandlerReturnsKeeps, FinishKeeps DEF Dispatch
  <2>9. CASE Panic
    BY <2>9, PanicKeeps
  <2>10. CASE UNCHANGED vars
    <3>1. TableInv' /\ Told' = Told
      BY <2>10, JobAlone DEF vars
    <3> QED BY <2>10, <3>1 DEF IInv, TypeOK, JobInv, KnownOK, CalmOK, At, vars, table_side
  <2> QED BY <2>1, <2>2, <2>3, <2>4, <2>5, <2>6, <2>7, <2>8, <2>9, <2>10 DEF Next
<1> QED BY <1>1, Initially, PTL DEF Spec

\* Every variable keeps its type; in particular g_routes never holds more than one
\* route beyond max_uri_handlers.
THEOREM TypeCorrect == Spec => []TypeOK
<1>1. IInv => TypeOK
  BY DEF IInv
<1> QED BY <1>1, Inductive, PTL

LEMMA SettledIsTold ==
  ASSUME IInv
  PROVE  /\ Settled \in Seq(Route) /\ Len(Settled) = Told /\ Told \in Nat
         /\ \A i \in 1 .. Told : Settled[i] = routes[i]
<1>1. routes \in Seq(Route) /\ Len(routes) \in Nat
  BY LenProperties DEF IInv, TypeOK
<1>2. CASE glue = "pushed"
  BY <1>1, <1>2, Popped DEF IInv, TableInv, Settled, Told
<1>3. CASE glue # "pushed"
  BY <1>1, <1>3 DEF Settled, Told
<1> QED BY <1>2, <1>3

\* g_routes and httpd's handler table name the same routes, each once (Agree).
THEOREM Agreement == Spec => []Agree
<1>1. IInv => Agree
  <2> SUFFICES ASSUME IInv PROVE Agree
    OBVIOUS
  <2>1. {Settled[i].key : i \in 1 .. Len(Settled)} = {routes[i].key : i \in 1 .. Told}
    BY SettledIsTold
  <2> QED BY <2>1, SettledIsTold DEF IInv, TableInv, Agree
<1> QED BY <1>1, Inductive, PTL

\* A request for a registered route runs that route, and a protected one not without the
\* credentials asked for, unless a destroyed Route was read for it (Protected).
THEOREM ProtectedStays == Spec => []Protected
<1>1. IInv => Protected
  <2> SUFFICES ASSUME IInv, At("run"), job.known, ~job.stale
               PROVE  /\ job.found.key = job.key /\ First(job.found)
                      /\ job.found.public \/ job.asked \in {Nobody, job.creds}
    BY DEF Protected
  <2>1. /\ job.at \in 1 .. Told /\ routes[job.at].key = job.key
        /\ job.found = routes[job.at]
        /\ job.found.public \/ job.asked \in {Nobody, job.creds}
    BY DEF IInv, JobInv, KnownOK, At
  <2>2. Len(routes) \in Nat /\ Told \in Nat /\ Told <= Len(routes)
    BY LenProperties, SettledIsTold DEF IInv, TypeOK, Told
  <2>3. \A j \in 1 .. job.at - 1 : routes[j].key # routes[job.at].key
    BY <2>1, <2>2 DEF IInv, TableInv
  <2>4. job.at \in 1 .. Len(routes)
    BY <2>1, <2>2
  <2> QED BY <2>1, <2>3, <2>4 DEF First
<1> QED BY <1>1, Inductive, PTL

\* Without a registration meanwhile, a request never reads a Route that is gone
\* (NoDeadRead), a stop under way included.
THEOREM ReadsLive == Spec => []NoDeadRead
<1>1. IInv => NoDeadRead
  <2> SUFFICES ASSUME IInv, Reads, ~job.clash PROVE Live
    BY DEF NoDeadRead
  <2>1. job.pc \in {"scan", "gate", "call"} /\ (At("scan") => job.at <= job.end)
    BY DEF Reads, At, More
  <2> QED BY <2>1 DEF IInv, JobInv, CalmOK, At, Live
<1> QED BY <1>1, Inductive, PTL

\* Without a registration meanwhile, a registered route is not answered 404
\* (RegisteredFound).
THEOREM FindsRegistered == Spec => []RegisteredFound
<1>1. IInv => RegisteredFound
  BY DEF IInv, JobInv, CalmOK, RegisteredFound, Lost, At
<1> QED BY <1>1, Inductive, PTL

\* The table implements what server.h promises (KeepsTable): a registration is whole or
\* leaves no trace, for every table size.
THEOREM TableKept == Spec => KeepsTable
<1>1. Init => Table!Init
  BY DEF Init, Table!Init, Settled
<1>2. IInv /\ [Next]_vars => [Table!Next]_<<server = "up", Settled>>
  <2> SUFFICES ASSUME IInv, [Next]_vars
               PROVE  Table!Next \/ UNCHANGED <<server = "up", Settled>>
    OBVIOUS
  <2>0. ASSUME UNCHANGED table_side PROVE UNCHANGED <<server = "up", Settled>>
    BY <2>0 DEF table_side, Settled
  <2>1. ASSUME NEW c \in Creds \cup {Nobody}, Start(c)
        PROVE  Table!Next \/ UNCHANGED <<server = "up", Settled>>
    <3>1. Settled = <<>> /\ Settled' = <<>> /\ server = "down" /\ server' \in {"up", "down"}
      BY <2>1 DEF IInv, TableInv, Start, Settled
    <3> QED BY <3>1 DEF Table!Next, Table!Start
  <2>2. ASSUME NEW c \in Creds \cup {Nobody}, SetCreds(c)
        PROVE  UNCHANGED <<server = "up", Settled>>
    BY <2>0, <2>2 DEF SetCreds
  <2>3. ASSUME NEW r \in Route, Push(r) PROVE UNCHANGED <<server = "up", Settled>>
    BY <2>3, PushKeeps DEF Push
  <2>4. CASE Register
    <3>1. CASE Refuse
      BY <2>4, <3>1, RefuseKeeps DEF Register
    <3>2. CASE Admit
      <4>1. /\ Settled \in Seq(Route) /\ Len(Settled) < MaxHandlers
            /\ \A i \in 1 .. Len(Settled) : Settled[i].key \in table
            /\ Settled' = Append(Settled, routes[Len(routes)])
        BY <2>4, <3>2, AdmitKeeps
      <4>2. routes[Len(routes)] \in Route /\ server = "up" /\ server' = server
        BY <2>4, RegisterAlone DEF Register
      <4>3. ~Table!Matched(routes[Len(routes)].key)
        BY <3>2, <4>1 DEF Admit, Matched, Pushed, Table!Matched
      <4>4. Table!Accept(routes[Len(routes)])
        BY <4>1, <4>2, <4>3 DEF Table!Accept
      <4> QED BY <4>2, <4>4 DEF Table!Next, Table!Route, Route
    <3> QED BY <2>4, <3>1, <3>2 DEF Register
  <2>5. CASE Stop
    BY <2>5, StopKeeps DEF Stop
  <2>6. CASE Stopped
    <3>1. Settled' = <<>> /\ server' = "down"
      BY <2>6, StoppedKeeps DEF Stopped
    <3>2. server = "up"
      BY <2>6 DEF IInv, TypeOK, TableInv, Stopped
    <3> QED BY <3>1, <3>2 DEF Table!Next, Table!Stop
  <2>7. ASSUME NEW k \in Keys, NEW c \in Creds \cup {Nobody}, Arrive(k, c)
        PROVE  UNCHANGED <<server = "up", Settled>>
    BY <2>0, <2>7 DEF Arrive
  <2>8. CASE Dispatch
    BY <2>0, <2>8 DEF Dispatch, Compare, NotFound, Gate, Ask, CallHandler, HandlerReturns, Finish, Local
  <2>9. CASE Panic
    <3>1. Settled' = <<>> /\ server' = "down"
      BY <2>9, PanicKeeps
    <3>2. server = "up"
      BY <2>9 DEF IInv, JobInv, Panic, Reads, At
    <3> QED BY <3>1, <3>2 DEF Table!Next, Table!Stop
  <2>10. CASE UNCHANGED vars
    BY <2>0, <2>10 DEF vars
  <2> QED BY <2>1, <2>2, <2>3, <2>4, <2>5, <2>6, <2>7, <2>8, <2>9, <2>10 DEF Next
<1> QED BY <1>1, <1>2, Inductive, PTL DEF Spec, KeepsTable, Table!Spec

\* Whatever is registered with success is served: httpd's match of its URI, which takes
\* patterns, finds that route and no earlier one.  It follows from the table's promise
\* alone, for every table size and any patterns.
THEOREM NeverShadowed == Spec => []Table!Unshadowed
<1> DEFINE T == Settled \in Seq(Route) /\ Table!Unshadowed
<1>1. Table!Init => T
  BY ServerOK DEF Table!Init, Table!Unshadowed
<1>2. T /\ [Table!Next]_<<server = "up", Settled>> => T'
  <2> SUFFICES ASSUME T, [Table!Next]_<<server = "up", Settled>> PROVE T'
    OBVIOUS
  <2>1. CASE Settled' = <<>>
    BY <2>1, ServerOK DEF Table!Unshadowed
  <2>2. CASE Settled' = Settled
    BY <2>2 DEF Table!Unshadowed
  <2>3. ASSUME NEW r \in Table!Route, Table!Accept(r) PROVE T'
    <3>1. /\ r \in Route /\ Settled' = Append(Settled, r) /\ Len(Settled) < MaxHandlers
          /\ \A i \in 1 .. Len(Settled) : Settled[i].key \notin {r.key} \cup Wild
      BY <2>3 DEF Table!Accept, Table!Matched, Table!Route, Route
    <3> QED
      BY <3>1, ServerOK DEF Table!Unshadowed
  <2> QED
    BY <2>1, <2>2, <2>3 DEF Table!Next, Table!Start, Table!Stop
<1>3. Table!Spec => []T
  BY <1>1, <1>2, PTL DEF Table!Spec
<1> QED
  BY <1>3, TableKept, PTL DEF KeepsTable
===============================================================================
