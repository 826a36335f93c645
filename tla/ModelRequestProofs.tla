-------------------------- MODULE ModelRequestProofs --------------------------
(***************************************************************************)
(* Proofs about the model requests of a step, for every set of routes,     *)
(* every policy and budget, and every bound.                               *)
(***************************************************************************)
EXTENDS ModelRequest, TLAPS, FiniteSetTheorems

Events ==
         [type : {"chunk"}, attempt : Nat]
    \cup [type : {"message"}, attempt : Nat, sources : SUBSET Nat]
    \cup [type : {"retry"}, route : Routes, retry : Nat]
    \cup [type : {"started"}, of : Nat]

\* What every proof needs to know of the types.
TypeOK ==
    /\ log \in Seq(Events)
    /\ pc \in {"build", "stream", "captured", "downstream", "delegate", "waiting",
               "decided", "completed", "failed", "aborted"}
    /\ route \in Routes /\ attempt \in Nat
    /\ chunkSeqs \in SUBSET Nat
    /\ aborted \in BOOLEAN /\ active \in BOOLEAN
    /\ plugin \in {"up", "closing", "down"} /\ captured \in Nat /\ reloads \in Nat
    /\ decision \in {"none", "retry"} /\ delegated \in Nat

\* A set of places has a last one: without this, CHOOSE says nothing.
HasLast(S) == S # {} => \E k \in S : \A other \in S : other <= k

LastsExist ==
    /\ HasLast(Places("retry"))
    /\ \A r \in Routes : HasLast(RetriesOf(r))

\* A start names an earlier place; and the loop waits on the event it appended
\* last, so no start can name that one yet.
StartsLookBack ==
    /\ \A k \in Places("started") : log[k].of < k
    /\ pc = "waiting" => Len(log) \in Places("retry")

\* Only a policy that always retries asks downstream: a finite one never gets to
\* schedule from there.
DownstreamIsAlways == pc = "downstream" => Mode[route] = "always"

\* Whoever goes on to another request has a start or a delegated retry for it.
NextIsEarned ==
    pc = "build" \/ (pc = "decided" /\ decision = "retry") =>
        attempt <= Cardinality(Places("started")) + delegated

\* The stream collects the chunks of its own attempt, attempts are not numbered
\* twice, and the message is the last thing that happens.
ChunksAreCurrent ==
    /\ \A k \in Places("chunk") : log[k].attempt <= attempt
    /\ pc = "stream" => chunkSeqs = {k \in Places("chunk") : log[k].attempt = attempt}
    /\ pc # "completed" => Places("message") = {}

IInv ==
    /\ TypeOK
    /\ LastsExist
    /\ StartsLookBack
    /\ DownstreamIsAlways
    /\ NextIsEarned
    /\ ChunksAreCurrent
    /\ BudgetHolds
    /\ RetriesAreRecorded
    /\ MessageIsOneAttempt

-----------------------------------------------------------------------------
(* The helpers of the model: places in the log, and the last of them. *)

\* The places of a kind of event are finitely many.
LEMMA PlacesFinite ==
    ASSUME TypeOK
    PROVE  /\ \A type : Places(type) \subseteq 1..Len(log) /\ IsFiniteSet(Places(type))
           /\ \A r : RetriesOf(r) \subseteq Places("retry") /\ IsFiniteSet(RetriesOf(r))
<1>1. Len(log) \in Nat /\ DOMAIN log = 1..Len(log)
  BY DEF TypeOK
<1>2. IsFiniteSet(1..Len(log))
  BY <1>1, FS_Interval
<1>3. ASSUME NEW type
      PROVE  Places(type) \subseteq 1..Len(log) /\ IsFiniteSet(Places(type))
  <2>1. Places(type) \subseteq 1..Len(log)
    BY <1>1 DEF Places
  <2> QED BY <1>2, <2>1, FS_Subset
<1>4. ASSUME NEW r
      PROVE  RetriesOf(r) \subseteq Places("retry") /\ IsFiniteSet(RetriesOf(r))
  <2>1. RetriesOf(r) \subseteq Places("retry")
    BY DEF RetriesOf
  <2> QED BY <1>3, <2>1, FS_Subset
<1> QED BY <1>3, <1>4

\* Last returns the greatest place, where there is one.
LEMMA LastIsGreatest ==
    ASSUME NEW S \in SUBSET Nat, S # {}, HasLast(S)
    PROVE  Last(S) \in S /\ \A other \in S : other <= Last(S)
BY DEF HasLast, Last

\* The greatest place, once found, is the one that Last returns.
LEMMA LastIsUnique ==
    ASSUME NEW S \in SUBSET Nat, NEW k \in S, \A other \in S : other <= k
    PROVE  Last(S) = k
<1>1. Last(S) \in S /\ \A other \in S : other <= Last(S)
  <2>1. S # {} /\ HasLast(S)
    BY DEF HasLast
  <2> QED BY <2>1, LastIsGreatest
<1>2. Last(S) \in Nat /\ k \in Nat /\ Last(S) <= k /\ k <= Last(S)
  BY <1>1
<1> QED BY <1>2

\* An event that is appended has the place after all others, and moves none.
LEMMA AppendGrows ==
    ASSUME TypeOK, NEW e \in Events, Append1(e)
    PROVE  /\ log' \in Seq(Events) /\ Len(log) \in Nat /\ Len(log') = Len(log) + 1
           /\ DOMAIN log = 1..Len(log) /\ DOMAIN log' = 1..(Len(log) + 1)
           /\ \A k \in 1..Len(log) : log'[k] = log[k]
           /\ log'[Len(log) + 1] = e
BY DEF TypeOK, Append1

\* The places of each kind, after an event was appended.
LEMMA PlacesGrow ==
    ASSUME TypeOK, NEW e \in Events, Append1(e)
    PROVE  /\ \A type : Places(type)' = IF e.type = type THEN Places(type) \cup {Len(log) + 1}
                                                         ELSE Places(type)
           /\ \A type : \A k \in Places(type) : k \in Nat /\ k <= Len(log) /\ log'[k] = log[k]
<1> DEFINE n == Len(log) + 1
<1>1. /\ Len(log) \in Nat /\ DOMAIN log = 1..Len(log) /\ DOMAIN log' = 1..n
      /\ \A k \in 1..Len(log) : log'[k] = log[k]
      /\ log'[n] = e
  BY AppendGrows
<1>2. 1..n = (1..Len(log)) \cup {n} /\ n \notin 1..Len(log)
  BY <1>1
<1>3. ASSUME NEW type
      PROVE  Places(type)' = IF e.type = type THEN Places(type) \cup {n} ELSE Places(type)
  BY <1>1, <1>2 DEF Places
<1>4. ASSUME NEW type, NEW k \in Places(type)
      PROVE  k \in Nat /\ k <= Len(log) /\ log'[k] = log[k]
  BY <1>1 DEF Places
<1> QED BY <1>3, <1>4

\* An event that is no retry leaves every retry where it is.
LEMMA RetriesKept ==
    ASSUME TypeOK, NEW e \in Events, Append1(e), e.type # "retry"
    PROVE  Places("retry")' = Places("retry") /\ \A r : RetriesOf(r)' = RetriesOf(r)
<1>1. Places("retry")' = Places("retry") /\ \A k \in Places("retry") : log'[k] = log[k]
  BY PlacesGrow
<1> QED BY <1>1 DEF RetriesOf

\* The count that the policy reads from the log is the number of its retries.
LEMMA PreviousIsCount ==
    ASSUME IInv, NEW r \in Routes
    PROVE  Previous(r) = Cardinality(RetriesOf(r))
<1>1. CASE RetriesOf(r) = {}
  BY <1>1, FS_EmptySet DEF Previous
<1>2. CASE RetriesOf(r) # {}
  <2> DEFINE k == Last(RetriesOf(r))
  <2>1. RetriesOf(r) \in SUBSET Nat
    BY PlacesFinite DEF IInv, TypeOK
  <2>2. k \in RetriesOf(r) /\ \A other \in RetriesOf(r) : other <= k
    BY <1>2, <2>1, LastIsGreatest DEF IInv, LastsExist
  <2>3. log[k].route = r /\ k \in Places("retry")
    BY <2>2 DEF RetriesOf
  <2>4. {p \in RetriesOf(log[k].route) : p <= k} = RetriesOf(r)
    BY <2>2, <2>3
  <2>5. log[k].retry = Cardinality(RetriesOf(r))
    BY <2>3, <2>4 DEF IInv, RetriesAreRecorded, RetryLogIsValid
  <2> QED BY <1>2, <2>5 DEF Previous
<1> QED BY <1>1, <1>2

-----------------------------------------------------------------------------
(* The actions.  Most of them append nothing: *)

\* what is said of the log alone, and of the log and the history together.
LEMMA LogKept ==
    ASSUME IInv, log' = log
    PROVE  /\ LastsExist' /\ BudgetHolds' /\ RetryLogIsValid' /\ MessageIsOneAttempt'
           /\ \A type : Places(type)' = Places(type)
           /\ \A k \in Places("started") : log'[k].of < k
           /\ \A k \in Places("chunk") : log'[k].attempt <= attempt
<1>1. /\ \A type : Places(type)' = Places(type)
      /\ \A r : RetriesOf(r)' = RetriesOf(r)
  BY DEF Places, RetriesOf
<1>2. LastsExist' /\ BudgetHolds'
  BY <1>1 DEF IInv, LastsExist, BudgetHolds
<1>3. RetryLogIsValid'
  BY <1>1 DEF IInv, RetriesAreRecorded, RetryLogIsValid
<1>4. MessageIsOneAttempt'
  BY <1>1 DEF IInv, MessageIsOneAttempt
<1> QED BY <1>1, <1>2, <1>3, <1>4 DEF IInv, StartsLookBack, ChunksAreCurrent

\* A step that appends nothing keeps the invariant if it does not begin to stream
\* or to wait, asks downstream for a policy that always retries only, and goes on
\* to another request only with a retry that was started or delegated.
LEMMA QuietStep ==
    ASSUME IInv, TypeOK', log' = log, attempt' = attempt, chunkSeqs' = chunkSeqs,
           delegated' \in {delegated, delegated + 1},
           pc' = pc \/ pc' \notin {"stream", "waiting", "completed"},
           pc = "completed" => pc' = pc,
           pc' = "downstream" => Mode[route'] = "always",
           NextIsEarned'
    PROVE  IInv'
<1>1. /\ LastsExist' /\ BudgetHolds' /\ RetryLogIsValid' /\ MessageIsOneAttempt'
      /\ \A type : Places(type)' = Places(type)
      /\ \A k \in Places("started") : log'[k].of < k
      /\ \A k \in Places("chunk") : log'[k].attempt <= attempt
  BY LogKept
<1>2. StartsLookBack' /\ DownstreamIsAlways'
  BY <1>1 DEF IInv, StartsLookBack, DownstreamIsAlways
<1>3. ChunksAreCurrent'
  BY <1>1 DEF IInv, ChunksAreCurrent
<1>4. Cardinality(Places("started")) \in Nat
  BY PlacesFinite, FS_CardinalityType DEF IInv
<1>5. AttemptsAreEarned'
  BY <1>1, <1>4 DEF IInv, RetriesAreRecorded, AttemptsAreEarned, TypeOK
<1> QED BY <1>1, <1>2, <1>3, <1>5 DEF IInv, RetriesAreRecorded

\* The new request starts without a chunk: none was made under its number.
LEMMA BuildRequestStep ==
    ASSUME IInv, BuildRequest
    PROVE  IInv'
<1>0. attempt \in Nat /\ log' = log /\ attempt' = attempt + 1 /\ chunkSeqs' = {}
      /\ pc = "build" /\ pc' = "stream" /\ delegated' = delegated
  BY DEF BuildRequest, IInv, TypeOK
<1>1. TypeOK'
  BY DEF BuildRequest, IInv, TypeOK, lifetime
<1>2. /\ LastsExist' /\ BudgetHolds' /\ RetryLogIsValid' /\ MessageIsOneAttempt'
      /\ \A type : Places(type)' = Places(type)
      /\ \A k \in Places("started") : log'[k].of < k
      /\ \A k \in Places("chunk") : log'[k].attempt <= attempt
  BY <1>0, LogKept
<1>3. StartsLookBack' /\ DownstreamIsAlways' /\ NextIsEarned'
  BY <1>0, <1>2 DEF StartsLookBack, DownstreamIsAlways, NextIsEarned
<1>4. \A k \in Places("chunk") : log[k].attempt \in Nat
  BY DEF Places, IInv, TypeOK, Events
<1>5. ChunksAreCurrent'
  <2>1. \A k \in Places("chunk") : log'[k].attempt <= attempt' /\ log'[k].attempt # attempt'
    BY <1>0, <1>2, <1>4
  <2>2. Places("message") = {}
    BY <1>0 DEF IInv, ChunksAreCurrent
  <2> QED BY <1>0, <1>2, <2>1, <2>2 DEF ChunksAreCurrent
<1>6. AttemptsAreEarned'
  <2>1. Cardinality(Places("started")) \in Nat
    BY PlacesFinite, FS_CardinalityType DEF IInv
  <2>2. attempt <= Cardinality(Places("started")) + delegated
    BY <1>0 DEF IInv, NextIsEarned
  <2> QED BY <1>0, <1>1, <1>2, <2>1, <2>2 DEF AttemptsAreEarned, TypeOK
<1> QED BY <1>1, <1>2, <1>3, <1>5, <1>6 DEF IInv, RetriesAreRecorded

\* An event that is neither a retry nor a start leaves the record of the retries.
LEMMA RecordKept ==
    ASSUME IInv, NEW e \in Events, Append1(e), e.type \notin {"retry", "started"},
           pc' # "waiting", attempt' = attempt, delegated' = delegated
    PROVE  LastsExist' /\ BudgetHolds' /\ RetriesAreRecorded' /\ StartsLookBack'
<1>0. TypeOK
  BY DEF IInv
<1>1. /\ Places("retry")' = Places("retry") /\ Places("started")' = Places("started")
      /\ \A type : \A k \in Places(type) : k \in Nat /\ k <= Len(log) /\ log'[k] = log[k]
  BY <1>0, PlacesGrow
<1>2. \A r : RetriesOf(r)' = RetriesOf(r)
  BY <1>0, RetriesKept
<1>3. LastsExist' /\ BudgetHolds'
  BY <1>1, <1>2 DEF IInv, LastsExist, BudgetHolds
<1>4. RetryLogIsValid'
  <2>1. ASSUME NEW k \in Places("retry")
        PROVE  log'[k].retry = Cardinality({p \in RetriesOf(log[k].route)' : p <= k})
    <3>1. log'[k] = log[k] /\ RetriesOf(log[k].route)' = RetriesOf(log[k].route)
      BY <1>1, <1>2
    <3>2. log[k].retry = Cardinality({p \in RetriesOf(log[k].route) : p <= k})
      BY DEF IInv, RetriesAreRecorded, RetryLogIsValid
    <3> QED BY <3>1, <3>2
  <2>2. ASSUME NEW k \in Places("started")
        PROVE  /\ log'[k].of = Last({p \in Places("retry") : p < k})
               /\ \A p \in Places("started") : log'[p].of = log'[k].of => p = k
    BY <1>1 DEF IInv, RetriesAreRecorded, RetryLogIsValid
  <2> QED BY <1>1, <2>1, <2>2 DEF RetryLogIsValid
<1>5. AttemptsAreEarned' /\ StartsLookBack'
  BY <1>1 DEF IInv, RetriesAreRecorded, AttemptsAreEarned, StartsLookBack
<1> QED BY <1>3, <1>4, <1>5 DEF RetriesAreRecorded

\* A chunk is collected as it is appended.
LEMMA ChunkStep ==
    ASSUME IInv, Chunk
    PROVE  IInv'
<1> DEFINE e == [type |-> "chunk", attempt |-> attempt]
           n == Len(log) + 1
<1>0. /\ TypeOK /\ e \in Events /\ Append1(e) /\ e.type = "chunk" /\ e.attempt = attempt
      /\ chunkSeqs' = chunkSeqs \cup {n}
      /\ pc = "stream" /\ UNCHANGED <<pc, attempt, delegated>>
  BY DEF Chunk, IInv, TypeOK, Events
<1>1. n \in Nat /\ log' \in Seq(Events) /\ log'[n] = e
  BY <1>0, AppendGrows
<1>2. TypeOK'
  BY <1>1 DEF Chunk, IInv, TypeOK, lifetime
<1>3. LastsExist' /\ BudgetHolds' /\ RetriesAreRecorded' /\ StartsLookBack'
  BY <1>0, RecordKept
<1>4. /\ Places("chunk")' = Places("chunk") \cup {n}
      /\ Places("message")' = Places("message") /\ Places("started")' = Places("started")
      /\ \A k \in Places("chunk") : log'[k] = log[k]
  BY <1>0, PlacesGrow
<1>5. DownstreamIsAlways' /\ NextIsEarned'
  BY <1>0 DEF DownstreamIsAlways, NextIsEarned
<1>6. ChunksAreCurrent'
  BY <1>0, <1>1, <1>4 DEF IInv, ChunksAreCurrent, TypeOK
<1>7. MessageIsOneAttempt'
  BY <1>0, <1>4 DEF IInv, ChunksAreCurrent, MessageIsOneAttempt
<1> QED BY <1>2, <1>3, <1>5, <1>6, <1>7 DEF IInv

\* The message takes the chunks that the stream collected, and the step is over.
LEMMA StreamCompletesStep ==
    ASSUME IInv, StreamCompletes
    PROVE  IInv'
<1> DEFINE e == [type |-> "message", attempt |-> attempt, sources |-> chunkSeqs]
           n == Len(log) + 1
<1>0. /\ TypeOK /\ e \in Events /\ Append1(e) /\ e.type = "message"
      /\ e.attempt = attempt /\ e.sources = chunkSeqs
      /\ pc = "stream" /\ pc' = "completed" /\ UNCHANGED <<stream, delegated>>
  BY DEF StreamCompletes, IInv, TypeOK, Events
<1>1. n \in Nat /\ log' \in Seq(Events) /\ log'[n] = e
  BY <1>0, AppendGrows
<1>2. TypeOK'
  BY <1>1 DEF StreamCompletes, IInv, TypeOK, lifetime, stream
<1>3. LastsExist' /\ BudgetHolds' /\ RetriesAreRecorded' /\ StartsLookBack'
  BY <1>0, RecordKept DEF stream
<1>4. /\ Places("chunk")' = Places("chunk")
      /\ Places("message")' = Places("message") \cup {n}
      /\ \A k \in Places("chunk") : log'[k] = log[k]
  BY <1>0, PlacesGrow
<1>5. DownstreamIsAlways' /\ NextIsEarned' /\ ChunksAreCurrent'
  BY <1>0, <1>4 DEF IInv, DownstreamIsAlways, NextIsEarned, ChunksAreCurrent, stream
<1>6. MessageIsOneAttempt'
  BY <1>0, <1>1, <1>4 DEF IInv, ChunksAreCurrent, MessageIsOneAttempt
<1> QED BY <1>2, <1>3, <1>5, <1>6 DEF IInv

\* RetryLogIsValid after a step, with the route of a retry given a name.
LEMMA CountedRetries ==
    ASSUME \A k \in Places("retry")' : \A q : q = log'[k].route =>
               log'[k].retry = Cardinality({p \in RetriesOf(q)' : p <= k}),
           \A k \in Places("started")' :
               /\ log'[k].of = Last({p \in Places("retry")' : p < k})
               /\ \A p \in Places("started")' : log'[p].of = log'[k].of => p = k
    PROVE  RetryLogIsValid'
<1>1. ASSUME NEW k \in Places("retry")'
      PROVE  log'[k].retry = Cardinality({p \in RetriesOf(log[k].route)' : p <= k})
  <2>1. PICK q : q = log'[k].route
    OBVIOUS
  <2>2. RetriesOf(log[k].route)' = RetriesOf(q)'
    BY <2>1 DEF RetriesOf
  <2>3. log'[k].retry = Cardinality({p \in RetriesOf(q)' : p <= k})
    BY <2>1
  <2> QED BY <2>2, <2>3
<1> QED BY <1>1 DEF RetryLogIsValid

\* A retry that is scheduled within the budget is counted by its own record.
LEMMA ScheduleStep ==
    ASSUME IInv, NEW r \in Routes, r = route,
           Append1([type |-> "retry", route |-> r, retry |-> Previous(r) + 1]),
           ~Exhausted(r), pc # "completed", pc' = "waiting", active' \in BOOLEAN,
           UNCHANGED <<stream, aborted, lifetime, decision, delegated>>
    PROVE  IInv'
<1> DEFINE e == [type |-> "retry", route |-> r, retry |-> Previous(r) + 1]
           n == Len(log) + 1
<1>0. TypeOK /\ attempt' = attempt /\ delegated' = delegated
  BY DEF IInv, TypeOK, stream
<1>1. /\ Previous(r) = Cardinality(RetriesOf(r))
      /\ Cardinality(RetriesOf(r)) \in Nat
      /\ IsFiniteSet(RetriesOf(r))
  BY <1>0, PreviousIsCount, PlacesFinite, FS_CardinalityType
<1>2. e \in Events /\ e.type = "retry" /\ e.route = r /\ e.retry = Previous(r) + 1
  BY <1>0, <1>1 DEF Events
<1>3. /\ n \in Nat /\ log' \in Seq(Events) /\ log'[n] = e /\ Len(log) \in Nat
      /\ Len(log') = n
  BY <1>0, <1>2, AppendGrows
<1>4. /\ Places("retry")' = Places("retry") \cup {n}
      /\ Places("started")' = Places("started")
      /\ Places("chunk")' = Places("chunk") /\ Places("message")' = Places("message")
      /\ \A type : \A k \in Places(type) : k \in Nat /\ k <= Len(log) /\ log'[k] = log[k]
  BY <1>0, <1>2, PlacesGrow
<1> HIDE DEF e
<1>5. TypeOK'
  BY <1>0, <1>3 DEF IInv, TypeOK, stream, lifetime
<1>6. /\ RetriesOf(r)' = RetriesOf(r) \cup {n}
      /\ \A q : q # r => RetriesOf(q)' = RetriesOf(q)
  BY <1>0, <1>2, <1>3, <1>4 DEF RetriesOf
<1>7. /\ n \notin RetriesOf(r)
      /\ \A k \in Places("retry") \cup RetriesOf(r) : k \in Nat /\ k <= n /\ ~(n <= k)
  BY <1>3, <1>4 DEF RetriesOf
<1>8. Cardinality(RetriesOf(r)') = Previous(r) + 1
  <2>1. Cardinality(RetriesOf(r) \cup {n}) = Cardinality(RetriesOf(r)) + 1
    BY <1>1, <1>7, FS_AddElement
  <2> QED BY <1>1, <1>6, <2>1
<1>9. LastsExist'
  <2>1. HasLast(Places("retry") \cup {n})
    <3>1. \A k \in Places("retry") \cup {n} : k <= n
      BY <1>3, <1>7
    <3> QED BY <3>1 DEF HasLast
  <2>2. HasLast(RetriesOf(r) \cup {n})
    <3>1. \A k \in RetriesOf(r) \cup {n} : k <= n
      BY <1>3, <1>7
    <3> QED BY <3>1 DEF HasLast
  <2>3. ASSUME NEW q \in Routes
        PROVE  HasLast(RetriesOf(q)')
    BY <1>0, <1>6, <2>2 DEF IInv, LastsExist
  <2> QED BY <1>4, <2>1, <2>3 DEF LastsExist
<1>10. BudgetHolds'
  <2> SUFFICES ASSUME NEW q \in Routes, Mode[q] = "normal"
               PROVE  Cardinality(RetriesOf(q)') <= MaxRetries[q]
    BY DEF BudgetHolds
  <2>1. CASE q = r
    <3>1. Previous(r) < MaxRetries[r] /\ MaxRetries[r] \in Nat
      BY <1>0, <1>1, <2>1, RequestAssumption DEF Exhausted
    <3> QED BY <1>1, <1>8, <2>1, <3>1
  <2>2. CASE q # r
    BY <1>6, <2>2 DEF IInv, BudgetHolds
  <2> QED BY <2>1, <2>2
<1>11. RetryLogIsValid'
  <2>1. ASSUME NEW k \in Places("retry")', NEW q, q = log'[k].route
        PROVE  log'[k].retry = Cardinality({p \in RetriesOf(q)' : p <= k})
    <3>1. CASE k = n
      <4>1. q = r /\ log'[k].retry = Previous(r) + 1
        BY <1>2, <1>3, <2>1, <3>1
      <4>2. {p \in RetriesOf(r)' : p <= n} = RetriesOf(r)'
        BY <1>3, <1>6, <1>7
      <4> QED BY <1>8, <3>1, <4>1, <4>2
    <3>2. CASE k \in Places("retry")
      <4>1. log'[k] = log[k] /\ ~(n <= k)
        BY <1>4, <1>7, <3>2
      <4>2. log[k].retry = Cardinality({p \in RetriesOf(q) : p <= k})
        BY <2>1, <3>2, <4>1 DEF IInv, RetriesAreRecorded, RetryLogIsValid
      <4>3. {p \in RetriesOf(q)' : p <= k} = {p \in RetriesOf(q) : p <= k}
        BY <1>6, <4>1
      <4> QED BY <4>1, <4>2, <4>3
    <3> QED BY <1>4, <3>1, <3>2
  <2>2. ASSUME NEW k \in Places("started")
        PROVE  /\ log'[k].of = Last({p \in Places("retry")' : p < k})
               /\ \A p \in Places("started") : log'[p].of = log'[k].of => p = k
    <3>1. k \in Nat /\ ~(n < k)
      BY <1>3, <1>4
    <3>2. {p \in Places("retry")' : p < k} = {p \in Places("retry") : p < k}
      BY <1>4, <3>1
    <3>3. /\ log[k].of = Last({p \in Places("retry") : p < k})
          /\ \A p \in Places("started") : log[p].of = log[k].of => p = k
      BY DEF IInv, RetriesAreRecorded, RetryLogIsValid
    <3> QED BY <1>4, <3>2, <3>3
  <2> QED BY <1>4, <2>1, <2>2, CountedRetries
<1>12. StartsLookBack'
  BY <1>3, <1>4 DEF IInv, StartsLookBack
<1>13. DownstreamIsAlways' /\ NextIsEarned' /\ AttemptsAreEarned'
  BY <1>0, <1>4 DEF DownstreamIsAlways, NextIsEarned, IInv, RetriesAreRecorded, AttemptsAreEarned
<1>14. ChunksAreCurrent' /\ MessageIsOneAttempt'
  BY <1>0, <1>4 DEF IInv, ChunksAreCurrent, MessageIsOneAttempt
<1> QED BY <1>5, <1>9, <1>10, <1>11, <1>12, <1>13, <1>14 DEF IInv, RetriesAreRecorded

\* The start names the retry that was appended last, which no start names yet.
LEMMA WaitEndsStep ==
    ASSUME IInv, WaitEnds
    PROVE  IInv'
<1> DEFINE n == Len(log) + 1
           last == Last(Places("retry"))
           e == [type |-> "started", of |-> last]
<1>0. /\ TypeOK /\ Append1(e) /\ pc = "waiting" /\ pc' = "decided"
      /\ attempt' = attempt /\ delegated' = delegated
  BY DEF WaitEnds, IInv, Decides, stream
<1>1. last = Len(log) /\ Len(log) \in Nat /\ Len(log) \in Places("retry")
  <2>1. Len(log) \in Nat /\ Places("retry") \in SUBSET Nat
        /\ \A other \in Places("retry") : other <= Len(log)
    BY <1>0, PlacesFinite DEF TypeOK
  <2>2. Len(log) \in Places("retry")
    BY <1>0 DEF IInv, StartsLookBack
  <2>3. last = Len(log)
    BY <2>1, <2>2, LastIsUnique
  <2> QED BY <2>1, <2>2, <2>3
<1>2. e \in Events /\ e.type = "started" /\ e.of = last
  BY <1>1 DEF Events
<1> HIDE DEF e, last
<1>3. n \in Nat /\ log' \in Seq(Events) /\ log'[n] = e
  BY <1>0, <1>2, AppendGrows
<1>4. /\ Places("retry")' = Places("retry")
      /\ Places("started")' = Places("started") \cup {n}
      /\ Places("chunk")' = Places("chunk") /\ Places("message")' = Places("message")
      /\ \A type : \A k \in Places(type) : k \in Nat /\ k <= Len(log) /\ log'[k] = log[k]
  BY <1>0, <1>2, PlacesGrow
<1>5. \A r : RetriesOf(r)' = RetriesOf(r)
  BY <1>0, <1>2, RetriesKept
<1>6. TypeOK'
  BY <1>0, <1>3 DEF WaitEnds, Decides, IInv, TypeOK, stream, lifetime
<1>7. LastsExist' /\ BudgetHolds'
  BY <1>4, <1>5 DEF IInv, LastsExist, BudgetHolds
<1>8. RetryLogIsValid'
  <2>1. ASSUME NEW k \in Places("retry"), NEW q, q = log'[k].route
        PROVE  log'[k].retry = Cardinality({p \in RetriesOf(q)' : p <= k})
    <3>1. log'[k] = log[k] /\ RetriesOf(q)' = RetriesOf(q)
      BY <1>4, <1>5
    <3>2. log[k].retry = Cardinality({p \in RetriesOf(q) : p <= k})
      BY <2>1, <3>1 DEF IInv, RetriesAreRecorded, RetryLogIsValid
    <3> QED BY <3>1, <3>2
  <2>2. log'[n].of = Last({p \in Places("retry") : p < n})
    <3>1. {p \in Places("retry") : p < n} = Places("retry")
      BY <1>1, <1>4
    <3> QED BY <1>2, <1>3, <3>1 DEF last
  <2>3. ASSUME NEW k \in Places("started")
        PROVE  /\ log'[k] = log[k] /\ log[k].of # last
               /\ log[k].of = Last({p \in Places("retry") : p < k})
               /\ \A p \in Places("started") : log[p].of = log[k].of => p = k
    <3>1. k \in Nat /\ k <= Len(log) /\ log'[k] = log[k] /\ log[k].of < k
      BY <1>4 DEF IInv, StartsLookBack
    <3>2. log[k].of \in Nat
      BY <1>0 DEF TypeOK, Places, Events
    <3>3. log[k].of # last
      BY <1>1, <3>1, <3>2
    <3> QED BY <3>1, <3>3 DEF IInv, RetriesAreRecorded, RetryLogIsValid
  <2>4. ASSUME NEW k \in Places("started")', NEW p \in Places("started")',
               log'[p].of = log'[k].of
        PROVE  p = k
    BY <1>2, <1>3, <1>4, <2>3, <2>4
  <2>5. ASSUME NEW k \in Places("started")'
        PROVE  log'[k].of = Last({p \in Places("retry")' : p < k})
    BY <1>4, <2>2, <2>3
  <2> QED BY <1>4, <2>1, <2>4, <2>5, CountedRetries
<1>9. StartsLookBack'
  BY <1>0, <1>1, <1>2, <1>3, <1>4 DEF IInv, StartsLookBack
<1>10. NextIsEarned' /\ AttemptsAreEarned' /\ DownstreamIsAlways'
  <2>1. IsFiniteSet(Places("started")) /\ Cardinality(Places("started")) \in Nat
    BY <1>0, PlacesFinite, FS_CardinalityType
  <2>2. n \notin Places("started")
    BY <1>1, <1>4
  <2>3. Cardinality(Places("started")') = Cardinality(Places("started")) + 1
    BY <1>4, <2>1, <2>2, FS_AddElement
  <2>4. attempt <= 1 + Cardinality(Places("started")) + delegated
    BY DEF IInv, RetriesAreRecorded, AttemptsAreEarned
  <2> QED BY <1>0, <2>1, <2>3, <2>4 DEF TypeOK, NextIsEarned, AttemptsAreEarned,
                                       DownstreamIsAlways
<1>11. ChunksAreCurrent' /\ MessageIsOneAttempt'
  BY <1>0, <1>4 DEF IInv, ChunksAreCurrent, MessageIsOneAttempt
<1> QED BY <1>6, <1>7, <1>8, <1>9, <1>10, <1>11 DEF IInv, RetriesAreRecorded

\* Schedules, in either of its two callers: the signal is looked at first.
LEMMA SchedulesStep ==
    ASSUME IInv, Schedules, ~Exhausted(route), pc \in {"captured", "downstream"},
           UNCHANGED <<stream, aborted, lifetime, delegated>>
    PROVE  IInv'
<1>0. TypeOK
  BY DEF IInv
<1>1. CASE Decides("none") /\ log' = log
  <2>1. TypeOK' /\ pc' = "decided" /\ NextIsEarned' /\ UNCHANGED <<attempt, chunkSeqs, delegated>>
    BY <1>0, <1>1 DEF Decides, TypeOK, NextIsEarned, stream, lifetime
  <2> QED BY <1>1, <2>1, QuietStep
<1>2. CASE ~(Decides("none") /\ log' = log)
  <2>1. PICK r \in Routes : r = route
    BY <1>0 DEF TypeOK
  <2>2. /\ Append1([type |-> "retry", route |-> r, retry |-> Previous(r) + 1])
        /\ pc' = "waiting" /\ active' = TRUE /\ decision' = decision
        /\ pc # "completed" /\ ~Exhausted(r)
    BY <1>2, <2>1 DEF Schedules
  <2>3. active' \in BOOLEAN /\ UNCHANGED <<stream, aborted, lifetime, decision, delegated>>
    BY <2>2
  <2> QED BY <2>1, <2>2, <2>3, ScheduleStep
<1> QED BY <1>1, <1>2

\* Every step of a recovery keeps the invariant.
LEMMA RecoveryStep ==
    ASSUME IInv, Recovery
    PROVE  IInv'
<1>0. TypeOK
  BY DEF IInv
<1>1. CASE FailsClosed \/ HandsOver \/ AsksDownstream \/ WaitCancelled
  <2>1. /\ log' = log /\ UNCHANGED <<attempt, chunkSeqs, delegated>>
        /\ pc' \in {"decided", "delegate", "downstream"} /\ pc \in {"captured", "waiting"}
        /\ pc' = "downstream" => Mode[route'] = "always"
        /\ pc' = "decided" => decision' = "none"
    BY <1>1 DEF FailsClosed, HandsOver, AsksDownstream, WaitCancelled, Decides, stream
  <2>2. TypeOK'
    BY <1>0, <1>1 DEF TypeOK, FailsClosed, HandsOver, AsksDownstream, WaitCancelled,
                      Decides, stream, lifetime
  <2>3. NextIsEarned'
    BY <2>1 DEF NextIsEarned
  <2> QED BY <2>1, <2>2, <2>3, QuietStep
<1>2. CASE RecoversNormal
  BY <1>2, SchedulesStep DEF RecoversNormal
<1>3. CASE DownstreamSettles /\ Schedules /\ delegated' = delegated
  <2>1. Mode[route] = "always" /\ pc = "downstream"
    BY <1>3 DEF DownstreamSettles, IInv, DownstreamIsAlways
  <2>2. ~Exhausted(route)
    BY <2>1 DEF Exhausted
  <2> QED BY <1>3, <2>1, <2>2, SchedulesStep DEF DownstreamSettles
<1>4. CASE DelegateSettles \/ (DownstreamSettles /\ ~(Schedules /\ delegated' = delegated))
  <2>1. /\ log' = log /\ UNCHANGED <<stream, aborted, lifetime>>
        /\ pc \in {"delegate", "downstream"}
        /\ \/ Decides("none") /\ delegated' = delegated
           \/ Decides("retry") /\ delegated' = delegated + 1
    BY <1>4 DEF DelegateSettles, DownstreamSettles
  <2>2. /\ pc' = "decided" /\ active' = FALSE /\ decision' \in {"none", "retry"}
        /\ delegated' \in {delegated, delegated + 1}
        /\ UNCHANGED <<route, attempt, chunkSeqs, aborted, plugin, captured, reloads>>
    BY <2>1 DEF Decides, stream, lifetime
  <2>3. TypeOK'
    <3>1. delegated' \in Nat /\ log' = log
      BY <1>0, <2>1 DEF TypeOK
    <3> QED BY <1>0, <2>2, <3>1 DEF TypeOK
  <2>4. NextIsEarned'
    <3>1. decision' = "retry" => delegated' = delegated + 1
      BY <2>1 DEF Decides
    <3>2. /\ attempt <= 1 + Cardinality(Places("started")) + delegated
          /\ Places("started")' = Places("started")
          /\ Cardinality(Places("started")) \in Nat
      BY <1>0, <2>1, LogKept, PlacesFinite, FS_CardinalityType
         DEF IInv, RetriesAreRecorded, AttemptsAreEarned
    <3> QED BY <1>0, <2>1, <2>2, <3>1, <3>2 DEF NextIsEarned, TypeOK
  <2> QED BY <2>1, <2>2, <2>3, <2>4, QuietStep
<1>5. CASE WaitEnds
  BY <1>5, WaitEndsStep
<1> QED BY <1>1, <1>2, <1>3, <1>4, <1>5 DEF Recovery

\* The rest: the loop turns or ends, and the outside.
LEMMA OtherStep ==
    ASSUME IInv, StreamFails \/ Decided \/ Aborts \/ Abort \/ Dispose \/ Drained \/ Mount
                   \/ UNCHANGED vars
    PROVE  IInv'
<1>0. TypeOK
  BY DEF IInv
<1>1. /\ log' = log /\ UNCHANGED <<attempt, chunkSeqs, delegated, route>>
      /\ pc' = pc \/ pc' \notin {"stream", "waiting", "completed", "downstream"}
      /\ pc = "completed" => pc' = pc
      /\ pc' # pc /\ pc' = "build" => pc = "decided" /\ decision = "retry"
      /\ pc' # pc => pc' # "decided"
      /\ pc' = pc => decision' = decision
  BY DEF StreamFails, Decided, Aborts, Abort, Dispose, Drained, Mount, vars, stream, Over
<1>2. TypeOK'
  <2>1. CASE StreamFails \/ Decided \/ Aborts
    BY <1>0, <1>1, <2>1 DEF TypeOK, StreamFails, Decided, Aborts, lifetime
  <2>2. CASE Abort \/ UNCHANGED vars
    BY <1>0, <1>1, <2>2 DEF TypeOK, Abort, vars, lifetime
  <2>3. CASE Dispose \/ Drained \/ Mount
    BY <1>0, <1>1, <2>3 DEF TypeOK, Dispose, Drained, Mount
  <2> QED BY <2>1, <2>2, <2>3
<1>3. NextIsEarned'
  <2>1. Places("started")' = Places("started")
    BY <1>1, LogKept
  <2> QED BY <1>1, <2>1 DEF IInv, NextIsEarned
<1>4. pc' = "downstream" => Mode[route'] = "always"
  BY <1>1 DEF IInv, DownstreamIsAlways
<1> QED BY <1>1, <1>2, <1>3, <1>4, QuietStep

\* The invariant holds at the start.
LEMMA Initially == Init => IInv
<1> SUFFICES ASSUME Init PROVE IInv
  OBVIOUS
<1>1. TypeOK
  <2>1. log \in Seq(Events) /\ route \in Routes
    BY DEF Init
  <2> QED BY <2>1 DEF Init, TypeOK
<1>2. /\ \A type : Places(type) = {}
      /\ \A r : RetriesOf(r) = {}
  BY DEF Init, Places, RetriesOf
<1>3. Cardinality({}) = 0
  BY FS_EmptySet
<1>4. LastsExist /\ StartsLookBack /\ DownstreamIsAlways /\ ChunksAreCurrent /\ MessageIsOneAttempt
  BY <1>2 DEF Init, LastsExist, HasLast, StartsLookBack, DownstreamIsAlways, ChunksAreCurrent,
              MessageIsOneAttempt
<1>5. NextIsEarned /\ AttemptsAreEarned
  BY <1>2, <1>3 DEF Init, NextIsEarned, AttemptsAreEarned
<1>6. RetryLogIsValid
  BY <1>2 DEF RetryLogIsValid
<1>7. BudgetHolds
  BY <1>2, <1>3, RequestAssumption DEF BudgetHolds
<1> QED BY <1>1, <1>4, <1>5, <1>6, <1>7 DEF IInv, RetriesAreRecorded

\* Every step keeps the invariant.
LEMMA StepKeepsInvariant == IInv /\ [Next]_vars => IInv'
BY BuildRequestStep, ChunkStep, StreamCompletesStep, RecoveryStep, OtherStep DEF Next

-----------------------------------------------------------------------------
(* The results. *)

\* The invariant holds throughout.
LEMMA Invariance == Spec => []IInv
BY Initially, StepKeepsInvariant, PTL DEF Spec

\* The variables of a step keep their types.
THEOREM RequestIsTyped == Spec => []TypeOK
<1>1. IInv => TypeOK
  BY DEF IInv
<1> QED BY <1>1, Invariance, PTL

\* backoff records no retry of a finite policy beyond its maxRetries, whatever
\* routes serve the attempts and however often the plugin is mounted again.
THEOREM FiniteBudgetHolds == Spec => []BudgetHolds
<1>1. IInv => BudgetHolds
  BY DEF IInv
<1> QED BY <1>1, Invariance, PTL

\* The log accounts for every request that step() makes again.
THEOREM RecordIsComplete == Spec => []RetriesAreRecorded
<1>1. IInv => RetriesAreRecorded
  BY DEF IInv
<1> QED BY <1>1, Invariance, PTL

\* step() builds the message of exactly the chunks of the attempt that completed.
THEOREM MessageHasItsChunks == Spec => []MessageIsOneAttempt
<1>1. IInv => MessageIsOneAttempt
  BY DEF IInv
<1> QED BY <1>1, Invariance, PTL
=============================================================================
