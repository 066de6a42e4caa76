------------------------- MODULE RequestHandlerProofs -------------------------
(***************************************************************************)
(* For every configuration, every set of clients and every timeout: a      *)
(* session lasts as long as its client comes back in time, is its          *)
(* client's alone, and is gone some time after nobody uses it any more.    *)
(***************************************************************************)
EXTENDS RequestHandler, Numbers, SequenceTheorems, TLAPS

-----------------------------------------------------------------------------
\* Ids are drawn in order: by now, and from the generator as far as it is.
Drawn(id) == id[1] < seeded \/ (id[1] = seeded /\ id[2] < drawn)
Fresh == /\ seeded <= now
         /\ \A c \in Clients : jar[c].id # NoId => Drawn(jar[c].id)
         /\ \A id \in DOMAIN sessions : Drawn(id)

\* The session of a client that came back in time is as young as its last visit.
Young == \A c \in Clients :
  /\ jar[c].id # NoId /\ ~jar[c].lapsed
  /\ now - jar[c].visited <= SessionTimeout
  => jar[c].id \in DOMAIN sessions /\ sessions[jar[c].id] >= jar[c].visited

\* The last cleanup left no session that had expired by then.
Swept == /\ lastCleanup <= now
         /\ \A id \in DOMAIN sessions : lastCleanup - sessions[id] <= SessionTimeout

Inv == TypeOK /\ Fresh /\ NoSharing /\ Young /\ Swept

\* The initial state satisfies the invariant: there is no session.
LEMMA InitInv == Init => Inv
<1> SUFFICES ASSUME Init PROVE Inv
  OBVIOUS
<1> USE TimesAssumption DEF Init
<1>1. DOMAIN sessions = {}
  OBVIOUS
<1>2. NoCookie \in Cookie /\ NoCookie.id = NoId
  BY DEF NoCookie, Cookie
<1>3. TypeOK
  BY <1>1, <1>2 DEF TypeOK
<1>4. Fresh /\ NoSharing /\ Young
  BY <1>2 DEF Fresh, NoSharing, Young
<1>5. Swept
  BY <1>1 DEF Swept
<1> QED BY <1>3, <1>4, <1>5 DEF Inv

\* The next id was given to nobody.
LEMMA NextIdFresh ==
  ASSUME Inv, NextId \in Ids
  PROVE  /\ NextId # NoId
         /\ \A c \in Clients : jar[c].id # NextId
         /\ NextId \notin DOMAIN sessions
         /\ NextId[1] = now /\ NextId[2] \in 0..(MaxPerSecond - 1)
<1> USE TimesAssumption DEF Inv
<1>1. NextId[1] \in 0..MaxTime /\ NextId[2] \in 0..(MaxPerSecond - 1)
  BY DEF Ids
<1>2. NextId # NoId
  BY <1>1 DEF NoId
<1>3. NextId[1] = now
  BY DEF NextId
<1>4. ASSUME NEW c \in Clients, jar[c].id = NextId PROVE FALSE
  BY <1>2, <1>4 DEF Fresh, Drawn, NextId, TypeOK
<1>5. ~Drawn(NextId)
  BY DEF Fresh, Drawn, NextId, TypeOK
<1> QED BY <1>1, <1>2, <1>3, <1>4, <1>5 DEF Fresh

\* A cleanup takes away nothing but expired sessions, and all of those.
LEMMA KeptFacts ==
  ASSUME Inv
  PROVE  /\ DOMAIN Kept \subseteq DOMAIN sessions
         /\ \A id \in DOMAIN Kept : Kept[id] = sessions[id]
         /\ \A id \in DOMAIN sessions : now - sessions[id] <= SessionTimeout => id \in DOMAIN Kept
         /\ \A id \in DOMAIN Kept :
              (IF CleanupDue THEN now ELSE lastCleanup) - sessions[id] <= SessionTimeout
<1>1. CASE CleanupDue
  <2>1. Kept = [id \in {x \in DOMAIN sessions : ~IsExpired(sessions[x])} |-> sessions[id]]
    BY <1>1 DEF Kept
  <2>2. \A id \in DOMAIN sessions : ~IsExpired(sessions[id]) <=> now - sessions[id] <= SessionTimeout
    BY TimesAssumption DEF IsExpired, Inv, TypeOK
  <2> QED BY <1>1, <2>1, <2>2
<1>2. CASE ~CleanupDue
  BY <1>2 DEF Kept, Inv, Swept
<1> QED BY <1>1, <1>2

-----------------------------------------------------------------------------
\* A new session is nobody else's, and its client's cookie is as young as it.
LEMMA NewcomerStep ==
  ASSUME Inv, NEW c \in Clients, NEW p \in Paths, NEW method \in Methods,
         HandleNewcomer(c, p, method)
  PROVE  Inv'
<1> USE TimesAssumption
<1> DEFINE new == [id |-> NextId, since |-> now, visited |-> now, lapsed |-> FALSE]
<1>1. /\ NextId \in Ids /\ seeded' = now /\ drawn' = NextId[2] + 1 /\ now' = now
      /\ sessions' = Created(Kept, NextId)
      /\ lastCleanup' = IF CleanupDue THEN now ELSE lastCleanup
      /\ jar' = jar \/ jar' = [jar EXCEPT ![c] = new]
  BY DEF HandleNewcomer
<1>2. /\ NextId # NoId /\ NextId \notin DOMAIN sessions
      /\ \A d \in Clients : jar[d].id # NextId
      /\ NextId[1] = now /\ NextId[2] \in 0..(MaxPerSecond - 1)
  BY <1>1, NextIdFresh
<1>3. /\ DOMAIN sessions' = DOMAIN Kept \cup {NextId}
      /\ \A id \in DOMAIN sessions' : sessions'[id] = IF id \in DOMAIN Kept THEN Kept[id] ELSE now
  BY <1>1 DEF Created
<1>4. new \in Cookie /\ new.id = NextId /\ new.visited = now
  BY <1>1 DEF Cookie, Inv, TypeOK
<1> HIDE DEF new
<1>5. \A d \in Clients : jar'[d] = jar[d] \/ (d = c /\ jar'[d] = new)
  BY <1>1 DEF Inv, TypeOK
<1> DEFINE Advances == \A id \in Ids : Drawn(id) => Drawn(id)'
<1>11. Advances
  <2> SUFFICES ASSUME NEW id \in Ids, Drawn(id) PROVE Drawn(id)'
    OBVIOUS
  <2>1. id[1] \in Int /\ id[2] \in Int
    BY DEF Ids
  <2>2. seeded < now \/ (seeded = now /\ NextId[2] = drawn)
    BY <1>2 DEF Inv, Fresh, TypeOK, NextId
  <2> QED BY <1>1, <2>1, <2>2 DEF Drawn, Inv, TypeOK
<1>6. TypeOK'
  <2>1. now' \in 0..MaxTime /\ lastCleanup' \in -(CleanupPeriod + 1)..MaxTime
    BY <1>1 DEF Inv, TypeOK
  <2>2. seeded' \in -1..MaxTime /\ drawn' \in 0..MaxPerSecond
    BY <1>1, <1>2 DEF Inv, TypeOK
  <2>3. DOMAIN sessions' \subseteq Ids
    BY <1>1, <1>3, KeptFacts DEF Inv, TypeOK
  <2>4. \A id \in DOMAIN sessions' : sessions'[id] \in 0..MaxTime
    BY <1>3, KeptFacts DEF Inv, TypeOK
  <2>5. jar' \in [Clients -> Cookie]
    BY <1>1, <1>4 DEF Inv, TypeOK
  <2> QED BY <2>1, <2>2, <2>3, <2>4, <2>5 DEF TypeOK
<1>7. Fresh'
  <2>1. seeded' <= now'
    BY <1>1 DEF Inv, TypeOK
  <2>2. ASSUME NEW d \in Clients, jar'[d].id # NoId PROVE Drawn(jar[d].id)'
    <3>1. CASE jar'[d] = new
      BY <1>1, <1>2, <1>4, <3>1 DEF Drawn
    <3>2. CASE jar'[d] = jar[d]
      <4>1. jar[d].id \in Ids /\ Drawn(jar[d].id)
        BY <2>2, <3>2 DEF Inv, Fresh, TypeOK, Cookie
      <4> QED BY <3>2, <4>1, <1>11
    <3> QED BY <1>5, <3>1, <3>2
  <2>3. ASSUME NEW id \in DOMAIN sessions' PROVE Drawn(id)'
    <3>1. CASE id = NextId
      BY <1>1, <1>2, <3>1 DEF Drawn
    <3>2. CASE id \in DOMAIN sessions
      BY <3>2, <1>11 DEF Inv, Fresh, TypeOK
    <3>3. id = NextId \/ id \in DOMAIN Kept
      BY <1>3
    <3>4. id \in DOMAIN Kept => id \in DOMAIN sessions
      BY KeptFacts
    <3> QED BY <3>1, <3>2, <3>3, <3>4
  <2> QED BY <2>1, <2>2, <2>3 DEF Fresh
<1>8. NoSharing'
  BY <1>2, <1>4, <1>5 DEF Inv, NoSharing
<1>9. Young'
  <2> SUFFICES ASSUME NEW d \in Clients, jar'[d].id # NoId, ~jar'[d].lapsed,
                      now - jar'[d].visited <= SessionTimeout
               PROVE  /\ jar'[d].id \in DOMAIN sessions'
                      /\ sessions'[jar'[d].id] >= jar'[d].visited
    BY <1>1 DEF Young
  <2>1. CASE jar'[d] = new
    <3>1. NextId \notin DOMAIN Kept
      BY <1>2, KeptFacts
    <3> QED BY <1>3, <1>4, <2>1, <3>1 DEF Inv, TypeOK
  <2>2. CASE jar'[d] = jar[d]
    <3>1. jar[d].id \in DOMAIN sessions /\ sessions[jar[d].id] >= jar[d].visited
      BY <2>2 DEF Inv, Young
    <3>2. now - sessions[jar[d].id] <= SessionTimeout
      BY <2>2, <3>1 DEF Inv, TypeOK, Cookie
    <3>3. jar[d].id \in DOMAIN Kept /\ Kept[jar[d].id] = sessions[jar[d].id]
      BY <3>1, <3>2, KeptFacts
    <3> QED BY <1>3, <2>2, <3>1, <3>3
  <2> QED BY <1>5, <2>1, <2>2
<1>10. Swept'
  BY <1>1, <1>3, KeptFacts DEF Swept, Inv, TypeOK
<1> QED BY <1>6, <1>7, <1>8, <1>9, <1>10 DEF Inv

\* A visit makes the session as young as the visit, if there still is one.
LEMMA VisitorStep ==
  ASSUME Inv, NEW c \in Clients, NEW p \in Paths, NEW method \in Methods,
         HandleVisitor(c, p, method)
  PROVE  Inv'
<1> USE TimesAssumption
<1> DEFINE visit == [jar[c] EXCEPT !.visited = now,
                                   !.lapsed = @ \/ now - jar[c].visited > SessionTimeout]
<1>1. /\ now' = now /\ seeded' = seeded /\ drawn' = drawn
      /\ sessions' = Updated(Kept, jar[c].id)
      /\ lastCleanup' = IF CleanupDue THEN now ELSE lastCleanup
      /\ jar' = [jar EXCEPT ![c] = visit]
  BY DEF HandleVisitor, Sends, Inv, TypeOK
<1>2. /\ DOMAIN sessions' = DOMAIN Kept
      /\ \A id \in DOMAIN Kept : sessions'[id] = IF id = jar[c].id THEN now ELSE Kept[id]
  BY <1>1 DEF Updated
<1>3. /\ visit \in Cookie /\ visit.id = jar[c].id /\ visit.visited = now
      /\ visit.lapsed = (jar[c].lapsed \/ now - jar[c].visited > SessionTimeout)
  <2>1. jar[c] \in Cookie /\ now \in 0..MaxTime
    BY DEF Inv, TypeOK
  <2> QED BY <2>1 DEF Cookie
<1> HIDE DEF visit
<1>4. \A d \in Clients : jar'[d] = IF d = c THEN visit ELSE jar[d]
  BY <1>1 DEF Inv, TypeOK
<1>5. TypeOK'
  <2>1. now' \in 0..MaxTime /\ lastCleanup' \in -(CleanupPeriod + 1)..MaxTime
    BY <1>1 DEF Inv, TypeOK
  <2>2. seeded' \in -1..MaxTime /\ drawn' \in 0..MaxPerSecond
    BY <1>1 DEF Inv, TypeOK
  <2>3. DOMAIN sessions' \subseteq Ids
    BY <1>2, KeptFacts DEF Inv, TypeOK
  <2>4. \A id \in DOMAIN sessions' : sessions'[id] \in 0..MaxTime
    BY <1>2, KeptFacts DEF Inv, TypeOK
  <2>5. jar' \in [Clients -> Cookie]
    BY <1>1, <1>3 DEF Inv, TypeOK
  <2> QED BY <2>1, <2>2, <2>3, <2>4, <2>5 DEF TypeOK
<1>6. \A d \in Clients : jar'[d].id = jar[d].id
  BY <1>3, <1>4
<1>7. Fresh'
  <2>1. \A d \in Clients : jar'[d].id # NoId => Drawn(jar'[d].id)
    BY <1>6 DEF Inv, Fresh
  <2>2. \A id \in DOMAIN sessions' : Drawn(id)
    BY <1>2, KeptFacts DEF Inv, Fresh
  <2> QED BY <1>1, <2>1, <2>2 DEF Inv, Fresh, Drawn
<1>8. NoSharing'
  BY <1>6 DEF Inv, NoSharing
<1>9. Young'
  <2> SUFFICES ASSUME NEW d \in Clients, jar'[d].id # NoId, ~jar'[d].lapsed,
                      now - jar'[d].visited <= SessionTimeout
               PROVE  /\ jar'[d].id \in DOMAIN sessions'
                      /\ sessions'[jar'[d].id] >= jar'[d].visited
    BY <1>1 DEF Young
  <2>1. /\ ~jar[d].lapsed /\ now - jar[d].visited <= SessionTimeout /\ jar[d].id # NoId
    BY <1>3, <1>4, <1>6 DEF Inv, TypeOK, Cookie
  <2>2. jar[d].id \in DOMAIN sessions /\ sessions[jar[d].id] >= jar[d].visited
    BY <2>1 DEF Inv, Young
  <2>3. now - sessions[jar[d].id] <= SessionTimeout
    BY <2>1, <2>2 DEF Inv, TypeOK, Cookie
  <2>4. jar[d].id \in DOMAIN Kept /\ Kept[jar[d].id] = sessions[jar[d].id]
    BY <2>2, <2>3, KeptFacts
  <2>5. CASE d = c
    BY <1>2, <1>3, <1>4, <2>4, <2>5 DEF Inv, TypeOK
  <2>6. CASE d # c
    <3>1. jar[d].id # jar[c].id
      BY <2>1, <2>6 DEF Inv, NoSharing
    <3> QED BY <1>2, <1>4, <2>2, <2>4, <2>6, <3>1
  <2> QED BY <2>5, <2>6
<1>10. Swept'
  BY <1>1, <1>2, KeptFacts DEF Swept, Inv, TypeOK
<1> QED BY <1>5, <1>7, <1>8, <1>9, <1>10 DEF Inv

\* Time alone makes no session younger and no pause shorter.
LEMMA TickStep ==
  ASSUME Inv, Tick
  PROVE  Inv'
<1> USE TimesAssumption DEF Tick
<1>1. TypeOK'
  BY DEF Inv, TypeOK
<1>2. Fresh' /\ NoSharing'
  BY DEF Inv, Fresh, NoSharing, Drawn, TypeOK
<1>0. now' = now + 1 /\ sessions' = sessions /\ jar' = jar
  OBVIOUS
<1>3. Young'
  <2> SUFFICES ASSUME NEW d \in Clients, jar'[d].id # NoId, ~jar'[d].lapsed,
                      now' - jar'[d].visited <= SessionTimeout
               PROVE  /\ jar'[d].id \in DOMAIN sessions'
                      /\ sessions'[jar'[d].id] >= jar'[d].visited
    BY DEF Young
  <2>1. jar[d].id # NoId /\ ~jar[d].lapsed /\ now - jar[d].visited <= SessionTimeout
    BY <1>0 DEF Inv, TypeOK, Cookie
  <2>2. jar[d].id \in DOMAIN sessions /\ sessions[jar[d].id] >= jar[d].visited
    BY <2>1 DEF Inv, Young
  <2> QED BY ONLY <1>0, <2>2
<1>4. Swept'
  BY DEF Inv, Swept, TypeOK
<1> QED BY <1>1, <1>2, <1>3, <1>4 DEF Inv

\* Every step keeps the invariant.
LEMMA InvStep == Inv /\ [Next]_vars => Inv'
<1> SUFFICES ASSUME Inv, [Next]_vars PROVE Inv'
  OBVIOUS
<1>1. ASSUME NEW c \in Clients, NEW p \in Paths, NEW method \in Methods,
             HandleNewcomer(c, p, method) PROVE Inv'
  BY <1>1, NewcomerStep
<1>2. ASSUME NEW c \in Clients, NEW p \in Paths, NEW method \in Methods,
             HandleVisitor(c, p, method) PROVE Inv'
  BY <1>2, VisitorStep
<1>3. CASE Tick
  BY <1>3, TickStep
<1>4. CASE UNCHANGED vars
  BY <1>4 DEF Inv, TypeOK, Fresh, Drawn, NoSharing, Young, Swept, vars
<1> QED BY <1>1, <1>2, <1>3, <1>4 DEF Next, HandleRefused

\* The invariant always holds.
LEMMA Invariance == Spec => []Inv
BY InitInv, InvStep, PTL DEF Spec

-----------------------------------------------------------------------------
\* Every variable keeps its type.
THEOREM TypeCorrect == Spec => []TypeOK
BY Invariance, PTL DEF Inv

\* No two clients ever hold the same session.
THEOREM NeverShared == Spec => []NoSharing
BY Invariance, PTL DEF Inv

\* A client that comes back in time keeps its session.
THEOREM SessionsKept == Spec => []SessionKept
<1>1. Inv => SessionKept
  BY DEF Inv, Young, SessionKept, Sends
<1> QED BY Invariance, <1>1, PTL

\* When a request touches the sessions, none is older than the timeout and the
\* time between two cleanups.
THEOREM GarbageStaysBounded == Spec => GarbageBounded
<1>1. Inv /\ Inv' /\ [Next]_vars /\ sessions' # sessions =>
        \A id \in DOMAIN sessions' : now - sessions'[id] <= SessionTimeout + CleanupPeriod
  <2> SUFFICES ASSUME Inv, Inv', [Next]_vars, sessions' # sessions, NEW id \in DOMAIN sessions'
               PROVE  now - sessions'[id] <= SessionTimeout + CleanupPeriod
    OBVIOUS
  <2>1. lastCleanup' = IF CleanupDue THEN now ELSE lastCleanup
    BY DEF Next, HandleRefused, HandleNewcomer, HandleVisitor, Tick, vars
  <2> DEFINE age == sessions'[id]
             last == lastCleanup'
  <2>2. now - last <= CleanupPeriod
    BY <2>1, TimesAssumption DEF CleanupDue, Inv, TypeOK
  <2>3. last - age <= SessionTimeout
    BY DEF Inv, Swept
  <2>4. TypeOK /\ TypeOK'
    BY DEF Inv
  <2>5. age \in Int
    BY <2>4 DEF TypeOK
  <2>6. last \in Int /\ now \in Int
    BY <2>4, TimesAssumption DEF TypeOK
  <2> HIDE DEF age, last
  <2>7. now - age <= SessionTimeout + CleanupPeriod
    BY <2>2, <2>3, <2>5, <2>6, TimesAssumption
  <2> QED BY <2>7 DEF age
<1> QED BY Invariance, <1>1, PTL DEF Spec, GarbageBounded


-----------------------------------------------------------------------------
(* Routing.  What the loop over the blocks leaves in prefixMatch is a        *)
(* function over its rounds.                                                 *)

Round(L, p, f, i) ==
  IF i = 0 THEN 0
  ELSE IF Prefix(L, i, p, IF f[i - 1] = 0 THEN 0 ELSE Len(L[f[i - 1]].path)) THEN i ELSE f[i - 1]
Scans(L, p, f, n) == f = [i \in 0..n |-> Round(L, p, f, i)]

\* There is such a function.
LEMMA ScanExists ==
  ASSUME NEW L, NEW p, NEW n \in Nat
  PROVE  \E f : Scans(L, p, f, n)
<1> DEFINE next(i, b) == IF Prefix(L, i, p, IF b = 0 THEN 0 ELSE Len(L[b].path)) THEN i ELSE b
           G == [x \in (1..n) \X (0..n) |-> next(x[1], x[2])]
<1>1. \A i \in 1..n : \A b \in 0..n : G[<<i, b>>] = next(i, b) /\ next(i, b) \in 0..n
  OBVIOUS
<1> HIDE DEF G
<1>2. StepsIn(G, n, 0..n)
  BY <1>1 DEF StepsIn
<1>3. PICK f : Made(f, 0, G, n, 0..n)
  <2>1. 0 \in 0..n
    OBVIOUS
  <2> HIDE DEF next
  <2> QED BY <1>2, <2>1, RecursionExists
<1>4. \A i \in 1..n : f[i] = Round(L, p, f, i)
  <2> TAKE i \in 1..n
  <2>1. f[i - 1] \in 0..n /\ i # 0
    BY <1>3 DEF Made
  <2> QED BY <1>1, <1>3, <2>1 DEF Round, Made
<1>5. f[0] = Round(L, p, f, 0)
  BY <1>3 DEF Round, Made
<1> QED BY <1>3, <1>4, <1>5 DEF Scans, Made

\* The blocks among the first n that begin the path, and which of two is to be
\* preferred.
Begins(L, p, n) == {i \in DOMAIN L : i <= n /\ ~L[i].pattern /\ IsPrefix(L[i].path, p)}
Before(L, i, j) == \/ Len(L[i].path) > Len(L[j].path)
                   \/ Len(L[i].path) = Len(L[j].path) /\ i <= j
BestOf(L, p, n, b) ==
  IF Begins(L, p, n) = {} THEN b = 0
  ELSE b \in Begins(L, p, n) /\ \A j \in Begins(L, p, n) : Before(L, b, j)

WellFormed(L) == L \in Seq(Location) /\ \A i \in DOMAIN L : ~L[i].pattern => L[i].path # <<>>

\* Paths are sequences of names.
LEMMA PathsType ==
  ASSUME NEW L, WellFormed(L)
  PROVE  \A j \in DOMAIN L : L[j].path \in Seq(STRING) /\ Len(L[j].path) \in Nat /\ j \in Nat
<1> SUFFICES ASSUME NEW j \in DOMAIN L
             PROVE  L[j].path \in Seq(STRING) /\ Len(L[j].path) \in Nat /\ j \in Nat
  OBVIOUS
<1>1. L[j] \in Location /\ j \in Nat
  <2> HIDE DEF Location
  <2> QED BY DEF WellFormed
<1>2. L[j].path \in Seq(STRING)
  BY <1>1 DEF Location
<1> QED BY <1>1, <1>2

\* A round keeps the best block so far.
LEMMA RoundKeepsBest ==
  ASSUME NEW L, WellFormed(L), NEW p, NEW f, NEW i \in 1..Len(L), BestOf(L, p, i - 1, f[i - 1])
  PROVE  BestOf(L, p, i, Round(L, p, f, i))
<1> DEFINE b == f[i - 1]
           len == IF b = 0 THEN 0 ELSE Len(L[b].path)
<1>1. \A j \in DOMAIN L : L[j].path \in Seq(STRING) /\ Len(L[j].path) \in Nat
  BY PathsType
<1>2. i \in DOMAIN L /\ DOMAIN L \subseteq Nat /\ 0 \notin DOMAIN L
  BY DEF WellFormed
<1>3. ~L[i].pattern => Len(L[i].path) > 0
  BY <1>1, <1>2 DEF WellFormed
<1>4. CASE ~L[i].pattern /\ IsPrefix(L[i].path, p)
  <2>1. Begins(L, p, i) = Begins(L, p, i - 1) \cup {i}
    BY <1>2, <1>4 DEF Begins
  <2>2. Prefix(L, i, p, len) <=> Len(L[i].path) > len
    BY <1>4 DEF Prefix, Longer
  <2>3. CASE Begins(L, p, i - 1) = {}
    <3>1. b = 0 /\ Round(L, p, f, i) = i
      BY <1>2, <1>3, <1>4, <2>2, <2>3 DEF BestOf, Round
    <3> QED BY <1>1, <1>2, <2>1, <2>3, <3>1 DEF BestOf, Before
  <2>4. CASE Begins(L, p, i - 1) # {}
    <3>1. /\ b \in Begins(L, p, i - 1) /\ \A j \in Begins(L, p, i - 1) : Before(L, b, j)
          /\ b \in DOMAIN L /\ b < i /\ b # 0 /\ len = Len(L[b].path)
      BY <1>2, <2>4 DEF BestOf, Begins
    <3>2. \A j \in Begins(L, p, i - 1) : j \in DOMAIN L
      BY DEF Begins
    <3>3. CASE Len(L[i].path) > len
      <4>1. Round(L, p, f, i) = i
        BY <1>2, <2>2, <3>3 DEF Round
      <4>2. \A j \in Begins(L, p, i - 1) : Before(L, i, j)
        BY <1>1, <1>2, <3>1, <3>2, <3>3, SMTT(30) DEF Before
      <4> QED BY <1>1, <1>2, <2>1, <4>1, <4>2 DEF BestOf, Before
    <3>4. CASE ~(Len(L[i].path) > len)
      <4>1. Round(L, p, f, i) = b
        BY <1>2, <2>2, <3>4 DEF Round
      <4>2. Before(L, b, i)
        BY <1>1, <1>2, <3>1, <3>4 DEF Before
      <4> QED BY <2>1, <3>1, <4>1, <4>2 DEF BestOf
    <3> QED BY <3>3, <3>4
  <2> QED BY <2>3, <2>4
<1>5. CASE ~(~L[i].pattern /\ IsPrefix(L[i].path, p))
  <2>1. Begins(L, p, i) = Begins(L, p, i - 1)
    BY <1>2, <1>5 DEF Begins
  <2>2. Round(L, p, f, i) = b
    BY <1>2, <1>5 DEF Round, Prefix
  <2> QED BY <2>1, <2>2 DEF BestOf
<1> QED BY <1>4, <1>5

\* The loop ends with the longest of the blocks that begin the path, and the
\* first of several.
LEMMA LongestPrefixIsBest ==
  ASSUME NEW L, WellFormed(L), NEW p
  PROVE  BestOf(L, p, Len(L), LongestPrefix(L, p))
<1>1. Len(L) \in Nat
  BY DEF WellFormed
<1> DEFINE f == CHOOSE g : Scans(L, p, g, Len(L))
           S == {n \in 0..Len(L) : ~BestOf(L, p, n, f[n])}
<1>2. LongestPrefix(L, p) = f[Len(L)]
  BY DEF LongestPrefix, Scans, Round
<1>3. Scans(L, p, f, Len(L))
  BY <1>1, ScanExists
<1> HIDE DEF f
<1>4. ASSUME NEW n \in 0..Len(L) PROVE f[n] = Round(L, p, f, n)
  BY <1>3 DEF Scans
<1>5. ASSUME S # {} PROVE FALSE
  <2>1. PICK m \in S : \A k \in S : m <= k
    <3>1. S \in SUBSET Nat
      BY <1>1
    <3> HIDE DEF S
    <3> QED BY <1>5, <3>1, LeastExists
  <2>2. m # 0
    <3>1. f[0] = 0
      BY <1>1, <1>4 DEF Round
    <3>2. Begins(L, p, 0) = {}
      BY DEF Begins, WellFormed
    <3> QED BY <3>1, <3>2 DEF BestOf
  <2>3. m \in 1..Len(L) /\ m - 1 \in 0..Len(L)
    BY <1>1, <2>2
  <2>4. BestOf(L, p, m - 1, f[m - 1])
    BY <2>1, <2>3
  <2>5. BestOf(L, p, m, f[m])
    BY <1>4, <2>3, <2>4, RoundKeepsBest
  <2> QED BY <2>5
<1> QED BY <1>1, <1>2, <1>5

\* Of a set of blocks there is a first one.
LEMMA FirstExists ==
  ASSUME NEW L, WellFormed(L), NEW I \in SUBSET DOMAIN L, I # {}
  PROVE  First(I) \in I /\ \A j \in I : First(I) <= j
<1>1. I \in SUBSET Nat
  BY DEF WellFormed
<1> QED BY <1>1, LeastExists DEF First

\* A block that is the path is as long as any that begins it.
LEMMA ExactIsBest ==
  ASSUME NEW L, WellFormed(L), NEW p \in Seq(STRING), NEW e \in DOMAIN L, Exact(L, e, p),
         \A j \in DOMAIN L : Exact(L, j, p) => e <= j
  PROVE  BestOf(L, p, Len(L), e)
<1>1. \A j \in DOMAIN L : L[j].path \in Seq(STRING)
  BY PathsType
<1>2. e \in Begins(L, p, Len(L))
  <2>1. e <= Len(L)
    BY DEF WellFormed
  <2>2. SubSeq(p, 1, Len(p)) = p
    OBVIOUS
  <2> QED BY <2>1, <2>2 DEF Begins, Exact, IsPrefix
<1>3. ASSUME NEW j \in Begins(L, p, Len(L)) PROVE Before(L, e, j)
  <2>1. /\ j \in DOMAIN L /\ ~L[j].pattern /\ Len(L[j].path) <= Len(p)
        /\ SubSeq(L[j].path, 1, Len(L[j].path)) = SubSeq(p, 1, Len(L[j].path))
    BY DEF Begins, IsPrefix
  <2>2. CASE Len(L[j].path) = Len(p)
    <3>1. L[j].path = p
      <4>1. SubSeq(p, 1, Len(p)) = p
        OBVIOUS
      <4>2. SubSeq(L[j].path, 1, Len(L[j].path)) = L[j].path
        BY <1>1, <2>1
      <4> QED BY <2>1, <2>2, <4>1, <4>2
    <3> QED BY <2>1, <3>1 DEF Exact, Before
  <2>3. CASE Len(L[j].path) < Len(p)
    BY <2>1, <2>3 DEF Exact, Before
  <2> QED BY <1>1, <2>1, <2>2, <2>3
<1> QED BY <1>2, <1>3 DEF BestOf

\* No two blocks are each before the other.
LEMMA BestIsOne ==
  ASSUME NEW L, WellFormed(L), NEW p, NEW b, NEW c,
         BestOf(L, p, Len(L), b), BestOf(L, p, Len(L), c)
  PROVE  b = c
<1>1. \A j \in DOMAIN L : L[j].path \in Seq(STRING) /\ Len(L[j].path) \in Nat /\ j \in Nat
  BY PathsType
<1>2. Begins(L, p, Len(L)) \subseteq DOMAIN L
  BY DEF Begins
<1> QED BY <1>1, <1>2, SMTT(30) DEF BestOf, Before

\* The location found is the best one.
LEMMA RoutesBest ==
  ASSUME NEW L, WellFormed(L), NEW p \in Seq(STRING)
  PROVE  GetLocation(L, p) = Best(L, p)
<1> DEFINE patterns == {i \in DOMAIN L : Matches(L, i, p)}
           exact == {i \in DOMAIN L : Exact(L, i, p)}
           begins == {i \in DOMAIN L : ~L[i].pattern /\ IsPrefix(L[i].path, p)}
<1>1. begins = Begins(L, p, Len(L))
  BY DEF Begins, WellFormed
<1>2. CASE patterns # {}
  BY <1>2 DEF GetLocation, Best, Matches, First
<1>3. CASE patterns = {}
  <2>1. BestOf(L, p, Len(L), GetLocation(L, p))
    <3>1. CASE exact # {}
      <4>1. First(exact) \in exact /\ \A j \in exact : First(exact) <= j
        BY <3>1, FirstExists
      <4>2. GetLocation(L, p) = First(exact)
        BY <1>3, <3>1 DEF GetLocation
      <4> HIDE DEF patterns, begins
      <4> QED BY <4>1, <4>2, ExactIsBest
    <3>2. CASE exact = {}
      BY <1>3, <3>2, LongestPrefixIsBest DEF GetLocation
    <3> QED BY <3>1, <3>2
  <2>2. CASE begins # {}
    <3> DEFINE c == CHOOSE i \in begins : \A j \in begins : Before(L, i, j)
    <3>1. Best(L, p) = c
      BY <1>3, <2>2 DEF Best, Matches, Before
    <3>2. c \in begins /\ \A j \in begins : Before(L, c, j)
      <4>1. \E i \in begins : \A j \in begins : Before(L, i, j)
        BY <1>1, <2>1, <2>2 DEF BestOf
      <4> HIDE DEF begins, patterns, exact
      <4> QED BY <4>1
    <3> HIDE DEF c, begins
    <3>3. BestOf(L, p, Len(L), c)
      BY <1>1, <2>2, <3>2 DEF BestOf
    <3> QED BY <2>1, <3>1, <3>3, BestIsOne
  <2>3. CASE begins = {}
    <3>1. GetLocation(L, p) = 0
      BY <1>1, <2>1, <2>3 DEF BestOf
    <3>2. Best(L, p) = 0
      BY <1>3, <2>3 DEF Best, Matches
    <3> QED BY <3>1, <3>2
  <2> QED BY <2>2, <2>3
<1> QED BY <1>2, <1>3

\* getLocation picks, of any list of location blocks and for any path, the first
\* pattern, or the longest block that begins the path and the first of equals,
\* though its loops break off at an exact match.
THEOREM RoutedToBest == Spec => []Routed
<1>1. Routed
  <2> SUFFICES ASSUME NEW L \in Configs, NEW p \in Paths
               PROVE  GetLocation(L, p) = Best(L, p)
    BY DEF Routed
  <2>1. WellFormed(L) /\ p \in Seq(STRING)
    BY LocationsAssumption DEF WellFormed
  <2> QED BY <2>1, RoutesBest
<1> QED BY <1>1, PTL
=============================================================================
