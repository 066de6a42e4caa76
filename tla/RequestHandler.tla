---------------------------- MODULE RequestHandler ----------------------------
(***************************************************************************)
(* RequestHandler of one server block: which location block a path is      *)
(* routed to, which handler answers, and what handleRequest does to the    *)
(* SessionManager on the way.  The sessions outlive every request and      *)
(* every client; cookies, the clock and the file system are the            *)
(* environment.                                                            *)
(*                                                                         *)
(* A path is a sequence of tokens.                                         *)
(***************************************************************************)
EXTENDS Integers, Sequences, SequencesExt

CONSTANTS
  Locations,       \* _config.locations of this server, from its file
  Configs,         \* lists of location blocks, for Routed
  Paths,           \* paths clients ask for
  Clients,         \* browsers, each with its cookies
  SessionTimeout,  \* Session::SESSION_TIMEOUT
  CleanupPeriod,   \* how often handleRequest cleans up
  CookieAge,       \* Max-Age of the session cookie
  MaxTime,         \* bound: seconds
  MaxPerSecond     \* bound: sessions created in a second

ASSUME TimesAssumption ==
  /\ SessionTimeout \in Nat \ {0} /\ CleanupPeriod \in Nat /\ CookieAge \in Nat
  /\ MaxTime \in Nat /\ MaxPerSecond \in Nat \ {0}
  /\ Locations \in Configs

Methods == {"GET", "POST", "DELETE", "PUT", "HEAD"}
Location == [pattern : BOOLEAN,     \* the path starts with a tilde
             path : Seq(STRING),    \* without the tilde and the final $
             redirect : BOOLEAN, methods : SUBSET Methods]

\* parseLocation takes a word for the path (ConfigParser.cpp:153-156), so a path
\* is never empty.
ASSUME LocationsAssumption ==
  /\ \A L \in Configs : L \in Seq(Location) /\ \A i \in DOMAIN L : ~L[i].pattern => L[i].path # <<>>
  /\ Paths \subseteq Seq(STRING)

VARIABLES
  now,          \* time(NULL)
  sessions,     \* SessionManager::_sessions, from ids to last access
  lastCleanup,  \* handleRequest's static
  seeded,       \* last_time, the second the generator was seeded in
  drawn,        \* ids drawn from the generator since
  jar           \* the session cookie of every client

vars == <<now, sessions, lastCleanup, seeded, drawn, jar>>

\* An id: the seed and the place in the generator's sequence.
NoId == <<-1, 0>>
Ids == (0..MaxTime) \X (0..(MaxPerSecond - 1))

\* "since" is when the cookie was set; "visited" when a handler last answered
\* the client with it, and "lapsed" whether it ever paused for too long between.
NoCookie == [id |-> NoId, since |-> 0, visited |-> 0, lapsed |-> FALSE]
Cookie == [id : Ids \cup {NoId}, since : 0..MaxTime, visited : 0..MaxTime, lapsed : BOOLEAN]

Init ==
  /\ now = 0 /\ sessions = <<>> /\ lastCleanup = -(CleanupPeriod + 1)
  /\ seeded = -1 /\ drawn = 0
  /\ jar = [c \in Clients |-> NoCookie]

-----------------------------------------------------------------------------
(* getLocation: patterns first, then an exact match, then the longest prefix. *)

Matches(L, i, p) == L[i].pattern /\ IsSuffix(L[i].path, p)
Exact(L, i, p) == ~L[i].pattern /\ L[i].path = p
AnyLonger(n, m) == n >= m   \* mutant
Longer(n, m) == n > m
Prefix(L, i, p, len) ==
  ~L[i].pattern /\ IsPrefix(L[i].path, p) /\ Longer(Len(L[i].path), len)

First(I) == CHOOSE i \in I : \A j \in I : i <= j
\* prefixMatch after each of the blocks.
LongestPrefix(L, p) ==
  LET best[i \in 0..Len(L)] ==
        IF i = 0 THEN 0
        ELSE IF Prefix(L, i, p, IF best[i - 1] = 0 THEN 0 ELSE Len(L[best[i - 1]].path))
               THEN i ELSE best[i - 1]
  IN best[Len(L)]

\* 0 is the null pointer.
GetLocation(L, p) ==
  LET patterns == {i \in DOMAIN L : Matches(L, i, p)}
      exact == {i \in DOMAIN L : Exact(L, i, p)}
  IN IF patterns # {} THEN First(patterns)
     ELSE IF exact # {} THEN First(exact) ELSE LongestPrefix(L, p)

\* Whether the response may stream from a descriptor (TRUE), and so carries its
\* cookies, or is sent from toString(), which leaves them out.  Files, programs'
\* output and error pages stream; generated pages and other errors do not.
Streams(method) == IF method \in {"PUT", "DELETE"} THEN {FALSE} ELSE BOOLEAN

-----------------------------------------------------------------------------
(* Sessions. *)

ExpiredEarly(t) == now - t >= SessionTimeout   \* mutant: off by one
ExpiredLate(t) == now - t > CookieAge   \* mutant: as late as the cookie
\* Session::isExpired
IsExpired(t) == now - t > SessionTimeout

\* cleanupExpiredSessions, when it is due.
CleanupDue == now - lastCleanup > CleanupPeriod
Kept == IF CleanupDue THEN [id \in {x \in DOMAIN sessions : ~IsExpired(sessions[x])} |-> sessions[id]]
                      ELSE sessions

Reseeded == <<now, 0>>   \* mutant: srand() on every call
\* generateSessionId
NextId == IF now # seeded THEN <<now, 0>> ELSE <<seeded, drawn>>

\* insert() leaves an entry that is there.
Created(S, id) == [x \in DOMAIN S \cup {id} |-> IF x \in DOMAIN S THEN S[x] ELSE now]
\* updateSession: also an expired session is touched, if it is still there.
Updated(S, id) == [x \in DOMAIN S |-> IF x = id THEN now ELSE S[x]]

\* What the client sends: not a cookie older than its Max-Age.
Sends(c) == IF now - jar[c].since < CookieAge THEN jar[c].id ELSE NoId

-----------------------------------------------------------------------------
(* handleRequest. *)

\* 404, 301 and 405 return before the sessions are looked at; so does a handler
\* that throws.
Answers(p, method) ==
  LET l == GetLocation(Locations, p)
  IN l # 0 /\ ~Locations[l].redirect /\ method \in Locations[l].methods

HandleRefused(p, method) == ~Answers(p, method) /\ UNCHANGED vars

\* A handler answers; then cleanup, then handleCookies, which gives a client
\* without a session cookie a new session.
HandleNewcomer(c, p, method) ==
  /\ Answers(p, method) /\ Sends(c) = NoId
  /\ NextId \in Ids
  /\ seeded' = now /\ drawn' = NextId[2] + 1
  /\ sessions' = Created(Kept, NextId)
  /\ \E streamed \in Streams(method) :
       jar' = IF streamed
                THEN [jar EXCEPT ![c] = [id |-> NextId, since |-> now, visited |-> now,
                                         lapsed |-> FALSE]]
                ELSE jar
  /\ lastCleanup' = IF CleanupDue THEN now ELSE lastCleanup
  /\ UNCHANGED now

HandleVisitor(c, p, method) ==
  /\ Answers(p, method) /\ Sends(c) # NoId
  /\ sessions' = Updated(Kept, Sends(c))
  /\ jar' = [jar EXCEPT ![c].visited = now,
                        ![c].lapsed = @ \/ now - jar[c].visited > SessionTimeout]
  /\ lastCleanup' = IF CleanupDue THEN now ELSE lastCleanup
  /\ UNCHANGED <<now, seeded, drawn>>

Tick == /\ now < MaxTime /\ now' = now + 1
        /\ UNCHANGED <<sessions, lastCleanup, seeded, drawn, jar>>

Next == \/ \E c \in Clients, p \in Paths, method \in Methods :
             \/ HandleRefused(p, method)
             \/ HandleNewcomer(c, p, method) \/ HandleVisitor(c, p, method)
        \/ Tick

Spec == Init /\ [][Next]_vars

-----------------------------------------------------------------------------
\* Every variable has its type.
TypeOK ==
  /\ now \in 0..MaxTime
  /\ DOMAIN sessions \subseteq Ids /\ \A id \in DOMAIN sessions : sessions[id] \in 0..MaxTime
  /\ lastCleanup \in -(CleanupPeriod + 1)..MaxTime
  /\ seeded \in -1..MaxTime /\ drawn \in 0..MaxPerSecond
  /\ jar \in [Clients -> Cookie]

\* The location of a path does not depend on how the blocks are scanned: it is
\* the first pattern that ends the path; failing that, of the blocks that begin
\* it, the longest, and of equals the one the configuration names first.  It
\* depends on no state, so it is looked at once, before any session.
Best(L, p) ==
  LET patterns == {i \in DOMAIN L : L[i].pattern /\ IsSuffix(L[i].path, p)}
      begins == {i \in DOMAIN L : ~L[i].pattern /\ IsPrefix(L[i].path, p)}
      before(i, j) == \/ Len(L[i].path) > Len(L[j].path)
                      \/ Len(L[i].path) = Len(L[j].path) /\ i <= j
  IN CASE patterns # {} -> CHOOSE i \in patterns : \A j \in patterns : i <= j
       [] patterns = {} /\ begins # {} -> CHOOSE i \in begins : \A j \in begins : before(i, j)
       [] OTHER -> 0
Routed == drawn = 0 => \A L \in Configs, p \in Paths : GetLocation(L, p) = Best(L, p)

\* A client that never pauses for longer than SESSION_TIMEOUT between requests
\* a handler answers keeps its session for as long as it has the cookie,
\* whenever other clients' requests clean up.
SessionKept == \A c \in Clients :
  /\ Sends(c) # NoId /\ ~jar[c].lapsed
  /\ now - jar[c].visited <= SessionTimeout
  => Sends(c) \in DOMAIN sessions

\* No two clients ever hold the same session, though ids come from a generator
\* that is seeded with the time.
NoSharing == \A c, d \in Clients : c # d /\ jar[c].id = jar[d].id => jar[c].id = NoId

\* Sessions do not pile up: once a request has touched them, none is left that
\* nobody used for SESSION_TIMEOUT and the time between two cleanups.
GarbageBounded ==
  [][sessions' # sessions =>
       \A id \in DOMAIN sessions' : now - sessions'[id] <= SessionTimeout + CleanupPeriod]_vars

=============================================================================
