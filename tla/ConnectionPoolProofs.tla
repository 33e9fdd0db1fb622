------------------------- MODULE ConnectionPoolProofs -------------------------
(***************************************************************************)
(* What holds of the connection for any number of requests, any size of a  *)
(* listing and any number of queries in a Get: IInv of ConnectionPool is   *)
(* inductive.  Every action gives the connection up, if it does, through   *)
(* HandOver, so the argument is one lemma about HandOver and one about the *)
(* end of a request; the rest is that a script loses its head.  With it,   *)
(* nobody is stuck but behind a listing.                                   *)
(***************************************************************************)
EXTENDS ConnectionPool, TLAPS

\* What is left of an orderly script is one.
LEMMA TailKeeps ==
    ASSUME NEW k, NEW s \in Seq(Demands), s # <<>>, Orderly(k, s)
    PROVE  /\ Tail(s) \in Seq(Demands)
           /\ Orderly(k, Tail(s))
           /\ Head(s) = "open" => k = "list" /\ Tail(s) # <<>>
<1>1. /\ Tail(s) \in Seq(Demands) /\ Len(s) \in Nat /\ Len(s) >= 1
      /\ Len(Tail(s)) = Len(s) - 1 /\ Head(s) = s[1]
      /\ \A i \in 1 .. Len(Tail(s)) : Tail(s)[i] = s[i + 1]
  OBVIOUS
<1>2. \A i \in 1 .. Len(Tail(s)) : i + 1 \in 1 .. Len(s)
  BY <1>1
<1>3. Orderly(k, Tail(s))
  BY <1>1, <1>2 DEF Orderly
<1>4. ASSUME s[1] = "open" PROVE k = "list" /\ Len(s) > 1
  BY <1>1, <1>4 DEF Orderly
<1>5. ASSUME NEW t, t = <<>> PROVE Len(t) = 0
  BY <1>5
<1>6. Len(s) > 1 => Tail(s) # <<>>
  BY <1>1, <1>5
<1>7. Head(s) = "open" => k = "list" /\ Tail(s) # <<>>
  BY <1>1, <1>4, <1>6
<1> QED
  BY <1>1, <1>3, <1>7

\* A finished script is orderly.
LEMMA EmptyOrderly == \A k : Orderly(k, <<>>)
BY DEF Orderly

\* A script of Uses demands the connection for one query at a time.
LEMMA UsesScript ==
    ASSUME NEW n \in Nat
    PROVE  /\ Uses(n) \in Seq(Demands)
           /\ Len(Uses(n)) = n
           /\ \A i \in 1 .. n : Uses(n)[i] = "use"
BY DEF Uses, Demands

\* The scripts of every kind are orderly.
LEMMA ScriptsTyped ==
    ASSUME NEW k \in Kinds, NEW s \in Scripts(k)
    PROVE  /\ s \in Seq(Demands)
           /\ Orderly(k, s)
<1> USE PoolTyping DEF Orderly
<1>1. CASE k = "write"
  BY <1>1, UsesScript DEF Scripts, WriteScript
<1>2. CASE k = "issue"
  BY <1>2, UsesScript DEF Scripts, IssueScript
<1>3. CASE k = "read"
  BY <1>3, UsesScript DEF Scripts, ReadScript
<1>4. CASE k = "audit"
  <2>1. GetQueries + 1 \in Nat
    OBVIOUS
  <2> QED
    BY <1>4, <2>1, UsesScript DEF Scripts, AuditScript
<1>5. CASE k = "list"
  <2>1. PICK c \in 0 .. 1, n \in 0 .. MaxRows : s = Listing(c, n)
    BY <1>5 DEF Scripts
  <2>2. c \in Nat /\ n * GetQueries \in Nat
    BY <2>1
  <2>3. Uses(c) \in Seq(Demands) /\ Uses(n * GetQueries) \in Seq(Demands)
    BY <2>2, UsesScript
  <2> DEFINE opened == Uses(c) \o <<"open">> \o Uses(n * GetQueries)
  <2>4. opened \in Seq(Demands) /\ "close" \in Demands
    BY <2>3 DEF Demands
  <2>5. s = opened \o <<"close">>
    BY <2>1 DEF Listing
  <2> HIDE DEF opened
  <2>6. /\ s \in Seq(Demands) /\ Len(s) \in Nat
        /\ Len(s) = Len(opened) + 1 /\ s[Len(s)] = "close"
    BY <2>4, <2>5
  <2> QED
    BY <1>5, <2>6
<1> QED
  BY <1>1, <1>2, <1>3, <1>4, <1>5 DEF Kinds

\* The connection, given back, is with one that waited for it, or free with
\* nobody waiting; nobody else moves.
LEMMA HandOverKeeps ==
    ASSUME NEW place \in [Handlers -> Places], HandOver(place),
           \A h \in Handlers : place[h] # "querying"
    PROVE  /\ at' \in [Handlers -> Places]
           /\ holder' \in Handlers \cup {NULL}
           /\ \A h \in Handlers :
                  /\ (holder' = h) <=> (at'[h] = "querying")
                  /\ \/ at'[h] = place[h]
                     \/ place[h] = "waiting" /\ at'[h] = "querying"
           /\ Waiting(at') # {} => holder' # NULL
<1>1. CASE Waiting(place) = {} /\ holder' = NULL /\ at' = place
  BY <1>1, PoolTyping
<1>2. CASE \E g \in Waiting(place) :
               holder' = g /\ at' = [place EXCEPT ![g] = "querying"]
  <2>1. PICK g \in Waiting(place) :
               holder' = g /\ at' = [place EXCEPT ![g] = "querying"]
    BY <1>2
  <2>2. g \in Handlers /\ place[g] = "waiting"
    BY DEF Waiting
  <2>3. "querying" \in Places
    BY DEF Places
  <2> QED
    BY <2>1, <2>2, <2>3, PoolTyping
<1> QED
  BY <1>1, <1>2 DEF HandOver

\* A handler that gives the connection back, wherever it goes from there, keeps
\* the invariant if what it does to its own script does.
LEMMA ReleaseKeeps ==
    ASSUME IInv, NEW h \in Handlers, holder = h,
           NEW place \in [Handlers -> Places], HandOver(place),
           \A g \in Handlers \ {h} : place[g] = at[g],
           place[h] # "querying",
           rows' = rows \ {h},
           kind' = kind, expired' = expired,
           todo' \in [Handlers -> Seq(Demands)],
           \A g \in Handlers \ {h} : todo'[g] = todo[g],
           place[h] = "waiting" =>
               todo'[h] # <<>> /\ Head(todo'[h]) # "close",
           Orderly(kind[h], todo'[h])
    PROVE  IInv'
<1>1. rows' = {} /\ \A g \in Handlers : place[g] # "querying"
  BY DEF IInv, TypeOK, ConnectionAccounted
<1>2. /\ at' \in [Handlers -> Places]
      /\ holder' \in Handlers \cup {NULL}
      /\ \A g \in Handlers :
             /\ (holder' = g) <=> (at'[g] = "querying")
             /\ \/ at'[g] = place[g]
                \/ place[g] = "waiting" /\ at'[g] = "querying"
      /\ Waiting(at') # {} => holder' # NULL
  BY <1>1, HandOverKeeps
<1>3. TypeOK'
  BY <1>1, <1>2 DEF IInv, TypeOK
<1>4. ConnectionAccounted'
  BY <1>1, <1>2 DEF ConnectionAccounted
<1>5. NobodyForgotten'
  BY <1>2 DEF NobodyForgotten
<1>6. ScriptState'
  <2> SUFFICES ASSUME NEW g \in Handlers
               PROVE  /\ at'[g] \in {"waiting", "querying"} =>
                             todo'[g] # <<>> /\ Head(todo'[g]) # "close"
                      /\ Orderly(kind[g], todo'[g])
    BY <1>1 DEF ScriptState
  <2>1. at'[g] \in {"waiting", "querying"} => place[g] = "waiting"
    BY <1>1, <1>2
  <2>2. CASE g = h
    BY <2>1, <2>2
  <2>3. CASE g # h
    BY <2>1, <2>3 DEF IInv, ScriptState
  <2> QED
    BY <2>2, <2>3
<1> QED
  BY <1>3, <1>4, <1>5, <1>6 DEF IInv

\* A request that ends, with the connection or without it.
LEMMA EndKeeps ==
    ASSUME IInv, NEW h \in Handlers, NEW outcome \in Resting, End(h, outcome)
    PROVE  IInv'
<1> DEFINE place == [at EXCEPT ![h] = outcome]
<1>1. /\ rows' = rows \ {h} /\ kind' = kind /\ expired' = expired
      /\ todo' = [todo EXCEPT ![h] = <<>>]
      /\ IF holder = h THEN HandOver(place)
                       ELSE at' = place /\ holder' = holder
  BY DEF End
<1>2. /\ place \in [Handlers -> Places] /\ place[h] = outcome
      /\ \A g \in Handlers \ {h} : place[g] = at[g]
      /\ outcome \notin {"ready", "waiting", "querying"}
  BY DEF IInv, TypeOK, Places, Resting
<1>3. /\ todo' \in [Handlers -> Seq(Demands)] /\ todo'[h] = <<>>
      /\ \A g \in Handlers \ {h} : todo'[g] = todo[g]
      /\ Orderly(kind[h], todo'[h])
  BY <1>1, EmptyOrderly DEF IInv, TypeOK
<1> HIDE DEF place
<1>4. CASE holder = h
  BY <1>1, <1>2, <1>3, <1>4, ReleaseKeeps
<1>5. CASE holder # h
  <2>1. rows' = rows /\ h \notin rows /\ at' = place /\ holder' = holder
    BY <1>1, <1>5 DEF IInv, ConnectionAccounted
  <2>2. TypeOK'
    BY <1>1, <1>2, <1>3, <2>1 DEF IInv, TypeOK
  <2>3. ConnectionAccounted'
    BY <1>2, <1>5, <2>1 DEF IInv, ConnectionAccounted
  <2>4. NobodyForgotten'
    BY <1>2, <2>1 DEF IInv, NobodyForgotten, Waiting
  <2>5. ScriptState'
    BY <1>1, <1>2, <1>3, <2>1 DEF IInv, ScriptState
  <2> QED
    BY <2>2, <2>3, <2>4, <2>5 DEF IInv
<1> QED
  BY <1>4, <1>5

LEMMA InitInv == Init => IInv
<1> SUFFICES ASSUME Init PROVE IInv
  OBVIOUS
<1>1. TypeOK
  BY DEF Init, TypeOK, Places, Resting
<1>2. ConnectionAccounted /\ NobodyForgotten
  BY PoolTyping DEF Init, ConnectionAccounted, NobodyForgotten, Waiting
<1>3. ScriptState
  BY EmptyOrderly DEF Init, ScriptState
<1> QED
  BY <1>1, <1>2, <1>3 DEF IInv

\* One case for each action.
LEMMA StepInv == IInv /\ [Next]_vars => IInv'
<1> SUFFICES ASSUME IInv, [Next]_vars PROVE IInv'
  OBVIOUS
<1>1. CASE UNCHANGED vars
  BY <1>1 DEF vars, IInv, TypeOK, ConnectionAccounted, NobodyForgotten,
              ScriptState, Waiting
<1>2. CASE Next
  <2> SUFFICES ASSUME NEW h \in Handlers,
                      \/ Arrive(h) \/ Work(h) \/ Expire(h)
                      \/ Cut(h) \/ GiveUp(h)
               PROVE  IInv'
    BY <1>2 DEF Next
  <2> USE DEF IInv
  <2>1. CASE Arrive(h)
    <3>1. PICK k \in Sent : \E s \in Scripts(k) :
              /\ kind' = [kind EXCEPT ![h] = k]
              /\ todo' = [todo EXCEPT ![h] = s]
      BY <2>1 DEF Arrive
    <3>2. PICK s \in Scripts(k) :
              /\ kind' = [kind EXCEPT ![h] = k]
              /\ todo' = [todo EXCEPT ![h] = s]
      BY <3>1
    <3>3. /\ k \in Kinds /\ s \in Seq(Demands)
          /\ Orderly(k, s)
      BY PoolTyping, ScriptsTyped
    <3>4. /\ at[h] \in Resting /\ at' = [at EXCEPT ![h] = "ready"]
          /\ expired' = [expired EXCEPT ![h] = FALSE]
          /\ rows' = rows /\ holder' = holder
      BY <2>1 DEF Arrive, Busy
    <3>5. h \notin rows /\ holder # h
      BY <3>4 DEF ConnectionAccounted, Resting
    <3>6. TypeOK'
      BY <3>2, <3>3, <3>4 DEF TypeOK, Places
    <3>7. ConnectionAccounted' /\ NobodyForgotten'
      BY <3>4, <3>5 DEF TypeOK, ConnectionAccounted, NobodyForgotten, Waiting
    <3>8. ScriptState'
      BY <3>2, <3>3, <3>4, <3>5 DEF TypeOK, ScriptState
    <3> QED
      BY <3>6, <3>7, <3>8
  <2>2. CASE Take(h)
    <3>1. /\ holder = NULL /\ holder' = h /\ at[h] = "ready"
          /\ at' = [at EXCEPT ![h] = "querying"]
          /\ todo[h] # <<>> /\ Head(todo[h]) # "close"
          /\ UNCHANGED <<kind, todo, expired, rows>>
      BY <2>2 DEF Take, Demanding
    <3>2. TypeOK'
      BY <3>1 DEF TypeOK, Places
    <3>3. rows = {} /\ \A g \in Handlers : at[g] # "querying"
      BY <3>1, PoolTyping DEF TypeOK, ConnectionAccounted
    <3>4. ConnectionAccounted' /\ NobodyForgotten'
      BY <3>1, <3>3, PoolTyping
         DEF TypeOK, ConnectionAccounted, NobodyForgotten, Waiting
    <3>5. ScriptState'
      BY <3>1 DEF TypeOK, ScriptState
    <3> QED
      BY <3>2, <3>4, <3>5
  <2>3. CASE Queue(h)
    <3>1. /\ holder # NULL /\ at[h] = "ready"
          /\ at' = [at EXCEPT ![h] = "waiting"]
          /\ todo[h] # <<>> /\ Head(todo[h]) # "close"
          /\ UNCHANGED <<kind, todo, expired, rows, holder>>
      BY <2>3 DEF Queue, Demanding
    <3>2. TypeOK'
      BY <3>1 DEF TypeOK, Places
    <3>3. ConnectionAccounted' /\ NobodyForgotten'
      BY <3>1 DEF TypeOK, ConnectionAccounted, NobodyForgotten
    <3>4. ScriptState'
      BY <3>1 DEF TypeOK, ScriptState
    <3> QED
      BY <3>2, <3>3, <3>4
  <2>4. CASE Use(h)
    <3> DEFINE place == [at EXCEPT ![h] = "ready"]
    <3>1. /\ at[h] = "querying" /\ HandOver(place)
          /\ todo' = [todo EXCEPT ![h] = Tail(todo[h])]
          /\ UNCHANGED <<kind, expired, rows>>
      BY <2>4 DEF Use
    <3>2. /\ place \in [Handlers -> Places] /\ place[h] = "ready"
          /\ \A g \in Handlers \ {h} : place[g] = at[g]
      BY DEF TypeOK, Places
    <3>3. holder = h /\ rows' = rows \ {h}
      BY <3>1 DEF ConnectionAccounted
    <3>4. todo[h] \in Seq(Demands) /\ todo[h] # <<>>
      BY <3>1 DEF TypeOK, ScriptState
    <3>5. /\ Tail(todo[h]) \in Seq(Demands)
          /\ Orderly(kind[h], Tail(todo[h]))
      BY <3>4, TailKeeps DEF ScriptState
    <3>6. /\ todo' \in [Handlers -> Seq(Demands)]
          /\ todo'[h] = Tail(todo[h])
          /\ \A g \in Handlers \ {h} : todo'[g] = todo[g]
      BY <3>1, <3>5 DEF TypeOK
    <3> HIDE DEF place
    <3> QED
      BY <3>1, <3>2, <3>3, <3>5, <3>6, ReleaseKeeps
  <2>5. CASE OpenRows(h)
    <3>1. /\ at[h] = "querying" /\ Head(todo[h]) = "open"
          /\ at' = [at EXCEPT ![h] = "ready"]
          /\ rows' = rows \cup {h}
          /\ todo' = [todo EXCEPT ![h] = Tail(todo[h])]
          /\ UNCHANGED <<kind, expired, holder>>
      BY <2>5 DEF OpenRows
    <3>2. todo[h] \in Seq(Demands) /\ todo[h] # <<>>
      BY <3>1 DEF TypeOK, ScriptState
    <3>3. /\ Tail(todo[h]) \in Seq(Demands)
          /\ Orderly(kind[h], Tail(todo[h]))
      BY <3>2, TailKeeps DEF ScriptState
    <3>4. kind[h] = "list" /\ Tail(todo[h]) # <<>>
      BY <3>1, <3>2, TailKeeps DEF ScriptState
    <3>5. TypeOK'
      BY <3>1, <3>3 DEF TypeOK, Places
    <3>6. ConnectionAccounted' /\ NobodyForgotten'
      BY <3>1, PoolTyping
         DEF TypeOK, ConnectionAccounted, NobodyForgotten, Waiting
    <3>7. ScriptState'
      BY <3>1, <3>3, <3>4 DEF TypeOK, ScriptState
    <3> QED
      BY <3>5, <3>6, <3>7
  <2>6. CASE CloseRows(h)
    <3>1. /\ at[h] = "ready" /\ h \in rows /\ todo[h] # <<>>
          /\ HandOver(at) /\ rows' = rows \ {h}
          /\ todo' = [todo EXCEPT ![h] = Tail(todo[h])]
          /\ UNCHANGED <<kind, expired>>
      BY <2>6 DEF CloseRows
    <3>2. holder = h /\ kind[h] = "list"
      BY <3>1 DEF ConnectionAccounted, ScriptState
    <3>3. todo[h] \in Seq(Demands)
      BY DEF TypeOK
    <3>4. Tail(todo[h]) \in Seq(Demands) /\ Orderly(kind[h], Tail(todo[h]))
      BY <3>1, <3>3, TailKeeps DEF ScriptState
    <3>5. /\ todo' \in [Handlers -> Seq(Demands)]
          /\ \A g \in Handlers \ {h} : todo'[g] = todo[g]
          /\ at \in [Handlers -> Places] /\ Orderly(kind[h], todo'[h])
      BY <3>1, <3>4 DEF TypeOK
    <3> QED
      BY <3>1, <3>2, <3>5, ReleaseKeeps
  <2>7. CASE Finish(h)
    <3>1. /\ at[h] = "ready" /\ todo[h] = <<>>
          /\ at' = [at EXCEPT ![h] = "answered"]
          /\ UNCHANGED <<kind, todo, expired, rows, holder>>
      BY <2>7 DEF Finish
    <3>2. h \notin rows
      BY <3>1 DEF ConnectionAccounted, ScriptState
    <3>3. TypeOK'
      BY <3>1 DEF TypeOK, Places, Resting
    <3>4. ConnectionAccounted' /\ NobodyForgotten'
      BY <3>1, <3>2 DEF TypeOK, ConnectionAccounted, NobodyForgotten, Waiting
    <3>5. ScriptState'
      BY <3>1 DEF TypeOK, ScriptState
    <3> QED
      BY <3>3, <3>4, <3>5
  <2>8. CASE Decide(h) \/ QueryFails(h) \/ CallFails(h) \/ GiveUp(h)
    <3>1. End(h, "answered") \/ End(h, "failed")
      BY <2>8 DEF Decide, QueryFails, CallFails, GiveUp
    <3>2. "answered" \in Resting /\ "failed" \in Resting
      BY DEF Resting
    <3> QED
      BY <3>1, <3>2, EndKeeps
  <2>9. CASE Expire(h)
    <3>1. /\ expired' = [expired EXCEPT ![h] = TRUE]
          /\ UNCHANGED <<at, kind, todo, rows, holder>>
      BY <2>9 DEF Expire
    <3>2. TypeOK'
      BY <3>1 DEF TypeOK
    <3>3. ConnectionAccounted' /\ NobodyForgotten' /\ ScriptState'
      BY <3>1 DEF ConnectionAccounted, NobodyForgotten, ScriptState, Waiting
    <3> QED
      BY <3>2, <3>3
  <2>10. CASE Cut(h)
    <3>1. /\ h \in rows /\ HandOver(at) /\ rows' = rows \ {h}
          /\ UNCHANGED <<kind, todo, expired>>
      BY <2>10 DEF Cut
    <3>2. /\ holder = h /\ kind[h] = "list" /\ at[h] # "querying"
          /\ at[h] = "waiting" => todo[h] # <<>> /\ Head(todo[h]) # "close"
          /\ Orderly(kind[h], todo[h])
      BY <3>1 DEF ConnectionAccounted, ScriptState
    <3>3. todo \in [Handlers -> Seq(Demands)] /\ at \in [Handlers -> Places]
      BY DEF TypeOK
    <3> QED
      BY <3>1, <3>2, <3>3, ReleaseKeeps
  <2> QED
    BY <2>1, <2>2, <2>3, <2>4, <2>5, <2>6, <2>7, <2>8, <2>9, <2>10 DEF Work
<1> QED
  BY <1>1, <1>2

-----------------------------------------------------------------------------

\* The inductive invariant of the pool, for any number of handlers and any
\* order of deadlines and errors.
THEOREM PoolInvariance == Spec => []IInv
<1>1. Spec => Init /\ [][Next]_vars
  BY DEF Spec
<1> QED
  BY <1>1, InitInv, StepInv, PTL

\* No order of answers, errors, deadlines and deferred calls leaks the
\* connection or lends it twice (sqlite.go, the deferred calls of read.go and
\* write.go).
THEOREM ConnectionSafe == Spec => []ConnectionAccounted
<1>1. IInv => ConnectionAccounted
  BY DEF IInv
<1> QED
  BY <1>1, PoolInvariance, PTL

\* A request that waits for the connection while it has it is a listing: the
\* wait of ListFiltered for itself is the only one in the program.
THEOREM OnlyListingsHoldAndWait == Spec => []HoldAndWait
<1>1. IInv => HoldAndWait
  BY DEF IInv, ConnectionAccounted, ScriptState, HoldAndWait
<1> QED
  BY <1>1, PoolInvariance, PTL

-----------------------------------------------------------------------------
(* Nobody is stuck: what is left of a script to be done always can be.     *)

\* A close is the last demand of a script, and the rows it closes are open, or
\* opened before it, or were cut by the deadline.
Paired(script, opened) ==
    \A i \in 1 .. Len(script) : script[i] = "close" =>
        /\ i = Len(script)
        /\ opened \/ \E j \in 1 .. i : script[j] = "open"

ClosesItsOwn ==
    \A h \in Handlers :
        /\ Paired(todo[h], expired[h] \/ h \in rows)
        /\ kind[h] \in Sent \cup {NULL}

\* The scripts of every kind open the rows they close.
LEMMA ScriptsPaired ==
    ASSUME NEW k \in Kinds, NEW s \in Scripts(k)
    PROVE  Paired(s, FALSE)
<1> USE PoolTyping DEF Paired
<1>1. CASE k = "write"
  BY <1>1, UsesScript DEF Scripts, WriteScript
<1>2. CASE k = "issue"
  BY <1>2, UsesScript DEF Scripts, IssueScript
<1>3. CASE k = "read"
  BY <1>3, UsesScript DEF Scripts, ReadScript
<1>4. CASE k = "audit"
  <2>1. GetQueries + 1 \in Nat
    OBVIOUS
  <2> QED
    BY <1>4, <2>1, UsesScript DEF Scripts, AuditScript
<1>5. CASE k = "list"
  <2>1. PICK c \in 0 .. 1, n \in 0 .. MaxRows : s = Listing(c, n)
    BY <1>5 DEF Scripts
  <2> DEFINE m == n * GetQueries
  <2>2. c \in Nat /\ m \in Nat
    BY <2>1
  <2> HIDE DEF m
  <2>3. /\ Uses(c) \in Seq(Demands) /\ Len(Uses(c)) = c
        /\ Uses(m) \in Seq(Demands) /\ Len(Uses(m)) = m
        /\ \A i \in 1 .. c : Uses(c)[i] = "use"
        /\ \A i \in 1 .. m : Uses(m)[i] = "use"
    BY <2>2, UsesScript
  <2> DEFINE first == Uses(c) \o <<"open">>
             opened == first \o Uses(m)
  <2>4. /\ first \in Seq(Demands) /\ Len(first) = c + 1
        /\ first[c + 1] = "open" /\ \A i \in 1 .. c : first[i] = "use"
    BY <2>2, <2>3 DEF Demands
  <2> HIDE DEF first
  <2>5. /\ opened \in Seq(Demands) /\ Len(opened) = c + 1 + m
        /\ opened[c + 1] = "open"
        /\ \A i \in 1 .. Len(opened) : opened[i] # "close"
    <3>1. opened \in Seq(Demands) /\ Len(opened) = c + 1 + m
      BY <2>2, <2>3, <2>4
    <3>2. \A i \in 1 .. c + 1 : opened[i] = first[i]
      BY <2>2, <2>3, <2>4
    <3>3. \A i \in c + 2 .. c + 1 + m :
              /\ opened[i] = Uses(m)[i - (c + 1)]
              /\ i - (c + 1) \in 1 .. m
      BY <2>2, <2>3, <2>4
    <3>4. ASSUME NEW i \in 1 .. c + 1 + m PROVE opened[i] # "close"
      <4>1. CASE i \in 1 .. c
        BY <2>2, <2>4, <3>2, <4>1
      <4>2. CASE i = c + 1
        BY <2>2, <2>4, <3>2, <4>2
      <4>3. CASE i \in c + 2 .. c + 1 + m
        <5>1. opened[i] = Uses(m)[i - (c + 1)] /\ i - (c + 1) \in 1 .. m
          BY <3>3, <4>3
        <5>2. Uses(m)[i - (c + 1)] = "use"
          BY <2>3, <5>1
        <5> QED
          BY <5>1, <5>2
      <4>4. \/ i \in 1 .. c \/ i = c + 1
            \/ i \in c + 2 .. c + 1 + m
        BY <2>2
      <4> QED
        BY <4>1, <4>2, <4>3, <4>4
    <3> QED
      BY <2>2, <2>4, <3>1, <3>2, <3>4
  <2>6. s = opened \o <<"close">>
    BY <2>1 DEF Listing, first, m
  <2> HIDE DEF opened
  <2>7. /\ Len(s) = c + 2 + m /\ s[c + 1] = "open"
        /\ \A i \in 1 .. c + 1 + m : s[i] # "close"
    BY <2>2, <2>5, <2>6 DEF Demands
  <2>8. c + 1 \in 1 .. c + 2 + m
    BY <2>2
  <2> QED
    BY <2>2, <2>7, <2>8
<1> QED
  BY <1>1, <1>2, <1>3, <1>4, <1>5 DEF Kinds

\* Arithmetic the provers find only by itself.
LEMMA Predecessor == \A a, b \in Nat : a + 1 = b => a = b - 1
OBVIOUS

\* What is left of a paired script is one; its head may be the open.
LEMMA TailPaired ==
    ASSUME NEW s \in Seq(Demands), s # <<>>,
           NEW was \in BOOLEAN, NEW is \in BOOLEAN,
           Paired(s, was),
           was /\ Head(s) # "close" => is,
           Head(s) = "open" => is
    PROVE  Paired(Tail(s), is)
<1>0. Len(s) \in Nat /\ Len(Tail(s)) = Len(s) - 1
  OBVIOUS
<1>1. /\ Tail(s) \in Seq(Demands) /\ Len(s) \in Nat /\ Len(s) >= 1
      /\ Len(Tail(s)) = Len(s) - 1 /\ Head(s) = s[1]
      /\ \A i \in 1 .. Len(Tail(s)) : Tail(s)[i] = s[i + 1]
  OBVIOUS
<1>2. SUFFICES ASSUME NEW i \in 1 .. Len(Tail(s)), Tail(s)[i] = "close", ~is
               PROVE  /\ i = Len(Tail(s))
                      /\ \E j \in 1 .. i : Tail(s)[j] = "open"
  <2>1. ASSUME is, NEW i \in 1 .. Len(Tail(s)), Tail(s)[i] = "close"
        PROVE  i = Len(Tail(s))
    <3>1. i \in Nat /\ i + 1 \in 1 .. Len(s) /\ s[i + 1] = "close"
      BY <1>1, <2>1
    <3> DEFINE next == i + 1
    <3> HIDE DEF next
    <3>2. next \in 1 .. Len(s) /\ s[next] = "close"
      BY <3>1 DEF next
    <3>3. next = Len(s)
      BY <3>2 DEF Paired
    <3>4. i = Len(s) - 1
      BY <1>0, <3>1, <3>3, Predecessor DEF next
    <3> QED
      BY <1>0, <3>4
  <2> QED
    BY <2>1 DEF Paired
<1>3. i + 1 \in 1 .. Len(s) /\ s[i + 1] = "close" /\ i \in Nat /\ i >= 1
  BY <1>1, <1>2
<1>4. i + 1 = Len(s) /\ (was \/ \E j \in 1 .. i + 1 : s[j] = "open")
  BY <1>3 DEF Paired
<1>5. s[1] # "close"
  <2>1. 1 \in 1 .. Len(s) /\ Len(s) # 1
    BY <1>1, <1>3, <1>4
  <2> QED
    BY <2>1 DEF Paired
<1>6. PICK j \in 1 .. i + 1 : s[j] = "open"
  BY <1>1, <1>2, <1>4, <1>5
<1>7. j - 1 \in 1 .. i /\ Tail(s)[j - 1] = "open"
  <2>1. j # 1
    BY <1>1, <1>2, <1>6
  <2>2. j - 1 \in 1 .. Len(Tail(s)) /\ j - 1 \in 1 .. i
    BY <1>1, <1>3, <1>4, <1>6, <2>1
  <2>3. Tail(s)[j - 1] = s[j - 1 + 1] /\ j - 1 + 1 = j
    BY <1>1, <1>3, <2>2
  <2> QED
    BY <1>6, <2>2, <2>3
<1>8. i = Len(s) - 1
  BY <1>0, <1>3, <1>4, Predecessor
<1> QED
  BY <1>0, <1>7, <1>8

\* A script that is done is paired.
LEMMA EmptyPaired == \A opened : Paired(<<>>, opened)
BY DEF Paired

\* One case for each action that moves a script, its rows or its deadline.
LEMMA StepCloses == IInv /\ ClosesItsOwn /\ [Next]_vars => ClosesItsOwn'
<1> SUFFICES ASSUME IInv, ClosesItsOwn, [Next]_vars PROVE ClosesItsOwn'
  OBVIOUS
<1>1. CASE UNCHANGED vars
  BY <1>1 DEF vars, ClosesItsOwn
<1>2. CASE Next
  <2> SUFFICES ASSUME NEW h \in Handlers,
                      \/ Arrive(h) \/ Work(h) \/ Expire(h)
                      \/ Cut(h) \/ GiveUp(h)
               PROVE  ClosesItsOwn'
    BY <1>2 DEF Next
  <2> USE DEF IInv
  <2>0. todo[h] \in Seq(Demands) /\ expired[h] \in BOOLEAN
    BY DEF TypeOK
  <2>1. CASE Arrive(h)
    <3>1. PICK k \in Sent : \E s \in Scripts(k) :
              /\ kind' = [kind EXCEPT ![h] = k]
              /\ todo' = [todo EXCEPT ![h] = s]
      BY <2>1 DEF Arrive
    <3>2. PICK s \in Scripts(k) :
              /\ kind' = [kind EXCEPT ![h] = k]
              /\ todo' = [todo EXCEPT ![h] = s]
      BY <3>1
    <3>3. k \in Kinds /\ Paired(s, FALSE)
      BY PoolTyping, ScriptsPaired
    <3>4. /\ expired' = [expired EXCEPT ![h] = FALSE] /\ rows' = rows
      BY <2>1 DEF Arrive
    <3>5. Paired(s, expired'[h] \/ h \in rows')
      BY <3>3 DEF Paired
    <3> QED
      BY <3>2, <3>4, <3>5 DEF TypeOK, ClosesItsOwn
  <2>2. CASE Take(h) \/ Queue(h) \/ Finish(h)
    BY <2>2 DEF Take, Queue, Finish, ClosesItsOwn
  <2>3. CASE Use(h) \/ OpenRows(h) \/ CloseRows(h)
    <3>1. /\ todo' = [todo EXCEPT ![h] = Tail(todo[h])] /\ todo[h] # <<>>
          /\ UNCHANGED <<kind, expired>>
          /\ \A g \in Handlers \ {h} : g \in rows' <=> g \in rows
          /\ h \in rows /\ Head(todo[h]) # "close" => h \in rows'
          /\ Head(todo[h]) = "open" => h \in rows'
      BY <2>3 DEF Use, OpenRows, CloseRows, ScriptState
    <3>2. Paired(Tail(todo[h]), expired'[h] \/ h \in rows')
      BY <2>0, <3>1, TailPaired DEF ClosesItsOwn
    <3> QED
      BY <3>1, <3>2 DEF TypeOK, ClosesItsOwn
  <2>4. CASE Decide(h) \/ QueryFails(h) \/ CallFails(h) \/ GiveUp(h)
    <3>1. /\ todo' = [todo EXCEPT ![h] = <<>>] /\ rows' = rows \ {h}
          /\ UNCHANGED <<kind, expired>>
      BY <2>4 DEF Decide, QueryFails, CallFails, GiveUp, End
    <3> QED
      BY <3>1, EmptyPaired DEF TypeOK, ClosesItsOwn
  <2>5. CASE Expire(h) \/ Cut(h)
    <3>1. /\ UNCHANGED <<kind, todo>> /\ expired'[h] = TRUE
          /\ \A g \in Handlers \ {h} :
                 expired'[g] = expired[g] /\ (g \in rows' <=> g \in rows)
      BY <2>5 DEF Expire, Cut, TypeOK
    <3>2. ASSUME Paired(todo[h], expired[h] \/ h \in rows)
          PROVE  Paired(todo[h], expired'[h] \/ h \in rows')
      BY <3>1, <3>2 DEF Paired
    <3> QED
      BY <3>1, <3>2 DEF ClosesItsOwn
  <2> QED
    BY <2>1, <2>2, <2>3, <2>4, <2>5 DEF Work
<1> QED
  BY <1>1, <1>2

\* A request in its handler's hands has a step of the handler; a request that
\* waits does so for one that has the connection.
NobodyStuck ==
    \A h \in Handlers :
        /\ at[h] = "ready" =>
               \/ todo[h] = <<>>
               \/ Demanding(h)
               \/ Head(todo[h]) = "close" /\ h \in rows
               \/ expired[h]
        /\ at[h] = "waiting" =>
               \E g \in Handlers :
                   \/ at[g] = "querying"
                   \/ g \in rows /\ at[g] = "ready"
                   \/ g \in rows /\ at[g] = "waiting" /\ "list" \in Sent

\* The safety of RequestsAnswered and RequestsEnd: without listings whoever
\* waits, waits for a query under way, and with them for a listing at work or
\* one that waits for itself (ListFiltered of read.go); no handler is left
\* with a close of rows it does not have.
THEOREM OnlyListingsBlock == Spec => []NobodyStuck
<1>1. Init => ClosesItsOwn
  BY EmptyPaired DEF Init, ClosesItsOwn
<1>2. IInv /\ ClosesItsOwn => NobodyStuck
  <2> SUFFICES ASSUME IInv, ClosesItsOwn, NEW h \in Handlers
               PROVE  NobodyStuck!(h)
    BY DEF NobodyStuck
  <2> USE DEF IInv
  <2>1. CASE at[h] = "ready"
    <3>1. SUFFICES ASSUME todo[h] # <<>>, Head(todo[h]) = "close"
                   PROVE  expired[h] \/ h \in rows
      BY <2>1 DEF Demanding
    <3>2. /\ Len(todo[h]) \in Nat /\ Len(todo[h]) >= 1
          /\ Head(todo[h]) = todo[h][1]
      BY <3>1 DEF TypeOK
    <3>3. \/ expired[h] \/ h \in rows
          \/ \E j \in 1 .. 1 : todo[h][j] = "open"
      BY <3>1, <3>2 DEF ClosesItsOwn, Paired
    <3> QED
      BY <3>1, <3>2, <3>3
  <2>2. CASE at[h] = "waiting"
    <3>1. holder \in Handlers
      BY <2>2 DEF NobodyForgotten, Waiting, TypeOK
    <3>2. at[holder] = "querying" \/ holder \in rows
      BY <3>1 DEF ConnectionAccounted
    <3>3. ASSUME holder \in rows
          PROVE  at[holder] \in {"ready", "waiting"} /\ "list" \in Sent
      <4>1. kind[holder] = "list" /\ at[holder] \in {"ready", "waiting"}
        BY <3>1, <3>3 DEF ConnectionAccounted, ScriptState
      <4>2. kind[holder] # NULL
        BY <4>1, PoolTyping DEF Kinds
      <4> QED
        BY <3>1, <4>1, <4>2 DEF ClosesItsOwn
    <3> QED
      BY <2>2, <3>1, <3>2, <3>3
  <2> QED
    BY <2>1, <2>2
<1>3. Spec => Init /\ [][Next]_vars
  BY DEF Spec
<1> QED
  BY <1>1, <1>2, <1>3, InitInv, StepInv, StepCloses, PTL

-----------------------------------------------------------------------------
(* The measure behind RequestsAnswered and RequestsEnd.                    *)

\* How far a handler is with the first of its demands.
Stage(place) ==
    CASE place = "ready" -> 0
      [] place = "waiting" -> 1
      [] place = "querying" -> 2

\* A request is nearer to its end: it is over, a demand of its script is done,
\* or the next one is further on.
Nearer(h) ==
    \/ at'[h] \in Resting
    \/ todo[h] # <<>> /\ todo'[h] = Tail(todo[h])
    \/ /\ at'[h] \notin Resting
       /\ todo'[h] = todo[h] /\ Stage(at'[h]) > Stage(at[h])

\* A request is where it was.
Unmoved(h) == at'[h] = at[h] /\ todo'[h] = todo[h]

\* When the connection comes back, only a waiter moves, and only onwards.
LEMMA HandOverAdvances ==
    ASSUME NEW place \in [Handlers -> Places], HandOver(place),
           NEW g \in Handlers
    PROVE  \/ at'[g] = place[g]
           \/ place[g] = "waiting" /\ at'[g] = "querying"
BY DEF HandOver, Waiting

\* A handler that no step moves but the return of the connection.
LEMMA OthersAdvance ==
    ASSUME TypeOK, NEW place \in [Handlers -> Places], HandOver(place),
           NEW g \in Handlers, place[g] = at[g], todo'[g] = todo[g]
    PROVE  Nearer(g) \/ Unmoved(g)
BY HandOverAdvances DEF Nearer, Unmoved, Stage, Resting

\* A request that ends is over, and the others at most go on.
LEMMA EndAdvances ==
    ASSUME IInv, NEW h \in Handlers, NEW outcome \in Resting, End(h, outcome),
           NEW g \in Handlers
    PROVE  IF g = h THEN Nearer(g) ELSE Nearer(g) \/ Unmoved(g)
<1> DEFINE place == [at EXCEPT ![h] = outcome]
<1>1. /\ place \in [Handlers -> Places] /\ place[h] = outcome /\ TypeOK
      /\ g # h => place[g] = at[g] /\ todo'[g] = todo[g]
      /\ outcome # "waiting"
  BY DEF IInv, TypeOK, Places, Resting, End
<1>2. HandOver(place) \/ at' = place
  BY DEF End
<1> HIDE DEF place
<1>3. CASE HandOver(place)
  BY <1>1, <1>3, HandOverAdvances, OthersAdvance DEF Nearer
<1>4. CASE at' = place
  BY <1>1, <1>4 DEF Nearer, Unmoved
<1> QED BY <1>2, <1>3, <1>4

\* Each step of a request takes it on and no other one back.
LEMMA WorkAdvances ==
    ASSUME IInv, NEW h \in Handlers, Work(h) \/ GiveUp(h), NEW g \in Handlers
    PROVE  IF g = h THEN Nearer(g) ELSE Nearer(g) \/ Unmoved(g)
<1> USE DEF IInv
<1>1. CASE Take(h)
  BY <1>1 DEF Take, Demanding, TypeOK, Nearer, Unmoved, Stage, Resting
<1>2. CASE Queue(h)
  BY <1>2 DEF Queue, Demanding, TypeOK, Nearer, Unmoved, Stage, Resting
<1>3. CASE Use(h)
  <2> DEFINE place == [at EXCEPT ![h] = "ready"]
  <2>1. /\ HandOver(place) /\ place \in [Handlers -> Places]
        /\ g # h => place[g] = at[g] /\ todo'[g] = todo[g]
        /\ todo[h] # <<>> /\ todo'[h] = Tail(todo[h])
    BY <1>3 DEF Use, TypeOK, Places, ScriptState
  <2> HIDE DEF place
  <2> QED BY <2>1, OthersAdvance DEF Nearer
<1>4. CASE OpenRows(h)
  BY <1>4 DEF OpenRows, TypeOK, ScriptState, Nearer, Unmoved
<1>5. CASE CloseRows(h)
  <2>1. /\ HandOver(at) /\ at \in [Handlers -> Places]
        /\ g # h => todo'[g] = todo[g]
        /\ todo[h] # <<>> /\ todo'[h] = Tail(todo[h])
    BY <1>5 DEF CloseRows, TypeOK
  <2> QED BY <2>1, OthersAdvance DEF Nearer
<1>6. CASE Finish(h)
  BY <1>6 DEF Finish, TypeOK, Nearer, Unmoved, Resting
<1>7. CASE Decide(h) \/ QueryFails(h) \/ CallFails(h) \/ GiveUp(h)
  <2>1. End(h, "answered") \/ End(h, "failed")
    BY <1>7 DEF Decide, QueryFails, CallFails, GiveUp
  <2>2. "answered" \in Resting /\ "failed" \in Resting
    BY DEF Resting
  <2> QED BY <2>1, <2>2, EndAdvances
<1> QED BY <1>1, <1>2, <1>3, <1>4, <1>5, <1>6, <1>7 DEF Work

\* No step of another request, of a deadline or of the pool takes a busy
\* request back, and each step of its own takes it on: to the next stage of its
\* demand, past the demand, or to its end.  So whatever the others do, a request
\* of n demands makes at most 3 * n + 1 moves (the handlers of server.go,
\* database/sql).
THEOREM RequestAdvances ==
    Spec => [][\A h \in Handlers : Busy(h) =>
                /\ Nearer(h) \/ Unmoved(h)
                /\ Work(h) \/ GiveUp(h) => Nearer(h)]_vars
<1> DEFINE Advances == \A h \in Handlers : Busy(h) =>
                /\ Nearer(h) \/ Unmoved(h)
                /\ Work(h) \/ GiveUp(h) => Nearer(h)
<1>1. ASSUME IInv, NEW h \in Handlers, Arrive(h) \/ Expire(h) \/ Cut(h),
             NEW g \in Handlers, Busy(g)
      PROVE  Nearer(g) \/ Unmoved(g)
  <2>1. CASE Arrive(h)
    BY <1>1, <2>1 DEF Arrive, IInv, TypeOK, Unmoved
  <2>2. CASE Expire(h)
    BY <2>2 DEF Expire, Unmoved
  <2>3. CASE Cut(h)
    BY <1>1, <2>3, OthersAdvance DEF Cut, IInv, TypeOK
  <2> QED BY <1>1, <2>1, <2>2, <2>3
<1>2. ASSUME IInv, Next PROVE Advances
  <2>1. ASSUME NEW g \in Handlers, Work(g) \/ GiveUp(g) PROVE Nearer(g)
    BY <1>2, <2>1, WorkAdvances
  <2>2. ASSUME NEW g \in Handlers, Busy(g) PROVE Nearer(g) \/ Unmoved(g)
    BY <1>1, <1>2, <2>2, WorkAdvances DEF Next
  <2> QED BY <2>1, <2>2
<1> HIDE DEF Advances
<1>3. ASSUME IInv, [Next]_vars PROVE [Advances]_vars
  BY <1>2, <1>3
<1>4. Spec => Init /\ [][Next]_vars
  BY DEF Spec
<1>5. Spec => [][Advances]_vars
  BY <1>3, <1>4, PoolInvariance, PTL
<1> QED BY <1>5 DEF Advances

=============================================================================
