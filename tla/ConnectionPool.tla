---------------------------- MODULE ConnectionPool ----------------------------
(***************************************************************************)
(* The one database connection (sqlite.go, SetMaxOpenConns(1)), the        *)
(* requests that share it and the deadline that cuts them.                 *)
(*                                                                         *)
(* A request is a script of the connection demands its handler makes:      *)
(* "use" takes the connection for one query or one transaction and returns *)
(* it, "open" takes it for rows that stay open, "close" returns it.  What  *)
(* the queries read and write is left to the other modules.  The pool      *)
(* itself is database/sql: a free connection is taken at once, a returned  *)
(* one goes to a waiter drawn at random.                                   *)
(***************************************************************************)
EXTENDS Naturals, Sequences

CONSTANTS
    Handlers,     \* requests the server works on at the same time
    NULL,
    Sent,         \* bound: the kinds of requests clients send
    GetQueries,   \* bound: queries of one Get, seven in the code
    MaxRows       \* bound: batches that match a listing

VARIABLES
    at,        \* where a handler is in its request
    kind,      \* the kind of its request, NULL before the first
    todo,      \* the connection demands it has still to make
    expired,   \* the deadline of its request has passed
    rows,      \* the handlers with rows open
    holder     \* the handler that has the connection, NULL when it is free

vars == <<at, kind, todo, expired, rows, holder>>

Kinds == {"write", "issue", "read", "audit", "list"}

Demands == {"use", "open", "close"}

ASSUME PoolTyping ==
    /\ Sent \subseteq Kinds /\ NULL \notin Handlers \cup Kinds
    /\ GetQueries \in Nat \ {0} /\ MaxRows \in Nat

Resting == {"idle", "answered", "failed"}
Places == Resting \cup {"ready", "waiting", "querying"}

Busy(h) == at[h] \notin Resting
Waiting(place) == {h \in Handlers : place[h] = "waiting"}

-----------------------------------------------------------------------------
(* The demands of each kind of request.                                    *)

Uses(n) == [i \in 1 .. n |-> "use"]

\* Mutant: the transaction loads its batch with s.db, which needs another one.
WriteScript_LoadOutside == <<"open">> \o Uses(GetQueries) \o <<"close">>

\* One transaction of Create or Mutate; a request for one credential is alike.
WriteScript == Uses(1)

\* The lookup of the key, the draw of the serial, the transaction.
IssueScript == Uses(3)

\* Get, whatever is made of the batch: one query for each of its tables.
ReadScript == Uses(GetQueries)

\* Get, for the batch to be there, and the query of its events.
AuditScript == Uses(GetQueries + 1)

\* A listing of n batches, after a lookup of its cursor if c = 1: Get is called
\* for each row while the rows are open.
Listing(c, n) ==
    Uses(c) \o <<"open">> \o Uses(n * GetQueries) \o <<"close">>

Scripts(k) ==
    CASE k = "write" -> {WriteScript}
      [] k = "issue" -> {IssueScript}
      [] k = "read"  -> {ReadScript}
      [] k = "audit" -> {AuditScript}
      [] k = "list"  -> {Listing(c, n) : c \in 0 .. 1, n \in 0 .. MaxRows}

-----------------------------------------------------------------------------

Init ==
    /\ at = [h \in Handlers |-> "idle"]
    /\ kind = [h \in Handlers |-> NULL]
    /\ todo = [h \in Handlers |-> <<>>]
    /\ expired = [h \in Handlers |-> FALSE]
    /\ rows = {}
    /\ holder = NULL

\* The connection comes back; place is where the handlers are without it.
HandOver(place) ==
    \/ /\ Waiting(place) = {}
       /\ holder' = NULL
       /\ at' = place
    \/ \E g \in Waiting(place) :
           /\ holder' = g
           /\ at' = [place EXCEPT ![g] = "querying"]

Arrive(h) ==
    /\ ~Busy(h)
    /\ at' = [at EXCEPT ![h] = "ready"]
    /\ expired' = [expired EXCEPT ![h] = FALSE]
    /\ \E k \in Sent : \E s \in Scripts(k) :
           /\ kind' = [kind EXCEPT ![h] = k]
           /\ todo' = [todo EXCEPT ![h] = s]
    /\ UNCHANGED <<rows, holder>>

Demanding(h) == at[h] = "ready" /\ todo[h] # <<>> /\ Head(todo[h]) # "close"

\* A call for the connection: it is free, or another call has it, this
\* handler's own open rows included.
Take(h) ==
    /\ Demanding(h) /\ ~expired[h] /\ holder = NULL
    /\ at' = [at EXCEPT ![h] = "querying"]
    /\ holder' = h
    /\ UNCHANGED <<kind, todo, expired, rows>>

Queue(h) ==
    /\ Demanding(h) /\ ~expired[h] /\ holder # NULL
    /\ at' = [at EXCEPT ![h] = "waiting"]
    /\ UNCHANGED <<kind, todo, expired, rows, holder>>

\* The query or the transaction of a "use" is done.
Use(h) ==
    /\ at[h] = "querying" /\ Head(todo[h]) = "use"
    /\ HandOver([at EXCEPT ![h] = "ready"])
    /\ todo' = [todo EXCEPT ![h] = Tail(todo[h])]
    /\ UNCHANGED <<kind, expired, rows>>

\* The query of a listing has its rows and keeps the connection.
OpenRows(h) ==
    /\ at[h] = "querying" /\ Head(todo[h]) = "open"
    /\ at' = [at EXCEPT ![h] = "ready"]
    /\ rows' = rows \cup {h}
    /\ todo' = [todo EXCEPT ![h] = Tail(todo[h])]
    /\ UNCHANGED <<kind, expired, holder>>

\* All rows are read.
CloseRows(h) ==
    /\ at[h] = "ready" /\ h \in rows
    /\ todo[h] # <<>> /\ Head(todo[h]) = "close"
    /\ HandOver(at)
    /\ rows' = rows \ {h}
    /\ todo' = [todo EXCEPT ![h] = Tail(todo[h])]
    /\ UNCHANGED <<kind, expired>>

Finish(h) ==
    /\ at[h] = "ready" /\ todo[h] = <<>>
    /\ at' = [at EXCEPT ![h] = "answered"]
    /\ UNCHANGED <<kind, todo, expired, rows, holder>>

\* The request ends before its script does; deferred calls close what it has.
End(h, outcome) ==
    /\ LET place == [at EXCEPT ![h] = outcome] IN
       IF holder = h
       THEN HandOver(place)
       ELSE at' = place /\ UNCHANGED holder
    /\ rows' = rows \ {h}
    /\ todo' = [todo EXCEPT ![h] = <<>>]
    /\ UNCHANGED <<kind, expired>>

\* An unknown batch or cursor, or a known key: the first call decides the reply.
Decide(h) ==
    /\ at[h] = "querying" /\ Head(todo[h]) = "use"
    /\ todo[h] \in Scripts(kind[h])
    /\ End(h, "answered")

\* Mutant: no deferred tx.Rollback.
QueryFails_Kept(h) ==
    /\ at[h] = "querying"
    /\ at' = [at EXCEPT ![h] = "failed"]
    /\ todo' = [todo EXCEPT ![h] = <<>>]
    /\ UNCHANGED <<kind, expired, rows, holder>>

\* The database returns an error, or the context ended under the query.
QueryFails(h) ==
    /\ at[h] = "querying"
    /\ End(h, "failed")

\* A call after the deadline gets the error of the context, and rows cut by it
\* end with that error.
CallFails(h) ==
    /\ at[h] = "ready" /\ expired[h] /\ todo[h] # <<>>
    /\ Head(todo[h]) # "close" \/ h \notin rows
    /\ End(h, "failed")

\* Mutant: a server without requestDeadline.
Expire_Never(h) == FALSE

Expire(h) ==
    /\ Busy(h) /\ ~expired[h]
    /\ expired' = [expired EXCEPT ![h] = TRUE]
    /\ UNCHANGED <<at, kind, todo, rows, holder>>

\* database/sql closes the rows of an ended context; the connection may go to
\* the handler that lost it, which was waiting for it.
Cut(h) ==
    /\ expired[h] /\ h \in rows
    /\ HandOver(at)
    /\ rows' = rows \ {h}
    /\ UNCHANGED <<kind, todo, expired>>

\* Mutant: ListFiltered without the deferred rows.Close.
GiveUp_RowsKept(h) ==
    /\ at[h] = "waiting" /\ expired[h]
    /\ at' = [at EXCEPT ![h] = "failed"]
    /\ todo' = [todo EXCEPT ![h] = <<>>]
    /\ UNCHANGED <<kind, expired, rows, holder>>

\* A waiting call returns when its context ends.
GiveUp(h) ==
    /\ at[h] = "waiting" /\ expired[h]
    /\ End(h, "failed")

-----------------------------------------------------------------------------

Work(h) ==
    \/ Take(h) \/ Queue(h)
    \/ Use(h) \/ OpenRows(h) \/ CloseRows(h)
    \/ Finish(h) \/ Decide(h) \/ QueryFails(h) \/ CallFails(h)

Next ==
    \E h \in Handlers :
        Arrive(h) \/ Work(h) \/ Expire(h) \/ Cut(h) \/ GiveUp(h)

Granted(h) == Next /\ at[h] = "waiting" /\ at'[h] = "querying"

\* A handler that can go on does, and a context that has ended is noticed.  The
\* waiter that gets the connection is drawn at random, so none is passed over
\* for ever.
Fairness ==
    \A h \in Handlers :
        WF_vars(Work(h)) /\ WF_vars(Cut(h)) /\ WF_vars(GiveUp(h))
            /\ SF_vars(Granted(h))

Spec == Init /\ [][Next]_vars /\ Fairness

\* The deadline of a request that goes on passes: fifteen seconds are finite.
TimedSpec == Spec /\ \A h \in Handlers : WF_vars(Expire(h))

-----------------------------------------------------------------------------
(* Properties.                                                             *)

TypeOK ==
    /\ at \in [Handlers -> Places]
    /\ kind \in [Handlers -> Kinds \cup {NULL}]
    /\ todo \in [Handlers -> Seq(Demands)]
    /\ expired \in [Handlers -> BOOLEAN]
    /\ rows \subseteq Handlers
    /\ holder \in Handlers \cup {NULL}

\* The connection is out exactly while a query runs on it or rows are open on
\* it, one at a time, and a request that is over keeps neither: whatever the
\* order of deadlines, errors and deferred calls, it is not leaked.
ConnectionAccounted ==
    \A h \in Handlers :
        /\ holder = h <=> at[h] = "querying" \/ h \in rows
        /\ h \in rows => at[h] \in {"ready", "waiting"}

\* Nobody waits for a connection that is free: a return is never lost.
NobodyForgotten == Waiting(at) # {} => holder # NULL

\* Only a listing waits for the connection while it has it: every other request
\* returns the connection between two calls.
HoldAndWait ==
    \A h \in Handlers : holder = h /\ at[h] = "waiting" => kind[h] = "list"

\* What the invariants rest on: only listings have demands other than "use",
\* rows that are opened are closed later, and a handler with a call under way
\* has a demand for it.
Orderly(k, script) ==
    /\ k # "list" => \A i \in 1 .. Len(script) : script[i] = "use"
    /\ \A i \in 1 .. Len(script) : script[i] = "open" => i < Len(script)

ScriptState ==
    \A h \in Handlers :
        /\ Orderly(kind[h], todo[h])
        /\ at[h] \in {"waiting", "querying"} =>
               todo[h] # <<>> /\ Head(todo[h]) # "close"
        /\ h \in rows => kind[h] = "list" /\ todo[h] # <<>>

IInv ==
    /\ TypeOK
    /\ ConnectionAccounted
    /\ NobodyForgotten
    /\ ScriptState

\* The deadline of server.go ends every request, whatever it waits for: a
\* listing that waits for itself, and the requests that wait for it.
RequestsEnd == \A h \in Handlers : Busy(h) ~> ~Busy(h)

\* As long as no deadline passes and no query fails.
Untroubled == \A h \in Handlers : ~expired[h] /\ at[h] # "failed"

\* Requests that are not troubled are answered: sharing one connection, they
\* neither wait for each other for ever nor for themselves.
RequestsAnswered ==
    []Untroubled => \A h \in Handlers : Busy(h) ~> at[h] = "answered"

\* The listing that the interface promises is answered.
ListingsAnswered ==
    []Untroubled => \A h \in Handlers :
        (Busy(h) /\ kind[h] = "list") ~> at[h] = "answered"

=============================================================================
