------------------------- MODULE CommandLedgerProofs -------------------------
(***************************************************************************)
(* The store implements the command ledger, for any number of batches,     *)
(* keys and concurrent requests, and what the audit query finds of it.     *)
(*                                                                         *)
(* Both rest on one fact: a version of a batch has exactly one key and one *)
(* audit event.  The ledger read off the tables is then extended by a      *)
(* transaction that commits and by nothing else.                           *)
(***************************************************************************)
EXTENDS ReleaseStoreProofs, SequenceTheorems, FiniteSetTheorems

\* Two events of one batch and one version are one event.
LEMMA EventUnique ==
    ASSUME IInv, NEW i \in DOMAIN audit, NEW j \in DOMAIN audit,
           audit[i].batch = audit[j].batch, audit[i].version = audit[j].version
    PROVE  i = j
<1>1. /\ audit \in Seq(Result) /\ DOMAIN audit = 1 .. Len(audit)
      /\ Len(audit) \in Nat
  BY DEF IInv, TypeOK
<1>2. audit[i] \in Result /\ audit[j] \in Result
  BY <1>1
<1>3. audit[i].version \in Nat /\ audit[j].version \in Nat
  BY <1>2, ResultFields
<1>4. CASE i < j
  BY <1>3, <1>4 DEF IInv, AuditTrail
<1>5. CASE j < i
  BY <1>3, <1>5 DEF IInv, AuditTrail
<1> QED BY <1>1, <1>4, <1>5

\* k is the key under which version v of batch b was written.
Wrote(k, b, v) ==
    results[k] # NULL /\ results[k].batch = b /\ results[k].version = v

\* Every version has a key, and KeyOf is the only one it has.
KeyFound ==
    \A b \in Batches : \A v \in 1 .. version[b] :
        /\ KeyOf(b, v) \in Keys /\ Wrote(KeyOf(b, v), b, v)
        /\ \A k \in Keys : Wrote(k, b, v) => k = KeyOf(b, v)

LEMMA KeysFound == IInv => KeyFound
<1> SUFFICES ASSUME IInv, NEW b \in Batches, NEW v \in 1 .. version[b]
             PROVE  /\ KeyOf(b, v) \in Keys /\ Wrote(KeyOf(b, v), b, v)
                    /\ \A k \in Keys : Wrote(k, b, v) => k = KeyOf(b, v)
  BY DEF KeyFound
<1>1. PICK i \in DOMAIN audit : audit[i].batch = b /\ audit[i].version = v
  BY DEF IInv, AuditTrail
<1>2. PICK k \in Keys : results[k] = audit[i]
  BY DEF IInv, KeysMatchAudit
<1>3. audit[i] \in Result
  BY DEF IInv, TypeOK
<1>4. Wrote(k, b, v)
  BY <1>1, <1>2, <1>3, ResultNotNull DEF Wrote
<1>5. KeyOf(b, v) \in Keys /\ Wrote(KeyOf(b, v), b, v)
  BY <1>4 DEF KeyOf, Wrote
<1>6. ASSUME NEW l \in Keys, NEW m \in Keys, Wrote(l, b, v), Wrote(m, b, v)
      PROVE  l = m
  <2>1. PICK x \in DOMAIN audit : audit[x] = results[l]
    BY <1>6 DEF IInv, KeysMatchAudit, Wrote
  <2>2. PICK y \in DOMAIN audit : audit[y] = results[m]
    BY <1>6 DEF IInv, KeysMatchAudit, Wrote
  <2>3. x = y
    BY <1>6, <2>1, <2>2, EventUnique DEF Wrote
  <2> QED BY <1>6, <2>1, <2>2, <2>3 DEF IInv, KeysMatchAudit, Wrote
<1> QED BY <1>5, <1>6

-----------------------------------------------------------------------------
(* The ledger read off the tables.                                         *)

Entries == [key : Keys, action : Actions]

Entry(b, v) == [key |-> KeyOf(b, v), action |-> results[KeyOf(b, v)].action]

List(b) == [v \in 1 .. version[b] |-> Entry(b, v)]

\* The entries of a batch are typed and carry keys that have a result.
ListTyped ==
    \A b \in Batches :
        /\ version[b] \in Nat
        /\ List(b) \in [1 .. version[b] -> Entries]
        /\ \A v \in 1 .. version[b] : results[List(b)[v].key] # NULL

LEMMA Listed == IInv => ListTyped
<1> SUFFICES ASSUME IInv, NEW b \in Batches
             PROVE  /\ version[b] \in Nat
                    /\ List(b) \in [1 .. version[b] -> Entries]
                    /\ \A v \in 1 .. version[b] : results[List(b)[v].key] # NULL
  BY DEF ListTyped
<1>1. KeyFound /\ version[b] \in Nat
  BY KeysFound, BoundsTyping DEF IInv, TypeOK
<1>2. ASSUME NEW v \in 1 .. version[b]
      PROVE  Entry(b, v) \in Entries /\ results[Entry(b, v).key] # NULL
  <2>1. KeyOf(b, v) \in Keys /\ results[KeyOf(b, v)] # NULL
    BY <1>1 DEF KeyFound, Wrote
  <2>2. results[KeyOf(b, v)] \in Result
    BY <2>1 DEF IInv, TypeOK
  <2>3. results[KeyOf(b, v)].action \in Actions
    BY <2>2 DEF Result
  <2> QED BY <2>1, <2>3 DEF Entry, Entries
<1> QED BY <1>1, <1>2 DEF List, Entry

\* A function that is another one and one element more.
LEMMA AppendFunction ==
    ASSUME NEW S, NEW n \in Nat, NEW f \in [1 .. n -> S], NEW e \in S,
           NEW g \in [1 .. n + 1 -> S],
           \A i \in 1 .. n : g[i] = f[i], g[n + 1] = e
    PROVE  g = Append(f, e)
<1>1. /\ f \in Seq(S) /\ Len(f) = n
      /\ g \in Seq(S) /\ Len(g) = n + 1
  OBVIOUS
<1>2. /\ Append(f, e) \in Seq(S) /\ Len(Append(f, e)) = n + 1
      /\ \A i \in 1 .. n : Append(f, e)[i] = f[i]
      /\ Append(f, e)[n + 1] = e
  BY <1>1, AppendProperties
<1>3. \A i \in 1 .. n + 1 : i \in 1 .. n \/ i = n + 1
  OBVIOUS
<1>4. \A i \in 1 .. Len(g) : g[i] = Append(f, e)[i]
  BY <1>1, <1>2, <1>3
<1> DEFINE h == Append(f, e)
<1>5. h \in Seq(S) /\ Len(h) = Len(g) /\ \A i \in 1 .. Len(g) : g[i] = h[i]
  BY <1>1, <1>2, <1>4
<1> HIDE DEF h
<1>6. g = h
  BY <1>1, <1>5, SeqEqual
<1> QED BY <1>6 DEF h

\* A transaction that writes the next version n of a batch under a new key
\* extends the list of that batch and leaves the others as they were.
LEMMA ListExtended ==
    ASSUME IInv, IInv', NEW b \in Batches, NEW k \in Keys, NEW a \in Actions,
           NEW n, n = version[b] + 1,
           results[k] = NULL, version' = [version EXCEPT ![b] = n],
           results' = [results EXCEPT ![k] =
                [action |-> a, batch |-> b, version |-> n]]
    PROVE  /\ List(b)' = Append(List(b), [key |-> k, action |-> a])
           /\ \A c \in Batches : c # b => List(c)' = List(c)
<1>1. KeyFound /\ KeyFound'
  <2>1. IInv' => KeyFound'
    BY KeysFound, PTL
  <2> QED BY <2>1, KeysFound
<1>2. /\ version \in [Batches -> 0 .. MaxVersion] /\ version[b] \in Nat
      /\ results \in [Keys -> Result \cup {NULL}]
  BY BoundsTyping DEF IInv, TypeOK
<1>3. /\ version'[b] = n /\ n \in Nat
      /\ \A c \in Batches : c # b => version'[c] = version[c]
      /\ results'[k] = [action |-> a, batch |-> b, version |-> n]
      /\ \A l \in Keys : l # k => results'[l] = results[l]
  BY <1>2
<1>4. \A c \in Batches : \A v \in 1 .. version'[c] : \A l \in Keys :
        results'[l] # NULL /\ results'[l].batch = c /\ results'[l].version = v
            => l = KeyOf(c, v)'
  BY <1>1 DEF KeyFound, Wrote
<1>5. ASSUME NEW c \in Batches, NEW v \in 1 .. version[c]
      PROVE  v \in 1 .. version'[c] /\ Entry(c, v)' = Entry(c, v)
  <2>1. v \in 1 .. version'[c]
    <3>1. c # b => version'[c] = version[c]
      BY <1>3
    <3>2. CASE c = b
      BY <1>2, <1>3, <3>2
    <3>3. CASE c # b
      BY <3>1, <3>3
    <3> QED BY <3>2, <3>3
  <2>2. KeyOf(c, v) \in Keys /\ Wrote(KeyOf(c, v), c, v)
    BY <1>1 DEF KeyFound
  <2>3. results'[KeyOf(c, v)] = results[KeyOf(c, v)]
    BY <1>3, <2>2 DEF Wrote
  <2>4. KeyOf(c, v)' = KeyOf(c, v)
    BY <1>4, <2>1, <2>2, <2>3 DEF Wrote
  <2> QED BY <2>1, <2>3, <2>4 DEF Entry
<1>6. Entry(b, n)' = [key |-> k, action |-> a]
  <2>1. n \in 1 .. version'[b]
    BY <1>2, <1>3
  <2>2. results'[k] # NULL
    <3>1. n \in 1 .. MaxVersion
      BY <2>1, <1>3, BoundsTyping DEF IInv, TypeOK
    <3>2. results'[k] \in Result
      BY <1>3, <3>1 DEF Result
    <3> QED BY <3>2, ResultNotNull
  <2>3. KeyOf(b, n)' = k
    BY <1>3, <1>4, <2>1, <2>2
  <2> QED BY <1>3, <2>3 DEF Entry
<1>7. ASSUME NEW c \in Batches, c # b PROVE List(c)' = List(c)
  BY <1>3, <1>5, <1>7 DEF List
<1>8. List(b)' = Append(List(b), [key |-> k, action |-> a])
  <2>1. /\ List(b) \in [1 .. version[b] -> Entries]
        /\ List(b)' \in [1 .. version[b] + 1 -> Entries]
    <3>1. IInv' => ListTyped'
      BY Listed, PTL
    <3> QED BY <1>3, <3>1, Listed DEF ListTyped
  <2>2. [key |-> k, action |-> a] \in Entries
    BY DEF Entries
  <2>3. /\ \A v \in 1 .. version[b] : List(b)'[v] = List(b)[v]
        /\ List(b)'[version[b] + 1] = [key |-> k, action |-> a]
    BY <1>2, <1>3, <1>5, <1>6 DEF List
  <2> QED BY <1>2, <2>1, <2>2, <2>3, AppendFunction
<1> QED BY <1>7, <1>8

-----------------------------------------------------------------------------
(* The refinement.                                                         *)

Lists == [b \in Batches |-> List(b)]

\* Such a transaction applies a command to the ledger.
LEMMA Applied ==
    ASSUME IInv, IInv', NEW b \in Batches, NEW k \in Keys, NEW a \in Actions,
           NEW n, n = version[b] + 1,
           results[k] = NULL, version' = [version EXCEPT ![b] = n],
           results' = [results EXCEPT ![k] =
                [action |-> a, batch |-> b, version |-> n]],
           serial[b] = 0, a = "create_batch" <=> version[b] = 0
    PROVE  Ledger!Apply(b, k, a)
<1>1. Lists' = [Lists EXCEPT ![b] = Append(@, [key |-> k, action |-> a])]
  BY ListExtended DEF Lists
<1>2. ASSUME NEW c \in Batches, NEW i \in DOMAIN Lists[c]
      PROVE  Lists[c][i].key # k
  BY Listed DEF Lists, ListTyped
<1>3. a = "create_batch" <=> Lists[b] = <<>>
  <2>1. List(b) \in [1 .. version[b] -> Entries] /\ version[b] \in Nat
    BY Listed DEF ListTyped
  <2>2. List(b) = <<>> <=> version[b] = 0
    BY <2>1
  <2> QED BY <2>2 DEF Lists
<1> QED BY <1>1, <1>2, <1>3
        DEF Ledger!Apply, Ledger!Used, Ledger!Released, Lists, List, Entry

\* Create and Mutate apply a command, whatever else is under way.
LEMMA StepRefines == IInv /\ IInv' /\ [Next]_vars => [Ledger!Next]_(Ledger!vars)
<1> SUFFICES ASSUME IInv, IInv', [Next]_vars PROVE [Ledger!Next]_(Ledger!vars)
  OBVIOUS
<1>1. ASSUME NEW h \in Handlers, pc[h] = "transact"
      PROVE  /\ request[h] \in Request
             /\ request[h].batch \in Batches /\ request[h].key \in Keys
             /\ request[h].action \in Actions
  <2>1. request[h] \in Request
    BY <1>1 DEF IInv, TypeOK, HandlerState
  <2> QED BY <2>1 DEF Request
<1>2. ASSUME NEW h \in Handlers, TransactCreate(h) PROVE Ledger!Next
  <2>1. PICK b \in Batches, k \in Keys, a \in Actions :
            request[h].batch = b /\ request[h].key = k /\ request[h].action = a
    BY <1>1, <1>2 DEF TransactCreate
  <2>2. /\ a = "create_batch" /\ results[k] = NULL /\ stage[b] = "none"
        /\ version' = [version EXCEPT ![b] = 1] /\ serial' = serial
        /\ results' = [results EXCEPT ![k] =
              [action |-> a, batch |-> b, version |-> 1]]
    BY <1>2, <2>1 DEF TransactCreate, KnownKey, Record, IInv, HandlerState
  <2>3. version[b] = 0 /\ serial[b] = 0
    BY <2>2 DEF IInv, StageOfVersion, CredentialsSound
  <2>4. Ledger!Apply(b, k, a)
    <3>1. 1 = version[b] + 1
      BY <2>3
    <3> QED BY <2>2, <2>3, <3>1, Applied
  <2> QED BY <2>2, <2>4 DEF Ledger!Next, Ledger!Change
<1>3. ASSUME NEW h \in Handlers, TransactMutate(h) PROVE Ledger!Next
  <2>1. PICK b \in Batches, k \in Keys, a \in Actions :
            request[h].batch = b /\ request[h].key = k /\ request[h].action = a
    BY <1>1, <1>3 DEF TransactMutate
  <2>2. PICK d \in 0 .. MaxSerial : drawn[h] = d
    BY DEF IInv, TypeOK
  <2>3. PICK n : n = version[b] + 1
    OBVIOUS
  <2>4. /\ a # "create_batch" /\ results[k] = NULL
        /\ version' = [version EXCEPT ![b] = n]
        /\ Allowed(request[h]) /\ serial' = SavedSerial(h)
        /\ results' = [results EXCEPT ![k] =
              [action |-> a, batch |-> b, version |-> n]]
    BY <1>3, <2>1, <2>3 DEF TransactMutate, KnownKey, Record, NewVersion
  <2>5. /\ a = "issue_credential" => stage[b] = "frozen"
        /\ a # "issue_credential" => stage[b] = "open"
    BY <2>1, <2>4, ChangesApart DEF Allowed, Actions, StageActions
  <2>6. version[b] # 0 /\ serial[b] = 0
    BY <2>5 DEF IInv, StageOfVersion, CredentialsSound
  <2>7. Ledger!Apply(b, k, a)
    BY <2>3, <2>4, <2>6, Applied
  <2>8. CASE a = "issue_credential"
    <3>1. d # 0 /\ \A c \in Batches : serial[c] # d
      BY <1>3, <2>1, <2>2, <2>8 DEF TransactMutate, IInv, DrawnFresh
    <3>2. serial' = [serial EXCEPT ![b] = d]
      BY <2>1, <2>2, <2>4, <2>6, <2>8, <3>1 DEF SavedSerial
    <3>3. d \in 1 .. MaxSerial
      BY <3>1, BoundsTyping
    <3> QED BY <2>7, <2>8, <3>1, <3>2, <3>3 DEF Ledger!Next, Ledger!Release
  <2>9. CASE a # "issue_credential"
    <3>1. serial' = serial
      BY <2>1, <2>4, <2>9 DEF SavedSerial
    <3> QED BY <2>7, <2>9, <3>1 DEF Ledger!Next, Ledger!Change
  <2> QED BY <2>8, <2>9
<1>4. CASE UNCHANGED <<version, results, serial>>
  BY <1>4 DEF Ledger!vars, KeyOf
<1>5. CASE Next /\ ~UNCHANGED <<version, results, serial>>
  <2>1. \E h \in Handlers : TransactCreate(h) \/ TransactMutate(h)
    BY <1>5 DEF Next, Receive, Lookup, Draw, TransactKnown, TransactRefuse,
                Reply, GiveUp, Crash, table
  <2> QED BY <1>2, <1>3, <2>1
<1> QED BY <1>4, <1>5 DEF vars

\* The tables together are one list of commands per batch in which a key
\* appears once (Create, Mutate).
THEOREM LedgerRefined == Spec => ImplementsLedger
<1>1. Init => Ledger!Init
  <2> SUFFICES ASSUME Init PROVE Ledger!Init
    OBVIOUS
  <2>1. \A b \in Batches : List(b) = <<>>
    BY DEF Init, List
  <2>2. Lists = [b \in Batches |-> <<>>]
    BY <2>1 DEF Lists
  <2> QED BY <2>2 DEF Init, Ledger!Init, Lists, List, Entry
<1> QED BY <1>1, StepRefines, StoreInvariance, PTL
        DEF Spec, ImplementsLedger, Ledger!Spec

-----------------------------------------------------------------------------
(* What the ledger promises.                                               *)

\* One list grows by one entry, the others stay.
LEMMA OneGrows ==
    ASSUME NEW L \in [Batches -> Seq(Entries)], NEW b \in Batches,
           NEW e \in Entries, NEW M, M = [L EXCEPT ![b] = Append(@, e)]
    PROVE  /\ M \in [Batches -> Seq(Entries)]
           /\ \A c \in Batches : c # b => M[c] = L[c]
           /\ Len(L[b]) \in Nat /\ Len(M[b]) = Len(L[b]) + 1
           /\ DOMAIN L[b] = 1 .. Len(L[b]) /\ DOMAIN M[b] = 1 .. Len(L[b]) + 1
           /\ \A i \in DOMAIN L[b] : M[b][i] = L[b][i]
           /\ M[b][Len(L[b]) + 1] = e
<1>1. L[b] \in Seq(Entries) /\ M[b] = Append(L[b], e)
  OBVIOUS
<1>2. /\ Append(L[b], e) \in Seq(Entries)
      /\ Len(Append(L[b], e)) = Len(L[b]) + 1
      /\ \A i \in 1 .. Len(L[b]) : Append(L[b], e)[i] = L[b][i]
      /\ Append(L[b], e)[Len(L[b]) + 1] = e
  BY <1>1, AppendProperties
<1> QED BY <1>1, <1>2

\* The promises of CommandLedger, of any lists and serials.
Kept(L, s) ==
    /\ L \in [Batches -> Seq(Entries)] /\ s \in [Batches -> 0 .. MaxSerial]
    /\ \A b, c \in Batches : \A i \in DOMAIN L[b], j \in DOMAIN L[c] :
        L[b][i].key = L[c][j].key => b = c /\ i = j
    /\ \A b \in Batches : \A i \in DOMAIN L[b] :
        L[b][i].action = "create_batch" <=> i = 1
    /\ \A b \in Batches :
        /\ s[b] # 0 => L[b] # <<>>
        /\ \A i \in DOMAIN L[b] :
            L[b][i].action = "issue_credential" <=> s[b] # 0 /\ i = Len(L[b])
    /\ \A b, c \in Batches : s[b] # 0 /\ s[b] = s[c] => b = c

\* M and t are L and s after action a on batch b under key k.
Extends(L, s, M, t, b, k, a) ==
    /\ M = [L EXCEPT ![b] = Append(@, [key |-> k, action |-> a])]
    /\ \A c \in Batches : \A i \in DOMAIN L[c] : L[c][i].key # k
    /\ s[b] = 0 /\ (a = "create_batch" <=> L[b] = <<>>)
    /\ t \in [Batches -> 0 .. MaxSerial]
    /\ \A c \in Batches : c # b => t[c] = s[c]
    /\ t[b] # 0 <=> a = "issue_credential"
    /\ \A c \in Batches : t[b] # 0 => s[c] # t[b]

\* One action on one batch keeps the promises.
LEMMA EntryKeeps ==
    ASSUME NEW b \in Batches, NEW k \in Keys, NEW a \in Actions,
           NEW L, NEW s, NEW M, NEW t, Kept(L, s), Extends(L, s, M, t, b, k, a)
    PROVE  Kept(M, t)
<1> DEFINE e == [key |-> k, action |-> a]
<1>1. L \in [Batches -> Seq(Entries)] /\ e \in Entries
  BY DEF Kept, Entries
<1>2. /\ M = [L EXCEPT ![b] = Append(@, e)] /\ t \in [Batches -> 0 .. MaxSerial]
      /\ \A c \in Batches : \A i \in DOMAIN L[c] : L[c][i].key # k
      /\ s[b] = 0 /\ (a = "create_batch" <=> L[b] = <<>>)
      /\ \A c \in Batches : c # b => t[c] = s[c]
      /\ t[b] # 0 <=> a = "issue_credential"
      /\ \A c \in Batches : t[b] # 0 => s[c] # t[b]
  BY DEF Extends
<1>3. /\ M \in [Batches -> Seq(Entries)]
      /\ \A c \in Batches : c # b => M[c] = L[c]
      /\ Len(L[b]) \in Nat /\ Len(M[b]) = Len(L[b]) + 1
      /\ DOMAIN L[b] = 1 .. Len(L[b]) /\ DOMAIN M[b] = 1 .. Len(L[b]) + 1
      /\ \A i \in DOMAIN L[b] : M[b][i] = L[b][i]
      /\ M[b][Len(L[b]) + 1] = e
  BY <1>1, <1>2, OneGrows
<1>4. e.key = k /\ e.action = a
  OBVIOUS
<1> HIDE DEF e
<1>5. \A i \in DOMAIN M[b] : i \in DOMAIN L[b] \/ i = Len(L[b]) + 1
  BY <1>3
<1>6. ASSUME NEW c \in Batches, NEW d \in Batches, NEW i \in DOMAIN M[c],
             NEW j \in DOMAIN M[d], M[c][i].key = M[d][j].key
      PROVE  c = d /\ i = j
  <2>1. CASE M[c][i].key = k
    BY <1>2, <1>3, <1>4, <1>5, <1>6, <2>1 DEF Kept
  <2>2. CASE M[c][i].key # k
    <3>1. \A x \in Batches : \A y \in DOMAIN M[x] : M[x][y].key # k =>
            y \in DOMAIN L[x] /\ M[x][y] = L[x][y]
      BY <1>3, <1>4, <1>5
    <3>2. M[d][j].key # k
      BY <1>6, <2>2
    <3>3. L[c][i].key = L[d][j].key /\ i \in DOMAIN L[c] /\ j \in DOMAIN L[d]
      BY <1>6, <2>2, <3>1, <3>2
    <3> QED BY <3>3 DEF Kept
  <2> QED BY <2>1, <2>2
<1>7. ASSUME NEW c \in Batches, NEW i \in DOMAIN M[c]
      PROVE  M[c][i].action = "create_batch" <=> i = 1
  <2>1. L[b] = <<>> <=> Len(L[b]) = 0
    BY <1>1
  <2> QED BY <1>2, <1>3, <1>4, <1>5, <2>1 DEF Kept
<1>8. ASSUME NEW c \in Batches
      PROVE  /\ t[c] # 0 => M[c] # <<>>
             /\ \A i \in DOMAIN M[c] :
                  M[c][i].action = "issue_credential"
                    <=> t[c] # 0 /\ i = Len(M[c])
  <2>1. CASE c = b
    <3>1. M[b] # <<>>
      BY <1>3
    <3>2. ASSUME NEW i \in DOMAIN L[b]
          PROVE  M[b][i].action # "issue_credential" /\ i # Len(M[b])
      BY <1>2, <1>3, <3>2 DEF Kept
    <3> QED BY <1>2, <1>3, <1>4, <1>5, <2>1, <3>1, <3>2
  <2>2. CASE c # b
    BY <1>2, <1>3, <2>2 DEF Kept
  <2> QED BY <2>1, <2>2
<1>9. ASSUME NEW c \in Batches, NEW d \in Batches, t[c] # 0, t[c] = t[d]
      PROVE  c = d
  BY <1>2, <1>9 DEF Kept
<1> QED BY SMTT(30), <1>2, <1>3, <1>6, <1>7, <1>8, <1>9 DEF Kept

\* What the ledger promises, proved of the ledger itself: a key stands at one
\* place of one list, a list begins with the creation and is closed by the
\* release, a serial is one batch's, and nothing is undone.  With LedgerRefined
\* and ServerIsLedger this holds of the tables of every server.
THEOREM LedgerPromise ==
    Ledger!Spec => /\ [](/\ Ledger!TypeOK
                        /\ Ledger!KeysOnce /\ Ledger!CreatedFirst
                        /\ Ledger!ReleasedLast /\ Ledger!SerialsOnce)
                   /\ Ledger!NothingUndone
<1> DEFINE K == Kept(Lists, serial)
           Done == \A b \in Batches :
            /\ \A i \in DOMAIN Lists[b] :
                i \in DOMAIN Lists'[b] /\ Lists'[b][i] = Lists[b][i]
            /\ serial[b] # 0 => Lists'[b] = Lists[b] /\ serial'[b] = serial[b]
<1>1. Ledger!Init => K
  <2> SUFFICES ASSUME Ledger!Init PROVE K
    OBVIOUS
  <2>1. Lists = [b \in Batches |-> <<>>] /\ serial = [b \in Batches |-> 0]
    BY DEF Ledger!Init, Lists, List, Entry
  <2>2. 0 \in 0 .. MaxSerial
    BY BoundsTyping
  <2> QED BY <2>1, <2>2 DEF Kept
<1>2. ASSUME K, NEW b \in Batches, NEW k \in Keys, NEW a \in Actions,
             Ledger!Apply(b, k, a), serial' \in [Batches -> 0 .. MaxSerial],
             \A c \in Batches : c # b => serial'[c] = serial[c],
             serial'[b] # 0 <=> a = "issue_credential",
             \A c \in Batches : serial'[b] # 0 => serial[c] # serial'[b]
      PROVE  K' /\ Done
  <2>1. /\ Lists' = [Lists EXCEPT ![b] = Append(@, [key |-> k, action |-> a])]
        /\ \A c \in Batches : \A i \in DOMAIN Lists[c] : Lists[c][i].key # k
        /\ serial[b] = 0 /\ (a = "create_batch" <=> Lists[b] = <<>>)
    BY <1>2 DEF Ledger!Apply, Ledger!Used, Ledger!Released, Lists, List, Entry
  <2>2. K'
    <3>1. Kept(Lists', serial')
      <4>1. PICK L, s, M, t : L = Lists /\ s = serial /\ M = Lists' /\ t = serial'
        OBVIOUS
      <4>2. Kept(L, s) /\ Extends(L, s, M, t, b, k, a)
        BY <1>2, <2>1, <4>1 DEF Extends
      <4>3. Kept(M, t)
        BY <4>2, EntryKeeps
      <4> QED BY <4>1, <4>3
    <3> QED BY <3>1 DEF Kept
  <2>3. ASSUME NEW c \in Batches
        PROVE  /\ \A i \in DOMAIN Lists[c] :
                    i \in DOMAIN Lists'[c] /\ Lists'[c][i] = Lists[c][i]
               /\ serial[c] # 0 => Lists'[c] = Lists[c] /\ serial'[c] = serial[c]
    <3>1. /\ Lists \in [Batches -> Seq(Entries)]
          /\ [key |-> k, action |-> a] \in Entries
      BY <1>2 DEF Kept, Entries
    <3>2. /\ \A d \in Batches : d # b => Lists'[d] = Lists[d]
          /\ \A i \in DOMAIN Lists[b] :
                i \in DOMAIN Lists'[b] /\ Lists'[b][i] = Lists[b][i]
      BY <2>1, <3>1, OneGrows
    <3> QED BY <1>2, <2>1, <3>2
  <2> QED BY <2>2, <2>3
<1>3. ASSUME K, Ledger!Next PROVE K' /\ Done
  <2>1. ASSUME NEW b \in Batches, NEW k \in Keys, NEW a \in Actions,
               Ledger!Change(b, k, a)
        PROVE  K' /\ Done
    <3>1. /\ a # "issue_credential" /\ Ledger!Apply(b, k, a)
          /\ serial' = serial /\ serial[b] = 0
      BY <2>1 DEF Ledger!Change, Ledger!Apply, Ledger!Released
    <3>2. serial' \in [Batches -> 0 .. MaxSerial]
      BY <1>3, <3>1 DEF Kept
    <3> QED BY <1>2, <1>3, <3>1, <3>2
  <2>2. ASSUME NEW b \in Batches, NEW k \in Keys, NEW n \in 1 .. MaxSerial,
               Ledger!Release(b, k, n)
        PROVE  K' /\ Done
    <3>1. /\ n # 0 /\ Ledger!Apply(b, k, "issue_credential")
          /\ \A c \in Batches : serial[c] # n
          /\ serial' = [serial EXCEPT ![b] = n]
      BY <2>2 DEF Ledger!Release
    <3>2. /\ serial \in [Batches -> 0 .. MaxSerial] /\ n \in 0 .. MaxSerial
          /\ "issue_credential" \in Actions
      BY <1>3 DEF Kept, Actions, StageActions
    <3> QED BY <1>2, <1>3, <3>1, <3>2
  <2> QED BY <1>3, <2>1, <2>2 DEF Ledger!Next
<1>4. ASSUME K, UNCHANGED Ledger!vars PROVE K'
  <2>1. Lists' = Lists /\ serial' = serial
    BY <1>4 DEF Ledger!vars, Lists, List, Entry
  <2> QED BY <1>4, <2>1 DEF Kept
<1>5. K => /\ Ledger!TypeOK
           /\ Ledger!KeysOnce /\ Ledger!CreatedFirst
           /\ Ledger!ReleasedLast /\ Ledger!SerialsOnce
  <2>1. (1 .. MaxSerial) \cup {0} = 0 .. MaxSerial
    BY BoundsTyping
  <2> QED BY <2>1
       DEF Kept, Entries, Ledger!TypeOK, Ledger!KeysOnce, Ledger!CreatedFirst,
           Ledger!ReleasedLast, Ledger!SerialsOnce, Ledger!Released, Lists,
           List, Entry
<1>6. ASSUME K, [Ledger!Next]_(Ledger!vars) PROVE K' /\ [Done]_(Ledger!vars)
  BY <1>3, <1>4, <1>6
<1>7. Ledger!Spec => []K /\ [][Done]_(Ledger!vars)
  BY <1>1, <1>6, PTL DEF Ledger!Spec
<1>8. [Done]_(Ledger!vars) =>
        [\A b \in Batches :
            /\ \A i \in DOMAIN Lists[b] :
                i \in DOMAIN Lists'[b] /\ Lists'[b][i] = Lists[b][i]
            /\ Ledger!Released(b) =>
                Lists'[b] = Lists[b] /\ serial'[b] = serial[b]]_(Ledger!vars)
  BY DEF Ledger!Released
<1> QED BY <1>5, <1>7, <1>8, PTL DEF Ledger!NothingUndone, Lists, List, Entry

\* Read in the audit trail, the life of a batch begins with its creation, and
\* the release, where there is one, is the last that happened to it
\* (appendAudit, Create, Mutate).
THEOREM TrailTold ==
    Spec => [](\A i \in DOMAIN audit :
                LET e == audit[i] IN
                /\ e.action = "create_batch" <=> e.version = 1
                /\ e.action = "issue_credential" <=>
                    stage[e.batch] = "released" /\ e.version = version[e.batch])
<1>1. ASSUME IInv, Ledger!CreatedFirst, Ledger!ReleasedLast, NEW i \in DOMAIN audit
      PROVE  LET e == audit[i] IN
             /\ e.action = "create_batch" <=> e.version = 1
             /\ e.action = "issue_credential" <=>
                    stage[e.batch] = "released" /\ e.version = version[e.batch]
  <2>1. audit[i] \in Result /\ audit[i].version <= version[audit[i].batch]
    BY <1>1 DEF IInv, TypeOK, AuditTrail
  <2>2. PICK b \in Batches, v \in Nat :
            audit[i].batch = b /\ audit[i].version = v /\ v >= 1
    BY <2>1, ResultFields
  <2>3. version[b] \in Nat /\ v \in 1 .. version[b]
    BY <1>1, <2>1, <2>2, Listed DEF ListTyped
  <2>4. PICK k \in Keys : results[k] = audit[i]
    BY <1>1 DEF IInv, KeysMatchAudit
  <2>5. Wrote(k, b, v)
    BY <2>1, <2>2, <2>4, ResultNotNull DEF Wrote
  <2>6. KeyOf(b, v) = k
    BY <1>1, <2>3, <2>5, KeysFound DEF KeyFound
  <2>7. List(b) \in [1 .. version[b] -> Entries] /\ Len(List(b)) = version[b]
    <3>1. List(b) \in [1 .. version[b] -> Entries]
      BY <1>1, Listed DEF ListTyped
    <3> HIDE DEF List
    <3> QED BY <2>3, <3>1
  <2>8. List(b)[v].action = audit[i].action /\ v \in DOMAIN List(b)
    BY <2>3, <2>4, <2>6 DEF List, Entry
  <2>9. /\ \A j \in DOMAIN List(b) :
              List(b)[j].action = "create_batch" <=> j = 1
        /\ \A j \in DOMAIN List(b) :
              List(b)[j].action = "issue_credential"
                <=> serial[b] # 0 /\ j = Len(List(b))
    <3>1. /\ \A c \in Batches : \A j \in DOMAIN Lists[c] :
                Lists[c][j].action = "create_batch" <=> j = 1
          /\ \A c \in Batches : \A j \in DOMAIN Lists[c] :
                Lists[c][j].action = "issue_credential"
                    <=> serial[c] # 0 /\ j = Len(Lists[c])
      BY <1>1 DEF Ledger!CreatedFirst, Ledger!ReleasedLast, Ledger!Released,
                  Lists, List, Entry
    <3>2. Lists[b] = List(b)
      BY DEF Lists
    <3> HIDE DEF Lists, List
    <3> QED BY <3>1, <3>2
  <2>10. stage[b] = "released" <=> serial[b] # 0
    BY <1>1 DEF IInv, CredentialsSound
  <2> HIDE DEF List
  <2> QED BY <2>2, <2>7, <2>8, <2>9, <2>10
<1>2. IInv /\ Ledger!CreatedFirst /\ Ledger!ReleasedLast =>
        \A i \in DOMAIN audit :
            LET e == audit[i] IN
            /\ e.action = "create_batch" <=> e.version = 1
            /\ e.action = "issue_credential" <=>
                    stage[e.batch] = "released" /\ e.version = version[e.batch]
  BY <1>1
<1> QED BY <1>2, LedgerRefined, LedgerPromise, StoreInvariance, PTL
        DEF ImplementsLedger

-----------------------------------------------------------------------------
(* The audit query.                                                        *)

\* The events of a batch behind one of its events.
Later(i) == {j \in EventsOf(audit[i].batch) : j > i}

\* There are as many as the batch has had versions since.
LEMMA LaterCounted ==
    ASSUME IInv, NEW i \in DOMAIN audit
    PROVE  Cardinality(Later(i)) = version[audit[i].batch] - audit[i].version
<1> DEFINE b == audit[i].batch
           v == audit[i].version
           T == v + 1 .. version[b]
           f == [j \in Later(i) |-> audit[j].version]
<1>1. /\ DOMAIN audit = 1 .. Len(audit) /\ Len(audit) \in Nat
      /\ \A j \in DOMAIN audit : audit[j] \in Result
  BY DEF IInv, TypeOK
<1>2. b \in Batches /\ v \in Nat /\ version[b] \in Nat /\ v <= version[b]
  BY <1>1, ResultFields, BoundsTyping DEF IInv, TypeOK, AuditTrail
<1>3. \A j \in DOMAIN audit : audit[j].version \in Nat
  BY <1>1, ResultFields
<1>4. \A j \in Later(i) : j \in DOMAIN audit /\ audit[j].batch = b /\ j > i
  BY DEF Later, EventsOf
<1>5. f \in [Later(i) -> T]
  BY <1>1, <1>2, <1>3, <1>4 DEF IInv, AuditTrail
<1>6. ASSUME NEW j \in Later(i), NEW l \in Later(i), f[j] = f[l] PROVE j = l
  BY <1>4, <1>6, EventUnique
<1>7. ASSUME NEW w \in T PROVE \E j \in Later(i) : f[j] = w
  <2>1. w \in 1 .. version[b]
    BY <1>2
  <2>2. PICK j \in DOMAIN audit : audit[j].batch = b /\ audit[j].version = w
    BY <1>2, <2>1 DEF IInv, AuditTrail
  <2>3. j # i /\ ~ j < i
    BY <1>2, <1>7, <2>2 DEF IInv, AuditTrail
  <2>4. j \in Later(i)
    BY <1>1, <2>2, <2>3 DEF Later, EventsOf
  <2> QED BY <2>2, <2>4
<1>8. IsFiniteSet(Later(i))
  <2>1. Later(i) \subseteq 1 .. Len(audit)
    BY <1>1, <1>4
  <2>2. IsFiniteSet(1 .. Len(audit))
    <3>1. 1 \in Int /\ Len(audit) \in Int
      BY <1>1
    <3> QED BY <3>1, FS_Interval
  <2> HIDE DEF b
  <2> QED BY <2>1, <2>2, FS_Subset
<1>9. ExistsBijection(Later(i), T)
  <2> HIDE DEF f, T
  <2> QED BY <1>5, <1>6, <1>7
          DEF ExistsBijection, Bijection, Injection, Surjection, IsInjective
<1>10. Cardinality(T) = Cardinality(Later(i))
  <2> HIDE DEF T
  <2> QED BY <1>8, <1>9, FS_Bijection
<1>11. Cardinality(T) = version[b] - v
  <2> HIDE DEF b, v
  <2>1. v + 1 \in Int /\ version[b] \in Int
    BY <1>2
  <2>2. Cardinality(v + 1 .. version[b])
            = IF v + 1 > version[b] THEN 0 ELSE version[b] - (v + 1) + 1
    BY <2>1, FS_Interval
  <2> QED BY <1>2, <2>2
<1> QED BY <1>10, <1>11

\* Whoever looks for a command by its action and its version finds its event,
\* until AuditCap later versions have pushed it out of what the query reads
\* (ListAuditFiltered, ListAudit).
THEOREM AuditFound == Spec => []AuditFinds
<1>1. ASSUME IInv, NEW k \in Keys, results[k] # NULL
      PROVE  LET r == results[k]
                 found == ListAuditFiltered(r.batch, r.action, r.version) IN
             IF r.version + AuditCap > version[r.batch]
             THEN \E i \in DOMAIN audit : found = {i} /\ audit[i] = r
             ELSE found = {}
  <2>1. PICK i \in DOMAIN audit : audit[i] = results[k]
    BY <1>1 DEF IInv, KeysMatchAudit
  <2> DEFINE r == audit[i]
  <2>2. r \in Result
    BY <1>1 DEF IInv, TypeOK
  <2>3. /\ r.version \in Nat /\ version[r.batch] \in Nat
        /\ AuditCap \in Nat
    BY <1>1, <2>2, ResultFields, BoundsTyping DEF IInv, TypeOK
  <2>4. i \in EventsOf(r.batch)
    BY DEF EventsOf
  <2>5. i \in Newest(r.batch) <=> r.version + AuditCap > version[r.batch]
    BY <1>1, <2>3, <2>4, LaterCounted DEF Newest, Later
  <2>6. \A j \in ListAuditFiltered(r.batch, r.action, r.version) : j = i
    BY <1>1, EventUnique DEF ListAuditFiltered, Newest, EventsOf
  <2>7. i \in ListAuditFiltered(r.batch, r.action, r.version)
            <=> i \in Newest(r.batch)
    BY DEF ListAuditFiltered
  <2> HIDE DEF r
  <2>8. results[k] = r
    BY <2>1 DEF r
  <2>9. CASE r.version + AuditCap > version[r.batch]
    <3>1. ListAuditFiltered(r.batch, r.action, r.version) = {i}
      BY <2>5, <2>6, <2>7, <2>9
    <3> QED BY <2>1, <2>8, <2>9, <3>1
  <2>10. CASE ~(r.version + AuditCap > version[r.batch])
    <3>1. ListAuditFiltered(r.batch, r.action, r.version) = {}
      BY <2>5, <2>6, <2>7, <2>10
    <3> QED BY <2>8, <2>10, <3>1
  <2> QED BY <2>9, <2>10
<1>2. IInv => AuditFinds
  BY <1>1 DEF AuditFinds
<1> QED BY <1>2, StoreInvariance, PTL

=============================================================================
