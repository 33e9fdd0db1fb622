-------------------------- MODULE ReleaseStoreProofs --------------------------
(***************************************************************************)
(* What holds of the store for any number of batches, keys and concurrent  *)
(* requests: IInv of ReleaseStore is inductive, and the properties of the  *)
(* tables follow from it.  The argument rests on two facts: a key, once it *)
(* has a result, takes part in no other transaction; and a serial that was *)
(* drawn stays with its handler until that handler has answered.           *)
(***************************************************************************)
EXTENDS ReleaseStore, TLAPS

\* The type, domain and elements of an extended sequence.
LEMMA Extended ==
    ASSUME NEW S, NEW s \in Seq(S), NEW e \in S
    PROVE  /\ Append(s, e) \in Seq(S)
           /\ Len(s) \in Nat
           /\ DOMAIN s = 1 .. Len(s)
           /\ DOMAIN Append(s, e) = 1 .. Len(s) + 1
           /\ \A i \in DOMAIN s : Append(s, e)[i] = s[i] /\ s[i] \in S
           /\ Append(s, e)[Len(s) + 1] = e
    OBVIOUS

\* A result is not the absent row.
LEMMA ResultNotNull ==
    ASSUME NEW x \in Result PROVE x # NULL
BY NullApart

\* The fields of a result.
LEMMA ResultFields ==
    ASSUME NEW x \in Result
    PROVE  x.version \in Nat /\ x.version >= 1 /\ x.batch \in Batches
BY BoundsTyping DEF Result

\* saveResult and appendAudit with the next version of a batch, under a key
\* that has no result, keep the results and the trail in agreement.
LEMMA RecordKeeps ==
    ASSUME TypeOK, AuditTrail, KeysMatchAudit,
           NEW r \in Request, results[r.key] = NULL,
           NEW v \in 1 .. MaxVersion, v = version[r.batch] + 1,
           version' = [version EXCEPT ![r.batch] = v], Record(r, v)
    PROVE  /\ results' \in [Keys -> Result \cup {NULL}]
           /\ audit' \in Seq(Result)
           /\ AuditTrail' /\ KeysMatchAudit'
           /\ \A k \in Keys : results[k] # NULL => results'[k] = results[k]
           /\ results'[r.key] # NULL
           /\ results'[r.key] =
                [action |-> r.action, batch |-> r.batch, version |-> v]
<1> DEFINE e == [action |-> r.action, batch |-> r.batch, version |-> v]
           n == Len(audit) + 1
<1>1. /\ r.key \in Keys /\ r.batch \in Batches /\ r.action \in Actions
      /\ e \in Result
  BY DEF Request, Result
<1>2. /\ results \in [Keys -> Result \cup {NULL}] /\ audit \in Seq(Result)
      /\ version \in [Batches -> 0 .. MaxVersion] /\ MaxVersion \in Nat
  BY BoundsTyping DEF TypeOK
<1>3. /\ e.batch = r.batch /\ e.version = v
  OBVIOUS
<1>4. results' = [results EXCEPT ![r.key] = e] /\ audit' = Append(audit, e)
  BY DEF Record
<1> HIDE DEF e
<1>5. /\ results' \in [Keys -> Result \cup {NULL}]
      /\ results'[r.key] = e /\ e # NULL
      /\ \A k \in Keys : k # r.key => results'[k] = results[k]
  BY <1>1, <1>2, <1>4, ResultNotNull
<1>6. /\ audit' \in Seq(Result) /\ Len(audit) \in Nat
      /\ DOMAIN audit = 1 .. Len(audit) /\ DOMAIN audit' = 1 .. n
      /\ \A i \in DOMAIN audit : audit'[i] = audit[i] /\ audit[i] \in Result
      /\ audit'[n] = e
  BY <1>1, <1>2, <1>4, Extended
<1>7. \A i \in DOMAIN audit : audit[i].version \in Nat /\ audit[i].batch \in Batches
  BY <1>6, ResultFields
<1>8. version[r.batch] \in Nat /\ v \in Nat /\ version'[r.batch] = v
      /\ \A b \in Batches : b # r.batch => version'[b] = version[b]
  BY <1>1, <1>2
<1>9. AuditTrail'
  <2>1. ASSUME NEW i \in DOMAIN audit'
        PROVE  audit'[i].version <= version'[audit'[i].batch]
    <3>1. CASE i = n
      BY <1>3, <1>6, <1>8, <3>1
    <3>2. CASE i \in DOMAIN audit
      <4>1. audit[i].version <= version[audit[i].batch]
        BY <3>2 DEF AuditTrail
      <4> QED BY <1>6, <1>7, <1>8, <3>2, <4>1
    <3> QED BY <1>6, <3>1, <3>2
  <2>2. ASSUME NEW b \in Batches, NEW w \in 1 .. version'[b]
        PROVE  \E i \in DOMAIN audit' :
                  audit'[i].batch = b /\ audit'[i].version = w
    <3>1. CASE w \in 1 .. version[b]
      <4>1. PICK i \in DOMAIN audit : audit[i].batch = b /\ audit[i].version = w
        BY <3>1 DEF AuditTrail
      <4> QED BY <1>6, <4>1
    <3>2. CASE w \notin 1 .. version[b]
      <4>1. b = r.batch /\ w = v
        BY <1>2, <1>8, <3>2
      <4>2. n \in DOMAIN audit'
        BY <1>6
      <4> QED BY <1>3, <1>6, <4>1, <4>2
    <3> QED BY <3>1, <3>2
  <2>3. ASSUME NEW i \in DOMAIN audit', NEW j \in DOMAIN audit',
               i < j, audit'[i].batch = audit'[j].batch
        PROVE  audit'[i].version < audit'[j].version
    <3>1. i \in DOMAIN audit
      BY <1>6, <2>3
    <3>2. CASE j \in DOMAIN audit
      BY <1>6, <2>3, <3>1, <3>2 DEF AuditTrail
    <3>3. CASE j = n
      <4>1. audit[i].version <= version[r.batch]
        BY <1>3, <1>6, <2>3, <3>1, <3>3 DEF AuditTrail
      <4> QED BY <1>3, <1>6, <1>7, <1>8, <3>1, <3>3, <4>1
    <3> QED BY <1>6, <3>2, <3>3
  <2> QED BY <2>1, <2>2, <2>3 DEF AuditTrail
<1>10. \A i \in DOMAIN audit : audit[i] # e
  <2> SUFFICES ASSUME NEW i \in DOMAIN audit, audit[i] = e PROVE FALSE
    OBVIOUS
  <2>1. v <= version[r.batch]
    BY <1>3 DEF AuditTrail
  <2> QED BY <1>8, <2>1
<1>11. KeysMatchAudit'
  <2>1. ASSUME NEW i \in DOMAIN audit' PROVE \E k \in Keys : results'[k] = audit'[i]
    <3>1. CASE i = n
      BY <1>1, <1>5, <1>6, <3>1
    <3>2. CASE i \in DOMAIN audit
      <4>1. PICK k \in Keys : results[k] = audit[i]
        BY <3>2 DEF KeysMatchAudit
      <4>2. k # r.key
        BY <1>6, <3>2, <4>1, ResultNotNull
      <4> QED BY <1>5, <1>6, <3>2, <4>1, <4>2
    <3> QED BY <1>6, <3>1, <3>2
  <2>2. ASSUME NEW k \in Keys, results'[k] # NULL
        PROVE  \E i \in DOMAIN audit' : audit'[i] = results'[k]
    <3>1. CASE k = r.key
      <4>1. n \in DOMAIN audit'
        BY <1>6
      <4> QED BY <1>5, <1>6, <3>1, <4>1
    <3>2. CASE k # r.key
      <4>1. PICK i \in DOMAIN audit : audit[i] = results[k]
        BY <1>5, <2>2, <3>2 DEF KeysMatchAudit
      <4> QED BY <1>5, <1>6, <3>2, <4>1
    <3> QED BY <3>1, <3>2
  <2>3. ASSUME NEW k \in Keys, NEW l \in Keys,
               results'[k] # NULL, results'[k] = results'[l], k # l
        PROVE  FALSE
    <3>1. ASSUME NEW m \in Keys, m # r.key, results'[m] # NULL
          PROVE  results'[m] # e
      BY <1>5, <1>10, <3>1 DEF KeysMatchAudit
    <3>2. CASE k = r.key \/ l = r.key
      BY <1>5, <2>3, <3>1, <3>2
    <3>3. CASE k # r.key /\ l # r.key
      BY <1>5, <2>3, <3>3 DEF KeysMatchAudit
    <3> QED BY <3>2, <3>3
  <2> QED BY <2>1, <2>2, <2>3 DEF KeysMatchAudit
<1> QED BY <1>5, <1>6, <1>9, <1>11 DEF e

-----------------------------------------------------------------------------
(* Handlers.                                                               *)

\* A handler that ends its request with an answer, whatever it did to the
\* tables, as long as nobody's new batch appears.
LEMMA Finished ==
    ASSUME TypeOK, HandlerState, NEW h \in Handlers,
           pc[h] \notin {"idle", "answered"}, NEW a \in Answer, Finish(h, a),
           \A g \in Handlers :
                /\ g # h /\ pc[g] \notin {"idle", "answered"}
                /\ request[g].action = "create_batch"
                => stage'[request[g].batch] = "none"
    PROVE  /\ pc' \in [Handlers -> {"idle", "lookup", "draw", "transact", "answered"}]
           /\ request' = request /\ drawn' = drawn
           /\ answer' \in [Handlers -> Answer \cup {NULL}]
           /\ pc'[h] = "answered" /\ answer'[h] = a
           /\ \A g \in Handlers : g # h => pc'[g] = pc[g] /\ answer'[g] = answer[g]
           /\ HandlerState'
<1>1. /\ pc' \in [Handlers -> {"idle", "lookup", "draw", "transact", "answered"}]
      /\ request' = request /\ drawn' = drawn
      /\ answer' \in [Handlers -> Answer \cup {NULL}]
      /\ pc'[h] = "answered" /\ answer'[h] = a
      /\ \A g \in Handlers : g # h => pc'[g] = pc[g] /\ answer'[g] = answer[g]
  BY DEF TypeOK, Finish
<1>2. a # NULL
  BY NullApart
<1>3. \A g \in Handlers : pc[g] # "idle" => request[g] \in Request
  BY DEF TypeOK, HandlerState
<1>4. \A g \in Handlers : pc[g] # "idle" => request[g].batch \in Batches
  BY <1>3 DEF Request
<1>5. HandlerState'
  BY <1>1, <1>2, <1>4 DEF HandlerState
<1> QED BY <1>1, <1>5

\* A key that is known is answered from its stored result (idempotent,
\* LookupIdempotency).
LEMMA KnownKeeps ==
    ASSUME IInv, NEW h \in Handlers, pc[h] \in {"lookup", "transact"},
           results[request[h].key] # NULL, AnswerKnownKey(h), UNCHANGED table
    PROVE  IInv'
<1> DEFINE r == request[h]
           a == IF SameCommand(results[r.key], r) THEN Replay(r.key)
                ELSE Refusal(r, "idempotency_conflict")
<1>1. TypeOK /\ HandlerState /\ DrawnFresh /\ AnswerTrue
  BY DEF IInv
<1>2. r \in Request /\ r.key \in Keys /\ r.batch \in Batches
  <2>1. r \in Request
    BY <1>1 DEF TypeOK, HandlerState
  <2> QED BY <2>1 DEF Request
<1>3. results[r.key] \in Result
  BY <1>1, <1>2 DEF TypeOK
<1>4. Finish(h, a)
  BY DEF AnswerKnownKey
<1>5. a \in Answer
  <2>1. CASE SameCommand(results[r.key], r)
    BY <1>3, <2>1, BoundsTyping DEF Replay, Answer, Outcomes, Result
  <2>2. CASE ~SameCommand(results[r.key], r)
    BY <1>2, <2>2, BoundsTyping DEF Refusal, Answer, Outcomes
  <2> QED BY <2>1, <2>2
<1>6. UNCHANGED <<stage, version, results, audit, sequence, serial>>
  BY DEF table
<1>7. a.outcome = "replayed" =>
        /\ results[r.key] =
            [action |-> r.action, batch |-> a.batch, version |-> a.version]
        /\ r.action # "create_batch" => a.batch = r.batch
  <2>1. CASE SameCommand(results[r.key], r)
    BY <1>3, <2>1 DEF Replay, SameCommand, Result
  <2>2. CASE ~SameCommand(results[r.key], r)
    BY <2>2 DEF Refusal
  <2> QED BY <2>1, <2>2
<1>8. a.outcome # "done"
  BY DEF Replay, Refusal
<1> HIDE DEF a
<1>9. /\ pc' \in [Handlers -> {"idle", "lookup", "draw", "transact", "answered"}]
      /\ request' = request /\ drawn' = drawn
      /\ answer' \in [Handlers -> Answer \cup {NULL}]
      /\ pc'[h] = "answered" /\ answer'[h] = a
      /\ \A g \in Handlers : g # h => pc'[g] = pc[g] /\ answer'[g] = answer[g]
      /\ HandlerState'
  BY <1>1, <1>4, <1>5, <1>6, Finished DEF HandlerState
<1>10. TypeOK'
  BY <1>1, <1>6, <1>9 DEF TypeOK
<1>11. AnswerTrue'
  BY <1>1, <1>6, <1>7, <1>8, <1>9 DEF AnswerTrue
<1>12. DrawnFresh'
  BY <1>1, <1>6, <1>9 DEF DrawnFresh
<1> QED BY <1>6, <1>9, <1>10, <1>11, <1>12
           DEF IInv, StageOfVersion, AuditTrail, KeysMatchAudit,
               CredentialsSound

\* A refusal changes nothing but the handler.
LEMMA RefuseKeeps ==
    ASSUME IInv, NEW h \in Handlers, TransactRefuse(h)
    PROVE  IInv'
<1> DEFINE r == request[h]
<1>1. TypeOK /\ HandlerState /\ DrawnFresh /\ AnswerTrue
  BY DEF IInv
<1>2. PICK outcome \in {"not_found", "version_conflict", "refused"} :
        Finish(h, Refusal(r, outcome))
  BY DEF TransactRefuse
<1> DEFINE a == Refusal(r, outcome)
<1>3. pc[h] = "transact" /\ UNCHANGED <<stage, version, results, audit, sequence, serial>>
  BY DEF TransactRefuse, table
<1>4. r \in Request
  BY <1>1, <1>3 DEF TypeOK, HandlerState
<1>5. a \in Answer /\ a.outcome \notin {"done", "replayed"}
  BY <1>4, BoundsTyping DEF Refusal, Answer, Outcomes, Request
<1> HIDE DEF a
<1>6. /\ pc' \in [Handlers -> {"idle", "lookup", "draw", "transact", "answered"}]
      /\ request' = request /\ drawn' = drawn
      /\ answer' \in [Handlers -> Answer \cup {NULL}]
      /\ pc'[h] = "answered" /\ answer'[h] = a
      /\ \A g \in Handlers : g # h => pc'[g] = pc[g] /\ answer'[g] = answer[g]
      /\ HandlerState'
  BY <1>1, <1>2, <1>3, <1>5, Finished DEF HandlerState, a
<1>7. TypeOK'
  BY <1>1, <1>3, <1>6 DEF TypeOK
<1>8. AnswerTrue'
  BY <1>1, <1>3, <1>5, <1>6 DEF AnswerTrue
<1>9. DrawnFresh'
  BY <1>1, <1>3, <1>6 DEF DrawnFresh
<1> QED BY <1>3, <1>6, <1>7, <1>8, <1>9
           DEF IInv, StageOfVersion, AuditTrail, KeysMatchAudit,
               CredentialsSound

\* A handler that is cleared holds nothing (Reply, a deadline, a crash).
LEMMA ClearKeeps ==
    ASSUME IInv, NEW hs \in SUBSET Handlers, Clear(hs), UNCHANGED table
    PROVE  IInv'
<1>1. TypeOK /\ HandlerState /\ DrawnFresh /\ AnswerTrue
  BY DEF IInv
<1>2. UNCHANGED <<stage, version, results, audit, sequence, serial>>
  BY DEF table
<1>3. /\ pc' \in [Handlers -> {"idle", "lookup", "draw", "transact", "answered"}]
      /\ request' \in [Handlers -> Request \cup {NULL}]
      /\ drawn' \in [Handlers -> 0 .. MaxSerial]
      /\ answer' \in [Handlers -> Answer \cup {NULL}]
  BY <1>1, BoundsTyping DEF TypeOK, Clear
<1>4. \A h \in Handlers :
        \/ pc'[h] = "idle" /\ request'[h] = NULL /\ drawn'[h] = 0 /\ answer'[h] = NULL
        \/ /\ pc'[h] = pc[h] /\ request'[h] = request[h]
           /\ drawn'[h] = drawn[h] /\ answer'[h] = answer[h]
  BY DEF Clear
<1>5. TypeOK'
  BY <1>1, <1>2, <1>3 DEF TypeOK
<1>6. HandlerState'
  BY <1>1, <1>2, <1>4 DEF HandlerState
<1>7. sequence \in Nat
  BY <1>1, BoundsTyping DEF TypeOK
<1>8. DrawnFresh'
  BY <1>1, <1>2, <1>4, <1>7 DEF DrawnFresh
<1>9. AnswerTrue'
  BY <1>1, <1>2, <1>4 DEF AnswerTrue
<1> QED BY <1>2, <1>5, <1>6, <1>8, <1>9
           DEF IInv, StageOfVersion, AuditTrail, KeysMatchAudit,
               CredentialsSound

\* A request that is taken in touches no table; a creation brings a batch
\* nobody has (Service, validateMeta).
LEMMA ReceiveKeeps ==
    ASSUME IInv, NEW h \in Handlers, NEW r \in Request, Receive(h, r)
    PROVE  IInv'
<1>1. TypeOK /\ HandlerState /\ DrawnFresh /\ AnswerTrue
  BY DEF IInv
<1>2. /\ pc[h] = "idle"
      /\ UNCHANGED <<stage, version, results, audit, sequence, serial, drawn, answer>>
  BY DEF Receive, table
<1>3. /\ pc' \in [Handlers -> {"idle", "lookup", "draw", "transact", "answered"}]
      /\ request' \in [Handlers -> Request \cup {NULL}]
      /\ request'[h] = r /\ r # NULL
      /\ pc'[h] = IF r.action = "issue_credential" THEN "lookup" ELSE "transact"
      /\ \A g \in Handlers : g # h => pc'[g] = pc[g] /\ request'[g] = request[g]
  BY <1>1, NullApart DEF TypeOK, Receive
<1>4. /\ r.action = "create_batch" =>
            /\ r.expected = 0 /\ stage[r.batch] = "none"
            /\ \A g \in Handlers : request[g] # NULL => request[g].batch # r.batch
      /\ r.action # "create_batch" => r.expected # 0 /\ ~Undisclosed(r.batch)
  BY BoundsTyping DEF Receive, Request
<1>5. TypeOK'
  BY <1>1, <1>2, <1>3 DEF TypeOK
<1>6. AnswerTrue'
  BY <1>1, <1>2, <1>3 DEF AnswerTrue
<1>7. HandlerState'
  <2> SUFFICES ASSUME NEW g \in Handlers
               PROVE  /\ request'[g] = NULL <=> pc'[g] = "idle"
                      /\ answer'[g] = NULL <=> pc'[g] # "answered"
                      /\ pc'[g] \in {"lookup", "draw"} =>
                            request'[g].action = "issue_credential"
                      /\ pc'[g] \in {"idle", "lookup", "draw"} => drawn'[g] = 0
                      /\ pc'[g] # "idle" =>
                        /\ request'[g].action = "create_batch"
                                <=> request'[g].expected = 0
                        /\ request'[g].action = "create_batch"
                              /\ pc'[g] # "answered" =>
                            /\ stage'[request'[g].batch] = "none"
                            /\ \A f \in Handlers : request'[f] # NULL /\ f # g =>
                                    request'[f].batch # request'[g].batch
    BY DEF HandlerState
  <2>1. CASE g = h
    <3>1. drawn[h] = 0
      BY <1>1, <1>2 DEF HandlerState
    <3> QED BY <1>1, <1>2, <1>3, <1>4, <2>1, <3>1 DEF HandlerState
  <2>2. CASE g # h
    <3>1. request[g] # NULL /\ request[g].action = "create_batch"
                /\ pc[g] # "answered" => pc[g] = "transact"
      BY <1>1 DEF TypeOK, HandlerState
    <3>2. request[g] # NULL /\ request[g].action = "create_batch"
                /\ pc[g] # "answered" => request[g].batch # r.batch
      BY <1>4, <3>1 DEF Undisclosed
    <3> QED BY <1>1, <1>2, <1>3, <1>4, <2>2, <3>2 DEF HandlerState
  <2> QED BY <2>1, <2>2
<1>8. DrawnFresh'
  BY <1>1, <1>2, <1>3 DEF DrawnFresh
<1> QED BY <1>2, <1>5, <1>6, <1>7, <1>8
           DEF IInv, StageOfVersion, AuditTrail, KeysMatchAudit,
               CredentialsSound

\* A lookup that finds nothing goes on to draw a serial (Issue).
LEMMA LookupKeeps ==
    ASSUME IInv, NEW h \in Handlers, Lookup(h)
    PROVE  IInv'
<1>1. TypeOK /\ HandlerState /\ DrawnFresh /\ AnswerTrue /\ pc[h] = "lookup"
  BY DEF IInv, Lookup
<1>2. CASE results[request[h].key] # NULL
  BY <1>1, <1>2, KnownKeeps DEF Lookup
<1>3. CASE results[request[h].key] = NULL
  <2>1. /\ pc' = [pc EXCEPT ![h] = "draw"]
        /\ UNCHANGED <<stage, version, results, audit, sequence, serial,
                       request, drawn, answer>>
    BY <1>3 DEF Lookup, table
  <2>2. TypeOK'
    BY <1>1, <2>1 DEF TypeOK
  <2>3. /\ pc'[h] = "draw"
        /\ \A g \in Handlers : g # h => pc'[g] = pc[g]
    BY <1>1, <2>1 DEF TypeOK
  <2>4. HandlerState' /\ DrawnFresh' /\ AnswerTrue'
    BY <1>1, <2>1, <2>3 DEF HandlerState, DrawnFresh, AnswerTrue
  <2> QED BY <2>1, <2>2, <2>4
             DEF IInv, StageOfVersion, AuditTrail, KeysMatchAudit,
                 CredentialsSound
<1> QED BY <1>2, <1>3

\* A drawn serial is one nobody has (NextCredentialSerial).
LEMMA DrawKeeps ==
    ASSUME IInv, NEW h \in Handlers, Draw(h)
    PROVE  IInv'
<1>1. TypeOK /\ HandlerState /\ DrawnFresh /\ AnswerTrue /\ pc[h] = "draw"
  BY DEF IInv, Draw
<1>2. /\ sequence' = sequence + 1 /\ sequence \in 0 .. MaxSerial
      /\ sequence < MaxSerial
      /\ drawn' = [drawn EXCEPT ![h] = sequence + 1]
      /\ pc' = [pc EXCEPT ![h] = "transact"]
      /\ UNCHANGED <<stage, version, results, audit, serial, request, answer>>
  BY <1>1 DEF Draw, NextSerial, TypeOK
<1>3. TypeOK'
  BY <1>1, <1>2, BoundsTyping DEF TypeOK
<1>4. /\ pc'[h] = "transact" /\ drawn'[h] = sequence + 1
      /\ \A g \in Handlers : g # h => pc'[g] = pc[g] /\ drawn'[g] = drawn[g]
      /\ \A g \in Handlers : drawn[g] \in 0 .. MaxSerial
      /\ \A b \in Batches : serial[b] \in 0 .. MaxSerial
  BY <1>1, <1>2 DEF TypeOK
<1>5. HandlerState'
  BY <1>1, <1>2, <1>4 DEF HandlerState
<1>6. AnswerTrue'
  BY <1>1, <1>2, <1>4 DEF AnswerTrue
<1>7. /\ \A b \in Batches : serial[b] <= sequence /\ serial[b] # sequence + 1
      /\ \A g \in Handlers : drawn[g] <= sequence /\ drawn[g] # sequence + 1
  BY <1>1, <1>2, <1>4, BoundsTyping DEF DrawnFresh
<1>8. DrawnFresh'
  <2>1. \A b \in Batches : serial'[b] <= sequence'
    BY <1>2, <1>4, <1>7, BoundsTyping
  <2>2. ASSUME NEW g \in Handlers
        PROVE  /\ drawn'[g] <= sequence'
               /\ pc'[g] = "transact" /\ request'[g].action = "issue_credential" =>
                    /\ drawn'[g] # 0
                    /\ \A b \in Batches : serial'[b] # drawn'[g]
                    /\ \A f \in Handlers : drawn'[f] = drawn'[g] => f = g
    <3>1. CASE g = h
      BY <1>2, <1>4, <1>7, <3>1, BoundsTyping
    <3>2. CASE g # h
      <4>1. drawn'[g] <= sequence'
        BY <1>2, <1>4, <1>7, <3>2, BoundsTyping
      <4>2. \A f \in Handlers : f # h => drawn'[f] = drawn[f]
        BY <1>4
      <4>3. drawn'[h] # drawn'[g]
        BY <1>4, <1>7, <3>2
      <4> QED BY <1>1, <1>2, <1>4, <3>2, <4>1, <4>2, <4>3 DEF DrawnFresh
    <3> QED BY <3>1, <3>2
  <2> QED BY <2>1, <2>2 DEF DrawnFresh
<1> QED BY <1>2, <1>3, <1>5, <1>6, <1>8
           DEF IInv, StageOfVersion, AuditTrail, KeysMatchAudit,
               CredentialsSound

\* Answers given before stay true: their keys have results, and the key of a
\* transaction that commits had none.
LEMMA AnswersStay ==
    ASSUME AnswerTrue, NEW h \in Handlers, NEW a, request' = request,
           pc'[h] = "answered", answer'[h] = a,
           \A g \in Handlers : g # h => pc'[g] = pc[g] /\ answer'[g] = answer[g],
           \A g \in Handlers : pc[g] = "answered" => request[g].key \in Keys,
           \A k \in Keys : results[k] # NULL => results'[k] = results[k],
           a.outcome \in {"done", "replayed"} =>
                LET r == request[h] IN
                /\ results'[r.key] # NULL
                /\ results'[r.key] =
                    [action |-> r.action, batch |-> a.batch, version |-> a.version]
                /\ r.action # "create_batch" => a.batch = r.batch
                /\ a.outcome = "done" => a.version = r.expected + 1
    PROVE  AnswerTrue'
BY DEF AnswerTrue

\* Create.
LEMMA CreateKeeps ==
    ASSUME IInv, NEW h \in Handlers, TransactCreate(h)
    PROVE  IInv'
<1> DEFINE r == request[h]
           a == [outcome |-> "done", batch |-> r.batch, version |-> 1]
<1>1. /\ TypeOK /\ HandlerState /\ DrawnFresh /\ AnswerTrue /\ StageOfVersion
      /\ AuditTrail /\ KeysMatchAudit /\ CredentialsSound
  BY DEF IInv
<1>2. /\ pc[h] = "transact" /\ r.action = "create_batch"
      /\ results[r.key] = NULL
      /\ stage' = [stage EXCEPT ![r.batch] = "open"]
      /\ version' = [version EXCEPT ![r.batch] = 1]
      /\ Record(r, 1) /\ Finish(h, a)
      /\ UNCHANGED <<sequence, serial>>
  BY DEF TransactCreate, KnownKey
<1>3. \A g \in Handlers : pc[g] # "idle" => request[g] \in Request
  BY <1>1 DEF TypeOK, HandlerState
<1>4. \A g \in Handlers : pc[g] # "idle" =>
        request[g].key \in Keys /\ request[g].batch \in Batches
  BY <1>3 DEF Request
<1>5. /\ r \in Request /\ r.batch \in Batches
      /\ stage[r.batch] = "none" /\ version[r.batch] = 0 /\ r.expected = 0
  BY <1>1, <1>2, <1>3, <1>4 DEF HandlerState, StageOfVersion
<1>6. a \in Answer
  BY <1>5, BoundsTyping DEF Answer, Outcomes
<1>7. /\ results' \in [Keys -> Result \cup {NULL}]
      /\ audit' \in Seq(Result)
      /\ AuditTrail' /\ KeysMatchAudit'
      /\ \A k \in Keys : results[k] # NULL => results'[k] = results[k]
      /\ results'[r.key] # NULL
      /\ results'[r.key] =
            [action |-> r.action, batch |-> r.batch, version |-> 1]
  <2>1. 1 \in 1 .. MaxVersion /\ 1 = version[r.batch] + 1
    BY <1>5, BoundsTyping
  <2> QED BY <1>1, <1>2, <1>5, <2>1, RecordKeeps
<1>8. /\ stage'[r.batch] = "open" /\ version'[r.batch] = 1
      /\ \A b \in Batches : b # r.batch =>
            stage'[b] = stage[b] /\ version'[b] = version[b]
      /\ stage' \in [Batches -> Stages] /\ version' \in [Batches -> 0 .. MaxVersion]
  BY <1>1, <1>2, <1>5, BoundsTyping DEF TypeOK, Stages
<1>9. \A g \in Handlers :
        /\ g # h /\ pc[g] \notin {"idle", "answered"}
        /\ request[g].action = "create_batch"
        => stage'[request[g].batch] = "none"
  BY <1>1, <1>2, <1>4, <1>8 DEF HandlerState
<1> HIDE DEF a
<1>10. /\ pc' \in [Handlers -> {"idle", "lookup", "draw", "transact", "answered"}]
       /\ request' = request /\ drawn' = drawn
       /\ answer' \in [Handlers -> Answer \cup {NULL}]
       /\ pc'[h] = "answered" /\ answer'[h] = a
       /\ \A g \in Handlers : g # h => pc'[g] = pc[g] /\ answer'[g] = answer[g]
       /\ HandlerState'
  BY <1>1, <1>2, <1>6, <1>9, Finished
<1>11. TypeOK'
  BY <1>1, <1>2, <1>7, <1>8, <1>10 DEF TypeOK
<1>12. AnswerTrue'
  <2>1. /\ a.version = r.expected + 1 /\ a.batch = r.batch /\ a.version = 1
    BY <1>5 DEF a
  <2> QED BY <1>1, <1>4, <1>7, <1>10, <2>1, AnswersStay
<1>13. StageOfVersion' /\ CredentialsSound'
  BY <1>1, <1>2, <1>5, <1>8 DEF StageOfVersion, CredentialsSound
<1>14. DrawnFresh'
  BY <1>1, <1>2, <1>10 DEF DrawnFresh
<1> QED BY <1>7, <1>10, <1>11, <1>12, <1>13, <1>14 DEF IInv

\* Mutate: the version grows by one, and the credential of a release is saved
\* because nobody else has its serial.
LEMMA MutateKeeps ==
    ASSUME IInv, NEW h \in Handlers, TransactMutate(h)
    PROVE  IInv'
<1> DEFINE r == request[h]
           v == version[r.batch] + 1
           a == [outcome |-> "done", batch |-> r.batch, version |-> v]
<1>1. /\ TypeOK /\ HandlerState /\ DrawnFresh /\ AnswerTrue /\ StageOfVersion
      /\ AuditTrail /\ KeysMatchAudit /\ CredentialsSound
  BY DEF IInv
<1>2. /\ pc[h] = "transact" /\ r.action # "create_batch"
      /\ results[r.key] = NULL
      /\ version[r.batch] = r.expected /\ version[r.batch] < MaxVersion
      /\ stage' = [stage EXCEPT ![r.batch] = NextStage(r)]
      /\ version' = [version EXCEPT ![r.batch] = v]
      /\ serial' = SavedSerial(h)
      /\ Record(r, v) /\ Finish(h, a)
      /\ sequence' = sequence
  BY DEF TransactMutate, KnownKey, Current, NewVersion
<1>3. \A g \in Handlers : pc[g] # "idle" => request[g] \in Request
  BY <1>1 DEF TypeOK, HandlerState
<1>4. \A g \in Handlers : pc[g] # "idle" =>
        request[g].key \in Keys /\ request[g].batch \in Batches
  BY <1>3 DEF Request
<1>5. r \in Request /\ r.batch \in Batches /\ r.action \in Actions
  BY <1>2, <1>3 DEF Request
<1>6. version[r.batch] \in Nat /\ v \in 1 .. MaxVersion
  BY <1>1, <1>2, <1>5, BoundsTyping DEF TypeOK
<1>7. a \in Answer
  BY <1>5, <1>6, BoundsTyping DEF Answer, Outcomes
<1>8. /\ results' \in [Keys -> Result \cup {NULL}]
      /\ audit' \in Seq(Result)
      /\ AuditTrail' /\ KeysMatchAudit'
      /\ \A k \in Keys : results[k] # NULL => results'[k] = results[k]
      /\ results'[r.key] # NULL
      /\ results'[r.key] =
            [action |-> r.action, batch |-> r.batch, version |-> v]
  BY <1>1, <1>2, <1>5, <1>6, RecordKeeps
<1>9. /\ r.action = "issue_credential" =>
            stage[r.batch] = "frozen" /\ NextStage(r) = "released"
      /\ r.action # "issue_credential" =>
            stage[r.batch] = "open" /\ NextStage(r) \in {"open", "frozen"}
  <2>1. Allowed(r)
    BY DEF TransactMutate
  <2>2. CASE r.action = "issue_credential"
    BY <2>1, <2>2 DEF Allowed, NextStage
  <2>3. CASE r.action \in Changes
    BY <2>1, <2>3, ChangesApart DEF Allowed, NextStage, StageActions
  <2>4. CASE r.action = "approve_batch"
    BY <2>1, <2>4 DEF Allowed, NextStage
  <2> QED BY <1>2, <1>5, <2>2, <2>3, <2>4 DEF Actions, StageActions
<1>10. /\ stage'[r.batch] = NextStage(r) /\ version'[r.batch] = v
       /\ \A b \in Batches : b # r.batch =>
             stage'[b] = stage[b] /\ version'[b] = version[b]
       /\ stage' \in [Batches -> Stages] /\ version' \in [Batches -> 0 .. MaxVersion]
  BY <1>1, <1>2, <1>5, <1>6, <1>9 DEF TypeOK, Stages
<1>11. /\ r.action = "issue_credential" =>
             /\ serial' = [serial EXCEPT ![r.batch] = drawn[h]]
             /\ drawn[h] # 0 /\ drawn[h] <= sequence
             /\ \A b \in Batches : serial[b] # drawn[h]
             /\ \A g \in Handlers : drawn[g] = drawn[h] => g = h
       /\ r.action # "issue_credential" => serial' = serial
  <2>1. r.action = "issue_credential" => serial[r.batch] = 0
    BY <1>1, <1>5, <1>9 DEF CredentialsSound
  <2> QED BY <1>1, <1>2, <2>1 DEF SavedSerial, DrawnFresh
<1> HIDE DEF a, v
<1>12. \A g \in Handlers :
        /\ g # h /\ pc[g] \notin {"idle", "answered"}
        /\ request[g].action = "create_batch"
        => stage'[request[g].batch] = "none"
  BY <1>1, <1>2, <1>4, <1>9, <1>10 DEF HandlerState
<1>13. /\ pc' \in [Handlers -> {"idle", "lookup", "draw", "transact", "answered"}]
       /\ request' = request /\ drawn' = drawn
       /\ answer' \in [Handlers -> Answer \cup {NULL}]
       /\ pc'[h] = "answered" /\ answer'[h] = a
       /\ \A g \in Handlers : g # h => pc'[g] = pc[g] /\ answer'[g] = answer[g]
       /\ HandlerState'
  BY <1>1, <1>2, <1>7, <1>12, Finished
<1>14. TypeOK'
  <2>1. serial' \in [Batches -> 0 .. MaxSerial]
    BY <1>1, <1>11 DEF TypeOK
  <2> QED BY <1>1, <1>2, <1>8, <1>10, <1>13, <2>1 DEF TypeOK
<1>15. AnswerTrue'
  <2>1. /\ a.version = r.expected + 1 /\ a.batch = r.batch /\ a.version = v
    BY <1>2 DEF a, v
  <2> QED BY <1>1, <1>4, <1>8, <1>13, <2>1, AnswersStay
<1>16. StageOfVersion'
  BY <1>1, <1>5, <1>6, <1>9, <1>10 DEF StageOfVersion
<1>17. CASE r.action = "issue_credential"
  <2>1. /\ serial'[r.batch] = drawn[h] /\ drawn[h] # 0
        /\ \A b \in Batches : b # r.batch => serial'[b] = serial[b]
    BY <1>1, <1>5, <1>11, <1>17 DEF TypeOK
  <2>2. CredentialsSound'
    BY <1>1, <1>5, <1>9, <1>10, <1>11, <1>17, <2>1 DEF CredentialsSound
  <2>3. \A b \in Batches : serial'[b] <= sequence'
    BY <1>1, <1>2, <1>11, <1>17, <2>1 DEF DrawnFresh
  <2>4. ASSUME NEW g \in Handlers, pc'[g] = "transact",
               request'[g].action = "issue_credential"
        PROVE  /\ drawn'[g] # 0
               /\ \A b \in Batches : serial'[b] # drawn'[g]
               /\ \A f \in Handlers : drawn'[f] = drawn'[g] => f = g
    <3>1. g # h /\ pc[g] = "transact" /\ request[g].action = "issue_credential"
      BY <1>13, <2>4
    <3>2. drawn[g] # drawn[h]
      BY <1>11, <1>17, <3>1
    <3> QED BY <1>1, <1>13, <2>1, <3>1, <3>2 DEF DrawnFresh
  <2>5. DrawnFresh'
    BY <1>1, <1>2, <1>13, <2>3, <2>4 DEF DrawnFresh
  <2> QED BY <1>8, <1>13, <1>14, <1>15, <1>16, <2>2, <2>5 DEF IInv
<1>18. CASE r.action # "issue_credential"
  <2>1. CredentialsSound'
    BY <1>1, <1>5, <1>9, <1>10, <1>11, <1>18 DEF CredentialsSound
  <2>2. DrawnFresh'
    BY <1>1, <1>2, <1>11, <1>13, <1>18 DEF DrawnFresh
  <2> QED BY <1>8, <1>13, <1>14, <1>15, <1>16, <2>1, <2>2 DEF IInv
<1> QED BY <1>17, <1>18

-----------------------------------------------------------------------------

\* An empty database satisfies the inductive invariant.
LEMMA InitIInv == Init => IInv
<1> SUFFICES ASSUME Init PROVE IInv
  OBVIOUS
<1>1. TypeOK
  BY BoundsTyping DEF Init, TypeOK, Stages
<1>2. AuditTrail /\ KeysMatchAudit
  BY DEF Init, AuditTrail, KeysMatchAudit
<1>3. HandlerState /\ DrawnFresh /\ StageOfVersion /\ CredentialsSound /\ AnswerTrue
  BY DEF Init, HandlerState, DrawnFresh, StageOfVersion, CredentialsSound,
         AnswerTrue
<1> QED BY <1>1, <1>2, <1>3 DEF IInv

\* Every step of a request, every deadline and every crash keeps the inductive
\* invariant.
LEMMA StepIInv == IInv /\ [Next]_vars => IInv'
<1> SUFFICES ASSUME IInv, [Next]_vars PROVE IInv'
  OBVIOUS
<1>1. CASE UNCHANGED vars
  <2>1. UNCHANGED <<stage, version, results, audit, sequence, serial,
                    pc, request, drawn, answer>>
    BY <1>1 DEF vars
  <2> QED BY <2>1 DEF IInv, TypeOK, StageOfVersion, HandlerState, DrawnFresh,
                      AuditTrail, KeysMatchAudit, CredentialsSound, AnswerTrue
<1>2. ASSUME NEW h \in Handlers, TransactKnown(h) PROVE IInv'
  BY <1>2, KnownKeeps DEF TransactKnown, KnownKey
<1>3. ASSUME NEW h \in Handlers, Reply(h) \/ GiveUp(h) PROVE IInv'
  BY <1>3, ClearKeeps DEF Reply, GiveUp
<1>4. CASE Crash
  BY <1>4, ClearKeeps DEF Crash
<1> QED BY <1>1, <1>2, <1>3, <1>4, ReceiveKeeps, LookupKeeps, DrawKeeps,
           CreateKeeps, MutateKeeps, RefuseKeeps DEF Next

\* The inductive invariant holds.
THEOREM StoreInvariance == Spec => []IInv
BY InitIInv, StepIInv, PTL DEF Spec

\* The audit trail of every batch counts its versions without a gap
\* (appendAudit).
THEOREM AuditComplete == Spec => []AuditTrail
<1>1. IInv => AuditTrail
  BY DEF IInv
<1> QED BY <1>1, StoreInvariance, PTL

\* Stored results and audit events agree one for one: each key takes effect at
\* most once (idempotent, saveResult).
THEOREM KeysOnce == Spec => []KeysMatchAudit
<1>1. IInv => KeysMatchAudit
  BY DEF IInv
<1> QED BY <1>1, StoreInvariance, PTL

\* A released batch has a credential and no two batches share a serial
\* (NextCredentialSerial, saveAggregate).
THEOREM SerialsUnique == Spec => []CredentialsSound
<1>1. IInv => CredentialsSound
  BY DEF IInv
<1> QED BY <1>1, StoreInvariance, PTL

\* A success a client is told of took effect under its key (Create, Mutate).
THEOREM AnswersTrue == Spec => []AnswerTrue
<1>1. IInv => AnswerTrue
  BY DEF IInv
<1> QED BY <1>1, StoreInvariance, PTL

-----------------------------------------------------------------------------

\* The results of a step: a key that has one keeps it.
ResultsStay == \A k \in Keys : results[k] # NULL => results'[k] = results[k]

LEMMA StepKeepsResults ==
    ASSUME IInv, [Next]_vars
    PROVE  ResultsStay
<1>1. ASSUME NEW h \in Handlers, NEW v,
             request[h].key \in Keys, ~KnownKey(request[h]),
             Record(request[h], v)
      PROVE  ResultsStay
  BY <1>1 DEF IInv, TypeOK, KnownKey, Record, ResultsStay
<1>2. ASSUME NEW h \in Handlers, TransactCreate(h) \/ TransactMutate(h)
      PROVE  ResultsStay
  <2>1. request[h].key \in Keys
    BY <1>2 DEF IInv, TypeOK, HandlerState, Request,
                TransactCreate, TransactMutate
  <2> QED BY <1>1, <1>2, <2>1 DEF TransactCreate, TransactMutate
<1>3. CASE UNCHANGED results
  BY <1>3 DEF ResultsStay
<1>4. CASE Next /\ results' # results
  <2>1. \E h \in Handlers : TransactCreate(h) \/ TransactMutate(h)
    BY <1>4 DEF Next, Receive, Lookup, Draw, TransactKnown, TransactRefuse,
                Reply, GiveUp, Crash, table
  <2> QED BY <1>2, <2>1
<1> QED BY <1>3, <1>4 DEF vars

\* What is stored for a key is never replaced (idempotent runs before
\* saveResult in the transaction).
THEOREM FirstResultKept == Spec => FirstResultStays
BY StepKeepsResults, StoreInvariance, PTL
   DEF Spec, FirstResultStays, ResultsStay

\* A serial is larger than every serial in use when it was drawn, and what a
\* batch gets is what the handler of its release drew: of two releases of which
\* one was committed before the other drew, the later has the larger serial
\* (NextCredentialSerial, Issue).  Of two at the same time IssuedInOrder says
\* otherwise.
THEOREM SerialsAscend ==
    Spec => [][/\ \A h \in Handlers : drawn'[h] \notin {0, drawn[h]} =>
                    \A b \in Batches : serial[b] < drawn'[h]
               /\ \A b \in Batches : serial'[b] # serial[b] =>
                    \E h \in Handlers : /\ pc[h] = "transact"
                                        /\ request[h].batch = b
                                        /\ serial'[b] = drawn[h]]_vars
<1> DEFINE Ascends ==
        /\ \A h \in Handlers : drawn'[h] \notin {0, drawn[h]} =>
                \A b \in Batches : serial[b] < drawn'[h]
        /\ \A b \in Batches : serial'[b] # serial[b] =>
                \E h \in Handlers : /\ pc[h] = "transact"
                                    /\ request[h].batch = b
                                    /\ serial'[b] = drawn[h]
<1>1. ASSUME IInv, [Next]_vars PROVE [Ascends]_vars
  <2>1. /\ drawn \in [Handlers -> 0 .. MaxSerial] /\ sequence \in 0 .. MaxSerial
        /\ serial \in [Batches -> 0 .. MaxSerial] /\ MaxSerial \in Nat
        /\ \A b \in Batches : serial[b] <= sequence
    BY <1>1, BoundsTyping DEF IInv, TypeOK, DrawnFresh
  <2>2. ASSUME NEW h \in Handlers, Draw(h) PROVE Ascends
    <3>1. drawn' = [drawn EXCEPT ![h] = sequence + 1] /\ serial' = serial
      BY <2>2 DEF Draw, NextSerial
    <3>2. ASSUME NEW b \in Batches PROVE serial[b] < sequence + 1
      <4>1. serial[b] \in Nat /\ sequence \in Nat
        BY <2>1
      <4> QED BY <2>1, <4>1
    <3> QED BY <2>1, <3>1, <3>2
  <2>3. ASSUME NEW h \in Handlers, TransactMutate(h) PROVE Ascends
    <3>1. drawn' = drawn /\ pc[h] = "transact" /\ serial' = SavedSerial(h)
      BY <2>3 DEF TransactMutate, Finish
    <3>2. ASSUME NEW b \in Batches, serial'[b] # serial[b]
          PROVE  request[h].batch = b /\ serial'[b] = drawn[h]
      BY <2>1, <3>1, <3>2 DEF SavedSerial
    <3> QED BY <3>1, <3>2
  <2>4. CASE /\ UNCHANGED serial
             /\ \A h \in Handlers : drawn'[h] \in {0, drawn[h]}
    BY <2>4
  <2>5. ASSUME NEW hs \in SUBSET Handlers, Clear(hs), UNCHANGED table
        PROVE  Ascends
    <3>1. serial' = serial /\ \A h \in Handlers : drawn'[h] \in {0, drawn[h]}
      BY <2>5 DEF Clear, table
    <3> QED BY <2>4, <3>1
  <2>6. ASSUME NEW h \in Handlers,
               \/ \E r \in Request : Receive(h, r)
               \/ Lookup(h) \/ TransactKnown(h) \/ TransactCreate(h)
               \/ TransactRefuse(h)
        PROVE  serial' = serial /\ drawn' = drawn
    BY <2>6 DEF Receive, Lookup, TransactKnown, TransactCreate, TransactRefuse,
                AnswerKnownKey, Finish, table
  <2>7. ASSUME NEW h \in Handlers, Reply(h) \/ GiveUp(h) PROVE Ascends
    <3>1. {h} \in SUBSET Handlers /\ Clear({h}) /\ UNCHANGED table
      BY <2>7 DEF Reply, GiveUp
    <3> QED BY <2>5, <3>1
  <2>8. CASE Crash
    BY <2>5, <2>8 DEF Crash
  <2> QED BY <1>1, <2>2, <2>3, <2>4, <2>6, <2>7, <2>8 DEF Next
<1> QED BY <1>1, StoreInvariance, PTL DEF Spec

-----------------------------------------------------------------------------
(* What clients may build on.                                              *)

\* A client was told that its command, sent under k, had the result r.
Told(k, r) ==
    \E h \in Handlers :
        /\ pc[h] = "answered" /\ answer[h].outcome \in {"done", "replayed"}
        /\ request[h].key = k
        /\ r = [action |-> request[h].action, batch |-> answer[h].batch,
                version |-> answer[h].version]

\* What a client may build on when it was told r under the key k: r is stored
\* and audited, all that is told under k is r, and nobody is told under another
\* key that his command made the version of r.
StandsFor(k, r) ==
    /\ results[k] = r
    /\ \E i \in DOMAIN audit : audit[i] = r
    /\ \A s : Told(k, s) => s = r
    /\ \A l \in Keys : \A s :
        Told(l, s) /\ s.batch = r.batch /\ s.version = r.version => l = k

\* A success, once told, is true for ever: whatever is sent, retried, cut off
\* or lost in a crash afterwards, the result stays stored under its key, so
\* that every later retry is told the same, its event stays in the audit
\* trail, and no update is lost: the version it made is never said to be made
\* by another command (Create, Mutate, Issue, idempotent).
THEOREM ToldForEver ==
    ASSUME NEW key \in Keys, NEW r
    PROVE  Spec => [](Told(key, r) => []StandsFor(key, r))
<1> DEFINE Stored == results[key] = r /\ r # NULL
<1>1. ASSUME IInv, NEW l \in Keys, NEW s, Told(l, s)
      PROVE  results[l] = s /\ s # NULL
  BY <1>1 DEF IInv, AnswerTrue, Told
<1>2. IInv /\ Told(key, r) => Stored
  BY <1>1
<1>3. ASSUME IInv, Stored, NEW l \in Keys, NEW s, Told(l, s),
             s.batch = r.batch, s.version = r.version
      PROVE  l = key
  <2>1. results[l] = s /\ s # NULL
    BY <1>1, <1>3
  <2>2. PICK i \in DOMAIN audit, j \in DOMAIN audit : audit[i] = r /\ audit[j] = s
    BY <1>3, <2>1 DEF IInv, KeysMatchAudit
  <2>3. i \in Nat /\ j \in Nat /\ audit[i].version \in Nat
    <3>1. i \in Nat /\ j \in Nat
      BY <1>3 DEF IInv, TypeOK
    <3>2. r \in Result
      BY <1>3 DEF IInv, TypeOK
    <3> QED BY <2>2, <3>1, <3>2 DEF Result
  <2>4. ~(i < j) /\ ~(j < i)
    BY <1>3, <2>2, <2>3 DEF IInv, AuditTrail
  <2>5. i = j
    BY <2>3, <2>4
  <2> QED BY <1>3, <2>1, <2>2, <2>5 DEF IInv, KeysMatchAudit
<1>4. IInv /\ Stored => StandsFor(key, r)
  BY <1>1, <1>3 DEF IInv, KeysMatchAudit, StandsFor
<1>5. IInv /\ Stored /\ [Next]_vars => Stored'
  BY StepKeepsResults DEF ResultsStay
<1> HIDE DEF Stored
<1> QED BY <1>2, <1>4, <1>5, StoreInvariance, PTL DEF Spec

\* Of the requests for one key that have their answers, one was told "done": it
\* alone took effect, the others are told its result.
DoneOnce ==
    \A h, g \in Handlers :
        /\ pc[h] = "answered" /\ answer[h].outcome = "done"
        /\ pc[g] = "answered" /\ answer[g].outcome = "done"
        /\ request[h].key = request[g].key
        => h = g

\* Of the requests that named one version of a batch, and have their answers,
\* one was told "done": nobody changes a batch on the strength of a version
\* that somebody else has changed since.
NoLostUpdate ==
    \A h, g \in Handlers :
        /\ pc[h] = "answered" /\ answer[h].outcome = "done"
        /\ pc[g] = "answered" /\ answer[g].outcome = "done"
        /\ answer[h].batch = answer[g].batch
        /\ request[h].expected = request[g].expected
        => h = g

\* A step that tells somebody "done" has found the key unused.
LEMMA DoneKeeps ==
    ASSUME IInv, DoneOnce, [Next]_vars
    PROVE  DoneOnce'
<1>1. /\ pc \in [Handlers -> {"idle", "lookup", "draw", "transact", "answered"}]
      /\ answer \in [Handlers -> Answer \cup {NULL}]
      /\ request \in [Handlers -> Request \cup {NULL}]
  BY DEF IInv, TypeOK
<1>2. ASSUME NEW h \in Handlers, NEW a,
             Finish(h, a), a.outcome = "done" => ~KnownKey(request[h])
      PROVE  DoneOnce'
  <2>1. /\ \A g \in Handlers : request'[g] = request[g]
        /\ \A g \in Handlers \ {h} : pc'[g] = pc[g] /\ answer'[g] = answer[g]
        /\ answer'[h] = a
    BY <1>1, <1>2 DEF Finish
  <2>2. ASSUME NEW g \in Handlers, pc[g] = "answered", answer[g].outcome = "done"
        PROVE  KnownKey(request[g])
    BY <2>2 DEF IInv, AnswerTrue, KnownKey
  <2>3. ASSUME a.outcome = "done", NEW g \in Handlers \ {h},
               pc[g] = "answered", answer[g].outcome = "done"
        PROVE  request[g].key # request[h].key
    BY <1>2, <2>2, <2>3 DEF KnownKey
  <2> QED BY <2>1, <2>3 DEF DoneOnce
<1>3. ASSUME NEW h \in Handlers, AnswerKnownKey(h) PROVE DoneOnce'
  <2>1. PICK a : Finish(h, a) /\ a.outcome # "done"
    BY <1>3 DEF AnswerKnownKey, Replay, Refusal
  <2> QED BY <1>2, <2>1
<1>4. ASSUME NEW h \in Handlers, TransactCreate(h) \/ TransactMutate(h)
      PROVE  DoneOnce'
  <2>1. PICK a : Finish(h, a) /\ ~KnownKey(request[h])
    BY <1>4 DEF TransactCreate, TransactMutate
  <2> QED BY <1>2, <2>1
<1>5. ASSUME NEW h \in Handlers, TransactRefuse(h) PROVE DoneOnce'
  <2>1. PICK a : Finish(h, a) /\ a.outcome # "done"
    BY <1>5 DEF TransactRefuse, Refusal
  <2> QED BY <1>2, <2>1
<1>6. ASSUME NEW hs \in SUBSET Handlers, Clear(hs) PROVE DoneOnce'
  BY <1>6 DEF Clear, DoneOnce
<1>7. ASSUME NEW h \in Handlers, NEW q \in Request, Receive(h, q)
      PROVE  DoneOnce'
  BY <1>1, <1>7 DEF Receive, DoneOnce
<1>8. ASSUME NEW h \in Handlers, Lookup(h) PROVE DoneOnce'
  <2>1. CASE AnswerKnownKey(h)
    BY <1>3, <2>1
  <2>2. CASE pc' = [pc EXCEPT ![h] = "draw"] /\ UNCHANGED <<request, answer>>
    BY <1>1, <2>2 DEF DoneOnce
  <2> QED BY <1>8, <2>1, <2>2 DEF Lookup
<1>9. ASSUME NEW h \in Handlers, Draw(h) PROVE DoneOnce'
  BY <1>1, <1>9 DEF Draw, DoneOnce
<1>10. CASE UNCHANGED vars
  BY <1>10 DEF vars, DoneOnce
<1> QED BY <1>3, <1>4, <1>5, <1>6, <1>7, <1>8, <1>9, <1>10
           DEF Next, TransactKnown, Reply, GiveUp, Crash

\* However requests for a batch race, retry and are cut off: a command takes
\* effect for one of them, and one command takes effect on each version
\* (idempotent, the comparison of the version in Mutate and saveAggregate).
THEOREM FirstCommitterWins == Spec => [](DoneOnce /\ NoLostUpdate)
<1>1. Init => DoneOnce
  BY DEF Init, DoneOnce
<1>2. ASSUME IInv, DoneOnce PROVE NoLostUpdate
  <2>1. SUFFICES ASSUME NEW h \in Handlers, NEW g \in Handlers,
                        pc[h] = "answered", answer[h].outcome = "done",
                        pc[g] = "answered", answer[g].outcome = "done",
                        answer[h].batch = answer[g].batch,
                        request[h].expected = request[g].expected
                 PROVE  h = g
    BY DEF NoLostUpdate
  <2>2. /\ request[h].key \in Keys /\ request[g].key \in Keys
        /\ answer[h].version = answer[g].version
        /\ results[request[h].key] # NULL /\ results[request[g].key] # NULL
        /\ results[request[h].key] =
             [action |-> request[h].action, batch |-> answer[h].batch,
              version |-> answer[h].version]
        /\ results[request[g].key] =
             [action |-> request[g].action, batch |-> answer[g].batch,
              version |-> answer[g].version]
    <3>1. /\ request[h] \in Request /\ request[g] \in Request
          /\ AnswerTrue
      BY <1>2, <2>1 DEF IInv, TypeOK, HandlerState
    <3> QED BY <2>1, <3>1 DEF AnswerTrue, Request
  <2>3. PICK i \in DOMAIN audit, j \in DOMAIN audit :
            /\ audit[i] = results[request[h].key]
            /\ audit[j] = results[request[g].key]
    BY <1>2, <2>2 DEF IInv, KeysMatchAudit
  <2>4. /\ audit[i].batch = audit[j].batch
        /\ audit[i].version = audit[j].version /\ audit[i].version \in Nat
    <3>1. results[request[h].key] \in Result
      BY <1>2, <2>2 DEF IInv, TypeOK
    <3> QED BY <2>1, <2>2, <2>3, <3>1 DEF Result
  <2>5. i \in Nat /\ j \in Nat
    BY <1>2 DEF IInv, TypeOK
  <2>6. i = j
    <3>1. ~(i < j) /\ ~(j < i)
      BY <1>2, <2>4, <2>5 DEF IInv, AuditTrail
    <3> QED BY <2>5, <3>1
  <2>7. request[h].key = request[g].key
    BY <1>2, <2>2, <2>3, <2>6 DEF IInv, KeysMatchAudit
  <2> QED BY <1>2, <2>1, <2>7 DEF DoneOnce
<1> QED BY <1>1, <1>2, DoneKeeps, StoreInvariance, PTL DEF Spec

=============================================================================
