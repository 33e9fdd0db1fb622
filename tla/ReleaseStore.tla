----------------------------- MODULE ReleaseStore -----------------------------
(***************************************************************************)
(* The transactional store of internal/store and the write path of         *)
(* internal/application that uses it: versions, idempotency keys, the      *)
(* credential sequence and the audit trail, under concurrent requests that *)
(* are retried, cut off by a deadline or lost in a crash.                  *)
(*                                                                         *)
(* The database has one connection, so a transaction of Create or Mutate   *)
(* is one step: it commits whole, or the request ends with no effect.  A   *)
(* step outside a transaction is a step of its own: LookupIdempotency and  *)
(* NextCredentialSerial, which Issue calls before Mutate, autocommit.      *)
(*                                                                         *)
(* A batch is kept as its stage: "open" stands for draft to                *)
(* pending_review, whose commands InspectionBatch models.                  *)
(***************************************************************************)
EXTENDS Naturals, Sequences, FiniteSets

CONSTANTS
    Batches,      \* batch identifiers randomIDs may draw
    Keys,         \* idempotency keys clients choose
    Handlers,     \* requests the server works on at the same time
    NULL,
    AuditCap,     \* events an audit query reads, 500 in the code
    Changes,      \* the actions that leave a batch open: nine in the code,
                  \* lock_batch and record_test among them
    Reuse,        \* bound: whether clients send a key a second time
    MaxStale,     \* bound: how far off the version a client names may be
    MaxVersion,   \* bound: versions of one batch
    MaxSerial     \* bound: serials drawn from the sequence

VARIABLES
    stage,      \* inspection_batches.status, "none" without a row
    version,    \* inspection_batches.version, 0 without a row
    results,    \* idempotency_results by key, NULL without a row
    audit,      \* audit_events by id
    sequence,   \* the last id of credential_sequence
    serial,     \* release_credentials.serial_number by batch, 0 without a row
    pc,         \* where a handler is in its request
    request,    \* the request of a handler
    drawn,      \* the serial a handler of Issue has drawn
    answer      \* the reply of a handler whose request is done

table == <<stage, version, results, audit, sequence, serial>>
vars == <<stage, version, results, audit, sequence, serial,
          pc, request, drawn, answer>>

StageActions == {"create_batch", "approve_batch", "issue_credential"}

Actions == StageActions \cup Changes

ASSUME ChangesApart == Changes \cap StageActions = {}

ASSUME BoundsTyping ==
    /\ Reuse \in BOOLEAN
    /\ AuditCap \in Nat \ {0}
    /\ MaxStale \in Nat /\ MaxVersion \in Nat \ {0} /\ MaxSerial \in Nat

Stages == {"none", "open", "frozen", "released"}

Outcomes == {"done", "replayed", "idempotency_conflict", "not_found",
             "version_conflict", "refused"}

Request == [action : Actions, batch : Batches, key : Keys,
            expected : 0 .. MaxVersion]

Result == [action : Actions, batch : Batches, version : 1 .. MaxVersion]

Answer == [outcome : Outcomes, batch : Batches, version : 0 .. MaxVersion]

ASSUME NullApart == NULL \notin Request \cup Result \cup Answer

Refusal(r, outcome) == [outcome |-> outcome, batch |-> r.batch, version |-> 0]

-----------------------------------------------------------------------------

Init ==
    /\ stage = [b \in Batches |-> "none"]
    /\ version = [b \in Batches |-> 0]
    /\ results = [k \in Keys |-> NULL]
    /\ audit = <<>>
    /\ sequence = 0
    /\ serial = [b \in Batches |-> 0]
    /\ pc = [h \in Handlers |-> "idle"]
    /\ request = [h \in Handlers |-> NULL]
    /\ drawn = [h \in Handlers |-> 0]
    /\ answer = [h \in Handlers |-> NULL]

\* A creation under way has drawn the identifier b, which nobody has been told.
Undisclosed(b) ==
    \E g \in Handlers : /\ pc[g] = "transact"
                       /\ request[g].action = "create_batch"
                       /\ request[g].batch = b

\* A request that passed validateMeta.  A creation expects version 0 and its
\* handler draws an identifier nobody has.  Any other command names a batch,
\* which need not exist, and a version above 0, which may be behind the batch
\* or ahead of it.  Nothing keeps a client from sending a request again, or a
\* key with another request.
Receive(h, r) ==
    /\ pc[h] = "idle"
    /\ Reuse \/ ( /\ results[r.key] = NULL
                 /\ \A g \in Handlers : request[g] # NULL => request[g].key # r.key)
    /\ IF r.action = "create_batch"
       THEN /\ r.expected = 0
            /\ stage[r.batch] = "none"
            /\ \A g \in Handlers : request[g] # NULL => request[g].batch # r.batch
       ELSE /\ ~Undisclosed(r.batch)
            /\ r.expected >= 1
            /\ r.expected <= version[r.batch] + MaxStale
            /\ version[r.batch] <= r.expected + MaxStale
    /\ pc' = [pc EXCEPT ![h] = IF r.action = "issue_credential"
                               THEN "lookup" ELSE "transact"]
    /\ request' = [request EXCEPT ![h] = r]
    /\ UNCHANGED <<table, drawn, answer>>

\* Mutant: a key alone names a command.
SameCommand_KeyOnly(old, r) == TRUE

\* The comparison idempotent and LookupIdempotency make with a stored result;
\* Create passes no batch.
SameCommand(old, r) ==
    /\ old.action = r.action
    /\ r.action # "create_batch" => old.batch = r.batch

Replay(k) ==
    [outcome |-> "replayed", batch |-> results[k].batch,
     version |-> results[k].version]

Finish(h, a) ==
    /\ pc' = [pc EXCEPT ![h] = "answered"]
    /\ answer' = [answer EXCEPT ![h] = a]
    /\ UNCHANGED <<request, drawn>>

\* What a handler answers when the key of its request is known.
AnswerKnownKey(h) ==
    LET r == request[h] IN
    Finish(h, IF SameCommand(results[r.key], r) THEN Replay(r.key)
              ELSE Refusal(r, "idempotency_conflict"))

\* Issue: LookupIdempotency.
Lookup(h) ==
    /\ pc[h] = "lookup"
    /\ \/ /\ results[request[h].key] # NULL
          /\ AnswerKnownKey(h)
       \/ /\ results[request[h].key] = NULL
          /\ pc' = [pc EXCEPT ![h] = "draw"]
          /\ UNCHANGED <<request, drawn, answer>>
    /\ UNCHANGED table

\* Mutant: the next serial is one above the highest that was issued.
NextSerial_Max ==
    IF \A b \in Batches : serial[b] = 0 THEN 1
    ELSE 1 + CHOOSE n \in 1 .. MaxSerial :
                /\ \E b \in Batches : serial[b] = n
                /\ \A b \in Batches : serial[b] <= n

\* AUTOINCREMENT gives an id above every id ever given.
NextSerial == sequence + 1

\* Issue: NextCredentialSerial commits on its own.
Draw(h) ==
    /\ pc[h] = "draw"
    /\ sequence < MaxSerial
    /\ drawn' = [drawn EXCEPT ![h] = NextSerial]
    /\ sequence' = NextSerial
    /\ pc' = [pc EXCEPT ![h] = "transact"]
    /\ UNCHANGED <<stage, version, results, audit, serial, request, answer>>

-----------------------------------------------------------------------------
(* The transaction.                                                        *)

\* Mutant: the audit event carries the version the client expected.
Record_Expected(r, v) ==
    /\ results' = [results EXCEPT ![r.key] =
                    [action |-> r.action, batch |-> r.batch, version |-> v]]
    /\ audit' = Append(audit, [action |-> r.action, batch |-> r.batch,
                               version |-> r.expected])

\* saveResult and appendAudit, the same for Create and Mutate.  The key is the
\* primary key of idempotency_results; that this would stop a second row for it
\* is left out, so that the properties rest on idempotent alone.
Record(r, v) ==
    /\ results' = [results EXCEPT ![r.key] =
                    [action |-> r.action, batch |-> r.batch, version |-> v]]
    /\ audit' = Append(audit,
                    [action |-> r.action, batch |-> r.batch, version |-> v])

\* Mutant: a retry is recognised only with the version it was first sent with.
KnownKey_SameVersion(r) ==
    results[r.key] # NULL /\ results[r.key].version = r.expected + 1

KnownKey(r) == results[r.key] # NULL

\* Create and Mutate: idempotent, inside the transaction.
TransactKnown(h) ==
    /\ pc[h] = "transact"
    /\ KnownKey(request[h])
    /\ AnswerKnownKey(h)
    /\ UNCHANGED table

\* Create.
TransactCreate(h) ==
    LET r == request[h] IN
    /\ pc[h] = "transact"
    /\ r.action = "create_batch"
    /\ ~KnownKey(r)
    /\ stage' = [stage EXCEPT ![r.batch] = "open"]
    /\ version' = [version EXCEPT ![r.batch] = 1]
    /\ Record(r, 1)
    /\ Finish(h, [outcome |-> "done", batch |-> r.batch, version |-> 1])
    /\ UNCHANGED <<sequence, serial>>

\* Mutant: the version is compared with >=.
Current_AtLeast(r) == version[r.batch] >= r.expected

\* b.Version != expected, and again in the WHERE clause of saveAggregate.
Current(r) == version[r.batch] = r.expected

\* Mutant: no command looks at the status of the batch.
Allowed_AnyStatus(r) ==
    /\ r.action \in Changes \cup {"approve_batch", "issue_credential"}
    /\ stage[r.batch] # "none"

\* The stage a command needs and, below, the one it leads to.
Allowed(r) ==
    CASE r.action \in Changes -> stage[r.batch] = "open"
      [] r.action = "approve_batch" -> stage[r.batch] = "open"
      [] r.action = "issue_credential" -> stage[r.batch] = "frozen"
      [] OTHER -> FALSE

NextStage(r) ==
    CASE r.action \in Changes -> "open"
      [] r.action = "approve_batch" -> "frozen"
      [] r.action = "issue_credential" -> "released"

\* INSERT OR IGNORE on release_credentials, where batch_id and serial_number
\* are UNIQUE: a serial another batch has leaves the row out without an error.
SavedSerial(h) ==
    IF /\ request[h].action = "issue_credential"
       /\ serial[request[h].batch] = 0
       /\ \A b \in Batches : serial[b] # drawn[h]
    THEN [serial EXCEPT ![request[h].batch] = drawn[h]]
    ELSE serial

\* b.Version++.
NewVersion(r) == version[r.batch] + 1

\* Mutate, up to Commit.
TransactMutate(h) ==
    LET r == request[h] IN
    /\ pc[h] = "transact"
    /\ r.action # "create_batch"
    /\ ~KnownKey(r)
    /\ Current(r) /\ Allowed(r)
    /\ version[r.batch] < MaxVersion
    /\ stage' = [stage EXCEPT ![r.batch] = NextStage(r)]
    /\ version' = [version EXCEPT ![r.batch] = NewVersion(r)]
    /\ serial' = SavedSerial(h)
    /\ Record(r, NewVersion(r))
    /\ Finish(h, [outcome |-> "done", batch |-> r.batch,
                  version |-> NewVersion(r)])
    /\ UNCHANGED sequence

\* Mutate, rolled back: loadBatch finds no row, the version is another one, or
\* the aggregate refuses, which it may do to any command (a signature that does
\* not match, a reading out of range, a point that is not there).
TransactRefuse(h) ==
    LET r == request[h] IN
    /\ pc[h] = "transact"
    /\ r.action # "create_batch"
    /\ ~KnownKey(r)
    /\ \/ /\ stage[r.batch] = "none"
          /\ Finish(h, Refusal(r, "not_found"))
       \/ /\ stage[r.batch] # "none" /\ ~Current(r)
          /\ Finish(h, Refusal(r, "version_conflict"))
       \/ /\ Current(r)
          /\ Finish(h, Refusal(r, "refused"))
    /\ UNCHANGED table

-----------------------------------------------------------------------------

Clear(hs) ==
    /\ pc' = [h \in Handlers |-> IF h \in hs THEN "idle" ELSE pc[h]]
    /\ request' = [h \in Handlers |-> IF h \in hs THEN NULL ELSE request[h]]
    /\ drawn' = [h \in Handlers |-> IF h \in hs THEN 0 ELSE drawn[h]]
    /\ answer' = [h \in Handlers |-> IF h \in hs THEN NULL ELSE answer[h]]

\* The reply reaches the client, or is lost on the way.
Reply(h) ==
    /\ pc[h] = "answered"
    /\ Clear({h})
    /\ UNCHANGED table

\* The deadline of 15 s, or the client, ends a request between two steps.
GiveUp(h) ==
    /\ pc[h] \in {"lookup", "draw", "transact"}
    /\ Clear({h})
    /\ UNCHANGED table

\* The process ends and is started again: the database is all that is left.
Crash ==
    /\ \E h \in Handlers : pc[h] # "idle"
    /\ Clear(Handlers)
    /\ UNCHANGED table

Next ==
    \/ \E h \in Handlers :
        \/ \E r \in Request : Receive(h, r)
        \/ Lookup(h)
        \/ Draw(h)
        \/ TransactKnown(h)
        \/ TransactCreate(h)
        \/ TransactMutate(h)
        \/ TransactRefuse(h)
        \/ Reply(h)
        \/ GiveUp(h)
    \/ Crash

Spec == Init /\ [][Next]_vars

-----------------------------------------------------------------------------
(* The audit query.                                                        *)

EventsOf(b) == {i \in DOMAIN audit : audit[i].batch = b}

\* Mutant: the events are read oldest first.
Newest_Oldest(b) ==
    {i \in EventsOf(b) : Cardinality({j \in EventsOf(b) : j < i}) < AuditCap}

\* ListAudit: ORDER BY id DESC LIMIT.
Newest(b) ==
    {i \in EventsOf(b) : Cardinality({j \in EventsOf(b) : j > i}) < AuditCap}

\* ListAuditFiltered with an action and a version.
ListAuditFiltered(b, action, v) ==
    {i \in Newest(b) : audit[i].action = action /\ audit[i].version = v}

-----------------------------------------------------------------------------
(* Properties.                                                             *)

\* Types of the tables and of the handlers' variables.
TypeOK ==
    /\ stage \in [Batches -> Stages]
    /\ version \in [Batches -> 0 .. MaxVersion]
    /\ results \in [Keys -> Result \cup {NULL}]
    /\ audit \in Seq(Result)
    /\ sequence \in 0 .. MaxSerial
    /\ serial \in [Batches -> 0 .. MaxSerial]
    /\ pc \in [Handlers -> {"idle", "lookup", "draw", "transact", "answered"}]
    /\ request \in [Handlers -> Request \cup {NULL}]
    /\ drawn \in [Handlers -> 0 .. MaxSerial]
    /\ answer \in [Handlers -> Answer \cup {NULL}]

\* The audit trail of a batch counts its versions without a gap, a repetition
\* or a disorder, up to the version in its row: whatever was retried, refused
\* or cut off, each version left exactly one event.
AuditTrail ==
    /\ \A i \in DOMAIN audit :
        audit[i].version <= version[audit[i].batch]
    /\ \A b \in Batches : \A v \in 1 .. version[b] :
        \E i \in DOMAIN audit : audit[i].batch = b /\ audit[i].version = v
    /\ \A i, j \in DOMAIN audit :
        i < j /\ audit[i].batch = audit[j].batch =>
            audit[i].version < audit[j].version

\* The stored results and the audit events are the same commands, one for one:
\* no key took effect twice, no command took effect without its key.
KeysMatchAudit ==
    /\ \A i \in DOMAIN audit : \E k \in Keys : results[k] = audit[i]
    /\ \A k \in Keys : results[k] # NULL =>
        \E i \in DOMAIN audit : audit[i] = results[k]
    /\ \A k, l \in Keys : results[k] # NULL /\ results[k] = results[l] => k = l

\* A batch is released exactly when it has a credential, and a serial number
\* belongs to one batch: INSERT OR IGNORE never meets a serial it would ignore,
\* however many requests drew one at the same time.
CredentialsSound ==
    /\ \A b \in Batches : stage[b] = "released" <=> serial[b] # 0
    /\ \A b, c \in Batches : serial[b] # 0 /\ serial[b] = serial[c] => b = c

\* A client that is told of success is told the truth: the result stored for
\* its key is that of its own command, and a command that is not a replay took
\* effect on the very version the client had named.
AnswerTrue ==
    \A h \in Handlers :
        pc[h] = "answered" /\ answer[h].outcome \in {"done", "replayed"} =>
            LET r == request[h]  a == answer[h] IN
            /\ results[r.key] # NULL
            /\ results[r.key] =
                [action |-> r.action, batch |-> a.batch, version |-> a.version]
            /\ r.action # "create_batch" => a.batch = r.batch
            /\ a.outcome = "done" => a.version = r.expected + 1

\* Whoever looks for a command by its action and the version it led to finds
\* one event, its own, until AuditCap later versions have pushed it out of what
\* the query reads; from then on the answer is empty, although the event is
\* there.
AuditFinds ==
    \A k \in Keys : results[k] # NULL =>
        LET r == results[k]
            found == ListAuditFiltered(r.batch, r.action, r.version) IN
        IF r.version + AuditCap > version[r.batch]
        THEN \E i \in DOMAIN audit : found = {i} /\ audit[i] = r
        ELSE found = {}

\* README.md:14: a retry is given the result of the first submission.  What is
\* stored for a key is never replaced.
FirstResultStays ==
    [][\A k \in Keys : results[k] # NULL => results'[k] = results[k]]_vars

\* README.md:12 has the lead sign credentials with increasing serial numbers.
\* Two requests may draw their serials in one order and issue in the other.
IssuedInOrder ==
    [][\A b, c \in Batches :
        serial[b] # 0 /\ serial[c] = 0 /\ serial'[c] # 0 =>
            serial'[c] > serial[b]]_vars

KeyOf(b, v) ==
    CHOOSE k \in Keys : /\ results[k] # NULL
                        /\ results[k].batch = b /\ results[k].version = v

\* The abstract promise: the commands of a batch are read off the stored
\* results, version by version.
Ledger == INSTANCE CommandLedger WITH
    Batch <- Batches, Key <- Keys, Action <- Actions, Serial <- 1 .. MaxSerial,
    serial <- serial,
    ledger <- [b \in Batches |-> [v \in 1 .. version[b] |->
                [key |-> KeyOf(b, v), action |-> results[KeyOf(b, v)].action]]]

\* The tables together are one list of commands per batch in which a key
\* appears once, through every interleaving, retry, deadline and crash.
ImplementsLedger == Ledger!Spec

-----------------------------------------------------------------------------
(* The inductive invariant behind the properties above.                    *)

\* A stage fits the version of its batch.
StageOfVersion ==
    \A b \in Batches : stage[b] = "none" <=> version[b] = 0

\* A serial that was drawn is behind the sequence, and until its handler has
\* answered nobody else has it.
DrawnFresh ==
    /\ \A b \in Batches : serial[b] <= sequence
    /\ \A h \in Handlers :
        /\ drawn[h] <= sequence
        /\ pc[h] = "transact" /\ request[h].action = "issue_credential" =>
            /\ drawn[h] # 0
            /\ \A b \in Batches : serial[b] # drawn[h]
            /\ \A g \in Handlers : drawn[g] = drawn[h] => g = h

\* What a handler holds at each point of its request.
HandlerState ==
    \A h \in Handlers :
        /\ request[h] = NULL <=> pc[h] = "idle"
        /\ answer[h] = NULL <=> pc[h] # "answered"
        /\ pc[h] \in {"lookup", "draw"} => request[h].action = "issue_credential"
        /\ pc[h] \in {"idle", "lookup", "draw"} => drawn[h] = 0
        /\ pc[h] # "idle" =>
            /\ request[h].action = "create_batch" <=> request[h].expected = 0
            /\ request[h].action = "create_batch" /\ pc[h] # "answered" =>
                /\ stage[request[h].batch] = "none"
                /\ \A g \in Handlers : request[g] # NULL /\ g # h =>
                        request[g].batch # request[h].batch

\* The inductive invariant: the tables agree with one another, and a handler
\* holds nothing that could make them disagree.
IInv ==
    /\ TypeOK
    /\ StageOfVersion
    /\ HandlerState
    /\ DrawnFresh
    /\ AuditTrail
    /\ KeysMatchAudit
    /\ CredentialsSound
    /\ AnswerTrue

=============================================================================
