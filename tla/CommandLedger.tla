---------------------------- MODULE CommandLedger ----------------------------
(***************************************************************************)
(* What the store promises a client, without transactions, versions kept   *)
(* in rows, sequence tables or retries: every batch is a list of commands, *)
(* a command is named by its idempotency key, each key takes effect at     *)
(* most once and in one batch, and a batch that was released is closed and *)
(* carries a serial number no other batch has.                             *)
(***************************************************************************)
EXTENDS Naturals, Sequences

CONSTANTS Batch, Key, Action, Serial

VARIABLES
    ledger,  \* the commands that took effect on each batch, in order
    serial   \* the serial number of each batch, 0 before the release

vars == <<ledger, serial>>

Used(k) == \E b \in Batch : \E i \in DOMAIN ledger[b] : ledger[b][i].key = k

Released(b) == serial[b] # 0

Init ==
    /\ ledger = [b \in Batch |-> <<>>]
    /\ serial = [b \in Batch |-> 0]

Apply(b, k, a) ==
    /\ ~Used(k) /\ ~Released(b)
    /\ (a = "create_batch") <=> (ledger[b] = <<>>)
    /\ ledger' = [ledger EXCEPT ![b] = Append(@, [key |-> k, action |-> a])]

\* Any command but the last one.
Change(b, k, a) ==
    /\ a # "issue_credential"
    /\ Apply(b, k, a)
    /\ UNCHANGED serial

\* The serial only has to be new.
Release(b, k, n) ==
    /\ n # 0 /\ \A c \in Batch : serial[c] # n
    /\ Apply(b, k, "issue_credential")
    /\ serial' = [serial EXCEPT ![b] = n]

Next ==
    \E b \in Batch, k \in Key :
        \/ \E a \in Action : Change(b, k, a)
        \/ \E n \in Serial : Release(b, k, n)

Spec == Init /\ [][Next]_vars

-----------------------------------------------------------------------------

\* Types.
TypeOK ==
    /\ ledger \in [Batch -> Seq([key : Key, action : Action])]
    /\ serial \in [Batch -> Serial \cup {0}]

\* A key stands at one place of one list.
KeysOnce ==
    \A b, c \in Batch : \A i \in DOMAIN ledger[b], j \in DOMAIN ledger[c] :
        ledger[b][i].key = ledger[c][j].key => b = c /\ i = j

\* A list begins with the creation of its batch, and with nothing else.
CreatedFirst ==
    \A b \in Batch : \A i \in DOMAIN ledger[b] :
        ledger[b][i].action = "create_batch" <=> i = 1

\* A list ends with the release, and only the list of a released batch has one.
ReleasedLast ==
    \A b \in Batch :
        /\ Released(b) => ledger[b] # <<>>
        /\ \A i \in DOMAIN ledger[b] :
            ledger[b][i].action = "issue_credential"
                <=> Released(b) /\ i = Len(ledger[b])

\* A serial belongs to one batch.
SerialsOnce ==
    \A b, c \in Batch : Released(b) /\ serial[b] = serial[c] => b = c

\* What has been done stays done, in its place, and a released batch is closed.
NothingUndone ==
    [][\A b \in Batch :
        /\ \A i \in DOMAIN ledger[b] :
            i \in DOMAIN ledger'[b] /\ ledger'[b][i] = ledger[b][i]
        /\ Released(b) => ledger'[b] = ledger[b] /\ serial'[b] = serial[b]]_vars

=============================================================================
