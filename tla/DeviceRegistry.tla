---------------------------- MODULE DeviceRegistry ----------------------------
(***************************************************************************)
(* The enrolled devices of the backend: the table and its mirror in memory *)
(* (storage/devices.py), the transactions they are written in              *)
(* (storage/database.py), and the pairing codes and requests of            *)
(* web/routes/devices.py.                                                  *)
(*                                                                         *)
(* A request waits for the lock of the database, then for the thread that  *)
(* runs SQLite: the commit is one step, the coroutine that goes on after   *)
(* it another.  Secrets are not modelled: who asks for a token knows its   *)
(* own.  The time to live of a code is a choice.  Left out: the limiter of *)
(* attempts, which keeps requests away, and the hub a revocation goes on   *)
(* to (CapabilityHub).                                                     *)
(***************************************************************************)
EXTENDS Naturals, Sequences, FiniteSets

CONSTANTS DeviceIds,
          RegistryCalls,   \* bound: requests at one time
          OutstandingCodes \* _MAX_OUTSTANDING_CODES

ASSUME EnrolmentAssumption == OutstandingCodes \in Nat \ {0}

VARIABLES drTable,   \* id -> its committed row
          drMirror,  \* _active
          drJammed,  \* a transaction whose commit failed is still open
          drCalls,   \* call -> the request and how far it is
          drCodes,   \* _codes, the kinds of the outstanding codes
          drUsed,    \* history: ids that were generated
          drTurnedOut \* history: ids whose revocation or deletion was answered "ok"

drVars == <<drTable, drMirror, drJammed, drCalls, drCodes, drUsed, drTurnedOut>>

EnrolledKinds == {"client", "capability_node"}
DeviceRow     == [kind : EnrolledKinds \cup {"none"}, revoked : BOOLEAN]
NoRow         == [kind |-> "none", revoked |-> FALSE]

RegistryCall == [op : {"enroll", "revoke", "delete", "token"}, at : {"waiting", "writing", "committed"},
                 id : DeviceIds, kind : EnrolledKinds]
NotAsked == [at |-> "none"]

DevicesTypeOK ==
    /\ drTable \in [DeviceIds -> DeviceRow]
    /\ drMirror \in [DeviceIds -> DeviceRow]
    /\ drJammed \in BOOLEAN
    /\ \A c \in RegistryCalls : drCalls[c] \in RegistryCall \cup {NotAsked}
    /\ drCodes \in Seq(EnrolledKinds) /\ Len(drCodes) <= OutstandingCodes
    /\ drUsed \subseteq DeviceIds
    /\ drTurnedOut \subseteq drUsed

DeviceRegistryInit ==
    /\ drTable = [i \in DeviceIds |-> NoRow]
    /\ drMirror = drTable
    /\ drJammed = FALSE
    /\ drCalls = [c \in RegistryCalls |-> NotAsked]
    /\ drCodes = <<>>
    /\ drUsed = {}
    /\ drTurnedOut = {}

\* is_active
IsActive(i) == drMirror[i].kind # "none" /\ ~drMirror[i].revoked

-----------------------------------------------------------------------------
(* Pairing codes.                                                          *)

\* The oldest code makes room for a new one.
Issue(kind) ==
    /\ drCodes' = Append(IF Len(drCodes) < OutstandingCodes THEN drCodes ELSE Tail(drCodes), kind)
    /\ UNCHANGED <<drTable, drMirror, drJammed, drCalls, drUsed, drTurnedOut>>

Spent(i) == [j \in 1..(Len(drCodes) - 1) |-> drCodes[IF j < i THEN j ELSE j + 1]]

CodeExpires ==
    /\ \E i \in DOMAIN drCodes : drCodes' = Spent(i)
    /\ UNCHANGED <<drTable, drMirror, drJammed, drCalls, drUsed, drTurnedOut>>

-----------------------------------------------------------------------------
(* Requests.                                                               *)

Comes(c, op, i, kind) ==
    /\ drCalls[c] = NotAsked
    /\ drCalls' = [drCalls EXCEPT ![c] = [op |-> op, at |-> "waiting", id |-> i, kind |-> kind]]

\* The code is spent also if the client expected another kind.
Enroll(c) ==
    \E n \in DOMAIN drCodes :
        /\ drCodes' = Spent(n)
        /\ \/ \E i \in DeviceIds \ drUsed : /\ Comes(c, "enroll", i, drCodes[n])
                                            /\ drUsed' = drUsed \cup {i}
           \/ UNCHANGED <<drCalls, drUsed>>
        /\ UNCHANGED <<drTable, drMirror, drJammed, drTurnedOut>>

Known(i) == drMirror[i].kind # "none"

RevokeOrDelete(c, op, i) ==
    /\ Known(i)
    /\ Comes(c, op, i, drMirror[i].kind)
    /\ UNCHANGED <<drTable, drMirror, drJammed, drCodes, drUsed, drTurnedOut>>

\* verify_secret, in a thread.
AskToken(c, i) ==
    /\ IsActive(i)
    /\ Comes(c, "token", i, drMirror[i].kind)
    /\ UNCHANGED <<drTable, drMirror, drJammed, drCodes, drUsed, drTurnedOut>>

-----------------------------------------------------------------------------
(* Transactions.                                                           *)

LockIsFree == \A c \in RegistryCalls : drCalls[c].at \notin {"writing", "committed"}

\* BEGIN fails in a transaction that is still open.
Begin(c) ==
    /\ drCalls[c].at = "waiting" /\ LockIsFree
    /\ drCalls' = [drCalls EXCEPT ![c] = IF drJammed THEN NotAsked ELSE [@ EXCEPT !.at = "writing"]]
    /\ UNCHANGED <<drTable, drMirror, drJammed, drCodes, drUsed, drTurnedOut>>

\* The row a request writes, over the row that is there.
RowWritten(call, row) ==
    CASE call.op = "enroll" -> [kind |-> call.kind, revoked |-> FALSE]
      [] call.op = "revoke" -> IF row = NoRow THEN NoRow ELSE [row EXCEPT !.revoked = TRUE]
      [] call.op = "delete" -> NoRow
      [] call.op = "token"  -> row

Commit(c) ==
    /\ drCalls[c].at = "writing"
    /\ drTable' = [drTable EXCEPT ![drCalls[c].id] = RowWritten(drCalls[c], @)]
    /\ drCalls' = [drCalls EXCEPT ![c].at = "committed"]
    /\ UNCHANGED <<drMirror, drJammed, drCodes, drUsed, drTurnedOut>>

\* A statement that fails is rolled back, a commit that fails is not, unless
\* SQLite does so itself.
WriteFails(c) ==
    /\ drCalls[c].at = "writing"
    /\ drJammed' \in BOOLEAN
    /\ drCalls' = [drCalls EXCEPT ![c] = NotAsked]
    /\ UNCHANGED <<drTable, drMirror, drCodes, drUsed, drTurnedOut>>

\* The entry of _active after the transaction; a revocation whose entry was
\* deleted meanwhile raises a KeyError.
Entry(call, row) == RowWritten(call, row)

\* The coroutine goes on: the lock is let go, the mirror written, the
\* request answered.
Resume(c) ==
    LET call == drCalls[c] IN
    /\ call.at = "committed"
    /\ drMirror' = [drMirror EXCEPT ![call.id] = Entry(call, @)]
    /\ drCalls' = [drCalls EXCEPT ![c] = NotAsked]
    /\ drTurnedOut' = IF call.op \in {"revoke", "delete"} /\ (call.op = "revoke" => Known(call.id))
                      THEN drTurnedOut \cup {call.id} ELSE drTurnedOut
    /\ UNCHANGED <<drTable, drJammed, drCodes, drUsed>>

\* The backend ends and starts again: load().
RestartBackend ==
    /\ drMirror' = drTable
    /\ drJammed' = FALSE
    /\ drCalls' = [c \in RegistryCalls |-> NotAsked]
    /\ drCodes' = <<>>
    /\ UNCHANGED <<drTable, drUsed, drTurnedOut>>

DeviceRegistryNext ==
    \/ \E kind \in EnrolledKinds : Issue(kind)
    \/ CodeExpires
    \/ \E c \in RegistryCalls :
         \/ Enroll(c)
         \/ \E i \in DeviceIds : AskToken(c, i) \/ \E op \in {"revoke", "delete"} : RevokeOrDelete(c, op, i)
         \/ Begin(c) \/ Commit(c) \/ WriteFails(c) \/ Resume(c)
    \/ RestartBackend

-----------------------------------------------------------------------------

\* The handshake of a socket is judged by the mirror alone (is_active_kind): but
\* for the one request whose commit has not come back to its coroutine, the
\* mirror says of every device what the table says, whatever overlapped or
\* failed.
MirrorIsTheTable ==
    \A i \in DeviceIds :
        \/ drMirror[i] = drTable[i]
        \/ \E c \in RegistryCalls : drCalls[c].at = "committed" /\ drCalls[c].id = i

\* A device that the user was told is revoked or deleted is let in no more
\* (revoke and delete), also by requests that began before, and by the
\* mirror of a backend that was started again.
TurnedOutStayOut == \A i \in drTurnedOut : ~IsActive(i)
=============================================================================
