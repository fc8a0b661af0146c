---------------------------- MODULE SQLiteStore -----------------------------
(***************************************************************************)
(* One session in an agent's session store (picoclaw, pkg/memory/sqlite.go):*)
(* its rows in table messages and its row in table sessions.  The database *)
(* has a single connection, so each operation is one transaction.          *)
(*                                                                         *)
(* Rows get the sequence number MAX(seq) + 1 and leave the table from the  *)
(* front (Compact) or all together, so the numbers in the table have no    *)
(* holes: the i-th row has the number gone + i.                            *)
(***************************************************************************)
EXTENDS Integers, Sequences

VARIABLES
    msgs,   \* the messages of the rows, by sequence number
    gone,   \* the sequence number below that of the first row
    skip,   \* sessions.skip: rows with a number up to it are truncated
    count   \* sessions.count

storeVars == <<msgs, gone, skip, count>>

StoreInit ==
    /\ msgs = <<>>
    /\ gone = 0
    /\ skip = 0
    /\ count = 0

\* How many rows of the table have a number up to s.
RowsUpTo(s) == IF s > gone THEN s - gone ELSE 0

\* GetHistory: the rows with seq > skip.
Visible == SubSeq(msgs, RowsUpTo(skip) + 1, Len(msgs))

\* Mutant of AddMsg: the next number is count + 1; a number in use is an error.
AddMsgByCount(m) ==
    /\ IF count < gone + Len(msgs) /\ msgs # <<>>
       THEN UNCHANGED <<msgs, count>>
       ELSE msgs' = Append(msgs, m) /\ count' = count + 1
    /\ gone' = IF msgs = <<>> THEN 0 ELSE gone
    /\ UNCHANGED skip

AddMsg(m) ==
    /\ msgs' = Append(msgs, m)
    /\ gone' = IF msgs = <<>> THEN 0 ELSE gone
    /\ count' = count + 1
    /\ UNCHANGED skip

SetHistory(h) ==
    /\ msgs' = h
    /\ gone' = 0
    /\ skip' = 0
    /\ count' = Len(h)

\* The new skip is looked up as the (active - keepLast)-th of the rows after the
\* old one; when there is no such row the transaction fails.
TruncateHistory(keepLast) ==
    LET old == IF skip > count THEN count ELSE skip
        active == count - old
        row == RowsUpTo(old) + active - keepLast
    IN  /\ skip' = IF keepLast <= 0 \/ active = 0 THEN count
                   ELSE IF keepLast >= active THEN old
                   ELSE IF row <= Len(msgs) THEN gone + row ELSE skip
        /\ UNCHANGED <<msgs, gone, count>>

\* Mutant of Compact: skip is not reset.
CompactKeepingSkip ==
    /\ msgs' = Visible
    /\ gone' = gone + RowsUpTo(skip)
    /\ count' = Len(msgs')
    /\ UNCHANGED skip

Compact ==
    IF skip = 0
    THEN UNCHANGED storeVars
    ELSE /\ msgs' = Visible
         /\ gone' = gone + RowsUpTo(skip)
         /\ skip' = 0
         /\ count' = Len(msgs')

\* DELETE FROM messages, and DELETE FROM sessions, over the REST handlers' own
\* connection (v7server/sessions.go): two transactions.
DeleteRows ==
    /\ msgs' = <<>>
    /\ gone' = 0
    /\ UNCHANGED <<skip, count>>

DeleteMeta ==
    /\ skip' = 0
    /\ count' = 0
    /\ UNCHANGED <<msgs, gone>>

=============================================================================
