------------------------ MODULE SessionHistoryProofs ------------------------
(***************************************************************************)
(* Proofs about SessionHistory for every number of turns, every threshold  *)
(* and every bound on the messages.                                        *)
(***************************************************************************)
EXTENDS SessionHistory, SequenceTheorems, TLAPS

-----------------------------------------------------------------------------
(* Selections.                                                             *)

\* A piece of a selection is a selection.
LEMMA SelectionSub ==
    ASSUME NEW n \in Nat, NEW s, Log!IsSelection(s, n),
           NEW a \in Nat \ {0}, NEW b \in Nat, b <= Len(s)
    PROVE  Log!IsSelection(SubSeq(s, a, b), n)
<1> DEFINE p == SubSeq(s, a, b)
<1>1. s \in Seq(1..n) /\ Len(s) \in Nat
    BY LenProperties DEF Log!IsSelection
<1>2. CASE a > b
    <2>1. p = <<>>
        BY <1>1, <1>2, SubSeqEmpty
    <2> QED BY <2>1, EmptySeq DEF Log!IsSelection
<1>3. CASE a <= b
    <2>1. /\ p \in Seq(1..n)
          /\ Len(p) = b - a + 1
          /\ \A i \in 1..b - a + 1 : p[i] = s[a + i - 1]
        BY <1>1, <1>3, SubSeqProperties, SMT
    <2>2. ASSUME NEW i \in 1..Len(p), NEW j \in 1..Len(p), i < j
          PROVE  p[i] < p[j]
        <3>1. /\ a + i - 1 \in 1..Len(s)
              /\ a + j - 1 \in 1..Len(s)
              /\ a + i - 1 < a + j - 1
            BY <1>1, <1>3, <2>1, <2>2, SMT
        <3>2. s[a + i - 1] < s[a + j - 1]
            BY <3>1 DEF Log!IsSelection
        <3>3. p[i] = s[a + i - 1] /\ p[j] = s[a + j - 1]
            BY <1>3, <2>1, SMT
        <3> QED BY <3>2, <3>3
    <2> QED BY <2>1, <2>2 DEF Log!IsSelection
<1> QED BY <1>1, <1>2, <1>3, SMT

\* The next message to be said can be appended to a selection.
LEMMA SelectionAppend ==
    ASSUME NEW n \in Nat, NEW s, Log!IsSelection(s, n)
    PROVE  Log!IsSelection(Append(s, n + 1), n + 1)
<1> DEFINE p == Append(s, n + 1)
<1>1. s \in Seq(1..n) /\ Len(s) \in Nat
    BY LenProperties DEF Log!IsSelection
<1>2. s \in Seq(1..n + 1)
    BY <1>1, SeqMonotonic, 1..n \subseteq 1..n + 1
<1>3. /\ p \in Seq(1..n + 1)
      /\ Len(p) = Len(s) + 1
      /\ \A i \in 1..Len(s) : p[i] = s[i]
      /\ p[Len(s) + 1] = n + 1
    BY <1>2, n + 1 \in 1..n + 1, AppendProperties
<1>4. \A i \in 1..Len(s) : s[i] \in 1..n
    BY <1>1, ElementOfSeq
<1>5. ASSUME NEW i \in 1..Len(p), NEW j \in 1..Len(p), i < j
      PROVE  p[i] < p[j]
    <2> HIDE DEF p
    <2>1. i \in 1..Len(s) /\ (j \in 1..Len(s) \/ j = Len(s) + 1)
        BY <1>1, <1>3, <1>5, SMT
    <2>2. CASE j \in 1..Len(s)
        <3>1. s[i] < s[j]
            BY <1>5, <2>1, <2>2 DEF Log!IsSelection
        <3> QED BY <1>3, <2>1, <2>2, <3>1
    <2>3. CASE j = Len(s) + 1
        <3>1. p[i] \in 1..n /\ p[j] = n + 1
            BY <1>3, <1>4, <2>1, <2>3
        <3> QED BY <3>1, SMT
    <2> QED BY <2>1, <2>2, <2>3
<1> QED BY <1>3, <1>5 DEF Log!IsSelection

\* What was a selection remains one when more is said.
LEMMA SelectionGrows ==
    ASSUME NEW n \in Nat, NEW m \in Nat, n <= m, NEW s, Log!IsSelection(s, n)
    PROVE  Log!IsSelection(s, m)
<1>1. s \in Seq(1..m)
    BY SeqMonotonic, 1..n \subseteq 1..m DEF Log!IsSelection
<1> QED BY <1>1 DEF Log!IsSelection

\* The empty history is a selection.
LEMMA SelectionEmpty ==
    ASSUME NEW n \in Nat
    PROVE  Log!IsSelection(<<>>, n)
BY EmptySeq DEF Log!IsSelection

\* A selection is a sequence of numbers.
LEMMA SelectionIsSeq ==
    ASSUME NEW n \in Nat, NEW s, Log!IsSelection(s, n)
    PROVE  s \in Seq(Nat) /\ Len(s) \in Nat
<1>1. s \in Seq(Nat)
    BY SeqMonotonic, 1..n \subseteq Nat DEF Log!IsSelection
<1> QED BY <1>1, LenProperties

-----------------------------------------------------------------------------
(* Facts of a state.                                                      *)

\* The facts about histories that the steps below use: what GetHistory returns
\* and the piece of it that a compression, a rollback or a refresh keeps.
LEMMA Facts ==
    ASSUME TypeOK, Histories
    PROVE  /\ Len(said) \in Nat
           /\ msgs \in Seq(Nat) /\ Len(msgs) \in Nat
           /\ RowsUpTo(skip) \in Nat
           /\ Selection(Visible) /\ Visible \in Seq(Nat) /\ Len(Visible) \in Nat
           /\ Selection(Seen) /\ Seen \in Seq(Nat) /\ Len(Seen) \in Nat
<1>1. Len(said) \in Nat
    BY LenProperties DEF TypeOK
<1>2. msgs \in Seq(Nat) /\ Len(msgs) \in Nat
    BY <1>1, SelectionIsSeq DEF Histories, Selection
<1>3. RowsUpTo(skip) \in Nat
    BY DEF TypeOK, RowsUpTo
<1>4. Selection(Visible)
    BY <1>1, <1>2, <1>3, SelectionSub DEF Histories, Selection, Visible
<1>5. Selection(Seen)
    BY <1>1, <1>4, SelectionEmpty DEF Selection, Seen
<1> QED BY <1>1, <1>2, <1>3, <1>4, <1>5, SelectionIsSeq DEF Selection

\* A piece of a history that is a selection is one, too.
LEMMA PieceIsSelection ==
    ASSUME TypeOK, NEW h, Selection(h), NEW a \in Nat \ {0}, NEW b \in Nat, b <= Len(h)
    PROVE  Selection(SubSeq(h, a, b)) /\ SubSeq(h, a, b) \in Seq(Nat)
BY LenProperties, SelectionSub, SelectionIsSeq DEF TypeOK, Selection

\* The initial state satisfies the invariant.
LEMMA InitInvariant == Init => HistoryInv
<1> SUFFICES ASSUME Init PROVE HistoryInv
    OBVIOUS
<1> USE SessionHistoryAssumption DEF Init, StoreInit
<1>1. <<>> \in Seq(Nat) /\ <<>> \in Seq(Roles) /\ Len(<<>>) = 0
    BY EmptySeq
<1>2. TypeOK
    BY <1>1 DEF TypeOK, NoStop, NoSum, Places
<1>3. Histories
    BY <1>1, SelectionEmpty DEF Histories, Selection, NoStop
<1>4. Bookkeeping
    BY <1>1 DEF Bookkeeping, NoSum
<1>5. OneTurn
    BY DEF OneTurn
<1> QED BY <1>2, <1>3, <1>4, <1>5 DEF HistoryInv

-----------------------------------------------------------------------------
(* Types.                                                                  *)

\* Leaving a turn keeps the types of what it resets.
LEMMA LeaveTypes ==
    ASSUME TypeOK, NEW t \in Turns, Leave(t)
    PROVE  /\ at' \in [Turns -> Places]
           /\ restore' \in [Turns -> Seq(Nat)]
           /\ initial' \in [Turns -> Nat]
           /\ persisted' \in [Turns -> BOOLEAN]
           /\ abort' \in [Turns -> BOOLEAN]
           /\ kept' \in [Turns -> Seq(Nat)]
           /\ active' \in Turns \cup {NoTurn}
BY EmptySeq DEF TypeOK, Leave, Goto, Places

\* Persisting a message keeps the types of what it changes.
LEMMA PersistTypes ==
    ASSUME TypeOK, Histories, NEW t \in Turns, NEW role \in Roles, Persist(t, role),
           at' \in [Turns -> Places]
    PROVE  TypeOK'
<1>1. said' \in Seq(Roles)
    BY AppendProperties DEF Persist, TypeOK
<1>2. persisted' \in [Turns -> BOOLEAN]
    BY DEF Persist, TypeOK
<1>3. gone' \in Nat /\ skip' \in Nat /\ count' \in Nat
    BY DEF Persist, AddMsg, TypeOK
<1> QED BY <1>1, <1>2, <1>3 DEF Persist, TypeOK

\* Replacing the history keeps the types of the store's numbers.
LEMMA SetHistoryTypes ==
    ASSUME NEW h \in Seq(Nat), SetHistory(h)
    PROVE  gone' \in Nat /\ skip' \in Nat /\ count' \in Nat
BY LenProperties DEF SetHistory

\* Compaction keeps the types of the store's numbers.
LEMMA CompactTypes ==
    ASSUME TypeOK, Histories, Compact
    PROVE  gone' \in Nat /\ skip' \in Nat /\ count' \in Nat
BY Facts DEF TypeOK, Compact, storeVars

\* A turn's step keeps the types.
LEMMA TurnTypes ==
    ASSUME TypeOK, Histories, NEW t \in Turns, Turn(t)
    PROVE  TypeOK'
<1> USE Facts

<1>1. CASE Begin(t)
    BY <1>1 DEF Begin, Goto, TypeOK, Places, storeVars
<1>2. CASE Register(t)
    BY <1>2 DEF Register, Goto, TypeOK, Places, storeVars
<1>3. CASE Assemble(t)
    BY <1>3 DEF Assemble, Goto, TypeOK, Places, storeVars
<1>4. CASE AddRoot(t)
    BY <1>4, PersistTypes DEF AddRoot, Goto, Roles, Places, TypeOK
<1>5. CASE Iterate(t)
    BY <1>5 DEF Iterate, Goto, TypeOK, Places, storeVars
<1>6. CASE Work(t)
    BY <1>6, PersistTypes DEF Work, Goto, Roles, Places, TypeOK
<1>7. CASE Answered(t)
    BY <1>7 DEF Answered, Goto, TypeOK, Places, storeVars
<1>8. CASE Fail(t)
    BY <1>8, LeaveTypes DEF Fail, TypeOK, storeVars
<1>9. CASE Compress(t)
    <2>1. CASE Len(Seen) <= 2
        <3>1. Goto(t, "refresh") /\ UNCHANGED kept
            BY <1>9, <2>1, SMT DEF Compress
        <3> QED BY <1>9, <3>1 DEF Compress, Goto, TypeOK, Places, storeVars
    <2>2. CASE Len(Seen) > 2
        <3>1. kept' \in [Turns -> Seq(Nat)]
            <4>1. PICK mid \in 0..Len(Seen) - 1 : kept' = [kept EXCEPT ![t] =
                      IF mid > 0 THEN SubSeq(Seen, mid + 1, Len(Seen)) ELSE SubSeq(Seen, 1, 1)]
                BY <1>9, <2>2 DEF Compress
            <4>2. SubSeq(Seen, 1, 1) \in Seq(Nat)
                BY <2>2, PieceIsSelection
            <4>3. ASSUME mid > 0 PROVE SubSeq(Seen, mid + 1, Len(Seen)) \in Seq(Nat)
                BY PieceIsSelection
            <4> QED BY <4>1, <4>2, <4>3 DEF TypeOK
        <3> QED BY <1>9, <2>2, <3>1 DEF Compress, Goto, TypeOK, Places, storeVars
    <2> QED BY <2>1, <2>2
<1>10. CASE Squeeze(t)
    <2>1. gone' \in Nat /\ skip' \in Nat /\ count' \in Nat
        BY <1>10, SetHistoryTypes DEF Squeeze, TypeOK
    <2> QED BY <1>10, <2>1, EmptySeq DEF Squeeze, Goto, TypeOK, Places
<1>11. CASE Refresh(t)
    <2>1. SubSeq(Visible, 1, Len(Visible) - MatchingTail) \in Seq(Nat)
        <3>1. Len(Visible) - MatchingTail = Len(Visible)
            BY DEF MatchingTail
        <3> QED BY <3>1, PieceIsSelection
    <2> QED BY <1>11, <2>1 DEF Refresh, Goto, TypeOK, Places, storeVars
<1>12. CASE AddFinal(t)
    BY <1>12, PersistTypes DEF AddFinal, Goto, Roles, Places, TypeOK
<1>13. CASE Save(t)
    BY <1>13, CompactTypes DEF Save, Goto, TypeOK, Places
<1>14. CASE Wrap(t)
    <2>1. sum' \in [place : {"off", "read", "model", "truncate", "save"}, keep : Nat]
        BY <1>14 DEF Wrap, TypeOK
    <2>2. CASE Leave(t)
        BY <1>14, <2>1, <2>2, LeaveTypes DEF Wrap, TypeOK, storeVars
    <2>3. CASE Goto(t, "abort") /\ UNCHANGED <<restore, initial, persisted, abort, kept, active>>
        BY <1>14, <2>1, <2>3 DEF Wrap, Goto, TypeOK, Places, storeVars
    <2> QED BY <1>14, <2>2, <2>3 DEF Wrap
<1>15. CASE SeeAbort(t) \/ HookAbort(t)
    BY <1>15 DEF SeeAbort, HookAbort, Goto, TypeOK, Places, storeVars
<1>16. CASE AbortTurn(t)
    BY <1>16, LeaveTypes, SetHistoryTypes DEF AbortTurn, TypeOK
<1> QED BY <1>1, <1>2, <1>3, <1>4, <1>5, <1>6, <1>7, <1>8, <1>9, <1>10, <1>11, <1>12, <1>13, <1>14, <1>15, <1>16 DEF Turn

\* Every step keeps the types.
LEMMA NextTypes ==
    ASSUME TypeOK, Histories, Next
    PROVE  TypeOK'
<1> USE Facts
<1>1. ASSUME NEW t \in Turns, Turn(t) PROVE TypeOK'
    BY <1>1, TurnTypes
<1>2. CASE RequestHardAbort
    BY <1>2 DEF RequestHardAbort, TypeOK, NoStop, storeVars
<1>3. CASE ReadForRollback
    <2>1. ASSUME stop.len < Len(Visible)
          PROVE  SubSeq(Visible, 1, stop.len) \in Seq(Nat)
        <3>1. stop.len \in Nat
            BY DEF TypeOK
        <3>2. stop.len <= Len(Visible)
            BY <2>1, <3>1, SMT
        <3> QED BY <3>1, <3>2, PieceIsSelection
    <2> QED BY <1>3, <2>1, EmptySeq DEF ReadForRollback, TypeOK, NoStop, turnVars, storeVars
<1>4. CASE Rollback
    BY <1>4, SetHistoryTypes, EmptySeq DEF Rollback, TypeOK, NoStop, turnVars
<1>5. CASE ReadToSummarize
    BY <1>5 DEF ReadToSummarize, TypeOK, NoSum, turnVars, storeVars
<1>6. CASE Summarize
    <2>1. sum' \in [place : {"off", "read", "model", "truncate", "save"}, keep : Nat]
        <3>1. CASE sum' = NoSum
            BY <3>1 DEF NoSum
        <3>2. CASE sum' = [sum EXCEPT !.place = "truncate"]
            BY <3>2 DEF TypeOK
        <3> QED BY <1>6, <3>1, <3>2 DEF Summarize
    <2> QED BY <1>6, <2>1 DEF Summarize, TypeOK, turnVars, storeVars
<1>7. CASE Truncate
    <2>1. gone' \in Nat /\ skip' \in Nat /\ count' \in Nat
        BY <1>7 DEF Truncate, TruncateHistory, RowsUpTo, TypeOK
    <2> QED BY <1>7, <2>1 DEF Truncate, TypeOK, turnVars
<1>8. CASE SaveTruncated
    BY <1>8, CompactTypes DEF SaveTruncated, TypeOK, NoSum, turnVars
<1>9. CASE Clear
    BY <1>9, SetHistoryTypes, EmptySeq DEF Clear, TypeOK, turnVars
<1>10. CASE DeleteMessages
    BY <1>10 DEF DeleteMessages, DeleteRows, TypeOK, turnVars
<1>11. CASE DeleteSession
    BY <1>11 DEF DeleteSession, DeleteMeta, TypeOK, turnVars
<1>12. CASE Crash
    BY <1>12, EmptySeq DEF Crash, TypeOK, Places, NoStop, NoSum, storeVars
<1> QED BY <1>1, <1>2, <1>3, <1>4, <1>5, <1>6, <1>7, <1>8, <1>9, <1>10, <1>11, <1>12 DEF Next, Stopper, Summarizer

-----------------------------------------------------------------------------
(* Histories stay selections of what was said.                             *)

\* Persisting a message: it is newer than everything in every history.
LEMMA PersistHistories ==
    ASSUME TypeOK, Histories, NEW t \in Turns, NEW role \in Roles, Persist(t, role)
    PROVE  Histories'
<1> DEFINE n == Len(said)
<1>1. n \in Nat
    BY Facts
<1>2. Len(said') = n + 1
    BY AppendProperties DEF Persist, TypeOK
<1>3. ASSUME NEW s, Selection(s)
      PROVE  /\ Log!IsSelection(s, n + 1)
             /\ Log!IsSelection(Append(s, n + 1), n + 1)
    BY <1>1, <1>3, SelectionGrows, SelectionAppend DEF Selection
<1>4. Selection(msgs)'
    BY <1>2, <1>3 DEF Persist, AddMsg, Histories, Selection
<1>5. Selection(stop.hist)'
    BY <1>2, <1>3 DEF Persist, Histories, Selection
<1>6. ASSUME NEW u \in Turns
      PROVE  Selection(restore[u])' /\ Selection(kept[u])'
    BY <1>2, <1>3 DEF Persist, Histories, Selection
<1> QED BY <1>4, <1>5, <1>6 DEF Histories

\* When nothing is said, it is enough that what is written was a selection.
LEMMA QuietHistories ==
    ASSUME TypeOK, Histories, said' = said, Selection(msgs'), Selection(stop'.hist),
           \A u \in Turns : Selection(restore'[u]) /\ Selection(kept'[u])
    PROVE  Histories'
BY DEF Histories, Selection

\* Leaving a turn forgets its histories.
LEMMA LeaveHistories ==
    ASSUME TypeOK, Histories, NEW t \in Turns, Leave(t), NEW u \in Turns
    PROVE  Selection(restore'[u]) /\ Selection(kept'[u])
<1>1. Selection(<<>>)
    BY Facts, SelectionEmpty DEF Selection
<1> QED BY <1>1 DEF Leave, Histories, TypeOK

\* Compaction leaves what GetHistory returned.
LEMMA CompactHistories ==
    ASSUME TypeOK, Histories, Compact
    PROVE  Selection(msgs')
BY Facts DEF Compact, Histories, storeVars

\* A turn's step keeps the histories selections.
LEMMA TurnHistories ==
    ASSUME TypeOK, Histories, NEW t \in Turns, Turn(t)
    PROVE  Histories'
<1> USE Facts, QuietHistories
<1>0. Selection(<<>>)
    BY SelectionEmpty DEF Selection
<1>1. CASE Begin(t)
    BY <1>1 DEF Begin, Histories, TypeOK, storeVars
<1>2. CASE Register(t)
    BY <1>2 DEF Register, Histories, storeVars
<1>3. CASE Assemble(t)
    BY <1>3 DEF Assemble, Histories, TypeOK, storeVars
<1>4. CASE AddRoot(t)
    BY <1>4, PersistHistories DEF AddRoot, Roles
<1>5. CASE Iterate(t)
    BY <1>5 DEF Iterate, Histories, storeVars
<1>6. CASE Work(t)
    BY <1>6, PersistHistories DEF Work
<1>7. CASE Answered(t)
    BY <1>7 DEF Answered, Histories, storeVars
<1>8. CASE Fail(t)
    BY <1>8, LeaveHistories DEF Fail, Histories, storeVars
<1>9. CASE Compress(t)
    <2>1. ASSUME NEW u \in Turns PROVE Selection(kept'[u])
        <3>1. CASE UNCHANGED kept
            BY <3>1 DEF Histories
        <3>2. ASSUME Len(Seen) > 2, NEW mid \in 0..Len(Seen) - 1,
                     kept' = [kept EXCEPT ![t] =
                       IF mid > 0 THEN SubSeq(Seen, mid + 1, Len(Seen)) ELSE SubSeq(Seen, 1, 1)]
              PROVE  Selection(kept'[u])
            <4>1. Selection(SubSeq(Seen, 1, 1))
                BY <3>2, PieceIsSelection
            <4>2. ASSUME mid > 0 PROVE Selection(SubSeq(Seen, mid + 1, Len(Seen)))
                BY PieceIsSelection
            <4> QED BY <3>2, <4>1, <4>2 DEF TypeOK, Histories
        <3> QED BY <1>9, <3>1, <3>2 DEF Compress
    <2> QED BY <1>9, <2>1 DEF Compress, Histories, storeVars
<1>10. CASE Squeeze(t)
    <2>1. Selection(msgs')
        BY <1>10 DEF Squeeze, SetHistory, Histories
    <2> QED BY <1>0, <1>10, <2>1 DEF Squeeze, Histories, TypeOK
<1>11. CASE Refresh(t)
    <2>1. Selection(SubSeq(Visible, 1, Len(Visible) - MatchingTail))
        <3>1. Len(Visible) - MatchingTail = Len(Visible)
            BY DEF MatchingTail
        <3> QED BY <3>1, PieceIsSelection
    <2> QED BY <1>11, <2>1 DEF Refresh, Histories, TypeOK, storeVars
<1>12. CASE AddFinal(t)
    BY <1>12, PersistHistories DEF AddFinal, Roles
<1>13. CASE Save(t)
    BY <1>13, CompactHistories DEF Save, Histories
<1>14. CASE Wrap(t)
    <2>1. ASSUME NEW u \in Turns
          PROVE  Selection(restore'[u]) /\ Selection(kept'[u])
        BY <1>14, LeaveHistories DEF Wrap, Histories
    <2> QED BY <1>14, <2>1 DEF Wrap, Histories, storeVars
<1>15. CASE SeeAbort(t) \/ HookAbort(t)
    BY <1>15 DEF SeeAbort, HookAbort, Histories, storeVars
<1>16. CASE AbortTurn(t)
    <2>1. Selection(msgs')
        BY <1>16 DEF AbortTurn, SetHistory, Histories
    <2> QED BY <1>16, <2>1, LeaveHistories DEF AbortTurn, Histories
<1> QED BY <1>1, <1>2, <1>3, <1>4, <1>5, <1>6, <1>7, <1>8, <1>9, <1>10, <1>11, <1>12, <1>13, <1>14, <1>15, <1>16 DEF Turn

\* Every step keeps the histories selections.
LEMMA NextHistories ==
    ASSUME TypeOK, Histories, Next
    PROVE  Histories'
<1> USE Facts, QuietHistories
<1>0. Selection(<<>>)
    BY SelectionEmpty DEF Selection
<1>1. ASSUME NEW t \in Turns, Turn(t) PROVE Histories'
    BY <1>1, TurnHistories
<1>2. CASE RequestHardAbort
    BY <1>0, <1>2 DEF RequestHardAbort, Histories, NoStop, storeVars
<1>3. CASE ReadForRollback
    <2>1. ASSUME stop.len < Len(Visible)
          PROVE  Selection(SubSeq(Visible, 1, stop.len))
        <3>1. stop.len \in Nat
            BY DEF TypeOK
        <3>2. stop.len <= Len(Visible)
            BY <2>1, <3>1, SMT
        <3> QED BY <3>1, <3>2, PieceIsSelection
    <2>2. Selection(stop'.hist)
        BY <1>0, <1>3, <2>1 DEF ReadForRollback, NoStop, TypeOK
    <2> QED BY <1>3, <2>2 DEF ReadForRollback, Histories, turnVars, storeVars
<1>4. CASE Rollback
    <2>1. Selection(msgs')
        BY <1>4 DEF Rollback, SetHistory, Histories
    <2> QED BY <1>0, <1>4, <2>1 DEF Rollback, Histories, NoStop, turnVars
<1>5. CASE Summarizer
    <2>1. Selection(msgs')
        BY <1>5, CompactHistories DEF Summarizer, ReadToSummarize, Summarize, Truncate,
            TruncateHistory, SaveTruncated, Histories, storeVars
    <2>2. UNCHANGED <<said, turnVars, stop>>
        BY <1>5 DEF Summarizer, ReadToSummarize, Summarize, Truncate, SaveTruncated
    <2> QED BY <2>1, <2>2 DEF Histories, turnVars
<1>6. CASE Clear
    BY <1>0, <1>6 DEF Clear, SetHistory, Histories, turnVars
<1>7. CASE DeleteMessages
    BY <1>0, <1>7 DEF DeleteMessages, DeleteRows, Histories, turnVars
<1>8. CASE DeleteSession
    BY <1>8 DEF DeleteSession, DeleteMeta, Histories, turnVars
<1>9. CASE Crash
    BY <1>0, <1>9 DEF Crash, Histories, NoStop, storeVars
<1> QED BY <1>1, <1>2, <1>3, <1>4, <1>5, <1>6, <1>7, <1>8, <1>9 DEF Next, Stopper

-----------------------------------------------------------------------------
(* The bookkeeping of truncation.                                          *)

\* Steps that touch neither the store nor the summarizer, and reach no "wrap".
LEMMA BookkeepingKept ==
    ASSUME TypeOK, Bookkeeping, UNCHANGED <<storeVars, driver, sum, deleting>>,
           \A t \in Turns : at'[t] = "wrap" => at[t] = "wrap"
    PROVE  Bookkeeping'
BY DEF Bookkeeping, storeVars

\* SetHistory restarts the bookkeeping.
LEMMA SetHistoryBookkeeping ==
    ASSUME TypeOK, Bookkeeping, NEW h, SetHistory(h), UNCHANGED <<driver, sum, deleting>>
    PROVE  Bookkeeping'
BY DEF Bookkeeping, SetHistory

\* Compaction restarts it, too.
LEMMA CompactBookkeeping ==
    ASSUME TypeOK, Histories, Bookkeeping, Compact, UNCHANGED <<driver, deleting>>,
           sum' = sum \/ sum' = NoSum
    PROVE  Bookkeeping'
BY Facts DEF Bookkeeping, Compact, storeVars, NoSum, TypeOK

\* A message that is persisted is counted.
LEMMA PersistBookkeeping ==
    ASSUME TypeOK, Histories, Bookkeeping, NEW t \in Turns, NEW role \in Roles, Persist(t, role),
           \A u \in Turns : at'[u] = "wrap" => at[u] = "wrap"
    PROVE  Bookkeeping'
<1>1. Len(msgs') = Len(msgs) + 1 /\ Len(msgs) \in Nat
    BY Facts, AppendProperties DEF Persist, AddMsg
<1>2. msgs = <<>> => Len(msgs) = 0
    BY EmptySeq
<1>3. UNCHANGED <<driver, sum, deleting, skip>> /\ count' = count + 1
    BY DEF Persist, AddMsg
<1>4. gone' = IF msgs = <<>> THEN 0 ELSE gone
    BY DEF Persist, AddMsg
<1> QED BY <1>1, <1>2, <1>3, <1>4 DEF Bookkeeping, TypeOK

\* A turn's step keeps the bookkeeping.
LEMMA TurnBookkeeping ==
    ASSUME TypeOK, Histories, Bookkeeping, NEW t \in Turns, Turn(t)
    PROVE  Bookkeeping'
<1> USE BookkeepingKept
<1>1. CASE Begin(t)
    BY <1>1 DEF Begin, Goto, TypeOK
<1>2. CASE Register(t)
    BY <1>2 DEF Register, Goto, TypeOK
<1>3. CASE Assemble(t)
    BY <1>3 DEF Assemble, Goto, TypeOK
<1>4. CASE AddRoot(t)
    BY <1>4, PersistBookkeeping DEF AddRoot, Goto, Roles, TypeOK
<1>5. CASE Iterate(t)
    BY <1>5 DEF Iterate, Goto, TypeOK
<1>6. CASE Work(t)
    BY <1>6, PersistBookkeeping DEF Work, Goto, TypeOK
<1>7. CASE Answered(t)
    BY <1>7 DEF Answered, Goto, TypeOK
<1>8. CASE Fail(t)
    BY <1>8 DEF Fail, Leave, Goto, TypeOK
<1>9. CASE Compress(t)
    BY <1>9 DEF Compress, Goto, TypeOK
<1>10. CASE Squeeze(t)
    BY <1>10, SetHistoryBookkeeping DEF Squeeze
<1>11. CASE Refresh(t)
    BY <1>11 DEF Refresh, Goto, TypeOK
<1>12. CASE AddFinal(t)
    BY <1>12, PersistBookkeeping DEF AddFinal, Goto, Roles, TypeOK
<1>13. CASE Save(t)
    BY <1>13, CompactBookkeeping DEF Save
<1>14. CASE Wrap(t)
    <2>1. at[t] = "wrap" /\ UNCHANGED <<storeVars, driver, deleting>>
        BY <1>14 DEF Wrap
    <2>2. \A u \in Turns : at'[u] = "wrap" => at[u] = "wrap"
        BY <1>14 DEF Wrap, Leave, Goto, TypeOK
    <2>3. CASE sum' = sum
        BY <2>1, <2>2, <2>3
    <2>4. CASE sum.place = "off" /\ Len(Seen) > Threshold /\ sum' = [sum EXCEPT !.place = "read"]
        <3>1. skip = 0
            BY <2>1, <2>4 DEF Bookkeeping
        <3>2. driver # "direct"
            BY <2>4, SessionHistoryAssumption, EmptySeq DEF Seen
        <3>3. sum'.place = "read"
            BY <2>4 DEF TypeOK
        <3> QED BY <2>1, <3>1, <3>2, <3>3 DEF Bookkeeping, storeVars
    <2> QED BY <1>14, <2>3, <2>4 DEF Wrap
<1>15. CASE SeeAbort(t) \/ HookAbort(t)
    BY <1>15 DEF SeeAbort, HookAbort, Goto, TypeOK
<1>16. CASE AbortTurn(t)
    BY <1>16, SetHistoryBookkeeping DEF AbortTurn
<1> QED BY <1>1, <1>2, <1>3, <1>4, <1>5, <1>6, <1>7, <1>8, <1>9, <1>10, <1>11, <1>12, <1>13, <1>14, <1>15, <1>16 DEF Turn

\* What TruncateHistory does when nothing is hidden and the count is right.
LEMMA TruncateHides ==
    ASSUME TypeOK, Histories, NEW keep \in Nat \ {0}, skip = 0, count = Len(msgs),
           TruncateHistory(keep)
    PROVE  /\ UNCHANGED <<msgs, gone, count>>
           /\ skip' = IF keep >= Len(msgs) THEN 0 ELSE gone + (Len(msgs) - keep)
<1> DEFINE n == Len(msgs)
<1>1. n \in Nat /\ gone \in Nat
    BY Facts DEF TypeOK
<1>2. RowsUpTo(0) = 0
    BY <1>1 DEF RowsUpTo
<1>3. (IF skip > count THEN count ELSE skip) = 0
    BY <1>1
<1>4. /\ UNCHANGED <<msgs, gone, count>>
      /\ skip' = IF keep <= 0 \/ n - 0 = 0 THEN n
                 ELSE IF keep >= n - 0 THEN 0
                 ELSE IF 0 + (n - 0) - keep <= n THEN gone + (0 + (n - 0) - keep) ELSE skip
    BY <1>2, <1>3, Zenon DEF TruncateHistory
<1> HIDE DEF n
<1>5. skip' = IF keep >= n THEN 0 ELSE gone + (n - keep)
    BY <1>1, <1>4, SMT
<1> QED BY <1>4, <1>5 DEF n

\* Every step keeps the bookkeeping.
LEMMA NextBookkeeping ==
    ASSUME TypeOK, Histories, Bookkeeping, Next
    PROVE  Bookkeeping'
<1> USE BookkeepingKept
<1>1. ASSUME NEW t \in Turns, Turn(t) PROVE Bookkeeping'
    BY <1>1, TurnBookkeeping
<1>2. CASE RequestHardAbort
    BY <1>2 DEF RequestHardAbort
<1>3. CASE ReadForRollback
    BY <1>3 DEF ReadForRollback, turnVars
<1>4. CASE Rollback
    BY <1>4, SetHistoryBookkeeping DEF Rollback
<1>5. CASE ReadToSummarize
    <2>1. skip = 0 /\ driver # "direct"
        BY <1>5 DEF ReadToSummarize, Bookkeeping
    <2>2. UNCHANGED <<storeVars, driver, at, deleting>>
        BY <1>5 DEF ReadToSummarize, turnVars
    <2>3. sum'.place \in {"model", "truncate"} => sum'.keep > 0
        BY <1>5, Facts DEF ReadToSummarize, NoSum
    <2> QED BY <2>1, <2>2, <2>3 DEF Bookkeeping, storeVars
<1>6. CASE Summarize
    <2>1. skip = 0 /\ driver # "direct"
        BY <1>6 DEF Summarize, Bookkeeping
    <2>2. UNCHANGED <<storeVars, driver, at, deleting>>
        BY <1>6 DEF Summarize, turnVars
    <2>3. sum'.place \in {"model", "truncate"} => sum'.keep > 0
        <3>1. CASE sum' = NoSum
            BY <3>1 DEF NoSum
        <3>2. CASE sum' = [sum EXCEPT !.place = "truncate"]
            <4>1. sum'.keep = sum.keep
                BY <3>2 DEF TypeOK
            <4>2. sum.keep > 0
                BY <1>6 DEF Summarize, Bookkeeping
            <4> QED BY <4>1, <4>2
        <3> QED BY <1>6, <3>1, <3>2 DEF Summarize
    <2> QED BY <2>1, <2>2, <2>3 DEF Bookkeeping, storeVars
<1>7. CASE Truncate
    <2>1. driver = "loop" /\ skip = 0 /\ count = Len(msgs) /\ sum.keep \in Nat \ {0} /\ ~deleting
        BY <1>7 DEF Truncate, Bookkeeping, TypeOK, AllDrivers
    <2>2. /\ UNCHANGED <<msgs, gone, count, driver, deleting>>
          /\ skip' = IF sum.keep >= Len(msgs) THEN 0 ELSE gone + (Len(msgs) - sum.keep)
        BY <1>7, <2>1, TruncateHides DEF Truncate
    <2>3. sum'.place = "save"
        BY <1>7 DEF Truncate, TypeOK
    <2> QED BY <2>1, <2>2, <2>3, Facts DEF Bookkeeping, TypeOK
<1>8. CASE SaveTruncated
    BY <1>8, CompactBookkeeping DEF SaveTruncated
<1>9. CASE Clear
    BY <1>9, SetHistoryBookkeeping DEF Clear
<1>10. CASE DeleteMessages
    BY <1>10 DEF DeleteMessages, DeleteRows, Bookkeeping
<1>11. CASE DeleteSession
    BY <1>11 DEF DeleteSession, DeleteMeta, Bookkeeping
<1>12. CASE Crash
    BY <1>12 DEF Crash, NoSum, Bookkeeping, storeVars
<1> QED BY <1>1, <1>2, <1>3, <1>4, <1>5, <1>6, <1>7, <1>8, <1>9, <1>10, <1>11, <1>12 DEF Next, Stopper, Summarizer

-----------------------------------------------------------------------------
(* One turn at a time, and the active one.                                 *)

\* Steps that begin no turn and move no turn out of its registration.
LEMMA OneTurnKept ==
    ASSUME TypeOK, OneTurn, UNCHANGED <<driver, active>>,
           \A t \in Turns : at[t] = "idle" => at'[t] = "idle",
           \A t \in Turns : Registered(t) => at'[t] \notin {"idle", "begun"}
    PROVE  OneTurn'
BY DEF OneTurn, TypeOK, Registered

\* A turn that leaves takes its own registration with it.
LEMMA LeaveOneTurn ==
    ASSUME TypeOK, OneTurn, NEW t \in Turns, Leave(t), driver' = driver
    PROVE  OneTurn'
<1>1. \A u \in Turns : at'[u] = IF u = t THEN "idle" ELSE at[u]
    BY DEF Leave, Goto, TypeOK
<1>2. active' = IF active = t THEN NoTurn ELSE active
    BY DEF Leave
<1> QED BY <1>1, <1>2 DEF OneTurn, TypeOK, Registered

\* A turn's step keeps this.
LEMMA TurnOneTurn ==
    ASSUME TypeOK, OneTurn, NEW t \in Turns, Turn(t)
    PROVE  OneTurn'
<1> USE OneTurnKept
<1>1. CASE Begin(t)
    <2>1. at[t] = "idle" /\ (driver = "loop" => \A s \in Turns : at[s] = "idle")
        BY <1>1 DEF Begin
    <2>2. /\ \A u \in Turns : at'[u] = IF u = t THEN "begun" ELSE at[u]
          /\ UNCHANGED <<driver, active>>
        BY <1>1 DEF Begin, Goto, TypeOK
    <2> QED BY <2>1, <2>2 DEF OneTurn, TypeOK, Registered
<1>2. CASE Register(t)
    <2>1. /\ at[t] = "begun"
          /\ \A u \in Turns : at'[u] = IF u = t THEN "setup" ELSE at[u]
          /\ active' = t /\ driver' = driver
        BY <1>2 DEF Register, Goto, TypeOK
    <2> QED BY <2>1 DEF OneTurn, Registered
<1>3. CASE Leave(t) /\ UNCHANGED driver
    BY <1>3, LeaveOneTurn
<1>4. CASE /\ UNCHANGED <<driver, active>>
           /\ \E p \in Places \ {"idle", "begun"} : Goto(t, p)
           /\ at[t] # "idle"
    BY <1>4 DEF Goto, TypeOK, Registered
<1>5. CASE AddRoot(t) \/ Work(t) \/ AddFinal(t)
    BY <1>4, <1>5 DEF AddRoot, Work, AddFinal, Persist, Places
<1>6. CASE Assemble(t) \/ Iterate(t) \/ Answered(t) \/ SeeAbort(t) \/ HookAbort(t)
    BY <1>4, <1>6 DEF Assemble, Iterate, Answered, SeeAbort, HookAbort, Places
<1>7. CASE Compress(t) \/ Squeeze(t) \/ Refresh(t) \/ Save(t)
    BY <1>4, <1>7 DEF Compress, Squeeze, Refresh, Save, Places
<1>8. CASE Fail(t) \/ Wrap(t) \/ AbortTurn(t)
    BY <1>3, <1>4, <1>8 DEF Fail, Wrap, AbortTurn, Places
<1> QED BY <1>1, <1>2, <1>5, <1>6, <1>7, <1>8 DEF Turn

\* Every step keeps this.
LEMMA NextOneTurn ==
    ASSUME TypeOK, OneTurn, Next
    PROVE  OneTurn'
<1>1. ASSUME NEW t \in Turns, Turn(t) PROVE OneTurn'
    BY <1>1, TurnOneTurn
<1>2. CASE UNCHANGED <<driver, active, at>>
    BY <1>2, OneTurnKept DEF Registered
<1>3. CASE Stopper
    BY <1>2, <1>3 DEF Stopper, RequestHardAbort, ReadForRollback, Rollback, turnVars
<1>4. CASE Summarizer
    BY <1>2, <1>4 DEF Summarizer, ReadToSummarize, Summarize, Truncate, SaveTruncated, turnVars
<1>5. CASE Clear \/ DeleteMessages \/ DeleteSession
    BY <1>2, <1>5 DEF Clear, DeleteMessages, DeleteSession, turnVars
<1>6. CASE Crash
    BY <1>6 DEF Crash, OneTurn
<1> QED BY <1>1, <1>3, <1>4, <1>5, <1>6 DEF Next

-----------------------------------------------------------------------------
(* The invariant.                                                          *)

\* Every step keeps the invariant.
LEMMA NextInvariant == HistoryInv /\ [Next]_vars => HistoryInv'
<1> SUFFICES ASSUME HistoryInv, [Next]_vars PROVE HistoryInv'
    OBVIOUS
<1>1. TypeOK /\ Histories /\ Bookkeeping /\ OneTurn
    BY DEF HistoryInv
<1>2. CASE Next
    BY <1>1, <1>2, NextTypes, NextHistories, NextBookkeeping, NextOneTurn DEF HistoryInv
<1>3. CASE UNCHANGED vars
    <2>1. UNCHANGED <<msgs, gone, skip, count, driver, said, at, restore, initial, persisted,
                      abort, kept, active, stop, sum, deleting>>
        BY <1>3 DEF vars, storeVars, turnVars
    <2>2. TypeOK'
        BY <1>1, <2>1 DEF TypeOK
    <2>3. Histories'
        BY <1>1, <2>1 DEF Histories, Selection
    <2>4. Bookkeeping'
        BY <1>1, <2>1 DEF Bookkeeping
    <2>5. OneTurn'
        BY <1>1, <2>1 DEF OneTurn, Registered
    <2> QED BY <2>2, <2>3, <2>4, <2>5 DEF HistoryInv
<1> QED BY <1>2, <1>3

\* Every history in the store, and every history that a turn, a rollback or a
\* compression holds and will write back, is a selection of what was said, in
\* order and with no message twice; the bookkeeping of truncation is consistent
\* with the rows; and the loop runs one turn at a time.
THEOREM HistoryInvariant == Spec => []HistoryInv
<1>1. Init => HistoryInv
    BY InitInvariant
<1>2. HistoryInv /\ [Next]_vars => HistoryInv'
    BY NextInvariant
<1> QED BY <1>1, <1>2, PTL DEF Spec

-----------------------------------------------------------------------------
(* Truncation.                                                             *)

\* A truncation leaves the last messages of the history.
LEMMA TruncationKeeps ==
    ASSUME HistoryInv, Truncate
    PROVE  Visible' = IF sum.keep < Len(Visible) THEN LastN(Visible, sum.keep) ELSE Visible
<1> DEFINE n == Len(msgs)
<1>1. TypeOK /\ Histories /\ Bookkeeping
    BY DEF HistoryInv
<1>2. driver = "loop" /\ skip = 0 /\ count = n /\ sum.keep \in Nat \ {0} /\ gone \in Nat
    BY <1>1 DEF Truncate, Bookkeeping, TypeOK, AllDrivers
<1>3. /\ UNCHANGED <<msgs, gone>>
      /\ skip' = IF sum.keep >= n THEN 0 ELSE gone + (n - sum.keep)
    BY <1>1, <1>2, TruncateHides DEF Truncate
<1>4. n \in Nat /\ msgs \in Seq(Nat)
    BY <1>1, Facts
<1>5. Visible = SubSeq(msgs, 1, n)
    BY <1>2 DEF Visible, RowsUpTo
<1>6. SubSeq(msgs, 1, n) = msgs
    BY <1>4, SubSeqFull
<1>7. CASE sum.keep >= n
    BY <1>2, <1>3, <1>4, <1>5, <1>6, <1>7 DEF Visible, RowsUpTo
<1>8. CASE sum.keep < n
    <2>1. RowsUpTo(skip)' = n - sum.keep
        BY <1>2, <1>3, <1>4, <1>8 DEF RowsUpTo
    <2>2. Visible' = SubSeq(msgs, n - sum.keep + 1, n)
        BY <1>3, <2>1 DEF Visible
    <2> QED BY <1>5, <1>6, <1>8, <2>2 DEF LastN
<1> QED BY <1>2, <1>4, <1>7, <1>8

\* TruncateHistory keeps exactly the last keepLast messages, in every run, whatever
\* compactions, compressions, clearings and crashes came before it.
THEOREM TruncationIsExact == Spec => TruncateKeepsLast
<1>1. HistoryInv /\ [Next]_vars => [KeepsLast]_vars
    <2> SUFFICES ASSUME HistoryInv, Next PROVE KeepsLast
        BY DEF vars
    <2>1. CASE Truncate
        BY <2>1, TruncationKeeps DEF KeepsLast
    <2>2. CASE UNCHANGED sum \/ sum' = NoSum
        BY <2>2 DEF KeepsLast, NoSum
    <2>3. ASSUME NEW t \in Turns, Turn(t) PROVE KeepsLast
        <3>1. CASE Wrap(t)
            BY <3>1 DEF Wrap, KeepsLast, HistoryInv, TypeOK
        <3>2. CASE ~Wrap(t)
            <4>1. UNCHANGED sum
                BY <2>3, <3>2 DEF Turn, Begin, Register, Assemble, AddRoot, Iterate, Work, Answered,
                    Fail, Compress, Squeeze, Refresh, AddFinal, Save, SeeAbort, HookAbort,
                    AbortTurn, Persist
            <4> QED BY <2>2, <4>1
        <3> QED BY <3>1, <3>2
    <2>4. CASE ReadToSummarize \/ Summarize
        BY <2>4 DEF ReadToSummarize, Summarize, KeepsLast
    <2>5. CASE Stopper \/ SaveTruncated \/ Clear \/ DeleteMessages \/ DeleteSession \/ Crash
        BY <2>2, <2>5 DEF Stopper, RequestHardAbort, ReadForRollback, Rollback, SaveTruncated,
            Clear, DeleteMessages, DeleteSession, Crash
    <2> QED BY <2>1, <2>3, <2>4, <2>5 DEF Next, Summarizer
<1> QED BY <1>1, HistoryInvariant, PTL DEF Spec, TruncateKeepsLast

-----------------------------------------------------------------------------
(* The store implements the log.                                           *)

\* Appending to a sequence appends to its tail.
LEMMA TailOfAppend ==
    ASSUME NEW s \in Seq(Nat), NEW m \in Nat, NEW r \in 0..Len(s)
    PROVE  SubSeq(Append(s, m), r + 1, Len(s) + 1) = Append(SubSeq(s, r + 1, Len(s)), m)
<1> DEFINE n == Len(s)
           p == Append(s, m)
           a == SubSeq(p, r + 1, n + 1)
           q == SubSeq(s, r + 1, n)
           b == Append(q, m)
<1>1. n \in Nat
    BY LenProperties
<1>2. /\ p \in Seq(Nat) /\ Len(p) = n + 1
      /\ \A i \in 1..n : p[i] = s[i]
      /\ p[n + 1] = m
    BY AppendProperties
<1>3. \A i \in 1..n : s[i] \in Nat
    BY ElementOfSeq
<1>4. /\ q \in Seq(Nat)
      /\ Len(q) = n - r
      /\ \A i \in 1..n - r : q[i] = s[r + i]
    <2>1. \A i \in r + 1..n : s[i] \in Nat
        BY <1>1, <1>3, SMT
    <2>2. /\ q \in Seq(Nat)
          /\ Len(q) = IF r + 1 <= n THEN n - (r + 1) + 1 ELSE 0
          /\ \A i \in 1..n - (r + 1) + 1 : q[i] = s[r + 1 + i - 1]
        BY <1>1, <2>1, SubSeqProperties
    <2> HIDE DEF q
    <2> QED BY <1>1, <2>2, SMT
<1>5. /\ a \in Seq(Nat)
      /\ Len(a) = n - r + 1
      /\ \A i \in 1..n - r + 1 : a[i] = p[r + i]
    <2> HIDE DEF p
    <2>1. \A i \in r + 1..n + 1 : p[i] \in Nat
        BY <1>1, <1>2, <1>3, SMT
    <2>2. /\ a \in Seq(Nat)
          /\ Len(a) = IF r + 1 <= n + 1 THEN n + 1 - (r + 1) + 1 ELSE 0
          /\ \A i \in 1..n + 1 - (r + 1) + 1 : a[i] = p[r + 1 + i - 1]
        BY <1>1, <2>1, SubSeqProperties
    <2> HIDE DEF a
    <2> QED BY <1>1, <2>2, SMT
<1> HIDE DEF p, q, a
<1>6. /\ b \in Seq(Nat)
      /\ Len(b) = n - r + 1
      /\ \A i \in 1..n - r : b[i] = q[i]
      /\ b[n - r + 1] = m
    BY <1>4, AppendProperties
<1> HIDE DEF b
<1>7. ASSUME NEW i \in 1..n - r + 1 PROVE a[i] = b[i]
    <2>1. a[i] = p[r + i]
        BY <1>5
    <2>2. CASE i = n - r + 1
        <3>1. r + i = n + 1
            BY <1>1, <2>2, SMT
        <3> QED BY <1>2, <1>6, <2>1, <2>2, <3>1
    <2>3. CASE i # n - r + 1
        <3>1. i \in 1..n - r /\ r + i \in 1..n
            BY <1>1, <2>3, SMT
        <3>2. p[r + i] = s[r + i] /\ q[i] = s[r + i] /\ b[i] = q[i]
            BY <1>2, <1>4, <1>6, <3>1
        <3> QED BY <2>1, <3>2
    <2> QED BY <2>2, <2>3
<1>8. a = b
    BY <1>5, <1>6, <1>7, SeqEqual
<1> QED BY <1>8 DEF a, b, p, q

\* A message that is persisted is the newest of the log.
LEMMA PersistSays ==
    ASSUME HistoryInv, NEW t \in Turns, NEW role \in Roles, Persist(t, role)
    PROVE  Log!Say
<1> DEFINE m == Len(said) + 1
           r == RowsUpTo(skip)
<1>1. TypeOK /\ Histories /\ Bookkeeping
    BY DEF HistoryInv
<1>2. Len(said') = m
    BY <1>1, AppendProperties DEF Persist, TypeOK
<1>3. msgs \in Seq(Nat) /\ Len(msgs) \in Nat /\ m \in Nat
    BY <1>1, Facts
<1>4. /\ msgs' = Append(msgs, m)
      /\ gone' = IF msgs = <<>> THEN 0 ELSE gone
      /\ skip' = skip
    BY DEF Persist, AddMsg
<1>5. r \in 0..Len(msgs)
    BY <1>1, <1>3 DEF Bookkeeping, RowsUpTo, TypeOK
<1>6. RowsUpTo(skip)' = r
    <2>1. CASE msgs = <<>>
        <3>1. Len(msgs) = 0
            BY <2>1, EmptySeq
        <3>2. skip = 0
            BY <1>1, <1>3, <3>1, SMT DEF Bookkeeping, TypeOK
        <3> QED BY <1>1, <1>4, <3>2 DEF RowsUpTo, TypeOK
    <2>2. CASE msgs # <<>>
        BY <1>4, <2>2 DEF RowsUpTo
    <2> QED BY <2>1, <2>2
<1>7. Len(msgs') = Len(msgs) + 1
    BY <1>3, <1>4, AppendProperties
<1>8. Visible' = SubSeq(Append(msgs, m), r + 1, Len(msgs) + 1)
    BY <1>4, <1>6, <1>7 DEF Visible
<1>9. Visible' = Append(Visible, m)
    BY <1>3, <1>5, <1>8, TailOfAppend DEF Visible
<1> QED BY <1>2, <1>9 DEF Log!Say

\* Every other step rewrites the log.
LEMMA QuietRewrites ==
    ASSUME TypeOK', Histories', said' = said
    PROVE  Log!Rewrite
<1>1. Len(said') \in Nat
    BY LenProperties DEF TypeOK
<1>2. Log!IsSelection(msgs', Len(said'))
    BY DEF Histories, Selection
<1>3. Len(msgs') \in Nat
    BY <1>1, <1>2, SelectionIsSeq
<1>4. RowsUpTo(skip)' \in Nat
    <2>1. gone' \in Nat /\ skip' \in Nat
        BY DEF TypeOK
    <2>2. ASSUME NEW a \in Nat, NEW b \in Nat
          PROVE  (IF a > b THEN a - b ELSE 0) \in Nat
        OBVIOUS
    <2> QED BY <2>1, <2>2 DEF RowsUpTo
<1>5. RowsUpTo(skip)' + 1 \in Nat \ {0} /\ Len(msgs') <= Len(msgs')
    BY <1>3, <1>4
<1>6. Log!IsSelection(SubSeq(msgs', RowsUpTo(skip)' + 1, Len(msgs')), Len(said'))
    BY <1>1, <1>2, <1>3, <1>5, SelectionSub
<1> QED BY <1>6 DEF Log!Rewrite, Visible

\* A turn either says a message or says nothing.
LEMMA TurnSays ==
    ASSUME NEW t \in Turns, Turn(t)
    PROVE  said' = said \/ \E role \in Roles : Persist(t, role)
<1>1. CASE AddRoot(t) \/ Work(t) \/ AddFinal(t)
    BY <1>1 DEF AddRoot, Work, AddFinal, Roles
<1>2. CASE ~(AddRoot(t) \/ Work(t) \/ AddFinal(t))
    BY <1>2 DEF Turn, Begin, Register, Assemble, Iterate, Answered, Fail, Compress, Squeeze,
        Refresh, Save, Wrap, SeeAbort, HookAbort, AbortTurn
<1> QED BY <1>1, <1>2

\* What the loop sees of the store is a log: each message that is said becomes the
\* newest one, and nothing else that happens to the history - truncation, compression,
\* rollback, clearing, deletion, a crash between any two of their steps - reorders,
\* repeats or invents a message.
THEOREM StoreIsLog == Spec => HistoryIsLog
<1>1. Init => Log!Init
    <2> SUFFICES ASSUME Init PROVE Log!Init
        OBVIOUS
    <2>1. msgs = <<>> /\ gone = 0 /\ skip = 0 /\ said = <<>>
        BY DEF Init, StoreInit
    <2>2. Len(<<>>) = 0
        BY EmptySeq
    <2>3. SubSeq(<<>>, 1, 0) = <<>>
        BY SubSeqEmpty
    <2> QED BY <2>1, <2>2, <2>3 DEF Log!Init, Visible, RowsUpTo
<1>2. HistoryInv /\ HistoryInv' /\ [Next]_vars => [Log!Next]_(Log!vars)
    <2> SUFFICES ASSUME HistoryInv, HistoryInv', [Next]_vars
                 PROVE  Log!Next \/ UNCHANGED <<Visible, Len(said)>>
        BY DEF Log!vars
    <2>1. TypeOK' /\ Histories'
        BY DEF HistoryInv
    <2>2. ASSUME said' = said PROVE Log!Next
        BY <2>1, <2>2, QuietRewrites DEF Log!Next
    <2>3. ASSUME NEW t \in Turns, Turn(t) PROVE Log!Next
        <3>1. CASE said' = said
            BY <2>2, <3>1
        <3>2. ASSUME NEW role \in Roles, Persist(t, role) PROVE Log!Next
            <4>1. Log!Say
                BY <3>2, PersistSays
            <4> QED BY <4>1 DEF Log!Next
        <3> QED BY <2>3, <3>1, <3>2, TurnSays
    <2>4. CASE Stopper \/ Summarizer \/ Clear \/ DeleteMessages \/ DeleteSession \/ Crash
        BY <2>2, <2>4 DEF Stopper, RequestHardAbort, ReadForRollback, Rollback, Summarizer,
            ReadToSummarize, Summarize, Truncate, SaveTruncated, Clear, DeleteMessages,
            DeleteSession, Crash
    <2>5. CASE UNCHANGED vars
        BY <2>2, <2>5 DEF vars
    <2> QED BY <2>3, <2>4, <2>5 DEF Next
<1> QED BY <1>1, <1>2, HistoryInvariant, PTL DEF Spec, HistoryIsLog, Log!Spec

=============================================================================
