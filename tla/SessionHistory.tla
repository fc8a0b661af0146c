--------------------------- MODULE SessionHistory ---------------------------
(***************************************************************************)
(* One session's history under the goroutines that work on it: the turns   *)
(* (picoclaw, pkg/agent: turn_coord.go, pipeline_*.go), a hard abort       *)
(* (steering.go), the legacy context manager with its background           *)
(* summarizer (context_legacy.go), /clear, the deletion of the session     *)
(* over REST (v7server/sessions.go), and crashes of the process.           *)
(*                                                                         *)
(* A message is the moment at which it was said; said[m] is its role.      *)
(* Summaries, prompts and replies have no content here.  An operation on   *)
(* the store commits, unless the process dies before it.                   *)
(***************************************************************************)
EXTENDS SQLiteStore, FiniteSets

CONSTANTS
    Turns,      \* goroutines that run turns on the session
    NoTurn,     \* nil
    Drivers,    \* who starts turns: see Begin
    Kinds,      \* what else happens: subset of AllKinds
    Threshold,  \* messages beyond which a threshold is exceeded (count or tokens)
    Keep,       \* messages summarizeSession aims to keep (4 in the code)
    MaxSaid     \* bound: messages said, per driver

AllDrivers == {"loop", "direct"}
AllKinds == {"stop", "hook", "clear", "delete", "compress", "summary", "crash"}

ASSUME SessionHistoryAssumption ==
    /\ NoTurn \notin Turns
    /\ Drivers \subseteq AllDrivers
    /\ Kinds \subseteq AllKinds
    /\ Threshold \in Nat
    /\ Keep \in Nat \ {0}
    /\ MaxSaid \in [AllDrivers -> Nat]

VARIABLES
    driver,     \* how turns come about in this process; never changes
    said,       \* roles of the messages said so far
    at,         \* at[t]: place between two sections of turn t
    restore,    \* turnState.restorePointHistory
    initial,    \* turnState.initialHistoryLength
    persisted,  \* turnState.persistedMessages is not empty
    abort,      \* turnState.hardAbort
    kept,       \* forceCompression's keptHistory
    active,     \* activeTurnStates[session]
    stop,       \* HardAbort: place, the turn's initial length, history read
    sum,        \* summarizeSession: place, keepCount
    deleting    \* deleteUserSession is between its statements

turnVars == <<at, restore, initial, persisted, abort, kept>>
vars == <<storeVars, driver, said, turnVars, active, stop, sum, deleting>>

Roles == {"user", "reply"}
Places == {"idle", "begun", "setup", "compress", "squeeze", "refresh", "ask",
           "loop", "call", "final", "save", "wrap", "abort"}

\* Within a turn; between registerActiveTurn and clearActiveTurn.
Registered(t) == at[t] \notin {"idle", "begun"}

NoStop == [place |-> "off", len |-> 0, hist |-> <<>>]
NoSum == [place |-> "off", keep |-> 0]

Init ==
    /\ StoreInit
    /\ driver \in Drivers
    /\ said = <<>>
    /\ at = [t \in Turns |-> "idle"]
    /\ restore = [t \in Turns |-> <<>>]
    /\ initial = [t \in Turns |-> 0]
    /\ persisted = [t \in Turns |-> FALSE]
    /\ abort = [t \in Turns |-> FALSE]
    /\ kept = [t \in Turns |-> <<>>]
    /\ active = NoTurn
    /\ stop = NoStop
    /\ sum = NoSum
    /\ deleting = FALSE

Goto(t, p) == at' = [at EXCEPT ![t] = p]

-----------------------------------------------------------------------------
(* What the context manager sees and where it cuts.                        *)

\* The context manager works on the default agent's store.  Picoclaw's own loop
\* runs its turns on that agent; a tenant's session is not in that store, so the
\* context manager finds nothing there and changes nothing here.
Seen == IF driver = "loop" THEN Visible ELSE <<>>

\* parseTurnBoundaries: indices from 0, as in the code.
TurnStarts(h) == {i \in 0..Len(h) - 1 : said[h[i + 1]] = "user"}

\* findSafeBoundary(h, target) = cut.
SafeBoundary(h, target, cut) ==
    LET starts == TurnStarts(h)
        before == {i \in starts : 0 < i /\ i <= target}
        after == {i \in starts : i > target}
    IN  CASE target <= 0 -> cut = 0
          [] target >= Len(h) /\ target > 0 -> cut = Len(h)
          [] OTHER ->
               CASE starts = {} -> cut = target
                 [] before # {} -> cut \in before /\ \A i \in before : i <= cut
                 [] before = {} /\ after # {} -> cut \in after /\ \A i \in after : cut <= i
                 [] OTHER -> cut = 0

\* forceCompression: the start of the middle turn, else a safe boundary.
Middle(h, mid) ==
    LET starts == TurnStarts(h) IN
    IF Cardinality(starts) >= 2
    THEN /\ mid \in starts
         /\ Cardinality({i \in starts : i < mid}) = Cardinality(starts) \div 2
    ELSE SafeBoundary(h, Len(h) \div 2, mid)

\* matchingTurnMessageTail: how many messages at the end of the history are the
\* turn's own.  A message that was read back carries the time at which it was
\* stored (CreatedAt, sqlite.go), the turn's record of it carries none, and
\* messagesEquivalent compares the two with it: none is found.
MatchingTail == 0

-----------------------------------------------------------------------------
(* Turns.                                                                  *)

\* A turn is over: clearActiveTurn deletes only its own registration.
Leave(t) ==
    /\ Goto(t, "idle")
    /\ restore' = [restore EXCEPT ![t] = <<>>]
    /\ initial' = [initial EXCEPT ![t] = 0]
    /\ persisted' = [persisted EXCEPT ![t] = FALSE]
    /\ abort' = [abort EXCEPT ![t] = FALSE]
    /\ UNCHANGED kept
    /\ active' = IF active = t THEN NoTurn ELSE active

\* newTurnState.  The loop claims the session before it starts a turn; the v7
\* handlers (ProcessToAgent) do not.
Begin(t) ==
    /\ at[t] = "idle"
    /\ driver = "loop" => \A s \in Turns : at[s] = "idle"
    /\ Len(said) < MaxSaid[driver]
    /\ restore' = [restore EXCEPT ![t] = Visible]
    /\ initial' = [initial EXCEPT ![t] = Len(Visible)]
    /\ Goto(t, "begun")
    /\ UNCHANGED <<storeVars, driver, said, persisted, abort, kept, active, stop, sum, deleting>>

\* registerActiveTurn stores over whatever turn is there.
Register(t) ==
    /\ at[t] = "begun"
    /\ active' = t
    /\ Goto(t, "setup")
    /\ UNCHANGED <<storeVars, driver, said, restore, initial, persisted, abort, kept, stop, sum, deleting>>

\* SetupTurn: Assemble and captureRestorePoint; the prompt may be over budget.
Assemble(t) ==
    /\ at[t] = "setup"
    /\ ~abort[t]
    /\ restore' = [restore EXCEPT ![t] = Seen]
    /\ \/ Goto(t, "ask")
       \/ "compress" \in Kinds /\ Goto(t, "compress")
    /\ UNCHANGED <<storeVars, driver, said, initial, persisted, abort, kept, active, stop, sum, deleting>>

\* A message goes to the store, and its record to the turn.
Persist(t, role) ==
    LET m == Len(said) + 1 IN
    /\ m <= MaxSaid[driver]
    /\ said' = Append(said, role)
    /\ AddMsg(m)
    /\ persisted' = [persisted EXCEPT ![t] = TRUE]
    /\ UNCHANGED <<driver, restore, initial, abort, kept, active, stop, sum, deleting>>

\* The user's message, or a continuation's first steering message.
AddRoot(t) ==
    /\ at[t] = "ask"
    /\ Persist(t, "user")
    /\ Goto(t, "loop")

\* The head of an iteration looks for a hard abort.
Iterate(t) ==
    /\ at[t] = "loop"
    /\ ~abort[t]
    /\ Goto(t, "call")
    /\ UNCHANGED <<storeVars, driver, said, restore, initial, persisted, abort, kept, active, stop, sum, deleting>>

\* Tool calls and their results, or steering that arrived: another iteration.
Work(t) ==
    /\ at[t] = "call"
    /\ \E role \in Roles : Persist(t, role)
    /\ Goto(t, "loop")

\* The model's answer, or a context window error: compress and call again.
Answered(t) ==
    /\ at[t] = "call"
    /\ \/ Goto(t, "final")
       \/ "compress" \in Kinds /\ Goto(t, "compress")
    /\ UNCHANGED <<storeVars, driver, said, restore, initial, persisted, abort, kept, active, stop, sum, deleting>>

\* The model or a hook ends the turn with an error.
Fail(t) ==
    /\ at[t] = "call"
    /\ Leave(t)
    /\ UNCHANGED <<storeVars, driver, said, stop, sum, deleting>>

\* forceCompression up to its SetHistory: two messages are left as they are.
Compress(t) ==
    /\ at[t] = "compress"
    /\ \/ /\ Len(Seen) <= 2
          /\ Goto(t, "refresh")
          /\ UNCHANGED kept
       \/ /\ Len(Seen) > 2
          /\ \E mid \in 0..Len(Seen) - 1 :
               /\ Middle(Seen, mid)
               /\ kept' = [kept EXCEPT ![t] =
                     IF mid > 0 THEN SubSeq(Seen, mid + 1, Len(Seen)) ELSE SubSeq(Seen, 1, 1)]
          /\ Goto(t, "squeeze")
    /\ UNCHANGED <<storeVars, driver, said, restore, initial, persisted, abort, active, stop, sum, deleting>>

\* Its SetHistory; the Save that follows finds skip = 0.
Squeeze(t) ==
    /\ at[t] = "squeeze"
    /\ SetHistory(kept[t])
    /\ kept' = [kept EXCEPT ![t] = <<>>]
    /\ Goto(t, "refresh")
    /\ UNCHANGED <<driver, said, restore, initial, persisted, abort, active, stop, sum, deleting>>

\* refreshRestorePointFromSession.
Refresh(t) ==
    /\ at[t] = "refresh"
    /\ restore' = [restore EXCEPT ![t] = SubSeq(Visible, 1, Len(Visible) - MatchingTail)]
    /\ Goto(t, IF persisted[t] THEN "call" ELSE "ask")
    /\ UNCHANGED <<storeVars, driver, said, initial, persisted, abort, kept, active, stop, sum, deleting>>

\* Finalize, or ExecuteTools when the tools have delivered the answer: the last
\* message, Save, and the context manager's turn.
AddFinal(t) ==
    /\ at[t] = "final"
    /\ Persist(t, "reply")
    /\ Goto(t, "save")

\* Mutant of Save: the session is not compacted at the end of a turn.
SaveNothing(t) ==
    /\ at[t] = "save"
    /\ Goto(t, "wrap")
    /\ UNCHANGED <<storeVars, driver, said, restore, initial, persisted, abort, kept, active, stop, sum, deleting>>

Save(t) ==
    /\ at[t] = "save"
    /\ Compact
    /\ Goto(t, "wrap")
    /\ UNCHANGED <<driver, said, restore, initial, persisted, abort, kept, active, stop, sum, deleting>>

\* maybeSummarize starts a summarizer unless one is running; the turn is over.  A
\* turn whose tools have delivered the answer looks for a hard abort once more.
Wrap(t) ==
    /\ at[t] = "wrap"
    /\ sum' = IF "summary" \in Kinds /\ Len(Seen) > Threshold /\ sum.place = "off"
              THEN [sum EXCEPT !.place = "read"] ELSE sum
    /\ \/ Leave(t)
       \/ /\ abort[t]
          /\ Goto(t, "abort")
          /\ UNCHANGED <<restore, initial, persisted, abort, kept, active>>
    /\ UNCHANGED <<storeVars, driver, said, stop, deleting>>

\* A check point of runTurn, the model call or a tool meets the hard abort.
SeeAbort(t) ==
    /\ at[t] \in {"setup", "loop", "call"}
    /\ abort[t]
    /\ Goto(t, "abort")
    /\ UNCHANGED <<storeVars, driver, said, restore, initial, persisted, abort, kept, active, stop, sum, deleting>>

\* A hook around the model call or a tool asks for a hard abort.
HookAbort(t) ==
    /\ "hook" \in Kinds
    /\ at[t] = "call"
    /\ abort' = [abort EXCEPT ![t] = TRUE]
    /\ Goto(t, "abort")
    /\ UNCHANGED <<storeVars, driver, said, restore, initial, persisted, kept, active, stop, sum, deleting>>

\* abortTurn, restoreSession: SetHistory; the Save that follows finds skip = 0.
AbortTurn(t) ==
    /\ at[t] = "abort"
    /\ SetHistory(restore[t])
    /\ Leave(t)
    /\ UNCHANGED <<driver, said, stop, sum, deleting>>

-----------------------------------------------------------------------------
(* HardAbort, in the goroutine of a /stop command; one of them at a time.  *)
(* A /stop that waits for a turn to register (pendingStops) is a           *)
(* RequestHardAbort right after Register.                                  *)

\* The active turn is found and asked to abort.
RequestHardAbort ==
    /\ "stop" \in Kinds
    /\ stop = NoStop
    /\ active # NoTurn
    /\ abort' = [abort EXCEPT ![active] = TRUE]
    /\ stop' = [NoStop EXCEPT !.place = "read", !.len = initial[active]]
    /\ UNCHANGED <<storeVars, driver, said, at, restore, initial, persisted, kept, active, sum, deleting>>

ReadForRollback ==
    /\ stop.place = "read"
    /\ stop' = IF stop.len < Len(Visible)
               THEN [stop EXCEPT !.place = "set", !.hist = SubSeq(Visible, 1, stop.len)]
               ELSE NoStop
    /\ UNCHANGED <<storeVars, driver, said, turnVars, active, sum, deleting>>

Rollback ==
    /\ stop.place = "set"
    /\ SetHistory(stop.hist)
    /\ stop' = NoStop
    /\ UNCHANGED <<driver, said, turnVars, active, sum, deleting>>

-----------------------------------------------------------------------------
(* summarizeSession, one goroutine at a time (map summarizing).            *)

\* The cut is computed from the history of this moment.
ReadToSummarize ==
    /\ sum.place = "read"
    /\ \/ /\ Len(Visible) <= Keep
          /\ sum' = NoSum
       \/ /\ Len(Visible) > Keep
          /\ \E cut \in 0..Len(Visible) - 1 :
               /\ SafeBoundary(Visible, Len(Visible) - Keep, cut)
               /\ sum' = IF cut = 0 THEN NoSum
                         ELSE [place |-> "model", keep |-> Len(Visible) - cut]
    /\ UNCHANGED <<storeVars, driver, said, turnVars, active, stop, deleting>>

\* The model wrote a summary, which SetSummary stores, or it did not.
Summarize ==
    /\ sum.place = "model"
    /\ \/ sum' = NoSum
       \/ sum' = [sum EXCEPT !.place = "truncate"]
    /\ UNCHANGED <<storeVars, driver, said, turnVars, active, stop, deleting>>

Truncate ==
    /\ sum.place = "truncate"
    /\ TruncateHistory(sum.keep)
    /\ sum' = [sum EXCEPT !.place = "save"]
    /\ UNCHANGED <<driver, said, turnVars, active, stop, deleting>>

SaveTruncated ==
    /\ sum.place = "save"
    /\ Compact
    /\ sum' = NoSum
    /\ UNCHANGED <<driver, said, turnVars, active, stop, deleting>>

-----------------------------------------------------------------------------
\* /clear holds the loop's claim of the session.  A tenant's /clear does not get
\* here: agentForSession finds the default agent for it.
Clear ==
    /\ "clear" \in Kinds
    /\ driver = "loop"
    /\ \A t \in Turns : at[t] = "idle"
    /\ SetHistory(<<>>)
    /\ UNCHANGED <<driver, said, turnVars, active, stop, sum, deleting>>

\* DELETE of a tenant's session over REST.
DeleteMessages ==
    /\ "delete" \in Kinds
    /\ driver = "direct"
    /\ ~deleting
    /\ DeleteRows
    /\ deleting' = TRUE
    /\ UNCHANGED <<driver, said, turnVars, active, stop, sum>>

DeleteSession ==
    /\ deleting
    /\ DeleteMeta
    /\ deleting' = FALSE
    /\ UNCHANGED <<driver, said, turnVars, active, stop, sum>>

\* The process dies; what the database committed remains.
Crash ==
    /\ "crash" \in Kinds
    /\ at' = [t \in Turns |-> "idle"]
    /\ restore' = [t \in Turns |-> <<>>]
    /\ initial' = [t \in Turns |-> 0]
    /\ persisted' = [t \in Turns |-> FALSE]
    /\ abort' = [t \in Turns |-> FALSE]
    /\ kept' = [t \in Turns |-> <<>>]
    /\ active' = NoTurn
    /\ stop' = NoStop
    /\ sum' = NoSum
    /\ deleting' = FALSE
    /\ UNCHANGED <<storeVars, driver, said>>

Turn(t) ==
    \/ Begin(t)
    \/ Register(t)
    \/ Assemble(t)
    \/ AddRoot(t)
    \/ Iterate(t)
    \/ Work(t)
    \/ Answered(t)
    \/ Fail(t)
    \/ Compress(t)
    \/ Squeeze(t)
    \/ Refresh(t)
    \/ AddFinal(t)
    \/ Save(t)
    \/ Wrap(t)
    \/ SeeAbort(t)
    \/ HookAbort(t)
    \/ AbortTurn(t)

Summarizer == ReadToSummarize \/ Summarize \/ Truncate \/ SaveTruncated

Stopper == RequestHardAbort \/ ReadForRollback \/ Rollback

Next ==
    \/ \E t \in Turns : Turn(t)
    \/ Stopper
    \/ Summarizer
    \/ Clear
    \/ DeleteMessages
    \/ DeleteSession
    \/ Crash

Spec == Init /\ [][Next]_vars

-----------------------------------------------------------------------------
(* Properties.                                                             *)

\* What the loop sees of the store, as a log.
Log == INSTANCE SessionLog WITH log <- Visible, births <- Len(said)

Selection(s) == Log!IsSelection(s, Len(said))

\* Every history in the store or in somebody's hands is a selection of what was
\* said, in order and with no message twice.
Histories ==
    /\ Selection(msgs)
    /\ Selection(stop.hist)
    /\ \A t \in Turns : Selection(restore[t]) /\ Selection(kept[t])

TypeOK ==
    /\ driver \in AllDrivers
    /\ said \in Seq(Roles)
    /\ gone \in Nat /\ skip \in Nat /\ count \in Nat
    /\ at \in [Turns -> Places]
    /\ restore \in [Turns -> Seq(Nat)]
    /\ initial \in [Turns -> Nat]
    /\ persisted \in [Turns -> BOOLEAN]
    /\ abort \in [Turns -> BOOLEAN]
    /\ kept \in [Turns -> Seq(Nat)]
    /\ active \in Turns \cup {NoTurn}
    /\ stop \in [place : {"off", "read", "set"}, len : Nat, hist : Seq(Nat)]
    /\ sum \in [place : {"off", "read", "model", "truncate", "save"}, keep : Nat]
    /\ deleting \in BOOLEAN

\* The bookkeeping of truncation: rows are hidden only between a TruncateHistory
\* and the next Compact, and no summarizer starts in between (sqlite.go keeps skip
\* as a sequence number but compares it with a count).
Bookkeeping ==
    /\ skip # 0 => skip > gone /\ skip <= gone + Len(msgs)
    /\ driver = "loop" => count = Len(msgs) /\ ~deleting
    /\ driver = "direct" => skip = 0 /\ sum.place = "off"
    /\ skip # 0 => \/ sum.place = "save"
                   \/ sum.place = "off" /\ \A t \in Turns : at[t] # "wrap"
    /\ sum.place \in {"model", "truncate"} => sum.keep > 0

\* Who runs when: the loop runs one turn at a time, and the active turn is one
\* that runs (agent.go claims the session, turn_state.go clears its own turn).
OneTurn ==
    /\ driver = "loop" => \A s, t \in Turns : at[s] # "idle" /\ at[t] # "idle" => s = t
    /\ active # NoTurn => Registered(active)

\* The invariant a step preserves: what the properties need to know of the store
\* and of the histories that turns, rollback and compression will write back.
HistoryInv == TypeOK /\ Histories /\ Bookkeeping /\ OneTurn

\* The last n of a history.
LastN(h, n) == SubSeq(h, Len(h) - n + 1, Len(h))

\* store.go: "TruncateHistory removes all but the last keepLast messages".
KeepsLast ==
    sum.place = "truncate" /\ sum'.place = "save" =>
        Visible' = IF sum.keep < Len(Visible) THEN LastN(Visible, sum.keep) ELSE Visible

\* TruncateHistory keeps exactly the last keepLast messages whatever compactions,
\* rewrites, crashes and lost compactions came before it (sqlite.go).
TruncateKeepsLast == [][KeepsLast]_vars

\* What the loop sees of the store is a log: each message said is the newest of
\* the history, and nothing is ever reordered, repeated or invented (store.go).
HistoryIsLog == Log!Spec

\* Whose comments the code breaks.

\* steering.go, HardAbort: "Roll back session history to the state before the turn
\* started": a turn that was aborted leaves as many messages as it found.
RolledBack ==
    \A t \in Turns : at[t] = "abort" /\ at'[t] = "idle" =>
        Len(Visible') = initial[t]

AbortRestores == [][RolledBack]_vars

\* context_budget.go: "Cutting at a Turn boundary guarantees that no tool-call
\* sequence (assistant+ToolCalls -> tool results) is split across the cut".
StartsTurn(h) == h = <<>> \/ said[h[1]] = "user"
CutAtBoundary ==
    sum.place = "truncate" /\ sum'.place = "save" /\ StartsTurn(Visible) => StartsTurn(Visible')

TruncateAtBoundary == [][CutAtBoundary]_vars

=============================================================================
