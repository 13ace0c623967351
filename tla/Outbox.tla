------------------------------- MODULE Outbox -------------------------------
(***************************************************************************)
(* The two operator scripts that keep a durable Telegram outbox: the review *)
(* watcher, run again and again by a timer, alerts on every change of the  *)
(* marketplace's status; the responder follows the listener's log, queues  *)
(* replies for the buyers' sessions and alerts on each.  A script works on *)
(* its state in memory and saves it whole, at once, at a few places.  The  *)
(* model follows one session of the responder; the lines of the others are *)
(* there for what their saves push out of the state (HandleOthers).        *)
(***************************************************************************)
EXTENDS Naturals, Sequences, FiniteSets, SequencesExt, SequenceFilter

CONSTANTS
    MarketStatuses,      \* what the marketplace shows of the agent
    NoStatus,      \* the lastStatus of a fresh state
    Messages,      \* messages of one session
    MaxDelivered,  \* MAX_DELIVERED_IDS
    MaxChanges,    \* bound: changes of the marketplace's status
    MaxLines,      \* bound: lines that the listener logs
    MaxForgets,    \* bound: saves that forget something of the session
    MaxDoubts      \* bound: crashes and answers of Telegram that are lost

ASSUME OutboxBounds ==
    /\ {MaxDelivered, MaxChanges, MaxLines, MaxForgets, MaxDoubts} \subseteq Nat /\ MaxDelivered > 0
    /\ MarketStatuses # {}

(* A message's alert has another id than the start's or a status change's. *)
ASSUME AlertIds == Messages \cap (0..MaxChanges) = {}

(* Alerts: a message's, or the number of the status change; 0 at startup.  *)
Alerts == (0..MaxChanges) \cup Messages

(* What a script saves; `session` is whether its session_replies count any. *)
Saved == [outbox: Seq(Alerts), delivered: Seq(Alerts),
          last: MarketStatuses \cup {NoStatus}, sequence: 0..MaxChanges,
          offset: 0..MaxLines, handled: SUBSET Messages, session: BOOLEAN]

VARIABLES
    script,     \* which of the two runs: "watch" or "respond"
    reviewer,   \* whether the session's peer is a platform reviewer
    shown,     \* what the marketplace shows
    changes,    \* how often it has changed
    log,        \* the listener's log: the session's message of each line
    gone,       \* lines of earlier logs: the listener starts its log anew
    disk,       \* the saved state
    memory,     \* the state in memory
    run,        \* the step of the script, the alert and the line it is at
    telegram,   \* how often the operator received each alert
    commands,   \* how often a reply to each message was queued
    failed,     \* messages whose reply could not be queued
    noted,      \* messages that were handled and saved with their alert
    forgets,    \* saves so far that forgot something of the session
    doubts      \* crashes and lost answers so far

world == <<script, reviewer, shown, changes, log, gone>>

outboxVars == <<world, disk, memory, run, telegram, commands, failed, noted, forgets, doubts>>

EmptyState == [outbox |-> <<>>, delivered |-> <<>>, last |-> NoStatus, sequence |-> 0,
               offset |-> 0, handled |-> {}, session |-> FALSE]

Asleep == [pc |-> "idle", item |-> 1, tried |-> FALSE, line |-> 0]

(* The responder has run before, on an empty log: its offset is known.     *)
OutboxInit ==
    /\ script \in {"watch", "respond"}
    /\ reviewer \in BOOLEAN /\ (script = "watch" => ~reviewer)
    /\ shown = CHOOSE s \in MarketStatuses : TRUE
    /\ changes = 0
    /\ log = <<>> /\ gone = 0
    /\ disk = EmptyState
    /\ memory = EmptyState
    /\ run = Asleep
    /\ telegram = [a \in Alerts |-> 0]
    /\ commands = [m \in Messages |-> 0]
    /\ failed = {} /\ noted = {}
    /\ forgets = 0 /\ doubts = 0

-----------------------------------------------------------------------------
(* The shared outbox *)

(* queue_notification: each alert once, by its id.                         *)
QueueNotification(state, alert) ==
    IF alert \in ToSet(state.outbox) \cup ToSet(state.delivered) THEN state
    ELSE [state EXCEPT !.outbox = Append(@, alert)]

LatestDelivered(ids) == SubSeq(ids, IF Len(ids) > MaxDelivered THEN Len(ids) - MaxDelivered + 1 ELSE 1, Len(ids))

(* Mutation: an alert leaves the outbox whether or not it was sent.        *)
AttemptedOnce(state, alert, sent) ==
    [state EXCEPT !.outbox = Kept(@, Alerts \ {alert}),
                  !.delivered = LatestDelivered(Append(@, alert))]

(* An attempt to send: a failure stays in the outbox for a later run.      *)
Attempted(state, alert, sent) ==
    IF ~sent THEN state
    ELSE [state EXCEPT !.outbox = Kept(@, Alerts \ {alert}),
                       !.delivered = LatestDelivered(Append(@, alert))]

ToStep(step) == run' = [run EXCEPT !.pc = step]

Flush(step) == run' = [run EXCEPT !.pc = step, !.item = 1, !.tried = FALSE]

Flushing == run.pc \in {"flush", "flush_again", "flush_line", "flush_end"}

(* One alert of flush_notifications: not due yet; sent; refused; or sent   *)
(* although the answer never came, which counts as a failure.              *)
TryAlert(due, received, answered) ==
    /\ Flushing /\ run.item <= Len(memory.outbox)
    /\ answered => received
    /\ received => due
    /\ received /\ ~answered => doubts < MaxDoubts
    /\ LET alert == memory.outbox[run.item]
       IN  /\ memory' = IF due THEN Attempted(memory, alert, answered) ELSE memory
           /\ telegram' = IF received THEN [telegram EXCEPT ![alert] = @ + 1] ELSE telegram
           /\ doubts' = IF received /\ ~answered THEN doubts + 1 ELSE doubts
           /\ run' = [run EXCEPT !.item = IF Len(memory'.outbox) < Len(memory.outbox) THEN @ ELSE @ + 1,
                                 !.tried = @ \/ due]
    /\ UNCHANGED <<world, disk, commands, failed, noted, forgets>>

Flushed(step) == run.pc = step /\ run.item > Len(memory.outbox)

(* The process dies, or the host restarts; the next start reads the disk.  *)
ScriptDies ==
    /\ run.pc # "idle" /\ doubts < MaxDoubts
    /\ doubts' = doubts + 1
    /\ run' = Asleep
    /\ memory' = EmptyState
    /\ UNCHANGED <<world, disk, telegram, commands, failed, noted, forgets>>

-----------------------------------------------------------------------------
(* The review watcher: run_once *)

Publish(new) ==
    /\ script = "watch" /\ changes < MaxChanges /\ new # shown
    /\ changes' = changes + 1
    /\ shown' = new
    /\ UNCHANGED <<script, reviewer, log, gone, disk, memory, run, telegram, commands, failed, noted, forgets, doubts>>

StartWatch ==
    /\ script = "watch" /\ run.pc = "idle"
    /\ memory' = disk
    /\ Flush("flush")
    /\ UNCHANGED <<world, disk, telegram, commands, failed, noted, forgets, doubts>>

(* record_status: a status unlike the last is numbered and its alert is    *)
(* queued.                                                                 *)
RecordStatus(state) ==
    IF state.last = shown \/ state.sequence = MaxChanges THEN state
    ELSE QueueNotification([state EXCEPT !.last = shown, !.sequence = @ + 1], state.sequence + 1)

(* The status is read, or cannot be.                                       *)
FetchStatus ==
    /\ script = "watch" /\ Flushed("flush")
    /\ memory' \in {memory, RecordStatus(memory)}
    /\ Flush("flush_again")
    /\ UNCHANGED <<world, disk, telegram, commands, failed, noted, forgets, doubts>>

EndWatch ==
    /\ script = "watch" /\ Flushed("flush_again")
    /\ disk' = memory
    /\ memory' = EmptyState
    /\ run' = Asleep
    /\ UNCHANGED <<world, telegram, commands, failed, noted, forgets, doubts>>

-----------------------------------------------------------------------------
(* The responder: follow and process_line *)

LogLine(m) ==
    /\ script = "respond" /\ gone + Len(log) < MaxLines
    /\ log' = Append(log, m)
    /\ UNCHANGED <<script, reviewer, shown, changes, gone, disk, memory, run, telegram, commands, failed, noted, forgets, doubts>>

(* The listener starts its log anew; a responder that runs keeps its place *)
(* in it.  (Nothing reads the log while a reply is queued.)                *)
RotateLog ==
    /\ script = "respond" /\ log # <<>> /\ run.pc \notin {"enqueue", "queued"}
    /\ log' = <<>> /\ gone' = gone + Len(log)
    /\ UNCHANGED <<script, reviewer, shown, changes, disk, memory, run, telegram, commands, failed, noted, forgets, doubts>>

(* The start alerts too, and saves the alert before it is sent.            *)
StartFollow ==
    /\ script = "respond" /\ run.pc = "idle"
    /\ memory' = QueueNotification(disk, 0)
    /\ disk' = memory'
    /\ Flush("flush")
    /\ UNCHANGED <<world, telegram, commands, failed, noted, forgets, doubts>>

(* Where the log is opened: from its start if it is shorter than it was.   *)
Resumed == IF memory.offset > Len(log) THEN 0 ELSE memory.offset

(* After the flush of the start the log is opened.                         *)
SaveIfTried ==
    /\ script = "respond" /\ (Flushed("flush") \/ Flushed("flush_line"))
    /\ disk' = IF run.tried THEN memory ELSE disk
    /\ run' = [run EXCEPT !.pc = "read", !.line = IF run.pc = "flush" THEN Resumed ELSE @]
    /\ UNCHANGED <<world, memory, telegram, commands, failed, noted, forgets, doubts>>

(* process_line: a handled message is passed over; an ordinary peer gets   *)
(* one reply in its session, counted before it is queued; a reviewer's     *)
(* every message gets one.                                                 *)
ReadLine ==
    /\ script = "respond" /\ run.pc = "read" /\ run.line < Len(log)
    /\ LET m == log[run.line + 1]
           counted == [memory EXCEPT !.session = TRUE]
       IN  \/ /\ m \in memory.handled
              /\ run' = [run EXCEPT !.pc = "flush_line", !.item = 1, !.tried = FALSE, !.line = @ + 1]
              /\ UNCHANGED <<memory, disk>>
           \/ /\ m \notin memory.handled
              /\ ~reviewer /\ memory.session
              /\ memory' = [counted EXCEPT !.handled = @ \cup {m}]
              /\ disk' = memory'
              /\ run' = [run EXCEPT !.pc = "flush_line", !.item = 1, !.tried = FALSE, !.line = @ + 1]
           \/ /\ m \notin memory.handled
              /\ reviewer \/ ~memory.session
              /\ memory' = counted
              /\ run' = [run EXCEPT !.pc = "enqueue", !.line = @ + 1]
              /\ UNCHANGED disk
    /\ UNCHANGED <<world, telegram, commands, failed, noted, forgets, doubts>>

(* Lines of other sessions, not in `log`, are handled and saved like this  *)
(* one's.  save_state keeps the newest 500 handled keys and the newest 100 *)
(* sessions: the others' push this session's out, on disk and in memory.   *)
HandleOthers(kept, counted) ==
    /\ script = "respond" /\ run.pc = "read"
    /\ kept \subseteq memory.handled /\ (counted => memory.session)
    /\ memory' = [memory EXCEPT !.handled = kept, !.session = counted]
    /\ disk' = memory'
    /\ Flush("flush_line")
    /\ forgets' = IF memory' = memory THEN forgets ELSE forgets + 1
    /\ forgets' <= MaxForgets
    /\ UNCHANGED <<world, telegram, commands, failed, noted, doubts>>

CurrentLine == log[run.line]

(* enqueue_reply: the insert commits, or the peer's address is unknown or  *)
(* the queue's database is busy.                                           *)
EnqueueReply ==
    /\ script = "respond" /\ run.pc = "enqueue"
    /\ \/ /\ commands' = [commands EXCEPT ![CurrentLine] = @ + 1]
          /\ ToStep("queued")
          /\ UNCHANGED failed
       \/ /\ failed' = failed \cup {CurrentLine}
          /\ Flush("flush_line")
          /\ UNCHANGED commands
    /\ UNCHANGED <<world, disk, memory, telegram, noted, forgets, doubts>>

(* Mutation: the alert is queued, but the message is not marked.           *)
AlertOnly(state) == QueueNotification(state, CurrentLine)

(* The message is handled and its alert queued, in one save.  This save    *)
(* trims as HandleOthers says; the session's own entries are its newest,   *)
(* and what it pushes out may as well have been pushed out just before.    *)
HandledWith(state) == QueueNotification([state EXCEPT !.handled = @ \cup {CurrentLine}], CurrentLine)

SaveHandled ==
    /\ script = "respond" /\ run.pc = "queued"
    /\ memory' = HandledWith(memory)
    /\ disk' = memory'
    /\ noted' = noted \cup {CurrentLine}
    /\ Flush("flush_line")
    /\ UNCHANGED <<world, telegram, commands, failed, forgets, doubts>>

(* At the end of the log, or beyond it, the place is kept as the offset,   *)
(* and saved after a flush.                                                *)
EndOfLog ==
    /\ script = "respond" /\ run.pc = "read" /\ run.line >= Len(log)
    /\ memory' = [memory EXCEPT !.offset = run.line]
    /\ Flush("flush_end")
    /\ UNCHANGED <<world, disk, telegram, commands, failed, noted, forgets, doubts>>

SaveOffset ==
    /\ script = "respond" /\ Flushed("flush_end")
    /\ disk' = memory
    /\ ToStep("read")
    /\ UNCHANGED <<world, memory, telegram, commands, failed, noted, forgets, doubts>>

OutboxNext ==
    \/ \E due, received, answered \in BOOLEAN : TryAlert(due, received, answered)
    \/ ScriptDies
    \/ \E new \in MarketStatuses : Publish(new)
    \/ StartWatch \/ FetchStatus \/ EndWatch
    \/ \E m \in Messages : LogLine(m)
    \/ RotateLog
    \/ \E kept \in SUBSET Messages, counted \in BOOLEAN : HandleOthers(kept, counted)
    \/ StartFollow \/ SaveIfTried \/ ReadLine \/ EnqueueReply \/ SaveHandled \/ EndOfLog \/ SaveOffset

OutboxSpec == OutboxInit /\ [][OutboxNext]_outboxVars

-----------------------------------------------------------------------------
(* Properties *)

ScriptRun == [pc: {"idle", "flush", "flush_again", "flush_line", "flush_end", "read", "enqueue", "queued"},
              item: Nat \ {0}, tried: BOOLEAN, line: 0..MaxLines]

OutboxTypeOK ==
    /\ script \in {"watch", "respond"} /\ reviewer \in BOOLEAN
    /\ shown \in MarketStatuses /\ changes \in 0..MaxChanges
    /\ log \in Seq(Messages) /\ gone \in 0..MaxLines
    /\ {disk, memory} \subseteq Saved
    /\ run \in ScriptRun
    /\ telegram \in [Alerts -> Nat] /\ commands \in [Messages -> Nat]
    /\ failed \subseteq Messages /\ noted \subseteq Messages
    /\ forgets \in 0..MaxForgets /\ doubts \in 0..MaxDoubts

(* No recorded status change, and no alert of an answer whose handling was *)
(* saved, is lost: it is in the saved outbox or the operator has it, also  *)
(* when the handled key itself has been pushed out.                        *)
NoAlertLost ==
    \A a \in 1..disk.sequence \cup noted : a \in ToSet(disk.outbox) \/ telegram[a] > 0

(* A reply was queued, or could not be.                                    *)
Answered(m) == commands[m] > 0 \/ m \in failed

(* A reviewer's message gets its own answer, another peer's session one.   *)
Served(m) == IF reviewer THEN Answered(m) ELSE \E l \in Messages : Answered(l)

(* A line behind the saved offset was served, unless the log has ever been *)
(* rotated: a new log that reaches the saved offset before the responder   *)
(* looks is read from there.  A handled message of a reviewer was answered *)
(* and not just tried.                                                     *)
NoLineSkipped ==
    /\ gone = 0 => \A i \in 1..disk.offset : Served(log[i])
    /\ \A m \in disk.handled : Served(m) /\ (reviewer => commands[m] > 0)

(* Nothing is lost: no alert, and no line without its answer, whatever     *)
(* dies, is refused, is forgotten or (but for the saved offset) rotated.   *)
NothingLost == NoAlertLost /\ NoLineSkipped

(* The replies that were queued: the first, second ... to each message.    *)
Replies == UNION {{m} \X (1..commands[m]) : m \in Messages}

(* What is repeated is explained.  A status change or the start is heard   *)
(* again only as often as a process died or an answer of Telegram was      *)
(* lost; the alert of a message only so often beyond its replies; and a    *)
(* reviewer's message or another peer's session gets a second reply only   *)
(* as often as a process died or a save forgot something of the session.   *)
RepeatsAreExplained ==
    /\ \A a \in 0..MaxChanges : telegram[a] <= 1 + doubts
    /\ \A m \in Messages : telegram[m] <= commands[m] + doubts
    /\ reviewer => \A m \in Messages : commands[m] <= 1 + doubts + forgets
    /\ ~reviewer => Cardinality(Replies) <= 1 + doubts + forgets
=============================================================================
