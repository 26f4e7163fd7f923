---------------------------- MODULE ShellMailbox ----------------------------
(***************************************************************************)
(* The control mailbox of the native Qt shell.  The server writes one      *)
(* request at a time into the control file; the shell polls the file,      *)
(* executes what is newer than its last request, and writes a status file  *)
(* in which the server looks for the answer (player.py, qt_shell_app.py).  *)
(* The server ends and starts the shell at any time.                       *)
(***************************************************************************)
EXTENDS Integers

CONSTANTS Requests,    \* requests, each submitted by a thread of its own
          Early,       \* load_stream, overlay_toast: stamped before the mailbox is locked
          MaxRestarts  \* bound on ends of the shell

ASSUME MailboxBounds == Early \subseteq Requests /\ MaxRestarts \in Nat

NoRequest == "none"
ASSUME NoRequestIsNone == NoRequest \notin Requests
Fresh == [request |-> NoRequest, last |-> 0, ok |-> TRUE]  \* control_state at start
NoStatus == [request |-> NoRequest, ok |-> TRUE]

VARIABLES
    call,       \* step of each submitter
    stamp,      \* ts of each request
    now,        \* the clock: stamps so far
    locked,     \* who holds _QT_SHELL_RUNTIME_CONTROL_LOCK, or NoRequest
    slot,       \* the control file: a request, or NoRequest
    up,         \* the shell runs
    control,    \* control_state of the shell
    status,     \* the status file's last_control_request_id and last_control_ok
    restarts,   \* bound: ends of the shell so far
    executed    \* history: how often each request was executed

mvars == <<call, stamp, now, locked, slot, up, control, status, restarts, executed>>

MailboxInit ==
    /\ call = [r \in Requests |-> "idle"] /\ stamp = [r \in Requests |-> 0] /\ now = 0
    /\ locked = NoRequest /\ slot = NoRequest /\ status = NoStatus
    /\ up = TRUE /\ control = Fresh /\ restarts = 0
    /\ executed = [r \in Requests |-> 0]

-----------------------------------------------------------------------------
(* Server *)

StampNow(r) == now' = now + 1 /\ stamp' = [stamp EXCEPT ![r] = now + 1]

\* A stream or a toast is stamped when its request is made.
Prepare(r) ==
    /\ r \in Early /\ call[r] = "idle"
    /\ StampNow(r)
    /\ call' = [call EXCEPT ![r] = "prepared"]
    /\ UNCHANGED <<locked, slot, up, control, status, restarts, executed>>

\* A bug: the file is written while another request waits for its answer.
SubmitUnlocked(r) ==
    /\ call[r] = (IF r \in Early THEN "prepared" ELSE "idle")
    /\ locked' = r
    /\ IF r \in Early THEN UNCHANGED <<stamp, now>> ELSE StampNow(r)
    /\ slot' = r
    /\ call' = [call EXCEPT ![r] = "waiting"]
    /\ UNCHANGED <<up, control, status, restarts, executed>>

\* _qt_shell_runtime_submit_control and _submit_command: lock, stamp a command,
\* replace the file.
Submit(r) ==
    /\ call[r] = (IF r \in Early THEN "prepared" ELSE "idle")
    /\ locked = NoRequest /\ locked' = r
    /\ IF r \in Early THEN UNCHANGED <<stamp, now>> ELSE StampNow(r)
    /\ slot' = r
    /\ call' = [call EXCEPT ![r] = "waiting"]
    /\ UNCHANGED <<up, control, status, restarts, executed>>

Return(r, outcome) ==
    /\ call[r] = "waiting"
    /\ call' = [call EXCEPT ![r] = outcome]
    /\ locked' = NoRequest
    /\ UNCHANGED <<stamp, now, slot, up, control, status, restarts, executed>>

\* _qt_shell_runtime_wait_for_ack: the status file names the request ...
Answered(r) == status.request = r /\ Return(r, IF status.ok THEN "ok" ELSE "error")
\* ... or the deadline passes first, or the status is too old.
TimedOut(r) == Return(r, "timeout")

-----------------------------------------------------------------------------
(* Shell *)

\* _handle_runtime_control: a request that is not newer than the last is ignored.
HandleControl ==
    /\ up /\ slot # NoRequest
    /\ stamp[slot] > control.last
    /\ executed' = [executed EXCEPT ![slot] = @ + 1]
    /\ \E ok \in BOOLEAN : control' = [request |-> slot, last |-> stamp[slot], ok |-> ok]
    /\ UNCHANGED <<call, stamp, now, locked, slot, up, status, restarts>>

\* _write_runtime_status, at the end of the same tick.
WriteStatus ==
    /\ up /\ status # [request |-> control.request, ok |-> control.ok]
    /\ status' = [request |-> control.request, ok |-> control.ok]
    /\ UNCHANGED <<call, stamp, now, locked, slot, up, control, restarts, executed>>

\* _stop_qt_shell, or the shell dies; the control file is left behind, and the status
\* file too unless the shell comes to the end of its event loop.
ShellEnds ==
    /\ up /\ restarts < MaxRestarts
    /\ up' = FALSE /\ restarts' = restarts + 1
    /\ status' \in {status, NoStatus}
    /\ UNCHANGED <<call, stamp, now, locked, slot, control, executed>>

\* A bug: a new shell leaves the old control file in place.
ShellStartsKeeping ==
    /\ ~up
    /\ up' = TRUE /\ control' = Fresh /\ status' = NoStatus
    /\ UNCHANGED <<call, stamp, now, locked, slot, restarts, executed>>

\* A new shell removes both files and remembers no request.
ShellStarts ==
    /\ ~up
    /\ up' = TRUE /\ control' = Fresh
    /\ slot' = NoRequest /\ status' = NoStatus
    /\ UNCHANGED <<call, stamp, now, locked, restarts, executed>>

MailboxNext ==
    \/ \E r \in Requests : Prepare(r) \/ Submit(r) \/ Answered(r) \/ TimedOut(r)
    \/ HandleControl \/ WriteStatus \/ ShellEnds \/ ShellStarts

MailboxSpec == MailboxInit /\ [][MailboxNext]_mvars

-----------------------------------------------------------------------------
(* Properties *)

\* "Publish one single-slot Qt control request and retain its ack slot": no request
\* displaces one whose answer is awaited; none is executed twice, by the same shell
\* or by the one that replaces it; one that is reported done was executed.
RunsOnce ==
    \A r \in Requests :
        /\ call[r] = "waiting" => slot \in {r, NoRequest}
        /\ executed[r] <= 1
        /\ call[r] = "ok" => executed[r] = 1
=============================================================================
