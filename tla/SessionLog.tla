----------------------------- MODULE SessionLog -----------------------------
(***************************************************************************)
(* sessions.jsonl and session.lock, shared by all monitors of a data root  *)
(* (src/preprocessors/session.rs, src/postprocessors/session_recorder.rs,  *)
(* src/postprocessors/log_rotator.rs).                                     *)
(*                                                                         *)
(* Each monitor finalizes one crash: SessionEnricher reads the session     *)
(* from session.lock, SessionRecorder appends a record to the log and      *)
(* removes the lock, LogRotator halves a log that is too long.  The latter *)
(* two work under .sessions.lock and may fail or crash between any two     *)
(* system calls.                                                           *)
(***************************************************************************)
EXTENDS Integers, Sequences, SequencesExt

CONSTANTS
    Crashes,      \* the crashes finalized, each by a monitor of its own
    Sessions,     \* session ids
    MaxSize,      \* max_size_bytes, in records
    Overage,      \* MAX_LOG_ROTATION_OVERAGE_BYTES, in records
    MaxLine       \* MAX_LOG_LINE_BYTES, in records

ASSUME SessionAssumption ==
    /\ MaxSize \in Nat /\ Overage \in Nat /\ MaxLine \in Nat \ {0}
    /\ "none" \notin Sessions /\ "free" \notin Crashes

VARIABLES
    lines,      \* sessions.jsonl: its lines, each a sequence of records or fragments
    open,       \* the last line has no newline
    logLock,    \* .sessions.lock: "free" or its holder
    lockFile,   \* the session in session.lock of the data and of the output directory
    sess        \* [pc, session, kept] of each crash's finalization

sessionVars == <<lines, open, logLock, lockFile, sess>>

\* A record; "torn" is what a write that failed half way left of one.
Record(c) == [crash |-> c, part |-> "whole"]
Fragment(c) == [crash |-> c, part |-> "torn"]

\* A line longer than the limit, written by something else.
LongLine == [i \in 1 .. MaxLine + 1 |-> [crash |-> "other", part |-> "torn"]]

Directories == {"data", "output"}

SessionInit ==
    /\ lines \in {<<>>, <<LongLine>>}
    /\ open = FALSE
    /\ logLock = "free"
    /\ lockFile \in [Directories -> Sessions \cup {"none"}]
    /\ sess = [c \in Crashes |-> [pc |-> "enrich", session |-> "none", kept |-> <<>>]]

SessAt(c, pc) == sess[c].pc = pc
SessGoto(c, pc) == sess' = [sess EXCEPT ![c].pc = pc]

-----------------------------------------------------------------------------
(* SessionEnricher.                                                        *)

\* read_session_lock, from the data directory; without a session nothing is
\* recorded.
ReadSessionLock(c) ==
    /\ SessAt(c, "enrich")
    /\ \E session \in {lockFile["data"], "none"} :
          sess' = [sess EXCEPT ![c].session = session,
                               ![c].pc = IF session = "none" THEN "rotate" ELSE "record"]
    /\ UNCHANGED <<lines, open, logLock, lockFile>>

-----------------------------------------------------------------------------
(* SessionRecorder.                                                        *)

\* Mutation of AcquireSessionLogLock: only other recorders are waited for.
AcquireSessionLogLockShared(c) ==
    /\ SessAt(c, "record") \/ SessAt(c, "rotate")
    /\ logLock = "free" \/ SessAt(c, "rotate")
    /\ logLock' = IF logLock = "free" THEN c ELSE logLock
    /\ SessGoto(c, IF SessAt(c, "record") THEN "append" ELSE "stat")
    /\ UNCHANGED <<lines, open, lockFile>>

\* acquire_session_log_lock polls until the lock is free; the recorder and the
\* rotator use it.
AcquireSessionLogLock(c) ==
    /\ SessAt(c, "record") \/ SessAt(c, "rotate")
    /\ logLock = "free"
    /\ logLock' = c
    /\ SessGoto(c, IF SessAt(c, "record") THEN "append" ELSE "stat")
    /\ UNCHANGED <<lines, open, lockFile>>

ReleaseLog(c) == logLock' = IF logLock = c THEN "free" ELSE logLock

\* Bytes appended to the log go on the last line if that has no newline.
Appended(piece) ==
    IF open THEN [lines EXCEPT ![Len(lines)] = Append(@, piece)]
    ELSE Append(lines, <<piece>>)

\* append_session_record_locked: the record ...
WriteRecord(c) ==
    /\ SessAt(c, "append")
    /\ \/ lines' = Appended(Record(c)) /\ SessGoto(c, "newline") /\ UNCHANGED logLock
       \/ lines' = Appended(Fragment(c)) /\ SessGoto(c, "rotate") /\ ReleaseLog(c)
    /\ open' = TRUE
    /\ UNCHANGED lockFile

\* ... and its newline, in a second write; then the sync.
WriteNewline(c) ==
    /\ SessAt(c, "newline")
    /\ open' = FALSE
    /\ SessGoto(c, "unlock")
    /\ UNCHANGED <<lines, logLock, lockFile>>

\* remove_owned_session_lock, in the output directory: a missing file, or one
\* that names another session, is left alone.
RemoveOwnedSessionLock(c) ==
    /\ SessAt(c, "unlock")
    /\ lockFile' = IF lockFile["output"] = sess[c].session
                   THEN [lockFile EXCEPT !["output"] = "none"] ELSE lockFile
    /\ ReleaseLog(c)
    /\ SessGoto(c, "rotate")
    /\ UNCHANGED <<lines, open>>

\* An error of the recorder: its deadline, a full disk, a lock file that cannot
\* be read.  LogRotator still runs.
RecorderFails(c) ==
    /\ sess[c].pc \in {"record", "append", "newline", "unlock"}
    /\ ReleaseLog(c)
    /\ SessGoto(c, "rotate")
    /\ UNCHANGED <<lines, open, lockFile>>

-----------------------------------------------------------------------------
(* LogRotator.                                                             *)

LogSize == FoldSeq(LAMBDA line, sum : Len(line) + sum, 0, lines)

\* scan_valid_lines: lines within the limit, the last one with or without a
\* newline.
ValidLines == SelectSeq(lines, LAMBDA line : Len(line) <= MaxLine)

\* The size, then the number of valid lines, decide whether the log is rotated;
\* the newer half of the valid lines is copied to a temporary file.
ScanLog(c) ==
    /\ SessAt(c, "stat")
    /\ IF LogSize > MaxSize /\ LogSize <= MaxSize + Overage /\ ValidLines # <<>>
       THEN /\ sess' = [sess EXCEPT ![c].pc = "replace",
                           ![c].kept = SubSeq(ValidLines, Len(ValidLines) \div 2 + 1, Len(ValidLines))]
            /\ UNCHANGED logLock
       ELSE SessGoto(c, "done") /\ ReleaseLog(c)
    /\ UNCHANGED <<lines, open, lockFile>>

\* replace_log_atomically: the rename.  A last line without a newline is copied
\* without it, unless it was too long.
ReplaceLog(c) ==
    /\ SessAt(c, "replace")
    /\ lines' = sess[c].kept
    /\ open' = (open /\ Len(Last(lines)) <= MaxLine)
    /\ sess' = [sess EXCEPT ![c].pc = "done", ![c].kept = <<>>]
    /\ ReleaseLog(c)
    /\ UNCHANGED lockFile

\* An error of the rotator; the temporary file is removed.
RotatorFails(c) ==
    /\ sess[c].pc \in {"rotate", "stat", "replace"}
    /\ sess' = [sess EXCEPT ![c].pc = "done", ![c].kept = <<>>]
    /\ ReleaseLog(c)
    /\ UNCHANGED <<lines, open, lockFile>>

\* The monitor dies; the kernel releases its lock.
MonitorDies(c) ==
    /\ ~SessAt(c, "done")
    /\ sess' = [sess EXCEPT ![c].pc = "done", ![c].kept = <<>>]
    /\ ReleaseLog(c)
    /\ UNCHANGED <<lines, open, lockFile>>

SessionNext ==
    \E c \in Crashes :
        \/ ReadSessionLock(c) \/ AcquireSessionLogLock(c)
        \/ WriteRecord(c) \/ WriteNewline(c) \/ RemoveOwnedSessionLock(c) \/ RecorderFails(c)
        \/ ScanLog(c) \/ ReplaceLog(c) \/ RotatorFails(c) \/ MonitorDies(c)

SessionSpec == SessionInit /\ [][SessionNext]_sessionVars

-----------------------------------------------------------------------------
(* Properties.                                                             *)

InLog(log, piece) == \E i \in DOMAIN log : piece \in ToSet(log[i])

(***************************************************************************)
(* "concurrent append and rotation do not lose the new record" (log_       *)
(* rotator_tests.rs): a record that was written disappears only because it *)
(* was in the older half of the valid lines, or on a line that is too      *)
(* long, of the log as it is when it is replaced and not as it was when it *)
(* was scanned; wherever appends, rotations, failed writes and crashes of  *)
(* other monitors fall.                                                    *)
(***************************************************************************)
OnlyOldRecordsRotate ==
    [][\A i \in DOMAIN lines, c \in Crashes :
          Record(c) \in ToSet(lines[i]) /\ ~InLog(lines', Record(c)) =>
             \/ Len(lines[i]) > MaxLine
             \/ Len(SelectSeq(SubSeq(lines, 1, i), LAMBDA line : Len(line) <= MaxLine))
                   <= Len(ValidLines) \div 2]_sessionVars

(***************************************************************************)
(* "Record a crash in sessions.jsonl and remove session.lock"              *)
(* (session_recorder.rs): when the lock step of a finalization succeeds,   *)
(* no session.lock is left that names the session it recorded.             *)
(***************************************************************************)
RecordedSessionIsClosed ==
    [][\A c \in Crashes : RemoveOwnedSessionLock(c) =>
          \A d \in Directories : lockFile'[d] # sess[c].session]_sessionVars
=============================================================================
