------------------------------- MODULE Decoder -------------------------------
(***************************************************************************)
(* Decoding a piece of music with an ffmpeg child process                  *)
(* (audio/music_decode_process.c): the parent reads the child's output     *)
(* from a pipe into a buffer that grows up to a limit, then waits for the  *)
(* child's exit, all before one deadline.  The child is external: it       *)
(* writes, closes its output and exits when it likes, or never.            *)
(***************************************************************************)
EXTENDS Naturals

CONSTANTS FrameBytes,  \* bytes of one frame of the PCM
          MaxBytes,    \* ten minutes of it
          StartBytes,  \* the buffer's first capacity
          PipeBytes    \* what the pipe holds

ASSUME DecoderAssumption ==
    /\ FrameBytes \in Nat \ {0} /\ PipeBytes \in Nat \ {0}
    /\ MaxBytes \in Nat /\ StartBytes \in 1..MaxBytes

VARIABLES
    pc,      \* the parent: open, read, reap, kill, wait, done
    child,   \* none, running, closed (its output), zombie, gone (reaped)
    status,  \* how the child ended: ok, bad, or none yet
    written, \* bytes the child has written
    pipe,    \* of them, bytes still in the pipe
    length, capacity, \* the buffer
    late,    \* the deadline has passed
    result   \* none, music or failed

decodeVars == <<pc, child, status, written, pipe, length, capacity, late, result>>
childVars == <<child, status, written, pipe>>

Lower(a, b) == IF a <= b THEN a ELSE b

-----------------------------------------------------------------------------
(* The child.  With nobody to read, what it writes kills it (SIGPIPE).     *)

ChildWrites ==
    /\ child = "running" /\ pc = "read"
    /\ pipe < PipeBytes /\ written <= MaxBytes
    /\ written' = written + 1 /\ pipe' = pipe + 1
    /\ UNCHANGED <<pc, child, status, length, capacity, late, result>>

ChildCloses ==
    /\ child = "running"
    /\ child' = "closed"
    /\ UNCHANGED <<pc, status, written, pipe, length, capacity, late, result>>

ChildExits(how) ==
    /\ child \in {"running", "closed"}
    /\ child' = "zombie" /\ status' = how
    /\ UNCHANGED <<pc, written, pipe, length, capacity, late, result>>

Child == ChildWrites \/ ChildCloses \/ \E how \in {"ok", "bad"} : ChildExits(how)

-----------------------------------------------------------------------------
(* The parent, music_decode_file.                                          *)

(* What every failure does next: the child is killed and waited for.       *)
FailLeavingChild == pc' = "done" /\ result' = "failed"
Fail == pc' = "kill" /\ result' = "failed"

(* decoder_open: the pipe and the child, or neither; then the buffer,      *)
(* without which the decode fails.                                         *)
Open ==
    /\ pc = "open"
    /\ \/ pc' = "read" /\ child' = "running" /\ UNCHANGED result
       \/ Fail /\ child' = "running"
       \/ pc' = "done" /\ result' = "failed" /\ UNCHANGED child
    /\ UNCHANGED <<status, written, pipe, length, capacity, late>>

(* The buffer is full: twice the room, but not beyond the limit.  Without  *)
(* memory for it the decode fails.                                         *)
Grow ==
    /\ pc = "read" /\ length = capacity
    /\ \/ /\ capacity < MaxBytes
          /\ capacity' = Lower(2 * capacity, MaxBytes)
          /\ UNCHANGED <<pc, result>>
       \/ Fail /\ UNCHANGED capacity
    /\ UNCHANGED <<childVars, length, late>>

(* poll with a time limit, then read; an error of either is a failure.     *)
ReadSome(n) ==
    /\ pc = "read" /\ length < capacity /\ ~late
    /\ n <= pipe /\ n <= capacity - length
    /\ length' = length + n /\ pipe' = pipe - n
    /\ UNCHANGED <<pc, child, status, written, capacity, late, result>>

EndOfOutput ==
    /\ pc = "read" /\ length < capacity /\ ~late
    /\ pipe = 0 /\ child # "running"
    /\ pc' = "reap"
    /\ UNCHANGED <<childVars, length, capacity, late, result>>

ReadFailsWithoutDeadline ==
    /\ pc = "read" /\ length < capacity /\ ~late /\ pipe > 0
    /\ Fail
    /\ UNCHANGED <<childVars, length, capacity, late>>
ReadFails ==
    /\ pc = "read" /\ length < capacity
    /\ late \/ pipe > 0
    /\ Fail
    /\ UNCHANGED <<childVars, length, capacity, late>>

(* The output has ended: the child's status, asked for without waiting.    *)
(* Of a child that failed the process is killed although it has just been  *)
(* waited for; waiting again then finds no such child.                     *)
AcceptedUnlessEmpty == length > 0 /\ length % FrameBytes = 0
Accepted == length > 0 /\ status = "ok" /\ length % FrameBytes = 0

Reap ==
    /\ pc = "reap" /\ child = "zombie"
    /\ child' = "gone"
    /\ pc' = "done"
    /\ result' = IF Accepted THEN "music" ELSE "failed"
    /\ UNCHANGED <<status, written, pipe, length, capacity, late>>

ReapTooLate ==
    /\ pc = "reap" /\ child # "zombie" /\ late
    /\ Fail
    /\ UNCHANGED <<childVars, length, capacity, late>>

(* terminate_decoder: SIGKILL, then a wait that only a death ends.         *)
Kill ==
    /\ pc = "kill"
    /\ pc' = "wait"
    /\ IF child = "zombie" THEN UNCHANGED <<child, status>> ELSE child' = "zombie" /\ status' = "bad"
    /\ UNCHANGED <<written, pipe, length, capacity, late, result>>

Wait ==
    /\ pc = "wait" /\ child = "zombie"
    /\ child' = "gone" /\ pc' = "done"
    /\ UNCHANGED <<status, written, pipe, length, capacity, late, result>>

Parent ==
    \/ Open \/ Grow \/ EndOfOutput \/ ReadFails \/ Reap \/ ReapTooLate \/ Kill \/ Wait
    \/ \E n \in 1..PipeBytes : ReadSome(n)

Deadline ==
    /\ pc \in {"read", "reap"} /\ ~late
    /\ late' = TRUE
    /\ UNCHANGED <<pc, childVars, length, capacity, result>>

DecodeInit ==
    /\ pc = "open" /\ child = "none" /\ status = "none"
    /\ written = 0 /\ pipe = 0
    /\ length = 0 /\ capacity = StartBytes
    /\ late = FALSE /\ result = "none"

DecodeNext == Parent \/ Child \/ Deadline

(* The parent runs and time passes; nothing is assumed of the child.       *)
DecodeSpec == DecodeInit /\ [][DecodeNext]_decodeVars /\ WF_decodeVars(Parent) /\ WF_decodeVars(Deadline)

-----------------------------------------------------------------------------
(* Properties.                                                             *)

DecodeTypeOK ==
    /\ pc \in {"open", "read", "reap", "kill", "wait", "done"}
    /\ child \in {"none", "running", "closed", "zombie", "gone"}
    /\ status \in {"none", "ok", "bad"}
    /\ written \in Nat /\ pipe \in 0..PipeBytes
    /\ length \in Nat /\ capacity \in 1..MaxBytes
    /\ late \in BOOLEAN /\ result \in {"none", "music", "failed"}

(* Music is only ever the whole output of a child that succeeded: not what *)
(* had arrived at the deadline, nor what a crash left in the pipe.         *)
MusicIsWhole ==
    result = "music" =>
        /\ status = "ok" /\ pipe = 0
        /\ length = written /\ length <= MaxBytes
        /\ length % FrameBytes = 0

(* When the decode returns there is no child left, running or unwaited     *)
(* for, whichever way it went.                                             *)
NoChildIsLeft == pc = "done" => child \in {"none", "gone"}

(* The decode returns, also when the child hangs before or after it has    *)
(* closed its output.                                                      *)
DecodeReturns == <>(pc = "done")
=============================================================================
