----------------------------- MODULE SbusService -----------------------------
(***************************************************************************)
(* The receiver of the remote control (sbus_uart_hw.c, sbus_service.c).     *)
(* The transmitter sends frames of FrameLength bytes with a pause between   *)
(* them; bytes get lost.  The UART interrupt drains the FIFO into the frame *)
(* buffer and drops a partial frame when the line is idle.  The remote task *)
(* looks every few milliseconds whether the last frame is too old and takes *)
(* a snapshot; the interrupt may come between any two of its steps, and so  *)
(* may the system tick.                                                     *)
(*                                                                         *)
(* Times are uint32_t milliseconds in the code, numbers modulo Wrap here.   *)
(* X_Bug before X is X with a plausible mistake, used by nothing.           *)
(***************************************************************************)
EXTENDS Integers, Sequences

CONSTANTS
    FrameLength,    \* 25 in the code
    Payload,        \* the values of the bytes between header and end marker
    Wrap,           \* 2^32
    Timeout,        \* config->sbus_failsafe_timeout_ms
    Period,         \* of the remote task
    MaxLag,         \* how long a step of it may take, preemption included
    ErrorLimit      \* ECU_SBUS_DECODE_ERROR_LIMIT; the count is capped there

ASSUME LengthAssumption == FrameLength \in Nat /\ FrameLength >= 3
ASSUME TimeAssumption ==
    /\ {Wrap, Timeout, Period, MaxLag} \subseteq Nat \ {0}
    /\ Timeout + MaxLag + Period < Wrap
ASSUME ErrorAssumption == ErrorLimit \in Nat \ {0}

Header == 15    \* 0x0F
End == 0

VARIABLES
    now,        \* the tick count
    line,       \* the frame on the line: number, bytes sent, none lost, idle
    fifo,       \* bytes the interrupt has not read yet
    service,    \* sbus_service_t
    silence,    \* ms since the last frame was accepted, capped
    task,       \* the remote task: its step, its now_ms, ms since it started
    sample      \* the snapshot it took last, and how old it was

vars == <<now, line, fifo, service, silence, task, sample>>

Longest == Wrap + Timeout     \* the cap of silence: long enough to see a wrap
TooOld == Timeout + MaxLag    \* the cap of the age of a sample

Init ==
    /\ now = 0 /\ fifo = <<>> /\ silence = 0
    /\ line = [number |-> 0, sent |-> 0, clean |-> TRUE, idle |-> FALSE]
    /\ service = [buffer |-> <<>>, valid |-> FALSE, connected |-> FALSE,
                  failsafe |-> FALSE, of |-> {}, last |-> 0, errors |-> 0]
    /\ task = [step |-> "idle", now |-> 0, since |-> 0]
    /\ sample = [valid |-> FALSE, connected |-> FALSE, failsafe |-> FALSE,
                 of |-> {}, age |-> 0]

-----------------------------------------------------------------------------
(* The transmitter and the UART.                                           *)
LegalByte(v) ==
    CASE line.sent = 0 -> v = Header
      [] line.sent = FrameLength - 1 -> v = End
      [] OTHER -> v \in Payload

Byte(v, arrives) ==
    /\ line.sent < FrameLength /\ LegalByte(v)
    /\ fifo' = IF arrives THEN Append(fifo, [of |-> line.number, value |-> v]) ELSE fifo
    /\ line' = [line EXCEPT !.sent = @ + 1, !.clean = @ /\ arrives]
    /\ UNCHANGED <<now, service, silence, task, sample>>

LineIdle ==
    /\ line.sent = FrameLength /\ ~line.idle
    /\ line' = [line EXCEPT !.idle = TRUE]
    /\ UNCHANGED <<now, fifo, service, silence, task, sample>>

-----------------------------------------------------------------------------
(* The interrupt.                                                          *)
CountError(svc) ==
    [svc EXCEPT !.errors = IF @ < ErrorLimit THEN @ + 1 ELSE @]

Failsafe(frame) == (frame[FrameLength - 1].value \div 8) % 2 = 1

Decode(svc, frame) ==
    IF frame[FrameLength].value # End THEN CountError(svc)
    ELSE [svc EXCEPT !.valid = TRUE, !.connected = ~Failsafe(frame),
                     !.failsafe = Failsafe(frame), !.last = now,
                     !.of = {frame[i].of : i \in 1..FrameLength}]

(* sbus_service_feed_byte_from_isr                                         *)
FeedByte(svc, b) ==
    LET buffer == Append(svc.buffer, b)
    IN  IF svc.buffer = <<>> /\ b.value # Header THEN svc
        ELSE IF Len(buffer) < FrameLength THEN [svc EXCEPT !.buffer = buffer]
        ELSE [Decode(svc, buffer) EXCEPT !.buffer = <<>>]

(* sbus_service_note_rx_idle_from_isr                                      *)
NoteIdle_Bug(svc) == svc
NoteIdle(svc) ==
    IF svc.buffer = <<>> THEN svc
    ELSE [CountError(svc) EXCEPT !.buffer = <<>>]

Drain(svc) ==
    LET fed[n \in 0..Len(fifo)] ==
            IF n = 0 THEN svc ELSE FeedByte(fed[n - 1], fifo[n])
    IN  fed[Len(fifo)]

Serve_Bug(svc) == IF line.idle THEN Drain(NoteIdle(svc)) ELSE Drain(svc)
Serve(svc) == IF line.idle THEN NoteIdle(Drain(svc)) ELSE Drain(svc)

FrameAccepted == Drain([service EXCEPT !.valid = FALSE]).valid

Isr ==
    /\ fifo # <<>> \/ line.idle
    /\ service' = Serve(service)
    /\ silence' = IF FrameAccepted THEN 0 ELSE silence
    /\ fifo' = <<>>
    /\ line' = IF line.idle
               THEN [number |-> 1 - line.number, sent |-> 0, clean |-> TRUE,
                     idle |-> FALSE]
               ELSE line
    /\ UNCHANGED <<now, task, sample>>

-----------------------------------------------------------------------------
(* The remote task: run_periodic_task notes the time, then sbus_service_poll*)
(* and sbus_service_get_snapshot follow.                                    *)
RemoteStart ==
    /\ task.step = "idle"
    /\ task' = [step |-> "poll", now |-> now, since |-> 0]
    /\ UNCHANGED <<now, line, fifo, service, silence, sample>>

Elapsed_Bug == (task.now - service.last) % Wrap > Timeout
Elapsed == (task.now - service.last) % Wrap >= Timeout

PollCheck ==
    /\ task.step = "poll"
    /\ task' = [task EXCEPT !.step =
                  IF service.valid /\ Elapsed THEN "expire" ELSE "snapshot"]
    /\ UNCHANGED <<now, line, fifo, service, silence, sample>>

PollExpire ==
    /\ task.step = "expire"
    /\ service' = [service EXCEPT !.connected = FALSE]
    /\ task' = [task EXCEPT !.step = "snapshot"]
    /\ UNCHANGED <<now, line, fifo, silence, sample>>

(* In a critical section.                                                  *)
GetSnapshot ==
    /\ task.step = "snapshot"
    /\ sample' = [valid |-> service.valid, connected |-> service.connected,
                  failsafe |-> service.failsafe, of |-> service.of,
                  age |-> IF silence < TooOld THEN silence ELSE TooOld]
    /\ task' = [task EXCEPT !.step = "idle"]
    /\ UNCHANGED <<now, line, fifo, service, silence>>

-----------------------------------------------------------------------------
(* Time passes; the remote task starts every Period and is done MaxLag later*)
Tick ==
    /\ task.since < IF task.step = "idle" THEN Period ELSE MaxLag
    /\ now' = (now + 1) % Wrap
    /\ silence' = IF silence < Longest THEN silence + 1 ELSE silence
    /\ task' = [task EXCEPT !.since = @ + 1]
    /\ UNCHANGED <<line, fifo, service, sample>>

Next ==
    \/ \E v \in {Header, End} \cup Payload, arrives \in BOOLEAN : Byte(v, arrives)
    \/ LineIdle \/ Isr \/ Tick
    \/ RemoteStart \/ PollCheck \/ PollExpire \/ GetSnapshot

Spec == Init /\ [][Next]_vars

-----------------------------------------------------------------------------
(* The manager never steers by a link that has been silent for the timeout  *)
(* and the time the task itself took, not even after the clock has wrapped. *)
SilenceDetected == sample.connected => sample.age < TooOld

(* The channels of a sample all come from one frame, whatever bytes got     *)
(* lost and whatever byte of a frame looks like a header or an end.         *)
SampleIsOneFrame == \A f, g \in sample.of : f = g

(* A lost byte costs the frame it belongs to and no other: a frame that     *)
(* came in whole is accepted, and an error is only counted against a frame  *)
(* that lost a byte.                                                       *)
LossConfined ==
    [][/\ Isr /\ line.idle /\ line.clean =>
              service'.of = {line.number} /\ service'.buffer = <<>>
       /\ service'.errors # service.errors => ~line.clean]_vars

(* The link is only given up for silence: a frame that arrived within the   *)
(* timeout keeps it.                                                        *)
NoFalseTimeout ==
    sample.valid /\ ~sample.connected /\ ~sample.failsafe => sample.age >= Timeout
=============================================================================
