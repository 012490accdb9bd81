----------------------------- MODULE CollectdUds -----------------------------
(***************************************************************************)
(* The Unix-socket destination of CollectdExporter (src/exporter/          *)
(* collectd.rs) against a collectd that may stall, stop and come back.     *)
(*                                                                         *)
(* A PUTVAL line is its head followed by the tail that carries the         *)
(* newline, so a partial write is a head alone and a corrupt line is a     *)
(* head read right after a head.  A stream the probe has replaced cannot   *)
(* be written any more; all that is kept of it is the place it holds in    *)
(* collectd's accept queue.                                                *)
(***************************************************************************)
EXTENDS Integers, Sequences

CONSTANTS Capacity,   \* pieces of a line the socket buffer holds
          Backlog     \* connections the listening socket queues

ASSUME CapacityAssumption == Capacity \in Nat /\ Capacity >= 2
ASSUME BacklogAssumption == Backlog \in Nat \ {0}

VARIABLES
  \* CollectdExporter
  pc,        \* "idle" between sends, "write" or "reconnect" inside flush_line
  left,      \* pieces of the line in the buffer not written yet
  \* the stream and its peer
  buf,       \* the pieces written and not read yet
  peer,      \* the other end of the stream: "queued", "accepted" or "closed"
  \* collectd
  collectd,  \* "up"; "stopping": listener closed, readers running; "down"
  queued,    \* replaced streams still in the accept queue
  half,      \* collectd has read a head whose tail has not come
  \* history
  corrupt,   \* the reader of this stream was handed a line made of two
  stale,     \* the stream was kept because its reconnect was refused
  lost       \* sends in a row that failed and reconnected while collectd stayed as it is

exporter == <<pc, left>>
stream == <<buf, peer>>
server == <<collectd, queued, half>>
history == <<corrupt, stale, lost>>
vars == <<exporter, stream, server, history>>

TypeOK ==
  /\ pc \in {"idle", "write", "reconnect"}
  /\ left \in 0..2
  /\ buf \in Seq({"head", "tail"}) /\ Len(buf) <= Capacity
  /\ peer \in {"queued", "accepted", "closed"}
  /\ collectd \in {"up", "stopping", "down"}
  /\ queued \in 0..Backlog
  /\ half \in BOOLEAN
  /\ corrupt \in BOOLEAN
  /\ stale \in BOOLEAN
  /\ lost \in 0..2

-----------------------------------------------------------------------------

\* new_uds: the probe starts only with a connected stream.
Init ==
  /\ pc = "idle" /\ left = 0
  /\ buf = << >> /\ peer = "queued"
  /\ collectd = "up" /\ queued = 0 /\ half = FALSE
  /\ corrupt = FALSE /\ stale = FALSE /\ lost = 0

\* Mutant: the next line is rendered after what is left of the last one.
FormatLine_NotCleared == left + 2

\* format_line: the buffer is cleared and holds one line, both its pieces.
FormatLine == 2

\* send or send_failure: one line is rendered and handed to write_all.
Send ==
  /\ pc = "idle"
  /\ pc' = "write"
  /\ left' = FormatLine
  /\ UNCHANGED <<stream, server, history>>

\* write_all makes progress; after the tail it returns Ok.
Write ==
  /\ pc = "write"
  /\ peer # "closed"
  /\ Len(buf) < Capacity
  /\ buf' = Append(buf, IF left = 2 THEN "head" ELSE "tail")
  /\ left' = left - 1
  /\ pc' = IF left = 1 THEN "idle" ELSE "write"
  /\ lost' = IF left = 1 THEN 0 ELSE lost
  /\ UNCHANGED <<peer, server, corrupt, stale>>

\* Mutant: only a broken pipe makes the exporter reconnect.
WriteFailed_OnlyBroken(error) ==
  /\ pc' = IF error = "BrokenPipe" THEN "reconnect" ELSE "idle"
  /\ UNCHANGED left

\* write_all returned an error: whatever it was, flush_line reconnects.
WriteFailed(error) ==
  /\ pc' = "reconnect"
  /\ UNCHANGED left

\* Mutant: the stream has no write timeout.
WriteTimeout_Never == FALSE

\* The buffer stayed full for UDS_WRITE_TIMEOUT.
WriteTimeout ==
  /\ pc = "write"
  /\ peer # "closed"
  /\ Len(buf) = Capacity
  /\ WriteFailed("WouldBlock")
  /\ UNCHANGED <<stream, server, history>>

\* The peer is gone.
WriteBroken ==
  /\ pc = "write"
  /\ peer = "closed"
  /\ WriteFailed("BrokenPipe")
  /\ UNCHANGED <<stream, server, history>>

QueueLength == queued + (IF peer = "queued" THEN 1 ELSE 0)

\* Mutant: the fresh connection is opened and dropped, the stream stays.
ReplaceStream_KeepsOld ==
  UNCHANGED <<buf, peer, queued, half, corrupt>>

\* *stream = fresh: the old stream is dropped.
ReplaceStream ==
  /\ buf' = << >>
  /\ peer' = "queued"
  /\ queued' = QueueLength
  /\ half' = FALSE
  /\ corrupt' = FALSE

\* connect_uds succeeds; the caller still gets the error of the write.  With a
\* full accept queue connect blocks: there is no timeout on it.
ReconnectOk ==
  /\ pc = "reconnect"
  /\ collectd = "up"
  /\ QueueLength < Backlog
  /\ ReplaceStream
  /\ pc' = "idle"
  /\ stale' = FALSE
  /\ lost' = IF lost < 2 THEN lost + 1 ELSE 2
  /\ UNCHANGED <<left, collectd>>

\* Nobody listens: the stale stream stays in place for the next send.
ReconnectRefused ==
  /\ pc = "reconnect"
  /\ collectd # "up"
  /\ pc' = "idle"
  /\ stale' = TRUE
  /\ UNCHANGED <<left, stream, server, corrupt, lost>>

-----------------------------------------------------------------------------
(* collectd and its UnixSock plugin (external): a queue of connections and  *)
(* a reader per accepted one, which may stall for as long as it likes.      *)

\* Connections are accepted in the order they came: the replaced ones first.
Accept ==
  /\ collectd = "up"
  /\ QueueLength > 0
  /\ IF queued > 0 THEN queued' = queued - 1 /\ UNCHANGED peer
                   ELSE peer' = "accepted" /\ UNCHANGED queued
  /\ UNCHANGED <<exporter, buf, collectd, half, history>>

Read ==
  /\ peer = "accepted"
  /\ buf # << >>
  /\ buf' = Tail(buf)
  /\ half' = (Head(buf) = "head")
  /\ corrupt' = (corrupt \/ (half /\ Head(buf) = "head"))
  /\ UNCHANGED <<exporter, peer, collectd, queued, stale, lost>>

\* The listener is closed first, which resets what it had queued; connections
\* already accepted live until the process ends.
Stop ==
  /\ collectd = "up"
  /\ collectd' = "stopping"
  /\ peer' = IF peer = "queued" THEN "closed" ELSE peer
  /\ queued' = 0
  /\ lost' = 0
  /\ UNCHANGED <<exporter, buf, half, corrupt, stale>>

\* The process ends, after Stop or abruptly.
Exit ==
  /\ collectd # "down"
  /\ collectd' = "down"
  /\ peer' = "closed"
  /\ buf' = << >>
  /\ queued' = 0
  /\ half' = FALSE
  /\ lost' = 0
  /\ UNCHANGED <<exporter, corrupt, stale>>

Start ==
  /\ collectd = "down"
  /\ collectd' = "up"
  /\ lost' = 0
  /\ UNCHANGED <<exporter, stream, queued, half, corrupt, stale>>

-----------------------------------------------------------------------------

FlushLine == Write \/ WriteTimeout \/ WriteBroken \/ ReconnectOk \/ ReconnectRefused
Collectd == Accept \/ Read \/ Stop \/ Exit \/ Start

Next == Send \/ FlushLine \/ Collectd

\* The probe runs and its write timeout fires; collectd promises nothing.
Spec == Init /\ [][Next]_vars /\ WF_vars(Send) /\ WF_vars(FlushLine)

\* The same with a collectd whose main thread runs: it accepts what is queued,
\* finishes stopping and is restarted.  Its readers may stall for ever.
AcceptingSpec ==
  Spec /\ WF_vars(Accept) /\ WF_vars(Start) /\ WF_vars(collectd = "stopping" /\ Exit)

-----------------------------------------------------------------------------

\* collectd.rs:115-116 says "Reconnecting after any write error discards the
\* torn frame".  Were it so, collectd would never parse a line made of two.
NoCorruptLine == ~ corrupt

\* A torn line is joined to the next only on a stream that was kept because its
\* reconnect was refused: any other stream is replaced before it is written
\* again (flush_line).
CorruptsOnlyAStaleStream == corrupt => stale

\* While collectd stays as it is, two sends in a row never fail: the first
\* failure leaves a fresh stream with room for a whole line.  This is what
\* recovers a restarted collectd and a stalled reader at the price of a point.
LosesOnePointAtATime == lost <= 1

\* Every send comes back: a collectd that stops reading delays the probe by
\* the write timeout and does not stop it measuring (connect_uds, README.md:365).
SendReturns == (pc = "write") ~> (pc = "idle")

\* Once collectd stays up and its reader keeps within the write timeout, whole
\* lines reach it again and again, whatever the stream went through before
\* (the reconnect in flush_line).
DeliversAgain ==
  (<>[](collectd = "up") /\ <>[][~ WriteTimeout]_vars /\ WF_vars(Read))
    => []<><<Read /\ half /\ ~half'>>_vars

=============================================================================
