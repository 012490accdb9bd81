-------------------------- MODULE CollectdUdsProofs --------------------------
(***************************************************************************)
(* Theorems about CollectdUds, for every buffer that holds a line and      *)
(* every accept queue.                                                     *)
(***************************************************************************)
EXTENDS CollectdUds, TLAPS

\* Between two sends that failed there is always one that went through: after
\* a reconnect the stream is open and holds at most the line being written.
LossInv ==
  /\ TypeOK
  /\ pc = "write" => left \in 1..2
  /\ lost \in 0..1
  /\ lost = 1 => /\ peer # "closed"
                 /\ \/ pc = "idle" /\ Len(buf) = 0
                    \/ pc = "write" /\ Len(buf) <= 2 - left

\* A head in the buffer, or just read, is followed by its tail, unless it is
\* the last piece written and its line is still being written or was torn.
Torn == pc = "reconnect" \/ (pc = "write" /\ left = 1)

Frame ==
  /\ ~ corrupt
  /\ \A i \in 1 .. Len(buf) - 1 : buf[i] = "head" => buf[i + 1] = "tail"
  /\ Len(buf) > 0 /\ half => buf[1] = "tail"
  /\ Len(buf) > 0 /\ buf[Len(buf)] = "head" => Torn
  /\ Len(buf) = 0 /\ half => Torn

FrameInv ==
  /\ TypeOK
  /\ pc = "write" => left \in 1..2
  /\ ~ stale => Frame

-----------------------------------------------------------------------------

\* An empty buffer is a buffer of pieces.
LEMMA EmptyBuffer ==
  /\ << >> \in Seq({"head", "tail"})
  /\ Len(<< >>) = 0
PROOF
  OBVIOUS

\* Initially both invariants hold.
LEMMA InitInv == Init => LossInv /\ FrameInv
PROOF
<1> SUFFICES ASSUME Init PROVE LossInv /\ FrameInv
  OBVIOUS
<1>1. /\ buf \in Seq({"head", "tail"}) /\ Len(buf) = 0
      /\ pc = "idle" /\ left = 0 /\ peer = "queued" /\ collectd = "up"
      /\ queued = 0 /\ half = FALSE /\ corrupt = FALSE
      /\ stale = FALSE /\ lost = 0
  BY EmptyBuffer, Zenon DEF Init
<1>2. half \in BOOLEAN /\ corrupt \in BOOLEAN /\ stale \in BOOLEAN
  BY <1>1, Zenon
<1>3. TypeOK
  BY <1>1, <1>2, CapacityAssumption, BacklogAssumption DEF TypeOK
<1> QED
  BY <1>1, <1>3 DEF LossInv, FrameInv, Frame, Torn

\* Every state is well typed and no two sends fail in a row.
LEMMA LossInvStep == LossInv /\ [Next]_vars => LossInv'
PROOF
<1> SUFFICES ASSUME LossInv, [Next]_vars PROVE LossInv'
  OBVIOUS
<1> USE CapacityAssumption, BacklogAssumption
    DEF LossInv, TypeOK, exporter, stream, server, history, QueueLength
<1>1. CASE Send
  BY <1>1 DEF Send, FormatLine
<1>2. CASE Write
  <2>1. /\ buf' \in Seq({"head", "tail"})
        /\ Len(buf') = Len(buf) + 1
    BY <1>2 DEF Write
  <2> QED
    BY <1>2, <2>1 DEF Write
<1>3. CASE WriteTimeout \/ WriteBroken
  BY <1>3 DEF WriteTimeout, WriteBroken, WriteFailed
<1>4. CASE ReconnectOk
  <2>1. /\ buf' \in Seq({"head", "tail"}) /\ Len(buf') = 0
        /\ pc' = "idle" /\ left' = left /\ peer' = "queued" /\ collectd' = collectd
        /\ queued' = QueueLength /\ QueueLength < Backlog
        /\ half' = FALSE /\ corrupt' = FALSE /\ stale' = FALSE
        /\ pc = "reconnect" /\ lost' = IF lost < 2 THEN lost + 1 ELSE 2
    BY <1>4, EmptyBuffer, Zenon DEF ReconnectOk, ReplaceStream
  <2>2. half' \in BOOLEAN /\ corrupt' \in BOOLEAN /\ stale' \in BOOLEAN
    BY <2>1, Zenon DEF TypeOK
  <2> QED
    BY <2>1, <2>2
<1>5. CASE ReconnectRefused
  BY <1>5 DEF ReconnectRefused
<1>6. CASE Accept
  BY <1>6 DEF Accept
<1>7. CASE Read
  <2>1. /\ buf' \in Seq({"head", "tail"})
        /\ Len(buf') = Len(buf) - 1
    BY <1>7 DEF Read
  <2> QED
    BY <1>7, <2>1 DEF Read
<1>8. CASE Stop \/ Start
  BY <1>8 DEF Stop, Start
<1>10. CASE Exit
  <2>1. /\ buf' \in Seq({"head", "tail"}) /\ Len(buf') = 0
        /\ pc' = pc /\ left' = left /\ peer' = "closed" /\ collectd' = "down"
        /\ queued' = 0 /\ half' = FALSE /\ corrupt' = corrupt
        /\ stale' = stale /\ lost' = 0
    BY <1>10, EmptyBuffer, Zenon DEF Exit, exporter
  <2>2. half' \in BOOLEAN /\ corrupt' \in BOOLEAN /\ stale' \in BOOLEAN
    BY <2>1, Zenon DEF TypeOK
  <2> QED
    BY <2>1, <2>2
<1>9. CASE UNCHANGED vars
  BY <1>9 DEF vars
<1> QED
  BY <1>1, <1>2, <1>3, <1>4, <1>5, <1>6, <1>7, <1>8, <1>9, <1>10 DEF Next, FlushLine, Collectd

\* For every capacity and queue, the exporter's state is well typed.
THEOREM TypeCorrect == Spec => []TypeOK
PROOF
<1>1. Init => LossInv
  BY InitInv
<1>2. LossInv => TypeOK
  BY DEF LossInv
<1> QED
  BY <1>1, <1>2, LossInvStep, PTL DEF Spec

\* While collectd stays as it is, a send that failed and reconnected is never
\* followed by another one that fails (flush_line's reconnect on any error).
THEOREM LosesOnePointAtATimeAlways == Spec => []LosesOnePointAtATime
PROOF
<1>1. Init => LossInv
  BY InitInv
<1>2. LossInv => LosesOnePointAtATime
  BY DEF LossInv, LosesOnePointAtATime
<1> QED
  BY <1>1, <1>2, LossInvStep, PTL DEF Spec

-----------------------------------------------------------------------------

\* Every step keeps the frames of a stream that is not stale whole.
LEMMA FrameInvStep == FrameInv /\ [Next]_vars => FrameInv'
PROOF
<1> SUFFICES ASSUME FrameInv, [Next]_vars PROVE FrameInv'
  OBVIOUS
<1> USE CapacityAssumption, BacklogAssumption
    DEF FrameInv, Frame, Torn, TypeOK, exporter, stream, server, history, QueueLength
<1>1. CASE Send
  BY <1>1 DEF Send, FormatLine
<1>2. CASE Write
  <2> DEFINE piece == IF left = 2 THEN "head" ELSE "tail"
  <2>1. /\ buf' \in Seq({"head", "tail"})
        /\ Len(buf') = Len(buf) + 1
        /\ buf'[Len(buf')] = piece
        /\ \A i \in 1 .. Len(buf) : buf'[i] = buf[i]
    BY <1>2 DEF Write
  <2>2. TypeOK' /\ (pc' = "write" => left' \in 1..2)
    BY <1>2, <2>1 DEF Write
  <2>3. CASE stale
    BY <1>2, <2>2, <2>3 DEF Write
  <2>4. CASE ~ stale
    <3>0. Frame
      BY <2>4, Zenon
    <3>1. \A i \in 1 .. Len(buf') - 1 : buf'[i] = "head" => buf'[i + 1] = "tail"
      BY <1>2, <2>1, <3>0 DEF Write
    <3>2. half' => buf'[1] = "tail"
      BY <1>2, <2>1, <3>0 DEF Write
    <3> QED
      BY <1>2, <2>1, <2>2, <3>0, <3>1, <3>2 DEF Write
  <2> QED
    BY <2>3, <2>4
<1>3. CASE WriteTimeout \/ WriteBroken
  BY <1>3 DEF WriteTimeout, WriteBroken, WriteFailed
<1>4. CASE ReconnectOk
  <2>1. /\ buf' \in Seq({"head", "tail"}) /\ Len(buf') = 0
        /\ pc' = "idle" /\ left' = left /\ peer' = "queued" /\ collectd' = collectd
        /\ queued' = QueueLength /\ QueueLength < Backlog
        /\ half' = FALSE /\ corrupt' = FALSE /\ stale' = FALSE
        /\ pc = "reconnect" /\ lost' = IF lost < 2 THEN lost + 1 ELSE 2
    BY <1>4, EmptyBuffer, Zenon DEF ReconnectOk, ReplaceStream
  <2>2. half' \in BOOLEAN /\ corrupt' \in BOOLEAN /\ stale' \in BOOLEAN
    BY <2>1, Zenon DEF TypeOK
  <2> QED
    BY <2>1, <2>2
<1>5. CASE ReconnectRefused
  BY <1>5 DEF ReconnectRefused
<1>6. CASE Accept
  BY <1>6 DEF Accept
<1>7. CASE Read
  <2>1. /\ buf' \in Seq({"head", "tail"})
        /\ Len(buf') = Len(buf) - 1
        /\ \A i \in 1 .. Len(buf') : buf'[i] = buf[i + 1]
        /\ Head(buf) = buf[1] /\ Len(buf) > 0
    BY <1>7 DEF Read
  <2>2. TypeOK' /\ (pc' = "write" => left' \in 1..2)
    BY <1>7, <2>1 DEF Read
  <2>3. CASE stale
    BY <1>7, <2>2, <2>3 DEF Read
  <2>4. CASE ~ stale
    <3>0. Frame
      BY <2>4, Zenon
    <3>1. \A i \in 1 .. Len(buf') - 1 : buf'[i] = "head" => buf'[i + 1] = "tail"
      BY <1>7, <2>1, <3>0 DEF Read
    <3>2. Len(buf') > 0 /\ half' => buf'[1] = "tail"
      BY <1>7, <2>1, <3>0 DEF Read
    <3>3. Len(buf') > 0 /\ buf'[Len(buf')] = "head" => Torn
      BY <1>7, <2>1, <3>0 DEF Read
    <3>4. Len(buf') = 0 /\ half' => Torn
      BY <1>7, <2>1, <3>0 DEF Read
    <3>5. ~ corrupt'
      BY <1>7, <2>1, <3>0 DEF Read
    <3> QED
      BY <1>7, <2>2, <3>0, <3>1, <3>2, <3>3, <3>4, <3>5 DEF Read
  <2> QED
    BY <2>3, <2>4
<1>8. CASE Stop \/ Start
  BY <1>8 DEF Stop, Start
<1>10. CASE Exit
  <2>1. /\ buf' \in Seq({"head", "tail"}) /\ Len(buf') = 0
        /\ pc' = pc /\ left' = left /\ peer' = "closed" /\ collectd' = "down"
        /\ queued' = 0 /\ half' = FALSE /\ corrupt' = corrupt
        /\ stale' = stale /\ lost' = 0
    BY <1>10, EmptyBuffer, Zenon DEF Exit, exporter
  <2>2. half' \in BOOLEAN /\ corrupt' \in BOOLEAN /\ stale' \in BOOLEAN
    BY <2>1, Zenon DEF TypeOK
  <2> QED
    BY <2>1, <2>2
<1>9. CASE UNCHANGED vars
  BY <1>9 DEF vars
<1> QED
  BY <1>1, <1>2, <1>3, <1>4, <1>5, <1>6, <1>7, <1>8, <1>9, <1>10 DEF Next, FlushLine, Collectd

\* Whatever collectd does, only a stream kept by a refused reconnect hands it half
\* of one point joined to the next (flush_line).
THEOREM CorruptsOnlyAStaleStreamAlways == Spec => []CorruptsOnlyAStaleStream
PROOF
<1>1. Init => FrameInv
  BY InitInv
<1>2. FrameInv => CorruptsOnlyAStaleStream
  BY DEF FrameInv, Frame, CorruptsOnlyAStaleStream
<1> QED
  BY <1>1, <1>2, FrameInvStep, PTL DEF Spec

=============================================================================
