----------------------------- MODULE UploadProofs -----------------------------
(***************************************************************************)
(* Proofs about ResumableUpload, for any file, chunk size, number of       *)
(* requests and attempts.                                                  *)
(***************************************************************************)
EXTENDS ResumableUpload, TLAPS

-----------------------------------------------------------------------------
(* Types.                                                                  *)

LEMMA Members ==
  /\ "free" \in Ats /\ "sent" \in Ats /\ "meta" \in Ats
  /\ "open" \in Ats /\ "stream" \in Ats /\ "replace" \in Ats
  /\ "unlink" \in Ats /\ "drop" \in Ats /\ "enqueue" \in Ats
  /\ "release" \in Ats /\ "answered" \in Ats
  /\ 0 \in Codes /\ 200 \in Codes /\ 204 \in Codes /\ 404 \in Codes
  /\ 409 \in Codes /\ 500 \in Codes
  /\ "ready" \in ClientAts /\ "waiting" \in ClientAts /\ "head" \in ClientAts
  /\ "done" \in ClientAts /\ "failed" \in ClientAts
  /\ "none" \in Whys /\ "network" \in Whys /\ "refused" \in Whys
  BY DEF Ats, Codes, ClientAts, Whys

LEMMA UnusedIsTyped == Unused \in RequestStates
<1>1. <<>> \in Contents
  BY DEF Contents
<1> QED
  BY <1>1, Members DEF Unused, RequestStates

LEMMA Moved ==
  ASSUME NEW s \in RequestStates, NEW b \in Contents
  PROVE  [s EXCEPT !.at = "unlink", !.body = b] \in RequestStates
  BY SMT, ZenonT(60), Members DEF RequestStates

LEMMA Opened ==
  ASSUME NEW s \in RequestStates, NEW m \in Nat
  PROVE  [s EXCEPT !.at = "stream", !.got = m, !.out = m, !.live = TRUE] \in RequestStates
<1> DEFINE t == [s EXCEPT !.at = "stream", !.got = m]
<1>1. t \in RequestStates
  BY SMT, ZenonT(60), Members DEF RequestStates
<1>2. [t EXCEPT !.out = m, !.live = TRUE] \in RequestStates
  <2> HIDE DEF t
  <2> QED
    BY <1>1 DEF RequestStates
<1>3. [s EXCEPT !.at = "stream", !.got = m, !.out = m, !.live = TRUE]
        = [t EXCEPT !.out = m, !.live = TRUE]
  BY DEF RequestStates
<1> QED
  BY <1>2, <1>3

LEMMA Goes ==
  ASSUME TypeOK, NEW r \in Requests, NEW from, NEW to \in Ats, Goto(r, from, to)
  PROVE  req' \in [Requests -> RequestStates]
<1>1. req[r] \in RequestStates
  BY DEF TypeOK
<1>2. [req[r] EXCEPT !.at = to] \in RequestStates
  BY <1>1 DEF RequestStates
<1> QED
  BY <1>2 DEF TypeOK, Goto

LEMMA Answers ==
  ASSUME TypeOK, NEW r \in Requests, NEW from, NEW code \in Codes, Answer(r, from, code)
  PROVE  req' \in [Requests -> RequestStates]
<1>1. req[r] \in RequestStates
  BY DEF TypeOK
<1>2. [req[r] EXCEPT !.at = "release", !.code = code] \in RequestStates
  BY SMT, ZenonT(60), <1>1, Members DEF RequestStates
<1> QED
  BY <1>2 DEF TypeOK, Answer

LEMMA ClientRetries ==
  ASSUME TypeOK, Retry
  PROVE  c' \in ClientStates
<1>1. c \in ClientStates
  BY DEF TypeOK
<1>8. c.attempt + 1 \in Nat
  BY <1>1 DEF ClientStates
<1>b. \A a, s \in Nat : [c EXCEPT !.at = "head", !.attempt = a, !.stalls = s] \in ClientStates
  BY <1>1, Members DEF ClientStates
<1>2. [c EXCEPT !.at = "head", !.attempt = @ + 1, !.stalls = Stalls] \in ClientStates
  BY <1>8, <1>b, SizesAssumption
<1>3. [c EXCEPT !.at = "failed", !.why = "network"] \in ClientStates
  BY <1>1, Members DEF ClientStates
<1> QED
  BY <1>2, <1>3 DEF Retry

LEMMA InitType == Init => TypeOK
<1>1. [at |-> "ready", off |-> 0, attempt |-> 1, stalls |-> Stalls, why |-> "none"]
        \in ClientStates
  BY SizesAssumption, Members DEF ClientStates
<1> QED
  BY <1>1, UnusedIsTyped DEF Init, TypeOK

LEMMA TypeStep ==
  ASSUME TypeOK, LiveIsThere, [Next]_vars
  PROVE  TypeOK'
<1>1. ASSUME NEW r \in Requests, Send(r)
      PROVE  TypeOK'
  <2>0. req[r] \in RequestStates /\ c \in ClientStates
    BY DEF TypeOK
  <2>1. Least(Chunk, Length - c.off) \in Nat
    BY <1>1, <2>0, SizesAssumption DEF Send, Least, ClientStates
  <2>2. [Unused EXCEPT !.at = "sent", !.off = c.off, !.len = Least(Chunk, Length - c.off)]
          \in RequestStates
    BY SMT, ZenonT(60), <2>0, <2>1, UnusedIsTyped, Members DEF RequestStates, ClientStates
  <2>3. [c EXCEPT !.at = "waiting"] \in ClientStates
    BY <2>0, Members DEF ClientStates
  <2> QED
    BY <1>1, <2>2, <2>3 DEF Send, TypeOK
<1>2. ASSUME NEW r \in Requests, ReceiveNext(r)
      PROVE  TypeOK'
  <2>0. req[r] \in RequestStates /\ c \in ClientStates
    BY DEF TypeOK
  <2>1. req[r].got \in Nat
    BY <2>0 DEF RequestStates
  <2>2. \A s \in Nat : [c EXCEPT !.at = "ready", !.off = req[r].got, !.stalls = s] \in ClientStates
    BY <2>0, <2>1, Members DEF ClientStates
  <2>3. c.stalls \in Nat
    BY <2>0 DEF ClientStates
  <2>4. c' \in ClientStates
    BY <1>2, <2>2, <2>3, SizesAssumption DEF ReceiveNext
  <2> QED
    BY <1>2, <2>4, UnusedIsTyped DEF ReceiveNext, Receive, TypeOK
<1>3. ASSUME NEW r \in Requests, ReceiveDone(r)
      PROVE  TypeOK'
  <2>0. req[r] \in RequestStates /\ c \in ClientStates
    BY DEF TypeOK
  <2>1. req[r].got \in Nat
    BY <2>0 DEF RequestStates
  <2>2. [c EXCEPT !.at = "done", !.off = req[r].got] \in ClientStates
    BY <2>0, <2>1, Members DEF ClientStates
  <2> QED
    BY <1>3, <2>2, UnusedIsTyped DEF ReceiveDone, Receive, TypeOK
<1>4. ASSUME NEW r \in Requests, ReceiveConflict(r)
      PROVE  TypeOK'
  <2>0. c \in ClientStates
    BY DEF TypeOK
  <2>1. c.stalls # 0 => c.stalls - 1 \in Nat
    BY <2>0 DEF ClientStates
  <2>2. \A s \in Nat : [c EXCEPT !.at = "ready", !.stalls = s] \in ClientStates
    BY <2>0, Members DEF ClientStates
  <2>3. c' \in ClientStates
    BY <1>4, <2>1, <2>2, ClientRetries DEF ReceiveConflict
  <2> QED
    BY <1>4, <2>3, UnusedIsTyped DEF ReceiveConflict, Receive, TypeOK
<1>5. ASSUME NEW r \in Requests, ReceiveGone(r)
      PROVE  TypeOK'
  <2>0. c \in ClientStates
    BY DEF TypeOK
  <2>1. [c EXCEPT !.at = "failed", !.why = "refused"] \in ClientStates
    BY <2>0, Members DEF ClientStates
  <2> QED
    BY <1>5, <2>1, UnusedIsTyped DEF ReceiveGone, Receive, TypeOK
<1>6. ASSUME NEW r \in Requests, ReceiveError(r)
      PROVE  TypeOK'
  BY <1>6, ClientRetries, UnusedIsTyped DEF ReceiveError, Receive, TypeOK
<1>7. ASSUME NEW r \in Requests, LoadMeta(r)
      PROVE  TypeOK'
  BY <1>7, Goes, Answers, Members DEF LoadMeta, TypeOK
<1>8. ASSUME NEW r \in Requests, TakeLock(r)
      PROVE  TypeOK'
  <2>1. CASE lock # Free
    BY <1>8, <2>1, Answers, Members DEF TakeLock, TypeOK
  <2>2. CASE lock = Free
    BY <1>8, <2>2, Goes, Answers, Members DEF TakeLock, TypeOK
  <2> QED
    BY <2>1, <2>2
<1>9. ASSUME NEW r \in Requests, Open(r)
      PROVE  TypeOK'
  <2>0. req[r] \in RequestStates /\ c \in ClientStates
    BY DEF TypeOK
  <2>a. req[r].off \in Nat
    BY <2>0 DEF RequestStates
  <2>b. \A m \in Nat : [req[r] EXCEPT !.at = "stream", !.got = m, !.out = m, !.live = TRUE]
          \in RequestStates
    BY <2>0, Opened
  <2>1. [req[r] EXCEPT !.at = "stream", !.got = req[r].off, !.out = req[r].off, !.live = TRUE]
          \in RequestStates
    BY <2>a, <2>b
  <2>2. <<>> \in Seq(Nat)
    OBVIOUS
  <2> QED
    BY <1>9, <2>1, <2>2 DEF Open, TypeOK
<1>10. ASSUME NEW r \in Requests, Flush(r)
      PROVE  TypeOK'
  <2>0. req[r] \in RequestStates /\ c \in ClientStates
    BY DEF TypeOK
  <2>a. req[r].out + 1 \in Nat
    BY <2>0 DEF RequestStates
  <2>b. \A m \in Nat : [req[r] EXCEPT !.out = m] \in RequestStates
    BY <2>0 DEF RequestStates
  <2>1. [req[r] EXCEPT !.out = req[r].out + 1] \in RequestStates
    BY <2>a, <2>b
  <2>2. req[r].live => part \in Seq(Nat)
    BY <1>10 DEF Flush, LiveIsThere, TypeOK
  <2>3. req[r].out + 1 \in Nat
    BY <2>0 DEF RequestStates
  <2>4. part' \in Seq(Nat) \cup {NoPart}
    BY <1>10, <2>2, <2>3 DEF Flush, TypeOK
  <2> QED
    BY <1>10, <2>1, <2>4 DEF Flush, TypeOK
<1>11. ASSUME NEW r \in Requests, StreamEnd(r)
      PROVE  TypeOK'
  BY <1>11, Goes, Answers, Members DEF StreamEnd, TypeOK
<1>12. ASSUME NEW r \in Requests, Release(r)
      PROVE  TypeOK'
  BY <1>12, Goes, Answers, Members DEF Release, TypeOK
<1>13. ASSUME NEW r \in Requests, Replace(r)
      PROVE  TypeOK'
  <2>0. \A q \in Requests : req[q] \in RequestStates
    BY DEF TypeOK
  <2>1. CASE part = NoPart
    BY <1>13, <2>1, Answers, Members DEF Replace, TypeOK
  <2>2. CASE part # NoPart
    <3>1. part \in Contents
      BY <2>2 DEF TypeOK, Contents
    <3>a. \A b \in Contents : [req[r] EXCEPT !.at = "unlink", !.body = b] \in RequestStates
      BY <2>0, Moved
    <3>2. [req[r] EXCEPT !.at = "unlink", !.body = part] \in RequestStates
      BY <3>1, <3>a
    <3>3. \A q \in Requests : [req[q] EXCEPT !.live = FALSE] \in RequestStates
      BY <2>0 DEF RequestStates
    <3> QED
      BY <1>13, <2>2, <3>2, <3>3 DEF Replace, TypeOK
  <2> QED
    BY <2>1, <2>2
<1>14. ASSUME NEW r \in Requests, UnlinkMeta(r)
      PROVE  TypeOK'
  BY <1>14, Goes, Answers, Members DEF UnlinkMeta, TypeOK
<1>15. ASSUME NEW r \in Requests, DropLock(r)
      PROVE  TypeOK'
  BY <1>15, Goes, Answers, Members DEF DropLock, TypeOK
<1>16. ASSUME NEW r \in Requests, Enqueue(r)
      PROVE  TypeOK'
  <2>0. req[r] \in RequestStates /\ c \in ClientStates
    BY DEF TypeOK
  <2>1. req[r].body \in Seq(Nat)
    BY <2>0 DEF RequestStates, Contents
  <2>2. queued' \in Seq(Seq(Nat))
    BY <1>16, <2>1 DEF Enqueue, TypeOK
  <2> QED
    BY <1>16, <2>2, Answers, Members DEF Enqueue, TypeOK
<1>17. ASSUME NEW r \in Requests, Arrive(r)
      PROVE  TypeOK'
  <2>0. req[r] \in RequestStates /\ c \in ClientStates
    BY DEF TypeOK
  <2>a. req[r].got + 1 \in Nat
    BY <2>0 DEF RequestStates
  <2>b. \A m \in Nat : [req[r] EXCEPT !.got = m] \in RequestStates
    BY <2>0 DEF RequestStates
  <2>1. [req[r] EXCEPT !.got = req[r].got + 1] \in RequestStates
    BY <2>a, <2>b
  <2> QED
    BY <1>17, <2>1 DEF Arrive, TypeOK
<1>18. ASSUME NEW r \in Requests, Disconnected(r)
      PROVE  TypeOK'
  BY <1>18, Goes, Answers, Members DEF Disconnected, TypeOK
<1>19. ASSUME NEW r \in Requests, Lost(r)
      PROVE  TypeOK'
  BY <1>19, UnusedIsTyped DEF Lost, TypeOK
<1>20. CASE Exhausted
  BY <1>20, ClientRetries DEF Exhausted, TypeOK
<1>21. CASE Resync
  <2>0. c \in ClientStates
    BY DEF TypeOK
  <2>1. Size \in Nat
    BY DEF Size, TypeOK
  <2>2. \A m \in Nat : [c EXCEPT !.at = "ready", !.off = m] \in ClientStates
    BY <2>0, Members DEF ClientStates
  <2>3. c.off \in Nat
    BY <2>0 DEF ClientStates
  <2>4. c' \in ClientStates
    BY <1>21, <2>1, <2>2, <2>3 DEF Resync
  <2> QED
    BY <1>21, <2>4 DEF Resync, TypeOK
<1>22. CASE TimeOut
  <2>0. \A q \in Requests : req[q] \in RequestStates
    BY DEF TypeOK
  <2>1. \A q \in Requests : [req[q] EXCEPT !.cut = TRUE] \in RequestStates
    BY <2>0 DEF RequestStates
  <2> QED
    BY <1>22, <2>0, <2>1, ClientRetries DEF TimeOut, TypeOK
<1>23. CASE Reset
  <2>0. \A q \in Requests : req[q] \in RequestStates
    BY DEF TypeOK
  <2>1. \A q \in Requests : [req[q] EXCEPT !.cut = TRUE] \in RequestStates
    BY <2>0 DEF RequestStates
  <2>2. c \in ClientStates
    BY DEF TypeOK
  <2>3. [c EXCEPT !.at = "failed", !.why = "network"] \in ClientStates
    BY <2>2, Members DEF ClientStates
  <2> QED
    BY <1>23, <2>0, <2>1, <2>3 DEF Reset, TypeOK
<1>24. CASE Expire
  BY <1>24 DEF Expire, SweepStep, TypeOK
<1>25. CASE SweepPart
  <2>0. \A q \in Requests : req[q] \in RequestStates
    BY DEF TypeOK
  <2>1. \A q \in Requests : [req[q] EXCEPT !.live = FALSE] \in RequestStates
    BY <2>0 DEF RequestStates
  <2> QED
    BY <1>25, <2>1 DEF SweepPart, SweepStep, TypeOK
<1>26. CASE SweepMeta
  BY <1>26 DEF SweepMeta, SweepStep, TypeOK
<1>27. CASE SweepLock
  BY <1>27 DEF SweepLock, SweepStep, TypeOK
<1>28. CASE SweepOrphan
  <2>0. \A q \in Requests : req[q] \in RequestStates
    BY DEF TypeOK
  <2>1. \A q \in Requests : [req[q] EXCEPT !.live = FALSE] \in RequestStates
    BY <2>0 DEF RequestStates
  <2> QED
    BY <1>28, <2>1 DEF SweepOrphan, SweepStep, TypeOK
<1>29. CASE Crash
  BY <1>29, ClientRetries, UnusedIsTyped DEF Crash, TypeOK
<1>30. CASE UNCHANGED vars
  BY <1>30 DEF vars, TypeOK
<1> QED
  BY <1>1, <1>2, <1>3, <1>4, <1>5, <1>6, <1>7, <1>8, <1>9, <1>10, <1>11, <1>12, <1>13, <1>14, <1>15, <1>16, <1>17, <1>18, <1>19, <1>20, <1>21, <1>22, <1>23, <1>24, <1>25, <1>26, <1>27, <1>28, <1>29, <1>30 DEF Next, Client, Server

-----------------------------------------------------------------------------
(* What a step does to the requests, without their records.                *)

\* Request r is now at a, the others are where they were.
Moves(r, a) ==
  /\ req'[r].at = a
  /\ \A q \in Requests \ {r} : req'[q] = req[q]

Keeps(r) ==
  /\ req'[r].off = req[r].off
  /\ req'[r].len = req[r].len
  /\ req'[r].got = req[r].got
  /\ req'[r].out = req[r].out
  /\ req'[r].live = req[r].live
  /\ req'[r].body = req[r].body

LEMMA FieldTypes ==
  ASSUME TypeOK, NEW r \in Requests
  PROVE  /\ req[r].off \in Nat /\ req[r].len \in Nat
         /\ req[r].got \in Nat /\ req[r].out \in Nat
         /\ req[r].live \in BOOLEAN
<1>1. req[r] \in RequestStates
  BY DEF TypeOK
<1> QED
  BY <1>1 DEF RequestStates

LEMMA GotoMoves ==
  ASSUME TypeOK, NEW r \in Requests, NEW from, NEW to, Goto(r, from, to)
  PROVE  req[r].at = from /\ Moves(r, to) /\ Keeps(r)
<1>1. req[r] \in RequestStates
  BY DEF TypeOK
<1>2. req'[r] = [req[r] EXCEPT !.at = to] /\ \A q \in Requests \ {r} : req'[q] = req[q]
  BY DEF Goto, TypeOK
<1> QED
  BY <1>1, <1>2 DEF Goto, Moves, Keeps, RequestStates

LEMMA AnswerMoves ==
  ASSUME TypeOK, NEW r \in Requests, NEW from, NEW code, Answer(r, from, code)
  PROVE  req[r].at = from /\ Moves(r, "release") /\ Keeps(r)
<1>1. req[r] \in RequestStates
  BY DEF TypeOK
<1> DEFINE t == [req[r] EXCEPT !.at = "release"]
<1>2. req'[r] = [t EXCEPT !.code = code] /\ \A q \in Requests \ {r} : req'[q] = req[q]
  <2>1. [req[r] EXCEPT !.at = "release", !.code = code] = [t EXCEPT !.code = code]
    BY <1>1 DEF RequestStates
  <2> QED
    BY <2>1 DEF Answer, TypeOK
<1>3. /\ t.at = "release" /\ t.off = req[r].off /\ t.len = req[r].len
      /\ t.got = req[r].got /\ t.out = req[r].out
      /\ t.live = req[r].live /\ t.body = req[r].body
      /\ t \in RequestStates
  BY <1>1, Members DEF RequestStates
<1> QED
  <2> HIDE DEF t
  <2> QED
    BY <1>2, <1>3 DEF Answer, Moves, Keeps, RequestStates

LEMMA FreeMoves ==
  ASSUME TypeOK, NEW r \in Requests, req' = [req EXCEPT ![r] = Unused]
  PROVE  Moves(r, "free") /\ req'[r].off + req'[r].len = 0 /\ req'[r].len = 0
<1>1. req'[r] = Unused /\ \A q \in Requests \ {r} : req'[q] = req[q]
  BY DEF TypeOK
<1>2. Unused.at = "free" /\ Unused.off + Unused.len = 0 /\ Unused.len = 0
  BY DEF Unused
<1> QED
  BY <1>1, <1>2 DEF Moves

-----------------------------------------------------------------------------
(* The part.                                                               *)

LEMMA PrefixFacts ==
  ASSUME NEW n \in Nat
  PROVE  /\ Prefix(n) \in Seq(Nat)
         /\ Len(Prefix(n)) = n
         /\ Append(Prefix(n), n + 1) = Prefix(n + 1)
         /\ Prefix(0) = <<>>
  BY DEF Prefix

\* While the upload is young: who works on the part, and what it holds.
Core == LockCovers /\ LostForGood /\ PartIsPrefix

LEMMA InitCore == Init => ChunksFit /\ LiveIsThere /\ Core /\ Assembled
<1>1. Unused.at = "free" /\ Unused.off + Unused.len = 0
  BY DEF Unused
<1>2. <<>> = Prefix(0) /\ Len(<<>>) = 0
  BY PrefixFacts
<1> QED
  BY <1>1, <1>2, SizesAssumption
     DEF Init, ChunksFit, LiveIsThere, Core, LockCovers, LostForGood, PartIsPrefix, Prepares, Assembled

-----------------------------------------------------------------------------
(* The invariant, step by step.                                            *)

Young == ChunksFit /\ LiveIsThere /\ (sweep = "young" => Core) /\ Assembled

Outside(q) ==
  /\ req'[q].at \in {"free", "sent", "release", "answered"}
  /\ req'[q].off + req'[q].len <= Length

\* Requests are as they were, or no longer work on the part.
Quiet ==
  /\ part' = part
  /\ meta' = meta
  /\ lock' = lock
  /\ queued' = queued
  /\ sweep' = sweep
  /\ \A q \in Requests : Outside(q) \/ (req'[q].at = req[q].at /\ Keeps(q))

LEMMA QuietStep ==
  ASSUME TypeOK, Young, Quiet
  PROVE  Young'
<1>1. LiveIsThere'
  BY DEF Quiet, Outside, Keeps, Young, LiveIsThere
<1>0. ChunksFit'
  BY DEF Quiet, Outside, Keeps, Young, ChunksFit
<1>2. Assembled'
  BY DEF Quiet, Young, Assembled
<1>3. ASSUME sweep' = "young" PROVE Core'
  <2>1. Core /\ sweep = "young"
    BY <1>3 DEF Quiet, Young
  <2>2. LockCovers'
    BY <2>1 DEF Quiet, Outside, Keeps, Core, LockCovers, Prepares
  <2>3. LostForGood'
    BY <2>1 DEF Quiet, Outside, Core, LostForGood
  <2>4. Size' = Size
    BY DEF Quiet, Size
  <2>5. PartIsPrefix'
    BY <2>1, <2>4 DEF Quiet, Outside, Keeps, Core, PartIsPrefix
  <2> QED
    BY <2>2, <2>3, <2>5 DEF Core
<1> QED
  BY <1>0, <1>1, <1>2, <1>3 DEF Young

LEMMA SpareIsQuiet ==
  ASSUME TypeOK, Young, NEW r \in Requests,
         Moves(r, "free") \/ Moves(r, "sent") \/ Moves(r, "release") \/ Moves(r, "answered"),
         req'[r].off + req'[r].len <= Length,
         UNCHANGED <<part, meta, lock, queued, sweep>>
  PROVE  Young'
<1>1. Quiet
  BY DEF Quiet, Outside, Moves, Keeps
<1> QED
  BY <1>1, QuietStep


LEMMA SendMoves ==
  ASSUME TypeOK, NEW r \in Requests, Send(r)
  PROVE  Moves(r, "sent") /\ req'[r].off + req'[r].len <= Length /\ req'[r].len <= Chunk
<1> DEFINE n == Least(Chunk, Length - c.off)
<1>1. c.off \in Nat /\ c.off < Length
  BY DEF Send, TypeOK, ClientStates
<1>2. n \in Nat /\ c.off + n <= Length /\ n <= Chunk
  BY <1>1, SizesAssumption DEF Least
<1>3. \A m, k \in Nat : LET u == [Unused EXCEPT !.at = "sent", !.off = m, !.len = k]
                        IN  u.at = "sent" /\ u.off = m /\ u.len = k
  BY DEF Unused
<1>4. /\ req'[r] = [Unused EXCEPT !.at = "sent", !.off = c.off, !.len = n]
      /\ \A q \in Requests \ {r} : req'[q] = req[q]
  BY DEF Send, TypeOK
<1> HIDE DEF n
<1> QED
  BY <1>1, <1>2, <1>3, <1>4 DEF Moves

LEMMA ClientStepYoung ==
  ASSUME TypeOK, Young, NEW r \in Requests, Client(r)
  PROVE  Young'
<1>1. CASE Send(r)
  BY <1>1, SendMoves, SpareIsQuiet DEF Send
<1>2. CASE \E code \in Codes : Receive(r, code)
  <2>1. Moves(r, "free") /\ req'[r].off + req'[r].len <= Length
    <3>1. req' = [req EXCEPT ![r] = Unused]
      BY <1>2 DEF Receive
    <3>2. Moves(r, "free") /\ req'[r].off + req'[r].len = 0
      BY <3>1, FreeMoves
    <3> QED
      BY <3>2, SizesAssumption
  <2> QED
    BY <1>2, <2>1, SpareIsQuiet DEF Receive
<1> QED
  BY <1>1, <1>2, Members
     DEF Client, ReceiveNext, ReceiveDone, ReceiveConflict, ReceiveGone, ReceiveError

LEMMA CutMoves ==
  ASSUME TypeOK, TimeOut \/ Reset, NEW q \in Requests
  PROVE  req'[q].at = req[q].at /\ req'[q].code = req[q].code /\ Keeps(q)
<1>1. req[q] \in RequestStates
  BY DEF TypeOK
<1>2. \A s \in RequestStates :
        LET u == [s EXCEPT !.cut = TRUE]
        IN  /\ u.at = s.at /\ u.off = s.off /\ u.len = s.len /\ u.got = s.got
            /\ u.out = s.out /\ u.live = s.live /\ u.body = s.body /\ u.code = s.code
  BY DEF RequestStates
<1>3. req'[q] = req[q] \/ req'[q] = [req[q] EXCEPT !.cut = TRUE]
  BY DEF TimeOut, Reset
<1>4. CASE req'[q] = req[q]
  BY <1>4 DEF Keeps
<1>5. CASE req'[q] = [req[q] EXCEPT !.cut = TRUE]
  BY <1>1, <1>2, <1>5 DEF Keeps
<1> QED
  BY <1>3, <1>4, <1>5

LEMMA CutsYoung ==
  ASSUME TypeOK, Young, Exhausted \/ Resync \/ TimeOut \/ Reset
  PROVE  Young'
<1>1. Quiet
  <2>1. CASE Exhausted \/ Resync
    BY <2>1 DEF Exhausted, Resync, Quiet, Keeps
  <2>2. CASE TimeOut \/ Reset
    BY <2>2, CutMoves DEF TimeOut, Reset, Quiet
  <2> QED
    BY <2>1, <2>2
<1> QED
  BY <1>1, QuietStep

\* The steps of a request that only end it or answer it.
LEMMA SpareYoung ==
  ASSUME TypeOK, Young, NEW r \in Requests, Lost(r) \/ Disconnected(r)
  PROVE  Young'
<1>0. req[r].off + req[r].len <= Length
  BY DEF Young, ChunksFit
<1>1. CASE Lost(r)
  <2>1. Moves(r, "free") /\ req'[r].off + req'[r].len <= Length
    <3>1. req' = [req EXCEPT ![r] = Unused]
      BY <1>1 DEF Lost
    <3>2. Moves(r, "free") /\ req'[r].off + req'[r].len = 0
      BY <3>1, FreeMoves
    <3> QED
      BY <3>2, SizesAssumption
  <2> QED
    BY <1>1, <2>1, SpareIsQuiet DEF Lost
<1>2. CASE Disconnected(r)
  <2>1. Moves(r, "release") /\ Keeps(r)
    BY <1>2, AnswerMoves DEF Disconnected
  <2> QED
    BY <1>0, <1>2, <2>1, SpareIsQuiet DEF Disconnected, Keeps
<1> QED
  BY <1>1, <1>2

LEMMA LoadMetaYoung ==
  ASSUME TypeOK, Young, NEW r \in Requests, LoadMeta(r)
  PROVE  Young'
<1>0. req[r].off + req[r].len <= Length
  BY DEF Young, ChunksFit
<1>1. CASE ~meta
  <2>1. Moves(r, "release") /\ Keeps(r)
    BY <1>1, AnswerMoves DEF LoadMeta
  <2> QED
    BY <1>0, <2>1, SpareIsQuiet DEF LoadMeta, Keeps
<1>2. CASE meta
  <2>1. req[r].at = "sent" /\ Moves(r, "meta") /\ Keeps(r)
    BY <1>2, GotoMoves DEF LoadMeta
  <2>2. UNCHANGED <<part, meta, lock, queued, sweep>>
    BY DEF LoadMeta
  <2>3. ChunksFit' /\ LiveIsThere' /\ Assembled'
    BY <2>1, <2>2 DEF Young, ChunksFit, LiveIsThere, Assembled, Moves, Keeps
  <2>4. ASSUME sweep' = "young" PROVE Core'
    <3>1. Core
      BY <2>2, <2>4 DEF Young
    <3>2. LockCovers'
      BY <2>1, <2>2, <3>1 DEF Core, LockCovers, Prepares, Moves, Keeps
    <3>3. LostForGood'
      BY <1>2, <2>1, <2>2, <3>1 DEF Core, LockCovers, LostForGood, Moves
    <3>4. PartIsPrefix'
      BY <2>1, <2>2, <3>1 DEF Core, PartIsPrefix, Size, Moves, Keeps
    <3> QED
      BY <3>2, <3>3, <3>4 DEF Core
  <2> QED
    BY <2>3, <2>4 DEF Young
<1> QED
  BY <1>1, <1>2

LEMMA TakeLockYoung ==
  ASSUME TypeOK, Young, NEW r \in Requests, TakeLock(r)
  PROVE  Young'
<1>0. req[r].off + req[r].len <= Length
  BY DEF Young, ChunksFit
<1>1. CASE lock # Free
  <2>1. Moves(r, "release") /\ Keeps(r)
    BY <1>1, AnswerMoves DEF TakeLock
  <2> QED
    BY <1>0, <1>1, <2>1, SpareIsQuiet DEF TakeLock, Keeps
<1>2. CASE lock = Free
  <2>1. /\ req[r].at = "meta"
        /\ Keeps(r)
        /\ Moves(r, "release") \/ (Moves(r, "open") /\ req[r].off = Size)
    BY <1>2, AnswerMoves, GotoMoves DEF TakeLock
  <2>2. lock' = r /\ UNCHANGED <<part, meta, queued, sweep>>
    BY <1>2 DEF TakeLock
  <2>3. ChunksFit' /\ LiveIsThere' /\ Assembled'
    BY <2>1, <2>2 DEF Young, ChunksFit, LiveIsThere, Assembled, Moves, Keeps
  <2>4. ASSUME sweep' = "young" PROVE Core'
    <3>1. Core
      BY <2>2, <2>4 DEF Young
    <3>2. \A q \in Requests : lock # q
      BY <1>2, NamesAssumption
    <3>3. LockCovers'
      BY <2>1, <2>2, <3>1, <3>2 DEF Core, LockCovers, Prepares, Moves, Keeps
    <3>4. LostForGood'
      BY <2>1, <2>2, <3>1 DEF Core, LostForGood, Moves
    <3>5. PartIsPrefix'
      BY <2>1, <2>2, <3>1 DEF Core, PartIsPrefix, Size, Moves, Keeps
    <3> QED
      BY <3>3, <3>4, <3>5 DEF Core
  <2> QED
    BY <2>3, <2>4 DEF Young
<1> QED
  BY <1>1, <1>2

\* The holder of the lock is the only one in a part that is there.
LEMMA Alone ==
  ASSUME Core, NEW r \in Requests, Prepares(r), part # NoPart \/ req[r].at \notin {"stream", "replace"}
  PROVE  /\ lock = r
         /\ \A q \in Requests \ {r} :
              Prepares(q) => part = NoPart /\ req[q].at \in {"stream", "replace"}
  BY DEF Core, LockCovers

LEMMA OpenMoves ==
  ASSUME TypeOK, NEW r \in Requests, Open(r)
  PROVE  /\ req[r].at = "open" /\ Moves(r, "stream")
         /\ req'[r].off = req[r].off /\ req'[r].len = req[r].len
         /\ req'[r].got = req[r].off /\ req'[r].out = req[r].off
         /\ req'[r].live = TRUE /\ req'[r].code = req[r].code
<1>0. req[r] \in RequestStates
  BY DEF TypeOK
<1>1. \A s \in RequestStates, n \in Nat :
        LET u == [s EXCEPT !.at = "stream", !.got = n, !.out = n, !.live = TRUE]
        IN  /\ u.at = "stream" /\ u.off = s.off /\ u.len = s.len /\ u.got = n
            /\ u.out = n /\ u.live = TRUE /\ u.code = s.code
  <2> TAKE s \in RequestStates, n \in Nat
  <2> DEFINE t == [s EXCEPT !.at = "stream", !.got = n]
  <2>1. t \in [at: Ats, off: Nat, len: Nat, got: Nat, out: Nat, live: BOOLEAN,
               cut: BOOLEAN, code: Codes, body: Contents]
        /\ t.at = "stream" /\ t.off = s.off /\ t.len = s.len /\ t.got = n /\ t.code = s.code
    BY SMT, ZenonT(60), Members DEF RequestStates
  <2>2. [s EXCEPT !.at = "stream", !.got = n, !.out = n, !.live = TRUE]
          = [t EXCEPT !.out = n, !.live = TRUE]
    BY DEF RequestStates
  <2> HIDE DEF t
  <2> QED
    BY <2>1, <2>2
<1>2. req[r].off \in Nat /\ req[r].len \in Nat
  BY FieldTypes
<1>3. /\ req'[r] = [req[r] EXCEPT !.at = "stream", !.got = req[r].off,
                                  !.out = req[r].off, !.live = TRUE]
      /\ Moves(r, req'[r].at)
  BY DEF Open, TypeOK, Moves
<1> QED
  <2> DEFINE u == [req[r] EXCEPT !.at = "stream", !.got = req[r].off,
                                 !.out = req[r].off, !.live = TRUE]
  <2>1. /\ u.at = "stream" /\ u.off = req[r].off /\ u.len = req[r].len
        /\ u.got = req[r].off /\ u.out = req[r].off /\ u.live = TRUE /\ u.code = req[r].code
    BY <1>0, <1>1, <1>2
  <2>2. req'[r] = u /\ req[r].at = "open"
    BY <1>3 DEF Open
  <2> HIDE DEF u
  <2> QED
    BY <1>3, <2>1, <2>2

LEMMA OpenYoung ==
  ASSUME TypeOK, TypeOK', Young, NEW r \in Requests, Open(r)
  PROVE  Young'
<1>2. req[r].off \in Nat /\ req[r].len \in Nat
  BY FieldTypes
<1>4. /\ req[r].at = "open" /\ Moves(r, "stream")
      /\ req'[r].off = req[r].off /\ req'[r].len = req[r].len
      /\ req'[r].got = req[r].off /\ req'[r].out = req[r].off
      /\ req'[r].live = TRUE
  BY OpenMoves
<1>5. /\ UNCHANGED <<meta, lock, queued, sweep>>
      /\ part' = IF part = NoPart THEN <<>> ELSE part
      /\ part' # NoPart
  <2>1. <<>> \in Seq(Nat)
    OBVIOUS
  <2> QED
    BY <2>1, NamesAssumption DEF Open
<1>6. ChunksFit' /\ LiveIsThere' /\ Assembled'
  BY <1>4, <1>5 DEF Young, ChunksFit, LiveIsThere, Assembled, Moves
<1>7. ASSUME sweep' = "young" PROVE Core'
  <2>1. Core
    BY <1>5, <1>7 DEF Young
  <2>2. lock = r /\ \A q \in Requests \ {r} : ~Prepares(q)
    BY <1>4, <2>1, Alone DEF Core, LostForGood, Prepares
  <2>3. LockCovers' /\ LostForGood'
    BY <1>4, <1>5, <2>2 DEF LockCovers, LostForGood, Prepares, Moves
  <2>4. part' = Prefix(Len(part')) /\ Len(part') = Size /\ Len(part') <= Length
    BY <1>5, <2>1, PrefixFacts, SizesAssumption DEF Core, PartIsPrefix, Size
  <2>5. Size = req[r].off
    BY <1>4, <2>1 DEF Core, PartIsPrefix
  <2>6. PartIsPrefix'
    BY <1>2, <1>4, <1>5, <2>1, <2>2, <2>4, <2>5
       DEF Core, PartIsPrefix, Prepares, Moves
  <2> QED
    BY <2>3, <2>6 DEF Core
<1> QED
  BY <1>6, <1>7 DEF Young

LEMMA ArriveMoves ==
  ASSUME TypeOK, NEW r \in Requests, Arrive(r)
  PROVE  /\ req[r].at = "stream" /\ Moves(r, "stream")
         /\ req'[r].off = req[r].off /\ req'[r].len = req[r].len
         /\ req'[r].live = req[r].live /\ req'[r].code = req[r].code
         /\ req'[r].got = req[r].got + 1 /\ req'[r].out = req[r].out
<1>1. req[r] \in RequestStates
  BY DEF TypeOK
<1>2. \A s \in RequestStates, n \in Nat :
        LET u == [s EXCEPT !.got = n]
        IN  /\ u.at = s.at /\ u.off = s.off /\ u.len = s.len /\ u.live = s.live
            /\ u.got = n /\ u.out = s.out /\ u.code = s.code
  BY DEF RequestStates
<1>3. req[r].got + 1 \in Nat
  BY FieldTypes
<1>4. /\ req[r].at = "stream"
      /\ \A q \in Requests \ {r} : req'[q] = req[q]
      /\ req'[r] = [req[r] EXCEPT !.got = req[r].got + 1]
  BY DEF Arrive, TypeOK
<1> QED
  BY <1>1, <1>2, <1>3, <1>4 DEF Moves

LEMMA FlushMoves ==
  ASSUME TypeOK, NEW r \in Requests, Flush(r)
  PROVE  /\ req[r].at = "stream" /\ Moves(r, "stream")
         /\ req'[r].off = req[r].off /\ req'[r].len = req[r].len
         /\ req'[r].live = req[r].live /\ req'[r].code = req[r].code
         /\ req'[r].out = req[r].out + 1 /\ req'[r].got = req[r].got
<1>1. req[r] \in RequestStates
  BY DEF TypeOK
<1>2. \A s \in RequestStates, n \in Nat :
        LET u == [s EXCEPT !.out = n]
        IN  /\ u.at = s.at /\ u.off = s.off /\ u.len = s.len /\ u.live = s.live
            /\ u.out = n /\ u.got = s.got /\ u.code = s.code
  BY DEF RequestStates
<1>3. req[r].out + 1 \in Nat
  BY FieldTypes
<1>4. /\ req[r].at = "stream"
      /\ \A q \in Requests \ {r} : req'[q] = req[q]
      /\ req'[r] = [req[r] EXCEPT !.out = req[r].out + 1]
  BY DEF Flush, TypeOK
<1> QED
  BY <1>1, <1>2, <1>3, <1>4 DEF Moves

LEMMA ArriveYoung ==
  ASSUME TypeOK, Young, NEW r \in Requests, Arrive(r)
  PROVE  Young'
<1>1. /\ req[r].at = "stream" /\ Moves(r, "stream")
      /\ req'[r].off = req[r].off /\ req'[r].len = req[r].len
      /\ req'[r].live = req[r].live
      /\ req'[r].got = req[r].got + 1 /\ req'[r].out = req[r].out
  BY ArriveMoves
<1>2. /\ UNCHANGED <<part, meta, lock, queued, sweep>>
      /\ req[r].got < req[r].off + req[r].len
  BY DEF Arrive
<1>3. ChunksFit' /\ LiveIsThere' /\ Assembled'
  BY <1>1, <1>2 DEF Young, ChunksFit, LiveIsThere, Assembled, Moves
<1>4. ASSUME sweep' = "young" PROVE Core'
  <2>1. Core
    BY <1>2, <1>4 DEF Young
  <2>2. LockCovers' /\ LostForGood'
    BY <1>1, <1>2, <2>1 DEF Core, LockCovers, LostForGood, Prepares, Moves
  <2>3. Size' = Size
    BY <1>2 DEF Size
  <2>4. /\ req'[r].out <= req'[r].got
        /\ req'[r].got <= req'[r].off + req'[r].len
        /\ part # NoPart => Len(part) = req'[r].out
    BY <1>1, <1>2, <2>1, FieldTypes DEF Core, PartIsPrefix
  <2>5. PartIsPrefix'
    BY <1>1, <1>2, <2>1, <2>3, <2>4 DEF Core, PartIsPrefix, Moves
  <2> QED
    BY <2>2, <2>5 DEF Core
<1> QED
  BY <1>3, <1>4 DEF Young

LEMMA FlushYoung ==
  ASSUME TypeOK, TypeOK', Young, NEW r \in Requests, Flush(r)
  PROVE  Young'
<1>1. /\ req[r].at = "stream" /\ Moves(r, "stream")
      /\ req'[r].off = req[r].off /\ req'[r].len = req[r].len
      /\ req'[r].live = req[r].live
      /\ req'[r].out = req[r].out + 1 /\ req'[r].got = req[r].got
  BY FlushMoves
<1>2. /\ UNCHANGED <<meta, lock, queued, sweep>>
      /\ req[r].out < req[r].got
      /\ part' = IF req[r].live THEN Append(part, req[r].out + 1) ELSE part
  BY DEF Flush
<1>3. req[r].live => part # NoPart /\ part \in Seq(Nat) /\ part' # NoPart
  <2>1. req[r].live => part # NoPart /\ part \in Seq(Nat)
    BY <1>1 DEF Young, LiveIsThere, TypeOK
  <2>2. req[r].live => part' \in Seq(Nat)
    BY <1>2, <2>1, FieldTypes
  <2> QED
    BY <2>1, <2>2, NamesAssumption
<1>4. ChunksFit' /\ LiveIsThere' /\ Assembled'
  BY <1>1, <1>2, <1>3 DEF Young, ChunksFit, LiveIsThere, Assembled, Moves
<1>5. ASSUME sweep' = "young" PROVE Core'
  <2>1. Core
    BY <1>2, <1>5 DEF Young
  <2>2. part' = NoPart <=> part = NoPart
    BY <1>2, <1>3
  <2>3. LockCovers' /\ LostForGood'
    BY <1>1, <1>2, <2>1, <2>2 DEF Core, LockCovers, LostForGood, Prepares, Moves
  <2>4. CASE part = NoPart
    <3>1. part' = part
      BY <1>2, <1>3, <2>4
    <3>2. Size' = Size
      BY <3>1 DEF Size
    <3>3. /\ req'[r].out <= req'[r].got
          /\ req'[r].got <= req'[r].off + req'[r].len
      BY <1>1, <1>2, <2>1, FieldTypes DEF Core, PartIsPrefix
    <3>4. PartIsPrefix'
      BY <1>1, <1>2, <2>1, <2>4, <3>1, <3>2, <3>3 DEF Core, PartIsPrefix, Moves
    <3> QED
      BY <2>3, <3>4 DEF Core
  <2>5. CASE part # NoPart
    <3>1. req[r].live
      BY <1>1, <2>1, <2>5 DEF Core, LockCovers, TypeOK
    <3>2. \A q \in Requests \ {r} : ~Prepares(q)
      BY <1>1, <2>1, <2>5, Alone DEF Prepares
    <3>3. /\ req[r].out <= req[r].got
          /\ req[r].got <= req[r].off + req[r].len
          /\ Len(part) = req[r].out /\ part = Prefix(req[r].out)
      BY <1>1, <2>1, <2>5 DEF Core, PartIsPrefix
    <3>4. part' = Prefix(req[r].out + 1) /\ Len(part') = req[r].out + 1
      <4>1. part' = Append(Prefix(req[r].out), req[r].out + 1)
        BY <1>2, <3>1, <3>3
      <4>2. part' = Prefix(req[r].out + 1)
        BY <4>1, FieldTypes, PrefixFacts
      <4>3. req[r].out + 1 \in Nat
        BY FieldTypes
      <4>4. Len(Prefix(req[r].out + 1)) = req[r].out + 1
        BY <4>3, PrefixFacts
      <4> QED
        BY <4>2, <4>4
    <3>5. req[r].out + 1 <= Length
      BY <1>2, <3>3, FieldTypes, SizesAssumption DEF Young, ChunksFit
    <3>6. PartIsPrefix'
      <4>1. part' # NoPart => Len(part') <= Length /\ part' = Prefix(Len(part'))
        BY <3>4, <3>5
      <4>2. \A q \in Requests \ {r} :
              req[q].at \notin {"open", "stream", "replace", "unlink", "drop"}
        BY <3>2 DEF Prepares
      <4>3. \A q \in Requests \ {r} : req[q].at = "enqueue" => req[q].body = File
        BY <2>1 DEF Core, PartIsPrefix
      <4> QED
        BY SMTT(40), <1>1, <1>2, <3>3, <3>4, <4>1, <4>2, <4>3, FieldTypes
           DEF PartIsPrefix, Moves
    <3> QED
      BY <2>3, <3>6 DEF Core
  <2> QED
    BY <2>4, <2>5
<1> QED
  BY <1>4, <1>5 DEF Young

LEMMA StreamEndYoung ==
  ASSUME TypeOK, Young, NEW r \in Requests, StreamEnd(r)
  PROVE  Young'
<1>0. req[r].off + req[r].len <= Length
  BY DEF Young, ChunksFit
<1>1. CASE req[r].got < Length
  <2>1. Moves(r, "release") /\ Keeps(r)
    BY <1>1, AnswerMoves DEF StreamEnd
  <2> QED
    BY <1>0, <2>1, SpareIsQuiet DEF StreamEnd, Keeps
<1>2. CASE ~(req[r].got < Length)
  <2>1. req[r].at = "stream" /\ Moves(r, "replace") /\ Keeps(r)
    BY <1>2, GotoMoves DEF StreamEnd
  <2>2. /\ UNCHANGED <<part, meta, lock, queued, sweep>>
        /\ req[r].out = req[r].off + req[r].len
    BY DEF StreamEnd
  <2>3. ChunksFit' /\ LiveIsThere' /\ Assembled'
    BY <2>1, <2>2 DEF Young, ChunksFit, LiveIsThere, Assembled, Moves, Keeps
  <2>4. ASSUME sweep' = "young" PROVE Core'
    <3>1. Core
      BY <2>2, <2>4 DEF Young
    <3>2. LockCovers' /\ LostForGood'
      BY <2>1, <2>2, <3>1 DEF Core, LockCovers, LostForGood, Prepares, Moves, Keeps
    <3>3. Size' = Size
      BY <2>2 DEF Size
    <3>4. part # NoPart => part = File
      <4>1. part # NoPart => Len(part) = Length /\ part = Prefix(Len(part))
        BY <1>2, <2>1, <2>2, <3>1, FieldTypes, SizesAssumption DEF Core, PartIsPrefix
      <4> QED
        BY <4>1 DEF File
    <3>5. PartIsPrefix'
      BY <2>1, <2>2, <3>1, <3>3, <3>4 DEF Core, PartIsPrefix, Moves, Keeps
    <3> QED
      BY <3>2, <3>5 DEF Core
  <2> QED
    BY <2>3, <2>4 DEF Young
<1> QED
  BY <1>1, <1>2

LEMMA ReleaseYoung ==
  ASSUME TypeOK, Young, NEW r \in Requests, Release(r)
  PROVE  Young'
<1>1. req[r].at = "release" /\ Moves(r, "answered") /\ Keeps(r)
  BY GotoMoves DEF Release
<1>2. /\ UNCHANGED <<part, meta, queued, sweep>>
      /\ lock' = IF lock = r THEN Free ELSE lock
  BY DEF Release
<1>3. ChunksFit' /\ LiveIsThere' /\ Assembled'
  BY <1>1, <1>2 DEF Young, ChunksFit, LiveIsThere, Assembled, Moves, Keeps
<1>4. ASSUME sweep' = "young" PROVE Core'
  <2>1. Core
    BY <1>2, <1>4 DEF Young
  <2>2. LockCovers'
    BY <1>1, <1>2, <2>1 DEF Core, LockCovers, Prepares, Moves, Keeps
  <2>3. LostForGood'
    BY <1>1, <1>2, <2>1 DEF Core, LostForGood, Moves
  <2>4. PartIsPrefix'
    BY <1>1, <1>2, <2>1 DEF Core, PartIsPrefix, Size, Moves, Keeps
  <2> QED
    BY <2>2, <2>3, <2>4 DEF Core
<1> QED
  BY <1>3, <1>4 DEF Young

LEMMA ReplaceMoves ==
  ASSUME TypeOK, NEW r \in Requests, Replace(r), part # NoPart
  PROVE  /\ req[r].at = "replace" /\ req'[r].at = "unlink"
         /\ req'[r].off = req[r].off /\ req'[r].len = req[r].len /\ req'[r].body = part
         /\ req'[r].code = req[r].code
         /\ \A q \in Requests \ {r} :
              /\ req'[q].at = req[q].at /\ req'[q].off = req[q].off /\ req'[q].len = req[q].len
              /\ req'[q].live = FALSE /\ req'[q].body = req[q].body /\ req'[q].code = req[q].code
<1>1. \A s \in RequestStates :
        /\ [s EXCEPT !.live = FALSE].at = s.at
        /\ [s EXCEPT !.live = FALSE].off = s.off
        /\ [s EXCEPT !.live = FALSE].len = s.len
        /\ [s EXCEPT !.live = FALSE].live = FALSE
        /\ [s EXCEPT !.live = FALSE].body = s.body
        /\ [s EXCEPT !.live = FALSE].code = s.code
        /\ [s EXCEPT !.at = "unlink", !.body = part].at = "unlink"
        /\ [s EXCEPT !.at = "unlink", !.body = part].off = s.off
        /\ [s EXCEPT !.at = "unlink", !.body = part].len = s.len
        /\ [s EXCEPT !.at = "unlink", !.body = part].body = part
        /\ [s EXCEPT !.at = "unlink", !.body = part].code = s.code
  BY DEF RequestStates
<1>2. \A q \in Requests : req[q] \in RequestStates
  BY DEF TypeOK
<1>3. /\ req[r].at = "replace"
      /\ req'[r] = [req[r] EXCEPT !.at = "unlink", !.body = part]
      /\ \A q \in Requests \ {r} : req'[q] = [req[q] EXCEPT !.live = FALSE]
  BY DEF Replace
<1>4. req'[r].at = "unlink" /\ req'[r].off = req[r].off /\ req'[r].len = req[r].len
      /\ req'[r].body = part /\ req'[r].code = req[r].code
  BY <1>1, <1>2, <1>3
<1>5. \A q \in Requests \ {r} :
        /\ req'[q].at = req[q].at /\ req'[q].off = req[q].off /\ req'[q].len = req[q].len
        /\ req'[q].live = FALSE /\ req'[q].body = req[q].body /\ req'[q].code = req[q].code
  <2> SUFFICES ASSUME NEW q \in Requests \ {r}
               PROVE  /\ req'[q].at = req[q].at /\ req'[q].off = req[q].off
                      /\ req'[q].len = req[q].len
                      /\ req'[q].live = FALSE /\ req'[q].body = req[q].body
                      /\ req'[q].code = req[q].code
    OBVIOUS
  <2>1. req[q] \in RequestStates /\ req'[q] = [req[q] EXCEPT !.live = FALSE]
    BY <1>2, <1>3
  <2> QED
    BY <1>1, <2>1
<1> QED
  BY <1>3, <1>4, <1>5

LEMMA ReplaceYoung ==
  ASSUME TypeOK, Young, NEW r \in Requests, Replace(r)
  PROVE  Young'
<1>0. req[r].off + req[r].len <= Length
  BY DEF Young, ChunksFit
<1>1. CASE part = NoPart
  <2>1. Moves(r, "release") /\ Keeps(r)
    BY <1>1, AnswerMoves DEF Replace
  <2> QED
    BY <1>0, <1>1, <2>1, SpareIsQuiet DEF Replace, Keeps
<1>2. CASE part # NoPart
  <2>3. req[r].at = "replace"
    BY <1>2, ReplaceMoves
  <2>4. req'[r].at = "unlink" /\ req'[r].off = req[r].off /\ req'[r].len = req[r].len
        /\ req'[r].body = part
    BY <1>2, ReplaceMoves
  <2>5. \A q \in Requests \ {r} :
          /\ req'[q].at = req[q].at /\ req'[q].off = req[q].off /\ req'[q].len = req[q].len
          /\ req'[q].live = FALSE /\ req'[q].body = req[q].body
    BY <1>2, ReplaceMoves
  <2>6. part' = NoPart /\ UNCHANGED <<meta, lock, queued, sweep>>
    BY DEF Replace
  <2>7. ChunksFit' /\ LiveIsThere' /\ Assembled'
    BY <2>4, <2>5, <2>6 DEF Young, ChunksFit, LiveIsThere, Assembled
  <2>8. ASSUME sweep' = "young" PROVE Core'
    <3>1. Core
      BY <2>6, <2>8 DEF Young
    <3>2. lock = r /\ \A q \in Requests \ {r} : ~Prepares(q)
      BY <1>2, <2>3, <3>1, Alone DEF Prepares
    <3>3. \A q \in Requests : req'[q].at \notin {"open", "stream", "replace"}
      BY <2>4, <2>5, <3>2 DEF Prepares
    <3>4. LockCovers'
      BY <2>4, <2>5, <2>6, <3>2, <3>3 DEF LockCovers, Prepares
    <3>5. LostForGood'
      BY <3>3 DEF LostForGood
    <3>6. part = File
      BY <1>2, <2>3, <3>1 DEF Core, PartIsPrefix
    <3>7. \A q \in Requests : req'[q].at \in {"unlink", "drop", "enqueue"} => req'[q].body = File
      BY <2>4, <2>5, <3>1, <3>6 DEF Core, PartIsPrefix
    <3>8. PartIsPrefix'
      BY <2>6, <3>3, <3>7 DEF PartIsPrefix
    <3> QED
      BY <3>4, <3>5, <3>8 DEF Core
  <2> QED
    BY <2>7, <2>8 DEF Young
<1> QED
  BY <1>1, <1>2

LEMMA FinishYoung ==
  ASSUME TypeOK, TypeOK', Young, NEW r \in Requests,
         UnlinkMeta(r) \/ DropLock(r) \/ Enqueue(r)
  PROVE  Young'
<1>1. /\ req[r].at \in {"unlink", "drop", "enqueue"} /\ Keeps(r)
      /\ \/ UnlinkMeta(r) /\ req[r].at = "unlink" /\ Moves(r, "drop")
         \/ DropLock(r) /\ req[r].at = "drop" /\ Moves(r, "enqueue")
         \/ Enqueue(r) /\ req[r].at = "enqueue" /\ Moves(r, "release")
  BY GotoMoves, AnswerMoves DEF UnlinkMeta, DropLock, Enqueue
<1>2. UNCHANGED <<part, sweep>>
  BY DEF UnlinkMeta, DropLock, Enqueue
<1>3. ChunksFit' /\ LiveIsThere'
  BY <1>1, <1>2 DEF Young, ChunksFit, LiveIsThere, Moves, Keeps
<1>4. ASSUME sweep' = "young" PROVE Core'
  <2>1. Core
    BY <1>2, <1>4 DEF Young
  <2>2. PartIsPrefix'
    BY <1>1, <1>2, <2>1 DEF Core, PartIsPrefix, Size, Moves, Keeps
  <2>3. CASE Enqueue(r)
    <3>1. UNCHANGED <<part, meta, lock>>
      BY <2>3 DEF Enqueue
    <3>2. req[r].at = "enqueue" /\ Moves(r, "release")
      BY <2>3, AnswerMoves DEF Enqueue
    <3>3. LockCovers' /\ LostForGood'
      BY <1>1, <2>1, <3>1, <3>2 DEF Core, LockCovers, LostForGood, Prepares, Moves
    <3> QED
      BY <2>2, <3>3 DEF Core
  <2>4. CASE UnlinkMeta(r)
    <3>1. UNCHANGED <<part, lock>> /\ meta' = FALSE
      BY <2>4 DEF UnlinkMeta
    <3>2. req[r].at = "unlink" /\ Moves(r, "drop")
      BY <2>4, GotoMoves DEF UnlinkMeta
    <3>3. LockCovers' /\ LostForGood'
      BY <2>1, <3>1, <3>2 DEF Core, LockCovers, LostForGood, Prepares, Moves
    <3> QED
      BY <2>2, <3>3 DEF Core
  <2>5. CASE DropLock(r)
    <3>1. UNCHANGED <<part, meta>> /\ lock' = Free
      BY <2>5 DEF DropLock
    <3>2. req[r].at = "drop" /\ Moves(r, "enqueue")
      BY <2>5, GotoMoves DEF DropLock
    <3>3. \A q \in Requests \ {r} :
            Prepares(q) => part = NoPart /\ req[q].at \in {"stream", "replace"}
      BY <2>1, <3>2, Alone DEF Prepares
    <3>4. LockCovers' /\ LostForGood'
      BY <2>1, <3>1, <3>2, <3>3 DEF Core, LockCovers, LostForGood, Prepares, Moves
    <3> QED
      BY <2>2, <3>4 DEF Core
  <2> QED
    BY <2>3, <2>4, <2>5
<1>5. Assembled'
  <2>1. CASE ~Enqueue(r)
    BY <1>2, <2>1 DEF Young, Assembled, UnlinkMeta, DropLock
  <2>2. CASE Enqueue(r)
    <3>1. queued' = Append(queued, req[r].body) /\ queued \in Seq(Contents)
      BY <2>2 DEF Enqueue, TypeOK, Contents
    <3>2. req[r].at = "enqueue" /\ req[r].body \in Contents
      <4>1. req[r] \in RequestStates
        BY DEF TypeOK
      <4> QED
        BY <2>2, <4>1, AnswerMoves DEF Enqueue, RequestStates
    <3>3. ASSUME sweep' = "young"
          PROVE  \A i \in 1..Len(queued') : queued'[i] = File
      <4>1. sweep = "young" /\ req[r].body = File
        BY <1>2, <3>2, <3>3 DEF Young, Core, PartIsPrefix
      <4>2. \A i \in 1..Len(queued) : queued[i] = File
        BY <4>1 DEF Young, Assembled
      <4> QED
        BY <3>1, <3>2, <4>1, <4>2
    <3> QED
      BY <3>3 DEF Assembled
  <2> QED
    BY <2>1, <2>2
<1> QED
  BY <1>3, <1>4, <1>5 DEF Young

\* The sweeper takes the file away from whoever has it open.
LEMMA UnlinkingMoves ==
  ASSUME TypeOK, SweepPart \/ SweepOrphan, NEW q \in Requests
  PROVE  /\ req'[q].at = req[q].at /\ req'[q].off = req[q].off /\ req'[q].len = req[q].len
         /\ req'[q].got = req[q].got /\ req'[q].out = req[q].out /\ req'[q].live = FALSE
         /\ req'[q].code = req[q].code
<1>1. \A s \in RequestStates :
        LET u == [s EXCEPT !.live = FALSE]
        IN  /\ u.at = s.at /\ u.off = s.off /\ u.len = s.len /\ u.got = s.got
            /\ u.out = s.out /\ u.live = FALSE /\ u.code = s.code
  BY DEF RequestStates
<1>2. req[q] \in RequestStates /\ req'[q] = [req[q] EXCEPT !.live = FALSE]
  BY DEF SweepPart, SweepOrphan, TypeOK
<1> QED
  BY <1>1, <1>2

LEMMA SweepYoung ==
  ASSUME TypeOK, Young,
         Expire \/ SweepPart \/ SweepMeta \/ SweepLock
  PROVE  Young'
<1>1. sweep' # "young" /\ queued' = queued
  BY DEF Expire, SweepPart, SweepMeta, SweepLock, SweepStep
<1>2. Assembled'
  BY <1>1 DEF Assembled
<1>3. CASE ~SweepPart
  <2>1. UNCHANGED <<part, req>>
    BY <1>3 DEF Expire, SweepMeta, SweepLock
  <2> QED
    BY <1>1, <1>2, <2>1 DEF Young, ChunksFit, LiveIsThere
<1>4. CASE SweepPart
  <2>4. ChunksFit' /\ LiveIsThere'
    BY <1>4, UnlinkingMoves DEF Young, ChunksFit, LiveIsThere
  <2> QED
    BY <1>1, <1>2, <2>4 DEF Young
<1> QED
  BY <1>3, <1>4

LEMMA SweepOrphanYoung ==
  ASSUME TypeOK, Young, SweepOrphan
  PROVE  Young'
<1>3. ASSUME NEW q \in Requests
      PROVE
        /\ req'[q].at = req[q].at /\ req'[q].off = req[q].off /\ req'[q].len = req[q].len
        /\ req'[q].got = req[q].got /\ req'[q].out = req[q].out /\ req'[q].live = FALSE
  BY UnlinkingMoves
<1>4. /\ ~meta /\ part' = NoPart /\ UNCHANGED <<meta, queued, sweep>>
      /\ \A q \in Requests :
           req[q].at \in {"free", "sent", "stream", "release", "answered"}
  BY DEF SweepOrphan
<1>5. ChunksFit' /\ LiveIsThere' /\ Assembled'
  BY <1>3, <1>4 DEF Young, ChunksFit, LiveIsThere, Assembled
<1>6. ASSUME sweep' = "young" PROVE Core'
  <2>1. Core
    BY <1>4, <1>6 DEF Young
  <2>2. LockCovers' /\ LostForGood'
    BY <1>3, <1>4 DEF LockCovers, LostForGood, Prepares
  <2>3. PartIsPrefix'
    BY <1>3, <1>4, <2>1 DEF Core, PartIsPrefix
  <2> QED
    BY <2>2, <2>3 DEF Core
<1> QED
  BY <1>5, <1>6 DEF Young

LEMMA CrashYoung ==
  ASSUME TypeOK, Young, Crash
  PROVE  Young'
<1>1. Unused.at = "free" /\ Unused.off + Unused.len = 0
  BY DEF Unused
<1>2. \A q \in Requests : req'[q].at = "free" /\ req'[q].off + req'[q].len = 0
  BY <1>1 DEF Crash
<1>3. UNCHANGED <<part, meta, queued, sweep>>
  BY DEF Crash
<1>4. ChunksFit' /\ LiveIsThere' /\ Assembled'
  BY <1>2, <1>3, SizesAssumption DEF Young, ChunksFit, LiveIsThere, Assembled
<1>5. (sweep = "young" => Core)'
  BY <1>2, <1>3 DEF Young, Core, LockCovers, LostForGood, PartIsPrefix, Prepares
<1> QED
  BY <1>4, <1>5 DEF Young

-----------------------------------------------------------------------------
(* Assembled once.                                                         *)

\* A step of one request moves it, and the event loop goes from its hands to
\* nobody else's; no chunk is longer than the client cuts them.
LEMMA LoopStep ==
  ASSUME TypeOK, ChunksAreShort, OneHasLoop, [Next]_vars
  PROVE  ChunksAreShort' /\ OneHasLoop'
<1>1. ASSUME NEW r \in Requests, NEW a, Moves(r, a), req'[r].len <= Chunk,
             a \in {"meta", "open"} => req[r].at = "meta" \/ HasLoop(r)
      PROVE  ChunksAreShort' /\ OneHasLoop'
  BY <1>1 DEF ChunksAreShort, OneHasLoop, Moves, HasLoop
<1>2. ASSUME NEW r \in Requests, Client(r) \/ Lost(r)
      PROVE  ChunksAreShort' /\ OneHasLoop'
  <2>1. CASE Send(r)
    BY <2>1, <1>1, SendMoves
  <2>2. CASE req' = [req EXCEPT ![r] = Unused]
    <3>0. Moves(r, "free") /\ req'[r].len = 0
      BY <2>2, FreeMoves
    <3>1. Moves(r, "free") /\ req'[r].len <= Chunk
      BY <3>0, SizesAssumption
    <3> QED
      BY <3>1, <1>1
  <2> QED
    BY <1>2, <2>1, <2>2
       DEF Client, Lost, Receive, ReceiveNext, ReceiveDone, ReceiveConflict, ReceiveGone, ReceiveError
<1>3. ASSUME NEW r \in Requests, NEW from, NEW to, Goto(r, from, to),
             to = "meta" => HasLoop(r), to = "open" => from = "meta"
      PROVE  ChunksAreShort' /\ OneHasLoop'
  <2>1. req[r].at = from /\ Moves(r, to) /\ req'[r].len = req[r].len
    BY <1>3, GotoMoves DEF Keeps
  <2>2. req'[r].len <= Chunk
    BY <2>1 DEF ChunksAreShort
  <2> QED
    BY <1>1, <1>3, <2>1, <2>2
<1>4. ASSUME NEW r \in Requests, NEW from, NEW code, Answer(r, from, code)
      PROVE  ChunksAreShort' /\ OneHasLoop'
  <2>1. Moves(r, "release") /\ req'[r].len = req[r].len
    BY <1>4, AnswerMoves DEF Keeps
  <2>2. req'[r].len <= Chunk
    BY <2>1 DEF ChunksAreShort
  <2> QED
    BY <1>1, <2>1, <2>2
<1>5. ASSUME NEW r \in Requests, LoadMeta(r) \/ TakeLock(r) \/ StreamEnd(r) \/ Release(r)
                                 \/ UnlinkMeta(r) \/ DropLock(r) \/ Enqueue(r) \/ Disconnected(r)
      PROVE  ChunksAreShort' /\ OneHasLoop'
  BY <1>5, <1>3, <1>4
     DEF LoadMeta, TakeLock, StreamEnd, Release, UnlinkMeta, DropLock, Enqueue, Disconnected
<1>6. ASSUME NEW r \in Requests, Open(r) \/ Flush(r) \/ Arrive(r)
      PROVE  ChunksAreShort' /\ OneHasLoop'
  <2>1. Moves(r, "stream") /\ req'[r].len = req[r].len
    BY <1>6, OpenMoves, FlushMoves, ArriveMoves
  <2> QED
    BY <1>1, <2>1 DEF ChunksAreShort
<1>7. ASSUME NEW r \in Requests, Replace(r)
      PROVE  ChunksAreShort' /\ OneHasLoop'
  <2>1. CASE part = NoPart
    BY <1>4, <1>7, <2>1 DEF Replace
  <2>2. CASE part # NoPart
    <3>1. /\ req[r].at = "replace" /\ req'[r].at = "unlink" /\ req'[r].len = req[r].len
          /\ \A q \in Requests \ {r} : req'[q].at = req[q].at /\ req'[q].len = req[q].len
      BY <1>7, <2>2, ReplaceMoves
    <3> QED
      BY <3>1 DEF ChunksAreShort, OneHasLoop
  <2> QED
    BY <2>1, <2>2
<1>8. CASE TimeOut \/ Reset
  BY <1>8, CutMoves DEF ChunksAreShort, OneHasLoop, Keeps
<1>9. CASE SweepPart \/ SweepOrphan
  BY <1>9, UnlinkingMoves DEF ChunksAreShort, OneHasLoop
<1>10. CASE Crash
  <2>1. \A q \in Requests : req'[q].at = "free" /\ req'[q].len = 0
    BY <1>10 DEF Crash, Unused
  <2> QED
    BY <2>1, SizesAssumption DEF ChunksAreShort, OneHasLoop
<1>11. CASE UNCHANGED req
  BY <1>11 DEF ChunksAreShort, OneHasLoop
<1> QED
  BY <1>2, <1>5, <1>6, <1>7, <1>8, <1>9, <1>10, <1>11
     DEF Next, Server, vars, Exhausted, Resync, Expire, SweepMeta, SweepLock

\* 200 is the answer of the step that enqueues, and of no other.
LEMMA SuccessIsEnqueued ==
  ASSUME TypeOK, [Next]_vars, NEW q \in Requests, req'[q].code = 200
  PROVE  req[q].code = 200 \/ queued' # <<>>
<1>0. \A r \in Requests : req[r] \in RequestStates
  BY DEF TypeOK
<1>1. ASSUME NEW r \in Requests, NEW from, NEW to, Goto(r, from, to)
      PROVE  req[q].code = 200
  <2>1. \A s \in RequestStates : [s EXCEPT !.at = to].code = s.code
    BY DEF RequestStates
  <2> QED
    BY <1>0, <1>1, <2>1 DEF Goto, TypeOK
<1>2. ASSUME NEW r \in Requests, NEW from, NEW code, Answer(r, from, code), code # 200
      PROVE  req[q].code = 200
  <2>1. \A s \in RequestStates : [s EXCEPT !.at = "release", !.code = code].code = code
    BY DEF RequestStates
  <2> QED
    BY <1>0, <1>2, <2>1 DEF Answer, TypeOK
<1>3. ASSUME NEW r \in Requests, LoadMeta(r) \/ TakeLock(r) \/ StreamEnd(r) \/ Release(r)
                                 \/ UnlinkMeta(r) \/ DropLock(r) \/ Disconnected(r)
      PROVE  req[q].code = 200
  BY <1>3, <1>1, <1>2
     DEF LoadMeta, TakeLock, StreamEnd, Release, UnlinkMeta, DropLock, Disconnected
<1>4. ASSUME NEW r \in Requests, Enqueue(r)
      PROVE  queued' # <<>>
  <2>1. queued \in Seq(Seq(Nat)) /\ req[r].body \in Seq(Nat)
    BY <1>0 DEF TypeOK, RequestStates, Contents
  <2> QED
    BY <1>4, <2>1 DEF Enqueue
<1>5. ASSUME NEW r \in Requests, req' = [req EXCEPT ![r] = Unused]
      PROVE  req[q].code = 200
  BY <1>5 DEF Unused, TypeOK
<1>6. ASSUME NEW r \in Requests, Send(r)
      PROVE  req[q].code = 200
  <2>1. \A m, k : [Unused EXCEPT !.at = "sent", !.off = m, !.len = k].code = 0
    BY DEF Unused
  <2> QED
    BY <1>6, <2>1 DEF Send, TypeOK
<1>7. ASSUME NEW r \in Requests, Open(r) \/ Flush(r) \/ Arrive(r)
      PROVE  req[q].code = 200
  <2>1. req'[r].code = req[r].code
    BY <1>7, OpenMoves, FlushMoves, ArriveMoves
  <2>2. q # r => req'[q] = req[q]
    BY <1>7 DEF Open, Flush, Arrive, TypeOK
  <2> QED
    BY <2>1, <2>2
<1>8. ASSUME NEW r \in Requests, Replace(r)
      PROVE  req[q].code = 200
  <2>1. CASE part = NoPart
    BY <1>2, <1>8, <2>1 DEF Replace
  <2>2. CASE part # NoPart
    <3>1. req'[r].code = req[r].code
      BY <1>8, <2>2, ReplaceMoves
    <3>2. ASSUME q # r PROVE req'[q].code = req[q].code
      <4>1. q \in Requests \ {r}
        BY <3>2
      <4>2. \A z \in Requests \ {r} :
              /\ req'[z].at = req[z].at /\ req'[z].off = req[z].off /\ req'[z].len = req[z].len
              /\ req'[z].live = FALSE /\ req'[z].body = req[z].body
              /\ req'[z].code = req[z].code
        BY <1>8, <2>2, ReplaceMoves
      <4> QED
        BY <4>1, <4>2
    <3> QED
      BY <3>1, <3>2
  <2> QED
    BY <2>1, <2>2
<1>9. CASE TimeOut \/ Reset
  BY <1>9, CutMoves
<1>10. CASE SweepPart \/ SweepOrphan
  BY <1>10, UnlinkingMoves
<1>11. CASE Crash
  BY <1>11 DEF Crash, Unused
<1>12. CASE UNCHANGED req
  BY <1>12
<1> QED
  BY <1>3, <1>4, <1>5, <1>6, <1>7, <1>8, <1>9, <1>10, <1>11, <1>12, ZenonT(60)
     DEF Next, Server, Client, Lost, Receive, ReceiveNext, ReceiveDone, ReceiveConflict,
         ReceiveGone, ReceiveError, vars, Exhausted, Resync, Expire, SweepMeta, SweepLock

\* The client is done when a 200 has reached it.
LEMMA DoneIsToldSo ==
  ASSUME TypeOK, [Next]_vars, c'.at = "done", c.at # "done"
  PROVE  \E r \in Requests : req[r].code = 200
<1>0. c \in ClientStates
  BY DEF TypeOK
<1>1. "at" \in DOMAIN c
  BY <1>0 DEF ClientStates
<1>2. \A a, n, w :
        /\ [c EXCEPT !.at = a].at = a
        /\ [c EXCEPT !.at = a, !.off = n].at = a
        /\ [c EXCEPT !.at = a, !.stalls = n].at = a
        /\ [c EXCEPT !.at = a, !.why = w].at = a
        /\ [c EXCEPT !.at = a, !.off = n, !.stalls = w].at = a
        /\ [c EXCEPT !.at = a, !.attempt = n, !.stalls = w].at = a
  BY <1>1
<1>8. ~Retry
  BY <1>1, <1>2 DEF Retry
<1>3. c' # c
  OBVIOUS
<1>4. ASSUME NEW r \in Requests, Client(r)
      PROVE  req[r].code = 200
  <2>1. ~Send(r)
    BY <1>1, <1>2 DEF Send
  <2>2. ~ReceiveNext(r)
    BY <1>1, <1>2 DEF ReceiveNext
  <2>3. ~ReceiveConflict(r)
    BY <1>1, <1>8, <1>2 DEF ReceiveConflict
  <2>4. ~ReceiveGone(r) /\ ~ReceiveError(r)
    BY <1>1, <1>8, <1>2 DEF ReceiveGone, ReceiveError
  <2>5. ReceiveDone(r)
    BY <1>4, <2>1, <2>2, <2>3, <2>4 DEF Client
  <2> QED
    BY <2>5 DEF ReceiveDone, Receive
<1>5. ASSUME NEW r \in Requests, Server(r) \/ Arrive(r) \/ Disconnected(r) \/ Lost(r)
      PROVE  FALSE
  BY <1>3, <1>5 DEF Server, LoadMeta, TakeLock, Open, Flush, StreamEnd, Release, Replace,
     UnlinkMeta, DropLock, Enqueue, Arrive, Disconnected, Lost
<1>6. ~(Exhausted \/ Resync \/ TimeOut \/ Reset \/ Crash)
  BY <1>1, <1>8, <1>2, <1>3 DEF Exhausted, Resync, TimeOut, Reset, Crash
<1>7. ~(Expire \/ SweepPart \/ SweepMeta \/ SweepLock \/ SweepOrphan \/ UNCHANGED vars)
  BY <1>3 DEF Expire, SweepPart, SweepMeta, SweepLock, SweepOrphan, vars
<1> QED
  BY <1>4, <1>5, <1>6, <1>7 DEF Next

\* What was enqueued stays enqueued.
LEMMA QueueGrows ==
  ASSUME TypeOK, [Next]_vars, queued # <<>>
  PROVE  queued' # <<>>
<1>1. ASSUME NEW r \in Requests, Enqueue(r)
      PROVE  queued' # <<>>
  <2>1. req[r] \in RequestStates
    BY DEF TypeOK
  <2>2. queued \in Seq(Seq(Nat)) /\ req[r].body \in Seq(Nat)
    BY <2>1 DEF TypeOK, RequestStates, Contents
  <2>3. queued' = Append(queued, req[r].body)
    BY <1>1 DEF Enqueue
  <2>4. Len(queued') = Len(queued) + 1 /\ Len(queued) \in Nat
    BY <2>2, <2>3
  <2>5. Len(<<>>) = 0
    OBVIOUS
  <2> QED
    BY <2>4, <2>5
<1> QED
  BY <1>1 DEF Next, Client, Server, Send, Receive, ReceiveNext, ReceiveDone, ReceiveConflict, ReceiveGone,
     ReceiveError, LoadMeta, TakeLock, Open, Flush, StreamEnd, Release, Replace, UnlinkMeta, DropLock,
     Arrive, Disconnected, Lost, Exhausted, Resync, TimeOut, Reset, Expire, SweepPart, SweepMeta,
     SweepLock, SweepOrphan, Crash, vars

\* A request that moves on, short of the finalization, leaves it as it was,
\* unless it now stands where a request without meta must not stand.
LEMMA MovingIsNotFinishing ==
  ASSUME FinishedOnce, NEW r \in Requests, NEW a, Moves(r, a),
         a \notin {"unlink", "drop", "enqueue"},
         meta' = meta, queued' = queued, part' = NoPart <=> part = NoPart,
         ~meta => /\ a \in {"meta", "replace"} => part = NoPart
                  /\ a = "open" => req'[r].off = 0
                  /\ a = "stream" /\ part # NoPart => req'[r].off = 0
  PROVE  FinishedOnce'
<1>1. req'[r].at = a /\ \A q \in Requests \ {r} : req'[q] = req[q]
  BY DEF Moves
<1>2. Finishes(r)' = FALSE
  BY <1>1 DEF Finishes
<1>3. \A q \in Requests \ {r} : Finishes(q)' = Finishes(q)
  BY <1>1 DEF Finishes
<1>4. Len(queued') <= 1
  BY DEF FinishedOnce
<1>5. meta' => queued' = <<>> /\ \A q \in Requests : req'[q].at \notin {"drop", "enqueue"}
  BY <1>1 DEF FinishedOnce
<1>6. \A q \in Requests : Finishes(q)' =>
        queued' = <<>> /\ \A z \in Requests : Finishes(z)' => z = q
  BY <1>2, <1>3 DEF FinishedOnce
<1>7. \A q \in Requests : req'[q].at \in {"unlink", "drop"} => part' = NoPart
  BY <1>1 DEF FinishedOnce
<1>8. ~meta' => \A q \in Requests :
        /\ req'[q].at \in {"meta", "replace"} => part' = NoPart
        /\ req'[q].at = "open" => req'[q].off = 0
        /\ req'[q].at = "stream" /\ part' # NoPart => req'[q].off = 0
  BY <1>1 DEF FinishedOnce
<1> QED
  BY <1>4, <1>5, <1>6, <1>7, <1>8 DEF FinishedOnce

\* Nor does a cut connection, or a part that disappears.
LEMMA StandingIsNotFinishing ==
  ASSUME FinishedOnce, meta' = meta, queued' = queued, part' = part \/ part' = NoPart,
         \A q \in Requests : req'[q].at = req[q].at /\ req'[q].off = req[q].off
  PROVE  FinishedOnce'
  BY DEF FinishedOnce, Finishes

LEMMA OpenOnce ==
  ASSUME TypeOK, Core, OneHasLoop, FinishedOnce, NEW r \in Requests, Open(r)
  PROVE  FinishedOnce'
<1>1. /\ req[r].at = "open" /\ req'[r].at = "stream" /\ req'[r].off = req[r].off
      /\ \A q \in Requests \ {r} : req'[q] = req[q]
  BY OpenMoves DEF Moves
<1>2. meta' = meta /\ queued' = queued /\ (part # NoPart => part' = part)
  BY DEF Open
<1>3. \A q \in Requests \ {r} :
        req[q].at \notin {"meta", "open", "stream", "replace", "unlink", "drop"}
  <2> SUFFICES ASSUME NEW q \in Requests \ {r},
                      req[q].at \in {"meta", "open", "stream", "replace", "unlink", "drop"}
               PROVE  FALSE
    OBVIOUS
  <2>1. req[q].at \notin {"meta", "open"}
    BY <1>1 DEF OneHasLoop
  <2>2. Prepares(r) /\ Prepares(q)
    BY <1>1, <2>1 DEF Prepares
  <2>3. part = NoPart /\ req[q].at \in {"stream", "replace"}
    BY <1>1, <2>2, Alone
  <2> QED
    BY <1>1, <2>3 DEF Core, LostForGood
<1>4. ~meta => req[r].off = 0
  BY <1>1 DEF FinishedOnce
<1>5. \A q \in Requests : Finishes(q)' = Finishes(q)
  BY <1>1 DEF Finishes
<1>6. /\ Len(queued') <= 1
      /\ meta' => queued' = <<>> /\ \A q \in Requests : req'[q].at \notin {"drop", "enqueue"}
  BY <1>1, <1>2 DEF FinishedOnce
<1>7. \A q \in Requests : Finishes(q)' =>
        queued' = <<>> /\ \A z \in Requests : Finishes(z)' => z = q
  BY <1>2, <1>5 DEF FinishedOnce
<1>8. /\ \A q \in Requests : req'[q].at \in {"unlink", "drop"} => part' = NoPart
      /\ ~meta' => \A q \in Requests :
           /\ req'[q].at \in {"meta", "replace"} => part' = NoPart
           /\ req'[q].at = "open" => req'[q].off = 0
           /\ req'[q].at = "stream" /\ part' # NoPart => req'[q].off = 0
  BY <1>1, <1>2, <1>3, <1>4
<1> QED
  BY <1>6, <1>7, <1>8 DEF FinishedOnce

\* Without meta a request has nothing but a first chunk, which is not the file.
LEMMA StreamEndOnce ==
  ASSUME TypeOK, Core, ChunksAreShort, Chunk < Length, FinishedOnce,
         NEW r \in Requests, StreamEnd(r)
  PROVE  FinishedOnce'
<1>1. part' = part /\ meta' = meta /\ queued' = queued
  BY DEF StreamEnd
<1>2. CASE req[r].got < Length
  <2>1. Moves(r, "release")
    BY <1>2, AnswerMoves DEF StreamEnd
  <2> QED
    BY <1>1, <2>1, MovingIsNotFinishing
<1>3. CASE ~(req[r].got < Length)
  <2>1. req[r].at = "stream" /\ Moves(r, "replace")
    BY <1>3, GotoMoves DEF StreamEnd
  <2>2. ~meta => part = NoPart
    <3> SUFFICES ASSUME ~meta, part # NoPart
                 PROVE  FALSE
      OBVIOUS
    <3>1. req[r].off = 0
      BY <2>1 DEF FinishedOnce
    <3>2. req[r].got <= req[r].off + req[r].len /\ req[r].len <= Chunk
      BY <2>1 DEF Core, PartIsPrefix, ChunksAreShort
    <3> QED
      BY <1>3, <3>1, <3>2, FieldTypes, SizesAssumption
  <2> QED
    BY <1>1, <2>1, <2>2, MovingIsNotFinishing
<1> QED
  BY <1>2, <1>3

LEMMA ReplaceOnce ==
  ASSUME TypeOK, FinishedOnce, NEW r \in Requests, Replace(r)
  PROVE  FinishedOnce'
<1>1. part' = NoPart /\ meta' = meta /\ queued' = queued
  BY DEF Replace
<1>2. CASE part = NoPart
  <2>1. Moves(r, "release")
    BY <1>2, AnswerMoves DEF Replace
  <2> QED
    BY <1>1, <1>2, <2>1, MovingIsNotFinishing
<1>3. CASE part # NoPart
  <2>1. /\ req[r].at = "replace" /\ req'[r].at = "unlink"
        /\ \A q \in Requests \ {r} : req'[q].at = req[q].at
    BY <1>3, ReplaceMoves
  <2>2. meta
    BY <1>3, <2>1 DEF FinishedOnce
  <2>3. queued = <<>> /\ \A q \in Requests : ~Finishes(q)
    BY <1>3, <2>2 DEF FinishedOnce, Finishes
  <2>4. \A q \in Requests : Finishes(q)' => q = r
    BY <2>1, <2>3 DEF Finishes
  <2>5. \A q \in Requests : req'[q].at \notin {"drop", "enqueue"}
    BY <2>1, <2>3 DEF Finishes
  <2> QED
    BY <1>1, <2>2, <2>3, <2>4, <2>5 DEF FinishedOnce
<1> QED
  BY <1>2, <1>3

\* _finalize_resumable: one at a time.
LEMMA FinishOnce ==
  ASSUME TypeOK, Core, FinishedOnce, NEW r \in Requests,
         UnlinkMeta(r) \/ DropLock(r) \/ Enqueue(r)
  PROVE  FinishedOnce'
<1>1. /\ Finishes(r)
      /\ \/ UnlinkMeta(r) /\ req[r].at = "unlink" /\ Moves(r, "drop")
         \/ DropLock(r) /\ req[r].at = "drop" /\ Moves(r, "enqueue")
         \/ Enqueue(r) /\ req[r].at = "enqueue" /\ Moves(r, "release")
  BY GotoMoves, AnswerMoves DEF UnlinkMeta, DropLock, Enqueue, Finishes
<1>2. part' = part /\ queued = <<>> /\ \A q \in Requests : Finishes(q) => q = r
  BY <1>1 DEF UnlinkMeta, DropLock, Enqueue, FinishedOnce
<1>3. \A q \in Requests \ {r} : req'[q] = req[q] /\ ~Finishes(q) /\ ~Finishes(q)'
  BY <1>1, <1>2 DEF Moves, Finishes
<1>4. meta' = FALSE
  BY <1>1 DEF FinishedOnce, UnlinkMeta, DropLock, Enqueue, TypeOK
<1>5. CASE UnlinkMeta(r) /\ req[r].at = "unlink" /\ Moves(r, "drop")
  <2>1. queued' = <<>> /\ part = NoPart /\ req'[r].at = "drop"
    BY <1>2, <1>5 DEF UnlinkMeta, FinishedOnce, Moves
  <2>2. \A q \in Requests \ {r} : req[q].at # "open"
    BY <1>5, Alone DEF Prepares
  <2> QED
    BY <1>2, <1>3, <1>4, <2>1, <2>2 DEF FinishedOnce
<1>6. CASE DropLock(r) /\ req[r].at = "drop" /\ Moves(r, "enqueue")
  <2>1. queued' = <<>> /\ part = NoPart /\ req'[r].at = "enqueue" /\ ~meta
    BY <1>2, <1>6 DEF DropLock, FinishedOnce, Moves
  <2> QED
    BY <1>2, <1>3, <1>4, <2>1 DEF FinishedOnce
<1>7. CASE Enqueue(r) /\ req[r].at = "enqueue" /\ Moves(r, "release")
  <2>1. req[r] \in RequestStates
    BY DEF TypeOK
  <2>2. req[r].body \in Seq(Nat) /\ queued' = Append(<<>>, req[r].body)
    BY <1>2, <1>7, <2>1 DEF Enqueue, RequestStates, Contents
  <2>3. Len(queued') = 1 /\ req'[r].at = "release" /\ ~meta
    BY <1>7, <2>2 DEF FinishedOnce, Moves
  <2>4. \A q \in Requests : ~Finishes(q)'
    BY <1>3, <2>3 DEF Finishes
  <2> QED
    BY <1>2, <1>3, <1>4, <2>3, <2>4 DEF FinishedOnce, Finishes
<1> QED
  BY <1>1, <1>5, <1>6, <1>7

LEMMA OnceStep ==
  ASSUME TypeOK, Young, ChunksAreShort, OneHasLoop, FinishedOnce,
         Chunk < Length, sweep' = "young", [Next]_vars
  PROVE  FinishedOnce'
<1>0. sweep = "young" /\ ~(Expire \/ SweepPart \/ SweepMeta \/ SweepLock)
  <2>1. ~(Expire \/ SweepPart \/ SweepMeta \/ SweepLock)
    BY DEF Expire, SweepPart, SweepMeta, SweepLock, SweepStep
  <2> QED
    BY <2>1, ZenonT(60) DEF Next, Client, Server, Send, Receive, ReceiveNext, ReceiveDone, ReceiveConflict,
       ReceiveGone, ReceiveError, LoadMeta, TakeLock, Open, Flush, StreamEnd, Release, Replace,
       UnlinkMeta, DropLock, Enqueue, Arrive, Disconnected, Lost, Exhausted, Resync, TimeOut, Reset,
       SweepOrphan, Crash, vars
<1>1. Core
  BY <1>0 DEF Young
<1>2. ASSUME NEW r \in Requests, Client(r) \/ Lost(r)
      PROVE  FinishedOnce'
  <2>1. part' = part /\ meta' = meta /\ queued' = queued
    BY <1>2 DEF Client, Lost, Send, Receive, ReceiveNext, ReceiveDone, ReceiveConflict,
                ReceiveGone, ReceiveError
  <2>2. Moves(r, "sent") \/ Moves(r, "free")
    BY <1>2, SendMoves, FreeMoves
       DEF Client, Lost, Receive, ReceiveNext, ReceiveDone, ReceiveConflict, ReceiveGone, ReceiveError
  <2> QED
    BY <2>1, <2>2, MovingIsNotFinishing
<1>3. ASSUME NEW r \in Requests, LoadMeta(r)
      PROVE  FinishedOnce'
  <2>1. part' = part /\ meta' = meta /\ queued' = queued
    BY <1>3 DEF LoadMeta
  <2>2. Moves(r, "release") \/ (meta /\ Moves(r, "meta"))
    BY <1>3, GotoMoves, AnswerMoves DEF LoadMeta
  <2> QED
    BY <2>1, <2>2, MovingIsNotFinishing
<1>4. ASSUME NEW r \in Requests, TakeLock(r)
      PROVE  FinishedOnce'
  <2>1. part' = part /\ meta' = meta /\ queued' = queued
    BY <1>4 DEF TakeLock
  <2>2. CASE Answer(r, "meta", 409)
    <3>1. Moves(r, "release")
      BY <2>2, AnswerMoves
    <3> QED
      BY <2>1, <3>1, MovingIsNotFinishing
  <2>3. CASE Goto(r, "meta", "open") /\ req[r].off = Size
    <3>1. req[r].at = "meta" /\ Moves(r, "open") /\ req'[r].off = req[r].off
      BY <2>3, GotoMoves DEF Keeps
    <3>2. ~meta => req'[r].off = 0
      BY <2>3, <3>1 DEF FinishedOnce, Size
    <3> QED
      BY <2>1, <3>1, <3>2, MovingIsNotFinishing
  <2> QED
    BY <1>4, <2>2, <2>3 DEF TakeLock
<1>5. ASSUME NEW r \in Requests, Arrive(r) \/ Flush(r)
      PROVE  FinishedOnce'
  <2>1. meta' = meta /\ queued' = queued
    BY <1>5 DEF Arrive, Flush
  <2>2. req[r].at = "stream" /\ Moves(r, "stream") /\ req'[r].off = req[r].off
    BY <1>5, ArriveMoves, FlushMoves
  <2>3. part' = NoPart <=> part = NoPart
    <3>1. CASE part' = part
      BY <3>1
    <3>2. CASE req[r].live /\ part' = Append(part, req[r].out + 1)
      <4>1. part # NoPart
        BY <2>2, <3>2 DEF Young, LiveIsThere
      <4>2. part \in Seq(Nat) /\ req[r].out + 1 \in Nat
        BY <4>1, FieldTypes DEF TypeOK
      <4> QED
        BY <3>2, <4>1, <4>2, NamesAssumption
    <3> QED
      BY <1>5, <3>1, <3>2 DEF Arrive, Flush
  <2>4. ~meta /\ part # NoPart => req'[r].off = 0
    BY <2>2 DEF FinishedOnce
  <2> QED
    BY <2>1, <2>2, <2>3, <2>4, MovingIsNotFinishing
<1>6. ASSUME NEW r \in Requests, Release(r) \/ Disconnected(r)
      PROVE  FinishedOnce'
  <2>1. part' = part /\ meta' = meta /\ queued' = queued
    BY <1>6 DEF Release, Disconnected
  <2>2. Moves(r, "answered") \/ Moves(r, "release")
    BY <1>6, GotoMoves, AnswerMoves DEF Release, Disconnected
  <2> QED
    BY <2>1, <2>2, MovingIsNotFinishing
<1>7. CASE TimeOut \/ Reset
  <2>1. part' = part /\ meta' = meta /\ queued' = queued
    BY <1>7 DEF TimeOut, Reset
  <2>2. \A q \in Requests : req'[q].at = req[q].at /\ req'[q].off = req[q].off
    BY <1>7, CutMoves DEF Keeps
  <2> QED
    BY <2>1, <2>2, StandingIsNotFinishing
<1>8. CASE SweepOrphan
  <2>1. part' = NoPart /\ meta' = meta /\ queued' = queued
    BY <1>8 DEF SweepOrphan
  <2>2. \A q \in Requests : req'[q].at = req[q].at /\ req'[q].off = req[q].off
    BY <1>8, UnlinkingMoves
  <2> QED
    BY <2>1, <2>2, StandingIsNotFinishing
<1>9. CASE Exhausted \/ Resync \/ UNCHANGED vars
  <2>1. part' = part /\ meta' = meta /\ queued' = queued /\ req' = req
    BY <1>9 DEF Exhausted, Resync, vars
  <2> QED
    BY <2>1, StandingIsNotFinishing
<1>10. CASE Crash
  <2>1. part' = part /\ meta' = meta /\ queued' = queued
    BY <1>10 DEF Crash
  <2>2. \A q \in Requests : req'[q].at = "free"
    BY <1>10 DEF Crash, Unused
  <2> QED
    BY <2>1, <2>2 DEF FinishedOnce, Finishes
<1> QED
  BY <1>0, <1>1, <1>2, <1>3, <1>4, <1>5, <1>6, <1>7, <1>8, <1>9, <1>10,
     OpenOnce, StreamEndOnce, ReplaceOnce, FinishOnce
     DEF Next, Server

-----------------------------------------------------------------------------
(* The theorems.                                                           *)

LEMMA UploadStep ==
  ASSUME TypeOK, Young, [Next]_vars
  PROVE  TypeOK' /\ Young'
<1>1. TypeOK'
  BY TypeStep DEF Young
<1>2. CASE UNCHANGED vars
  <2>1. Quiet
    BY <1>2 DEF vars, Quiet, Keeps
  <2> QED
    BY <1>1, <2>1, QuietStep
<1>3. ASSUME NEW r \in Requests, Client(r) \/ Server(r) \/ Arrive(r) \/ Disconnected(r) \/ Lost(r)
      PROVE  Young'
  BY <1>1, <1>3, ClientStepYoung, LoadMetaYoung, TakeLockYoung, OpenYoung, FlushYoung,
     StreamEndYoung, ReleaseYoung, ReplaceYoung, FinishYoung, ArriveYoung, SpareYoung
     DEF Server
<1>4. CASE \/ Exhausted \/ Resync \/ TimeOut \/ Reset \/ Expire \/ SweepPart
           \/ SweepMeta \/ SweepLock \/ SweepOrphan \/ Crash
  <2>1. CASE Exhausted \/ Resync \/ TimeOut \/ Reset
    BY <1>1, <2>1, CutsYoung
  <2>2. CASE Expire \/ SweepPart \/ SweepMeta \/ SweepLock
    BY <1>1, <2>2, SweepYoung
  <2> QED
    BY <1>1, <1>4, <2>1, <2>2, SweepOrphanYoung, CrashYoung
<1> QED
  BY <1>1, <1>2, <1>3, <1>4 DEF Next

\* The bookkeeping of both sides keeps its types: uploads.py and uploader.py
\* never leave the states the model names.
THEOREM UploadTypes == Spec => []TypeOK
<1>1. Init => TypeOK /\ Young
  BY InitType, InitCore DEF Young
<1>2. TypeOK /\ Young /\ [Next]_vars => TypeOK' /\ Young'
  BY UploadStep
<1> QED
  BY <1>1, <1>2, PTL DEF Spec

\* _PATCH_LOCKS, the offset check and the order of _finalize_resumable: what is
\* enqueued is the client's file, whatever drops, retries, concurrent PATCHes
\* and server restarts went before.
THEOREM FileIsAssembled == Spec => []Assembled
<1>1. Init => TypeOK /\ Young
  BY InitType, InitCore DEF Young
<1>2. TypeOK /\ Young /\ [Next]_vars => TypeOK' /\ Young'
  BY UploadStep
<1>3. TypeOK /\ Young => Assembled
  BY DEF Young
<1> QED
  BY <1>1, <1>2, <1>3, PTL DEF Spec

LEMMA OnceInit == Init => OnceInvariant
<1> SUFFICES ASSUME Init PROVE OnceInvariant
  OBVIOUS
<1>1. TypeOK /\ Young
  BY InitType, InitCore DEF Young
<1>2. \A r \in Requests : req[r].at = "free" /\ req[r].len = 0 /\ req[r].code = 0
  BY DEF Init, Unused
<1>3. queued = <<>> /\ c.at = "ready"
  BY DEF Init
<1> QED
  BY <1>1, <1>2, <1>3, SizesAssumption
     DEF OnceInvariant, UploadInvariant, Young, Core, ChunksAreShort, OneHasLoop, AnswersAreTrue,
         FinishedOnce, Finishes

LEMMA OnceIsKept ==
  ASSUME OnceInvariant, [Next]_vars
  PROVE  OnceInvariant'
<1>1. TypeOK /\ Young
  BY DEF OnceInvariant, UploadInvariant, Young, Core
<1>2. UploadInvariant'
  BY <1>1, UploadStep DEF UploadInvariant, Young, Core
<1>3. ChunksAreShort' /\ OneHasLoop'
  BY <1>1, LoopStep DEF OnceInvariant
<1>4. queued # <<>> => queued' # <<>>
  BY <1>1, QueueGrows
<1>5. \A r \in Requests : req'[r].code = 200 => queued' # <<>>
  BY <1>1, <1>4, SuccessIsEnqueued DEF OnceInvariant, AnswersAreTrue
<1>6. c'.at = "done" => queued' # <<>>
  BY <1>1, <1>4, DoneIsToldSo DEF OnceInvariant, AnswersAreTrue
<1>7. ASSUME sweep' = "young", Chunk < Length
      PROVE  FinishedOnce'
  <2>1. sweep = "young"
    BY <1>7, ZenonT(60) DEF Next, Client, Server, Send, Receive, ReceiveNext, ReceiveDone, ReceiveConflict,
       ReceiveGone, ReceiveError, LoadMeta, TakeLock, Open, Flush, StreamEnd, Release, Replace,
       UnlinkMeta, DropLock, Enqueue, Arrive, Disconnected, Lost, Exhausted, Resync, TimeOut, Reset,
       Expire, SweepPart, SweepMeta, SweepLock, SweepStep, SweepOrphan, Crash, vars
  <2> QED
    BY <1>1, <1>7, <2>1, OnceStep DEF OnceInvariant
<1> QED
  BY <1>2, <1>3, <1>5, <1>6, <1>7 DEF OnceInvariant, AnswersAreTrue

\* The lock, the 404 check and the order in which _finalize_resumable removes
\* the part, the meta file and the lock: a file of several chunks becomes one
\* session, however many PATCHes, retries and restarts met its finalization.
THEOREM LongFileIsQueuedOnce == Spec => []LongFileOnce
<1>1. OnceInvariant => LongFileOnce
  BY DEF OnceInvariant, FinishedOnce, LongFileOnce
<1> QED
  BY <1>1, OnceInit, OnceIsKept, PTL DEF Spec

\* upload_resumable returns on a 200 only, and _finalize_resumable answers 200
\* after enqueue: a client that believes it is done is right, with or without
\* a sweep, and however often it was cut off before.
THEOREM SuccessIsTrue == Spec => []DoneIsQueued
<1>1. OnceInvariant => DoneIsQueued
  BY DEF OnceInvariant, AnswersAreTrue, DoneIsQueued
<1> QED
  BY <1>1, OnceInit, OnceIsKept, PTL DEF Spec

===============================================================================
