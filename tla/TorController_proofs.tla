------------------------ MODULE TorController_proofs ------------------------
(***************************************************************************)
(* No command of TorController gets a line of another command's reply,     *)
(* whatever the size of the buffers, the number of threads, of lines and   *)
(* of events.  That commands return is liveness, which TLC checks.         *)
(***************************************************************************)
EXTENDS TorController, Ring_proofs

(* What is in the two buffers, and the lines that can be.                   *)
HeldEvents == Content(rbEvt, RingSize)
HeldReplies == Content(rbCmd, RingSize)

EventLine(n) == [kind : {"event"}, number : 0 .. n]
ReplyLine == [kind : {"reply"}, to : Caller, final : BOOLEAN]

IsReply(l) == l.kind = "reply"
NoReplyIn(lines) == \A i \in 1 .. Len(lines) : ~IsReply(lines[i])

(* Lines that belong to a command that is waiting for its reply.            *)
Expected(lines, at) ==
  \A i \in 1 .. Len(lines) : IsReply(lines[i]) => at[lines[i].to] = "reply"

(* No reply comes after a final one.                                        *)
FinalIsLast(lines) ==
  \A i, j \in 1 .. Len(lines) :
    i < j /\ IsReply(lines[i]) /\ lines[i].final => ~IsReply(lines[j])

(* Every line is an event Tor has reported or a reply, in its own buffer.   *)
LinesInv ==
  /\ TypeOK
  /\ socket \in Seq(EventLine(events) \cup ReplyLine)
  /\ line \in EventLine(events) \cup ReplyLine \cup {NoLine}
  /\ rbEvt \in RingOf(RingSize, EventLine(events) \cup {NoItem})
  /\ HeldEvents \in Seq(EventLine(events))
  /\ rbCmd \in RingOf(RingSize, ReplyLine \cup {NoItem})
  /\ HeldReplies \in Seq(ReplyLine)

(* One command at a time has the lock, and Tor has not been asked or has    *)
(* not begun to answer, or it has answered all that was asked.              *)
LockInv ==
  /\ \A t, u \in InCommand : t = u
  /\ InCommand # {} => inExec
  /\ \/ asked = <<>>
     \/ /\ \E t \in InCommand : asked = <<t>>
        /\ NoReplyIn(socket) /\ ~IsReply(line) /\ HeldReplies = <<>>

(* Replies come in the order of the buffer, the reader's line, the socket:  *)
(* all are expected, and what follows a final one is no reply.              *)
RepliesInv ==
  /\ Expected(HeldReplies, pc) /\ FinalIsLast(HeldReplies)
  /\ Expected(socket, pc) /\ FinalIsLast(socket)
  /\ IsReply(line) => pc[line.to] = "reply"
  /\ IsReply(line) /\ line.final => NoReplyIn(socket)
  /\ (\E i \in 1 .. Len(HeldReplies) : HeldReplies[i].final) =>
       ~IsReply(line) /\ NoReplyIn(socket)

TorInv == LinesInv /\ LockInv /\ RepliesInv

-----------------------------------------------------------------------------
(* Sequences of lines.                                                      *)
LEMMA TailElements ==
  ASSUME NEW S, NEW q \in Seq(S), q # <<>>
  PROVE  /\ Tail(q) \in Seq(S)
         /\ Len(Tail(q)) = Len(q) - 1
         /\ Len(q) \in Nat /\ Len(q) > 0
         /\ Head(q) = q[1] /\ q[1] \in S
         /\ \A i \in 1 .. Len(Tail(q)) : /\ i + 1 \in 1 .. Len(q)
                                        /\ Tail(q)[i] = q[i + 1]
OBVIOUS

LEMMA TailLines ==
  ASSUME NEW S, NEW at, NEW q \in Seq(S), q # <<>>
  PROVE  /\ NoReplyIn(q) => NoReplyIn(Tail(q)) /\ ~IsReply(Head(q))
         /\ Expected(q, at) => Expected(Tail(q), at) /\ (IsReply(Head(q)) => at[Head(q).to] = "reply")
         /\ FinalIsLast(q) => FinalIsLast(Tail(q))
         /\ FinalIsLast(q) /\ IsReply(Head(q)) /\ Head(q).final => NoReplyIn(Tail(q))
<1> DEFINE r == Tail(q)
           h == Head(q)
<1>1. /\ Len(r) = Len(q) - 1 /\ Len(q) \in Nat /\ Len(q) > 0
      /\ h = q[1]
      /\ \A i \in 1 .. Len(r) : /\ i + 1 \in 1 .. Len(q)
                                /\ r[i] = q[i + 1]
  BY TailElements
<1> HIDE DEF r, h
<1>2. 1 \in 1 .. Len(q)
  BY <1>1
<1>3. NoReplyIn(q) => NoReplyIn(r) /\ ~IsReply(h)
  BY <1>1, <1>2 DEF NoReplyIn
<1>4. Expected(q, at) => Expected(r, at) /\ (IsReply(h) => at[h.to] = "reply")
  BY <1>1, <1>2 DEF Expected
<1>5. FinalIsLast(q) => FinalIsLast(r)
  <2>1. SUFFICES ASSUME FinalIsLast(q), NEW i \in 1 .. Len(r), NEW j \in 1 .. Len(r), i < j,
                        IsReply(r[i]), r[i].final
                 PROVE  ~IsReply(r[j])
    BY DEF FinalIsLast
  <2>2. i + 1 \in 1 .. Len(q) /\ j + 1 \in 1 .. Len(q) /\ i + 1 < j + 1
    BY <1>1, <2>1
  <2>3. QED
    BY <1>1, <2>1, <2>2 DEF FinalIsLast
<1>6. FinalIsLast(q) /\ IsReply(h) /\ h.final => NoReplyIn(r)
  <2>1. SUFFICES ASSUME FinalIsLast(q), IsReply(h), h.final, NEW i \in 1 .. Len(r)
                 PROVE  ~IsReply(r[i])
    BY DEF NoReplyIn
  <2>2. i + 1 \in 1 .. Len(q) /\ 1 < i + 1
    BY <1>1
  <2>3. QED
    BY <1>1, <1>2, <2>1, <2>2 DEF FinalIsLast
<1>7. QED
  BY <1>3, <1>4, <1>5, <1>6 DEF r, h

LEMMA ConcatElements ==
  ASSUME NEW S, NEW q \in Seq(S), NEW r \in Seq(S)
  PROVE  /\ Len(q \o r) = Len(q) + Len(r)
         /\ \A i \in 1 .. Len(q) : (q \o r)[i] = q[i]
         /\ \A i \in Len(q) + 1 .. Len(q) + Len(r) : (q \o r)[i] = r[i - Len(q)]
OBVIOUS

LEMMA AppendElements ==
  ASSUME NEW S, NEW q \in Seq(S), NEW e \in S
  PROVE  /\ Append(q, e) \in Seq(S)
         /\ Len(q) \in Nat
         /\ Len(Append(q, e)) = Len(q) + 1
         /\ Append(q, e)[Len(q) + 1] = e
         /\ \A i \in 1 .. Len(q) : Append(q, e)[i] = q[i]
OBVIOUS

LEMMA AppendLines ==
  ASSUME NEW S, NEW at, NEW q \in Seq(S), NEW e \in S
  PROVE  /\ NoReplyIn(q) /\ ~IsReply(e) => NoReplyIn(Append(q, e))
         /\ Expected(q, at) /\ (IsReply(e) => at[e.to] = "reply") => Expected(Append(q, e), at)
         /\ FinalIsLast(q) /\ ((\E i \in 1 .. Len(q) : IsReply(q[i]) /\ q[i].final) => ~IsReply(e))
              => FinalIsLast(Append(q, e))
<1> DEFINE r == Append(q, e)
           n == Len(q)
<1>1. /\ n \in Nat /\ Len(r) = n + 1 /\ r[n + 1] = e
      /\ \A i \in 1 .. n : r[i] = q[i]
  BY AppendElements
<1> HIDE DEF r
<1>2. \A i \in 1 .. Len(r) : i \in 1 .. n \/ i = n + 1
  BY <1>1
<1>3. NoReplyIn(q) /\ ~IsReply(e) => NoReplyIn(r)
  BY <1>1, <1>2 DEF NoReplyIn
<1>4. Expected(q, at) /\ (IsReply(e) => at[e.to] = "reply") => Expected(r, at)
  BY <1>1, <1>2 DEF Expected
<1>5. ASSUME FinalIsLast(q),
             (\E i \in 1 .. n : IsReply(q[i]) /\ q[i].final) => ~IsReply(e)
      PROVE  FinalIsLast(r)
  <2>1. SUFFICES ASSUME NEW i \in 1 .. Len(r), NEW j \in 1 .. Len(r), i < j,
                        IsReply(r[i]), r[i].final
                 PROVE  ~IsReply(r[j])
    BY DEF FinalIsLast
  <2>2. i \in 1 .. n /\ r[i] = q[i]
    BY <1>1, <2>1
  <2>3. CASE j \in 1 .. n
    BY <1>1, <1>5, <2>1, <2>2, <2>3 DEF FinalIsLast
  <2>4. CASE j = n + 1
    BY <1>1, <1>5, <2>1, <2>2, <2>4
  <2>5. QED
    BY <1>2, <2>3, <2>4
<1>6. QED
  BY <1>3, <1>4, <1>5 DEF r

LEMMA EmptyLines == NoReplyIn(<<>>) /\ FinalIsLast(<<>>) /\ \A at : Expected(<<>>, at)
BY DEF NoReplyIn, Expected, FinalIsLast

-----------------------------------------------------------------------------
(* The two buffers.                                                         *)
LEMMA TorSizes ==
  /\ RingSize \in Nat /\ RingSize > 1
  /\ MaxEvents \in Nat /\ MaxCommands \in Nat /\ MaxPerEvent \in Nat
BY TorControllerAssumption

LEMMA LineKinds ==
  /\ \A n : \A l \in EventLine(n) : l.kind = "event" /\ ~IsReply(l) /\ l.number \in 0 .. n
  /\ \A l \in ReplyLine : IsReply(l) /\ l.kind = "reply" /\ l.to \in Caller /\ l.final \in BOOLEAN
  /\ NoLine.kind = "none" /\ ~IsReply(NoLine)
BY DEF EventLine, ReplyLine, IsReply, NoLine

LEMMA ReplyFields ==
  ASSUME NEW t, NEW P \in BOOLEAN
  PROVE  Reply(t, P).to = t /\ (Reply(t, P).final <=> P)
BY DEF Reply

LEMMA MoreEvents ==
  ASSUME NEW n \in Nat
  PROVE  /\ EventLine(n) \subseteq EventLine(n + 1)
         /\ Event(n + 1) \in EventLine(n + 1)
BY DEF EventLine, Event

LEMMA RingOfMore ==
  ASSUME NEW S, NEW T, S \subseteq T, NEW r \in RingOf(RingSize, S)
  PROVE  r \in RingOf(RingSize, T)
BY DEF RingOf

LEMMA Indices ==
  ASSUME NEW S, NEW r \in RingOf(RingSize, S)
  PROVE  r.head \in 0 .. RingSize - 1 /\ r.tail \in 0 .. RingSize - 1
BY DEF RingOf

(* put into, and get from, a buffer of lines of a set L.                    *)
LEMMA PutLine ==
  ASSUME NEW L, NEW r \in RingOf(RingSize, L \cup {NoItem}), NEW l \in L,
         Content(r, RingSize) \in Seq(L)
  PROVE  /\ RingPut(r, RingSize, l) \in RingOf(RingSize, L \cup {NoItem})
         /\ Content(RingPut(r, RingSize, l), RingSize) \in Seq(L)
         /\ \/ Content(RingPut(r, RingSize, l), RingSize) = Append(Content(r, RingSize), l)
            \/ Content(RingPut(r, RingSize, l), RingSize) = <<>>
<1> DEFINE S == L \cup {NoItem}
           c == Content(r, RingSize)
           s == RingPut(r, RingSize, l)
<1>1. r \in RingOf(RingSize, S) /\ l \in S
  OBVIOUS
<1> HIDE DEF S, s
<1>2. RingLength(r, RingSize) \in 0 .. RingSize - 1
  BY <1>1, TorSizes, LengthFacts
<1>3. RingLength(r, RingSize) < RingSize - 1 \/ RingLength(r, RingSize) = RingSize - 1
  BY <1>2, TorSizes
<1>4. s \in RingOf(RingSize, S)
  BY <1>1, TorSizes, PutFacts DEF s
<1>5. Content(s, RingSize) = Append(c, l) \/ Content(s, RingSize) = <<>>
  BY <1>1, <1>3, TorSizes, PutFacts DEF s
<1>6. Append(c, l) \in Seq(L) /\ <<>> \in Seq(L)
  BY AppendProperties, EmptySeq
<1>7. QED
  BY <1>4, <1>5, <1>6 DEF S, s

LEMMA GetLine ==
  ASSUME NEW L, NEW r \in RingOf(RingSize, L \cup {NoItem}), ~RingEmpty(r),
         Content(r, RingSize) \in Seq(L)
  PROVE  /\ RingGet(r, RingSize) \in RingOf(RingSize, L \cup {NoItem})
         /\ Content(RingGet(r, RingSize), RingSize) = Tail(Content(r, RingSize))
         /\ Tail(Content(r, RingSize)) \in Seq(L)
         /\ Content(r, RingSize) # <<>>
         /\ RingNext(r) = Head(Content(r, RingSize))
         /\ RingNext(r) \in L
<1> DEFINE S == L \cup {NoItem}
           c == Content(r, RingSize)
<1>1. r \in RingOf(RingSize, S) /\ NoItem \in S
  OBVIOUS
<1> HIDE DEF S
<1>2. /\ RingGet(r, RingSize) \in RingOf(RingSize, S)
      /\ Content(RingGet(r, RingSize), RingSize) = Tail(c)
      /\ c # <<>>
      /\ RingNext(r) = c[1]
  BY <1>1, TorSizes, GetFacts
<1> HIDE DEF c
<1>3. c \in Seq(L)
  BY DEF c
<1>4. Tail(c) \in Seq(L) /\ Head(c) = c[1] /\ c[1] \in L
  BY <1>2, <1>3, TailElements
<1>5. QED
  BY <1>2, <1>4 DEF S, c

-----------------------------------------------------------------------------
(* Types.                                                                   *)
LEMMA TorTypeInit == Init => LinesInv
<1> SUFFICES ASSUME Init PROVE LinesInv
  OBVIOUS
<1>1. /\ rbEvt \in RingOf(RingSize, EventLine(events) \cup {NoItem})
      /\ rbCmd \in RingOf(RingSize, ReplyLine \cup {NoItem})
      /\ HeldEvents = <<>> /\ HeldReplies = <<>>
  BY TorSizes, EmptyContent DEF Init, HeldEvents, HeldReplies
<1>2. TypeOK
  <2>1. asked \in Seq(Caller) /\ pc \in [Caller -> Step]
    BY EmptySeq DEF Init, Step
  <2>2. /\ rbEvt.head \in 0 .. RingSize - 1 /\ rbEvt.tail \in 0 .. RingSize - 1
        /\ rbCmd.head \in 0 .. RingSize - 1 /\ rbCmd.tail \in 0 .. RingSize - 1
    BY <1>1, Indices
  <2>3. line.kind = "none"
    BY DEF Init, NoLine
  <2>4. /\ todo \in 0 .. MaxPerEvent /\ commands \in 0 .. MaxCommands
        /\ events \in 0 .. MaxEvents /\ handled \in 0 .. events
    BY TorSizes DEF Init
  <2>5. inExec \in BOOLEAN
    BY DEF Init
  <2>6. QED
    BY <2>1, <2>2, <2>3, <2>4, <2>5 DEF TypeOK
<1>3. QED
  BY <1>1, <1>2, EmptySeq DEF Init, LinesInv

LEMMA TorTypeStep ==
  ASSUME LinesInv, [Next]_torVars
  PROVE  LinesInv'
<1> DEFINE Evt == EventLine(events)
           All == Evt \cup ReplyLine
<1>0. /\ TypeOK /\ events \in Nat /\ handled \in Nat /\ events <= MaxEvents
      /\ socket \in Seq(All) /\ line \in All \cup {NoLine}
      /\ rbEvt \in RingOf(RingSize, Evt \cup {NoItem}) /\ HeldEvents \in Seq(Evt)
      /\ rbCmd \in RingOf(RingSize, ReplyLine \cup {NoItem}) /\ HeldReplies \in Seq(ReplyLine)
  BY TorSizes DEF LinesInv, TypeOK
<1>1. CASE ReportEvent
  <2>1. /\ events' = events + 1 /\ events < MaxEvents /\ socket' = Append(socket, Event(events + 1))
        /\ UNCHANGED <<asked, line, rbEvt, rbCmd, inExec, pc, todo, handled, commands>>
        /\ HeldEvents' = HeldEvents /\ HeldReplies' = HeldReplies
    BY <1>1 DEF ReportEvent, HeldEvents, HeldReplies
  <2>2. Evt \subseteq Evt' /\ Event(events + 1) \in Evt'
    BY <1>0, <2>1, MoreEvents
  <2>3. socket \in Seq(All') /\ HeldEvents \in Seq(Evt')
    <3>1. All \subseteq All'
      BY <2>2
    <3> HIDE DEF All, Evt
    <3>2. QED
      BY <1>0, <2>2, <3>1, SeqOfMore
  <2>4. socket' \in Seq(All')
    BY <2>1, <2>2, <2>3, AppendElements
  <2>5. rbEvt \in RingOf(RingSize, Evt' \cup {NoItem})
    <3>1. Evt \cup {NoItem} \subseteq Evt' \cup {NoItem}
      BY <2>2
    <3>2. QED
      BY <1>0, <3>1, RingOfMore
  <2>6. TypeOK'
    BY <1>0, <2>1, TorSizes DEF TypeOK
  <2>7. QED
    BY <1>0, <2>1, <2>2, <2>3, <2>4, <2>5, <2>6 DEF LinesInv
<1>2. CASE AnswerCommand
  <2>1. PICK n \in 1 .. MaxLines :
          socket' = socket \o [i \in 1 .. n |-> Reply(Head(asked), i = n)]
    BY <1>2 DEF AnswerCommand
  <2>2. /\ asked # <<>> /\ asked' = Tail(asked)
        /\ UNCHANGED <<line, rbEvt, rbCmd, inExec, pc, todo, events, handled, commands>>
        /\ HeldEvents' = HeldEvents /\ HeldReplies' = HeldReplies
    BY <1>2 DEF AnswerCommand, HeldEvents, HeldReplies
  <2>3. Tail(asked) \in Seq(Caller) /\ Head(asked) \in Caller
    BY <1>0, <2>2, TailElements DEF TypeOK
  <2>4. [i \in 1 .. n |-> Reply(Head(asked), i = n)] \in Seq(All)
    <3>1. \A i \in 1 .. n : Reply(Head(asked), i = n) \in All
      BY <2>3 DEF Reply, ReplyLine
    <3>2. n \in Nat
      BY TorControllerAssumption
    <3> HIDE DEF All
    <3>3. QED
      BY <3>1, <3>2
  <2>5. socket' \in Seq(All)
    BY <1>0, <2>1, <2>4, ConcatProperties
  <2>6. TypeOK'
    BY <1>0, <2>2, <2>3 DEF TypeOK
  <2>7. QED
    BY <1>0, <2>2, <2>5, <2>6 DEF LinesInv
<1>3. CASE ReadLine
  <2>1. /\ socket # <<>> /\ line' = Head(socket) /\ socket' = Tail(socket)
        /\ UNCHANGED <<asked, rbEvt, rbCmd, inExec, pc, todo, events, handled, commands>>
        /\ HeldEvents' = HeldEvents /\ HeldReplies' = HeldReplies
    BY <1>3 DEF ReadLine, HeldEvents, HeldReplies
  <2>2. Tail(socket) \in Seq(All) /\ Head(socket) \in All
    BY <1>0, <2>1, TailElements
  <2>3. line'.kind \in {"event", "reply"}
    BY <2>1, <2>2, LineKinds
  <2>4. TypeOK'
    BY <1>0, <2>1, <2>3 DEF TypeOK
  <2>5. QED
    BY <1>0, <2>1, <2>2, <2>4 DEF LinesInv
<1>4. CASE DispatchEvent
  <2>1. /\ line.kind = "event" /\ rbEvt' = RingPut(rbEvt, RingSize, line) /\ line' = NoLine
        /\ UNCHANGED <<socket, asked, rbCmd, inExec, pc, todo, events, handled, commands>>
        /\ HeldReplies' = HeldReplies
    BY <1>4 DEF DispatchEvent, HeldReplies
  <2>2. line \in Evt
    BY <1>0, <2>1, LineKinds
  <2>3. /\ rbEvt' \in RingOf(RingSize, Evt \cup {NoItem}) /\ HeldEvents' \in Seq(Evt)
    BY <1>0, <2>1, <2>2, PutLine DEF HeldEvents
  <2>4. TypeOK'
    BY <1>0, <2>1, <2>3, Indices, LineKinds DEF TypeOK
  <2>5. QED
    BY <1>0, <2>1, <2>3, <2>4 DEF LinesInv
<1>5. CASE DispatchReply
  <2>1. /\ line.kind = "reply" /\ rbCmd' = RingPut(rbCmd, RingSize, line) /\ line' = NoLine
        /\ UNCHANGED <<socket, asked, rbEvt, inExec, pc, todo, events, handled, commands>>
        /\ HeldEvents' = HeldEvents
    BY <1>5 DEF DispatchReply, HeldEvents
  <2>2. line \in ReplyLine
    BY <1>0, <2>1, LineKinds
  <2>3. /\ rbCmd' \in RingOf(RingSize, ReplyLine \cup {NoItem}) /\ HeldReplies' \in Seq(ReplyLine)
    BY <1>0, <2>1, <2>2, PutLine DEF HeldReplies
  <2>4. TypeOK'
    BY <1>0, <2>1, <2>3, Indices, LineKinds DEF TypeOK
  <2>5. QED
    BY <1>0, <2>1, <2>3, <2>4 DEF LinesInv
<1>6. ASSUME NEW t \in Caller, StartCommand(t) \/ BeginAndSend(t)
      PROVE  LinesInv'
  <2>1. /\ UNCHANGED <<socket, line, rbEvt, rbCmd, events, handled>>
        /\ HeldEvents' = HeldEvents /\ HeldReplies' = HeldReplies
    BY <1>6 DEF StartCommand, BeginAndSend, HeldEvents, HeldReplies
  <2>2. asked' \in Seq(Caller) /\ inExec' \in BOOLEAN
    <3>1. asked \in Seq(Caller) /\ inExec \in BOOLEAN
      BY <1>0 DEF TypeOK
    <3>2. asked' = asked \/ asked' = Append(asked, t)
      BY <1>6 DEF StartCommand, BeginAndSend
    <3>3. inExec' = inExec \/ inExec' = TRUE
      BY <1>6 DEF StartCommand, BeginAndSend
    <3>4. QED
      BY <3>1, <3>2, <3>3, AppendElements
  <2>3. pc' \in [Caller -> Step]
    BY <1>0, <1>6 DEF StartCommand, BeginAndSend, TypeOK, Step
  <2>4. todo' \in 0 .. MaxPerEvent /\ commands' \in 0 .. MaxCommands
    <3>1. /\ todo \in Nat /\ todo <= MaxPerEvent
          /\ commands \in Nat /\ commands <= MaxCommands
      BY <1>0, TorSizes DEF TypeOK
    <3>2. CASE StartCommand(t)
      BY <3>1, <3>2, TorSizes DEF StartCommand
    <3>3. CASE BeginAndSend(t)
      BY <3>1, <3>3, TorSizes DEF BeginAndSend
    <3>4. QED
      BY <1>6, <3>2, <3>3
  <2>5. TypeOK'
    BY <1>0, <2>1, <2>2, <2>3, <2>4 DEF TypeOK
  <2>6. QED
    BY <1>0, <2>1, <2>5 DEF LinesInv
<1>7. ASSUME NEW t \in Caller, GetReply(t)
      PROVE  LinesInv'
  <2>1. /\ ~RingEmpty(rbCmd) /\ rbCmd' = RingGet(rbCmd, RingSize)
        /\ UNCHANGED <<socket, asked, line, rbEvt, todo, events, handled, commands>>
        /\ HeldEvents' = HeldEvents
    BY <1>7 DEF GetReply, HeldEvents
  <2>2. pc' \in [Caller -> Step] /\ inExec' \in BOOLEAN
    BY <1>0, <1>7 DEF GetReply, TypeOK, Step
  <2>3. /\ rbCmd' \in RingOf(RingSize, ReplyLine \cup {NoItem}) /\ HeldReplies' \in Seq(ReplyLine)
    BY <1>0, <2>1, GetLine DEF HeldReplies
  <2>4. TypeOK'
    BY <1>0, <2>1, <2>2, <2>3, Indices DEF TypeOK
  <2>5. QED
    BY <1>0, <2>1, <2>3, <2>4 DEF LinesInv
<1>8. CASE TakeEvent
  <2>1. /\ ~RingEmpty(rbEvt) /\ rbEvt' = RingGet(rbEvt, RingSize)
        /\ handled' = RingNext(rbEvt).number /\ todo' \in 0 .. MaxPerEvent
        /\ UNCHANGED <<socket, asked, line, rbCmd, inExec, pc, events, commands>>
        /\ HeldReplies' = HeldReplies
    BY <1>8 DEF TakeEvent, HeldReplies
  <2>2. /\ rbEvt' \in RingOf(RingSize, Evt \cup {NoItem}) /\ HeldEvents' \in Seq(Evt)
        /\ RingNext(rbEvt) \in Evt
    BY <1>0, <2>1, GetLine DEF HeldEvents
  <2>3. handled' \in 0 .. events
    BY <2>1, <2>2, LineKinds
  <2>4. TypeOK'
    BY <1>0, <2>1, <2>2, <2>3, Indices DEF TypeOK
  <2>5. QED
    BY <1>0, <2>1, <2>2, <2>4 DEF LinesInv
<1>9. CASE UNCHANGED torVars
  BY <1>9 DEF torVars, LinesInv, TypeOK, HeldEvents, HeldReplies
<1>10. QED
  BY <1>1, <1>2, <1>3, <1>4, <1>5, <1>6, <1>7, <1>8, <1>9 DEF Next, Tor, Reader, Command

(* Every variable keeps its type: no index leaves the slots, and no event   *)
(* is handled that Tor has not reported.                                    *)
THEOREM TorTypeCorrect == Spec => []TypeOK
<1>1. LinesInv => TypeOK
  BY DEF LinesInv
<1>2. QED
  BY <1>1, TorTypeInit, TorTypeStep, PTL DEF Spec

-----------------------------------------------------------------------------
(* The lock, and whose replies are under way.                               *)
LEMMA TorInit == Init => TorInv
<1> SUFFICES ASSUME Init PROVE TorInv
  OBVIOUS
<1>1. socket = <<>> /\ line = NoLine /\ asked = <<>> /\ HeldReplies = <<>>
  BY TorSizes, EmptyContent DEF Init, HeldReplies
<1>2. InCommand = {}
  BY DEF Init, InCommand
<1>3. LockInv
  BY <1>1, <1>2 DEF LockInv
<1>4. RepliesInv
  BY <1>1, EmptyLines, LineKinds DEF RepliesInv
<1>5. QED
  BY <1>3, <1>4, TorTypeInit DEF TorInv

(* Without a command in hand nothing is under way.                          *)
LEMMA NothingExpected ==
  ASSUME LinesInv, LockInv, RepliesInv, InCommand = {}
  PROVE  /\ NoReplyIn(socket) /\ ~IsReply(line) /\ HeldReplies = <<>>
         /\ asked = <<>>
<1> DEFINE All == EventLine(events) \cup ReplyLine
           H == HeldReplies
<1>1. /\ socket \in Seq(All) /\ line \in All \cup {NoLine} /\ H \in Seq(ReplyLine)
      /\ Expected(socket, pc) /\ Expected(H, pc)
      /\ IsReply(line) => pc[line.to] = "reply"
  BY DEF LinesInv, RepliesInv
<1>2. \A t \in Caller : pc[t] # "reply"
  BY DEF InCommand
<1>3. \A l \in All \cup {NoLine} : IsReply(l) => l \in ReplyLine /\ l.to \in Caller
  BY LineKinds
<1> HIDE DEF All, H
<1>4. NoReplyIn(socket)
  <2>1. \A i \in 1 .. Len(socket) : socket[i] \in All
    BY <1>1, ElementOfSeq
  <2>2. QED
    BY <1>1, <1>2, <1>3, <2>1 DEF NoReplyIn, Expected
<1>5. ~IsReply(line)
  BY <1>1, <1>2, <1>3
<1>6. H = <<>>
  <2>1. SUFFICES ASSUME H # <<>> PROVE FALSE
    OBVIOUS
  <2>2. 1 \in 1 .. Len(H) /\ H[1] \in ReplyLine
    BY <1>1, <2>1, TailElements
  <2>3. IsReply(H[1]) /\ H[1].to \in Caller
    BY <2>2, LineKinds
  <2>4. QED
    BY <1>1, <1>2, <2>2, <2>3 DEF Expected
<1>7. QED
  BY <1>4, <1>5, <1>6 DEF LockInv, H

(* What is expected is still expected when no command ends.                 *)
LEMMA StillExpected ==
  ASSUME NEW S, NEW q \in Seq(S), NEW at, NEW later, Expected(q, at),
         \A l \in S : IsReply(l) /\ at[l.to] = "reply" => later[l.to] = "reply"
  PROVE  Expected(q, later)
<1>1. \A i \in 1 .. Len(q) : q[i] \in S
  BY ElementOfSeq
<1>2. QED
  BY <1>1 DEF Expected

(* Every step but those of the replies themselves.                          *)
LEMMA TorStep ==
  ASSUME TorInv, [Next]_torVars
  PROVE  LockInv' /\ RepliesInv'
<1> DEFINE All == EventLine(events) \cup ReplyLine
           H == HeldReplies
<1>0. /\ LinesInv /\ LockInv /\ RepliesInv /\ LinesInv'
      /\ socket \in Seq(All) /\ line \in All \cup {NoLine}
      /\ H \in Seq(ReplyLine) /\ pc \in [Caller -> Step] /\ events \in Nat
      /\ asked \in Seq(Caller)
  <2>1. LinesInv /\ LockInv /\ RepliesInv /\ LinesInv'
    BY TorTypeStep DEF TorInv
  <2>2. /\ TypeOK /\ socket \in Seq(All) /\ line \in All \cup {NoLine}
        /\ H \in Seq(ReplyLine)
    BY <2>1 DEF LinesInv
  <2>3. pc \in [Caller -> Step] /\ events \in Nat /\ asked \in Seq(Caller)
    BY <2>2, TorSizes DEF TypeOK
  <2>4. QED
    BY <2>1, <2>2, <2>3
<1> HIDE DEF All
<1>1. CASE ReportEvent
  <2>1. /\ socket' = Append(socket, Event(events + 1))
        /\ UNCHANGED <<asked, line, rbCmd, inExec, pc>> /\ H' = H
        /\ InCommand' = InCommand
    BY <1>1 DEF ReportEvent, HeldReplies, InCommand
  <2>2. ~IsReply(Event(events + 1))
    BY DEF IsReply, Event
  <2>3. /\ NoReplyIn(socket) => NoReplyIn(socket')
        /\ Expected(socket, pc) => Expected(socket', pc)
        /\ FinalIsLast(socket) => FinalIsLast(socket')
    <3> DEFINE T == All \cup {Event(events + 1)}
    <3>1. socket \in Seq(T) /\ Event(events + 1) \in T
      BY <1>0, SeqOfMore
    <3> HIDE DEF T
    <3>2. QED
      BY <2>1, <2>2, <3>1, AppendLines
  <2>4. QED
    BY <1>0, <2>1, <2>3 DEF LockInv, RepliesInv
<1>2. CASE AnswerCommand
  <2>1. PICK n \in 1 .. MaxLines :
          socket' = socket \o [i \in 1 .. n |-> Reply(Head(asked), i = n)]
    BY <1>2 DEF AnswerCommand
  <2>2. /\ asked # <<>> /\ asked' = Tail(asked)
        /\ UNCHANGED <<line, rbCmd, inExec, pc>> /\ H' = H /\ InCommand' = InCommand
    BY <1>2 DEF AnswerCommand, HeldReplies, InCommand
  <2>3. /\ asked' = <<>> /\ Head(asked) \in InCommand
        /\ NoReplyIn(socket) /\ ~IsReply(line) /\ H = <<>>
    <3>1. /\ \E t \in InCommand : asked = <<t>>
          /\ NoReplyIn(socket) /\ ~IsReply(line) /\ H = <<>>
      BY <1>0, <2>2 DEF LockInv
    <3>2. QED
      BY <2>2, <3>1
  <2> DEFINE who == Head(asked)
             m == Len(socket)
  <2>4. n \in Nat /\ m \in Nat /\ pc[who] = "reply"
    BY <1>0, <2>3, LenProperties, TorControllerAssumption DEF InCommand
  <2>5. /\ Len(socket') = m + n
        /\ \A i \in 1 .. m : ~IsReply(socket'[i])
        /\ \A i \in m + 1 .. m + n : socket'[i] = Reply(who, i = m + n)
    <3> DEFINE more == [i \in 1 .. n |-> Reply(Head(asked), i = n)]
               Any == All \cup {Reply(who, TRUE), Reply(who, FALSE)}
    <3>1. \A i \in 1 .. n : more[i] = Reply(who, i = n) /\ more[i] \in Any
      OBVIOUS
    <3>2. more \in Seq(Any) /\ Len(more) = n
      <4> HIDE DEF Any
      <4>1. QED
        BY <2>4, <3>1
    <3>3. socket \in Seq(Any)
      BY <1>0, SeqOfMore
    <3>4. socket' = socket \o more
      BY <2>1
    <3> HIDE DEF more, Any
    <3>5. /\ Len(socket') = m + n
          /\ \A i \in 1 .. m : socket'[i] = socket[i]
          /\ \A i \in m + 1 .. m + n : socket'[i] = more[i - m]
      BY <2>4, <3>2, <3>3, <3>4, ConcatElements
    <3>6. \A i \in m + 1 .. m + n : i - m \in 1 .. n /\ (i - m = n <=> i = m + n)
      BY <2>4
    <3>7. \A i \in m + 1 .. m + n : socket'[i] = Reply(who, i = m + n)
      BY <3>1, <3>5, <3>6
    <3>8. \A i \in 1 .. m : ~IsReply(socket'[i])
      BY <2>3, <3>5 DEF NoReplyIn
    <3>9. QED
      BY <3>5, <3>7, <3>8
  <2>6. \A i \in 1 .. Len(socket') : i \in 1 .. m \/ i \in m + 1 .. m + n
    BY <2>4, <2>5
  <2>7. \A i \in 1 .. Len(socket') :
          IsReply(socket'[i]) =>
            i \in m + 1 .. m + n /\ socket'[i].to = who /\ (socket'[i].final => i = m + n)
    <3>1. SUFFICES ASSUME NEW i \in 1 .. Len(socket'), IsReply(socket'[i])
                   PROVE  /\ i \in m + 1 .. m + n /\ socket'[i].to = who
                          /\ socket'[i].final => i = m + n
      OBVIOUS
    <3>2. i \in m + 1 .. m + n
      BY <2>5, <2>6, <3>1
    <3>3. socket'[i] = Reply(who, i = m + n)
      BY <2>5, <3>2
    <3>4. socket'[i].to = who /\ (socket'[i].final => i = m + n)
      BY <3>3, ReplyFields
    <3>5. QED
      BY <3>2, <3>4
  <2>8. Expected(socket', pc)
    BY <2>4, <2>7 DEF Expected
  <2>9. FinalIsLast(socket')
    <3>1. SUFFICES ASSUME NEW i \in 1 .. Len(socket'), NEW j \in 1 .. Len(socket'), i < j,
                          IsReply(socket'[i]), socket'[i].final
                   PROVE  FALSE
      BY DEF FinalIsLast
    <3>2. i = m + n
      BY <2>7, <3>1
    <3>3. QED
      BY <2>4, <2>5, <3>1, <3>2
  <2>10. LockInv'
    BY <1>0, <2>2, <2>3 DEF LockInv
  <2>11. RepliesInv'
    BY <1>0, <2>2, <2>3, <2>8, <2>9 DEF RepliesInv
  <2>12. QED
    BY <2>10, <2>11
<1>3. CASE ReadLine
  <2>1. /\ line = NoLine /\ socket # <<>> /\ line' = Head(socket) /\ socket' = Tail(socket)
        /\ UNCHANGED <<asked, rbCmd, inExec, pc>> /\ H' = H /\ InCommand' = InCommand
    BY <1>3 DEF ReadLine, HeldReplies, InCommand
  <2>2. /\ NoReplyIn(socket) => NoReplyIn(socket') /\ ~IsReply(line')
        /\ Expected(socket', pc) /\ (IsReply(line') => pc[line'.to] = "reply")
        /\ FinalIsLast(socket')
        /\ IsReply(line') /\ line'.final => NoReplyIn(socket')
    BY <1>0, <2>1, TailLines DEF RepliesInv
  <2>3. QED
    BY <1>0, <2>1, <2>2 DEF LockInv, RepliesInv
<1>4. CASE DispatchEvent
  <2>1. /\ line.kind = "event" /\ line' = NoLine
        /\ UNCHANGED <<socket, asked, rbCmd, inExec, pc>> /\ H' = H /\ InCommand' = InCommand
    BY <1>4 DEF DispatchEvent, HeldReplies, InCommand
  <2>2. ~IsReply(line) /\ ~IsReply(line')
    BY <2>1, LineKinds DEF IsReply
  <2>3. QED
    BY <1>0, <2>1, <2>2 DEF LockInv, RepliesInv
<1>5. CASE DispatchReply
  <2>1. /\ line.kind = "reply" /\ rbCmd' = RingPut(rbCmd, RingSize, line) /\ line' = NoLine
        /\ UNCHANGED <<socket, asked, inExec, pc>> /\ InCommand' = InCommand
    BY <1>5 DEF DispatchReply, InCommand
  <2>2. line \in ReplyLine /\ IsReply(line) /\ ~IsReply(line')
    BY <1>0, <2>1, LineKinds DEF IsReply, All
  <2>3. asked = <<>> /\ \A i \in 1 .. Len(H) : ~H[i].final
    BY <1>0, <2>2 DEF LockInv, RepliesInv
  <2>4. H' = Append(H, line) \/ H' = <<>>
    BY <1>0, <2>1, <2>2, PutLine DEF HeldReplies, LinesInv
  <2>5. Expected(H', pc) /\ FinalIsLast(H')
    <3>1. CASE H' = Append(H, line)
      BY <1>0, <2>2, <2>3, <3>1, AppendLines DEF RepliesInv
    <3>2. CASE H' = <<>>
      BY <3>2, EmptyLines
    <3>3. QED
      BY <2>4, <3>1, <3>2
  <2>6. (\E i \in 1 .. Len(H') : H'[i].final) => NoReplyIn(socket)
    <3>1. CASE H' = Append(H, line)
      <4>1. /\ Len(H) \in Nat /\ Len(H') = Len(H) + 1 /\ H'[Len(H) + 1] = line
            /\ \A i \in 1 .. Len(H) : H'[i] = H[i]
        BY <1>0, <2>2, <3>1, AppendElements
      <4>2. \A i \in 1 .. Len(H') : i \in 1 .. Len(H) \/ i = Len(H) + 1
        BY <4>1
      <4>3. (\E i \in 1 .. Len(H') : H'[i].final) => line.final
        BY <2>3, <4>1, <4>2
      <4>4. QED
        BY <1>0, <2>2, <4>3 DEF RepliesInv
    <3>2. CASE H' = <<>>
      BY <3>2
    <3>3. QED
      BY <2>4, <3>1, <3>2
  <2>7. QED
    BY <1>0, <2>1, <2>2, <2>3, <2>5, <2>6 DEF LockInv, RepliesInv
<1>6. ASSUME NEW t \in Caller, StartCommand(t)
      PROVE  LockInv' /\ RepliesInv'
  <2>1. /\ pc[t] = "idle" /\ pc' = [pc EXCEPT ![t] = "begin"]
        /\ UNCHANGED <<socket, asked, line, rbCmd, inExec>> /\ H' = H
    BY <1>6 DEF StartCommand, HeldReplies
  <2>2. \A u \in Caller : pc'[u] = "reply" <=> pc[u] = "reply"
    BY <1>0, <2>1
  <2>3. InCommand' = InCommand
    BY <2>2 DEF InCommand
  <2>4. \A l \in All \cup {NoLine} : IsReply(l) => pc'[l.to] = "reply" \/ pc[l.to] # "reply"
    BY <2>2, LineKinds DEF All
  <2>5. Expected(socket, pc') /\ Expected(H, pc')
    <3>1. \A l \in All : IsReply(l) /\ pc[l.to] = "reply" => pc'[l.to] = "reply"
      BY <2>4
    <3>2. \A l \in ReplyLine : IsReply(l) /\ pc[l.to] = "reply" => pc'[l.to] = "reply"
      BY <2>2, LineKinds
    <3>3. Expected(socket, pc) /\ Expected(H, pc)
      BY <1>0 DEF RepliesInv
    <3>4. Expected(socket, pc')
      <4>1. socket \in Seq(All)
        BY <1>0
      <4> HIDE DEF All, H
      <4>2. QED
        BY <4>1, <3>1, <3>3, StillExpected
    <3>5. Expected(H, pc')
      <4>1. H \in Seq(ReplyLine)
        BY <1>0
      <4> HIDE DEF H
      <4>2. QED
        BY <4>1, <3>2, <3>3, StillExpected
    <3>6. QED
      BY <3>4, <3>5
  <2>6. QED
    BY <1>0, <2>1, <2>3, <2>4, <2>5 DEF LockInv, RepliesInv
<1>7. ASSUME NEW t \in Caller, BeginAndSend(t)
      PROVE  LockInv' /\ RepliesInv'
  <2>1. /\ ~inExec /\ inExec' = TRUE /\ asked' = Append(asked, t)
        /\ pc' = [pc EXCEPT ![t] = "reply"]
        /\ UNCHANGED <<socket, line, rbCmd>> /\ H' = H
    BY <1>7 DEF BeginAndSend, HeldReplies
  <2>2. InCommand = {} /\ InCommand' = {t}
    <3>1. InCommand = {}
      BY <1>0, <2>1 DEF LockInv
    <3>2. QED
      BY <1>0, <2>1, <3>1 DEF InCommand
  <2>3. NoReplyIn(socket) /\ ~IsReply(line) /\ H = <<>> /\ asked = <<>>
    BY <1>0, <2>2, NothingExpected
  <2>4. asked' = <<t>>
    BY <2>1, <2>3
  <2>5. Expected(socket, pc') /\ FinalIsLast(socket)
    BY <2>3 DEF NoReplyIn, Expected, FinalIsLast
  <2>6. LockInv'
    BY <2>1, <2>2, <2>3, <2>4 DEF LockInv
  <2>7. RepliesInv'
    BY <2>1, <2>3, <2>5, EmptyLines DEF RepliesInv
  <2>8. QED
    BY <2>6, <2>7
<1>8. ASSUME NEW t \in Caller, GetReply(t)
      PROVE  LockInv' /\ RepliesInv'
  <2>1. /\ pc[t] = "reply" /\ ~RingEmpty(rbCmd) /\ rbCmd' = RingGet(rbCmd, RingSize)
        /\ UNCHANGED <<socket, asked, line>>
        /\ t \in InCommand
    BY <1>8 DEF GetReply, InCommand
  <2>2. /\ H' = Tail(H) /\ H # <<>> /\ RingNext(rbCmd) = Head(H) /\ Head(H) \in ReplyLine
    BY <1>0, <2>1, GetLine DEF HeldReplies, LinesInv
  <2>3. /\ asked = <<>> /\ IsReply(Head(H)) /\ Expected(H', pc) /\ FinalIsLast(H')
        /\ Head(H).final => NoReplyIn(H')
    BY <1>0, <2>2, LineKinds, TailLines DEF LockInv, RepliesInv
  <2>4. /\ 1 \in 1 .. Len(H) /\ Head(H) = H[1] /\ H' \in Seq(ReplyLine)
        /\ \A i \in 1 .. Len(H') : i + 1 \in 1 .. Len(H) /\ H'[i] = H[i + 1]
    BY <1>0, <2>2, TailElements
  <2>5. CASE Head(H).final
    <3>1. /\ pc' = [pc EXCEPT ![t] = "idle"] /\ inExec' = FALSE
      BY <1>8, <2>2, <2>5 DEF GetReply
    <3>2. InCommand' = {}
      BY <1>0, <2>1, <3>1 DEF LockInv, InCommand
    <3>3. NoReplyIn(socket) /\ ~IsReply(line)
      BY <1>0, <2>4, <2>5 DEF RepliesInv
    <3>4. H' = <<>>
      <4>1. SUFFICES ASSUME H' # <<>> PROVE FALSE
        OBVIOUS
      <4>2. 1 \in 1 .. Len(H') /\ H'[1] \in ReplyLine
        BY <2>4, <4>1, TailElements
      <4>3. QED
        BY <2>3, <2>5, <4>2, LineKinds DEF NoReplyIn
    <3>5. Expected(socket, pc') /\ FinalIsLast(socket)
      BY <3>3 DEF NoReplyIn, Expected, FinalIsLast
    <3>6. LockInv'
      BY <2>1, <2>3, <3>2 DEF LockInv
    <3>7. RepliesInv'
      BY <2>1, <3>3, <3>4, <3>5, EmptyLines DEF RepliesInv
    <3>8. QED
      BY <3>6, <3>7
  <2>6. CASE ~Head(H).final
    <3>1. UNCHANGED <<pc, inExec>> /\ InCommand' = InCommand
      BY <1>8, <2>2, <2>6 DEF GetReply, InCommand
    <3>2. (\E i \in 1 .. Len(H') : H'[i].final) => \E i \in 1 .. Len(H) : H[i].final
      BY <2>4
    <3>3. QED
      BY <1>0, <2>1, <2>3, <3>1, <3>2 DEF LockInv, RepliesInv
  <2>7. QED
    BY <2>5, <2>6
<1>9. CASE TakeEvent \/ UNCHANGED torVars
  <2>1. UNCHANGED <<socket, asked, line, rbCmd, inExec, pc>> /\ H' = H /\ InCommand' = InCommand
    BY <1>9 DEF TakeEvent, torVars, HeldReplies, InCommand
  <2>2. QED
    BY <1>0, <2>1 DEF LockInv, RepliesInv
<1>10. QED
  BY <1>1, <1>2, <1>3, <1>4, <1>5, <1>6, <1>7, <1>8, <1>9 DEF Next, Tor, Reader, Command

(* The invariant says of every line under way that it is expected.          *)
LEMMA ExpectedMatch ==
  ASSUME TorInv
  PROVE  RepliesMatch
<1> DEFINE All == EventLine(events) \cup ReplyLine
           H == HeldReplies
<1>1. /\ socket \in Seq(All) /\ line \in All \cup {NoLine} /\ H \in Seq(ReplyLine)
      /\ Expected(socket, pc) /\ Expected(H, pc)
      /\ IsReply(line) => pc[line.to] = "reply"
  BY DEF TorInv, LinesInv, RepliesInv
<1>2. \A l \in All \cup {NoLine} : IsReply(l) => l \in ReplyLine /\ l.to \in Caller
  BY LineKinds
<1> HIDE DEF All
<1>3. /\ DOMAIN socket = 1 .. Len(socket) /\ DOMAIN H = 1 .. Len(H)
      /\ \A i \in 1 .. Len(socket) : socket[i] \in All
      /\ \A i \in 1 .. Len(H) : H[i] \in ReplyLine
  BY <1>1, LenProperties, ElementOfSeq
<1>4. SUFFICES ASSUME NEW l, IsReply(l),
                      \/ \E i \in 1 .. Len(socket) : l = socket[i]
                      \/ l = line
                      \/ \E i \in 1 .. Len(H) : l = H[i]
               PROVE  l.to \in Caller /\ pc[l.to] = "reply"
  BY <1>3 DEF RepliesMatch, RepliesUnderWay, InCommand, IsReply, HeldReplies
<1>5. CASE \E i \in 1 .. Len(socket) : l = socket[i]
  BY <1>1, <1>2, <1>3, <1>4, <1>5 DEF Expected
<1>6. CASE l = line
  BY <1>1, <1>2, <1>4, <1>6
<1>7. CASE \E i \in 1 .. Len(H) : l = H[i]
  BY <1>1, <1>3, <1>4, <1>7, LineKinds DEF Expected
<1>8. QED
  BY <1>4, <1>5, <1>6, <1>7

(* A command gets the reply to what it asked, even when the buffer of       *)
(* replies overruns itself.                                                 *)
THEOREM RepliesCorrect == Spec => []RepliesMatch
<1>1. TorInv /\ [Next]_torVars => TorInv'
  BY TorStep, TorTypeStep DEF TorInv
<1>2. QED
  BY <1>1, TorInit, ExpectedMatch, PTL DEF Spec
=============================================================================
