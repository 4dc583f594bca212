---------------------------- MODULE TorController ----------------------------
(***************************************************************************)
(* The client's side of Tor's control port.  A reader thread sorts Tor's   *)
(* lines into two ring buffers, one of events and one of replies; an event *)
(* thread handles the events; and any thread, the event thread among them, *)
(* runs commands: it takes the command lock, sends, and gets reply lines   *)
(* until the one that ends the reply.                                      *)
(*                                                                         *)
(* A thread blocked on a buffer is one whose action is not enabled: that   *)
(* no wake-up is lost is the business of RingBuffer.  Tor is external: it  *)
(* answers commands in order and reports events when it likes.             *)
(***************************************************************************)
EXTENDS Ring, FiniteSets

CONSTANTS
  Commander,      (* the other threads that run commands: proxy and CLI      *)
  Handler,        (* the event thread                                        *)
  RingSize,       (* the size of both buffers                                *)
  MaxLines,       (* bound: lines of a reply                                 *)
  MaxEvents,      (* bound: events                                           *)
  MaxCommands,    (* bound: commands of the commanders                       *)
  MaxPerEvent     (* bound: commands run by the handler of one event         *)

ASSUME TorControllerAssumption ==
  /\ Handler \notin Commander
  /\ RingSize \in Nat /\ RingSize > 1
  /\ MaxLines \in Nat \ {0}
  /\ {MaxEvents, MaxCommands, MaxPerEvent} \subseteq Nat

VARIABLES
  socket,    (* the lines Tor has sent and nobody has read                   *)
  asked,     (* the commands Tor has not answered, by thread                 *)
  line,      (* the line in the reader's hands, or NoLine                    *)
  rbEvt,     (* _rb_evt                                                      *)
  rbCmd,     (* _rb_cmd                                                      *)
  inExec,    (* _cmd_in_exec                                                 *)
  pc,        (* what each thread that runs commands is doing                 *)
  todo,      (* commands the event in hand still leads to                    *)
  events,    (* how many events Tor has reported                             *)
  handled,   (* the number of the last event taken                           *)
  commands   (* how many commands the commanders have begun                  *)

torVars == <<socket, asked, line, rbEvt, rbCmd, inExec, pc, todo, events, handled,
             commands>>

Caller == Commander \cup {Handler}

NoLine == [kind |-> "none"]
Event(n) == [kind |-> "event", number |-> n]
Reply(t, final) == [kind |-> "reply", to |-> t, final |-> final]

(* "idle": outside a command; "begin": before beginCmd; "reply": in         *)
(* _rb_cmd->get.                                                            *)
Step == {"idle", "begin", "reply"}

-----------------------------------------------------------------------------
(* Tor. *)
ReportEvent ==
  /\ events < MaxEvents
  /\ events' = events + 1
  /\ socket' = Append(socket, Event(events'))
  /\ UNCHANGED <<asked, line, rbEvt, rbCmd, inExec, pc, todo, handled, commands>>

AnswerCommand ==
  /\ asked # <<>>
  /\ asked' = Tail(asked)
  /\ \E n \in 1 .. MaxLines :
       socket' = socket \o [i \in 1 .. n |-> Reply(Head(asked), i = n)]
  /\ UNCHANGED <<line, rbEvt, rbCmd, inExec, pc, todo, events, handled, commands>>

-----------------------------------------------------------------------------
(* threadMain. *)
ReadLine ==
  /\ line = NoLine
  /\ socket # <<>>
  /\ line' = Head(socket)
  /\ socket' = Tail(socket)
  /\ UNCHANGED <<asked, rbEvt, rbCmd, inExec, pc, todo, events, handled, commands>>

(* Faulty: events are held back while a command runs. *)
DispatchEventOutsideCommands ==
  /\ line.kind = "event"
  /\ ~inExec
  /\ ~RingFull(rbEvt, RingSize)
  /\ rbEvt' = RingPut(rbEvt, RingSize, line)
  /\ line' = NoLine
  /\ UNCHANGED <<socket, asked, rbCmd, inExec, pc, todo, events, handled, commands>>

DispatchEvent ==
  /\ line.kind = "event"
  /\ ~RingFull(rbEvt, RingSize)
  /\ rbEvt' = RingPut(rbEvt, RingSize, line)
  /\ line' = NoLine
  /\ UNCHANGED <<socket, asked, rbCmd, inExec, pc, todo, events, handled, commands>>

DispatchReply ==
  /\ line.kind = "reply"
  /\ ~RingFull(rbCmd, RingSize)
  /\ rbCmd' = RingPut(rbCmd, RingSize, line)
  /\ line' = NoLine
  /\ UNCHANGED <<socket, asked, rbEvt, inExec, pc, todo, events, handled, commands>>

-----------------------------------------------------------------------------
(* The commands. *)
StartCommand(t) ==
  /\ pc[t] = "idle"
  /\ \/ /\ t \in Commander
        /\ commands < MaxCommands
        /\ commands' = commands + 1
        /\ UNCHANGED todo
     \/ /\ t = Handler
        /\ todo > 0
        /\ todo' = todo - 1
        /\ UNCHANGED commands
  /\ pc' = [pc EXCEPT ![t] = "begin"]
  /\ UNCHANGED <<socket, asked, line, rbEvt, rbCmd, inExec, events, handled>>

(* Faulty: the lock is not looked at. *)
BeginAndSendUnlocked(t) ==
  /\ pc[t] = "begin"
  /\ inExec' = TRUE
  /\ asked' = Append(asked, t)
  /\ pc' = [pc EXCEPT ![t] = "reply"]
  /\ UNCHANGED <<socket, line, rbEvt, rbCmd, todo, events, handled, commands>>

(* beginCmd and send. *)
BeginAndSend(t) ==
  /\ pc[t] = "begin"
  /\ ~inExec
  /\ inExec' = TRUE
  /\ asked' = Append(asked, t)
  /\ pc' = [pc EXCEPT ![t] = "reply"]
  /\ UNCHANGED <<socket, line, rbEvt, rbCmd, todo, events, handled, commands>>

(* One line of the reply; endCmd with the last one. *)
GetReply(t) ==
  /\ pc[t] = "reply"
  /\ ~RingEmpty(rbCmd)
  /\ rbCmd' = RingGet(rbCmd, RingSize)
  /\ IF RingNext(rbCmd).final
     THEN pc' = [pc EXCEPT ![t] = "idle"] /\ inExec' = FALSE
     ELSE UNCHANGED <<pc, inExec>>
  /\ UNCHANGED <<socket, asked, line, rbEvt, todo, events, handled, commands>>

(* threadEvent takes an event when it is done with the one before; its      *)
(* handler will run some commands.                                          *)
TakeEvent ==
  /\ pc[Handler] = "idle"
  /\ todo = 0
  /\ ~RingEmpty(rbEvt)
  /\ rbEvt' = RingGet(rbEvt, RingSize)
  /\ handled' = RingNext(rbEvt).number
  /\ todo' \in 0 .. MaxPerEvent
  /\ UNCHANGED <<socket, asked, line, rbCmd, inExec, pc, events, commands>>

-----------------------------------------------------------------------------
Init ==
  /\ socket = <<>>
  /\ asked = <<>>
  /\ line = NoLine
  /\ rbEvt = EmptyRing(RingSize)
  /\ rbCmd = EmptyRing(RingSize)
  /\ inExec = FALSE
  /\ pc = [t \in Caller |-> "idle"]
  /\ todo = 0
  /\ events = 0
  /\ handled = 0
  /\ commands = 0

Tor == ReportEvent \/ AnswerCommand
Reader == ReadLine \/ DispatchEvent \/ DispatchReply
Command(t) == StartCommand(t) \/ BeginAndSend(t) \/ GetReply(t)

Next == Tor \/ Reader \/ (\E t \in Caller : Command(t)) \/ TakeEvent

(***************************************************************************)
(* Tor answers, the reader reads, the event thread and a thread in a       *)
(* command go on.  Nobody has to report an event or to begin a command.    *)
(***************************************************************************)
Fairness ==
  /\ WF_torVars(AnswerCommand)
  /\ WF_torVars(Reader)
  /\ WF_torVars(TakeEvent)
  /\ WF_torVars(StartCommand(Handler))
  /\ \A t \in Caller : WF_torVars(GetReply(t)) /\ WF_torVars(BeginAndSend(t))

Spec == Init /\ [][Next]_torVars /\ Fairness

-----------------------------------------------------------------------------
InCommand == {t \in Caller : pc[t] = "reply"}

(* The lines on their way to the commands. *)
RepliesUnderWay ==
  {l \in {socket[i] : i \in DOMAIN socket} \cup {line}
         \cup {Content(rbCmd, RingSize)[i] : i \in DOMAIN Content(rbCmd, RingSize)} :
     l.kind = "reply"}

(* Every variable has its type. *)
TypeOK ==
  /\ asked \in Seq(Caller)
  /\ line.kind \in {"none", "event", "reply"}
  /\ rbEvt.head \in 0 .. RingSize - 1 /\ rbEvt.tail \in 0 .. RingSize - 1
  /\ rbCmd.head \in 0 .. RingSize - 1 /\ rbCmd.tail \in 0 .. RingSize - 1
  /\ inExec \in BOOLEAN
  /\ pc \in [Caller -> Step]
  /\ todo \in 0 .. MaxPerEvent
  /\ events \in 0 .. MaxEvents /\ handled \in 0 .. events
  /\ commands \in 0 .. MaxCommands

(* A command gets the reply to what it asked: no line under way belongs to  *)
(* a command that has returned, or to another thread's.                     *)
RepliesMatch == \A l \in RepliesUnderWay : l.to \in InCommand

(* Everybody waits for everybody: the reader for room in the buffer of      *)
(* events, the event thread for a reply, which only the reader can deliver. *)
Stuck ==
  /\ line.kind = "event" /\ RingFull(rbEvt, RingSize)
  /\ pc[Handler] # "idle"

(* A command that has been sent returns, or everybody is stuck: there is no *)
(* other way to hang.                                                       *)
CommandsReturnUnlessStuck == \A t \in Caller : pc[t] = "reply" ~> pc[t] # "reply" \/ Stuck

(* Tor never reports as many events as a buffer has slots before they are   *)
(* handled.                                                                 *)
NoBurst == [](events - handled < RingSize)

(* Without such a burst every command returns.                              *)
CommandsReturn == NoBurst => \A t \in Caller : pc[t] = "reply" ~> pc[t] # "reply"

(* Nor is an event lost or left then: not when a handler runs commands, nor *)
(* when the buffer's indices wrap around.                                   *)
EventsAreHandled == NoBurst => \A n \in 1 .. MaxEvents : events >= n ~> handled >= n
=============================================================================
