---------------------------- MODULE SyncDelivery ----------------------------
(***************************************************************************)
(* The promise of DATA_FRAMES_SYNC_DLV, stated over the bridge.  Common.hh *)
(* says that bridges only deliver one DATA frame to Tor upon receiving one *)
(* frame from every client.                                                *)
(*                                                                         *)
(* The bridge is ControllerServer, unchanged; a ledger only watches it:    *)
(* earned[d] is the number of frames that d has sent, less the number of   *)
(* rounds that have delivered DATA since, while d was valid.  It knows the *)
(* frames that arrive and the DATA that goes to Tor, not the marks that    *)
(* the bridge keeps of them.                                               *)
(***************************************************************************)
EXTENDS ControllerServer

VARIABLE earned

syncVars == <<vars, earned>>

(* What the bridge can keep of a client: the DATA frames in its queue, and  *)
(* a mark, however many other frames have set it.  More is not credited.    *)
Keeps == MaxRecv + 1

(* A handler has taken in a DATA frame of each of data and another frame of *)
(* each of marked, and may have run a round.  A client whose own write Tor  *)
(* has refused keeps its frame for another round: RoundReuse says what      *)
(* becomes of the promise then.                                             *)
Watch(data, marked) ==
  LET have(d)    == recvQ[d] + (IF d \in data THEN 1 ELSE 0)
      came(d)    == IF d \in data \cup marked /\ earned[d] < Keeps
                    THEN earned[d] + 1 ELSE earned[d]
      delivered  == {d \in Client : /\ state'[d] = "ACTIVE"
                                    /\ recvQ'[d] < have(d)
                                    /\ d \notin zombies' \ zombies}
      refused(d) == state'[d] = "ACTIVE" /\ have(d) > 0 /\ recvQ'[d] = have(d)
  IN earned' = [d \in Client |->
                  IF delivered # {} /\ d \in Valid(state') /\ ~refused(d)
                  THEN came(d) - 1 ELSE came(d)]

SyncInit == Init /\ earned = [d \in Client |-> 0]

SyncNext ==
  \/ \E c \in Client : (RecvIgnored(c) \/ RecvCtrl(c)) /\ Watch({}, {c})
  \/ \E c \in Client : RecvData(c) /\ Watch({c}, {})
  \/ \E c \in Client : Terminated(c) /\ earned' = [earned EXCEPT ![c] = 0]
  \/ \E c \in Client :
       /\ \/ AcceptPending(c)
          \/ NewConnection(c)
          \/ AcceptFails(c)
          \/ ClientClosed(c)
          \/ LocalError(c)
          \/ SendCtrl(c)
       /\ UNCHANGED earned
  \/ CliTsRate /\ UNCHANGED earned

SyncSpec == SyncInit /\ [][SyncNext]_syncVars

-----------------------------------------------------------------------------
(* No client is used for more rounds than it has sent frames: over every    *)
(* sequence of DATA, CHAFF and CTRL frames, through orders to wait and to   *)
(* change, departures and new connections, the marks and queues the bridge  *)
(* decides by never say more than what has really arrived.                  *)
RoundsAreEarned == \A d \in Client : earned[d] >= 0
=============================================================================
