----------------------------- MODULE RoundReuse -----------------------------
(***************************************************************************)
(* How often a frame serves in a round of delivery, when Tor refuses       *)
(* writes.  The bridge is ControllerServer, unchanged; two history         *)
(* variables only watch it:                                                *)
(*   served  - served[d][e]: the DATA frames of e delivered in rounds that *)
(*             frames of d took part in which are still in d's queue, their *)
(*             own write to Tor refused;                                   *)
(*   twice   - the clients whose DATA the last handler delivered although  *)
(*             every frame of some valid client had served them already.   *)
(***************************************************************************)
EXTENDS ControllerServer

VARIABLES served, twice

history == <<served, twice>>
reuseVars == <<vars, history>>

(* A handler has taken in the DATA frames data and the marks of marked, and *)
(* may have run a round.                                                    *)
Watch(data, marked) ==
  LET have(d)   == recvQ[d] + (IF d \in data THEN 1 ELSE 0)
      marks(d)  == mark[d] \/ d \in marked
      shown(d)  == have(d) + (IF marks(d) THEN 1 ELSE 0)
      spent(d)  == recvQ'[d] < have(d) \/ (marks(d) /\ ~mark'[d])
      delivered == {d \in Client : /\ state'[d] = "ACTIVE"
                                   /\ recvQ'[d] < have(d)
                                   /\ d \notin zombies' \ zombies}
      charge(d, e) == IF e \in delivered /\ served[d][e] < shown(d)
                      THEN served[d][e] + 1 ELSE served[d][e]
  IN /\ served' = [d \in Client |-> [e \in Client |->
                     IF d \notin Valid(state') THEN served[d][e]
                     ELSE IF spent(d) /\ charge(d, e) > 0
                     THEN charge(d, e) - 1 ELSE charge(d, e)]]
     /\ twice' = {e \in delivered : \E d \in Valid(state') : served[d][e] >= shown(d)}

ReuseInit ==
  /\ Init
  /\ served = [d \in Client |-> [e \in Client |-> 0]]
  /\ twice = {}

ReuseNext ==
  \/ \E c \in Client : (RecvIgnored(c) \/ RecvCtrl(c)) /\ Watch({}, {c})
  \/ \E c \in Client : RecvData(c) /\ Watch({c}, {})
  \/ \E c \in Client :
       /\ Terminated(c)
       /\ served' = [served EXCEPT ![c] = [e \in Client |-> 0]]
       /\ UNCHANGED twice
  \/ \E c \in Client :
       /\ \/ AcceptPending(c)
          \/ NewConnection(c)
          \/ AcceptFails(c)
          \/ ClientClosed(c)
          \/ LocalError(c)
          \/ SendCtrl(c)
       /\ UNCHANGED history
  \/ CliTsRate /\ UNCHANGED history

ReuseSpec == ReuseInit /\ [][ReuseNext]_reuseVars

-----------------------------------------------------------------------------
(* What the comment promises: one DATA frame of a client per frame of every *)
(* other client.  A frame that a refused write leaves in the queue counts   *)
(* again in the next round, and a second DATA frame of the others goes out. *)
OneFrameServesOneRound == twice = {}
=============================================================================
