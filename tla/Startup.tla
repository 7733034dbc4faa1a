------------------------------ MODULE Startup ------------------------------
(***************************************************************************)
(* How daemons that start at about the same time settle who answers on the *)
(* socket: SocketInterface::init() of daemon/socket.cpp.                   *)
(*                                                                         *)
(* Every daemon binds the same path.  One that cannot tries to connect: if *)
(* someone answers it gives up, otherwise it takes the socket for that of  *)
(* a dead daemon, unlinks it and binds again.  Each of bind, connect,      *)
(* unlink and listen is one step; nothing makes two of them atomic.        *)
(*                                                                         *)
(* A daemon leaves its socket behind when it ends, be it killed or told to *)
(* quit: main() does not unlink it.                                        *)
(***************************************************************************)
CONSTANTS
  Daemons,  \* daemons that may be started
  NULL,     \* nothing
  Stale,    \* the socket of a daemon that is no more
  Mortal    \* stages in which a daemon may be killed

Trying == {"bind", "connect", "unlink", "listen"}
Stages == Trying \cup {"off", "serving", "lost"}

ASSUME SocketsAreDistinct ==
  /\ NULL \notin Daemons
  /\ Stale \notin Daemons \cup {NULL}

(* A daemon that is killed while it starts can take the path with it and    *)
(* leave another with nothing to unlink.                                    *)
ASSUME StartsAreSpared == Mortal \subseteq {"serving"}

VARIABLES
  path,   \* the socket that is bound to the path
  stage   \* how far each daemon has got

startVars == <<path, stage>>

StartTypeOK ==
  /\ path \in Daemons \cup {NULL, Stale}
  /\ stage \in [Daemons -> Stages]

StartInit ==
  /\ path \in {NULL, Stale}
  /\ stage = [d \in Daemons |-> "off"]

Goes(d, from, to) == stage[d] = from /\ stage' = [stage EXCEPT ![d] = to]

(* A connection to the path is accepted.                                    *)
Answers == path \in Daemons /\ stage[path] = "serving"

Start(d) == Goes(d, "off", "bind") /\ UNCHANGED path

Bind(d) ==
  \/ path = NULL /\ Goes(d, "bind", "listen") /\ path' = d
  \/ path # NULL /\ Goes(d, "bind", "connect") /\ UNCHANGED path

BadRefusal == "bind"

Refusal == "unlink"

Connect(d) ==
  /\ \/ Answers /\ Goes(d, "connect", "lost")
     \/ ~Answers /\ Goes(d, "connect", Refusal)
  /\ UNCHANGED path

BadRetry == "lost"

Retry == "bind"

Unlink(d) ==
  \/ path = NULL /\ Goes(d, "unlink", "lost") /\ UNCHANGED path
  \/ path # NULL /\ Goes(d, "unlink", Retry) /\ path' = NULL

Listen(d) == Goes(d, "listen", "serving") /\ UNCHANGED path

(* The daemon is no more, and neither are those that gave way so far.       *)
Kill(d) ==
  /\ stage[d] \in Mortal
  /\ path' = IF path = d THEN Stale ELSE path
  /\ stage' = [e \in Daemons |->
                 IF e = d \/ stage[e] = "lost" THEN "off" ELSE stage[e]]

Settles(d) == Bind(d) \/ Connect(d) \/ Unlink(d) \/ Listen(d)

StartNext == \E d \in Daemons : Start(d) \/ Settles(d) \/ Kill(d)

StartFairness == \A d \in Daemons : WF_startVars(Settles(d))

StartSpec == StartInit /\ [][StartNext]_startVars

-----------------------------------------------------------------------------
(* A daemon gives up only if another one is reached, now or once it has     *)
(* started: unlinking each other's sockets, they never all lose.            *)
SomeoneAnswers ==
  /\ \E d \in Daemons : stage[d] = "lost"
  /\ \A d \in Daemons : stage[d] \notin Trying
  => Answers

(* Unless daemons are killed for ever, one that starts comes to serve or    *)
(* gives up.                                                                *)
StartEnds ==
  <>[][\A d \in Daemons : ~Kill(d)]_startVars =>
    \A d \in Daemons : stage[d] = "bind" ~> stage[d] \notin Trying

=============================================================================
