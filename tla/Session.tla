------------------------------ MODULE Session ------------------------------
(***************************************************************************)
(* The conversation of a client and the daemon: clientThread() and run()   *)
(* of daemon/socket.cpp, cli/cli.c, whose client waits for "Ready.", and   *)
(* cli/main.cpp, whose client types whenever it likes.                     *)
(*                                                                         *)
(* The connection is a stream: what is read at once is whatever has been   *)
(* written so far.  The daemon takes one read for one command, and cli.c   *)
(* looks for the answer's end at the end of one read.  A command is a      *)
(* single piece of the stream, the daemon's "Ready.\n" is two, so that it  *)
(* can be cut.                                                             *)
(***************************************************************************)
EXTENDS Startup, Naturals, FiniteSetsExt, SequencesExt

CONSTANTS
  Patient,   \* clients of cli.c
  Eager,     \* clients of cli/main.cpp
  Commands,  \* what they type
  Garbled,   \* a command with the rest of the stream as its last argument
  MaxText,   \* pieces of text in an answer
  Cap,       \* pieces that one read of cli.c returns at most
  MaxTyped,  \* commands typed in a session at which the model stops
  MaxClients \* clients connected at a time: they do not meet in this module

Clients == Patient \cup Eager

ASSUME SessionIsTyped ==
  /\ Patient \cap Eager = {}
  /\ Garbled \notin Commands
  /\ {MaxText, MaxTyped, MaxClients} \subseteq Nat
  /\ Cap \in Nat \ {0}

Ready == <<"ready", "end">>
Pieces == {"hello", "text", "ready", "end"}

VARIABLES
  ui,        \* what each client is doing
  worker,    \* what its thread in the daemon is doing
  peer,      \* the daemon it is connected to
  toSay,     \* the pieces of text the thread has yet to write
  toDaemon,  \* the stream of commands
  toClient,  \* the stream of answers
  full,      \* a read of the client's was cut by the size of its buffer
  typed,     \* the commands of the session,
  executed,  \* those the daemon executed,
  answered   \* and the times the user has been told "Ready."

lineVars == <<ui, worker, peer, toSay, toDaemon, toClient, full>>
logVars == <<typed, executed, answered>>
sessionVars == <<lineVars, logVars>>

SessionTypeOK ==
  /\ StartTypeOK
  /\ ui \in [Clients -> {"gone", "greet", "prompt", "waiting"}]
  /\ worker \in [Clients -> {"none", "greeting", "reading", "working", "dead"}]
  /\ peer \in [Clients -> Daemons \cup {NULL}]
  /\ toSay \in [Clients -> 0..MaxText]
  /\ toDaemon \in [Clients -> Seq(Commands)]
  /\ toClient \in [Clients -> Seq(Pieces)]
  /\ full \in [Clients -> BOOLEAN]
  /\ typed \in [Clients -> Seq(Commands)]
  /\ executed \in [Clients -> Seq(Commands \cup {Garbled})]
  /\ answered \in [Clients -> Nat]

SessionInit ==
  /\ StartInit
  /\ ui = [c \in Clients |-> "gone"]
  /\ worker = [c \in Clients |-> "none"]
  /\ peer = [c \in Clients |-> NULL]
  /\ toSay = [c \in Clients |-> 0]
  /\ toDaemon = [c \in Clients |-> <<>>]
  /\ toClient = [c \in Clients |-> <<>>]
  /\ full = [c \in Clients |-> FALSE]
  /\ typed = [c \in Clients |-> <<>>]
  /\ executed = [c \in Clients |-> <<>>]
  /\ answered = [c \in Clients |-> 0]

-----------------------------------------------------------------------------
(* The client.                                                              *)

IsOver(c) == ui[c] = "gone" /\ worker[c] = "none"

Connects(c) ==
  /\ IsOver(c)
  /\ Quantify(Clients, LAMBDA other : ~IsOver(other)) < MaxClients
  /\ Answers
  /\ ui' = [ui EXCEPT ![c] = IF c \in Patient THEN "greet" ELSE "prompt"]
  /\ worker' = [worker EXCEPT ![c] = "greeting"]
  /\ peer' = [peer EXCEPT ![c] = path]
  /\ UNCHANGED <<toSay, toDaemon, toClient, full, logVars>>

BadAfterTyping(c) == "prompt"

AfterTyping(c) == IF c \in Patient THEN "waiting" ELSE "prompt"

Types(c, command) ==
  /\ ui[c] = "prompt" /\ worker[c] # "dead"
  /\ Len(typed[c]) < MaxTyped
  /\ typed' = [typed EXCEPT ![c] = Append(@, command)]
  /\ toDaemon' = [toDaemon EXCEPT ![c] = Append(@, command)]
  /\ ui' = [ui EXCEPT ![c] = AfterTyping(c)]
  /\ UNCHANGED <<worker, peer, toSay, toClient, full, executed, answered>>

ReadSize(c) == IF c \in Patient THEN Min({Cap, Len(toClient[c])})
                                ELSE Len(toClient[c])

BadEndsAnswer(chunk) == chunk = Ready

EndsAnswer(chunk) == IsSuffix(Ready, chunk)

Reads(c) ==
  LET n     == ReadSize(c)
      chunk == SubSeq(toClient[c], 1, n)
  IN  /\ toClient[c] # <<>>
      /\ c \in Patient => ui[c] \in {"greet", "waiting"}
      /\ c \in Eager => ui[c] # "gone"
      /\ toClient' = [toClient EXCEPT ![c] = SubSeq(@, n + 1, Len(@))]
      /\ full' = [full EXCEPT ![c] = @ \/ n < Len(toClient[c])]
      /\ answered' = [answered EXCEPT ![c] =
                        @ + Quantify(1..n, LAMBDA i : chunk[i] = "end")]
      /\ ui' = [ui EXCEPT ![c] = IF @ = "greet" \/ EndsAnswer(chunk)
                                   THEN "prompt" ELSE @]
      /\ UNCHANGED <<worker, peer, toSay, toDaemon, typed, executed>>

(* The connection is over for both sides.                                   *)
HangsUp(c) ==
  /\ ui' = [ui EXCEPT ![c] = "gone"]
  /\ worker' = [worker EXCEPT ![c] = "none"]
  /\ peer' = [peer EXCEPT ![c] = NULL]
  /\ toSay' = [toSay EXCEPT ![c] = 0]
  /\ toDaemon' = [toDaemon EXCEPT ![c] = <<>>]
  /\ toClient' = [toClient EXCEPT ![c] = <<>>]
  /\ full' = [full EXCEPT ![c] = FALSE]
  /\ typed' = [typed EXCEPT ![c] = <<>>]
  /\ executed' = [executed EXCEPT ![c] = <<>>]
  /\ answered' = [answered EXCEPT ![c] = 0]

(* The user ends the client, at a prompt or not.                            *)
Leaves(c) ==
  /\ ui[c] # "gone" /\ worker[c] # "dead"
  /\ ui' = [ui EXCEPT ![c] = "gone"]
  /\ toClient' = [toClient EXCEPT ![c] = <<>>]
  /\ UNCHANGED <<worker, peer, toSay, toDaemon, full, logVars>>

(* The daemon is no more: a read returns 0, or a write fails.               *)
IsOrphaned(c) ==
  /\ ui[c] # "gone" /\ worker[c] = "dead"
  /\ ui[c] = "prompt" \/ toClient[c] = <<>>
  /\ HangsUp(c)

-----------------------------------------------------------------------------
(* The client's thread in the daemon.                                       *)

Writes(c, pieces) ==
  toClient' = [toClient EXCEPT ![c] = IF ui[c] = "gone" THEN <<>> ELSE @ \o pieces]

Greets(c) ==
  /\ worker[c] = "greeting"
  /\ worker' = [worker EXCEPT ![c] = "reading"]
  /\ Writes(c, <<"hello">>)
  /\ UNCHANGED <<ui, peer, toSay, toDaemon, full, logVars>>

BadParsed(stream) == stream

Parsed(stream) == IF Len(stream) = 1 THEN stream[1] ELSE Garbled

ReadsCommand(c, n) ==
  /\ worker[c] = "reading"
  /\ toDaemon[c] # <<>>
  /\ executed' = [executed EXCEPT ![c] = Append(@, Parsed(toDaemon[c]))]
  /\ toDaemon' = [toDaemon EXCEPT ![c] = <<>>]
  /\ toSay' = [toSay EXCEPT ![c] = n]
  /\ worker' = [worker EXCEPT ![c] = "working"]
  /\ UNCHANGED <<ui, peer, toClient, full, typed, answered>>

(* No line of an answer ends in "Ready.": the lists of maps, macros and     *)
(* profiles print names, and none is taken to read so.                      *)
Says(c) ==
  /\ worker[c] = "working" /\ toSay[c] > 0
  /\ toSay' = [toSay EXCEPT ![c] = @ - 1]
  /\ Writes(c, <<"text">>)
  /\ UNCHANGED <<ui, worker, peer, toDaemon, full, logVars>>

BadAnswerEnd == Ready \o Ready

AnswerEnd == Ready

SaysReady(c) ==
  /\ worker[c] = "working" /\ toSay[c] = 0 /\ ui[c] # "gone"
  /\ worker' = [worker EXCEPT ![c] = "reading"]
  /\ Writes(c, AnswerEnd)
  /\ UNCHANGED <<ui, peer, toSay, toDaemon, full, logVars>>

(* A read returns nothing, or a write of anything but a command's text      *)
(* fails.                                                                   *)
Closes(c) ==
  /\ ui[c] = "gone" /\ worker[c] # "none"
  /\ worker[c] = "working" => toSay[c] = 0
  /\ HangsUp(c)

-----------------------------------------------------------------------------
(* A daemon that is no more takes its threads with it.  What they wrote can *)
(* still be read.                                                           *)
Killed(d) ==
  /\ Kill(d)
  /\ worker' = [c \in Clients |-> IF peer[c] = d THEN "dead" ELSE worker[c]]
  /\ peer' = [c \in Clients |-> IF peer[c] = d THEN NULL ELSE peer[c]]
  /\ toDaemon' = [c \in Clients |-> IF peer[c] = d THEN <<>> ELSE toDaemon[c]]
  /\ UNCHANGED <<ui, toSay, toClient, full, logVars>>

Serves(c) ==
  \/ Greets(c) \/ Says(c) \/ SaysReady(c) \/ Closes(c)
  \/ \E n \in 0..MaxText : ReadsCommand(c, n)

Listens(c) == Reads(c) \/ IsOrphaned(c)

Uses(c) == Connects(c) \/ Leaves(c) \/ \E command \in Commands : Types(c, command)

SessionNext ==
  \/ \E d \in Daemons : (Start(d) \/ Settles(d)) /\ UNCHANGED sessionVars
  \/ \E d \in Daemons : Killed(d)
  \/ \E c \in Clients : (Serves(c) \/ Listens(c) \/ Uses(c)) /\ UNCHANGED startVars

SessionFairness ==
  /\ StartFairness
  /\ \A c \in Clients : WF_sessionVars(Serves(c)) /\ WF_sessionVars(Listens(c))

SessionSpec ==
  SessionInit /\ [][SessionNext]_<<startVars, sessionVars>> /\ SessionFairness

-----------------------------------------------------------------------------
(* To clients of cli.c the conversation is a sequence of calls: nothing they*)
(* send is lost, joined to something else or done twice, and they never     *)
(* take the end of one answer for that of another.                          *)
Calls == INSTANCE Rpc WITH
  Callers  <- Patient,
  Requests <- Commands,
  asked    <- [c \in Patient |-> typed[c]],
  done     <- [c \in Patient |-> executed[c]],
  answered <- [c \in Patient |-> answered[c]]

PatientClientsCall == Calls!Spec

(* Both kinds of client: once the user has been told "Ready." as often as   *)
(* there were commands, all of them were executed as they were typed.       *)
ReadyIsHonest ==
  \A c \in Clients : answered[c] = Len(typed[c]) => executed[c] = typed[c]

(* A client that waits is answered or loses the connection, unless a read   *)
(* was cut by the size of the buffer: the end of the answer may then go     *)
(* unnoticed for ever.                                                      *)
AnswerArrives ==
  \A c \in Patient : ui[c] = "waiting" ~> ui[c] # "waiting" \/ full[c]

=============================================================================
