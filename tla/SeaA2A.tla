------------------------------- MODULE SeaA2A -------------------------------
(***************************************************************************)
(* Delegation to another agent (src/a2a/sea_a2a.c), with the /delegate     *)
(* command that uses it and the discovery of peers.                        *)
(*                                                                         *)
(* Everything is allocated from one arena of the caller, which may be full *)
(* at any of the allocations; a full arena means something else at each.   *)
(* Room is counted in units, one to an allocation.                         *)
(***************************************************************************)
EXTENDS Integers, Sequences, FiniteSets, SequencesExt

CONSTANTS
  A2ARoom,     \* units of the arena of a request
  MaxPeers,    \* max_peers of a discovery
  MaxAgents,   \* bound: agents in the answer to a discovery
  MaxAsks      \* bound: commands and discoveries

ASSUME A2AAssumption ==
  A2ARoom \in Nat /\ MaxPeers \in Nat /\ MaxAgents \in Nat /\ MaxAsks \in Nat

VARIABLES
  room,      \* what is left of the arena
  call,      \* the delegation in progress: its stage, its task, its header
  answer,    \* what the peer answered, {} before it did
  outcome,   \* the SeaA2aResult
  told,      \* the response of the command
  audit,     \* what the audit log says of delegations
  performed, \* the tasks peers have carried out
  peers,     \* the peers the last discovery found
  known,     \* history: the agents it was told of, and whether room ran out
  asks       \* history: commands and discoveries so far

askVars == <<call, answer, outcome, told>>
a2aVars == <<room, askVars, audit, performed, peers, known, asks>>

(* What an answer can hold: result.success, result.output (with or without *)
(* what the shield looks for) and error.message; its text may be longer    *)
(* than the buffer /delegate writes its response to.                       *)
NoAnswer == [parses |-> FALSE, flag |-> "none", output |-> "none", error |-> "none",
             long |-> FALSE]
Answers ==
  {NoAnswer} \union
  [parses : {TRUE}, flag : {"none", "true", "false"}, output : {"none", "clean", "dirty"},
   error : {"none", "text"}, long : BOOLEAN]
NoOutcome == [id |-> "none", success |-> FALSE, output |-> "none", verified |-> FALSE,
              error |-> "none"]
NothingKnown == [agents |-> <<>>, full |-> FALSE]
Idle == [stage |-> "idle", task |-> 0, auth |-> FALSE]

A2AInit ==
  /\ room = A2ARoom /\ call = Idle /\ answer = NoAnswer
  /\ outcome = NoOutcome /\ told = "nothing"
  /\ audit = {} /\ performed = {} /\ peers = <<>> /\ known = NothingKnown
  /\ asks = 0

Taken(n) == IF room >= n THEN room - n ELSE 0
Fits(n) == room >= n

(* The next request finds the arena of its caller with any room left in    *)
(* it; what the one before was told was in the arena, too.                 *)
NextRequest ==
  /\ call.stage = "idle" /\ asks < MaxAsks
  /\ \E left \in 0..A2ARoom : room' = left
  /\ answer' = NoAnswer /\ outcome' = NoOutcome /\ told' = "nothing"
  /\ peers' = <<>> /\ known' = NothingKnown
  /\ UNCHANGED <<call, audit, performed, asks>>

(* /delegate copies the endpoint and the task; without room for both there *)
(* is nothing to send.                                                     *)
DelegateRefused ==
  /\ call.stage = "idle" /\ asks < MaxAsks /\ ~Fits(2)
  /\ asks' = asks + 1 /\ answer' = NoAnswer /\ outcome' = NoOutcome
  /\ told' = "refused" /\ room' = 0
  /\ UNCHANGED <<call, audit, performed, peers, known>>

(* The request: an id (none when it finds no room, and the request says    *)
(* "unknown"), its text, a header (left out when it finds no room).        *)
(* /delegate has no key; another caller may.                               *)
DelegateBegins(hasKey) ==
  /\ call.stage = "idle" /\ asks < MaxAsks /\ Fits(2)
  /\ asks' = asks + 1 /\ answer' = NoAnswer /\ told' = "nothing"
  /\ room' = Taken(IF hasKey THEN 5 ELSE 4)
  /\ outcome' = [NoOutcome EXCEPT !.id = IF Fits(3) THEN "sea" ELSE "none",
                                  !.error = IF Fits(4) THEN "none" ELSE "ours"]
  /\ call' = [stage |-> IF Fits(4) THEN "sent" ELSE "done", task |-> asks + 1,
              auth |-> hasKey /\ Fits(5)]
  /\ UNCHANGED <<audit, performed, peers, known>>

(* The peer carries the task out, and answers or is not heard. *)
PeerPerforms ==
  /\ call.stage = "sent"
  /\ performed' = performed \union {call.task}
  /\ call' = [call EXCEPT !.stage = "performed"]
  /\ \E a \in Answers : answer' = a
  /\ UNCHANGED <<room, outcome, told, audit, peers, known, asks>>

(* The peer turns it down, or there is no answer, or none that fits. *)
DelegateFails ==
  /\ call.stage \in {"sent", "performed"}
  /\ call' = [call EXCEPT !.stage = "done"]
  /\ \/ outcome' = [outcome EXCEPT !.error = "ours"] /\ room' \in {room, Taken(1)}
     \/ /\ outcome' = [outcome EXCEPT !.error = IF Fits(2) THEN "ours" ELSE "none"]
        /\ room' = Taken(2)
  /\ answer' = NoAnswer
  /\ UNCHANGED <<told, audit, performed, peers, known, asks>>

(* The answer as the arena lets it be read: the body, the tree, a copy of  *)
(* the output and one of the message.                                      *)
ReadAnswer ==
  LET copied  == answer.output # "none" /\ Fits(3)
      before  == 2 + (IF answer.output # "none" THEN 1 ELSE 0)
      claimed == IF answer.flag = "none" THEN copied ELSE answer.flag = "true"
      failed  == answer.error = "text" /\ Fits(before + 1)
  IN  [outcome EXCEPT !.output = IF copied THEN "own" ELSE "none",
                      !.error = IF failed THEN "own" ELSE "none",
                      !.success = claimed /\ ~failed]
RoomAfterAnswer ==
  Taken(2 + (IF answer.output # "none" THEN 1 ELSE 0) + (IF answer.error = "text" THEN 1 ELSE 0))

(* Mutant: the text is looked at only when the peer calls it a failure. *)
VerifiedIfFailed(result) ==
  IF result.output = "none" THEN result
  ELSE IF answer.output = "dirty" /\ ~result.success
  THEN [result EXCEPT !.output = "notice", !.verified = FALSE]
  ELSE [result EXCEPT !.verified = TRUE]

(* The shield rejects the text and not the success.                        *)
Verified(result) ==
  IF result.output = "none" THEN result
  ELSE IF answer.output = "dirty" THEN [result EXCEPT !.output = "notice", !.verified = FALSE]
  ELSE [result EXCEPT !.verified = TRUE]

(* The row of the audit log is written where there is a database that      *)
(* takes it; nobody looks.                                                 *)
DelegateReturns ==
  /\ call.stage = "performed" /\ Fits(1)
  /\ call' = [call EXCEPT !.stage = "done"]
  /\ IF answer.parses /\ Fits(2)
     THEN /\ outcome' = Verified(ReadAnswer)
          /\ audit' \in {audit, audit \union {[task |-> call.task, success |-> outcome'.success,
                                               verified |-> outcome'.verified]}}
          /\ room' = RoomAfterAnswer
     ELSE outcome' = [outcome EXCEPT !.error = "ours"] /\ room' = Taken(2) /\ UNCHANGED audit
  /\ UNCHANGED <<answer, told, performed, peers, known, asks>>

(* /delegate answers with the output of a success, with the error          *)
(* otherwise, the peer's own words where it sent some.  Its response has   *)
(* the length of the whole text: of a text longer than the buffer it is    *)
(* copied from beyond the buffer's end.                                    *)
Response ==
  IF outcome.success /\ outcome.output # "none"
  THEN IF outcome.output = "own" THEN "result" ELSE "notice"
  ELSE IF outcome.error = "own" THEN "peerError" ELSE "failed"
ResponseTold ==
  IF Response \in {"result", "peerError"} /\ answer.long THEN "overrun" ELSE Response

(* When the answer finds no room the response stays empty. *)
DelegateTells ==
  /\ call.stage = "done"
  /\ told' = IF Fits(1) THEN ResponseTold ELSE "nothing"
  /\ room' = Taken(1) /\ call' = Idle
  /\ UNCHANGED <<answer, outcome, audit, performed, peers, known, asks>>

-----------------------------------------------------------------------------
(* sea_a2a_discover: an agent without an endpoint is passed over, the loop *)
(* ends when a name or an endpoint finds no room, a key without room is    *)
(* dropped.                                                                *)
Agents == [endpoint : BOOLEAN, key : BOOLEAN]

AddPeer(agents, found, i) ==
  IF found.full \/ Len(found.peers) = MaxPeers \/ ~agents[i].endpoint THEN found
  ELSE IF found.left < 2 THEN [found EXCEPT !.left = 0, !.full = TRUE]
  ELSE LET key == agents[i].key /\ found.left > 2
       IN  [peers |-> Append(found.peers, [at |-> i, key |-> key]),
            left |-> found.left - (IF key THEN 3 ELSE 2), full |-> FALSE]

Found(agents) ==
  LET found[i \in 0..Len(agents)] ==
        IF i = 0 THEN [peers |-> <<>>, left |-> room - 2, full |-> FALSE]
        ELSE AddPeer(agents, found[i - 1], i)
  IN found[Len(agents)]

Discover(agents) ==
  /\ call.stage = "idle" /\ asks < MaxAsks
  /\ asks' = asks + 1
  /\ IF Fits(2)
     THEN LET found == Found(agents)
          IN  /\ peers' = found.peers /\ room' = found.left
              /\ known' = [agents |-> agents, full |-> found.full]
     ELSE peers' = <<>> /\ room' = 0 /\ known' = [agents |-> agents, full |-> TRUE]
  /\ UNCHANGED <<askVars, audit, performed>>

(* sea_a2a_heartbeat: nothing of it stays but what it took. *)
PeerAlive ==
  /\ call.stage = "idle" /\ Fits(1)
  /\ room' \in {Taken(1), Taken(2)}
  /\ UNCHANGED <<askVars, audit, performed, peers, known, asks>>

A2ANext ==
  \/ NextRequest \/ DelegateRefused
  \/ \E hasKey \in BOOLEAN : DelegateBegins(hasKey)
  \/ PeerPerforms \/ DelegateFails \/ DelegateReturns \/ DelegateTells
  \/ \E agents \in SeqOf(Agents, MaxAgents) : Discover(agents)
  \/ PeerAlive

A2ASpec == A2AInit /\ [][A2ANext]_a2aVars

-----------------------------------------------------------------------------
(* What a delegation says of itself is true, however little room there     *)
(* was: text of the peer is shown as a result only when the shield let it  *)
(* pass; what it says of an error is shown, which no shield has seen, but  *)
(* only as the error of a delegation that failed, and only such text, or a *)
(* result, runs past the end of the buffer; what is called a success has   *)
(* been carried out, and was not reported to be an error unless the report *)
(* itself found no room; the audit log says nothing of a task that was not *)
(* carried out.                                                            *)
DelegationTruthful ==
  /\ outcome.output = "own" => outcome.verified
  /\ outcome.verified => answer.output = "clean"
  /\ told = "result" => outcome.verified /\ outcome.success
  /\ told = "peerError" => answer.error = "text" /\ ~outcome.success
  /\ told = "overrun" => answer.long /\ (outcome.verified \/ answer.error = "text")
  /\ call.stage = "done" /\ outcome.success =>
       call.task \in performed /\ (answer.error = "text" => room = 0)
  /\ \A row \in audit : row.task \in performed

(* The peers found are those that have an endpoint, in the order they were *)
(* listed, from the first on: as many as were asked for unless room ran    *)
(* out.                                                                    *)
PeersAsListed ==
  LET reachable == {i \in DOMAIN known.agents : known.agents[i].endpoint}
      found     == {peers[k].at : k \in DOMAIN peers}
  IN  /\ found \subseteq reachable /\ Len(peers) <= MaxPeers
      /\ \A k \in DOMAIN peers : k > 1 => peers[k - 1].at < peers[k].at
      /\ \A i \in reachable \ found, k \in found : k < i
      /\ found = reachable \/ Len(peers) = MaxPeers \/ known.full

(* Both, under one name.                                                   *)
A2ATruthful == DelegationTruthful /\ PeersAsListed
=============================================================================
