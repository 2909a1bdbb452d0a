------------------------------ MODULE SeaProxy ------------------------------
(***************************************************************************)
(* The proxy through which Agent Zero reaches the model                    *)
(* (seazero/bridge/sea_proxy.c): one thread that accepts and serves one    *)
(* connection at a time, the owner that starts and stops it, and the       *)
(* clients.  The log of tokens is a table of the database, which outlives  *)
(* a restart of the proxy and is summed whole: nothing in it is of today   *)
(* only.                                                                   *)
(***************************************************************************)
EXTENDS Integers, Sequences

CONSTANTS
  Budget,      \* daily_token_budget, 0 for none
  MaxTokens,   \* bound: tokens one request costs
  Backlog,     \* PROXY_BACKLOG
  MaxCalls,    \* bound: connections
  MaxStarts    \* bound: starts

ASSUME ProxyAssumption ==
  /\ Budget \in Nat /\ MaxTokens \in Nat \ {0} /\ Backlog \in Nat \ {0}
  /\ MaxCalls \in Nat /\ MaxStarts \in Nat

VARIABLES
  owner,      \* what the thread that starts and stops the proxy is doing
  running,    \* s_proxy_running
  listener,   \* s_listen_fd: "none" or "open"
  thread,     \* where proxy_thread is
  backlog,    \* connections the kernel has completed and nobody accepted
  serving,    \* the request being served and how far it got
  logged,     \* SUM of the tokens in the log
  sent,       \* history: what went to the provider, [request, before, cost]
  lateServed, \* history: connections accepted since the stop began
  calls,      \* history: connections so far
  starts      \* history: starts so far

ownerVars == <<owner, running, listener>>
proxyVars == <<ownerVars, thread, backlog, serving, logged, sent, lateServed, calls, starts>>

(* A chat request as it should be; one whose body has not come whole in 30 *)
(* seconds; one without a body; one with the wrong token; anything else,   *)
(* which is answered from the spot (health, preflight, not found).         *)
Requests == {"chat", "cut", "empty", "forged", "other"}
NoRequest == [request |-> "none", stage |-> "none"]

ProxyInit ==
  /\ owner = "down" /\ running = FALSE /\ listener = "none" /\ thread = "none"
  /\ backlog = <<>> /\ serving = NoRequest /\ logged = 0 /\ sent = <<>>
  /\ lateServed = 0 /\ calls = 0 /\ starts = 0

-----------------------------------------------------------------------------
(* The owner.                                                              *)

(* sea_proxy_start: a failure at any of its calls leaves everything as it  *)
(* was.                                                                    *)
Start ==
  /\ owner = "down" /\ ~running /\ starts < MaxStarts
  /\ starts' = starts + 1
  /\ \/ UNCHANGED <<ownerVars, thread, lateServed>>
     \/ /\ owner' = "up" /\ running' = TRUE /\ listener' = "open" /\ thread' = "checking"
        /\ lateServed' = 0
  /\ UNCHANGED <<backlog, serving, logged, sent, calls>>

(* sea_proxy_stop: the flag, then the socket, then it waits for the        *)
(* thread.  A thread that is inside accept() keeps the socket alive, and   *)
(* is not woken: connections go on reaching it.                            *)
StopBegins ==
  /\ owner = "up"
  /\ owner' = "closing" /\ running' = FALSE
  /\ UNCHANGED <<listener, thread, backlog, serving, logged, sent, lateServed, calls, starts>>

StopCloses ==
  /\ owner = "closing"
  /\ owner' = "joining" /\ listener' = "none"
  /\ backlog' = IF thread = "accepting" THEN backlog ELSE <<>>
  /\ UNCHANGED <<running, thread, serving, logged, sent, lateServed, calls, starts>>

(* Mutant: the thread is not waited for. *)
StopLeaves ==
  /\ owner = "joining"
  /\ owner' = "down"
  /\ UNCHANGED <<running, listener, thread, backlog, serving, logged, sent, lateServed, calls, starts>>

StopJoins ==
  /\ owner = "joining" /\ thread = "gone"
  /\ owner' = "down" /\ thread' = "none"
  /\ UNCHANGED <<running, listener, backlog, serving, logged, sent, lateServed, calls, starts>>

-----------------------------------------------------------------------------
(* The clients and the thread.                                             *)

Connect(request) ==
  /\ calls < MaxCalls /\ Len(backlog) < Backlog
  /\ listener = "open" \/ thread = "accepting"
  /\ calls' = calls + 1 /\ backlog' = Append(backlog, request)
  /\ UNCHANGED <<ownerVars, thread, serving, logged, sent, lateServed, starts>>

(* The head of the loop in proxy_thread. *)
Checks ==
  /\ thread = "checking"
  /\ thread' = IF running THEN "entering" ELSE "gone"
  /\ UNCHANGED <<ownerVars, backlog, serving, logged, sent, lateServed, calls, starts>>

(* accept() on the descriptor as it is now: closed, it fails at once. *)
Enters ==
  /\ thread = "entering"
  /\ thread' = IF listener = "open" THEN "accepting" ELSE "checking"
  /\ UNCHANGED <<ownerVars, backlog, serving, logged, sent, lateServed, calls, starts>>

Accepts ==
  /\ thread = "accepting" /\ backlog # <<>>
  /\ thread' = "serving"
  /\ serving' = [request |-> Head(backlog), stage |-> "read"]
  /\ backlog' = IF listener = "open" THEN Tail(backlog) ELSE <<>>
  /\ lateServed' = IF running THEN 0 ELSE lateServed + 1
  /\ UNCHANGED <<ownerVars, logged, sent, calls, starts>>

Closes ==
  /\ serving' = NoRequest /\ thread' = "checking"
  /\ UNCHANGED <<ownerVars, backlog, lateServed, calls, starts>>

(* handle_connection with what is refused before the budget is looked at;  *)
(* the client may also close first.                                        *)
Refuses ==
  /\ thread = "serving" /\ serving.stage = "read"
  /\ serving.request \in {"empty", "forged", "other"}
  /\ Closes /\ UNCHANGED <<logged, sent>>

WithinBudget == Budget = 0 \/ logged < Budget

(* check_budget turns it down. *)
OverBudget ==
  /\ thread = "serving" /\ serving.stage = "read" /\ serving.request \in {"chat", "cut"}
  /\ ~WithinBudget
  /\ Closes /\ UNCHANGED <<logged, sent>>

(* The arena of the request is not to be had. *)
NoArena ==
  /\ thread = "serving" /\ serving.stage = "read" /\ serving.request \in {"chat", "cut"}
  /\ WithinBudget
  /\ Closes /\ UNCHANGED <<logged, sent>>

Forwards(cost) ==
  /\ thread = "serving" /\ serving.stage = "read" /\ serving.request \in {"chat", "cut"}
  /\ WithinBudget
  /\ serving' = [serving EXCEPT !.stage = "forwarded"]
  /\ sent' = Append(sent, [request |-> serving.request, before |-> logged, cost |-> cost])
  /\ UNCHANGED <<ownerVars, thread, backlog, logged, lateServed, calls, starts>>

Latest == sent[Len(sent)]

(* An answer with its usage is logged for what it cost. *)
Counts ==
  /\ thread = "serving" /\ serving.stage = "forwarded"
  /\ logged' = logged + Latest.cost
  /\ Closes /\ UNCHANGED sent

(* An error, or an answer whose usage cannot be read: logged with no       *)
(* tokens, whatever the provider has charged.                              *)
CountsNothing ==
  /\ thread = "serving" /\ serving.stage = "forwarded"
  /\ Closes /\ UNCHANGED <<logged, sent>>

(* The process is gone, with whatever it was serving: killed, or by the    *)
(* SIGPIPE of an answer to a client that has hung up.                      *)
ProxyLost ==
  /\ owner # "down"
  /\ owner' = "down" /\ running' = FALSE /\ listener' = "none" /\ thread' = "none"
  /\ backlog' = <<>> /\ serving' = NoRequest
  /\ UNCHANGED <<logged, sent, lateServed, calls, starts>>

ProxyNext ==
  \/ Start \/ StopBegins \/ StopCloses \/ StopJoins
  \/ \E request \in Requests : Connect(request)
  \/ Checks \/ Enters \/ Accepts \/ Refuses \/ OverBudget
  \/ \E cost \in 1..MaxTokens : Forwards(cost)
  \/ NoArena \/ Counts \/ CountsNothing \/ ProxyLost

ProxySpec == ProxyInit /\ [][ProxyNext]_proxyVars

-----------------------------------------------------------------------------
(* The budget is overshot by no more than the one request that reaches it, *)
(* across any number of restarts of the proxy; and only requests in order, *)
(* from when there still was budget, have gone to the provider.            *)
BudgetHolds ==
  /\ Budget > 0 => logged < Budget + MaxTokens
  /\ \A i \in DOMAIN sent :
       sent[i].request \in {"chat", "cut"} /\ (Budget > 0 => sent[i].before < Budget)

(* When stop has returned nothing is served any more, and until then at    *)
(* most one connection that was not yet accepted has been.                 *)
StopIsQuiet ==
  /\ owner = "down" => thread = "none" /\ serving = NoRequest /\ ~running
  /\ lateServed <= 1

(* The budget holds as long as the proxy serves, and it stops when told. *)
ProxyHolds == BudgetHolds /\ StopIsQuiet
=============================================================================
