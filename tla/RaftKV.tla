------------------------------ MODULE RaftKV ------------------------------
(***************************************************************************)
(* The replicated KV store of stage8 (src/projects/stage8-distributed):   *)
(*   - raft.Node: the vote and append handlers of a simplified Raft node,  *)
(*     each under n.mu;                                                    *)
(*   - raft.Cluster and kv.Service: a fixed leader chosen at NewService,   *)
(*     and Put replicating a write by calling ApplyKV on every node in Go  *)
(*     map order, one node lock at a time, from concurrent goroutines.     *)
(* The two meet in the leader check of Put: an RPC with a term at least    *)
(* the leader's makes it a follower, and later Puts fail.                  *)
(* The RPC handlers have no caller in the repository besides its tests:    *)
(* they are the node's interface to its peers, and the model lets a peer   *)
(* call them with any term, candidate, leader and entry, a bounded number  *)
(* of times.                                                               *)
(***************************************************************************)
EXTENDS Integers, Sequences, FiniteSets

CONSTANTS
    Nodes,        \* the ids NewCluster is given
    NoNode,       \* the empty string of votedFor and leader
    Keys,         \* KV keys
    Vals,         \* values a Put writes
    Empty,        \* the value "" that Delete writes
    Clients,      \* goroutines calling kv.Service
    MaxTerm,      \* bound: largest term a peer sends
    MaxRPCs,      \* bound: RPCs delivered to the nodes
    MaxPuts,      \* bound: Put and Delete calls
    MaxCancels,   \* bound: contexts cancelled during a Put
    MaxLog        \* bound: log length of a node

Follower == "follower"
Candidate == "candidate"
Leader == "leader"

NoValue == "missing"       \* a key absent from n.store

(* NewNode: a follower at term 0 with an empty log and store.              *)
NewNode == [state |-> Follower, currentTerm |-> 0, votedFor |-> NoNode,
            leader |-> NoNode, log |-> <<>>, commitIndex |-> 0,
            lastApplied |-> 0, store |-> [k \in Keys |-> NoValue]]

VARIABLES
    node,         \* node[n]: the fields of raft.Node n
    svcLeader,    \* Service.leader
    call,         \* call[c]: the Put goroutine c is in
    rpcs, puts, cancels

vars == <<node, svcLeader, call, rpcs, puts, cancels>>

Terms == 0 .. MaxTerm
Idle == [pc |-> "idle", key |-> NoValue, val |-> NoValue, todo |-> {}, cancelled |-> FALSE]

TypeOK ==
    /\ \A n \in Nodes :
        /\ node[n].state \in {Follower, Candidate, Leader}
        /\ node[n].currentTerm \in Terms
        /\ node[n].votedFor \in Nodes \cup {NoNode}
        /\ node[n].leader \in Nodes \cup {NoNode}
        /\ node[n].log \in Seq(Terms) /\ Len(node[n].log) <= MaxLog
        /\ node[n].commitIndex \in 0 .. MaxLog
        /\ node[n].lastApplied \in 0 .. MaxPuts
        /\ node[n].store \in [Keys -> Vals \cup {Empty, NoValue}]
    /\ svcLeader \in Nodes
    /\ \A c \in Clients : call[c].pc \in {"idle", "replicate"} /\ call[c].todo \subseteq Nodes

-----------------------------------------------------------------------------
(* raft.Node handlers, as functions of the node's fields.                  *)

BecomeLeader(r, id) == [r EXCEPT !.state = Leader, !.leader = id]

(* A higher term makes the node a follower with no vote in that term.      *)
StepDown(r, t) ==
    IF t > r.currentTerm
    THEN [r EXCEPT !.currentTerm = t, !.votedFor = NoNode, !.state = Follower]
    ELSE r

HandleRequestVote(r, args) ==
    IF args.term < r.currentTerm
    THEN [granted |-> FALSE, node |-> r]
    ELSE LET u == StepDown(r, args.term)
         IN IF u.votedFor \in {NoNode, args.candidate}
            THEN [granted |-> TRUE, node |-> [u EXCEPT !.votedFor = args.candidate]]
            ELSE [granted |-> FALSE, node |-> u]

\* Mutant: AppendEntries clears the vote whenever it takes the sender's term.
HandleAppendEntriesResetsVote(r, args) ==
    IF args.term < r.currentTerm
    THEN r
    ELSE LET u == [r EXCEPT !.currentTerm = args.term, !.state = Follower,
                            !.leader = args.leaderID, !.votedFor = NoNode]
         IN IF args.entries = <<>>
            THEN u
            ELSE [u EXCEPT !.log = @ \o args.entries, !.commitIndex = Len(u.log \o args.entries)]

HandleAppendEntries(r, args) ==
    IF args.term < r.currentTerm
    THEN r
    ELSE LET u == [r EXCEPT !.currentTerm = args.term, !.state = Follower,
                            !.leader = args.leaderID]
         IN IF args.entries = <<>>
            THEN u
            ELSE [u EXCEPT !.log = @ \o args.entries, !.commitIndex = Len(u.log \o args.entries)]

\* Mutant: the key and value arguments are swapped at the call.
ApplyKVSwapped(r, k, v) == [r EXCEPT !.store[k] = k, !.lastApplied = @ + 1]

ApplyKV(r, k, v) == [r EXCEPT !.store[k] = v, !.lastApplied = @ + 1]

GetKV(r, k) == r.store[k]

(* Service.Get: the value the service's leader holds, whatever its state.  *)
Get(k) == GetKV(node[svcLeader], k)
-----------------------------------------------------------------------------
(* RPCs from peers: any term, any other node as candidate or leader, and   *)
(* at most one entry of the sender's term. A cancelled context returns     *)
(* before n.mu and changes nothing, so it is not a step.                   *)

RequestVote(n) ==
    /\ rpcs < MaxRPCs
    /\ \E t \in Terms, cand \in Nodes \ {n} :
          node' = [node EXCEPT ![n] = HandleRequestVote(@, [term |-> t, candidate |-> cand]).node]
    /\ rpcs' = rpcs + 1
    /\ UNCHANGED <<svcLeader, call, puts, cancels>>

AppendEntries(n) ==
    /\ rpcs < MaxRPCs
    /\ \E t \in Terms, ldr \in Nodes \ {n} : \E es \in {<<>>, <<t>>} :
          /\ Len(node[n].log) + Len(es) <= MaxLog
          /\ node' = [node EXCEPT ![n] = HandleAppendEntries(node[n],
                         [term |-> t, leaderID |-> ldr, entries |-> es])]
    /\ rpcs' = rpcs + 1
    /\ UNCHANGED <<svcLeader, call, puts, cancels>>

-----------------------------------------------------------------------------
(* kv.Service.Put: the leader check, then ReplicateKV calling ApplyKV on   *)
(* the nodes in map order (any order), each under that node's mutex.       *)

Put(c, k, v) ==
    /\ call[c].pc = "idle"
    /\ puts < MaxPuts
    /\ puts' = puts + 1
    /\ IF node[svcLeader].state # Leader
       THEN UNCHANGED call                                     \* ErrNotLeader
       ELSE call' = [call EXCEPT ![c] = [pc |-> "replicate", key |-> k, val |-> v,
                                         todo |-> Nodes, cancelled |-> FALSE]]
    /\ UNCHANGED <<node, svcLeader, rpcs, cancels>>

Delete(c, k) == Put(c, k, Empty)

ReplicateKV(c) ==
    /\ call[c].pc = "replicate"
    /\ \E n \in call[c].todo :
          IF call[c].cancelled
          THEN /\ call' = [call EXCEPT ![c] = Idle]            \* ctx.Err()
               /\ UNCHANGED node
          ELSE /\ node' = [node EXCEPT ![n] = ApplyKV(@, call[c].key, call[c].val)]
               /\ call' = [call EXCEPT ![c] = IF call[c].todo = {n} THEN Idle
                                              ELSE [@ EXCEPT !.todo = @ \ {n}]]
    /\ UNCHANGED <<svcLeader, rpcs, puts, cancels>>

(* The caller's context is cancelled while its Put replicates.             *)
Cancel(c) ==
    /\ call[c].pc = "replicate"
    /\ ~call[c].cancelled
    /\ cancels < MaxCancels
    /\ call' = [call EXCEPT ![c].cancelled = TRUE]
    /\ cancels' = cancels + 1
    /\ UNCHANGED <<node, svcLeader, rpcs, puts>>

-----------------------------------------------------------------------------
(* main: NewCluster makes a follower of every id; NewService calls         *)
(* ElectLeader, which makes the first node of a map iteration (any node)   *)
(* leader.                                                                 *)
Init ==
    /\ \E n0 \in Nodes :
          /\ svcLeader = n0
          /\ node = [n \in Nodes |-> IF n = n0 THEN BecomeLeader(NewNode, n) ELSE NewNode]
    /\ call = [c \in Clients |-> Idle]
    /\ rpcs = 0 /\ puts = 0 /\ cancels = 0

Next ==
    \/ \E n \in Nodes : RequestVote(n) \/ AppendEntries(n)
    \/ \E c \in Clients :
          \/ \E k \in Keys : Delete(c, k) \/ \E v \in Vals : Put(c, k, v)
          \/ ReplicateKV(c)
          \/ Cancel(c)

Spec == Init /\ [][Next]_vars

-----------------------------------------------------------------------------
(* Raft's vote safety, for HandleRequestVote and HandleAppendEntries       *)
(* together: once a node has voted in a term, its vote does not change     *)
(* while it stays in that term, so it never votes for two candidates in    *)
(* one term. AppendEntries moves a node to a newer term without clearing   *)
(* votedFor, and the vote it carries over must stay the only one.          *)
OneVotePerTerm ==
    [][\A n \in Nodes :
          node[n].votedFor # NoNode /\ node'[n].currentTerm = node[n].currentTerm
             => node'[n].votedFor = node[n].votedFor]_vars

(* Replicas agree once no Put is running: every node holds for each key  *)
(* what Service.Get returns from the leader (TestPutGet reads the leader   *)
(* only). Two concurrent Puts of one key apply in different map orders on  *)
(* different nodes, and a cancelled Put stops part way; no run checks it.  *)
ReplicasAgree ==
    (\A c \in Clients : call[c].pc = "idle") =>
        \A n \in Nodes, k \in Keys : node[n].store[k] = Get(k)
====
