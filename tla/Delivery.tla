------------------------------ MODULE Delivery ------------------------------
(***************************************************************************)
(* What a scene promises its subscribers, without locks, channels, buffers *)
(* and sockets: there is one numbered log of writes, and a subscriber has  *)
(* counted a prefix of it.  It learns the next write, or misses it, and it *)
(* is rebased by a snapshot on a prefix that is no shorter; it never skips *)
(* a number, and nothing else changes what it shows.  A subscriber that is *)
(* not a Keeper may start again, from a snapshot, and a Keeper only where  *)
(* the next number bears no write: a connection took it to leave.          *)
(***************************************************************************)
EXTENDS Integers, Sequences

CONSTANTS
    Paths,    \* leaf paths
    Values,   \* what a leaf can hold
    Clients,  \* subscribers
    Keepers   \* those that keep their count over a reconnect

VARIABLES
    log,    \* the numbered writes
    count,  \* client -> the number it has counted up to, 0 if none
    view,   \* client -> the leaves it shows
    missed  \* client -> the numbers it counted without being told the write

vars == <<log, count, view, missed>>

Init ==
    /\ log = <<[paths |-> {}, id |-> 0]>>
    /\ count = [c \in Clients |-> 0]
    /\ view = [c \in Clients |-> [p \in Paths |-> 0]]
    /\ missed = [c \in Clients |-> {}]

Publish ==
    /\ \E paths \in SUBSET Paths, id \in Values :
         log' = Append(log, [paths |-> paths, id |-> id])
    /\ UNCHANGED <<count, view, missed>>

Behind(c) == count[c] \in 1 .. Len(log) - 1

CountOne(c) == count' = [count EXCEPT ![c] = count[c] + 1]

Learn(c) ==
    /\ Behind(c)
    /\ CountOne(c)
    /\ LET write == log[count[c] + 1] IN
       view' = [view EXCEPT ![c] = [p \in Paths |->
                   IF p \in write.paths THEN write.id ELSE view[c][p]]]
    /\ UNCHANGED <<log, missed>>

Miss(c) ==
    /\ Behind(c)
    /\ CountOne(c)
    /\ missed' = [missed EXCEPT ![c] = missed[c] \cup {count[c] + 1}]
    /\ UNCHANGED <<log, view>>

\* the leaves hold each of the first n writes, or a later one
Covers(leaves, n) ==
    \A i \in 1 .. n : \A p \in log[i].paths : leaves[p] >= log[i].id

Rebase(c) ==
    /\ \E n \in 1 .. Len(log), leaves \in [Paths -> Values] :
         /\ n >= count[c]
         /\ Covers(leaves, n)
         /\ count' = [count EXCEPT ![c] = n]
         /\ view' = [view EXCEPT ![c] = leaves]
    /\ missed' = [missed EXCEPT ![c] = {}]
    /\ UNCHANGED log

StartAgain(c) ==
    /\ c \in Keepers => Behind(c) /\ log[count[c] + 1].paths = {}
    /\ count' = [count EXCEPT ![c] = 0]
    /\ missed' = [missed EXCEPT ![c] = {}]
    /\ UNCHANGED <<log, view>>

Next ==
    \/ Publish
    \/ \E c \in Clients : Learn(c) \/ Miss(c) \/ Rebase(c) \/ StartAgain(c)

Spec == Init /\ [][Next]_vars
=============================================================================
