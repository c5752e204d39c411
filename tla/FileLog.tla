------------------------------- MODULE FileLog -------------------------------
(***************************************************************************)
(* What the tracker promises of the global file table, with the threads,   *)
(* the mutex and the array left out: a log of announced files.  An         *)
(* announcement is only ever appended, a deletion is a tombstone put on a  *)
(* published entry, and the peers named as holders of an entry change      *)
(* without the entry losing its place or its name.  FileTable is shown to  *)
(* implement this module.                                                  *)
(***************************************************************************)
EXTENDS Naturals, Sequences

CONSTANTS Names,      \* file names
          Peers,      \* peers that can hold a file
          Capacity    \* entries the table has room for

VARIABLE log          \* the published entries, oldest first

Entry == [name    : Names,
          status  : {"ADDED", "DELETED"},
          holders : Seq(Peers)]

Init == log = << >>

Announce(n, p) ==
  /\ Len(log) < Capacity
  /\ log' = Append(log, [name |-> n, status |-> "ADDED", holders |-> <<p>>])

Bury(i) == log' = [log EXCEPT ![i].status = "DELETED"]

Replace(i, p) == log' = [log EXCEPT ![i].holders = <<p>>]

Join(i, p) == log' = [log EXCEPT ![i].holders = Append(@, p)]

Next ==
  \/ \E n \in Names, p \in Peers : Announce(n, p)
  \/ \E i \in DOMAIN log : Bury(i)
  \/ \E i \in DOMAIN log, p \in Peers : Replace(i, p) \/ Join(i, p)

Spec == Init /\ [][Next]_log

-----------------------------------------------------------------------------
TypeOK == log \in Seq(Entry)

(* Entries keep their place and their name, and a tombstone is final: what *)
(* handleFileUpdate may never do to a published entry.                     *)
Remembers(old, new) ==
  /\ Len(old) <= Len(new)
  /\ \A i \in 1..Len(old) :
       /\ new[i].name = old[i].name
       /\ old[i].status = "DELETED" => new[i].status = "DELETED"

NothingForgotten == [][Remembers(log, log')]_log
=============================================================================
