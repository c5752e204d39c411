------------------------------ MODULE SyncTorn ------------------------------
(***************************************************************************)
(* Sync with the answers a tracker really sends.  broadcast_to_peer copies *)
(* the table without the mutex, so an answer need not be a table there     *)
(* ever was: entries are read at moments of their own, and those beyond    *)
(* the last one published may be memory nobody has written.  FileTable     *)
(* shows what such a copy can hold (SentAccountable, TablesMoveForward);   *)
(* here peers work with it.  An entry is copied as a whole.                *)
(***************************************************************************)
EXTENDS Sync

CONSTANT Torn    \* the peers whose answers may be torn: all, in the code

(* Memory the process has not used before is zero: a name of no length, a  *)
(* status that is no message's, here "ADDED", and no holders.              *)
Blank == [name |-> NoName, status |-> "ADDED", holders |-> << >>]

-----------------------------------------------------------------------------
Cells == UNION {past[k] : k \in DOMAIN past} \cup {Blank}

(* numfiles of any moment before the last, and an entry of any moment.     *)
TornTables ==
  {t \in UNION {[1..n -> Cells] : n \in 0..Len(log)} :
     \A k \in DOMAIN t : t[k] \in past[k] \cup {Blank}}

AnswerTorn(p) == p \in Torn /\ \E t \in TornTables : AnswerWith(p, t)

TornNext == Next \/ \E p \in Peers : AnswerTorn(p)

TornSpec == Init /\ [][TornNext]_vars

-----------------------------------------------------------------------------
(***************************************************************************)
(* Properties, beside those of Sync.                                       *)
(***************************************************************************)

(* talkto_tracker passes over memory nobody has written: whatever entry it *)
(* asks for has a holder to ask.                                           *)
OnlyHeldIsFetched ==
  \A p \in Peers : At(p, "fetch") => Entry(p).holders # << >>
=============================================================================
