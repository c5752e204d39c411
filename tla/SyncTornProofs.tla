--------------------------- MODULE SyncTornProofs ---------------------------
(***************************************************************************)
(* Sync's safety properties do not need a table copied under the mutex:    *)
(* they hold of peers that work with the torn copies of SyncTorn, for any  *)
(* number of peers, files, table entries, deeds and starts.                *)
(***************************************************************************)
EXTENDS SyncTorn, SyncProofs

(* What an entry has been was right then, and is right now: EntryOK speaks *)
(* of histories only.                                                      *)
PastOK ==
  /\ past \in [1..MAX_FILES -> SUBSET Table!Entry]
  /\ \A k \in 1..MAX_FILES, e \in Table!Entry :
       e \in past[k] => EntryOK(e, created, deleted, held)

TornInv == IInv /\ PastOK

-----------------------------------------------------------------------------
USE NamesAssumption, SizesAssumption, FoundAssumption

LEMMA BlankOK ==
  /\ Blank \in Table!Entry
  /\ EntryOK(Blank, created, deleted, held)
<1>1. << >> \in Seq(Peers) /\ NoName \in AllNames
  BY DEF AllNames
<1> QED
  BY <1>1 DEF Blank, EntryOK, Table!Entry

(* A torn copy is as good a table as the tracker's own. *)
LEMMA TornTableOK ==
  ASSUME IInv, PastOK, NEW t \in TornTables
  PROVE  TableOK(t, created, deleted, held)
<1>1. log \in Seq(Table!Entry) /\ Len(log) \in Nat /\ Len(log) <= MAX_FILES
  BY DEF IInv, TableOK
<1>2. PICK n \in 0..Len(log) : t \in [1..n -> Cells]
  BY DEF TornTables
<1>3. n \in Nat /\ n <= MAX_FILES /\ DOMAIN t = 1..n
  BY <1>1, <1>2
<1>4. ASSUME NEW k \in 1..n
      PROVE  t[k] \in Table!Entry /\ EntryOK(t[k], created, deleted, held)
  <2>1. k \in 1..MAX_FILES
    BY <1>3
  <2>2. t[k] \in past[k] \cup {Blank}
    BY <1>3 DEF TornTables
  <2>3. past[k] \subseteq Table!Entry
    BY <2>1 DEF PastOK
  <2> QED
    BY <2>1, <2>2, <2>3, BlankOK DEF PastOK
<1>5. t \in [1..n -> Table!Entry]
  BY <1>2, <1>4
<1>6. t \in Seq(Table!Entry) /\ Len(t) = n
  BY <1>3, <1>5
<1> QED
  BY <1>3, <1>4, <1>6 DEF TableOK

(* The histories grow, whatever happens. *)
Grows == Grown(created, deleted, held, created', deleted', held')

LEMMA SameHistory == UNCHANGED history => Grows
BY DEF history, Grows, Grown

(* Who has a file made it, or was sent it: held grows by that. *)
LEMMA HeldGrows ==
  ASSUME IInv, NEW p \in Peers, NEW n,
         \/ UNCHANGED held
         \/ held' = [held EXCEPT ![p] = @ \cup {n}],
         created \subseteq created', deleted \subseteq deleted'
  PROVE  Grows
BY DEF IInv, HistoryOK, Grows, Grown

LEMMA UsersGrow ==
  ASSUME IInv, NEW p \in Peers, Users(p)
  PROVE  Grows
<1>1. CASE Stop(p)
  BY <1>1, SameHistory DEF Stop
<1>2. ASSUME NEW n \in Names, Create(p, n) PROVE Grows
  BY <1>2, HeldGrows DEF Create
<1>3. ASSUME NEW n \in Names, Write(p, n) PROVE Grows
  BY <1>3, SameHistory DEF Write
<1>4. ASSUME NEW n \in Names, Delete(p, n) PROVE Grows
  BY <1>4, HeldGrows DEF Delete
<1> QED
  BY <1>1, <1>2, <1>3, <1>4 DEF Users

LEMMA TalkGrows ==
  ASSUME IInv, NEW p \in Peers, TalkToTracker(p)
  PROVE  Grows
<1>1. CASE Receive(p) \/ Missing(p) \/ Keep(p) \/ List(p) \/ Extra(p)
  BY <1>1, SameHistory DEF Receive, Missing, Keep, List, Extra
<1>2. CASE Remove(p) \/ NotConnected(p)
  BY <1>2, HeldGrows DEF Remove, NotConnected
<1>3. CASE Fetch(p)
  BY <1>3, HeldGrows DEF Fetch, Stored
<1>4. CASE Kill(p)
  BY <1>4, HeldGrows DEF Kill, Stored
<1> QED
  BY <1>1, <1>2, <1>3, <1>4 DEF TalkToTracker

(* What is remembered of the table: as it was, or with the new entries.    *)
PastFollows == past' \in {past, Remembered}

(* The steps of Sync, a torn answer for a whole one, keep its invariant.   *)
LEMMA TornStepOK ==
  ASSUME TornInv, TornNext
  PROVE  IInv' /\ Grows /\ PastFollows
<1> USE DEF TornInv
<1>1. ASSUME NEW p \in Peers, AnswerTorn(p) PROVE IInv' /\ Grows /\ PastFollows
  <2>1. PICK t \in TornTables : AnswerWith(p, t)
    BY <1>1 DEF AnswerTorn
  <2>2. TableOK(t, created, deleted, held)
    BY TornTableOK
  <2>3. IInv'
    BY <2>1, <2>2, AnswerStep
  <2>4. UNCHANGED history /\ UNCHANGED past
    BY <2>1 DEF AnswerWith
  <2> QED
    BY <2>3, <2>4, SameHistory DEF PastFollows
<1>2. ASSUME Next PROVE IInv' /\ Grows /\ PastFollows
  <2>1. IInv'
    BY <1>2, StepOK
  <2>2. PICK p \in Peers :
          Users(p) \/ Start(p) \/ KeepAlive(p) \/ Tracker(p) \/ TalkToTracker(p)
    BY <1>2 DEF Next
  <2>3. CASE Start(p) \/ KeepAlive(p)
    <3>1. UNCHANGED <<history, past>>
      BY <2>3 DEF Start, KeepAlive, Beat, BeatNull
    <3> QED
      BY <2>1, <3>1, SameHistory DEF PastFollows
  <2>4. CASE Tracker(p)
    <3>1. UNCHANGED history /\ PastFollows
      BY <2>4 DEF Tracker, Answer, AnswerWith, Add, Mark, PastFollows
    <3> QED
      BY <2>1, <3>1, SameHistory
  <2>5. CASE Users(p)
    <3>1. UNCHANGED past
      BY <2>5 DEF Users, Create, Write, Delete, Stop
    <3> QED
      BY <2>1, <2>5, <3>1, UsersGrow DEF PastFollows
  <2>6. CASE TalkToTracker(p)
    <3>1. UNCHANGED past
      BY <2>6 DEF TalkToTracker, Receive, Missing, Keep, Remove, NotConnected,
         Fetch, Kill, List, Extra
    <3> QED
      BY <2>1, <2>6, <3>1, TalkGrows DEF PastFollows
  <2> QED
    BY <2>2, <2>3, <2>4, <2>5, <2>6
<1> QED
  BY <1>1, <1>2 DEF TornNext

(* An entry that is remembered was in a good table. *)
LEMMA PastStepOK ==
  ASSUME TornInv, IInv', Grows, PastFollows
  PROVE  PastOK'
<1>1. /\ log' \in Seq(Table!Entry) /\ Len(log') \in Nat
      /\ \A k \in DOMAIN log' : EntryOK(log'[k], created', deleted', held')
  BY DEF IInv, TableOK
<1>2. DOMAIN past' = 1..MAX_FILES /\ past' = [k \in 1..MAX_FILES |-> past'[k]]
  BY DEF TornInv, PastOK, PastFollows, Remembered
<1> SUFFICES ASSUME NEW k \in 1..MAX_FILES
             PROVE  /\ past'[k] \subseteq Table!Entry
                    /\ \A e \in past'[k] : EntryOK(e, created', deleted', held')
  BY <1>2 DEF PastOK
<1>3. past[k] \subseteq Table!Entry
  BY DEF TornInv, PastOK
<1>4. \A e \in past[k] : EntryOK(e, created', deleted', held')
  BY <1>3, EntryGrown DEF TornInv, PastOK, Grows
<1>5. CASE past' = Remembered /\ k <= Len(log')
  <2>1. k \in DOMAIN log' /\ log'[k] \in Table!Entry
    BY <1>1, <1>5
  <2>2. past'[k] = past[k] \cup {log'[k]}
    BY <1>5 DEF Remembered
  <2> QED
    BY <1>1, <1>3, <1>4, <2>1, <2>2
<1>6. CASE past' = past \/ ~(k <= Len(log'))
  <2>1. past'[k] = past[k]
    BY <1>6 DEF PastFollows, Remembered
  <2> QED
    BY <1>3, <1>4, <2>1
<1> QED
  BY <1>5, <1>6 DEF PastFollows

LEMMA TornStutterOK == TornInv /\ UNCHANGED vars => TornInv'
BY StutterOK DEF TornInv, PastOK, vars

(* Sync's inductive invariant holds with torn tables too. *)
THEOREM TornInvariance == TornSpec => []TornInv
<1>1. Init => TornInv
  <2> SUFFICES ASSUME Init PROVE TornInv
    OBVIOUS
  <2>1. PastOK
    BY DEF Init, PastOK
  <2> QED
    BY <2>1, InitOK DEF TornInv
<1>2. TornInv /\ [TornNext]_vars => TornInv'
  <2> SUFFICES ASSUME TornInv, TornNext PROVE TornInv'
    BY TornStutterOK
  <2> QED
    BY TornStepOK, PastStepOK DEF TornInv
<1> QED
  BY <1>1, <1>2, PTL DEF TornSpec

(* Whatever a torn copy holds, it is an entry like the table's own: no     *)
(* variable loses the shape of the C object it stands for.                 *)
THEOREM TornTypeCorrect == TornSpec => []TypeOK
<1>1. IInv => TypeOK
  BY DEF IInv, Shapes, HistoryOK, TableOK, TypeOK, Table!TypeOK
<1> QED
  BY <1>1, TornInvariance, PTL DEF TornInv

(* A process does not live to read a third table, torn or not.             *)
THEOREM TornNoThirdTable == TornSpec => []TwoTablesAtMost
<1>1. IInv => TwoTablesAtMost
  BY DEF IInv, PeerOK, RequestsOK, TwoTablesAtMost
<1> QED
  BY <1>1, TornInvariance, PTL DEF TornInv

(* What remove_locally removes was deleted by a user, whatever mixture of  *)
(* moments the tables are.                                                 *)
THEOREM TornRemovalsHaveReasons == TornSpec => []RemovedForAReason
<1>1. IInv => RemovedForAReason
  BY DEF IInv, HistoryOK, Reason, RemovedForAReason
<1> QED
  BY <1>1, TornInvariance, PTL DEF TornInv

(* No torn table makes a peer store a file that no user has made.          *)
THEOREM TornFilesComeFromUsers == TornSpec => []NothingFromNowhere
<1>1. IInv => NothingFromNowhere
  BY PresentNames DEF NothingFromNowhere
<1> QED
  BY <1>1, TornInvariance, PTL DEF TornInv

(* The tracker names as holders peers that have held what they announced,  *)
(* although they may have worked with torn tables when they did.           *)
THEOREM TornHoldersHeld == TornSpec => []HolderHeldIt
<1>1. IInv => HolderHeldIt
  BY DEF IInv, TableOK, EntryOK, HolderHeldIt
<1> QED
  BY <1>1, TornInvariance, PTL DEF TornInv

(* talkto_tracker asks nobody for memory that no update was written to.    *)
THEOREM BlanksAreNotFetched == TornSpec => []OnlyHeldIsFetched
<1>1. IInv => OnlyHeldIsFetched
  <2> SUFFICES ASSUME IInv, NEW p \in Peers, At(p, "fetch")
               PROVE  Entry(p).holders # << >>
    BY DEF OnlyHeldIsFetched
  <2>1. proc[p].i <= Len(proc[p].table) /\ Entry(p).name # NoName
    BY DEF At, IInv, PeerOK, ProcOK, Entry
  <2> QED
    BY <2>1, EntryFacts DEF EntryOK
<1> QED
  BY <1>1, TornInvariance, PTL DEF TornInv
=============================================================================
