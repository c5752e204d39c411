------------------------------ MODULE Transfer ------------------------------
(***************************************************************************)
(* Downloads between peers (peer/peer.c): one peer that serves its files,  *)
(* its listen_to_peer thread and the uploadThread it starts for each       *)
(* connection, and the downloadFromPeer calls of other peers.              *)
(*                                                                         *)
(* listen_to_peer passes every uploadThread the address of the one         *)
(* variable peer_sock, which the next accept() overwrites; the thread      *)
(* reads it when it gets to run.                                           *)
(*                                                                         *)
(* A file is a sequence of cells, a cell being what one fill of the stdio  *)
(* buffer reads; what cell there is stands for the bytes.  A connection    *)
(* has the name of the download it is made for, and a thread the name of   *)
(* the connection it is started for.                                       *)
(***************************************************************************)
EXTENDS Integers, FiniteSets, Sequences

CONSTANTS Downloads,   \* downloads other peers make
          Names,       \* file names they ask for
          Mortal,      \* downloads whose peer may die meanwhile
          MaxFD,       \* bound: descriptors of the serving peer
          MaxLen,      \* bound: cells of a file
          MaxRewrites, \* bound: times users write a file of the serving peer
          NULL         \* no connection

ASSUME SetsAssumption ==
  /\ IsFiniteSet(Downloads) /\ NULL \notin Downloads /\ Mortal \subseteq Downloads
  /\ "other" \notin Downloads \cup {NULL}
  /\ Names \cap {"none", "empty", "junk"} = {}
ASSUME BoundsAssumption ==
  MaxFD \in Nat \ {0} /\ MaxLen \in Nat /\ MaxRewrites \in Nat

VARIABLES
  alive,      \* FALSE once the serving peer's process has died
  peer_sock,  \* listen_to_peer's variable: the last result of accept()
  backlog,    \* connections the kernel has made and nobody accepted
  fdt,        \* the serving peer's descriptors: their connections, "other"
              \* for what its other threads hold and inDirectory leaves open
  up,         \* upload threads
  want,       \* the request a connection carries to the serving peer
  down,       \* what a connection carries back and is not read yet
  client,     \* downloadFromPeer of each download
  file,       \* the serving peer's files
  touched,    \* history: files users have written or deleted
  overrun,    \* history: accept() overwrote peer_sock before it was read
  rewrites    \* what users may still do

vars == <<alive, peer_sock, backlog, fdt, up, want, down, client,
          file, touched, overrun, rewrites>>
disk == <<file, touched, rewrites>>
accepting == <<peer_sock, backlog, overrun>>

FDs == 1..MaxFD
Cells == {"old", "new"}             \* before and after users rewrote the file
Absent == <<"absent">>
Contents == UNION {[1..k -> Cells] : k \in 0..MaxLen}
Wanted(d) == client[d].name
Sizes == -1..MaxLen

(* what travels back: the size, then cells; read as the other, it is junk *)
SizeMessage(k) == [size |-> k]
CellMessage(c) == [cell |-> c]
IsSize(m) == "size" \in DOMAIN m

NoThread == [pc |-> "none", fd |-> -1, conn |-> NULL, name |-> "none",
             pos |-> 0, size |-> 0]

Init ==
  /\ alive = TRUE
  /\ peer_sock = -1
  /\ backlog = << >>
  /\ \E free \in 1..MaxFD :
       fdt = [f \in FDs |-> IF f <= free THEN NULL ELSE "other"]
  /\ up = [d \in Downloads |-> NoThread]
  /\ want = [d \in Downloads |-> "none"]
  /\ down = [d \in Downloads |-> << >>]
  /\ client \in [Downloads -> [pc : {"connect"}, name : Names, size : {0},
                               got : {<< >>}]]
  /\ file \in [Names -> {Absent} \cup {[i \in 1..k |-> "old"] : k \in 0..MaxLen}]
  /\ touched = {}
  /\ overrun = FALSE
  /\ rewrites = MaxRewrites
-----------------------------------------------------------------------------
(***************************************************************************)
(* Mistakes this code invites; each breaks a property when it takes the    *)
(* place of the operator it is named after.                                *)
(***************************************************************************)

MoreToSendNot(u) == u.pos + 1 < u.size          \* i < fileLen - 1
MoreToSendLast(u) == u.pos <= u.size            \* i <= fileLen

StartedNot(d) == NoThread                        \* no pthread_create
-----------------------------------------------------------------------------
Started(d) == [NoThread EXCEPT !.pc = "start"]

MoreToSend(u) == u.pos < u.size

NextCell(u) == [u EXCEPT !.pos = @ + 1]

(* getc past the end of the file is EOF, sent as a byte like any other *)
CellAt(n, k) == IF k <= Len(file[n]) THEN file[n][k] ELSE "eof"

LowestFree(table) ==
  {f \in FDs : table[f] = NULL /\ \A g \in FDs : table[g] = NULL => f <= g}

(* a downloader that sends and reads no more *)
Deaf(d) == client[d].pc \in {"done", "gone"}

(* The connection has come to its end: its socket is closed, and no thread *)
(* is still reading from it, or the process has died.                      *)
Ended(d) ==
  \/ ~alive
  \/ /\ client[d].pc # "connect"
     /\ \A k \in 1..Len(backlog) : backlog[k] # d
     /\ \A f \in FDs : fdt[f] # d
     /\ \A t \in Downloads : ~(up[t].pc = "recv" /\ up[t].conn = d)

Die == alive' = FALSE /\ UNCHANGED up
-----------------------------------------------------------------------------
(***************************************************************************)
(* listen_to_peer                                                          *)
(***************************************************************************)

(* Threads that have not read peer_sock yet. *)
Unread == {d \in Downloads : up[d].pc = "start"}

Accept ==
  /\ alive /\ backlog # << >>
  /\ \E f \in LowestFree(fdt) :
       /\ fdt' = [fdt EXCEPT ![f] = Head(backlog)]
       /\ peer_sock' = f
  /\ up' = [up EXCEPT ![Head(backlog)] = Started(Head(backlog))]
  /\ backlog' = Tail(backlog)
  /\ overrun' = (overrun \/ Unread # {})
  /\ UNCHANGED <<alive, want, down, client, disk>>

(* accept() returns -1 into the same variable, and the loop tries again. *)
AcceptFails ==
  /\ alive /\ backlog # << >>
  /\ LowestFree(fdt) = {}
  /\ peer_sock' = -1
  /\ overrun' = (overrun \/ Unread # {})
  /\ UNCHANGED <<alive, backlog, fdt, up, want, down, client, disk>>

(***************************************************************************)
(* uploadThread                                                            *)
(***************************************************************************)

At(t, label) == alive /\ up[t].pc = label

ReadPeerSock(t) ==
  /\ At(t, "start")
  /\ up' = [up EXCEPT ![t].fd = peer_sock, ![t].pc = "enter"]
  /\ UNCHANGED <<alive, accepting, fdt, want, down, client, disk>>

(* recv() on a number: the connection it refers to now, or EBADF *)
Enter(t) ==
  /\ At(t, "enter")
  /\ IF up[t].fd \in FDs /\ fdt[up[t].fd] # NULL
     THEN up' = [up EXCEPT ![t].conn = fdt[up[t].fd], ![t].pc = "recv"]
     ELSE up' = [up EXCEPT ![t].pc = "over"]
  /\ UNCHANGED <<alive, accepting, fdt, want, down, client, disk>>

RecvName(t) ==
  /\ At(t, "recv") /\ want[up[t].conn] # "none"
  /\ up' = [up EXCEPT ![t].name = want[up[t].conn], ![t].pc = "open"]
  /\ want' = [want EXCEPT ![up[t].conn] = "none"]
  /\ UNCHANGED <<alive, accepting, fdt, down, client, disk>>

(* recv() returns 0, which is not < 0: filename is what the stack held.    *)
(* In a new stack that is the empty name, in one that an earlier thread    *)
(* has used the name it was asked for, otherwise anything.                 *)
RecvNothing(t) ==
  /\ At(t, "recv") /\ want[up[t].conn] = "none" /\ Deaf(up[t].conn)
  /\ \E n \in Names \cup {"empty", "junk"} :
       up' = [up EXCEPT ![t].name = n, ![t].pc = "open"]
  /\ UNCHANGED <<alive, accepting, fdt, want, down, client, disk>>

(* recv() returns -1: the thread ends and leaves the socket open. *)
RecvFails(t) ==
  /\ At(t, "recv") /\ want[up[t].conn] = "none" /\ Deaf(up[t].conn)
  /\ up' = [up EXCEPT ![t].pc = "over"]
  /\ UNCHANGED <<alive, accepting, fdt, want, down, client, disk>>

(* fopen, and fseek on its result whether NULL or not.  The empty name is  *)
(* the directory itself, of which ftell says -1.                           *)
Open(t) ==
  /\ At(t, "open")
  /\ \/ /\ up[t].name \in Names /\ file[up[t].name] # Absent
        /\ up' = [up EXCEPT ![t].size = Len(file[up[t].name]), ![t].pc = "size"]
        /\ UNCHANGED alive
     \/ /\ up[t].name = "empty"
        /\ up' = [up EXCEPT ![t].size = -1, ![t].pc = "size"]
        /\ UNCHANGED alive
     \/ /\ up[t].name \in {"junk"} \cup {n \in Names : file[n] = Absent}
        /\ Die
  /\ UNCHANGED <<accepting, fdt, want, down, client, disk>>

(* What send() puts on the connection its number refers to now.  When the  *)
(* other side is gone, send() goes unnoticed or raises SIGPIPE.            *)
Put(t, what) ==
  IF fdt[up[t].fd] = NULL \/ Deaf(fdt[up[t].fd]) THEN UNCHANGED down
  ELSE down' = [down EXCEPT ![fdt[up[t].fd]] = Append(@, what)]

Broken(t) == fdt[up[t].fd] # NULL /\ Deaf(fdt[up[t].fd])

(* A send() of the size that fails ends the process: exit(EXIT_FAILURE). *)
SendSize(t) ==
  /\ At(t, "size")
  /\ \/ /\ fdt[up[t].fd] # NULL
        /\ Put(t, SizeMessage(up[t].size))
        /\ up' = [up EXCEPT ![t].pc = "bytes"]
        /\ UNCHANGED alive
     \/ (fdt[up[t].fd] = NULL \/ Broken(t)) /\ Die /\ UNCHANGED down
  /\ UNCHANGED <<accepting, fdt, want, client, disk>>

SendCell(t) ==
  /\ At(t, "bytes") /\ MoreToSend(up[t])
  /\ \/ /\ Put(t, CellMessage(CellAt(up[t].name, up[t].pos + 1)))
        /\ up' = [up EXCEPT ![t] = NextCell(@)]
        /\ UNCHANGED alive
     \/ Broken(t) /\ Die /\ UNCHANGED down
  /\ UNCHANGED <<accepting, fdt, want, client, disk>>

CloseSock(t) ==
  /\ At(t, "bytes") /\ ~MoreToSend(up[t])
  /\ fdt' = [fdt EXCEPT ![up[t].fd] = NULL]
  /\ up' = [up EXCEPT ![t].pc = "over"]
  /\ UNCHANGED <<alive, accepting, want, down, client, disk>>

(***************************************************************************)
(* downloadFromPeer                                                        *)
(***************************************************************************)

Doing(d, label) == client[d].pc = label

Connect(d) ==
  /\ Doing(d, "connect")
  /\ IF alive
     THEN /\ backlog' = Append(backlog, d)
          /\ client' = [client EXCEPT ![d].pc = "ask"]
     ELSE /\ client' = [client EXCEPT ![d].pc = "failed"]
          /\ UNCHANGED backlog
  /\ UNCHANGED <<alive, peer_sock, overrun, fdt, up, want, down, disk>>

(* send() to a process that has died is lost, fails, or raises SIGPIPE. *)
Ask(d) ==
  /\ Doing(d, "ask")
  /\ \/ /\ ~Ended(d)
        /\ want' = [want EXCEPT ![d] = Wanted(d)]
        /\ client' = [client EXCEPT ![d].pc = "size"]
     \/ /\ Ended(d)
        /\ \E label \in {"size", "failed", "gone"} :
             client' = [client EXCEPT ![d].pc = label]
        /\ UNCHANGED want
  /\ UNCHANGED <<alive, accepting, fdt, up, down, disk>>

(* The size makes the loop's bound and the file is truncated. *)
Begin(d, size) == [client[d] EXCEPT !.size = size, !.pc = "bytes"]

GetSize(d) ==
  /\ Doing(d, "size") /\ down[d] # << >>
  /\ IF IsSize(Head(down[d]))
     THEN client' = [client EXCEPT ![d] = Begin(d, Head(down[d]).size)]
     ELSE \E size \in Sizes : client' = [client EXCEPT ![d] = Begin(d, size)]
  /\ down' = [down EXCEPT ![d] = Tail(@)]
  /\ UNCHANGED <<alive, accepting, fdt, up, want, disk>>

(* recv() returns 0, which is not < 0, and file_size_received was never    *)
(* set; or -1, after which the function returns with its socket open.      *)
GetNoSize(d) ==
  /\ Doing(d, "size") /\ down[d] = << >> /\ Ended(d)
  /\ \/ \E size \in Sizes : client' = [client EXCEPT ![d] = Begin(d, size)]
     \/ client' = [client EXCEPT ![d].pc = "failed"]
  /\ UNCHANGED <<alive, accepting, fdt, up, want, down, disk>>

Got(d, cell) == client' = [client EXCEPT ![d].got = Append(@, cell)]
Short(d) == Len(client[d].got) < client[d].size

GetCell(d) ==
  /\ Doing(d, "bytes") /\ Short(d) /\ down[d] # << >>
  /\ Got(d, IF IsSize(Head(down[d])) THEN "junk" ELSE Head(down[d]).cell)
  /\ down' = [down EXCEPT ![d] = Tail(@)]
  /\ UNCHANGED <<alive, accepting, fdt, up, want, disk>>

(* The result of this recv() is not looked at: c was never set. *)
GetNoCell(d) ==
  /\ Doing(d, "bytes") /\ Short(d) /\ down[d] = << >> /\ Ended(d)
  /\ Got(d, "junk")
  /\ UNCHANGED <<alive, accepting, fdt, up, want, down, disk>>

Finish(d) ==
  /\ Doing(d, "bytes") /\ ~Short(d)
  /\ client' = [client EXCEPT ![d].pc = "done"]
  /\ down' = [down EXCEPT ![d] = << >>]
  /\ UNCHANGED <<alive, accepting, fdt, up, want, disk>>

PeerDies(d) ==
  /\ d \in Mortal /\ client[d].pc \in {"ask", "size", "bytes"}
  /\ client' = [client EXCEPT ![d].pc = "gone"]
  /\ down' = [down EXCEPT ![d] = << >>]
  /\ UNCHANGED <<alive, accepting, fdt, up, want, disk>>

(***************************************************************************)
(* Users of the serving peer's directory.  A file is written by truncating *)
(* it and then adding to it.  It is not deleted while an upload has it     *)
(* open: the upload would go on reading what there was.                    *)
(***************************************************************************)

Reading(n) == \E t \in Downloads : up[t].name = n /\ up[t].pc \in {"size", "bytes"}

Write(n, contents) ==
  /\ rewrites > 0
  /\ file' = [file EXCEPT ![n] = contents]
  /\ touched' = touched \cup {n}
  /\ rewrites' = rewrites - 1
  /\ UNCHANGED <<alive, accepting, fdt, up, want, down, client>>

Truncate(n) == Write(n, << >>)

Extend(n) ==
  /\ file[n] # Absent /\ Len(file[n]) < MaxLen
  /\ Write(n, Append(file[n], "new"))

Delete(n) == file[n] # Absent /\ ~Reading(n) /\ Write(n, Absent)

-----------------------------------------------------------------------------
Listener == Accept \/ AcceptFails

Upload(t) ==
  \/ ReadPeerSock(t) \/ Enter(t) \/ RecvName(t) \/ RecvNothing(t) \/ RecvFails(t)
  \/ Open(t) \/ SendSize(t) \/ SendCell(t) \/ CloseSock(t)

Download(d) ==
  \/ Connect(d) \/ Ask(d) \/ GetSize(d) \/ GetNoSize(d) \/ GetCell(d)
  \/ GetNoCell(d) \/ Finish(d)

Next ==
  \/ Listener
  \/ \E t \in Downloads : Upload(t) \/ Download(t) \/ PeerDies(t)
  \/ \E n \in Names : Truncate(n) \/ Extend(n) \/ Delete(n)

Spec == Init /\ [][Next]_vars

(* Every thread of a peer that runs goes on running. *)
FairSpec ==
  /\ Spec
  /\ WF_vars(Listener)
  /\ \A d \in Downloads : WF_vars(Upload(d)) /\ WF_vars(Download(d))

-----------------------------------------------------------------------------
(***************************************************************************)
(* Properties.                                                             *)
(***************************************************************************)

(* Every variable has the shape of the C object it stands for. *)
TypeOK ==
  /\ alive \in BOOLEAN /\ overrun \in BOOLEAN
  /\ peer_sock \in FDs \cup {-1}
  /\ backlog \in Seq(Downloads)
  /\ fdt \in [FDs -> Downloads \cup {NULL, "other"}]
  /\ up \in [Downloads ->
        [pc : {"none", "start", "enter", "recv", "open", "size", "bytes", "over"},
         fd : FDs \cup {-1}, conn : Downloads \cup {NULL},
         name : Names \cup {"none", "empty", "junk"},
         pos : 0..MaxLen, size : Sizes]]
  /\ want \in [Downloads -> Names \cup {"none"}]
  /\ down \in [Downloads -> Seq([size : Sizes] \cup [cell : Cells \cup {"eof"}])]
  /\ client \in [Downloads ->
        [pc : {"connect", "ask", "size", "bytes", "done", "failed", "gone"},
         name : Names, size : Sizes, got : Seq(Cells \cup {"eof", "junk"})]]
  /\ file \in [Names -> Contents \cup {Absent}]
  /\ touched \subseteq Names
  /\ rewrites \in 0..MaxRewrites

(* A download that comes to its end, of a file users left alone, from a    *)
(* peer that did not die, has the file: every cell, in order, nothing      *)
(* else, however the uploads of several peers interleave and whichever     *)
(* descriptors they reuse, as long as each uploadThread has read peer_sock *)
(* before the next connection is accepted.                                 *)
WholeFile ==
  \A d \in Downloads :
    Doing(d, "done") /\ alive /\ ~overrun /\ Wanted(d) \notin touched
      => client[d].got = file[Wanted(d)]

(* No descriptor is free, and the threads that should close them are over. *)
Exhausted ==
  \A f \in FDs :
    \/ fdt[f] = "other"
    \/ fdt[f] \in Downloads /\ up[fdt[f]].pc = "over"

(* A download ends, with a file that is right or wrong, even when users    *)
(* cut the file short while it is sent and accept() fails meanwhile,       *)
(* unless a connection was lost to peer_sock being overwritten, or threads *)
(* that return without closing their sockets have used up the descriptors. *)
DownloadsEnd ==
  \A d \in Downloads :
    Doing(d, "ask") ~>
      (client[d].pc \in {"done", "failed", "gone"} \/ overrun \/ Exhausted)

(***************************************************************************)
(* What the design says, and the code does not do.                         *)
(***************************************************************************)

(* "when receiving data request from other peer node, pthread_create(      *)
(* P2PUpload Thread )": a peer that asks is answered, when nobody dies.    *)
EveryRequestServed ==
  \A d \in Downloads :
    want[d] # "none" ~> (want[d] = "none" \/ ~alive)
=============================================================================
