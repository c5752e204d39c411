--------------------------- MODULE TransferProofs ---------------------------
(***************************************************************************)
(* Proofs about Transfer, for any number of downloads, files, descriptors, *)
(* cells of a file and rewrites.                                           *)
(***************************************************************************)
EXTENDS Transfer, FiniteSetTheorems, SequenceTheorems, TLAPS

(* What the types rest on: numbers that threads hold are of sockets, a     *)
(* thread that works has one, and a file that is open exists.              *)
HeldInv ==
  /\ peer_sock \in FDs => fdt[peer_sock] # "other"
  /\ \A t \in Downloads :
       LET u == up[t] IN
         /\ u.fd \in FDs => fdt[u.fd] # "other"
         /\ u.pc \in {"recv", "open", "size", "bytes"} => u.fd \in FDs
         /\ u.pc = "recv" => u.conn \in Downloads
         /\ u.pc \in {"size", "bytes"} =>
              u.size = -1 \/ (u.name \in Names /\ file[u.name] # Absent)

(* The process runs, and no connection was lost to peer_sock. *)
Calm == alive /\ ~overrun

Early == {"none", "start", "enter", "recv"}

(* A connection waits in the backlog once, from connect() to accept(). *)
BacklogInv ==
  /\ \A k \in 1..Len(backlog) :
       up[backlog[k]].pc = "none" /\ client[backlog[k]].pc # "connect"
  /\ \A j, k \in 1..Len(backlog) : backlog[j] = backlog[k] => j = k
  /\ \A d \in Downloads :
       client[d].pc # "connect" /\ up[d].pc = "none" =>
         \E k \in 1..Len(backlog) : backlog[k] = d

(* Each thread works on its own connection: peer_sock is that of the only  *)
(* thread that has not read it.                                            *)
OwnInv ==
  \A t \in Downloads :
    LET u == up[t] IN
      /\ u.pc = "start" =>
           Unread = {t} /\ peer_sock \in FDs /\ fdt[peer_sock] = t
      /\ u.pc \in {"enter", "recv", "open", "size", "bytes"} =>
           u.fd \in FDs /\ fdt[u.fd] = t
      /\ u.pc = "recv" => u.conn = t

(* A request is the name of the file, and nobody is served before it. *)
AskInv ==
  \A d \in Downloads :
    /\ want[d] \in {"none", Wanted(d)}
    /\ client[d].pc \in {"connect", "ask"} =>
         want[d] = "none" /\ up[d].pc \in Early
    /\ client[d].pc = "connect" => up[d].pc = "none"

(* Where the cells of file F are, when thread u has sent u.pos of them:    *)
(* those the client has got, and behind them those on their way.           *)
Sent(F, u, c, way) ==
  /\ u.pc \in Early \cup {"open", "size"} =>
       /\ u.pos = 0 /\ way = << >> /\ c.got = << >>
       /\ c.pc \in {"connect", "ask", "size"}
  /\ u.pc \in {"size", "bytes"} => u.size = Len(F)
  /\ u.pc \in {"size", "bytes", "over"} => F # Absent /\ u.pos <= Len(F)
  /\ u.pc = "over" => u.pos = Len(F)
  /\ u.pc \in {"bytes", "over"} /\ c.pc = "size" =>
       /\ c.got = << >>
       /\ Len(way) = u.pos + 1 /\ way[1] = SizeMessage(Len(F))
       /\ \A k \in 1..u.pos : way[k + 1] = CellMessage(F[k])
  /\ c.pc = "bytes" =>
       /\ c.size = Len(F) /\ Len(c.got) + Len(way) = u.pos
       /\ \A k \in 1..Len(c.got) : c.got[k] = F[k]
       /\ \A k \in 1..Len(way) : way[k] = CellMessage(F[Len(c.got) + k])
  /\ c.pc = "done" => c.got = F

StreamInv ==
  \A d \in Downloads :
    Wanted(d) \notin touched /\ client[d].pc \notin {"gone", "failed"} =>
      /\ up[d].pc \in {"open", "size", "bytes"} => up[d].name = Wanted(d)
      /\ Sent(file[Wanted(d)], up[d], client[d], down[d])

Parts == BacklogInv /\ OwnInv /\ AskInv /\ StreamInv
CalmInv == Calm => Parts

-----------------------------------------------------------------------------
(* Shapes.                                                                 *)

Threads ==
  [pc : {"none", "start", "enter", "recv", "open", "size", "bytes", "over"},
   fd : FDs \cup {-1}, conn : Downloads \cup {NULL},
   name : Names \cup {"none", "empty", "junk"},
   pos : 0..MaxLen, size : Sizes]
Clients ==
  [pc : {"connect", "ask", "size", "bytes", "done", "failed", "gone"},
   name : Names, size : Sizes, got : Seq(Cells \cup {"eof", "junk"})]
Sendable == [size : Sizes] \cup [cell : Cells \cup {"eof"}]

USE SetsAssumption, BoundsAssumption

(* A file that exists is a sequence of cells. *)
LEMMA FileFacts ==
  /\ Absent \notin Contents
  /\ \A F \in Contents : F \in Seq(Cells) /\ Len(F) \in 0..MaxLen
  /\ << >> \in Contents
  /\ \A F \in Contents : Len(F) < MaxLen => Append(F, "new") \in Contents
<1>1. ASSUME NEW F \in Contents PROVE F \in Seq(Cells) /\ Len(F) \in 0..MaxLen
  <2>1. PICK k \in 0..MaxLen : F \in [1..k -> Cells]
    BY DEF Contents
  <2>2. F \in Seq(Cells) /\ Len(F) = k
    BY <2>1
  <2> QED
    BY <2>2
<1>2. ASSUME NEW k \in 0..MaxLen, NEW F \in Seq(Cells), Len(F) = k
      PROVE  F \in Contents
  <2>1. F \in [1..k -> Cells]
    BY <1>2, LenProperties
  <2> QED
    BY <1>2, <2>1 DEF Contents
<1>3. << >> \in Contents
  <2>1. << >> \in [1..0 -> Cells] /\ 0 \in 0..MaxLen
    OBVIOUS
  <2> QED
    BY <2>1 DEF Contents
<1>4. ASSUME NEW F \in Contents, Len(F) < MaxLen PROVE Append(F, "new") \in Contents
  <2>1. /\ Append(F, "new") \in Seq(Cells)
        /\ Len(Append(F, "new")) = Len(F) + 1
    BY <1>1, AppendProperties DEF Cells
  <2>2. Len(F) + 1 \in 0..MaxLen
    BY <1>1, <1>4
  <2> QED
    BY <1>2, <2>1, <2>2
<1>5. Absent \notin Contents
  <2>1. Absent \in Contents => Absent[1] \in Cells
    <3>1. Len(Absent) = 1
      BY DEF Absent
    <3> QED
      BY <1>1, <3>1, ElementOfSeq
  <2> QED
    BY <2>1 DEF Absent, Cells
<1> QED
  BY <1>1, <1>3, <1>4, <1>5

LEMMA InitTypes == Init => TypeOK /\ HeldInv
<1> SUFFICES ASSUME Init PROVE TypeOK /\ HeldInv
  OBVIOUS
<1> USE DEF Init
<1>1. fdt \in [FDs -> Downloads \cup {NULL, "other"}] /\ peer_sock = -1
  OBVIOUS
<1>2. NoThread \in Threads /\ NoThread.fd = -1 /\ NoThread.pc = "none" /\ -1 \notin FDs
  BY DEF NoThread, Threads, Sizes, FDs
<1>3. up \in [Downloads -> Threads] /\ \A d \in Downloads : up[d] = NoThread
  BY <1>2
<1>4. down \in [Downloads -> Seq(Sendable)] /\ backlog \in Seq(Downloads)
  BY EmptySeq
<1>5. client \in [Downloads -> Clients]
  <2>1. \A d \in Downloads : client[d] \in Clients
    <3> TAKE d \in Downloads
    <3>1. client[d] \in [pc : {"connect"}, name : Names, size : {0}, got : {<< >>}]
      OBVIOUS
    <3>2. 0 \in Sizes /\ << >> \in Seq(Cells \cup {"eof", "junk"})
      BY EmptySeq DEF Sizes
    <3> QED
      BY <3>1, <3>2 DEF Clients
  <2> QED
    BY <2>1
<1>6. file \in [Names -> Contents \cup {Absent}]
  <2>1. \A k \in 0..MaxLen : [j \in 1..k |-> "old"] \in Contents
    <3> TAKE k \in 0..MaxLen
    <3>1. [j \in 1..k |-> "old"] \in [1..k -> Cells]
      BY DEF Cells
    <3> QED
      BY <3>1 DEF Contents
  <2>2. file \in [Names -> {Absent} \cup {[j \in 1..k |-> "old"] : k \in 0..MaxLen}]
    OBVIOUS
  <2> QED
    BY <2>1, <2>2
<1>7. /\ want \in [Downloads -> Names \cup {"none"}] /\ touched \subseteq Names
      /\ rewrites \in 0..MaxRewrites /\ alive \in BOOLEAN /\ overrun \in BOOLEAN
  <2>1. want \in [Downloads -> Names \cup {"none"}] /\ touched \subseteq Names
    OBVIOUS
  <2>2. rewrites \in 0..MaxRewrites
    OBVIOUS
  <2>3. alive \in BOOLEAN /\ overrun \in BOOLEAN
    OBVIOUS
  <2> QED
    BY <2>1, <2>2, <2>3
<1>8. TypeOK
  BY <1>1, <1>3, <1>4, <1>5, <1>6, <1>7 DEF TypeOK, Threads, Clients, Sendable
<1>9. HeldInv
  BY <1>1, <1>2, <1>3 DEF HeldInv
<1> QED
  BY <1>8, <1>9

(* A send() by a thread with a socket reaches a connection or nobody. *)
LEMMA PutTypes ==
  ASSUME TypeOK, HeldInv, NEW t \in Downloads, up[t].fd \in FDs,
         NEW what \in Sendable, Put(t, what)
  PROVE  down' \in [Downloads -> Seq(Sendable)]
<1>1. fdt[up[t].fd] \in Downloads \cup {NULL}
  BY DEF TypeOK, HeldInv
<1>2. down \in [Downloads -> Seq(Sendable)]
  BY DEF TypeOK, Sendable
<1>3. \A d \in Downloads : Append(down[d], what) \in Seq(Sendable)
  BY <1>2, AppendProperties
<1> QED
  BY <1>1, <1>2, <1>3 DEF Put

LEMMA ListenerTypes ==
  ASSUME TypeOK, HeldInv, Listener PROVE TypeOK' /\ HeldInv'
<1>1. CASE Accept
  <2>1. PICK f \in FDs :
          /\ fdt[f] = NULL
          /\ fdt' = [fdt EXCEPT ![f] = Head(backlog)]
          /\ peer_sock' = f
    BY <1>1 DEF Accept, LowestFree
  <2>2. Head(backlog) \in Downloads /\ Tail(backlog) \in Seq(Downloads)
    BY <1>1, HeadTailProperties DEF Accept, TypeOK
  <2>3. Started(Head(backlog)) \in Threads /\ Started(Head(backlog)).fd = -1
        /\ Started(Head(backlog)).pc = "start" /\ -1 \notin FDs
    BY DEF Started, NoThread, Threads, Sizes, FDs
  <2>4. fdt' \in [FDs -> Downloads \cup {NULL, "other"}] /\ "other" \notin Downloads
        /\ \A g \in FDs : fdt[g] # "other" => fdt'[g] # "other"
        /\ fdt'[f] # "other"
    BY <2>1, <2>2 DEF TypeOK
  <2>5. up' \in [Downloads -> Threads]
        /\ \A t \in Downloads : up'[t] = up[t] \/ up'[t] = Started(Head(backlog))
    BY <1>1, <2>2, <2>3 DEF Accept, TypeOK, Threads
  <2>6. overrun' \in BOOLEAN /\ alive' = alive /\ backlog' = Tail(backlog)
        /\ UNCHANGED <<want, down, client, file, touched, rewrites>>
    BY <1>1 DEF Accept, TypeOK, disk
  <2>7. TypeOK'
    BY <2>1, <2>2, <2>4, <2>5, <2>6 DEF TypeOK, Threads
  <2>8. HeldInv'
    BY <2>1, <2>3, <2>4, <2>5, <2>6 DEF HeldInv
  <2> QED
    BY <2>7, <2>8
<1>2. CASE AcceptFails
  BY <1>2 DEF AcceptFails, TypeOK, HeldInv, disk, FDs
<1> QED
  BY <1>1, <1>2 DEF Listener

(* A step of a thread that leaves the files and the descriptors alone. *)
LEMMA ThreadTypes ==
  ASSUME TypeOK, HeldInv, NEW t \in Downloads, NEW u \in Threads,
         up' = [up EXCEPT ![t] = u], UNCHANGED <<accepting, fdt, client, disk>>,
         alive' \in BOOLEAN, want' \in [Downloads -> Names \cup {"none"}],
         down' \in [Downloads -> Seq(Sendable)],
         u.fd \in FDs => fdt[u.fd] # "other",
         u.pc \in {"recv", "open", "size", "bytes"} => u.fd \in FDs,
         u.pc = "recv" => u.conn \in Downloads,
         u.pc \in {"size", "bytes"} =>
           u.size = -1 \/ (u.name \in Names /\ file[u.name] # Absent)
  PROVE  TypeOK' /\ HeldInv'
<1>1. TypeOK'
  BY DEF TypeOK, Threads, Sendable, accepting, disk
<1>2. HeldInv'
  <2>1. \A x \in Downloads : up'[x] = IF x = t THEN u ELSE up[x]
    BY DEF TypeOK
  <2>2. UNCHANGED <<peer_sock, fdt, file>>
    BY DEF accepting, disk
  <2> QED
    BY <2>1, <2>2 DEF HeldInv
<1> QED
  BY <1>1, <1>2

(* The process dies: nothing else changes. *)
LEMMA DieTypes ==
  ASSUME TypeOK, HeldInv, Die, UNCHANGED <<accepting, fdt, want, down, client, disk>>
  PROVE  TypeOK' /\ HeldInv'
BY DEF TypeOK, HeldInv, Die, accepting, disk

LEMMA UploadTypes ==
  ASSUME TypeOK, HeldInv, NEW t \in Downloads, Upload(t)
  PROVE  TypeOK' /\ HeldInv'
<1>1. up[t] \in Threads /\ up \in [Downloads -> Threads]
      /\ want \in [Downloads -> Names \cup {"none"}]
      /\ down \in [Downloads -> Seq(Sendable)] /\ alive \in BOOLEAN
  BY DEF TypeOK, Threads, Sendable
<1>2. -1 \notin FDs
  BY DEF FDs
<1>3. CASE ReadPeerSock(t)
  <2>1. PICK u \in Threads : u = [up[t] EXCEPT !.fd = peer_sock, !.pc = "enter"]
    BY <1>1 DEF Threads, TypeOK
  <2>2. u.fd = peer_sock /\ u.pc = "enter" /\ up' = [up EXCEPT ![t] = u]
    BY <1>1, <1>3, <2>1 DEF ReadPeerSock, Threads
  <2> QED
    <3>1. UNCHANGED <<alive, accepting, fdt, want, down, client, disk>>
      BY <1>3 DEF ReadPeerSock
    <3>2. peer_sock \in FDs => fdt[peer_sock] # "other"
      BY DEF HeldInv
    <3> QED
      BY <1>1, <2>2, <3>1, <3>2, ThreadTypes
<1>4. CASE Enter(t)
  <2>1. CASE up[t].fd \in FDs /\ fdt[up[t].fd] # NULL
    <3>1. fdt[up[t].fd] \in Downloads
      BY <2>1 DEF TypeOK, HeldInv
    <3>2. PICK u \in Threads : u = [up[t] EXCEPT !.conn = fdt[up[t].fd], !.pc = "recv"]
      BY <1>1, <3>1 DEF Threads
    <3>3. u.fd = up[t].fd /\ u.pc = "recv" /\ u.conn \in Downloads
          /\ up' = [up EXCEPT ![t] = u]
      BY <1>1, <1>4, <2>1, <3>1, <3>2 DEF Enter, Threads
    <3> QED
      BY <1>1, <1>4, <2>1, <3>3, ThreadTypes DEF Enter, HeldInv
  <2>2. CASE ~(up[t].fd \in FDs /\ fdt[up[t].fd] # NULL)
    <3>1. PICK u \in Threads : u = [up[t] EXCEPT !.pc = "over"]
      BY <1>1 DEF Threads
    <3>2. u.fd = up[t].fd /\ u.pc = "over" /\ up' = [up EXCEPT ![t] = u]
      BY <1>1, <1>4, <2>2, <3>1 DEF Enter, Threads
    <3> QED
      BY <1>1, <1>4, <3>2, ThreadTypes DEF Enter, HeldInv
  <2> QED
    BY <2>1, <2>2
<1>5. CASE RecvName(t)
  <2>1. up[t].pc = "recv" /\ up[t].conn \in Downloads /\ up[t].fd \in FDs
    BY <1>5 DEF RecvName, At, HeldInv
  <2>2. PICK u \in Threads : u = [up[t] EXCEPT !.name = want[up[t].conn], !.pc = "open"]
    BY <1>1, <2>1 DEF Threads
  <2>3. u.fd = up[t].fd /\ u.pc = "open" /\ up' = [up EXCEPT ![t] = u]
    BY <1>1, <1>5, <2>2 DEF RecvName, Threads
  <2>4. want' \in [Downloads -> Names \cup {"none"}]
    BY <1>1, <1>5, <2>1 DEF RecvName
  <2> QED
    <3>1. UNCHANGED <<alive, accepting, fdt, down, client, disk>>
      BY <1>5 DEF RecvName
    <3>2. up[t].fd \in FDs => fdt[up[t].fd] # "other"
      BY DEF HeldInv
    <3> QED
      BY <1>1, <2>1, <2>3, <2>4, <3>1, <3>2, ThreadTypes
<1>6. CASE RecvNothing(t)
  <2>1. PICK n \in Names \cup {"empty", "junk"} :
          up' = [up EXCEPT ![t].name = n, ![t].pc = "open"]
    BY <1>6 DEF RecvNothing
  <2>2. PICK u \in Threads : u = [up[t] EXCEPT !.name = n, !.pc = "open"]
    BY <1>1 DEF Threads
  <2>3. u.fd = up[t].fd /\ u.pc = "open" /\ up' = [up EXCEPT ![t] = u]
    BY <1>1, <2>1, <2>2 DEF Threads
  <2>4. up[t].fd \in FDs
    BY <1>6 DEF RecvNothing, At, HeldInv
  <2> QED
    BY <1>1, <1>6, <2>3, <2>4, ThreadTypes DEF RecvNothing, HeldInv
<1>7. CASE RecvFails(t)
  <2>1. PICK u \in Threads : u = [up[t] EXCEPT !.pc = "over"]
    BY <1>1 DEF Threads
  <2>2. u.fd = up[t].fd /\ u.pc = "over" /\ up' = [up EXCEPT ![t] = u]
    BY <1>1, <1>7, <2>1 DEF RecvFails, Threads
  <2> QED
    <3>1. UNCHANGED <<alive, accepting, fdt, want, down, client, disk>>
      BY <1>7 DEF RecvFails
    <3>2. up[t].fd \in FDs => fdt[up[t].fd] # "other"
      BY DEF HeldInv
    <3> QED
      BY <1>1, <2>2, <3>1, <3>2, ThreadTypes
<1>8. CASE Open(t)
  <2>1. up[t].fd \in FDs /\ fdt[up[t].fd] # "other"
    BY <1>8 DEF Open, At, HeldInv
  <2>2. ASSUME NEW k \in Sizes, up' = [up EXCEPT ![t].size = k, ![t].pc = "size"],
               UNCHANGED alive,
               k = -1 \/ (up[t].name \in Names /\ file[up[t].name] # Absent)
        PROVE  TypeOK' /\ HeldInv'
    <3>1. PICK u \in Threads : u = [up[t] EXCEPT !.size = k, !.pc = "size"]
      BY <1>1 DEF Threads
    <3>2. u.fd = up[t].fd /\ u.pc = "size" /\ u.size = k /\ u.name = up[t].name
          /\ up' = [up EXCEPT ![t] = u]
      BY <1>1, <2>2, <3>1 DEF Threads
    <3> QED
      <4>1. UNCHANGED <<accepting, fdt, want, down, client, disk>>
        BY <1>8 DEF Open
      <4>2. /\ alive' \in BOOLEAN /\ want' \in [Downloads -> Names \cup {"none"}]
            /\ down' \in [Downloads -> Seq(Sendable)]
        BY <1>1, <2>2, <4>1
      <4>3. u.size = -1 \/ (u.name \in Names /\ file[u.name] # Absent)
        BY <2>2, <3>2
      <4> QED
        BY <2>1, <3>2, <4>1, <4>2, <4>3, ThreadTypes
  <2>3. CASE up[t].name \in Names /\ file[up[t].name] # Absent
    <3>1. Len(file[up[t].name]) \in Sizes
      BY <2>3, FileFacts DEF TypeOK, Sizes
    <3> QED
      BY <1>8, <2>2, <2>3, <3>1, DieTypes DEF Open
  <2>4. -1 \in Sizes
    BY DEF Sizes
  <2> QED
    BY <1>8, <2>2, <2>3, <2>4, DieTypes DEF Open
<1>9. CASE SendSize(t)
  <2>1. CASE Die /\ UNCHANGED down
    BY <1>9, <2>1, DieTypes DEF SendSize
  <2>2. CASE ~(Die /\ UNCHANGED down)
    <3>1. up[t].fd \in FDs /\ up[t].pc = "size"
      BY <1>9 DEF SendSize, At, HeldInv
    <3>2. SizeMessage(up[t].size) \in Sendable
      BY <1>1 DEF SizeMessage, Threads, Sendable
    <3>3. down' \in [Downloads -> Seq(Sendable)] /\ UNCHANGED alive
      BY <1>9, <2>2, <3>1, <3>2, PutTypes DEF SendSize
    <3>4. PICK u \in Threads : u = [up[t] EXCEPT !.pc = "bytes"]
      BY <1>1 DEF Threads
    <3>5. /\ u.fd = up[t].fd /\ u.pc = "bytes" /\ u.size = up[t].size
          /\ u.name = up[t].name /\ up' = [up EXCEPT ![t] = u]
      BY <1>1, <1>9, <2>2, <3>4 DEF SendSize, Threads
    <3> QED
      BY <1>1, <1>9, <3>1, <3>3, <3>5, ThreadTypes DEF SendSize, HeldInv
  <2> QED
    BY <2>1, <2>2
<1>10. CASE SendCell(t)
  <2>1. CASE Die /\ UNCHANGED down
    BY <1>10, <2>1, DieTypes DEF SendCell
  <2>2. CASE ~(Die /\ UNCHANGED down)
    <3>1. up[t].fd \in FDs /\ up[t].pc = "bytes" /\ up[t].pos < up[t].size
      BY <1>10 DEF SendCell, At, HeldInv, MoreToSend
    <3>2. up[t].pos + 1 \in 0..MaxLen /\ up[t].pos + 1 \in Nat /\ up[t].pos + 1 >= 1
          /\ up[t].size # -1
      BY <1>1, <3>1 DEF Threads, Sizes
    <3>3. up[t].name \in Names /\ file[up[t].name] \in Contents
      BY <3>1, <3>2 DEF HeldInv, TypeOK
    <3>4. CellAt(up[t].name, up[t].pos + 1) \in Cells \cup {"eof"}
      BY <3>2, <3>3, FileFacts, ElementOfSeq DEF CellAt
    <3>5. CellMessage(CellAt(up[t].name, up[t].pos + 1)) \in Sendable
      BY <3>4 DEF CellMessage, Sendable
    <3>6. down' \in [Downloads -> Seq(Sendable)] /\ UNCHANGED alive
      BY <1>10, <2>2, <3>1, <3>5, PutTypes DEF SendCell
    <3>7. PICK u \in Threads : u = NextCell(up[t])
      BY <1>1, <3>2 DEF NextCell, Threads
    <3>8. /\ u.fd = up[t].fd /\ u.pc = "bytes" /\ u.size = up[t].size
          /\ u.name = up[t].name /\ up' = [up EXCEPT ![t] = u]
      BY <1>1, <1>10, <2>2, <3>1, <3>7 DEF SendCell, NextCell, Threads
    <3> QED
      BY <1>1, <1>10, <3>1, <3>6, <3>8, ThreadTypes DEF SendCell, HeldInv
  <2> QED
    BY <2>1, <2>2
<1>11. CASE CloseSock(t)
  <2>1. up' \in [Downloads -> Threads] /\ fdt' \in [FDs -> Downloads \cup {NULL, "other"}]
    BY <1>1, <1>11 DEF CloseSock, Threads, TypeOK
  <2>2. \A f \in FDs : fdt[f] # "other" => fdt'[f] # "other"
    BY <1>11 DEF CloseSock, TypeOK, FDs
  <2>3. \A x \in Downloads :
          /\ up'[x].fd = up[x].fd /\ up'[x].conn = up[x].conn
          /\ up'[x].size = up[x].size /\ up'[x].name = up[x].name
          /\ up'[x].pc = up[x].pc \/ up'[x].pc = "over"
    BY <1>1, <1>11 DEF CloseSock, Threads
  <2>4. UNCHANGED <<alive, accepting, want, down, client, disk>>
    BY <1>11 DEF CloseSock
  <2>5. TypeOK'
    BY <2>1, <2>4 DEF TypeOK, Threads, accepting, disk
  <2>6. HeldInv'
    BY <2>2, <2>3, <2>4 DEF HeldInv, accepting, disk
  <2> QED
    BY <2>5, <2>6
<1> QED
  BY <1>3, <1>4, <1>5, <1>6, <1>7, <1>8, <1>9, <1>10, <1>11 DEF Upload

LEMMA DownloadTypes ==
  ASSUME TypeOK, HeldInv, NEW d \in Downloads, Download(d) \/ PeerDies(d)
  PROVE  TypeOK' /\ HeldInv'
<1>1. client[d] \in Clients /\ client \in [Downloads -> Clients]
      /\ down \in [Downloads -> Seq(Sendable)]
  BY DEF TypeOK, Clients, Sendable
<1>2. ASSUME UNCHANGED <<alive, accepting, fdt, up, disk>>,
             client' \in [Downloads -> Clients], down' \in [Downloads -> Seq(Sendable)],
             want' \in [Downloads -> Names \cup {"none"}]
      PROVE  TypeOK' /\ HeldInv'
  BY <1>2 DEF TypeOK, HeldInv, Clients, Sendable, accepting, disk
<1>3. \A p \in {"ask", "size", "bytes", "done", "failed", "gone"} :
        [client EXCEPT ![d].pc = p] \in [Downloads -> Clients]
  BY <1>1 DEF Clients
<1>4. down[d] # << >> => /\ Head(down[d]) \in Sendable
                         /\ [down EXCEPT ![d] = Tail(@)] \in [Downloads -> Seq(Sendable)]
  BY <1>1, HeadTailProperties
<1>5. [down EXCEPT ![d] = << >>] \in [Downloads -> Seq(Sendable)]
  BY <1>1, EmptySeq
<1>6. \A m \in Sendable : IF IsSize(m) THEN m.size \in Sizes ELSE m.cell \in Cells \cup {"eof"}
  BY DEF Sendable, IsSize
<1>7. \A k \in Sizes : [client EXCEPT ![d] = Begin(d, k)] \in [Downloads -> Clients]
  BY <1>1 DEF Begin, Clients
<1>8. \A c \in Cells \cup {"eof", "junk"} :
        Got(d, c) => client' \in [Downloads -> Clients]
  <2> TAKE c \in Cells \cup {"eof", "junk"}
  <2>1. Append(client[d].got, c) \in Seq(Cells \cup {"eof", "junk"})
    BY <1>1, AppendProperties DEF Clients
  <2>2. [client[d] EXCEPT !.got = Append(client[d].got, c)] \in Clients
    BY <1>1, <2>1 DEF Clients
  <2> QED
    BY <1>1, <2>2 DEF Got
<1>9. CASE Connect(d)
  <2>1. client' \in [Downloads -> Clients] /\ UNCHANGED <<alive, peer_sock, overrun, fdt, up, want, down, disk>>
    BY <1>3, <1>9 DEF Connect
  <2>2. backlog' \in Seq(Downloads)
    <3>1. backlog \in Seq(Downloads) /\ Append(backlog, d) \in Seq(Downloads)
      BY AppendProperties DEF TypeOK
    <3> QED
      BY <1>9, <3>1 DEF Connect
  <2> QED
    BY <2>1, <2>2 DEF TypeOK, HeldInv, Clients, disk
<1>10. CASE Ask(d)
  <2>1. client' \in [Downloads -> Clients]
    BY <1>3, <1>10 DEF Ask
  <2>2. want' \in [Downloads -> Names \cup {"none"}]
    BY <1>1, <1>10 DEF Ask, Wanted, Clients, TypeOK
  <2> QED
    BY <1>1, <1>2, <1>10, <2>1, <2>2 DEF Ask
<1>11. CASE GetSize(d)
  <2>1. client' \in [Downloads -> Clients]
    BY <1>4, <1>6, <1>7, <1>11 DEF GetSize
  <2>2. down' \in [Downloads -> Seq(Sendable)] /\ want' = want
    BY <1>4, <1>11 DEF GetSize
  <2> QED
    BY <1>2, <1>11, <2>1, <2>2 DEF GetSize, TypeOK
<1>12. CASE GetNoSize(d)
  <2>1. client' \in [Downloads -> Clients]
    BY <1>3, <1>7, <1>12 DEF GetNoSize
  <2>2. down' = down /\ want' = want
    BY <1>12 DEF GetNoSize
  <2> QED
    BY <1>1, <1>2, <1>12, <2>1, <2>2 DEF GetNoSize, TypeOK
<1>13. CASE GetCell(d)
  <2>1. client' \in [Downloads -> Clients]
    BY <1>4, <1>6, <1>8, <1>13 DEF GetCell
  <2>2. down' \in [Downloads -> Seq(Sendable)] /\ want' = want
    BY <1>4, <1>13 DEF GetCell
  <2> QED
    BY <1>2, <1>13, <2>1, <2>2 DEF GetCell, TypeOK
<1>14. CASE GetNoCell(d)
  BY <1>1, <1>2, <1>8, <1>14 DEF GetNoCell, TypeOK
<1>15. CASE Finish(d)
  BY <1>2, <1>3, <1>5, <1>15 DEF Finish, TypeOK
<1>16. CASE PeerDies(d)
  BY <1>2, <1>3, <1>5, <1>16 DEF PeerDies, TypeOK
<1> QED
  BY <1>9, <1>10, <1>11, <1>12, <1>13, <1>14, <1>15, <1>16 DEF Download

LEMMA UserTypes ==
  ASSUME TypeOK, HeldInv, NEW n \in Names, Truncate(n) \/ Extend(n) \/ Delete(n)
  PROVE  TypeOK' /\ HeldInv'
<1>1. PICK F \in Contents \cup {Absent} : Write(n, F) /\ (F = Absent => ~Reading(n))
  BY FileFacts DEF Truncate, Extend, Delete, TypeOK
<1>2. file' = [file EXCEPT ![n] = F] /\ file' \in [Names -> Contents \cup {Absent}]
      /\ UNCHANGED <<alive, accepting, fdt, up, want, down, client>>
  BY <1>1 DEF Write, TypeOK
<1>3. touched' \subseteq Names /\ rewrites' \in 0..MaxRewrites
  BY <1>1 DEF Write, TypeOK
<1>4. TypeOK'
  BY <1>2, <1>3 DEF TypeOK, accepting
<1>5. ASSUME NEW t \in Downloads, up[t].pc \in {"size", "bytes"}, up[t].name \in Names,
             file[up[t].name] # Absent
      PROVE  file'[up[t].name] # Absent
  BY <1>1, <1>2, <1>5 DEF Reading, TypeOK
<1>6. HeldInv'
  BY <1>2, <1>5 DEF HeldInv, accepting
<1> QED
  BY <1>4, <1>6

LEMMA TypeStep ==
  ASSUME TypeOK, HeldInv, [Next]_vars PROVE TypeOK' /\ HeldInv'
<1>1. CASE UNCHANGED vars
  BY <1>1 DEF vars, TypeOK, HeldInv
<1> QED
  BY <1>1, ListenerTypes, UploadTypes, DownloadTypes, UserTypes DEF Next

(* Every variable keeps the shape of the C object it stands for; that no   *)
(* thread sends to a descriptor of the peer's other threads, and none      *)
(* reads a file that is not there, is part of the argument.                *)
THEOREM TypeCorrect == Spec => []TypeOK
<1>1. TypeOK /\ HeldInv /\ [Next]_vars => (TypeOK /\ HeldInv)'
  BY TypeStep
<1> QED
  BY <1>1, InitTypes, PTL DEF Spec

-----------------------------------------------------------------------------
(* What Sent keeps: the steps of a thread, then those of a download.       *)

LEMMA SentWaiting ==
  ASSUME NEW F, NEW u, NEW u2, NEW c, NEW way, Sent(F, u, c, way),
         u.pc \in Early, u2.pc \in Early \cup {"open"}, u2.pos = u.pos
  PROVE  Sent(F, u2, c, way)
BY DEF Sent, Early

LEMMA SentOpened ==
  ASSUME NEW F \in Contents, NEW u, NEW u2, NEW c, NEW way, Sent(F, u, c, way),
         u.pc = "open", u2.pc = "size", u2.pos = u.pos, u2.size = Len(F)
  PROVE  Sent(F, u2, c, way)
<1>1. F # Absent /\ 0 <= Len(F)
  BY FileFacts
<1> QED
  BY <1>1 DEF Sent, Early

LEMMA SentTheSize ==
  ASSUME NEW F, NEW u, NEW u2, NEW c, NEW way \in Seq(Sendable), Sent(F, u, c, way),
         SizeMessage(u.size) \in Sendable,
         u.pc = "size", u2.pc = "bytes", u2.pos = u.pos, u2.size = u.size
  PROVE  Sent(F, u2, c, Append(way, SizeMessage(u.size)))
<1>1. /\ u.pos = 0 /\ way = << >> /\ c.got = << >> /\ u.size = Len(F)
      /\ F # Absent /\ u.pos <= Len(F) /\ c.pc \in {"connect", "ask", "size"}
  BY DEF Sent
<1>2. Len(Append(way, SizeMessage(u.size))) = 1
      /\ Append(way, SizeMessage(u.size))[1] = SizeMessage(u.size)
  BY <1>1, AppendProperties
<1> QED
  BY <1>1, <1>2 DEF Sent, Early

(* The thread u, having sent its next cell, is u2, and what is on its way  *)
(* to the client c grows from way to way2 as long as c listens.            *)
SendsACell(F, u, u2, c, way, way2) ==
  /\ u.pc = "bytes" /\ u.pos < u.size
  /\ u2.pc = "bytes" /\ u2.pos = u.pos + 1 /\ u2.size = u.size
  /\ c.pc \notin {"connect", "ask"}
  /\ c.pc \notin {"done", "gone"} =>
       /\ Len(way2) = Len(way) + 1
       /\ way2[Len(way) + 1] = CellMessage(F[u.pos + 1])
       /\ \A k \in 1..Len(way) : way2[k] = way[k]

LEMMA SentGrown ==
  ASSUME NEW F \in Contents, NEW u \in Threads, NEW u2, NEW c \in Clients,
         NEW way, NEW way2, Len(way) \in Nat, Sent(F, u, c, way),
         SendsACell(F, u, u2, c, way, way2)
  PROVE  Sent(F, u2, c, way2)
<1>a. u.pos \in Nat /\ Len(F) \in Nat /\ u.size = Len(F) /\ F # Absent
  BY FileFacts DEF Sent, Threads, SendsACell
<1>b. u.pc = "bytes" /\ u2.pc = "bytes" /\ u2.pos = u.pos + 1 /\ u2.size = u.size
      /\ c.pc \notin {"connect", "ask"}
  BY DEF SendsACell
<1>1. u2.pos \in Nat /\ u2.pos <= Len(F)
  <2>1. u.pos < Len(F)
    BY <1>a DEF SendsACell
  <2> QED
    BY <1>a, <1>b, <2>1
<1>2. c.pc \notin {"done", "gone"} =>
        /\ Len(way2) = Len(way) + 1 /\ way2[Len(way) + 1] = CellMessage(F[u.pos + 1])
        /\ \A k \in 1..Len(way) : way2[k] = way[k]
  BY DEF SendsACell
<1>3. Len(c.got) \in Nat
  BY DEF Clients
<1>4. CASE c.pc = "size"
  <2>1. c.got = << >> /\ way[1] = SizeMessage(Len(F))
    BY <1>b, <1>4 DEF Sent
  <2>2. Len(way) = u.pos + 1 /\ \A k \in 1..u.pos : way[k + 1] = CellMessage(F[k])
    BY <1>b, <1>4 DEF Sent
  <2>3. Len(way2) = u2.pos + 1 /\ 1 \in 1..Len(way)
    BY <1>a, <1>b, <1>2, <1>4, <2>2
  <2>4. way2[1] = SizeMessage(Len(F))
    BY <1>2, <1>4, <2>1, <2>3
  <2>5. ASSUME NEW k \in 1..u2.pos PROVE way2[k + 1] = CellMessage(F[k])
    <3>1. CASE k = u.pos + 1
      BY <1>2, <1>4, <2>2, <3>1
    <3>2. CASE k \in 1..u.pos
      <4>1. k + 1 \in 1..Len(way)
        BY <1>a, <2>2, <3>2
      <4> QED
        BY <1>2, <1>4, <2>2, <3>2, <4>1
    <3>3. \A p \in Nat : k \in 1..p + 1 => k = p + 1 \/ k \in 1..p
      OBVIOUS
    <3>4. k \in 1..u.pos + 1
      BY <1>b, <2>5
    <3> QED
      BY <1>a, <3>1, <3>2, <3>3, <3>4
  <2> QED
    BY <1>a, <1>b, <1>1, <1>4, <2>1, <2>3, <2>4, <2>5 DEF Sent, Early
<1>5. CASE c.pc = "bytes"
  <2>1. PICK g \in Nat : g = Len(c.got)
    BY <1>3
  <2>2. /\ c.size = Len(F)
        /\ \A k \in 1..Len(c.got) : c.got[k] = F[k]
    BY <1>5 DEF Sent
  <2>3. g + Len(way) = u.pos
    BY <1>5, <2>1 DEF Sent
  <2>4. \A k \in 1..Len(way) : way[k] = CellMessage(F[g + k])
    BY <1>5, <2>1 DEF Sent
  <2>5. Len(way2) = Len(way) + 1 /\ g + (Len(way) + 1) = u.pos + 1
    BY <1>a, <1>2, <1>5, <2>3
  <2>6. g + Len(way2) = u2.pos
    BY <1>b, <2>5
  <2>7. ASSUME NEW k \in 1..Len(way2) PROVE way2[k] = CellMessage(F[g + k])
    <3>1. CASE k = Len(way) + 1
      BY <1>2, <1>5, <2>5, <3>1
    <3>2. CASE k \in 1..Len(way)
      BY <1>2, <1>5, <2>4, <3>2
    <3>3. k = Len(way) + 1 \/ k \in 1..Len(way)
      BY <2>5, <2>7
    <3> QED
      BY <3>1, <3>2, <3>3
  <2> QED
    BY <1>a, <1>b, <1>1, <1>5, <2>1, <2>2, <2>6, <2>7 DEF Sent, Early
<1>6. CASE c.pc \notin {"size", "bytes"}
  BY <1>a, <1>b, <1>1, <1>6 DEF Sent, Early
<1> QED
  BY <1>4, <1>5, <1>6

LEMMA SentACell ==
  ASSUME NEW F \in Contents, NEW u \in Threads, NEW u2, NEW c \in Clients,
         NEW way \in Seq(Sendable), NEW way2, Sent(F, u, c, way),
         u.pc = "bytes", u.pos < u.size, u2.pc = "bytes", u2.pos = u.pos + 1,
         u2.size = u.size, c.pc \notin {"connect", "ask"},
         CellMessage(F[u.pos + 1]) \in Sendable,
         way2 = IF c.pc \in {"done", "gone"} THEN way
                ELSE Append(way, CellMessage(F[u.pos + 1]))
  PROVE  Sent(F, u2, c, way2)
<1>1. c.pc \notin {"done", "gone"} =>
        /\ Len(way2) = Len(way) + 1 /\ way2[Len(way) + 1] = CellMessage(F[u.pos + 1])
        /\ \A k \in 1..Len(way) : way2[k] = way[k]
  BY AppendProperties
<1>2. SendsACell(F, u, u2, c, way, way2)
  BY <1>1 DEF SendsACell
<1>3. Len(way) \in Nat
  OBVIOUS
<1> QED
  BY <1>2, <1>3, SentGrown

LEMMA SentAll ==
  ASSUME NEW F \in Contents, NEW u \in Threads, NEW u2, NEW c, NEW way,
         Sent(F, u, c, way),
         u.pc = "bytes", ~(u.pos < u.size), u2.pc = "over", u2.pos = u.pos
  PROVE  Sent(F, u2, c, way)
<1>1. u.pos = Len(F) /\ F # Absent
  BY FileFacts DEF Sent, Threads
<1> QED
  BY <1>1, FileFacts DEF Sent, Early

LEMMA SizeComesFirst ==
  ASSUME NEW F \in Contents, NEW u \in Threads, NEW c,
         NEW way \in Seq(Sendable), way # << >>, Sent(F, u, c, way), c.pc = "size"
  PROVE  /\ u.pc \in {"bytes", "over"} /\ c.got = << >> /\ Len(way) = u.pos + 1
         /\ \A k \in 1..u.pos : way[k + 1] = CellMessage(F[k])
         /\ IsSize(Head(way)) /\ Head(way).size = Len(F)
<1>1. u.pc \in {"bytes", "over"} /\ u.pos \in Nat
  BY DEF Sent, Early, Threads
<1>2. /\ c.got = << >> /\ Len(way) = u.pos + 1 /\ way[1] = SizeMessage(Len(F))
      /\ \A k \in 1..u.pos : way[k + 1] = CellMessage(F[k])
  BY <1>1 DEF Sent
<1> QED
  BY <1>1, <1>2 DEF SizeMessage, IsSize

LEMMA SentSizeRead ==
  ASSUME NEW F \in Contents, NEW u \in Threads, NEW c \in Clients, NEW c2,
         NEW way \in Seq(Sendable), way # << >>, Sent(F, u, c, way), c.pc = "size",
         c2.pc = "bytes", c2.got = c.got, c2.size = Head(way).size
  PROVE  Sent(F, u, c2, Tail(way))
<1>1. u.pc \in {"bytes", "over"} /\ u.pos \in Nat
  BY DEF Sent, Early, Threads
<1>2. /\ c.got = << >> /\ Len(way) = u.pos + 1 /\ c2.size = Len(F)
      /\ \A k \in 1..u.pos : way[k + 1] = CellMessage(F[k])
  BY SizeComesFirst
<1>3. /\ Len(Tail(way)) = u.pos
      /\ \A k \in 1..u.pos : Tail(way)[k] = CellMessage(F[k])
  <2>1. /\ Len(Tail(way)) = Len(way) - 1
        /\ \A k \in 1..Len(Tail(way)) : Tail(way)[k] = way[k + 1]
    BY HeadTailProperties
  <2>2. Len(Tail(way)) = u.pos
    BY <1>1, <1>2, <2>1
  <2> QED
    BY <1>2, <2>1, <2>2
<1>4. Len(c2.got) = 0
  BY <1>2
<1> QED
  BY <1>1, <1>2, <1>3, <1>4 DEF Sent, Early

LEMMA CellComesNext ==
  ASSUME NEW F \in Contents, NEW u \in Threads, NEW c \in Clients,
         NEW way \in Seq(Sendable), way # << >>, Sent(F, u, c, way), c.pc = "bytes"
  PROVE  ~IsSize(Head(way)) /\ Head(way).cell = F[Len(c.got) + 1]
<1>1. Len(c.got) \in Nat /\ Len(way) \in Nat /\ Len(way) >= 1
  BY DEF Clients
<1>2. \A k \in 1..Len(way) : way[k] = CellMessage(F[Len(c.got) + k])
  BY DEF Sent
<1>3. Head(way) = CellMessage(F[Len(c.got) + 1])
  BY <1>1, <1>2
<1> QED
  BY <1>3 DEF CellMessage, IsSize

LEMMA SentCellRead ==
  ASSUME NEW F \in Contents, NEW u \in Threads, NEW c \in Clients, NEW c2,
         NEW way \in Seq(Sendable), way # << >>, Sent(F, u, c, way), c.pc = "bytes",
         c2.pc = "bytes", c2.got = Append(c.got, Head(way).cell), c2.size = c.size
  PROVE  Sent(F, u, c2, Tail(way))
<1>1. u.pc \in {"bytes", "over"} /\ u.pos \in Nat /\ Len(c.got) \in Nat /\ Len(way) \in Nat
      /\ Len(way) >= 1
  BY DEF Sent, Early, Threads, Clients
<1>2. /\ c.size = Len(F) /\ Len(c.got) + Len(way) = u.pos
      /\ \A k \in 1..Len(c.got) : c.got[k] = F[k]
      /\ \A k \in 1..Len(way) : way[k] = CellMessage(F[Len(c.got) + k])
  BY DEF Sent
<1>3. Head(way).cell = F[Len(c.got) + 1]
  BY CellComesNext
<1>4. /\ Len(Tail(way)) = Len(way) - 1
      /\ \A k \in 1..Len(way) - 1 : Tail(way)[k] = way[k + 1]
  BY HeadTailProperties
<1>5. u.pos <= Len(F) /\ Len(F) \in Nat
  BY <1>1, FileFacts DEF Sent
<1>6. c.got \in Seq(Cells \cup {"eof", "junk"}) /\ F[Len(c.got) + 1] \in Cells
  <2>1. Len(c.got) + 1 \in 1..Len(F)
    BY <1>1, <1>2, <1>5
  <2> QED
    BY <2>1, FileFacts, ElementOfSeq DEF Clients
<1>7. /\ Len(c2.got) = Len(c.got) + 1 /\ c2.got[Len(c.got) + 1] = F[Len(c.got) + 1]
      /\ \A k \in 1..Len(c.got) : c2.got[k] = c.got[k]
  BY <1>3, <1>6, AppendProperties
<1>8. Len(c2.got) + Len(Tail(way)) = u.pos
  BY <1>1, <1>2, <1>4, <1>7
<1>9. \A k \in 1..Len(c2.got) : c2.got[k] = F[k]
  BY <1>1, <1>2, <1>7
<1>10. ASSUME NEW k \in 1..Len(Tail(way))
       PROVE  Tail(way)[k] = CellMessage(F[Len(c2.got) + k])
  <2>1. k + 1 \in 1..Len(way) /\ Len(c.got) + (k + 1) = Len(c2.got) + k
        /\ k \in 1..Len(way) - 1
    <3>1. k \in 1..Len(way) - 1 /\ k \in Nat
      BY <1>1, <1>4, <1>10
    <3>2. k + 1 \in 1..Len(way)
      BY <1>1, <3>1
    <3>3. \A x \in Nat : x + (k + 1) = (x + 1) + k
      BY <3>1
    <3> QED
      BY <1>1, <1>7, <3>1, <3>2, <3>3
  <2> QED
    BY <1>2, <1>4, <2>1
<1> QED
  BY <1>1, <1>2, <1>3, <1>5, <1>8, <1>9, <1>10 DEF Sent, Early

LEMMA SentFinished ==
  ASSUME NEW F \in Contents, NEW u \in Threads, NEW c \in Clients, NEW c2,
         NEW way \in Seq(Sendable), NEW way2, Sent(F, u, c, way), c.pc = "bytes",
         ~(Len(c.got) < c.size), c2.pc = "done", c2.got = c.got
  PROVE  Sent(F, u, c2, way2)
<1>1. u.pc \in {"bytes", "over"} /\ u.pos \in Nat /\ Len(c.got) \in Nat /\ Len(way) \in Nat
  BY DEF Sent, Early, Threads, Clients
<1>2. /\ c.size = Len(F) /\ Len(c.got) + Len(way) = u.pos
      /\ \A k \in 1..Len(c.got) : c.got[k] = F[k]
      /\ u.pos <= Len(F) /\ Len(F) \in Nat
  BY <1>1, FileFacts DEF Sent
<1>3. Len(c.got) = Len(F)
  BY <1>1, <1>2
<1>4. c.got \in Seq(Cells \cup {"eof", "junk"}) /\ F \in Seq(Cells \cup {"eof", "junk"})
  BY FileFacts, SeqMonotonic DEF Clients
<1>5. c.got = F
  BY <1>2, <1>3, <1>4, SeqEqual
<1> QED
  BY <1>1, <1>5 DEF Sent, Early

-----------------------------------------------------------------------------
(* The steps of the system.                                                *)

LEMMA Shapes ==
  ASSUME TypeOK
  PROVE  /\ up \in [Downloads -> Threads] /\ client \in [Downloads -> Clients]
         /\ down \in [Downloads -> Seq(Sendable)]
         /\ \A d \in Downloads :
              Wanted(d) \in Names /\ file[Wanted(d)] \in Contents \cup {Absent}
BY DEF TypeOK, Threads, Clients, Sendable, Wanted

(* Once dead, or once peer_sock is overwritten, always so. *)
LEMMA StillCalm ==
  ASSUME TypeOK, [Next]_vars, Calm' PROVE Calm
<1>1. CASE UNCHANGED vars
  BY <1>1 DEF Calm, vars
<1>2. CASE Listener
  BY <1>2 DEF Calm, Listener, Accept, AcceptFails
<1>3. ASSUME NEW t \in Downloads, Upload(t) PROVE Calm
  <2>1. alive /\ UNCHANGED overrun
    BY <1>3 DEF Upload, ReadPeerSock, Enter, RecvName, RecvNothing, RecvFails,
       Open, SendSize, SendCell, CloseSock, At, accepting
  <2> QED
    BY <2>1 DEF Calm
<1>4. ASSUME NEW d \in Downloads, Download(d) \/ PeerDies(d) PROVE Calm
  <2>1. UNCHANGED <<alive, overrun>>
    BY <1>4 DEF Download, Connect, Ask, GetSize, GetNoSize, GetCell,
       GetNoCell, Finish, PeerDies, accepting
  <2> QED
    BY <2>1 DEF Calm
<1>5. ASSUME NEW n \in Names, Truncate(n) \/ Extend(n) \/ Delete(n) PROVE Calm
  <2>1. UNCHANGED <<alive, overrun>>
    BY <1>5 DEF Truncate, Extend, Delete, Write, accepting
  <2> QED
    BY <2>1 DEF Calm
<1> QED
  BY <1>1, <1>2, <1>3, <1>4, <1>5 DEF Next

(* Thread t becomes u, and may have put something on its own connection. *)
LEMMA ThreadStep ==
  ASSUME TypeOK, Parts, NEW t \in Downloads, NEW u \in Threads,
         up' = [up EXCEPT ![t] = u], NEW way, down' = [down EXCEPT ![t] = way],
         UNCHANGED <<accepting, client, disk>>,
         up[t].pc # "none", u.pc \notin {"none", "start"},
         \A f \in FDs : fdt[f] # t => fdt'[f] = fdt[f],
         u.pc \in {"enter", "recv", "open", "size", "bytes"} =>
           u.fd \in FDs /\ fdt'[u.fd] = t,
         u.pc = "recv" => u.conn = t,
         want' = want \/ want' = [want EXCEPT ![t] = "none"],
         client[t].pc = "ask" => u.pc \in Early,
         Wanted(t) \notin touched /\ client[t].pc \notin {"gone", "failed"} =>
           /\ u.pc \in {"open", "size", "bytes"} => u.name = Wanted(t)
           /\ Sent(file[Wanted(t)], u, client[t], way)
  PROVE  Parts'
<1>1. \A x \in Downloads : /\ up'[x] = IF x = t THEN u ELSE up[x]
                           /\ down'[x] = IF x = t THEN way ELSE down[x]
  BY Shapes
<1>2. UNCHANGED <<peer_sock, backlog, client, file, touched>>
  BY DEF accepting, disk
<1>3. BacklogInv'
  <2>1. \A k \in 1..Len(backlog) : backlog[k] \in Downloads /\ backlog[k] # t
    BY ElementOfSeq DEF TypeOK, Parts, BacklogInv
  <2> QED
    BY <1>1, <1>2, <2>1 DEF Parts, BacklogInv
<1>4. OwnInv'
  <2>1. ASSUME NEW x \in Downloads, x # t, up[x].pc = "start" PROVE Unread' = {x}
    <3>1. Unread = {x}
      BY <2>1 DEF Parts, OwnInv
    <3> QED
      BY <1>1, <2>1, <3>1 DEF Unread
  <2>2. ASSUME NEW x \in Downloads, x # t
        PROVE  /\ up'[x].pc = "start" => Unread' = {x} /\ peer_sock' \in FDs /\ fdt'[peer_sock'] = x
               /\ up'[x].pc \in {"enter", "recv", "open", "size", "bytes"} =>
                    up'[x].fd \in FDs /\ fdt'[up'[x].fd] = x
               /\ up'[x].pc = "recv" => up'[x].conn = x
    BY <1>1, <1>2, <2>1, <2>2 DEF Parts, OwnInv
  <2>3. /\ up'[t].pc # "start"
        /\ up'[t].pc \in {"enter", "recv", "open", "size", "bytes"} =>
             up'[t].fd \in FDs /\ fdt'[up'[t].fd] = t
        /\ up'[t].pc = "recv" => up'[t].conn = t
    BY <1>1
  <2> QED
    BY <2>2, <2>3 DEF OwnInv
<1>5. AskInv'
  <2>1. \A d \in Downloads : Wanted(d)' = Wanted(d)
    BY <1>2 DEF Wanted
  <2>2. \A d \in Downloads : want'[d] = want[d] \/ want'[d] = "none"
    BY DEF TypeOK
  <2>3. client[t].pc # "connect"
    BY DEF Parts, AskInv
  <2> QED
    BY <1>1, <1>2, <2>1, <2>2, <2>3 DEF Parts, AskInv
<1>6. StreamInv'
  <2>1. ASSUME NEW d \in Downloads, Wanted(d) \notin touched,
               client[d].pc \notin {"gone", "failed"}
        PROVE  /\ up'[d].pc \in {"open", "size", "bytes"} => up'[d].name = Wanted(d)
               /\ Sent(file[Wanted(d)], up'[d], client[d], down'[d])
    BY <1>1, <2>1 DEF Parts, StreamInv
  <2> QED
    BY <1>2, <2>1 DEF StreamInv, Wanted
<1> QED
  BY <1>3, <1>4, <1>5, <1>6 DEF Parts

(* Download d becomes c, and may have read from its own connection. *)
LEMMA ClientStep ==
  ASSUME TypeOK, Parts, NEW d \in Downloads, NEW c \in Clients,
         client' = [client EXCEPT ![d] = c], NEW way, down' = [down EXCEPT ![d] = way],
         UNCHANGED <<accepting, fdt, up, disk>>,
         c.name = client[d].name, client[d].pc # "connect", c.pc \notin {"connect", "ask"},
         want' = want \/ want' = [want EXCEPT ![d] = Wanted(d)],
         Wanted(d) \notin touched /\ c.pc \notin {"gone", "failed"} =>
           /\ client[d].pc \notin {"gone", "failed"}
           /\ Sent(file[Wanted(d)], up[d], c, way)
  PROVE  Parts'
<1>1. \A x \in Downloads : /\ client'[x] = IF x = d THEN c ELSE client[x]
                           /\ down'[x] = IF x = d THEN way ELSE down[x]
  BY Shapes
<1>2. UNCHANGED <<peer_sock, backlog, fdt, up, file, touched>>
  BY DEF accepting, disk
<1>3. BacklogInv'
  <2>1. \A k \in 1..Len(backlog) : backlog[k] \in Downloads
    BY ElementOfSeq DEF TypeOK
  <2> QED
    BY <1>1, <1>2, <2>1 DEF Parts, BacklogInv
<1>4. OwnInv'
  BY <1>2 DEF Parts, OwnInv, Unread
<1>5. \A x \in Downloads : Wanted(x)' = Wanted(x)
  BY <1>1 DEF Wanted
<1>6. AskInv'
  <2>1. \A x \in Downloads : want'[x] = want[x] \/ (x = d /\ want'[x] = Wanted(d))
    BY DEF TypeOK
  <2> QED
    BY <1>1, <1>2, <1>5, <2>1 DEF Parts, AskInv
<1>7. StreamInv'
  <2>1. ASSUME NEW x \in Downloads, Wanted(x) \notin touched,
               client'[x].pc \notin {"gone", "failed"}
        PROVE  /\ up[x].pc \in {"open", "size", "bytes"} => up[x].name = Wanted(x)
               /\ Sent(file[Wanted(x)], up[x], client'[x], down'[x])
    BY <1>1, <2>1 DEF Parts, StreamInv
  <2> QED
    BY <1>2, <1>5, <2>1 DEF StreamInv
<1> QED
  BY <1>3, <1>4, <1>6, <1>7 DEF Parts

LEMMA AcceptStep ==
  ASSUME TypeOK, Parts, Accept, Calm' PROVE Parts'
<1>1. PICK h \in Downloads : h = Head(backlog)
  BY HeadTailProperties DEF Accept, TypeOK
<1>2. PICK f \in FDs :
        fdt[f] = NULL /\ fdt' = [fdt EXCEPT ![f] = h] /\ peer_sock' = f
  BY <1>1 DEF Accept, LowestFree
<1>3. PICK u \in Threads : u = Started(h)
  <2>1. Started(h) \in Threads
    BY DEF Started, NoThread, Threads, Sizes, FDs
  <2> QED
    BY <2>1
<1>4. u.pc = "start" /\ u.pos = 0
  BY <1>3 DEF Started, NoThread
<1>5. \A x \in Downloads : up'[x] = IF x = h THEN u ELSE up[x]
  BY <1>1, <1>3, Shapes DEF Accept
<1>6. Unread = {} /\ backlog' = Tail(backlog)
      /\ UNCHANGED <<want, down, client, file, touched>>
  BY DEF Accept, Calm, disk
<1>7. /\ Len(backlog) \in Nat /\ Len(backlog) >= 1 /\ h = backlog[1]
      /\ Len(backlog') = Len(backlog) - 1
      /\ \A k \in 1..Len(backlog') : backlog'[k] = backlog[k + 1]
  BY <1>1, <1>6, HeadTailProperties DEF Accept, TypeOK
<1>8. up[h].pc = "none" /\ client[h].pc # "connect"
  BY <1>7 DEF Parts, BacklogInv
<1>9. ASSUME NEW k \in 1..Len(backlog')
      PROVE  k + 1 \in 1..Len(backlog) /\ backlog'[k] # h
  <2>1. 1 \in 1..Len(backlog) /\ k + 1 \in 1..Len(backlog) /\ k + 1 # 1
    <3>1. \A n \in Nat : k \in 1..n - 1 => k + 1 \in 1..n /\ k + 1 # 1
      OBVIOUS
    <3> QED
      BY <1>7, <3>1
  <2>2. backlog[1] = backlog[k + 1] => 1 = k + 1
    BY <2>1 DEF Parts, BacklogInv
  <2> QED
    BY <1>7, <2>1, <2>2
<1>10. \A k \in 1..Len(backlog') : backlog'[k] \in Downloads
  <2>1. \A k \in 1..Len(backlog) : backlog[k] \in Downloads
    BY ElementOfSeq DEF TypeOK
  <2> QED
    BY <1>7, <1>9, <2>1
<1>11. BacklogInv'
  <2>1. \A k \in 1..Len(backlog') :
          up'[backlog'[k]].pc = "none" /\ client'[backlog'[k]].pc # "connect"
    BY <1>5, <1>6, <1>7, <1>9, <1>10 DEF Parts, BacklogInv
  <2>2. \A j, k \in 1..Len(backlog') : backlog'[j] = backlog'[k] => j = k
    <3> TAKE j, k \in 1..Len(backlog')
    <3>1. j + 1 \in 1..Len(backlog) /\ k + 1 \in 1..Len(backlog)
      BY <1>9
    <3>2. backlog[j + 1] = backlog[k + 1] => j + 1 = k + 1
      BY <3>1 DEF Parts, BacklogInv
    <3>3. backlog'[j] = backlog[j + 1] /\ backlog'[k] = backlog[k + 1]
      BY <1>7
    <3>4. j \in Nat /\ k \in Nat
      BY <1>7
    <3> QED
      BY <3>2, <3>3, <3>4
  <2>3. ASSUME NEW d \in Downloads, client[d].pc # "connect", up'[d].pc = "none"
        PROVE  \E k \in 1..Len(backlog') : backlog'[k] = d
    <3>1. d # h /\ up[d].pc = "none"
      BY <1>4, <1>5, <2>3
    <3>2. PICK k \in 1..Len(backlog) : backlog[k] = d
      BY <2>3, <3>1 DEF Parts, BacklogInv
    <3>3. k - 1 \in 1..Len(backlog') /\ (k - 1) + 1 = k
      BY <1>7, <3>1, <3>2
    <3> QED
      BY <1>7, <3>2, <3>3
  <2> QED
    BY <1>6, <2>1, <2>2, <2>3 DEF BacklogInv
<1>12. OwnInv'
  <2>1. Unread' = {h}
    BY <1>4, <1>5, <1>6 DEF Unread
  <2>2. fdt'[f] = h /\ \A g \in FDs : fdt[g] # NULL => fdt'[g] = fdt[g]
    BY <1>2 DEF TypeOK
  <2>3. \A x \in Downloads : x # NULL /\ (x # h => up[x].pc # "start")
    BY <1>6 DEF Unread
  <2>4. ASSUME NEW x \in Downloads, x # h
        PROVE  /\ up'[x].pc # "start"
               /\ up'[x].pc \in {"enter", "recv", "open", "size", "bytes"} =>
                    up'[x].fd \in FDs /\ fdt'[up'[x].fd] = x
               /\ up'[x].pc = "recv" => up'[x].conn = x
    BY <1>5, <2>2, <2>3, <2>4 DEF Parts, OwnInv
  <2>5. up'[h].pc = "start" /\ peer_sock' \in FDs /\ fdt'[peer_sock'] = h
    BY <1>2, <1>4, <1>5, <2>2
  <2> QED
    BY <2>1, <2>4, <2>5 DEF OwnInv
<1>13. AskInv'
  BY <1>4, <1>5, <1>6, <1>8 DEF Parts, AskInv, Wanted, Early
<1>14. StreamInv'
  <2>1. ASSUME NEW x \in Downloads, Wanted(x) \notin touched,
               client[x].pc \notin {"gone", "failed"}
        PROVE  /\ up'[x].pc \in {"open", "size", "bytes"} => up'[x].name = Wanted(x)
               /\ Sent(file[Wanted(x)], up'[x], client[x], down[x])
    <3>1. /\ up[x].pc \in {"open", "size", "bytes"} => up[x].name = Wanted(x)
          /\ Sent(file[Wanted(x)], up[x], client[x], down[x])
      BY <2>1 DEF Parts, StreamInv
    <3>2. CASE x # h
      BY <1>5, <3>1, <3>2
    <3>3. CASE x = h
      <4>1. up[x].pos = u.pos
        BY <1>4, <1>8, <3>1, <3>3 DEF Sent, Early
      <4>2. Sent(file[Wanted(x)], u, client[x], down[x])
        BY <1>4, <1>8, <3>1, <3>3, <4>1, SentWaiting DEF Early
      <4> QED
        BY <1>4, <1>5, <3>3, <4>2
    <3> QED
      BY <3>2, <3>3
  <2> QED
    BY <1>6, <2>1 DEF StreamInv, Wanted
<1> QED
  BY <1>11, <1>12, <1>13, <1>14 DEF Parts

LEMMA AcceptFailsStep ==
  ASSUME TypeOK, Parts, AcceptFails, Calm' PROVE Parts'
<1>1. Unread = {} /\ UNCHANGED <<backlog, fdt, up, want, down, client, file, touched>>
  BY DEF AcceptFails, Calm, disk
<1>2. \A x \in Downloads : up[x].pc # "start"
  BY <1>1 DEF Unread
<1>3. OwnInv'
  BY <1>1, <1>2 DEF Parts, OwnInv
<1>4. BacklogInv' /\ AskInv'
  BY <1>1 DEF Parts, BacklogInv, AskInv, Wanted
<1>5. StreamInv'
  BY <1>1 DEF Parts, StreamInv, Wanted
<1> QED
  BY <1>3, <1>4, <1>5 DEF Parts

LEMMA UploadStep ==
  ASSUME TypeOK, HeldInv, Parts, NEW t \in Downloads, Upload(t), Calm'
  PROVE  Parts'
<1>1. up[t] \in Threads /\ up \in [Downloads -> Threads] /\ client \in [Downloads -> Clients]
      /\ down \in [Downloads -> Seq(Sendable)] /\ Wanted(t) \in Names
      /\ file[Wanted(t)] \in Contents \cup {Absent}
  BY Shapes
<1>2. ~Die
  BY DEF Die, Calm
<1>3. down = [down EXCEPT ![t] = down[t]]
  BY <1>1
<1>4. /\ up[t].pc \in {"enter", "recv", "open", "size", "bytes"} =>
           up[t].fd \in FDs /\ fdt[up[t].fd] = t
      /\ up[t].pc = "recv" => up[t].conn = t
      /\ up[t].pc = "start" => peer_sock \in FDs /\ fdt[peer_sock] = t
  BY DEF Parts, OwnInv
<1>5. Wanted(t) \notin touched /\ client[t].pc \notin {"gone", "failed"} =>
        /\ up[t].pc \in {"open", "size", "bytes"} => up[t].name = Wanted(t)
        /\ Sent(file[Wanted(t)], up[t], client[t], down[t])
  BY DEF Parts, StreamInv
<1>6. CASE ReadPeerSock(t)
  <2>1. PICK u \in Threads : u = [up[t] EXCEPT !.fd = peer_sock, !.pc = "enter"]
    BY <1>1 DEF Threads, TypeOK
  <2>2. u.fd = peer_sock /\ u.pc = "enter" /\ u.pos = up[t].pos
        /\ up' = [up EXCEPT ![t] = u] /\ up[t].pc = "start"
    BY <1>1, <1>6, <2>1 DEF ReadPeerSock, Threads, At
  <2>3. UNCHANGED <<accepting, fdt, want, down, client, disk>>
    BY <1>6 DEF ReadPeerSock
  <2>4. Wanted(t) \notin touched /\ client[t].pc \notin {"gone", "failed"} =>
          Sent(file[Wanted(t)], u, client[t], down[t])
    BY <1>5, <2>2, SentWaiting DEF Early
  <2>5. u.pc \in Early
    BY <2>2 DEF Early
  <2> QED
    BY <1>3, <1>4, <2>2, <2>3, <2>4, <2>5, ThreadStep
<1>7. CASE Enter(t)
  <2>1. t # NULL /\ up[t].fd \in FDs /\ fdt[up[t].fd] = t /\ up[t].pc = "enter"
    BY <1>4, <1>7 DEF Enter, At
  <2>2. PICK u \in Threads : u = [up[t] EXCEPT !.conn = t, !.pc = "recv"]
    BY <1>1 DEF Threads
  <2>3. u.fd = up[t].fd /\ u.pc = "recv" /\ u.conn = t /\ u.pos = up[t].pos
        /\ up' = [up EXCEPT ![t] = u]
    <3>1. up' = [up EXCEPT ![t].conn = t, ![t].pc = "recv"]
      BY <1>7, <2>1 DEF Enter
    <3>2. up' = [up EXCEPT ![t] = u]
      BY <1>1, <2>2, <3>1
    <3> QED
      BY <1>1, <2>2, <3>2 DEF Threads
  <2>4. UNCHANGED <<accepting, fdt, want, down, client, disk>>
    BY <1>7 DEF Enter
  <2>5. Wanted(t) \notin touched /\ client[t].pc \notin {"gone", "failed"} =>
          Sent(file[Wanted(t)], u, client[t], down[t])
    BY <1>5, <2>1, <2>3, SentWaiting DEF Early
  <2>6. u.pc \in Early
    BY <2>3 DEF Early
  <2> QED
    <3>1. u.fd \in FDs /\ fdt'[u.fd] = t /\ up[t].pc # "none"
      BY <2>1, <2>3, <2>4
    <3> QED
      BY <1>3, <2>3, <2>4, <2>5, <2>6, <3>1, ThreadStep
<1>8. CASE RecvName(t)
  <2>1. up[t].fd \in FDs /\ fdt[up[t].fd] = t /\ up[t].conn = t /\ up[t].pc = "recv"
        /\ want[t] # "none"
    BY <1>4, <1>8 DEF RecvName, At
  <2>2. want[t] = Wanted(t) /\ client[t].pc \notin {"connect", "ask"}
    BY <2>1 DEF Parts, AskInv
  <2>3. PICK u \in Threads : u = [up[t] EXCEPT !.name = Wanted(t), !.pc = "open"]
    BY <1>1 DEF Threads
  <2>4. u.fd = up[t].fd /\ u.pc = "open" /\ u.pos = up[t].pos /\ u.name = Wanted(t)
        /\ up' = [up EXCEPT ![t] = u]
    <3>1. up' = [up EXCEPT ![t].name = Wanted(t), ![t].pc = "open"]
      BY <1>8, <2>1, <2>2 DEF RecvName
    <3>2. up' = [up EXCEPT ![t] = u]
      BY <1>1, <2>3, <3>1
    <3> QED
      BY <1>1, <2>3, <3>2 DEF Threads
  <2>5. UNCHANGED <<accepting, fdt, down, client, disk>> /\ want' = [want EXCEPT ![t] = "none"]
    BY <1>8, <2>1 DEF RecvName
  <2>6. Wanted(t) \notin touched /\ client[t].pc \notin {"gone", "failed"} =>
          Sent(file[Wanted(t)], u, client[t], down[t])
    BY <1>5, <2>1, <2>4, SentWaiting DEF Early
  <2>7. /\ up[t].pc # "none" /\ u.pc \notin {"none", "start", "recv"}
        /\ u.fd \in FDs /\ fdt'[u.fd] = t /\ client[t].pc # "ask"
    BY <2>1, <2>2, <2>4, <2>5
  <2>8. /\ UNCHANGED <<accepting, client, disk>> /\ down' = [down EXCEPT ![t] = down[t]]
        /\ want' = want \/ want' = [want EXCEPT ![t] = "none"]
        /\ \A f \in FDs : fdt[f] # t => fdt'[f] = fdt[f]
    BY <1>3, <2>5
  <2> QED
    BY <2>4, <2>6, <2>7, <2>8, ThreadStep
<1>9. CASE RecvNothing(t) \/ RecvFails(t)
  <2>1. up[t].fd \in FDs /\ fdt[up[t].fd] = t /\ up[t].conn = t /\ up[t].pc = "recv"
        /\ client[t].pc \in {"done", "gone"}
    BY <1>4, <1>9 DEF RecvNothing, RecvFails, At, Deaf
  <2>2. Wanted(t) \in touched \/ client[t].pc \in {"gone", "failed"}
    BY <1>5, <2>1 DEF Sent, Early
  <2>3. UNCHANGED <<accepting, fdt, want, down, client, disk>>
    BY <1>9 DEF RecvNothing, RecvFails
  <2>4. PICK u \in Threads : up' = [up EXCEPT ![t] = u] /\ u.fd = up[t].fd
                             /\ u.pc \in {"open", "over"}
    <3>1. CASE RecvFails(t)
      <4>1. [up[t] EXCEPT !.pc = "over"] \in Threads
        BY <1>1 DEF Threads
      <4>2. up' = [up EXCEPT ![t] = [up[t] EXCEPT !.pc = "over"]]
        BY <1>1, <3>1 DEF RecvFails
      <4> QED
        BY <1>1, <4>1, <4>2 DEF Threads
    <3>2. CASE RecvNothing(t)
      <4>1. PICK n \in Names \cup {"empty", "junk"} :
              up' = [up EXCEPT ![t].name = n, ![t].pc = "open"]
        BY <3>2 DEF RecvNothing
      <4>2. [up[t] EXCEPT !.name = n, !.pc = "open"] \in Threads
        BY <1>1 DEF Threads
      <4>3. up' = [up EXCEPT ![t] = [up[t] EXCEPT !.name = n, !.pc = "open"]]
        BY <1>1, <4>1
      <4> QED
        BY <1>1, <4>2, <4>3 DEF Threads
    <3> QED
      BY <1>9, <3>1, <3>2
  <2>5. /\ up[t].pc # "none" /\ u.pc \notin {"none", "start", "recv"}
        /\ u.fd \in FDs /\ fdt'[u.fd] = t /\ client[t].pc # "ask"
    BY <2>1, <2>3, <2>4
  <2>6. \A f \in FDs : fdt[f] # t => fdt'[f] = fdt[f]
    BY <2>3
  <2> QED
    BY <1>3, <2>2, <2>3, <2>4, <2>5, <2>6, ThreadStep
<1>10. CASE Open(t)
  <2>1. up[t].fd \in FDs /\ fdt[up[t].fd] = t /\ up[t].pc = "open"
    BY <1>4, <1>10 DEF Open, At
  <2>2. UNCHANGED <<accepting, fdt, want, down, client, disk>>
    BY <1>10 DEF Open
  <2>3. PICK k \in Sizes :
          /\ up' = [up EXCEPT ![t].size = k, ![t].pc = "size"]
          /\ up[t].name \in Names => /\ file[up[t].name] \in Contents
                                     /\ k = Len(file[up[t].name])
    <3>1. CASE up[t].name \in Names /\ file[up[t].name] # Absent
      <4>1. file[up[t].name] \in Contents
        BY <3>1 DEF TypeOK
      <4>2. Len(file[up[t].name]) \in Sizes
        BY <4>1, FileFacts DEF Sizes
      <4> QED
        BY <1>2, <1>10, <3>1, <4>1, <4>2 DEF Open
    <3>2. CASE ~(up[t].name \in Names /\ file[up[t].name] # Absent)
      <4>1. -1 \in Sizes /\ "empty" \notin Names
        BY DEF Sizes
      <4> QED
        BY <1>2, <1>10, <3>2, <4>1 DEF Open
    <3> QED
      BY <3>1, <3>2
  <2>4. PICK u \in Threads : u = [up[t] EXCEPT !.size = k, !.pc = "size"]
    BY <1>1 DEF Threads
  <2>5. u.fd = up[t].fd /\ u.pc = "size" /\ u.pos = up[t].pos /\ u.name = up[t].name
        /\ u.size = k /\ up' = [up EXCEPT ![t] = u]
    <3>1. up' = [up EXCEPT ![t] = u]
      BY <1>1, <2>3, <2>4
    <3> QED
      BY <1>1, <2>4, <3>1 DEF Threads
  <2>6. Wanted(t) \notin touched /\ client[t].pc \notin {"gone", "failed"} =>
          u.name = Wanted(t) /\ Sent(file[Wanted(t)], u, client[t], down[t])
    BY <1>1, <1>5, <2>1, <2>3, <2>5, SentOpened
  <2>7. client[t].pc # "ask"
    BY <2>1 DEF Parts, AskInv, Early
  <2>8. /\ up[t].pc # "none" /\ u.pc \notin {"none", "start", "recv"}
        /\ u.fd \in FDs /\ fdt'[u.fd] = t
    BY <2>1, <2>2, <2>5
  <2>9. /\ UNCHANGED <<accepting, client, disk>> /\ down' = [down EXCEPT ![t] = down[t]]
        /\ want' = want \/ want' = [want EXCEPT ![t] = "none"]
        /\ \A f \in FDs : fdt[f] # t => fdt'[f] = fdt[f]
    BY <1>3, <2>2
  <2>10. up' = [up EXCEPT ![t] = u]
    BY <2>5
  <2> QED
    BY <2>6, <2>7, <2>8, <2>9, <2>10, ThreadStep
<1>11. CASE SendSize(t)
  <2>1. up[t].fd \in FDs /\ fdt[up[t].fd] = t /\ up[t].pc = "size"
        /\ t # NULL /\ client[t].pc \notin {"connect", "ask"}
    BY <1>4, <1>11 DEF SendSize, At, Parts, AskInv, Early
  <2>2. UNCHANGED <<accepting, fdt, want, client, disk>> /\ Put(t, SizeMessage(up[t].size))
    BY <1>2, <1>11 DEF SendSize
  <2>3. PICK u \in Threads : u = [up[t] EXCEPT !.pc = "bytes"]
    BY <1>1 DEF Threads
  <2>4. u.fd = up[t].fd /\ u.pc = "bytes" /\ u.pos = up[t].pos /\ u.name = up[t].name
        /\ u.size = up[t].size /\ up' = [up EXCEPT ![t] = u]
    BY <1>1, <1>2, <1>11, <2>3 DEF SendSize, Threads
  <2>5. SizeMessage(up[t].size) \in Sendable
    BY <1>1 DEF SizeMessage, Sendable, Threads
  <2>6. PICK way : /\ way = IF Deaf(t) THEN down[t]
                            ELSE Append(down[t], SizeMessage(up[t].size))
                   /\ down' = [down EXCEPT ![t] = way]
    BY <1>3, <2>1, <2>2 DEF Put
  <2>7. Wanted(t) \notin touched /\ client[t].pc \notin {"gone", "failed"} =>
          u.name = Wanted(t) /\ Sent(file[Wanted(t)], u, client[t], way)
    <3> SUFFICES ASSUME Wanted(t) \notin touched, client[t].pc \notin {"gone", "failed"}
                 PROVE  u.name = Wanted(t) /\ Sent(file[Wanted(t)], u, client[t], way)
      OBVIOUS
    <3>1. up[t].name = Wanted(t) /\ Sent(file[Wanted(t)], up[t], client[t], down[t])
      BY <1>5, <2>1
    <3>2. ~Deaf(t)
      BY <2>1, <3>1 DEF Deaf, Sent
    <3>3. down[t] \in Seq(Sendable)
      BY <1>1
    <3> QED
      BY <2>1, <2>4, <2>5, <2>6, <3>1, <3>2, <3>3, SentTheSize
  <2> QED
    BY <2>1, <2>2, <2>4, <2>6, <2>7, ThreadStep
<1>12. CASE SendCell(t)
  <2>1. up[t].fd \in FDs /\ fdt[up[t].fd] = t /\ up[t].pc = "bytes"
        /\ t # NULL /\ client[t].pc \notin {"connect", "ask"} /\ up[t].pos < up[t].size
    BY <1>4, <1>12 DEF SendCell, At, Parts, AskInv, Early, MoreToSend
  <2>2. PICK m : m = CellMessage(CellAt(up[t].name, up[t].pos + 1))
    OBVIOUS
  <2>3. UNCHANGED <<accepting, fdt, want, client, disk>> /\ Put(t, m)
        /\ up' = [up EXCEPT ![t] = NextCell(@)]
    BY <1>2, <1>12, <2>2 DEF SendCell
  <2>4. PICK u \in Threads : u = NextCell(up[t])
    <3>1. up[t].pos + 1 \in 0..MaxLen
      BY <1>1, <2>1 DEF Threads, Sizes
    <3> QED
      BY <1>1, <3>1 DEF NextCell, Threads
  <2>5. u.fd = up[t].fd /\ u.pc = "bytes" /\ u.pos = up[t].pos + 1 /\ u.name = up[t].name
        /\ u.size = up[t].size /\ up' = [up EXCEPT ![t] = u]
    BY <1>1, <2>1, <2>3, <2>4 DEF NextCell, Threads
  <2>6. PICK way : /\ way = IF Deaf(t) THEN down[t] ELSE Append(down[t], m)
                   /\ down' = [down EXCEPT ![t] = way]
    BY <1>3, <2>1, <2>3 DEF Put
  <2>7. Wanted(t) \notin touched /\ client[t].pc \notin {"gone", "failed"} =>
          u.name = Wanted(t) /\ Sent(file[Wanted(t)], u, client[t], way)
    <3> SUFFICES ASSUME Wanted(t) \notin touched, client[t].pc \notin {"gone", "failed"}
                 PROVE  u.name = Wanted(t) /\ Sent(file[Wanted(t)], u, client[t], way)
      OBVIOUS
    <3>1. up[t].name = Wanted(t) /\ Sent(file[Wanted(t)], up[t], client[t], down[t])
      BY <1>5, <2>1
    <3>2. file[Wanted(t)] \in Contents /\ up[t].size = Len(file[Wanted(t)])
      BY <1>1, <2>1, <3>1 DEF Sent
    <3>3. up[t].pos + 1 \in 1..Len(file[Wanted(t)])
      BY <1>1, <2>1, <3>2, FileFacts DEF Threads
    <3>4. m = CellMessage(file[Wanted(t)][up[t].pos + 1])
      BY <2>2, <3>1, <3>3 DEF CellAt
    <3>5. file[Wanted(t)][up[t].pos + 1] \in Cells
      BY <3>2, <3>3, FileFacts, ElementOfSeq
    <3>6. m \in Sendable
      BY <3>4, <3>5 DEF CellMessage, Sendable
    <3>7. down[t] \in Seq(Sendable) /\ client[t] \in Clients
      BY <1>1
    <3>8. way = IF client[t].pc \in {"done", "gone"} THEN down[t]
                ELSE Append(down[t], CellMessage(file[Wanted(t)][up[t].pos + 1]))
      BY <2>6, <3>4 DEF Deaf
    <3> QED
      BY <1>1, <2>1, <2>5, <3>1, <3>2, <3>4, <3>6, <3>7, <3>8, SentACell
  <2> QED
    BY <2>1, <2>3, <2>5, <2>6, <2>7, ThreadStep
<1>13. CASE CloseSock(t)
  <2>1. up[t].fd \in FDs /\ fdt[up[t].fd] = t /\ up[t].pc = "bytes"
        /\ client[t].pc \notin {"connect", "ask"} /\ ~(up[t].pos < up[t].size)
    BY <1>4, <1>13 DEF CloseSock, At, Parts, AskInv, Early, MoreToSend
  <2>2. UNCHANGED <<accepting, want, down, client, disk>>
        /\ \A f \in FDs : fdt[f] # t => fdt'[f] = fdt[f]
    BY <1>13, <2>1 DEF CloseSock, TypeOK
  <2>3. PICK u \in Threads : u = [up[t] EXCEPT !.pc = "over"]
    BY <1>1 DEF Threads
  <2>4. u.pc = "over" /\ u.pos = up[t].pos /\ up' = [up EXCEPT ![t] = u]
    BY <1>1, <1>13, <2>3 DEF CloseSock, Threads
  <2>5. Wanted(t) \notin touched /\ client[t].pc \notin {"gone", "failed"} =>
          Sent(file[Wanted(t)], u, client[t], down[t])
    <3> SUFFICES ASSUME Wanted(t) \notin touched, client[t].pc \notin {"gone", "failed"}
                 PROVE  Sent(file[Wanted(t)], u, client[t], down[t])
      OBVIOUS
    <3>1. Sent(file[Wanted(t)], up[t], client[t], down[t])
      BY <1>5
    <3>2. file[Wanted(t)] \in Contents
      BY <1>1, <2>1, <3>1 DEF Sent
    <3> QED
      BY <1>1, <2>1, <2>4, <3>1, <3>2, SentAll
  <2> QED
    BY <1>3, <2>1, <2>2, <2>4, <2>5, ThreadStep
<1> QED
  BY <1>6, <1>7, <1>8, <1>9, <1>10, <1>11, <1>12, <1>13 DEF Upload

(* A connection that has come to its end has been served. *)
LEMMA EndedIsServed ==
  ASSUME TypeOK, Parts, Calm, NEW d \in Downloads, Ended(d)
  PROVE  up[d].pc = "over"
<1>1. /\ client[d].pc # "connect" /\ \A k \in 1..Len(backlog) : backlog[k] # d
      /\ \A f \in FDs : fdt[f] # d
  BY DEF Ended, Calm
<1>2. up[d].pc # "none"
  BY <1>1 DEF Parts, BacklogInv
<1>3. up[d].pc \notin {"start", "enter", "recv", "open", "size", "bytes"}
  BY <1>1 DEF Parts, OwnInv
<1>4. up[d].pc \in {"none", "start", "enter", "recv", "open", "size", "bytes", "over"}
  BY Shapes DEF Threads
<1> QED
  BY <1>2, <1>3, <1>4

LEMMA ConnectStep ==
  ASSUME TypeOK, Parts, Calm, NEW d \in Downloads, Connect(d) PROVE Parts'
<1>1. /\ client[d].pc = "connect" /\ backlog' = Append(backlog, d)
      /\ client' = [client EXCEPT ![d].pc = "ask"]
      /\ UNCHANGED <<peer_sock, fdt, up, want, down, file, touched>>
  BY DEF Connect, Doing, Calm, disk
<1>2. \A x \in Downloads : /\ x # d => client'[x] = client[x]
                           /\ client'[d].pc = "ask" /\ client'[d].name = client[d].name
                           /\ client'[d].got = client[d].got
  BY <1>1, Shapes DEF Clients
<1>3. /\ Len(backlog) \in Nat /\ Len(backlog') = Len(backlog) + 1
      /\ backlog'[Len(backlog) + 1] = d
      /\ \A k \in 1..Len(backlog) : backlog'[k] = backlog[k]
  BY <1>1, AppendProperties DEF TypeOK
<1>4. \A k \in 1..Len(backlog) : backlog[k] \in Downloads /\ backlog[k] # d
  BY <1>1, ElementOfSeq DEF TypeOK, Parts, BacklogInv
<1>5. up[d].pc = "none" /\ want[d] = "none"
  BY <1>1 DEF Parts, AskInv
<1>6. \A k \in 1..Len(backlog') : k = Len(backlog) + 1 \/ k \in 1..Len(backlog)
  BY <1>3
<1>7. BacklogInv'
  <2>1. \A k \in 1..Len(backlog') :
          up'[backlog'[k]].pc = "none" /\ client'[backlog'[k]].pc # "connect"
    <3> TAKE k \in 1..Len(backlog')
    <3>1. CASE k = Len(backlog) + 1
      BY <1>1, <1>2, <1>3, <1>5, <3>1
    <3>2. CASE k \in 1..Len(backlog)
      BY <1>1, <1>2, <1>3, <1>4, <3>2 DEF Parts, BacklogInv
    <3> QED
      BY <1>6, <3>1, <3>2
  <2>2. \A j, k \in 1..Len(backlog') : backlog'[j] = backlog'[k] => j = k
    BY <1>3, <1>4, <1>6 DEF Parts, BacklogInv
  <2>3. ASSUME NEW x \in Downloads, client'[x].pc # "connect", up[x].pc = "none"
        PROVE  \E k \in 1..Len(backlog') : backlog'[k] = x
    <3>1. CASE x = d
      <4>1. Len(backlog) + 1 \in 1..Len(backlog')
        BY <1>3
      <4> QED
        BY <1>3, <3>1, <4>1
    <3>2. CASE x # d
      <4>1. PICK k \in 1..Len(backlog) : backlog[k] = x
        BY <1>2, <2>3, <3>2 DEF Parts, BacklogInv
      <4>2. k \in 1..Len(backlog') /\ backlog'[k] = x
        BY <1>3, <4>1
      <4> QED
        BY <4>2
    <3> QED
      BY <3>1, <3>2
  <2> QED
    BY <1>1, <2>1, <2>2, <2>3 DEF BacklogInv
<1>8. OwnInv'
  BY <1>1 DEF Parts, OwnInv, Unread
<1>9. \A x \in Downloads : Wanted(x)' = Wanted(x)
  BY <1>2 DEF Wanted
<1>10. AskInv'
  BY <1>1, <1>2, <1>5, <1>9 DEF Parts, AskInv, Early
<1>11. StreamInv'
  <2>1. ASSUME NEW x \in Downloads, Wanted(x) \notin touched,
               client'[x].pc \notin {"gone", "failed"}
        PROVE  /\ up[x].pc \in {"open", "size", "bytes"} => up[x].name = Wanted(x)
               /\ Sent(file[Wanted(x)], up[x], client'[x], down[x])
    <3>1. CASE x # d
      BY <1>2, <2>1, <3>1 DEF Parts, StreamInv
    <3>2. CASE x = d
      <4>1. Sent(file[Wanted(d)], up[d], client[d], down[d])
        BY <1>1, <2>1, <3>2 DEF Parts, StreamInv
      <4>2. Sent(file[Wanted(d)], up[d], client'[d], down[d])
        BY <1>1, <1>2, <1>5, <4>1 DEF Sent, Early
      <4> QED
        BY <1>5, <3>2, <4>2
    <3> QED
      BY <3>1, <3>2
  <2> QED
    BY <1>1, <1>9, <2>1 DEF StreamInv
<1> QED
  BY <1>7, <1>8, <1>10, <1>11 DEF Parts

LEMMA DownloadStep ==
  ASSUME TypeOK, HeldInv, Parts, Calm, NEW d \in Downloads, Download(d) \/ PeerDies(d)
  PROVE  Parts'
<1>1. /\ client[d] \in Clients /\ client \in [Downloads -> Clients]
      /\ up[d] \in Threads /\ down[d] \in Seq(Sendable) /\ Wanted(d) \in Names
      /\ down \in [Downloads -> Seq(Sendable)]
      /\ file[Wanted(d)] \in Contents \cup {Absent}
  BY Shapes
<1>2. down = [down EXCEPT ![d] = down[d]]
  BY <1>1
<1>3. Wanted(d) \notin touched /\ client[d].pc \notin {"gone", "failed"} =>
        Sent(file[Wanted(d)], up[d], client[d], down[d])
  BY DEF Parts, StreamInv
<1>4. ASSUME Sent(file[Wanted(d)], up[d], client[d], down[d]),
             client[d].pc = "bytes" \/ (client[d].pc = "size" /\ down[d] # << >>)
      PROVE  file[Wanted(d)] \in Contents
  BY <1>1, <1>4 DEF Sent, Early, Threads
<1>5. CASE Ask(d)
  <2>1. client[d].pc = "ask" /\ up[d].pc \in Early
        /\ UNCHANGED <<accepting, fdt, up, down, disk>>
    BY <1>5 DEF Ask, Doing, Parts, AskInv
  <2>2. PICK p \in {"size", "failed", "gone"} : client' = [client EXCEPT ![d].pc = p]
    BY <1>5 DEF Ask
  <2>3. PICK c \in Clients : c = [client[d] EXCEPT !.pc = p]
    BY <1>1 DEF Clients
  <2>4. c.pc = p /\ c.name = client[d].name /\ c.got = client[d].got
        /\ client' = [client EXCEPT ![d] = c]
    BY <1>1, <2>2, <2>3 DEF Clients
  <2>5. want' = want \/ want' = [want EXCEPT ![d] = Wanted(d)]
    BY <1>5 DEF Ask
  <2>6. Wanted(d) \notin touched /\ c.pc \notin {"gone", "failed"} =>
          Sent(file[Wanted(d)], up[d], c, down[d])
    BY <1>3, <2>1, <2>4 DEF Sent, Early
  <2> QED
    BY <1>2, <2>1, <2>2, <2>4, <2>5, <2>6, ClientStep
<1>6. CASE GetSize(d)
  <2>1. client[d].pc = "size" /\ down[d] # << >> /\ down' = [down EXCEPT ![d] = Tail(down[d])]
        /\ UNCHANGED <<alive, accepting, fdt, up, want, disk>>
    BY <1>1, <1>6 DEF GetSize, Doing
  <2>2. PICK k \in Sizes : /\ IsSize(Head(down[d])) => k = Head(down[d]).size
                           /\ client' = [client EXCEPT ![d] = Begin(d, k)]
    <3>1. Head(down[d]) \in Sendable
      BY <1>1, <2>1, HeadTailProperties
    <3>2. IsSize(Head(down[d])) => Head(down[d]).size \in Sizes
      BY <3>1 DEF IsSize, Sendable
    <3> QED
      BY <1>6, <3>2 DEF GetSize
  <2>3. PICK c \in Clients : c = Begin(d, k)
    BY <1>1, <2>2 DEF Begin, Clients
  <2>4. c.pc = "bytes" /\ c.name = client[d].name /\ c.got = client[d].got /\ c.size = k
        /\ client' = [client EXCEPT ![d] = c]
    BY <1>1, <2>2, <2>3 DEF Begin, Clients
  <2>5. PICK way : way = Tail(down[d])
    OBVIOUS
  <2>6. Wanted(d) \notin touched => Sent(file[Wanted(d)], up[d], c, way)
    <3> SUFFICES ASSUME Wanted(d) \notin touched PROVE Sent(file[Wanted(d)], up[d], c, way)
      OBVIOUS
    <3>1. Sent(file[Wanted(d)], up[d], client[d], down[d])
      BY <1>3, <2>1
    <3>2. file[Wanted(d)] \in Contents
      BY <1>4, <2>1, <3>1
    <3>3. IsSize(Head(down[d]))
      BY <1>1, <2>1, <3>1, <3>2, SizeComesFirst
    <3> QED
      BY <1>1, <2>1, <2>2, <2>4, <2>5, <3>1, <3>2, <3>3, SentSizeRead
  <2> QED
    BY <2>1, <2>4, <2>5, <2>6, ClientStep
<1>7. CASE GetNoSize(d)
  <2>1. client[d].pc = "size" /\ down[d] = << >> /\ up[d].pc = "over"
        /\ UNCHANGED <<alive, accepting, fdt, up, want, down, disk>>
    BY <1>7, EndedIsServed DEF GetNoSize, Doing
  <2>2. Wanted(d) \in touched
    <3>1. ASSUME Wanted(d) \notin touched PROVE Len(down[d]) = up[d].pos + 1
      BY <1>3, <2>1, <3>1 DEF Sent
    <3>2. Len(down[d]) = 0 /\ up[d].pos \in Nat
      BY <1>1, <2>1 DEF Threads
    <3> QED
      BY <3>1, <3>2
  <2>3. PICK c \in Clients : /\ c.pc \in {"bytes", "failed"} /\ c.name = client[d].name
                             /\ client' = [client EXCEPT ![d] = c]
    <3>1. CASE client' = [client EXCEPT ![d].pc = "failed"]
      <4>1. [client[d] EXCEPT !.pc = "failed"] \in Clients
        BY <1>1 DEF Clients
      <4>2. client' = [client EXCEPT ![d] = [client[d] EXCEPT !.pc = "failed"]]
        BY <1>1, <3>1
      <4> QED
        BY <1>1, <4>1, <4>2 DEF Clients
    <3>2. ASSUME NEW k \in Sizes, client' = [client EXCEPT ![d] = Begin(d, k)]
          PROVE  \E c \in Clients : /\ c.pc \in {"bytes", "failed"}
                                    /\ c.name = client[d].name
                                    /\ client' = [client EXCEPT ![d] = c]
      <4>1. /\ Begin(d, k) \in Clients /\ Begin(d, k).pc = "bytes"
            /\ Begin(d, k).name = client[d].name
        BY <1>1 DEF Begin, Clients
      <4> QED
        BY <3>2, <4>1
    <3> QED
      BY <1>7, <3>1, <3>2 DEF GetNoSize
  <2> QED
    BY <1>2, <2>1, <2>2, <2>3, ClientStep
<1>8. CASE GetCell(d)
  <2>1. client[d].pc = "bytes" /\ down[d] # << >> /\ down' = [down EXCEPT ![d] = Tail(down[d])]
        /\ UNCHANGED <<alive, accepting, fdt, up, want, disk>>
    BY <1>1, <1>8 DEF GetCell, Doing
  <2>2. PICK x \in Cells \cup {"eof", "junk"} :
          /\ ~IsSize(Head(down[d])) => x = Head(down[d]).cell
          /\ client' = [client EXCEPT ![d].got = Append(@, x)]
    <3>1. Head(down[d]) \in Sendable
      BY <1>1, <2>1, HeadTailProperties
    <3>2. ~IsSize(Head(down[d])) => Head(down[d]).cell \in Cells \cup {"eof"}
      BY <3>1 DEF IsSize, Sendable
    <3> QED
      BY <1>8, <3>2 DEF GetCell, Got
  <2>3. PICK c \in Clients : c = [client[d] EXCEPT !.got = Append(client[d].got, x)]
    <3>1. Append(client[d].got, x) \in Seq(Cells \cup {"eof", "junk"})
      BY <1>1, AppendProperties DEF Clients
    <3> QED
      BY <1>1, <3>1 DEF Clients
  <2>4. c.pc = "bytes" /\ c.name = client[d].name /\ c.got = Append(client[d].got, x)
        /\ c.size = client[d].size /\ client' = [client EXCEPT ![d] = c]
    BY <1>1, <2>1, <2>2, <2>3 DEF Clients
  <2>5. PICK way : way = Tail(down[d])
    OBVIOUS
  <2>6. Wanted(d) \notin touched => Sent(file[Wanted(d)], up[d], c, way)
    <3> SUFFICES ASSUME Wanted(d) \notin touched PROVE Sent(file[Wanted(d)], up[d], c, way)
      OBVIOUS
    <3>1. Sent(file[Wanted(d)], up[d], client[d], down[d])
      BY <1>3, <2>1
    <3>2. file[Wanted(d)] \in Contents
      BY <1>4, <2>1, <3>1
    <3>3. ~IsSize(Head(down[d]))
      BY <1>1, <2>1, <3>1, <3>2, CellComesNext
    <3> QED
      BY <1>1, <2>1, <2>2, <2>4, <2>5, <3>1, <3>2, <3>3, SentCellRead
  <2> QED
    BY <2>1, <2>4, <2>5, <2>6, ClientStep
<1>9. CASE GetNoCell(d)
  <2>1. client[d].pc = "bytes" /\ down[d] = << >> /\ up[d].pc = "over"
        /\ Len(client[d].got) < client[d].size
        /\ UNCHANGED <<alive, accepting, fdt, up, want, down, disk>>
    BY <1>9, EndedIsServed DEF GetNoCell, Doing, Short
  <2>2. Wanted(d) \in touched
    <3> SUFFICES ASSUME Wanted(d) \notin touched PROVE FALSE
      OBVIOUS
    <3>1. Sent(file[Wanted(d)], up[d], client[d], down[d])
      BY <1>3, <2>1
    <3>2. /\ client[d].size = Len(file[Wanted(d)]) /\ up[d].pos = Len(file[Wanted(d)])
          /\ Len(client[d].got) + Len(down[d]) = up[d].pos
      BY <2>1, <3>1 DEF Sent
    <3>3. Len(down[d]) = 0 /\ Len(client[d].got) \in Nat
      BY <1>1, <2>1 DEF Clients
    <3> QED
      BY <2>1, <3>2, <3>3
  <2>3. PICK c \in Clients : c = [client[d] EXCEPT !.got = Append(client[d].got, "junk")]
    <3>1. Append(client[d].got, "junk") \in Seq(Cells \cup {"eof", "junk"})
      BY <1>1, AppendProperties DEF Clients
    <3> QED
      BY <1>1, <3>1 DEF Clients
  <2>4. c.pc = "bytes" /\ c.name = client[d].name /\ client' = [client EXCEPT ![d] = c]
    BY <1>1, <1>9, <2>1, <2>3 DEF GetNoCell, Got, Clients
  <2> QED
    BY <1>2, <2>1, <2>2, <2>4, ClientStep
<1>10. CASE Finish(d)
  <2>1. client[d].pc = "bytes" /\ ~(Len(client[d].got) < client[d].size)
        /\ down' = [down EXCEPT ![d] = << >>]
        /\ UNCHANGED <<alive, accepting, fdt, up, want, disk>>
    BY <1>10 DEF Finish, Doing, Short
  <2>2. PICK c \in Clients : c = [client[d] EXCEPT !.pc = "done"]
    BY <1>1 DEF Clients
  <2>3. c.pc = "done" /\ c.name = client[d].name /\ c.got = client[d].got
        /\ client' = [client EXCEPT ![d] = c]
    BY <1>1, <1>10, <2>2 DEF Finish, Clients
  <2>4. PICK way : way = << >>
    OBVIOUS
  <2>5. Wanted(d) \notin touched => Sent(file[Wanted(d)], up[d], c, way)
    BY <1>1, <1>3, <1>4, <2>1, <2>3, SentFinished
  <2> QED
    BY <2>1, <2>3, <2>4, <2>5, ClientStep
<1>11. CASE PeerDies(d)
  <2>1. client[d].pc # "connect" /\ down' = [down EXCEPT ![d] = << >>]
        /\ UNCHANGED <<alive, accepting, fdt, up, want, disk>>
    BY <1>11 DEF PeerDies
  <2>2. PICK c \in Clients : c = [client[d] EXCEPT !.pc = "gone"]
    BY <1>1 DEF Clients
  <2>3. c.pc = "gone" /\ c.name = client[d].name /\ client' = [client EXCEPT ![d] = c]
    BY <1>1, <1>11, <2>2 DEF PeerDies, Clients
  <2>4. PICK way : way = << >>
    OBVIOUS
  <2> QED
    BY <2>1, <2>3, <2>4, ClientStep
<1> QED
  BY <1>5, <1>6, <1>7, <1>8, <1>9, <1>10, <1>11, ConnectStep DEF Download

LEMMA UserStep ==
  ASSUME TypeOK, Parts, NEW n \in Names, Truncate(n) \/ Extend(n) \/ Delete(n)
  PROVE  Parts'
<1>1. PICK F : Write(n, F)
  BY DEF Truncate, Extend, Delete
<1>2. /\ UNCHANGED <<peer_sock, backlog, fdt, up, want, down, client>>
      /\ touched' = touched \cup {n} /\ \A x \in Names : x # n => file'[x] = file[x]
  BY <1>1 DEF Write, TypeOK, accepting
<1>3. BacklogInv' /\ OwnInv' /\ AskInv'
  BY <1>2 DEF Parts, BacklogInv, OwnInv, Unread, AskInv, Wanted
<1>4. StreamInv'
  <2>1. ASSUME NEW d \in Downloads, Wanted(d) \notin touched'
        PROVE  Wanted(d) \notin touched /\ file'[Wanted(d)] = file[Wanted(d)]
    BY <1>2, <2>1, Shapes
  <2> QED
    BY <1>2, <2>1 DEF Parts, StreamInv, Wanted
<1> QED
  BY <1>3, <1>4 DEF Parts

LEMMA InitCalm == Init => Parts
<1> SUFFICES ASSUME Init PROVE Parts
  OBVIOUS
<1>1. /\ \A d \in Downloads : up[d] = NoThread /\ want[d] = "none" /\ down[d] = << >>
      /\ backlog = << >> /\ Len(backlog) = 0
  BY DEF Init
<1>2. \A d \in Downloads : client[d].pc = "connect" /\ client[d].got = << >>
  BY DEF Init
<1>3. NoThread.pc = "none" /\ NoThread.pos = 0
  BY DEF NoThread
<1>4. BacklogInv /\ OwnInv /\ AskInv
  BY <1>1, <1>2, <1>3 DEF BacklogInv, OwnInv, AskInv, Early
<1>5. StreamInv
  BY <1>1, <1>2, <1>3 DEF StreamInv, Sent, Early
<1> QED
  BY <1>4, <1>5 DEF Parts

LEMMA CalmStep ==
  TypeOK /\ HeldInv /\ CalmInv /\ [Next]_vars => CalmInv'
<1> SUFFICES ASSUME TypeOK, HeldInv, CalmInv, [Next]_vars, Calm' PROVE Parts'
  BY DEF CalmInv
<1>1. Calm /\ Parts
  BY StillCalm DEF CalmInv
<1>2. CASE UNCHANGED vars
  BY <1>1, <1>2 DEF Parts, BacklogInv, OwnInv, Unread, AskInv, StreamInv, Wanted, vars
<1>3. CASE Listener
  BY <1>1, <1>3, AcceptStep, AcceptFailsStep DEF Listener
<1>4. ASSUME NEW t \in Downloads, Upload(t) PROVE Parts'
  BY <1>1, <1>4, UploadStep
<1>5. ASSUME NEW d \in Downloads, Download(d) \/ PeerDies(d) PROVE Parts'
  BY <1>1, <1>5, DownloadStep
<1>6. ASSUME NEW n \in Names, Truncate(n) \/ Extend(n) \/ Delete(n) PROVE Parts'
  BY <1>1, <1>6, UserStep
<1> QED
  BY <1>2, <1>3, <1>4, <1>5, <1>6 DEF Next

(* As long as every uploadThread reads peer_sock before the next accept(), *)
(* each works on its own connection, and a download that ends has its      *)
(* file, whole and in order.                                               *)
THEOREM WholeFileArrives == Spec => []WholeFile
<1>1. Init => TypeOK /\ HeldInv /\ CalmInv
  BY InitTypes, InitCalm DEF CalmInv
<1>2. TypeOK /\ HeldInv /\ CalmInv /\ [Next]_vars => (TypeOK /\ HeldInv /\ CalmInv)'
  BY TypeStep, CalmStep
<1>3. TypeOK /\ CalmInv => WholeFile
  <2> SUFFICES ASSUME TypeOK, CalmInv, NEW d \in Downloads, Doing(d, "done"), alive,
                      ~overrun, Wanted(d) \notin touched
               PROVE  client[d].got = file[Wanted(d)]
    BY DEF WholeFile
  <2>1. Parts /\ client[d].pc = "done"
    BY DEF CalmInv, Calm, Doing
  <2> QED
    BY <2>1 DEF Parts, StreamInv, Sent
<1> QED
  BY <1>1, <1>2, <1>3, PTL DEF Spec
=============================================================================
